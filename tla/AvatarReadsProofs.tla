-------------------------- MODULE AvatarReadsProofs --------------------------
(* Theorems about ConditionalRequest and AvatarReads: every If-None-Match     *)
(* header is read as specified, and what clients keep and are refused fits    *)
(* the rows, for any number of avatars, replicas, clients and faults.         *)
EXTENDS AvatarReads, AvatarLifecycleProofs, SequenceTheorems, WellFoundedInduction, TLAPS

----------------------------------------------------------------------------
\* The If-None-Match header.

\* The order of the numbers is well founded.
LEMMA LeastElement ==
    ASSUME NEW T, T \subseteq Nat, T # {}
    PROVE  \E x \in T : \A y \in T : x <= y
<1> DEFINE R == {p \in Nat \X Nat : p[1] < p[2]}
<1>1. IsWellFoundedOn(R, Nat)
  BY NatLessThanWellFounded DEF OpToRel
<1>2. \E x \in T : \A y \in T : ~(<<y, x>> \in R)
  <2> HIDE DEF R
  <2> QED
    BY <1>1, WFMin
<1>3. \A x, y \in Nat : y < x => <<y, x>> \in R
  OBVIOUS
<1> HIDE DEF R
<1>4. PICK x \in T : \A y \in T : ~(<<y, x>> \in R)
  BY <1>2
<1>5. ASSUME NEW y \in T PROVE x <= y
  <2>1. x \in Nat /\ y \in Nat /\ ~(y < x)
    BY <1>3, <1>4
  <2> QED
    BY <2>1
<1> QED
  BY <1>5

\* For a header of any length, about any tag: the scan of matchesIfNoneMatch from left to
\* right finds what RFC 9110 looks for in the header as a whole.  The recursion is
\* compared with the direct answer from the end of the header backwards: the shortest
\* rest on which they differ would have a shorter one behind it.
THEOREM EveryHeaderIsReadAsSpecified ==
    ASSUME NEW header, NEW etag, NEW n \in Nat, DOMAIN header = 1..n, Len(header) = n
    PROVE  MatchesIfNoneMatch(header, etag) = Names(header, etag)
<1> DEFINE Hits(i) ==
             \/ header[i].kind = "star"
             \/ header[i].kind = "tag" /\ header[i].value = etag.value
           Passes(i) == header[i].kind \in {"comma", "tag"}
           NamedFrom(i) == \E j \in i..n : Hits(j) /\ \A k \in i..(j - 1) : Passes(k)
           Reading(f) ==
             [i \in 1..(Len(header) + 1) |->
                IF i > Len(header) THEN FALSE
                ELSE CASE header[i].kind = "comma" -> f[i + 1]
                       [] header[i].kind = "star" -> TRUE
                       [] header[i].kind = "tag" -> WeakMatch(header[i], etag) \/ f[i + 1]
                       [] OTHER -> FALSE]
           from == CHOOSE f : f = Reading(f)
           answer == [i \in 1..(n + 1) |-> NamedFrom(i)]
<1>1. MatchesIfNoneMatch(header, etag) = from[1]
  BY DEF MatchesIfNoneMatch
<1>2. \A i \in 1..n : NamedFrom(i) <=> Hits(i) \/ (Passes(i) /\ NamedFrom(i + 1))
  <2> SUFFICES ASSUME NEW i \in 1..n
               PROVE  NamedFrom(i) <=> Hits(i) \/ (Passes(i) /\ NamedFrom(i + 1))
    OBVIOUS
  <2> HIDE DEF Hits, Passes
  <2>1. ASSUME Hits(i) PROVE NamedFrom(i)
    BY <2>1
  <2>2. ASSUME Passes(i), NamedFrom(i + 1) PROVE NamedFrom(i)
    <3>1. PICK j \in (i + 1)..n : Hits(j) /\ \A k \in (i + 1)..(j - 1) : Passes(k)
      BY <2>2
    <3>2. \A k \in i..(j - 1) : k = i \/ k \in (i + 1)..(j - 1)
      BY <3>1
    <3> QED
      BY <2>2, <3>1, <3>2
  <2>3. ASSUME NamedFrom(i) PROVE Hits(i) \/ (Passes(i) /\ NamedFrom(i + 1))
    <3>1. PICK j \in i..n : Hits(j) /\ \A k \in i..(j - 1) : Passes(k)
      BY <2>3
    <3>2. CASE j = i
      BY <3>1, <3>2
    <3>3. CASE j # i
      <4>1. j \in (i + 1)..n /\ i \in i..(j - 1) /\ (i + 1)..(j - 1) \subseteq i..(j - 1)
        BY <3>1, <3>3
      <4> QED
        BY <3>1, <4>1
    <3> QED
      BY <3>2, <3>3
  <2> QED
    BY <2>1, <2>2, <2>3
<1>3. ~NamedFrom(n + 1)
  OBVIOUS
<1>4. ASSUME NEW f, NEW i \in 1..n
      PROVE  Reading(f)[i] = (CASE header[i].kind = "comma" -> f[i + 1]
                                [] header[i].kind = "star" -> TRUE
                                [] header[i].kind = "tag" -> WeakMatch(header[i], etag) \/ f[i + 1]
                                [] OTHER -> FALSE)
  <2>1. i \in 1..(Len(header) + 1) /\ ~(i > Len(header))
    OBVIOUS
  <2> QED
    BY <2>1, Zenon
<1>5. ASSUME NEW f PROVE Reading(f)[n + 1] = FALSE
  OBVIOUS
<1>6. ASSUME NEW f, NEW i \in 1..n, f[i + 1] = NamedFrom(i + 1)
      PROVE  Reading(f)[i] = NamedFrom(i)
  <2> HIDE DEF Reading, NamedFrom
  <2>1. NamedFrom(i) \in BOOLEAN /\ NamedFrom(i + 1) \in BOOLEAN
    BY DEF NamedFrom
  <2>2. NamedFrom(i) <=> Hits(i) \/ (Passes(i) /\ NamedFrom(i + 1))
    BY <1>2
  <2>3. CASE header[i].kind = "comma"
    BY <1>4, <1>6, <2>1, <2>2, <2>3
  <2>4. CASE header[i].kind = "star"
    BY <1>4, <1>6, <2>1, <2>2, <2>4
  <2>5. CASE header[i].kind = "tag"
    BY <1>4, <1>6, <2>1, <2>2, <2>5 DEF WeakMatch
  <2>6. CASE header[i].kind \notin {"comma", "star", "tag"}
    BY <1>4, <1>6, <2>1, <2>2, <2>6
  <2> QED
    BY <2>3, <2>4, <2>5, <2>6
<1>7. answer = Reading(answer)
  <2>1. ASSUME NEW i \in 1..(n + 1) PROVE answer[i] = Reading(answer)[i]
    <3>1. CASE i = n + 1
      BY <1>3, <1>5, <3>1
    <3>2. CASE i # n + 1
      <4>1. i \in 1..n /\ i + 1 \in 1..(n + 1)
        BY <3>2
      <4> HIDE DEF Reading, NamedFrom
      <4> QED
        BY <1>6, <4>1
    <3> QED
      BY <3>1, <3>2
  <2>2. /\ answer = [i \in 1..(n + 1) |-> answer[i]]
        /\ Reading(answer) = [i \in 1..(n + 1) |-> Reading(answer)[i]]
    OBVIOUS
  <2> HIDE DEF answer, Reading
  <2> QED
    BY <2>1, <2>2
<1>8. from = Reading(from)
  <2> HIDE DEF Reading, answer
  <2> QED
    BY <1>7, Zenon
<1>9. \A i \in 1..(n + 1) : from[i] = NamedFrom(i)
  <2> HIDE DEF Reading, NamedFrom, from
  <2> DEFINE Wrong == {d \in 0..n : from[n + 1 - d] # NamedFrom(n + 1 - d)}
  <2>1. CASE Wrong = {}
    <3>1. \A i \in 1..(n + 1) : n + 1 - i \in 0..n /\ n + 1 - (n + 1 - i) = i
      OBVIOUS
    <3> QED
      BY <2>1, <3>1
  <2>2. CASE Wrong # {}
    <3>1. PICK d \in Wrong : \A e \in Wrong : d <= e
      <4>1. Wrong \subseteq Nat
        OBVIOUS
      <4> HIDE DEF Wrong
      <4> QED
        BY <2>2, <4>1, LeastElement
    <3>2. d # 0
      <4>1. from[n + 1] = NamedFrom(n + 1)
        <5>1. from[n + 1] = FALSE
          BY <1>5, <1>8, Zenon
        <5>2. NamedFrom(n + 1) = FALSE
          BY <1>3 DEF NamedFrom
        <5> QED
          BY <5>1, <5>2
      <4>2. n + 1 - 0 = n + 1
        OBVIOUS
      <4> QED
        BY <4>1, <4>2
    <3>3. d - 1 \in 0..n /\ d - 1 \notin Wrong /\ n + 1 - (d - 1) = n + 1 - d + 1
      <4>1. d \in Nat /\ d <= n
        OBVIOUS
      <4>2. d - 1 \in 0..n /\ ~(d <= d - 1) /\ n + 1 - (d - 1) = n + 1 - d + 1
        BY <3>2, <4>1
      <4> HIDE DEF Wrong
      <4> QED
        BY <3>1, <4>2
    <3>4. n + 1 - d \in 1..n /\ from[n + 1 - d + 1] = NamedFrom(n + 1 - d + 1)
      BY <3>2, <3>3
    <3>5. from[n + 1 - d] = NamedFrom(n + 1 - d)
      BY <1>6, <1>8, <3>4
    <3> QED
      BY <3>5
  <2> QED
    BY <2>1, <2>2
<1>10. NamedFrom(1) = Names(header, etag)
  BY DEF Names
<1> QED
  <2> HIDE DEF from, NamedFrom
  <2>1. 1 \in 1..(n + 1)
    OBVIOUS
  <2> QED
    BY <1>1, <1>9, <1>10, <2>1

----------------------------------------------------------------------------
\* What a tag is worth.

Tags == Avatars \X Representations \X Nat

\* Key k is what the service served for size s of avatar a when its tag was t: as long as
\* a is visible and t its tag, it still is.
Faithful(a, s, t, k) ==
    /\ rows[a].status # "absent"
    /\ \E n \in 0..version[a] : t = <<a, s, n>>
    /\ Visible(a) /\ t = ETag(a, s) => k = ContentKey(a, s)

\* A read under way will keep a faithful answer.  One that fell back to the original does
\* so as well: the row that listed the missing thumbnail is deleted or has been rewritten.
ReadInv(c) ==
    LET r == read[c] IN
    /\ r.pc \in {"metadata", "open"} =>
         /\ r.avatar \in Avatars /\ r.etag \in Tags /\ r.key \in Keys
         /\ Faithful(r.avatar, r.size, r.etag, r.key)
    /\ r.pc = "fallback" =>
         /\ r.avatar \in Avatars /\ r.etag \in Tags
         /\ Faithful(r.avatar, r.size, r.etag, Original(r.avatar))
    /\ r.pc = "notFound" => r.avatar \in Avatars /\ (AmbiguousCommits \/ rows[r.avatar].deleted)

CacheInv(c) == \A e \in cache[c] : Faithful(e.avatar, e.size, e.etag, e.content)

Answers == [avatar : Avatars, size : Representations, etag : Tags, content : Keys]
Requests == [pc : {"idle", "metadata", "open", "fallback", "notFound"},
             avatar : Avatars \cup {NoAvatar}, size : Representations,
             etag : Tags \cup {<<>>}, key : Keys \cup {<<>>}]

ReadsTypeOK ==
    /\ version \in [Avatars -> Nat]
    /\ read \in [Clients -> Requests]
    /\ cache \in [Clients -> SUBSET Answers]

ReadsInv ==
    /\ ReadsTypeOK
    /\ \A c \in Clients : ReadInv(c) /\ CacheInv(c)

\* A row is never removed, and a deleted one stays deleted.
LEMMA RowsStay ==
    ASSUME FilesIInv, TypeOK', Next, NEW a \in Avatars
    PROVE  /\ rows[a].status # "absent" => rows'[a].status # "absent"
           /\ rows[a].deleted => rows'[a].deleted
<1> USE DEF Fault, AdvanceUpload, AdvanceProcess, MarkDeleted
<1>t. rows \in [Avatars -> Rows] /\ rows' \in [Avatars -> Rows]
  BY DEF FilesIInv, TypeOK
<1>1. ASSUME NEW b \in Avatars, Upload(b)
      PROVE  \/ rows' = rows
             \/ /\ rows[b].status = "absent" /\ ~rows[b].deleted
                /\ rows' = [rows EXCEPT ![b] = NewRow]
  <2>1. uploads[b] = "create" => rows[b].status = "absent" /\ ~rows[b].deleted
    BY DEF FilesIInv, RequestInv
  <2> QED
    BY <1>1, <2>1 DEF Upload, PutOriginal, PutOriginalFails, CreateRow, CreateRowFails,
          RemoveOrphan, RemoveOrphanFails, PublishUpload, PublishUploadFails, AbandonUpload
<1>2. ASSUME NEW b \in Avatars, Delete(b)
      PROVE  rows' = rows \/ rows' = [rows EXCEPT ![b].deleted = TRUE]
  BY <1>2 DEF Delete, SoftDelete, SoftDeleteUnanswered, PublishDelete, LoseDelete
<1>3. ASSUME NEW w \in Workers, Process(w) \/ Remove(w) \/ Reconcile(w) \/ WorkerFault(w)
      PROVE  \/ rows' = rows
             \/ rows' = [rows EXCEPT ![process[w].avatar].status = "completed",
                                     ![process[w].avatar].thumbs = Sizes]
             \/ rows' = [rows EXCEPT ![process[w].avatar].status = "failed"]
  BY <1>3 DEF Process, TakeUpload, LookUp, Download, OriginalMissing, RejectUpload, PutThumbnail,
        RecordResult, RecordFailure, AckUpload, Remove, TakeDelete, RemoveObject, AckDelete,
        Reconcile, ListStuck, Republish, WorkerFault, ProcessFails, RemoveFails, RepublishFails,
        WorkerStops, ConnectionBreaks
<1>4. ASSUME NEW b \in Avatars, Upload(b) \/ Delete(b)
      PROVE  /\ rows[a].status # "absent" => rows'[a].status # "absent"
             /\ rows[a].deleted => rows'[a].deleted
  BY <1>t, <1>1, <1>2, <1>4 DEF Rows
<1>5. ASSUME NEW w \in Workers, Process(w) \/ Remove(w) \/ Reconcile(w) \/ WorkerFault(w)
      PROVE  /\ rows[a].status # "absent" => rows'[a].status # "absent"
             /\ rows[a].deleted => rows'[a].deleted
  <2>1. CASE process[w].avatar = a
    <3>1. rows[a] \in Rows
      BY <1>t
    <3>2. /\ rows'[a].deleted = rows[a].deleted
          /\ rows'[a] = rows[a] \/ rows'[a].status \in {"completed", "failed"}
      <4>1. CASE rows' = rows
        BY <4>1
      <4>2. CASE rows' = [rows EXCEPT ![a].status = "completed", ![a].thumbs = Sizes]
        <5>1. rows'[a] = [rows[a] EXCEPT !.status = "completed", !.thumbs = Sizes]
          BY <1>t, <4>2
        <5> QED
          BY <3>1, <5>1 DEF Rows
      <4>3. CASE rows' = [rows EXCEPT ![a].status = "failed"]
        BY <1>t, <3>1, <4>3 DEF Rows
      <4> QED
        BY <1>3, <1>5, <2>1, <4>1, <4>2, <4>3
    <3> QED
      BY <3>2
  <2>2. CASE process[w].avatar # a
    BY <1>t, <1>3, <1>5, <2>2
  <2> QED
    BY <2>1, <2>2
<1> QED
  BY <1>4, <1>5 DEF Next

\* A step of the service: a row that is written gets another version.
LEMMA ServiceKeepsReads ==
    ASSUME FilesIInv, TypeOK', ReadsInv, Next, Touch, UNCHANGED reading
    PROVE  ReadsInv'
<1>t. ReadsTypeOK /\ UNCHANGED <<read, cache>>
  BY DEF ReadsInv, reading
<1>1. \A a \in Avatars :
        /\ version'[a] \in {version[a], version[a] + 1} /\ version[a] \in Nat
        /\ rows'[a] # rows[a] => version'[a] = version[a] + 1
  BY <1>t DEF ReadsTypeOK, Touch
<1>2. ReadsTypeOK'
  <2>1. version' \in [Avatars -> Nat]
    BY <1>t DEF ReadsTypeOK, Touch
  <2> QED
    BY <1>t, <2>1 DEF ReadsTypeOK
<1>3. ASSUME NEW a \in Avatars, NEW s, NEW t, NEW k, Faithful(a, s, t, k)
      PROVE  Faithful(a, s, t, k)'
  <2>1. PICK n \in 0..version[a] : t = <<a, s, n>>
    BY <1>3 DEF Faithful
  <2>2. rows'[a].status # "absent" /\ n \in 0..version'[a]
    BY <1>1, <1>3, <2>1, RowsStay DEF Faithful
  <2>3. ASSUME Visible(a)', t = ETag(a, s)'
        PROVE  k = ContentKey(a, s)'
    <3>1. n = version'[a]
      BY <2>1, <2>3 DEF ETag
    <3>2. n = version[a] /\ rows'[a] = rows[a]
      BY <1>1, <2>1, <3>1
    <3>3. Visible(a) /\ t = ETag(a, s)
      BY <2>1, <2>3, <3>2 DEF Visible, ETag
    <3> QED
      BY <1>3, <3>2, <3>3 DEF Faithful, ContentKey
  <2> QED
    BY <2>1, <2>2, <2>3 DEF Faithful
<1>4. ASSUME NEW c \in Clients
      PROVE  ReadInv(c)' /\ CacheInv(c)'
  <2>1. ReadInv(c) /\ CacheInv(c) /\ read'[c] = read[c] /\ cache'[c] = cache[c]
    BY <1>t DEF ReadsInv
  <2>2. CacheInv(c)'
    <3>1. \A e \in cache[c] : e.avatar \in Avatars
      BY <1>t DEF ReadsTypeOK, Answers
    <3>2. ASSUME NEW e \in cache[c] PROVE Faithful(e.avatar, e.size, e.etag, e.content)'
      BY <1>3, <2>1, <3>1 DEF CacheInv
    <3> QED
      BY <2>1, <3>2 DEF CacheInv
  <2>3. ReadInv(c)'
    <3>1. PICK r : r = read[c]
      OBVIOUS
    <3>2. r.avatar \in Avatars /\ rows[r.avatar].deleted => rows'[r.avatar].deleted
      BY RowsStay
    <3>3. \A k : r.avatar \in Avatars /\ Faithful(r.avatar, r.size, r.etag, k)
                   => Faithful(r.avatar, r.size, r.etag, k)'
      BY <1>3
    <3> QED
      BY <2>1, <3>1, <3>2, <3>3 DEF ReadInv
  <2> QED
    BY <2>2, <2>3
<1> QED
  BY <1>2, <1>4 DEF ReadsInv

\* A step of a client.  What it reads of the rows and of the storage fits the files
\* a visible row is known to have.
LEMMA ClientKeepsReads ==
    ASSUME FilesIInv, ReadsInv, NEW c \in Clients, Read(c) \/ ReadFails(c),
           UNCHANGED <<rows, objects, version>>
    PROVE  ReadsInv'
<1>t. /\ version \in [Avatars -> Nat] /\ rows \in [Avatars -> Rows]
      /\ read \in [Clients -> Requests] /\ read[c] \in Requests
      /\ cache \in [Clients -> SUBSET Answers]
  BY DEF ReadsInv, ReadsTypeOK, FilesIInv, TypeOK
<1>i. ReadInv(c) /\ CacheInv(c)
  BY DEF ReadsInv
<1>f. ASSUME NEW a \in Avatars, Visible(a)
      PROVE  /\ AmbiguousCommits \/ Original(a) \in objects
             /\ \A s \in rows[a].thumbs : Thumbnail(a, s) \in objects
  BY <1>f DEF FilesIInv, FilesInv, RequestInv, Visible
<1>u. \A a, s, t, k : Faithful(a, s, t, k)' <=> Faithful(a, s, t, k)
  BY DEF Faithful, Visible, ETag, ContentKey
\* It is enough to look at the request and the answers of c.
<1>q. ASSUME NEW r \in Requests, read' = [read EXCEPT ![c] = r],
             NEW A \in SUBSET Answers, cache' = [cache EXCEPT ![c] = A],
             r.pc \in {"metadata", "open"} =>
               /\ r.avatar \in Avatars /\ r.etag \in Tags /\ r.key \in Keys
               /\ Faithful(r.avatar, r.size, r.etag, r.key),
             r.pc = "fallback" =>
               /\ r.avatar \in Avatars /\ r.etag \in Tags
               /\ Faithful(r.avatar, r.size, r.etag, Original(r.avatar)),
             r.pc = "notFound" => r.avatar \in Avatars /\ (AmbiguousCommits \/ rows[r.avatar].deleted),
             \A e \in A : Faithful(e.avatar, e.size, e.etag, e.content)
      PROVE  ReadsInv'
  <2>1. ReadsTypeOK'
    BY <1>t, <1>q DEF ReadsTypeOK
  <2>2. ASSUME NEW b \in Clients PROVE ReadInv(b)' /\ CacheInv(b)'
    <3>1. CASE b = c
      <4>1. read'[b] = r /\ cache'[b] = A
        BY <1>t, <1>q, <3>1
      <4> QED
        BY <1>u, <1>q, <4>1 DEF ReadInv, CacheInv
    <3>2. CASE b # c
      <4>1. read'[b] = read[b] /\ cache'[b] = cache[b] /\ ReadInv(b) /\ CacheInv(b)
        BY <1>t, <1>q, <3>2 DEF ReadsInv
      <4> QED
        BY <1>u, <4>1 DEF ReadInv, CacheInv
    <3> QED
      BY <3>1, <3>2
  <2> QED
    BY <2>1, <2>2 DEF ReadsInv
<1>n. NoRead \in Requests /\ NoRead.pc = "idle"
  BY DEF NoRead, Requests, Representations
<1>c. UNCHANGED cache => cache' = [cache EXCEPT ![c] = cache[c]] /\ cache[c] \in SUBSET Answers
                         /\ \A e \in cache[c] : Faithful(e.avatar, e.size, e.etag, e.content)
  BY <1>t, <1>i DEF CacheInv
\* The answer that the client keeps.
<1>k. ASSUME NEW k \in Keys, Keep(c, k), read[c].avatar \in Avatars, read[c].etag \in Tags,
             Faithful(read[c].avatar, read[c].size, read[c].etag, k)
      PROVE  ReadsInv'
  <2> DEFINE e == [avatar |-> read[c].avatar, size |-> read[c].size, etag |-> read[c].etag, content |-> k]
             A == {d \in cache[c] : <<d.avatar, d.size>> # <<read[c].avatar, read[c].size>>} \cup {e}
  <2>1. read' = [read EXCEPT ![c] = NoRead] /\ cache' = [cache EXCEPT ![c] = A]
    BY <1>k DEF Keep
  <2>2. e \in Answers
    BY <1>k, <1>t DEF Answers, Requests
  <2>3. A \in SUBSET Answers
    BY <2>2, <1>t
  <2>4. \A d \in A : Faithful(d.avatar, d.size, d.etag, d.content)
    BY <1>i, <1>k DEF CacheInv
  <2> HIDE DEF A
  <2> QED
    BY <1>n, <1>q, <2>1, <2>3, <2>4
<1>1. ASSUME NEW a \in Avatars, NEW s \in Representations, Visible(a), Select(c, a, s)
      PROVE  ReadsInv'
  <2> DEFINE r == [pc |-> "metadata", avatar |-> a, size |-> s,
                   etag |-> ETag(a, s), key |-> ContentKey(a, s)]
  <2>1. ETag(a, s) \in Tags /\ ContentKey(a, s) \in Keys
    BY <1>t DEF ETag, Tags, ContentKey, Thumbnail, Original, Keys, Rows
  <2>2. r \in Requests
    BY <2>1 DEF Requests
  <2>3. Faithful(a, s, ETag(a, s), ContentKey(a, s))
    BY <1>1, <1>t DEF Faithful, Visible, ETag
  <2>4. read' = [read EXCEPT ![c] = r] /\ UNCHANGED cache
    BY <1>1 DEF Select
  <2>5. r.pc = "metadata" /\ r.avatar = a /\ r.size = s /\ r.etag = ETag(a, s) /\ r.key = ContentKey(a, s)
    OBVIOUS
  <2> HIDE DEF r
  <2> QED
    BY <1>c, <1>q, <2>1, <2>2, <2>3, <2>4, <2>5
<1>2. CASE NotModified(c) \/ ReadFails(c)
  BY <1>2, <1>c, <1>n, <1>q DEF NotModified, ReadFails
<1>3. ASSUME NEW p \in {"open", "fallback", "notFound"}, read' = [read EXCEPT ![c].pc = p], UNCHANGED cache,
             read[c].avatar \in Avatars /\ read[c].etag \in Tags,
             p = "open" =>
               /\ read[c].key \in Keys
               /\ Faithful(read[c].avatar, read[c].size, read[c].etag, read[c].key),
             p = "fallback" =>
               Faithful(read[c].avatar, read[c].size, read[c].etag, Original(read[c].avatar)),
             p = "notFound" => AmbiguousCommits \/ rows[read[c].avatar].deleted
      PROVE  ReadsInv'
  <2> DEFINE r == [read[c] EXCEPT !.pc = p]
  <2>1. /\ r \in Requests /\ r.pc = p /\ r.avatar = read[c].avatar /\ r.size = read[c].size
        /\ r.etag = read[c].etag /\ r.key = read[c].key
    BY <1>t DEF Requests
  <2>2. read' = [read EXCEPT ![c] = r]
    BY <1>3, <1>t
  <2> HIDE DEF r
  <2> QED
    BY <1>3, <1>c, <1>q, <2>1, <2>2
<1>4. CASE Modified(c)
  BY <1>3, <1>4, <1>i DEF Modified, ReadInv
<1>5. CASE Open(c)
  BY <1>5, <1>i, <1>k DEF Open, ReadInv
<1> DEFINE a == read[c].avatar
           s == read[c].size
           t == read[c].etag
\* What is not in the storage no visible row needs.
<1>6. CASE OpenMissing(c)
  <2>1. a \in Avatars /\ t \in Tags /\ Faithful(a, s, t, read[c].key) /\ read[c].key \notin objects
    BY <1>6, <1>i DEF OpenMissing, ReadInv
  <2>2. CASE read[c].key = Original(a)
    <3>1. AmbiguousCommits \/ rows[a].deleted
      BY <1>f, <2>1, <2>2 DEF Faithful, Visible
    <3>2. read' = [read EXCEPT ![c].pc = "notFound"] /\ UNCHANGED cache
      BY <1>6, <2>2 DEF OpenMissing
    <3> QED
      BY <1>3, <2>1, <3>1, <3>2
  <2>3. CASE read[c].key # Original(a)
    <3>1. ~(Visible(a) /\ t = ETag(a, s))
      BY <1>f, <2>1, <2>3 DEF Faithful, ContentKey
    <3>2. Faithful(a, s, t, Original(a))
      BY <2>1, <3>1 DEF Faithful
    <3>3. read' = [read EXCEPT ![c].pc = "fallback"] /\ UNCHANGED cache
      BY <1>6, <2>3 DEF OpenMissing
    <3> QED
      BY <1>3, <2>1, <3>2, <3>3
  <2> QED
    BY <2>2, <2>3
<1>7. CASE Fallback(c)
  <2>1. a \in Avatars /\ t \in Tags /\ Faithful(a, s, t, Original(a))
    BY <1>7, <1>i DEF Fallback, ReadInv
  <2>2. CASE Original(a) \in objects /\ Keep(c, Original(a))
    BY <1>k, <2>1, <2>2 DEF Original, Keys
  <2>3. CASE Original(a) \notin objects /\ read' = [read EXCEPT ![c].pc = "notFound"] /\ UNCHANGED cache
    <3>1. AmbiguousCommits \/ rows[a].deleted
      BY <1>f, <2>1, <2>3 DEF Faithful, Visible
    <3> QED
      BY <1>3, <2>1, <2>3, <3>1
  <2> QED
    BY <1>7, <2>2, <2>3 DEF Fallback
<1> QED
  BY <1>1, <1>2, <1>4, <1>5, <1>6, <1>7 DEF Read, Get, GetCurrent

----------------------------------------------------------------------------
\* The invariants hold for all values of the constants.  ReadsSpec allows no more of the
\* service than Spec does, except that a failed read uses up a fault.
LEMMA ReadsInvariance == ReadsSpec => [](FilesIInv /\ ReadsInv)
<1>1. ReadsInit => FilesIInv /\ ReadsInv
  <2> SUFFICES ASSUME ReadsInit PROVE FilesIInv /\ ReadsInv
    OBVIOUS
  <2>1. FilesIInv
    BY TypeInit, RecordTypes
       DEF ReadsInit, Init, FilesIInv, RequestInv, EventInv, RemoveInv, ProcessInv, FilesInv, NoRow,
           Visible
  <2>2. NoRead \in Requests /\ NoRead.pc = "idle"
    BY DEF NoRead, Requests, Representations
  <2>3. ReadsInv
    BY <2>2 DEF ReadsInit, ReadsInv, ReadsTypeOK, ReadInv, CacheInv
  <2> QED
    BY <2>1, <2>3
<1>2. FilesIInv /\ ReadsInv /\ [ReadsNext]_readVars => FilesIInv' /\ ReadsInv'
  <2> SUFFICES ASSUME FilesIInv, ReadsInv, [ReadsNext]_readVars PROVE FilesIInv' /\ ReadsInv'
    OBVIOUS
  <2>1. CASE Next /\ Touch /\ UNCHANGED reading
    <3>1. TypeOK'
      BY <2>1, TypeServer, TypeWorker DEF Next, FilesIInv
    <3>2. FilesIInv'
      BY <2>1, <3>1, FilesServer, FilesWorker DEF Next
    <3> QED
      BY <2>1, <3>1, <3>2, ServiceKeepsReads
  <2>2. ASSUME UNCHANGED <<picture, rows, objects, server, broker, worker>>, faults' \in 0..MaxFaults
        PROVE  FilesIInv'
    BY <2>2 DEF FilesIInv, TypeOK, RequestInv, EventInv, RemoveInv, ProcessInv, FilesInv, Visible,
                server, broker, worker
  <2>3. ASSUME NEW c \in Clients, Read(c), UNCHANGED <<vars, version>>
        PROVE  FilesIInv' /\ ReadsInv'
    <3>1. UNCHANGED <<picture, rows, objects, server, broker, worker, faults, version>>
      BY <2>3 DEF vars, server, broker, worker
    <3>2. faults' \in 0..MaxFaults
      BY <3>1 DEF FilesIInv, TypeOK
    <3> QED
      BY <2>2, <2>3, <3>1, <3>2, ClientKeepsReads
  <2>4. ASSUME NEW c \in Clients, ReadFails(c),
               UNCHANGED <<picture, rows, objects, server, broker, worker, version>>
        PROVE  FilesIInv' /\ ReadsInv'
    <3>1. faults' \in 0..MaxFaults
      BY <2>4, BoundsAssumption DEF ReadFails, Fault, FilesIInv, TypeOK
    <3> QED
      BY <2>2, <2>4, <3>1, ClientKeepsReads
  <2>5. CASE UNCHANGED readVars
    <3>1. UNCHANGED <<picture, rows, objects, server, broker, worker, faults, version, read, cache>>
      BY <2>5 DEF readVars, reading, vars, server, broker, worker
    <3>2. faults' \in 0..MaxFaults
      BY <3>1 DEF FilesIInv, TypeOK
    <3>3. ReadsInv'
      BY <3>1 DEF ReadsInv, ReadsTypeOK, ReadInv, CacheInv, Faithful, Visible, ETag, ContentKey
    <3> QED
      BY <2>2, <3>1, <3>2, <3>3
  <2> QED
    BY <2>1, <2>3, <2>4, <2>5 DEF ReadsNext
<1> QED
  BY <1>1, <1>2, PTL DEF ReadsSpec

\* For any number of clients, replicas and faults: a kept image whose tag is still the tag
\* of a visible avatar is what the service would serve now.
THEOREM KeptCopiesAreCurrent == ReadsSpec => []CurrentTagMeansCurrentCopy
<1>1. ReadsInv => CurrentTagMeansCurrentCopy
  BY DEF ReadsInv, CacheInv, Faithful, CurrentTagMeansCurrentCopy
<1> QED
  BY <1>1, ReadsInvariance, PTL

\* As long as no INSERT commits and reports an error: a read is answered with "not found"
\* only if the avatar was deleted meanwhile.
THEOREM VisibleAvatarsAreServed ==
    ASSUME ~AmbiguousCommits
    PROVE  ReadsSpec => []VisibleAvatarIsServed
<1>1. ReadsInv => VisibleAvatarIsServed
  BY DEF ReadsInv, ReadInv, Visible, VisibleAvatarIsServed
<1> QED
  BY <1>1, ReadsInvariance, PTL

\* Whatever the tag of the request under way: the headers of up to two elements, which is
\* what a run enumerates, are no exception to the theorem about every header.
THEOREM HeadersAreReadAsSpecified == ReadsSpec => []HeaderIsReadAsSpecified
<1>1. ASSUME NEW V, NEW v, NEW n \in Nat, NEW h \in Headers(V, v, n), NEW e
      PROVE  MatchesIfNoneMatch(h, e) = Names(h, e)
  <2>1. PICK k, S : k \in 0..n /\ h \in [1..k -> S]
    BY DEF Headers
  <2>2. h \in Seq(S)
    BY <2>1
  <2>3. k \in Nat /\ DOMAIN h = 1..k /\ Len(h) \in Nat /\ DOMAIN h = 1..Len(h)
    BY <2>1, <2>2
  <2>4. Len(h) = k
    BY <2>3
  <2> QED
    BY <2>3, <2>4, EveryHeaderIsReadAsSpecified
<1>2. HeaderIsReadAsSpecified
  BY <1>1 DEF HeaderIsReadAsSpecified
<1> QED
  BY <1>2, PTL
=============================================================================
