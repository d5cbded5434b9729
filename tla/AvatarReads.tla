---------------------------- MODULE AvatarReads ----------------------------
(* Clients that read images while the avatars are processed and deleted: the  *)
(* GET handlers of the REST API over AvatarLifecycle.  A read takes its       *)
(* metadata from one SELECT, answers a conditional request from them alone,   *)
(* and fetches the body from the storage afterwards, which by then may have   *)
(* changed.  What an answer is worth depends on those two fitting together.   *)
EXTENDS AvatarLifecycle, ConditionalRequest

CONSTANT Clients       \* each reads one image at a time and keeps what it got

VARIABLES
    version,       \* updated_at of each row: how often it has been written
    read,          \* the request of each client
    cache          \* the answers each client has kept

reading == <<read, cache>>
readVars == <<vars, version, reading>>

Representations == Sizes \cup {"original"}

ETag(a, s) == <<a, s, version[a]>>

\* What Open serves for the row of a: a thumbnail the row lists, or the original.
ContentKey(a, s) == IF s \in rows[a].thumbs THEN Thumbnail(a, s) ELSE Original(a)

NoRead == [pc |-> "idle", avatar |-> NoAvatar, size |-> "original", etag |-> <<>>, key |-> <<>>]

ReadsInit ==
    /\ Init
    /\ version = [a \in Avatars |-> 0]
    /\ read = [c \in Clients |-> NoRead]
    /\ cache = [c \in Clients |-> {}]

----------------------------------------------------------------------------
\* The requests.

\* The SELECT of the metadata.  A read that finds no row changes nothing.
Select(c, a, s) ==
    /\ read[c].pc \in {"idle", "notFound"}
    /\ read' = [read EXCEPT ![c] = [pc |-> "metadata", avatar |-> a, size |-> s,
                                    etag |-> ETag(a, s), key |-> ContentKey(a, s)]]
    /\ UNCHANGED cache

Get(c) == \E a \in Avatars, s \in Representations : Visible(a) /\ Select(c, a, s)

\* The latest avatar of the user that is not deleted; without one the answer is
\* a picture that must not be cached.
GetCurrent(c) ==
    \E a \in Avatars, s \in Representations :
        /\ Visible(a)
        /\ \A b \in Avatars : Visible(b) => rows[b].created <= rows[a].created
        /\ Select(c, a, s)

\* What client c may ask about: nothing, anything, or the tags it has, in the
\* forms the header allows.
Conditions(c) ==
    LET tags == {e.etag : e \in cache[c]}
        comma == Symbol("comma", <<>>)
    IN {<<>>, <<Symbol("star", <<>>)>>}
         \cup {<<Tag(t)>> : t \in tags}
         \cup {<<WeakTag(t), comma, Tag(u)>> : t \in tags, u \in tags}

NotModified(c) ==
    /\ read[c].pc = "metadata"
    /\ \E h \in Conditions(c) : MatchesIfNoneMatch(h, Tag(read[c].etag))
    /\ read' = [read EXCEPT ![c] = NoRead]
    /\ UNCHANGED cache

Modified(c) ==
    /\ read[c].pc = "metadata"
    /\ \E h \in Conditions(c) : ~MatchesIfNoneMatch(h, Tag(read[c].etag))
    /\ read' = [read EXCEPT ![c].pc = "open"]
    /\ UNCHANGED cache

\* The image arrives and replaces what the client had under this address.
Keep(c, k) ==
    LET r == read[c] IN
    /\ read' = [read EXCEPT ![c] = NoRead]
    /\ cache' = [cache EXCEPT ![c] =
         {e \in @ : <<e.avatar, e.size>> # <<r.avatar, r.size>>}
           \cup {[avatar |-> r.avatar, size |-> r.size, etag |-> r.etag, content |-> k]}]

Open(c) ==
    /\ read[c].pc = "open"
    /\ read[c].key \in objects
    /\ Keep(c, read[c].key)

\* The object is not there: a thumbnail is replaced by the original.
OpenMissing(c) ==
    /\ read[c].pc = "open"
    /\ read[c].key \notin objects
    /\ read' = [read EXCEPT ![c].pc =
         IF read[c].key = Original(read[c].avatar) THEN "notFound" ELSE "fallback"]
    /\ UNCHANGED cache

Fallback(c) ==
    LET original == Original(read[c].avatar) IN
    /\ read[c].pc = "fallback"
    /\ \/ original \in objects /\ Keep(c, original)
       \/ /\ original \notin objects
          /\ read' = [read EXCEPT ![c].pc = "notFound"]
          /\ UNCHANGED cache

\* A dependency fails or its breaker is open (503): the client has nothing new.
ReadFails(c) ==
    /\ Fault
    /\ read[c].pc \notin {"idle", "notFound"}
    /\ read' = [read EXCEPT ![c] = NoRead]
    /\ UNCHANGED cache

Read(c) ==
    \/ Get(c) \/ GetCurrent(c)
    \/ NotModified(c) \/ Modified(c)
    \/ Open(c) \/ OpenMissing(c) \/ Fallback(c)

\* setProcessingStatus writes updated_at even when the status stays the same.
Rewritten(a) ==
    \E w \in Workers :
        process[w].avatar = a /\ process[w].pc = "reject" /\ process'[w].pc = "ack"

\* Wrong on purpose: the result of the processing leaves updated_at alone.
TouchOfStatus ==
    version' = [a \in Avatars |->
                  IF rows'[a].deleted # rows[a].deleted \/ Rewritten(a)
                  THEN version[a] + 1 ELSE version[a]]

\* Each UPDATE of a row sets updated_at.
Touch ==
    version' = [a \in Avatars |->
                  IF rows'[a] # rows[a] \/ Rewritten(a) THEN version[a] + 1 ELSE version[a]]

ReadsNext ==
    \/ Next /\ Touch /\ UNCHANGED reading
    \/ \E c \in Clients : Read(c) /\ UNCHANGED <<vars, version>>
    \/ \E c \in Clients :
         /\ ReadFails(c)
         /\ UNCHANGED <<picture, rows, objects, server, broker, worker, version>>

ReadsSpec == ReadsInit /\ [][ReadsNext]_readVars

----------------------------------------------------------------------------
\* Properties.

\* openapi.yaml, /api/v1/avatars/{avatar_id}: "once the thumbnails appear the old
\* ETag no longer matches", and 304 means "the content has not changed".  As long
\* as the avatar is visible, a copy whose tag is still the current one is what
\* the service would serve now: no copy taken before the processing, beside it or
\* by way of the fallback survives a revalidation it should not.
CurrentTagMeansCurrentCopy ==
    \A c \in Clients : \A e \in cache[c] :
        Visible(e.avatar) /\ e.etag = ETag(e.avatar, e.size)
            => e.content = ContentKey(e.avatar, e.size)

\* openapi.yaml: a missing thumbnail is answered with the original, "not 404".  A
\* read whose metadata are older than its body never ends in "not found" while
\* the avatar is there, whatever was processed, cleaned up or republished since.
VisibleAvatarIsServed ==
    \A c \in Clients : read[c].pc = "notFound" => ~Visible(read[c].avatar)

\* matchesIfNoneMatch answers every header as RFC 9110 wants it, whatever the tag
\* of the request under way is: lists, stars, weak tags and damaged headers.
HeaderIsReadAsSpecified ==
    \A c \in Clients : read[c].pc = "metadata" =>
        LET current == Tag(read[c].etag)
            other == <<NoAvatar, "original", 0>>
        IN \A h \in Headers({read[c].etag, other}, other, 2) :
             MatchesIfNoneMatch(h, current) = Names(h, current)
=============================================================================
