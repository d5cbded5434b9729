------------------------- MODULE ApiRequestsProofs -------------------------
(* Proofs about UserAvatars, for any users, avatars, requests and faults: what  *)
(* a request has changed agrees with its answer, refusals tell the truth, and   *)
(* "current" means the latest upload.  Then about ApiRequests: the limiters     *)
(* change nothing of that, and keep their own limits.                           *)
EXTENDS ApiRequests, FiniteSetTheorems, TLAPS

\* A step of request r.
Step(r) ==
    \/ \E kind \in Kinds \ {"none"}, u, o \in Users, a \in Avatars \cup {NoAvatar} :
          Arrive(r, kind, u, o, a)
    \/ Refuse(r)
    \/ Handle(r)

LEMMA NextIsAStep == UserNext <=> \E r \in Requests : Step(r)
BY DEF UserNext, Step

----------------------------------------------------------------------------
\* The inductive invariant.

\* No row is older than the clock, and time has passed since a committed one began.
Clocked ==
    \A a \in Avatars :
        /\ avatars[a].created <= clock
        /\ a \in Committed => avatars[a].created < clock

\* What the step of r says of its avatar; before the end r has changed nothing.
Progress(r) ==
    LET q == request[r] IN
    /\ q.step # "done" => q.answer = "none" /\ history[r].changed = {}
    /\ q.step = "idle" <=> q.kind = "none"
    /\ q.step \in {"insert", "commit"} => q.kind = "upload"
    /\ q.step = "commit" =>
         /\ q.avatar \in Avatars
         /\ avatars[q.avatar].state = "inserting" /\ avatars[q.avatar].owner = q.user
    /\ q.step \in {"update", "conflict"} =>
         /\ q.kind \in {"delete", "deleteCurrent"} /\ q.avatar \in Committed
         /\ q.kind = "deleteCurrent" => q.owner = q.user /\ avatars[q.avatar].owner = q.user
    /\ q.kind = "delete" => q.avatar \in Committed
    /\ q.kind = "deleteCurrent" /\ q.step = "arrived" => q.avatar = NoAvatar
    /\ q.step = "conflict" =>
         avatars[q.avatar].state = "deleted" \/ avatars[q.avatar].owner # q.user

\* What r has changed is its user's and stays so, and what it has removed stays removed.
Lasting(r) ==
    \A a \in history[r].changed :
        /\ a \in Committed /\ avatars[a].owner = request[r].user
        /\ request[r].kind # "upload" => avatars[a].state = "deleted"

\* What r found at its start.
Found(r) ==
    /\ history[r].older \subseteq Committed
    /\ history[r].stale =>
         request[r].kind = "delete" /\ avatars[request[r].avatar].state = "deleted"
    /\ At(r, {"deleteCurrent"}, "arrived") /\ VisibleOf(request[r].owner) = {} => history[r].empty

Truthful(r) ==
    LET q == request[r] IN
    /\ q.answer = "forbidden" =>
         IF q.kind = "delete"
         THEN avatars[q.avatar].owner # q.user /\ ~history[r].stale
         ELSE q.owner # q.user
    /\ q.answer = "notFound" =>
         \/ q.avatar = NoAvatar /\ history[r].empty
         \/ q.avatar \in Avatars /\ avatars[q.avatar].state = "deleted"

\* An upload is younger than all that was there when it came.
Younger(r) ==
    request[r].kind = "upload" =>
        \A a \in history[r].older :
            /\ request[r].step = "commit" => avatars[a].created < avatars[request[r].avatar].created
            /\ \A b \in history[r].changed : avatars[a].created < avatars[b].created

\* The current avatar is as young as any that r has found and that is still there.
Youngest(r) ==
    \A a \in Chosen(r) :
        /\ a \in Committed
        /\ \A b \in history[r].older \cap VisibleOf(request[r].owner) :
             avatars[b].created <= avatars[a].created

\* No two requests insert, or have changed, the same avatar in the same way.
Apart(r, q) ==
    /\ request[r].step = "commit" /\ request[q].step = "commit" => request[r].avatar # request[q].avatar
    /\ (request[r].kind = "upload") = (request[q].kind = "upload")
       => history[r].changed \cap history[q].changed = {}

Sound(r) ==
    /\ Progress(r) /\ Due(r) /\ Lasting(r) /\ Found(r)
    /\ Truthful(r) /\ Younger(r) /\ Youngest(r)

IInv ==
    /\ UserTypeOK
    /\ Clocked
    /\ \A r \in Requests : Sound(r)
    /\ \A r, q \in Requests : r # q => Apart(r, q)

----------------------------------------------------------------------------
\* Types.

LEMMA InitialTypes == UserInit => UserTypeOK
BY FaultsAssumption
   DEF UserInit, UserTypeOK, Rows, States, Idle, Untouched, RequestStates, Histories, Kinds,
       Steps, Answers

LEMMA FinishTypes ==
    ASSUME request \in [Requests -> RequestStates], NEW r \in Requests,
           NEW answer \in Answers, Finish(r, answer)
    PROVE  /\ request' \in [Requests -> RequestStates]
           /\ request' = [request EXCEPT ![r] = [kind |-> request[r].kind, user |-> request[r].user,
                            owner |-> request[r].owner, avatar |-> request[r].avatar,
                            step |-> "done", answer |-> answer]]
<1> DEFINE new == [kind |-> request[r].kind, user |-> request[r].user,
                  owner |-> request[r].owner, avatar |-> request[r].avatar,
                  step |-> "done", answer |-> answer]
<1>1. "done" \in Steps
  BY DEF Steps
<1>2. request[r] \in RequestStates
  OBVIOUS
<1>3. new \in RequestStates
  BY <1>1, <1>2 DEF RequestStates
<1>4. request'[r] = new
  BY <1>2 DEF Finish, RequestStates
<1>5. \A q \in Requests \ {r} : request'[q] = request[q]
  BY DEF Finish
<1> HIDE DEF new
<1>6. request' = [request EXCEPT ![r] = new]
  BY <1>4, <1>5 DEF Finish
<1> QED
  BY <1>3, <1>6 DEF new

LEMMA ChangedTypes ==
    ASSUME history \in [Requests -> Histories], NEW r \in Requests, NEW a \in Avatars, Changed(r, a)
    PROVE  history' \in [Requests -> Histories]
<1>1. ASSUME NEW q \in Requests
      PROVE  history'[q] \in Histories
  BY <1>1 DEF Changed, Histories
<1> QED
  BY <1>1 DEF Changed

LEMMA RowTypes ==
    ASSUME avatars \in [Avatars -> Rows], NEW a, NEW to \in States, SetState(a, to)
    PROVE  avatars' \in [Avatars -> Rows]
BY DEF SetState, Rows


LEMMA ArriveTypes ==
    ASSUME UserTypeOK, NEW r \in Requests, NEW kind \in Kinds \ {"none"}, NEW u \in Users,
           NEW o \in Users, NEW a \in Avatars \cup {NoAvatar}, Arrive(r, kind, u, o, a)
    PROVE  UserTypeOK'
<1> DEFINE new == [kind |-> kind, user |-> u, owner |-> o, avatar |-> a,
                   step |-> "arrived", answer |-> "none"]
<1>1. new \in RequestStates
  BY DEF RequestStates, Steps, Answers
<1>2. request' = [request EXCEPT ![r] = new]
  BY DEF Arrive
<1> HIDE DEF new
<1>3. request' \in [Requests -> RequestStates]
  BY <1>1, <1>2 DEF UserTypeOK
<1>4. ASSUME NEW q \in Requests
      PROVE  history'[q] \in Histories
  <2>1. history[q] \in Histories /\ Committed \subseteq Avatars
    BY DEF UserTypeOK, Committed
  <2> HIDE DEF Committed
  <2> QED
    BY <2>1 DEF Arrive, UserTypeOK, Histories
<1> QED
  BY <1>3, <1>4 DEF Arrive, UserTypeOK

LEMMA TypesAreKept ==
    ASSUME UserTypeOK, NEW r \in Requests, Progress(r), Step(r)
    PROVE  UserTypeOK'
<1> USE DEF UserTypeOK
<1>a. request[r] \in RequestStates /\ request[r].avatar \in Avatars \cup {NoAvatar}
  BY DEF RequestStates
<1>b. /\ "done" \in Steps /\ "insert" \in Steps /\ "commit" \in Steps
      /\ "update" \in Steps /\ "conflict" \in Steps
  BY DEF Steps
<1>c. \A x \in {"created", "avatar", "removed", "empty", "forbidden", "notFound", "tooMany",
                "unavailable", "error", "lost"} : x \in Answers
  BY DEF Answers
<1>d. \A x \in {"absent", "inserting", "visible", "deleted"} : x \in States
  BY DEF States
<1>f. ASSUME Fault PROVE faults' \in 0..MaxFaults
  BY <1>f, FaultsAssumption DEF Fault
<1>g. ASSUME NEW s \in Steps, request' = [request EXCEPT ![r].step = s]
      PROVE  request' \in [Requests -> RequestStates]
  BY <1>a, <1>g DEF RequestStates
<1>h. ASSUME NEW s \in Steps, NEW a \in Avatars, request' = [request EXCEPT ![r].step = s, ![r].avatar = a]
      PROVE  request' \in [Requests -> RequestStates]
  <2>1. \A q \in Requests \ {r} : request'[q] = request[q]
    BY <1>h
  <2>2. request'[r] \in RequestStates
    BY <1>a, <1>h DEF RequestStates
  <2> QED
    BY <1>h, <2>1, <2>2
<1>1. CASE \E kind \in Kinds \ {"none"}, u, o \in Users, a \in Avatars \cup {NoAvatar} :
              Arrive(r, kind, u, o, a)
  BY <1>1, ArriveTypes
<1>2. CASE Refuse(r) \/ CheckOwner(r) \/ DeleteConflict(r) \/ Unavailable(r) \/ Fails(r)
  <2>1. \E answer \in Answers : Finish(r, answer)
    BY <1>2, <1>c DEF Refuse, CheckOwner, DeleteConflict, Unavailable, Fails
  <2> QED
    BY <1>2, <1>f, <2>1, FinishTypes DEF Refuse, CheckOwner, DeleteConflict, Unavailable, Fails
<1>3. CASE StoreOriginal(r) \/ NothingUpdated(r)
  BY <1>3, <1>b, <1>g DEF StoreOriginal, NothingUpdated
<1>4. CASE BeginInsert(r)
  <2>1. PICK a \in Avatars :
          /\ avatars' = [avatars EXCEPT ![a] =
                           [owner |-> request[r].user, created |-> clock, state |-> "inserting"]]
          /\ request' = [request EXCEPT ![r].step = "commit", ![r].avatar = a]
    BY <1>4 DEF BeginInsert
  <2>2. avatars' \in [Avatars -> Rows]
    BY <1>a, <1>d, <2>1 DEF Rows, RequestStates
  <2> QED
    BY <1>4, <1>b, <1>h, <2>1, <2>2 DEF BeginInsert
<1>5. ASSUME Insert(r) \/ Rollback(r) \/ Update(r)
      PROVE  avatars' \in [Avatars -> Rows] /\ clock' \in Nat
  BY <1>5, <1>d, RowTypes DEF Insert, Rollback, Update
<1>6. ASSUME Insert(r) \/ Rollback(r) \/ Update(r)
      PROVE  history' \in [Requests -> Histories]
  <2>1. CASE Rollback(r)
    BY <2>1 DEF Rollback
  <2>2. CASE Insert(r) \/ Update(r)
    <3>1. request[r].avatar \in Avatars
      BY <2>2 DEF Insert, Update, Deleting, At, Progress, Committed
    <3> QED
      BY <2>2, <3>1, ChangedTypes DEF Insert, Update
  <2> QED
    BY <1>6, <2>1, <2>2
<1>7. CASE \/ CommitInsert(r) \/ InsertUnanswered(r) \/ InsertFails(r)
           \/ SoftDelete(r) \/ SoftDeleteUnanswered(r)
  <2>1. Insert(r) \/ Rollback(r) \/ Update(r)
    BY <1>7 DEF CommitInsert, InsertUnanswered, InsertFails, SoftDelete, SoftDeleteUnanswered
  <2>2. \E answer \in Answers : Finish(r, answer)
    BY <1>7, <1>c DEF CommitInsert, InsertUnanswered, InsertFails, SoftDelete, SoftDeleteUnanswered
  <2>3. faults' \in 0..MaxFaults
    BY <1>7, <1>f DEF CommitInsert, InsertUnanswered, InsertFails, SoftDelete, SoftDeleteUnanswered
  <2> QED
    BY <1>5, <1>6, <2>1, <2>2, <2>3, FinishTypes
<1>8. CASE Cut(r)
  <2>1. request' \in [Requests -> RequestStates] /\ faults' \in 0..MaxFaults
    BY <1>8, <1>c, <1>f, FinishTypes DEF Cut
  <2> QED
    BY <1>5, <1>6, <1>8, <2>1 DEF Cut
<1>9. ASSUME NEW a \in Avatars, NEW s \in Steps, NEW answer \in Answers,
             request' = [request EXCEPT ![r].step = s, ![r].answer = answer, ![r].avatar = a]
      PROVE  request' \in [Requests -> RequestStates]
  <2>1. \A q \in Requests \ {r} : request'[q] = request[q]
    BY <1>9
  <2>2. request'[r] \in RequestStates
    BY <1>a, <1>9 DEF RequestStates
  <2> QED
    BY <1>9, <2>1, <2>2
<1>10. CASE ReadLatest(r)
  <2>1. CASE Finish(r, "empty")
    BY <1>10, <1>c, <2>1, FinishTypes DEF ReadLatest
  <2>2. CASE \E a \in Latest(request[r].owner) :
               request' = [request EXCEPT ![r].step = "done", ![r].answer = "avatar", ![r].avatar = a]
    BY <1>10, <1>b, <1>c, <1>9, <2>2 DEF ReadLatest, Latest, VisibleOf
  <2> QED
    BY <1>10, <2>1, <2>2 DEF ReadLatest
<1>11. CASE LookUpCurrent(r)
  <2>1. CASE Finish(r, "notFound")
    BY <1>11, <1>c, <2>1, FinishTypes DEF LookUpCurrent
  <2>2. CASE \E a \in Latest(request[r].owner) :
               request' = [request EXCEPT ![r].step = "update", ![r].avatar = a]
    BY <1>11, <1>b, <1>h, <2>2 DEF LookUpCurrent, Latest, VisibleOf
  <2> QED
    BY <1>11, <2>1, <2>2 DEF LookUpCurrent
<1> QED
  BY <1>1, <1>2, <1>3, <1>4, <1>7, <1>8, <1>10, <1>11 DEF Step, Handle, Upload, Delete

----------------------------------------------------------------------------
\* What a step of one request leaves to the others.

\* The rows a step touches.
LEMMA TableSteps ==
    ASSUME UserTypeOK, NEW r \in Requests, Step(r)
    PROVE  \/ UNCHANGED <<avatars, clock>>
           \/ BeginInsert(r) \/ Insert(r) \/ Rollback(r) \/ Update(r)
BY DEF Step, Arrive, Refuse, Handle, Upload, StoreOriginal, CommitInsert, InsertUnanswered,
       InsertFails, ReadLatest, Delete, CheckOwner, LookUpCurrent, SoftDelete,
       SoftDeleteUnanswered, NothingUpdated, DeleteConflict, Unavailable, Fails, Cut

\* A committed row stays what it is, except that it may be deleted, once and for all.
LEMMA RowsLast ==
    ASSUME UserTypeOK, NEW r \in Requests, Progress(r), Step(r), NEW a \in Committed
    PROVE  /\ a \in Committed'
           /\ avatars'[a].owner = avatars[a].owner /\ avatars'[a].created = avatars[a].created
           /\ avatars[a].state = "deleted" => avatars'[a].state = "deleted"
<1>1. a \in Avatars /\ avatars[a] \in Rows
  BY DEF Committed, UserTypeOK
<1>2. CASE UNCHANGED <<avatars, clock>>
  BY <1>2 DEF Committed
<1>3. CASE BeginInsert(r)
  BY <1>1, <1>3 DEF BeginInsert, Committed, UserTypeOK
<1>4. CASE Insert(r) \/ Rollback(r)
  <2>1. request[r].avatar # a
    BY <1>4 DEF Insert, Rollback, At, Progress, Committed
  <2> QED
    BY <1>1, <1>4, <2>1 DEF Insert, Rollback, SetState, Committed, UserTypeOK
<1>5. CASE Update(r)
  <2>1. avatars[request[r].avatar].state = "visible"
    BY <1>5 DEF Update, Mine, Visible
  <2>2. avatars' = [avatars EXCEPT ![request[r].avatar].state = "deleted"]
    BY <1>5 DEF Update, SetState
  <2>3. CASE request[r].avatar = a
    BY <1>1, <2>1, <2>2, <2>3 DEF Committed, UserTypeOK, Rows
  <2>4. CASE request[r].avatar # a
    BY <1>1, <2>2, <2>4 DEF Committed, UserTypeOK
  <2> QED
    BY <2>3, <2>4
<1> QED
  BY <1>2, <1>3, <1>4, <1>5, TableSteps

\* Nobody else touches the row that r is inserting.
LEMMA InsertionsAreLeftAlone ==
    ASSUME UserTypeOK, NEW r \in Requests, NEW q \in Requests \ {r}, Progress(r), Progress(q),
           Apart(q, r), Step(r), request[q].step = "commit"
    PROVE  avatars'[request[q].avatar] = avatars[request[q].avatar]
<1> DEFINE a == request[q].avatar
<1>1. a \in Avatars /\ avatars[a].state = "inserting"
  BY DEF Progress
<1>2. CASE UNCHANGED <<avatars, clock>>
  BY <1>2
<1>3. CASE BeginInsert(r)
  BY <1>1, <1>3 DEF BeginInsert, UserTypeOK
<1>4. CASE Insert(r) \/ Rollback(r)
  BY <1>1, <1>4 DEF Insert, Rollback, SetState, At, Apart, UserTypeOK
<1>5. CASE Update(r)
  BY <1>1, <1>5 DEF Update, SetState, Mine, Visible, UserTypeOK
<1> QED
  BY <1>2, <1>3, <1>4, <1>5, TableSteps

\* The other requests, and what they remember, but for one thing.
LEMMA OthersStay ==
    ASSUME UserTypeOK, NEW r \in Requests, NEW q \in Requests \ {r}, Step(r)
    PROVE  /\ request'[q] = request[q]
           /\ history'[q].older = history[q].older
           /\ history'[q].stale = history[q].stale
           /\ history'[q].changed = history[q].changed
           /\ history[q].empty => history'[q].empty
<1>1. history[q] \in Histories
  BY DEF UserTypeOK
<1>2. request'[q] = request[q]
  BY DEF UserTypeOK, Step, Arrive, Refuse, Handle, Upload, StoreOriginal, BeginInsert, CommitInsert,
         InsertUnanswered, InsertFails, ReadLatest, Delete, CheckOwner, LookUpCurrent, SoftDelete,
         SoftDeleteUnanswered, NothingUpdated, DeleteConflict, Unavailable, Fails, Cut, Finish
<1>3. ASSUME NEW a, Changed(r, a)
      PROVE  /\ history'[q].older = history[q].older
             /\ history'[q].stale = history[q].stale
             /\ history'[q].changed = history[q].changed
             /\ history[q].empty => history'[q].empty
  BY <1>1, <1>3 DEF Changed, Histories
<1>4. \/ UNCHANGED history
      \/ \E a : Changed(r, a)
      \/ \E kind, u, o, a : Arrive(r, kind, u, o, a)
  BY DEF Step, Refuse, Handle, Upload, StoreOriginal, BeginInsert, CommitInsert, InsertUnanswered,
         InsertFails, ReadLatest, Delete, CheckOwner, LookUpCurrent, SoftDelete,
         SoftDeleteUnanswered, NothingUpdated, DeleteConflict, Unavailable, Fails, Cut,
         Insert, Rollback, Update
<1>5. ASSUME NEW kind, NEW u, NEW o, NEW a, Arrive(r, kind, u, o, a)
      PROVE  history'[q] = history[q]
  BY <1>5 DEF Arrive, UserTypeOK
<1> QED
  BY <1>2, <1>3, <1>4, <1>5

\* A removal that leaves the owner of a request for the current avatar without any is
\* remembered by that request.
LEMMA NobodyMissesTheEnd ==
    ASSUME UserTypeOK, NEW r \in Requests, NEW q \in Requests, q # r, Step(r), Progress(r),
           At(q, {"deleteCurrent"}, "arrived"), VisibleOf(request[q].owner) # {},
           NEW o, o = request[q].owner, \A a \in Avatars : ~(avatars'[a].state = "visible" /\ avatars'[a].owner = o)
    PROVE  history'[q].empty
<1>1. PICK v \in Avatars : avatars[v].state = "visible" /\ avatars[v].owner = o
  BY DEF VisibleOf, Visible
<1>2. CASE UNCHANGED <<avatars, clock>>
  BY <1>1, <1>2
<1>3. CASE BeginInsert(r)
  BY <1>1, <1>3 DEF BeginInsert, UserTypeOK
<1>4. CASE Rollback(r)
  BY <1>1, <1>4 DEF Rollback, SetState, At, Progress, UserTypeOK
<1>5. CASE Insert(r) \/ Update(r)
  <2>1. Changed(r, request[r].avatar)
    BY <1>5 DEF Insert, Update
  <2>2. NoneLeft(request[q].owner)
    BY DEF NoneLeft
  <2> QED
    BY <2>1, <2>2 DEF Changed, UserTypeOK, Histories
<1> QED
  BY <1>2, <1>3, <1>4, <1>5, TableSteps

LEMMA OthersStaySound ==
    ASSUME IInv, NEW r \in Requests, NEW q \in Requests \ {r}, Step(r)
    PROVE  Sound(q)'
<1> USE DEF Sound
<1>0. UserTypeOK /\ Progress(r) /\ Sound(q) /\ Apart(q, r)
  BY DEF IInv
<1>1. /\ request'[q] = request[q]
      /\ history'[q].older = history[q].older
      /\ history'[q].stale = history[q].stale
      /\ history'[q].changed = history[q].changed
      /\ history[q].empty => history'[q].empty
  BY <1>0, OthersStay
<1>2. \A a \in Committed :
           /\ a \in Committed'
           /\ avatars'[a].owner = avatars[a].owner /\ avatars'[a].created = avatars[a].created
           /\ avatars[a].state = "deleted" => avatars'[a].state = "deleted"
           /\ avatars'[a].state = "visible" => avatars[a].state = "visible"
  <2> SUFFICES ASSUME NEW a \in Committed
               PROVE  /\ a \in Committed'
                      /\ avatars'[a].owner = avatars[a].owner /\ avatars'[a].created = avatars[a].created
                      /\ avatars[a].state = "deleted" => avatars'[a].state = "deleted"
                      /\ avatars'[a].state = "visible" => avatars[a].state = "visible"
    OBVIOUS
  <2>1. avatars[a].state \in {"visible", "deleted"}
    BY DEF Committed
  <2> QED
    BY <1>0, <2>1, RowsLast
<1>3. request[q].step = "commit" => avatars'[request[q].avatar] = avatars[request[q].avatar]
  BY <1>0, InsertionsAreLeftAlone
<1>4. \A a \in Avatars : a \in Committed <=> avatars[a].state \in {"visible", "deleted"}
  BY DEF Committed
<1>5. Progress(q)'
  BY <1>0, <1>1, <1>2, <1>3 DEF Progress
<1>6. Due(q)'
  BY <1>0, <1>1 DEF Due
<1>7. Lasting(q)'
  BY <1>0, <1>1, <1>2 DEF Lasting
<1>8. Found(q)'
  <2>1. history'[q].older \subseteq Committed'
    BY <1>0, <1>1, <1>2 DEF Found
  <2>2. history'[q].stale =>
          request'[q].kind = "delete" /\ avatars'[request'[q].avatar].state = "deleted"
    BY <1>0, <1>1, <1>2 DEF Found, Progress
  <2>3. ASSUME At(q, {"deleteCurrent"}, "arrived")', VisibleOf(request[q].owner)' = {}
        PROVE  history'[q].empty
    <3>1. At(q, {"deleteCurrent"}, "arrived") /\ request'[q].owner = request[q].owner
      BY <1>1, <2>3 DEF At
    <3>2. \A a \in Avatars : ~(avatars'[a].state = "visible" /\ avatars'[a].owner = request[q].owner)
      BY <1>1, <2>3 DEF VisibleOf, Visible
    <3>3. CASE VisibleOf(request[q].owner) = {}
      BY <1>0, <1>1, <3>1, <3>3 DEF Found
    <3>4. CASE VisibleOf(request[q].owner) # {}
      BY <1>0, <3>1, <3>2, <3>4, NobodyMissesTheEnd
    <3> QED
      BY <3>3, <3>4
  <2> QED
    BY <2>1, <2>2, <2>3 DEF Found
<1>9. Truthful(q)'
  BY <1>0, <1>1, <1>2, <1>4 DEF Truthful, Progress
<1>10. Younger(q)'
  BY <1>0, <1>1, <1>2, <1>3 DEF Younger, Found, Lasting
<1>11. Youngest(q)'
  <2>1. Chosen(q)' = Chosen(q) /\ request'[q].owner = request[q].owner
    BY <1>1 DEF Chosen
  <2>2. ASSUME NEW b \in history'[q].older, b \in VisibleOf(request[q].owner)'
        PROVE  b \in history[q].older \cap VisibleOf(request[q].owner)
    BY <1>0, <1>1, <1>2, <2>2 DEF Found, VisibleOf, Visible
  <2> QED
    BY <1>0, <1>1, <1>2, <2>1, <2>2 DEF Youngest, Found
<1> QED
  BY <1>5, <1>6, <1>7, <1>8, <1>9, <1>10, <1>11

----------------------------------------------------------------------------
\* What a step does for its own request.

LEMMA ArrivalIsSound ==
    ASSUME IInv, NEW r \in Requests, NEW kind \in Kinds \ {"none"}, NEW u \in Users,
           NEW o \in Users, NEW a \in Avatars \cup {NoAvatar}, Arrive(r, kind, u, o, a)
    PROVE  Sound(r)'
<1>0. UserTypeOK /\ Progress(r)
  BY DEF IInv, Sound
<1>1. /\ request'[r].kind = kind /\ request'[r].user = u /\ request'[r].owner = o
      /\ request'[r].avatar = a /\ request'[r].step = "arrived" /\ request'[r].answer = "none"
      /\ UNCHANGED <<avatars, clock>>
      /\ kind = "delete" => a \in Committed
      /\ kind # "delete" => a = NoAvatar
  BY <1>0 DEF Arrive, UserTypeOK
<1>2. /\ history'[r].older = Committed
      /\ history'[r].stale = (kind = "delete" /\ ~Visible(a))
      /\ history'[r].empty = (kind = "deleteCurrent" /\ VisibleOf(o) = {})
      /\ history'[r].changed = history[r].changed
  <2>1. history[r] \in Histories
    BY <1>0 DEF UserTypeOK
  <2> QED
    BY <1>0, <2>1 DEF Arrive, UserTypeOK, Histories
<1>3. history[r].changed = {}
  BY <1>0 DEF Arrive, Progress
<1>4. Committed' = Committed /\ VisibleOf(o)' = VisibleOf(o)
  BY <1>1 DEF Committed, VisibleOf, Visible
<1>5. Progress(r)'
  BY <1>1, <1>2, <1>3, <1>4 DEF Progress
<1>6. Due(r)' /\ Lasting(r)' /\ Truthful(r)' /\ Younger(r)'
  BY <1>1, <1>2, <1>3 DEF Due, Lasting, Truthful, Younger
<1>7. Found(r)'
  <2>1. history'[r].stale => request'[r].kind = "delete" /\ avatars'[request'[r].avatar].state = "deleted"
    BY <1>1, <1>2 DEF Committed, Visible
  <2> QED
    BY <1>1, <1>2, <1>4, <2>1 DEF Found, At
<1>8. Youngest(r)'
  <2>1. Chosen(r)' = {}
    BY <1>1 DEF Chosen
  <2> QED
    BY <2>1 DEF Youngest
<1> QED
  BY <1>5, <1>6, <1>7, <1>8 DEF Sound

\* The shape of an end.
LEMMA EndOf ==
    ASSUME UserTypeOK, NEW r \in Requests, NEW answer, Finish(r, answer)
    PROVE  /\ request'[r].kind = request[r].kind /\ request'[r].user = request[r].user
           /\ request'[r].owner = request[r].owner /\ request'[r].avatar = request[r].avatar
           /\ request'[r].step = "done" /\ request'[r].answer = answer
<1>1. request[r] \in RequestStates
  BY DEF UserTypeOK
<1> QED
  BY <1>1 DEF Finish, UserTypeOK, RequestStates

\* A request that ends without having changed anything is sound if its answer is true.
LEMMA QuietEnd ==
    ASSUME IInv, NEW r \in Requests, request[r].step \notin {"idle", "done"},
           NEW answer, Finish(r, answer), UNCHANGED history,
           \A a \in Committed : avatars'[a] = avatars[a],
           answer \in {"tooMany", "unavailable", "error", "lost", "empty", "forbidden", "notFound"},
           Truthful(r)'
    PROVE  Sound(r)'
<1>0. UserTypeOK /\ Sound(r)
  BY DEF IInv
<1>1. /\ request'[r].kind = request[r].kind /\ request'[r].user = request[r].user
      /\ request'[r].owner = request[r].owner /\ request'[r].avatar = request[r].avatar
      /\ request'[r].step = "done" /\ request'[r].answer = answer
  BY <1>0, EndOf
<1>2. history[r].changed = {} /\ history'[r] = history[r]
  BY <1>0 DEF Sound, Progress
<1>3. \A a \in Committed : a \in Committed'
  BY DEF Committed
<1>4. Progress(r)'
  BY <1>0, <1>1, <1>3 DEF Sound, Progress
<1>5. Due(r)' /\ Lasting(r)' /\ Younger(r)'
  BY <1>1, <1>2 DEF Due, Lasting, Younger
<1>6. Found(r)'
  <2>1. history'[r].stale => request'[r].kind = "delete" /\ avatars'[request'[r].avatar].state = "deleted"
    <3> SUFFICES ASSUME history'[r].stale
                 PROVE  request'[r].kind = "delete" /\ avatars'[request'[r].avatar].state = "deleted"
      OBVIOUS
    <3>1. request[r].kind = "delete" /\ avatars[request[r].avatar].state = "deleted"
      BY <1>0, <1>2 DEF Sound, Found
    <3>2. request[r].avatar \in Committed
      BY <1>0, <3>1 DEF Sound, Progress
    <3> QED
      BY <1>1, <3>1, <3>2
  <2>2. ~At(r, {"deleteCurrent"}, "arrived")'
    BY <1>1 DEF At
  <2> QED
    BY <1>0, <1>2, <1>3, <2>1, <2>2 DEF Sound, Found
<1>7. Youngest(r)'
  <2>1. Chosen(r)' \subseteq Chosen(r)
    BY <1>1 DEF Chosen
  <2>2. history[r].older \subseteq Committed
    BY <1>0 DEF Sound, Found
  <2>3. ASSUME NEW b \in history'[r].older, b \in VisibleOf(request[r].owner)'
        PROVE  b \in history[r].older \cap VisibleOf(request[r].owner)
    BY <1>1, <1>2, <2>2, <2>3 DEF VisibleOf, Visible
  <2> QED
    BY <1>0, <1>1, <1>2, <1>3, <2>1, <2>2, <2>3 DEF Sound, Youngest
<1> QED
  BY <1>4, <1>5, <1>6, <1>7 DEF Sound

LEMMA InsertIsSound ==
    ASSUME IInv, NEW r \in Requests, Insert(r), NEW answer \in {"created", "error", "lost"},
           Finish(r, answer)
    PROVE  Sound(r)'
<1> DEFINE a == request[r].avatar
<1>0. UserTypeOK /\ Sound(r) /\ Clocked
  BY DEF IInv
<1>1. /\ request'[r].kind = request[r].kind /\ request'[r].user = request[r].user
      /\ request'[r].owner = request[r].owner /\ request'[r].avatar = request[r].avatar
      /\ request'[r].step = "done" /\ request'[r].answer = answer
  BY <1>0, EndOf
<1>2. /\ request[r].kind = "upload" /\ request[r].step = "commit" /\ a \in Avatars
      /\ avatars[a].state = "inserting" /\ avatars[a].owner = request[r].user
      /\ history[r].changed = {}
  BY <1>0 DEF Insert, At, Sound, Progress
<1>3. /\ history'[r].changed = {a}
      /\ history'[r].older = history[r].older /\ history'[r].stale = history[r].stale
  BY <1>0, <1>2 DEF Insert, Changed, UserTypeOK, Histories
<1>4. /\ avatars'[a].state = "visible" /\ avatars'[a].owner = avatars[a].owner
      /\ avatars'[a].created = avatars[a].created
      /\ \A b \in Avatars \ {a} : avatars'[b] = avatars[b]
  BY <1>0, <1>2 DEF Insert, SetState, UserTypeOK, Rows
<1>5. a \notin Committed /\ a \in Committed' /\ \A b \in Committed : b \in Committed'
  BY <1>2, <1>4 DEF Committed
<1>6. Progress(r)'
  BY <1>1, <1>2 DEF Progress
<1>7. Due(r)'
  BY <1>1, <1>2, <1>3 DEF Due
<1>8. Lasting(r)'
  BY <1>1, <1>2, <1>3, <1>4, <1>5 DEF Lasting
<1>9. Found(r)'
  BY <1>0, <1>1, <1>2, <1>3, <1>5 DEF Sound, Found, At
<1>10. Truthful(r)'
  BY <1>1 DEF Truthful
<1>11. Younger(r)'
  <2>1. \A b \in history[r].older : avatars[b].created < avatars[a].created /\ b # a /\ b \in Avatars
    BY <1>0, <1>2, <1>5 DEF Sound, Younger, Found, Committed
  <2> QED
    BY <1>1, <1>3, <1>4, <2>1 DEF Younger
<1>12. Youngest(r)'
  <2>1. Chosen(r)' = {}
    BY <1>1, <1>2 DEF Chosen
  <2> QED
    BY <2>1 DEF Youngest
<1> QED
  BY <1>6, <1>7, <1>8, <1>9, <1>10, <1>11, <1>12 DEF Sound

LEMMA UpdateIsSound ==
    ASSUME IInv, NEW r \in Requests, Update(r), NEW answer \in {"removed", "error"},
           Finish(r, answer)
    PROVE  Sound(r)'
<1> DEFINE a == request[r].avatar
<1>0. UserTypeOK /\ Sound(r)
  BY DEF IInv
<1>1. /\ request'[r].kind = request[r].kind /\ request'[r].user = request[r].user
      /\ request'[r].owner = request[r].owner /\ request'[r].avatar = request[r].avatar
      /\ request'[r].step = "done" /\ request'[r].answer = answer
  BY <1>0, EndOf
<1>2. /\ request[r].kind \in {"delete", "deleteCurrent"} /\ request[r].step # "done"
      /\ a \in Avatars /\ a \in Committed
      /\ avatars[a].state = "visible" /\ avatars[a].owner = request[r].user
      /\ history[r].changed = {}
  BY <1>0 DEF Update, Deleting, Mine, Visible, At, Sound, Progress, Committed
<1>3. /\ history'[r].changed = {a}
      /\ history'[r].older = history[r].older /\ history'[r].stale = history[r].stale
  BY <1>0, <1>2 DEF Update, Changed, UserTypeOK, Histories
<1>4. /\ avatars'[a].state = "deleted" /\ avatars'[a].owner = avatars[a].owner
      /\ avatars'[a].created = avatars[a].created
      /\ \A b \in Avatars \ {a} : avatars'[b] = avatars[b]
  BY <1>0, <1>2 DEF Update, SetState, UserTypeOK, Rows
<1>5. a \in Committed' /\ \A b \in Committed : b \in Committed'
  BY <1>2, <1>4 DEF Committed
<1>6. Progress(r)'
  BY <1>0, <1>1, <1>2, <1>5 DEF Sound, Progress
<1>7. Due(r)'
  BY <1>1, <1>2, <1>3 DEF Due
<1>8. Lasting(r)'
  BY <1>1, <1>2, <1>3, <1>4, <1>5 DEF Lasting
<1>9. Found(r)'
  <2>1. history'[r].stale => request'[r].kind = "delete" /\ avatars'[request'[r].avatar].state = "deleted"
    BY <1>0, <1>1, <1>3, <1>4 DEF Sound, Found
  <2> QED
    BY <1>0, <1>1, <1>3, <1>5, <2>1 DEF Sound, Found, At
<1>10. Truthful(r)'
  BY <1>1 DEF Truthful
<1>11. Younger(r)'
  BY <1>1, <1>2 DEF Younger
<1>12. Youngest(r)'
  <2>1. Chosen(r)' \subseteq Chosen(r)
    BY <1>1 DEF Chosen
  <2>2. history[r].older \subseteq Committed
    BY <1>0 DEF Sound, Found
  <2>3. ASSUME NEW b \in history'[r].older, b \in VisibleOf(request[r].owner)'
        PROVE  b \in history[r].older \cap VisibleOf(request[r].owner) /\ b # a
    BY <1>1, <1>3, <1>4, <2>2, <2>3 DEF VisibleOf, Visible
  <2>4. \A b \in Avatars : avatars'[b].created = avatars[b].created
    BY <1>4
  <2>5. Committed \subseteq Avatars
    BY DEF Committed
  <2> QED
    BY <1>0, <1>1, <1>3, <1>5, <2>1, <2>2, <2>3, <2>4, <2>5 DEF Sound, Youngest
<1> QED
  BY <1>6, <1>7, <1>8, <1>9, <1>10, <1>11, <1>12 DEF Sound

\* The answer, whichever it was, gets lost on its way.
LEMMA LostAnswerIsSound ==
    ASSUME IInv, NEW r \in Requests, request[r].step = "done", Finish(r, "lost"),
           UNCHANGED <<avatars, history>>
    PROVE  Sound(r)'
<1>0. UserTypeOK /\ Sound(r)
  BY DEF IInv
<1>1. /\ request'[r].kind = request[r].kind /\ request'[r].user = request[r].user
      /\ request'[r].owner = request[r].owner /\ request'[r].avatar = request[r].avatar
      /\ request'[r].step = "done" /\ request'[r].answer = "lost"
  BY <1>0, EndOf
<1>2. Committed' = Committed /\ VisibleOf(request[r].owner)' = VisibleOf(request[r].owner)
  BY <1>1 DEF Committed, VisibleOf, Visible
<1>3. Progress(r)' /\ Due(r)' /\ Lasting(r)' /\ Truthful(r)' /\ Younger(r)'
  BY <1>0, <1>1, <1>2 DEF Sound, Progress, Due, Lasting, Truthful, Younger
<1>4. Found(r)'
  BY <1>0, <1>1, <1>2 DEF Sound, Found, At
<1>5. Youngest(r)'
  <2>1. Chosen(r)' \subseteq Chosen(r)
    BY <1>1 DEF Chosen
  <2> QED
    BY <1>0, <1>1, <1>2, <2>1 DEF Sound, Youngest
<1> QED
  BY <1>3, <1>4, <1>5 DEF Sound

\* A step in the middle that changes no row and no memory.
LEMMA MoveIsSound ==
    ASSUME IInv, NEW r \in Requests, StoreOriginal(r) \/ NothingUpdated(r)
    PROVE  Sound(r)'
<1>0. UserTypeOK /\ Sound(r) /\ request[r] \in RequestStates
  BY DEF IInv, UserTypeOK
<1>1. /\ request'[r].kind = request[r].kind /\ request'[r].user = request[r].user
      /\ request'[r].owner = request[r].owner /\ request'[r].avatar = request[r].avatar
      /\ request'[r].step = IF StoreOriginal(r) THEN "insert" ELSE "conflict"
      /\ request'[r].answer = request[r].answer
  BY <1>0 DEF StoreOriginal, NothingUpdated, UserTypeOK, RequestStates, Deleting, At
<1>2. UNCHANGED <<avatars, history>>
  BY DEF StoreOriginal, NothingUpdated
<1>3. Committed' = Committed /\ VisibleOf(request[r].owner)' = VisibleOf(request[r].owner)
  BY <1>1, <1>2 DEF Committed, VisibleOf, Visible
<1>4. Progress(r)'
  <2>1. CASE StoreOriginal(r)
    BY <1>0, <1>1, <1>2, <1>3, <2>1 DEF StoreOriginal, At, Sound, Progress
  <2>2. CASE NothingUpdated(r) /\ ~StoreOriginal(r)
    <3>1. request[r].avatar \in Committed
      BY <1>0, <2>2 DEF NothingUpdated, Deleting, At, Sound, Progress
    <3>2. avatars[request[r].avatar].state = "deleted" \/ avatars[request[r].avatar].owner # request[r].user
      BY <2>2, <3>1 DEF NothingUpdated, Mine, Visible, Committed
    <3>3. request[r].kind = "deleteCurrent" =>
            request[r].owner = request[r].user /\ avatars[request[r].avatar].owner = request[r].user
      BY <1>0, <2>2 DEF NothingUpdated, Deleting, At, Sound, Progress
    <3> QED
      BY <1>0, <1>1, <1>2, <1>3, <2>2, <3>1, <3>2, <3>3 DEF NothingUpdated, Deleting, At, Sound, Progress
  <2> QED
    BY <2>1, <2>2
<1>5. Due(r)' /\ Lasting(r)' /\ Truthful(r)'
  BY <1>0, <1>1, <1>2, <1>3 DEF Sound, Due, Lasting, Truthful
<1>6. Younger(r)'
  BY <1>0, <1>1, <1>2 DEF Sound, Younger
<1>7. Found(r)'
  BY <1>0, <1>1, <1>2, <1>3 DEF Sound, Found, At
<1>8. Youngest(r)'
  <2>1. Chosen(r)' = Chosen(r)
    BY <1>1 DEF Chosen
  <2> QED
    BY <1>0, <1>1, <1>2, <1>3, <2>1 DEF Sound, Youngest
<1> QED
  BY <1>4, <1>5, <1>6, <1>7, <1>8 DEF Sound

LEMMA BeginningIsSound ==
    ASSUME IInv, NEW r \in Requests, BeginInsert(r)
    PROVE  Sound(r)'
<1>0. UserTypeOK /\ Sound(r) /\ Clocked /\ request[r] \in RequestStates
  BY DEF IInv, UserTypeOK
<1>1. PICK a \in Avatars :
        /\ avatars[a].state = "absent"
        /\ avatars' = [avatars EXCEPT ![a] =
                         [owner |-> request[r].user, created |-> clock, state |-> "inserting"]]
        /\ request' = [request EXCEPT ![r].step = "commit", ![r].avatar = a]
  BY DEF BeginInsert
<1>2. /\ request'[r].kind = request[r].kind /\ request'[r].user = request[r].user
      /\ request'[r].owner = request[r].owner /\ request'[r].avatar = a
      /\ request'[r].step = "commit" /\ request'[r].answer = request[r].answer
  BY <1>0, <1>1 DEF UserTypeOK, RequestStates
<1>3. /\ avatars'[a].owner = request[r].user /\ avatars'[a].created = clock
      /\ avatars'[a].state = "inserting"
      /\ \A b \in Avatars \ {a} : avatars'[b] = avatars[b]
  BY <1>0, <1>1 DEF UserTypeOK
<1>4. request[r].kind = "upload" /\ history[r].changed = {} /\ request[r].answer = "none" /\ UNCHANGED history
  BY <1>0 DEF BeginInsert, At, Sound, Progress
<1>5. a \notin Committed /\ Committed \subseteq Avatars /\ \A b \in Committed : b \in Committed'
  BY <1>1, <1>3 DEF Committed
<1>6. Progress(r)'
  BY <1>2, <1>3, <1>4 DEF Progress
<1>7. Due(r)' /\ Lasting(r)' /\ Truthful(r)'
  BY <1>2, <1>4 DEF Due, Lasting, Truthful
<1>8. Found(r)'
  BY <1>0, <1>2, <1>4, <1>5 DEF Sound, Found, At
<1>9. Younger(r)'
  <2>1. \A b \in history[r].older : b \in Avatars \ {a} /\ avatars[b].created < clock
    BY <1>0, <1>5 DEF Sound, Found, Clocked
  <2> QED
    BY <1>2, <1>3, <1>4, <2>1 DEF Younger
<1>10. Youngest(r)'
  <2>1. Chosen(r)' = {}
    BY <1>2, <1>4 DEF Chosen
  <2> QED
    BY <2>1 DEF Youngest
<1> QED
  BY <1>6, <1>7, <1>8, <1>9, <1>10 DEF Sound

\* The latest avatar is found.
LEMMA FindingIsSound ==
    ASSUME IInv, NEW r \in Requests, ReadLatest(r) \/ LookUpCurrent(r),
           NEW a \in Latest(request[r].owner), NEW step \in {"done", "update"},
           NEW answer \in {"none", "avatar"},
           request' = [request EXCEPT ![r].step = step, ![r].answer = answer, ![r].avatar = a],
           ReadLatest(r) => step = "done" /\ answer = "avatar",
           LookUpCurrent(r) => step = "update" /\ answer = "none"
    PROVE  Sound(r)'
<1>0. UserTypeOK /\ Sound(r) /\ request[r] \in RequestStates
  BY DEF IInv, UserTypeOK
<1>1. /\ request'[r].kind = request[r].kind /\ request'[r].user = request[r].user
      /\ request'[r].owner = request[r].owner /\ request'[r].avatar = a
      /\ request'[r].step = step /\ request'[r].answer = answer
  BY <1>0 DEF UserTypeOK, RequestStates
<1>2. UNCHANGED <<avatars, history>> /\ history[r].changed = {} /\ request[r].step = "arrived"
  BY <1>0 DEF ReadLatest, LookUpCurrent, At, Sound, Progress
<1>3. /\ a \in Avatars /\ avatars[a].state = "visible" /\ avatars[a].owner = request[r].owner
      /\ \A b \in VisibleOf(request[r].owner) : avatars[b].created <= avatars[a].created
  BY DEF Latest, VisibleOf, Visible
<1>4. Committed' = Committed /\ VisibleOf(request[r].owner)' = VisibleOf(request[r].owner) /\ a \in Committed
  BY <1>1, <1>2, <1>3 DEF Committed, VisibleOf, Visible
<1>5. request[r].kind \in {"read", "deleteCurrent"}
  BY DEF ReadLatest, LookUpCurrent, At
<1>6. Progress(r)'
  <2>1. step = "update" => request[r].kind = "deleteCurrent" /\ request[r].owner = request[r].user
    BY DEF ReadLatest, LookUpCurrent, At, Stranger
  <2>2. step = "done" \/ answer = "none"
    OBVIOUS
  <2> QED
    BY <1>1, <1>2, <1>3, <1>4, <1>5, <2>1, <2>2 DEF Progress
<1>7. Due(r)' /\ Lasting(r)' /\ Truthful(r)' /\ Younger(r)'
  BY <1>1, <1>2, <1>5 DEF Due, Lasting, Truthful, Younger
<1>8. Found(r)'
  <2>1. ~history[r].stale
    BY <1>0, <1>5 DEF Sound, Found
  <2> QED
    BY <1>0, <1>1, <1>2, <1>4, <2>1 DEF Sound, Found, At
<1>9. Youngest(r)'
  <2>1. Chosen(r)' \subseteq {a}
    BY <1>1 DEF Chosen
  <2> QED
    BY <1>1, <1>2, <1>3, <1>4, <2>1 DEF Youngest
<1> QED
  BY <1>6, <1>7, <1>8, <1>9 DEF Sound

LEMMA OwnStepIsSound ==
    ASSUME IInv, NEW r \in Requests, Step(r)
    PROVE  Sound(r)'
<1>0. UserTypeOK /\ Sound(r) /\ request[r] \in RequestStates
  BY DEF IInv, UserTypeOK
<1>1. CASE \E kind \in Kinds \ {"none"}, u, o \in Users, a \in Avatars \cup {NoAvatar} :
              Arrive(r, kind, u, o, a)
  BY <1>1, ArrivalIsSound
<1>2. CASE Refuse(r) \/ Unavailable(r) \/ Fails(r)
  <2>1. PICK answer \in {"tooMany", "unavailable", "error"} : Finish(r, answer)
    BY <1>2 DEF Refuse, Unavailable, Fails
  <2>2. request[r].step \notin {"idle", "done"} /\ UNCHANGED <<avatars, history>>
    BY <1>2 DEF Refuse, Unavailable, Fails, Calling
  <2>3. Truthful(r)'
    BY <1>0, <2>1, EndOf DEF Truthful
  <2> QED
    BY <2>1, <2>2, <2>3, QuietEnd
<1>3. CASE InsertFails(r)
  <2>1. request[r].step \notin {"idle", "done"} /\ UNCHANGED history /\ Finish(r, "error")
    BY <1>3 DEF InsertFails, Rollback, At
  <2>2. \A a \in Committed : avatars'[a] = avatars[a]
    BY <1>0, <1>3 DEF InsertFails, Rollback, SetState, At, Sound, Progress, Committed, UserTypeOK
  <2>3. Truthful(r)'
    BY <1>0, <2>1, EndOf DEF Truthful
  <2> QED
    BY <2>1, <2>2, <2>3, QuietEnd
<1>4. CASE CheckOwner(r)
  <2>1. /\ request[r].step = "arrived" /\ UNCHANGED <<avatars, history>> /\ Finish(r, "forbidden")
        /\ request[r].kind = "deleteCurrent" /\ request[r].owner # request[r].user
    BY <1>4 DEF CheckOwner, At, Stranger
  <2>2. Truthful(r)'
    BY <1>0, <2>1, EndOf DEF Truthful
  <2> QED
    BY <2>1, <2>2, QuietEnd
<1>5. CASE DeleteConflict(r)
  <2>1. request[r].step = "conflict" /\ UNCHANGED <<avatars, history>>
    BY <1>5 DEF DeleteConflict
  <2>2. /\ request[r].kind \in {"delete", "deleteCurrent"} /\ request[r].avatar \in Avatars
        /\ avatars[request[r].avatar].state \in {"visible", "deleted"}
        /\ request[r].kind = "deleteCurrent" => avatars[request[r].avatar].owner = request[r].user
        /\ avatars[request[r].avatar].state = "deleted" \/ avatars[request[r].avatar].owner # request[r].user
        /\ history[r].stale => avatars[request[r].avatar].state = "deleted"
    BY <1>0, <2>1 DEF Sound, Progress, Found, Committed
  <2>3. PICK answer \in {"forbidden", "notFound"} :
          /\ Finish(r, answer)
          /\ answer = "forbidden" <=> /\ avatars[request[r].avatar].state = "visible"
                                      /\ avatars[request[r].avatar].owner # request[r].user
    BY <1>5 DEF DeleteConflict, Visible
  <2>4. Truthful(r)'
    <3>1. request'[r].avatar = request[r].avatar /\ request'[r].kind = request[r].kind
          /\ request'[r].user = request[r].user /\ request'[r].answer = answer
      BY <1>0, <2>3, EndOf
    <3> QED
      BY <2>1, <2>2, <2>3, <3>1 DEF Truthful
  <2> QED
    BY <2>1, <2>3, <2>4, QuietEnd
<1>6. CASE ReadLatest(r)
  <2>1. request[r].step = "arrived" /\ UNCHANGED <<avatars, history>>
    BY <1>6 DEF ReadLatest, At
  <2>2. CASE Finish(r, "empty")
    <3>1. Truthful(r)'
      BY <1>0, <2>2, EndOf DEF Truthful
    <3> QED
      BY <2>1, <2>2, <3>1, QuietEnd
  <2>3. CASE \E a \in Latest(request[r].owner) :
               request' = [request EXCEPT ![r].step = "done", ![r].answer = "avatar", ![r].avatar = a]
    <3>1. ~LookUpCurrent(r)
      BY <1>6 DEF ReadLatest, LookUpCurrent, At
    <3> QED
      BY <1>6, <2>3, <3>1, FindingIsSound
  <2> QED
    BY <1>6, <2>2, <2>3 DEF ReadLatest
<1>7. CASE LookUpCurrent(r)
  <2>1. /\ request[r].step = "arrived" /\ UNCHANGED <<avatars, history>>
        /\ request[r].kind = "deleteCurrent" /\ request[r].answer = "none"
        /\ request[r].avatar = NoAvatar
    BY <1>0, <1>7 DEF LookUpCurrent, At, Sound, Progress
  <2>2. CASE VisibleOf(request[r].owner) = {} /\ Finish(r, "notFound")
    <3>1. history[r].empty
      BY <1>0, <2>1, <2>2 DEF Sound, Found, At
    <3>2. Truthful(r)'
      BY <1>0, <2>1, <2>2, <3>1, EndOf DEF Truthful
    <3> QED
      BY <2>1, <2>2, <3>2, QuietEnd
  <2>3. CASE \E a \in Latest(request[r].owner) :
               request' = [request EXCEPT ![r].step = "update", ![r].avatar = a]
    <3>1. PICK a \in Latest(request[r].owner) :
               request' = [request EXCEPT ![r].step = "update", ![r].avatar = a]
      BY <2>3
    <3>2. ~ReadLatest(r)
      BY <1>7 DEF ReadLatest, LookUpCurrent, At
    <3>3. request' = [request EXCEPT ![r].step = "update", ![r].answer = "none", ![r].avatar = a]
      BY <1>0, <2>1, <3>1 DEF UserTypeOK, RequestStates
    <3> QED
      BY <1>7, <3>1, <3>2, <3>3, FindingIsSound
  <2> QED
    BY <1>7, <2>2, <2>3 DEF LookUpCurrent
<1>8. CASE Cut(r)
  <2>1. Finish(r, "lost") /\ request[r].step # "idle"
    BY <1>8 DEF Cut
  <2>2. Truthful(r)'
    BY <1>0, <2>1, EndOf DEF Truthful
  <2>3. CASE UNCHANGED <<avatars, history>>
    BY <2>1, <2>2, <2>3, QuietEnd, LostAnswerIsSound
  <2>4. CASE Rollback(r)
    <3>1. request[r].step \notin {"idle", "done"} /\ UNCHANGED history
      BY <2>4 DEF Rollback, At
    <3>2. \A a \in Committed : avatars'[a] = avatars[a]
      BY <1>0, <2>4 DEF Rollback, SetState, At, Sound, Progress, Committed, UserTypeOK
    <3> QED
      BY <2>1, <2>2, <3>1, <3>2, QuietEnd
  <2>5. CASE Insert(r)
    BY <2>1, <2>5, InsertIsSound
  <2> QED
    BY <1>8, <2>3, <2>4, <2>5 DEF Cut
<1> QED
  BY <1>1, <1>2, <1>3, <1>4, <1>5, <1>6, <1>7, <1>8, InsertIsSound, UpdateIsSound, MoveIsSound,
     BeginningIsSound
  DEF Step, Handle, Upload, Delete, CommitInsert, InsertUnanswered, SoftDelete, SoftDeleteUnanswered

----------------------------------------------------------------------------
\* The clock, and requests two at a time.

LEMMA TimeGoesOn ==
    ASSUME IInv, NEW r \in Requests, Step(r)
    PROVE  Clocked'
<1>0. UserTypeOK /\ Clocked /\ Progress(r) /\ clock \in Nat
  BY DEF IInv, Sound, UserTypeOK
<1>1. CASE UNCHANGED <<avatars, clock>>
  BY <1>0, <1>1 DEF Clocked, Committed
<1>2. CASE BeginInsert(r)
  <2>1. PICK a \in Avatars :
          avatars' = [avatars EXCEPT ![a] =
                       [owner |-> request[r].user, created |-> clock, state |-> "inserting"]]
    BY <1>2 DEF BeginInsert
  <2>2. /\ avatars'[a].created = clock /\ avatars'[a].state = "inserting"
        /\ \A b \in Avatars \ {a} : avatars'[b] = avatars[b]
    BY <1>0, <2>1 DEF UserTypeOK
  <2>3. clock' = clock
    BY <1>2 DEF BeginInsert
  <2> QED
    BY <1>0, <2>2, <2>3 DEF Clocked, Committed
<1>3. ASSUME NEW a \in Avatars, NEW to, SetState(a, to)
      PROVE  \A b \in Avatars : /\ avatars'[b].created = avatars[b].created
                                /\ b # a => avatars'[b] = avatars[b]
                                /\ avatars'[a].state = to
  BY <1>0, <1>3 DEF SetState, UserTypeOK, Rows
<1>4. CASE Insert(r)
  <2>1. SetState(request[r].avatar, "visible") /\ clock' = clock + 1 /\ request[r].avatar \in Avatars
    BY <1>0, <1>4 DEF Insert, At, Progress
  <2>2. \A b \in Avatars : avatars'[b].created = avatars[b].created /\ avatars[b].created \in Nat
    BY <1>0, <1>3, <2>1 DEF UserTypeOK, Rows
  <2> QED
    BY <1>0, <2>1, <2>2 DEF Clocked
<1>5. CASE Rollback(r)
  <2>1. SetState(request[r].avatar, "absent") /\ clock' = clock /\ request[r].avatar \in Avatars
    BY <1>0, <1>5 DEF Rollback, At, Progress
  <2>2. \A b \in Avatars : b \in Committed' => b \in Committed
    BY <1>3, <2>1 DEF Committed
  <2> QED
    BY <1>0, <1>3, <2>1, <2>2 DEF Clocked
<1>6. CASE Update(r)
  <2>1. /\ SetState(request[r].avatar, "deleted") /\ clock' = clock
        /\ request[r].avatar \in Avatars /\ request[r].avatar \in Committed
    BY <1>0, <1>6 DEF Update, Mine, Visible, Deleting, At, Progress, Committed
  <2>2. \A b \in Avatars : b \in Committed' => b \in Committed
    BY <1>3, <2>1 DEF Committed
  <2> QED
    BY <1>0, <1>3, <2>1, <2>2 DEF Clocked
<1> QED
  BY <1>0, <1>1, <1>2, <1>4, <1>5, <1>6, TableSteps

\* What r itself remembers of its changes, its kind, and how it begins to insert.
LEMMA OwnMemory ==
    ASSUME IInv, NEW r \in Requests, Step(r)
    PROVE  /\ \/ history'[r].changed = history[r].changed
              \/ /\ Insert(r) \/ Update(r)
                 /\ history'[r].changed = history[r].changed \cup {request[r].avatar}
           /\ request'[r].kind = request[r].kind \/ history'[r].changed = {}
           /\ request'[r].step = "commit" => BeginInsert(r)
<1>0. UserTypeOK /\ Progress(r) /\ request[r] \in RequestStates /\ history[r] \in Histories
  BY DEF IInv, Sound, UserTypeOK
<1>1. CASE \E kind, u, o, a : Arrive(r, kind, u, o, a)
  BY <1>0, <1>1 DEF Arrive, UserTypeOK, Histories, Progress
<1>2. ASSUME Insert(r) \/ Update(r)
      PROVE  history'[r].changed = history[r].changed \cup {request[r].avatar}
  BY <1>0, <1>2 DEF Insert, Update, Changed, UserTypeOK, Histories
<1>3. ASSUME NEW answer, Finish(r, answer)
      PROVE  request'[r].kind = request[r].kind /\ request'[r].step = "done"
  BY <1>0, <1>3, EndOf
<1>4. CASE StoreOriginal(r) \/ NothingUpdated(r) \/ BeginInsert(r) \/ ReadLatest(r) \/ LookUpCurrent(r)
  <2>1. UNCHANGED history
    BY <1>4 DEF StoreOriginal, NothingUpdated, BeginInsert, ReadLatest, LookUpCurrent
  <2>2. request'[r].kind = request[r].kind
    BY <1>0, <1>3, <1>4 DEF StoreOriginal, NothingUpdated, BeginInsert, ReadLatest, LookUpCurrent,
          UserTypeOK, RequestStates
  <2>3. request'[r].step # "commit" \/ BeginInsert(r)
    BY <1>0, <1>3, <1>4 DEF StoreOriginal, NothingUpdated, BeginInsert, ReadLatest, LookUpCurrent,
          UserTypeOK, RequestStates
  <2> QED
    BY <2>1, <2>2, <2>3
<1>5. CASE \/ Refuse(r) \/ Unavailable(r) \/ Fails(r) \/ CheckOwner(r) \/ DeleteConflict(r) \/ Cut(r)
           \/ CommitInsert(r) \/ InsertUnanswered(r) \/ InsertFails(r)
           \/ SoftDelete(r) \/ SoftDeleteUnanswered(r)
  <2>1. \E answer : Finish(r, answer)
    BY <1>5 DEF Refuse, Unavailable, Fails, CheckOwner, DeleteConflict, Cut, CommitInsert,
          InsertUnanswered, InsertFails, SoftDelete, SoftDeleteUnanswered
  <2>2. UNCHANGED history \/ Insert(r) \/ Update(r)
    BY <1>5 DEF Refuse, Unavailable, Fails, CheckOwner, DeleteConflict, Cut, CommitInsert,
          InsertUnanswered, InsertFails, SoftDelete, SoftDeleteUnanswered, Rollback
  <2> QED
    BY <1>2, <1>3, <2>1, <2>2
<1> QED
  BY <1>1, <1>4, <1>5 DEF Step, Handle, Upload, Delete

LEMMA OthersStayApart ==
    ASSUME IInv, NEW r \in Requests, NEW q \in Requests \ {r}, Step(r)
    PROVE  Apart(r, q)' /\ Apart(q, r)'
<1>0. UserTypeOK /\ Sound(r) /\ Sound(q) /\ Apart(r, q) /\ Apart(q, r)
  BY DEF IInv
<1>1. request'[q] = request[q] /\ history'[q].changed = history[q].changed
  BY <1>0, OthersStay
<1>2. request'[r].step = "commit" /\ request[q].step = "commit" => request'[r].avatar # request[q].avatar
  <2> SUFFICES ASSUME request'[r].step = "commit", request[q].step = "commit"
               PROVE  request'[r].avatar # request[q].avatar
    OBVIOUS
  <2>1. BeginInsert(r)
    BY OwnMemory
  <2>2. PICK a \in Avatars : avatars[a].state = "absent" /\ request'[r].avatar = a
    BY <1>0, <2>1 DEF BeginInsert, UserTypeOK, RequestStates
  <2>3. avatars[request[q].avatar].state = "inserting"
    BY <1>0 DEF Sound, Progress
  <2> QED
    BY <2>2, <2>3
<1>3. ASSUME (request'[r].kind = "upload") = (request[q].kind = "upload")
      PROVE  history'[r].changed \cap history[q].changed = {}
  <2>1. CASE history'[r].changed = {}
    BY <2>1
  <2>2. CASE history'[r].changed # {} /\ history'[r].changed = history[r].changed
    BY <1>0, <1>3, <2>2, OwnMemory DEF Apart
  <2>3. CASE /\ history'[r].changed # {} /\ (Insert(r) \/ Update(r))
             /\ history'[r].changed = history[r].changed \cup {request[r].avatar}
    <3>1. (request[r].kind = "upload") = (request[q].kind = "upload")
      BY <1>3, <2>3, OwnMemory
    <3>2. CASE Insert(r)
      <4>1. avatars[request[r].avatar].state = "inserting"
        BY <1>0, <3>2 DEF Insert, At, Sound, Progress
      <4>2. request[r].avatar \notin history[q].changed
        BY <1>0, <4>1 DEF Sound, Lasting, Committed
      <4> QED
        BY <1>0, <2>3, <3>1, <4>2 DEF Apart
    <3>3. CASE Update(r)
      <4>1. avatars[request[r].avatar].state = "visible" /\ request[r].kind # "upload"
        BY <3>3 DEF Update, Mine, Visible, Deleting, At
      <4>2. request[r].avatar \notin history[q].changed
        BY <1>0, <3>1, <4>1 DEF Sound, Lasting
      <4> QED
        BY <1>0, <2>3, <3>1, <4>2 DEF Apart
    <3> QED
      BY <2>3, <3>2, <3>3
  <2> QED
    BY <2>1, <2>2, <2>3, OwnMemory
<1> QED
  BY <1>1, <1>2, <1>3 DEF Apart

LEMMA InitIsSound == UserInit => IInv
<1> SUFFICES ASSUME UserInit PROVE IInv
  OBVIOUS
<1>1. UserTypeOK
  BY InitialTypes
<1>2. \A a \in Avatars : avatars[a].created \in {0, 1} /\ avatars[a].state \in {"absent", "visible"}
  BY DEF UserInit
<1>3. Clocked
  BY <1>2 DEF UserInit, Clocked
<1>4. \A r \in Requests :
         /\ request[r].kind = "none" /\ request[r].step = "idle" /\ request[r].answer = "none"
         /\ history[r] = Untouched
  BY DEF UserInit, Idle
<1>5. ASSUME NEW r \in Requests
      PROVE  Sound(r)
  <2>1. Progress(r) /\ Due(r) /\ Lasting(r) /\ Truthful(r) /\ Younger(r)
    BY <1>4 DEF Untouched, Progress, Due, Lasting, Truthful, Younger
  <2>2. Found(r) /\ Youngest(r)
    BY <1>4 DEF Untouched, Found, Youngest, Chosen, At
  <2> QED
    BY <2>1, <2>2 DEF Sound
<1> QED
  BY <1>1, <1>3, <1>4, <1>5 DEF IInv, Apart, Untouched

LEMMA StepIsSound == IInv /\ [UserNext]_userVars => IInv'
<1> SUFFICES ASSUME IInv, [UserNext]_userVars PROVE IInv'
  OBVIOUS
<1>1. CASE UNCHANGED userVars
  BY <1>1 DEF userVars, IInv, UserTypeOK, Clocked, Committed, Sound, Progress, Due, Lasting, Found,
        Truthful, Younger, Youngest, Apart, At, Chosen, VisibleOf, Visible
<1>2. ASSUME NEW r \in Requests, Step(r)
      PROVE  IInv'
  <2>1. UserTypeOK'
    BY <1>2, TypesAreKept DEF IInv, Sound
  <2>2. \A q \in Requests : Sound(q)'
    BY <1>2, OwnStepIsSound, OthersStaySound
  <2>3. ASSUME NEW p \in Requests, NEW q \in Requests, p # q
        PROVE  Apart(p, q)'
    <3>1. CASE p = r \/ q = r
      BY <1>2, <2>3, <3>1, OthersStayApart
    <3>2. CASE p # r /\ q # r
      BY <1>2, <2>3, <3>2, OthersStay DEF IInv, Apart
    <3> QED
      BY <3>1, <3>2
  <2> QED
    BY <1>2, <2>1, <2>2, <2>3, TimeGoesOn DEF IInv
<1> QED
  BY <1>1, <1>2, NextIsAStep

----------------------------------------------------------------------------
\* Theorems.

LEMMA Invariance == UserSpec => []IInv
BY InitIsSound, StepIsSound, PTL DEF UserSpec

\* Every variable stays in its domain.
THEOREM UserTypeCorrect == UserSpec => []UserTypeOK
<1>1. IInv => UserTypeOK
  BY DEF IInv
<1> QED
  BY <1>1, Invariance, PTL

\* Whatever the overlap of requests, failures and cuts, what a request has changed is
\* what its answer says, and only 500 or no answer leaves a client in doubt.
THEOREM AnswersCanBeRelied == UserSpec => []AnswersMatchEffects
<1>1. IInv => AnswersMatchEffects
  BY DEF IInv, Sound, Lasting, Apart, AnswersMatchEffects
<1> QED
  BY <1>1, Invariance, PTL

\* 403 and 404 mean what the README says they mean.
THEOREM RefusalsCanBeRelied == UserSpec => []RefusalsAreTruthful
<1>1. IInv => RefusalsAreTruthful
  BY DEF IInv, Sound, Truthful, RefusalsAreTruthful
<1> QED
  BY <1>1, Invariance, PTL

\* No request takes an avatar for the current one when a later upload, which it could
\* know of, is still there, in whatever order overlapping uploads were committed.
THEOREM CurrentIsLatest == UserSpec => []CurrentMeansLatest
<1>1. ASSUME IInv PROVE CurrentMeansLatest
  <2> SUFFICES ASSUME NEW r \in Requests, NEW q \in Requests, NEW a \in Chosen(r),
                      request[q].kind = "upload", a \in history[q].older,
                      NEW b \in history[q].changed, b \in history[r].older,
                      b \in VisibleOf(request[r].owner)
               PROVE  FALSE
    BY DEF CurrentMeansLatest
  <2>1. avatars[a].created < avatars[b].created
    BY <1>1 DEF IInv, Sound, Younger
  <2>2. avatars[b].created <= avatars[a].created
    BY <1>1 DEF IInv, Sound, Youngest
  <2>3. avatars[a].created \in Nat /\ avatars[b].created \in Nat
    <3>1. a \in Avatars /\ b \in Avatars
      BY <1>1 DEF IInv, Sound, Youngest, Lasting, Committed
    <3> QED
      BY <1>1, <3>1 DEF IInv, UserTypeOK, Rows
  <2> QED
    BY <2>1, <2>2, <2>3
<1> QED
  BY <1>1, Invariance, PTL

----------------------------------------------------------------------------
\* The limiters only refuse.

LEMMA ReceivingIsArriving ==
    ASSUME NEW r \in Requests, NEW x \in Addresses, Receive(r, x)
    PROVE  Step(r)
BY DEF Receive, Step

LEMMA ApiStepsAreUserSteps == [ApiNext]_apiVars => [UserNext]_userVars
<1> SUFFICES ASSUME [ApiNext]_apiVars PROVE [UserNext]_userVars
  OBVIOUS
<1>1. CASE UNCHANGED apiVars \/ NextWindow
  BY <1>1 DEF apiVars, NextWindow
<1>2. ASSUME NEW r \in Requests, NEW x \in Addresses, Receive(r, x)
      PROVE  UserNext
  BY <1>2, ReceivingIsArriving, NextIsAStep
<1>3. ASSUME NEW r \in Requests, LetThrough(r)
      PROVE  UNCHANGED userVars
  BY <1>3 DEF LetThrough
<1>4. ASSUME NEW r \in Requests, TurnAway(r) \/ Process(r)
      PROVE  UserNext
  <2>1. Step(r)
    BY <1>4 DEF TurnAway, Process, Step, Handle
  <2> QED
    BY <2>1, NextIsAStep
<1> QED
  BY <1>1, <1>2, <1>3, <1>4 DEF ApiNext

\* To the table and to the clients the service with limiters is the one without, which
\* may answer 429 whenever it likes.
THEOREM LimitersOnlyRefuse == ApiSpec => UserSpec
<1>1. ApiInit => UserInit
  BY DEF ApiInit
<1> QED
  BY <1>1, ApiStepsAreUserSteps, PTL DEF ApiSpec, UserSpec

\* So what was proved of UserAvatars holds of the service behind its limiters.
THEOREM ApiKeepsItsWord ==
    ApiSpec => [](AnswersMatchEffects /\ RefusalsAreTruthful /\ CurrentMeansLatest)
BY LimitersOnlyRefuse, AnswersCanBeRelied, RefusalsCanBeRelied, CurrentIsLatest, PTL

----------------------------------------------------------------------------
\* The inductive invariant of the limiters.

\* Requests limiter l has counted under k in this minute.
Counted(l, k) == {r \in Requests : l \in ticket[r].fresh /\ Key(r, l) = k}

\* The limiters behind r are the first of its chain.
Behind(r) ==
    LET t == ticket[r] IN
    /\ request[r].step = "idle" => t.passed = 0
    /\ t.passed = 3 => request[r].kind = "upload"
    /\ "address" \in t.fresh => t.passed >= 1
    /\ "user" \in t.fresh => t.passed >= 2
    /\ "upload" \in t.fresh => t.passed = 3

\* The counters are right, and within their limits.
CountersAgree ==
    \A l \in Limiters, k \in Keys :
        /\ IsFiniteSet(Counted(l, k))
        /\ hits[l][k] = Cardinality(Counted(l, k))
        /\ hits[l][k] <= LimitOf(l)

AdmissionInv ==
    /\ IInv
    /\ ApiTypeOK
    /\ \A r \in Requests : Behind(r)
    /\ CountersAgree

LEMMA AnyTicket ==
    ASSUME NEW x \in Addresses, NEW k \in Keys, NEW n \in 0..3
    PROVE  [address |-> x, user |-> k, passed |-> n, fresh |-> {}] \in Tickets
BY DEF Tickets

LEMMA Limits == \A l \in Limiters : LimitOf(l) \in 1..RateLimit
BY LimitsAssumption DEF LimitOf, Limiters

\* The limiter that comes next.
LEMMA ChainOrder ==
    ASSUME NEW r \in Requests, ticket[r] \in Tickets, Behind(r), ~InHandler(r)
    PROVE  /\ NextLimiter(r) \in Limiters \ ticket[r].fresh
           /\ ticket[r].passed + 1 \in 1..3
           /\ NextLimiter(r) = "address" => ticket[r].passed + 1 >= 1
           /\ NextLimiter(r) = "user" => ticket[r].passed + 1 >= 2
           /\ NextLimiter(r) = "upload" => ticket[r].passed + 1 = 3
           /\ ticket[r].passed + 1 = 3 => request[r].kind = "upload"
<1>1. ticket[r].passed \in {0, 1, 2, 3}
  BY DEF Tickets
<1>2. CASE request[r].kind = "upload"
  <2>1. Chain(r) = <<"address", "user", "upload">>
    BY <1>2 DEF Chain
  <2>2. ticket[r].passed # 3
    BY <2>1 DEF InHandler
  <2>3. ticket[r].passed = 0 => NextLimiter(r) = "address"
    BY <2>1 DEF NextLimiter
  <2>4. ticket[r].passed = 1 => NextLimiter(r) = "user"
    BY <2>1 DEF NextLimiter
  <2>5. ticket[r].passed = 2 => NextLimiter(r) = "upload"
    BY <2>1 DEF NextLimiter
  <2> QED
    BY <1>1, <1>2, <2>2, <2>3, <2>4, <2>5 DEF Behind, Limiters
<1>3. CASE request[r].kind # "upload"
  <2>1. Chain(r) = <<"address", "user">>
    BY <1>3 DEF Chain
  <2>2. ticket[r].passed \in {0, 1}
    BY <1>1, <1>3, <2>1 DEF InHandler, Behind
  <2>3. ticket[r].passed = 0 => NextLimiter(r) = "address"
    BY <2>1 DEF NextLimiter
  <2>4. ticket[r].passed = 1 => NextLimiter(r) = "user"
    BY <2>1 DEF NextLimiter
  <2> QED
    BY <2>2, <2>3, <2>4 DEF Behind, Limiters
<1> QED
  BY <1>2, <1>3

\* A request is what it is until it has ended, and from then on too.
LEMMA KindsLast ==
    ASSUME IInv, NEW r \in Requests, Step(r), request[r].step # "idle"
    PROVE  request'[r].kind = request[r].kind
<1>1. UserTypeOK /\ request[r] \in RequestStates
  BY DEF IInv, UserTypeOK
<1>2. ASSUME NEW answer, Finish(r, answer)
      PROVE  request'[r].kind = request[r].kind
  BY <1>1, <1>2, EndOf
<1>3. CASE StoreOriginal(r) \/ NothingUpdated(r) \/ BeginInsert(r) \/ ReadLatest(r) \/ LookUpCurrent(r)
  BY <1>1, <1>2, <1>3 DEF StoreOriginal, NothingUpdated, BeginInsert, ReadLatest, LookUpCurrent,
        UserTypeOK, RequestStates
<1>4. CASE \/ Refuse(r) \/ Unavailable(r) \/ Fails(r) \/ CheckOwner(r) \/ DeleteConflict(r) \/ Cut(r)
           \/ CommitInsert(r) \/ InsertUnanswered(r) \/ InsertFails(r)
           \/ SoftDelete(r) \/ SoftDeleteUnanswered(r)
  BY <1>2, <1>4 DEF Refuse, Unavailable, Fails, CheckOwner, DeleteConflict, Cut, CommitInsert,
        InsertUnanswered, InsertFails, SoftDelete, SoftDeleteUnanswered
<1> QED
  BY <1>3, <1>4 DEF Step, Handle, Upload, Delete, Arrive

LEMMA InitAdmits == ApiInit => AdmissionInv
<1> SUFFICES ASSUME ApiInit PROVE AdmissionInv
  OBVIOUS
<1>1. IInv
  BY InitIsSound DEF ApiInit
<1>2. PICK x \in Addresses :
        ticket = [r \in Requests |-> [address |-> x, user |-> x, passed |-> 0, fresh |-> {}]]
  BY DEF ApiInit
<1>3. ticket \in [Requests -> Tickets]
  BY <1>2 DEF Tickets, Keys
<1>4. hits \in Counters /\ previous \in Counters /\ window \in 0..MaxWindows
  BY LimitsAssumption DEF ApiInit, Counters
<1>5. \A r \in Requests : Behind(r)
  BY <1>2 DEF Behind
<1>6. CountersAgree
  <2> SUFFICES ASSUME NEW l \in Limiters, NEW k \in Keys
               PROVE  /\ IsFiniteSet(Counted(l, k))
                      /\ hits[l][k] = Cardinality(Counted(l, k))
                      /\ hits[l][k] <= LimitOf(l)
    BY DEF CountersAgree
  <2>1. Counted(l, k) = {}
    BY <1>2 DEF Counted
  <2>2. hits[l][k] = 0
    BY DEF ApiInit
  <2> QED
    BY <2>1, <2>2, Limits, LimitsAssumption, FS_EmptySet
<1> QED
  BY <1>1, <1>3, <1>4, <1>5, <1>6 DEF AdmissionInv, ApiTypeOK, IInv

\* A new request has passed no limiter, and was counted by none under its old ticket.
LEMMA ReceivingAdmitsNobody ==
    ASSUME AdmissionInv, NEW r \in Requests, NEW x \in Addresses, Receive(r, x)
    PROVE  /\ ticket' \in [Requests -> Tickets]
           /\ \A q \in Requests : Behind(q)'
           /\ CountersAgree'
<1>1. PICK k \in Keys :
        ticket' = [ticket EXCEPT ![r] = [address |-> x, user |-> k, passed |-> 0, fresh |-> {}]]
  BY DEF Receive, Keys
<1>2. ticket \in [Requests -> Tickets]
  BY DEF AdmissionInv, ApiTypeOK
<1>3. /\ ticket'[r] = [address |-> x, user |-> k, passed |-> 0, fresh |-> {}]
      /\ \A q \in Requests \ {r} : ticket'[q] = ticket[q]
  BY <1>1, <1>2
<1>4. ticket' \in [Requests -> Tickets]
  <2>1. [address |-> x, user |-> k, passed |-> 0, fresh |-> {}] \in Tickets
    BY DEF Tickets, Keys
  <2> QED
    BY <1>1, <1>2, <2>1
<1>5. request[r].step = "idle" /\ \A q \in Requests \ {r} : request'[q] = request[q]
  BY DEF Receive, Arrive, AdmissionInv, IInv, UserTypeOK
<1>6. ASSUME NEW q \in Requests
      PROVE  Behind(q)'
  <2>1. CASE q = r
    BY <1>3, <2>1 DEF Behind
  <2>2. CASE q # r
    BY <1>3, <1>5, <2>2 DEF Behind, AdmissionInv
  <2> QED
    BY <2>1, <2>2
<1>7. ticket[r].fresh = {}
  <2>1. Behind(r) /\ ticket[r] \in Tickets
    BY <1>2 DEF AdmissionInv
  <2>2. ticket[r].passed = 0
    BY <1>5, <2>1 DEF Behind
  <2> QED
    BY <2>1, <2>2 DEF Behind, Tickets, Limiters
<1>8. CountersAgree'
  <2>1. ASSUME NEW l \in Limiters, NEW k1 \in Keys
        PROVE  Counted(l, k1)' = Counted(l, k1)
    BY <1>3, <1>7 DEF Counted, Key
  <2>2. UNCHANGED hits
    BY DEF Receive
  <2>3. \A l \in Limiters : LimitOf(l)' = LimitOf(l)
    BY DEF LimitOf
  <2> QED
    BY <2>1, <2>2, <2>3 DEF CountersAgree, AdmissionInv
<1> QED
  BY <1>4, <1>6, <1>8

\* The limiter counts the request, which it had not counted before, within its limit.
LEMMA LettingThroughCounts ==
    ASSUME AdmissionInv, NEW r \in Requests, LetThrough(r)
    PROVE  /\ ticket' \in [Requests -> Tickets] /\ hits' \in Counters
           /\ \A q \in Requests : Behind(q)'
           /\ CountersAgree'
<1> DEFINE l == NextLimiter(r)
           k == Key(r, l)
<1>1. /\ ticket \in [Requests -> Tickets] /\ hits \in Counters /\ previous \in Counters
      /\ ticket[r] \in Tickets /\ Behind(r) /\ request[r].step = "arrived"
  BY DEF AdmissionInv, ApiTypeOK, LetThrough
<1>2. /\ l \in Limiters \ ticket[r].fresh
      /\ ticket[r].passed + 1 \in 1..3
      /\ l = "address" => ticket[r].passed + 1 >= 1
      /\ l = "user" => ticket[r].passed + 1 >= 2
      /\ l = "upload" => ticket[r].passed + 1 = 3
      /\ ticket[r].passed + 1 = 3 => request[r].kind = "upload"
  BY <1>1, ChainOrder DEF LetThrough
<1>3. k \in Keys
  BY <1>1 DEF Key, Tickets, Keys
<1>4. /\ hits' = [hits EXCEPT ![l][k] = @ + 1]
      /\ ticket' = [ticket EXCEPT ![r].passed = @ + 1, ![r].fresh = @ \cup {l}]
      /\ \E carried \in 0..previous[l][k] : ~Exceeded(l, k, carried)
      /\ UNCHANGED request
  BY DEF LetThrough, userVars
<1> HIDE DEF l, k
<1>5. hits[l][k] \in 0..RateLimit /\ hits[l][k] + 1 <= LimitOf(l)
  <2>1. hits[l][k] \in 0..RateLimit /\ previous[l][k] \in 0..RateLimit /\ LimitOf(l) \in 1..RateLimit
    BY <1>1, <1>2, <1>3, Limits DEF Counters
  <2> QED
    BY <1>4, <2>1, LimitsAssumption DEF Exceeded
<1>6. /\ hits'[l][k] = hits[l][k] + 1
      /\ \A m \in Limiters, j \in Keys : m # l \/ j # k => hits'[m][j] = hits[m][j]
      /\ hits' \in Counters
  <2>1. hits[l][k] + 1 \in 0..RateLimit
    BY <1>2, <1>5, Limits, LimitsAssumption
  <2> QED
    BY <1>1, <1>2, <1>3, <1>4, <2>1 DEF Counters
<1>7. /\ ticket'[r].passed = ticket[r].passed + 1 /\ ticket'[r].fresh = ticket[r].fresh \cup {l}
      /\ ticket'[r].address = ticket[r].address /\ ticket'[r].user = ticket[r].user
      /\ \A q \in Requests \ {r} : ticket'[q] = ticket[q]
      /\ ticket' \in [Requests -> Tickets]
  <2>1. /\ ticket'[r].passed = ticket[r].passed + 1 /\ ticket'[r].fresh = ticket[r].fresh \cup {l}
        /\ ticket'[r].address = ticket[r].address /\ ticket'[r].user = ticket[r].user
        /\ ticket'[r] = [address |-> ticket[r].address, user |-> ticket[r].user,
                         passed |-> ticket[r].passed + 1, fresh |-> ticket[r].fresh \cup {l}]
        /\ \A q \in Requests \ {r} : ticket'[q] = ticket[q]
    BY <1>1, <1>4 DEF Tickets
  <2>2. ticket'[r] \in Tickets
    BY <1>1, <1>2, <2>1 DEF Tickets
  <2> QED
    BY <1>1, <1>4, <2>1, <2>2
<1>8. ASSUME NEW q \in Requests
      PROVE  Behind(q)'
  <2>1. CASE q # r
    BY <1>4, <1>7, <2>1 DEF Behind, AdmissionInv
  <2>2. CASE q = r
    <3>1. ticket[r].passed \in 0..3
      BY <1>1 DEF Tickets
    <3> QED
      BY <1>1, <1>2, <1>4, <1>7, <2>2, <3>1 DEF Behind
  <2> QED
    BY <2>1, <2>2
<1>9. CountersAgree'
  <2> SUFFICES ASSUME NEW m \in Limiters, NEW j \in Keys
               PROVE  /\ IsFiniteSet(Counted(m, j)')
                      /\ hits'[m][j] = Cardinality(Counted(m, j)')
                      /\ hits'[m][j] <= LimitOf(m)
    BY DEF CountersAgree, LimitOf
  <2>1. /\ IsFiniteSet(Counted(m, j)) /\ hits[m][j] = Cardinality(Counted(m, j))
        /\ hits[m][j] <= LimitOf(m)
    BY DEF AdmissionInv, CountersAgree
  <2>2. \A q \in Requests : Key(q, m)' = Key(q, m)
    BY <1>7 DEF Key
  <2>3. CASE m = l /\ j = k
    <3>1. Counted(m, j)' = Counted(m, j) \cup {r}
      BY <1>7, <2>2, <2>3 DEF Counted, k
    <3>2. r \notin Counted(m, j)
      BY <1>2, <2>3 DEF Counted
    <3>3. /\ IsFiniteSet(Counted(m, j) \cup {r})
          /\ Cardinality(Counted(m, j) \cup {r}) = Cardinality(Counted(m, j)) + 1
      BY <2>1, <3>2, FS_AddElement
    <3> QED
      BY <1>5, <1>6, <2>1, <2>3, <3>1, <3>3
  <2>4. CASE m # l \/ j # k
    <3>1. Counted(m, j)' = Counted(m, j)
      BY <1>7, <2>2, <2>4 DEF Counted, k
    <3> QED
      BY <1>6, <2>1, <2>4, <3>1
  <2> QED
    BY <2>3, <2>4
<1> QED
  BY <1>6, <1>7, <1>8, <1>9

\* In a new minute all counters are at zero.
LEMMA NewMinuteForgets ==
    ASSUME AdmissionInv, NextWindow
    PROVE  AdmissionInv'
<1>1. /\ ticket \in [Requests -> Tickets] /\ hits \in Counters /\ window \in 0..MaxWindows
      /\ window < MaxWindows
  BY DEF AdmissionInv, ApiTypeOK, NextWindow
<1>2. UNCHANGED userVars
  BY DEF NextWindow
<1>3. IInv'
  BY <1>2, StepIsSound DEF AdmissionInv
<1>4. \A r \in Requests :
        /\ ticket'[r] = [address |-> ticket[r].address, user |-> ticket[r].user,
                         passed |-> ticket[r].passed, fresh |-> {}]
        /\ ticket'[r].fresh = {} /\ ticket'[r].passed = ticket[r].passed
  BY <1>1 DEF NextWindow, Tickets
<1>5. ticket' \in [Requests -> Tickets]
  <2>1. ASSUME NEW r \in Requests
        PROVE  ticket'[r] \in Tickets
    <3>1. ticket[r] \in Tickets
      BY <1>1
    <3>2. ticket[r].address \in Addresses /\ ticket[r].user \in Keys /\ ticket[r].passed \in 0..3
      BY <3>1 DEF Tickets
    <3>3. ticket'[r] = [address |-> ticket[r].address, user |-> ticket[r].user,
                        passed |-> ticket[r].passed, fresh |-> {}]
      BY <1>4
    <3> QED
      BY <3>2, <3>3, AnyTicket
  <2> QED
    BY <2>1 DEF NextWindow
<1>6. hits' \in Counters /\ previous' \in Counters /\ window' \in 0..MaxWindows
  BY <1>1, LimitsAssumption DEF NextWindow, Counters
<1>7. \A r \in Requests : Behind(r)'
  BY <1>2, <1>4 DEF Behind, AdmissionInv, userVars
<1>8. CountersAgree'
  <2> SUFFICES ASSUME NEW l \in Limiters, NEW k \in Keys
               PROVE  /\ IsFiniteSet(Counted(l, k)')
                      /\ hits'[l][k] = Cardinality(Counted(l, k)')
                      /\ hits'[l][k] <= LimitOf(l)
    BY DEF CountersAgree, LimitOf
  <2>1. Counted(l, k)' = {}
    BY <1>4 DEF Counted
  <2>2. hits'[l][k] = 0
    BY DEF NextWindow
  <2> QED
    BY <2>1, <2>2, Limits, LimitsAssumption, FS_EmptySet
<1> QED
  BY <1>3, <1>5, <1>6, <1>7, <1>8 DEF AdmissionInv, ApiTypeOK, IInv

\* The limiters have no part in what the handlers do.
LEMMA HandlersCountNothing ==
    ASSUME AdmissionInv, NEW r \in Requests, TurnAway(r) \/ Process(r)
    PROVE  (\A q \in Requests : Behind(q)') /\ CountersAgree' /\ UNCHANGED limiterVars
<1>1. UNCHANGED limiterVars
  BY DEF TurnAway, Process
<1>2. Step(r)
  BY DEF TurnAway, Process, Step, Handle
<1>3. \A q \in Requests \ {r} : request'[q] = request[q]
  BY <1>2, OthersStay DEF AdmissionInv, IInv
<1>4. request[r].step # "idle"
  BY DEF TurnAway, Process, Refuse, Cut, Handle, Upload, Delete, StoreOriginal, BeginInsert,
     CommitInsert, InsertUnanswered, InsertFails, Insert, Rollback, ReadLatest, CheckOwner,
     LookUpCurrent, SoftDelete, SoftDeleteUnanswered, Update, Deleting, NothingUpdated,
     DeleteConflict, Unavailable, Fails, Calling, At
<1>5. request'[r].kind = request[r].kind /\ request'[r].step # "idle"
  <2>1. Sound(r) /\ Sound(r)' /\ request[r].kind # "none"
    BY <1>2, <1>4, OwnStepIsSound DEF AdmissionInv, IInv, Sound, Progress
  <2>2. request'[r].kind = request[r].kind
    BY <1>2, <1>4, KindsLast DEF AdmissionInv
  <2> QED
    BY <2>1, <2>2 DEF Sound, Progress
<1>6. \A q \in Requests : Behind(q)'
  BY <1>1, <1>3, <1>5 DEF Behind, AdmissionInv, limiterVars
<1>7. CountersAgree'
  BY <1>1 DEF CountersAgree, Counted, Key, LimitOf, AdmissionInv, limiterVars
<1> QED
  BY <1>1, <1>6, <1>7

LEMMA StepAdmits == AdmissionInv /\ [ApiNext]_apiVars => AdmissionInv'
<1> SUFFICES ASSUME AdmissionInv, [ApiNext]_apiVars PROVE AdmissionInv'
  OBVIOUS
<1>1. IInv'
  BY ApiStepsAreUserSteps, StepIsSound DEF AdmissionInv
<1>2. CASE UNCHANGED apiVars
  BY <1>1, <1>2 DEF apiVars, limiterVars, userVars, AdmissionInv, IInv, ApiTypeOK, Behind, CountersAgree,
        Counted, Key, LimitOf
<1>3. ASSUME NEW r \in Requests, NEW x \in Addresses, Receive(r, x)
      PROVE  AdmissionInv'
  BY <1>1, <1>3, ReceivingAdmitsNobody DEF AdmissionInv, ApiTypeOK, IInv, Receive
<1>4. ASSUME NEW r \in Requests, LetThrough(r)
      PROVE  AdmissionInv'
  BY <1>1, <1>4, LettingThroughCounts DEF AdmissionInv, ApiTypeOK, IInv, LetThrough
<1>5. ASSUME NEW r \in Requests, TurnAway(r) \/ Process(r)
      PROVE  AdmissionInv'
  BY <1>1, <1>5, HandlersCountNothing DEF AdmissionInv, ApiTypeOK, IInv, limiterVars
<1> QED
  BY <1>2, <1>3, <1>4, <1>5, NewMinuteForgets DEF ApiNext

----------------------------------------------------------------------------
\* Theorems about the limiters.

LEMMA AdmissionInvariance == ApiSpec => []AdmissionInv
BY InitAdmits, StepAdmits, PTL DEF ApiSpec

\* Every variable stays in its domain, and no counter passes the limit.
THEOREM ApiTypeCorrect == ApiSpec => []ApiTypeOK
<1>1. AdmissionInv => ApiTypeOK
  BY DEF AdmissionInv
<1> QED
  BY <1>1, AdmissionInvariance, PTL

\* In one minute no address and no user gets more requests, and no address more uploads,
\* past the limiters than the limits allow, however the requests overlap.
THEOREM AdmissionKeepsItsLimits == ApiSpec => []AdmissionIsBounded
<1>1. ASSUME AdmissionInv PROVE AdmissionIsBounded
  <2>1. ASSUME NEW l \in Limiters, NEW k \in Keys
        PROVE  Cardinality(Counted(l, k)) <= LimitOf(l)
    BY <1>1 DEF AdmissionInv, CountersAgree
  <2>2. ASSUME NEW x \in Addresses
        PROVE  /\ Counted("upload", x) = {r \in Admitted("upload") : ticket[r].address = x}
               /\ Counted("address", x) = {r \in Admitted("address") : ticket[r].address = x}
    BY DEF Counted, Admitted, Key
  <2>3. ASSUME NEW u \in Users
        PROVE  Counted("user", u) = {r \in Admitted("user") : ticket[r].user = u}
    BY DEF Counted, Admitted, Key
  <2> QED
    BY <2>1, <2>2, <2>3 DEF AdmissionIsBounded, LimitOf, Limiters, Keys
<1> QED
  BY <1>1, AdmissionInvariance, PTL
=============================================================================
