---------------------------- MODULE UserAvatars ----------------------------
(* What users do to their avatars: requests that upload, read the latest      *)
(* avatar, and delete one by identifier or the latest one, each made of        *)
(* several statements against the one table, interleaved with the others, cut  *)
(* short, refused by a breaker, or committed without an answer.  The files and *)
(* the processing are the business of AvatarLifecycle.                         *)
EXTENDS Naturals, FiniteSets

CONSTANTS
    Users,         \* values of X-User-ID, which nobody verifies
    Avatars,       \* identifiers of avatars
    Requests,      \* requests, each made once
    NoAvatar,      \* the avatar of a request that has none yet
    MaxFaults      \* bound: calls that fail or are refused, and requests cut short

ASSUME NobodyAssumption == NoAvatar \notin Avatars
ASSUME FaultsAssumption == MaxFaults \in Nat

VARIABLES
    avatars,       \* the table: owner, creation time and state of each avatar
    clock,         \* NOW() of the database
    request,       \* progress of each request
    history,       \* of each request: what it found at its start and what it has changed
    faults         \* faults so far

userVars == <<avatars, clock, request, history, faults>>

----------------------------------------------------------------------------
\* The table.

States == {"absent", "inserting", "visible", "deleted"}

Rows == [owner : Users, created : Nat, state : States]

Visible(a) == avatars[a].state = "visible"

\* Rows some transaction has committed, deleted or not.
Committed == {a \in Avatars : avatars[a].state \in {"visible", "deleted"}}

VisibleOf(u) == {a \in Avatars : Visible(a) /\ avatars[a].owner = u}

\* Wrong on purpose: the oldest first.
Earliest(u) ==
    {a \in VisibleOf(u) : \A b \in VisibleOf(u) : avatars[a].created <= avatars[b].created}

\* ORDER BY created_at DESC: the first row, any of them when the times are equal.
Latest(u) ==
    {a \in VisibleOf(u) : \A b \in VisibleOf(u) : avatars[b].created <= avatars[a].created}

SetState(a, to) == avatars' = [avatars EXCEPT ![a].state = to]

----------------------------------------------------------------------------
\* Requests.

Kinds == {"none", "upload", "read", "delete", "deleteCurrent"}

Steps == {"idle", "arrived", "insert", "commit", "update", "conflict", "done"}

\* What the client is told: the statuses 201, 200 or 204, the fallback picture or
\* the empty list, 403, 404, 429, 503, 500, or nothing at all.
Answers == {"none", "created", "avatar", "removed", "empty", "forbidden", "notFound",
            "tooMany", "unavailable", "error", "lost"}

Idle(u) == [kind |-> "none", user |-> u, owner |-> u, avatar |-> NoAvatar,
            step |-> "idle", answer |-> "none"]

Untouched == [older |-> {}, stale |-> FALSE, empty |-> FALSE, changed |-> {}]

\* The table holds any earlier uploads.
UserInit ==
    /\ avatars \in [Avatars -> [owner : Users, created : {0, 1}, state : {"absent", "visible"}]]
    /\ \A a \in Avatars : avatars[a].state = "absent" => avatars[a].created = 0
    /\ clock = 2
    /\ \E u \in Users : request = [r \in Requests |-> Idle(u)]
    /\ history = [r \in Requests |-> Untouched]
    /\ faults = 0

Fault == faults < MaxFaults /\ faults' = faults + 1

At(r, kinds, from) == request[r].kind \in kinds /\ request[r].step = from

\* Nothing that follows, cleanup and publication, depends on the rows or changes them.
Finish(r, answer) ==
    request' = [request EXCEPT ![r].step = "done", ![r].answer = answer]

\* A request of user u about the avatars of o, or about avatar a, whose identifier
\* it can only know from an answer.
Arrive(r, kind, u, o, a) ==
    /\ request[r].step = "idle"
    /\ kind # "deleteCurrent" => o = u
    /\ IF kind = "delete" THEN a \in Committed ELSE a = NoAvatar
    /\ request' = [request EXCEPT ![r] = [kind |-> kind, user |-> u, owner |-> o, avatar |-> a,
                                          step |-> "arrived", answer |-> "none"]]
    /\ history' = [history EXCEPT ![r].older = Committed,
                                  ![r].stale = kind = "delete" /\ ~Visible(a),
                                  ![r].empty = kind = "deleteCurrent" /\ VisibleOf(o) = {}]
    /\ UNCHANGED <<avatars, clock, faults>>

\* Turned away before its handler.
Refuse(r) ==
    /\ request[r].step = "arrived"
    /\ Finish(r, "tooMany")
    /\ UNCHANGED <<avatars, clock, history, faults>>

NoneLeft(u) == \A a \in Avatars : avatars'[a].state = "visible" => avatars'[a].owner # u

\* r has changed a, which may leave the owner of a request for the current one without any.
Changed(r, a) ==
    history' = [q \in Requests |->
        [history[q] EXCEPT
            !.changed = IF q = r THEN @ \cup {a} ELSE @,
            !.empty = @ \/ (At(q, {"deleteCurrent"}, "arrived") /\ NoneLeft(request[q].owner))]]

\* DeleteCurrent: the user of the path is not the one of the header.
Stranger(r) == request[r].kind = "deleteCurrent" /\ request[r].owner # request[r].user

\* r is about to call the storage or the database through a breaker.
Calling(r) == request[r].step \in {"arrived", "insert", "update"} /\ ~Stranger(r)

\* The breaker is open: the call is not made.
Unavailable(r) ==
    /\ Fault
    /\ Calling(r)
    /\ Finish(r, "unavailable")
    /\ UNCHANGED <<avatars, clock, history>>

\* The call fails and has changed nothing.
Fails(r) ==
    /\ Fault
    /\ Calling(r) \/ request[r].step = "conflict"
    /\ Finish(r, "error")
    /\ UNCHANGED <<avatars, clock, history>>

----------------------------------------------------------------------------
\* Upload.

\* The original is stored; the row comes next.
StoreOriginal(r) ==
    /\ At(r, {"upload"}, "arrived")
    /\ request' = [request EXCEPT ![r].step = "insert"]
    /\ UNCHANGED <<avatars, clock, history, faults>>

\* created_at is the time at which the INSERT begins, under a new identifier.
BeginInsert(r) ==
    /\ At(r, {"upload"}, "insert")
    /\ \E a \in Avatars :
        /\ avatars[a].state = "absent"
        /\ avatars' = [avatars EXCEPT ![a] =
                         [owner |-> request[r].user, created |-> clock, state |-> "inserting"]]
        /\ request' = [request EXCEPT ![r].step = "commit", ![r].avatar = a]
    /\ UNCHANGED <<clock, history, faults>>

\* Others see the row from here on.  Time goes on while a statement runs.
Insert(r) ==
    LET a == request[r].avatar IN
    /\ At(r, {"upload"}, "commit")
    /\ SetState(a, "visible")
    /\ clock' = clock + 1
    /\ Changed(r, a)

CommitInsert(r) ==
    /\ Insert(r)
    /\ Finish(r, "created")
    /\ UNCHANGED faults

\* Committed, but the answer of the database is lost.
InsertUnanswered(r) ==
    /\ Fault
    /\ Insert(r)
    /\ Finish(r, "error")

Rollback(r) ==
    /\ At(r, {"upload"}, "commit")
    /\ SetState(request[r].avatar, "absent")
    /\ UNCHANGED <<clock, history>>

InsertFails(r) ==
    /\ Fault
    /\ Rollback(r)
    /\ Finish(r, "error")

Upload(r) == StoreOriginal(r) \/ BeginInsert(r) \/ CommitInsert(r) \/ InsertUnanswered(r) \/ InsertFails(r)

----------------------------------------------------------------------------
\* Reads and deletions.

\* GetCurrent, and the first row of List.
ReadLatest(r) ==
    /\ At(r, {"read"}, "arrived")
    /\ \/ /\ VisibleOf(request[r].owner) = {}
          /\ Finish(r, "empty")
       \/ \E a \in Latest(request[r].owner) :
            request' = [request EXCEPT ![r].step = "done", ![r].answer = "avatar", ![r].avatar = a]
    /\ UNCHANGED <<avatars, clock, history, faults>>

\* Nobody deletes the current avatar of somebody else.
CheckOwner(r) ==
    /\ At(r, {"deleteCurrent"}, "arrived")
    /\ Stranger(r)
    /\ Finish(r, "forbidden")
    /\ UNCHANGED <<avatars, clock, history, faults>>

\* CurrentMetadata, whose answer is used by the next statement.
LookUpCurrent(r) ==
    /\ At(r, {"deleteCurrent"}, "arrived")
    /\ ~Stranger(r)
    /\ \/ /\ VisibleOf(request[r].owner) = {}
          /\ Finish(r, "notFound")
       \/ \E a \in Latest(request[r].owner) :
            request' = [request EXCEPT ![r].step = "update", ![r].avatar = a]
    /\ UNCHANGED <<avatars, clock, history, faults>>

\* The UPDATE of softDelete is next, in either kind of deletion.
Deleting(r) == At(r, {"delete"}, "arrived") \/ At(r, {"deleteCurrent"}, "update")

\* Wrong on purpose: a row that is deleted already is deleted once more.
MineDeletedOrNot(r) == avatars[request[r].avatar].owner = request[r].user

\* The condition of the UPDATE.
Mine(r) == Visible(request[r].avatar) /\ avatars[request[r].avatar].owner = request[r].user

Update(r) ==
    /\ Deleting(r)
    /\ Mine(r)
    /\ SetState(request[r].avatar, "deleted")
    /\ Changed(r, request[r].avatar)
    /\ UNCHANGED clock

SoftDelete(r) ==
    /\ Update(r)
    /\ Finish(r, "removed")
    /\ UNCHANGED faults

\* Wrong on purpose: any error of a call behind the breaker is an ErrUnavailable.
SoftDeleteUnansweredIsUnavailable(r) ==
    /\ Fault
    /\ Update(r)
    /\ Finish(r, "unavailable")

SoftDeleteUnanswered(r) ==
    /\ Fault
    /\ Update(r)
    /\ Finish(r, "error")

NothingUpdated(r) ==
    /\ Deleting(r)
    /\ ~Mine(r)
    /\ request' = [request EXCEPT ![r].step = "conflict"]
    /\ UNCHANGED <<avatars, clock, history, faults>>

\* Wrong on purpose: the SELECT finds deleted rows too.
ConflictSeesDeleted(r) ==
    LET a == request[r].avatar IN
    /\ request[r].step = "conflict"
    /\ Finish(r, IF avatars[a].owner # request[r].user THEN "forbidden" ELSE "notFound")
    /\ UNCHANGED <<avatars, clock, history, faults>>

\* deleteConflict: a second statement finds out why.
DeleteConflict(r) ==
    LET a == request[r].avatar IN
    /\ request[r].step = "conflict"
    /\ Finish(r, IF Visible(a) /\ avatars[a].owner # request[r].user
                 THEN "forbidden" ELSE "notFound")
    /\ UNCHANGED <<avatars, clock, history, faults>>

Delete(r) ==
    \/ CheckOwner(r) \/ LookUpCurrent(r)
    \/ SoftDelete(r) \/ SoftDeleteUnanswered(r) \/ NothingUpdated(r) \/ DeleteConflict(r)

----------------------------------------------------------------------------
\* The server stops or the client gives up, in the middle of the work or with the
\* answer on its way: nobody gets it.
Cut(r) ==
    /\ Fault
    /\ request[r].step # "idle" /\ request[r].answer # "lost"
    /\ Finish(r, "lost")
    /\ \/ request[r].step # "commit" /\ UNCHANGED <<avatars, clock, history>>
       \/ Rollback(r)
       \/ Insert(r)

Handle(r) ==
    \/ Upload(r) \/ ReadLatest(r) \/ Delete(r)
    \/ Unavailable(r) \/ Fails(r) \/ Cut(r)

UserNext ==
    \E r \in Requests :
        \/ \E kind \in Kinds \ {"none"}, u, o \in Users, a \in Avatars \cup {NoAvatar} :
              Arrive(r, kind, u, o, a)
        \/ Refuse(r)
        \/ Handle(r)

UserSpec == UserInit /\ [][UserNext]_userVars

----------------------------------------------------------------------------
\* Properties.

RequestStates == [kind : Kinds, user : Users, owner : Users, avatar : Avatars \cup {NoAvatar},
                  step : Steps, answer : Answers]

Histories == [older : SUBSET Avatars, stale : BOOLEAN, empty : BOOLEAN, changed : SUBSET Avatars]

\* Every variable stays in its domain.
UserTypeOK ==
    /\ avatars \in [Avatars -> Rows]
    /\ clock \in Nat
    /\ request \in [Requests -> RequestStates]
    /\ history \in [Requests -> Histories]
    /\ faults \in 0..MaxFaults

\* What r may have done, judging by its answer.
Due(r) ==
    LET q == request[r]
        c == history[r].changed
    IN  /\ q.answer = "created" => q.kind = "upload" /\ c = {q.avatar}
        /\ q.answer = "removed" => q.kind \in {"delete", "deleteCurrent"} /\ c = {q.avatar}
        /\ c # {} => q.answer \in {"created", "removed", "error", "lost"}

\* Each request does what its answer says: 201 and 204 are worth exactly one avatar
\* of the user that asked, a refusal or a 503, which asks to be repeated, has changed
\* nothing, and no two requests remove the same avatar, however they overlap: two
\* clicks on "delete" are one removal and one 404.  Only 500 or a lost connection
\* leaves the client in doubt.
AnswersMatchEffects ==
    \A r \in Requests :
        /\ Due(r)
        /\ \A a \in history[r].changed : avatars[a].owner = request[r].user
        /\ \A q \in Requests \ {r} :
             (request[r].kind = "upload") = (request[q].kind = "upload")
               => history[r].changed \cap history[q].changed = {}

\* README, status codes: 403 is "an attempt to delete somebody else's avatar", 404
\* "not found or already deleted".  403 is for an avatar that was still there when
\* the request came, never for its owner and never for one already deleted; 404
\* means that the avatar is gone, or that the user had none at some moment, or that
\* another deletion took it first.
RefusalsAreTruthful ==
    \A r \in Requests :
        LET q == request[r] IN
        /\ q.answer = "forbidden" =>
             IF q.kind = "delete"
             THEN avatars[q.avatar].owner # q.user /\ ~history[r].stale
             ELSE q.owner # q.user
        /\ q.answer = "notFound" =>
             \/ q.avatar = NoAvatar /\ history[r].empty
             \/ q.avatar \in Avatars /\ avatars[q.avatar].state = "deleted"

\* The avatar r was given, or set out to remove as the current one.
Chosen(r) ==
    IF request[r].answer = "avatar" \/ request[r].kind = "deleteCurrent"
    THEN {request[r].avatar} \ {NoAvatar} ELSE {}

\* openapi.yaml, "current is the last upload that is not deleted".  No request takes
\* avatar a for the current one when the user had by then uploaded b after a, before
\* the request came, and b is still there: not even when uploads overlap, and their
\* rows appear in another order than they were begun in.
CurrentMeansLatest ==
    \A r, q \in Requests : \A a \in Chosen(r) :
        request[q].kind = "upload" /\ a \in history[q].older
        => history[q].changed \cap history[r].older \cap VisibleOf(request[r].owner) = {}
=============================================================================
