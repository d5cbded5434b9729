-------------------------- MODULE AvatarLifecycle --------------------------
(* The life of an avatar across the whole service: the HTTP server uploads  *)
(* and deletes, the row lives in PostgreSQL, the files in the object        *)
(* storage, the events in RabbitMQ, and worker replicas build thumbnails,   *)
(* remove files and republish what got stuck.  Each database statement,     *)
(* storage request, publication and acknowledgement is one step; a replica  *)
(* may stop between any two of them.                                        *)
(*                                                                          *)
(* A retry queue is a delay in front of its work queue, so an event waiting *)
(* out its TTL is simply an event still in the queue (the Consumer module   *)
(* takes the two apart).                                                    *)
EXTENDS Naturals, FiniteSets

CONSTANTS
    Avatars,           \* identifiers the server draws for uploads
    Workers,           \* worker replicas
    Sizes,             \* thumbnail sizes a worker builds
    Pictures,          \* classes of uploaded images
    Decodes,           \* Decodes[w]: the classes replica w manages to decode
    NoAvatar,          \* what an idle handler is working on
    MaxRetries,        \* RABBITMQ_MAX_RETRIES
    ReconcileBatch,    \* reconcileBatch
    AmbiguousCommits,  \* may an INSERT or a soft delete commit and yet report an error?
    MaxFaults,         \* bound: failed calls and stops of a replica
    MaxQueued          \* bound: copies of one upload event the reconciler may pile up

ASSUME AvatarsAssumption == IsFiniteSet(Avatars)
ASSUME RetriesAssumption == MaxRetries \in Nat
ASSUME SizesAssumption == "original" \notin Sizes
ASSUME IdleAssumption == NoAvatar \notin Avatars
ASSUME DecodesAssumption == Decodes \in [Workers -> SUBSET Pictures]
ASSUME BoundsAssumption == MaxFaults \in Nat /\ MaxQueued \in Nat /\ ReconcileBatch \in Nat \ {0}
ASSUME AmbiguityAssumption == AmbiguousCommits \in BOOLEAN

VARIABLES
    picture,       \* the class of the image behind each upload
    rows,          \* table avatars
    objects,       \* keys present in the object storage
    uploads,       \* progress of the upload request of each avatar
    deletes,       \* progress of the delete request of each avatar
    uploadQueue,   \* avatars.process with its retry queue: copies by avatar and x-death count
    deleteQueue,   \* avatars.delete with its retry queue
    deadDeletes,   \* delete events parked in avatars.dead
    process,       \* upload handler of each replica
    remove,        \* delete handler of each replica
    stuck,         \* what the reconciler of each replica has listed and not yet republished
    faults         \* faults that have happened

vars == <<picture, rows, objects, uploads, deletes, uploadQueue, deleteQueue,
          deadDeletes, process, remove, stuck, faults>>

server == <<uploads, deletes>>
broker == <<uploadQueue, deleteQueue, deadDeletes>>
worker == <<process, remove, stuck>>

----------------------------------------------------------------------------
\* Object keys and rows.

Original(a) == <<a, "original">>
Thumbnail(a, s) == <<a, s>>
Keys == Avatars \X (Sizes \cup {"original"})

Rows == [status : {"absent", "pending", "completed", "failed"},
         thumbs : SUBSET Sizes, deleted : BOOLEAN, created : Nat]

NoRow == [status |-> "absent", thumbs |-> {}, deleted |-> FALSE, created |-> 0]

Stored == {a \in Avatars : rows[a].status # "absent"}

\* The inserted row; created_at keeps the order of the insertions.
NewRow == [status |-> "pending", thumbs |-> {}, deleted |-> FALSE,
           created |-> Cardinality(Stored)]

Visible(a) == rows[a].status # "absent" /\ ~rows[a].deleted

\* Avatar.AllS3Keys of the row of a: the original and the thumbnails it lists.
AllS3Keys(a) == {Original(a)} \cup {Thumbnail(a, s) : s \in rows[a].thumbs}

IdleProcess == [pc |-> "idle", avatar |-> NoAvatar, deaths |-> 0, held |-> FALSE, todo |-> {}]
NoEvent == [avatar |-> NoAvatar, keys |-> {}, deaths |-> 0]
IdleRemove == [pc |-> "idle", event |-> NoEvent, held |-> FALSE, left |-> {}]
DeleteEvents == [avatar : Avatars, keys : SUBSET Keys, deaths : 0..MaxRetries]

Init ==
    /\ picture \in [Avatars -> Pictures]
    /\ rows = [a \in Avatars |-> NoRow]
    /\ objects = {}
    /\ uploads = [a \in Avatars |-> "idle"]
    /\ deletes = [a \in Avatars |-> [pc |-> "idle", keys |-> {}]]
    /\ uploadQueue = [e \in Avatars \X (0..MaxRetries) |-> 0]
    /\ deleteQueue = {}
    /\ deadDeletes = {}
    /\ process = [w \in Workers |-> IdleProcess]
    /\ remove = [w \in Workers |-> IdleRemove]
    /\ stuck = [w \in Workers |-> {}]
    /\ faults = 0

Fault == faults < MaxFaults /\ faults' = faults + 1

----------------------------------------------------------------------------
\* Server: AvatarService.Upload.

AdvanceUpload(a, from, to) ==
    /\ uploads[a] = from
    /\ uploads' = [uploads EXCEPT ![a] = to]

PutOriginal(a) ==
    /\ AdvanceUpload(a, "idle", "create")
    /\ objects' = objects \cup {Original(a)}
    /\ UNCHANGED <<picture, rows, deletes, broker, worker, faults>>

\* A storage error ends the request without any cleanup, whether or not the
\* object was stored.
PutOriginalFails(a) ==
    /\ Fault
    /\ AdvanceUpload(a, "idle", "failed")
    /\ \E stored \in SUBSET {Original(a)} : objects' = objects \cup stored
    /\ UNCHANGED <<picture, rows, deletes, broker, worker>>

CreateRow(a) ==
    /\ AdvanceUpload(a, "create", "publish")
    /\ rows' = [rows EXCEPT ![a] = NewRow]
    /\ UNCHANGED <<picture, objects, deletes, broker, worker, faults>>

CreateRowFails(a) ==
    /\ Fault
    /\ AdvanceUpload(a, "create", "cleanup")
    /\ \/ UNCHANGED rows
       \/ AmbiguousCommits /\ rows' = [rows EXCEPT ![a] = NewRow]
    /\ UNCHANGED <<picture, objects, deletes, broker, worker>>

RemoveOrphan(a) ==
    /\ AdvanceUpload(a, "cleanup", "failed")
    /\ objects' = objects \ {Original(a)}
    /\ UNCHANGED <<picture, rows, deletes, broker, worker, faults>>

RemoveOrphanFails(a) ==
    /\ Fault
    /\ AdvanceUpload(a, "cleanup", "failed")
    /\ UNCHANGED <<picture, rows, objects, deletes, broker, worker>>

PublishUpload(a) ==
    /\ AdvanceUpload(a, "publish", "accepted")
    /\ uploadQueue' = [uploadQueue EXCEPT ![<<a, 0>>] = @ + 1]
    /\ UNCHANGED <<picture, rows, objects, deletes, deleteQueue, deadDeletes, worker, faults>>

\* Wrong on purpose: a failed publication is cleaned up like a failed insertion.
PublishUploadFailsCleaning(a) ==
    /\ Fault
    /\ AdvanceUpload(a, "publish", "cleanup")
    /\ UNCHANGED <<picture, rows, objects, deletes, broker, worker>>

\* The error is only logged: the client is told the upload succeeded.
PublishUploadFails(a) ==
    /\ Fault
    /\ AdvanceUpload(a, "publish", "accepted")
    /\ UNCHANGED <<picture, rows, objects, deletes, broker, worker>>

\* The server stops in the middle of the request.
AbandonUpload(a) ==
    /\ Fault
    /\ \E from \in {"create", "cleanup", "publish"} : AdvanceUpload(a, from, "abandoned")
    /\ UNCHANGED <<picture, rows, objects, deletes, broker, worker>>

Upload(a) ==
    \/ PutOriginal(a) \/ PutOriginalFails(a)
    \/ CreateRow(a) \/ CreateRowFails(a)
    \/ RemoveOrphan(a) \/ RemoveOrphanFails(a)
    \/ PublishUpload(a) \/ PublishUploadFails(a)
    \/ AbandonUpload(a)

----------------------------------------------------------------------------
\* Server: AvatarService.Delete.  A request that finds no visible row changes
\* nothing, so one request per avatar gets past the UPDATE.

MarkDeleted(a) == rows' = [rows EXCEPT ![a].deleted = TRUE]

\* The UPDATE ... RETURNING hands back the keys the row lists at that moment.
SoftDelete(a) ==
    /\ Visible(a)
    /\ MarkDeleted(a)
    /\ deletes' = [deletes EXCEPT ![a] = [pc |-> "publish", keys |-> AllS3Keys(a)]]
    /\ UNCHANGED <<picture, objects, uploads, broker, worker, faults>>

\* Committed, but the answer is lost: the client sees an error, nobody publishes.
SoftDeleteUnanswered(a) ==
    /\ Fault
    /\ AmbiguousCommits
    /\ Visible(a)
    /\ MarkDeleted(a)
    /\ deletes' = [deletes EXCEPT ![a] = [pc |-> "lost", keys |-> AllS3Keys(a)]]
    /\ UNCHANGED <<picture, objects, uploads, broker, worker>>

\* Wrong on purpose: the event names the thumbnails only.
PublishDeleteOfThumbnails(a) ==
    /\ deletes[a].pc = "publish"
    /\ deletes' = [deletes EXCEPT ![a].pc = "done"]
    /\ deleteQueue' = deleteQueue \cup
         {[avatar |-> a, keys |-> deletes[a].keys \ {Original(a)}, deaths |-> 0]}
    /\ UNCHANGED <<picture, rows, objects, uploads, uploadQueue, deadDeletes, worker, faults>>

PublishDelete(a) ==
    /\ deletes[a].pc = "publish"
    /\ deletes' = [deletes EXCEPT ![a].pc = "done"]
    /\ deleteQueue' = deleteQueue \cup {[avatar |-> a, keys |-> deletes[a].keys, deaths |-> 0]}
    /\ UNCHANGED <<picture, rows, objects, uploads, uploadQueue, deadDeletes, worker, faults>>

\* The publication fails, which is only logged, or the server stops before it.
LoseDelete(a) ==
    /\ Fault
    /\ deletes[a].pc = "publish"
    /\ deletes' = [deletes EXCEPT ![a].pc = "lost"]
    /\ UNCHANGED <<picture, rows, objects, uploads, broker, worker>>

Delete(a) ==
    SoftDelete(a) \/ SoftDeleteUnanswered(a) \/ PublishDelete(a) \/ LoseDelete(a)

----------------------------------------------------------------------------
\* Worker: Processor.HandleUpload.  The handler holds its event unacknowledged
\* until pc "ack"; after a lost connection it runs on, but the broker has taken
\* the event back and answers about it have no effect.

AdvanceProcess(w, from, to) ==
    /\ process[w].pc = from
    /\ process' = [process EXCEPT ![w].pc = to]

TakeUpload(w) ==
    /\ process[w].pc = "idle"
    /\ \E a \in Avatars, d \in 0..MaxRetries :
        /\ uploadQueue[<<a, d>>] > 0
        /\ uploadQueue' = [uploadQueue EXCEPT ![<<a, d>>] = @ - 1]
        /\ process' = [process EXCEPT ![w] =
                         [pc |-> "lookup", avatar |-> a, deaths |-> d, held |-> TRUE, todo |-> {}]]
    /\ UNCHANGED <<picture, rows, objects, server, deleteQueue, deadDeletes, remove, stuck, faults>>

\* GetByID: a deleted or already processed avatar needs no work.
LookUp(w) ==
    LET a == process[w].avatar IN
    /\ AdvanceProcess(w, "lookup",
         IF Visible(a) /\ rows[a].status # "completed" THEN "download" ELSE "ack")
    /\ UNCHANGED <<picture, rows, objects, server, broker, remove, stuck, faults>>

\* Reading the original and decoding it, which depends on the image and on the
\* pixel limit of this replica.
Download(w) ==
    LET a == process[w].avatar IN
    /\ process[w].pc = "download"
    /\ Original(a) \in objects
    /\ process' = [process EXCEPT ![w] =
         IF picture[a] \in Decodes[w]
         THEN [@ EXCEPT !.pc = "thumbnails", !.todo = Sizes]
         ELSE [@ EXCEPT !.pc = "reject"]]
    /\ UNCHANGED <<picture, rows, objects, server, broker, remove, stuck, faults>>

\* The loop over the map of sizes, in whatever order Go picks.
PutThumbnail(w) ==
    /\ process[w].pc = "thumbnails"
    /\ \E s \in process[w].todo :
        /\ objects' = objects \cup {Thumbnail(process[w].avatar, s)}
        /\ process' = [process EXCEPT ![w].todo = @ \ {s}]
    /\ UNCHANGED <<picture, rows, server, broker, remove, stuck, faults>>

\* Wrong on purpose: the result is recorded while thumbnails are still uploading.
RecordResultEagerly(w) ==
    LET a == process[w].avatar IN
    /\ AdvanceProcess(w, "thumbnails", "ack")
    /\ rows' = [rows EXCEPT ![a].status = "completed", ![a].thumbs = Sizes]
    /\ UNCHANGED <<picture, objects, server, broker, remove, stuck, faults>>

\* Wrong on purpose: the handler saves the whole row it read at the start.
RecordWholeRow(w) ==
    LET a == process[w].avatar IN
    /\ process[w].todo = {}
    /\ AdvanceProcess(w, "thumbnails", "ack")
    /\ rows' = [rows EXCEPT ![a].status = "completed", ![a].thumbs = Sizes,
                            ![a].deleted = FALSE]
    /\ UNCHANGED <<picture, objects, server, broker, remove, stuck, faults>>

\* UpdateProcessingResult: guarded by the status, not by the deletion mark.
RecordResult(w) ==
    LET a == process[w].avatar IN
    /\ process[w].todo = {}
    /\ AdvanceProcess(w, "thumbnails", "ack")
    /\ rows' = IF rows[a].status = "completed" THEN rows
               ELSE [rows EXCEPT ![a].status = "completed", ![a].thumbs = Sizes]
    /\ UNCHANGED <<picture, objects, server, broker, remove, stuck, faults>>

\* SetProcessingStatus(failed): no guard on the status it overwrites.
RecordFailure(w) ==
    /\ AdvanceProcess(w, "reject", "ack")
    /\ rows' = [rows EXCEPT ![process[w].avatar].status = "failed"]
    /\ UNCHANGED <<picture, objects, server, broker, remove, stuck, faults>>

AckUpload(w) ==
    /\ process[w].pc = "ack"
    /\ process' = [process EXCEPT ![w] = IdleProcess]
    /\ UNCHANGED <<picture, rows, objects, server, broker, remove, stuck, faults>>

\* The event goes back for another attempt, or to the dead queue after the last.
RejectUpload(w) ==
    LET e == process[w] IN
    /\ process' = [process EXCEPT ![w] = IdleProcess]
    /\ uploadQueue' = IF e.held /\ e.deaths < MaxRetries
                      THEN [uploadQueue EXCEPT ![<<e.avatar, e.deaths + 1>>] = @ + 1]
                      ELSE uploadQueue
    /\ UNCHANGED <<picture, rows, objects, server, deleteQueue, deadDeletes, remove, stuck>>

\* Some call of the handler returns an error, with or without having had its
\* effect: a dependency is down, its breaker is open, or shutdown cancelled it.
ProcessFails(w) ==
    /\ Fault
    /\ process[w].pc # "idle"
    /\ RejectUpload(w)

\* The original is gone: ErrObjectNotFound, retried like any other error.
OriginalMissing(w) ==
    /\ process[w].pc = "download"
    /\ Original(process[w].avatar) \notin objects
    /\ RejectUpload(w)
    /\ UNCHANGED faults

Process(w) ==
    \/ TakeUpload(w) \/ LookUp(w) \/ Download(w) \/ OriginalMissing(w)
    \/ PutThumbnail(w) \/ RecordResult(w) \/ RecordFailure(w) \/ AckUpload(w)

----------------------------------------------------------------------------
\* Worker: Processor.HandleDelete.

TakeDelete(w) ==
    /\ remove[w].pc = "idle"
    /\ \E e \in deleteQueue :
        /\ deleteQueue' = deleteQueue \ {e}
        /\ remove' = [remove EXCEPT ![w] = [pc |-> "removing", event |-> e, held |-> TRUE, left |-> e.keys]]
    /\ UNCHANGED <<picture, rows, objects, server, uploadQueue, deadDeletes, process, stuck, faults>>

\* One key of DeleteMany; a key already gone is not an error.
RemoveObject(w) ==
    /\ remove[w].pc = "removing"
    /\ \E k \in remove[w].left :
        /\ objects' = objects \ {k}
        /\ remove' = [remove EXCEPT ![w].left = @ \ {k}]
    /\ UNCHANGED <<picture, rows, server, broker, process, stuck, faults>>

\* Wrong on purpose: acknowledged as soon as it is received.
AckDeleteEarly(w) ==
    /\ remove[w].pc = "removing"
    /\ remove' = [remove EXCEPT ![w] = IdleRemove]
    /\ UNCHANGED <<picture, rows, objects, server, broker, process, stuck, faults>>

AckDelete(w) ==
    /\ remove[w].pc = "removing"
    /\ remove[w].left = {}
    /\ remove' = [remove EXCEPT ![w] = IdleRemove]
    /\ UNCHANGED <<picture, rows, objects, server, broker, process, stuck, faults>>

\* Wrong on purpose: the attempt limit is never looked at.
RemoveFailsForEver(w) ==
    LET e == remove[w].event IN
    /\ Fault
    /\ remove[w].pc = "removing"
    /\ remove' = [remove EXCEPT ![w] = IdleRemove]
    /\ deleteQueue' = deleteQueue \cup {[e EXCEPT !.deaths = @ + 1]}
    /\ UNCHANGED <<picture, rows, objects, server, uploadQueue, deadDeletes, process, stuck>>

RemoveFails(w) ==
    LET e == remove[w].event IN
    /\ Fault
    /\ remove[w].pc = "removing"
    /\ remove' = [remove EXCEPT ![w] = IdleRemove]
    /\ \/ /\ remove[w].held /\ e.deaths < MaxRetries
          /\ deleteQueue' = deleteQueue \cup {[e EXCEPT !.deaths = @ + 1]}
          /\ UNCHANGED deadDeletes
       \/ /\ remove[w].held /\ e.deaths = MaxRetries
          /\ deadDeletes' = deadDeletes \cup {e}
          /\ UNCHANGED deleteQueue
       \/ /\ ~remove[w].held
          /\ UNCHANGED <<deleteQueue, deadDeletes>>
    /\ UNCHANGED <<picture, rows, objects, server, uploadQueue, process, stuck>>

Remove(w) == TakeDelete(w) \/ RemoveObject(w) \/ AckDelete(w)

----------------------------------------------------------------------------
\* Worker: Reconciler.reconcile, run by every replica.  Age only delays the
\* moment a row may be listed, so any pending row is listed here.

\* Wrong on purpose: looks for the status no code ever writes.
StuckInProcessing == {a \in Avatars : Visible(a) /\ rows[a].status = "processing"}

Stuck == {a \in Avatars : Visible(a) /\ rows[a].status = "pending"}

Older(a) == {b \in Stuck : rows[b].created < rows[a].created}

\* The oldest ReconcileBatch of them.
ListStuck(w) ==
    /\ stuck[w] = {}
    /\ Stuck # {}
    /\ stuck' = [stuck EXCEPT ![w] = {a \in Stuck : Cardinality(Older(a)) < ReconcileBatch}]
    /\ UNCHANGED <<picture, rows, objects, server, broker, process, remove, faults>>

Republish(w) ==
    /\ \E a \in stuck[w] :
        /\ \A d \in 0..MaxRetries : uploadQueue[<<a, d>>] < MaxQueued
        /\ uploadQueue' = [uploadQueue EXCEPT ![<<a, 0>>] = @ + 1]
        /\ stuck' = [stuck EXCEPT ![w] = @ \ {a}]
    /\ UNCHANGED <<picture, rows, objects, server, deleteQueue, deadDeletes, process, remove, faults>>

RepublishFails(w) ==
    /\ Fault
    /\ \E a \in stuck[w] : stuck' = [stuck EXCEPT ![w] = @ \ {a}]
    /\ UNCHANGED <<picture, rows, objects, server, broker, process, remove>>

Reconcile(w) == ListStuck(w) \/ Republish(w)

----------------------------------------------------------------------------
\* A replica stops: the broker takes back what it had not acknowledged, with
\* the x-death count the event had.
\* Wrong on purpose: events are auto-acknowledged, so a stop loses them.
WorkerStopsForgetting(w) ==
    /\ Fault
    /\ process[w].pc # "idle" \/ remove[w].pc # "idle" \/ stuck[w] # {}
    /\ process' = [process EXCEPT ![w] = IdleProcess]
    /\ remove' = [remove EXCEPT ![w] = IdleRemove]
    /\ stuck' = [stuck EXCEPT ![w] = {}]
    /\ UNCHANGED <<picture, rows, objects, server, broker>>

TakeBack(w) ==
    LET p == process[w]
        r == remove[w]
    IN
    /\ uploadQueue' = IF p.held THEN [uploadQueue EXCEPT ![<<p.avatar, p.deaths>>] = @ + 1]
                      ELSE uploadQueue
    /\ deleteQueue' = IF r.held THEN deleteQueue \cup {r.event} ELSE deleteQueue
    /\ UNCHANGED deadDeletes

WorkerStops(w) ==
    /\ Fault
    /\ process[w].pc # "idle" \/ remove[w].pc # "idle" \/ stuck[w] # {}
    /\ TakeBack(w)
    /\ process' = [process EXCEPT ![w] = IdleProcess]
    /\ remove' = [remove EXCEPT ![w] = IdleRemove]
    /\ stuck' = [stuck EXCEPT ![w] = {}]
    /\ UNCHANGED <<picture, rows, objects, server>>

\* Only its connection breaks: the handlers run on without their events.
ConnectionBreaks(w) ==
    /\ Fault
    /\ process[w].held \/ remove[w].held
    /\ TakeBack(w)
    /\ process' = [process EXCEPT ![w].held = FALSE]
    /\ remove' = [remove EXCEPT ![w].held = FALSE]
    /\ UNCHANGED <<picture, rows, objects, server, stuck>>

WorkerFault(w) ==
    \/ ProcessFails(w) \/ RemoveFails(w) \/ RepublishFails(w)
    \/ WorkerStops(w) \/ ConnectionBreaks(w)

Next ==
    \/ \E a \in Avatars : Upload(a) \/ Delete(a)
    \/ \E w \in Workers : Process(w) \/ Remove(w) \/ Reconcile(w) \/ WorkerFault(w)

Spec == Init /\ [][Next]_vars

\* A server that runs finishes its requests; a worker that runs keeps consuming
\* both queues and its ticker keeps firing.  Nobody owes the system a fault,
\* an upload or a deletion.
Fairness ==
    /\ \A a \in Avatars :
        /\ WF_vars(CreateRow(a) \/ RemoveOrphan(a) \/ PublishUpload(a))
        /\ WF_vars(PublishDelete(a))
    /\ \A w \in Workers : WF_vars(Process(w)) /\ WF_vars(Remove(w)) /\ WF_vars(Reconcile(w))

FairSpec == Spec /\ Fairness

----------------------------------------------------------------------------
\* Properties.

UploadSteps == {"idle", "create", "cleanup", "publish", "accepted", "failed", "abandoned"}

DeleteRequests == [pc : {"idle", "publish", "done", "lost"}, keys : SUBSET Keys]

ProcessStates == [pc : {"idle", "lookup", "download", "thumbnails", "reject", "ack"},
                  avatar : Avatars \cup {NoAvatar}, deaths : 0..MaxRetries,
                  held : BOOLEAN, todo : SUBSET Sizes]

RemoveStates == [pc : {"idle", "removing"}, event : DeleteEvents \cup {NoEvent},
                 held : BOOLEAN, left : SUBSET Keys]

\* Every variable stays in its domain.
TypeOK ==
    /\ picture \in [Avatars -> Pictures]
    /\ rows \in [Avatars -> Rows]
    /\ objects \in SUBSET Keys
    /\ uploads \in [Avatars -> UploadSteps]
    /\ deletes \in [Avatars -> DeleteRequests]
    /\ uploadQueue \in [Avatars \X (0..MaxRetries) -> Nat]
    /\ deleteQueue \in SUBSET DeleteEvents
    /\ deadDeletes \in SUBSET DeleteEvents
    /\ process \in [Workers -> ProcessStates]
    /\ \A w \in Workers : process[w].pc # "idle" => process[w].avatar \in Avatars
    /\ \A w \in Workers : process[w].held => process[w].pc # "idle"
    /\ remove \in [Workers -> RemoveStates]
    /\ \A w \in Workers : remove[w].pc # "idle" => remove[w].event \in DeleteEvents
    /\ \A w \in Workers : remove[w].held => remove[w].pc # "idle"
    /\ stuck \in [Workers -> SUBSET Avatars]
    /\ faults \in 0..MaxFaults

\* No visible row names a file the storage does not have, whatever duplicates,
\* retries, stops and deletions are under way: a client that got the metadata
\* can read the original and every thumbnail the row lists.  Only the upload
\* whose insertion committed and yet reported an error may have lost its original.
ReferencedObjectsExist ==
    \A a \in Avatars : Visible(a) =>
        \A k \in AllS3Keys(a) \ objects : k = Original(a) /\ uploads[a] = "failed"

\* removeOrphan, services/avatar.go:140: it "removes a file the database no
\* longer refers to".  A failed upload that left a row has left its file too.
OrphansAreUnreferenced ==
    \A a \in Avatars : uploads[a] = "failed" /\ Visible(a) => Original(a) \in objects

\* Where the delete event of a can still be, naming key k.
Announced(a, k) ==
    \/ deletes[a].pc \in {"publish", "lost"}
    \/ \E e \in deleteQueue \cup deadDeletes : e.avatar = a /\ k \in e.keys
    \/ \E w \in Workers :
         /\ remove[w].pc = "removing"
         /\ remove[w].event.avatar = a
         /\ k \in remove[w].left

\* The original of a deleted avatar never becomes garbage nobody knows about:
\* while it is stored, its delete event is about to be published, was lost by
\* the publisher (which logs it), waits in a queue, is being handled, or is
\* parked in the dead queue.  Acknowledging too early would break it.
DeletedOriginalIsTracked ==
    \A a \in Avatars :
        rows[a].deleted /\ Original(a) \in objects => Announced(a, Original(a))

\* Nobody is going to touch the files of a again.
Quiet(a) ==
    /\ deletes[a].pc = "done"
    /\ \A d \in 0..MaxRetries : uploadQueue[<<a, d>>] = 0
    /\ \A e \in deleteQueue \cup deadDeletes : e.avatar # a
    /\ \A w \in Workers :
        /\ process[w].avatar # a
        /\ remove[w].event.avatar # a
        /\ a \notin stuck[w]

\* README, feature list: "soft deletion: the metadata is marked at once, the
\* files are removed by the worker".  Once the delete event has been handled
\* and nothing is in flight, the storage holds no file of the avatar.
DeletedAvatarLeavesNoFiles ==
    \A a \in Avatars : Quiet(a) => \A k \in objects : k[1] # a

\* Waiting for a verdict that can still be given.
Pending(a) == Visible(a) /\ rows[a].status = "pending" /\ Original(a) \in objects

\* Reconciler: "without this task such an avatar would stay without thumbnails
\* forever".  A pending avatar whose file is there gets its verdict or is
\* deleted: lost events are republished, rejected and parked ones too, stopped
\* replicas are succeeded by others.
PendingAvatarsSettle == \A a \in Avatars : Pending(a) ~> ~Pending(a)

DeadDelete(a) == \E e \in deadDeletes : e.avatar = a

\* A deletion whose event reached the broker and was not given up on ends with
\* the original gone for good.
DeletedOriginalIsRemoved ==
    \A a \in Avatars :
        rows[a].deleted ~> \/ [](Original(a) \notin objects)
                          \/ deletes[a].pc = "lost"
                          \/ DeadDelete(a)

\* What a client sees of an avatar.
ClientView ==
    [a \in Avatars |-> IF rows[a].deleted THEN "deleted" ELSE rows[a].status]

Catalog == INSTANCE AvatarCatalog WITH catalog <- ClientView

\* The whole service implements the catalog of one-verdict, never-resurrected
\* avatars.
ImplementsCatalog == Catalog!Spec
=============================================================================
