----------------------- MODULE AvatarLifecycleProofs -----------------------
(* Theorems about AvatarLifecycle, for any number of avatars, replicas,     *)
(* sizes, retries and faults.                                               *)
EXTENDS AvatarLifecycle, FiniteSetTheorems, TLAPS

\* The creation order given to a row is a number: there are finitely many rows.
LEMMA NewRowType == NewRow \in Rows
<1>1. Stored \subseteq Avatars
  BY DEF Stored
<1>2. Cardinality(Stored) \in Nat
  BY <1>1, AvatarsAssumption, FS_Subset, FS_CardinalityType
<1>3. QED
  BY <1>2 DEF NewRow, Rows

\* The types of the records the variables hold, with their idle values.
LEMMA RecordTypes ==
    /\ IdleProcess \in ProcessStates /\ IdleProcess.pc = "idle" /\ ~IdleProcess.held
    /\ IdleRemove \in RemoveStates /\ IdleRemove.pc = "idle" /\ ~IdleRemove.held
BY RetriesAssumption
   DEF IdleProcess, IdleRemove, ProcessStates, RemoveStates, NoEvent

\* Type correctness of the initial states and of every step.
LEMMA TypeInit == Init => TypeOK
BY RetriesAssumption, BoundsAssumption, RecordTypes
   DEF Init, TypeOK, NoRow, Rows, UploadSteps, DeleteRequests, DeleteEvents

\* A request of the server keeps the types.
LEMMA TypeServer ==
    ASSUME TypeOK, NEW a \in Avatars, Upload(a) \/ Delete(a)
    PROVE  TypeOK'
<1> USE DEF TypeOK, Fault, AdvanceUpload, UploadSteps, broker, worker, server, Original, Keys
<1> USE BoundsAssumption, RetriesAssumption
<1>1. CASE PutOriginal(a)
  BY <1>1 DEF PutOriginal
<1>2. CASE PutOriginalFails(a)
  BY <1>2 DEF PutOriginalFails
<1>3. CASE CreateRow(a)
  BY <1>3, NewRowType DEF CreateRow
<1>4. CASE CreateRowFails(a)
  BY <1>4, NewRowType DEF CreateRowFails
<1>5. CASE RemoveOrphan(a)
  BY <1>5 DEF RemoveOrphan
<1>6. CASE RemoveOrphanFails(a)
  BY <1>6 DEF RemoveOrphanFails
<1>7. CASE PublishUpload(a)
  BY <1>7 DEF PublishUpload
<1>8. CASE PublishUploadFails(a)
  BY <1>8 DEF PublishUploadFails
<1>9. CASE AbandonUpload(a)
  BY <1>9 DEF AbandonUpload
<1>10. rows[a] \in Rows /\ AllS3Keys(a) \subseteq Keys
  BY DEF AllS3Keys, Thumbnail, Rows
<1>11. ASSUME MarkDeleted(a) PROVE rows' \in [Avatars -> Rows]
  BY <1>10, <1>11 DEF MarkDeleted, Rows
<1>12. \A s \in {"publish", "lost"} : [pc |-> s, keys |-> AllS3Keys(a)] \in DeleteRequests
  BY <1>10 DEF DeleteRequests
<1>13. CASE SoftDelete(a)
  BY <1>11, <1>12, <1>13 DEF SoftDelete
<1>14. CASE SoftDeleteUnanswered(a)
  BY <1>11, <1>12, <1>14 DEF SoftDeleteUnanswered
<1>15. CASE PublishDelete(a)
  BY <1>15 DEF PublishDelete, DeleteEvents, DeleteRequests
<1>16. CASE LoseDelete(a)
  <2>1. deletes' \in [Avatars -> DeleteRequests]
    BY <1>16 DEF LoseDelete, DeleteRequests
  <2>2. QED
    BY <1>16, <2>1 DEF LoseDelete
<1>17. QED
  BY <1>1, <1>2, <1>3, <1>4, <1>5, <1>6, <1>7, <1>8, <1>9, <1>13, <1>14, <1>15, <1>16
     DEF Upload, Delete

\* A step of a worker replica keeps the types.
LEMMA TypeWorker ==
    ASSUME TypeOK, NEW w \in Workers, Process(w) \/ Remove(w) \/ Reconcile(w) \/ WorkerFault(w)
    PROVE  TypeOK'
<1> USE DEF TypeOK, Fault, broker, worker, server
<1> USE BoundsAssumption, RetriesAssumption, RecordTypes
<1>p. process[w] \in ProcessStates
  OBVIOUS
<1>r. remove[w] \in RemoveStates
  OBVIOUS
<1>1. CASE TakeUpload(w)
  BY <1>1 DEF TakeUpload, ProcessStates
<1>a. ASSUME NEW from, NEW to \in {"download", "reject", "ack"}, from # "idle",
             AdvanceProcess(w, from, to)
      PROVE  /\ process' \in [Workers -> ProcessStates]
             /\ \A v \in Workers : process'[v].pc # "idle" => process'[v].avatar \in Avatars
             /\ \A v \in Workers : process'[v].held => process'[v].pc # "idle"
  BY <1>a, <1>p DEF AdvanceProcess, ProcessStates
<1>2. CASE LookUp(w)
  BY <1>2, <1>a DEF LookUp
<1>3. CASE Download(w)
  <2>1. /\ process'[w] \in ProcessStates /\ process'[w].avatar \in Avatars
        /\ process'[w].pc # "idle"
    BY <1>3, <1>p DEF Download, ProcessStates
  <2>2. QED
    BY <1>3, <2>1 DEF Download
<1>4. CASE OriginalMissing(w)
  BY <1>4 DEF OriginalMissing, RejectUpload, ProcessStates
<1>5. CASE PutThumbnail(w)
  <2>1. objects' \in SUBSET Keys
    <3>1. PICK s \in process[w].todo : objects' = objects \cup {Thumbnail(process[w].avatar, s)}
      BY <1>5 DEF PutThumbnail
    <3>2. process[w].avatar \in Avatars /\ process[w].todo \subseteq Sizes
      BY <1>5, <1>p DEF PutThumbnail, ProcessStates
    <3>3. QED
      BY <3>1, <3>2 DEF Thumbnail, Keys
  <2>2. /\ process'[w] \in ProcessStates /\ process'[w].avatar = process[w].avatar
        /\ process'[w].pc = process[w].pc /\ process'[w].held = process[w].held
    BY <1>5, <1>p DEF PutThumbnail, ProcessStates
  <2>3. QED
    BY <1>5, <2>1, <2>2 DEF PutThumbnail
<1>6. CASE RecordResult(w)
  <2>1. rows' \in [Avatars -> Rows]
    <3>1. \A r \in Rows : [r EXCEPT !.status = "completed", !.thumbs = Sizes] \in Rows
      BY DEF Rows
    <3>2. CASE UNCHANGED rows
      BY <3>2
    <3>3. CASE ~UNCHANGED rows
      <4> DEFINE a == process[w].avatar
      <4>1. a \in Avatars
        BY <1>6 DEF RecordResult, AdvanceProcess
      <4>2. rows' = [rows EXCEPT ![a] = [rows[a] EXCEPT !.status = "completed", !.thumbs = Sizes]]
        BY <1>6, <3>3, <4>1 DEF RecordResult
      <4>3. QED
        BY <3>1, <4>1, <4>2
    <3>4. QED
      BY <3>2, <3>3
  <2>2. QED
    BY <1>6, <1>a, <2>1 DEF RecordResult
<1>7. CASE RecordFailure(w)
  <2>1. rows' \in [Avatars -> Rows]
    BY <1>7 DEF RecordFailure, AdvanceProcess, Rows
  <2>2. QED
    BY <1>7, <1>a, <2>1 DEF RecordFailure
<1>8. CASE AckUpload(w)
  BY <1>8 DEF AckUpload
<1>9. CASE TakeDelete(w)
  BY <1>9 DEF TakeDelete, DeleteEvents, RemoveStates
<1>10. CASE RemoveObject(w)
  <2>1. /\ remove'[w] \in RemoveStates /\ remove'[w].held = remove[w].held
        /\ remove'[w].event = remove[w].event /\ remove'[w].pc = remove[w].pc
    BY <1>10, <1>r DEF RemoveObject, RemoveStates
  <2>2. QED
    BY <1>10, <2>1 DEF RemoveObject
<1>11. CASE AckDelete(w)
  BY <1>11 DEF AckDelete
<1>12. CASE ListStuck(w)
  BY <1>12 DEF ListStuck, Stuck
<1>13. CASE Republish(w)
  BY <1>13 DEF Republish
<1>14. CASE ProcessFails(w)
  BY <1>14 DEF ProcessFails, RejectUpload, ProcessStates
<1>15. CASE RemoveFails(w)
  <2> DEFINE e == remove[w].event
  <2>1. e \in DeleteEvents
    BY <1>15 DEF RemoveFails
  <2>2. e.deaths < MaxRetries => [e EXCEPT !.deaths = @ + 1] \in DeleteEvents
    BY <2>1 DEF DeleteEvents
  <2>3. deleteQueue' \in SUBSET DeleteEvents /\ deadDeletes' \in SUBSET DeleteEvents
    BY <1>15, <2>1, <2>2 DEF RemoveFails
  <2>4. QED
    BY <1>15, <2>3 DEF RemoveFails
<1>16. CASE RepublishFails(w)
  BY <1>16 DEF RepublishFails
<1>17. CASE WorkerStops(w)
  BY <1>17 DEF WorkerStops, TakeBack, ProcessStates, RemoveStates
<1>18. CASE ConnectionBreaks(w)
  <2>1. /\ process'[w] \in ProcessStates /\ ~process'[w].held
        /\ process'[w].avatar = process[w].avatar /\ process'[w].pc = process[w].pc
    BY <1>18, <1>p DEF ConnectionBreaks, ProcessStates
  <2>2. /\ remove'[w] \in RemoveStates /\ ~remove'[w].held
        /\ remove'[w].event = remove[w].event /\ remove'[w].pc = remove[w].pc
    BY <1>18, <1>r DEF ConnectionBreaks, RemoveStates
  <2>3. /\ \A v \in Workers \ {w} : process'[v] = process[v] /\ remove'[v] = remove[v]
        /\ process' \in [Workers -> ProcessStates] /\ remove' \in [Workers -> RemoveStates]
    BY <1>18, <2>1, <2>2 DEF ConnectionBreaks
  <2>4. /\ uploadQueue' \in [Avatars \X (0..MaxRetries) -> Nat]
        /\ deleteQueue' \in SUBSET DeleteEvents
    BY <1>18, <1>p DEF ConnectionBreaks, TakeBack, ProcessStates
  <2>5. QED
    BY <1>18, <2>1, <2>2, <2>3, <2>4 DEF ConnectionBreaks, TakeBack
<1>19. QED
  BY <1>1, <1>2, <1>3, <1>4, <1>5, <1>6, <1>7, <1>8, <1>9, <1>10, <1>11, <1>12, <1>13,
     <1>14, <1>15, <1>16, <1>17, <1>18
     DEF Process, Remove, Reconcile, WorkerFault

\* Every variable stays in its domain, for all values of the constants.
THEOREM TypeCorrect == Spec => []TypeOK
<1>1. Init => TypeOK
  BY TypeInit
<1>2. TypeOK /\ [Next]_vars => TypeOK'
  <2> SUFFICES ASSUME TypeOK, [Next]_vars PROVE TypeOK'
    OBVIOUS
  <2>1. CASE Next
    BY <2>1, TypeServer, TypeWorker DEF Next
  <2>2. CASE UNCHANGED vars
    BY <2>2 DEF TypeOK, vars
  <2>3. QED
    BY <2>1, <2>2
<1>3. QED
  BY <1>1, <1>2, PTL DEF Spec

----------------------------------------------------------------------------
\* The inductive invariant behind ReferencedObjectsExist.

KeysOf(a) == {a} \X (Sizes \cup {"original"})

\* How far a request has got agrees with the row and with the storage.
RequestInv(a) ==
    /\ rows[a].deleted => rows[a].status # "absent"
    /\ uploads[a] \in {"idle", "create"} => rows[a].status = "absent"
    /\ uploads[a] = "create" => Original(a) \in objects
    /\ uploads[a] \in {"cleanup", "failed"} => AmbiguousCommits \/ rows[a].status = "absent"
    /\ deletes[a].pc # "idle" => rows[a].deleted
    /\ deletes[a].keys \subseteq KeysOf(a)

\* A delete event, wherever it is, is about a deleted row and its own keys.
EventInv(e) == rows[e.avatar].deleted /\ e.keys \subseteq KeysOf(e.avatar)

RemoveInv(w) ==
    remove[w].pc = "removing" => EventInv(remove[w].event) /\ remove[w].left \subseteq remove[w].event.keys

\* A handler at work has a row, and the thumbnails it is done with are stored
\* as long as nobody has deleted the avatar.
ProcessInv(w) ==
    LET a == process[w].avatar IN
    /\ process[w].pc \in {"download", "thumbnails", "reject"} => rows[a].status # "absent"
    /\ process[w].pc = "thumbnails" /\ ~rows[a].deleted =>
         \A s \in Sizes \ process[w].todo : Thumbnail(a, s) \in objects

\* The files of a visible row; its original unless the insertion committed and
\* reported an error.
FilesInv(a) ==
    Visible(a) =>
        /\ uploads[a] = "failed" \/ Original(a) \in objects
        /\ \A s \in rows[a].thumbs : Thumbnail(a, s) \in objects

FilesIInv ==
    /\ TypeOK
    /\ \A a \in Avatars : RequestInv(a)
    /\ \A e \in deleteQueue \cup deadDeletes : EventInv(e)
    /\ \A w \in Workers : RemoveInv(w)
    /\ \A w \in Workers : ProcessInv(w)
    /\ \A a \in Avatars : FilesInv(a)

\* The keys of an avatar, and how the original differs from the thumbnails.
LEMMA KeyFacts ==
    ASSUME NEW a \in Avatars, NEW b \in Avatars
    PROVE  /\ a # b => KeysOf(a) \cap KeysOf(b) = {}
           /\ Original(a) \in KeysOf(a)
           /\ \A s \in Sizes : Thumbnail(a, s) \in KeysOf(a) /\ Thumbnail(a, s) # Original(b)
           /\ Original(a) = Original(b) => a = b
BY SizesAssumption DEF KeysOf, Original, Thumbnail

\* Inserting a row disturbs no event and no handler: they are about older rows.
LEMMA InsertFrame ==
    ASSUME FilesIInv, UNCHANGED <<objects, deleteQueue, deadDeletes, process, remove>>,
           \A b \in Avatars :
                  /\ rows[b].deleted => rows'[b].deleted
                  /\ (rows[b].status # "absent" => rows'[b] = rows[b])
    PROVE  /\ (\A e \in deleteQueue \cup deadDeletes : EventInv(e))'
           /\ (\A w \in Workers : RemoveInv(w))'
           /\ (\A w \in Workers : ProcessInv(w))'
<1>1. (\A e \in deleteQueue \cup deadDeletes : EventInv(e))'
  BY DEF FilesIInv, TypeOK, EventInv, DeleteEvents
<1>2. (\A w \in Workers : RemoveInv(w))'
  BY DEF FilesIInv, TypeOK, RemoveInv, EventInv, DeleteEvents
<1>3. ASSUME NEW w \in Workers
      PROVE  ProcessInv(w)'
  <2>1. process'[w] = process[w] /\ (process[w].pc # "idle" => process[w].avatar \in Avatars)
    BY DEF FilesIInv, TypeOK
  <2>2. ProcessInv(w)
    BY DEF FilesIInv
  <2>3. process[w].pc \in {"download", "thumbnails", "reject"} =>
          rows'[process[w].avatar] = rows[process[w].avatar]
    BY <2>1, <2>2 DEF ProcessInv
  <2>4. CASE process[w].pc = "thumbnails"
    BY <2>1, <2>2, <2>3, <2>4 DEF ProcessInv
  <2>5. CASE process[w].pc # "thumbnails"
    BY <2>1, <2>2, <2>3, <2>5 DEF ProcessInv
  <2>6. QED
    BY <2>4, <2>5
<1>4. QED
  BY <1>1, <1>2, <1>3

\* A request of the server keeps the invariant.
LEMMA FilesServer ==
    ASSUME FilesIInv, TypeOK', NEW a \in Avatars,
           Upload(a) \/ Delete(a)
    PROVE  FilesIInv'
<1> USE DEF FilesIInv, RequestInv, EventInv, RemoveInv, ProcessInv, FilesInv, TypeOK,
            server, broker, worker
<1> USE RecordTypes, KeyFacts
<1>1. CASE PutOriginal(a)
  BY <1>1 DEF PutOriginal, AdvanceUpload, Visible, RemoveStates, ProcessStates, DeleteEvents
<1>2. CASE PutOriginalFails(a)
  BY <1>2 DEF PutOriginalFails, AdvanceUpload, Visible, RemoveStates, ProcessStates, DeleteEvents
<1>3. CASE CreateRow(a)
  <2>1. /\ rows[a].status = "absent" \/ rows' = rows
        /\ \A b \in Avatars \ {a} : rows'[b] = rows[b]
        /\ rows' = rows \/ rows'[a] = NewRow
    BY <1>3 DEF CreateRow, AdvanceUpload
  <2>2. \A b \in Avatars :
         /\ rows[b].deleted => rows'[b].deleted
         /\ (rows[b].status # "absent" => rows'[b] = rows[b])
    BY <2>1
  <2>3. (\A b \in Avatars : RequestInv(b) /\ FilesInv(b))'
    BY <1>3, <2>1 DEF CreateRow, AdvanceUpload, NewRow, Visible
  <2>4. UNCHANGED <<objects, deleteQueue, deadDeletes, process, remove>>
    BY <1>3 DEF CreateRow
  <2>5. QED
    BY <2>2, <2>3, <2>4, InsertFrame
<1>4. CASE CreateRowFails(a)
  <2>1. /\ rows[a].status = "absent" \/ rows' = rows
        /\ \A b \in Avatars \ {a} : rows'[b] = rows[b]
        /\ rows' = rows \/ rows'[a] = NewRow
    BY <1>4 DEF CreateRowFails, AdvanceUpload
  <2>2. \A b \in Avatars :
         /\ rows[b].deleted => rows'[b].deleted
         /\ (rows[b].status # "absent" => rows'[b] = rows[b])
    BY <2>1
  <2>3. (\A b \in Avatars : RequestInv(b) /\ FilesInv(b))'
    BY <1>4, <2>1 DEF CreateRowFails, AdvanceUpload, NewRow, Visible
  <2>4. UNCHANGED <<objects, deleteQueue, deadDeletes, process, remove>>
    BY <1>4 DEF CreateRowFails
  <2>5. QED
    BY <2>2, <2>3, <2>4, InsertFrame
<1>5. CASE RemoveOrphan(a)
  <2>1. /\ uploads' = [uploads EXCEPT ![a] = "failed"] /\ UNCHANGED rows
        /\ uploads[a] = "cleanup"
    BY <1>5 DEF RemoveOrphan, AdvanceUpload
  <2>2. \A b \in Avatars, s \in Sizes : Thumbnail(b, s) \in objects => Thumbnail(b, s) \in objects'
    BY <1>5 DEF RemoveOrphan
  <2>3. \A b \in Avatars \ {a} : Original(b) \in objects => Original(b) \in objects'
    BY <1>5 DEF RemoveOrphan
  <2>4. (\A b \in Avatars : FilesInv(b))'
    <3>1. ASSUME NEW b \in Avatars, Visible(b)
          PROVE  /\ uploads'[b] = "failed" \/ Original(b) \in objects'
                 /\ \A s \in rows[b].thumbs : Thumbnail(b, s) \in objects'
      <4>1. FilesInv(b) /\ rows[b].thumbs \subseteq Sizes
        BY <3>1 DEF Rows
      <4>2. CASE b = a
        BY <2>1, <2>2, <3>1, <4>1, <4>2
      <4>3. CASE b # a
        BY <2>1, <2>2, <2>3, <3>1, <4>1, <4>3
      <4>4. QED
        BY <4>2, <4>3
    <3>2. QED
      BY <2>1, <3>1 DEF Visible
  <2>5. (\A b \in Avatars : RequestInv(b))'
    BY <1>5, <2>1, <2>3 DEF RemoveOrphan
  <2>6. QED
    BY <1>5, <2>2, <2>4, <2>5 DEF RemoveOrphan, AdvanceUpload, ProcessStates
<1>6. CASE RemoveOrphanFails(a)
  BY <1>6 DEF RemoveOrphanFails, AdvanceUpload, Visible, RemoveStates, ProcessStates, DeleteEvents
<1>7. CASE PublishUpload(a)
  BY <1>7 DEF PublishUpload, AdvanceUpload, Visible, RemoveStates, ProcessStates, DeleteEvents
<1>8. CASE PublishUploadFails(a)
  BY <1>8 DEF PublishUploadFails, AdvanceUpload, Visible, RemoveStates, ProcessStates, DeleteEvents
<1>9. CASE AbandonUpload(a)
  BY <1>9 DEF AbandonUpload, AdvanceUpload, Visible, RemoveStates, ProcessStates, DeleteEvents
<1>10. CASE SoftDelete(a)
  <2>1. /\ rows[a].status # "absent" /\ rows'[a].deleted
        /\ rows'[a].status = rows[a].status /\ rows'[a].thumbs = rows[a].thumbs
        /\ \A b \in Avatars \ {a} : rows'[b] = rows[b]
    BY <1>10 DEF SoftDelete, MarkDeleted, Visible, Rows
  <2>2. AllS3Keys(a) \subseteq KeysOf(a)
    BY DEF AllS3Keys, Rows
  <2>3. (\A b \in Avatars : RequestInv(b))'
    BY <1>10, <2>1, <2>2 DEF SoftDelete, DeleteRequests
  <2>4. (\A b \in Avatars : FilesInv(b))'
    BY <1>10, <2>1 DEF SoftDelete, Visible
  <2>5. (\A e \in deleteQueue \cup deadDeletes : EventInv(e))'
    BY <1>10, <2>1 DEF SoftDelete, DeleteEvents
  <2>6. (\A w \in Workers : RemoveInv(w))'
    BY <1>10, <2>1 DEF SoftDelete, DeleteEvents, RemoveStates
  <2>7. (\A w \in Workers : ProcessInv(w))'
    <3>1. UNCHANGED <<objects, process>>
      BY <1>10 DEF SoftDelete
    <3>2. \A b \in Avatars : /\ rows'[b].status = rows[b].status
                             /\ rows[b].deleted => rows'[b].deleted
      BY <2>1
    <3>3. QED
      BY <3>1, <3>2
  <2>8. QED
    BY <2>3, <2>4, <2>5, <2>6, <2>7
<1>11. CASE SoftDeleteUnanswered(a)
  <2>1. /\ rows[a].status # "absent" /\ rows'[a].deleted
        /\ rows'[a].status = rows[a].status /\ rows'[a].thumbs = rows[a].thumbs
        /\ \A b \in Avatars \ {a} : rows'[b] = rows[b]
    BY <1>11 DEF SoftDeleteUnanswered, MarkDeleted, Visible, Rows
  <2>2. AllS3Keys(a) \subseteq KeysOf(a)
    BY DEF AllS3Keys, Rows
  <2>3. (\A b \in Avatars : RequestInv(b))'
    BY <1>11, <2>1, <2>2 DEF SoftDeleteUnanswered, DeleteRequests
  <2>4. (\A b \in Avatars : FilesInv(b))'
    BY <1>11, <2>1 DEF SoftDeleteUnanswered, Visible
  <2>5. (\A e \in deleteQueue \cup deadDeletes : EventInv(e))'
    BY <1>11, <2>1 DEF SoftDeleteUnanswered, DeleteEvents
  <2>6. (\A w \in Workers : RemoveInv(w))'
    <3>1. UNCHANGED remove /\ \A b \in Avatars : rows[b].deleted => rows'[b].deleted
      BY <1>11, <2>1 DEF SoftDeleteUnanswered
    <3>2. \A w \in Workers :
            remove[w].pc = "removing" => remove[w].event.avatar \in Avatars
      BY DEF DeleteEvents
    <3>3. \A w \in Workers : RemoveInv(w)
      OBVIOUS
    <3> HIDE DEF FilesIInv, TypeOK
    <3>4. QED
      BY <3>1, <3>2, <3>3
  <2>7. (\A w \in Workers : ProcessInv(w))'
    <3>1. UNCHANGED <<objects, process>>
      BY <1>11 DEF SoftDeleteUnanswered
    <3>2. \A b \in Avatars : /\ rows'[b].status = rows[b].status
                             /\ rows[b].deleted => rows'[b].deleted
      BY <2>1
    <3>3. QED
      BY <3>1, <3>2
  <2>8. QED
    BY <2>3, <2>4, <2>5, <2>6, <2>7
<1>12. CASE PublishDelete(a)
  BY <1>12 DEF PublishDelete, AdvanceUpload, Visible, RemoveStates, ProcessStates, DeleteEvents
<1>13. CASE LoseDelete(a)
  BY <1>13 DEF LoseDelete, AdvanceUpload, Visible, RemoveStates, ProcessStates, DeleteEvents
<1>14. QED
  BY <1>1, <1>2, <1>3, <1>4, <1>5, <1>6, <1>7, <1>8, <1>9, <1>10, <1>11, <1>12, <1>13
     DEF Upload, Delete

\* A step of a replica keeps the invariant.
LEMMA FilesWorker ==
    ASSUME FilesIInv, TypeOK', NEW w \in Workers,
           Process(w) \/ Remove(w) \/ Reconcile(w) \/ WorkerFault(w)
    PROVE  FilesIInv'
<1> USE DEF FilesIInv, RequestInv, EventInv, RemoveInv, ProcessInv, FilesInv, TypeOK,
            server, broker, worker
<1> USE RecordTypes, KeyFacts
<1>1. CASE TakeUpload(w)
  BY <1>1 DEF TakeUpload, Visible, RemoveStates, ProcessStates, DeleteEvents
<1>2. CASE LookUp(w)
  <2>1. /\ \A v \in Workers \ {w} : process'[v] = process[v]
        /\ process'[w].avatar = process[w].avatar
        /\ process'[w].pc \in {"download", "ack"}
        /\ process'[w].pc = "download" => rows[process[w].avatar].status # "absent"
    <3>1. process \in [Workers -> ProcessStates]
      OBVIOUS
    <3> HIDE DEF FilesIInv, TypeOK
    <3>2. QED
      BY <1>2, <3>1 DEF LookUp, AdvanceProcess, Visible, ProcessStates
  <2>2. (\A v \in Workers : ProcessInv(v))'
    <3>1. UNCHANGED <<rows, objects>>
      BY <1>2 DEF LookUp
    <3>2. \A v \in Workers : ProcessInv(v)
      OBVIOUS
    <3> HIDE DEF FilesIInv, TypeOK
    <3>3. QED
      BY <2>1, <3>1, <3>2
  <2>3. QED
    BY <1>2, <2>2 DEF LookUp, Visible
<1>3. CASE Download(w)
  <2>1. /\ \A v \in Workers \ {w} : process'[v] = process[v]
        /\ process[w].pc = "download" /\ process'[w].avatar = process[w].avatar
        /\ process'[w].pc = "thumbnails" => process'[w].todo = Sizes
    BY <1>3 DEF Download, ProcessStates
  <2>2. UNCHANGED <<rows, objects>>
    BY <1>3 DEF Download
  <2>3. (\A v \in Workers : ProcessInv(v))'
    BY <2>1, <2>2
  <2>4. QED
    BY <1>3, <2>3 DEF Download, Visible
<1>4. CASE OriginalMissing(w)
  BY <1>4 DEF OriginalMissing, RejectUpload, Visible, RemoveStates, ProcessStates, DeleteEvents
<1>5. CASE PutThumbnail(w)
  BY <1>5 DEF PutThumbnail, Visible, RemoveStates, ProcessStates, DeleteEvents
<1>6. CASE RecordResult(w)
  <2> DEFINE a == process[w].avatar
  <2>1. a \in Avatars /\ rows[a].status # "absent"
    BY <1>6 DEF RecordResult, AdvanceProcess
  <2>2. \A b \in Avatars :
         /\ rows'[b].deleted = rows[b].deleted
         /\ (rows'[b].status = "absent" <=> rows[b].status = "absent")
    BY <1>6, <2>1 DEF RecordResult, AdvanceProcess, Rows
  <2>3. (\A b \in Avatars : RequestInv(b))'
    BY <1>6, <2>2 DEF RecordResult
  <2>4. (\A e \in deleteQueue \cup deadDeletes : EventInv(e))'
    BY <1>6, <2>2 DEF RecordResult, DeleteEvents
  <2>5. (\A v \in Workers : RemoveInv(v))'
    BY <1>6, <2>2 DEF RecordResult, DeleteEvents
  <2>6. (\A v \in Workers : ProcessInv(v))'
    BY <1>6, <2>2 DEF RecordResult, AdvanceProcess, ProcessStates
  <2>7. \A b \in Avatars :
           rows'[b].thumbs = rows[b].thumbs \/ (b = a /\ process[w].pc = "thumbnails" /\ process[w].todo = {})
    <3>1. process[w].pc = "thumbnails" /\ process[w].todo = {}
      BY <1>6 DEF RecordResult, AdvanceProcess
    <3>2. \A b \in Avatars : b # a => rows'[b] = rows[b]
      BY <1>6 DEF RecordResult
    <3>3. QED
      BY <3>1, <3>2
  <2>8. (\A b \in Avatars : FilesInv(b))'
    <3>1. UNCHANGED <<objects, uploads>>
      BY <1>6 DEF RecordResult
    <3>2. \A b \in Avatars : Visible(b)' => Visible(b)
      BY <2>2 DEF Visible
    <3>3. ASSUME NEW b \in Avatars, Visible(b), NEW s \in rows'[b].thumbs
          PROVE  Thumbnail(b, s) \in objects
      <4>1. rows' \in [Avatars -> Rows] /\ s \in Sizes
        BY <3>3 DEF Rows
      <4>2. QED
        BY <2>7, <3>3, <4>1 DEF Visible
    <3>4. \A b \in Avatars : FilesInv(b)
      OBVIOUS
    <3> HIDE DEF FilesIInv, TypeOK
    <3>5. QED
      BY <3>1, <3>2, <3>3, <3>4
  <2>9. QED
    BY <2>3, <2>4, <2>5, <2>6, <2>8
<1>7. CASE RecordFailure(w)
  <2> DEFINE a == process[w].avatar
  <2>1. a \in Avatars /\ rows[a].status # "absent"
    BY <1>7 DEF RecordFailure, AdvanceProcess
  <2>2. \A b \in Avatars :
         /\ rows'[b].deleted = rows[b].deleted
         /\ (rows'[b].status = "absent" <=> rows[b].status = "absent")
    BY <1>7, <2>1 DEF RecordFailure, AdvanceProcess, Rows
  <2>3. (\A b \in Avatars : RequestInv(b))'
    BY <1>7, <2>2 DEF RecordFailure
  <2>4. (\A e \in deleteQueue \cup deadDeletes : EventInv(e))'
    BY <1>7, <2>2 DEF RecordFailure, DeleteEvents
  <2>5. (\A v \in Workers : RemoveInv(v))'
    BY <1>7, <2>2 DEF RecordFailure, DeleteEvents
  <2>6. (\A v \in Workers : ProcessInv(v))'
    BY <1>7, <2>2 DEF RecordFailure, AdvanceProcess, ProcessStates
  <2>7. \A b \in Avatars : rows'[b].thumbs = rows[b].thumbs
    BY <1>7, <2>1 DEF RecordFailure, AdvanceProcess, Rows
  <2>8. (\A b \in Avatars : FilesInv(b))'
    <3>1. UNCHANGED <<objects, uploads>>
      BY <1>7 DEF RecordFailure
    <3>2. \A b \in Avatars : Visible(b)' => Visible(b)
      BY <2>2 DEF Visible
    <3>3. ASSUME NEW b \in Avatars, Visible(b), NEW s \in rows'[b].thumbs
          PROVE  Thumbnail(b, s) \in objects
      <4>1. rows' \in [Avatars -> Rows] /\ s \in Sizes
        BY <3>3 DEF Rows
      <4>2. QED
        BY <2>7, <3>3, <4>1 DEF Visible
    <3>4. \A b \in Avatars : FilesInv(b)
      OBVIOUS
    <3> HIDE DEF FilesIInv, TypeOK
    <3>5. QED
      BY <3>1, <3>2, <3>3, <3>4
  <2>9. QED
    BY <2>3, <2>4, <2>5, <2>6, <2>8
<1>8. CASE AckUpload(w)
  BY <1>8 DEF AckUpload, Visible, RemoveStates, ProcessStates, DeleteEvents
<1>9. CASE TakeDelete(w)
  BY <1>9 DEF TakeDelete, Visible, RemoveStates, ProcessStates, DeleteEvents
<1>10. CASE RemoveObject(w)
  <2>1. PICK k \in remove[w].left : objects' = objects \ {k}
    BY <1>10 DEF RemoveObject
  <2>2. PICK a \in Avatars : rows[a].deleted /\ k \in KeysOf(a)
    BY <1>10, <2>1 DEF RemoveObject, DeleteEvents
  <2>3. ASSUME NEW b \in Avatars, ~rows[b].deleted
        PROVE  \A j \in KeysOf(b) : j \in objects => j \in objects'
    <3>1. KeysOf(a) \cap KeysOf(b) = {}
      BY <2>2, <2>3, KeyFacts
    <3>2. QED
      BY <2>1, <2>2, <3>1
  <2>k. \A b \in Avatars : ~rows[b].deleted =>
           /\ Original(b) \in objects => Original(b) \in objects'
           /\ \A s \in Sizes : Thumbnail(b, s) \in objects => Thumbnail(b, s) \in objects'
    BY <2>3, KeyFacts
  <2>4. (\A b \in Avatars : RequestInv(b))'
    BY <1>10, <2>k DEF RemoveObject
  <2>5. (\A b \in Avatars : FilesInv(b))'
    BY <1>10, <2>k DEF RemoveObject, Visible, Rows
  <2>6. (\A v \in Workers : ProcessInv(v))'
    BY <1>10, <2>k DEF RemoveObject, ProcessStates
  <2>7. (\A v \in Workers : RemoveInv(v))'
    BY <1>10 DEF RemoveObject, RemoveStates
  <2>8. QED
    BY <1>10, <2>4, <2>5, <2>6, <2>7 DEF RemoveObject
<1>11. CASE AckDelete(w)
  BY <1>11 DEF AckDelete, Visible, RemoveStates, ProcessStates, DeleteEvents
<1>12. CASE ListStuck(w)
  BY <1>12 DEF ListStuck, Visible, RemoveStates, ProcessStates, DeleteEvents
<1>13. CASE Republish(w)
  BY <1>13 DEF Republish, Visible, RemoveStates, ProcessStates, DeleteEvents
<1>14. CASE ProcessFails(w)
  BY <1>14 DEF ProcessFails, RejectUpload, Visible, RemoveStates, ProcessStates, DeleteEvents
<1>15. CASE RemoveFails(w)
  <2> DEFINE e == remove[w].event
  <2>1. e \in DeleteEvents /\ EventInv(e)
    BY <1>15 DEF RemoveFails
  <2>2. EventInv([e EXCEPT !.deaths = @ + 1])
    BY <2>1 DEF DeleteEvents
  <2>3. /\ UNCHANGED rows
        /\ deleteQueue' \subseteq deleteQueue \cup {[e EXCEPT !.deaths = @ + 1]}
        /\ deadDeletes' \subseteq deadDeletes \cup {e}
    BY <1>15 DEF RemoveFails
  <2>4. (\A f \in deleteQueue \cup deadDeletes : EventInv(f))'
    BY <2>1, <2>2, <2>3
  <2>5. QED
    BY <1>15, <2>4 DEF RemoveFails, Visible, RemoveStates
<1>16. CASE RepublishFails(w)
  BY <1>16 DEF RepublishFails, Visible, RemoveStates, ProcessStates, DeleteEvents
<1>17. CASE WorkerStops(w)
  BY <1>17 DEF WorkerStops, TakeBack, Visible, RemoveStates, ProcessStates, DeleteEvents
<1>18. CASE ConnectionBreaks(w)
  <2>1. UNCHANGED <<rows, objects, uploads, deletes, deadDeletes>>
    BY <1>18 DEF ConnectionBreaks, TakeBack
  <2>2. \A v \in Workers :
          /\ process'[v].pc = process[v].pc /\ process'[v].avatar = process[v].avatar
          /\ process'[v].todo = process[v].todo
          /\ remove'[v].pc = remove[v].pc /\ remove'[v].event = remove[v].event
          /\ remove'[v].left = remove[v].left
    BY <1>18 DEF ConnectionBreaks, ProcessStates, RemoveStates
  <2>3. (\A e \in deleteQueue \cup deadDeletes : EventInv(e))'
    <3>1. \A e \in deleteQueue \cup deadDeletes : EventInv(e)
      OBVIOUS
    <3>2. remove[w].held => EventInv(remove[w].event)
      <4>1. remove[w].held => remove[w].pc = "removing"
        BY DEF RemoveStates
      <4>2. RemoveInv(w)
        OBVIOUS
      <4> HIDE DEF FilesIInv, TypeOK
      <4>3. QED
        BY <4>1, <4>2
    <3>3. deleteQueue' = deleteQueue \/ (remove[w].held /\ deleteQueue' = deleteQueue \cup {remove[w].event})
      BY <1>18 DEF ConnectionBreaks, TakeBack
    <3> HIDE DEF FilesIInv, TypeOK
    <3>4. QED
      BY <2>1, <3>1, <3>2, <3>3
  <2>4. (\A v \in Workers : RemoveInv(v))'
    BY <2>1, <2>2
  <2>5. (\A v \in Workers : ProcessInv(v))'
    <3>1. \A v \in Workers : ProcessInv(v)
      OBVIOUS
    <3> HIDE DEF FilesIInv, TypeOK
    <3>2. QED
      BY <2>1, <2>2, <3>1
  <2>6. (\A b \in Avatars : RequestInv(b) /\ FilesInv(b))'
    BY <2>1 DEF Visible
  <2>7. QED
    BY <2>3, <2>4, <2>5, <2>6
<1>19. QED
  BY <1>1, <1>2, <1>3, <1>4, <1>5, <1>6, <1>7, <1>8, <1>9, <1>10, <1>11, <1>12, <1>13,
     <1>14, <1>15, <1>16, <1>17, <1>18
     DEF Process, Remove, Reconcile, WorkerFault

\* The invariant holds for all values of the constants.
LEMMA FilesInvariant == Spec => []FilesIInv
<1>1. Init => FilesIInv
  BY TypeInit, RecordTypes
     DEF Init, FilesIInv, RequestInv, EventInv, RemoveInv, ProcessInv, FilesInv, NoRow, Visible
<1>2. FilesIInv /\ [Next]_vars => FilesIInv'
  <2> SUFFICES ASSUME FilesIInv, [Next]_vars PROVE FilesIInv'
    OBVIOUS
  <2>1. CASE Next
    BY <2>1, TypeServer, TypeWorker, FilesServer, FilesWorker DEF Next, FilesIInv
  <2>2. CASE UNCHANGED vars
    BY <2>2 DEF FilesIInv, TypeOK, RequestInv, EventInv, RemoveInv, ProcessInv, FilesInv,
                Visible, vars
  <2>3. QED
    BY <2>1, <2>2
<1>3. QED
  BY <1>1, <1>2, PTL DEF Spec

\* Every visible row names only files that are in the storage, except the original
\* of an upload whose insertion reported an error: neither a deletion, nor a
\* duplicate or late handler takes a file away from a live avatar, and no row
\* lists a thumbnail before it is stored.
THEOREM VisibleRowsHaveTheirFiles == Spec => []ReferencedObjectsExist
<1>1. FilesIInv => ReferencedObjectsExist
  BY DEF FilesIInv, FilesInv, ReferencedObjectsExist, AllS3Keys
<1>2. QED
  BY <1>1, FilesInvariant, PTL

\* As long as no INSERT commits and reports an error, the orphan cleanup never
\* takes the file of a visible row.
THEOREM CleanupIsSafeWithoutAmbiguity ==
    ASSUME ~AmbiguousCommits
    PROVE  Spec => []OrphansAreUnreferenced
<1>1. FilesIInv => OrphansAreUnreferenced
  BY DEF FilesIInv, RequestInv, OrphansAreUnreferenced, Visible
<1>2. QED
  BY <1>1, FilesInvariant, PTL

----------------------------------------------------------------------------
\* The inductive invariant behind DeletedOriginalIsTracked.

\* As Announced, but a handler counts only while it holds its event: one that has
\* lost its connection can vanish without a trace, and the broker has the event.
Covered(a) ==
    \/ deletes[a].pc \in {"publish", "lost"}
    \/ \E e \in deleteQueue \cup deadDeletes : e.avatar = a /\ Original(a) \in e.keys
    \/ \E w \in Workers :
         /\ remove[w].held
         /\ remove[w].event.avatar = a
         /\ Original(a) \in remove[w].left

TrackInv(a) ==
    /\ deletes[a].pc = "publish" => Original(a) \in deletes[a].keys
    /\ rows[a].deleted /\ Original(a) \in objects => Covered(a)

\* Steps that leave the delete events alone, and neither delete a row nor bring
\* back the original of a deleted one.
LEMMA TrackFrame ==
    ASSUME \A a \in Avatars : TrackInv(a),
           UNCHANGED <<deletes, deleteQueue, deadDeletes, remove>>,
           \A a \in Avatars : rows'[a].deleted => rows[a].deleted,
           \A a \in Avatars : rows[a].deleted /\ Original(a) \in objects' => Original(a) \in objects
    PROVE  (\A a \in Avatars : TrackInv(a))'
BY DEF TrackInv, Covered

\* An upload inserts rows and stores originals only of avatars nobody has deleted.
LEMMA TrackUpload ==
    ASSUME FilesIInv, \A b \in Avatars : TrackInv(b), NEW a \in Avatars, Upload(a)
    PROVE  (\A b \in Avatars : TrackInv(b))'
<1>1. UNCHANGED <<deletes, deleteQueue, deadDeletes, remove>>
  BY DEF Upload, PutOriginal, PutOriginalFails, CreateRow, CreateRowFails, RemoveOrphan,
         RemoveOrphanFails, PublishUpload, PublishUploadFails, AbandonUpload, broker, worker
<1>2. \A b \in Avatars : rows'[b].deleted => rows[b].deleted
  <2>1. UNCHANGED rows \/ rows' = [rows EXCEPT ![a] = NewRow]
    BY DEF Upload, PutOriginal, PutOriginalFails, CreateRow, CreateRowFails, RemoveOrphan,
           RemoveOrphanFails, PublishUpload, PublishUploadFails, AbandonUpload
  <2>2. ~NewRow.deleted
    BY DEF NewRow
  <2>3. rows \in [Avatars -> Rows]
    BY DEF FilesIInv, TypeOK
  <2>4. QED
    BY <2>1, <2>2, <2>3
<1>3. \A b \in Avatars : rows[b].deleted /\ Original(b) \in objects' => Original(b) \in objects
  <2>1. \/ objects' \subseteq objects
        \/ uploads[a] = "idle" /\ objects' \subseteq objects \cup {Original(a)}
    BY DEF Upload, PutOriginal, PutOriginalFails, CreateRow, CreateRowFails, RemoveOrphan,
           RemoveOrphanFails, PublishUpload, PublishUploadFails, AbandonUpload, AdvanceUpload
  <2>2. uploads[a] = "idle" => ~rows[a].deleted
    BY DEF FilesIInv, RequestInv
  <2>3. \A b \in Avatars : Original(b) = Original(a) => b = a
    BY KeyFacts
  <2>4. QED
    BY <2>1, <2>2, <2>3
<1>4. QED
  BY <1>1, <1>2, <1>3, TrackFrame

\* A deletion announces the original it makes garbage, and its event carries it.
LEMMA TrackDelete ==
    ASSUME FilesIInv, \A b \in Avatars : TrackInv(b), NEW a \in Avatars, Delete(a)
    PROVE  (\A b \in Avatars : TrackInv(b))'
<1>t. rows \in [Avatars -> Rows] /\ deletes \in [Avatars -> DeleteRequests]
  BY DEF FilesIInv, TypeOK
<1>1. CASE SoftDelete(a) \/ SoftDeleteUnanswered(a)
  <2>1. /\ UNCHANGED <<objects, deleteQueue, deadDeletes, remove>>
        /\ rows' = [rows EXCEPT ![a].deleted = TRUE]
        /\ \/ deletes' = [deletes EXCEPT ![a] = [pc |-> "publish", keys |-> AllS3Keys(a)]]
           \/ deletes' = [deletes EXCEPT ![a] = [pc |-> "lost", keys |-> AllS3Keys(a)]]
    BY <1>1 DEF SoftDelete, SoftDeleteUnanswered, MarkDeleted, broker, worker
  <2>2. Original(a) \in AllS3Keys(a)
    BY DEF AllS3Keys
  <2>3. TrackInv(a)'
    BY <1>t, <2>1, <2>2 DEF TrackInv, Covered
  <2>4. ASSUME NEW b \in Avatars, b # a PROVE TrackInv(b)'
    BY <1>t, <2>1, <2>4 DEF TrackInv, Covered
  <2>5. QED
    BY <2>3, <2>4
<1>2. CASE PublishDelete(a)
  <2>1. /\ UNCHANGED <<rows, objects, deadDeletes, remove>>
        /\ deletes[a].pc = "publish"
        /\ deletes' = [deletes EXCEPT ![a].pc = "done"]
        /\ deleteQueue' = deleteQueue \cup {[avatar |-> a, keys |-> deletes[a].keys, deaths |-> 0]}
    BY <1>2 DEF PublishDelete, worker
  <2>2. Original(a) \in deletes[a].keys
    BY <2>1 DEF TrackInv
  <2>3. TrackInv(a)'
    <3>1. deletes'[a].pc = "done"
      BY <1>t, <2>1 DEF DeleteRequests
    <3>2. \E e \in deleteQueue' : e.avatar = a /\ Original(a) \in e.keys
      <4> DEFINE e == [avatar |-> a, keys |-> deletes[a].keys, deaths |-> 0]
      <4>1. e.avatar = a /\ e.keys = deletes[a].keys
        OBVIOUS
      <4>2. e \in deleteQueue'
        BY <2>1
      <4> HIDE DEF e
      <4>3. QED
        BY <2>2, <4>1, <4>2
    <3>3. QED
      BY <3>1, <3>2 DEF TrackInv, Covered
  <2>4. ASSUME NEW b \in Avatars, b # a PROVE TrackInv(b)'
    <3>1. deletes'[b] = deletes[b] /\ deleteQueue \subseteq deleteQueue'
      BY <1>t, <2>1, <2>4
    <3>2. QED
      BY <2>1, <3>1 DEF TrackInv, Covered
  <2>5. QED
    BY <2>3, <2>4
<1>3. CASE LoseDelete(a)
  <2>1. /\ UNCHANGED <<rows, objects, deleteQueue, deadDeletes, remove>>
        /\ deletes' = [deletes EXCEPT ![a].pc = "lost"]
    BY <1>3 DEF LoseDelete, broker, worker
  <2>2. /\ deletes'[a].pc = "lost"
        /\ \A b \in Avatars : b # a => deletes'[b] = deletes[b]
    BY <1>t, <2>1 DEF DeleteRequests
  <2>3. QED
    BY <2>1, <2>2 DEF TrackInv, Covered
<1>4. QED
  BY <1>1, <1>2, <1>3 DEF Delete

\* A worker takes, gives back, parks and finishes delete events, and every way it
\* can lose one leaves the event with the broker or the original removed.
LEMMA TrackWorker ==
    ASSUME FilesIInv, \A b \in Avatars : TrackInv(b), NEW w \in Workers,
           Process(w) \/ Remove(w) \/ Reconcile(w) \/ WorkerFault(w)
    PROVE  (\A b \in Avatars : TrackInv(b))'
<1>t. rows \in [Avatars -> Rows] /\ remove \in [Workers -> RemoveStates]
  BY DEF FilesIInv, TypeOK
<1>r. remove[w].held => /\ remove[w].pc = "removing"
                        /\ remove[w].event \in DeleteEvents
                        /\ remove[w].left \subseteq remove[w].event.keys
  BY <1>t DEF FilesIInv, TypeOK, RemoveInv, RemoveStates
<1>1. CASE Process(w) \/ Reconcile(w) \/ ProcessFails(w) \/ RepublishFails(w)
  <2>1. UNCHANGED <<deletes, deleteQueue, deadDeletes, remove>>
    BY <1>1 DEF Process, Reconcile, ProcessFails, RepublishFails, TakeUpload, LookUp, Download,
                OriginalMissing, RejectUpload, PutThumbnail, RecordResult, RecordFailure,
                AckUpload, ListStuck, Republish, server, broker
  <2>2. \A a \in Avatars : rows'[a].deleted => rows[a].deleted
    <3>1. \/ UNCHANGED rows
          \/ RecordResult(w) \/ RecordFailure(w)
      BY <1>1 DEF Process, Reconcile, ProcessFails, RepublishFails, TakeUpload, LookUp, Download,
                  OriginalMissing, RejectUpload, PutThumbnail, AckUpload, ListStuck, Republish
    <3>2. CASE RecordResult(w)
      BY <1>t, <3>2 DEF RecordResult, Rows
    <3>3. CASE RecordFailure(w)
      <4>1. process[w].avatar \in Avatars
        BY <3>3 DEF RecordFailure, AdvanceProcess, FilesIInv, TypeOK
      <4>2. rows'[process[w].avatar].deleted = rows[process[w].avatar].deleted
        BY <1>t, <3>3, <4>1 DEF RecordFailure, Rows
      <4>3. QED
        BY <1>t, <3>3, <4>1, <4>2 DEF RecordFailure
    <3>4. QED
      BY <3>1, <3>2, <3>3
  <2>3. \A a \in Avatars : Original(a) \in objects' => Original(a) \in objects
    <3>1. UNCHANGED objects \/ PutThumbnail(w)
      BY <1>1 DEF Process, Reconcile, ProcessFails, RepublishFails, TakeUpload, LookUp, Download,
                  OriginalMissing, RejectUpload, RecordResult, RecordFailure,
                  AckUpload, ListStuck, Republish
    <3>2. CASE PutThumbnail(w)
      <4>1. PICK s \in process[w].todo : objects' = objects \cup {Thumbnail(process[w].avatar, s)}
        BY <3>2 DEF PutThumbnail
      <4>2. process[w].avatar \in Avatars /\ s \in Sizes
        BY <3>2, <4>1 DEF PutThumbnail, FilesIInv, TypeOK, ProcessStates
      <4>3. QED
        BY <4>1, <4>2, KeyFacts
    <3>3. QED
      BY <3>1, <3>2
  <2>4. QED
    BY <2>1, <2>2, <2>3, TrackFrame
<1>2. CASE TakeDelete(w)
  <2>1. PICK e \in deleteQueue :
          /\ deleteQueue' = deleteQueue \ {e}
          /\ remove' = [remove EXCEPT ![w] = [pc |-> "removing", event |-> e, held |-> TRUE, left |-> e.keys]]
    BY <1>2 DEF TakeDelete
  <2>2. UNCHANGED <<rows, objects, deletes, deadDeletes>> /\ ~remove[w].held
    BY <1>2, <1>r DEF TakeDelete, server
  <2>3. /\ remove'[w] = [pc |-> "removing", event |-> e, held |-> TRUE, left |-> e.keys]
        /\ \A v \in Workers : v # w => remove'[v] = remove[v]
    BY <1>t, <2>1
  <2>4. ASSUME NEW a \in Avatars, Covered(a) PROVE Covered(a)'
    <3>1. CASE e.avatar = a /\ Original(a) \in e.keys
      BY <2>3, <3>1 DEF Covered
    <3>2. CASE ~(e.avatar = a /\ Original(a) \in e.keys)
      BY <2>1, <2>2, <2>3, <2>4, <3>2 DEF Covered
    <3>3. QED
      BY <3>1, <3>2
  <2>5. QED
    BY <2>2, <2>4 DEF TrackInv
<1>3. CASE RemoveObject(w)
  <2>1. PICK k \in remove[w].left :
          /\ objects' = objects \ {k}
          /\ remove' = [remove EXCEPT ![w].left = @ \ {k}]
    BY <1>3 DEF RemoveObject
  <2>2. UNCHANGED <<rows, deletes, deleteQueue, deadDeletes>>
    BY <1>3 DEF RemoveObject, server, broker
  <2>3. /\ \A v \in Workers : remove'[v].held = remove[v].held /\ remove'[v].event = remove[v].event
        /\ \A v \in Workers : v # w => remove'[v].left = remove[v].left
        /\ remove'[w].left = remove[w].left \ {k}
    BY <1>t, <2>1 DEF RemoveStates
  <2>4. ASSUME NEW a \in Avatars, Covered(a), Original(a) # k PROVE Covered(a)'
    BY <2>2, <2>3, <2>4 DEF Covered
  <2>5. QED
    BY <2>1, <2>2, <2>4 DEF TrackInv
<1>4. CASE AckDelete(w)
  <2>1. /\ UNCHANGED <<rows, objects, deletes, deleteQueue, deadDeletes>>
        /\ remove[w].left = {} /\ \A v \in Workers : v # w => remove'[v] = remove[v]
    BY <1>t, <1>4 DEF AckDelete, server, broker
  <2>2. QED
    BY <2>1 DEF TrackInv, Covered
\* The event of w goes back to a queue or is parked; its other holders keep theirs.
<1>g. ASSUME UNCHANGED <<rows, objects, deletes>>,
             deleteQueue \subseteq deleteQueue', deadDeletes \subseteq deadDeletes',
             \A v \in Workers : v # w => remove'[v] = remove[v],
             remove[w].held => \E e \in deleteQueue' \cup deadDeletes' :
                 e.avatar = remove[w].event.avatar /\ e.keys = remove[w].event.keys
      PROVE  (\A b \in Avatars : TrackInv(b))'
  <2>1. ASSUME NEW a \in Avatars, Covered(a) PROVE Covered(a)'
    <3>1. CASE deletes[a].pc \in {"publish", "lost"}
      BY <1>g, <3>1 DEF Covered
    <3>2. CASE \E e \in deleteQueue \cup deadDeletes : e.avatar = a /\ Original(a) \in e.keys
      BY <1>g, <3>2 DEF Covered
    <3>3. CASE /\ remove[w].held /\ remove[w].event.avatar = a
               /\ Original(a) \in remove[w].left
      BY <1>g, <1>r, <3>3 DEF Covered
    <3>4. CASE \E v \in Workers : /\ v # w /\ remove[v].held /\ remove[v].event.avatar = a
                                  /\ Original(a) \in remove[v].left
      BY <1>g, <3>4 DEF Covered
    <3>5. QED
      BY <2>1, <3>1, <3>2, <3>3, <3>4 DEF Covered
  <2>2. QED
    BY <1>g, <2>1 DEF TrackInv
<1>5. CASE RemoveFails(w)
  <2> DEFINE e == remove[w].event
  <2>1. /\ UNCHANGED <<rows, objects, deletes>>
        /\ \A v \in Workers : v # w => remove'[v] = remove[v]
    BY <1>t, <1>5 DEF RemoveFails, server
  <2>2. deleteQueue \subseteq deleteQueue' /\ deadDeletes \subseteq deadDeletes'
    BY <1>5 DEF RemoveFails
  <2>3. ASSUME remove[w].held
        PROVE  \E f \in deleteQueue' \cup deadDeletes' : f.avatar = e.avatar /\ f.keys = e.keys
    <3>1. \/ [e EXCEPT !.deaths = @ + 1] \in deleteQueue'
          \/ e \in deadDeletes'
      BY <1>5, <2>3 DEF RemoveFails
    <3>2. /\ [e EXCEPT !.deaths = @ + 1].avatar = e.avatar
          /\ [e EXCEPT !.deaths = @ + 1].keys = e.keys
      BY <1>r, <2>3 DEF DeleteEvents
    <3>3. QED
      BY <3>1, <3>2
  <2>4. QED
    BY <1>g, <2>1, <2>2, <2>3
<1>6. CASE WorkerStops(w) \/ ConnectionBreaks(w)
  <2>1. /\ UNCHANGED <<rows, objects, deletes, deadDeletes>>
        /\ \A v \in Workers : v # w => remove'[v] = remove[v]
        /\ deleteQueue' = IF remove[w].held THEN deleteQueue \cup {remove[w].event} ELSE deleteQueue
    BY <1>t, <1>6 DEF WorkerStops, ConnectionBreaks, TakeBack, server
  <2>2. QED
    BY <1>g, <2>1
<1>7. QED
  BY <1>1, <1>2, <1>3, <1>4, <1>5, <1>6 DEF Remove, WorkerFault

\* The original of a deleted avatar is never garbage nobody knows about: however
\* deliveries are retried, handlers fail, replicas stop and connections break, its
\* delete event is with the publisher, with the broker, or with a handler at work.
THEOREM DeletedOriginalsAreTracked == Spec => []DeletedOriginalIsTracked
<1>1. Init => \A a \in Avatars : TrackInv(a)
  BY DEF Init, TrackInv, NoRow
<1>2. FilesIInv /\ (\A a \in Avatars : TrackInv(a)) /\ [Next]_vars
        => (\A a \in Avatars : TrackInv(a))'
  <2> SUFFICES ASSUME FilesIInv, \A a \in Avatars : TrackInv(a), [Next]_vars
               PROVE  (\A a \in Avatars : TrackInv(a))'
    OBVIOUS
  <2>1. CASE Next
    BY <2>1, TrackUpload, TrackDelete, TrackWorker DEF Next
  <2>2. CASE UNCHANGED vars
    BY <2>2 DEF TrackInv, Covered, vars
  <2>3. QED
    BY <2>1, <2>2
<1>3. FilesIInv /\ (\A a \in Avatars : TrackInv(a)) => DeletedOriginalIsTracked
  <2> SUFFICES ASSUME FilesIInv, NEW a \in Avatars, TrackInv(a),
                      rows[a].deleted, Original(a) \in objects
               PROVE  Announced(a, Original(a))
    BY DEF DeletedOriginalIsTracked
  <2>1. Covered(a)
    BY DEF TrackInv
  <2>2. \A w \in Workers : remove[w].held => remove[w].pc = "removing"
    BY DEF FilesIInv, TypeOK, RemoveStates
  <2>3. QED
    BY <2>1, <2>2 DEF Covered, Announced
<1>4. QED
  BY <1>1, <1>2, <1>3, FilesInvariant, PTL DEF Spec

----------------------------------------------------------------------------
\* The service implements AvatarCatalog, if all replicas decode the same images.

SameDecodes == \A v, w \in Workers : Decodes[v] = Decodes[w]

Decodable(a) == \E w \in Workers : picture[a] \in Decodes[w]

\* Verdicts, given or on their way, agree with the image.
VerdictInv ==
    /\ \A a \in Avatars : /\ rows[a].status = "completed" => Decodable(a)
                          /\ rows[a].status = "failed" => ~Decodable(a)
    /\ \A w \in Workers : /\ process[w].pc = "thumbnails" => Decodable(process[w].avatar)
                          /\ process[w].pc = "reject" => ~Decodable(process[w].avatar)

\* Steps that write no row and start no verdict.
LEMMA VerdictFrame ==
    ASSUME VerdictInv, UNCHANGED <<picture, rows>>,
           \A w \in Workers :
              process'[w].pc \in {"thumbnails", "reject"} =>
                 process'[w].pc = process[w].pc /\ process'[w].avatar = process[w].avatar
    PROVE  VerdictInv' /\ UNCHANGED ClientView
<1>1. UNCHANGED ClientView
  BY DEF ClientView
<1>2. \A a : Decodable(a)' = Decodable(a)
  BY DEF Decodable
<1>3. QED
  BY <1>1, <1>2 DEF VerdictInv

\* The view of one avatar changes as its row does.
LEMMA ViewOfRow ==
    ASSUME NEW a \in Avatars, NEW row, rows' = [rows EXCEPT ![a] = row],
           rows \in [Avatars -> Rows]
    PROVE  ClientView' = [ClientView EXCEPT ![a] = IF row.deleted THEN "deleted" ELSE row.status]
BY DEF ClientView

\* An upload only makes an absent avatar appear.
LEMMA CatalogUpload ==
    ASSUME FilesIInv, VerdictInv, NEW a \in Avatars, Upload(a)
    PROVE  VerdictInv' /\ [Catalog!Next]_ClientView
<1>t. rows \in [Avatars -> Rows]
  BY DEF FilesIInv, TypeOK
<1>1. UNCHANGED <<picture, process>>
  BY DEF Upload, PutOriginal, PutOriginalFails, CreateRow, CreateRowFails, RemoveOrphan,
         RemoveOrphanFails, PublishUpload, PublishUploadFails, AbandonUpload, worker
<1>2. \/ UNCHANGED rows
      \/ uploads[a] = "create" /\ rows' = [rows EXCEPT ![a] = NewRow]
  BY DEF Upload, PutOriginal, PutOriginalFails, CreateRow, CreateRowFails, RemoveOrphan,
         RemoveOrphanFails, PublishUpload, PublishUploadFails, AbandonUpload, AdvanceUpload
<1>3. CASE UNCHANGED rows
  BY <1>1, <1>3, VerdictFrame
<1>4. CASE uploads[a] = "create" /\ rows' = [rows EXCEPT ![a] = NewRow]
  <2>1. rows[a].status = "absent" /\ ~rows[a].deleted
    BY <1>4 DEF FilesIInv, RequestInv
  <2>2. ClientView[a] = "absent"
    BY <2>1 DEF ClientView
  <2>3. NewRow.status = "pending" /\ ~NewRow.deleted
    BY DEF NewRow
  <2>4. ClientView' = [ClientView EXCEPT ![a] = "pending"]
    BY <1>t, <1>4, <2>3, ViewOfRow
  <2>5. Catalog!Next
    BY <2>2, <2>4 DEF Catalog!Next, Catalog!Accept, Catalog!Move
  <2>6. \A b : Decodable(b)' = Decodable(b)
    BY <1>1 DEF Decodable
  <2>7. VerdictInv'
    BY <1>t, <1>1, <1>4, <2>3, <2>6 DEF VerdictInv
  <2>8. QED
    BY <2>5, <2>7
<1>5. QED
  BY <1>2, <1>3, <1>4

\* A deletion takes a visible avatar away.
LEMMA CatalogDelete ==
    ASSUME FilesIInv, VerdictInv, NEW a \in Avatars, Delete(a)
    PROVE  VerdictInv' /\ [Catalog!Next]_ClientView
<1>t. rows \in [Avatars -> Rows]
  BY DEF FilesIInv, TypeOK
<1>1. CASE PublishDelete(a) \/ LoseDelete(a)
  BY <1>1, VerdictFrame DEF PublishDelete, LoseDelete, broker, worker
<1>2. CASE SoftDelete(a) \/ SoftDeleteUnanswered(a)
  <2> DEFINE row == [rows[a] EXCEPT !.deleted = TRUE]
  <2>1. UNCHANGED <<picture, process>> /\ Visible(a) /\ rows' = [rows EXCEPT ![a] = row]
    BY <1>2 DEF SoftDelete, SoftDeleteUnanswered, MarkDeleted, worker
  <2>2. row.deleted /\ row.status = rows[a].status
    BY <1>t DEF Rows
  <2>3. ClientView' = [ClientView EXCEPT ![a] = "deleted"]
    BY <1>t, <2>1, <2>2, ViewOfRow
  <2>4. ClientView[a] \in {"pending", "completed", "failed"}
    BY <1>t, <2>1 DEF ClientView, Visible, Rows
  <2>5. Catalog!Next
    BY <2>3, <2>4 DEF Catalog!Next, Catalog!Delete, Catalog!Move, Catalog!Visible
  <2>6. \A b : Decodable(b)' = Decodable(b)
    BY <2>1 DEF Decodable
  <2>7. \A b \in Avatars : rows'[b].status = rows[b].status
    BY <1>t, <2>1, <2>2
  <2>8. VerdictInv'
    BY <2>1, <2>6, <2>7 DEF VerdictInv
  <2>9. QED
    BY <2>5, <2>8
<1>3. QED
  BY <1>1, <1>2 DEF Delete

\* A worker settles a pending avatar once; what it writes later changes nothing.
LEMMA CatalogWorker ==
    ASSUME SameDecodes, FilesIInv, VerdictInv, NEW w \in Workers,
           Process(w) \/ Remove(w) \/ Reconcile(w) \/ WorkerFault(w)
    PROVE  VerdictInv' /\ [Catalog!Next]_ClientView
<1>t. rows \in [Avatars -> Rows] /\ process \in [Workers -> ProcessStates]
  BY DEF FilesIInv, TypeOK
<1>i. IdleProcess.pc = "idle"
  BY RecordTypes
<1> DEFINE a == process[w].avatar
<1>1. CASE Remove(w) \/ Reconcile(w) \/ RemoveFails(w) \/ RepublishFails(w)
  <2>1. UNCHANGED <<picture, rows, process>>
    BY <1>1 DEF Remove, Reconcile, RemoveFails, RepublishFails, TakeDelete, RemoveObject,
                AckDelete, ListStuck, Republish
  <2>2. QED
    BY <2>1, VerdictFrame
<1>2. CASE TakeUpload(w) \/ LookUp(w) \/ OriginalMissing(w) \/ PutThumbnail(w) \/ AckUpload(w)
           \/ ProcessFails(w) \/ WorkerStops(w) \/ ConnectionBreaks(w)
  <2>1. UNCHANGED <<picture, rows>>
    BY <1>2 DEF TakeUpload, LookUp, OriginalMissing, PutThumbnail, AckUpload, ProcessFails,
                RejectUpload, WorkerStops, ConnectionBreaks
  <2>2. /\ \A v \in Workers : v # w => process'[v] = process[v]
        /\ process'[w].pc \in {"thumbnails", "reject"} =>
             process'[w].pc = process[w].pc /\ process'[w].avatar = process[w].avatar
    <3>1. CASE TakeUpload(w)
      BY <1>t, <3>1 DEF TakeUpload
    <3>2. CASE LookUp(w)
      BY <1>t, <3>2 DEF LookUp, AdvanceProcess, ProcessStates
    <3>3. CASE OriginalMissing(w) \/ AckUpload(w) \/ ProcessFails(w) \/ WorkerStops(w)
      BY <1>t, <1>i, <3>3 DEF OriginalMissing, AckUpload, ProcessFails, RejectUpload, WorkerStops
    <3>4. CASE PutThumbnail(w)
      BY <1>t, <3>4 DEF PutThumbnail, ProcessStates
    <3>5. CASE ConnectionBreaks(w)
      BY <1>t, <3>5 DEF ConnectionBreaks, ProcessStates
    <3>6. QED
      BY <1>2, <3>1, <3>2, <3>3, <3>4, <3>5
  <2>3. QED
    BY <2>1, <2>2, VerdictFrame
<1>3. CASE Download(w)
  <2>1. /\ UNCHANGED <<picture, rows>>
        /\ \A v \in Workers : v # w => process'[v] = process[v]
        /\ process'[w].avatar = a
        /\ picture[a] \in Decodes[w] => process'[w].pc = "thumbnails"
        /\ picture[a] \notin Decodes[w] => process'[w].pc = "reject"
    BY <1>t, <1>3 DEF Download, ProcessStates
  <2>2. Decodable(a) <=> picture[a] \in Decodes[w]
    BY DEF SameDecodes, Decodable
  <2>3. \A b : Decodable(b)' = Decodable(b)
    BY <2>1 DEF Decodable
  <2>4. VerdictInv'
    BY <2>1, <2>2, <2>3 DEF VerdictInv
  <2>5. UNCHANGED ClientView
    BY <2>1 DEF ClientView
  <2>6. QED
    BY <2>4, <2>5
\* The two verdicts.
<1>v. ASSUME NEW verdict \in {"completed", "failed"}, NEW row, UNCHANGED picture,
             a \in Avatars, rows[a].status # "absent",
             rows[a].status \in {"completed", "failed"} => rows[a].status = verdict,
             verdict = "completed" <=> Decodable(a),
             rows' = [rows EXCEPT ![a] = row],
             row.status = verdict, row.deleted = rows[a].deleted,
             \A v \in Workers : v # w => process'[v] = process[v],
             process'[w].pc = "ack"
      PROVE  VerdictInv' /\ [Catalog!Next]_ClientView
  <2>1. ClientView' = [ClientView EXCEPT ![a] = IF row.deleted THEN "deleted" ELSE verdict]
    BY <1>t, <1>v, ViewOfRow
  <2>2. ClientView[a] = IF rows[a].deleted THEN "deleted" ELSE rows[a].status
    BY <1>v DEF ClientView
  <2>3. rows[a].status \in {"pending", verdict}
    BY <1>t, <1>v DEF Rows
  <2>4. ASSUME rows[a].deleted \/ rows[a].status = verdict
        PROVE  [Catalog!Next]_ClientView
    <3>1. UNCHANGED ClientView
      BY <1>v, <2>1, <2>2, <2>4 DEF ClientView
    <3>2. QED
      BY <3>1
  <2>5. ASSUME ~rows[a].deleted /\ rows[a].status = "pending"
        PROVE  [Catalog!Next]_ClientView
    <3>1. ClientView[a] = "pending" /\ ClientView' = [ClientView EXCEPT ![a] = verdict]
      BY <1>v, <2>1, <2>2, <2>5
    <3>2. Catalog!Next
      BY <1>v, <3>1 DEF Catalog!Next, Catalog!Settle, Catalog!Move
    <3>3. QED
      BY <3>2
  <2>6. \A b : Decodable(b)' = Decodable(b)
    BY <1>v DEF Decodable
  <2>7. VerdictInv'
    <3>1. /\ rows'[a].status = verdict
          /\ \A b \in Avatars : b # a => rows'[b] = rows[b]
      BY <1>t, <1>v
    <3>2. QED
      BY <1>v, <2>6, <3>1 DEF VerdictInv
  <2>8. [Catalog!Next]_ClientView
    BY <2>3, <2>4, <2>5
  <2>9. QED
    BY <2>7, <2>8
<1>4. CASE RecordResult(w)
  <2>1. /\ UNCHANGED picture /\ process[w].pc = "thumbnails"
        /\ process' = [process EXCEPT ![w].pc = "ack"]
        /\ rows' = IF rows[a].status = "completed" THEN rows
                   ELSE [rows EXCEPT ![a].status = "completed", ![a].thumbs = Sizes]
    BY <1>4 DEF RecordResult, AdvanceProcess
  <2>2. /\ a \in Avatars /\ rows[a].status # "absent" /\ Decodable(a)
        /\ rows[a].status # "failed"
    BY <2>1 DEF FilesIInv, TypeOK, ProcessInv, VerdictInv
  <2>3. /\ \A v \in Workers : v # w => process'[v] = process[v]
        /\ process'[w].pc = "ack"
    BY <1>t, <2>1 DEF ProcessStates
  <2>4. CASE rows[a].status = "completed"
    <3>1. UNCHANGED rows
      BY <2>1, <2>4
    <3>2. QED
      BY <2>1, <2>3, <3>1, VerdictFrame
  <2>5. CASE rows[a].status # "completed"
    <3> DEFINE row == [rows[a] EXCEPT !.status = "completed", !.thumbs = Sizes]
    <3>1. rows' = [rows EXCEPT ![a] = row]
      BY <2>1, <2>5
    <3>2. row.status = "completed" /\ row.deleted = rows[a].deleted
      BY <1>t, <2>2 DEF Rows
    <3> HIDE DEF row
    <3>3. QED
      BY <1>v, <2>1, <2>2, <2>3, <3>1, <3>2
  <2>6. QED
    BY <2>4, <2>5
<1>5. CASE RecordFailure(w)
  <2>1. /\ UNCHANGED picture /\ process[w].pc = "reject"
        /\ process' = [process EXCEPT ![w].pc = "ack"]
        /\ rows' = [rows EXCEPT ![a].status = "failed"]
    BY <1>5 DEF RecordFailure, AdvanceProcess
  <2>2. /\ a \in Avatars /\ rows[a].status # "absent" /\ ~Decodable(a)
        /\ rows[a].status # "completed"
    BY <2>1 DEF FilesIInv, TypeOK, ProcessInv, VerdictInv
  <2>3. /\ \A v \in Workers : v # w => process'[v] = process[v]
        /\ process'[w].pc = "ack"
    BY <1>t, <2>1 DEF ProcessStates
  <2> DEFINE row == [rows[a] EXCEPT !.status = "failed"]
  <2>4. rows' = [rows EXCEPT ![a] = row]
    BY <2>1
  <2>5. row.status = "failed" /\ row.deleted = rows[a].deleted
    BY <1>t, <2>2 DEF Rows
  <2> HIDE DEF row
  <2>6. QED
    BY <1>v, <2>1, <2>2, <2>3, <2>4, <2>5
<1>6. QED
  BY <1>1, <1>2, <1>3, <1>4, <1>5 DEF Process, WorkerFault

\* If all replicas decode the same images, what clients see of the avatars is the
\* catalog: an avatar appears once, gets at most one verdict that no late, repeated
\* or concurrent delivery revises, and never comes back once deleted.
THEOREM ServiceImplementsCatalog ==
    ASSUME SameDecodes
    PROVE  Spec => ImplementsCatalog
<1>1. Init => VerdictInv
  BY RecordTypes DEF Init, VerdictInv, NoRow
<1>2. Init => Catalog!Init
  BY DEF Init, Catalog!Init, ClientView, NoRow
<1>3. FilesIInv /\ VerdictInv /\ [Next]_vars => VerdictInv' /\ [Catalog!Next]_ClientView
  <2> SUFFICES ASSUME FilesIInv, VerdictInv, [Next]_vars
               PROVE  VerdictInv' /\ [Catalog!Next]_ClientView
    OBVIOUS
  <2>1. CASE Next
    BY <2>1, CatalogUpload, CatalogDelete, CatalogWorker DEF Next
  <2>2. CASE UNCHANGED vars
    BY <2>2, VerdictFrame DEF vars, worker
  <2>3. QED
    BY <2>1, <2>2
<1>4. QED
  BY <1>1, <1>2, <1>3, FilesInvariant, PTL DEF Spec, ImplementsCatalog, Catalog!Spec
=============================================================================
