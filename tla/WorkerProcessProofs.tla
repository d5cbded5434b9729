------------------------ MODULE WorkerProcessProofs ------------------------
(* What holds of WorkerProcess for any consumers and any number of faults: no *)
(* member of the group is at work on dependencies that are closed.            *)
EXTENDS WorkerProcess, TLAPS

AllStarted == \A c \in Consumers : Started(c)

OpenWhileWorking == main \in {"starting", "waiting"} => opened = AllOpen

NobodyBeforeStart == main = "opening" => \A m \in Members : member[m] = "off"

\* A consumer that has no channel was never started.
NoChannelNoMember == \A c \in Consumers : ~Started(c) => member[c] = "off"

\* run() leaves when the whole group has returned, or with a consumer missing.
GroupIsOver ==
    main \in {"leaving", "exited"} /\ AllStarted
        => \A m \in Members : member[m] \in {"off", "returned"}

IInv ==
    /\ WorkerTypeOK
    /\ OpenWhileWorking
    /\ NobodyBeforeStart
    /\ NoChannelNoMember
    /\ GroupIsOver

LEMMA InitIsCorrect == Init => IInv
<1> SUFFICES ASSUME Init PROVE IInv
  OBVIOUS
<1>1. /\ member \in [Members -> {"off", "subscribing", "idle", "busy", "returned"}]
      /\ channel \in [Consumers -> {"none", "open", "broken", "closed"}]
  BY DEF Init
<1>2. stopped \in BOOLEAN /\ cancelled \in BOOLEAN /\ failed \in BOOLEAN
  BY DEF Init
<1>3. WorkerTypeOK
  BY <1>1, <1>2, BoundsAssumption DEF Init, WorkerTypeOK, AllOpen
<1>4. OpenWhileWorking /\ NobodyBeforeStart /\ NoChannelNoMember /\ GroupIsOver
  BY DEF Init, OpenWhileWorking, NobodyBeforeStart, NoChannelNoMember, GroupIsOver, Members
<1> QED
  BY <1>3, <1>4 DEF IInv

LEMMA RunIsCorrect == IInv /\ Run => IInv'
<1> SUFFICES ASSUME IInv, Run PROVE IInv'
  OBVIOUS
<1> USE BoundsAssumption, ConsumersAssumption
        DEF IInv, WorkerTypeOK, OpenWhileWorking, NobodyBeforeStart, NoChannelNoMember,
            GroupIsOver, AllStarted, Started, Members, AllOpen, group
<1>1. CASE OpenDependency
  BY <1>1 DEF OpenDependency
<1>2. CASE OpenFails
  BY <1>2 DEF OpenFails, Fault
<1>3. CASE MakeGroup
  BY <1>3 DEF MakeGroup
<1>4. ASSUME NEW c \in Consumers, StartConsumer(c) PROVE IInv'
  BY <1>4 DEF StartConsumer, Step
<1>5. CASE NewConsumerFails
  BY <1>5 DEF NewConsumerFails, Fault
<1>6. CASE StartOthers
  BY <1>6 DEF StartOthers
<1>7. CASE Wait
  BY <1>7 DEF Wait
<1>8. CASE CloseDependency
  BY <1>8 DEF CloseDependency
<1>9. CASE Exit
  BY <1>9 DEF Exit
<1> QED
  BY <1>1, <1>2, <1>3, <1>4, <1>5, <1>6, <1>7, <1>8, <1>9 DEF Run

\* A member that has returned, or was never started, takes no step.
LEMMA GroupIsCorrect ==
  ASSUME IInv, NEW m \in Members, Work(m) \/ (m \in Consumers /\ ConsumerStep(m))
  PROVE  IInv'
<1> USE BoundsAssumption, ConsumersAssumption
        DEF IInv, WorkerTypeOK, OpenWhileWorking, NobodyBeforeStart, NoChannelNoMember,
            GroupIsOver, AllStarted, Started, Members, AllOpen, Step
<1>1. CASE Begin(m)
  BY <1>1 DEF Begin
<1>2. CASE End(m)
  BY <1>2 DEF End
<1>3. CASE Stop(m)
  BY <1>3 DEF Stop
<1>4. CASE m \in Consumers /\ Subscribe(m)
  BY <1>4 DEF Subscribe
<1>5. CASE m \in Consumers /\ SubscribeFails(m)
  BY <1>5 DEF SubscribeFails, Fail, Fault
<1>6. CASE m \in Consumers /\ DeliveryClosed(m)
  <2>1. CASE cancelled
    BY <2>1, <1>6 DEF DeliveryClosed
  <2>2. CASE ~cancelled
    BY <2>2, <1>6 DEF DeliveryClosed, Fail
  <2> QED
    BY <2>1, <2>2
<1> QED
  BY <1>1, <1>2, <1>3, <1>4, <1>5, <1>6 DEF Work, ConsumerStep

LEMMA WorldIsCorrect == IInv /\ (AdminFails \/ Signal \/ ChannelsBreak) => IInv'
<1> SUFFICES ASSUME IInv, AdminFails \/ Signal \/ ChannelsBreak PROVE IInv'
  OBVIOUS
<1> USE BoundsAssumption, ConsumersAssumption
        DEF IInv, WorkerTypeOK, OpenWhileWorking, NobodyBeforeStart, NoChannelNoMember,
            GroupIsOver, AllStarted, Started, Members, AllOpen, Fault
<1>1. CASE AdminFails
  BY <1>1 DEF AdminFails, Step
<1>2. CASE Signal
  BY <1>2 DEF Signal
<1>3. CASE ChannelsBreak
  BY <1>3 DEF ChannelsBreak
<1> QED
  BY <1>1, <1>2, <1>3

LEMMA StepIsCorrect == IInv /\ [WorkerNext]_workerVars => IInv'
<1>1. ASSUME IInv, UNCHANGED workerVars PROVE IInv'
  BY <1>1
     DEF workerVars, group, IInv, WorkerTypeOK, OpenWhileWorking, NobodyBeforeStart,
         NoChannelNoMember, GroupIsOver, AllStarted, Started
<1> QED
  BY <1>1, RunIsCorrect, GroupIsCorrect, WorldIsCorrect DEF WorkerNext, Members

LEMMA AlwaysCorrect == WorkerSpec => []IInv
  BY InitIsCorrect, StepIsCorrect, PTL DEF WorkerSpec

\* Every variable of the worker process stays in its domain.
THEOREM WorkerTypeCorrect == WorkerSpec => []WorkerTypeOK
<1>1. IInv => WorkerTypeOK
  BY DEF IInv
<1> QED
  BY <1>1, AlwaysCorrect, PTL

\* group.Wait: run() closes the database and the broker under no handler and no
\* pass of the reconciler, whatever made it end, once all consumers have started.
THEOREM NothingRunsOnClosedDependencies == WorkerSpec => []NothingRunsWithoutDependencies
<1>1. IInv => NothingRunsWithoutDependencies
  BY DEF IInv, WorkerTypeOK, OpenWhileWorking, GroupIsOver, AllStarted,
         NothingRunsWithoutDependencies
<1> QED
  BY <1>1, AlwaysCorrect, PTL

\* The context of the group is cancelled for a signal, or for a consumer that failed.
CancelledForAReason ==
    cancelled => stopped \/ (failed /\ \E c \in Consumers : member[c] = "returned")

LEMMA ReturnedStayReturned ==
    ASSUME WorkerTypeOK, WorkerNext, NEW c \in Consumers, member[c] = "returned"
    PROVE  member'[c] = "returned"
<1> USE ConsumersAssumption DEF WorkerTypeOK, Members, Step
<1>1. CASE Run
  BY <1>1 DEF Run, OpenDependency, OpenFails, MakeGroup, StartConsumer, NewConsumerFails, StartOthers,
        Wait, CloseDependency, Exit, group
<1>2. CASE \E m \in Members : Work(m)
  BY <1>2 DEF Work, Begin, End, Stop
<1>3. CASE \E d \in Consumers : ConsumerStep(d)
  BY <1>3 DEF ConsumerStep, Subscribe, SubscribeFails, DeliveryClosed, Fail
<1>4. CASE AdminFails \/ Signal \/ ChannelsBreak
  BY <1>4 DEF AdminFails, Signal, ChannelsBreak
<1> QED
  BY <1>1, <1>2, <1>3, <1>4 DEF WorkerNext

LEMMA ReasonsStay ==
    ASSUME WorkerTypeOK, CancelledForAReason, WorkerNext
    PROVE  CancelledForAReason'
<1>1. CASE /\ cancelled' => cancelled \/ stopped'
           /\ stopped => stopped'
           /\ failed => failed'
  BY <1>1, ReturnedStayReturned DEF CancelledForAReason
<1>2. ASSUME NEW c \in Consumers, ConsumerStep(c)
      PROVE  CancelledForAReason'
  <2>1. CASE \E from : Fail(c, from)
    BY <2>1, ConsumersAssumption DEF Fail, Step, WorkerTypeOK, Members, CancelledForAReason
  <2>2. CASE UNCHANGED <<cancelled, failed, stopped>>
    BY <1>1, <2>2
  <2> QED
    BY <1>2, <2>1, <2>2 DEF ConsumerStep, Subscribe, SubscribeFails, DeliveryClosed
<1>3. CASE Run
  BY <1>1, <1>3 DEF Run, OpenDependency, OpenFails, MakeGroup, StartConsumer, NewConsumerFails,
        StartOthers, Wait, CloseDependency, Exit, group
<1>4. CASE \E m \in Members : Work(m)
  BY <1>1, <1>4 DEF Work, Begin, End, Stop
<1>5. CASE AdminFails \/ Signal \/ ChannelsBreak
  BY <1>1, <1>5 DEF AdminFails, Signal, ChannelsBreak
<1> QED
  BY <1>2, <1>3, <1>4, <1>5 DEF WorkerNext

\* A running worker that nobody has told to stop ends for the sake of a consumer
\* that failed, and for nothing else: neither the admin server nor the reconciler.
THEOREM OnlyAConsumerEndsIt == WorkerSpec => []OnlyConsumersEndTheWorker
<1>1. Init => CancelledForAReason
  BY DEF Init, CancelledForAReason
<1>2. CancelledForAReason /\ UNCHANGED workerVars => CancelledForAReason'
  BY DEF workerVars, group, CancelledForAReason
<1>3. IInv /\ CancelledForAReason /\ [WorkerNext]_workerVars => CancelledForAReason'
  BY <1>2, ReasonsStay DEF IInv
<1>4. CancelledForAReason => OnlyConsumersEndTheWorker
  BY DEF CancelledForAReason, OnlyConsumersEndTheWorker
<1> QED
  BY <1>1, <1>3, <1>4, AlwaysCorrect, PTL DEF WorkerSpec
=============================================================================
