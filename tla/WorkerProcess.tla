--------------------------- MODULE WorkerProcess ---------------------------
(* The life of one worker process: run() of cmd/worker opens the              *)
(* dependencies, starts the members of an errgroup (a consumer for each       *)
(* queue, the reconciler, the admin server), waits for all of them, and       *)
(* closes what it opened.  A signal, or an error of one member, cancels the   *)
(* context of all.                                                            *)
EXTENDS Naturals

CONSTANTS
    Consumers,      \* one for each queue
    MaxFaults       \* bound: failures of dependencies, channels and listeners

ASSUME ConsumersAssumption == {"reconciler", "admin"} \cap Consumers = {}
ASSUME BoundsAssumption == MaxFaults \in Nat

VARIABLES
    main,        \* step of run()
    opened,      \* how many of the dependencies are open
    exit,        \* how run() ends
    member,      \* progress of each member of the group
    channel,     \* channel of each consumer
    stopped,     \* a signal has arrived; NotifyContext catches all that follow
    cancelled,   \* the context of the group is cancelled
    failed,      \* the group has kept an error
    faults       \* faults so far

group == <<member, channel, cancelled, failed>>
workerVars == <<main, opened, exit, group, stopped, faults>>

\* Tracing, the pool of the database, the connection to the broker.
AllOpen == 3

Members == Consumers \cup {"reconciler", "admin"}

Init ==
    /\ main = "opening" /\ opened = 0 /\ exit = "none"
    /\ member = [m \in Members |-> "off"]
    /\ channel = [c \in Consumers |-> "none"]
    /\ stopped = FALSE /\ cancelled = FALSE /\ failed = FALSE
    /\ faults = 0

Fault == faults < MaxFaults /\ faults' = faults + 1

Started(c) == channel[c] # "none"

Step(m, from, to) ==
    /\ member[m] = from
    /\ member' = [member EXCEPT ![m] = to]

----------------------------------------------------------------------------
\* run().

OpenDependency ==
    /\ main = "opening" /\ opened < AllOpen
    /\ opened' = opened + 1
    /\ UNCHANGED <<main, exit, group, stopped, faults>>

\* Also when a signal cancels the context a dependency is opened under.
OpenFails ==
    /\ main = "opening"
    /\ \/ stopped /\ UNCHANGED faults
       \/ Fault
    /\ main' = "leaving" /\ exit' = "failed"
    /\ UNCHANGED <<opened, group, stopped>>

\* errgroup.WithContext: the context of a process that was stopped is cancelled.
MakeGroup ==
    /\ main = "opening" /\ opened = AllOpen
    /\ main' = "starting"
    /\ cancelled' = stopped
    /\ UNCHANGED <<opened, exit, member, channel, stopped, failed, faults>>

StartConsumer(c) ==
    /\ main = "starting"
    /\ Step(c, "off", "subscribing")
    /\ channel' = [channel EXCEPT ![c] = "open"]
    /\ UNCHANGED <<main, opened, exit, cancelled, failed, stopped, faults>>

\* No channel for this consumer: run() returns and waits for nobody, though
\* another consumer may be at work.
NewConsumerFails ==
    /\ main = "starting"
    /\ \E c \in Consumers : ~Started(c)
    /\ Fault
    /\ main' = "leaving" /\ exit' = "failed"
    /\ UNCHANGED <<opened, group, stopped>>

StartOthers ==
    /\ main = "starting" /\ \A c \in Consumers : Started(c)
    /\ main' = "waiting"
    /\ member' = [member EXCEPT !["reconciler"] = "idle", !["admin"] = "idle"]
    /\ UNCHANGED <<opened, exit, channel, cancelled, failed, stopped, faults>>

\* Wrong on purpose: run() waits for the consumers only.
WaitForConsumers ==
    /\ main = "waiting"
    /\ \A c \in Consumers : member[c] = "returned"
    /\ main' = "leaving"
    /\ exit' = IF failed THEN "failed" ELSE "clean"
    /\ UNCHANGED <<opened, group, stopped, faults>>

\* group.Wait.
Wait ==
    /\ main = "waiting"
    /\ \A m \in Members : member[m] = "returned"
    /\ main' = "leaving"
    /\ exit' = IF failed THEN "failed" ELSE "clean"
    /\ UNCHANGED <<opened, group, stopped, faults>>

\* Wrong on purpose: what was never opened is closed as well.
CloseDependencyAgain ==
    /\ main = "leaving"
    /\ opened' = opened - 1
    /\ channel' = [c \in Consumers |-> IF channel[c] = "open" THEN "broken" ELSE channel[c]]
    /\ UNCHANGED <<main, exit, member, cancelled, failed, stopped, faults>>

\* The deferred calls; closing the connection takes its channels along.
CloseDependency ==
    /\ main = "leaving" /\ opened > 0
    /\ opened' = opened - 1
    /\ channel' = [c \in Consumers |-> IF channel[c] = "open" THEN "broken" ELSE channel[c]]
    /\ UNCHANGED <<main, exit, member, cancelled, failed, stopped, faults>>

Exit ==
    /\ main = "leaving" /\ opened = 0
    /\ main' = "exited"
    /\ UNCHANGED <<opened, exit, group, stopped, faults>>

Run ==
    \/ OpenDependency \/ OpenFails \/ MakeGroup
    \/ (\E c \in Consumers : StartConsumer(c)) \/ NewConsumerFails \/ StartOthers
    \/ Wait \/ CloseDependency \/ Exit

----------------------------------------------------------------------------
\* The members of the group.

\* A member that ends with an error cancels the context of all; the group keeps
\* the first error.
Fail(m, from) ==
    /\ Step(m, from, "returned")
    /\ cancelled' = TRUE
    /\ failed' = TRUE

\* basic.consume.
Subscribe(c) ==
    /\ channel[c] = "open"
    /\ Step(c, "subscribing", "idle")
    /\ UNCHANGED <<main, opened, exit, channel, cancelled, failed, stopped, faults>>

SubscribeFails(c) ==
    /\ Fail(c, "subscribing")
    /\ \/ channel[c] = "broken" /\ UNCHANGED faults
       \/ channel[c] = "open" /\ Fault
    /\ channel' = [channel EXCEPT ![c] = "closed"]
    /\ UNCHANGED <<main, opened, exit, stopped>>

\* Also when the context is cancelled: the select may pick the delivery.
Begin(m) ==
    /\ m # "admin"
    /\ m \in Consumers => channel[m] = "open"
    /\ Step(m, "idle", "busy")
    /\ UNCHANGED <<main, opened, exit, channel, cancelled, failed, stopped, faults>>

End(m) ==
    /\ Step(m, "busy", "idle")
    /\ UNCHANGED <<main, opened, exit, channel, cancelled, failed, stopped, faults>>

\* The loop sees the cancelled context; a consumer closes its channel.
Stop(m) ==
    /\ cancelled
    /\ Step(m, "idle", "returned")
    /\ channel' = [c \in Consumers |-> IF c = m THEN "closed" ELSE channel[c]]
    /\ UNCHANGED <<main, opened, exit, cancelled, failed, stopped, faults>>

\* Wrong on purpose: a closed delivery channel looks like the end of the work.
DeliveryClosedQuietly(c) ==
    /\ channel[c] = "broken"
    /\ Step(c, "idle", "returned")
    /\ channel' = [channel EXCEPT ![c] = "closed"]
    /\ UNCHANGED <<main, opened, exit, cancelled, failed, stopped, faults>>

\* The broker closed the deliveries: an error, unless the stop came first.
DeliveryClosed(c) ==
    /\ channel[c] = "broken"
    /\ IF cancelled THEN Step(c, "idle", "returned") /\ UNCHANGED <<cancelled, failed>>
                    ELSE Fail(c, "idle")
    /\ channel' = [channel EXCEPT ![c] = "closed"]
    /\ UNCHANGED <<main, opened, exit, stopped, faults>>

\* Wrong on purpose: the error of the admin server is returned to the group.
AdminFailsTheGroup ==
    /\ Fault
    /\ Fail("admin", "idle")
    /\ UNCHANGED <<main, opened, exit, channel, stopped>>

\* Its error is logged and not returned.
AdminFails ==
    /\ Fault
    /\ Step("admin", "idle", "returned")
    /\ UNCHANGED <<main, opened, exit, channel, cancelled, failed, stopped>>

Work(m) == Begin(m) \/ End(m) \/ Stop(m)

ConsumerStep(c) == Subscribe(c) \/ SubscribeFails(c) \/ DeliveryClosed(c)

----------------------------------------------------------------------------
\* The world around it.

Signal ==
    /\ ~stopped /\ main # "exited"
    /\ stopped' = TRUE
    /\ cancelled' = (cancelled \/ main \in {"starting", "waiting", "leaving"})
    /\ UNCHANGED <<main, opened, exit, member, channel, failed, faults>>

\* The connection breaks, with the channels of all consumers, or one channel does.
ChannelsBreak ==
    /\ Fault
    /\ \E broken \in SUBSET {c \in Consumers : channel[c] = "open"} :
        /\ broken # {}
        /\ channel' = [c \in Consumers |-> IF c \in broken THEN "broken" ELSE channel[c]]
    /\ UNCHANGED <<main, opened, exit, member, cancelled, failed, stopped>>

WorkerNext ==
    \/ Run
    \/ main # "exited" /\ \E m \in Members : Work(m)
    \/ main # "exited" /\ \E c \in Consumers : ConsumerStep(c)
    \/ main # "exited" /\ AdminFails
    \/ Signal
    \/ main # "exited" /\ ChannelsBreak

WorkerSpec == Init /\ [][WorkerNext]_workerVars

\* Every goroutine goes on; a handler and a pass of the reconciler end, their calls
\* have deadlines, and a select that keeps finding the context cancelled takes
\* that branch at last.
FairWorkerSpec ==
    /\ WorkerSpec
    /\ WF_workerVars(Run)
    /\ \A m \in Members : WF_workerVars(main # "exited" /\ End(m))
    /\ \A m \in Members : SF_workerVars(main # "exited" /\ Stop(m))
    /\ \A c \in Consumers : WF_workerVars(main # "exited" /\ ConsumerStep(c))

----------------------------------------------------------------------------
\* Properties.

\* Every variable stays in its domain.
WorkerTypeOK ==
    /\ main \in {"opening", "starting", "waiting", "leaving", "exited"}
    /\ opened \in 0..AllOpen
    /\ exit \in {"none", "clean", "failed"}
    /\ member \in [Members -> {"off", "subscribing", "idle", "busy", "returned"}]
    /\ channel \in [Consumers -> {"none", "open", "broken", "closed"}]
    /\ stopped \in BOOLEAN /\ cancelled \in BOOLEAN /\ failed \in BOOLEAN
    /\ faults \in 0..MaxFaults

\* group.Wait: the database and the broker are closed under no handler and no pass
\* of the reconciler, unless the process failed while it was still starting.
NothingRunsWithoutDependencies ==
    opened < AllOpen /\ (\A c \in Consumers : Started(c)) =>
        \/ main = "opening"
        \/ \A m \in Members : member[m] # "busy"

\* "The refusal is deliberately kept from the group: a worker without metrics goes
\* on with the queue".  A worker that was running ends with an error, and at all
\* without a signal, only for the sake of a consumer that lost its channel.
OnlyConsumersEndTheWorker ==
    main \in {"waiting", "leaving", "exited"} /\ (\A c \in Consumers : Started(c))
        /\ ~stopped /\ cancelled
      => failed /\ \E c \in Consumers : member[c] = "returned"

\* Consume: "the error takes the whole errgroup along, the process ends and the
\* orchestrator starts a new one".  A worker never stays up deaf: when a consumer
\* has lost its channel, or a signal has come, the process ends, whatever the other
\* members are doing.
DeafWorkerEnds ==
    (stopped \/ \E c \in Consumers : channel[c] = "broken") ~> main = "exited"
=============================================================================
