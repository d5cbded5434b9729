------------------------ MODULE ServerProcessProofs ------------------------
(* What holds of ServerProcess for any number of requests, signals and        *)
(* faults: a stop that ends without an error has answered everything.         *)
EXTENDS ServerProcess, TLAPS

\* run() and its listeners before and after the part that serves.
BeforeServing == main = "opening" => api = "off" /\ exit = "none"

\* Nothing is closed as long as run() has not begun to leave.
OpenWhileServing == main \notin {"opening", "leaving", "exited"} => opened = AllOpen

\* While the requests are waited for, no more are accepted.
NothingAcceptedWhileWaiting == main = "waiting" => api \in {"closed", "failed"}

\* A request is accepted by an open listener only.
NothingBeforeListening ==
    api = "off" => \A r \in Requests : request[r] \notin {"active", "orphaned", "cut"}

\* No handler loses its dependencies before run() leaves.
NothingOrphanedWhileServing ==
    main \notin {"leaving", "exited"} => \A r \in Requests : request[r] \notin {"orphaned", "cut"}

EndIsLast == exit = "clean" => main \in {"leaving", "exited"} /\ api \in {"closed", "failed"}

IInv ==
    /\ ServerTypeOK
    /\ BeforeServing
    /\ OpenWhileServing
    /\ NothingAcceptedWhileWaiting
    /\ NothingBeforeListening
    /\ NothingOrphanedWhileServing
    /\ EndIsLast
    /\ CleanStopAnswersEverything

LEMMA InitIsCorrect == Init => IInv
<1> SUFFICES ASSUME Init PROVE IInv
  OBVIOUS
<1>1. ServerTypeOK
  <2>1. request \in [Requests -> {"none", "active", "answered", "orphaned", "early", "refused", "cut"}]
    BY DEF Init
  <2>2. trapped \in BOOLEAN /\ asked \in BOOLEAN /\ draining \in BOOLEAN /\ routed \in BOOLEAN
    BY DEF Init
  <2> QED
    BY <2>1, <2>2, BoundsAssumption DEF Init, ServerTypeOK, Steps, Listeners, AllOpen
<1>2. BeforeServing /\ OpenWhileServing /\ NothingAcceptedWhileWaiting /\ EndIsLast
  BY DEF Init, BeforeServing, OpenWhileServing, NothingAcceptedWhileWaiting, EndIsLast
<1>3. NothingBeforeListening /\ NothingOrphanedWhileServing /\ CleanStopAnswersEverything
  BY DEF Init, NothingBeforeListening, NothingOrphanedWhileServing, CleanStopAnswersEverything
<1> QED
  BY <1>1, <1>2, <1>3 DEF IInv

\* The steps of run() keep the invariant, and the one that matters is AllAnswered.
LEMMA RunIsCorrect == IInv /\ Run => IInv'
<1> SUFFICES ASSUME IInv, Run PROVE IInv'
  OBVIOUS
<1> USE BoundsAssumption
        DEF IInv, ServerTypeOK, Steps, Listeners, AllOpen, BeforeServing, OpenWhileServing,
            NothingAcceptedWhileWaiting, NothingBeforeListening, NothingOrphanedWhileServing,
            EndIsLast, CleanStopAnswersEverything, health, counts
<1>1. CASE OpenDependency
  BY <1>1 DEF OpenDependency
<1>2. CASE OpenFails
  BY <1>2 DEF OpenFails, Fault
<1>3. CASE Serve
  BY <1>3 DEF Serve
<1>4. CASE LeaveForListener
  BY <1>4 DEF LeaveForListener
<1>5. CASE SeeSignal
  BY <1>5 DEF SeeSignal
<1>6. CASE Drain
  BY <1>6 DEF Drain
<1>7. CASE PauseEnds
  BY <1>7 DEF PauseEnds
<1>8. CASE CloseApi
  BY <1>8 DEF CloseApi
<1>9. CASE AllAnswered
  BY <1>9 DEF AllAnswered, Live
<1>10. CASE ShutdownTimesOut
  BY <1>10 DEF ShutdownTimesOut
<1>11. CASE CloseAdmin
  BY <1>11 DEF CloseAdmin
<1>12. CASE CloseDependency
  BY <1>12 DEF CloseDependency
<1>13. CASE Exit
  BY <1>13 DEF Exit, Gone, Live
<1> QED
  BY <1>1, <1>2, <1>3, <1>4, <1>5, <1>6, <1>7, <1>8, <1>9, <1>10, <1>11, <1>12, <1>13 DEF Run

\* So do the listeners, the signals, the probes, the requests and the handlers.
LEMMA WorldIsCorrect ==
  IInv /\ ServerNext /\ ~Run => IInv'
<1> SUFFICES ASSUME IInv, ServerNext, ~Run PROVE IInv'
  OBVIOUS
<1> USE BoundsAssumption
        DEF IInv, ServerTypeOK, Steps, Listeners, AllOpen, BeforeServing, OpenWhileServing,
            NothingAcceptedWhileWaiting, NothingBeforeListening, NothingOrphanedWhileServing,
            EndIsLast, CleanStopAnswersEverything, process, health, counts
<1>1. CASE AdminListens
  BY <1>1 DEF AdminListens
<1>2. CASE ApiListens
  BY <1>2 DEF ApiListens
<1>3. CASE ListenerFails
  BY <1>3 DEF ListenerFails, Fault
<1>4. CASE Signal
  <2>1. CASE trapped
    BY <2>1, <1>4 DEF Signal
  <2>2. CASE ~trapped
    BY <2>2, <1>4 DEF Signal, Gone, Live
  <2> QED
    BY <2>1, <2>2
<1>5. CASE Probe
  BY <1>5 DEF Probe
<1>6. CASE ProbeSucceeds
  BY <1>6 DEF ProbeSucceeds
<1>7. CASE ProbeFails
  <2>1. routed' = FALSE /\ probe' = "none" /\ UNCHANGED <<process, request, signals>>
    BY <1>7 DEF ProbeFails
  <2>2. faults' \in 0..MaxFaults
    BY <1>7 DEF ProbeFails, Fault
  <2>3. routed' \in BOOLEAN
    BY <2>1
  <2>4. request' = request /\ main' = main /\ opened' = opened /\ exit' = exit /\ api' = api
        /\ admin' = admin /\ signals' = signals
    BY <2>1
  <2>5. trapped' \in BOOLEAN /\ asked' \in BOOLEAN /\ draining' \in BOOLEAN
    BY <2>1
  <2> QED
    BY <2>1, <2>2, <2>3, <2>4, <2>5
<1>8. ASSUME NEW r \in Requests, Arrive(r) PROVE IInv'
  BY <1>8 DEF Arrive
<1>9. ASSUME NEW r \in Requests, Answer(r) PROVE IInv'
  BY <1>9 DEF Answer
<1> QED
  BY <1>1, <1>2, <1>3, <1>4, <1>5, <1>6, <1>7, <1>8, <1>9 DEF ServerNext

LEMMA StepIsCorrect == IInv /\ [ServerNext]_serverVars => IInv'
<1>1. ASSUME IInv, UNCHANGED serverVars PROVE IInv'
  BY <1>1
     DEF serverVars, process, health, counts, IInv, ServerTypeOK, BeforeServing,
         OpenWhileServing, NothingAcceptedWhileWaiting, NothingBeforeListening,
         NothingOrphanedWhileServing, EndIsLast, CleanStopAnswersEverything
<1> QED
  BY <1>1, RunIsCorrect, WorldIsCorrect

LEMMA AlwaysCorrect == ServerSpec => []IInv
  BY InitIsCorrect, StepIsCorrect, PTL DEF ServerSpec

\* Every variable of the server process stays in its domain.
THEOREM ServerTypeCorrect == ServerSpec => []ServerTypeOK
<1>1. IInv => ServerTypeOK
  BY DEF IInv
<1> QED
  BY <1>1, AlwaysCorrect, PTL

\* run() closes the database and the broker under no handler, and answers every
\* request it accepted, whenever it ends without an error.
THEOREM CleanStopIsClean == ServerSpec => []CleanStopAnswersEverything
<1>1. IInv => CleanStopAnswersEverything
  BY DEF IInv
<1> QED
  BY <1>1, AlwaysCorrect, PTL

----------------------------------------------------------------------------
\* The drain.

\* A second signal, or a listener that failed.
Excused == signals > 1 \/ "failed" \in {api, admin}

\* The balancer sends nothing, and no probe can change its mind.
Quiet == ~routed /\ probe = "none" /\ (draining \/ admin \in {"off", "closed"})

\* How far the first signal has got.
SignalsCounted ==
    /\ asked \/ ~trapped => signals >= 1
    /\ main \in {"stopping", "pausing", "closing", "waiting"}
         => signals >= 1 /\ (asked => signals > 1)
    /\ main \in {"pausing", "closing", "waiting"} => draining

\* Nobody knows of the process before it serves, and its port closes when it stops.
PortsAgree ==
    /\ main = "opening" => api = "off" /\ admin = "off" /\ ~routed /\ probe = "none"
    /\ api = "closed" => main \in {"waiting", "leaving", "exited"}

QuietBehindThePause ==
    main \in {"closing", "waiting", "leaving", "exited"} => Excused \/ Quiet

DrainInv ==
    /\ SignalsCounted
    /\ PortsAgree
    /\ QuietBehindThePause
    /\ NobodyTurnedAwayWhileDraining

LEMMA DrainInitially == Init => DrainInv
BY DEF Init, DrainInv, SignalsCounted, PortsAgree, QuietBehindThePause, NobodyTurnedAwayWhileDraining

LEMMA RunDrains ==
    ASSUME DrainDelay, DelayCoversProbe, ServerTypeOK, DrainInv, Run
    PROVE  DrainInv'
<1> USE BoundsAssumption
        DEF ServerTypeOK, Steps, Listeners, DrainInv, SignalsCounted, PortsAgree, QuietBehindThePause,
            NobodyTurnedAwayWhileDraining, Excused, Quiet, health, counts
<1>1. CASE OpenDependency
  BY <1>1 DEF OpenDependency
<1>2. CASE OpenFails
  BY <1>2 DEF OpenFails
<1>3. CASE Serve
  BY <1>3 DEF Serve
<1>4. CASE LeaveForListener
  BY <1>4 DEF LeaveForListener
<1>5. CASE SeeSignal
  BY <1>5 DEF SeeSignal
<1>6. CASE Drain
  BY <1>6 DEF Drain
<1>7. CASE PauseEnds
  BY <1>7 DEF PauseEnds
<1>8. CASE CloseApi
  BY <1>8 DEF CloseApi
<1>9. CASE AllAnswered
  BY <1>9 DEF AllAnswered
<1>10. CASE ShutdownTimesOut
  BY <1>10 DEF ShutdownTimesOut
<1>11. CASE CloseAdmin
  BY <1>11 DEF CloseAdmin
<1>12. CASE CloseDependency
  BY <1>12 DEF CloseDependency
<1>13. CASE Exit
  BY <1>13 DEF Exit, Gone, Live
<1> QED
  BY <1>1, <1>2, <1>3, <1>4, <1>5, <1>6, <1>7, <1>8, <1>9, <1>10, <1>11, <1>12, <1>13 DEF Run

LEMMA WorldDrains ==
    ASSUME ServerTypeOK, DrainInv, ServerNext, ~Run
    PROVE  DrainInv'
<1> USE BoundsAssumption
        DEF ServerTypeOK, Steps, Listeners, DrainInv, SignalsCounted, PortsAgree, QuietBehindThePause,
            NobodyTurnedAwayWhileDraining, Excused, Quiet, process, health, counts
<1>1. CASE AdminListens
  BY <1>1 DEF AdminListens
<1>2. CASE ApiListens
  BY <1>2 DEF ApiListens
<1>3. CASE ListenerFails
  BY <1>3 DEF ListenerFails
<1>4. CASE Signal
  <2>1. CASE trapped
    BY <2>1, <1>4 DEF Signal
  <2>2. CASE ~trapped
    BY <2>2, <1>4 DEF Signal, Gone, Live
  <2> QED
    BY <2>1, <2>2
<1>5. CASE Probe
  BY <1>5 DEF Probe
<1>6. CASE ProbeSucceeds
  BY <1>6 DEF ProbeSucceeds
<1>7. CASE ProbeFails
  BY <1>7 DEF ProbeFails
<1>8. ASSUME NEW r \in Requests, Arrive(r) PROVE DrainInv'
  BY <1>8 DEF Arrive
<1>9. ASSUME NEW r \in Requests, Answer(r) PROVE DrainInv'
  BY <1>9 DEF Answer
<1> QED
  BY <1>1, <1>2, <1>3, <1>4, <1>5, <1>6, <1>7, <1>8, <1>9 DEF ServerNext

\* With a drain delay that covers the detection of a failed readiness, no request the
\* balancer sends meets a closed port, but for a second signal or a lost listener.
THEOREM DrainTurnsNobodyAway ==
    ASSUME DrainDelay, DelayCoversProbe
    PROVE  ServerSpec => []NobodyTurnedAwayWhileDraining
<1>1. DrainInv /\ UNCHANGED serverVars => DrainInv'
  BY DEF serverVars, process, health, counts, DrainInv, SignalsCounted, PortsAgree, QuietBehindThePause,
         NobodyTurnedAwayWhileDraining, Excused, Quiet
<1>2. IInv /\ DrainInv /\ [ServerNext]_serverVars => DrainInv'
  BY <1>1, RunDrains, WorldDrains DEF IInv
<1>3. DrainInv => NobodyTurnedAwayWhileDraining
  BY DEF DrainInv
<1> QED
  BY <1>2, <1>3, DrainInitially, AlwaysCorrect, PTL DEF ServerSpec
=============================================================================
