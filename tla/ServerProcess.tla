--------------------------- MODULE ServerProcess ---------------------------
(* The life of one server process: run() of cmd/server opens the              *)
(* dependencies, serves the API on one port and the probes on another, and    *)
(* leaves on a signal or when a listener fails.  Around it are the requests   *)
(* under way, a kubelet that asks for readiness, and the balancer that        *)
(* follows its answers.                                                       *)
EXTENDS Naturals

CONSTANTS
    Requests,         \* requests clients may send to this process
    DrainDelay,       \* is APP_DRAIN_DELAY positive?
    DelayCoversProbe, \* is it longer than it takes to notice a failed readiness?
    MaxSignals,       \* bound: signals the process gets
    MaxFaults         \* bound: failures of dependencies and listeners

ASSUME BoundsAssumption == MaxSignals \in Nat /\ MaxFaults \in Nat
ASSUME DelayAssumption == DrainDelay \in BOOLEAN /\ DelayCoversProbe \in BOOLEAN

VARIABLES
    main,        \* step of run()
    opened,      \* how many of the dependencies are open, in the order of run()
    exit,        \* how run() ends
    api,         \* the public listener
    admin,       \* the listener of the probes
    trapped,     \* does signal.NotifyContext catch signals?
    asked,       \* the context it cancels is cancelled
    draining,    \* HealthHandler.draining
    probe,       \* the readiness probe under way
    routed,      \* the balancer sends requests here
    request,     \* progress of each request
    signals,     \* signals so far
    faults       \* faults so far

process == <<main, opened, exit, api, admin, trapped, asked, draining>>
health == <<probe, routed>>
counts == <<signals, faults>>
serverVars == <<process, health, request, counts>>

\* Tracing, the pool of the database, the connection to the broker.
AllOpen == 3

Init ==
    /\ main = "opening" /\ opened = 0 /\ exit = "none"
    /\ api = "off" /\ admin = "off"
    /\ trapped = TRUE /\ asked = FALSE /\ draining = FALSE
    /\ probe = "none" /\ routed = FALSE
    /\ request = [r \in Requests |-> "none"]
    /\ signals = 0 /\ faults = 0

Fault == faults < MaxFaults /\ faults' = faults + 1

Live == {r \in Requests : request[r] = "active"}

----------------------------------------------------------------------------
\* run().

OpenDependency ==
    /\ main = "opening" /\ opened < AllOpen
    /\ opened' = opened + 1
    /\ UNCHANGED <<main, exit, api, admin, trapped, asked, draining, health, request, counts>>

\* Also when a signal cancels the context the dependency is opened under, or when
\* something that needs an open dependency fails: migrations, confirms, metrics.
OpenFails ==
    /\ main = "opening"
    /\ \/ asked /\ UNCHANGED faults
       \/ Fault
    /\ main' = "leaving" /\ exit' = "failed"
    /\ UNCHANGED <<opened, api, admin, trapped, asked, draining, health, request, signals>>

\* Two goroutines are started and run() waits.
Serve ==
    /\ main = "opening" /\ opened = AllOpen
    /\ main' = "serving" /\ api' = "starting" /\ admin' = "starting"
    /\ UNCHANGED <<opened, exit, trapped, asked, draining, health, request, counts>>

AdminListens ==
    /\ admin = "starting" /\ main # "exited"
    /\ admin' = "open"
    /\ UNCHANGED <<main, opened, exit, api, trapped, asked, draining, health, request, counts>>

ApiListens ==
    /\ api = "starting" /\ main # "exited"
    /\ api' = "open"
    /\ UNCHANGED <<main, opened, exit, admin, trapped, asked, draining, health, request, counts>>

\* A port is taken, or accepting fails later.
ListenerFails ==
    /\ Fault
    /\ main # "exited"
    /\ \/ api \in {"starting", "open"} /\ api' = "failed" /\ UNCHANGED admin
       \/ admin \in {"starting", "open"} /\ admin' = "failed" /\ UNCHANGED api
    /\ UNCHANGED <<main, opened, exit, trapped, asked, draining, health, request, signals>>

\* The select: run() returns at once, with requests under way and perhaps the
\* other listener still accepting.
LeaveForListener ==
    /\ main = "serving" /\ "failed" \in {api, admin}
    /\ main' = "leaving" /\ exit' = "failed"
    /\ UNCHANGED <<opened, api, admin, trapped, asked, draining, health, request, counts>>

\* stop(): from here to the pause nothing catches a second signal.
SeeSignal ==
    /\ main = "serving" /\ asked
    /\ main' = "stopping" /\ trapped' = FALSE /\ asked' = FALSE
    /\ UNCHANGED <<opened, exit, api, admin, draining, health, request, counts>>

\* Wrong on purpose: the listener is closed before the balancer was told.
DrainAfterClosing ==
    /\ main = "stopping"
    /\ draining' = TRUE
    /\ api' = "closed"
    /\ IF DrainDelay THEN main' = "pausing" /\ trapped' = TRUE
                     ELSE main' = "closing" /\ UNCHANGED trapped
    /\ UNCHANGED <<opened, exit, admin, asked, health, request, counts>>

Drain ==
    /\ main = "stopping"
    /\ draining' = TRUE
    /\ IF DrainDelay THEN main' = "pausing" /\ trapped' = TRUE
                     ELSE main' = "closing" /\ UNCHANGED trapped
    /\ UNCHANGED <<opened, exit, api, admin, asked, health, request, counts>>

\* waitDrain: the pause is over, which the balancer has used if it is long enough
\* for that, or a second signal cuts it short.
PauseEnds ==
    /\ main = "pausing"
    /\ asked \/ (DelayCoversProbe => ~routed /\ probe = "none")
    /\ main' = "closing" /\ trapped' = FALSE /\ asked' = FALSE
    /\ UNCHANGED <<opened, exit, api, admin, draining, health, request, counts>>

\* Server.Shutdown closes the listener, or keeps it from opening, and waits.
CloseApi ==
    /\ main = "closing"
    /\ api' = IF api = "failed" THEN "failed" ELSE "closed"
    /\ main' = "waiting"
    /\ UNCHANGED <<opened, exit, admin, trapped, asked, draining, health, request, counts>>

\* Wrong on purpose: Close instead of Shutdown.
AllAnsweredOrNot ==
    /\ main = "waiting"
    /\ main' = "leaving" /\ exit' = "clean"
    /\ admin' = IF admin = "failed" THEN "failed" ELSE "closed"
    /\ UNCHANGED <<opened, api, trapped, asked, draining, health, request, counts>>

AllAnswered ==
    /\ main = "waiting" /\ Live = {}
    /\ main' = "leaving" /\ exit' = "clean"
    /\ admin' = IF admin = "failed" THEN "failed" ELSE "closed"
    /\ UNCHANGED <<opened, api, trapped, asked, draining, health, request, counts>>

\* Wrong on purpose: only another signal, which nothing catches, ends the wait.
ShutdownAwaitsSignal ==
    /\ main = "waiting" /\ Live # {} /\ asked
    /\ main' = "leaving" /\ exit' = "failed"
    /\ UNCHANGED <<opened, api, admin, trapped, asked, draining, health, request, counts>>

\* APP_SHUTDOWN_TIMEOUT.
ShutdownTimesOut ==
    /\ main = "waiting" /\ Live # {}
    /\ main' = "leaving" /\ exit' = "failed"
    /\ UNCHANGED <<opened, api, admin, trapped, asked, draining, health, request, counts>>

\* The deferred calls: stopAdmin, then the dependencies in reverse.
CloseAdmin ==
    /\ main = "leaving" /\ admin \in {"starting", "open"}
    /\ admin' = "closed"
    /\ UNCHANGED <<main, opened, exit, api, trapped, asked, draining, health, request, counts>>

\* Wrong on purpose: what was never opened is closed as well.
CloseDependencyAgain ==
    /\ main = "leaving" /\ admin \notin {"starting", "open"}
    /\ opened' = opened - 1
    /\ UNCHANGED <<main, exit, api, admin, trapped, asked, draining, health, request, counts>>

CloseDependency ==
    /\ main = "leaving" /\ admin \notin {"starting", "open"} /\ opened > 0
    /\ opened' = opened - 1
    /\ UNCHANGED <<main, exit, api, admin, trapped, asked, draining, health, request, counts>>

\* The process is gone, and with it whatever it had under way.
Gone ==
    /\ main' = "exited"
    /\ api' = IF api = "failed" THEN "failed" ELSE "closed"
    /\ admin' = IF admin = "failed" THEN "failed" ELSE "closed"
    /\ probe' = "none"
    /\ request' = [r \in Requests |-> IF r \in Live THEN "cut" ELSE request[r]]

Exit ==
    /\ main = "leaving" /\ admin \notin {"starting", "open"} /\ opened = 0
    /\ Gone
    /\ UNCHANGED <<opened, exit, trapped, asked, draining, routed, counts>>

Run ==
    \/ OpenDependency \/ OpenFails \/ Serve
    \/ LeaveForListener \/ SeeSignal \/ Drain \/ PauseEnds
    \/ CloseApi \/ AllAnswered \/ ShutdownTimesOut
    \/ CloseAdmin \/ CloseDependency \/ Exit

----------------------------------------------------------------------------
\* The world around it.

\* SIGTERM or Ctrl+C: caught, or the end of the process.
Signal ==
    /\ main # "exited" /\ signals < MaxSignals
    /\ signals' = signals + 1
    /\ \/ /\ trapped
          /\ asked' = TRUE
          /\ UNCHANGED <<main, exit, api, admin, probe, request>>
       \/ /\ ~trapped
          /\ exit' = "killed"
          /\ Gone
          /\ UNCHANGED asked
    /\ UNCHANGED <<opened, trapped, draining, routed, faults>>

\* Ready looks at the draining flag first and asks the dependencies afterwards;
\* probes follow one another.
Probe ==
    /\ admin = "open" /\ probe = "none"
    /\ IF draining THEN routed' = FALSE /\ UNCHANGED probe
                   ELSE probe' = "asking" /\ UNCHANGED routed
    /\ UNCHANGED <<process, request, counts>>

\* 200 if every dependency answers; a listener that is closed lets it finish.
ProbeSucceeds ==
    /\ probe = "asking" /\ opened = AllOpen
    /\ probe' = "none" /\ routed' = TRUE
    /\ UNCHANGED <<process, request, counts>>

\* A dependency is down or closed, or nobody listens.
ProbeFails ==
    /\ \/ probe = "asking" /\ opened < AllOpen /\ UNCHANGED faults
       \/ probe = "asking" /\ Fault
       \/ probe = "none" /\ routed /\ admin \in {"closed", "failed"} /\ UNCHANGED faults
    /\ probe' = "none" /\ routed' = FALSE
    /\ UNCHANGED <<process, request, signals>>

\* A request routed here is accepted, or turned away by a port nobody listens on:
\* not yet, which readiness does not look at, or not any more.
Arrive(r) ==
    /\ routed /\ request[r] = "none"
    /\ request' = [request EXCEPT ![r] =
         CASE api = "open" -> "active"
           [] api \in {"off", "starting"} -> "early"
           [] OTHER -> "refused"]
    /\ UNCHANGED <<process, health, counts>>

\* A handler finishes; without its dependencies all it has is an error.
Answer(r) ==
    /\ request[r] = "active"
    /\ request' = [request EXCEPT ![r] = IF opened = AllOpen THEN "answered" ELSE "orphaned"]
    /\ UNCHANGED <<process, health, counts>>

ServerNext ==
    \/ Run \/ AdminListens \/ ApiListens \/ ListenerFails
    \/ Signal
    \/ Probe \/ ProbeSucceeds \/ ProbeFails
    \/ \E r \in Requests : Arrive(r) \/ Answer(r)

ServerSpec == Init /\ [][ServerNext]_serverVars

\* The goroutine of run() goes on, its timers fire, the kubelet keeps asking and a
\* probe has a deadline.  A handler owes nobody an end.
FairServerSpec ==
    /\ ServerSpec
    /\ WF_serverVars(Run)
    /\ WF_serverVars(Probe)
    /\ WF_serverVars(ProbeSucceeds \/ ProbeFails)

----------------------------------------------------------------------------
\* Properties.

Steps == {"opening", "serving", "stopping", "pausing", "closing", "waiting", "leaving", "exited"}

Listeners == {"off", "starting", "open", "failed", "closed"}

\* Every variable stays in its domain.
ServerTypeOK ==
    /\ main \in Steps
    /\ opened \in 0..AllOpen
    /\ exit \in {"none", "clean", "failed", "killed"}
    /\ api \in Listeners /\ admin \in Listeners
    /\ trapped \in BOOLEAN /\ asked \in BOOLEAN /\ draining \in BOOLEAN /\ routed \in BOOLEAN
    /\ probe \in {"none", "asking"}
    /\ request \in [Requests -> {"none", "active", "answered", "orphaned", "early", "refused", "cut"}]
    /\ signals \in 0..MaxSignals /\ faults \in 0..MaxFaults

\* openapi.yaml, /readyz: "this closes the window in which the pod is already
\* finishing but the balancer still sends requests to it".  If the delay covers the
\* detection, no request meets a closed port, unless a second signal cut the pause
\* short or a listener had failed: not in the pause, not while the requests are
\* waited for, not after the exit, however late a probe answers.
NobodyTurnedAwayWhileDraining ==
    \A r \in Requests :
        request[r] = "refused" => signals > 1 \/ "failed" \in {api, admin}

\* A stop that ends without an error has answered every request it accepted, with
\* the database and the broker still open: run() closes the dependencies after
\* Shutdown, never under a handler.
CleanStopAnswersEverything ==
    exit = "clean" => \A r \in Requests : request[r] \notin {"active", "orphaned", "cut"}

\* Whatever is under way, a signal or the loss of a listener ends the process:
\* handlers that never finish, a pause, probes and a second signal cannot keep it.
StopsWhenItMust ==
    (signals > 0 \/ "failed" \in {api, admin}) ~> main = "exited"
=============================================================================
