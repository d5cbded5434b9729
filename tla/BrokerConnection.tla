-------------------------- MODULE BrokerConnection --------------------------
(* The self-repairing connection to the broker (rabbitmq.Connection).  The   *)
(* main goroutine connects, turns publisher confirms on and, at the end,     *)
(* closes; the keeper goroutine watches the connection and replaces it when  *)
(* it breaks; the network breaks whatever it likes in between.               *)
EXTENDS Naturals

CONSTANTS
    ConnectAttempts,   \* connectAttempts
    MaxFaults          \* bound: broken connections and channels, failed dials and requests

ASSUME AttemptsAssumption == ConnectAttempts \in Nat \ {0}
ASSUME ConnectionBoundsAssumption == MaxFaults \in Nat

VARIABLES
    link,       \* every connection ever dialled
    channel,    \* its service channel: "none", "plain", "confirm" (publisher confirms on), "closed"
    current,    \* c.conn and c.channel
    fresh,      \* the connection open() is working on
    confirms,   \* c.confirms
    closed,     \* c.closed, and c.stop is closed
    keeper,     \* step of Connect's loop, later of watch and reconnect
    watched,    \* the connection whose closure watch waits for
    attempt,    \* attempts of Connect
    main,       \* step of the main goroutine
    doomed,     \* the connection Close has taken to close
    faults      \* faults that have happened

connection == <<link, channel, current, fresh, confirms, closed, keeper, watched,
                attempt, main, doomed, faults>>

\* Every dial but the first follows a fault, so there are enough of these.
Dials == 1..MaxFaults + 1
None == 0

Init ==
    /\ link = [i \in Dials |-> "unused"]
    /\ channel = [i \in Dials |-> "none"]
    /\ current = None
    /\ fresh = None
    /\ confirms = FALSE
    /\ closed = FALSE
    /\ keeper = "dial"
    /\ watched = None
    /\ attempt = 1
    /\ main = "connecting"
    /\ doomed = None
    /\ faults = 0

Fault == faults < MaxFaults /\ faults' = faults + 1

Usable(i) == i \in Dials /\ link[i] = "open" /\ channel[i] \in {"plain", "confirm"}

\* enableConfirms keeps the write lock during its request to the broker.
Locked == main = "confirming"

Keep(from, to) ==
    /\ keeper = from
    /\ keeper' = to

----------------------------------------------------------------------------
\* open, called by Connect and by reconnect.

Dial ==
    /\ Keep("dial", "declare")
    /\ \E i \in Dials :
        /\ link[i] = "unused"
        /\ \A j \in Dials : j < i => link[j] # "unused"
        /\ link' = [link EXCEPT ![i] = "open"]
        /\ fresh' = i
    /\ UNCHANGED <<channel, current, confirms, closed, watched, attempt, main, doomed, faults>>

DialFails ==
    /\ Fault
    /\ Keep("dial", "pause")
    /\ UNCHANGED <<link, channel, current, fresh, confirms, closed, watched, attempt, main, doomed>>

\* The channel is opened and the topology declared on it.
Declare ==
    /\ Keep("declare", "flag")
    /\ link[fresh] = "open"
    /\ channel' = [channel EXCEPT ![fresh] = "plain"]
    /\ UNCHANGED <<link, current, fresh, confirms, closed, watched, attempt, main, doomed, faults>>

\* The flag is read under the lock and used after it.
ReadConfirms ==
    /\ ~Locked
    /\ Keep("flag", IF confirms THEN "confirm" ELSE "install")
    /\ UNCHANGED <<link, channel, current, fresh, confirms, closed, watched, attempt, main, doomed, faults>>

Confirm ==
    /\ Keep("confirm", "install")
    /\ Usable(fresh)
    /\ channel' = [channel EXCEPT ![fresh] = "confirm"]
    /\ UNCHANGED <<link, current, fresh, confirms, closed, watched, attempt, main, doomed, faults>>

\* Wrong on purpose: a closed connection is kept for the next attempt.
KeepFresh ==
    /\ link' = [link EXCEPT ![fresh] = "closed"]
    /\ UNCHANGED fresh

CloseFresh ==
    /\ link' = [link EXCEPT ![fresh] = "closed"]
    /\ fresh' = None

\* A request of open fails: the connection broke or the broker refused.
OpenFails ==
    /\ \/ Keep("declare", "pause") /\ link[fresh] = "closed" /\ UNCHANGED faults
       \/ Keep("confirm", "pause") /\ ~Usable(fresh) /\ UNCHANGED faults
       \/ Fault /\ \E from \in {"declare", "confirm"} : Keep(from, "pause")
    /\ CloseFresh
    /\ UNCHANGED <<channel, current, confirms, closed, watched, attempt, main, doomed>>

Open == Dial \/ DialFails \/ Declare \/ ReadConfirms \/ Confirm \/ OpenFails

----------------------------------------------------------------------------
\* Connect.

Connected ==
    /\ main = "connecting"
    /\ Keep("install", "watch")
    /\ current' = fresh
    /\ fresh' = None
    /\ main' = "connected"
    /\ UNCHANGED <<link, channel, confirms, closed, watched, attempt, doomed, faults>>

ConnectAgain ==
    /\ main = "connecting"
    /\ attempt < ConnectAttempts
    /\ Keep("pause", "dial")
    /\ attempt' = attempt + 1
    /\ UNCHANGED <<link, channel, current, fresh, confirms, closed, watched, main, doomed, faults>>

\* The attempts are used up, or the context was cancelled meanwhile.
ConnectGivesUp ==
    /\ main = "connecting"
    /\ Keep("pause", "done")
    /\ main' = "gaveUp"
    /\ UNCHANGED <<link, channel, current, fresh, confirms, closed, watched, attempt, doomed, faults>>

----------------------------------------------------------------------------
\* watch and reconnect.

Watch ==
    /\ ~Locked
    /\ Keep("watch", "waiting")
    /\ watched' = current
    /\ UNCHANGED <<link, channel, current, fresh, confirms, closed, attempt, main, doomed, faults>>

\* NotifyClose also answers for a connection that was closed before the call.
Broken ==
    /\ Keep("waiting", IF closed THEN "done" ELSE "pause")
    /\ link[watched] = "closed"
    /\ UNCHANGED <<link, channel, current, fresh, confirms, closed, watched, attempt, main, doomed, faults>>

\* Wrong on purpose: a stop is only noticed between two attempts.
StoppedInPause ==
    /\ closed
    /\ Keep("pause", "done")
    /\ UNCHANGED <<link, channel, current, fresh, confirms, closed, watched, attempt, main, doomed, faults>>

Stopped ==
    /\ closed
    /\ \E from \in {"waiting", "pause"} : Keep(from, "done")
    /\ UNCHANGED <<link, channel, current, fresh, confirms, closed, watched, attempt, main, doomed, faults>>

\* Wrong on purpose: reconnect has as many attempts as Connect.
ReconnectCounting ==
    /\ main # "connecting"
    /\ Keep("pause", IF attempt < ConnectAttempts THEN "dial" ELSE "done")
    /\ attempt' = attempt + 1
    /\ UNCHANGED <<link, channel, current, fresh, confirms, closed, watched, main, doomed, faults>>

\* The delay is over; a stop at the same moment may go unnoticed until later.
ReconnectAgain ==
    /\ main # "connecting"
    /\ Keep("pause", "dial")
    /\ UNCHANGED <<link, channel, current, fresh, confirms, closed, watched, attempt, main, doomed, faults>>

\* Wrong on purpose: a Close that came during the dial is overlooked.
InstallAnyway ==
    /\ main # "connecting"
    /\ ~Locked
    /\ Keep("install", "watch")
    /\ current' = fresh
    /\ fresh' = None
    /\ UNCHANGED <<link, channel, confirms, closed, watched, attempt, main, doomed, faults>>

Install ==
    /\ main # "connecting"
    /\ ~Locked
    /\ ~closed
    /\ Keep("install", "watch")
    /\ current' = fresh
    /\ fresh' = None
    /\ UNCHANGED <<link, channel, confirms, closed, watched, attempt, main, doomed, faults>>

\* Closed meanwhile: the new connection is closed again.
Discard ==
    /\ closed
    /\ Keep("install", "done")
    /\ CloseFresh
    /\ UNCHANGED <<channel, current, confirms, closed, watched, attempt, main, doomed, faults>>

Keeper ==
    \/ Open \/ Connected \/ ConnectAgain
    \/ Watch \/ Broken \/ Stopped \/ ReconnectAgain \/ Install \/ Discard

----------------------------------------------------------------------------
\* enableConfirms, called by NewPublisher right after Connect; its error ends run().

EnableConfirms ==
    /\ main = "connected"
    /\ main' = "confirming"
    /\ confirms' = TRUE
    /\ UNCHANGED <<link, channel, current, fresh, closed, keeper, watched, attempt, doomed, faults>>

ConfirmsEnabled ==
    /\ main = "confirming"
    /\ Usable(current)
    /\ main' = "running"
    /\ channel' = [channel EXCEPT ![current] = "confirm"]
    /\ UNCHANGED <<link, current, fresh, confirms, closed, keeper, watched, attempt, doomed, faults>>

\* Wrong on purpose: the setting is remembered, so its error does not matter.
ConfirmsPostponed ==
    /\ main = "confirming"
    /\ main' = "running"
    /\ ~Usable(current)
    /\ UNCHANGED <<link, channel, current, fresh, confirms, closed, keeper, watched, attempt, doomed, faults>>

ConfirmsRefused ==
    /\ main = "confirming"
    /\ main' = "failing"
    /\ \/ Fault
       \/ ~Usable(current) /\ UNCHANGED faults
    /\ UNCHANGED <<link, channel, current, fresh, confirms, closed, keeper, watched, attempt, doomed>>

----------------------------------------------------------------------------
\* Close, deferred by run(): it waits for the keeper.

Close ==
    /\ main \in {"running", "failing"}
    /\ main' = "stopping"
    /\ closed' = TRUE
    /\ doomed' = current
    /\ UNCHANGED <<link, channel, current, fresh, confirms, keeper, watched, attempt, faults>>

FinishClose ==
    /\ main = "stopping"
    /\ keeper = "done"
    /\ main' = "returned"
    /\ link' = [link EXCEPT ![doomed] = "closed"]
    /\ UNCHANGED <<channel, current, fresh, confirms, closed, keeper, watched, attempt, doomed, faults>>

Main == EnableConfirms \/ ConfirmsEnabled \/ ConfirmsRefused \/ FinishClose

----------------------------------------------------------------------------
\* The network and the broker.

LinkBreaks(i) ==
    /\ Fault
    /\ link[i] = "open"
    /\ link' = [link EXCEPT ![i] = "closed"]
    /\ UNCHANGED <<channel, current, fresh, confirms, closed, keeper, watched, attempt, main, doomed>>

\* A channel exception: the connection stays.
ChannelBreaks(i) ==
    /\ Fault
    /\ Usable(i)
    /\ channel' = [channel EXCEPT ![i] = "closed"]
    /\ UNCHANGED <<link, current, fresh, confirms, closed, keeper, watched, attempt, main, doomed>>

ConnectionNext ==
    \/ Keeper \/ ConnectGivesUp \/ Main \/ Close
    \/ \E i \in Dials : LinkBreaks(i) \/ ChannelBreaks(i)

ConnectionSpec == Init /\ [][ConnectionNext]_connection

----------------------------------------------------------------------------
\* Properties.

KeeperSteps == {"dial", "declare", "flag", "confirm", "install", "pause", "watch",
                "waiting", "done"}
MainSteps == {"connecting", "gaveUp", "connected", "confirming", "running", "failing",
              "stopping", "returned"}

\* Every variable stays in its domain, and the steps that use a connection have one.
ConnectionTypeOK ==
    /\ link \in [Dials -> {"unused", "open", "closed"}]
    /\ channel \in [Dials -> {"none", "plain", "confirm", "closed"}]
    /\ current \in Dials \cup {None}
    /\ fresh \in Dials \cup {None}
    /\ confirms \in BOOLEAN
    /\ closed \in BOOLEAN
    /\ keeper \in KeeperSteps
    /\ watched \in Dials \cup {None}
    /\ attempt \in 1..ConnectAttempts
    /\ main \in MainSteps
    /\ doomed \in Dials \cup {None}
    /\ faults \in 0..MaxFaults
    /\ fresh # None <=> keeper \in {"declare", "flag", "confirm", "install"}
    /\ current = None <=> main \in {"connecting", "gaveUp"}

\* However a stop, a failed request and a reconnection overlap, no connection
\* outlives Connect's failure or Close's return.
NoConnectionLeaks ==
    main \in {"gaveUp", "returned"} => \A i \in Dials : link[i] # "open"

\* Once NewPublisher has succeeded, a service channel that works is in confirm
\* mode, on the first connection and on every later one: the flag that open
\* read may be out of date, but then enableConfirms has failed.
WorkingChannelConfirms ==
    main = "running" /\ Usable(current) => channel[current] = "confirm"

\* A broken connection is replaced, unless it is closed on purpose.
BrokenLinkIsReplaced ==
    main = "running" /\ link[current] = "closed" ~> main # "running" \/ link[current] = "open"

\* Close returns, wherever the keeper is when it is called.
CloseReturns == main = "stopping" ~> main = "returned"
=============================================================================
