------------------------------ MODULE Publisher ------------------------------
(* Confirmed publication (rabbitmq.Publisher) over the self-repairing         *)
(* connection: goroutines take turns under the publisher's mutex, each with   *)
(* the channel that is current when it gets there.                            *)
EXTENDS BrokerConnection

CONSTANTS
    Events,    \* publications, each by a goroutine of its own
    NoEvent    \* owner of the free mutex

ASSUME NoEventAssumption == NoEvent \notin Events

VARIABLES
    step,       \* step of each publication
    via,        \* channel it has fetched
    mutex,      \* who holds p.mu
    inFlight,   \* messages written and not yet taken by the broker
    stored      \* messages the broker has taken

publications == <<step, via, mutex, inFlight, stored>>
allVars == <<connection, publications>>

PublisherInit ==
    /\ Init
    /\ step = [e \in Events |-> "idle"]
    /\ via = [e \in Events |-> None]
    /\ mutex = NoEvent
    /\ inFlight = {}
    /\ stored = {}

Move(e, from, to) ==
    /\ step[e] = from
    /\ step' = [step EXCEPT ![e] = to]

\* Publications begin while the process runs; a Close may overtake them.
Call(e) ==
    /\ main = "running"
    /\ Move(e, "idle", "locking")
    /\ UNCHANGED <<via, mutex, inFlight, stored>>

Acquire(e) ==
    /\ mutex = NoEvent
    /\ Move(e, "locking", "fetch")
    /\ mutex' = e
    /\ UNCHANGED <<via, inFlight, stored>>

\* publishChannel: the connection may be replaced right afterwards.
Fetch(e) ==
    /\ ~Locked
    /\ Move(e, "fetch", "write")
    /\ via' = [via EXCEPT ![e] = current]
    /\ UNCHANGED <<mutex, inFlight, stored>>

\* Wrong on purpose: the answer of the broker is not awaited.
WriteAndForget(e) ==
    /\ Usable(via[e])
    /\ Move(e, "write", "ok")
    /\ inFlight' = inFlight \cup {e}
    /\ mutex' = NoEvent
    /\ UNCHANGED <<via, stored>>

\* Wrong on purpose: the mutex is given back before the answer has come.
WriteUnlocking(e) ==
    /\ Usable(via[e])
    /\ inFlight' = inFlight \cup {e}
    /\ Move(e, "write", "await")
    /\ mutex' = NoEvent
    /\ UNCHANGED <<via, stored>>

\* Outside confirm mode there is no confirmation to wait for: the publication is
\* reported as failed, though the message is on its way.
Write(e) ==
    /\ Usable(via[e])
    /\ inFlight' = inFlight \cup {e}
    /\ IF channel[via[e]] = "confirm"
       THEN Move(e, "write", "await") /\ UNCHANGED mutex
       ELSE Move(e, "write", "unconfirmed") /\ mutex' = NoEvent
    /\ UNCHANGED <<via, stored>>

WriteFails(e) ==
    /\ Move(e, "write", "failed")
    /\ ~Usable(via[e])
    /\ mutex' = NoEvent
    /\ UNCHANGED <<via, inFlight, stored>>

\* The broker takes the message, if the channel lasts that long.
Store(e) ==
    /\ e \in inFlight
    /\ Usable(via[e])
    /\ inFlight' = inFlight \ {e}
    /\ stored' = stored \cup {e}
    /\ UNCHANGED <<step, via, mutex>>

Confirmed(e) ==
    /\ Usable(via[e])
    /\ e \in stored
    /\ Move(e, "await", "ok")
    /\ mutex' = NoEvent
    /\ UNCHANGED <<via, inFlight, stored>>

\* Wrong on purpose: only a closed channel ends the wait.
AwaitClosure(e) ==
    /\ Move(e, "await", "failed")
    /\ ~Usable(via[e])
    /\ mutex' = NoEvent
    /\ UNCHANGED <<via, inFlight, stored>>

\* publishConfirmTTL is over, the caller has gone, the channel was closed or the
\* broker refused: an error, and the message may be stored all the same.
AwaitFails(e) ==
    /\ Move(e, "await", "failed")
    /\ mutex' = NoEvent
    /\ UNCHANGED <<via, inFlight, stored>>

Publish(e) ==
    \/ Acquire(e) \/ Fetch(e) \/ Write(e) \/ WriteFails(e)
    \/ Confirmed(e) \/ AwaitFails(e)

PublisherNext ==
    \/ ConnectionNext /\ UNCHANGED publications
    \/ \E e \in Events : (Call(e) \/ Publish(e) \/ Store(e)) /\ UNCHANGED connection

PublisherSpec == PublisherInit /\ [][PublisherNext]_allVars

\* Goroutines run and the confirmation timer fires; the broker owes nobody an answer.
FairPublisherSpec ==
    /\ PublisherSpec
    /\ WF_allVars(Keeper /\ UNCHANGED publications)
    /\ WF_allVars(Main /\ UNCHANGED publications)
    /\ \A e \in Events : WF_allVars(Publish(e) /\ UNCHANGED connection)

----------------------------------------------------------------------------
\* Properties.

Inside == {"fetch", "write", "await"}

\* One goroutine at a time uses the channel, the one that holds the mutex; the
\* other variables, of the connection too, stay in their domains.
PublisherTypeOK ==
    /\ ConnectionTypeOK
    /\ step \in [Events -> Inside \cup {"idle", "locking", "ok", "failed", "unconfirmed"}]
    /\ via \in [Events -> Dials \cup {None}]
    /\ \A e \in Events : step[e] \in Inside <=> mutex = e
    /\ inFlight \in SUBSET Events
    /\ stored \in SUBSET (Events \ inFlight)

\* A publication reported as successful is in the broker, whatever connection it was
\* written to: Upload and the reconciler may forget about it.  And none is reported as
\* failed only because a reconnection has left its channel outside confirm mode.
ReportedIsStored ==
    \A e \in Events : (step[e] = "ok" => e \in stored) /\ step[e] # "unconfirmed"

\* A goroutine that has the mutex gives it back, and so every publication comes
\* to an end, whatever the broker and the connection do.
EveryPublicationReturns ==
    \A e \in Events : step[e] = "locking" ~> step[e] \in {"ok", "failed"}
=============================================================================
