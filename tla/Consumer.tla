------------------------------ MODULE Consumer ------------------------------
(* One work queue and the replicas that consume it (rabbitmq.Consumer): the *)
(* prefetch window, the decision of handleDelivery, retries through the     *)
(* delay queue with the attempts counted in x-death, the dead queue, lost   *)
(* connections, crashes and the graceful stop.                              *)
(*                                                                          *)
(* The broker keeps one live copy of a message; what a replica writes to    *)
(* its channel (acknowledgements and publications) reaches the broker in    *)
(* the order written, later, or never.                                      *)
EXTENDS Naturals, Sequences, FiniteSets

CONSTANTS
    Messages,     \* published to the work queue
    Replicas,     \* worker replicas consuming it
    Nobody,       \* delivery of an idle consumer
    MaxRetries,   \* RABBITMQ_MAX_RETRIES
    Prefetch,     \* RABBITMQ_PREFETCH
    MaxFaults,    \* bound: broken connections, crashes and failed publications
    MaxStops      \* bound: requested stops

ASSUME NobodyAssumption == Nobody \notin Messages
ASSUME LimitsAssumption == MaxRetries \in Nat /\ Prefetch \in Nat \ {0}
ASSUME ConsumerBoundsAssumption == MaxFaults \in Nat /\ MaxStops \in Nat
ASSUME PlacesAssumption == Replicas \cap {"work", "retry", "gone"} = {}

VARIABLES
    place,      \* where the live copy is: "work", "retry", unacknowledged at a replica, or "gone"
    deaths,     \* its x-death header: rejected by the work queue, expired in the retry queue
    dead,       \* copies of it in the dead queue
    wire,       \* frames about it on the way from the replica that holds it
    pc,         \* step of each replica's Consume loop
    delivery,   \* the delivery it is working on
    buffer,     \* deliveries received from the broker and not yet taken by the loop
    open,       \* is its channel open?
    cancelled,  \* is its context cancelled?
    attempts,   \* history: handler runs begun for each message
    handled,    \* history: messages some handler run finished without an error
    refused,    \* history: handler runs that failed on their own
    faults,     \* faults that have happened
    stops       \* stops that were requested

broker == <<place, deaths, dead, wire>>
loop == <<pc, delivery, buffer, open, cancelled>>
history == <<attempts, handled, refused>>
vars == <<broker, loop, history, faults, stops>>

Counts == [rejected : Nat, expired : Nat]
Deliveries == [msg : Messages, deaths : Counts]
NoDelivery == [msg |-> Nobody, deaths |-> [rejected |-> 0, expired |-> 0]]

Init ==
    /\ place = [m \in Messages |-> "work"]
    /\ deaths = [m \in Messages |-> [rejected |-> 0, expired |-> 0]]
    /\ dead = [m \in Messages |-> 0]
    /\ wire = [m \in Messages |-> <<>>]
    /\ pc = [r \in Replicas |-> "waiting"]
    /\ delivery = [r \in Replicas |-> NoDelivery]
    /\ buffer = [r \in Replicas |-> {}]
    /\ open = [r \in Replicas |-> TRUE]
    /\ cancelled = [r \in Replicas |-> FALSE]
    /\ attempts = [m \in Messages |-> 0]
    /\ handled = {}
    /\ refused = [m \in Messages |-> 0]
    /\ faults = 0
    /\ stops = 0

Fault == faults < MaxFaults /\ faults' = faults + 1

----------------------------------------------------------------------------
\* The broker.

Unacked(r) == {m \in Messages : place[m] = r}

Deliver(r) ==
    /\ open[r]
    /\ pc[r] \notin {"closing", "stopped"}
    /\ Cardinality(Unacked(r)) < Prefetch
    /\ \E m \in Messages :
        /\ place[m] = "work"
        /\ place' = [place EXCEPT ![m] = r]
        /\ buffer' = [buffer EXCEPT ![r] = @ \cup {[msg |-> m, deaths |-> deaths[m]]}]
    /\ UNCHANGED <<deaths, dead, wire, pc, delivery, open, cancelled, history, faults, stops>>

\* The next frame about m arrives: a rejected message is dead-lettered to the
\* retry queue, which counts the rejection in x-death.
FrameArrives(m) ==
    /\ wire[m] # <<>>
    /\ wire' = [wire EXCEPT ![m] = Tail(@)]
    /\ \/ /\ Head(wire[m]) = "ack"
          /\ place' = [place EXCEPT ![m] = "gone"]
          /\ UNCHANGED <<deaths, dead>>
       \/ /\ Head(wire[m]) = "nack"
          /\ place' = [place EXCEPT ![m] = "retry"]
          /\ deaths' = [deaths EXCEPT ![m].rejected = @ + 1]
          /\ UNCHANGED dead
       \/ /\ Head(wire[m]) = "dead"
          /\ dead' = [dead EXCEPT ![m] = @ + 1]
          /\ UNCHANGED <<place, deaths>>
    /\ UNCHANGED <<loop, history, faults, stops>>

\* The TTL of the retry queue runs out, which x-death counts as well.
RetryExpires(m) ==
    /\ place[m] = "retry"
    /\ place' = [place EXCEPT ![m] = "work"]
    /\ deaths' = [deaths EXCEPT ![m].expired = @ + 1]
    /\ UNCHANGED <<dead, wire, loop, history, faults, stops>>

\* The channel of r is gone: the broker takes back, with its x-death as it was,
\* everything r held, and whatever was still on the wire is lost.
TakeBack(r) ==
    /\ place' = [m \in Messages |-> IF place[m] = r THEN "work" ELSE place[m]]
    /\ wire' = [m \in Messages |-> IF place[m] = r THEN <<>> ELSE wire[m]]
    /\ UNCHANGED <<deaths, dead>>

----------------------------------------------------------------------------
\* Consume: the loop takes one delivery at a time, in the order of the buffer
\* in the code, in any order here.  After the channel broke, the client library
\* may still hand over some of what it had buffered.

Receive(r) ==
    /\ pc[r] = "waiting"
    /\ \E d \in buffer[r] :
        /\ buffer' = [buffer EXCEPT ![r] = @ \ {d}]
        /\ delivery' = [delivery EXCEPT ![r] = d]
        /\ attempts' = [attempts EXCEPT ![d.msg] = @ + 1]
    /\ pc' = [pc EXCEPT ![r] = "handling"]
    /\ UNCHANGED <<broker, open, cancelled, handled, refused, faults, stops>>

\* Wrong on purpose: a channel closed by the broker is not noticed.
ClosureIgnored(r) ==
    /\ pc[r] = "waiting"
    /\ ~open[r]
    /\ cancelled[r]
    /\ pc' = [pc EXCEPT ![r] = "stopped"]
    /\ buffer' = [buffer EXCEPT ![r] = {}]
    /\ UNCHANGED <<broker, delivery, open, cancelled, history, faults, stops>>

\* The loop sees the delivery channel closed: it returns ErrDeliveryClosed, or
\* nil if it was stopping anyway; either way the process ends.
DeliveryClosed(r) ==
    /\ pc[r] = "waiting"
    /\ ~open[r]
    /\ pc' = [pc EXCEPT ![r] = "stopped"]
    /\ buffer' = [buffer EXCEPT ![r] = {}]
    /\ UNCHANGED <<broker, delivery, open, cancelled, history, faults, stops>>

\* The loop sees its context cancelled; when a delivery is ready as well,
\* select takes either.
LoopCancelled(r) ==
    /\ pc[r] = "waiting"
    /\ cancelled[r]
    /\ pc' = [pc EXCEPT ![r] = "closing"]
    /\ buffer' = [buffer EXCEPT ![r] = {}]
    /\ UNCHANGED <<broker, delivery, open, cancelled, history, faults, stops>>

\* Wrong on purpose: closing waits for an answer on a channel that is gone.
CloseHangs(r) ==
    /\ pc[r] = "closing"
    /\ open[r]
    /\ \A m \in Unacked(r) : wire[m] = <<>>
    /\ TakeBack(r)
    /\ pc' = [pc EXCEPT ![r] = "stopped"]
    /\ open' = [open EXCEPT ![r] = FALSE]
    /\ UNCHANGED <<delivery, buffer, cancelled, history, faults, stops>>

\* Closing the channel waits for the broker, so for every frame before it.
CloseChannel(r) ==
    /\ pc[r] = "closing"
    /\ \A m \in Unacked(r) : wire[m] = <<>>
    /\ TakeBack(r)
    /\ pc' = [pc EXCEPT ![r] = "stopped"]
    /\ open' = [open EXCEPT ![r] = FALSE]
    /\ UNCHANGED <<delivery, buffer, cancelled, history, faults, stops>>

----------------------------------------------------------------------------
\* handleDelivery.

\* Frames written to a channel that is gone are an error, which is only logged.
Send(r, frames) ==
    wire' = IF open[r] THEN [wire EXCEPT ![delivery[r].msg] = @ \o frames] ELSE wire

Advance(r, from, to) ==
    /\ pc[r] = from
    /\ pc' = [pc EXCEPT ![r] = to]

HandlerSucceeds(r) ==
    /\ Advance(r, "handling", "ack")
    /\ handled' = handled \cup {delivery[r].msg}
    /\ UNCHANGED <<broker, delivery, buffer, open, cancelled, attempts, refused, faults, stops>>

HandlerFails(r) ==
    /\ Advance(r, "handling", "refuse")
    /\ refused' = [refused EXCEPT ![delivery[r].msg] = @ + 1]
    /\ UNCHANGED <<broker, delivery, buffer, open, cancelled, attempts, handled, faults, stops>>

\* The handler runs under the context of the loop: a stop makes its calls fail.
HandlerCancelled(r) ==
    /\ cancelled[r]
    /\ Advance(r, "handling", "refuse")
    /\ UNCHANGED <<broker, delivery, buffer, open, cancelled, history, faults, stops>>

\* Wrong on purpose: adds up every entry of x-death.
SumOfAllDeaths(d) == d.deaths.rejected + d.deaths.expired

\* Wrong on purpose: the header is never looked at.
NoDeaths(d) == 0

\* deathCount: only rejections count; an expiry is the way back from the delay.
DeathCount(d) == d.deaths.rejected

EndDelivery(r) ==
    /\ delivery' = [delivery EXCEPT ![r] = NoDelivery]
    /\ UNCHANGED <<place, deaths, dead, buffer, open, cancelled, history, stops>>

Ack(r) ==
    /\ Advance(r, "ack", "waiting")
    /\ Send(r, <<"ack">>)
    /\ EndDelivery(r)
    /\ UNCHANGED faults

Nack(r) ==
    /\ Advance(r, "refuse", "waiting")
    /\ DeathCount(delivery[r]) < MaxRetries
    /\ Send(r, <<"nack">>)
    /\ EndDelivery(r)
    /\ UNCHANGED faults

\* Wrong on purpose: the original is acknowledged before its copy is published.
AckBeforeCopy(r) ==
    /\ Advance(r, "refuse", "waiting")
    /\ DeathCount(delivery[r]) >= MaxRetries
    /\ Send(r, <<"ack", "dead">>)
    /\ EndDelivery(r)
    /\ UNCHANGED faults

\* Wrong on purpose: the original is rejected after its copy was published.
NackAfterCopy(r) ==
    /\ Advance(r, "refuse", "waiting")
    /\ DeathCount(delivery[r]) >= MaxRetries
    /\ Send(r, <<"dead", "nack">>)
    /\ EndDelivery(r)
    /\ UNCHANGED faults

\* Wrong on purpose: the original is given up when the copy could not be published.
AckWithoutCopy(r) ==
    /\ Fault
    /\ Advance(r, "refuse", "waiting")
    /\ DeathCount(delivery[r]) >= MaxRetries
    /\ Send(r, <<"ack">>)
    /\ EndDelivery(r)

\* toDeadLetter: the copy is published first and the original acknowledged only
\* then.
ToDeadLetter(r) ==
    /\ Advance(r, "refuse", "ack")
    /\ DeathCount(delivery[r]) >= MaxRetries
    /\ Send(r, <<"dead">>)
    /\ UNCHANGED <<place, deaths, dead, delivery, buffer, open, cancelled, history, faults, stops>>

\* The copy could not be published: the original is rejected once more.
ToDeadLetterFails(r) ==
    /\ Fault
    /\ Advance(r, "refuse", "waiting")
    /\ DeathCount(delivery[r]) >= MaxRetries
    /\ Send(r, <<"nack">>)
    /\ EndDelivery(r)

HandleDelivery(r) ==
    HandlerSucceeds(r) \/ HandlerFails(r) \/ Ack(r) \/ Nack(r) \/ ToDeadLetter(r)

----------------------------------------------------------------------------
\* Stops, faults and restarts.

\* SIGTERM, or another member of the group returned an error.
StopRequested(r) ==
    /\ stops < MaxStops
    /\ stops' = stops + 1
    /\ pc[r] # "stopped"
    /\ ~cancelled[r]
    /\ cancelled' = [cancelled EXCEPT ![r] = TRUE]
    /\ UNCHANGED <<broker, pc, delivery, buffer, open, history, faults>>

ChannelBreaks(r) ==
    /\ Fault
    /\ open[r]
    /\ open' = [open EXCEPT ![r] = FALSE]
    /\ TakeBack(r)
    /\ UNCHANGED <<pc, delivery, buffer, cancelled, history, stops>>

Crash(r) ==
    /\ Fault
    /\ pc[r] # "stopped"
    /\ TakeBack(r)
    /\ pc' = [pc EXCEPT ![r] = "stopped"]
    /\ delivery' = [delivery EXCEPT ![r] = NoDelivery]
    /\ buffer' = [buffer EXCEPT ![r] = {}]
    /\ open' = [open EXCEPT ![r] = FALSE]
    /\ UNCHANGED <<cancelled, history, stops>>

\* The orchestrator starts the process again, which opens a new channel.
Restart(r) ==
    /\ Advance(r, "stopped", "waiting")
    /\ open' = [open EXCEPT ![r] = TRUE]
    /\ cancelled' = [cancelled EXCEPT ![r] = FALSE]
    /\ UNCHANGED <<broker, delivery, buffer, history, faults, stops>>

\* What a running consumer does by itself.
Consume(r) ==
    \/ Receive(r) \/ DeliveryClosed(r) \/ LoopCancelled(r) \/ CloseChannel(r)
    \/ HandleDelivery(r)

Disturb(r) ==
    \/ HandlerCancelled(r) \/ ToDeadLetterFails(r)
    \/ StopRequested(r) \/ ChannelBreaks(r) \/ Crash(r)

Next ==
    \/ \E m \in Messages : FrameArrives(m) \/ RetryExpires(m)
    \/ \E r \in Replicas : Deliver(r) \/ Consume(r) \/ Restart(r) \/ Disturb(r)

Spec == Init /\ [][Next]_vars

\* The broker delivers, forwards and expires; a running replica goes on, its
\* handlers return (their calls have deadlines), and a stopped one is started
\* again.  Nobody owes the system a fault or a stop.
Fairness ==
    /\ \A m \in Messages : WF_vars(FrameArrives(m)) /\ WF_vars(RetryExpires(m))
    /\ \A r \in Replicas : WF_vars(Deliver(r)) /\ WF_vars(Consume(r)) /\ WF_vars(Restart(r))

FairSpec == Spec /\ Fairness

----------------------------------------------------------------------------
\* Properties.

\* All a holder ever has under way about a message: its verdict, or the copy
\* for the dead queue and the acknowledgement behind it.
Wires == {<<>>, <<"ack">>, <<"nack">>, <<"dead">>, <<"dead", "ack">>}

\* Every variable stays in its domain.
TypeOK ==
    /\ place \in [Messages -> {"work", "retry", "gone"} \cup Replicas]
    /\ deaths \in [Messages -> Counts]
    /\ dead \in [Messages -> Nat]
    /\ wire \in [Messages -> Wires]
    /\ pc \in [Replicas -> {"waiting", "handling", "refuse", "ack", "closing", "stopped"}]
    /\ delivery \in [Replicas -> Deliveries \cup {NoDelivery}]
    /\ buffer \in [Replicas -> SUBSET Deliveries]
    /\ open \in [Replicas -> BOOLEAN]
    /\ cancelled \in [Replicas -> BOOLEAN]
    /\ attempts \in [Messages -> Nat]
    /\ handled \in SUBSET Messages
    /\ refused \in [Messages -> Nat]
    /\ faults \in 0..MaxFaults
    /\ stops \in 0..MaxStops

\* A message leaves the queues only when a handler finished it or a copy of it
\* is in the dead queue, whatever frames are lost and whoever stops when.
NoMessageLost == \A m \in Messages : place[m] = "gone" => m \in handled \/ dead[m] > 0

\* "The event ran out of attempts": nothing is parked before the handler has
\* been run MaxRetries + 1 times.
ParkedOnlyWhenExhausted == \A m \in Messages : dead[m] > 0 => attempts[m] > MaxRetries

\* A message is run at most MaxRetries + 1 times, plus once for every fault that
\* took a delivery away or kept its copy from the dead queue; the delay queue,
\* a stop and the other replicas add nothing.
AttemptsAreBounded == \A m \in Messages : attempts[m] <= MaxRetries + 1 + faults

\* Only a fault between the copy and the acknowledgement parks a message twice.
ParkedOncePerFault == \A m \in Messages : dead[m] <= 1 + faults

\* Consume "waits for the handlers it has begun": a rejection in x-death stands
\* for a run of the handler that failed by itself, not for one a stop cut short.
RejectionsAreRefusals == \A m \in Messages : deaths[m].rejected <= refused[m]

\* Every message ends up handled or parked: retries run out, what a stopped or
\* disconnected replica held is delivered again.
EveryMessageSettles == \A m \in Messages : <>(place[m] = "gone")

\* A consumer told to stop stops, or loses its process to a crash, and does not
\* hang on a delivery, a full buffer or a channel that is already gone.
StopCompletes == \A r \in Replicas : cancelled[r] ~> pc[r] = "stopped"
=============================================================================
