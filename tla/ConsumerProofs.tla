--------------------------- MODULE ConsumerProofs ---------------------------
(* Theorems about Consumer, for any number of messages and replicas, any    *)
(* retry limit, prefetch window and number of faults and stops.             *)
EXTENDS Consumer, SequenceTheorems, FiniteSetTheorems, TLAPS

\* What a replica works on while its channel is open is what the broker thinks
\* it holds, with the x-death the broker has.
Held(r, d) == place[d.msg] = r /\ d.deaths = deaths[d.msg]

ChannelInv(r) ==
    open[r] =>
        /\ pc[r] # "stopped"
        /\ \A d \in buffer[r] : Held(r, d) /\ wire[d.msg] = <<>> /\ d.msg # delivery[r].msg
        /\ delivery[r] # NoDelivery => Held(r, delivery[r])
        /\ pc[r] \in {"handling", "refuse"} => wire[delivery[r].msg] = <<>>
        /\ pc[r] = "ack" => wire[delivery[r].msg] \in {<<>>, <<"dead">>}

\* Busy exactly while there is a delivery; a loop that has ended kept nothing.
BusyInv(r) ==
    /\ delivery[r] = NoDelivery <=> pc[r] \in {"waiting", "closing", "stopped"}
    /\ pc[r] \in {"closing", "stopped"} => buffer[r] = {}

\* Only the holder's open channel carries frames.
HolderInv(m) ==
    /\ place[m] \in Replicas => open[place[m]]
    /\ wire[m] # <<>> => place[m] \in Replicas

Saved(m) == m \in handled \/ dead[m] > 0

\* An acknowledgement is sent, and arrives, only about a message that is saved.
AckInv(r) ==
    open[r] /\ pc[r] = "ack" =>
        Saved(delivery[r].msg) \/ wire[delivery[r].msg] = <<"dead">>

SavedInv(m) == place[m] = "gone" \/ wire[m] = <<"ack">> => Saved(m)

\* Every rejection was preceded by a run of the handler of its own.
CountInv(m) ==
    /\ deaths[m].rejected <= attempts[m]
    /\ wire[m] = <<"nack">> => deaths[m].rejected < attempts[m]
    /\ dead[m] > 0 \/ wire[m] \in {<<"dead">>, <<"dead", "ack">>} => attempts[m] > MaxRetries

RunInv(r) ==
    open[r] /\ delivery[r] # NoDelivery => deaths[delivery[r].msg].rejected < attempts[delivery[r].msg]

IInv ==
    /\ TypeOK
    /\ \A r \in Replicas : ChannelInv(r) /\ BusyInv(r) /\ AckInv(r) /\ RunInv(r)
    /\ \A m \in Messages : HolderInv(m) /\ SavedInv(m) /\ CountInv(m)

----------------------------------------------------------------------------
\* What the sends make of a wire, and what the arrival of a frame leaves of it.
LEMMA WireSends ==
    /\ <<>> \o <<"ack">> = <<"ack">>
    /\ <<>> \o <<"nack">> = <<"nack">>
    /\ <<>> \o <<"dead">> = <<"dead">>
    /\ <<"dead">> \o <<"ack">> = <<"dead", "ack">>
<1> DEFINE S == {"ack", "nack", "dead"}
           s == <<"dead">> \o <<"ack">>
           t == <<"dead", "ack">>
<1>1. \A x \in S : <<>> \o <<x>> = <<x>>
  BY ConcatEmptySeq
<1>2. <<"dead">> \in Seq(S) /\ <<"ack">> \in Seq(S) /\ t \in Seq(S)
  OBVIOUS
<1>3. Len(<<"dead">>) = 1 /\ Len(<<"ack">>) = 1 /\ Len(t) = 2 /\ t[1] = "dead" /\ t[2] = "ack"
  OBVIOUS
<1>4. /\ s \in Seq(S) /\ Len(s) = 2
      /\ \A i \in 1..2 : s[i] = IF i <= 1 THEN <<"dead">>[i] ELSE <<"ack">>[i - 1]
  <2>1. \A u, v \in Seq(S) :
          /\ u \o v \in Seq(S) /\ Len(u \o v) = Len(u) + Len(v)
          /\ \A i \in 1 .. Len(u) + Len(v) :
               (u \o v)[i] = IF i <= Len(u) THEN u[i] ELSE v[i - Len(u)]
    BY ConcatProperties
  <2>2. QED
    BY <1>2, <1>3, <2>1
<1>5. \A i \in 1..2 : s[i] = t[i]
  BY <1>3, <1>4
<1> HIDE DEF s, t
<1>6. s = t
  <2> HIDE DEF S
  <2>1. QED
    BY <1>2, <1>3, <1>4, <1>5, SeqEqual
<1>7. QED
  BY <1>1, <1>6 DEF s, t

\* What the arrival of a frame leaves of a wire.
LEMMA WireArrivals ==
    ASSUME NEW f \in Wires, f # <<>>
    PROVE  \/ Head(f) = "ack" /\ f = <<"ack">> /\ Tail(f) = <<>>
           \/ Head(f) = "nack" /\ f = <<"nack">> /\ Tail(f) = <<>>
           \/ Head(f) = "dead" /\ f = <<"dead">> /\ Tail(f) = <<>>
           \/ Head(f) = "dead" /\ f = <<"dead", "ack">> /\ Tail(f) = <<"ack">>
<1>1. CASE f = <<"ack">>
  BY <1>1
<1>2. CASE f = <<"nack">>
  BY <1>2
<1>3. CASE f = <<"dead">>
  BY <1>3
<1>4. CASE f = <<"dead", "ack">>
  BY <1>4
<1>5. QED
  BY <1>1, <1>2, <1>3, <1>4 DEF Wires

\* The five wires are different sequences.
LEMMA WiresDiffer ==
    /\ <<"ack">> # <<>> /\ <<"nack">> # <<>> /\ <<"dead">> # <<>> /\ <<"dead", "ack">> # <<>>
    /\ <<"ack">> # <<"nack">> /\ <<"ack">> # <<"dead">> /\ <<"nack">> # <<"dead">>
    /\ <<"dead", "ack">> # <<"ack">> /\ <<"dead", "ack">> # <<"nack">>
    /\ <<"dead", "ack">> # <<"dead">>
OBVIOUS

\* What the arrival of a frame does to its message.
LEMMA FrameEffect ==
    ASSUME TypeOK, NEW m \in Messages, FrameArrives(m)
    PROVE  \/ /\ wire[m] = <<"ack">> /\ wire'[m] = <<>>
              /\ place' = [place EXCEPT ![m] = "gone"] /\ UNCHANGED <<deaths, dead>>
           \/ /\ wire[m] = <<"nack">> /\ wire'[m] = <<>>
              /\ place' = [place EXCEPT ![m] = "retry"] /\ UNCHANGED dead
              /\ deaths' \in [Messages -> Counts] /\ deaths'[m].rejected = deaths[m].rejected + 1
              /\ \A n \in Messages \ {m} : deaths'[n] = deaths[n]
           \/ /\ wire[m] \in {<<"dead">>, <<"dead", "ack">>}
              /\ wire'[m] = IF wire[m] = <<"dead">> THEN <<>> ELSE <<"ack">>
              /\ dead' = [dead EXCEPT ![m] = @ + 1] /\ UNCHANGED <<place, deaths>>
<1>1. wire[m] \in Wires /\ wire[m] # <<>> /\ wire'[m] = Tail(wire[m])
  BY DEF FrameArrives, TypeOK
<1>2. CASE Head(wire[m]) = "ack" /\ wire[m] = <<"ack">> /\ Tail(wire[m]) = <<>>
  BY <1>1, <1>2 DEF FrameArrives
<1>3. CASE Head(wire[m]) = "nack" /\ wire[m] = <<"nack">> /\ Tail(wire[m]) = <<>>
  <2>1. /\ place' = [place EXCEPT ![m] = "retry"] /\ UNCHANGED dead
        /\ deaths' = [deaths EXCEPT ![m].rejected = @ + 1]
    BY <1>3 DEF FrameArrives
  <2>2. deaths \in [Messages -> Counts]
    BY DEF TypeOK
  <2>3. /\ deaths' \in [Messages -> Counts] /\ deaths'[m].rejected = deaths[m].rejected + 1
        /\ \A n \in Messages \ {m} : deaths'[n] = deaths[n]
    BY <2>1, <2>2 DEF Counts
  <2>4. QED
    BY <1>1, <1>3, <2>1, <2>3
<1>4. CASE \/ Head(wire[m]) = "dead" /\ wire[m] = <<"dead">> /\ Tail(wire[m]) = <<>>
           \/ Head(wire[m]) = "dead" /\ wire[m] = <<"dead", "ack">> /\ Tail(wire[m]) = <<"ack">>
  BY <1>1, <1>4, WiresDiffer DEF FrameArrives
<1>5. QED
  BY <1>1, <1>2, <1>3, <1>4, WireArrivals

----------------------------------------------------------------------------
\* What a step keeps for a replica it is not about: the broker leaves alone what
\* that replica holds, and the histories only grow.
LEMMA OtherReplica ==
    ASSUME IInv, NEW q \in Replicas,
           /\ pc'[q] = pc[q] /\ delivery'[q] = delivery[q]
           /\ buffer'[q] = buffer[q] /\ open'[q] = open[q],
           \A m \in Messages : place[m] = q =>
               place'[m] = q /\ deaths'[m] = deaths[m] /\ wire'[m] = wire[m],
           \A m \in Messages : Saved(m) => Saved(m)',
           \A m \in Messages : attempts[m] <= attempts'[m] /\ attempts'[m] \in Nat
    PROVE  (ChannelInv(q) /\ BusyInv(q) /\ AckInv(q) /\ RunInv(q))'
<1>1. TypeOK /\ ChannelInv(q) /\ BusyInv(q) /\ AckInv(q) /\ RunInv(q)
  BY DEF IInv
<1>2. BusyInv(q)'
  BY <1>1 DEF BusyInv
<1>3. delivery[q] # NoDelivery => delivery[q].msg \in Messages
  BY <1>1 DEF TypeOK, Deliveries
<1>4. \A d \in buffer[q] : d.msg \in Messages
  BY <1>1 DEF TypeOK, Deliveries
<1>5. pc[q] \in {"handling", "refuse", "ack"} => delivery[q] # NoDelivery
  BY <1>1 DEF BusyInv
<1>6. ChannelInv(q)'
  BY <1>1, <1>3, <1>4, <1>5 DEF ChannelInv, Held
<1>7. AckInv(q)'
  BY <1>1, <1>3, <1>5 DEF ChannelInv, Held, AckInv
<1>8. RunInv(q)'
  <2>1. \A m \in Messages : deaths[m].rejected \in Nat /\ attempts[m] \in Nat
    BY <1>1 DEF TypeOK, Counts
  <2>2. QED
    BY <1>1, <1>3, <2>1 DEF ChannelInv, Held, RunInv
<1>9. QED
  BY <1>2, <1>6, <1>7, <1>8

\* What a step keeps for a message it is not about.
LEMMA OtherMessage ==
    ASSUME IInv, NEW m \in Messages,
           place'[m] = place[m] /\ deaths'[m] = deaths[m] /\ wire'[m] = wire[m] /\ dead'[m] = dead[m],
           place[m] \in Replicas => open'[place[m]] = open[place[m]],
           m \in handled => m \in handled',
           attempts[m] <= attempts'[m] /\ attempts'[m] \in Nat
    PROVE  (HolderInv(m) /\ SavedInv(m) /\ CountInv(m))'
<1>1. HolderInv(m) /\ SavedInv(m) /\ CountInv(m)
  BY DEF IInv
<1>2. deaths[m].rejected \in Nat /\ attempts[m] \in Nat
  BY DEF IInv, TypeOK, Counts
<1>3. HolderInv(m)'
  BY <1>1 DEF HolderInv
<1>4. SavedInv(m)'
  BY <1>1 DEF SavedInv, Saved
<1>5. CountInv(m)'
  BY <1>1, <1>2, LimitsAssumption DEF CountInv
<1>6. QED
  BY <1>3, <1>4, <1>5

----------------------------------------------------------------------------
\* A step of the broker about one message keeps the invariant.
LEMMA StepOfMessage ==
    ASSUME IInv, NEW m \in Messages, FrameArrives(m) \/ RetryExpires(m)
    PROVE  IInv'
<1> USE DEF broker, loop, history
<1>t. TypeOK
  BY DEF IInv
<1>h. HolderInv(m) /\ SavedInv(m) /\ CountInv(m)
  BY DEF IInv
<1>d. deaths[m] \in Counts /\ dead[m] \in Nat /\ attempts[m] \in Nat
  BY <1>t DEF TypeOK
<1>1. CASE FrameArrives(m)
  <2>w. wire[m] \in Wires /\ wire[m] # <<>>
    BY <1>1, <1>t DEF FrameArrives, TypeOK
  <2>p. place[m] \in Replicas /\ open[place[m]]
    BY <1>h, <2>w DEF HolderInv
  <2>r. PICK r \in Replicas : r = place[m]
    BY <2>p
  <2>u. /\ UNCHANGED <<pc, delivery, buffer, open, cancelled, attempts, handled, refused, faults, stops>>
        /\ wire' = [wire EXCEPT ![m] = Tail(wire[m])]
    BY <1>1 DEF FrameArrives
  <2>c. \/ /\ wire[m] = <<"ack">> /\ wire'[m] = <<>>
           /\ place' = [place EXCEPT ![m] = "gone"] /\ UNCHANGED <<deaths, dead>>
        \/ /\ wire[m] = <<"nack">> /\ wire'[m] = <<>>
           /\ place' = [place EXCEPT ![m] = "retry"] /\ UNCHANGED dead
           /\ deaths' \in [Messages -> Counts] /\ deaths'[m].rejected = deaths[m].rejected + 1
           /\ \A n \in Messages \ {m} : deaths'[n] = deaths[n]
        \/ /\ wire[m] \in {<<"dead">>, <<"dead", "ack">>}
           /\ wire'[m] = IF wire[m] = <<"dead">> THEN <<>> ELSE <<"ack">>
           /\ dead' = [dead EXCEPT ![m] = @ + 1] /\ UNCHANGED <<place, deaths>>
    BY <1>1, <1>t, FrameEffect
  <2>f. \A n \in Messages \ {m} : place'[n] = place[n] /\ deaths'[n] = deaths[n]
                                 /\ wire'[n] = wire[n] /\ dead'[n] = dead[n]
    BY <2>c, <2>u, <1>t DEF TypeOK
  <2>e. dead'[m] \in Nat /\ (dead[m] > 0 => dead'[m] > 0)
    BY <2>c, <1>d, <1>t DEF TypeOK
  <2>1. TypeOK'
    <3>1. wire' \in [Messages -> Wires]
      BY <2>c, <2>u, <1>t DEF TypeOK, Wires
    <3>2. place' \in [Messages -> {"work", "retry", "gone"} \cup Replicas]
      BY <2>c, <1>t DEF TypeOK
    <3>3. deaths' \in [Messages -> Counts]
      BY <2>c, <1>t DEF TypeOK
    <3>4. dead' \in [Messages -> Nat]
      BY <2>c, <1>t, <1>d DEF TypeOK
    <3>5. QED
      BY <3>1, <3>2, <3>3, <3>4, <2>u, <1>t DEF TypeOK
  <2>2. \A n \in Messages : Saved(n) => Saved(n)'
    BY <2>e, <2>f, <2>u DEF Saved
  <2>3. ASSUME NEW q \in Replicas, q # r
        PROVE  (ChannelInv(q) /\ BusyInv(q) /\ AckInv(q) /\ RunInv(q))'
    <3>1. \A n \in Messages : place[n] = q =>
               place'[n] = q /\ deaths'[n] = deaths[n] /\ wire'[n] = wire[n]
      BY <2>3, <2>f, <2>r
    <3>2. \A n \in Messages : attempts[n] <= attempts'[n] /\ attempts'[n] \in Nat
      BY <2>u, <1>t DEF TypeOK
    <3>3. QED
      BY <3>1, <3>2, <2>2, <2>3, <2>u, OtherReplica
  <2>4. (ChannelInv(r) /\ BusyInv(r) /\ AckInv(r) /\ RunInv(r))'
    <3>1. ChannelInv(r) /\ BusyInv(r) /\ AckInv(r) /\ RunInv(r)
      BY DEF IInv
    <3>b. place[m] = r /\ open[r]
      BY <2>r, <2>p
    <3>2. \A d \in buffer[r] : d.msg # m /\ d.msg \in Messages
      BY <2>w, <3>b, <3>1, <1>t DEF ChannelInv, TypeOK, Deliveries
    <3>3. delivery[r] # NoDelivery => delivery[r].msg \in Messages
      BY <1>t DEF TypeOK, Deliveries
    <3>4. delivery[r] # NoDelivery /\ delivery[r].msg = m => pc[r] = "ack" /\ wire[m] = <<"dead">>
      <4>1. pc[r] \in {"handling", "refuse", "ack", "waiting", "closing", "stopped"}
        BY <1>t DEF TypeOK
      <4>2. QED
        BY <2>w, <3>b, <3>1, <4>1 DEF ChannelInv, BusyInv
    <3>5. BusyInv(r)'
      BY <3>1, <2>u DEF BusyInv
    <3>6. ASSUME delivery[r] # NoDelivery
          PROVE  LET n == delivery[r].msg IN
                 /\ place'[n] = place[n] /\ deaths'[n] = deaths[n]
                 /\ IF n = m THEN wire'[n] = <<>> /\ dead'[n] > 0 ELSE wire'[n] = wire[n]
      <4>1. CASE delivery[r].msg = m
        <5>1. wire[m] = <<"dead">>
          BY <3>4, <3>6, <4>1
        <5>2. /\ wire'[m] = <<>> /\ dead' = [dead EXCEPT ![m] = @ + 1]
              /\ UNCHANGED <<place, deaths>>
          BY <5>1, <2>c, WiresDiffer
        <5>3. dead'[m] > 0
          BY <5>2, <1>d, <1>t DEF TypeOK
        <5>4. QED
          BY <4>1, <5>2, <5>3
      <4>2. CASE delivery[r].msg # m
        BY <3>3, <3>6, <4>2, <2>f
      <4>3. QED
        BY <4>1, <4>2
    <3>7. ChannelInv(r)'
      BY <3>1, <3>2, <3>3, <3>4, <3>6, <3>b, <2>f, <2>u DEF ChannelInv, Held, BusyInv
    <3>8. AckInv(r)'
      BY <3>1, <3>3, <3>4, <3>6, <3>b, <2>2, <2>u DEF AckInv, BusyInv, Saved
    <3>9. RunInv(r)'
      BY <3>1, <3>6, <3>b, <2>u DEF RunInv
    <3>10. QED
      BY <3>5, <3>7, <3>8, <3>9
  <2>5. ASSUME NEW n \in Messages, n # m
        PROVE  (HolderInv(n) /\ SavedInv(n) /\ CountInv(n))'
    BY <2>5, <2>f, <2>u, <1>t, OtherMessage DEF TypeOK
  <2>6. (HolderInv(m) /\ SavedInv(m) /\ CountInv(m))'
    <3>1. HolderInv(m)'
      BY <2>c, <2>u, <2>p, <1>h, <1>t, PlacesAssumption, WiresDiffer DEF HolderInv, TypeOK
    <3>2. SavedInv(m)'
      <4>1. CASE wire[m] = <<"ack">>
        BY <4>1, <2>2, <1>h DEF SavedInv
      <4>2. CASE wire[m] = <<"nack">>
        <5>1. place'[m] = "retry" /\ wire'[m] = <<>>
          BY <4>2, <2>c, <1>t, WiresDiffer DEF TypeOK
        <5>2. QED
          BY <5>1, WiresDiffer DEF SavedInv
      <4>3. CASE wire[m] \in {<<"dead">>, <<"dead", "ack">>}
        <5>1. dead'[m] > 0
          BY <4>3, <2>c, <1>d, <1>t, WiresDiffer DEF TypeOK
        <5>2. QED
          BY <5>1 DEF SavedInv, Saved
      <4>4. QED
        BY <4>1, <4>2, <4>3, <2>w DEF Wires
    <3>3. CountInv(m)'
      <4>1. attempts'[m] = attempts[m] /\ attempts[m] \in Nat /\ deaths[m].rejected \in Nat
        BY <2>u, <1>d DEF Counts
      <4>2. CASE wire[m] = <<"ack">>
        BY <4>1, <4>2, <2>c, <1>h, WiresDiffer DEF CountInv
      <4>3. CASE wire[m] = <<"nack">>
        <5>1. /\ wire'[m] = <<>> /\ UNCHANGED dead
              /\ deaths'[m].rejected = deaths[m].rejected + 1
          BY <4>3, <2>c, WiresDiffer
        <5>2. deaths[m].rejected < attempts[m] /\ (dead[m] > 0 => attempts[m] > MaxRetries)
          BY <4>3, <1>h DEF CountInv
        <5>3. QED
          BY <4>1, <5>1, <5>2, WiresDiffer DEF CountInv
      <4>4. CASE wire[m] \in {<<"dead">>, <<"dead", "ack">>}
        BY <4>1, <4>4, <2>c, <1>h, WiresDiffer DEF CountInv
      <4>5. QED
        BY <4>2, <4>3, <4>4, <2>w DEF Wires
    <3>4. QED
      BY <3>1, <3>2, <3>3
  <2>7. QED
    BY <2>1, <2>3, <2>4, <2>5, <2>6, <2>r DEF IInv
<1>2. CASE RetryExpires(m)
  <2>u. /\ UNCHANGED <<pc, delivery, buffer, open, cancelled, attempts, handled, refused, faults, stops>>
        /\ place[m] = "retry" /\ place' = [place EXCEPT ![m] = "work"]
        /\ deaths' = [deaths EXCEPT ![m].expired = @ + 1]
        /\ UNCHANGED <<dead, wire>>
    BY <1>2 DEF RetryExpires
  <2>f. \A n \in Messages \ {m} : place'[n] = place[n] /\ deaths'[n] = deaths[n]
    BY <2>u, <1>t DEF TypeOK
  <2>e. deaths'[m] \in Counts /\ deaths'[m].rejected = deaths[m].rejected
    <3>1. deaths \in [Messages -> Counts]
      BY <1>t DEF TypeOK
    <3>2. QED
      BY <3>1, <2>u DEF Counts
  <2>1. TypeOK'
    BY <2>u, <2>e, <1>t DEF TypeOK
  <2>2. \A n \in Messages : Saved(n) => Saved(n)'
    BY <2>u DEF Saved
  <2>3. ASSUME NEW q \in Replicas
        PROVE  (ChannelInv(q) /\ BusyInv(q) /\ AckInv(q) /\ RunInv(q))'
    <3>1. \A n \in Messages : place[n] = q =>
               place'[n] = q /\ deaths'[n] = deaths[n] /\ wire'[n] = wire[n]
      BY <2>3, <2>f, <2>u, PlacesAssumption
    <3>2. \A n \in Messages : attempts[n] <= attempts'[n] /\ attempts'[n] \in Nat
      BY <2>u, <1>t DEF TypeOK
    <3>3. QED
      BY <3>1, <3>2, <2>2, <2>3, <2>u, OtherReplica
  <2>5. ASSUME NEW n \in Messages, n # m
        PROVE  (HolderInv(n) /\ SavedInv(n) /\ CountInv(n))'
    BY <2>5, <2>f, <2>u, <1>t, OtherMessage DEF TypeOK
  <2>6. (HolderInv(m) /\ SavedInv(m) /\ CountInv(m))'
    <3>1. place'[m] = "work"
      BY <2>u, <1>t DEF TypeOK
    <3>2. QED
      BY <3>1, <2>u, <2>e, <1>h, PlacesAssumption DEF HolderInv, SavedInv, Saved, CountInv
  <2>7. QED
    BY <2>1, <2>3, <2>5, <2>6 DEF IInv
<1>3. QED
  BY <1>1, <1>2

----------------------------------------------------------------------------
\* A step of one replica keeps the invariant.
LEMMA StepOfReplica ==
    ASSUME IInv, NEW r \in Replicas, Deliver(r) \/ Consume(r) \/ Restart(r) \/ Disturb(r)
    PROVE  IInv'
<1> USE DEF broker, loop, history
<1>t. TypeOK
  BY DEF IInv
<1>i. ChannelInv(r) /\ BusyInv(r) /\ AckInv(r) /\ RunInv(r)
  BY DEF IInv
<1>h. \A m \in Messages : HolderInv(m) /\ SavedInv(m) /\ CountInv(m)
  BY DEF IInv
<1>n. \A m \in Messages : attempts[m] \in Nat /\ deaths[m].rejected \in Nat
  BY <1>t DEF TypeOK, Counts
<1>d. delivery[r] \in Deliveries \/ delivery[r] = NoDelivery
  BY <1>t DEF TypeOK
<1>b. \A d \in buffer[r] : d \in Deliveries /\ d.msg \in Messages
  BY <1>t DEF TypeOK, Deliveries
\* Steps that leave the broker alone: the other replicas and the messages keep
\* their parts.
<1>q. ASSUME UNCHANGED <<place, deaths, dead, wire>>, UNCHANGED open,
             \A q \in Replicas \ {r} :
                /\ pc'[q] = pc[q] /\ delivery'[q] = delivery[q] /\ buffer'[q] = buffer[q],
             handled \subseteq handled',
             \A m \in Messages : attempts[m] <= attempts'[m] /\ attempts'[m] \in Nat
      PROVE  /\ \A q \in Replicas \ {r} : (ChannelInv(q) /\ BusyInv(q) /\ AckInv(q) /\ RunInv(q))'
             /\ \A m \in Messages : (HolderInv(m) /\ SavedInv(m) /\ CountInv(m))'
  <2>1. \A m \in Messages : Saved(m) => Saved(m)'
    BY <1>q DEF Saved
  <2>2. ASSUME NEW q \in Replicas \ {r}
        PROVE  (ChannelInv(q) /\ BusyInv(q) /\ AckInv(q) /\ RunInv(q))'
    BY <1>q, <2>1, OtherReplica
  <2>3. ASSUME NEW m \in Messages
        PROVE  (HolderInv(m) /\ SavedInv(m) /\ CountInv(m))'
    BY <1>q, OtherMessage
  <2>4. QED
    BY <2>2, <2>3
<1>1. CASE Receive(r)
  <2>1. PICK d \in buffer[r] :
           /\ buffer' = [buffer EXCEPT ![r] = @ \ {d}]
           /\ delivery' = [delivery EXCEPT ![r] = d]
           /\ attempts' = [attempts EXCEPT ![d.msg] = @ + 1]
    BY <1>1 DEF Receive
  <2>2. d \in Deliveries /\ d.msg \in Messages /\ d # NoDelivery
    BY <1>b, <2>1, NobodyAssumption DEF NoDelivery
  <2>3. /\ pc[r] = "waiting" /\ pc' = [pc EXCEPT ![r] = "handling"]
        /\ UNCHANGED <<place, deaths, dead, wire, open, cancelled, handled, refused, faults, stops>>
    BY <1>1 DEF Receive
  <2>4. TypeOK'
    BY <2>1, <2>2, <2>3, <1>t DEF TypeOK
  <2>5. /\ pc'[r] = "handling" /\ delivery'[r] = d /\ buffer'[r] = buffer[r] \ {d}
        /\ attempts'[d.msg] = attempts[d.msg] + 1
    BY <2>1, <2>2, <2>3, <1>t DEF TypeOK
  <2>6. \A m \in Messages : attempts[m] <= attempts'[m] /\ attempts'[m] \in Nat
    BY <2>1, <1>n, <1>t DEF TypeOK
  <2>7. ChannelInv(r)'
    <3>1. open[r] => \A e \in buffer[r] : e.msg = d.msg => e = d
      BY <2>1, <1>i, <1>b DEF ChannelInv, Held, Deliveries
    <3>2. QED
      BY <3>1, <2>1, <2>3, <2>5, <1>i DEF ChannelInv, Held
  <2>8. BusyInv(r)' /\ AckInv(r)'
    BY <2>2, <2>5 DEF BusyInv, AckInv
  <2>9. RunInv(r)'
    BY <2>1, <2>2, <2>3, <2>5, <1>n, <1>h DEF RunInv, CountInv
  <2>10. QED
    BY <1>q, <2>1, <2>3, <2>4, <2>6, <2>7, <2>8, <2>9, <1>t DEF IInv, TypeOK
<1>2. CASE DeliveryClosed(r)
  <2>1. /\ pc[r] = "waiting" /\ ~open[r] /\ pc' = [pc EXCEPT ![r] = "stopped"]
        /\ buffer' = [buffer EXCEPT ![r] = {}]
        /\ UNCHANGED <<place, deaths, dead, wire, delivery, open, cancelled, attempts, handled,
                       refused, faults, stops>>
    BY <1>2 DEF DeliveryClosed
  <2>2. TypeOK' /\ pc'[r] = "stopped" /\ buffer'[r] = {}
    BY <2>1, <1>t DEF TypeOK
  <2>3. (ChannelInv(r) /\ BusyInv(r) /\ AckInv(r) /\ RunInv(r))'
    BY <2>1, <2>2, <1>i DEF ChannelInv, BusyInv, AckInv, RunInv
  <2>4. QED
    BY <1>q, <1>n, <2>1, <2>2, <2>3, <1>t DEF IInv, TypeOK
<1>3. CASE LoopCancelled(r)
  <2>1. /\ pc[r] = "waiting" /\ pc' = [pc EXCEPT ![r] = "closing"]
        /\ buffer' = [buffer EXCEPT ![r] = {}]
        /\ UNCHANGED <<place, deaths, dead, wire, delivery, open, cancelled, attempts, handled,
                       refused, faults, stops>>
    BY <1>3 DEF LoopCancelled
  <2>2. TypeOK' /\ pc'[r] = "closing" /\ buffer'[r] = {}
    BY <2>1, <1>t DEF TypeOK
  <2>3. (ChannelInv(r) /\ BusyInv(r) /\ AckInv(r) /\ RunInv(r))'
    BY <2>1, <2>2, <1>i DEF ChannelInv, Held, BusyInv, AckInv, RunInv
  <2>4. QED
    BY <1>q, <1>n, <2>1, <2>2, <2>3, <1>t DEF IInv, TypeOK
<1>4. CASE HandlerSucceeds(r)
  <2>1. /\ pc[r] = "handling" /\ pc' = [pc EXCEPT ![r] = "ack"]
        /\ handled' = handled \cup {delivery[r].msg}
        /\ UNCHANGED <<place, deaths, dead, wire, delivery, buffer, open, cancelled, attempts,
                       refused, faults, stops>>
    BY <1>4 DEF HandlerSucceeds, Advance
  <2>2. delivery[r] # NoDelivery /\ delivery[r].msg \in Messages
    BY <2>1, <1>d, <1>i DEF BusyInv, Deliveries
  <2>3. TypeOK' /\ pc'[r] = "ack"
    BY <2>1, <2>2, <1>t DEF TypeOK
  <2>4. (ChannelInv(r) /\ BusyInv(r) /\ AckInv(r) /\ RunInv(r))'
    BY <2>1, <2>2, <2>3, <1>i DEF ChannelInv, Held, BusyInv, AckInv, Saved, RunInv
  <2>5. QED
    BY <1>q, <1>n, <2>1, <2>3, <2>4, <1>t DEF IInv, TypeOK
<1>5. CASE HandlerFails(r) \/ HandlerCancelled(r)
  <2>1. /\ pc[r] = "handling" /\ pc' = [pc EXCEPT ![r] = "refuse"]
        /\ UNCHANGED <<place, deaths, dead, wire, delivery, buffer, open, cancelled, attempts,
                       handled, faults, stops>>
    BY <1>5 DEF HandlerFails, HandlerCancelled, Advance
  <2>2. refused' \in [Messages -> Nat]
    BY <1>5, <1>t DEF HandlerFails, HandlerCancelled, TypeOK
  <2>3. TypeOK' /\ pc'[r] = "refuse"
    BY <2>1, <2>2, <1>t DEF TypeOK
  <2>4. (ChannelInv(r) /\ BusyInv(r) /\ AckInv(r) /\ RunInv(r))'
    BY <2>1, <2>3, <1>i DEF ChannelInv, Held, BusyInv, AckInv, RunInv
  <2>5. QED
    BY <1>q, <1>n, <2>1, <2>3, <2>4, <1>t DEF IInv, TypeOK
<1>6. CASE StopRequested(r)
  <2>1. /\ cancelled' = [cancelled EXCEPT ![r] = TRUE] /\ stops < MaxStops /\ stops' = stops + 1
        /\ UNCHANGED <<place, deaths, dead, wire, pc, delivery, buffer, open, attempts, handled,
                       refused, faults>>
    BY <1>6 DEF StopRequested
  <2>2. TypeOK'
    BY <2>1, <1>t, ConsumerBoundsAssumption DEF TypeOK
  <2>3. (ChannelInv(r) /\ BusyInv(r) /\ AckInv(r) /\ RunInv(r))'
    BY <2>1, <1>i DEF ChannelInv, Held, BusyInv, AckInv, Saved, RunInv
  <2>4. QED
    BY <1>q, <1>n, <2>1, <2>2, <2>3 DEF IInv
\* Sending one more frame about the delivery at hand touches only its message.
<1>s. ASSUME delivery[r] \in Deliveries,
             \/ UNCHANGED wire
             \/ \E f \in Wires : open[r] /\ wire' = [wire EXCEPT ![delivery[r].msg] = f],
             UNCHANGED <<place, deaths, dead, open, attempts, handled>>,
             \A q \in Replicas \ {r} :
                /\ pc'[q] = pc[q] /\ delivery'[q] = delivery[q] /\ buffer'[q] = buffer[q]
      PROVE  /\ \A q \in Replicas \ {r} : (ChannelInv(q) /\ BusyInv(q) /\ AckInv(q) /\ RunInv(q))'
             /\ \A m \in Messages \ {delivery[r].msg} : (HolderInv(m) /\ SavedInv(m) /\ CountInv(m))'
             /\ wire' \in [Messages -> Wires]
  <2> DEFINE m == delivery[r].msg
  <2>1. m \in Messages /\ (open[r] => place[m] = r)
    BY <1>s, <1>i, NobodyAssumption DEF Deliveries, ChannelInv, Held, NoDelivery
  <2>2. \A n \in Messages \ {m} : wire'[n] = wire[n]
    BY <1>s, <1>t DEF TypeOK
  <2>3. ASSUME NEW q \in Replicas \ {r}
        PROVE  (ChannelInv(q) /\ BusyInv(q) /\ AckInv(q) /\ RunInv(q))'
    <3>1. \A n \in Messages : place[n] = q => wire'[n] = wire[n]
      BY <1>s, <2>1, <2>2
    <3>2. \A n \in Messages : Saved(n) => Saved(n)'
      BY <1>s DEF Saved
    <3>3. QED
      BY <1>s, <1>n, <3>1, <3>2, OtherReplica
  <2>4. ASSUME NEW n \in Messages \ {m}
        PROVE  (HolderInv(n) /\ SavedInv(n) /\ CountInv(n))'
    BY <1>s, <1>n, <2>2, OtherMessage
  <2>5. wire' \in [Messages -> Wires]
    BY <1>s, <1>t DEF TypeOK
  <2>6. QED
    BY <2>3, <2>4, <2>5
<1>7. CASE Ack(r)
  <2>m. PICK m : m = delivery[r].msg
    OBVIOUS
  <2>1. /\ pc[r] = "ack" /\ pc' = [pc EXCEPT ![r] = "waiting"]
        /\ delivery' = [delivery EXCEPT ![r] = NoDelivery]
        /\ wire' = IF open[r] THEN [wire EXCEPT ![m] = @ \o <<"ack">>] ELSE wire
        /\ UNCHANGED <<place, deaths, dead, buffer, open, cancelled, attempts, handled, refused,
                       faults, stops>>
    BY <1>7, <2>m DEF Ack, Advance, Send, EndDelivery
  <2>2. delivery[r] \in Deliveries /\ m \in Messages
    BY <2>1, <2>m, <1>d, <1>i DEF BusyInv, Deliveries
  <2>3. open[r] => \/ wire[m] = <<>> /\ wire'[m] = <<"ack">>
                   \/ wire[m] = <<"dead">> /\ wire'[m] = <<"dead", "ack">>
    BY <2>1, <2>2, <2>m, <1>i, <1>t, WireSends DEF ChannelInv, TypeOK
  <2>4. UNCHANGED wire \/ \E f \in Wires : open[r] /\ wire' = [wire EXCEPT ![m] = f]
    BY <2>1, <2>2, <2>m, <1>i, WireSends DEF ChannelInv, Wires
  <2>5. /\ \A q \in Replicas \ {r} : (ChannelInv(q) /\ BusyInv(q) /\ AckInv(q) /\ RunInv(q))'
        /\ \A n \in Messages \ {m} : (HolderInv(n) /\ SavedInv(n) /\ CountInv(n))'
        /\ wire' \in [Messages -> Wires]
    BY <1>s, <2>m, <2>1, <2>2, <2>4, <1>t DEF TypeOK
  <2>6. TypeOK' /\ pc'[r] = "waiting" /\ delivery'[r] = NoDelivery
    BY <2>1, <2>5, <1>t DEF TypeOK
  <2>7. (ChannelInv(r) /\ BusyInv(r) /\ AckInv(r) /\ RunInv(r))'
    <3>1. \A n \in Messages \ {m} : wire'[n] = wire[n]
      BY <2>4, <1>t DEF TypeOK
    <3>2. ChannelInv(r)'
      BY <3>1, <2>1, <2>6, <1>i, <1>b, <2>m, NobodyAssumption DEF ChannelInv, Held, NoDelivery
    <3>3. QED
      BY <3>2, <2>1, <2>6 DEF BusyInv, AckInv, RunInv
  <2>8. (HolderInv(m) /\ SavedInv(m) /\ CountInv(m))'
    <3>1. HolderInv(m) /\ SavedInv(m) /\ CountInv(m)
      BY <1>h, <2>2
    <3>2. CASE ~open[r]
      BY <3>1, <3>2, <2>1 DEF HolderInv, SavedInv, Saved, CountInv
    <3>3. CASE open[r]
      <4>1. place[m] = r /\ (Saved(m) \/ wire[m] = <<"dead">>)
        BY <3>3, <2>1, <2>2, <1>i, <2>m, NobodyAssumption DEF ChannelInv, Held, AckInv, NoDelivery, Deliveries
      <4>2. HolderInv(m)'
        BY <3>3, <4>1, <2>1 DEF HolderInv
      <4>3. SavedInv(m)' /\ CountInv(m)'
        BY <3>1, <3>3, <4>1, <2>1, <2>3, PlacesAssumption, WiresDiffer DEF SavedInv, Saved, CountInv
      <4>4. QED
        BY <4>2, <4>3
    <3>4. QED
      BY <3>2, <3>3
  <2>9. QED
    BY <2>5, <2>6, <2>7, <2>8 DEF IInv
<1>8. CASE Nack(r) \/ ToDeadLetterFails(r)
  <2>m. PICK m : m = delivery[r].msg
    OBVIOUS
  <2>1. /\ pc[r] = "refuse" /\ pc' = [pc EXCEPT ![r] = "waiting"]
        /\ delivery' = [delivery EXCEPT ![r] = NoDelivery]
        /\ wire' = IF open[r] THEN [wire EXCEPT ![m] = @ \o <<"nack">>] ELSE wire
        /\ UNCHANGED <<place, deaths, dead, buffer, open, cancelled, attempts, handled, refused,
                       stops>>
        /\ faults' \in 0..MaxFaults
    BY <1>8, <1>t, <2>m, ConsumerBoundsAssumption
       DEF Nack, ToDeadLetterFails, Advance, Send, EndDelivery, Fault, TypeOK
  <2>2. delivery[r] \in Deliveries /\ m \in Messages
    BY <2>1, <2>m, <1>d, <1>i DEF BusyInv, Deliveries
  <2>3. open[r] => wire[m] = <<>> /\ wire'[m] = <<"nack">>
    BY <2>1, <2>2, <2>m, <1>i, <1>t, WireSends DEF ChannelInv, TypeOK
  <2>4. UNCHANGED wire \/ \E f \in Wires : open[r] /\ wire' = [wire EXCEPT ![m] = f]
    BY <2>1, <2>2, <2>m, <1>i, WireSends DEF ChannelInv, Wires
  <2>5. /\ \A q \in Replicas \ {r} : (ChannelInv(q) /\ BusyInv(q) /\ AckInv(q) /\ RunInv(q))'
        /\ \A n \in Messages \ {m} : (HolderInv(n) /\ SavedInv(n) /\ CountInv(n))'
        /\ wire' \in [Messages -> Wires]
    BY <1>s, <2>m, <2>1, <2>2, <2>4, <1>t DEF TypeOK
  <2>6. TypeOK' /\ pc'[r] = "waiting" /\ delivery'[r] = NoDelivery
    BY <2>1, <2>5, <1>t DEF TypeOK
  <2>7. (ChannelInv(r) /\ BusyInv(r) /\ AckInv(r) /\ RunInv(r))'
    <3>1. \A n \in Messages \ {m} : wire'[n] = wire[n]
      BY <2>4, <1>t DEF TypeOK
    <3>2. ChannelInv(r)'
      BY <3>1, <2>1, <2>6, <1>i, <1>b, <2>m, NobodyAssumption DEF ChannelInv, Held, NoDelivery
    <3>3. QED
      BY <3>2, <2>1, <2>6 DEF BusyInv, AckInv, RunInv
  <2>8. (HolderInv(m) /\ SavedInv(m) /\ CountInv(m))'
    <3>1. HolderInv(m) /\ SavedInv(m) /\ CountInv(m)
      BY <1>h, <2>2
    <3>2. CASE ~open[r]
      BY <3>1, <3>2, <2>1 DEF HolderInv, SavedInv, Saved, CountInv
    <3>3. CASE open[r]
      <4>1. place[m] = r /\ deaths[m].rejected < attempts[m]
        BY <3>3, <2>2, <1>i, <2>m, NobodyAssumption DEF ChannelInv, Held, RunInv, NoDelivery, Deliveries
      <4>2. HolderInv(m)'
        BY <3>3, <4>1, <2>1 DEF HolderInv
      <4>3. SavedInv(m)' /\ CountInv(m)'
        BY <3>1, <3>3, <4>1, <2>1, <2>3, PlacesAssumption, WiresDiffer DEF SavedInv, Saved, CountInv
      <4>4. QED
        BY <4>2, <4>3
    <3>4. QED
      BY <3>2, <3>3
  <2>9. QED
    BY <2>5, <2>6, <2>7, <2>8 DEF IInv
<1>9. CASE ToDeadLetter(r)
  <2>m. PICK m : m = delivery[r].msg
    OBVIOUS
  <2>1. /\ pc[r] = "refuse" /\ pc' = [pc EXCEPT ![r] = "ack"]
        /\ delivery[r].deaths.rejected >= MaxRetries
        /\ wire' = IF open[r] THEN [wire EXCEPT ![m] = @ \o <<"dead">>] ELSE wire
        /\ UNCHANGED <<place, deaths, dead, delivery, buffer, open, cancelled, attempts, handled,
                       refused, faults, stops>>
    BY <1>9, <2>m DEF ToDeadLetter, Advance, Send, DeathCount
  <2>2. delivery[r] \in Deliveries /\ m \in Messages
    BY <2>1, <2>m, <1>d, <1>i DEF BusyInv, Deliveries
  <2>3. open[r] => wire[m] = <<>> /\ wire'[m] = <<"dead">>
    BY <2>1, <2>2, <2>m, <1>i, <1>t, WireSends DEF ChannelInv, TypeOK
  <2>4. UNCHANGED wire \/ \E f \in Wires : open[r] /\ wire' = [wire EXCEPT ![m] = f]
    BY <2>1, <2>2, <2>m, <1>i, WireSends DEF ChannelInv, Wires
  <2>5. /\ \A q \in Replicas \ {r} : (ChannelInv(q) /\ BusyInv(q) /\ AckInv(q) /\ RunInv(q))'
        /\ \A n \in Messages \ {m} : (HolderInv(n) /\ SavedInv(n) /\ CountInv(n))'
        /\ wire' \in [Messages -> Wires]
    BY <1>s, <2>m, <2>1, <2>2, <2>4, <1>t DEF TypeOK
  <2>6. TypeOK' /\ pc'[r] = "ack"
    BY <2>1, <2>5, <1>t DEF TypeOK
  <2>7. (ChannelInv(r) /\ BusyInv(r) /\ AckInv(r) /\ RunInv(r))'
    <3>1. \A n \in Messages \ {m} : wire'[n] = wire[n]
      BY <2>4, <1>t DEF TypeOK
    <3>2. ChannelInv(r)'
      BY <3>1, <2>m, <2>1, <2>3, <2>6, <1>i, <1>b DEF ChannelInv, Held
    <3>3. AckInv(r)'
      BY <2>m, <2>1, <2>3, <2>6 DEF AckInv
    <3>4. QED
      BY <3>2, <3>3, <2>1, <2>6, <1>i DEF BusyInv, RunInv
  <2>8. (HolderInv(m) /\ SavedInv(m) /\ CountInv(m))'
    <3>1. HolderInv(m) /\ SavedInv(m) /\ CountInv(m)
      BY <1>h, <2>2
    <3>2. CASE ~open[r]
      BY <3>1, <3>2, <2>1 DEF HolderInv, SavedInv, Saved, CountInv
    <3>3. CASE open[r]
      <4>1. place[m] = r /\ deaths[m].rejected < attempts[m] /\ deaths[m].rejected >= MaxRetries
        BY <3>3, <2>1, <2>2, <1>i, <2>m, NobodyAssumption DEF ChannelInv, Held, RunInv, NoDelivery, Deliveries
      <4>2. HolderInv(m)'
        BY <3>3, <4>1, <2>1 DEF HolderInv
      <4>3. attempts[m] > MaxRetries
        BY <4>1, <1>n, <2>2, LimitsAssumption
      <4>4. SavedInv(m)' /\ CountInv(m)'
        BY <3>1, <3>3, <4>1, <4>3, <2>1, <2>3, PlacesAssumption, WiresDiffer DEF SavedInv, Saved, CountInv
      <4>5. QED
        BY <4>2, <4>4
    <3>4. QED
      BY <3>2, <3>3
  <2>9. QED
    BY <2>5, <2>6, <2>7, <2>8 DEF IInv
<1>10. CASE Deliver(r)
  <2>1. PICK m \in Messages :
          /\ place[m] = "work" /\ place' = [place EXCEPT ![m] = r]
          /\ buffer' = [buffer EXCEPT ![r] = @ \cup {[msg |-> m, deaths |-> deaths[m]]}]
    BY <1>10 DEF Deliver
  <2>2. /\ open[r] /\ pc[r] \notin {"closing", "stopped"}
        /\ UNCHANGED <<deaths, dead, wire, pc, delivery, open, cancelled, attempts, handled,
                       refused, faults, stops>>
    BY <1>10 DEF Deliver
  <2>3. [msg |-> m, deaths |-> deaths[m]] \in Deliveries
    BY <1>t DEF TypeOK, Deliveries
  <2>4. TypeOK'
    BY <2>1, <2>2, <2>3, <1>t DEF TypeOK
  <2>5. /\ \A n \in Messages \ {m} : place'[n] = place[n]
        /\ place'[m] = r /\ wire[m] = <<>>
        /\ buffer'[r] = buffer[r] \cup {[msg |-> m, deaths |-> deaths[m]]}
        /\ \A q \in Replicas \ {r} : buffer'[q] = buffer[q]
    BY <2>1, <1>t, <1>h, PlacesAssumption DEF TypeOK, HolderInv
  <2>6. ASSUME NEW q \in Replicas \ {r}
        PROVE  (ChannelInv(q) /\ BusyInv(q) /\ AckInv(q) /\ RunInv(q))'
    <3>1. \A n \in Messages : place[n] = q => place'[n] = q
      BY <2>1, <2>5, PlacesAssumption
    <3>2. \A n \in Messages : Saved(n) => Saved(n)'
      BY <2>2 DEF Saved
    <3>3. QED
      BY <3>1, <3>2, <2>2, <2>5, <1>n, OtherReplica
  <2>7. (ChannelInv(r) /\ BusyInv(r) /\ AckInv(r) /\ RunInv(r))'
    <3>1. delivery[r] # NoDelivery => delivery[r].msg # m /\ delivery[r].msg \in Messages
      BY <2>1, <2>2, <1>i, <1>d, PlacesAssumption DEF ChannelInv, Held, Deliveries
    <3>2. delivery[r].msg # m
      BY <3>1, NobodyAssumption DEF NoDelivery
    <3>3. ChannelInv(r)'
      BY <3>1, <3>2, <2>2, <2>5, <1>i, <1>b DEF ChannelInv, Held
    <3>4. QED
      BY <3>3, <2>2, <1>i DEF BusyInv, AckInv, Saved, RunInv
  <2>8. ASSUME NEW n \in Messages \ {m}
        PROVE  (HolderInv(n) /\ SavedInv(n) /\ CountInv(n))'
    BY <2>2, <2>5, <1>n, OtherMessage
  <2>9. (HolderInv(m) /\ SavedInv(m) /\ CountInv(m))'
    BY <2>2, <2>5, <1>h, PlacesAssumption, WiresDiffer DEF HolderInv, SavedInv, CountInv
  <2>10. QED
    BY <2>4, <2>6, <2>7, <2>8, <2>9 DEF IInv
\* The channel of r goes away.
<1>k. ASSUME TakeBack(r), open' = [open EXCEPT ![r] = FALSE],
             UNCHANGED <<attempts, handled>>,
             \A q \in Replicas \ {r} :
                /\ pc'[q] = pc[q] /\ delivery'[q] = delivery[q] /\ buffer'[q] = buffer[q]
      PROVE  /\ \A q \in Replicas \ {r} : (ChannelInv(q) /\ BusyInv(q) /\ AckInv(q) /\ RunInv(q))'
             /\ \A m \in Messages : (HolderInv(m) /\ SavedInv(m) /\ CountInv(m))'
             /\ (ChannelInv(r) /\ AckInv(r) /\ RunInv(r))'
             /\ place' \in [Messages -> {"work", "retry", "gone"} \cup Replicas]
             /\ wire' \in [Messages -> Wires]
  <2>1. /\ UNCHANGED <<deaths, dead>> /\ ~open'[r]
        /\ \A q \in Replicas \ {r} : open'[q] = open[q]
        /\ \A m \in Messages :
             IF place[m] = r THEN place'[m] = "work" /\ wire'[m] = <<>>
             ELSE place'[m] = place[m] /\ wire'[m] = wire[m]
    BY <1>k, <1>t DEF TakeBack, TypeOK
  <2>2. ASSUME NEW q \in Replicas \ {r}
        PROVE  (ChannelInv(q) /\ BusyInv(q) /\ AckInv(q) /\ RunInv(q))'
    <3>1. \A n \in Messages : Saved(n) => Saved(n)'
      BY <1>k, <2>1 DEF Saved
    <3>2. \A n \in Messages : place[n] = q =>
               place'[n] = q /\ deaths'[n] = deaths[n] /\ wire'[n] = wire[n]
      BY <2>1
    <3>3. \A n \in Messages : attempts[n] <= attempts'[n] /\ attempts'[n] \in Nat
      BY <1>k, <1>n
    <3>4. /\ pc'[q] = pc[q] /\ delivery'[q] = delivery[q]
          /\ buffer'[q] = buffer[q] /\ open'[q] = open[q]
      BY <1>k, <2>1
    <3>5. QED
      BY <3>1, <3>2, <3>3, <3>4, OtherReplica
  <2>3. ASSUME NEW m \in Messages
        PROVE  (HolderInv(m) /\ SavedInv(m) /\ CountInv(m))'
    <3>1. CASE place[m] # r
      <4>1. place'[m] = place[m] /\ deaths'[m] = deaths[m] /\ wire'[m] = wire[m] /\ dead'[m] = dead[m]
        BY <3>1, <2>1
      <4>2. place[m] \in Replicas => open'[place[m]] = open[place[m]]
        BY <3>1, <2>1
      <4>3. attempts[m] <= attempts'[m] /\ attempts'[m] \in Nat
        BY <1>k, <1>n
      <4>4. QED
        BY <4>1, <4>2, <4>3, <1>k, OtherMessage
    <3>2. CASE place[m] = r
      BY <3>2, <1>k, <1>h, <2>1, PlacesAssumption, WiresDiffer DEF HolderInv, SavedInv, CountInv
    <3>3. QED
      BY <3>1, <3>2
  <2>4. (ChannelInv(r) /\ AckInv(r) /\ RunInv(r))'
    BY <2>1 DEF ChannelInv, AckInv, RunInv
  <2>5. /\ place' \in [Messages -> {"work", "retry", "gone"} \cup Replicas]
        /\ wire' \in [Messages -> Wires]
    BY <1>k, <1>t DEF TakeBack, TypeOK, Wires
  <2>6. QED
    BY <2>2, <2>3, <2>4, <2>5
<1>11. CASE CloseChannel(r)
  <2>1. /\ pc[r] = "closing" /\ TakeBack(r) /\ pc' = [pc EXCEPT ![r] = "stopped"]
        /\ open' = [open EXCEPT ![r] = FALSE] /\ UNCHANGED <<deaths, dead>>
        /\ UNCHANGED <<delivery, buffer, cancelled, attempts, handled, refused, faults, stops>>
    BY <1>11 DEF CloseChannel, TakeBack
  <2>2. BusyInv(r)'
    BY <2>1, <1>i, <1>t DEF BusyInv, TypeOK
  <2>3. QED
    BY <2>1, <2>2, <1>k, <1>t DEF IInv, TypeOK
<1>12. CASE ChannelBreaks(r)
  <2>1. /\ TakeBack(r) /\ open' = [open EXCEPT ![r] = FALSE] /\ UNCHANGED <<deaths, dead>>
        /\ UNCHANGED <<pc, delivery, buffer, cancelled, attempts, handled, refused, stops>>
        /\ faults' \in 0..MaxFaults
    BY <1>12, <1>t, ConsumerBoundsAssumption DEF ChannelBreaks, TakeBack, Fault, TypeOK
  <2>2. BusyInv(r)'
    BY <2>1, <1>i DEF BusyInv
  <2>3. QED
    BY <2>1, <2>2, <1>k, <1>t DEF IInv, TypeOK
<1>13. CASE Crash(r)
  <2>1. /\ TakeBack(r) /\ open' = [open EXCEPT ![r] = FALSE] /\ UNCHANGED <<deaths, dead>>
        /\ pc' = [pc EXCEPT ![r] = "stopped"] /\ delivery' = [delivery EXCEPT ![r] = NoDelivery]
        /\ buffer' = [buffer EXCEPT ![r] = {}]
        /\ UNCHANGED <<cancelled, attempts, handled, refused, stops>>
        /\ faults' \in 0..MaxFaults
    BY <1>13, <1>t, ConsumerBoundsAssumption DEF Crash, TakeBack, Fault, TypeOK
  <2>2. BusyInv(r)'
    BY <2>1, <1>t DEF BusyInv, TypeOK
  <2>3. QED
    BY <2>1, <2>2, <1>k, <1>t DEF IInv, TypeOK
<1>14. CASE Restart(r)
  <2>1. /\ pc[r] = "stopped" /\ pc' = [pc EXCEPT ![r] = "waiting"]
        /\ open' = [open EXCEPT ![r] = TRUE] /\ cancelled' = [cancelled EXCEPT ![r] = FALSE]
        /\ UNCHANGED <<place, deaths, dead, wire, delivery, buffer, attempts, handled, refused,
                       faults, stops>>
    BY <1>14 DEF Restart, Advance
  <2>2. ~open[r] /\ delivery[r] = NoDelivery /\ buffer[r] = {}
    BY <2>1, <1>i DEF ChannelInv, BusyInv
  <2>3. TypeOK' /\ pc'[r] = "waiting"
    BY <2>1, <1>t DEF TypeOK
  <2>4. \A q \in Replicas \ {r} : pc'[q] = pc[q] /\ open'[q] = open[q]
    BY <2>1, <1>t DEF TypeOK
  <2>5. ASSUME NEW q \in Replicas \ {r}
        PROVE  (ChannelInv(q) /\ BusyInv(q) /\ AckInv(q) /\ RunInv(q))'
    <3>1. \A n \in Messages : Saved(n) => Saved(n)'
      BY <2>1 DEF Saved
    <3>2. \A n \in Messages : attempts[n] <= attempts'[n] /\ attempts'[n] \in Nat
      BY <2>1, <1>n
    <3>3. QED
      BY <3>1, <3>2, <2>1, <2>4, OtherReplica
  <2>6. (ChannelInv(r) /\ BusyInv(r) /\ AckInv(r) /\ RunInv(r))'
    BY <2>1, <2>2, <2>3 DEF ChannelInv, BusyInv, AckInv, RunInv
  <2>7. ASSUME NEW m \in Messages
        PROVE  (HolderInv(m) /\ SavedInv(m) /\ CountInv(m))'
    <3>1. place[m] \in Replicas => open'[place[m]] = open[place[m]]
      BY <2>2, <2>4, <1>h DEF HolderInv
    <3>2. attempts[m] <= attempts'[m] /\ attempts'[m] \in Nat
      BY <2>1, <1>n
    <3>3. QED
      BY <3>1, <3>2, <2>1, OtherMessage
  <2>8. QED
    BY <2>3, <2>5, <2>6, <2>7 DEF IInv
<1>15. QED
  BY <1>1, <1>2, <1>3, <1>4, <1>5, <1>6, <1>7, <1>8, <1>9, <1>10, <1>11, <1>12, <1>13, <1>14
     DEF Consume, HandleDelivery, Disturb

----------------------------------------------------------------------------
\* The invariant holds for all values of the constants.
LEMMA Invariant == Spec => []IInv
<1>1. Init => IInv
  BY PlacesAssumption, LimitsAssumption, ConsumerBoundsAssumption
     DEF Init, IInv, TypeOK, Deliveries, NoDelivery, Counts, ChannelInv, Held, BusyInv, HolderInv, Saved, AckInv, SavedInv, CountInv, RunInv, Wires
<1>2. IInv /\ [Next]_vars => IInv'
  <2> SUFFICES ASSUME IInv, [Next]_vars PROVE IInv'
    OBVIOUS
  <2>1. CASE Next
    BY <2>1, StepOfMessage, StepOfReplica DEF Next
  <2>2. CASE UNCHANGED vars
    <3> USE <2>2 DEF vars, broker, loop, history
    <3>1. TypeOK'
      BY DEF IInv, TypeOK
    <3>2. \A r \in Replicas : ChannelInv(r)' /\ BusyInv(r)' /\ AckInv(r)' /\ RunInv(r)'
      BY DEF IInv, ChannelInv, Held, BusyInv, AckInv, Saved, RunInv
    <3>3. \A m \in Messages : HolderInv(m)' /\ SavedInv(m)' /\ CountInv(m)'
      BY DEF IInv, HolderInv, SavedInv, Saved, CountInv
    <3>4. QED
      BY <3>1, <3>2, <3>3 DEF IInv
  <2>3. QED
    BY <2>1, <2>2
<1>3. QED
  BY <1>1, <1>2, PTL DEF Spec

\* Every variable stays in its domain; in particular a replica never has more
\* under way about a message than one verdict, or a copy and its
\* acknowledgement.
THEOREM ConsumerTypeCorrect == Spec => []TypeOK
<1>1. IInv => TypeOK
  BY DEF IInv
<1>2. QED
  BY <1>1, Invariant, PTL

\* For any number of replicas, faults and stops: a message that has left the
\* queues was finished by a handler or has a copy in the dead queue.
THEOREM NothingIsLost == Spec => []NoMessageLost
<1>1. IInv => NoMessageLost
  BY DEF IInv, SavedInv, Saved, NoMessageLost
<1>2. QED
  BY <1>1, Invariant, PTL

\* For any retry limit: no message is parked before the handler was run
\* MaxRetries + 1 times for it.
THEOREM NothingIsParkedEarly == Spec => []ParkedOnlyWhenExhausted
<1>1. IInv => ParkedOnlyWhenExhausted
  BY DEF IInv, CountInv, ParkedOnlyWhenExhausted
<1>2. QED
  BY <1>1, Invariant, PTL

----------------------------------------------------------------------------
\* How often a message is run and parked.  Each of the numbers below is about the
\* message alone and the replica that holds it, so a bound per message is inductive.

\* The replica that holds m is working on it.
AtWork(m) == place[m] \in Replicas /\ delivery[place[m]].msg = m
Refusing(m) == AtWork(m) /\ pc[place[m]] = "refuse"

\* Its last run is over, for good if the broker hears of it.
Ended(m) == place[m] = "gone" \/ wire[m] \in {<<"ack">>, <<"dead">>, <<"dead", "ack">>}
Final(m) == Ended(m) \/ (AtWork(m) /\ pc[place[m]] = "ack")

\* Rejections counted in x-death or about to be, and those of them that are due to the
\* handler and not to a copy that could not be published.
Rejections(m) == deaths[m].rejected + IF wire[m] = <<"nack">> THEN 1 ELSE 0
Rounds(m) == IF Rejections(m) <= MaxRetries THEN Rejections(m) ELSE MaxRetries
LastRun(m) == IF AtWork(m) \/ Ended(m) THEN 1 ELSE 0

\* Copies in the dead queue or on the way there.
Copies(m) == dead[m] + IF wire[m] \in {<<"dead">>, <<"dead", "ack">>} THEN 1 ELSE 0

\* Replicas that may still run a delivery of m which the broker has taken back.
Stale(m) == {r \in Replicas : ~open[r] /\ \E d \in buffer[r] : d.msg = m}

\* A run ends in a round, is the last one, or was wasted by a fault; a delivery that was
\* taken back may yet waste one.
AttemptsInv(m) ==
    /\ IsFiniteSet(Stale(m))
    /\ attempts[m] + Cardinality(Stale(m)) <= Rounds(m) + LastRun(m) + faults

\* Every copy but the last was followed by a fault that kept its acknowledgement.
CopiesInv(m) == Copies(m) <= faults + IF Final(m) THEN 1 ELSE 0

SendsInv(m) == wire[m] = <<"dead">> => AtWork(m)

\* As long as nobody is stopped, a rejection is preceded by a failure of the handler.
RefusalInv(m) ==
    stops = 0 => Rejections(m) + (IF Refusing(m) THEN 1 ELSE 0) <= refused[m]

MessageInv(m) == AttemptsInv(m) /\ CopiesInv(m) /\ SendsInv(m) /\ RefusalInv(m)

ReplicaInv(r) ==
    /\ \A d, e \in buffer[r] : d.msg = e.msg => d = e
    /\ stops = 0 => ~cancelled[r]

NumbersInv ==
    /\ \A m \in Messages : MessageInv(m)
    /\ \A r \in Replicas : ReplicaInv(r)

LEMMA NumbersAreNatural ==
    ASSUME TypeOK, NEW m \in Messages
    PROVE  /\ deaths[m].rejected \in Nat /\ Rejections(m) \in Nat /\ Rounds(m) \in Nat
           /\ Rounds(m) <= MaxRetries /\ LastRun(m) \in {0, 1}
           /\ Copies(m) \in Nat /\ attempts[m] \in Nat /\ dead[m] \in Nat /\ refused[m] \in Nat
           /\ faults \in Nat /\ stops \in Nat
<1>1. deaths[m] \in Counts /\ attempts[m] \in Nat /\ dead[m] \in Nat /\ refused[m] \in Nat
      /\ faults \in Nat /\ stops \in Nat
  BY ConsumerBoundsAssumption DEF TypeOK
<1> QED
  BY <1>1, LimitsAssumption DEF Counts, Rejections, Rounds, LastRun, Copies

\* The holder at work has the channel the delivery came by, and has sent nothing but
\* perhaps the copy.
LEMMA HolderAtWork ==
    ASSUME IInv, NEW m \in Messages, AtWork(m), NEW r, r = place[m]
    PROVE  /\ r \in Replicas /\ open[r] /\ delivery[r] \in Deliveries
           /\ delivery[r].deaths = deaths[m]
           /\ pc[r] \in {"handling", "refuse", "ack"}
           /\ pc[r] # "ack" => wire[m] = <<>>
           /\ pc[r] = "ack" => wire[m] \in {<<>>, <<"dead">>}
           /\ \A d \in buffer[r] : d.msg # m
<1>1. r \in Replicas /\ delivery[r].msg = m /\ delivery[r] # NoDelivery
  BY NobodyAssumption DEF AtWork, NoDelivery
<1>2. /\ TypeOK /\ ChannelInv(r) /\ BusyInv(r) /\ open[r]
      /\ pc[r] \in {"waiting", "handling", "refuse", "ack", "closing", "stopped"}
  BY <1>1 DEF IInv, HolderInv, TypeOK
<1>3. delivery[r] \in Deliveries /\ pc[r] \in {"handling", "refuse", "ack"}
  BY <1>1, <1>2 DEF TypeOK, BusyInv
<1> QED
  BY <1>1, <1>2, <1>3 DEF ChannelInv, Held

\* What a replica works on it holds, unless its channel is gone: then it holds nothing.
LEMMA WorkIsHeld ==
    ASSUME IInv, NEW r \in Replicas, pc[r] \in {"handling", "refuse", "ack"}
    PROVE  /\ delivery[r] \in Deliveries /\ delivery[r].msg \in Messages
           /\ open[r] => AtWork(delivery[r].msg) /\ place[delivery[r].msg] = r
           /\ ~open[r] => \A m \in Messages : place[m] # r
<1>1. TypeOK /\ ChannelInv(r) /\ BusyInv(r)
  BY DEF IInv
<1>2. delivery[r] # NoDelivery /\ delivery[r] \in Deliveries
  BY <1>1 DEF BusyInv, TypeOK
<1>3. delivery[r].msg \in Messages
  BY <1>2 DEF Deliveries
<1>4. open[r] => place[delivery[r].msg] = r
  BY <1>1, <1>2 DEF ChannelInv, Held
<1>5. ~open[r] => \A m \in Messages : place[m] # r
  BY DEF IInv, HolderInv
<1> QED
  BY <1>2, <1>3, <1>4, <1>5 DEF AtWork

----------------------------------------------------------------------------
\* A step that is not about m: what the broker has of it stays, and its holder goes no
\* step back.
LEMMA UntouchedMessage ==
    ASSUME IInv, IInv', NEW m \in Messages, MessageInv(m),
           /\ place'[m] = place[m] /\ deaths'[m] = deaths[m] /\ wire'[m] = wire[m]
           /\ dead'[m] = dead[m] /\ attempts'[m] = attempts[m] /\ faults <= faults',
           Stale(m)' \subseteq Stale(m),
           AtWork(m) => AtWork(m)',
           AtWork(m) /\ pc[place[m]] = "ack" => pc'[place[m]] = "ack",
           stops' = 0 =>
             /\ stops = 0 /\ refused[m] <= refused'[m]
             /\ Refusing(m)' => Refusing(m) \/ refused[m] < refused'[m]
    PROVE  MessageInv(m)'
<1>1. TypeOK /\ TypeOK'
  BY DEF IInv
<1>2. /\ Rejections(m) \in Nat /\ Rounds(m) \in Nat /\ LastRun(m) \in {0, 1} /\ Copies(m) \in Nat
      /\ attempts[m] \in Nat /\ faults \in Nat /\ refused[m] \in Nat
  BY <1>1, NumbersAreNatural
<1>3. faults' \in Nat /\ refused'[m] \in Nat /\ LastRun(m)' \in {0, 1}
  BY <1>1, ConsumerBoundsAssumption DEF LastRun, TypeOK
<1>4. Rejections(m)' = Rejections(m) /\ Rounds(m)' = Rounds(m) /\ Copies(m)' = Copies(m)
      /\ (Ended(m) <=> Ended(m)')
  BY DEF Rejections, Rounds, Copies, Ended
<1>5. LastRun(m) <= LastRun(m)' /\ (Final(m) => Final(m)')
  BY <1>4 DEF LastRun, Final
<1>6. IsFiniteSet(Stale(m)') /\ Cardinality(Stale(m)') <= Cardinality(Stale(m))
      /\ Cardinality(Stale(m)') \in Nat /\ Cardinality(Stale(m)) \in Nat
  BY FS_Subset, FS_CardinalityType DEF MessageInv, AttemptsInv
<1>7. AttemptsInv(m)'
  BY <1>2, <1>3, <1>4, <1>5, <1>6 DEF MessageInv, AttemptsInv
<1>8. CopiesInv(m)'
  BY <1>2, <1>3, <1>4, <1>5 DEF MessageInv, CopiesInv
<1>9. SendsInv(m)'
  BY DEF MessageInv, SendsInv
<1>10. RefusalInv(m)'
  BY <1>2, <1>3, <1>4 DEF MessageInv, RefusalInv
<1> QED
  BY <1>7, <1>8, <1>9, <1>10 DEF MessageInv

\* A frame about m arrives, or its delay is over.
LEMMA BrokerKeepsNumbers ==
    ASSUME IInv, IInv', NumbersInv, NEW m \in Messages, FrameArrives(m) \/ RetryExpires(m)
    PROVE  NumbersInv'
<1>t. TypeOK /\ TypeOK'
  BY DEF IInv
<1>u. UNCHANGED <<pc, delivery, buffer, open, cancelled, attempts, handled, refused, faults, stops>>
  BY DEF FrameArrives, RetryExpires, loop, history
<1>1. ASSUME NEW n \in Messages, n # m
      PROVE  MessageInv(n)'
  <2>1. /\ place'[n] = place[n] /\ deaths'[n] = deaths[n] /\ wire'[n] = wire[n]
        /\ dead'[n] = dead[n]
    <3>1. CASE FrameArrives(m)
      <4>1. wire'[n] = wire[n]
        BY <1>1, <1>t, <3>1 DEF FrameArrives, TypeOK
      <4> QED
        BY <1>1, <1>t, <3>1, <4>1, FrameEffect DEF TypeOK
    <3>2. CASE RetryExpires(m)
      BY <1>1, <1>t, <3>2 DEF RetryExpires, TypeOK
    <3> QED
      BY <3>1, <3>2
  <2>2. attempts'[n] = attempts[n] /\ refused'[n] = refused[n] /\ faults' = faults
    BY <1>u
  <2>3. Stale(n)' = Stale(n) /\ (AtWork(n)' <=> AtWork(n)) /\ (Refusing(n)' <=> Refusing(n))
    BY <1>u, <2>1 DEF Stale, AtWork, Refusing
  <2>4. MessageInv(n) /\ faults \in Nat /\ refused[n] \in Nat
    BY <1>t, NumbersAreNatural DEF NumbersInv
  <2> QED
    BY <1>u, <2>1, <2>2, <2>3, <2>4, UntouchedMessage
<1>2. MessageInv(m)'
  <2>n. /\ Rejections(m) \in Nat /\ Rounds(m) \in Nat /\ LastRun(m) \in {0, 1}
        /\ Copies(m) \in Nat /\ deaths[m].rejected \in Nat /\ dead[m] \in Nat
    BY <1>t, NumbersAreNatural
  <2>i. AttemptsInv(m) /\ CopiesInv(m) /\ SendsInv(m) /\ RefusalInv(m)
    BY DEF NumbersInv, MessageInv
  <2>s. Stale(m)' = Stale(m)
    BY <1>u DEF Stale
\* It is enough that no number grows and that the last run stays the last.
  <2>q. ASSUME Rounds(m)' = Rounds(m), LastRun(m)' = LastRun(m), Copies(m)' = Copies(m),
               Final(m) => Final(m)', wire'[m] # <<"dead">>,
               Rejections(m)' = Rejections(m), Refusing(m)' => Refusing(m)
        PROVE  MessageInv(m)'
    <3>1. AttemptsInv(m)'
      BY <1>u, <2>i, <2>s, <2>q DEF AttemptsInv
    <3>2. CopiesInv(m)'
      BY <1>u, <2>i, <2>q, <2>n, <1>t, NumbersAreNatural DEF CopiesInv
    <3>3. RefusalInv(m)'
      BY <1>u, <2>i, <2>q, <2>n, <1>t, NumbersAreNatural DEF RefusalInv
    <3> QED
      BY <2>q, <3>1, <3>2, <3>3 DEF MessageInv, SendsInv
  <2>1. CASE RetryExpires(m)
    <3>1. /\ place[m] = "retry" /\ place'[m] = "work" /\ wire'[m] = wire[m] /\ dead'[m] = dead[m]
          /\ deaths'[m].rejected = deaths[m].rejected
      <4>1. place[m] = "retry" /\ place'[m] = "work" /\ UNCHANGED <<wire, dead>>
        BY <1>t, <2>1 DEF RetryExpires, TypeOK
      <4>2. deaths' = [deaths EXCEPT ![m].expired = @ + 1] /\ deaths \in [Messages -> Counts]
        BY <1>t, <2>1 DEF RetryExpires, TypeOK
      <4> QED
        BY <4>1, <4>2 DEF Counts
    <3>2. ~AtWork(m) /\ ~AtWork(m)' /\ wire[m] = <<>>
      BY <3>1, PlacesAssumption DEF AtWork, IInv, HolderInv
    <3> QED
      BY <2>q, <3>1, <3>2, WiresDiffer
         DEF Rejections, Rounds, LastRun, Copies, Ended, Final, Refusing
  <2>2. CASE FrameArrives(m)
    <3>h. place[m] \in Replicas
      BY <2>2, <1>t DEF IInv, HolderInv, FrameArrives
    <3>1. CASE wire[m] = <<"ack">> /\ wire'[m] = <<>>
               /\ place' = [place EXCEPT ![m] = "gone"] /\ UNCHANGED <<deaths, dead>>
      <4>1. place'[m] = "gone" /\ ~AtWork(m)'
        BY <1>t, <3>1, PlacesAssumption DEF TypeOK, AtWork
      <4> QED
        BY <2>q, <3>1, <4>1, WiresDiffer
           DEF Rejections, Rounds, LastRun, Copies, Ended, Final, Refusing
    <3>2. CASE /\ wire[m] = <<"nack">> /\ wire'[m] = <<>>
               /\ place' = [place EXCEPT ![m] = "retry"] /\ UNCHANGED dead
               /\ deaths'[m].rejected = deaths[m].rejected + 1
      <4>1. place'[m] = "retry" /\ ~AtWork(m)'
        BY <1>t, <3>2, PlacesAssumption DEF TypeOK, AtWork
      <4>2. ~AtWork(m)
        BY <3>2, <3>h, HolderAtWork, WiresDiffer
      <4>3. place[m] # "gone"
        BY <3>h, PlacesAssumption
      <4> QED
        BY <2>n, <2>q, <3>2, <4>1, <4>2, <4>3, WiresDiffer
           DEF Rejections, Rounds, LastRun, Copies, Ended, Final, Refusing
    <3>3. CASE /\ wire[m] \in {<<"dead">>, <<"dead", "ack">>}
               /\ wire'[m] = IF wire[m] = <<"dead">> THEN <<>> ELSE <<"ack">>
               /\ dead' = [dead EXCEPT ![m] = @ + 1] /\ UNCHANGED <<place, deaths>>
      <4>1. dead'[m] = dead[m] + 1
        BY <1>t, <3>3 DEF TypeOK
      <4>2. (AtWork(m)' <=> AtWork(m)) /\ (Refusing(m)' <=> Refusing(m))
        BY <1>u, <3>3 DEF AtWork, Refusing
      <4>3. CASE wire[m] = <<"dead">>
        <5>1. AtWork(m) /\ pc[place[m]] = "ack"
          BY <2>i, <4>3, <3>h, HolderAtWork, WiresDiffer DEF SendsInv
        <5>2. Final(m)' /\ LastRun(m)' = 1 /\ LastRun(m) = 1
          BY <1>u, <3>3, <4>2, <4>3, <5>1 DEF Final, AtWork, LastRun
        <5>3. wire'[m] = <<>>
          BY <3>3, <4>3
        <5>4. Copies(m)' = Copies(m)
          BY <2>n, <4>1, <4>3, <5>3, WiresDiffer DEF Copies
        <5> QED
          BY <2>q, <3>3, <4>2, <4>3, <5>2, <5>3, <5>4, WiresDiffer DEF Rejections, Rounds
      <4>4. CASE wire[m] = <<"dead", "ack">>
        <5>1. wire'[m] = <<"ack">>
          BY <3>3, <4>4, WiresDiffer
        <5>2. Ended(m) /\ Ended(m)'
          BY <4>4, <5>1 DEF Ended
        <5>3. Copies(m)' = Copies(m)
          BY <2>n, <4>1, <4>4, <5>1, WiresDiffer DEF Copies
        <5> QED
          BY <2>q, <3>3, <4>2, <4>4, <5>1, <5>2, <5>3, WiresDiffer
             DEF Rejections, Rounds, Final, LastRun
      <4> QED
        BY <3>3, <4>3, <4>4
    <3> QED
      BY <1>t, <2>2, <3>1, <3>2, <3>3, FrameEffect
  <2> QED
    BY <2>1, <2>2
<1>3. ASSUME NEW r \in Replicas PROVE ReplicaInv(r)'
  BY <1>u DEF NumbersInv, ReplicaInv
<1> QED
  BY <1>1, <1>2, <1>3 DEF NumbersInv

\* The replicas a step of r is not about.
OthersKeep(r) ==
    \A q \in Replicas \ {r} :
        /\ pc'[q] = pc[q] /\ delivery'[q] = delivery[q]
        /\ buffer'[q] = buffer[q] /\ open'[q] = open[q]

\* r only looks at its delivery or its context.
LEMMA QuietStepsKeepNumbers ==
    ASSUME IInv, IInv', NumbersInv, NEW r \in Replicas,
           \/ StopRequested(r) \/ HandlerSucceeds(r) \/ HandlerFails(r) \/ HandlerCancelled(r)
           \/ DeliveryClosed(r) \/ LoopCancelled(r) \/ Restart(r)
    PROVE  NumbersInv'
<1> USE DEF broker, loop, history
<1>t. TypeOK /\ TypeOK' /\ BusyInv(r) /\ ReplicaInv(r)
  BY DEF IInv, NumbersInv
<1>1. /\ UNCHANGED <<place, deaths, dead, wire, delivery, attempts, faults>> /\ OthersKeep(r)
      /\ buffer'[r] \in {buffer[r], {}}
      /\ open'[r] = open[r] \/ buffer'[r] = {}
      /\ pc[r] = "ack" => pc'[r] = "ack"
  BY <1>t DEF StopRequested, HandlerSucceeds, HandlerFails, HandlerCancelled, DeliveryClosed,
              LoopCancelled, Restart, Advance, TypeOK, BusyInv, OthersKeep
<1>2. ASSUME stops' = 0
      PROVE  /\ stops = 0 /\ \A q \in Replicas : cancelled'[q] => cancelled[q]
             /\ \A m \in Messages : refused[m] <= refused'[m]
             /\ \/ pc'[r] = "refuse" => pc[r] = "refuse"
                \/ pc[r] = "handling" /\ refused[delivery[r].msg] < refused'[delivery[r].msg]
  <2>1. stops = 0 /\ ~StopRequested(r)
    BY <1>2, <1>t, ConsumerBoundsAssumption
       DEF StopRequested, HandlerSucceeds, HandlerFails, HandlerCancelled, DeliveryClosed,
           LoopCancelled, Restart, TypeOK
  <2>2. ~HandlerCancelled(r)
    BY <1>t, <2>1 DEF HandlerCancelled, ReplicaInv
  <2>3. CASE HandlerFails(r)
    <3>1. /\ pc[r] = "handling" /\ UNCHANGED cancelled
          /\ refused' = [refused EXCEPT ![delivery[r].msg] = @ + 1]
      BY <2>3 DEF HandlerFails, Advance
    <3>2. delivery[r].msg \in Messages /\ refused \in [Messages -> Nat]
      BY <1>t, <3>1, WorkIsHeld DEF TypeOK
    <3> QED
      BY <2>1, <3>1, <3>2
  <2>4. CASE HandlerSucceeds(r) \/ DeliveryClosed(r) \/ LoopCancelled(r) \/ Restart(r)
    <3>1. UNCHANGED refused /\ \A m \in Messages : refused[m] \in Nat
      BY <1>t, <2>4 DEF HandlerSucceeds, DeliveryClosed, LoopCancelled, Restart, TypeOK
    <3>2. \A q \in Replicas : cancelled'[q] => cancelled[q]
      BY <1>t, <2>4 DEF HandlerSucceeds, DeliveryClosed, LoopCancelled, Restart, TypeOK
    <3>3. pc'[r] # "refuse"
      BY <1>t, <2>4 DEF HandlerSucceeds, DeliveryClosed, LoopCancelled, Restart, Advance, TypeOK
    <3> QED
      BY <2>1, <3>1, <3>2, <3>3
  <2> QED
    BY <2>1, <2>2, <2>3, <2>4
<1>3. ASSUME NEW m \in Messages
      PROVE  MessageInv(m)'
  <2>1. MessageInv(m) /\ faults <= faults'
    BY <1>1, <1>t, NumbersAreNatural DEF NumbersInv
  <2>2. Stale(m)' \subseteq Stale(m)
    BY <1>1 DEF Stale, OthersKeep
  <2>3. AtWork(m)' <=> AtWork(m)
    BY <1>1 DEF AtWork
  <2>4. AtWork(m) /\ pc[place[m]] = "ack" => pc'[place[m]] = "ack"
    BY <1>1 DEF AtWork, OthersKeep
  <2>5. stops' = 0 =>
          /\ stops = 0 /\ refused[m] <= refused'[m]
          /\ Refusing(m)' => Refusing(m) \/ refused[m] < refused'[m]
    BY <1>1, <1>2, <2>3 DEF Refusing, AtWork, OthersKeep
  <2> QED
    BY <1>1, <2>1, <2>2, <2>3, <2>4, <2>5, UntouchedMessage
<1>4. ASSUME NEW q \in Replicas
      PROVE  ReplicaInv(q)'
  BY <1>1, <1>2 DEF NumbersInv, ReplicaInv, OthersKeep
<1> QED
  BY <1>3, <1>4 DEF NumbersInv

\* r gets a message from the broker: nobody has run it since it was taken back.
LEMMA DeliverKeepsNumbers ==
    ASSUME IInv, IInv', NumbersInv, NEW r \in Replicas, Deliver(r)
    PROVE  NumbersInv'
<1> USE DEF history
<1>t. TypeOK /\ TypeOK' /\ ChannelInv(r) /\ BusyInv(r)
  BY DEF IInv
<1>1. PICK m \in Messages :
        /\ place[m] = "work" /\ place' = [place EXCEPT ![m] = r]
        /\ buffer' = [buffer EXCEPT ![r] = @ \cup {[msg |-> m, deaths |-> deaths[m]]}]
  BY DEF Deliver
<1>2. /\ open[r]
      /\ UNCHANGED <<deaths, dead, wire, pc, delivery, open, cancelled, attempts, refused, faults,
                     stops>>
  BY DEF Deliver
<1>3. /\ place'[m] = r /\ \A n \in Messages \ {m} : place'[n] = place[n]
      /\ buffer'[r] = buffer[r] \cup {[msg |-> m, deaths |-> deaths[m]]}
      /\ \A q \in Replicas \ {r} : buffer'[q] = buffer[q]
  BY <1>1, <1>t DEF TypeOK
<1>4. ASSUME NEW n \in Messages PROVE Stale(n)' = Stale(n)
  BY <1>2, <1>3 DEF Stale
<1>5. ASSUME NEW n \in Messages \ {m}
      PROVE  MessageInv(n)'
  <2>1. MessageInv(n) /\ faults \in Nat /\ refused[n] \in Nat
    BY <1>t, NumbersAreNatural DEF NumbersInv
  <2>2. (AtWork(n)' <=> AtWork(n)) /\ (Refusing(n)' <=> Refusing(n))
    BY <1>2, <1>3 DEF AtWork, Refusing
  <2>3. place'[n] = place[n] /\ faults <= faults' /\ refused[n] <= refused'[n]
    BY <1>2, <1>3, <2>1
  <2> QED
    BY <1>2, <1>4, <2>1, <2>2, <2>3, UntouchedMessage
<1>6. MessageInv(m)'
  <2>1. wire[m] = <<>> /\ ~AtWork(m) /\ ~Ended(m) /\ ~Final(m)
    BY <1>1, PlacesAssumption, WiresDiffer DEF IInv, HolderInv, AtWork, Ended, Final
  <2>2. ~AtWork(m)' /\ ~Ended(m)' /\ ~Refusing(m)'
    <3>1. delivery[r].msg # m
      <4>1. CASE delivery[r] = NoDelivery
        BY <4>1, NobodyAssumption DEF NoDelivery
      <4>2. CASE delivery[r] # NoDelivery
        BY <1>1, <1>2, <1>t, <4>2, PlacesAssumption DEF ChannelInv, Held
      <4> QED
        BY <4>1, <4>2
    <3> QED
      BY <1>2, <1>3, <2>1, <3>1, PlacesAssumption, WiresDiffer DEF AtWork, Ended, Refusing
  <2>3. /\ Rejections(m)' = Rejections(m) /\ Rounds(m)' = Rounds(m) /\ Copies(m)' = Copies(m)
        /\ LastRun(m)' = LastRun(m)
    BY <1>2, <2>1, <2>2 DEF Rejections, Rounds, Copies, LastRun
  <2>4. AttemptsInv(m) /\ CopiesInv(m) /\ RefusalInv(m) /\ Rejections(m) \in Nat
        /\ refused[m] \in Nat /\ Copies(m) \in Nat /\ faults \in Nat
    BY <1>t, NumbersAreNatural DEF NumbersInv, MessageInv
  <2>5. AttemptsInv(m)'
    BY <1>2, <1>4, <2>3, <2>4 DEF AttemptsInv
  <2>6. CopiesInv(m)'
    BY <1>2, <2>1, <2>3, <2>4 DEF CopiesInv
  <2>7. SendsInv(m)' /\ RefusalInv(m)'
    BY <1>2, <2>1, <2>2, <2>3, <2>4, WiresDiffer DEF SendsInv, RefusalInv
  <2> QED
    BY <2>5, <2>6, <2>7 DEF MessageInv
<1>7. ASSUME NEW q \in Replicas PROVE ReplicaInv(q)'
  <2>1. \A d \in buffer[r] : d.msg # m
    BY <1>1, <1>2, <1>t, PlacesAssumption DEF ChannelInv, Held
  <2> QED
    BY <1>2, <1>3, <2>1 DEF NumbersInv, ReplicaInv
<1> QED
  BY <1>5, <1>6, <1>7 DEF NumbersInv

\* r takes a delivery: the broker's, and then it is a run of its own, or one that was
\* taken back, and then a fault has paid for it.
LEMMA ReceiveKeepsNumbers ==
    ASSUME IInv, IInv', NumbersInv, NEW r \in Replicas, Receive(r)
    PROVE  NumbersInv'
<1> USE DEF broker
<1>t. TypeOK /\ TypeOK' /\ ChannelInv(r) /\ BusyInv(r) /\ ReplicaInv(r)
  BY DEF IInv, NumbersInv
<1>1. PICK d \in buffer[r] :
        /\ buffer' = [buffer EXCEPT ![r] = @ \ {d}]
        /\ delivery' = [delivery EXCEPT ![r] = d]
        /\ attempts' = [attempts EXCEPT ![d.msg] = @ + 1]
  BY DEF Receive
<1>2. /\ pc[r] = "waiting" /\ pc' = [pc EXCEPT ![r] = "handling"]
      /\ UNCHANGED <<place, deaths, dead, wire, open, cancelled, refused, faults, stops>>
  BY DEF Receive
<1> DEFINE m == d.msg
<1>3. /\ m \in Messages /\ delivery[r] = NoDelivery
      /\ pc'[r] = "handling" /\ delivery'[r] = d /\ buffer'[r] = buffer[r] \ {d}
      /\ attempts'[m] = attempts[m] + 1
      /\ \A n \in Messages \ {m} : attempts'[n] = attempts[n]
      /\ \A q \in Replicas \ {r} :
            pc'[q] = pc[q] /\ delivery'[q] = delivery[q] /\ buffer'[q] = buffer[q]
  BY <1>1, <1>2, <1>t DEF TypeOK, Deliveries, BusyInv
<1>4. \A n \in Messages : AtWork(n) => place[n] # r
  BY <1>3, NobodyAssumption DEF AtWork, NoDelivery
<1>5. ASSUME NEW n \in Messages \ {m}
      PROVE  MessageInv(n)'
  <2>1. MessageInv(n) /\ faults \in Nat /\ refused[n] \in Nat
    BY <1>t, NumbersAreNatural DEF NumbersInv
  <2>2. Stale(n)' \subseteq Stale(n)
    BY <1>2, <1>3 DEF Stale
  <2>3. AtWork(n)' <=> AtWork(n)
    BY <1>2, <1>3, <1>4 DEF AtWork
  <2>4. AtWork(n) => pc'[place[n]] = pc[place[n]]
    BY <1>3, <1>4 DEF AtWork
  <2>5. Refusing(n)' <=> Refusing(n)
    BY <1>2, <2>3, <2>4 DEF Refusing
  <2>6. attempts'[n] = attempts[n] /\ faults <= faults' /\ refused[n] <= refused'[n]
    BY <1>2, <1>3, <2>1
  <2> QED
    BY <1>2, <2>1, <2>2, <2>3, <2>4, <2>5, <2>6, UntouchedMessage
<1>6. MessageInv(m)'
  <2>n. /\ AttemptsInv(m) /\ CopiesInv(m) /\ SendsInv(m) /\ RefusalInv(m)
        /\ Rounds(m) \in Nat /\ LastRun(m) \in {0, 1} /\ attempts[m] \in Nat /\ faults \in Nat
        /\ Copies(m) \in Nat /\ Rejections(m) \in Nat /\ refused[m] \in Nat
    BY <1>3, <1>t, NumbersAreNatural DEF NumbersInv, MessageInv
  <2>f. IsFiniteSet(Stale(m)) /\ Cardinality(Stale(m)) \in Nat
    BY <2>n, FS_CardinalityType DEF AttemptsInv
  <2>1. /\ Rejections(m)' = Rejections(m) /\ Rounds(m)' = Rounds(m) /\ Copies(m)' = Copies(m)
        /\ (Ended(m)' <=> Ended(m))
    BY <1>2 DEF Rejections, Rounds, Copies, Ended
  <2>2. CASE open[r]
    <3>1. place[m] = r /\ wire[m] = <<>>
      BY <1>t, <2>2 DEF ChannelInv, Held
    <3>2. ~AtWork(m) /\ ~Ended(m) /\ AtWork(m)'
      BY <1>2, <1>3, <1>4, <3>1, PlacesAssumption, WiresDiffer DEF AtWork, Ended
    <3>3. ~Refusing(m)' /\ ~Final(m)
      BY <1>2, <1>3, <3>1, <3>2 DEF Refusing, Final
    <3>4. Stale(m)' = Stale(m)
      BY <1>2, <1>3, <2>2 DEF Stale
    <3>5. LastRun(m) = 0 /\ LastRun(m)' = 1
      BY <3>2 DEF LastRun
    <3>6. AttemptsInv(m)'
      BY <1>2, <1>3, <2>1, <2>n, <2>f, <3>4, <3>5 DEF AttemptsInv
    <3>7. CopiesInv(m)'
      BY <1>2, <2>1, <2>n, <3>3 DEF CopiesInv
    <3>8. SendsInv(m)' /\ RefusalInv(m)'
      BY <1>2, <2>1, <2>n, <3>2, <3>3 DEF SendsInv, RefusalInv
    <3> QED
      BY <3>6, <3>7, <3>8 DEF MessageInv
  <2>3. CASE ~open[r]
    <3>1. place[m] # r
      BY <1>3, <2>3 DEF IInv, HolderInv
    <3>2. (AtWork(m)' <=> AtWork(m)) /\ (AtWork(m) => pc'[place[m]] = pc[place[m]])
      BY <1>2, <1>3, <3>1 DEF AtWork
    <3>3. (Final(m)' <=> Final(m)) /\ (Refusing(m)' <=> Refusing(m)) /\ LastRun(m)' = LastRun(m)
      BY <1>2, <2>1, <3>2 DEF Final, Refusing, LastRun
    <3>4. r \in Stale(m) /\ Stale(m)' = Stale(m) \ {r}
      BY <1>2, <1>3, <1>t, <2>3 DEF Stale, ReplicaInv
    <3>5. IsFiniteSet(Stale(m)') /\ Cardinality(Stale(m)') = Cardinality(Stale(m)) - 1
      BY <2>f, <3>4, FS_RemoveElement
    <3>6. AttemptsInv(m)'
      BY <1>2, <1>3, <2>1, <2>n, <2>f, <3>3, <3>5 DEF AttemptsInv
    <3>7. CopiesInv(m)'
      BY <1>2, <2>1, <2>n, <3>3 DEF CopiesInv
    <3>8. SendsInv(m)' /\ RefusalInv(m)'
      BY <1>2, <2>1, <2>n, <3>2, <3>3 DEF SendsInv, RefusalInv
    <3> QED
      BY <3>6, <3>7, <3>8 DEF MessageInv
  <2> QED
    BY <2>2, <2>3
<1>7. ASSUME NEW q \in Replicas PROVE ReplicaInv(q)'
  BY <1>2, <1>3 DEF NumbersInv, ReplicaInv
<1> QED
  BY <1>3, <1>5, <1>6, <1>7 DEF NumbersInv

\* r sends its verdict, or the copy.  The message stays where it is until the frame
\* arrives; a rejection ends a round, unless it stands for a copy that failed.
LEMMA SendsKeepNumbers ==
    ASSUME IInv, IInv', NumbersInv, NEW r \in Replicas,
           Ack(r) \/ Nack(r) \/ ToDeadLetter(r) \/ ToDeadLetterFails(r)
    PROVE  NumbersInv'
<1> USE DEF EndDelivery, history
<1>t. TypeOK /\ TypeOK'
  BY DEF IInv
<1>w. pc[r] \in {"handling", "refuse", "ack"}
  BY DEF Ack, Nack, ToDeadLetter, ToDeadLetterFails, Advance
<1>m. PICK m \in Messages : m = delivery[r].msg
  BY <1>w, WorkIsHeld
<1>1. /\ UNCHANGED <<place, deaths, dead, buffer, open, cancelled, attempts, refused, stops>>
      /\ faults' \in {faults, faults + 1}
      /\ \A q \in Replicas \ {r} : pc'[q] = pc[q] /\ delivery'[q] = delivery[q]
      /\ \A n \in Messages \ {m} : wire'[n] = wire[n]
      /\ ~open[r] => UNCHANGED wire
  BY <1>m, <1>t DEF Ack, Nack, ToDeadLetter, ToDeadLetterFails, Advance, Send, Fault, TypeOK
<1>2. ASSUME NEW n \in Messages, wire'[n] = wire[n], ~AtWork(n) \/ place[n] # r
      PROVE  MessageInv(n)'
  <2>1. MessageInv(n) /\ faults \in Nat /\ refused[n] \in Nat
    BY <1>t, NumbersAreNatural DEF NumbersInv
  <2>2. /\ Stale(n)' = Stale(n) /\ (AtWork(n) => AtWork(n)')
        /\ AtWork(n) => pc'[place[n]] = pc[place[n]]
    BY <1>1, <1>2 DEF Stale, AtWork
  <2>3. Refusing(n)' => Refusing(n)
    <3>1. CASE place[n] = r
      <4>1. pc'[r] # "refuse"
        BY <1>t DEF Ack, Nack, ToDeadLetter, ToDeadLetterFails, Advance, TypeOK
      <4> QED
        BY <1>1, <3>1, <4>1 DEF Refusing
    <3>2. CASE place[n] # r
      BY <1>1, <3>2 DEF Refusing, AtWork
    <3> QED
      BY <3>1, <3>2
  <2>4. faults <= faults' /\ refused[n] <= refused'[n]
    BY <1>1, <2>1
  <2> QED
    BY <1>1, <1>2, <2>1, <2>2, <2>3, <2>4, UntouchedMessage
<1>3. ASSUME NEW n \in Messages \ {m}
      PROVE  MessageInv(n)'
  <2>1. AtWork(n) => place[n] # r
    BY <1>m DEF AtWork
  <2> QED
    BY <1>1, <1>2, <2>1
<1>4. MessageInv(m)'
  <2>1. CASE ~open[r]
    BY <1>1, <1>2, <1>m, <1>w, <2>1, WorkIsHeld
  <2>2. CASE open[r]
    <3>h. AtWork(m) /\ place[m] = r /\ place[m] # "gone"
      BY <1>m, <1>w, <2>2, WorkIsHeld, PlacesAssumption
    <3>d. /\ delivery[r].deaths = deaths[m]
          /\ pc[r] # "ack" => wire[m] = <<>>
          /\ pc[r] = "ack" => wire[m] \in {<<>>, <<"dead">>}
      BY <1>m, <3>h, HolderAtWork
    <3>n. /\ AttemptsInv(m) /\ CopiesInv(m) /\ SendsInv(m) /\ RefusalInv(m)
          /\ Rounds(m) \in Nat /\ attempts[m] \in Nat /\ faults \in Nat
          /\ Copies(m) \in Nat /\ Rejections(m) \in Nat /\ refused[m] \in Nat
          /\ deaths[m].rejected \in Nat /\ dead[m] \in Nat /\ LastRun(m) = 1
      BY <1>m, <1>t, <3>h, NumbersAreNatural DEF NumbersInv, MessageInv, LastRun
    <3>f. Cardinality(Stale(m)) \in Nat /\ Stale(m)' = Stale(m)
      BY <1>1, <3>n, FS_CardinalityType DEF AttemptsInv, Stale
    <3>1. CASE Ack(r)
      <4>1. pc[r] = "ack" /\ wire'[m] = wire[m] \o <<"ack">> /\ UNCHANGED faults
        BY <1>m, <1>t, <2>2, <3>1 DEF Ack, Advance, Send, TypeOK
      <4>2. \/ wire[m] = <<>> /\ wire'[m] = <<"ack">>
            \/ wire[m] = <<"dead">> /\ wire'[m] = <<"dead", "ack">>
        BY <3>d, <4>1, WireSends
      <4>3. Ended(m)' /\ Final(m)' /\ Final(m) /\ LastRun(m)' = 1
        BY <3>h, <4>1, <4>2 DEF Ended, Final, LastRun
      <4>4. /\ Rejections(m)' = Rejections(m) /\ Rounds(m)' = Rounds(m)
            /\ Copies(m)' = Copies(m) /\ wire'[m] # <<"dead">>
        BY <1>1, <4>2, WiresDiffer DEF Rejections, Rounds, Copies
      <4>5. ~Refusing(m)'
        BY <1>1, <1>t, <3>1, <3>h DEF Refusing, Ack, Advance, TypeOK
      <4>6. AttemptsInv(m)'
        BY <1>1, <3>n, <3>f, <4>1, <4>3, <4>4 DEF AttemptsInv
      <4>7. CopiesInv(m)' /\ SendsInv(m)'
        BY <3>n, <4>1, <4>3, <4>4 DEF CopiesInv, SendsInv
      <4>8. RefusalInv(m)'
        BY <1>1, <3>n, <4>4, <4>5 DEF RefusalInv
      <4> QED
        BY <4>6, <4>7, <4>8 DEF MessageInv
    <3>2. CASE ToDeadLetter(r)
      <4>1. pc[r] = "refuse" /\ wire'[m] = wire[m] \o <<"dead">> /\ UNCHANGED <<faults, delivery>>
            /\ pc'[r] = "ack"
        BY <1>m, <1>t, <2>2, <3>2 DEF ToDeadLetter, Advance, Send, TypeOK
      <4>2. wire[m] = <<>> /\ wire'[m] = <<"dead">>
        BY <3>d, <4>1, WireSends
      <4>3. AtWork(m)' /\ Final(m)' /\ ~Final(m) /\ LastRun(m)' = 1 /\ ~Refusing(m)'
        BY <1>1, <3>h, <4>1, <4>2, WiresDiffer DEF AtWork, Ended, Final, LastRun, Refusing
      <4>4. /\ Rejections(m)' = Rejections(m) /\ Rounds(m)' = Rounds(m)
            /\ Copies(m)' = Copies(m) + 1
        BY <1>1, <3>n, <4>2, WiresDiffer DEF Rejections, Rounds, Copies
      <4>6. AttemptsInv(m)'
        BY <1>1, <3>n, <3>f, <4>1, <4>3, <4>4 DEF AttemptsInv
      <4>7. CopiesInv(m)' /\ SendsInv(m)'
        BY <3>n, <4>1, <4>3, <4>4 DEF CopiesInv, SendsInv
      <4>8. RefusalInv(m)'
        BY <1>1, <3>n, <4>3, <4>4 DEF RefusalInv
      <4> QED
        BY <4>6, <4>7, <4>8 DEF MessageInv
    <3>3. CASE Nack(r) \/ ToDeadLetterFails(r)
      <4>1. /\ pc[r] = "refuse" /\ wire'[m] = wire[m] \o <<"nack">>
            /\ delivery'[r] = NoDelivery
            /\ \/ delivery[r].deaths.rejected < MaxRetries /\ faults' = faults
               \/ delivery[r].deaths.rejected >= MaxRetries /\ faults' = faults + 1
        <5>1. Send(r, <<"nack">>) => wire'[m] = wire[m] \o <<"nack">>
          BY <1>m, <1>t, <2>2 DEF Send, TypeOK
        <5>2. EndDelivery(r) => delivery'[r] = NoDelivery
          BY <1>t DEF TypeOK
        <5>3. CASE Nack(r)
          BY <5>1, <5>2, <5>3 DEF Nack, Advance, DeathCount
        <5>4. CASE ToDeadLetterFails(r)
          BY <5>1, <5>2, <5>4 DEF ToDeadLetterFails, Advance, Fault, DeathCount
        <5> QED
          BY <3>3, <5>3, <5>4
      <4>2. wire[m] = <<>> /\ wire'[m] = <<"nack">>
        BY <3>d, <4>1, WireSends
      <4>3. ~AtWork(m)' /\ ~Ended(m)' /\ ~Final(m) /\ Refusing(m)
        BY <1>1, <1>m, <3>h, <4>1, <4>2, WiresDiffer, NobodyAssumption
           DEF AtWork, Ended, Final, Refusing, NoDelivery
      <4>4. /\ Rejections(m) = deaths[m].rejected /\ Rejections(m)' = deaths[m].rejected + 1
            /\ Copies(m) = dead[m] /\ Copies(m)' = dead[m]
        BY <1>1, <3>n, <4>2, WiresDiffer DEF Rejections, Copies
      <4>5. Rounds(m)' + faults' = Rounds(m) + faults + 1 /\ Rounds(m)' \in Nat
            /\ LastRun(m)' = 0 /\ faults' \in Nat
        <5>1. Rounds(m)' = IF Rejections(m)' <= MaxRetries THEN Rejections(m)' ELSE MaxRetries
          BY DEF Rounds
        <5>2. LastRun(m)' = 0
          BY <4>3 DEF LastRun
        <5>3. Rounds(m) = IF Rejections(m) <= MaxRetries THEN Rejections(m) ELSE MaxRetries
          BY DEF Rounds
        <5>4. /\ Rejections(m)' = Rejections(m) + 1 /\ Rejections(m) \in Nat /\ faults \in Nat
              /\ \/ Rejections(m) < MaxRetries /\ faults' = faults
                 \/ Rejections(m) >= MaxRetries /\ faults' = faults + 1
          <6>1. delivery[r].deaths.rejected = Rejections(m)
            BY <3>d, <4>4
          <6> QED
            BY <3>n, <4>1, <4>4, <6>1
        <5>5. CASE Rejections(m) < MaxRetries /\ faults' = faults
          BY <5>1, <5>2, <5>3, <5>4, <5>5, LimitsAssumption
        <5>6. CASE Rejections(m) >= MaxRetries /\ faults' = faults + 1
          BY <5>1, <5>2, <5>3, <5>4, <5>6, LimitsAssumption
        <5> QED
          BY <5>4, <5>5, <5>6
      <4>6. AttemptsInv(m)'
        BY <1>1, <3>n, <3>f, <4>5 DEF AttemptsInv
      <4>7. CopiesInv(m)' /\ SendsInv(m)'
        BY <3>n, <4>1, <4>2, <4>3, <4>4, WiresDiffer DEF CopiesInv, SendsInv
      <4>8. RefusalInv(m)'
        BY <1>1, <3>n, <4>3, <4>4 DEF RefusalInv, Refusing
      <4> QED
        BY <4>6, <4>7, <4>8 DEF MessageInv
    <3> QED
      BY <3>1, <3>2, <3>3
  <2> QED
    BY <2>1, <2>2
<1>5. ASSUME NEW q \in Replicas PROVE ReplicaInv(q)'
  BY <1>1 DEF NumbersInv, ReplicaInv
<1> QED
  BY <1>3, <1>4, <1>5, <1>m DEF NumbersInv

\* The channel of r goes away.  A fault pays for what that wastes; closing the channel in
\* good order wastes nothing.
LEMMA TakingBackKeepsNumbers ==
    ASSUME IInv, IInv', NumbersInv, NEW r \in Replicas,
           CloseChannel(r) \/ ChannelBreaks(r) \/ Crash(r)
    PROVE  NumbersInv'
<1> USE DEF history
<1>t. TypeOK /\ TypeOK' /\ ChannelInv(r) /\ BusyInv(r)
  BY DEF IInv
<1>1. /\ UNCHANGED <<deaths, dead, cancelled, attempts, refused, stops>> /\ ~open'[r]
      /\ \A q \in Replicas \ {r} :
           /\ pc'[q] = pc[q] /\ delivery'[q] = delivery[q]
           /\ buffer'[q] = buffer[q] /\ open'[q] = open[q]
      /\ \A m \in Messages :
           IF place[m] = r THEN place'[m] = "work" /\ wire'[m] = <<>>
           ELSE place'[m] = place[m] /\ wire'[m] = wire[m]
      /\ buffer'[r] \in {buffer[r], {}}
  BY <1>t DEF CloseChannel, ChannelBreaks, Crash, TakeBack, TypeOK
<1>2. \/ faults' = faults + 1
      \/ /\ faults' = faults /\ buffer'[r] = {} /\ pc[r] = "closing"
         /\ \A m \in Messages : place[m] = r => wire[m] = <<>>
  BY <1>t DEF CloseChannel, ChannelBreaks, Crash, Fault, Unacked, BusyInv
<1>3. ASSUME NEW m \in Messages, place[m] # r
      PROVE  MessageInv(m)'
  <2>1. MessageInv(m) /\ faults \in Nat /\ refused[m] \in Nat
    BY <1>t, NumbersAreNatural DEF NumbersInv
  <2>2. place'[m] = place[m] /\ wire'[m] = wire[m]
    BY <1>1, <1>3
  <2>3. Stale(m)' \subseteq Stale(m)
    BY <1>1, <1>3, <1>t DEF Stale, ChannelInv, Held
  <2>4. /\ AtWork(m)' <=> AtWork(m)
        /\ Refusing(m)' <=> Refusing(m)
        /\ AtWork(m) => pc'[place[m]] = pc[place[m]]
    BY <1>1, <1>3, <2>2 DEF AtWork, Refusing
  <2>5. faults <= faults' /\ refused[m] <= refused'[m]
    BY <1>1, <1>2, <2>1
  <2> QED
    BY <1>1, <2>1, <2>2, <2>3, <2>4, <2>5, UntouchedMessage
<1>4. ASSUME NEW m \in Messages, place[m] = r
      PROVE  MessageInv(m)'
  <2>n. /\ AttemptsInv(m) /\ CopiesInv(m) /\ RefusalInv(m)
        /\ Rounds(m) \in Nat /\ LastRun(m) \in {0, 1} /\ attempts[m] \in Nat /\ faults \in Nat
        /\ Copies(m) \in Nat /\ Rejections(m) \in Nat /\ refused[m] \in Nat
        /\ deaths[m].rejected \in Nat /\ dead[m] \in Nat
    BY <1>t, NumbersAreNatural DEF NumbersInv, MessageInv
  <2>f. IsFiniteSet(Stale(m)) /\ Cardinality(Stale(m)) \in Nat
    BY <2>n, FS_CardinalityType DEF AttemptsInv
  <2>1. place'[m] = "work" /\ wire'[m] = <<>>
    BY <1>1, <1>4
  <2>2. ~AtWork(m)' /\ ~Ended(m)' /\ LastRun(m)' = 0 /\ ~Refusing(m)'
    BY <2>1, PlacesAssumption, WiresDiffer DEF AtWork, Ended, LastRun, Refusing
  <2>3. Rejections(m)' = deaths[m].rejected /\ Copies(m)' = dead[m]
    BY <1>1, <2>1, <2>n, WiresDiffer DEF Rejections, Copies
  <2>o. open[r] /\ place[m] # "gone"
    BY <1>4, PlacesAssumption DEF IInv, HolderInv
\* At most one of the three is so: a rejection is on the wire, the last run is on, or
\* the delivery still waits in the buffer.
  <2>4. \/ /\ wire[m] = <<"nack">> /\ LastRun(m) = 0 /\ faults' = faults + 1
           /\ \A d \in buffer[r] : d.msg # m
        \/ /\ wire[m] # <<"nack">> /\ LastRun(m) = 1 /\ faults' = faults + 1
           /\ \A d \in buffer[r] : d.msg # m
        \/ /\ wire[m] = <<>> /\ LastRun(m) = 0 /\ ~Final(m)
           /\ faults' = faults + 1 \/ (faults' = faults /\ buffer'[r] = {})
    <3>1. CASE AtWork(m)
      <4>1. pc[r] \in {"handling", "refuse", "ack"} /\ wire[m] \in {<<>>, <<"dead">>}
            /\ \A d \in buffer[r] : d.msg # m
        BY <1>4, <3>1, HolderAtWork
      <4>2. faults' = faults + 1
        BY <1>2, <4>1
      <4> QED
        BY <3>1, <4>1, <4>2, WiresDiffer DEF LastRun
    <3>2. CASE ~AtWork(m) /\ wire[m] # <<>>
      <4>1. \A d \in buffer[r] : d.msg # m
        BY <1>t, <2>o, <3>2 DEF ChannelInv
      <4>2. faults' = faults + 1
        BY <1>2, <1>4, <3>2
      <4>3. wire[m] = <<"nack">> \/ Ended(m)
        BY <1>t, <3>2 DEF TypeOK, Wires, Ended
      <4> QED
        BY <2>o, <3>2, <4>1, <4>2, <4>3, WiresDiffer DEF LastRun, Ended
    <3>3. CASE ~AtWork(m) /\ wire[m] = <<>>
      BY <1>2, <2>o, <3>3, WiresDiffer DEF LastRun, Ended, Final
    <3> QED
      BY <3>1, <3>2, <3>3
  <2>5. AttemptsInv(m)'
    <3>1. CASE \/ \A d \in buffer[r] : d.msg # m
               \/ buffer'[r] = {}
      <4>1. Stale(m)' \subseteq Stale(m)
        BY <1>1, <3>1 DEF Stale
      <4>2. IsFiniteSet(Stale(m)') /\ Cardinality(Stale(m)') <= Cardinality(Stale(m))
            /\ Cardinality(Stale(m)') \in Nat
        BY <2>f, <4>1, FS_Subset, FS_CardinalityType
      <4>3. Rounds(m)' + LastRun(m)' + faults' >= Rounds(m) + LastRun(m) + faults
        <5>1. CASE wire[m] = <<"nack">>
          <6>1. Rejections(m) = deaths[m].rejected + 1 /\ LastRun(m) = 0 /\ faults' = faults + 1
            BY <2>4, <5>1, WiresDiffer DEF Rejections
          <6>2. Rounds(m) <= Rounds(m)' + 1 /\ Rounds(m)' \in Nat
            BY <2>3, <2>n, <6>1, LimitsAssumption DEF Rounds
          <6> QED
            BY <2>2, <2>n, <6>1, <6>2
        <5>2. CASE wire[m] # <<"nack">>
          <6>1. Rejections(m) = deaths[m].rejected /\ Rounds(m)' = Rounds(m)
            BY <2>3, <2>n, <5>2 DEF Rejections, Rounds
          <6> QED
            BY <2>2, <2>4, <2>n, <5>2, <6>1, WiresDiffer
        <5> QED
          BY <5>1, <5>2
      <4>4. Rounds(m)' \in Nat /\ faults' \in Nat
        BY <1>2, <2>3, <2>n, LimitsAssumption DEF Rounds
      <4> QED
        BY <1>1, <2>f, <2>n, <2>2, <4>2, <4>3, <4>4 DEF AttemptsInv
    <3>2. CASE ~(\A d \in buffer[r] : d.msg # m) /\ buffer'[r] # {}
      <4>1. wire[m] = <<>> /\ LastRun(m) = 0 /\ faults' = faults + 1
        BY <2>4, <3>2
      <4>2. Stale(m)' = Stale(m) \cup {r}
        BY <1>1, <2>o, <3>2 DEF Stale
      <4>3. IsFiniteSet(Stale(m)') /\ Cardinality(Stale(m)') <= Cardinality(Stale(m)) + 1
            /\ Cardinality(Stale(m)') \in Nat
        <5>1. /\ IsFiniteSet(Stale(m) \cup {r})
              /\ Cardinality(Stale(m) \cup {r})
                   = IF r \in Stale(m) THEN Cardinality(Stale(m)) ELSE Cardinality(Stale(m)) + 1
          BY <2>f, FS_AddElement
        <5> QED
          BY <2>f, <4>2, <5>1
      <4>4. Rounds(m)' = Rounds(m)
        BY <2>3, <2>n, <4>1, WiresDiffer DEF Rejections, Rounds
      <4> QED
        BY <1>1, <2>f, <2>n, <2>2, <4>1, <4>3, <4>4 DEF AttemptsInv
    <3> QED
      BY <3>1, <3>2
  <2>6. CopiesInv(m)'
    <3>1. dead[m] <= Copies(m)
      BY <2>n DEF Copies
    <3> QED
      BY <2>2, <2>3, <2>4, <2>n, <3>1 DEF CopiesInv, Final
  <2>7. SendsInv(m)' /\ RefusalInv(m)'
    <3>1. deaths[m].rejected <= Rejections(m)
      BY <2>n DEF Rejections
    <3> QED
      BY <1>1, <2>1, <2>2, <2>3, <2>n, <3>1, WiresDiffer DEF SendsInv, RefusalInv
  <2> QED
    BY <2>5, <2>6, <2>7 DEF MessageInv
<1>5. ASSUME NEW q \in Replicas PROVE ReplicaInv(q)'
  BY <1>1 DEF NumbersInv, ReplicaInv
<1> QED
  BY <1>3, <1>4, <1>5 DEF NumbersInv

----------------------------------------------------------------------------
LEMMA NumbersInvariance == Spec => []NumbersInv
<1>1. Init => NumbersInv
  <2> SUFFICES ASSUME Init PROVE NumbersInv
    OBVIOUS
  <2>1. ASSUME NEW m \in Messages PROVE MessageInv(m)
    <3>1. Stale(m) = {} /\ ~AtWork(m) /\ ~Ended(m)
      BY <2>1, PlacesAssumption, WiresDiffer DEF Init, Stale, AtWork, Ended
    <3>2. Rejections(m) = 0 /\ Copies(m) = 0 /\ attempts[m] = 0 /\ refused[m] = 0 /\ faults = 0
          /\ wire[m] = <<>>
      BY <2>1, WiresDiffer DEF Init, Rejections, Copies
    <3>3. Rounds(m) = 0 /\ LastRun(m) = 0 /\ ~Refusing(m)
      BY <3>1, <3>2, LimitsAssumption DEF Rounds, LastRun, Refusing
    <3> QED
      BY <3>1, <3>2, <3>3, FS_EmptySet, WiresDiffer
         DEF MessageInv, AttemptsInv, CopiesInv, SendsInv, RefusalInv
  <2>2. \A r \in Replicas : ReplicaInv(r)
    BY DEF Init, ReplicaInv
  <2> QED
    BY <2>1, <2>2 DEF NumbersInv
<1>2. IInv /\ IInv' /\ NumbersInv /\ [Next]_vars => NumbersInv'
  <2> SUFFICES ASSUME IInv, IInv', NumbersInv, [Next]_vars PROVE NumbersInv'
    OBVIOUS
  <2>1. ASSUME NEW r \in Replicas, Deliver(r) \/ Consume(r) \/ Restart(r) \/ Disturb(r)
        PROVE  NumbersInv'
    BY <2>1, QuietStepsKeepNumbers, DeliverKeepsNumbers, ReceiveKeepsNumbers, SendsKeepNumbers,
       TakingBackKeepsNumbers DEF Consume, HandleDelivery, Disturb
  <2>2. CASE UNCHANGED vars
    BY <2>2 DEF vars, broker, loop, history, NumbersInv, MessageInv, ReplicaInv, AttemptsInv,
                CopiesInv, SendsInv, RefusalInv, AtWork, Refusing, Ended, Final, Rejections, Rounds,
                LastRun, Copies, Stale
  <2> QED
    BY <2>1, <2>2, BrokerKeepsNumbers DEF Next
<1> QED
  BY <1>1, <1>2, Invariant, PTL DEF Spec

\* For any number of replicas, retries, stops and faults: a message is run at most
\* MaxRetries + 1 times, and once more for every fault.
THEOREM RunsAreBounded == Spec => []AttemptsAreBounded
<1>1. ASSUME IInv, NumbersInv, NEW m \in Messages
      PROVE  attempts[m] <= MaxRetries + 1 + faults
  <2>1. AttemptsInv(m) /\ TypeOK
    BY <1>1 DEF IInv, NumbersInv, MessageInv
  <2>2. Cardinality(Stale(m)) \in Nat
    BY <2>1, FS_CardinalityType DEF AttemptsInv
  <2> QED
    BY <2>1, <2>2, NumbersAreNatural, LimitsAssumption DEF AttemptsInv
<1>2. IInv /\ NumbersInv => AttemptsAreBounded
  BY <1>1 DEF AttemptsAreBounded
<1> QED
  BY <1>2, Invariant, NumbersInvariance, PTL

\* For any number of replicas, stops and faults: a message is parked at most once, and
\* once more for every fault.
THEOREM CopiesAreBounded == Spec => []ParkedOncePerFault
<1>1. ASSUME IInv, NumbersInv, NEW m \in Messages
      PROVE  dead[m] <= 1 + faults
  <2>1. CopiesInv(m) /\ TypeOK
    BY <1>1 DEF IInv, NumbersInv, MessageInv
  <2>2. dead[m] <= Copies(m)
    BY <2>1, NumbersAreNatural DEF Copies
  <2> QED
    BY <2>1, <2>2, NumbersAreNatural DEF CopiesInv
<1>2. IInv /\ NumbersInv => ParkedOncePerFault
  BY <1>1 DEF ParkedOncePerFault
<1> QED
  BY <1>2, Invariant, NumbersInvariance, PTL

\* Only a stop burns an attempt: as long as none was requested, whatever breaks or
\* crashes, every rejection in x-death stands for a failure of the handler itself.
THEOREM OnlyAStopBurnsAttempts == Spec => [](stops = 0 => RejectionsAreRefusals)
<1>1. ASSUME IInv, NumbersInv, stops = 0, NEW m \in Messages
      PROVE  deaths[m].rejected <= refused[m]
  <2>1. RefusalInv(m) /\ TypeOK
    BY <1>1 DEF IInv, NumbersInv, MessageInv
  <2>2. deaths[m].rejected <= Rejections(m)
    BY <2>1, NumbersAreNatural DEF Rejections
  <2> QED
    BY <1>1, <2>1, <2>2, NumbersAreNatural DEF RefusalInv
<1>2. IInv /\ NumbersInv => (stops = 0 => RejectionsAreRefusals)
  BY <1>1 DEF RejectionsAreRefusals
<1> QED
  BY <1>2, Invariant, NumbersInvariance, PTL
=============================================================================
