--------------------------- MODULE BreakerProofs ---------------------------
(* Theorems about Breaker, for any number of callers, any thresholds and any *)
(* number of failures and cancellations.                                     *)
EXTENDS Breaker, FiniteSetTheorems, TLAPS

States == {"closed", "half-open", "open"}

Breakers == [state : States, generation : Nat \ {0},
             failures : 0..FailureThreshold - 1, successes : 0..HalfOpenRequests - 1,
             probes : 0..HalfOpenRequests, expired : BOOLEAN]

\* The calls that count for breaker b.
CallsOf(b) == {c \in Callers : call[c] = b.generation}

\* No call is of a generation to come.
CallsHaveBegun(b) == \A c \in Callers : call[c] <= b.generation

\* Every probe that was let through and not given back is under way or has succeeded.
ProbesAgree(b) ==
    b.state = "half-open" => Cardinality(CallsOf(b)) + b.successes <= b.probes

\* While the breaker is closed the calls that count are those begun since it closed, and
\* so the failures it counts are failures in a row of such calls.
FailuresAgree(b) ==
    b.state = "closed" => CallsOf(b) = fresh /\ b.failures <= row

Good(b) == b \in Breakers /\ CallsHaveBegun(b) /\ ProbesAgree(b) /\ FailuresAgree(b)

BreakerInv == TypeOK /\ Good(cb)

----------------------------------------------------------------------------
\* What the breaker does to itself.

LEMMA GenerationIsFresh ==
    ASSUME NEW s \in States, NEW g \in Nat \ {0}
    PROVE  /\ Generation(s, g) \in Breakers
           /\ Generation(s, g).state = s /\ Generation(s, g).generation = g
           /\ Generation(s, g).failures = 0 /\ Generation(s, g).successes = 0
           /\ Generation(s, g).probes = 0
BY ThresholdsAssumption DEF Generation, Breakers

LEMMA CallsAreFinite ==
    ASSUME NEW b
    PROVE  IsFiniteSet(CallsOf(b)) /\ Cardinality(CallsOf(b)) \in Nat
<1>1. IsFiniteSet(CallsOf(b))
  BY CallersAssumption, FS_Subset DEF CallsOf
<1> QED
  BY <1>1, FS_CardinalityType

\* Nobody's call is of a generation that begins now.
LEMMA NewGenerationHasNoCalls ==
    ASSUME BreakerInv, NEW b, Good(b), NEW s \in States
    PROVE  /\ CallsOf(SetState(b, s)) = {}
           /\ SetState(b, s) \in Breakers
           /\ CallsHaveBegun(SetState(b, s))
           /\ ProbesAgree(SetState(b, s))
<1>1. b.generation \in Nat \ {0} /\ b.generation + 1 \in Nat \ {0}
  BY DEF Good, Breakers
<1>2. /\ SetState(b, s) \in Breakers /\ SetState(b, s).generation = b.generation + 1
      /\ SetState(b, s).successes = 0 /\ SetState(b, s).probes = 0
  BY <1>1, GenerationIsFresh DEF SetState
<1>3. \A c \in Callers : call[c] \in Nat /\ call[c] <= b.generation
  BY DEF BreakerInv, TypeOK, Good, CallsHaveBegun
<1>4. CallsHaveBegun(SetState(b, s)) /\ CallsOf(SetState(b, s)) = {}
  BY <1>1, <1>2, <1>3 DEF CallsHaveBegun, CallsOf
<1>5. ProbesAgree(SetState(b, s))
  BY <1>2, <1>4, FS_EmptySet DEF ProbesAgree
<1> QED
  BY <1>2, <1>4, <1>5

\* Noticing that the pause is over keeps the breaker good; a closed breaker stays as
\* it is, and none closes by itself.
LEMMA NoticingIsHarmless ==
    ASSUME BreakerInv
    PROVE  /\ Good(Current(cb))
           /\ Current(cb) = cb \/ (cb.state = "open" /\ Current(cb).state = "half-open")
<1>1. Good(cb)
  BY DEF BreakerInv
<1>2. CASE cb.state = "open" /\ cb.expired
  <2>1. Current(cb) = SetState(cb, "half-open")
    BY <1>2 DEF Current
  <2>2. SetState(cb, "half-open").state = "half-open"
    BY <1>1, GenerationIsFresh DEF SetState, States, Good, Breakers
  <2> QED
    BY <1>1, <1>2, <2>1, <2>2, NewGenerationHasNoCalls DEF Good, FailuresAgree, States
<1>3. CASE ~(cb.state = "open" /\ cb.expired)
  BY <1>1, <1>3 DEF Current
<1> QED
  BY <1>2, <1>3

----------------------------------------------------------------------------
\* What the callers do to it.

\* A probe more is a call more.
LEMMA BeginKeepsInv ==
    ASSUME BreakerInv, NEW c \in Callers, Begin(c)
    PROVE  BreakerInv' /\ ~(cb.state = "closed" /\ cb'.state = "open")
<1> DEFINE b == Current(cb)
<1>1. Good(b) /\ (b = cb \/ (cb.state = "open" /\ b.state = "half-open"))
  BY NoticingIsHarmless
<1>2. /\ call[c] = None /\ Admits(b)
      /\ cb' = IF b.state = "half-open" THEN [b EXCEPT !.probes = @ + 1] ELSE b
      /\ call' = [call EXCEPT ![c] = b.generation]
      /\ fresh' = fresh \cup {c} /\ UNCHANGED <<healthy, failed, cancels, row>>
  BY DEF Begin
<1> HIDE DEF b
<1>3. b \in Breakers /\ CallsHaveBegun(b) /\ ProbesAgree(b) /\ FailuresAgree(b)
  BY <1>1 DEF Good
<1>t. TypeOK
  BY DEF BreakerInv
<1>4. /\ cb' \in Breakers /\ cb'.generation = b.generation /\ cb'.state = b.state
      /\ cb'.successes = b.successes /\ cb'.failures = b.failures
      /\ b.state = "half-open" => cb'.probes = b.probes + 1
  BY <1>2, <1>3, ThresholdsAssumption DEF Breakers, Admits
<1>5. b.generation \in Nat \ {0} /\ call \in [Callers -> Nat]
  BY <1>3, <1>t DEF Breakers, TypeOK
<1>6. (CallsOf(cb))' = CallsOf(b) \cup {c} /\ c \notin CallsOf(b)
  BY <1>2, <1>4, <1>5 DEF CallsOf, None
<1>7. (Good(cb))'
  <2>1. (CallsHaveBegun(cb))'
    BY <1>2, <1>3, <1>4, <1>5 DEF CallsHaveBegun
  <2>2. (ProbesAgree(cb))'
    <3>1. Cardinality((CallsOf(cb))') = Cardinality(CallsOf(b)) + 1
      BY <1>6, CallsAreFinite, FS_AddElement
    <3>2. b.successes \in Nat /\ b.probes \in Nat /\ Cardinality(CallsOf(b)) \in Nat
      BY <1>3, CallsAreFinite DEF Breakers
    <3> QED
      BY <1>3, <1>4, <3>1, <3>2 DEF ProbesAgree
  <2>3. (FailuresAgree(cb))'
    BY <1>2, <1>3, <1>4, <1>6 DEF FailuresAgree
  <2> QED
    BY <1>4, <2>1, <2>2, <2>3 DEF Good
<1>8. TypeOK'
  BY <1>2, <1>4, <1>5, <1>t DEF TypeOK, Breakers, States
<1> QED
  BY <1>1, <1>2, <1>4, <1>7, <1>8 DEF BreakerInv, Admits

\* Wherever the breaker has gone meanwhile, a result counts only for the generation it
\* belongs to, and never more than once.
LEMMA EndKeepsInv ==
    ASSUME BreakerInv, NEW c \in Callers, NEW o \in Results, End(c, o)
    PROVE  /\ BreakerInv'
           /\ cb.state = "closed" /\ cb'.state = "open" => row' >= FailureThreshold
<1> DEFINE b == Current(cb)
<1>1. Good(b) /\ (b = cb \/ (cb.state = "open" /\ b.state = "half-open"))
  BY NoticingIsHarmless
<1>2. /\ call[c] # None
      /\ o = "failure" => failed < MaxFailures
      /\ o = "cancelled" => cancels < MaxCancels
      /\ cb' = IF b.generation = call[c] THEN Count(b, o) ELSE b
      /\ call' = [call EXCEPT ![c] = None]
      /\ failed' = IF o = "failure" THEN failed + 1 ELSE failed
      /\ cancels' = IF o = "cancelled" THEN cancels + 1 ELSE cancels
      /\ fresh' = IF Closes THEN {} ELSE fresh \ {c}
      /\ row' = IF Closes THEN 0
                ELSE IF c \notin fresh \/ o = "cancelled" THEN row
                ELSE IF o = "failure" THEN row + 1
                ELSE 0
      /\ UNCHANGED healthy
  BY DEF End, AfterRequest
<1> HIDE DEF b
<1>3. b \in Breakers /\ CallsHaveBegun(b) /\ ProbesAgree(b) /\ FailuresAgree(b)
  BY <1>1 DEF Good
<1>t. TypeOK
  BY DEF BreakerInv
<1>4. /\ b.generation \in Nat \ {0} /\ b.successes \in Nat /\ b.probes \in Nat
      /\ b.failures \in Nat /\ b.state \in States
      /\ call \in [Callers -> Nat] /\ row \in Nat /\ fresh \subseteq Callers
  BY <1>3, <1>t DEF Breakers, TypeOK
<1>5. /\ failed' \in 0..MaxFailures /\ cancels' \in 0..MaxCancels /\ row' \in Nat
      /\ fresh' \subseteq Callers /\ call' \in [Callers -> Nat] /\ healthy' \in BOOLEAN
  BY <1>2, <1>4, <1>t, BreakerBoundsAssumption DEF TypeOK, None
<1>6. ASSUME cb' \in Breakers, (CallsHaveBegun(cb))', (ProbesAgree(cb))', (FailuresAgree(cb))'
      PROVE  BreakerInv'
  BY <1>5, <1>6 DEF BreakerInv, TypeOK, Good, Breakers, States
\* Without a change of generation, one call less counts.
<1>7. ASSUME cb'.generation = b.generation
      PROVE  /\ (CallsHaveBegun(cb))'
             /\ (CallsOf(cb))' = CallsOf(b) \ {c}
             /\ Cardinality((CallsOf(cb))') =
                  Cardinality(CallsOf(b)) - (IF b.generation = call[c] THEN 1 ELSE 0)
             /\ Cardinality(CallsOf(b)) \in Nat /\ Cardinality((CallsOf(cb))') \in Nat
  <2>1. (CallsHaveBegun(cb))'
    BY <1>2, <1>3, <1>4, <1>7 DEF CallsHaveBegun, None
  <2>2. (CallsOf(cb))' = CallsOf(b) \ {c}
    BY <1>2, <1>4, <1>7 DEF CallsOf, None
  <2>3. c \in CallsOf(b) <=> b.generation = call[c]
    BY DEF CallsOf
  <2>4. IsFiniteSet(CallsOf(b)) /\ Cardinality(CallsOf(b)) \in Nat
    BY CallsAreFinite
  <2>5. IsFiniteSet(CallsOf(b) \ {c}) /\ Cardinality(CallsOf(b) \ {c}) =
            IF c \in CallsOf(b) THEN Cardinality(CallsOf(b)) - 1 ELSE Cardinality(CallsOf(b))
    BY <2>4, FS_RemoveElement
  <2>6. Cardinality(CallsOf(b) \ {c}) \in Nat
    BY <2>5, FS_CardinalityType
  <2> QED
    BY <2>1, <2>2, <2>3, <2>4, <2>5, <2>6
<1>8. CASE b.generation # call[c]
  <2>1. cb' = b /\ ~Closes
    BY <1>1, <1>2, <1>8 DEF Closes
  <2>2. c \notin CallsOf(b)
    BY <1>8 DEF CallsOf
  <2>3. (ProbesAgree(cb))'
    BY <1>3, <1>7, <1>8, <2>1 DEF ProbesAgree
  <2>4. (FailuresAgree(cb))'
    BY <1>2, <1>3, <1>7, <2>1, <2>2 DEF FailuresAgree
  <2> QED
    BY <1>1, <1>3, <1>6, <1>7, <2>1, <2>3, <2>4
<1>9. CASE b.generation = call[c] /\ o = "cancelled"
  <2>1. cb' = OnExclusion(b)
    BY <1>2, <1>9 DEF Count, IsExcluded
  <2>2. Cardinality(CallsOf(b)) \in Nat \ {0}
    <3>1. c \in CallsOf(b)
      BY <1>9 DEF CallsOf
    <3>2. IsFiniteSet(CallsOf(b)) /\ Cardinality(CallsOf(b)) \in Nat
      BY CallsAreFinite
    <3> QED
      BY <3>1, <3>2, FS_EmptySet
  <2>3. /\ cb'.generation = b.generation /\ cb'.state = b.state /\ cb'.failures = b.failures
        /\ cb'.successes = b.successes /\ cb' \in Breakers
        /\ cb'.probes \in {b.probes, b.probes - 1}
    <3>1. CASE b.state = "half-open" /\ ExclusionFreesProbe
      <4>1. cb' = [b EXCEPT !.probes = b.probes - 1]
        BY <2>1, <3>1 DEF OnExclusion
      <4>2. b.probes - 1 \in 0..HalfOpenRequests
        BY <1>3, <1>4, <2>2, <3>1, ThresholdsAssumption DEF Breakers, ProbesAgree
      <4>3. cb' \in Breakers
        BY <1>3, <4>1, <4>2 DEF Breakers
      <4>4. /\ cb'.generation = b.generation /\ cb'.state = b.state
            /\ cb'.failures = b.failures /\ cb'.successes = b.successes
            /\ cb'.probes = b.probes - 1
        BY <1>3, <4>1 DEF Breakers
      <4> QED
        BY <4>3, <4>4
    <3>2. CASE ~(b.state = "half-open" /\ ExclusionFreesProbe)
      BY <1>3, <2>1, <3>2 DEF OnExclusion
    <3> QED
      BY <3>1, <3>2
  <2>4. ~Closes
    BY <1>1, <2>3 DEF Closes
  <2>5. (ProbesAgree(cb))'
    BY <1>3, <1>4, <1>7, <1>9, <2>3 DEF ProbesAgree
  <2>6. (FailuresAgree(cb))'
    BY <1>2, <1>3, <1>7, <1>9, <2>3, <2>4 DEF FailuresAgree
  <2> QED
    BY <1>1, <1>6, <1>7, <2>3, <2>5, <2>6
<1>10. CASE b.generation = call[c] /\ o \in {"success", "refusal"}
  <2>1. cb' = OnSuccess(b)
    BY <1>2, <1>10 DEF Count, IsExcluded, IsSuccessful
  <2>2. CASE b.state # "half-open"
    <3>1. /\ cb'.generation = b.generation /\ cb'.state = b.state /\ cb'.failures = 0
          /\ cb' \in Breakers
      BY <1>3, <2>1, <2>2, ThresholdsAssumption DEF OnSuccess, Breakers
    <3>2. ~Closes
      BY <1>1, <2>2, <3>1 DEF Closes
    <3>3. (ProbesAgree(cb))'
      BY <2>2, <3>1 DEF ProbesAgree
    <3>4. (FailuresAgree(cb))'
      BY <1>2, <1>3, <1>5, <1>7, <3>1, <3>2 DEF FailuresAgree
    <3> QED
      BY <1>1, <1>6, <1>7, <2>2, <3>1, <3>3, <3>4
  <2>3. CASE b.state = "half-open" /\ b.successes + 1 >= HalfOpenRequests
    <3>1. cb' = SetState(b, "closed")
      BY <2>1, <2>3 DEF OnSuccess
    <3>2. cb'.state = "closed" /\ cb'.failures = 0 /\ cb' \in Breakers
          /\ cb'.generation = b.generation + 1
      BY <1>4, <3>1, GenerationIsFresh DEF SetState, States
    <3>3. Closes
      BY <1>1, <2>3, <3>2 DEF Closes
    <3>4. (CallsHaveBegun(cb))' /\ (CallsOf(cb))' = {}
      BY <1>2, <1>3, <1>4, <3>2 DEF CallsHaveBegun, CallsOf, None
    <3>5. (ProbesAgree(cb))'
      BY <3>2 DEF ProbesAgree
    <3>6. (FailuresAgree(cb))'
      BY <1>2, <3>2, <3>3, <3>4 DEF FailuresAgree
    <3> QED
      BY <1>6, <3>2, <3>4, <3>5, <3>6
  <2>4. CASE b.state = "half-open" /\ ~(b.successes + 1 >= HalfOpenRequests)
    <3>1. /\ cb'.generation = b.generation /\ cb'.state = "half-open"
          /\ cb'.successes = b.successes + 1 /\ cb'.probes = b.probes /\ cb' \in Breakers
      BY <1>3, <2>1, <2>4, ThresholdsAssumption DEF OnSuccess, Breakers
    <3>2. (ProbesAgree(cb))'
      BY <1>3, <1>4, <1>7, <1>10, <2>4, <3>1 DEF ProbesAgree
    <3>3. (FailuresAgree(cb))'
      BY <3>1 DEF FailuresAgree
    <3> QED
      BY <1>6, <1>7, <3>1, <3>2, <3>3
  <2> QED
    BY <2>2, <2>3, <2>4
<1>11. CASE b.generation = call[c] /\ o = "failure"
  <2>1. cb' = OnFailure(b)
    BY <1>2, <1>11 DEF Count, IsExcluded, IsSuccessful
  <2>2. CASE b.state = "half-open" \/ b.failures + 1 >= FailureThreshold
    <3>1. cb' = SetState(b, "open")
      BY <2>1, <2>2 DEF OnFailure
    <3>2. cb'.state = "open" /\ cb' \in Breakers /\ cb'.generation = b.generation + 1
      BY <1>4, <3>1, GenerationIsFresh DEF SetState, States
    <3>3. (CallsHaveBegun(cb))'
      BY <1>2, <1>3, <1>4, <3>2 DEF CallsHaveBegun, None
    <3>4. (ProbesAgree(cb))' /\ (FailuresAgree(cb))'
      BY <3>2 DEF ProbesAgree, FailuresAgree
    <3>5. cb.state = "closed" => row' >= FailureThreshold
      <4> SUFFICES ASSUME cb.state = "closed" PROVE row' >= FailureThreshold
        OBVIOUS
      <4>1. b.state = "closed" /\ ~Closes /\ b.failures + 1 >= FailureThreshold
        BY <1>1, <2>2 DEF Closes
      <4>2. c \in fresh /\ b.failures <= row
        BY <1>3, <1>11, <4>1 DEF FailuresAgree, CallsOf
      <4>3. row' = row + 1
        BY <1>2, <1>11, <4>1, <4>2
      <4> QED
        BY <1>4, <4>1, <4>2, <4>3, ThresholdsAssumption
    <3> QED
      BY <1>6, <3>2, <3>3, <3>4, <3>5
  <2>3. CASE b.state # "half-open" /\ ~(b.failures + 1 >= FailureThreshold)
    <3>1. /\ cb'.generation = b.generation /\ cb'.state = b.state
          /\ cb'.failures = b.failures + 1 /\ cb' \in Breakers
      BY <1>3, <2>1, <2>3, ThresholdsAssumption DEF OnFailure, Breakers
    <3>2. ~Closes
      BY <1>1, <2>3, <3>1 DEF Closes
    <3>3. (ProbesAgree(cb))'
      BY <2>3, <3>1 DEF ProbesAgree
    <3>4. (FailuresAgree(cb))'
      <4> SUFFICES ASSUME b.state = "closed" PROVE (FailuresAgree(cb))'
        BY <3>1 DEF FailuresAgree
      <4>1. c \in fresh /\ b.failures <= row /\ CallsOf(b) = fresh
        BY <1>3, <1>11 DEF FailuresAgree, CallsOf
      <4>2. row' = row + 1 /\ fresh' = fresh \ {c}
        BY <1>2, <1>11, <3>2, <4>1
      <4> QED
        BY <1>4, <1>7, <3>1, <4>1, <4>2 DEF FailuresAgree
    <3> QED
      BY <1>1, <1>6, <1>7, <2>3, <3>1, <3>3, <3>4
  <2> QED
    BY <2>2, <2>3
<1> QED
  BY <1>8, <1>9, <1>10, <1>11 DEF Results

----------------------------------------------------------------------------
\* Theorems.

LEMMA BreakerStays ==
    ASSUME BreakerInv, [Next]_vars
    PROVE  /\ BreakerInv'
           /\ cb.state = "closed" /\ cb'.state = "open" => row' >= FailureThreshold
<1>t. TypeOK /\ Good(cb)
  BY DEF BreakerInv
<1>1. ASSUME NEW c \in Callers, Begin(c)
      PROVE  BreakerInv' /\ ~(cb.state = "closed" /\ cb'.state = "open")
  BY <1>1, BeginKeepsInv
<1>2. ASSUME NEW c \in Callers, NEW o \in Results, End(c, o)
      PROVE  /\ BreakerInv'
             /\ cb.state = "closed" /\ cb'.state = "open" => row' >= FailureThreshold
  BY <1>2, EndKeepsInv
\* What leaves the calls and the histories alone.
<1>3. ASSUME UNCHANGED <<call, failed, cancels, fresh, row>>, healthy' \in BOOLEAN,
             Good(cb'), cb.state = "closed" => cb' = cb
      PROVE  /\ BreakerInv'
             /\ cb.state = "closed" /\ cb'.state = "open" => row' >= FailureThreshold
  <2>1. Good(cb)'
    BY <1>3 DEF Good, CallsHaveBegun, ProbesAgree, FailuresAgree, CallsOf
  <2>2. TypeOK'
    BY <1>3, <1>t DEF TypeOK, Good, Breakers, States
  <2> QED
    BY <1>3, <2>1, <2>2 DEF BreakerInv
<1>4. CASE ReadState \/ \E c \in Callers : Reject(c)
  <2>1. cb' = Current(cb) /\ UNCHANGED <<call, healthy, failed, cancels, fresh, row>>
    BY <1>4 DEF ReadState, Reject
  <2> QED
    BY <1>3, <1>t, <2>1, NoticingIsHarmless DEF TypeOK
<1>5. CASE TimeoutExpires
  <2>1. /\ cb.state = "open" /\ cb' = [cb EXCEPT !.expired = TRUE]
        /\ UNCHANGED <<call, healthy, failed, cancels, fresh, row>>
    BY <1>5 DEF TimeoutExpires
  <2>2. cb' \in Breakers /\ cb'.state = "open" /\ cb'.generation = cb.generation
    BY <1>t, <2>1 DEF Good, Breakers
  <2>3. Good(cb')
    BY <1>t, <2>2, <2>1 DEF Good, CallsHaveBegun, ProbesAgree, FailuresAgree
  <2> QED
    BY <1>3, <1>t, <2>1, <2>3 DEF TypeOK
<1>6. CASE DependencyRecovers \/ UNCHANGED vars
  BY <1>3, <1>6, <1>t DEF DependencyRecovers, vars, TypeOK
<1> QED
  BY <1>1, <1>2, <1>4, <1>5, <1>6 DEF Next

LEMMA BreakerInitially == Init => BreakerInv
<1> SUFFICES ASSUME Init PROVE BreakerInv
  OBVIOUS
<1>1. cb \in Breakers /\ cb.state = "closed" /\ cb.generation = 1 /\ cb.failures = 0
  BY GenerationIsFresh DEF Init, States
<1>2. CallsOf(cb) = {} /\ CallsHaveBegun(cb)
  BY <1>1 DEF Init, CallsOf, CallsHaveBegun, None
<1>3. Good(cb)
  BY <1>1, <1>2 DEF Init, Good, ProbesAgree, FailuresAgree
<1>4. TypeOK
  <2>1. healthy \in BOOLEAN
    BY DEF Init
  <2>2. call \in [Callers -> Nat] /\ failed \in 0..MaxFailures /\ cancels \in 0..MaxCancels
        /\ fresh \in SUBSET Callers /\ row \in Nat
    BY BreakerBoundsAssumption DEF Init, None
  <2> QED
    BY <1>1, <2>1, <2>2 DEF TypeOK, Breakers, States
<1> QED
  BY <1>3, <1>4 DEF BreakerInv

LEMMA BreakerInvariance == Spec => []BreakerInv
BY BreakerInitially, BreakerStays, PTL DEF Spec

\* Every variable stays in its domain, and no count of the breaker passes its limit.
THEOREM BreakerTypeCorrect == Spec => []TypeOK
<1>1. BreakerInv => TypeOK
  BY DEF BreakerInv
<1> QED
  BY <1>1, BreakerInvariance, PTL

\* For any number of callers: a half-open breaker lets at most HalfOpenRequests probes
\* through to the dependency, those that have succeeded included, whatever results come
\* back late and whether or not an abandoned probe is given back.
THEOREM ProbesStayLimited == Spec => []ProbesAreLimited
<1>1. ASSUME BreakerInv PROVE ProbesAreLimited
  <2>1. cb \in Breakers /\ ProbesAgree(cb)
    BY <1>1 DEF BreakerInv, Good
  <2>2. CallsOf(cb) = Probing
    BY DEF CallsOf, Probing
  <2>3. Cardinality(Probing) \in Nat /\ cb.probes \in 0..HalfOpenRequests /\ cb.successes \in Nat
    BY <2>1, <2>2, CallsAreFinite DEF Breakers
  <2> QED
    BY <2>1, <2>2, <2>3, ThresholdsAssumption DEF ProbesAgree, ProbesAreLimited
<1> QED
  BY <1>1, BreakerInvariance, PTL

\* For any threshold: a closed breaker opens only after FailureThreshold failures in a row
\* of calls begun since it closed.
THEOREM OnlyFreshFailuresTrip == Spec => TripsOnFreshFailures
<1>1. BreakerInv /\ [Next]_vars =>
        [cb.state = "closed" /\ cb'.state = "open" => row' >= FailureThreshold]_vars
  BY BreakerStays
<1> QED
  BY <1>1, BreakerInvariance, PTL DEF Spec, TripsOnFreshFailures
=============================================================================
