------------------------------ MODULE Breaker ------------------------------
(* The circuit breaker of one dependency (breaker.Breaker over gobreaker),  *)
(* used by concurrent callers.  A call is two critical sections of the      *)
(* breaker with the dependency's work between them, so its result may come  *)
(* back to a breaker that has moved on.                                     *)
EXTENDS Naturals, FiniteSets

CONSTANTS
    Callers,              \* goroutines that call the dependency
    FailureThreshold,     \* BREAKER_FAILURE_THRESHOLD
    HalfOpenRequests,     \* BREAKER_HALF_OPEN_REQUESTS
    ExclusionFreesProbe,  \* does an excluded result give its probe back?
    MaxFailures,          \* bound: results that are failures
    MaxCancels            \* bound: results that are cancellations

ASSUME CallersAssumption == IsFiniteSet(Callers)
ASSUME ThresholdsAssumption == FailureThreshold \in Nat \ {0} /\ HalfOpenRequests \in Nat \ {0}
ASSUME ExclusionAssumption == ExclusionFreesProbe \in BOOLEAN
ASSUME BreakerBoundsAssumption == MaxFailures \in Nat /\ MaxCancels \in Nat

VARIABLES
    cb,         \* state, generation and counts of the breaker
    call,       \* generation in which each caller's call began, or None
    healthy,    \* has the dependency recovered for good?
    failed,     \* results so far that were failures
    cancels,    \* results so far that were cancellations
    fresh,      \* history: callers whose call began after the breaker last closed
    row         \* history: failures in a row among such calls

vars == <<cb, call, healthy, failed, cancels, fresh, row>>

None == 0

\* A new generation starts counting afresh.
Generation(s, g) ==
    [state |-> s, generation |-> g, failures |-> 0, successes |-> 0, probes |-> 0, expired |-> FALSE]

SetState(b, s) == Generation(s, b.generation + 1)

\* Every access first notices that the pause of an open breaker is over.
Current(b) == IF b.state = "open" /\ b.expired THEN SetState(b, "half-open") ELSE b

Init ==
    /\ cb = Generation("closed", 1)
    /\ call = [c \in Callers |-> None]
    /\ healthy = FALSE
    /\ failed = 0
    /\ cancels = 0
    /\ fresh = {}
    /\ row = 0

----------------------------------------------------------------------------
\* Results.

\* isExcluded and isSuccessful sort what a call returns: "refusal" stands for
\* the errors of a healthy dependency (not found, forbidden, bad data).
Results == {"success", "refusal", "cancelled", "failure"}
IsExcluded(o) == o = "cancelled"
IsSuccessful(o) == o \in {"success", "refusal"}

OnSuccess(b) ==
    IF b.state # "half-open" THEN [b EXCEPT !.failures = 0]
    ELSE IF b.successes + 1 >= HalfOpenRequests THEN SetState(b, "closed")
    ELSE [b EXCEPT !.successes = @ + 1]

\* ReadyToTrip
OnFailure(b) ==
    IF b.state = "half-open" \/ b.failures + 1 >= FailureThreshold THEN SetState(b, "open")
    ELSE [b EXCEPT !.failures = @ + 1]

\* Wrong on purpose: a cancelled probe is never given back.
KeepProbe(b) == b

OnExclusion(b) ==
    IF b.state = "half-open" /\ ExclusionFreesProbe THEN [b EXCEPT !.probes = @ - 1] ELSE b

Count(b, o) ==
    IF IsExcluded(o) THEN OnExclusion(b)
    ELSE IF IsSuccessful(o) THEN OnSuccess(b)
    ELSE OnFailure(b)

\* Wrong on purpose: results of calls begun before the last change of state count.
CountAnyway(c, o) == Count(Current(cb), o)

\* Only a call of the current generation counts.
AfterRequest(c, o) ==
    LET b == Current(cb) IN
    IF b.generation = call[c] THEN Count(b, o) ELSE b

----------------------------------------------------------------------------
\* Breaker.Do.

\* Wrong on purpose: one probe too many.
AdmitsOneMore(b) ==
    \/ b.state = "closed"
    \/ b.state = "half-open" /\ b.probes <= HalfOpenRequests

Admits(b) ==
    \/ b.state = "closed"
    \/ b.state = "half-open" /\ b.probes < HalfOpenRequests

\* The histories forget the past when the breaker closes.
Closes == cb.state # "closed" /\ cb'.state = "closed"

Begin(c) ==
    LET b == Current(cb) IN
    /\ call[c] = None
    /\ Admits(b)
    /\ cb' = IF b.state = "half-open" THEN [b EXCEPT !.probes = @ + 1] ELSE b
    /\ call' = [call EXCEPT ![c] = b.generation]
    /\ fresh' = fresh \cup {c}
    /\ UNCHANGED <<healthy, failed, cancels, row>>

\* ErrUnavailable, without calling the dependency.
Reject(c) ==
    /\ call[c] = None
    /\ ~Admits(Current(cb))
    /\ cb' = Current(cb)
    /\ UNCHANGED <<call, healthy, failed, cancels, fresh, row>>

End(c, o) ==
    /\ call[c] # None
    /\ o = "failure" => ~healthy /\ failed < MaxFailures
    /\ o = "cancelled" => cancels < MaxCancels
    /\ cb' = AfterRequest(c, o)
    /\ call' = [call EXCEPT ![c] = None]
    /\ failed' = IF o = "failure" THEN failed + 1 ELSE failed
    /\ cancels' = IF o = "cancelled" THEN cancels + 1 ELSE cancels
    /\ fresh' = IF Closes THEN {} ELSE fresh \ {c}
    /\ row' = IF Closes THEN 0
              ELSE IF c \notin fresh \/ o = "cancelled" THEN row
              ELSE IF o = "failure" THEN row + 1
              ELSE 0
    /\ UNCHANGED healthy

\* State(): read by the metrics, moves an expired breaker on without traffic.
ReadState ==
    /\ cb' = Current(cb)
    /\ UNCHANGED <<call, healthy, failed, cancels, fresh, row>>

TimeoutExpires ==
    /\ cb.state = "open"
    /\ cb' = [cb EXCEPT !.expired = TRUE]
    /\ UNCHANGED <<call, healthy, failed, cancels, fresh, row>>

DependencyRecovers ==
    /\ healthy' = TRUE
    /\ UNCHANGED <<cb, call, failed, cancels, fresh, row>>

Next ==
    \/ \E c \in Callers : Begin(c) \/ Reject(c) \/ \E o \in Results : End(c, o)
    \/ ReadState \/ TimeoutExpires \/ DependencyRecovers

Spec == Init /\ [][Next]_vars

\* Requests keep coming and end (they have deadlines), and time passes.
FairSpec ==
    /\ Spec
    /\ WF_vars(TimeoutExpires)
    /\ \A c \in Callers : WF_vars(Begin(c)) /\ WF_vars(\E o \in Results : End(c, o))

----------------------------------------------------------------------------
\* Properties.

\* Every variable stays in its domain, and no count goes past its limit.
TypeOK ==
    /\ cb \in [state : {"closed", "half-open", "open"}, generation : Nat \ {0},
               failures : 0..FailureThreshold - 1, successes : 0..HalfOpenRequests - 1,
               probes : 0..HalfOpenRequests, expired : BOOLEAN]
    /\ call \in [Callers -> Nat]
    /\ healthy \in BOOLEAN
    /\ failed \in 0..MaxFailures
    /\ cancels \in 0..MaxCancels
    /\ fresh \in SUBSET Callers
    /\ row \in Nat

Probing == {c \in Callers : call[c] = cb.generation}

\* A half-open breaker never lets the dependency see more than
\* HalfOpenRequests probes, those that have succeeded included.
ProbesAreLimited ==
    cb.state = "half-open" => Cardinality(Probing) + cb.successes <= HalfOpenRequests

\* A breaker that has closed opens again only after FailureThreshold failures
\* in a row of calls begun since: results of calls that outlived an outage
\* cannot cut off a dependency that has recovered.
TripsOnFreshFailures ==
    [][cb.state = "closed" /\ cb'.state = "open" => row' >= FailureThreshold]_vars

\* Once the dependency is back the breaker closes: its probes succeed, and those
\* their clients abandon are given back.
RecoversWhenHealthy == healthy ~> cb.state = "closed"
=============================================================================
