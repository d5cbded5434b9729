------------------------- MODULE MCAvatarLifecycle -------------------------
(* Small instances of AvatarLifecycle: what the replicas decode, and two    *)
(* smaller environments.                                                    *)
EXTENDS AvatarLifecycle, TLC

\* Every replica runs with the same pixel limit.
SameLimits == [w \in Workers |-> {"fits"}]

\* Clients that upload and never delete.
NoDeletions == Init /\ [][Next /\ UNCHANGED deletes]_vars /\ Fairness

Idle(w) == process[w].pc = "idle" /\ remove[w].pc = "idle" /\ stuck[w] = {}

\* A bound: the second replica is at work only as long as nothing has failed.
Bound == faults > 0 => \A w \in Workers \ {"w1"} : Idle(w)

\* The whole system within that bound, with the same fairness.
BoundedSpec ==
    /\ Init
    /\ [][Next /\ Bound']_vars
    /\ \A a \in Avatars :
        /\ WF_vars(CreateRow(a) \/ RemoveOrphan(a) \/ PublishUpload(a))
        /\ WF_vars(PublishDelete(a))
    /\ \A w \in Workers :
        /\ WF_vars(Process(w) /\ Bound')
        /\ WF_vars(Remove(w) /\ Bound')
        /\ WF_vars(Reconcile(w) /\ Bound')
=============================================================================
