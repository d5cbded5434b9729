--------------------------- MODULE MCApiRequests ---------------------------
(* Instances of ApiRequests for TLC. *)
EXTENDS ApiRequests, TLC

CONSTANTS
    FormUsers,     \* bound: users of the form; the others call the REST API
    MaxEvents      \* bound: requests and faults, together

\* Bound: at most one avatar from before.
BoundedInit ==
    /\ ApiInit
    /\ Cardinality(Committed) <= 1
    /\ \A a \in Committed : avatars[a].created = 0

\* Bound: no handler goes on while a request is among the limiters, which share no
\* state with the handlers, and a minute ends only as one of them would be refused.
AmongLimiters(r) == request[r].step = "arrived" /\ ~InHandler(r)

BoundedNext ==
    /\ ApiNext
    /\ \A r, q \in Requests :
         AmongLimiters(r) /\ request'[q] # request[q]
         => request[q].step = "idle" \/ request'[q].answer = "tooMany"
    /\ Cardinality({r \in Requests : request'[r].step # "idle"}) + faults' <= MaxEvents
    /\ window' # window =>
         \E r \in Requests : AmongLimiters(r) /\ Exceeded(NextLimiter(r), Key(r, NextLimiter(r)), 0)
    /\ \A r \in Requests :
         request'[r].step # "idle" => (ticket'[r].user \in Addresses) = (request'[r].user \in FormUsers)

BoundedSpec == BoundedInit /\ [][BoundedNext]_apiVars

\* Nothing tells two requests or two avatars apart.
Alike == Permutations(Requests) \cup Permutations(Avatars)
=============================================================================
