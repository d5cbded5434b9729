---------------------------- MODULE ApiRequests ----------------------------
(* The way of a request from the router to its handler: the limiter by client   *)
(* address, the limiter by user, for uploads one limiter more, shared by the     *)
(* REST API and the form, and then the handler of UserAvatars.  All limiters     *)
(* count in the memory of one process.                                           *)
EXTENDS UserAvatars, Sequences

CONSTANTS
    Addresses,     \* addresses of clients
    RateLimit,     \* APP_RATE_LIMIT_RPM
    UploadLimit,   \* APP_RATE_LIMIT_UPLOAD_RPM
    MaxWindows     \* bound: minutes that begin

ASSUME LimitsAssumption ==
    /\ RateLimit \in Nat \ {0}
    /\ UploadLimit \in 1..RateLimit
    /\ MaxWindows \in Nat
ASSUME KeysAssumption == Users \cap Addresses = {}  \* the keys of users start with "user:"

VARIABLES
    hits,          \* requests each limiter has let through in this minute, by key
    previous,      \* the same in the minute before
    window,        \* minutes begun
    ticket         \* of each request: its address, its user key and the limiters behind it

limiterVars == <<hits, previous, window, ticket>>

apiVars == <<userVars, limiterVars>>

Limiters == {"address", "user", "upload"}

Keys == Users \cup Addresses

----------------------------------------------------------------------------
\* The limiters a request meets, in this order.
Chain(r) ==
    IF request[r].kind = "upload" THEN <<"address", "user", "upload">> ELSE <<"address", "user">>

\* Wrong on purpose: the limiter of uploads counts by user.
KeyOfUser(r, l) == IF l = "address" THEN ticket[r].address ELSE ticket[r].user

\* What limiter l counts r under: clientIPKey or userKey.
Key(r, l) == IF l = "user" THEN ticket[r].user ELSE ticket[r].address

LimitOf(l) == IF l = "upload" THEN UploadLimit ELSE RateLimit

\* Wrong on purpose: the request itself is left out of the count.
ExceededWithout(l, k, carried) == carried + hits[l][k] > LimitOf(l)

\* httprate: the hits of this minute, and those of the last one as far as it still
\* overlaps the minute that ends now.
Exceeded(l, k, carried) == carried + hits[l][k] + 1 > LimitOf(l)

NextLimiter(r) == Chain(r)[ticket[r].passed + 1]

InHandler(r) == ticket[r].passed = Len(Chain(r))

ApiInit ==
    /\ UserInit
    /\ hits = [l \in Limiters |-> [k \in Keys |-> 0]]
    /\ previous = hits
    /\ window = 0
    /\ \E x \in Addresses :
         ticket = [r \in Requests |-> [address |-> x, user |-> x, passed |-> 0, fresh |-> {}]]

\* A request comes in.  A form sends no X-User-ID, and goes by its address.
Receive(r, x) ==
    /\ \E kind \in Kinds \ {"none"}, u, o \in Users, a \in Avatars \cup {NoAvatar} :
         /\ Arrive(r, kind, u, o, a)
         /\ \E k \in {u, x} :
              ticket' = [ticket EXCEPT ![r] = [address |-> x, user |-> k, passed |-> 0, fresh |-> {}]]
    /\ UNCHANGED <<hits, previous, window>>

\* A limiter looks at its counters and counts the request in one step, under its mutex.
LetThrough(r) ==
    /\ request[r].step = "arrived" /\ ~InHandler(r)
    /\ LET l == NextLimiter(r) k == Key(r, l) IN
         /\ \E carried \in 0..previous[l][k] : ~Exceeded(l, k, carried)
         /\ hits' = [hits EXCEPT ![l][k] = @ + 1]
         /\ ticket' = [ticket EXCEPT ![r].passed = @ + 1, ![r].fresh = @ \cup {l}]
    /\ UNCHANGED <<userVars, previous, window>>

\* 429, which no counter takes into account.
TurnAway(r) ==
    /\ ~InHandler(r)
    /\ LET l == NextLimiter(r) k == Key(r, l) IN
         \E carried \in 0..previous[l][k] : Exceeded(l, k, carried)
    /\ Refuse(r)
    /\ UNCHANGED limiterVars

\* Past its limiters the request is handled; it may be cut short before that too.
Process(r) ==
    /\ (InHandler(r) /\ Handle(r)) \/ Cut(r)
    /\ UNCHANGED limiterVars

NextWindow ==
    /\ window < MaxWindows
    /\ window' = window + 1
    /\ previous' = hits
    /\ hits' = [l \in Limiters |-> [k \in Keys |-> 0]]
    /\ ticket' = [r \in Requests |-> [ticket[r] EXCEPT !.fresh = {}]]
    /\ UNCHANGED userVars

ApiNext ==
    \/ \E r \in Requests :
         \/ \E x \in Addresses : Receive(r, x)
         \/ LetThrough(r)
         \/ TurnAway(r)
         \/ Process(r)
    \/ NextWindow

ApiSpec == ApiInit /\ [][ApiNext]_apiVars

----------------------------------------------------------------------------
\* Properties.

Tickets == [address : Addresses, user : Keys, passed : 0..3, fresh : SUBSET Limiters]

Counters == [Limiters -> [Keys -> 0..RateLimit]]

\* Every variable stays in its domain, and no counter passes the limit.
ApiTypeOK ==
    /\ UserTypeOK
    /\ hits \in Counters /\ previous \in Counters
    /\ window \in 0..MaxWindows
    /\ ticket \in [Requests -> Tickets]

\* Requests that limiter l has let through in this minute.
Admitted(l) == {r \in Requests : l \in ticket[r].fresh}

\* middleware.go, UploadRateLimiter: the entry point does not get a client past the
\* limit of uploads, nor does X-User-ID, which nobody verifies: in one minute no more
\* uploads from one address reach a handler, by whichever way, than the limit allows.
\* The same goes for all requests of one address, and of one user.
AdmissionIsBounded ==
    \A x \in Addresses :
        /\ Cardinality({r \in Admitted("upload") : ticket[r].address = x}) <= UploadLimit
        /\ Cardinality({r \in Admitted("address") : ticket[r].address = x}) <= RateLimit
        /\ \A u \in Users : Cardinality({r \in Admitted("user") : ticket[r].user = u}) <= RateLimit
=============================================================================
