----------------------------- MODULE RateLimit ------------------------------
(***************************************************************************)
(* RateLimitMiddleware, which every route of the shop runs first: one Redis *)
(* counter per client address, incremented by INCR and given its lifetime   *)
(* by a separate EXPIRE.  A request may be suspended at each of its awaits  *)
(* (INCR, TTL, EXPIRE), and its server may die there.                       *)
(*                                                                         *)
(* Only two facts about the count matter to the code, whether it is 1 and   *)
(* whether it exceeds Limit, so the model's counter stops at Limit + 1.     *)
(***************************************************************************)
EXTENDS Integers, FiniteSets

CONSTANTS
    Addresses,   \* the Redis keys the client addresses are mapped to
    Requests,    \* requests the servers may have in flight at once
    Limit,       \* 20 in the code
    Second,      \* ticks of the clock in a second
    Window       \* 60 seconds in the code, in ticks

ASSUME RateLimitAssumption ==
    /\ IsFiniteSet(Requests)
    /\ Limit \in Nat \ {0}
    /\ Second \in Nat \ {0}
    /\ Window \in Nat \ {0}

VARIABLES
    counters,    \* Redis: the counter of each address
    req,         \* what each request in flight is doing
    age,         \* history: ticks since the counter was created
    admitted,    \* history: requests let through on the present counter
    standing     \* history: requests in flight that the present counter has counted

vars == <<counters, req, age, admitted, standing>>

-----------------------------------------------------------------------------

Forever == -1                   \* the lifetime of a key without an expiry
Absent == [n |-> 0, left |-> Forever]
Idle == [pc |-> "idle"]

CounterType == [n : 0..(Limit + 1), left : {Forever} \cup 1..Window]

ReqType == {Idle} \cup
    [pc : {"incr", "expire", "ttl"}, at : Addresses, n : 0..(Limit + 1)]

Min2(a, b) == IF a < b THEN a ELSE b

\* The reply of the TTL command: -2 for no key, -1 for no expiry, otherwise the
\* milliseconds left rounded to the nearest second, 0 for less than half of one.
TtlReply(c) ==
    IF c = Absent THEN -2
    ELSE IF c.left = Forever THEN -1
    ELSE (2 * c.left + Second) \div (2 * Second)

\* numRequst > 20 is turned away, everything else goes on to its route.
Decide(r) ==
    /\ req' = [req EXCEPT ![r] = Idle]
    /\ admitted' = [admitted EXCEPT ![req[r].at] =
                        IF r \in standing /\ req[r].n <= Limit THEN @ + 1 ELSE @]
    /\ standing' = standing \ {r}

\* A request of address a reaches the middleware.
Arrive(r, a) ==
    /\ req[r] = Idle
    /\ req' = [req EXCEPT ![r] = [pc |-> "incr", at |-> a, n |-> 0]]
    /\ UNCHANGED <<counters, age, admitted, standing>>

\* Mutant of Incr: every request starts the window anew.
IncrSliding(r) ==
    /\ req[r].pc = "incr"
    /\ LET a == req[r].at
           n == Min2(counters[a].n + 1, Limit + 1)
       IN /\ counters' = [counters EXCEPT ![a] = [n |-> n, left |-> Window]]
          /\ req' = [req EXCEPT ![r].n = n, ![r].pc = IF n = 1 THEN "expire" ELSE "ttl"]
          /\ age' = [age EXCEPT ![a] = IF n = 1 THEN 0 ELSE @]
          /\ standing' = standing \cup {r}
          /\ UNCHANGED admitted

\* Mutant of Incr: a refused request starts the count again.
IncrWrapping(r) ==
    /\ req[r].pc = "incr"
    /\ LET a == req[r].at
           n == IF counters[a].n = Limit + 1 THEN 1 ELSE counters[a].n + 1
       IN /\ counters' = [counters EXCEPT ![a].n = n]
          /\ req' = [req EXCEPT ![r].n = n, ![r].pc = IF n = 1 THEN "expire" ELSE "ttl"]
          /\ standing' = standing \cup {r}
          /\ UNCHANGED <<age, admitted>>

\* INCR: an absent key becomes 1 without expiry, a present one keeps its expiry.
\* The first request sets the expiry, any other looks at what is left.
Incr(r) ==
    /\ req[r].pc = "incr"
    /\ LET a == req[r].at
           n == Min2(counters[a].n + 1, Limit + 1)
       IN /\ counters' = [counters EXCEPT ![a].n = n]
          /\ req' = [req EXCEPT ![r].n = n, ![r].pc = IF n = 1 THEN "expire" ELSE "ttl"]
          /\ age' = [age EXCEPT ![a] = IF n = 1 THEN 0 ELSE @]
          /\ standing' = standing \cup {r}
          /\ UNCHANGED admitted

\* Mutant of ReadTtl: only the first request ever sets the expiry.
ReadTtlOnly(r) ==
    /\ req[r].pc = "ttl"
    /\ Decide(r)
    /\ UNCHANGED <<counters, age>>

\* TTL: a counter without expiry, or in its last half second, gets a new window.
ReadTtl(r) ==
    /\ req[r].pc = "ttl"
    /\ IF TtlReply(counters[req[r].at]) <= 0
       THEN /\ req' = [req EXCEPT ![r].pc = "expire"]
            /\ UNCHANGED <<admitted, standing>>
       ELSE Decide(r)
    /\ UNCHANGED <<counters, age>>

\* Mutant of Expire: the 60 is taken for milliseconds.
ExpireInMilliseconds(r) ==
    /\ req[r].pc = "expire"
    /\ counters' = [counters EXCEPT ![req[r].at] =
                        IF @ = Absent THEN Absent ELSE [@ EXCEPT !.left = 1]]
    /\ Decide(r)
    /\ UNCHANGED age

\* Mutant of Expire: the 60 is taken for minutes.
ExpireInMinutes(r) ==
    /\ req[r].pc = "expire"
    /\ counters' = [counters EXCEPT ![req[r].at] =
                        IF @ = Absent THEN Absent ELSE [@ EXCEPT !.left = 60 * Window]]
    /\ Decide(r)
    /\ UNCHANGED age

\* EXPIRE: a full window from now, nothing if the key has gone meanwhile.
Expire(r) ==
    /\ req[r].pc = "expire"
    /\ counters' = [counters EXCEPT ![req[r].at] =
                        IF @ = Absent THEN Absent ELSE [@ EXCEPT !.left = Window]]
    /\ Decide(r)
    /\ UNCHANGED age

\* The awaited command is rejected or the server dies: the request ends.
Abort(r) ==
    /\ req[r] # Idle
    /\ req' = [req EXCEPT ![r] = Idle]
    /\ standing' = standing \ {r}
    /\ UNCHANGED <<counters, age, admitted>>

Lapsing(a) == counters[a].left = 1

\* One tick of the clock; Redis drops the counters whose time is up.
Tick ==
    /\ counters' = [a \in Addresses |->
                        IF Lapsing(a) THEN Absent
                        ELSE IF counters[a].left = Forever THEN counters[a]
                        ELSE [counters[a] EXCEPT !.left = @ - 1]]
    /\ age' = [a \in Addresses |-> Min2(age[a] + 1, Window)]
    /\ admitted' = [a \in Addresses |-> IF Lapsing(a) THEN 0 ELSE admitted[a]]
    /\ standing' = {r \in standing : ~Lapsing(req[r].at)}
    /\ UNCHANGED req

Init ==
    /\ counters = [a \in Addresses |-> Absent]
    /\ req = [r \in Requests |-> Idle]
    /\ age = [a \in Addresses |-> 0]
    /\ admitted = [a \in Addresses |-> 0]
    /\ standing = {}

Step(r) == Incr(r) \/ ReadTtl(r) \/ Expire(r)

Next ==
    \/ \E r \in Requests, a \in Addresses : Arrive(r, a)
    \/ \E r \in Requests : Step(r) \/ Abort(r)
    \/ Tick

Spec == Init /\ [][Next]_vars

\* Time passes whatever the requests do.
FairSpec == Spec /\ WF_vars(Tick)

-----------------------------------------------------------------------------
(* Properties.                                                             *)

TypeOK ==
    /\ counters \in [Addresses -> CounterType]
    /\ req \in [Requests -> ReqType]
    /\ age \in [Addresses -> 0..Window]
    /\ admitted \in [Addresses -> Nat]
    /\ standing \subseteq Requests

\* No counter lets more than Limit requests through in its lifetime, however the
\* INCR, TTL and EXPIRE of concurrent requests interleave.
AtMostLimit == \A a \in Addresses : admitted[a] <= Limit

\* Nobody gets a fresh quota early: a counter disappears only when a whole window
\* has passed since the request that created it.
NoEarlyReset ==
    [][\A a \in Addresses :
        counters[a] # Absent /\ counters'[a] = Absent => age[a] + 1 >= Window]_vars

\* A counter that no expiry will ever remove bars its address for good. A crash
\* between INCR and EXPIRE leaves one behind, but the next request that gets an
\* answer mends it: a request is only ever decided on a counter that will lapse.
DecidedOnMortalCounter ==
    [][\A r \in Requests :
        Step(r) /\ req'[r] = Idle =>
            counters'[req[r].at] = Absent \/ counters'[req[r].at].left # Forever]_vars

\* EXPIRE by a request that was not the first on its counter.
Renew(a) ==
    \E r \in Requests :
        req[r].pc = "expire" /\ req[r].n # 1 /\ req[r].at = a /\ Expire(r)

\* A window ends unless requests keep arriving in its last half second, or an
\* answer fails with the counter still immortal: with both finitely often, every
\* address is infinitely often without a counter or its counter stays immortal.
WindowsEnd ==
    \A a \in Addresses :
        \/ []<>(counters[a] = Absent)
        \/ []<><<Renew(a)>>_vars
        \/ <>[](counters[a].left = Forever)

=============================================================================
