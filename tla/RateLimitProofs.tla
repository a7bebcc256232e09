-------------------------- MODULE RateLimitProofs ---------------------------
(* Theorems about RateLimit, for every limit, window and number of requests. *)
EXTENDS RateLimit, FiniteSetTheorems, TLAPS

-----------------------------------------------------------------------------
(* The inductive invariant.                                                *)

\* A count of zero is an absent key, and a request the counter has counted is past
\* its INCR.
Shape ==
    /\ \A a \in Addresses : counters[a].n = 0 => counters[a] = Absent
    /\ \A r \in standing : req[r].pc \in {"expire", "ttl"}

\* The requests in flight that hold a place on the present counter of a.
Places(a) == {r \in standing : req[r].at = a /\ req[r].n <= Limit}

\* Places taken and places held together never exceed the count: that is what keeps
\* an answer still being worked out from being given away a second time.
Quota ==
    \A a \in Addresses :
        admitted[a] + Cardinality(Places(a)) <= Min2(counters[a].n, Limit)

\* What a counter has lived and what it still has to live make at least one window.
FullWindow ==
    \A a \in Addresses :
        counters[a].left # Forever => age[a] + counters[a].left >= Window

Inv == TypeOK /\ Shape /\ Quota /\ FullWindow

LEMMA PlacesFinite ==
    ASSUME TypeOK, NEW a \in Addresses
    PROVE  IsFiniteSet(Places(a)) /\ Cardinality(Places(a)) \in Nat
  <1>1. Places(a) \in SUBSET Requests
    BY DEF Places, TypeOK
  <1> QED BY <1>1, RateLimitAssumption, FS_Subset, FS_CardinalityType

\* A request at work on an address.
LEMMA Busy ==
    ASSUME TypeOK, NEW r \in Requests, req[r] # Idle
    PROVE  /\ req[r].pc \in {"incr", "expire", "ttl"}
           /\ req[r].at \in Addresses
           /\ req[r].n \in 0..(Limit + 1)
  BY DEF TypeOK, ReqType, Idle

LEMMA InitInv == Init => Inv
  <1> SUFFICES ASSUME Init PROVE Inv
    OBVIOUS
  <1> USE RateLimitAssumption DEF Init
  <1>1. TypeOK
    BY DEF TypeOK, CounterType, ReqType, Absent, Idle, Forever
  <1>2. Shape /\ FullWindow
    BY DEF Shape, FullWindow, Absent, Forever
  <1>3. ASSUME NEW a \in Addresses
        PROVE  admitted[a] + Cardinality(Places(a)) <= Min2(counters[a].n, Limit)
    <2>1. Places(a) = {}
      BY DEF Places
    <2> QED BY <2>1, FS_EmptySet DEF Min2, Absent
  <1> QED BY <1>1, <1>2, <1>3 DEF Inv, Quota

-----------------------------------------------------------------------------
(* One lemma per action.                                                   *)

LEMMA ArriveInv ==
    ASSUME Inv, NEW r \in Requests, NEW a \in Addresses, Arrive(r, a)
    PROVE  Inv'
  <1> USE RateLimitAssumption DEF Inv
  <1>1. r \notin standing
    BY DEF Arrive, Shape, Idle
  <1>2. TypeOK'
    BY DEF Arrive, TypeOK, ReqType
  <1>3. Shape' /\ FullWindow'
    BY <1>1 DEF Arrive, Shape, FullWindow, TypeOK
  <1>4. \A b \in Addresses : Places(b)' = Places(b)
    BY <1>1 DEF Arrive, Places, TypeOK
  <1> QED BY <1>2, <1>3, <1>4 DEF Arrive, Quota

LEMMA IncrInv ==
    ASSUME Inv, NEW r \in Requests, Incr(r)
    PROVE  Inv'
  <1> USE RateLimitAssumption DEF Inv
  <1>1. req[r] # Idle /\ r \notin standing
    BY DEF Incr, Idle, Shape
  <1>a. PICK a \in Addresses : a = req[r].at
    BY <1>1, Busy
  <1>2. counters[a] \in CounterType /\ counters[a].n \in 0..(Limit + 1)
    BY DEF TypeOK, CounterType
  <1>n. PICK n \in 1..(Limit + 1) : n = Min2(counters[a].n + 1, Limit + 1)
    BY <1>2 DEF Min2
  <1>3. /\ counters' = [counters EXCEPT ![a].n = n]
        /\ req' = [req EXCEPT ![r].n = n, ![r].pc = IF n = 1 THEN "expire" ELSE "ttl"]
        /\ age' = [age EXCEPT ![a] = IF n = 1 THEN 0 ELSE @]
        /\ standing' = standing \cup {r} /\ admitted' = admitted
    BY <1>a, <1>n DEF Incr
  <1>4. /\ counters' = [counters EXCEPT ![a] = [counters[a] EXCEPT !.n = n]]
        /\ counters'[a].n = n /\ counters'[a].left = counters[a].left
        /\ \A b \in Addresses : b # a => counters'[b] = counters[b]
    BY <1>2, <1>3 DEF TypeOK, CounterType
  <1>5. /\ req'[r].n = n /\ req'[r].at = a /\ req'[r].pc \in {"expire", "ttl"}
        /\ req'[r] \in ReqType
        /\ \A q \in Requests : q # r => req'[q] = req[q]
    <2>1. req[r] \in ReqType
      BY DEF TypeOK
    <2>2. req' = [req EXCEPT ![r] = [req[r] EXCEPT !.n = n,
                                     !.pc = IF n = 1 THEN "expire" ELSE "ttl"]]
      BY <1>3 DEF TypeOK
    <2>3. req'[r] = [req[r] EXCEPT !.n = n, !.pc = IF n = 1 THEN "expire" ELSE "ttl"]
      BY <2>2 DEF TypeOK
    <2>4. req[r] \in [pc : {"incr", "expire", "ttl"}, at : Addresses, n : 0..(Limit + 1)]
      BY <1>1, <2>1 DEF ReqType
    <2>5. req'[r].n = n /\ req'[r].at = a /\ req'[r].pc \in {"expire", "ttl"}
      BY <1>a, <2>3, <2>4
    <2>6. req'[r] \in ReqType
      <3>1. n \in 0..(Limit + 1)
        OBVIOUS
      <3>2. req'[r] \in [pc : {"incr", "expire", "ttl"}, at : Addresses, n : 0..(Limit + 1)]
        BY <2>3, <2>4, <3>1, Zenon
      <3> QED BY <3>2 DEF ReqType
    <2> QED BY <2>2, <2>5, <2>6 DEF TypeOK
  <1>6. TypeOK'
    <2>1. [counters[a] EXCEPT !.n = n] \in CounterType
      BY <1>2 DEF CounterType
    <2>2. counters' \in [Addresses -> CounterType]
      BY <1>4, <2>1 DEF TypeOK
    <2>3. req' \in [Requests -> ReqType]
      BY <1>3, <1>5 DEF TypeOK
    <2> QED BY <1>3, <2>2, <2>3 DEF TypeOK
  <1>7. Shape'
    BY <1>3, <1>4, <1>5 DEF Shape, TypeOK
  <1>8. FullWindow'
    <2>1. age'[a] = (IF n = 1 THEN 0 ELSE age[a]) /\ \A b \in Addresses : b # a => age'[b] = age[b]
      BY <1>3 DEF TypeOK
    <2>2. CASE n = 1
      <3>1. counters[a].left = Forever
        BY <1>2, <1>n, <2>2 DEF Min2, Shape, Absent
      <3> QED BY <1>4, <2>1, <3>1 DEF FullWindow
    <2>3. CASE n # 1
      BY <1>4, <2>1, <2>3 DEF FullWindow
    <2> QED BY <2>2, <2>3
  <1>9. Quota'
    <2>1. ASSUME NEW b \in Addresses, b # a
          PROVE  admitted'[b] + Cardinality(Places(b)') <= Min2(counters'[b].n, Limit)
      <3>1. Places(b)' = Places(b)
        BY <1>1, <1>3, <1>5, <2>1 DEF Places, TypeOK
      <3> QED BY <1>3, <1>4, <2>1, <3>1 DEF Quota
    <2>2. admitted'[a] + Cardinality(Places(a)') <= Min2(counters'[a].n, Limit)
      <3>1. /\ IsFiniteSet(Places(a)) /\ Cardinality(Places(a)) \in Nat
            /\ admitted[a] \in Nat /\ admitted' = admitted
            /\ admitted[a] + Cardinality(Places(a)) <= Min2(counters[a].n, Limit)
        BY <1>3, PlacesFinite DEF Quota, TypeOK
      <3>2. CASE n <= Limit
        <4>1. Places(a)' = Places(a) \cup {r}
          BY <1>3, <1>5, <3>2 DEF Places, TypeOK
        <4>2. r \notin Places(a)
          BY <1>1 DEF Places
        <4>3. Cardinality(Places(a) \cup {r}) = Cardinality(Places(a)) + 1
          BY <3>1, <4>2, FS_AddElement
        <4>4. n = counters[a].n + 1 /\ counters[a].n < Limit
          BY <1>2, <1>n, <3>2 DEF Min2
        <4> QED BY <1>2, <1>4, <3>1, <3>2, <4>1, <4>3, <4>4 DEF Min2
      <3>3. CASE n > Limit
        <4>1. Places(a)' = Places(a)
          BY <1>1, <1>3, <1>5, <3>3 DEF Places, TypeOK
        <4> QED BY <1>2, <1>4, <3>1, <3>3, <4>1 DEF Min2
      <3> QED BY <3>2, <3>3
    <2> QED BY <2>1, <2>2 DEF Quota
  <1> QED BY <1>6, <1>7, <1>8, <1>9

\* A decision turns the place it held, if any, into one taken.
LEMMA DecideQuota ==
    ASSUME TypeOK, Quota, NEW r \in Requests, req[r] # Idle, Decide(r),
           \A b \in Addresses : counters'[b].n = counters[b].n
    PROVE  Quota'
  <1>1. PICK a \in Addresses : a = req[r].at
    BY Busy
  <1>2. \A q \in standing' : q # r /\ q \in standing /\ req'[q] = req[q]
    BY DEF Decide, TypeOK
  <1>3. ASSUME NEW b \in Addresses
        PROVE  admitted'[b] + Cardinality(Places(b)') <= Min2(counters'[b].n, Limit)
    <2>1. /\ IsFiniteSet(Places(b)) /\ Cardinality(Places(b)) \in Nat
          /\ admitted[b] \in Nat
          /\ admitted[b] + Cardinality(Places(b)) <= Min2(counters[b].n, Limit)
      BY PlacesFinite DEF Quota, TypeOK
    <2>2. CASE r \in Places(b)
      <3>1. Places(b)' = Places(b) \ {r}
        BY <1>2 DEF Decide, Places, TypeOK
      <3>2. Cardinality(Places(b) \ {r}) = Cardinality(Places(b)) - 1
        BY <2>1, <2>2, FS_RemoveElement
      <3>3. admitted'[b] = admitted[b] + 1
        BY <2>2 DEF Decide, Places, TypeOK
      <3> QED BY <2>1, <3>1, <3>2, <3>3
    <2>3. CASE r \notin Places(b)
      <3>1. Places(b)' = Places(b)
        BY <1>2, <2>3 DEF Decide, Places, TypeOK
      <3>2. admitted'[b] = admitted[b]
        BY <1>1, <2>3 DEF Decide, Places, TypeOK
      <3> QED BY <2>1, <3>1, <3>2
    <2> QED BY <2>2, <2>3
  <1> QED BY <1>3 DEF Quota

\* A decision keeps the shape of the requests in flight.
LEMMA DecideShape ==
    ASSUME TypeOK, Shape, NEW r \in Requests, Decide(r)
    PROVE  /\ req' \in [Requests -> ReqType]
           /\ admitted' \in [Addresses -> Nat]
           /\ standing' \subseteq Requests
           /\ \A q \in standing' : req'[q].pc \in {"expire", "ttl"}
  <1>1. req' \in [Requests -> ReqType]
    BY DEF TypeOK, Decide, ReqType
  <1>2. admitted' \in [Addresses -> Nat]
    <2>1. ASSUME NEW b \in Addresses
          PROVE  admitted'[b] \in {admitted[b], admitted[b] + 1}
      BY DEF TypeOK, Decide
    <2>2. \A b \in Addresses : admitted[b] \in Nat
      BY DEF TypeOK
    <2>3. \A b \in Addresses : admitted'[b] \in Nat
      BY <2>1, <2>2
    <2>4. admitted' = [b \in Addresses |-> admitted'[b]]
      BY DEF TypeOK, Decide
    <2> QED BY <2>3, <2>4
  <1>3. standing' \subseteq Requests
    BY DEF TypeOK, Decide
  <1>4. \A q \in standing' : req'[q].pc \in {"expire", "ttl"}
    BY DEF TypeOK, Shape, Decide
  <1> QED BY <1>1, <1>2, <1>3, <1>4

LEMMA ReadTtlInv ==
    ASSUME Inv, NEW r \in Requests, ReadTtl(r)
    PROVE  Inv'
  <1> USE DEF Inv
  <1>1. req[r] # Idle
    BY DEF ReadTtl, Idle
  <1>2. CASE Decide(r)
    <2>1. Quota'
      BY <1>1, <1>2, DecideQuota DEF ReadTtl
    <2>2. TypeOK' /\ Shape' /\ FullWindow'
      BY <1>2, DecideShape DEF ReadTtl, TypeOK, Shape, FullWindow
    <2> QED BY <2>1, <2>2
  <1>3. CASE req' = [req EXCEPT ![r].pc = "expire"] /\ UNCHANGED <<admitted, standing>>
    <2>1. /\ req[r] \in [pc : {"incr", "expire", "ttl"}, at : Addresses, n : 0..(Limit + 1)]
          /\ req'[r] = [req[r] EXCEPT !.pc = "expire"]
          /\ \A q \in Requests : q # r => req'[q] = req[q]
      BY <1>1, <1>3 DEF TypeOK, ReqType
    <2>2. /\ req'[r] \in [pc : {"incr", "expire", "ttl"}, at : Addresses, n : 0..(Limit + 1)]
          /\ req'[r].at = req[r].at /\ req'[r].n = req[r].n /\ req'[r].pc = "expire"
      BY <2>1
    <2>3. TypeOK' /\ Shape' /\ FullWindow'
      BY <1>3, <2>1, <2>2 DEF ReadTtl, TypeOK, Shape, FullWindow, ReqType
    <2>4. \A b \in Addresses : Places(b)' = Places(b)
      BY <1>3, <2>1, <2>2 DEF Places, TypeOK
    <2>5. Quota'
      BY <1>3, <2>4 DEF ReadTtl, Quota
    <2> QED BY <2>3, <2>5
  <1> QED BY <1>2, <1>3 DEF ReadTtl

LEMMA ExpireInv ==
    ASSUME Inv, NEW r \in Requests, Expire(r)
    PROVE  Inv'
  <1> USE RateLimitAssumption DEF Inv
  <1>1. req[r] # Idle
    BY DEF Expire, Idle
  <1>2. PICK a \in Addresses : a = req[r].at
    BY <1>1, Busy
  <1>3. /\ \A b \in Addresses : b # a => counters'[b] = counters[b]
        /\ \/ counters'[a] = Absent /\ counters[a] = Absent
           \/ /\ counters[a] # Absent
              /\ counters'[a] = [counters[a] EXCEPT !.left = Window]
    BY <1>2 DEF Expire, TypeOK
  <1>4. /\ counters[a] \in CounterType /\ counters'[a] \in CounterType
        /\ counters'[a].n = counters[a].n
        /\ counters'[a].left # Forever => counters'[a].left = Window
        /\ counters[a] # Absent => counters'[a] # Absent
    BY <1>3 DEF TypeOK, CounterType, Absent, Forever
  <1>5. TypeOK'
    BY <1>3, <1>4, DecideShape DEF Expire, TypeOK
  <1>6. Shape'
    BY <1>3, <1>4, DecideShape DEF Expire, Shape
  <1>7. FullWindow'
    BY <1>3, <1>4 DEF Expire, FullWindow, TypeOK
  <1>8. Quota'
    BY <1>1, <1>3, <1>4, DecideQuota DEF Expire
  <1> QED BY <1>5, <1>6, <1>7, <1>8

LEMMA AbortInv ==
    ASSUME Inv, NEW r \in Requests, Abort(r)
    PROVE  Inv'
  <1> USE DEF Inv
  <1>1. TypeOK' /\ Shape' /\ FullWindow'
    BY DEF Abort, TypeOK, ReqType, Shape, FullWindow
  <1>2. ASSUME NEW b \in Addresses
        PROVE  admitted'[b] + Cardinality(Places(b)') <= Min2(counters'[b].n, Limit)
    <2>1. Places(b)' \in SUBSET Places(b)
      BY DEF Abort, Places, TypeOK
    <2>2. /\ IsFiniteSet(Places(b)) /\ Cardinality(Places(b)) \in Nat
          /\ Cardinality(Places(b)') \in Nat
          /\ Cardinality(Places(b)') <= Cardinality(Places(b))
      BY <2>1, PlacesFinite, FS_Subset, FS_CardinalityType
    <2>3. /\ admitted[b] \in Nat /\ counters[b].n \in Nat /\ Limit \in Nat
          /\ admitted[b] + Cardinality(Places(b)) <= Min2(counters[b].n, Limit)
      BY RateLimitAssumption DEF TypeOK, CounterType, Quota
    <2> QED BY <2>2, <2>3 DEF Abort, Min2
  <1> QED BY <1>1, <1>2 DEF Quota

LEMMA TickInv ==
    ASSUME Inv, Tick
    PROVE  Inv'
  <1> USE RateLimitAssumption DEF Inv
  <1>1. ASSUME NEW a \in Addresses
        PROVE  /\ counters'[a] \in CounterType
               /\ age'[a] \in 0..Window
               /\ counters'[a].n = 0 => counters'[a] = Absent
               /\ counters'[a].left # Forever => age'[a] + counters'[a].left >= Window
               /\ ~Lapsing(a) => counters'[a].n = counters[a].n
    <2>1. /\ counters[a] \in CounterType /\ counters[a].left \in {Forever} \cup 1..Window
          /\ age[a] \in 0..Window
      BY DEF TypeOK, CounterType
    <2>2. age'[a] = Min2(age[a] + 1, Window)
      BY DEF Tick
    <2>3. CASE Lapsing(a)
      <3>1. counters'[a] = Absent
        BY <2>3 DEF Tick
      <3> QED BY <2>1, <2>2, <2>3, <3>1 DEF Absent, CounterType, Forever, Min2
    <2>4. CASE ~Lapsing(a) /\ counters[a].left = Forever
      <3>1. counters'[a] = counters[a]
        BY <2>4 DEF Tick
      <3> QED BY <2>1, <2>2, <2>4, <3>1 DEF Min2, Shape
    <2>5. CASE ~Lapsing(a) /\ counters[a].left # Forever
      <3>1. counters'[a] = [counters[a] EXCEPT !.left = @ - 1]
        BY <2>5 DEF Tick
      <3>2. counters[a].left \in 2..Window
        BY <2>1, <2>5 DEF Lapsing
      <3>3. /\ counters'[a].n = counters[a].n /\ counters'[a].left = counters[a].left - 1
            /\ counters'[a] \in CounterType
        BY <2>1, <3>1, <3>2 DEF CounterType
      <3>4. counters[a].n # 0
        BY <2>5 DEF Shape, Absent
      <3>5. age[a] + counters[a].left >= Window
        BY <2>5 DEF FullWindow
      <3> QED BY <2>1, <2>2, <2>5, <3>2, <3>3, <3>4, <3>5 DEF Min2
    <2> QED BY <2>3, <2>4, <2>5
  <1>2. TypeOK'
    BY <1>1 DEF Tick, TypeOK
  <1>3. Shape' /\ FullWindow'
    BY <1>1 DEF Tick, Shape, FullWindow
  <1>4. ASSUME NEW a \in Addresses
        PROVE  admitted'[a] + Cardinality(Places(a)') <= Min2(counters'[a].n, Limit)
    <2>1. CASE Lapsing(a)
      <3>1. Places(a)' = {} /\ admitted'[a] = 0 /\ counters'[a].n = 0
        BY <2>1 DEF Tick, Places, TypeOK, Absent
      <3> QED BY <3>1, FS_EmptySet DEF Min2
    <2>2. CASE ~Lapsing(a)
      <3>1. Places(a)' = Places(a) /\ admitted'[a] = admitted[a]
        BY <2>2 DEF Tick, Places, TypeOK
      <3> QED BY <1>1, <2>2, <3>1 DEF Quota
    <2> QED BY <2>1, <2>2
  <1> QED BY <1>2, <1>3, <1>4 DEF Quota

LEMMA NextInv ==
    ASSUME Inv, [Next]_vars
    PROVE  Inv'
  <1>1. CASE UNCHANGED vars
    <2>1. \A a \in Addresses : Places(a)' = Places(a)
      BY <1>1 DEF vars, Places
    <2> QED BY <1>1, <2>1 DEF vars, Inv, TypeOK, Shape, Quota, FullWindow
  <1>2. CASE Next
    BY <1>2, ArriveInv, IncrInv, ReadTtlInv, ExpireInv, AbortInv, TickInv DEF Next, Step
  <1> QED BY <1>1, <1>2

LEMMA Invariance == Spec => []Inv
  BY InitInv, NextInv, PTL DEF Spec

-----------------------------------------------------------------------------
(* The theorems.                                                           *)

\* The counters, the requests and the history stay within their types.
THEOREM TypeCorrect == Spec => []TypeOK
  <1>1. Inv => TypeOK
    BY DEF Inv
  <1> QED BY <1>1, Invariance, PTL

\* For every limit and any number of concurrent requests, one counter lets no more
\* than Limit of them through.
THEOREM LimitHolds == Spec => []AtMostLimit
  <1>1. Inv => AtMostLimit
    <2> SUFFICES ASSUME Inv, NEW a \in Addresses PROVE admitted[a] <= Limit
      BY DEF AtMostLimit
    <2>1. /\ admitted[a] \in Nat /\ Cardinality(Places(a)) \in Nat
          /\ counters[a].n \in Nat /\ Limit \in Nat
      BY PlacesFinite, RateLimitAssumption DEF Inv, TypeOK, CounterType
    <2> QED BY <2>1 DEF Inv, Quota, Min2
  <1> QED BY <1>1, Invariance, PTL

\* For every window, no counter is dropped before the window of its first request
\* is over.
THEOREM WindowHolds == Spec => NoEarlyReset
  <1> DEFINE Early(a) == counters[a] # Absent /\ counters'[a] = Absent => age[a] + 1 >= Window
  <1>1. Inv /\ [Next]_vars => [\A a \in Addresses : Early(a)]_vars
    <2> SUFFICES ASSUME Inv, Next, NEW a \in Addresses,
                        counters[a] # Absent, counters'[a] = Absent
                 PROVE  age[a] + 1 >= Window
      OBVIOUS
    <2>1. CASE Tick
      <3>1. counters[a].left = 1
        BY <2>1 DEF Inv, Shape, Tick, TypeOK, CounterType, Absent, Lapsing
      <3> QED BY <3>1 DEF Inv, FullWindow, Forever
    <2>2. ASSUME NEW r \in Requests, Incr(r)
          PROVE  FALSE
      <3>1. /\ req[r].at \in Addresses /\ counters[a] \in CounterType
            /\ counters[req[r].at].n \in 0..(Limit + 1)
        BY <2>2, Busy DEF Incr, Idle, Inv, TypeOK, CounterType
      <3>2. Min2(counters[req[r].at].n + 1, Limit + 1) # 0
        BY <3>1, RateLimitAssumption DEF Min2
      <3> QED BY <2>2, <3>1, <3>2 DEF Incr, Inv, TypeOK, CounterType, Absent
    <2>3. ASSUME NEW r \in Requests, Expire(r)
          PROVE  FALSE
      BY <2>3, RateLimitAssumption DEF Expire, Inv, TypeOK, CounterType, Absent, Forever
    <2> QED BY <2>1, <2>2, <2>3 DEF Next, Step, Arrive, ReadTtl, Abort
  <1> QED BY <1>1, Invariance, PTL DEF Spec, NoEarlyReset

\* For every limit and window, a request is never decided on a counter that no expiry
\* will remove, whatever crashes came between INCR and EXPIRE before.
THEOREM MortalDecisions == Spec => DecidedOnMortalCounter
  <1> DEFINE Mortal(r) == Step(r) /\ req'[r] = Idle =>
            counters'[req[r].at] = Absent \/ counters'[req[r].at].left # Forever
  <1>1. Inv /\ [Next]_vars => [\A r \in Requests : Mortal(r)]_vars
    <2> SUFFICES ASSUME Inv, NEW r \in Requests, Step(r), req'[r] = Idle
                 PROVE  \/ counters'[req[r].at] = Absent
                        \/ counters'[req[r].at].left # Forever
      OBVIOUS
    <2>1. req[r].at \in Addresses /\ counters \in [Addresses -> CounterType]
      BY Busy DEF Step, Incr, ReadTtl, Expire, Idle, Inv, TypeOK
    <2>2. CASE Incr(r)
      BY <2>1, <2>2 DEF Incr, Idle, Inv, TypeOK
    <2>3. CASE ReadTtl(r)
      <3>1. TtlReply(counters[req[r].at]) > 0
        BY <2>1, <2>3, RateLimitAssumption
           DEF ReadTtl, Idle, Inv, TypeOK, TtlReply, CounterType, Absent, Forever
      <3> QED BY <2>3, <3>1 DEF ReadTtl, TtlReply, Forever
    <2>4. CASE Expire(r)
      BY <2>1, <2>4, RateLimitAssumption DEF Expire, CounterType, Absent, Forever
    <2> QED BY <2>2, <2>3, <2>4 DEF Step
  <1> QED BY <1>1, Invariance, PTL DEF Spec, DecidedOnMortalCounter

=============================================================================
