----------------------------- MODULE CartsProofs ----------------------------
(* Theorems about Carts, for every set of users, products and requests.    *)
EXTENDS Carts, FiniteSetTheorems, TLAPS

USE CartsAssumption

-----------------------------------------------------------------------------
(* The inductive invariant.                                                *)

\* A product's document only falls below zero when its counter exists, so that no counter
\* is ever set up with less than nothing.
Counted ==
    /\ \A p \in Products : counter[p] = None /\ stock[p] # None => stock[p] >= 0
    /\ \A r \in Requests :
         req[r] # Idle /\ counter[req[r].product] = None =>
             req[r].pc \notin {"setDoc", "exec"} /\ req[r].stock >= 0

\* Nothing that is refused gets as far as the counter, a document is only written for a
\* step by one, and what EXEC buys is never less than nothing.
Stepping ==
    \A r \in Requests : /\ req[r].pc = "incrBy" => ~Refused(req[r])
                        /\ req[r].pc = "setDoc" => req[r].quantity = 0
                        /\ req[r].pc = "exec" => req[r].quantity >= 0

\* What a request knows of its keys: while nobody else has modified or forgotten them they
\* are watched, and a modification leaves a mark that the next EXEC meets.
WatchingOf(q) ==
    /\ q.pc = "watchCart" => q.keys = "same"
    /\ q.keys # "forgotten" => Held(q) \subseteq watched
    /\ q.keys = "changed" => dirty

\* A request that only has to unwatch relies on neither any more.
Watching ==
    \A r \in Requests : req[r].pc \notin {"idle", "unwatch"} => WatchingOf(req[r])

\* The units of p that were taken from the counter for carts that EXEC has yet to fill.
Units(p) ==
    {x \in Requests \X (1..MaxQuantity) :
        req[x[1]].pc = "exec" /\ req[x[1]].product = p /\ x[2] <= req[x[1]].quantity}

\* What the counter of p still grants.
Left(p) == IF counter[p] = None THEN 0 ELSE IF counter[p] < 0 THEN 0 ELSE counter[p]

\* What is left, what was bought and what is about to be bought were all credited.
Covered ==
    \A p \in Products : /\ IsFiniteSet(Units(p))
                        /\ Left(p) + bought[p] + Cardinality(Units(p)) <= credited[p]

Inv == TypeOK /\ Counted /\ Stepping /\ Watching /\ Covered

-----------------------------------------------------------------------------
(* What the operators of Carts do.                                         *)

BusyType ==
    [pc : {"watchCart", "watchDoc", "getDoc", "getItem", "exists", "setNx", "incrBy",
           "setDoc", "exec", "unwatch"},
     user : Users, product : Products, quantity : -1..MaxQuantity, by : {-1, 0, 1, 2},
     stock : Int, inCart : Int, keys : {"same", "changed", "forgotten"}]

Keys == {Cart(u) : u \in Users} \cup {Doc(p) : p \in Products}

\* A request that is not idle is a record with all its fields.
LEMMA Busy ==
    ASSUME NEW q \in ReqType
    PROVE  /\ q # Idle <=> q \in BusyType
           /\ q # Idle <=> q.pc # "idle"
  BY DEF ReqType, BusyType, Idle

LEMMA BusyIsReq == BusyType \subseteq ReqType /\ Idle \in ReqType
  BY DEF ReqType, BusyType

\* The same request, whatever others have done to its keys.
Alike(a, b) ==
    /\ a = Idle <=> b = Idle
    /\ a # Idle => /\ b.pc = a.pc /\ b.user = a.user /\ b.product = a.product
                   /\ b.quantity = a.quantity /\ b.by = a.by /\ b.stock = a.stock
                   /\ b.inCart = a.inCart /\ Held(b) = Held(a)

LEMMA KeysAlike ==
    ASSUME NEW q \in BusyType, NEW k \in {"same", "changed", "forgotten"}
    PROVE  /\ [q EXCEPT !.keys = k] \in BusyType
           /\ [q EXCEPT !.keys = k].keys = k
           /\ Alike(q, [q EXCEPT !.keys = k])
  BY DEF BusyType, Alike, Held, Idle

LEMMA IdleHoldsNothing == Held(Idle) = {}
  BY DEF Held, Idle

\* Who has modified keys leaves every request as it was, but for what it knows of them.
LEMMA ModifiedFacts ==
    ASSUME NEW q \in [Requests -> ReqType], NEW keys, NEW r
    PROVE  /\ Modified(q, keys, r) \in [Requests -> ReqType]
           /\ \A s \in Requests :
                /\ Alike(q[s], Modified(q, keys, r)[s])
                /\ Modified(q, keys, r)[s].keys # q[s].keys =>
                     /\ q[s].keys = "same" /\ Modified(q, keys, r)[s].keys = "changed"
                     /\ Held(q[s]) \cap keys # {}
           /\ r \in Requests => Modified(q, keys, r)[r] = q[r]
  <1>1. ASSUME NEW s \in Requests
        PROVE  LET m == Modified(q, keys, r)[s]
               IN  /\ m \in ReqType /\ Alike(q[s], m)
                   /\ s = r => m = q[s]
                   /\ m.keys # q[s].keys =>
                        q[s].keys = "same" /\ m.keys = "changed" /\ Held(q[s]) \cap keys # {}
    <2>1. CASE s # r /\ Held(q[s]) \cap keys # {} /\ q[s].keys = "same"
      <3>1. q[s] # Idle
        BY <2>1, IdleHoldsNothing
      <3>2. q[s] \in BusyType
        BY <3>1, Busy
      <3>3. Modified(q, keys, r)[s] = [q[s] EXCEPT !.keys = "changed"]
        BY <2>1 DEF Modified
      <3>4. PICK m : m = [q[s] EXCEPT !.keys = "changed"]
        OBVIOUS
      <3>5. m \in BusyType /\ m.keys = "changed" /\ Alike(q[s], m)
        BY <3>2, <3>4, KeysAlike
      <3> QED BY <2>1, <3>3, <3>4, <3>5, BusyIsReq
    <2>2. CASE ~(s # r /\ Held(q[s]) \cap keys # {} /\ q[s].keys = "same")
      <3>1. Modified(q, keys, r)[s] = q[s]
        BY <2>2 DEF Modified
      <3> QED BY <3>1 DEF Alike
    <2> QED BY <2>1, <2>2
  <1>2. Modified(q, keys, r) = [s \in Requests |-> Modified(q, keys, r)[s]]
    BY DEF Modified
  <1> QED BY <1>1, <1>2

\* And so does who makes the connection forget its keys.
LEMMA ForgottenFacts ==
    ASSUME NEW q \in [Requests -> ReqType], NEW r
    PROVE  /\ Forgotten(q, r) \in [Requests -> ReqType]
           /\ \A s \in Requests :
                /\ Alike(q[s], Forgotten(q, r)[s])
                /\ s # r /\ Held(q[s]) # {} => Forgotten(q, r)[s].keys = "forgotten"
                /\ Held(q[s]) = {} => Forgotten(q, r)[s] = q[s]
           /\ r \in Requests => Forgotten(q, r)[r] = q[r]
  <1>1. ASSUME NEW s \in Requests
        PROVE  LET m == Forgotten(q, r)[s]
               IN  /\ m \in ReqType /\ Alike(q[s], m)
                   /\ s = r => m = q[s]
                   /\ s # r /\ Held(q[s]) # {} => m.keys = "forgotten"
                   /\ Held(q[s]) = {} => m = q[s]
    <2>1. CASE s # r /\ Held(q[s]) # {}
      <3>1. q[s] \in BusyType
        BY <2>1, IdleHoldsNothing, Busy
      <3>2. Forgotten(q, r)[s] = [q[s] EXCEPT !.keys = "forgotten"]
        BY <2>1 DEF Forgotten
      <3> QED BY <2>1, <3>1, <3>2, KeysAlike, BusyIsReq
    <2>2. CASE ~(s # r /\ Held(q[s]) # {})
      <3>1. Forgotten(q, r)[s] = q[s]
        BY <2>2 DEF Forgotten
      <3> QED BY <2>2, <3>1 DEF Alike
    <2> QED BY <2>1, <2>2
  <1>2. Forgotten(q, r) = [s \in Requests |-> Forgotten(q, r)[s]]
    BY DEF Forgotten
  <1> QED BY <1>1, <1>2

-----------------------------------------------------------------------------
(* The units that are about to be bought.                                  *)

LEMMA CardinalityOfUnits ==
    ASSUME NEW r, NEW n \in Nat
    PROVE  IsFiniteSet({r} \X (1..n)) /\ Cardinality({r} \X (1..n)) = n
  <1>1. IsFiniteSet({r}) /\ Cardinality({r}) = 1
    BY FS_Singleton
  <1>2. IsFiniteSet(1..n) /\ Cardinality(1..n) = n
    BY FS_Interval
  <1> QED BY <1>1, <1>2, FS_Product

\* A step after which every request either has the units it had, or none as before.
LEMMA UnitsStay ==
    ASSUME \A s \in Requests :
              \/ Alike(req[s], req'[s]) /\ req[s] \in ReqType /\ req'[s] \in ReqType
              \/ /\ req[s].pc # "exec" \/ req[s].quantity = 0
                 /\ req'[s].pc # "exec" \/ req'[s].quantity = 0,
           NEW p
    PROVE  Units(p)' = Units(p)
  <1>1. ASSUME NEW s \in Requests, NEW i \in 1..MaxQuantity
        PROVE  (req[s].pc = "exec" /\ req[s].product = p /\ i <= req[s].quantity)
               <=> (req'[s].pc = "exec" /\ req'[s].product = p /\ i <= req'[s].quantity)
    <2>1. CASE Alike(req[s], req'[s]) /\ req[s] \in ReqType /\ req'[s] \in ReqType
      BY <2>1, Busy DEF Alike
    <2>2. CASE /\ req[s].pc # "exec" \/ req[s].quantity = 0
               /\ req'[s].pc # "exec" \/ req'[s].quantity = 0
      BY <2>2
    <2> QED BY <2>1, <2>2
  <1> QED BY <1>1 DEF Units

\* A request leaves the EXEC, with the units it was to buy.
LEMMA UnitsLeave ==
    ASSUME TypeOK, Covered, NEW r \in Requests, req[r].pc = "exec", req'[r].pc # "exec",
           req[r].quantity >= 0, req' \in [Requests -> ReqType],
           \A s \in Requests : s # r => Alike(req[s], req'[s]),
           NEW p \in Products
    PROVE  /\ IsFiniteSet(Units(p)')
           /\ Cardinality(Units(p)') =
                Cardinality(Units(p)) - (IF req[r].product = p THEN req[r].quantity ELSE 0)
           /\ Cardinality(Units(p)') \in Nat
  <1> DEFINE own == {r} \X (1..req[r].quantity)
  <1>1. req[r] \in BusyType /\ req[r].quantity \in 0..MaxQuantity
    BY Busy DEF TypeOK, BusyType, Idle
  <1>2. \A s \in Requests : s # r =>
            /\ req'[s].pc = "exec" <=> req[s].pc = "exec"
            /\ req[s].pc = "exec" =>
                 req'[s].product = req[s].product /\ req'[s].quantity = req[s].quantity
    BY Busy DEF Alike, TypeOK, Idle
  <1>3. IsFiniteSet(Units(p)) /\ Cardinality(Units(p)) \in Nat
    BY FS_CardinalityType DEF Covered
  <1>4. CASE req[r].product = p
    <2>1. Units(p)' = Units(p) \ own
      <3>1. \A x : x \in Units(p)' => x \in Units(p) /\ x \notin own
        BY <1>2 DEF Units
      <3>2. \A x : x \in Units(p) /\ x \notin own => x \in Units(p)'
        BY <1>1, <1>2 DEF Units
      <3> QED BY <3>1, <3>2
    <2>2. own \subseteq Units(p)
      BY <1>1, <1>4 DEF Units
    <2>3. Units(p) \cap own = own
      BY <2>2
    <2>4. Cardinality(own) = req[r].quantity
      <3>1. req[r].quantity \in Nat
        BY <1>1
      <3> QED BY <3>1, CardinalityOfUnits
    <2>5. /\ IsFiniteSet(Units(p) \ own)
          /\ Cardinality(Units(p) \ own) = Cardinality(Units(p)) - Cardinality(Units(p) \cap own)
      BY <1>3, FS_Difference
    <2>6. Cardinality(Units(p) \ own) \in Nat
      BY <2>5, FS_CardinalityType
    <2> HIDE DEF own
    <2> QED BY <1>4, <2>1, <2>3, <2>4, <2>5, <2>6
  <1>5. CASE req[r].product # p
    <2>1. Units(p)' = Units(p)
      BY <1>2, <1>5 DEF Units
    <2> QED BY <1>3, <1>5, <2>1
  <1> QED BY <1>4, <1>5

\* A request for a quantity arrives at the EXEC.
LEMMA UnitsArrive ==
    ASSUME TypeOK, Covered, NEW r \in Requests, req[r].pc = "incrBy", req[r].quantity >= 0,
           req' = [req EXCEPT ![r].pc = "exec"], NEW p \in Products
    PROVE  /\ IsFiniteSet(Units(p)')
           /\ Cardinality(Units(p)') =
                Cardinality(Units(p)) + (IF req[r].product = p THEN req[r].quantity ELSE 0)
  <1> DEFINE own == {r} \X (1..req[r].quantity)
  <1>1. req[r] \in BusyType /\ req[r].quantity \in 0..MaxQuantity
    BY Busy DEF TypeOK, BusyType, Idle
  <1>2. /\ \A s \in Requests : s # r => req'[s] = req[s]
        /\ req'[r].pc = "exec" /\ req'[r].product = req[r].product
        /\ req'[r].quantity = req[r].quantity
    BY <1>1 DEF TypeOK, BusyType
  <1>3. IsFiniteSet(Units(p)) /\ Cardinality(Units(p)) \in Nat
    BY FS_CardinalityType DEF Covered
  <1>4. CASE req[r].product = p
    <2>1. Units(p)' = Units(p) \cup own
      <3>1. \A x : x \in Units(p)' => x \in Units(p) \/ x \in own
        <4> SUFFICES ASSUME NEW x, x \in Units(p)', x \notin Units(p) PROVE x \in own
          OBVIOUS
        <4>1. x[1] = r /\ x[2] \in 1..req[r].quantity /\ x = <<x[1], x[2]>>
          BY <1>1, <1>2 DEF Units
        <4> QED BY <4>1
      <3>2. \A x : x \in Units(p) \/ x \in own => x \in Units(p)'
        BY <1>1, <1>2, <1>4 DEF Units
      <3> QED BY <3>1, <3>2
    <2>2. Units(p) \cap own = {}
      BY DEF Units
    <2>3. IsFiniteSet(own) /\ Cardinality(own) = req[r].quantity
      <3>1. req[r].quantity \in Nat
        BY <1>1
      <3> QED BY <3>1, CardinalityOfUnits
    <2>4. Cardinality(Units(p) \cap own) = 0
      BY <2>2, FS_EmptySet
    <2>5. /\ IsFiniteSet(Units(p) \cup own)
          /\ Cardinality(Units(p) \cup own) =
               Cardinality(Units(p)) + Cardinality(own) - Cardinality(Units(p) \cap own)
      BY <1>3, <2>3, FS_Union
    <2> HIDE DEF own
    <2> QED BY <1>1, <1>3, <1>4, <2>1, <2>2, <2>3, <2>4, <2>5
  <1>5. CASE req[r].product # p
    <2>1. Units(p)' = Units(p)
      BY <1>2, <1>5 DEF Units
    <2> QED BY <1>3, <1>5, <2>1
  <1> QED BY <1>4, <1>5

-----------------------------------------------------------------------------
(* The steps.                                                              *)

\* A request moves on, or gives up, without touching the counters, the carts or the
\* documents.
LEMMA LocalInv ==
    ASSUME Inv, NEW r \in Requests, NEW new \in ReqType, req' = [req EXCEPT ![r] = new],
           UNCHANGED <<stock, counter, cart, dirty, credited, bought>>,
           served' \in 0..MaxServed, watched \subseteq watched', watched' \subseteq Keys,
           new.pc \notin {"exec", "setDoc"}, new.pc = "incrBy" => ~Refused(new),
           new # Idle /\ counter[new.product] = None => new.stock >= 0,
           new.pc \notin {"idle", "unwatch"} =>
               /\ new.pc = "watchCart" => new.keys = "same"
               /\ new.keys # "forgotten" => Held(new) \subseteq watched'
               /\ new.keys = "changed" => dirty
    PROVE  Inv'
  <1>1. req'[r] = new /\ \A s \in Requests : s # r => req'[s] = req[s]
    BY DEF Inv, TypeOK
  <1>2. TypeOK'
    BY DEF Inv, TypeOK, Keys
  <1>3. Counted'
    BY <1>1 DEF Inv, Counted
  <1>4. Stepping'
    BY <1>1 DEF Inv, Stepping
  <1>5. Watching'
    BY <1>1 DEF Inv, Watching, WatchingOf
  <1>6. Covered'
    <2>1. CASE req[r].pc # "exec"
      <3>1. \A p \in Products : Units(p)' = Units(p)
        BY <1>1, <2>1 DEF Units
      <3> QED BY <3>1 DEF Inv, Covered, Left
    <2>2. CASE req[r].pc = "exec"
      <3> SUFFICES ASSUME NEW p \in Products
                   PROVE  (IsFiniteSet(Units(p)) /\
                           Left(p) + bought[p] + Cardinality(Units(p)) <= credited[p])'
        BY DEF Covered
      <3>1. req[r].quantity \in Nat
        BY <2>2, Busy DEF Inv, TypeOK, Stepping, BusyType, Idle
      <3>2. \A s \in Requests : s # r => Alike(req[s], req'[s])
        BY <1>1 DEF Alike
      <3>3. req' \in [Requests -> ReqType] /\ req'[r].pc # "exec" /\ req[r].quantity >= 0
        BY <1>1, <1>2, <3>1 DEF TypeOK
      <3>4. /\ IsFiniteSet(Units(p)')
            /\ Cardinality(Units(p)') =
                 Cardinality(Units(p)) - (IF req[r].product = p THEN req[r].quantity ELSE 0)
            /\ Cardinality(Units(p)') \in Nat
        BY <2>2, <3>2, <3>3, UnitsLeave DEF Inv
      <3>5. /\ IsFiniteSet(Units(p)) /\ Cardinality(Units(p)) \in Nat
            /\ Left(p) + bought[p] + Cardinality(Units(p)) <= credited[p]
        BY FS_CardinalityType DEF Inv, Covered
      <3>6. /\ Left(p) \in Nat /\ Left(p)' = Left(p) /\ bought[p] \in Nat
            /\ bought'[p] = bought[p] /\ credited[p] \in Nat /\ credited'[p] = credited[p]
        BY DEF Left, Inv, TypeOK
      <3> QED BY <3>1, <3>4, <3>5, <3>6
    <2> QED BY <2>1, <2>2
  <1> QED BY <1>2, <1>3, <1>4, <1>5, <1>6 DEF Inv

LEMMA StartInv ==
    ASSUME Inv, NEW r \in Requests, NEW u \in Users, NEW p \in Products,
           NEW n \in -1..MaxQuantity, NEW by \in {-1, 0, 1, 2}, Start(r, u, p, n, by)
    PROVE  Inv'
  <1> DEFINE new == [pc |-> "watchCart", user |-> u, product |-> p, quantity |-> n,
                     by |-> by, stock |-> 0, inCart |-> 0, keys |-> "same"]
  <1>1. new \in ReqType
    BY DEF ReqType
  <1>2. new.pc = "watchCart" /\ new.stock = 0 /\ new.keys = "same" /\ Held(new) = {}
    BY DEF Held
  <1>3. req' = [req EXCEPT ![r] = new]
    BY DEF Start
  <1>4. served' \in 0..MaxServed /\ watched' \subseteq Keys
    BY DEF Start, Inv, TypeOK, Keys
  <1>5. UNCHANGED <<stock, counter, cart, watched, dirty, credited, bought>>
    BY DEF Start
  <1> HIDE DEF new
  <1>6. /\ new.pc \notin {"exec", "setDoc", "incrBy"} /\ new.stock >= 0
        /\ new.keys # "changed" /\ Held(new) \subseteq watched' /\ watched \subseteq watched'
    BY <1>2, <1>3, <1>5
  <1> QED BY <1>1, <1>2, <1>3, <1>4, <1>5, <1>6, LocalInv

LEMMA WatchCartInv ==
    ASSUME Inv, NEW r \in Requests, WatchCart(r)
    PROVE  Inv'
  <1> DEFINE new == [req[r] EXCEPT !.pc = "watchDoc"]
  <1>1. req[r] \in BusyType /\ WatchingOf(req[r])
    BY Busy DEF WatchCart, Inv, TypeOK, Idle, Watching
  <1>2. /\ new \in ReqType /\ new.pc = "watchDoc" /\ new.keys = "same"
        /\ new.product = req[r].product /\ new.stock = req[r].stock
        /\ Held(new) = {Cart(req[r].user)}
    BY <1>1 DEF ReqType, BusyType, Held, WatchCart, WatchingOf
  <1>3. watched' = watched \cup {Cart(req[r].user)} /\ watched' \subseteq Keys
    BY <1>1 DEF WatchCart, Inv, TypeOK, Keys, BusyType
  <1>4. req' = [req EXCEPT ![r] = new] /\ served' \in 0..MaxServed
    BY DEF WatchCart, Goto, history, Inv, TypeOK
  <1>5. counter[new.product] = None => new.stock >= 0
    BY <1>1, <1>2, Busy, BusyIsReq DEF Inv, Counted
  <1> HIDE DEF new
  <1> QED BY <1>2, <1>3, <1>4, <1>5, LocalInv DEF WatchCart, history

LEMMA WatchDocInv ==
    ASSUME Inv, NEW r \in Requests, WatchDoc(r)
    PROVE  Inv'
  <1> DEFINE new == [req[r] EXCEPT !.pc = "getDoc"]
  <1>1. req[r] \in BusyType /\ WatchingOf(req[r])
    BY Busy DEF WatchDoc, Inv, TypeOK, Idle, Watching
  <1>2. /\ new \in ReqType /\ new.pc = "getDoc" /\ new.keys = req[r].keys
        /\ new.product = req[r].product /\ new.stock = req[r].stock
        /\ Held(new) = Held(req[r]) \cup {Doc(req[r].product)}
    BY <1>1 DEF ReqType, BusyType, Held, WatchDoc
  <1>3. watched' = watched \cup {Doc(req[r].product)} /\ watched' \subseteq Keys
    BY <1>1 DEF WatchDoc, Inv, TypeOK, Keys, BusyType
  <1>4. req' = [req EXCEPT ![r] = new] /\ served' \in 0..MaxServed
    BY DEF WatchDoc, Goto, history, Inv, TypeOK
  <1>5. counter[new.product] = None => new.stock >= 0
    BY <1>1, <1>2, Busy, BusyIsReq DEF Inv, Counted
  <1>6. new.keys # "forgotten" => Held(new) \subseteq watched'
    BY <1>1, <1>2, <1>3 DEF WatchingOf
  <1>7. new.keys = "changed" => dirty
    BY <1>1, <1>2 DEF WatchingOf
  <1> HIDE DEF new
  <1> QED BY <1>2, <1>3, <1>4, <1>5, <1>6, <1>7, LocalInv DEF WatchDoc, history

\* A request that has watched both its keys moves on to another call, or ends.
LEMMA ReadInv ==
    ASSUME Inv, NEW r \in Requests,
           req[r].pc \in {"getDoc", "getItem", "exists"},
           NEW new \in ReqType, req' = [req EXCEPT ![r] = new],
           new # Idle => /\ new.pc \in {"getItem", "exists", "setNx", "incrBy", "unwatch"}
                         /\ new.pc = "incrBy" => ~Refused(new)
                         /\ new.user = req[r].user /\ new.product = req[r].product
                         /\ new.keys = req[r].keys
                         /\ \/ new.stock = req[r].stock
                            \/ stock[new.product] # None /\ new.stock = stock[new.product],
           UNCHANGED <<stock, counter, cart, watched, dirty, history>>
    PROVE  Inv'
  <1>1. req[r] # Idle /\ req[r] \in BusyType /\ WatchingOf(req[r]) /\ req[r].product \in Products
    BY Busy DEF Inv, TypeOK, Idle, Watching, BusyType
  <1>2. new # Idle => Held(new) = Held(req[r]) /\ new.pc \notin {"idle", "watchCart"}
    BY DEF Held
  <1>3. new # Idle /\ counter[new.product] = None => new.stock >= 0
    BY <1>1 DEF Inv, Counted
  <1>4. served' \in 0..MaxServed /\ watched' \subseteq Keys
    BY DEF history, Inv, TypeOK, Keys
  <1>5. /\ new.pc \notin {"exec", "setDoc"} /\ (new = Idle => new.pc = "idle")
        /\ new.pc = "incrBy" => ~Refused(new)
    BY DEF Idle
  <1> QED BY <1>1, <1>2, <1>3, <1>4, <1>5, LocalInv DEF history, WatchingOf

LEMMA GetDocInv ==
    ASSUME Inv, NEW r \in Requests, GetDoc(r)
    PROVE  Inv'
  <1>1. req[r] \in BusyType /\ stock[req[r].product] \in Int \cup {None}
    BY Busy DEF GetDoc, Inv, TypeOK, Idle, BusyType
  <1>2. CASE stock[req[r].product] = None
    BY <1>2, BusyIsReq, ReadInv DEF GetDoc
  <1>3. CASE stock[req[r].product] # None
    <2> DEFINE new == [req[r] EXCEPT !.pc = "getItem", !.stock = stock[req[r].product]]
    <2>1. /\ new \in ReqType /\ new.pc = "getItem" /\ new.user = req[r].user
          /\ new.product = req[r].product /\ new.keys = req[r].keys
          /\ new.stock = stock[req[r].product]
      BY <1>1, <1>3 DEF ReqType, BusyType
    <2>2. req' = [req EXCEPT ![r] = new]
      BY <1>3 DEF GetDoc
    <2>3. req[r].pc = "getDoc" /\ UNCHANGED <<stock, counter, cart, watched, dirty, history>>
      BY DEF GetDoc
    <2> HIDE DEF new
    <2> QED BY <1>3, <2>1, <2>2, <2>3, ReadInv
  <1> QED BY <1>2, <1>3

LEMMA GetItemInv ==
    ASSUME Inv, NEW r \in Requests, GetItem(r)
    PROVE  Inv'
  <1> DEFINE new == [req[r] EXCEPT !.pc = "exists",
                                   !.inCart = cart[req[r].user][req[r].product]]
  <1>1. req[r] \in BusyType /\ cart[req[r].user][req[r].product] \in Int
    BY Busy DEF GetItem, Inv, TypeOK, Idle, BusyType
  <1>2. /\ new \in ReqType /\ new.pc = "exists" /\ new.user = req[r].user
        /\ new.product = req[r].product /\ new.keys = req[r].keys
        /\ new.stock = req[r].stock
    BY <1>1 DEF ReqType, BusyType
  <1>3. req' = [req EXCEPT ![r] = new]
    BY DEF GetItem
  <1> HIDE DEF new
  <1> QED BY <1>2, <1>3, ReadInv DEF GetItem

LEMMA ExistsInv ==
    ASSUME Inv, NEW r \in Requests, Exists(r)
    PROVE  Inv'
  <1>1. req[r] \in BusyType
    BY Busy DEF Exists, Inv, TypeOK, Idle
  <1>2. ASSUME NEW pc \in {"setNx", "incrBy", "unwatch"}, Goto(r, pc),
               pc = "incrBy" => ~Refused(req[r])
        PROVE  Inv'
    <2> DEFINE new == [req[r] EXCEPT !.pc = pc]
    <2>1. /\ new \in ReqType /\ new.pc = pc /\ new.user = req[r].user
          /\ new.product = req[r].product /\ new.keys = req[r].keys
          /\ new.stock = req[r].stock
      BY <1>1 DEF ReqType, BusyType
    <2>2. req' = [req EXCEPT ![r] = new]
      BY <1>2 DEF Goto
    <2>3. new.pc = "incrBy" => ~Refused(new)
      BY <1>1, <1>2 DEF Refused, BusyType
    <2> HIDE DEF new
    <2> QED BY <2>1, <2>2, <2>3, ReadInv DEF Exists
  <1>3. CASE req' = [req EXCEPT ![r] = Idle]
    BY <1>3, BusyIsReq, ReadInv DEF Exists
  <1> QED BY <1>2, <1>3 DEF Exists, Checked

\* A request touches the counter of its product: as long as what is left and what is about
\* to be bought grow by no more than what is credited, everything stays covered.
LEMMA CountInv ==
    ASSUME Inv, NEW r \in Requests, req[r].pc \in {"setNx", "incrBy"},
           NEW new \in ReqType, req' = [req EXCEPT ![r] = new],
           new # Idle => /\ new.pc \in {"incrBy", "setDoc", "exec", "unwatch"}
                         /\ new = [req[r] EXCEPT !.pc = new.pc]
                         /\ new.pc = "setDoc" => new.quantity = 0
                         /\ new.pc = "incrBy" => ~Refused(new)
                         /\ new.pc = "exec" => req[r].pc = "incrBy",
           NEW c \in Int, NEW d \in Nat,
           counter' = [counter EXCEPT ![req[r].product] = c],
           credited' = [credited EXCEPT ![req[r].product] = @ + d],
           (IF c < 0 THEN 0 ELSE c) + (IF new.pc = "exec" THEN req[r].quantity ELSE 0)
               <= Left(req[r].product) + d,
           UNCHANGED <<stock, cart, watched, dirty, bought, served>>
    PROVE  Inv'
  <1>1. /\ req[r] \in BusyType /\ req[r] # Idle /\ WatchingOf(req[r])
        /\ req[r].product \in Products /\ req[r].quantity \in -1..MaxQuantity
        /\ req[r].pc = "incrBy" => req[r].quantity \in Nat
    <2>1. /\ req[r] \in BusyType /\ req[r] # Idle /\ WatchingOf(req[r])
          /\ req[r].product \in Products /\ req[r].quantity \in -1..MaxQuantity
      BY Busy DEF Inv, TypeOK, Idle, Watching, BusyType
    <2>2. req[r].pc = "incrBy" => ~(req[r].quantity < 0)
      BY DEF Inv, Stepping, Refused
    <2> QED BY <2>1, <2>2
  <1>2. req'[r] = new /\ \A s \in Requests : s # r => req'[s] = req[s]
    BY DEF Inv, TypeOK
  <1>3. new # Idle => /\ new.user = req[r].user /\ new.product = req[r].product
                      /\ new.quantity = req[r].quantity /\ new.keys = req[r].keys
                      /\ Held(new) = Held(req[r])
    <2> SUFFICES ASSUME new # Idle
                 PROVE  /\ new.user = req[r].user /\ new.product = req[r].product
                        /\ new.quantity = req[r].quantity /\ new.keys = req[r].keys
                        /\ Held(new) = Held(req[r])
      OBVIOUS
    <2>1. /\ new.user = req[r].user /\ new.product = req[r].product
          /\ new.quantity = req[r].quantity /\ new.keys = req[r].keys
      BY <1>1 DEF BusyType
    <2> QED BY <2>1 DEF Held
  <1>4. TypeOK'
    BY <1>1 DEF Inv, TypeOK
  <1>5. /\ counter'[req[r].product] = c /\ c # None
        /\ \A p \in Products : p # req[r].product => counter'[p] = counter[p]
        /\ credited'[req[r].product] = credited[req[r].product] + d
        /\ \A p \in Products : p # req[r].product => credited'[p] = credited[p]
    BY <1>1 DEF Inv, TypeOK
  <1>6. Counted'
    <2>1. ASSUME NEW s \in Requests, s # r, req[s] # Idle PROVE req[s].product \in Products
      BY <2>1, Busy DEF Inv, TypeOK, BusyType
    <2> QED BY <1>2, <1>3, <1>5, <2>1 DEF Inv, Counted
  <1>7. Stepping'
    <2>1. /\ new.pc = "incrBy" => ~Refused(new)
          /\ new.pc = "setDoc" => new.quantity = 0
          /\ new.pc = "exec" => new.quantity >= 0
      BY <1>1, <1>3 DEF Idle
    <2> QED BY <1>2, <2>1 DEF Inv, Stepping
  <1>8. Watching'
    BY <1>1, <1>2, <1>3 DEF Inv, Watching, WatchingOf, Idle
  <1>9. Covered'
    <2> SUFFICES ASSUME NEW p \in Products
                 PROVE  (IsFiniteSet(Units(p)) /\
                         Left(p) + bought[p] + Cardinality(Units(p)) <= credited[p])'
      BY DEF Covered
    <2>1. /\ IsFiniteSet(Units(p)) /\ Cardinality(Units(p)) \in Nat
          /\ Left(p) + bought[p] + Cardinality(Units(p)) <= credited[p]
      BY FS_CardinalityType DEF Inv, Covered
    <2>2. /\ Left(p) \in Nat /\ bought[p] \in Nat /\ bought'[p] = bought[p]
          /\ credited[p] \in Nat /\ MaxQuantity \in Nat
      BY DEF Left, Inv, TypeOK
    <2>3. /\ p # req[r].product => Left(p)' = Left(p)
          /\ p = req[r].product => Left(p)' = IF c < 0 THEN 0 ELSE c
      BY <1>5 DEF Left
    <2>4. CASE new.pc = "exec"
      <3>1. /\ req[r].pc = "incrBy" /\ req[r].quantity >= 0 /\ new # Idle
            /\ req' = [req EXCEPT ![r].pc = "exec"]
        <4>1. new # Idle /\ new = [req[r] EXCEPT !.pc = "exec"]
          BY <2>4 DEF Idle
        <4> QED BY <1>1, <2>4, <4>1
      <3>2. /\ IsFiniteSet(Units(p)')
            /\ Cardinality(Units(p)') =
                 Cardinality(Units(p)) + (IF req[r].product = p THEN req[r].quantity ELSE 0)
        BY <3>1, UnitsArrive DEF Inv
      <3> QED BY <1>1, <1>5, <2>1, <2>2, <2>3, <2>4, <3>2
    <2>5. CASE new.pc # "exec"
      <3>1. Units(p)' = Units(p)
        BY <1>2, <2>5 DEF Units
      <3> QED BY <1>5, <2>1, <2>2, <2>3, <2>5, <3>1
    <2> QED BY <2>4, <2>5
  <1> QED BY <1>4, <1>6, <1>7, <1>8, <1>9 DEF Inv

LEMMA SetNxInv ==
    ASSUME Inv, NEW r \in Requests, SetNx(r)
    PROVE  Inv'
  <1> DEFINE p == req[r].product
             pc == IF Refused(req[r]) THEN "unwatch" ELSE "incrBy"
             new == IF Amount(req[r]) = 0 THEN Idle ELSE [req[r] EXCEPT !.pc = pc]
  <1>1. req[r] \in BusyType /\ req[r] # Idle /\ p \in Products /\ req[r].stock \in Int
    BY Busy DEF SetNx, Inv, TypeOK, Idle, BusyType
  <1>2. /\ new \in ReqType /\ req' = [req EXCEPT ![r] = new]
        /\ new.pc \in {"idle", "incrBy", "unwatch"}
        /\ new # Idle => /\ new = [req[r] EXCEPT !.pc = new.pc]
                         /\ new.pc \in {"incrBy", "unwatch"}
                         /\ new.pc = "incrBy" => ~Refused(new)
    <2>1. CASE Amount(req[r]) = 0
      BY <2>1, BusyIsReq DEF SetNx, Checked, Idle
    <2>2. CASE Amount(req[r]) # 0
      <3>1. new = [req[r] EXCEPT !.pc = pc] /\ req' = [req EXCEPT ![r] = new]
        BY <2>2 DEF SetNx, Checked, Goto
      <3>2. new.pc = pc /\ new \in ReqType /\ new # Idle
        BY <1>1, <3>1 DEF BusyType, ReqType, Idle
      <3>3. new.quantity = req[r].quantity /\ new.by = req[r].by
        BY <1>1, <3>1 DEF BusyType
      <3>4. pc \in {"incrBy", "unwatch"} /\ (pc = "incrBy" => ~Refused(new))
        BY <3>3 DEF Refused
      <3> HIDE DEF new, pc
      <3> QED BY <3>1, <3>2, <3>4
    <2> QED BY <2>1, <2>2
  <1>3. CASE counter[p] # None /\ UNCHANGED <<counter, credited>>
    <2>1. /\ counter[p] \in Int
          /\ counter' = [counter EXCEPT ![p] = counter[p]]
          /\ credited' = [credited EXCEPT ![p] = @ + 0]
      BY <1>1, <1>3 DEF Inv, TypeOK
    <2>2. (IF counter[p] < 0 THEN 0 ELSE counter[p]) + 0 <= Left(p) + 0
      BY <1>3, <2>1 DEF Left
    <2>3. req[r].pc = "setNx" /\ UNCHANGED <<stock, cart, watched, dirty, bought, served>>
      BY DEF SetNx
    <2> HIDE DEF new
    <2> QED BY <1>2, <2>1, <2>2, <2>3, CountInv
  <1>4. CASE /\ counter[p] = None
             /\ counter' = [counter EXCEPT ![p] = req[r].stock]
             /\ credited' = [credited EXCEPT ![p] = @ + req[r].stock]
    <2>1. req[r].stock \in Nat
      BY <1>1, <1>4 DEF Inv, Counted
    <2>2. PICK n \in Nat : n = req[r].stock
      BY <2>1
    <2>3. (IF n < 0 THEN 0 ELSE n) + (IF new.pc = "exec" THEN req[r].quantity ELSE 0)
              <= Left(p) + n
      BY <1>2, <1>4 DEF Left
    <2>4. /\ n \in Int /\ counter' = [counter EXCEPT ![p] = n]
          /\ credited' = [credited EXCEPT ![p] = @ + n]
      BY <1>4, <2>2
    <2>5. req[r].pc = "setNx" /\ UNCHANGED <<stock, cart, watched, dirty, bought, served>>
      BY DEF SetNx
    <2> HIDE DEF new
    <2> QED BY <1>2, <2>3, <2>4, <2>5, CountInv
  <1> QED BY <1>3, <1>4 DEF SetNx

LEMMA IncrByInv ==
    ASSUME Inv, NEW r \in Requests, IncrBy(r)
    PROVE  Inv'
  <1> DEFINE p == req[r].product
             old == IF counter[p] = None THEN 0 ELSE counter[p]
             now == IF req[r].quantity > 0 THEN old - req[r].quantity ELSE old + req[r].by
             d == IF now > old THEN 1 ELSE 0
             pc == IF now < 0 THEN "unwatch"
                   ELSE IF req[r].quantity > 0 THEN "exec"
                   ELSE IF req[r].inCart + req[r].by <= 0 \/ old < 0 THEN "unwatch" ELSE "setDoc"
             new == [req[r] EXCEPT !.pc = pc]
  <1>1. /\ req[r] \in BusyType /\ req[r] # Idle /\ p \in Products
        /\ req[r].quantity \in Nat /\ req[r].by \in Int
        /\ req[r].quantity = 0 => req[r].by \in {-1, 0, 1}
    <2>1. /\ req[r] \in BusyType /\ req[r] # Idle /\ p \in Products
          /\ req[r].quantity \in -1..MaxQuantity /\ req[r].by \in {-1, 0, 1, 2}
      BY Busy DEF IncrBy, Inv, TypeOK, Idle, BusyType
    <2>2. ~Refused(req[r])
      BY DEF IncrBy, Inv, Stepping
    <2> QED BY <2>1, <2>2 DEF Refused
  <1>2. old \in Int /\ now \in Int /\ d \in Nat
    BY <1>1 DEF Inv, TypeOK
  <1>3. /\ new \in ReqType /\ new # Idle /\ new.pc = pc /\ new.quantity = req[r].quantity
        /\ pc \in {"unwatch", "exec", "setDoc"}
    BY <1>1 DEF ReqType, BusyType, Idle
  <1>4. /\ counter' = [counter EXCEPT ![p] = now]
        /\ credited' = [credited EXCEPT ![p] = @ + d]
        /\ UNCHANGED <<stock, cart, watched, dirty, bought, served>> /\ req[r].pc = "incrBy"
    BY DEF IncrBy
  <1>5. req' = [req EXCEPT ![r] = new]
    BY DEF IncrBy, Goto
  <1>6. pc = "setDoc" => req[r].quantity = 0
    BY <1>1
  <1>7. (IF now < 0 THEN 0 ELSE now) + (IF pc = "exec" THEN req[r].quantity ELSE 0)
            <= Left(p) + d
    BY <1>1, <1>2 DEF Left, Inv, TypeOK
  <1>8. new = [req[r] EXCEPT !.pc = pc]
    OBVIOUS
  <1> HIDE DEF p, now, d, pc, new
  <1> QED BY <1>2, <1>3, <1>4, <1>5, <1>6, <1>7, <1>8, CountInv DEF p

\* Who holds the document of p may have learned that it was modified.
Told(q, p) ==
    /\ req' \in [Requests -> ReqType]
    /\ \A s \in Requests :
         /\ Alike(q[s], req'[s])
         /\ req'[s].keys # q[s].keys =>
              /\ q[s].keys = "same" /\ req'[s].keys = "changed"
              /\ Held(q[s]) \cap {Doc(p)} # {}

LEMMA ModifiedTells ==
    ASSUME NEW q \in [Requests -> ReqType], NEW p, NEW r, req' = Modified(q, {Doc(p)}, r)
    PROVE  Told(q, p)
  BY ModifiedFacts DEF Told

\* A document is written or deleted, perhaps by a request on its way to EXEC: those that
\* have begun to watch it learn of it, and the connection's mark is set.
LEMMA WriteDocInv ==
    ASSUME Inv, NEW p \in Products, NEW n \in Int \cup {None},
           stock' = [stock EXCEPT ![p] = n], dirty' = (dirty \/ Doc(p) \in watched),
           NEW q \in [Requests -> ReqType], Told(q, p),
           \A s \in Requests :
               \/ q[s] = req[s]
               \/ req[s].pc = "setDoc" /\ q[s] = [req[s] EXCEPT !.pc = "exec"],
           n # None /\ counter[p] = None => n >= 0,
           UNCHANGED <<counter, cart, watched, history>>
    PROVE  Inv'
  <1>1. /\ req' \in [Requests -> ReqType]
        /\ \A s \in Requests :
             /\ Alike(q[s], req'[s])
             /\ req'[s].keys # q[s].keys =>
                  /\ q[s].keys = "same" /\ req'[s].keys = "changed"
                  /\ Held(q[s]) \cap {Doc(p)} # {}
    BY DEF Told
  <1>2. ASSUME NEW s \in Requests, req[s] # Idle
        PROVE  /\ req'[s] # Idle /\ req'[s].user = req[s].user /\ req'[s].product = req[s].product
               /\ req'[s].quantity = req[s].quantity /\ req'[s].stock = req[s].stock
               /\ req'[s].pc = IF q[s] = req[s] THEN req[s].pc ELSE "exec"
               /\ q[s] # req[s] => req[s].pc = "setDoc"
               /\ Held(q[s]) = Held(req[s]) /\ Held(req'[s]) = Held(req[s])
               /\ q[s].keys = req[s].keys /\ q[s].pc = req'[s].pc
               /\ req[s] \in BusyType /\ req[s].product \in Products
    <2>1. req[s] \in BusyType /\ req[s].product \in Products
      BY <1>2, Busy DEF Inv, TypeOK, BusyType
    <2>2. CASE q[s] = req[s]
      BY <1>1, <1>2, <2>1, <2>2 DEF Alike
    <2>3. CASE req[s].pc = "setDoc" /\ q[s] = [req[s] EXCEPT !.pc = "exec"]
      <3>1. /\ q[s] # Idle /\ q[s].pc = "exec" /\ q[s].user = req[s].user
            /\ q[s].product = req[s].product /\ q[s].quantity = req[s].quantity
            /\ q[s].stock = req[s].stock /\ q[s].keys = req[s].keys
        BY <2>1, <2>3 DEF BusyType, Idle
      <3>2. Held(q[s]) = Held(req[s])
        BY <2>3, <3>1 DEF Held
      <3> QED BY <1>1, <2>1, <2>3, <3>1, <3>2 DEF Alike
    <2> QED BY <2>2, <2>3
  <1>3. ASSUME NEW s \in Requests, req[s] = Idle
        PROVE  q[s] = Idle /\ req'[s] = Idle
    BY <1>1, <1>3 DEF Alike, Idle
  <1>4. TypeOK'
    BY <1>1 DEF Inv, TypeOK, history
  <1>5. Counted'
    <2>1. ASSUME NEW x \in Products PROVE counter'[x] = None /\ stock'[x] # None => stock'[x] >= 0
      BY DEF Inv, TypeOK, Counted
    <2>2. ASSUME NEW s \in Requests, req'[s] # Idle, counter'[req'[s].product] = None
          PROVE  req'[s].pc \notin {"setDoc", "exec"} /\ req'[s].stock >= 0
      <3>1. req[s] # Idle
        BY <1>3, <2>2
      <3> QED BY <1>2, <2>2, <3>1 DEF Inv, Counted
    <2> QED BY <2>1, <2>2 DEF Counted
  <1>6. Stepping'
    <2> SUFFICES ASSUME NEW s \in Requests
                 PROVE  /\ req'[s].pc = "incrBy" => ~Refused(req[s])'
                        /\ req'[s].pc = "setDoc" => req'[s].quantity = 0
                        /\ req'[s].pc = "exec" => req'[s].quantity >= 0
      BY DEF Stepping
    <2>1. CASE req[s] = Idle
      BY <1>3, <2>1 DEF Idle
    <2>2. CASE req[s] # Idle
      <3>1. req'[s].pc = "incrBy" => ~Refused(req[s])'
        <4> SUFFICES ASSUME req'[s].pc = "incrBy" PROVE ~Refused(req[s])'
          OBVIOUS
        <4>1. q[s] = req[s] /\ req[s].pc = "incrBy"
          BY <1>2, <2>2
        <4>2. req'[s].by = req[s].by /\ req'[s].quantity = req[s].quantity
          BY <1>1, <2>2, <4>1 DEF Alike
        <4> QED BY <4>1, <4>2 DEF Inv, Stepping, Refused
      <3>2. req'[s].pc = "setDoc" => req'[s].quantity = 0
        BY <1>2, <2>2 DEF Inv, Stepping
      <3>3. req'[s].pc = "exec" => req'[s].quantity >= 0
        BY <1>2, <2>2 DEF Inv, Stepping
      <3> QED BY <3>1, <3>2, <3>3
    <2> QED BY <2>1, <2>2
  <1>7. Watching'
    <2> SUFFICES ASSUME NEW s \in Requests, req'[s].pc \notin {"idle", "unwatch"}
                 PROVE  WatchingOf(req[s])'
      BY DEF Watching
    <2>1. req[s] # Idle
      BY <1>3 DEF Idle
    <2>2. WatchingOf(req[s])
      BY <1>2, <2>1, Busy DEF Inv, TypeOK, Watching
    <2>3. watched' = watched
      OBVIOUS
    <2>4. CASE req'[s].keys = q[s].keys
      BY <1>2, <2>1, <2>2, <2>3, <2>4 DEF WatchingOf
    <2>5. CASE req'[s].keys # q[s].keys
      <3>1. Doc(p) \in Held(req[s]) /\ req[s].keys = "same" /\ req'[s].keys = "changed"
        BY <1>1, <1>2, <2>1, <2>5
      <3>2. Doc(p) \in watched
        BY <2>2, <3>1 DEF WatchingOf
      <3>3. req'[s].pc # "watchCart"
        BY <1>2, <2>1, <3>1 DEF Held
      <3> QED BY <1>2, <2>1, <2>2, <2>3, <3>1, <3>2, <3>3 DEF WatchingOf
    <2> QED BY <2>4, <2>5
  <1>8. Covered'
    <2>1. ASSUME NEW s \in Requests
          PROVE  \/ Alike(req[s], req'[s]) /\ req[s] \in ReqType /\ req'[s] \in ReqType
                 \/ /\ req[s].pc # "exec" \/ req[s].quantity = 0
                    /\ req'[s].pc # "exec" \/ req'[s].quantity = 0
      <3>1. CASE req[s] = q[s]
        BY <1>1, <3>1 DEF Inv, TypeOK
      <3>2. CASE req[s] # q[s]
        BY <1>2, <1>3, <3>2 DEF Inv, Stepping
      <3> QED BY <3>1, <3>2
    <2>2. \A x \in Products : Units(x)' = Units(x)
      BY <2>1, UnitsStay
    <2> QED BY <2>2 DEF Inv, Covered, Left, history
  <1> QED BY <1>4, <1>5, <1>6, <1>7, <1>8 DEF Inv

LEMMA SetDocInv ==
    ASSUME Inv, NEW r \in Requests, SetDoc(r)
    PROVE  Inv'
  <1> DEFINE p == req[r].product
             q == [req EXCEPT ![r].pc = "exec"]
             n == req[r].stock - req[r].by
  <1>1. req[r] \in BusyType /\ req[r] # Idle /\ p \in Products /\ n \in Int
    BY Busy DEF SetDoc, Inv, TypeOK, Idle, BusyType
  <1>2. q \in [Requests -> ReqType]
    BY <1>1 DEF Inv, TypeOK, ReqType, BusyType
  <1>3. \A s \in Requests :
            \/ q[s] = req[s]
            \/ req[s].pc = "setDoc" /\ q[s] = [req[s] EXCEPT !.pc = "exec"]
    BY DEF SetDoc, Inv, TypeOK
  <1>4. counter[p] # None
    BY <1>1 DEF SetDoc, Inv, Counted
  <1>5. /\ stock' = [stock EXCEPT ![p] = n] /\ dirty' = (dirty \/ Doc(p) \in watched)
        /\ req' = Modified(q, {Doc(p)}, r) /\ UNCHANGED <<counter, cart, watched, history>>
    BY DEF SetDoc
  <1> HIDE DEF p, q, n
  <1> QED BY <1>1, <1>2, <1>3, <1>4, <1>5, ModifiedTells, WriteDocInv

LEMMA DocInv ==
    ASSUME Inv, NEW p \in Products, DeleteDoc(p) \/ \E n \in Quantities : PutDoc(p, n)
    PROVE  Inv'
  <1>1. req \in [Requests -> ReqType]
    BY DEF Inv, TypeOK
  <1>2. CASE DeleteDoc(p)
    BY <1>1, <1>2, ModifiedTells, WriteDocInv DEF DeleteDoc
  <1>3. ASSUME NEW n \in Quantities, PutDoc(p, n) PROVE Inv'
    <2>1. n \in Int /\ n >= 0
      OBVIOUS
    <2> QED BY <1>1, <1>3, <2>1, ModifiedTells, WriteDocInv DEF PutDoc
  <1> QED BY <1>2, <1>3

\* Request r has made the connection forget its keys, and is new now.
Forgot(r, new) ==
    /\ req' \in [Requests -> ReqType] /\ req'[r] = new
    /\ \A s \in Requests : s # r =>
         /\ Alike(req[s], req'[s])
         /\ Held(req[s]) # {} => req'[s].keys = "forgotten"
         /\ Held(req[s]) = {} => req'[s] = req[s]

LEMMA ForgottenForgets ==
    ASSUME TypeOK, NEW r \in Requests, NEW new \in ReqType,
           req' = Forgotten([req EXCEPT ![r] = new], r)
    PROVE  Forgot(r, new)
  <1> DEFINE q == [req EXCEPT ![r] = new]
  <1>1. /\ q \in [Requests -> ReqType] /\ q[r] = new
        /\ \A s \in Requests : s # r => q[s] = req[s]
    BY DEF TypeOK
  <1> DEFINE f == Forgotten(q, r)
  <1>2. req' = f
    OBVIOUS
  <1> HIDE DEF q
  <1>3. /\ f \in [Requests -> ReqType] /\ f[r] = q[r]
        /\ \A s \in Requests :
             /\ Alike(q[s], f[s])
             /\ s # r /\ Held(q[s]) # {} => f[s].keys = "forgotten"
             /\ Held(q[s]) = {} => f[s] = q[s]
    <2>1. f \in [Requests -> ReqType] /\ f[r] = q[r]
      BY <1>1, ForgottenFacts
    <2> QED BY <1>1, <2>1, ForgottenFacts
  <1> HIDE DEF f
  <1> QED BY <1>1, <1>2, <1>3 DEF Forgot

\* An EXEC or an UNWATCH, with what the commands that it ran did.
LEMMA ForgetInv ==
    ASSUME Inv, NEW r \in Requests, req[r].pc \in {"exec", "unwatch"},
           NEW new \in ReqType, Forgot(r, new),
           new # Idle => /\ new.pc = "unwatch" /\ new.product = req[r].product
                         /\ new.stock = req[r].stock,
           watched' = {}, dirty' = FALSE, UNCHANGED <<counter, credited, served>>,
           cart' \in [Users -> [Products -> Int]],
           stock' \in [Products -> Int \cup {None}],
           \A p \in Products : stock'[p] # stock[p] => counter[p] # None,
           \/ bought' = bought
           \/ /\ req[r].pc = "exec"
              /\ bought' = [bought EXCEPT ![req[r].product] = @ + req[r].quantity]
    PROVE  Inv'
  <1>1. /\ req[r] \in BusyType /\ req[r] # Idle /\ req[r].product \in Products
        /\ req[r].quantity \in Int /\ (req[r].pc = "exec" => req[r].quantity \in Nat)
    BY Busy DEF Inv, TypeOK, Stepping, Idle, BusyType
  <1>2. new.pc \in {"idle", "unwatch"}
    BY DEF Idle
  <1>3. \A s \in Requests : s # r => Alike(req[s], req'[s])
    BY DEF Forgot
  <1>4. /\ bought' \in [Products -> Nat]
        /\ \A p \in Products :
             \/ bought'[p] = bought[p]
             \/ /\ p = req[r].product /\ req[r].pc = "exec"
                /\ bought'[p] = bought[p] + req[r].quantity
    BY <1>1 DEF Inv, TypeOK
  <1>5. TypeOK'
    BY <1>4 DEF Inv, TypeOK, Forgot
  <1>6. Counted'
    <2>1. \A p \in Products : counter'[p] = None /\ stock'[p] # None => stock'[p] >= 0
      BY DEF Inv, Counted
    <2>2. ASSUME NEW s \in Requests, req'[s] # Idle, counter'[req'[s].product] = None
          PROVE  req'[s].pc \notin {"setDoc", "exec"} /\ req'[s].stock >= 0
      <3>1. CASE s = r
        BY <1>1, <1>2, <2>2, <3>1 DEF Inv, Counted, Forgot
      <3>2. CASE s # r
        BY <1>3, <2>2, <3>2 DEF Inv, Counted, Alike
      <3> QED BY <3>1, <3>2
    <2> QED BY <2>1, <2>2 DEF Counted
  <1>7. Stepping'
    <2> SUFFICES ASSUME NEW s \in Requests, req'[s].pc \in {"incrBy", "setDoc", "exec"}
                 PROVE  /\ req'[s].pc = "incrBy" => ~Refused(req[s])'
                        /\ req'[s].pc = "setDoc" => req'[s].quantity = 0
                        /\ req'[s].pc = "exec" => req'[s].quantity >= 0
      BY DEF Stepping
    <2>1. s # r
      BY <1>2 DEF Forgot
    <2>2. /\ req[s].pc = req'[s].pc /\ req'[s].quantity = req[s].quantity
          /\ req'[s].by = req[s].by
      BY <1>3, <2>1 DEF Alike, Idle
    <2> QED BY <2>2 DEF Inv, Stepping, Refused
  <1>8. Watching'
    <2> SUFFICES ASSUME NEW s \in Requests, req'[s].pc \notin {"idle", "unwatch"}
                 PROVE  WatchingOf(req[s])'
      BY DEF Watching
    <2>1. s # r
      BY <1>2 DEF Forgot
    <2>2. CASE Held(req[s]) = {}
      <3>1. req'[s] = req[s]
        BY <2>1, <2>2 DEF Forgot
      <3>2. req[s] \in BusyType /\ req[s].pc = "watchCart"
        <4>1. req[s] \in BusyType
          BY <3>1, Busy DEF Inv, TypeOK, Idle
        <4> QED BY <2>2, <4>1 DEF Held, BusyType
      <3>3. req[s].keys = "same"
        BY <3>2 DEF Inv, Watching, WatchingOf
      <3> QED BY <2>2, <3>1, <3>3 DEF WatchingOf
    <2>3. CASE Held(req[s]) # {}
      <3>1. req'[s].keys = "forgotten" /\ Alike(req[s], req'[s])
        BY <2>1, <2>3 DEF Forgot
      <3>2. req'[s].pc # "watchCart"
        BY <2>3, <3>1 DEF Alike, Held, Idle
      <3> QED BY <3>1, <3>2 DEF WatchingOf
    <2> QED BY <2>2, <2>3
  <1>9. Covered'
    <2> SUFFICES ASSUME NEW p \in Products
                 PROVE  (IsFiniteSet(Units(p)) /\
                         Left(p) + bought[p] + Cardinality(Units(p)) <= credited[p])'
      BY DEF Covered
    <2>1. /\ IsFiniteSet(Units(p)) /\ Cardinality(Units(p)) \in Nat
          /\ Left(p) + bought[p] + Cardinality(Units(p)) <= credited[p]
      BY FS_CardinalityType DEF Inv, Covered
    <2>2. /\ Left(p) \in Nat /\ Left(p)' = Left(p)
          /\ bought[p] \in Nat /\ bought'[p] \in Nat
          /\ credited[p] \in Nat /\ credited'[p] = credited[p]
      BY <1>4 DEF Left, Inv, TypeOK
    <2>3. CASE req[r].pc = "exec"
      <3>1. /\ IsFiniteSet(Units(p)')
            /\ Cardinality(Units(p)') =
                 Cardinality(Units(p)) - (IF req[r].product = p THEN req[r].quantity ELSE 0)
            /\ Cardinality(Units(p)') \in Nat
        <4>1. req'[r].pc # "exec" /\ req' \in [Requests -> ReqType]
          BY <1>2 DEF Forgot
        <4>2. req[r].quantity >= 0
          BY <1>1, <2>3
        <4> QED BY <1>3, <2>3, <4>1, <4>2, UnitsLeave DEF Inv
      <3> QED BY <1>1, <1>4, <2>1, <2>2, <2>3, <3>1
    <2>4. CASE req[r].pc # "exec"
      <3>1. \A s \in Requests :
               \/ Alike(req[s], req'[s]) /\ req[s] \in ReqType /\ req'[s] \in ReqType
               \/ /\ req[s].pc # "exec" \/ req[s].quantity = 0
                  /\ req'[s].pc # "exec" \/ req'[s].quantity = 0
        BY <1>2, <1>3, <2>4 DEF Forgot, Inv, TypeOK
      <3>2. Units(p)' = Units(p)
        BY <3>1, UnitsStay
      <3> QED BY <1>4, <2>1, <2>2, <2>4, <3>2
    <2> QED BY <2>3, <2>4
  <1> QED BY <1>5, <1>6, <1>7, <1>8, <1>9 DEF Inv

LEMMA UnwatchInv ==
    ASSUME Inv, NEW r \in Requests, Unwatch(r)
    PROVE  Inv'
  <1>1. Forgot(r, Idle)
    BY BusyIsReq, ForgottenForgets DEF Unwatch, Inv
  <1>2. /\ cart' = cart /\ cart' \in [Users -> [Products -> Int]]
        /\ stock' = stock /\ stock' \in [Products -> Int \cup {None}]
    BY DEF Unwatch, Inv, TypeOK
  <1> QED BY <1>1, <1>2, BusyIsReq, ForgetInv DEF Unwatch, history

LEMMA ExecInv ==
    ASSUME Inv, NEW r \in Requests, Exec(r)
    PROVE  Inv'
  <1> DEFINE p == req[r].product
             unwatch == [req[r] EXCEPT !.pc = "unwatch"]
  <1>1. /\ req[r] \in BusyType /\ req[r] # Idle /\ p \in Products /\ counter[p] # None
        /\ req[r].user \in Users /\ Amount(req[r]) \in Int /\ req[r].quantity \in Int
    BY Busy DEF Exec, Inv, TypeOK, Idle, BusyType, Counted, Amount
  <1>2. /\ unwatch \in ReqType /\ unwatch.pc = "unwatch" /\ unwatch.product = p
        /\ unwatch.stock = req[r].stock
    BY <1>1 DEF ReqType, BusyType
  <1>3. /\ req[r].pc = "exec" /\ watched' = {} /\ dirty' = FALSE
        /\ UNCHANGED <<counter, credited, served>>
    BY DEF Exec
  <1>4. PICK new \in {Idle, unwatch} : Forgot(r, new)
    <2>1. \/ req' = Forgotten([req EXCEPT ![r] = Idle], r)
          \/ req' = Forgotten([req EXCEPT ![r] = unwatch], r)
      BY DEF Exec
    <2> HIDE DEF unwatch
    <2> QED BY <1>2, <2>1, BusyIsReq, ForgottenForgets DEF Inv
  <1>5. /\ cart' \in [Users -> [Products -> Int]]
        /\ stock' \in [Products -> Int \cup {None}]
        /\ \A x \in Products : stock'[x] # stock[x] => x = p
    <2>1. cart' \in [Users -> [Products -> Int]]
      BY <1>1 DEF Exec, Inv, TypeOK
    <2>2. stock' \in [Products -> Int \cup {None}]
      BY <1>1 DEF Exec, Inv, TypeOK
    <2>3. \A x \in Products : stock'[x] # stock[x] => x = p
      BY <1>1 DEF Exec, Inv, TypeOK
    <2> QED BY <2>1, <2>2, <2>3
  <1>6. bought' = bought \/ bought' = [bought EXCEPT ![p] = @ + req[r].quantity]
    BY DEF Exec
  <1>7. new \in ReqType /\ (new # Idle => new = unwatch)
    BY <1>2, <1>4, BusyIsReq
  <1> HIDE DEF unwatch
  <1> QED BY <1>1, <1>2, <1>3, <1>4, <1>5, <1>6, <1>7, ForgetInv

LEMMA FailInv ==
    ASSUME Inv, NEW r \in Requests, Fail(r)
    PROVE  Inv'
  <1>1. /\ UNCHANGED <<stock, counter, cart, watched, dirty, history>>
        /\ served' \in 0..MaxServed /\ watched' \subseteq Keys /\ watched \subseteq watched'
    BY DEF Fail, history, Inv, TypeOK, Keys
  <1>2. CASE req' = [req EXCEPT ![r] = Idle]
    <2>1. Idle \in ReqType /\ Idle.pc = "idle"
      BY BusyIsReq DEF Idle
    <2> QED BY <1>1, <1>2, <2>1, LocalInv DEF history
  <1>3. CASE req[r].pc \in {"incrBy", "setDoc", "exec"} /\ Goto(r, "unwatch")
    <2> DEFINE new == [req[r] EXCEPT !.pc = "unwatch"]
    <2>1. req[r] # Idle /\ req[r] \in BusyType
      BY <1>3, Busy DEF Inv, TypeOK, Idle
    <2>2. /\ new \in ReqType /\ new.pc = "unwatch" /\ new.product = req[r].product
          /\ new.stock = req[r].stock
      BY <2>1 DEF ReqType, BusyType
    <2>3. req' = [req EXCEPT ![r] = new]
      BY <1>3 DEF Goto
    <2>4. counter[new.product] = None => new.stock >= 0
      BY <2>1, <2>2 DEF Inv, Counted
    <2> HIDE DEF new
    <2> QED BY <1>1, <2>2, <2>3, <2>4, LocalInv DEF history
  <1> QED BY <1>2, <1>3 DEF Fail

LEMMA RestartInv ==
    ASSUME Inv, Restart
    PROVE  Inv'
  <1>1. \A r \in Requests : req'[r] = Idle
    BY DEF Restart
  <1>2. TypeOK'
    BY BusyIsReq DEF Restart, history, Inv, TypeOK
  <1>3. Counted' /\ Stepping' /\ Watching'
    BY <1>1 DEF Restart, history, Inv, Counted, Stepping, Watching, Idle
  <1>4. ASSUME NEW p \in Products
        PROVE  (IsFiniteSet(Units(p)) /\
                Left(p) + bought[p] + Cardinality(Units(p)) <= credited[p])'
    <2>1. Units(p)' = {}
      BY <1>1 DEF Units, Idle
    <2>2. IsFiniteSet(Units(p)') /\ Cardinality(Units(p)') = 0
      BY <2>1, FS_EmptySet
    <2>3. /\ Cardinality(Units(p)) \in Nat
          /\ Left(p) + bought[p] + Cardinality(Units(p)) <= credited[p]
      BY FS_CardinalityType DEF Inv, Covered
    <2>4. /\ Left(p) \in Nat /\ Left(p)' = Left(p) /\ bought'[p] = bought[p]
          /\ credited'[p] = credited[p] /\ bought[p] \in Nat /\ credited[p] \in Nat
      BY DEF Left, Restart, history, Inv, TypeOK
    <2> QED BY <2>2, <2>3, <2>4
  <1> QED BY <1>2, <1>3, <1>4 DEF Inv, Covered

LEMMA InitInv == Init => Inv
  <1> SUFFICES ASSUME Init PROVE Inv
    OBVIOUS
  <1>1. /\ stock \in [Products -> Int \cup {None}]
        /\ \A p \in Products : stock[p] >= 0
    <2>1. stock \in [Products -> Quantities]
      BY DEF Init
    <2>2. \A n \in Quantities : n \in Int /\ n >= 0
      OBVIOUS
    <2> QED BY <2>1, <2>2
  <1>2. TypeOK /\ Counted /\ Stepping /\ Watching
    <2>1. TypeOK
      <3>1. cart \in [Users -> [Products -> Int]]
        BY DEF Init
      <3>2. counter \in [Products -> Int \cup {None}] /\ served \in 0..MaxServed
        BY DEF Init
      <3>3. credited \in [Products -> Nat] /\ bought \in [Products -> Nat]
        BY DEF Init
      <3>4. req \in [Requests -> ReqType] /\ watched = {} /\ dirty \in BOOLEAN
        BY BusyIsReq DEF Init
      <3> QED BY <1>1, <3>1, <3>2, <3>3, <3>4 DEF TypeOK
    <2>2. Counted
      BY <1>1 DEF Init, Counted
    <2>3. Stepping /\ Watching
      BY DEF Init, Stepping, Watching, Idle
    <2> QED BY <2>1, <2>2, <2>3
  <1>3. ASSUME NEW p \in Products
        PROVE  IsFiniteSet(Units(p)) /\ Left(p) + bought[p] + Cardinality(Units(p)) <= credited[p]
    <2>1. Units(p) = {}
      BY DEF Init, Units, Idle
    <2> QED BY <2>1, FS_EmptySet DEF Init, Left
  <1> QED BY <1>2, <1>3 DEF Inv, Covered

LEMMA NextInv ==
    ASSUME Inv, [Next]_vars
    PROVE  Inv'
  <1>1. CASE UNCHANGED vars
    BY <1>1 DEF vars, history, Inv, TypeOK, Counted, Stepping, Watching, WatchingOf, Covered,
                Units, Left
  <1>2. ASSUME NEW r \in Requests, Step(r) PROVE Inv'
    BY <1>2, WatchCartInv, WatchDocInv, GetDocInv, GetItemInv, ExistsInv, SetNxInv, IncrByInv,
       SetDocInv, ExecInv, UnwatchInv DEF Step
  <1> QED BY <1>1, <1>2, StartInv, FailInv, DocInv, RestartInv DEF Next

LEMMA Invariance == Spec => []Inv
  BY InitInv, NextInv, PTL DEF Spec

-----------------------------------------------------------------------------
(* The theorems.                                                           *)

\* The state of Carts is well typed; that no counter is ever credited with less than
\* nothing is part of it.
THEOREM TypeCorrect == Spec => []TypeOK
  <1>1. Inv => TypeOK
    BY DEF Inv
  <1> QED BY <1>1, Invariance, PTL

\* For any number of users, products and requests, and for all quantities: those that are
\* bought never exceed what the counter was given.
THEOREM NoOverselling == Spec => []BoughtWithinCredits
  <1>1. ASSUME Inv PROVE BoughtWithinCredits
    <2> SUFFICES ASSUME NEW p \in Products PROVE bought[p] <= credited[p]
      BY DEF BoughtWithinCredits
    <2>1. /\ Left(p) \in Nat /\ Cardinality(Units(p)) \in Nat
          /\ bought[p] \in Nat /\ credited[p] \in Nat
          /\ Left(p) + bought[p] + Cardinality(Units(p)) <= credited[p]
      BY <1>1, FS_CardinalityType DEF Inv, TypeOK, Covered, Left
    <2> QED BY <2>1
  <1> QED BY <1>1, Invariance, PTL

\* Only an EXEC puts something into a cart.
LEMMA CartsChangeByExec ==
    ASSUME Inv, Next, NEW u \in Users, NEW p \in Products, cart'[u][p] # cart[u][p]
    PROVE  \E r \in Requests : Exec(r) /\ ~dirty /\ req[r].user = u /\ req[r].product = p
  <1>1. cart' # cart
    OBVIOUS
  <1>2. PICK r \in Requests : Exec(r)
    BY <1>1 DEF Next, Step, Start, WatchCart, WatchDoc, GetDoc, GetItem, Exists, SetNx, IncrBy,
                SetDoc, Unwatch, Fail, DeleteDoc, PutDoc, Restart
  <1>3. req[r].user \in Users /\ req[r].product \in Products
    BY <1>2, Busy DEF Exec, Inv, TypeOK, Idle, BusyType
  <1>4. ~dirty /\ cart' = [cart EXCEPT ![req[r].user][req[r].product] = @ + Amount(req[r])]
    BY <1>1, <1>2 DEF Exec
  <1>5. req[r].user = u /\ req[r].product = p
    BY <1>3, <1>4 DEF Inv, TypeOK
  <1> QED BY <1>2, <1>4, <1>5

\* For any number of requests over the one connection: a modification of what a request
\* watches keeps its EXEC from going through, unless another request made the connection
\* forget.
THEOREM LockHolds == Spec => OptimisticLock
  <1> DEFINE Locked == \A u \in Users, p \in Products : cart'[u][p] # cart[u][p] =>
                 \E r \in Requests : /\ req[r].pc = "exec" /\ req[r].keys # "changed"
                                     /\ req[r].user = u /\ req[r].product = p
  <1>1. ASSUME Inv, Next PROVE Locked
    <2> SUFFICES ASSUME NEW u \in Users, NEW p \in Products, cart'[u][p] # cart[u][p]
                 PROVE  \E r \in Requests : /\ req[r].pc = "exec" /\ req[r].keys # "changed"
                                            /\ req[r].user = u /\ req[r].product = p
      OBVIOUS
    <2>1. PICK r \in Requests : Exec(r) /\ ~dirty /\ req[r].user = u /\ req[r].product = p
      BY <1>1, CartsChangeByExec
    <2>2. req[r].pc = "exec" /\ req[r].keys # "changed"
      BY <1>1, <2>1 DEF Exec, Inv, Watching, WatchingOf
    <2> QED BY <2>1, <2>2
  <1>2. ASSUME Inv, [Next]_vars PROVE [Locked]_vars
    BY <1>1, <1>2
  <1>3. Spec => [][Locked]_vars
    BY <1>2, Invariance, PTL DEF Spec
  <1> QED BY <1>3 DEF OptimisticLock
=============================================================================
