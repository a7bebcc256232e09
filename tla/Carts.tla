-------------------------------- MODULE Carts -------------------------------
(***************************************************************************)
(* Putting products into carts.  A cart is a hash in Redis, the stock of a *)
(* product is a field of its cached document, and a counter next to the    *)
(* document is to keep requests from taking more than there is.            *)
(*                                                                         *)
(* All requests share one connection to Redis, and with it the keys that   *)
(* it watches: EXEC fails when any of them was modified, and EXEC and      *)
(* UNWATCH forget them all.                                                *)
(***************************************************************************)
EXTENDS Integers

CONSTANTS
    Users,
    Products,
    Requests,      \* requests the server may have in flight at once
    Quantities,    \* quantities a shop may give a product
    MaxQuantity,   \* bound: quantity that a request may ask for
    MaxServed,     \* bound: requests altogether
    None           \* no document, no counter

ASSUME CartsAssumption ==
    /\ Quantities \subseteq Nat /\ MaxQuantity \in Nat /\ MaxServed \in Nat
    /\ None \notin Int

VARIABLES
    stock,         \* product_quantity in each product's document, or None
    counter,       \* the key product:<id>_, or None
    cart,          \* the quantity of each product in each user's cart
    watched,       \* keys that the connection watches
    dirty,         \* whether one of them was modified
    req,           \* what each request in flight is doing
    credited,      \* history: units each counter was given
    bought,        \* history: units put into carts by requests for a quantity
    served         \* history: the number of requests

history == <<credited, bought, served>>
vars == <<stock, counter, cart, watched, dirty, req, history>>

Cart(u) == <<"cart", u>>
Doc(p) == <<"product", p>>

Idle == [pc |-> "idle"]

\* quantity: -1 for any below zero; by: incrementBy, 0 for none, 2 for any but 1 and -1;
\* stock and inCart: what was read; keys: history, whether another has modified a key since
\* this request began to watch it, or made the connection forget it.
ReqType == {Idle} \cup
    [pc : {"watchCart", "watchDoc", "getDoc", "getItem", "exists", "setNx", "incrBy",
           "setDoc", "exec", "unwatch"},
     user : Users, product : Products, quantity : -1..MaxQuantity, by : {-1, 0, 1, 2},
     stock : Int, inCart : Int, keys : {"same", "changed", "forgotten"}]

\* Keys that a request has asked to watch.
Held(q) ==
    CASE q.pc \in {"idle", "watchCart"} -> {}
      [] q.pc = "watchDoc" -> {Cart(q.user)}
      [] OTHER -> {Cart(q.user), Doc(q.product)}

\* q, after request r, or none, has modified keys.
Modified(q, keys, r) ==
    [s \in Requests |-> IF s # r /\ Held(q[s]) \cap keys # {} /\ q[s].keys = "same"
                        THEN [q[s] EXCEPT !.keys = "changed"] ELSE q[s]]

\* q, after the EXEC or UNWATCH of request r.
Forgotten(q, r) ==
    [s \in Requests |-> IF s # r /\ Held(q[s]) # {}
                        THEN [q[s] EXCEPT !.keys = "forgotten"] ELSE q[s]]

Goto(r, pc) == req' = [req EXCEPT ![r].pc = pc]
Amount(q) == IF q.quantity # 0 THEN q.quantity ELSE q.by
Refused(q) == q.quantity < 0 \/ (q.quantity = 0 /\ q.by \notin {-1, 0, 1})

-----------------------------------------------------------------------------
(* addToCart, from one await to the next.                                  *)

\* Next to a quantity, incrementBy is ignored.
Start(r, u, p, n, by) ==
    /\ req[r] = Idle /\ served < MaxServed
    /\ n # 0 => by = 0
    /\ served' = served + 1
    /\ req' = [req EXCEPT ![r] = [pc |-> "watchCart", user |-> u, product |-> p, quantity |-> n,
                                  by |-> by, stock |-> 0, inCart |-> 0, keys |-> "same"]]
    /\ UNCHANGED <<stock, counter, cart, watched, dirty, credited, bought>>

WatchCart(r) ==
    /\ req[r].pc = "watchCart"
    /\ watched' = watched \cup {Cart(req[r].user)}
    /\ Goto(r, "watchDoc")
    /\ UNCHANGED <<stock, counter, cart, dirty, history>>

MutWatchDoc(r) == \* Mutant of WatchDoc: watches the cart only.
    /\ req[r].pc = "watchDoc"
    /\ Goto(r, "getDoc")
    /\ UNCHANGED <<stock, counter, cart, watched, dirty, history>>

WatchDoc(r) ==
    /\ req[r].pc = "watchDoc"
    /\ watched' = watched \cup {Doc(req[r].product)}
    /\ Goto(r, "getDoc")
    /\ UNCHANGED <<stock, counter, cart, dirty, history>>

MutGetDoc(r) == \* Mutant of GetDoc: does not look whether there is a document.
    /\ req[r].pc = "getDoc"
    /\ req' = [req EXCEPT ![r].pc = "getItem", ![r].stock = stock[req[r].product]]
    /\ UNCHANGED <<stock, counter, cart, watched, dirty, history>>

\* Without a document the request ends, and its keys stay watched.
GetDoc(r) ==
    /\ req[r].pc = "getDoc"
    /\ LET s == stock[req[r].product]
       IN  req' = [req EXCEPT ![r] = IF s = None THEN Idle
                                     ELSE [@ EXCEPT !.pc = "getItem", !.stock = s]]
    /\ UNCHANGED <<stock, counter, cart, watched, dirty, history>>

GetItem(r) ==
    /\ req[r].pc = "getItem"
    /\ req' = [req EXCEPT ![r].pc = "exists", ![r].inCart = cart[req[r].user][req[r].product]]
    /\ UNCHANGED <<stock, counter, cart, watched, dirty, history>>

\* The counter is only set up when the document has gone since it was read.  A request
\* for nothing ends after that, and its keys stay watched; one for what cannot be gives
\* them up.
Checked(r) ==
    IF Amount(req[r]) = 0 THEN req' = [req EXCEPT ![r] = Idle]
    ELSE Goto(r, IF Refused(req[r]) THEN "unwatch" ELSE "incrBy")

Exists(r) ==
    /\ req[r].pc = "exists"
    /\ IF stock[req[r].product] # None THEN Checked(r) ELSE Goto(r, "setNx")
    /\ UNCHANGED <<stock, counter, cart, watched, dirty, history>>

SetNx(r) ==
    /\ req[r].pc = "setNx"
    /\ LET p == req[r].product
       IN  \/ counter[p] # None /\ UNCHANGED <<counter, credited>>
           \/ /\ counter[p] = None
              /\ counter' = [counter EXCEPT ![p] = req[r].stock]
              /\ credited' = [credited EXCEPT ![p] = @ + req[r].stock]
    /\ Checked(r)
    /\ UNCHANGED <<stock, cart, watched, dirty, bought, served>>

MutIncrBy(r) == \* Mutant of IncrBy: compares the counter before it is changed.
    /\ req[r].pc = "incrBy"
    /\ LET q == req[r]
           p == q.product
           old == IF counter[p] = None THEN 0 ELSE counter[p]
           new == old + (IF q.quantity > 0 THEN -q.quantity ELSE q.by)
       IN  /\ counter' = [counter EXCEPT ![p] = new]
           /\ credited' = [credited EXCEPT ![p] = @ + (IF new > old THEN 1 ELSE 0)]
           /\ Goto(r, IF old < 0 THEN "unwatch" ELSE IF q.quantity > 0 THEN "exec" ELSE "setDoc")
    /\ UNCHANGED <<stock, cart, watched, dirty, bought, served>>

\* A quantity is taken from the counter, but incrementBy is added to it.  What a refused
\* request did to the counter is not undone.
IncrBy(r) ==
    /\ req[r].pc = "incrBy"
    /\ LET q == req[r]
           p == q.product
           old == IF counter[p] = None THEN 0 ELSE counter[p]
           new == IF q.quantity > 0 THEN old - q.quantity ELSE old + q.by
       IN  /\ counter' = [counter EXCEPT ![p] = new]
           /\ credited' = [credited EXCEPT ![p] = @ + (IF new > old THEN 1 ELSE 0)]
           /\ IF new < 0 THEN Goto(r, "unwatch")
              ELSE IF q.quantity > 0 THEN Goto(r, "exec")
              ELSE Goto(r, IF q.inCart + q.by <= 0 \/ old < 0 THEN "unwatch" ELSE "setDoc")
    /\ UNCHANGED <<stock, cart, watched, dirty, bought, served>>

\* Only for incrementBy: the document that was read, over one that is watched.
SetDoc(r) ==
    /\ req[r].pc = "setDoc"
    /\ LET p == req[r].product
       IN  /\ stock' = [stock EXCEPT ![p] = req[r].stock - req[r].by]
           /\ dirty' = (dirty \/ Doc(p) \in watched)
           /\ req' = Modified([req EXCEPT ![r].pc = "exec"], {Doc(p)}, r)
    /\ UNCHANGED <<counter, cart, watched, history>>

\* MULTI, the commands and EXEC are sent together.
Exec(r) ==
    /\ req[r].pc = "exec"
    /\ watched' = {} /\ dirty' = FALSE
    /\ LET q == req[r]
           p == q.product
           Then(pc) == Forgotten([req EXCEPT ![r] = IF pc = "idle" THEN Idle
                                                    ELSE [@ EXCEPT !.pc = pc]], r)
       IN  \/ /\ dirty
              /\ req' = Then("unwatch")
              /\ UNCHANGED <<stock, cart, bought>>
           \/ /\ ~dirty
              /\ cart' = [cart EXCEPT ![q.user][p] = @ + Amount(q)]
              /\ bought' = [bought EXCEPT ![p] = @ + q.quantity]
              /\ IF q.quantity > 0 /\ stock[p] # None
                 THEN stock' = [stock EXCEPT ![p] = @ - q.quantity]
                 ELSE UNCHANGED stock
              /\ req' = Then(IF q.quantity > 0 /\ stock[p] = None THEN "unwatch" ELSE "idle")
    /\ UNCHANGED <<counter, credited, served>>

Unwatch(r) ==
    /\ req[r].pc = "unwatch"
    /\ watched' = {} /\ dirty' = FALSE
    /\ req' = Forgotten([req EXCEPT ![r] = Idle], r)
    /\ UNCHANGED <<stock, counter, cart, history>>

\* Redis rejects a call.  Only from INCRBY on is that caught; before it the keys stay watched.
Fail(r) ==
    /\ \/ /\ req[r].pc \in {"watchCart", "watchDoc", "getDoc", "getItem", "exists", "setNx"}
          /\ req' = [req EXCEPT ![r] = Idle]
       \/ req[r].pc \in {"incrBy", "setDoc", "exec"} /\ Goto(r, "unwatch")
    /\ UNCHANGED <<stock, counter, cart, watched, dirty, history>>

-----------------------------------------------------------------------------
(* What else touches the documents, and the server's restart.              *)

\* deleteProduct and setProduct of an update, which knows nothing of what is in carts.
DeleteDoc(p) ==
    /\ stock[p] # None
    /\ stock' = [stock EXCEPT ![p] = None]
    /\ dirty' = (dirty \/ Doc(p) \in watched)
    /\ req' = Modified(req, {Doc(p)}, None)
    /\ UNCHANGED <<counter, cart, watched, history>>

PutDoc(p, n) ==
    /\ stock[p] = None
    /\ stock' = [stock EXCEPT ![p] = n]
    /\ dirty' = (dirty \/ Doc(p) \in watched)
    /\ req' = Modified(req, {Doc(p)}, None)
    /\ UNCHANGED <<counter, cart, watched, history>>

\* Also when UNWATCH is rejected, for which nobody waits.
Restart ==
    /\ req' = [r \in Requests |-> Idle]
    /\ watched' = {} /\ dirty' = FALSE
    /\ UNCHANGED <<stock, counter, cart, history>>

Init ==
    /\ stock \in [Products -> Quantities]
    /\ counter = [p \in Products |-> None]
    /\ cart = [u \in Users |-> [p \in Products |-> 0]]
    /\ watched = {} /\ dirty = FALSE
    /\ req = [r \in Requests |-> Idle]
    /\ credited = [p \in Products |-> 0] /\ bought = [p \in Products |-> 0] /\ served = 0

Step(r) ==
    \/ WatchCart(r) \/ WatchDoc(r) \/ GetDoc(r) \/ GetItem(r) \/ Exists(r) \/ SetNx(r)
    \/ IncrBy(r) \/ SetDoc(r) \/ Exec(r) \/ Unwatch(r)

Next ==
    \/ \E r \in Requests :
         \/ \E u \in Users, p \in Products, n \in -1..MaxQuantity, by \in {-1, 0, 1, 2} :
              Start(r, u, p, n, by)
         \/ Step(r) \/ Fail(r)
    \/ \E p \in Products : DeleteDoc(p) \/ \E n \in Quantities : PutDoc(p, n)
    \/ Restart

Spec == Init /\ [][Next]_vars

-----------------------------------------------------------------------------
(* Properties.                                                             *)

TypeOK ==
    /\ stock \in [Products -> Int \cup {None}]
    /\ counter \in [Products -> Int \cup {None}]
    /\ cart \in [Users -> [Products -> Int]]
    /\ watched \subseteq {Cart(u) : u \in Users} \cup {Doc(p) : p \in Products}
    /\ dirty \in BOOLEAN
    /\ req \in [Requests -> ReqType]
    /\ credited \in [Products -> Nat] /\ bought \in [Products -> Nat]
    /\ served \in 0..MaxServed

\* However requests interleave, those for a quantity never put more units of a product
\* into carts than its counter was given.
BoughtWithinCredits == \A p \in Products : bought[p] <= credited[p]

\* However requests overlap, a cart only changes when neither it nor the product's document
\* was modified since the request began to watch them, unless the EXEC or UNWATCH of another
\* request made the shared connection forget them meanwhile.
OptimisticLock ==
    [][\A u \in Users, p \in Products : cart'[u][p] # cart[u][p] =>
         \E r \in Requests : /\ req[r].pc = "exec" /\ req[r].keys # "changed"
                             /\ req[r].user = u /\ req[r].product = p]_vars
=============================================================================
