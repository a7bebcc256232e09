---------------------------- MODULE CatalogProofs ---------------------------
(* Theorems about Catalog, for every set of products, requests and         *)
(* fillings of the cache, and every size of the pool.                      *)
EXTENDS Catalog, TLAPS

USE CatalogAssumption

-----------------------------------------------------------------------------
(* The inductive invariant.                                                *)

\* What a request that creates a product carries: all of it, from its detail row on.
CreatesOf(q) ==
    /\ q.pc \in {"detail", "write", "cache", "commit"}
    /\ q.sent \in Row
    /\ q.pc \in {"write", "cache", "commit"} =>
         q.written = q.sent /\ q.detail = q.sent.attributes
    /\ q.pc # "commit" => q.entity = q.sent

\* What one that updates a product carries: from the select on there is a row, and a whole
\* product to store.
UpdatesOf(q) ==
    /\ q.pc \in {"readDoc", "detail"} => q.detail = None
    /\ q.pc \notin {"readDoc", "detail"} => q.sent.attributes # Alien
    /\ q.pc \in {"select", "write", "uncache", "cache"} => q.entity \in Row
    /\ q.pc \in {"select", "write", "uncache", "cache", "commit"} => rows[q.id] # None

Carried ==
    \A r \in Requests :
        req[r] # Idle => IF req[r].kind = "create" THEN CreatesOf(req[r]) ELSE UpdatesOf(req[r])

\* A filling has rows to write only while it writes them.
Loaded ==
    \A f \in Fillings, p \in Products : filling[f].todo[p] # None => filling[f].pc = "fill"

\* A calm product has one writer at most, or one filling with its row.
Alone(p) ==
    /\ \A q, r \in Writers(p) : q = r
    /\ \A f, g \in Fillings : filling[f].todo[p] # None /\ filling[g].todo[p] # None => f = g
    /\ \A f \in Fillings : filling[f].todo[p] # None => Writers(p) = {}

\* What its only writer will store is new, or its row with what was sent, although that was
\* put together from two reads; attributes that were sent go to the detail row of
\* electronics.
StoresOf(q, row, detail) ==
    /\ q.kind = "create" => row = None
    /\ q.kind = "update" =>
         /\ q.pc \in {"select", "write", "uncache", "cache"} => q.entity = Merge(row, q.sent)
         /\ q.pc \in {"write", "uncache", "cache", "commit"} =>
              Merge(row, q.written) = Merge(row, q.sent)
         /\ q.pc \notin {"readDoc", "detail"} /\ detail # None =>
              q.detail = IF detail.table = "electronics" THEN q.sent.attributes ELSE None

Stores(p) == \A r \in Writers(p) : StoresOf(req[r], rows[p], details[p])

\* The attributes in its row and in its detail row.
Agrees(p) == p \notin stale /\ rows[p] # None => details[p].attributes = rows[p].attributes

\* The cache shows it as it is or not at all, but from its caching to its commit as its
\* only writer will store it.
ShowsTo(q, row, doc) ==
    /\ q.pc = "cache" => doc = None
    /\ q.pc = "commit" => doc = Merge(row, q.written)
    /\ q.pc \notin {"cache", "commit"} => doc \in {None, row}

Shows(p) ==
    /\ \A r \in Writers(p) : ShowsTo(req[r], rows[p], docs[p])
    /\ Writers(p) = {} => docs[p] \in {None, rows[p]}
    /\ \A f \in Fillings : filling[f].todo[p] \in {None, rows[p]}

\* Where the cache does not show it, a filling or its writer is about to put it there.
Awaited(p) ==
    docs[p] = None /\ rows[p] # None =>
        \/ \E f \in Fillings : filling[f].pc \in {"scan", "load"}
        \/ \E f \in Fillings : filling[f].todo[p] # None
        \/ \E r \in Writers(p) : req[r].pc = "cache"

Orderly(p) == Alone(p) /\ Stores(p) /\ Agrees(p) /\ Shows(p) /\ Awaited(p)

Inv == TypeOK /\ Carried /\ DetailsExist /\ Loaded /\ \A p \in calm : Orderly(p)

-----------------------------------------------------------------------------
(* What the operators of Catalog do.                                       *)

BusyType ==
    [pc : {"readDoc", "detail", "fetch", "select", "write", "uncache", "cache", "commit"},
     kind : {"create", "update"}, id : Products, table : {"electronics", "clothing"},
     sent : Sent, detail : Values \cup {None}, entity : Row \cup {None}, written : Change]

LEMMA Busy ==
    ASSUME NEW q \in ReqType
    PROVE  /\ q # Idle <=> q \in BusyType
           /\ q # Idle <=> q.pc # "idle"
           /\ q # Idle => q.id \in Products /\ q.sent \in Sent /\ q.written \in Change
  BY DEF ReqType, BusyType, Idle

LEMMA BusyIsReq == BusyType \subseteq ReqType /\ Idle \in ReqType
  BY DEF ReqType, BusyType

LEMMA MergeType ==
    ASSUME NEW row \in Row, NEW change \in Change
    PROVE  Merge(row, change) \in Row
  BY DEF Merge, Row, Change, Parts

LEMMA SentIsChange ==
    ASSUME NEW sent \in Sent, sent.attributes # Alien
    PROVE  sent \in Change
  BY DEF Change, Sent

\* A whole product replaces whatever there was.
LEMMA MergeWhole ==
    ASSUME NEW row, NEW sent \in Row
    PROVE  Merge(row, sent) = sent
  BY DEF Merge, Row, Parts

LEMMA MergeParts ==
    ASSUME NEW row, NEW sent, NEW f \in Parts
    PROVE  Merge(row, sent)[f] = IF sent[f] = None THEN row[f] ELSE sent[f]
  BY DEF Merge

\* The columns of new that differ from row's.
Difference(new, row) == [f \in Parts |-> IF new[f] = row[f] THEN None ELSE new[f]]

\* To write those that differ is to write the whole.
LEMMA MergeDifference ==
    ASSUME NEW row \in Row, NEW new \in Row
    PROVE  Difference(new, row) \in Change /\ Merge(row, Difference(new, row)) = new
  BY DEF Difference, Merge, Row, Change, Parts

\* Where row and writers are what they were, so is what holds of a product.
LEMMA OrderlyStays ==
    ASSUME TypeOK, NEW p \in Products, Orderly(p), Writers(p)' = Writers(p),
           \A r \in Writers(p) : req'[r] = req[r],
           rows'[p] = rows[p], details'[p] = details[p], docs'[p] = docs[p],
           p \in stale' <=> p \in stale,
           \A f \in Fillings : filling'[f].todo[p] = filling[f].todo[p],
           (\E f \in Fillings : filling[f].pc \in {"scan", "load"}) =>
               \E f \in Fillings : filling'[f].pc \in {"scan", "load"}
    PROVE  Orderly(p)'
  <1>1. Alone(p)'
    BY DEF Orderly, Alone
  <1>2. Stores(p)'
    BY DEF Orderly, Stores
  <1>3. Agrees(p)'
    BY DEF Orderly, Agrees
  <1>4. Shows(p)'
    BY DEF Orderly, Shows
  <1>5. Awaited(p)'
    BY DEF Orderly, Awaited
  <1> QED BY <1>1, <1>2, <1>3, <1>4, <1>5 DEF Orderly

-----------------------------------------------------------------------------
(* The steps of requests.                                                  *)

\* The requests that write p, when only r has moved on and writes what it wrote.
LEMMA SameWriters ==
    ASSUME TypeOK, NEW r \in Requests, req[r] # Idle, NEW new \in ReqType, new # Idle,
           new.id = req[r].id, req' = [req EXCEPT ![r] = new]
    PROVE  \A p : Writers(p)' = Writers(p)
  BY DEF TypeOK, Writers

\* A request moves on without touching the stores.
LEMMA LocalInv ==
    ASSUME Inv, NEW r \in Requests, req[r] # Idle, req[r].pc # "cache",
           NEW new \in ReqType, new # Idle, req' = [req EXCEPT ![r] = new],
           new.id = req[r].id,
           IF new.kind = "create" THEN CreatesOf(new) ELSE UpdatesOf(new),
           req[r].id \in calm => /\ StoresOf(new, rows[new.id], details[new.id])
                                 /\ ShowsTo(new, rows[new.id], docs[new.id]),
           UNCHANGED <<rows, details, docs, filling, calm, stale>>
    PROVE  Inv'
  <1>1. req'[r] = new /\ \A s \in Requests : s # r => req'[s] = req[s]
    BY DEF Inv, TypeOK
  <1>2. TypeOK' /\ DetailsExist' /\ Loaded'
    BY DEF Inv, TypeOK, DetailsExist, Loaded
  <1>3. Carried'
    BY <1>1 DEF Inv, Carried, CreatesOf, UpdatesOf
  <1>4. \A p : Writers(p)' = Writers(p)
    BY SameWriters DEF Inv
  <1>5. ASSUME NEW p \in calm PROVE Orderly(p)'
    <2>1. p \in Products /\ Orderly(p)
      BY DEF Inv, TypeOK
    <2>2. CASE p # new.id
      <3>1. \A s \in Writers(p) : req'[s] = req[s]
        BY <1>1, <2>2 DEF Writers
      <3> QED BY <1>4, <2>1, <3>1, OrderlyStays DEF Inv
    <2>3. CASE p = new.id
      <3>1. \A s \in Writers(p) : s = r
        BY <2>1, <2>3 DEF Orderly, Alone, Writers
      <3>2. Alone(p)' /\ Agrees(p)'
        BY <1>4, <2>1 DEF Orderly, Alone, Agrees
      <3>3. Stores(p)'
        BY <1>1, <1>4, <2>3, <3>1 DEF Stores
      <3>4. Shows(p)'
        BY <1>1, <1>4, <2>1, <2>3, <3>1 DEF Orderly, Shows
      <3>5. Awaited(p)'
        BY <1>1, <1>4, <2>1, <3>1 DEF Orderly, Awaited
      <3> QED BY <3>2, <3>3, <3>4, <3>5 DEF Orderly
    <2> QED BY <2>2, <2>3
  <1> QED BY <1>2, <1>3, <1>5 DEF Inv

\* What holds of the request of a calm product.
LEMMA CalmWriter ==
    ASSUME Inv, NEW r \in Requests, req[r] # Idle, req[r].id \in calm
    PROVE  /\ Orderly(req[r].id) /\ r \in Writers(req[r].id)
           /\ StoresOf(req[r], rows[req[r].id], details[req[r].id])
           /\ ShowsTo(req[r], rows[req[r].id], docs[req[r].id])
           /\ \A s \in Writers(req[r].id) : s = r
           /\ \A f \in Fillings : filling[f].todo[req[r].id] = None
  BY DEF Inv, Orderly, Stores, Shows, Alone, Writers

LEMMA ReadDocInv ==
    ASSUME Inv, NEW r \in Requests, ReadDoc(r)
    PROVE  Inv'
  <1> DEFINE new == [req[r] EXCEPT !.pc = IF req[r].sent.attributes = None THEN "fetch"
                                          ELSE "detail"]
  <1>1. req[r] \in BusyType /\ req[r] # Idle /\ req[r].pc = "readDoc"
    BY Busy DEF ReadDoc, Inv, TypeOK, Idle
  <1>2. UpdatesOf(req[r]) /\ req[r].kind = "update"
    BY <1>1 DEF Inv, Carried, CreatesOf, BusyType
  <1>3. /\ new \in ReqType /\ new # Idle /\ new.id = req[r].id /\ new.kind = "update"
        /\ new.sent = req[r].sent /\ new.detail = req[r].detail
        /\ new.pc \in {"fetch", "detail"}
        /\ new.pc = "fetch" => new.sent.attributes = None
    BY <1>1, <1>2 DEF ReqType, BusyType, Idle
  <1>4. req' = [req EXCEPT ![r] = new] /\ UNCHANGED <<rows, details, docs, filling, calm, stale>>
    BY DEF ReadDoc, Goto, history
  <1> HIDE DEF new
  <1>5. UpdatesOf(new)
    BY <1>1, <1>2, <1>3 DEF UpdatesOf
  <1>6. req[r].id \in calm => /\ StoresOf(new, rows[new.id], details[new.id])
                              /\ ShowsTo(new, rows[new.id], docs[new.id])
    BY <1>1, <1>2, <1>3, CalmWriter DEF StoresOf, ShowsTo, UpdatesOf
  <1> QED BY <1>1, <1>3, <1>4, <1>5, <1>6, LocalInv

LEMMA WriteDetailInv ==
    ASSUME Inv, NEW r \in Requests, WriteDetail(r)
    PROVE  Inv'
  <1> DEFINE q == req[r]
             p == req[r].id
             found == IF details[p] = None THEN FALSE ELSE details[p].table = "electronics"
  <1>1. /\ q \in BusyType /\ q # Idle /\ q.pc = "detail"
        /\ q.sent \in Sent /\ q.sent.attributes \in Values \cup {None}
    BY Busy DEF WriteDetail, Inv, TypeOK, Idle, Sent
  <1>2. UNCHANGED <<rows, details, docs, filling, calm, stale>>
    BY DEF WriteDetail, history
  <1>3. CASE q.kind = "create"
    <2> DEFINE new == [q EXCEPT !.pc = "write", !.written = q.sent, !.detail = q.sent.attributes]
    <2>1. CreatesOf(q) /\ q.sent \in Row /\ q.sent \in Change /\ q.entity = q.sent
      BY <1>1, <1>3 DEF Inv, Carried, CreatesOf, Row, Change
    <2>2. /\ new \in ReqType /\ new # Idle /\ new.id = p /\ new.kind = "create"
          /\ new.pc = "write" /\ new.sent = q.sent /\ new.written = q.sent
          /\ new.detail = q.sent.attributes /\ new.entity = q.entity
      BY <1>1, <1>3, <2>1 DEF ReqType, BusyType, Idle
    <2>3. req' = [req EXCEPT ![r] = new]
      BY <1>3 DEF WriteDetail
    <2> HIDE DEF new
    <2>4. CreatesOf(new)
      BY <2>1, <2>2 DEF CreatesOf
    <2>5. p \in calm => /\ StoresOf(new, rows[new.id], details[new.id])
                        /\ ShowsTo(new, rows[new.id], docs[new.id])
      BY <1>1, <1>3, <2>2, CalmWriter DEF StoresOf, ShowsTo
    <2> QED BY <1>1, <1>2, <2>2, <2>3, <2>4, <2>5, LocalInv
  <1>4. CASE q.kind = "update"
    <2> DEFINE new == [q EXCEPT !.pc = "fetch",
                                !.detail = IF found THEN q.sent.attributes ELSE None]
    <2>1. UpdatesOf(q) /\ q.detail = None
      BY <1>1, <1>4 DEF Inv, Carried, UpdatesOf
    <2>2. /\ new \in ReqType /\ new # Idle /\ new.id = p /\ new.kind = "update"
          /\ new.pc = "fetch" /\ new.sent = q.sent
          /\ new.detail = IF found THEN q.sent.attributes ELSE None
      BY <1>1, <1>4 DEF ReqType, BusyType, Idle
    <2>3. req' = [req EXCEPT ![r] = new]
      <3>1. CASE found
        BY <1>4, <3>1 DEF WriteDetail
      <3>2. CASE ~found
        <4>1. req' = [req EXCEPT ![r].pc = "fetch"]
          BY <1>4, <3>2 DEF WriteDetail, Goto
        <4>2. new = [q EXCEPT !.pc = "fetch"]
          BY <1>1, <2>1, <3>2 DEF BusyType
        <4> QED BY <4>1, <4>2
      <3> QED BY <3>1, <3>2
    <2>4. q.sent.attributes # Alien
      BY DEF WriteDetail
    <2> HIDE DEF new
    <2>5. UpdatesOf(new)
      BY <2>2, <2>4 DEF UpdatesOf
    <2>6. p \in calm => /\ StoresOf(new, rows[new.id], details[new.id])
                        /\ ShowsTo(new, rows[new.id], docs[new.id])
      BY <1>1, <2>2, CalmWriter DEF StoresOf, ShowsTo
    <2> QED BY <1>1, <1>2, <2>2, <2>3, <2>5, <2>6, LocalInv
  <1> QED BY <1>1, <1>3, <1>4 DEF BusyType

LEMMA FetchProductInv ==
    ASSUME Inv, NEW r \in Requests, FetchProduct(r)
    PROVE  Inv'
  <1> DEFINE q == req[r]
             p == req[r].id
             new == [q EXCEPT !.pc = "select", !.entity = Merge(rows[p], q.sent)]
  <1>1. /\ q \in BusyType /\ q # Idle /\ q.pc = "fetch" /\ q.sent \in Sent
        /\ rows[p] # None /\ rows[p] \in Row
    BY Busy DEF FetchProduct, Inv, TypeOK, Idle
  <1>2. UpdatesOf(q) /\ q.kind = "update" /\ q.sent.attributes # Alien
    BY <1>1 DEF Inv, Carried, CreatesOf, UpdatesOf, BusyType
  <1>3. Merge(rows[p], q.sent) \in Row
    BY <1>1, <1>2, MergeType, SentIsChange
  <1>4. /\ new \in ReqType /\ new # Idle /\ new.id = p /\ new.kind = "update"
        /\ new.pc = "select" /\ new.sent = q.sent /\ new.detail = q.detail
        /\ new.entity = Merge(rows[p], q.sent)
    BY <1>1, <1>2, <1>3 DEF ReqType, BusyType, Idle
  <1>5. req' = [req EXCEPT ![r] = new] /\ UNCHANGED <<rows, details, docs, filling, calm, stale>>
    BY DEF FetchProduct, history
  <1> HIDE DEF new
  <1>6. UpdatesOf(new)
    BY <1>1, <1>2, <1>3, <1>4 DEF UpdatesOf
  <1>7. p \in calm => /\ StoresOf(new, rows[new.id], details[new.id])
                      /\ ShowsTo(new, rows[new.id], docs[new.id])
    BY <1>1, <1>2, <1>4, CalmWriter DEF StoresOf, ShowsTo
  <1> QED BY <1>1, <1>4, <1>5, <1>6, <1>7, LocalInv

LEMMA SelectProductInv ==
    ASSUME Inv, NEW r \in Requests, SelectProduct(r)
    PROVE  Inv'
  <1> DEFINE q == req[r]
             p == req[r].id
             w == Difference(q.entity, rows[p])
             new == [q EXCEPT !.pc = "write", !.written = w]
  <1>1. /\ q \in BusyType /\ q # Idle /\ q.pc = "select" /\ p \in Products
        /\ rows[p] \in Row \cup {None}
    BY Busy DEF SelectProduct, Inv, TypeOK, Idle
  <1>2. UpdatesOf(q) /\ q.kind = "update" /\ rows[p] \in Row /\ q.entity \in Row
    BY <1>1 DEF Inv, Carried, CreatesOf, UpdatesOf, BusyType
  <1>3. w \in Change /\ Merge(rows[p], w) = q.entity
    BY <1>2, MergeDifference
  <1>4. req' = [req EXCEPT ![r] = new] /\ UNCHANGED <<rows, details, docs, filling, calm, stale>>
    BY DEF SelectProduct, Difference, history
  <1> HIDE DEF w
  <1>5. /\ new \in ReqType /\ new # Idle /\ new.id = p /\ new.kind = "update"
        /\ new.pc = "write" /\ new.sent = q.sent /\ new.detail = q.detail
        /\ new.entity = q.entity /\ new.written = w
    BY <1>1, <1>2, <1>3 DEF ReqType, BusyType, Idle
  <1> HIDE DEF new
  <1>6. UpdatesOf(new)
    BY <1>1, <1>2, <1>5 DEF UpdatesOf
  <1>7. p \in calm => /\ StoresOf(new, rows[new.id], details[new.id])
                      /\ ShowsTo(new, rows[new.id], docs[new.id])
    BY <1>1, <1>2, <1>3, <1>5, CalmWriter DEF StoresOf, ShowsTo
  <1> QED BY <1>1, <1>4, <1>5, <1>6, <1>7, LocalInv

\* A product that is being created has no row yet, and nothing shows it.
LEMMA WriteProductInv ==
    ASSUME Inv, NEW r \in Requests, WriteProduct(r)
    PROVE  Inv'
  <1> DEFINE q == req[r]
             p == req[r].id
             pc == IF q.kind = "create" THEN "cache" ELSE "uncache"
             new == [q EXCEPT !.pc = pc]
  <1>1. q \in BusyType /\ q # Idle /\ q.pc = "write" /\ p \in Products
    BY Busy DEF WriteProduct, Inv, TypeOK, Idle
  <1>2. IF q.kind = "create" THEN CreatesOf(q) ELSE UpdatesOf(q)
    BY <1>1 DEF Inv, Carried
  <1>3. /\ new \in ReqType /\ new # Idle /\ new.id = p /\ new.kind = q.kind
        /\ new.pc = pc /\ new.sent = q.sent /\ new.detail = q.detail
        /\ new.entity = q.entity /\ new.written = q.written
    BY <1>1 DEF ReqType, BusyType, Idle
  <1>4. req' = [req EXCEPT ![r] = new] /\ UNCHANGED <<rows, details, docs, filling, calm, stale>>
    BY DEF WriteProduct, Goto, history
  <1> HIDE DEF new
  <1>5. IF new.kind = "create" THEN CreatesOf(new) ELSE UpdatesOf(new)
    BY <1>1, <1>2, <1>3 DEF CreatesOf, UpdatesOf
  <1>6. p \in calm => /\ StoresOf(new, rows[new.id], details[new.id])
                      /\ ShowsTo(new, rows[new.id], docs[new.id])
    BY <1>1, <1>2, <1>3, CalmWriter DEF StoresOf, ShowsTo, CreatesOf
  <1> QED BY <1>1, <1>3, <1>4, <1>5, <1>6, LocalInv

\* A request touches the document of its product only.
LEMMA DocInv ==
    ASSUME Inv, NEW r \in Requests, req[r] # Idle,
           NEW new \in ReqType, new # Idle, req' = [req EXCEPT ![r] = new],
           new.id = req[r].id, NEW doc \in Row \cup {None},
           docs' = [docs EXCEPT ![new.id] = doc],
           IF new.kind = "create" THEN CreatesOf(new) ELSE UpdatesOf(new),
           req[r].id \in calm => /\ StoresOf(new, rows[new.id], details[new.id])
                                 /\ ShowsTo(new, rows[new.id], doc)
                                 /\ doc # None \/ new.pc = "cache",
           UNCHANGED <<rows, details, filling, calm, stale>>
    PROVE  Inv'
  <1>1. /\ req'[r] = new /\ \A s \in Requests : s # r => req'[s] = req[s]
        /\ new.id \in Products /\ docs'[new.id] = doc
        /\ \A p \in Products : p # new.id => docs'[p] = docs[p]
    BY Busy DEF Inv, TypeOK
  <1>2. TypeOK' /\ DetailsExist' /\ Loaded'
    BY DEF Inv, TypeOK, DetailsExist, Loaded
  <1>3. Carried'
    BY <1>1 DEF Inv, Carried, CreatesOf, UpdatesOf
  <1>4. \A p : Writers(p)' = Writers(p)
    BY SameWriters DEF Inv
  <1>5. ASSUME NEW p \in calm PROVE Orderly(p)'
    <2>1. p \in Products /\ Orderly(p)
      BY DEF Inv, TypeOK
    <2>2. CASE p # new.id
      <3>1. \A s \in Writers(p) : req'[s] = req[s]
        BY <1>1, <2>2 DEF Writers
      <3> QED BY <1>1, <1>4, <2>1, <2>2, <3>1, OrderlyStays DEF Inv
    <2>3. CASE p = new.id
      <3>1. r \in Writers(p) /\ \A s \in Writers(p) : s = r
        BY <2>1, <2>3 DEF Orderly, Alone, Writers
      <3>2. Alone(p)' /\ Agrees(p)'
        BY <1>4, <2>1 DEF Orderly, Alone, Agrees
      <3>3. Stores(p)'
        BY <1>1, <1>4, <2>3, <3>1 DEF Stores
      <3>4. Shows(p)'
        BY <1>1, <1>4, <2>1, <2>3, <3>1 DEF Orderly, Shows
      <3>5. Awaited(p)'
        BY <1>1, <1>4, <2>1, <2>3, <3>1 DEF Orderly, Awaited
      <3> QED BY <3>2, <3>3, <3>4, <3>5 DEF Orderly
    <2> QED BY <2>2, <2>3
  <1> QED BY <1>2, <1>3, <1>5 DEF Inv

LEMMA DeleteDocInv ==
    ASSUME Inv, NEW r \in Requests, DeleteDoc(r)
    PROVE  Inv'
  <1> DEFINE q == req[r]
             p == req[r].id
             new == [q EXCEPT !.pc = "cache"]
  <1>1. q \in BusyType /\ q # Idle /\ q.pc = "uncache" /\ p \in Products
    BY Busy DEF DeleteDoc, Inv, TypeOK, Idle
  <1>2. UpdatesOf(q) /\ q.kind = "update"
    BY <1>1 DEF Inv, Carried, CreatesOf, BusyType
  <1>3. /\ new \in ReqType /\ new # Idle /\ new.id = p /\ new.kind = "update"
        /\ new.pc = "cache" /\ new.sent = q.sent /\ new.detail = q.detail
        /\ new.entity = q.entity /\ new.written = q.written
    BY <1>1, <1>2 DEF ReqType, BusyType, Idle
  <1>4. /\ req' = [req EXCEPT ![r] = new] /\ docs' = [docs EXCEPT ![p] = None]
        /\ UNCHANGED <<rows, details, filling, calm, stale>>
    BY DEF DeleteDoc, Goto, history
  <1> HIDE DEF new
  <1>5. UpdatesOf(new)
    BY <1>1, <1>2, <1>3 DEF UpdatesOf
  <1>6. p \in calm => /\ StoresOf(new, rows[new.id], details[new.id])
                      /\ ShowsTo(new, rows[new.id], None)
    BY <1>1, <1>2, <1>3, CalmWriter DEF StoresOf, ShowsTo
  <1> QED BY <1>1, <1>3, <1>4, <1>5, <1>6, DocInv

LEMMA SetDocInv ==
    ASSUME Inv, NEW r \in Requests, SetDoc(r)
    PROVE  Inv'
  <1> DEFINE q == req[r]
             p == req[r].id
             new == [q EXCEPT !.pc = "commit", !.entity = None]
  <1>1. /\ q \in BusyType /\ q # Idle /\ q.pc = "cache" /\ p \in Products
        /\ rows[p] \in Row \cup {None}
    BY Busy DEF SetDoc, Inv, TypeOK, Idle
  <1>2. IF q.kind = "create" THEN CreatesOf(q) ELSE UpdatesOf(q)
    BY <1>1 DEF Inv, Carried
  <1>3. /\ new \in ReqType /\ new # Idle /\ new.id = p /\ new.kind = q.kind
        /\ new.pc = "commit" /\ new.sent = q.sent /\ new.detail = q.detail
        /\ new.written = q.written
    BY <1>1 DEF ReqType, BusyType, Idle
  <1>4. /\ req' = [req EXCEPT ![r] = new] /\ docs' = [docs EXCEPT ![p] = q.entity]
        /\ UNCHANGED <<rows, details, filling, calm, stale>>
    BY DEF SetDoc, history
  <1> HIDE DEF new
  <1>5. IF new.kind = "create" THEN CreatesOf(new) ELSE UpdatesOf(new)
    BY <1>1, <1>2, <1>3 DEF CreatesOf, UpdatesOf
  <1>6. q.entity \in Row
    BY <1>1, <1>2 DEF CreatesOf, UpdatesOf
  <1>7. q.kind \in {"create", "update"}
    BY <1>1 DEF BusyType
  <1>8. p \in calm => q.entity = Merge(rows[p], q.written)
    <2>1. CASE q.kind = "create"
      <3>1. q.sent \in Row /\ q.written = q.sent /\ q.entity = q.sent
        BY <1>1, <1>2, <2>1 DEF CreatesOf
      <3> QED BY <3>1, MergeWhole
    <2>2. CASE q.kind = "update"
      BY <1>1, <2>2, CalmWriter DEF StoresOf
    <2> QED BY <1>7, <2>1, <2>2
  <1>9. p \in calm => /\ StoresOf(new, rows[new.id], details[new.id])
                      /\ ShowsTo(new, rows[new.id], q.entity)
    BY <1>1, <1>3, <1>8, CalmWriter DEF StoresOf, ShowsTo
  <1> QED BY <1>1, <1>3, <1>4, <1>5, <1>6, <1>9, DocInv

\* A request ends and is no writer any more.
LEMMA WritersAfter ==
    ASSUME TypeOK, NEW r \in Requests, req[r] # Idle, req' = [req EXCEPT ![r] = Idle]
    PROVE  req'[r] = Idle /\ \A s \in Requests : s # r => req'[s] = req[s]
  BY DEF TypeOK

\* What COMMIT stores: a whole product, and with a detail row both parts or none.
LEMMA CommitStores ==
    ASSUME Inv, NEW r \in Requests, Commit(r)
    PROVE  LET p == req[r].id
           IN  /\ rows'[p] = Merge(rows[p], req[r].written) /\ rows'[p] \in Row
               /\ details'[p] \in Detail
               /\ details'[p] = IF req[r].detail = None THEN details[p]
                                ELSE [table |-> req[r].table, attributes |-> req[r].detail]
               /\ \A x \in Products : x # p => rows'[x] = rows[x] /\ details'[x] = details[x]
               /\ rows' \in [Products -> Row \cup {None}]
               /\ details' \in [Products -> Detail \cup {None}]
  <1> DEFINE q == req[r]
             p == req[r].id
             detail == IF q.detail = None THEN details[p]
                       ELSE [table |-> q.table, attributes |-> q.detail]
  <1>1. /\ q \in BusyType /\ q # Idle /\ q.pc = "commit" /\ p \in Products
        /\ q.written \in Change
        /\ rows[p] \in Row \cup {None} /\ details[p] \in Detail \cup {None}
    BY Busy DEF Commit, Inv, TypeOK, Idle
  <1>2. IF q.kind = "create" THEN CreatesOf(q) ELSE UpdatesOf(q)
    BY <1>1 DEF Inv, Carried
  <1>3. q.detail # None => [table |-> q.table, attributes |-> q.detail] \in Detail
    BY <1>1 DEF BusyType, Detail
  <1>4. Merge(rows[p], q.written) \in Row /\ detail \in Detail
    <2>1. CASE q.kind = "create"
      <3>1. q.sent \in Row /\ q.written = q.sent /\ q.detail = q.sent.attributes
        BY <1>1, <1>2, <2>1 DEF CreatesOf
      <3>2. q.detail # None
        BY <3>1 DEF Row
      <3> QED BY <1>3, <3>1, <3>2, MergeWhole
    <2>2. CASE q.kind # "create"
      <3>1. rows[p] \in Row /\ details[p] # None
        BY <1>1, <1>2, <2>2 DEF UpdatesOf, Inv, DetailsExist
      <3> QED BY <1>1, <1>3, <3>1, MergeType
    <2> QED BY <2>1, <2>2
  <1>5. rows' = [rows EXCEPT ![p] = Merge(rows[p], q.written)]
    BY DEF Commit
  <1>6. details' = [details EXCEPT ![p] = detail]
    BY <1>1 DEF Commit, Inv, TypeOK
  <1>7. rows \in [Products -> Row \cup {None}] /\ details \in [Products -> Detail \cup {None}]
    BY DEF Inv, TypeOK
  <1> HIDE DEF detail
  <1>8. rows' \in [Products -> Row \cup {None}] /\ details' \in [Products -> Detail \cup {None}]
    BY <1>1, <1>4, <1>5, <1>6, <1>7
  <1>9. /\ rows'[p] = Merge(rows[p], q.written) /\ details'[p] = detail
        /\ \A x \in Products : x # p => rows'[x] = rows[x] /\ details'[x] = details[x]
    BY <1>1, <1>5, <1>6, <1>7
  <1> QED BY <1>4, <1>8, <1>9 DEF detail

\* What COMMIT makes of a calm product.
LEMMA CommitOrderly ==
    ASSUME Inv, NEW r \in Requests, Commit(r), NEW p \in calm, p = req[r].id
    PROVE  Orderly(p)'
  <1> DEFINE q == req[r]
  <1>1. /\ q \in BusyType /\ q # Idle /\ q.pc = "commit" /\ p \in Products
        /\ rows[p] \in Row \cup {None} /\ details[p] \in Detail \cup {None} /\ q.sent \in Sent
        /\ req' = [req EXCEPT ![r] = Idle] /\ UNCHANGED <<docs, filling, calm>>
    BY Busy DEF Commit, Inv, TypeOK, Idle
  <1>2. /\ Orderly(p) /\ StoresOf(q, rows[p], details[p]) /\ ShowsTo(q, rows[p], docs[p])
        /\ \A s \in Writers(p) : s = r
        /\ \A f \in Fillings : filling[f].todo[p] = None
    BY <1>1, CalmWriter
  <1>3. Writers(p)' = {}
    <2>1. req'[r] = Idle /\ \A s \in Requests : s # r => req'[s] = req[s]
      BY <1>1, WritersAfter DEF Inv
    <2>2. ASSUME NEW s \in Requests, req'[s] # Idle, req'[s].id = p PROVE FALSE
      BY <1>2, <2>1, <2>2 DEF Writers
    <2> QED BY <2>2 DEF Writers
  <1>4. /\ rows'[p] = Merge(rows[p], q.written) /\ rows'[p] \in Row
        /\ details'[p] = IF q.detail = None THEN details[p]
                         ELSE [table |-> q.table, attributes |-> q.detail]
    BY CommitStores
  <1>5. Alone(p)' /\ Stores(p)'
    BY <1>1, <1>2, <1>3 DEF Alone, Stores
  <1>6. docs'[p] = rows'[p]
    BY <1>1, <1>2, <1>4 DEF ShowsTo
  <1>7. Shows(p)' /\ Awaited(p)'
    BY <1>1, <1>2, <1>3, <1>4, <1>6 DEF Shows, Awaited
  <1>8. Agrees(p)'
    <2>1. CASE q.kind = "create"
      <3>1. CreatesOf(q)
        BY <1>1, <2>1 DEF Inv, Carried
      <3>2. q.sent \in Row /\ q.written = q.sent /\ q.detail = q.sent.attributes /\ q.detail # None
        BY <1>1, <3>1 DEF CreatesOf, Row
      <3>3. rows'[p] = q.sent
        BY <1>4, <3>2, MergeWhole
      <3> QED BY <1>4, <3>2, <3>3 DEF Agrees
    <2>2. CASE q.kind = "update"
      <3>1. UpdatesOf(q)
        BY <1>1, <2>2 DEF Inv, Carried
      <3>2. rows[p] \in Row /\ details[p] \in Detail
        BY <1>1, <3>1 DEF UpdatesOf, Inv, DetailsExist
      <3>3. rows'[p] = Merge(rows[p], q.sent)
        BY <1>1, <1>2, <1>4, <2>2 DEF StoresOf
      <3>4. rows'[p].attributes = IF q.sent.attributes = None THEN rows[p].attributes
                                  ELSE q.sent.attributes
        BY <1>1, <3>2, <3>3, MergeParts DEF Parts
      <3>5. q.detail = IF details[p].table = "electronics" THEN q.sent.attributes ELSE None
        BY <1>1, <1>2, <2>2, <3>2 DEF StoresOf
      <3>6. p \notin stale => details[p].attributes = rows[p].attributes
        BY <1>2, <3>2 DEF Orderly, Agrees
      <3>7. CASE details[p].table = "electronics"
        <4>1. p \notin stale' => p \notin stale
          BY <3>7 DEF Commit
        <4> QED BY <1>4, <3>4, <3>5, <3>6, <3>7, <4>1 DEF Agrees
      <3>8. CASE details[p].table = "clothing"
        <4>1. p \notin stale' => p \notin stale /\ q.written.attributes = None
          BY <2>2, <3>8 DEF Commit
        <4>2. q.written.attributes = None => rows'[p].attributes = rows[p].attributes
          BY <1>4, MergeParts DEF Parts
        <4>3. details'[p] = details[p]
          BY <1>4, <3>5, <3>8
        <4> QED BY <3>6, <4>1, <4>2, <4>3 DEF Agrees
      <3> QED BY <3>2, <3>7, <3>8 DEF Detail
    <2> QED BY <1>1, <2>1, <2>2 DEF BusyType
  <1> QED BY <1>5, <1>7, <1>8 DEF Orderly

LEMMA CommitInv ==
    ASSUME Inv, NEW r \in Requests, Commit(r)
    PROVE  Inv'
  <1> DEFINE p == req[r].id
  <1>1. /\ req[r] # Idle /\ p \in Products /\ req' = [req EXCEPT ![r] = Idle]
        /\ UNCHANGED <<docs, filling, calm>>
    BY Busy DEF Commit, Inv, TypeOK, Idle
  <1>2. /\ rows'[p] # None /\ details'[p] # None
        /\ \A x \in Products : x # p => rows'[x] = rows[x] /\ details'[x] = details[x]
        /\ rows' \in [Products -> Row \cup {None}] /\ details' \in [Products -> Detail \cup {None}]
    BY CommitStores
  <1>3. /\ stale' \subseteq Products
        /\ \A x \in Products : x # p => (x \in stale' <=> x \in stale)
    BY <1>1 DEF Commit, Inv, TypeOK
  <1>8. TypeOK' /\ Loaded'
    BY <1>1, <1>2, <1>3, BusyIsReq DEF Inv, TypeOK, Loaded
  <1>4. DetailsExist'
    BY <1>2 DEF Inv, DetailsExist
  <1>5. req'[r] = Idle /\ \A s \in Requests : s # r => req'[s] = req[s]
    BY <1>1, WritersAfter DEF Inv
  <1>6. Carried'
    <2> SUFFICES ASSUME NEW s \in Requests, req'[s] # Idle
                 PROVE  (IF req[s].kind = "create" THEN CreatesOf(req[s])
                         ELSE UpdatesOf(req[s]))'
      BY DEF Carried
    <2>1. s # r /\ req'[s] = req[s] /\ req[s].id \in Products
      BY <1>5, Busy DEF Inv, TypeOK
    <2>2. rows[req[s].id] # None => rows'[req[s].id] # None
      BY <1>2, <2>1
    <2> QED BY <2>1, <2>2 DEF Inv, Carried, CreatesOf, UpdatesOf
  <1>7. ASSUME NEW x \in calm' PROVE Orderly(x)'
    <2>1. x \in calm /\ x \in Products /\ Orderly(x)
      BY <1>1, <1>7 DEF Inv, TypeOK
    <2>2. CASE x = p
      BY <2>1, <2>2, CommitOrderly
    <2>3. CASE x # p
      <3>1. r \notin Writers(x) /\ Writers(x)' = Writers(x)
        BY <1>1, <2>3, WritersAfter DEF Inv, Writers
      <3>2. \A s \in Writers(x) : req'[s] = req[s]
        BY <1>5, <3>1 DEF Writers
      <3> QED BY <1>1, <1>2, <1>3, <2>1, <2>3, <3>1, <3>2, OrderlyStays DEF Inv
    <2> QED BY <2>2, <2>3
  <1> QED BY <1>4, <1>6, <1>7, <1>8 DEF Inv

\* A rollback leaves a product calm only when nothing was done to its document.
LEMMA RollbackInv ==
    ASSUME Inv, NEW r \in Requests, req[r] # Idle, Rollback(r)
    PROVE  Inv'
  <1> DEFINE p == req[r].id
  <1>1. /\ req' = [req EXCEPT ![r] = Idle] /\ UNCHANGED <<rows, details, docs, filling, stale>>
        /\ calm' \subseteq calm
        /\ p \in calm' => req[r].pc \notin {"uncache", "cache", "commit"}
    BY DEF Rollback
  <1>2. req'[r] = Idle /\ \A s \in Requests : s # r => req'[s] = req[s]
    BY <1>1, WritersAfter DEF Inv
  <1>3. TypeOK' /\ DetailsExist' /\ Loaded'
    BY <1>1, BusyIsReq DEF Inv, TypeOK, DetailsExist, Loaded
  <1>4. Carried'
    BY <1>1, <1>2 DEF Inv, Carried, CreatesOf, UpdatesOf
  <1>5. ASSUME NEW x \in calm' PROVE Orderly(x)'
    <2>1. x \in calm /\ x \in Products /\ Orderly(x)
      BY <1>1, <1>5 DEF Inv, TypeOK
    <2>2. CASE x = p
      <3>1. /\ ShowsTo(req[r], rows[x], docs[x]) /\ \A s \in Writers(x) : s = r
            /\ r \in Writers(x)
        BY <2>1, <2>2, CalmWriter
      <3>2. Writers(x)' = {}
        BY <1>2, <3>1 DEF Writers
      <3>3. docs[x] \in {None, rows[x]} /\ req[r].pc # "cache"
        BY <1>1, <1>5, <2>2, <3>1 DEF ShowsTo
      <3>4. Alone(x)' /\ Stores(x)' /\ Agrees(x)'
        BY <1>1, <2>1, <2>2, <3>2 DEF Orderly, Alone, Stores, Agrees
      <3>5. Shows(x)'
        BY <1>1, <2>1, <2>2, <3>2, <3>3 DEF Orderly, Shows
      <3>6. Awaited(x)'
        BY <1>1, <2>1, <2>2, <3>1, <3>3 DEF Orderly, Awaited
      <3> QED BY <2>2, <3>4, <3>5, <3>6 DEF Orderly
    <2>3. CASE x # p
      <3>1. r \notin Writers(x) /\ Writers(x)' = Writers(x)
        BY <1>1, <2>3, WritersAfter DEF Inv, Writers
      <3>2. \A s \in Writers(x) : req'[s] = req[s]
        BY <1>2, <3>1 DEF Writers
      <3> QED BY <1>1, <2>1, <3>1, <3>2, OrderlyStays DEF Inv
    <2> QED BY <2>2, <2>3
  <1> QED BY <1>3, <1>4, <1>5 DEF Inv

\* A request begins: what it meets on its product costs the product its calm.
LEMMA BeginInv ==
    ASSUME Inv, NEW r \in Requests, NEW pc \in {"readDoc", "detail"},
           NEW kind \in {"create", "update"}, NEW p \in Products,
           NEW table \in {"electronics", "clothing"}, NEW sent \in Sent,
           kind = "create" => pc = "detail" /\ sent \in Row /\ rows[p] = None,
           kind = "update" => pc = "readDoc",
           Begin(r, pc, kind, p, table, sent)
    PROVE  Inv'
  <1> DEFINE new == [pc |-> pc, kind |-> kind, id |-> p, table |-> table, sent |-> sent,
                     detail |-> None, written |-> Nothing,
                     entity |-> IF kind = "create" THEN sent ELSE None]
  <1>1. Nothing \in Change
    BY DEF Nothing, Change, Parts
  <1>2. /\ new \in ReqType /\ new # Idle /\ new.id = p /\ new.kind = kind /\ new.pc = pc
        /\ new.sent = sent /\ new.detail = None
        /\ new.entity = IF kind = "create" THEN sent ELSE None
    BY <1>1 DEF ReqType, Idle
  <1>3. /\ req[r] = Idle /\ req' = [req EXCEPT ![r] = new]
        /\ calm' \subseteq calm /\ UNCHANGED <<rows, details, docs, filling, stale>>
        /\ p \in calm' => Writers(p) = {} /\ \A f \in Fillings : filling[f].todo[p] = None
    BY DEF Begin
  <1> HIDE DEF new
  <1>4. req'[r] = new /\ \A s \in Requests : s # r => req'[s] = req[s]
    BY <1>3 DEF Inv, TypeOK
  <1>5. TypeOK' /\ DetailsExist' /\ Loaded'
    BY <1>2, <1>3 DEF Inv, TypeOK, DetailsExist, Loaded
  <1>6. IF new.kind = "create" THEN CreatesOf(new) ELSE UpdatesOf(new)
    BY <1>2 DEF CreatesOf, UpdatesOf
  <1>7. Carried'
    BY <1>3, <1>4, <1>6 DEF Inv, Carried, CreatesOf, UpdatesOf
  <1>8. ASSUME NEW x \in calm' PROVE Orderly(x)'
    <2>1. x \in calm /\ x \in Products /\ Orderly(x)
      BY <1>3, <1>8 DEF Inv, TypeOK
    <2>2. CASE x = p
      <3>1. Writers(x) = {} /\ \A f \in Fillings : filling[f].todo[x] = None
        BY <1>3, <1>8, <2>2
      <3>2. Writers(x)' = {r}
        BY <1>2, <1>4, <2>2, <3>1 DEF Writers
      <3>3. Alone(x)' /\ Agrees(x)'
        BY <1>3, <2>1, <3>1, <3>2 DEF Orderly, Alone, Agrees
      <3>4. StoresOf(new, rows[x], details[x]) /\ ShowsTo(new, rows[x], docs[x])
        BY <1>2, <2>1, <2>2, <3>1 DEF StoresOf, ShowsTo, Orderly, Shows
      <3>5. Stores(x)' /\ Shows(x)'
        BY <1>3, <1>4, <2>1, <3>2, <3>4 DEF Stores, Orderly, Shows
      <3>6. Awaited(x)'
        BY <1>3, <2>1, <3>1 DEF Orderly, Awaited
      <3> QED BY <3>3, <3>5, <3>6 DEF Orderly
    <2>3. CASE x # p
      <3>1. r \notin Writers(x) /\ Writers(x)' = Writers(x)
        BY <1>2, <1>3, <1>4, <2>3 DEF Writers
      <3>2. \A s \in Writers(x) : req'[s] = req[s]
        BY <1>4, <3>1 DEF Writers
      <3> QED BY <1>3, <2>1, <3>1, <3>2, OrderlyStays DEF Inv
    <2> QED BY <2>2, <2>3
  <1> QED BY <1>5, <1>7, <1>8 DEF Inv

LEMMA StartInv ==
    ASSUME Inv, NEW r \in Requests, Start(r)
    PROVE  Inv'
  <1>1. ASSUME NEW p \in Products, NEW table \in {"electronics", "clothing"}, NEW row \in Row,
               StartCreate(r, p, table, row)
        PROVE  Inv'
    <2>1. row \in Sent
      BY DEF Row, Sent
    <2> QED BY <1>1, <2>1, BeginInv DEF StartCreate
  <1>2. ASSUME NEW p \in Products, NEW sent \in Sent, StartUpdate(r, p, sent)
        PROVE  Inv'
    BY <1>2, BeginInv DEF StartUpdate
  <1> QED BY <1>1, <1>2 DEF Start

-----------------------------------------------------------------------------
(* The steps of fillings.                                                  *)

\* A filling that is not under way, and one that begins, hold no rows.
LEMMA NoFillingType ==
    /\ NoFilling \in FillingType /\ NoFilling.pc = "idle"
    /\ \A p \in Products : NoFilling.todo[p] = None
  BY DEF NoFilling, FillingType

LEMMA ScanningType ==
    /\ Scanning \in FillingType /\ Scanning.pc = "scan"
    /\ \A p \in Products : Scanning.todo[p] = None
  <1>1. /\ Scanning \in FillingType /\ Scanning.pc = "scan"
        /\ Scanning.todo = NoFilling.todo
    BY DEF Scanning, NoFilling, FillingType
  <1> QED BY <1>1, NoFillingType

\* A filling that holds no rows moves on, with none.
LEMMA FilterProductsInv ==
    ASSUME Inv, NEW f \in Fillings, FilterProducts(f)
    PROVE  Inv'
  <1>1. /\ filling[f] \in FillingType /\ filling[f].pc = "idle"
        /\ \A p \in Products : filling[f].todo[p] = None
    BY DEF FilterProducts, Inv, TypeOK, Loaded
  <1>2. /\ filling'[f].pc = "scan" /\ filling'[f].todo = filling[f].todo
        /\ \A g \in Fillings : g # f => filling'[g] = filling[g]
        /\ filling' \in [Fillings -> FillingType]
        /\ UNCHANGED <<rows, details, docs, req, calm, stale>>
    <2>1. filling' = [filling EXCEPT ![f] = Scanning]
      BY DEF FilterProducts
    <2>2. \A p \in Products : filling[f].todo[p] = Scanning.todo[p]
      BY <1>1, ScanningType
    <2>3. filling[f].todo \in [Products -> Row \cup {None}]
      BY <1>1 DEF FillingType
    <2>4. filling[f].todo = Scanning.todo
      BY <2>2, <2>3, ScanningType DEF FillingType
    <2> QED BY <2>1, <2>4, ScanningType DEF FilterProducts, history, Inv, TypeOK
  <1>3. TypeOK' /\ DetailsExist' /\ Carried' /\ Loaded'
    BY <1>1, <1>2 DEF Inv, TypeOK, DetailsExist, Carried, CreatesOf, UpdatesOf, Loaded
  <1>4. ASSUME NEW p \in calm' PROVE Orderly(p)'
    <2>1. p \in Products /\ Orderly(p) /\ Writers(p)' = Writers(p)
      BY <1>2, <1>4 DEF Inv, TypeOK, Writers
    <2> QED BY <1>2, <2>1, OrderlyStays DEF Inv
  <1> QED BY <1>3, <1>4 DEF Inv

\* A scan that finds no key goes on, to load the products in the end.
LEMMA ScanDocsGoesOn ==
    ASSUME Inv, NEW f \in Fillings, NEW filling_f \in FillingType,
           filling_f.pc \in {"scan", "load"}, \A p \in Products : filling_f.todo[p] = None,
           filling[f].pc = "scan", filling' = [filling EXCEPT ![f] = filling_f],
           UNCHANGED <<rows, details, docs, req, calm, stale>>
    PROVE  Inv'
  <1>1. /\ \A p \in Products : filling[f].todo[p] = None
        /\ filling' \in [Fillings -> FillingType] /\ filling'[f] = filling_f
        /\ \A g \in Fillings : g # f => filling'[g] = filling[g]
    BY DEF Inv, TypeOK, Loaded
  <1>2. TypeOK' /\ DetailsExist' /\ Carried' /\ Loaded'
    BY <1>1 DEF Inv, TypeOK, DetailsExist, Carried, CreatesOf, UpdatesOf, Loaded
  <1>3. ASSUME NEW p \in calm' PROVE Orderly(p)'
    <2>1. p \in Products /\ Orderly(p) /\ Writers(p)' = Writers(p)
      BY <1>3 DEF Inv, TypeOK, Writers
    <2>2. \A g \in Fillings : filling'[g].todo[p] = filling[g].todo[p]
      BY <1>1, <2>1
    <2>3. filling'[f].pc \in {"scan", "load"}
      BY <1>1
    <2> QED BY <2>1, <2>2, <2>3, OrderlyStays DEF Inv
  <1> QED BY <1>2, <1>3 DEF Inv

\* One that finds a key is over, and the products it ignores lose their calm.
LEMMA ScanDocsEnds ==
    ASSUME Inv, NEW f \in Fillings, filling[f].pc = "scan",
           filling' = [filling EXCEPT ![f] = NoFilling],
           calm' = calm \ {p \in Products \ Found : rows[p] # None},
           UNCHANGED <<rows, details, docs, req, stale>>
    PROVE  Inv'
  <1>1. /\ \A p \in Products : filling[f].todo[p] = None
        /\ filling' \in [Fillings -> FillingType] /\ filling'[f] = NoFilling
        /\ \A g \in Fillings : g # f => filling'[g] = filling[g]
    BY NoFillingType DEF Inv, TypeOK, Loaded
  <1>2. TypeOK' /\ DetailsExist' /\ Carried' /\ Loaded'
    BY <1>1, NoFillingType
    DEF Inv, TypeOK, DetailsExist, Carried, CreatesOf, UpdatesOf, Loaded
  <1>3. ASSUME NEW p \in calm' PROVE Orderly(p)'
    <2>1. p \in Products /\ Orderly(p) /\ Writers(p)' = Writers(p)
      BY <1>3 DEF Inv, TypeOK, Writers
    <2>2. \A g \in Fillings : filling'[g].todo[p] = filling[g].todo[p]
      BY <1>1, <2>1, NoFillingType
    <2>3. docs[p] # None \/ rows[p] = None
      BY <1>3, <2>1 DEF Found
    <2>4. Alone(p)' /\ Stores(p)' /\ Agrees(p)' /\ Shows(p)'
      BY <2>1, <2>2 DEF Orderly, Alone, Stores, Agrees, Shows
    <2>5. Awaited(p)'
      BY <2>3 DEF Awaited
    <2> QED BY <2>4, <2>5 DEF Orderly
  <1> QED BY <1>2, <1>3 DEF Inv

LEMMA ScanDocsInv ==
    ASSUME Inv, NEW f \in Fillings, ScanDocs(f)
    PROVE  Inv'
  <1>1. /\ filling[f] \in FillingType /\ filling[f].pc = "scan"
        /\ \A p \in Products : filling[f].todo[p] = None
        /\ UNCHANGED <<rows, details, docs, req, stale>>
    BY DEF ScanDocs, Inv, TypeOK, Loaded
  <1>2. CASE filling' = [filling EXCEPT ![f].pc = "load"] /\ UNCHANGED calm
    <2> DEFINE F == [filling[f] EXCEPT !.pc = "load"]
    <2>1. F \in FillingType /\ F.pc = "load" /\ F.todo = filling[f].todo
      BY <1>1 DEF FillingType
    <2>2. filling' = [filling EXCEPT ![f] = F]
      BY <1>2
    <2>3. F.pc \in {"scan", "load"} /\ \A x \in Products : F.todo[x] = None
      BY <1>1, <2>1
    <2> HIDE DEF F
    <2> QED BY <1>1, <1>2, <2>1, <2>2, <2>3, ScanDocsGoesOn
  <1>3. ASSUME NEW p \in filling[f].left, UNCHANGED calm,
               filling' = [filling EXCEPT ![f].left = @ \ {p}]
        PROVE  Inv'
    <2> DEFINE F == [filling[f] EXCEPT !.left = filling[f].left \ {p}]
    <2>1. F \in FillingType /\ F.pc = "scan" /\ F.todo = filling[f].todo
      BY <1>1 DEF FillingType
    <2>2. filling' = [filling EXCEPT ![f] = F]
      BY <1>3
    <2>3. F.pc \in {"scan", "load"} /\ \A x \in Products : F.todo[x] = None
      BY <1>1, <2>1
    <2> HIDE DEF F
    <2> QED BY <1>1, <1>3, <2>1, <2>2, <2>3, ScanDocsGoesOn
  <1>4. CASE /\ filling' = [filling EXCEPT ![f] = NoFilling]
             /\ calm' = calm \ {p \in Products \ Found : rows[p] # None}
    BY <1>1, <1>4, ScanDocsEnds
  <1> QED BY <1>2, <1>3, <1>4 DEF ScanDocs

LEMMA LoadProductsInv ==
    ASSUME Inv, NEW f \in Fillings, LoadProducts(f)
    PROVE  Inv'
  <1>1. /\ filling[f].pc = "load" /\ UNCHANGED <<rows, details, docs, req, stale>>
        /\ calm' \subseteq calm
    BY DEF LoadProducts
  <1>2. /\ filling' \in [Fillings -> FillingType]
        /\ filling'[f].pc = "fill" /\ filling'[f].todo = rows
        /\ \A g \in Fillings : g # f => filling'[g] = filling[g]
    <2> DEFINE new == [filling[f] EXCEPT !.pc = "fill", !.todo = rows]
    <2>1. filling[f] \in FillingType /\ rows \in [Products -> Row \cup {None}]
      BY DEF Inv, TypeOK
    <2>2. new \in FillingType /\ new.pc = "fill" /\ new.todo = rows
      BY <2>1 DEF FillingType
    <2>3. filling' = [filling EXCEPT ![f] = new]
      BY DEF LoadProducts
    <2> HIDE DEF new
    <2> QED BY <2>2, <2>3 DEF Inv, TypeOK
  <1>3. TypeOK' /\ DetailsExist' /\ Carried' /\ Loaded'
    BY <1>1, <1>2 DEF Inv, TypeOK, DetailsExist, Carried, CreatesOf, UpdatesOf, Loaded
  <1>4. ASSUME NEW p \in calm' PROVE Orderly(p)'
    <2>1. p \in calm /\ p \in Products /\ Orderly(p) /\ Writers(p)' = Writers(p)
      BY <1>1, <1>4 DEF Inv, TypeOK, Writers
    <2>2. rows[p] # None => Writers(p) = {} /\ \A g \in Fillings : filling[g].todo[p] = None
      BY <1>4, <2>1 DEF LoadProducts
    <2>3. /\ filling'[f].todo[p] = rows[p]
          /\ \A g \in Fillings : g # f => filling'[g].todo[p] = filling[g].todo[p]
      BY <1>2
    <2>4. Alone(p)'
      BY <2>1, <2>2, <2>3 DEF Orderly, Alone, Shows
    <2>5. Stores(p)' /\ Agrees(p)'
      BY <1>1, <2>1 DEF Orderly, Stores, Agrees
    <2>6. Shows(p)'
      BY <1>1, <2>1, <2>3 DEF Orderly, Shows
    <2>7. Awaited(p)'
      BY <1>1, <2>3 DEF Awaited
    <2> QED BY <2>4, <2>5, <2>6, <2>7 DEF Orderly
  <1> QED BY <1>3, <1>4 DEF Inv

\* The row of a calm product is still what was loaded when it is put into the cache.
LEMMA FillDocInv ==
    ASSUME Inv, NEW f \in Fillings, FillDoc(f)
    PROVE  Inv'
  <1>1. /\ filling[f] \in FillingType /\ filling[f].pc = "fill"
        /\ UNCHANGED <<rows, details, req, calm, stale>>
    BY DEF FillDoc, history, Inv, TypeOK
  <1>2. CASE /\ \A p \in Products : filling[f].todo[p] = None
             /\ filling' = [filling EXCEPT ![f] = NoFilling] /\ docs' = docs
    <2>1. NoFilling \in FillingType /\ \A p \in Products : NoFilling.todo[p] = None
      BY NoFillingType
    <2>2. /\ filling' \in [Fillings -> FillingType]
          /\ \A p \in Products : filling'[f].todo[p] = None
          /\ \A g \in Fillings : g # f => filling'[g] = filling[g]
      BY <1>2, <2>1 DEF Inv, TypeOK
    <2>3. TypeOK' /\ DetailsExist' /\ Carried' /\ Loaded'
      BY <1>1, <1>2, <2>2 DEF Inv, TypeOK, DetailsExist, Carried, CreatesOf, UpdatesOf, Loaded
    <2>4. ASSUME NEW p \in calm' PROVE Orderly(p)'
      <3>1. p \in Products /\ Orderly(p) /\ Writers(p)' = Writers(p)
        BY <1>1, <2>4 DEF Inv, TypeOK, Writers
      <3>2. \A g \in Fillings : filling'[g].todo[p] = filling[g].todo[p]
        BY <1>2, <2>2, <3>1
      <3>3. \A g \in Fillings : filling[g].pc \in {"scan", "load"} => filling'[g] = filling[g]
        BY <1>1, <2>2
      <3> QED BY <1>1, <1>2, <3>1, <3>2, <3>3, OrderlyStays DEF Inv
    <2> QED BY <2>3, <2>4 DEF Inv
  <1>3. ASSUME NEW p \in Products, filling[f].todo[p] # None,
               docs' = [docs EXCEPT ![p] = filling[f].todo[p]],
               filling' = [filling EXCEPT ![f].todo[p] = None]
        PROVE  Inv'
    <2>1. /\ filling[f].todo \in [Products -> Row \cup {None}] /\ filling[f].todo[p] \in Row
      BY <1>1, <1>3 DEF FillingType
    <2>2. /\ filling'[f] = [pc |-> "fill", left |-> filling[f].left,
                            todo |-> [filling[f].todo EXCEPT ![p] = None]]
          /\ \A g \in Fillings : g # f => filling'[g] = filling[g]
      BY <1>1, <1>3 DEF Inv, TypeOK, FillingType
    <2>3. filling'[f] \in FillingType
      BY <1>1, <2>1, <2>2 DEF FillingType
    <2>4. /\ filling' \in [Fillings -> FillingType] /\ filling'[f].pc = "fill"
          /\ filling'[f].todo[p] = None
          /\ \A x \in Products : x # p => filling'[f].todo[x] = filling[f].todo[x]
      BY <1>3, <2>1, <2>2, <2>3 DEF Inv, TypeOK
    <2>5. /\ docs' \in [Products -> Row \cup {None}] /\ docs'[p] = filling[f].todo[p]
          /\ \A x \in Products : x # p => docs'[x] = docs[x]
      BY <1>3, <2>1 DEF Inv, TypeOK
    <2>6. TypeOK' /\ DetailsExist' /\ Carried'
      BY <1>1, <2>4, <2>5 DEF Inv, TypeOK, DetailsExist, Carried, CreatesOf, UpdatesOf
    <2>7. Loaded'
      BY <2>2, <2>4 DEF Inv, Loaded
    <2>8. ASSUME NEW x \in calm' PROVE Orderly(x)'
      <3>1. x \in Products /\ Orderly(x) /\ Writers(x)' = Writers(x)
        BY <1>1, <2>8 DEF Inv, TypeOK, Writers
      <3>2. \A g \in Fillings : filling'[g].pc = filling[g].pc
        BY <1>1, <2>2, <2>4
      <3>3. CASE x = p
        <4>1. docs'[x] = rows[x] /\ rows[x] # None /\ Writers(x) = {}
          BY <1>3, <2>5, <3>1, <3>3 DEF Orderly, Shows, Alone
        <4>2. \A g \in Fillings : filling'[g].todo[x] = None
          BY <1>3, <2>2, <2>4, <3>1, <3>3 DEF Orderly, Alone
        <4>3. Alone(x)' /\ Stores(x)' /\ Agrees(x)'
          BY <1>1, <3>1, <4>1, <4>2 DEF Orderly, Alone, Stores, Agrees
        <4>4. Shows(x)' /\ Awaited(x)'
          BY <1>1, <3>1, <4>1, <4>2 DEF Shows, Awaited
        <4> QED BY <4>3, <4>4 DEF Orderly
      <3>4. CASE x # p
        <4>1. \A g \in Fillings : filling'[g].todo[x] = filling[g].todo[x]
          BY <2>2, <2>4, <3>1, <3>4
        <4> QED BY <1>1, <2>5, <3>1, <3>2, <3>4, <4>1, OrderlyStays DEF Inv
      <3> QED BY <3>3, <3>4
    <2> QED BY <2>6, <2>7, <2>8 DEF Inv
  <1> QED BY <1>2, <1>3 DEF FillDoc

-----------------------------------------------------------------------------
(* Start and restart.                                                      *)

\* The fillings right after a start: one that scans, and holds no rows.
LEMMA OneFilling ==
    ASSUME NEW f \in Fillings
    PROVE  LET F == [g \in Fillings |-> IF g = f THEN Scanning ELSE NoFilling]
           IN  /\ F \in [Fillings -> FillingType] /\ F[f].pc = "scan"
               /\ \A g \in Fillings, p \in Products : F[g].todo[p] = None
  BY NoFillingType, ScanningType

LEMMA RestartInv ==
    ASSUME Inv, Restart
    PROVE  Inv'
  <1>1. PICK f \in Fillings :
            filling' = [g \in Fillings |-> IF g = f THEN Scanning ELSE NoFilling]
    BY DEF Restart
  <1>2. /\ filling' \in [Fillings -> FillingType] /\ filling'[f].pc = "scan"
        /\ \A g \in Fillings, p \in Products : filling'[g].todo[p] = None
    BY <1>1, OneFilling
  <1>3. /\ \A r \in Requests : req'[r] = Idle
        /\ req' \in [Requests -> ReqType] /\ calm' \subseteq calm
        /\ UNCHANGED <<rows, details, docs, stale>>
    BY BusyIsReq DEF Restart
  <1>4. TypeOK' /\ DetailsExist' /\ Carried' /\ Loaded'
    BY <1>2, <1>3 DEF Inv, TypeOK, DetailsExist, Carried, Loaded
  <1>5. ASSUME NEW p \in calm' PROVE Orderly(p)'
    <2>1. p \in Products /\ Orderly(p) /\ p \in calm
      BY <1>3, <1>5 DEF Inv, TypeOK
    <2>2. Writers(p)' = {}
      BY <1>3 DEF Writers
    <2>3. \A r \in Writers(p) : req[r].pc \notin {"cache", "commit"}
      BY <1>5, <2>1 DEF Restart
    <2>4. docs[p] \in {None, rows[p]}
      BY <2>1, <2>3 DEF Orderly, Shows, ShowsTo
    <2>5. Alone(p)' /\ Stores(p)' /\ Agrees(p)'
      BY <1>2, <1>3, <2>1, <2>2 DEF Orderly, Alone, Stores, Agrees
    <2>6. Shows(p)' /\ Awaited(p)'
      BY <1>2, <1>3, <2>1, <2>2, <2>4 DEF Shows, Awaited
    <2> QED BY <2>5, <2>6 DEF Orderly
  <1> QED BY <1>4, <1>5 DEF Inv

LEMMA InitInv == Init => Inv
  <1> SUFFICES ASSUME Init PROVE Inv
    OBVIOUS
  <1>1. PICK f \in Fillings :
            filling = [g \in Fillings |-> IF g = f THEN Scanning ELSE NoFilling]
    BY DEF Init
  <1>2. /\ filling \in [Fillings -> FillingType] /\ filling[f].pc = "scan"
        /\ \A g \in Fillings, p \in Products : filling[g].todo[p] = None
    BY <1>1, OneFilling
  <1>3. /\ \A r \in Requests : req[r] = Idle
        /\ req \in [Requests -> ReqType] /\ calm = Products /\ stale = {}
        /\ docs \in [Products -> Row \cup {None}] /\ \A p \in Products : docs[p] = None
    BY BusyIsReq DEF Init
  <1>4. TypeOK /\ DetailsExist /\ Carried /\ Loaded
    <2>1. TypeOK
      BY <1>2, <1>3 DEF Init, TypeOK
    <2>2. DetailsExist
      BY DEF Init, DetailsExist
    <2> QED BY <1>2, <1>3, <2>1, <2>2 DEF Carried, Loaded
  <1>5. ASSUME NEW p \in calm PROVE Orderly(p)
    <2>1. p \in Products /\ Writers(p) = {}
      BY <1>3, <1>5 DEF Writers
    <2>2. Agrees(p)
      BY <2>1 DEF Init, Agrees
    <2> QED BY <1>2, <1>3, <2>1, <2>2 DEF Orderly, Alone, Stores, Shows, Awaited
  <1> QED BY <1>4, <1>5 DEF Inv

LEMMA NextInv ==
    ASSUME Inv, [Next]_vars
    PROVE  Inv'
  <1>1. CASE UNCHANGED vars
    <2>1. TypeOK' /\ DetailsExist' /\ Carried' /\ Loaded'
      BY <1>1 DEF vars, history, Inv, TypeOK, DetailsExist, Carried, CreatesOf, UpdatesOf, Loaded
    <2>2. ASSUME NEW p \in calm' PROVE Orderly(p)'
      <3>1. p \in Products /\ Orderly(p) /\ Writers(p)' = Writers(p)
        BY <1>1, <2>2 DEF vars, history, Inv, TypeOK, Writers
      <3> QED BY <1>1, <3>1, OrderlyStays DEF vars, history, Inv
    <2> QED BY <2>1, <2>2 DEF Inv
  <1>2. ASSUME NEW r \in Requests, Step(r) PROVE Inv'
    <2>1. CASE Refuse(r)
      <3>1. req[r] # Idle
        BY <2>1 DEF Refuse, Idle
      <3> QED BY <2>1, <3>1, RollbackInv DEF Refuse
    <2> QED BY <1>2, <2>1, ReadDocInv, WriteDetailInv, FetchProductInv, SelectProductInv,
               WriteProductInv, DeleteDocInv, SetDocInv, CommitInv DEF Step
  <1>3. ASSUME NEW r \in Requests, Fail(r) PROVE Inv'
    BY <1>3, RollbackInv DEF Fail
  <1>4. ASSUME NEW f \in Fillings, FilterProducts(f) \/ Fill(f) PROVE Inv'
    BY <1>4, FilterProductsInv, ScanDocsInv, LoadProductsInv, FillDocInv DEF Fill
  <1> QED BY <1>1, <1>2, <1>3, <1>4, StartInv, RestartInv DEF Next

LEMMA Invariance == Spec => []Inv
  BY InitInv, NextInv, PTL DEF Spec

-----------------------------------------------------------------------------
(* The theorems.                                                           *)

\* The state of Catalog is well typed: no product is ever stored or cached in part.
THEOREM TypeCorrect == Spec => []TypeOK
  <1>1. Inv => TypeOK
    BY DEF Inv
  <1> QED BY <1>1, Invariance, PTL

\* For any number of requests, whichever of them fail and wherever the server dies, a
\* product's row and its detail row are stored together or not at all.
THEOREM RowsComeTogether == Spec => []DetailsExist
  <1>1. Inv => DetailsExist
    BY DEF Inv
  <1> QED BY <1>1, Invariance, PTL

\* The row and the detail row of a calm product have the same attributes, in either detail
\* table, until an update changes those of clothing: it writes the table of the electronics,
\* and whatever the clothing keeps in its own is out of date from then on.
THEOREM AttributesAgree == Spec => []DetailsAgree
  <1>1. Inv => DetailsAgree
    BY DEF Inv, Orderly, Agrees, DetailsAgree
  <1> QED BY <1>1, Invariance, PTL

\* However many requests and fillings there are, the cache is left without the row of no
\* calm product, and with no other.
THEOREM CacheFollows == Spec => []QuietDocsAgree
  <1>1. ASSUME Inv PROVE QuietDocsAgree
    <2> SUFFICES ASSUME Quiet, NEW p \in calm PROVE docs[p] = rows[p]
      BY DEF QuietDocsAgree
    <2>1. p \in Products /\ Shows(p) /\ Awaited(p)
      BY <1>1 DEF Inv, TypeOK, Orderly
    <2>2. Writers(p) = {} /\ \A f \in Fillings : filling[f].pc = "idle"
      BY DEF Quiet, Writers
    <2>3. \A f \in Fillings : filling[f].todo[p] = None
      BY <1>1, <2>1, <2>2 DEF Inv, Loaded
    <2> QED BY <2>1, <2>2, <2>3 DEF Shows, Awaited
  <1> QED BY <1>1, Invariance, PTL

\* Only COMMIT changes the row of a product, and it stores the row with what was sent.
LEMMA RowsChangeAsSent ==
    ASSUME Inv, Next, NEW p \in calm', rows[p] # None, rows'[p] # rows[p]
    PROVE  \E r \in Writers(p) : rows'[p] = Merge(rows[p], req[r].sent)
  <1>1. PICK r \in Requests : Commit(r)
    <2>1. ASSUME NEW r \in Requests, Start(r) \/ Fail(r) PROVE rows' = rows
      BY <2>1 DEF Start, StartCreate, StartUpdate, Begin, Fail, Rollback
    <2>2. ASSUME NEW r \in Requests, Step(r), ~Commit(r) PROVE rows' = rows
      BY <2>2 DEF Step, ReadDoc, WriteDetail, FetchProduct, SelectProduct, WriteProduct,
                  DeleteDoc, SetDoc, Refuse, Rollback
    <2>3. ASSUME NEW f1 \in Fillings, FilterProducts(f1) \/ Fill(f1) PROVE rows' = rows
      BY <2>3 DEF FilterProducts, Fill, ScanDocs, LoadProducts, FillDoc
    <2>4. Restart => rows' = rows
      BY DEF Restart
    <2> QED BY <2>1, <2>2, <2>3, <2>4 DEF Next
  <1>2. /\ req[r] \in BusyType /\ req[r] # Idle /\ req[r].pc = "commit" /\ p \in calm
        /\ p \in Products /\ req[r].sent \in Sent /\ rows[p] \in Row
    BY <1>1, Busy DEF Commit, Inv, TypeOK, Idle
  <1>3. p = req[r].id /\ rows'[p] = Merge(rows[p], req[r].written)
    BY <1>1, <1>2, CommitStores
  <1>4. r \in Writers(p) /\ StoresOf(req[r], rows[p], details[p])
    BY <1>2, <1>3, CalmWriter
  <1>5. rows'[p] = Merge(rows[p], req[r].sent)
    BY <1>2, <1>3, <1>4 DEF StoresOf, BusyType
  <1> QED BY <1>4, <1>5

\* For all values, shops and any number of requests: an update that is alone on its product
\* stores what the client sent and makes the caller the product's shop, and it writes back
\* what it read of all that was not sent.
THEOREM UpdatesAreExact == Spec => UpdatesStoreWhatWasSent
  <1> DEFINE Exact == \A p \in calm' :
                 rows[p] # None /\ rows'[p] # rows[p] =>
                     \E r \in Writers(p) : rows'[p] = Merge(rows[p], req[r].sent)
  <1>1. ASSUME Inv, Next PROVE Exact
    BY <1>1, RowsChangeAsSent
  <1>2. ASSUME Inv, [Next]_vars PROVE [Exact]_vars
    BY <1>1, <1>2
  <1>3. Spec => [][Exact]_vars
    BY <1>2, Invariance, PTL DEF Spec
  <1> QED BY <1>3 DEF UpdatesStoreWhatWasSent
=============================================================================
