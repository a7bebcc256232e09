------------------------------- MODULE Catalog ------------------------------
(***************************************************************************)
(* Products: their rows and detail rows in Postgres, their documents in    *)
(* Redis, the requests that create and update them in a transaction, and   *)
(* the filling of the cache, which the start of the server and every       *)
(* search with a result set off without waiting for it.                    *)
(*                                                                         *)
(* A transaction holds one connection of a pool.  An update takes a second *)
(* one to read the product.  The files of a product are in module Media.   *)
(***************************************************************************)
EXTENDS Integers, FiniteSets

CONSTANTS
    Products,    \* ids of products
    Values,      \* values of a product's attributes
    Shops,       \* users, each of whom may be a product's shop
    Requests,    \* requests the server may have in flight at once
    Fillings,    \* bound: fillings of the cache that may be under way at once
    PoolSize,    \* connections to Postgres
    None,        \* no row, no document, no value
    Alien        \* attributes that are not columns of ElectronicEntity

VARIABLES
    rows,        \* the committed row of each product, or None
    details,     \* its committed row in one of the detail tables, or None
    docs,        \* its document in the cache, or None
    req,         \* what each request in flight is doing
    filling,     \* what each filling of the cache is doing
    calm,        \* history: the products on which nothing failed, and no two of the
                 \* writers and fillings met
    stale        \* history: the clothing whose attributes an update has changed

history == <<calm, stale>>
vars == <<rows, details, docs, req, filling, history>>

\* A product's attributes, which an update may leave out and its detail row repeats, and its
\* shop, which the controller adds to every payload. Other columns are like attributes without
\* a detail row; the thumbnails are in Media.
Parts == {"attributes", "shop"}
Row == [attributes : Values, shop : Shops]
Detail == [table : {"electronics", "clothing"}, attributes : Values]
Change == [attributes : Values \cup {None}, shop : Shops \cup {None}]
Sent == [attributes : Values \cup {None, Alien}, shop : Shops]
Nothing == [f \in Parts |-> None]

ASSUME CatalogAssumption ==
    /\ PoolSize \in Nat \ {0}
    /\ None \notin Values \cup Shops \cup Row \cup Detail
    /\ Alien \notin Values \cup {None}

MutMerge(row, sent) == sent \* Mutant of Merge: undefined parts are spread, too.

\* { ...row, ...sent }
Merge(row, sent) == [f \in Parts |-> IF sent[f] = None THEN row[f] ELSE sent[f]]

-----------------------------------------------------------------------------
(* Requests.                                                               *)

Idle == [pc |-> "idle"]

\* sent: the payload; table: where the detail row goes; detail, written: what COMMIT will store;
\* entity: the product as it will be cached.
ReqType == {Idle} \cup
    [pc : {"readDoc", "detail", "fetch", "select", "write", "uncache", "cache", "commit"},
     kind : {"create", "update"}, id : Products, table : {"electronics", "clothing"},
     sent : Sent, detail : Values \cup {None}, entity : Row \cup {None}, written : Change]

\* left: keys that the scan has yet to pass; todo: rows that are still to be cached.
FillingType == [pc : {"idle", "scan", "load", "fill"}, left : SUBSET Products,
                todo : [Products -> Row \cup {None}]]
NoFilling == [pc |-> "idle", left |-> {}, todo |-> [p \in Products |-> None]]
Scanning == [NoFilling EXCEPT !.pc = "scan", !.left = Products]

Writers(p) == {r \in Requests : req[r] # Idle /\ req[r].id = p}
InUse == Cardinality({r \in Requests : req[r] # Idle})
Goto(r, pc) == req' = [req EXCEPT ![r].pc = pc]

\* dataSource.transaction takes a connection before anything else.
Begin(r, pc, kind, p, table, sent) ==
    /\ req[r] = Idle /\ InUse < PoolSize
    /\ req' = [req EXCEPT ![r] =
         [pc |-> pc, kind |-> kind, id |-> p, table |-> table, sent |-> sent,
          detail |-> None, written |-> Nothing,
          entity |-> IF kind = "create" THEN sent ELSE None]]
    /\ calm' = IF Writers(p) = {} /\ \A f \in Fillings : filling[f].todo[p] = None
               THEN calm ELSE calm \ {p}
    /\ UNCHANGED <<rows, details, docs, filling, stale>>

StartCreate(r, p, table, row) ==
    /\ rows[p] = None /\ docs[p] = None /\ Writers(p) = {}
    /\ Begin(r, "detail", "create", p, table, row)

\* sent.shop: the caller, whoever may have created the product. Clothing updates
\* ElectronicEntity, too.
StartUpdate(r, p, sent) == Begin(r, "readDoc", "update", p, "electronics", sent)

MutReadDoc(r) == \* Mutant of ReadDoc: leaves the detail row alone.
    /\ req[r].pc = "readDoc" /\ docs[req[r].id] # None /\ req[r].sent.attributes # Alien
    /\ Goto(r, "fetch")
    /\ UNCHANGED <<rows, details, docs, filling, history>>

ReadDoc(r) ==
    /\ req[r].pc = "readDoc" /\ docs[req[r].id] # None
    /\ Goto(r, IF req[r].sent.attributes = None THEN "fetch" ELSE "detail")
    /\ UNCHANGED <<rows, details, docs, filling, history>>

MutWriteDetail(r) == \* Mutant of WriteDetail: a detail row is created outside the transaction.
    /\ req[r].pc = "detail" /\ req[r].kind = "create"
    /\ req' = [req EXCEPT ![r].pc = "write", ![r].written = req[r].sent]
    /\ details' = [details EXCEPT ![req[r].id] =
                      [table |-> req[r].table, attributes |-> req[r].sent.attributes]]
    /\ UNCHANGED <<rows, docs, filling, history>>

\* The INSERT or UPDATE of the detail row waits for another transaction's.
WriteDetail(r) ==
    /\ req[r].pc = "detail" /\ req[r].sent.attributes # Alien
    /\ LET p == req[r].id
           found == IF details[p] = None THEN FALSE ELSE details[p].table = "electronics"
       IN  \/ /\ req[r].kind = "create"
              /\ req' = [req EXCEPT ![r].pc = "write", ![r].written = req[r].sent,
                                    ![r].detail = req[r].sent.attributes]
           \/ /\ req[r].kind = "update" /\ found
              /\ \A q \in Writers(p) \ {r} : req[q].detail = None
              /\ req' = [req EXCEPT ![r].pc = "fetch", ![r].detail = req[r].sent.attributes]
           \/ req[r].kind = "update" /\ ~found /\ Goto(r, "fetch")
    /\ UNCHANGED <<rows, details, docs, filling, history>>

MutFetchProduct(r) == \* Mutant of FetchProduct: what is not sent gets a default.
    /\ req[r].pc = "fetch" /\ InUse < PoolSize /\ rows[req[r].id] # None
    /\ \E v \in Values :
         LET default == [rows[req[r].id] EXCEPT !.attributes = v]
         IN  req' = [req EXCEPT ![r].pc = "select", ![r].entity = Merge(default, req[r].sent)]
    /\ UNCHANGED <<rows, details, docs, filling, history>>

\* getOneByIdOrFail, over a second connection of the pool.
FetchProduct(r) ==
    /\ req[r].pc = "fetch" /\ InUse < PoolSize /\ rows[req[r].id] # None
    /\ req' = [req EXCEPT ![r].pc = "select",
                          ![r].entity = Merge(rows[req[r].id], req[r].sent)]
    /\ UNCHANGED <<rows, details, docs, filling, history>>

\* save() loads the row and will write the columns that differ from the entity's.
SelectProduct(r) ==
    /\ req[r].pc = "select"
    /\ LET row == rows[req[r].id]
           new == req[r].entity
       IN  req' = [req EXCEPT ![r].pc = "write",
                     ![r].written = [f \in Parts |-> IF new[f] = row[f] THEN None ELSE new[f]]]
    /\ UNCHANGED <<rows, details, docs, filling, history>>

WriteProduct(r) ==
    /\ req[r].pc = "write"
    /\ \/ req[r].written = Nothing
       \/ \A q \in Writers(req[r].id) \ {r} :
              req[q].pc \in {"uncache", "cache", "commit"} => req[q].written = Nothing
    /\ Goto(r, IF req[r].kind = "create" THEN "cache" ELSE "uncache")
    /\ UNCHANGED <<rows, details, docs, filling, history>>

DeleteDoc(r) ==
    /\ req[r].pc = "uncache"
    /\ docs' = [docs EXCEPT ![req[r].id] = None]
    /\ Goto(r, "cache")
    /\ UNCHANGED <<rows, details, filling, history>>

MutSetDoc(r) == \* Mutant of SetDoc: caches the row that others see.
    /\ req[r].pc = "cache"
    /\ docs' = [docs EXCEPT ![req[r].id] = rows[req[r].id]]
    /\ req' = [req EXCEPT ![r].pc = "commit", ![r].entity = None]
    /\ UNCHANGED <<rows, details, filling, history>>

\* setProduct, before the transaction is committed.
SetDoc(r) ==
    /\ req[r].pc = "cache"
    /\ docs' = [docs EXCEPT ![req[r].id] = req[r].entity]
    /\ req' = [req EXCEPT ![r].pc = "commit", ![r].entity = None]
    /\ UNCHANGED <<rows, details, filling, history>>

Commit(r) ==
    /\ req[r].pc = "commit"
    /\ LET p == req[r].id
           d == req[r].detail
       IN  /\ rows' = [rows EXCEPT ![p] = Merge(@, req[r].written)]
           /\ details' = IF d = None THEN details
                         ELSE [details EXCEPT ![p] = [table |-> req[r].table, attributes |-> d]]
           /\ stale' = IF /\ req[r].kind = "update" /\ req[r].written.attributes # None
                          /\ details[p].table = "clothing"
                       THEN stale \cup {p} ELSE stale
    /\ req' = [req EXCEPT ![r] = Idle]
    /\ UNCHANGED <<docs, filling, calm>>

\* The transaction is rolled back; the document stays as it is.
Rollback(r) ==
    /\ req' = [req EXCEPT ![r] = Idle]
    /\ calm' = IF req[r].pc \in {"uncache", "cache", "commit"} THEN calm \ {req[r].id} ELSE calm
    /\ UNCHANGED <<rows, details, docs, filling, stale>>

MutRefuse(r) == \* Mutant of Refuse: a missing document is waited for.
    /\ \/ req[r].pc = "detail" /\ req[r].sent.attributes = Alien
       \/ req[r].pc = "fetch" /\ InUse < PoolSize /\ rows[req[r].id] = None
    /\ Rollback(r)

\* No document, columns that ElectronicEntity does not have, or no row.
Refuse(r) ==
    /\ \/ req[r].pc = "readDoc" /\ docs[req[r].id] = None
       \/ req[r].pc = "detail" /\ req[r].sent.attributes = Alien
       \/ req[r].pc = "fetch" /\ InUse < PoolSize /\ rows[req[r].id] = None
    /\ Rollback(r)

\* Postgres or Redis rejects a call.
Fail(r) == req[r] # Idle /\ Rollback(r)

-----------------------------------------------------------------------------
(* initProductCache.                                                       *)

\* What a search may find.
Found == {p \in Products : docs[p] # None}

\* productFilter, when the search has a result.
FilterProducts(f) ==
    /\ filling[f].pc = "idle"
    /\ Found # {}
    /\ filling' = [filling EXCEPT ![f] = Scanning]
    /\ UNCHANGED <<rows, details, docs, req, history>>

\* SCAN passes the keys one by one, and misses those that come behind it. Any match makes
\* the cache pass as filled, the counters of Carts included.
ScanDocs(f) ==
    /\ filling[f].pc = "scan"
    /\ \/ /\ filling[f].left = {}
          /\ filling' = [filling EXCEPT ![f].pc = "load"]
          /\ UNCHANGED calm
       \/ \E p \in filling[f].left \ Found :
            /\ filling' = [filling EXCEPT ![f].left = @ \ {p}]
            /\ UNCHANGED calm
       \/ /\ filling' = [filling EXCEPT ![f] = NoFilling]
          /\ calm' = calm \ {p \in Products \ Found : rows[p] # None}
    /\ UNCHANGED <<rows, details, docs, req, stale>>

MutLoadProducts(f) == \* Mutant of LoadProducts: loads one page only.
    /\ filling[f].pc = "load" /\ InUse < PoolSize
    /\ \E p \in Products : filling' = [filling EXCEPT ![f].pc = "fill", ![f].todo[p] = rows[p]]
    /\ UNCHANGED <<rows, details, docs, req, history>>

LoadProducts(f) ==
    /\ filling[f].pc = "load" /\ InUse < PoolSize
    /\ filling' = [filling EXCEPT ![f].pc = "fill", ![f].todo = rows]
    /\ calm' = calm \ {p \in Products :
                          rows[p] # None /\ (\/ Writers(p) # {}
                                             \/ \E g \in Fillings : filling[g].todo[p] # None)}
    /\ UNCHANGED <<rows, details, docs, req, stale>>

MutFillDoc(f) == \* Mutant of FillDoc: starts again when a product is missing.
    /\ filling[f].pc = "fill"
    /\ LET todo == {p \in Products : filling[f].todo[p] # None}
       IN  \/ /\ todo = {}
              /\ filling' = [filling EXCEPT ![f] = [NoFilling EXCEPT
                                !.pc = IF \E p \in Products : docs[p] = None THEN "load" ELSE "idle"]]
              /\ UNCHANGED docs
           \/ \E p \in todo :
                /\ docs' = [docs EXCEPT ![p] = filling[f].todo[p]]
                /\ filling' = [filling EXCEPT ![f].todo[p] = None]
    /\ UNCHANGED <<rows, details, req, history>>

FillDoc(f) ==
    /\ filling[f].pc = "fill"
    /\ LET todo == {p \in Products : filling[f].todo[p] # None}
       IN  \/ /\ todo = {}
              /\ filling' = [filling EXCEPT ![f] = NoFilling]
              /\ UNCHANGED docs
           \/ \E p \in todo :
                /\ docs' = [docs EXCEPT ![p] = filling[f].todo[p]]
                /\ filling' = [filling EXCEPT ![f].todo[p] = None]
    /\ UNCHANGED <<rows, details, req, history>>

\* The server dies and starts again: also when a filling meets an error, which nobody
\* catches.
Restart ==
    /\ req' = [r \in Requests |-> Idle]
    /\ \E f \in Fillings : filling' = [g \in Fillings |->
           IF g = f THEN Scanning ELSE NoFilling]
    /\ calm' = calm \ {p \in Products : \/ \E r \in Writers(p) : req[r].pc \in {"cache", "commit"}
                                        \/ \E f \in Fillings : filling[f].todo[p] # None}
    /\ UNCHANGED <<rows, details, docs, stale>>

-----------------------------------------------------------------------------

\* The server starts with an empty cache.
Init ==
    /\ rows \in [Products -> Row \cup {None}]
    /\ details \in [Products -> Detail \cup {None}]
    /\ \A p \in Products : IF rows[p] = None THEN details[p] = None
                           ELSE details[p] # None /\ details[p].attributes = rows[p].attributes
    /\ docs = [p \in Products |-> None]
    /\ req = [r \in Requests |-> Idle]
    /\ \E f \in Fillings : filling = [g \in Fillings |->
           IF g = f THEN Scanning ELSE NoFilling]
    /\ calm = Products /\ stale = {}

Start(r) ==
    \E p \in Products :
        \/ \E table \in {"electronics", "clothing"}, row \in Row : StartCreate(r, p, table, row)
        \/ \E sent \in Sent : StartUpdate(r, p, sent)

Step(r) ==
    \/ ReadDoc(r) \/ WriteDetail(r) \/ FetchProduct(r) \/ SelectProduct(r) \/ WriteProduct(r)
    \/ DeleteDoc(r) \/ SetDoc(r) \/ Commit(r) \/ Refuse(r)

Fill(f) == ScanDocs(f) \/ LoadProducts(f) \/ FillDoc(f)

Next ==
    \/ \E r \in Requests : Start(r) \/ Step(r) \/ Fail(r)
    \/ \E f \in Fillings : FilterProducts(f) \/ Fill(f)
    \/ Restart

Spec == Init /\ [][Next]_vars

\* Postgres and Redis answer every call, and a connection or a row that becomes free goes
\* to those that wait for it before newcomers.
LiveSpec ==
    /\ Spec
    /\ \A r \in Requests : SF_vars(Step(r))
    /\ \A f \in Fillings : SF_vars(Fill(f))

-----------------------------------------------------------------------------
(* Properties.                                                             *)

TypeOK ==
    /\ rows \in [Products -> Row \cup {None}]
    /\ details \in [Products -> Detail \cup {None}]
    /\ docs \in [Products -> Row \cup {None}]
    /\ req \in [Requests -> ReqType]
    /\ filling \in [Fillings -> FillingType]
    /\ calm \subseteq Products /\ stale \subseteq Products

\* A product's row and its detail row are stored together or not at all.
DetailsExist == \A p \in Products : rows[p] = None <=> details[p] = None

Quiet == (\A r \in Requests : req[r] = Idle) /\ (\A f \in Fillings : filling[f].pc = "idle")

\* When nothing is under way, the cache shows the row of a product whose writers neither
\* failed nor met one another or a filling of the cache.
QuietDocsAgree == Quiet => \A p \in calm : docs[p] = rows[p]

\* Attributes that were written so are the same in a product's row and in its detail row,
\* whichever of them an update saw first, except for clothing, whose detail row is left
\* behind by the first update of its attributes.
DetailsAgree ==
    \A p \in calm \ stale : rows[p] # None => details[p].attributes = rows[p].attributes

\* An update that overlaps no other makes its caller the product's shop and stores what was
\* sent, and nothing else, although it writes a whole product that it read over another
\* connection.
UpdatesStoreWhatWasSent ==
    [][\A p \in calm' : rows[p] # None /\ rows'[p] # rows[p] =>
         \E r \in Writers(p) : rows'[p] = Merge(rows[p], req[r].sent)]_vars

PoolExhausted == InUse = PoolSize

\* Every request is answered, waiting for a row or for a connection included, unless
\* updates come to hold all connections and wait for one more for ever.
AnswersCome ==
    \/ <>[]PoolExhausted
    \/ \A r \in Requests : req[r] # Idle ~> req[r] = Idle

\* And a filling that has found the cache empty comes to its end.
FillingsEnd ==
    \/ <>[]PoolExhausted
    \/ \A f \in Fillings : filling[f].pc = "load" ~> filling[f].pc \notin {"load", "fill"}
=============================================================================
