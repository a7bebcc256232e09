-------------------------------- MODULE Media -------------------------------
(***************************************************************************)
(* Files in S3, their rows in the table 'medias', and the requests that     *)
(* keep the two in step: products created and updated in a transaction     *)
(* with their thumbnails, avatars, and uploads on their own.               *)
(*                                                                         *)
(* A transaction has a connection, which answers the statements sent over   *)
(* it in their order.  All requests share one MediaService and its field    *)
(* 'manager', so that one request's rows may be sent over the connection of *)
(* another, or of a transaction that is over.                              *)
(***************************************************************************)
EXTENDS Integers, Sequences, FiniteSets, SequencesExt

CONSTANTS
    Keys,        \* keys of S3 objects, drawn at random
    Products,    \* ids of products
    Users,       \* ids of users
    Requests,    \* requests the server may have in flight at once
    MaxFiles,    \* bound: files in one request
    MaxByHand,   \* bound: files deleted through the route /media/delete
    None,        \* no key, no document, no manager
    Unknown      \* which files may be without a row depends on what went wrong

Released == "released"

ASSUME MediaAssumption ==
    /\ MaxFiles \in Nat \ {0} /\ MaxByHand \in Nat
    /\ IsFiniteSet(Keys)
    /\ None \notin Keys \cup Requests /\ Released \notin Requests \cup {None}
    /\ \A S \in SUBSET Keys : S \notin {None, Unknown}

VARIABLES
    files,       \* the objects in S3
    erasing,     \* objects whose deletion was sent to S3 and not awaited
    rows,        \* the committed rows of 'medias', by key
    shown,       \* the thumbnails in each product's row, or None
    docs,        \* the thumbnails in each product's cached document, or None
    avatar,      \* the avatar in each user's row, or None
    manager,     \* the transaction that MediaService.manager belongs to, Released, or None
    conn,        \* statements on their way over each transaction's connection
    req,         \* what each request in flight is doing
    used,        \* history: keys that were ever drawn
    byHand,      \* history: objects deleted through the route /media/delete
    orphans      \* history: the files whose rows a released manager refused; Unknown as soon
                 \* as two requests overlap, the server crashes, a deletion in S3 fails, or
                 \* a query over another connection than a transaction's

history == <<used, byHand, orphans>>
tables == <<rows, shown, avatar>>
vars == <<files, erasing, tables, docs, manager, conn, req, history>>

-----------------------------------------------------------------------------
(* Requests and their connections.                                         *)

Idle == [pc |-> "idle"]

\* Removals are the statements of deleteMediaById.
Removals == {"find", "reload", "delete"}
Stmt == [by : Requests, key : Keys \cup {None},
         op : Removals \cup {"load", "insert", "select", "write", "commit", "rollback"}]

\* what: the product or user; left: files still to upload; key: the file at hand;
\* thumbs: links collected so far; gone: files to remove; inserted, removed: the
\* subscriber's lists.
ReqType == {Idle} \cup
    [pc : {"upload", "alone", "save", "readDoc", "fetch", "write", "uncache", "cache",
           "commit", "undo", "broken", "drop", "store"},
     kind : {"create", "update", "avatar", "upload"},
     what : Products \cup Users \cup {None}, left : 0..MaxFiles,
     key : Keys \cup {None}, thumbs : SUBSET Keys, gone : SUBSET Keys,
     inserted : SUBSET Keys, removed : SUBSET Keys]

OfProduct(r) == req[r] # Idle /\ req[r].kind \in {"create", "update"}

\* dataSource.transaction: open from the start of a product request, and around the
\* removal of an old avatar.
InTransaction(r) ==
    OfProduct(r) \/ req[r].pc \in {"drop", "commit", "broken"}

Send(c, r, by, op, k) ==
    [c EXCEPT ![r] = Append(@, [by |-> by, op |-> op, key |-> k])]

At(c, op) == conn[c] # <<>> /\ Head(conn[c]).op = op
Answered(c) == [conn EXCEPT ![c] = Tail(@)]

\* Rows that a statement sees over connection c.
Visible(c) ==
    IF InTransaction(c) THEN (rows \cup req[c].inserted) \ req[c].removed ELSE rows

Begin(r, pc, kind, what, n, gone) ==
    /\ req[r] = Idle /\ conn[r] = <<>>
    /\ req' = [req EXCEPT ![r] =
         [pc |-> pc, kind |-> kind, what |-> what, left |-> n, key |-> None,
          thumbs |-> {}, gone |-> gone, inserted |-> {}, removed |-> {}]]
    /\ orphans' = IF \A q \in Requests : req[q] = Idle /\ conn[q] = <<>> THEN orphans ELSE Unknown
    /\ UNCHANGED <<used, byHand>>

\* The call that r awaits is rejected; q and c are the requests and connections as
\* they are by then. Inside a transaction ROLLBACK follows.
Fail(r, q, c, pc) ==
    \/ /\ InTransaction(r)
       /\ req' = [q EXCEPT ![r].pc = pc, ![r].thumbs = {}, ![r].gone = {}]
       /\ conn' = Send(c, r, r, "rollback", None)
    \/ /\ ~InTransaction(r)
       /\ req' = [q EXCEPT ![r] = Idle]
       /\ conn' = c

MutUploaded(r, q, c) == \* Mutant of Uploaded: counts one file too many.
    LET done == [q EXCEPT ![r].left = @ - 1, ![r].thumbs = @ \cup {q[r].key}]
        Then(pc) == req' = [done EXCEPT ![r].pc = pc]
    IN  IF q[r].left >= 1 THEN Then("upload") /\ conn' = c
        ELSE IF OfProduct(r) THEN Then("write") /\ conn' = Send(c, r, r, "select", None)
        ELSE req' = [done EXCEPT ![r] = Idle] /\ conn' = c

\* upload() has returned the media of r: the next file, or what follows the last.
\* An avatar without a predecessor fails in a transaction of its own, which is ignored.
Uploaded(r, q, c) ==
    LET done == [q EXCEPT ![r].left = @ - 1, ![r].thumbs = @ \cup {q[r].key}]
        Then(pc) == req' = [done EXCEPT ![r].pc = pc]
    IN  IF q[r].left > 1 THEN Then("upload") /\ conn' = c
        ELSE CASE q[r].kind = "create" -> Then("write") /\ conn' = Send(c, r, r, "select", None)
               [] q[r].kind = "update" -> Then("readDoc") /\ conn' = c
               [] q[r].kind = "upload" -> req' = [q EXCEPT ![r] = Idle] /\ conn' = c
               [] q[r].kind = "avatar" /\ q[r].gone = {} -> Then("store") /\ conn' = c
               [] OTHER -> /\ Then("drop")
                           /\ \E old \in q[r].gone : conn' = Send(c, r, r, "find", old)

Orphan(k) == orphans' = IF orphans = Unknown THEN Unknown ELSE orphans \cup {k}

-----------------------------------------------------------------------------
(* The requests, up to their first await and from one await to the next.    *)

StartCreate(r, p, n) ==
    /\ shown[p] = None /\ docs[p] = None
    /\ \A q \in Requests : ~(OfProduct(q) /\ req[q].what = p)
    /\ Begin(r, IF n > 0 THEN "upload" ELSE "write", "create", p, n, {})
    /\ manager' = r
    /\ conn' = IF n > 0 THEN conn ELSE Send(conn, r, r, "select", None)
    /\ UNCHANGED <<files, erasing, tables, docs>>

Listed(p) == IF docs[p] = None THEN {} ELSE docs[p]

\* handlerFile, and with it the assignment of the manager, only for new files.
StartUpdate(r, p, n, gone) ==
    /\ Begin(r, IF n > 0 THEN "upload" ELSE "readDoc", "update", p, n, gone)
    /\ manager' = IF n > 0 THEN r ELSE manager
    /\ UNCHANGED <<files, erasing, tables, docs, conn>>

StartAvatar(r, u) ==
    /\ Begin(r, "upload", "avatar", u, 1, {avatar[u]} \ {None})
    /\ UNCHANGED <<files, erasing, tables, docs, manager, conn>>

StartUpload(r, n) ==
    /\ Begin(r, "upload", "upload", None, n, {})
    /\ UNCHANGED <<files, erasing, tables, docs, manager, conn>>

MutUpload(r) == \* Mutant of Upload: the key is made of the file's name alone.
    /\ req[r].pc = "upload" /\ manager = None
    /\ \E k \in Keys :
         /\ files' = files \cup {k}
         /\ used' = used \cup {k}
         /\ req' = [req EXCEPT ![r].key = k, ![r].pc = "alone"]
    /\ UNCHANGED <<erasing, tables, docs, manager, conn, byHand, orphans>>

\* uploadS3 has stored the object; its row goes through whatever the shared manager is.
Upload(r) ==
    /\ req[r].pc = "upload"
    /\ \E k \in Keys \ used :
         LET q == [req EXCEPT ![r].key = k]
         IN  /\ files' = files \cup {k}
             /\ used' = used \cup {k}
             /\ \/ /\ manager = None
                   /\ req' = [q EXCEPT ![r].pc = "alone"]
                   /\ UNCHANGED <<conn, orphans>>
                \/ /\ manager = Released
                   /\ Orphan(k)
                   /\ Fail(r, q, conn, "undo")
                \/ /\ manager \in Requests
                   /\ req' = [q EXCEPT ![r].pc = "save"]
                   /\ conn' = Send(conn, manager, r, "load", k)
                   /\ UNCHANGED orphans
    /\ UNCHANGED <<erasing, tables, docs, manager, byHand>>

\* The repository's create(), in a transaction of its own.
StoreAlone(r) ==
    /\ req[r].pc = "alone"
    /\ rows' = rows \cup {req[r].key}
    /\ Uploaded(r, req, conn)
    /\ UNCHANGED <<files, erasing, shown, avatar, docs, manager, history>>

MutReadDoc(r) == \* Mutant of ReadDoc: keeps the links of the removed files.
    /\ req[r].pc = "readDoc"
    /\ LET doc == docs[req[r].what]
       IN  \/ doc = None /\ Fail(r, req, conn, "undo")
           \/ /\ doc # None
              /\ req' = [req EXCEPT ![r].pc = "fetch", ![r].gone = {},
                                    ![r].thumbs = @ \cup doc]
              /\ \E finds \in SetToSeqs({[by |-> r, op |-> "find", key |-> k] :
                                            k \in doc \cap req[r].gone}) :
                   conn' = [conn EXCEPT ![r] = @ \o finds]
    /\ UNCHANGED <<files, erasing, tables, docs, manager, history>>

\* updateProduct: the thumbnails come from the cached document; those to remove are
\* handed to deleteMediaById, which is not awaited.
ReadDoc(r) ==
    /\ req[r].pc = "readDoc"
    /\ LET doc == docs[req[r].what]
       IN  \/ doc = None /\ Fail(r, req, conn, "undo")
           \/ /\ doc # None
              /\ req' = [req EXCEPT ![r].pc = "fetch", ![r].gone = {},
                                    ![r].thumbs = @ \cup (doc \ req[r].gone)]
              /\ \E finds \in SetToSeqs({[by |-> r, op |-> "find", key |-> k] :
                                            k \in doc \cap req[r].gone}) :
                   conn' = [conn EXCEPT ![r] = @ \o finds]
    /\ UNCHANGED <<files, erasing, tables, docs, manager, history>>

MutFetch(r) == \* Mutant of Fetch: the product is updated without being read again.
    /\ req[r].pc = "fetch"
    /\ \/ shown[req[r].what] = None /\ Fail(r, req, conn, "undo")
       \/ /\ shown[req[r].what] # None
          /\ req' = [req EXCEPT ![r].pc = "write"]
          /\ conn' = Send(conn, r, r, "write", None)
    /\ UNCHANGED <<files, erasing, tables, docs, manager, history>>

\* getOneByIdOrFail, over another connection.
Fetch(r) ==
    /\ req[r].pc = "fetch"
    /\ \/ shown[req[r].what] = None /\ Fail(r, req, conn, "undo")
       \/ /\ shown[req[r].what] # None
          /\ req' = [req EXCEPT ![r].pc = "write"]
          /\ conn' = Send(conn, r, r, "select", None)
    /\ UNCHANGED <<files, erasing, tables, docs, manager, history>>

Uncache(r) ==
    /\ req[r].pc = "uncache"
    /\ docs' = [docs EXCEPT ![req[r].what] = None]
    /\ req' = [req EXCEPT ![r].pc = "cache"]
    /\ UNCHANGED <<files, erasing, tables, manager, conn, history>>

\* setProduct; the transaction is committed only afterwards.
Cache(r) ==
    /\ req[r].pc = "cache"
    /\ docs' = [docs EXCEPT ![req[r].what] = req[r].thumbs]
    /\ req' = [req EXCEPT ![r].pc = "commit"]
    /\ conn' = Send(conn, r, r, "commit", None)
    /\ UNCHANGED <<files, erasing, tables, manager, history>>

StoreAvatar(r) ==
    /\ req[r].pc = "store"
    /\ avatar' = [avatar EXCEPT ![req[r].what] = req[r].key]
    /\ req' = [req EXCEPT ![r] = Idle]
    /\ UNCHANGED <<files, erasing, rows, shown, docs, manager, conn, history>>

\* S3, Redis or Postgres rejects a call.
Reject(r) ==
    /\ req[r].pc \in {"upload", "alone", "readDoc", "fetch", "uncache", "cache", "store"}
    /\ Fail(r, req, conn, "undo")
    /\ orphans' = IF req[r].pc \in {"alone", "fetch", "store"} THEN Unknown ELSE orphans
    /\ UNCHANGED <<files, erasing, tables, docs, manager, used, byHand>>

\* The server dies and starts again. What it had sent and not heard of is lost or done.
Restart ==
    /\ req' = [r \in Requests |-> Idle]
    /\ conn' = [r \in Requests |-> <<>>]
    /\ erasing' = {}
    /\ manager' = None
    /\ orphans' = Unknown
    /\ UNCHANGED <<files, tables, docs, used, byHand>>

-----------------------------------------------------------------------------
(* The answers of connection c.                                            *)

Broken(c) == req[c].pc = "broken"

\* save() of a media, SELECT: a manager whose transaction is over sends nothing more.
LoadMedia(c) ==
    /\ At(c, "load")
    /\ LET s == Head(conn[c])
       IN  \/ /\ InTransaction(c) /\ ~Broken(c)
              /\ conn' = Send(Answered(c), c, s.by, "insert", s.key)
              /\ UNCHANGED <<req, orphans>>
           \/ /\ ~InTransaction(c) \/ Broken(c)
              /\ Orphan(s.key)
              /\ Fail(s.by, req, Answered(c), "undo")
    /\ UNCHANGED <<files, erasing, tables, docs, manager, used, byHand>>

\* save() of a media, INSERT: behind COMMIT or ROLLBACK it commits by itself.
InsertMedia(c) ==
    /\ At(c, "insert")
    /\ LET s == Head(conn[c])
       IN  \/ /\ InTransaction(c) /\ ~Broken(c)
              /\ Uploaded(s.by, [req EXCEPT ![c].inserted = @ \cup {s.key}], Answered(c))
              /\ UNCHANGED rows
           \/ /\ InTransaction(c) /\ Broken(c)
              /\ Fail(s.by, req, Answered(c), "undo")
              /\ UNCHANGED rows
           \/ /\ ~InTransaction(c)
              /\ Uploaded(s.by, req, Answered(c))
              /\ rows' = rows \cup {s.key}
    /\ UNCHANGED <<files, erasing, shown, avatar, docs, manager, history>>

\* A product update does not wait for its removals, an avatar update does.
RemovalDone(c, q, rest) ==
    IF req[c].pc = "drop"
    THEN req' = [q EXCEPT ![c].pc = "commit"] /\ conn' = Send(rest, c, c, "commit", None)
    ELSE req' = q /\ conn' = rest

\* Nobody catches the rejection of a removal that is not awaited: Node exits.
RemovalRejected(c) ==
    \/ /\ req[c].pc = "drop"
       /\ Fail(c, req, Answered(c), "broken")
       /\ UNCHANGED <<files, erasing, tables, docs, manager, history>>
    \/ req[c].pc # "drop" /\ Restart

FindMedia(c) ==
    /\ At(c, "find")
    /\ LET k == Head(conn[c]).key
       IN  \/ Broken(c) /\ RemovalRejected(c)
           \/ /\ ~Broken(c)
              /\ IF k \in Visible(c)
                 THEN conn' = Send(Answered(c), c, c, "reload", k) /\ UNCHANGED req
                 ELSE RemovalDone(c, req, Answered(c))
              /\ UNCHANGED <<files, erasing, tables, docs, manager, history>>

ReloadMedia(c) ==
    /\ At(c, "reload")
    /\ \/ (Broken(c) \/ ~InTransaction(c)) /\ RemovalRejected(c)
       \/ /\ InTransaction(c) /\ ~Broken(c)
          /\ conn' = Send(Answered(c), c, c, "delete", Head(conn[c]).key)
          /\ UNCHANGED <<files, erasing, tables, docs, manager, req, history>>

MutDeleteMedia(c) == \* Mutant of DeleteMedia: erases the object before the commit.
    /\ At(c, "delete")
    /\ LET k == Head(conn[c]).key
       IN  IF Broken(c) THEN RemovalRejected(c)
           ELSE /\ RemovalDone(c, [req EXCEPT ![c].removed = @ \cup {k}], Answered(c))
                /\ erasing' = erasing \cup {k}
                /\ UNCHANGED <<files, tables, docs, manager, history>>

\* A row deleted by another open transaction is waited for; Postgres may give up instead.
DeleteMedia(c) ==
    /\ At(c, "delete")
    /\ LET k == Head(conn[c]).key
           locked == \E q \in Requests \ {c} : req[q] # Idle /\ k \in req[q].removed
       IN  \/ (Broken(c) \/ locked) /\ RemovalRejected(c)
           \/ /\ ~Broken(c) /\ ~locked
              /\ \/ /\ InTransaction(c)
                    /\ RemovalDone(c, [req EXCEPT ![c].removed = @ \cup {k}], Answered(c))
                    /\ UNCHANGED rows
                 \/ /\ ~InTransaction(c)
                    /\ rows' = rows \ {k}
                    /\ conn' = Answered(c)
                    /\ UNCHANGED req
              /\ UNCHANGED <<files, erasing, shown, avatar, docs, manager, history>>

SelectProduct(c) ==
    /\ At(c, "select")
    /\ conn' = Send(Answered(c), c, c, "write", None)
    /\ UNCHANGED <<files, erasing, tables, docs, manager, req, history>>

\* The product's row, unless another transaction has written it, or its data is refused.
WriteProduct(c) ==
    /\ At(c, "write")
    /\ \/ Fail(c, req, Answered(c), "broken")
       \/ /\ \A q \in Requests \ {c} : ~(OfProduct(q) /\ req[q].what = req[c].what
                                         /\ req[q].pc \in {"uncache", "cache", "commit"})
          /\ req' = [req EXCEPT ![c].pc = IF req[c].kind = "create" THEN "cache" ELSE "uncache"]
          /\ conn' = Answered(c)
    /\ UNCHANGED <<files, erasing, tables, docs, manager, history>>

\* The end of a transaction, for the request, its connection and the shared manager.
Over(c) ==
    /\ req' = [req EXCEPT ![c] = IF OfProduct(c) THEN Idle
                 ELSE [@ EXCEPT !.pc = "store", !.inserted = {}, !.removed = {}]]
    /\ conn' = Answered(c)
    /\ manager' = IF manager = c THEN Released ELSE manager
    /\ UNCHANGED <<files, avatar, docs, history>>

MutCommit(c) == \* Mutant of Commit: the subscriber handles rollbacks only.
    /\ At(c, "commit")
    /\ rows' = Visible(c)
    /\ shown' = IF OfProduct(c) THEN [shown EXCEPT ![req[c].what] = req[c].thumbs] ELSE shown
    /\ Over(c)
    /\ UNCHANGED erasing

\* COMMIT and the subscriber's afterTransactionCommit.
Commit(c) ==
    /\ At(c, "commit")
    /\ rows' = Visible(c)
    /\ erasing' = erasing \cup req[c].removed
    /\ shown' = IF OfProduct(c) THEN [shown EXCEPT ![req[c].what] = req[c].thumbs] ELSE shown
    /\ Over(c)

MutRollback(c) == \* Mutant of Rollback: takes the list of removed files.
    /\ At(c, "rollback")
    /\ erasing' = erasing \cup req[c].removed
    /\ UNCHANGED <<rows, shown>>
    /\ Over(c)

\* ROLLBACK and the subscriber's afterTransactionRollback.
Rollback(c) ==
    /\ At(c, "rollback")
    /\ erasing' = erasing \cup req[c].inserted
    /\ UNCHANGED <<rows, shown>>
    /\ Over(c)

-----------------------------------------------------------------------------
(* S3.                                                                     *)

\* deleteObject is not awaited and its error is ignored.
Erase(k) ==
    /\ k \in erasing
    /\ erasing' = erasing \ {k}
    /\ \/ files' = files \ {k} /\ UNCHANGED orphans
       \/ orphans' = Unknown /\ UNCHANGED files
    /\ UNCHANGED <<tables, docs, manager, conn, req, used, byHand>>

\* DELETE /media/delete with the key of a file, whatever became of it: its row may be
\* committed, on its way or refused. Only the object is deleted, and nobody waits for that.
Discard(k) ==
    /\ k \in used /\ Cardinality(byHand \cup {k}) <= MaxByHand
    /\ erasing' = erasing \cup {k}
    /\ byHand' = byHand \cup {k}
    /\ UNCHANGED <<files, tables, docs, manager, conn, req, used, orphans>>

Init ==
    /\ files = {} /\ erasing = {} /\ rows = {}
    /\ shown = [p \in Products |-> None] /\ docs = [p \in Products |-> None]
    /\ avatar = [u \in Users |-> None]
    /\ manager = None
    /\ conn = [r \in Requests |-> <<>>] /\ req = [r \in Requests |-> Idle]
    /\ used = {} /\ byHand = {} /\ orphans = {}

Start(r) ==
    \/ \E p \in Products, n \in 0..MaxFiles :
         StartCreate(r, p, n) \/ \E gone \in SUBSET Listed(p) : StartUpdate(r, p, n, gone)
    \/ \E u \in Users : StartAvatar(r, u)
    \/ \E n \in 1..MaxFiles : StartUpload(r, n)

Step(r) ==
    \/ Upload(r) \/ StoreAlone(r) \/ ReadDoc(r) \/ Fetch(r) \/ Uncache(r) \/ Cache(r)
    \/ StoreAvatar(r) \/ Reject(r)

Answer(c) ==
    \/ LoadMedia(c) \/ InsertMedia(c)
    \/ FindMedia(c) \/ ReloadMedia(c) \/ DeleteMedia(c)
    \/ SelectProduct(c) \/ WriteProduct(c) \/ Commit(c) \/ Rollback(c)

Next ==
    \/ \E r \in Requests : Start(r) \/ Step(r) \/ Answer(r)
    \/ \E k \in Keys : Erase(k) \/ Discard(k)
    \/ Restart

Spec == Init /\ [][Next]_vars

-----------------------------------------------------------------------------
(* Properties.                                                             *)

TypeOK ==
    /\ erasing \subseteq used /\ files \subseteq used /\ rows \subseteq used
    /\ shown \in [Products -> (SUBSET Keys) \cup {None}]
    /\ docs \in [Products -> (SUBSET Keys) \cup {None}]
    /\ avatar \in [Users -> Keys \cup {None}]
    /\ manager \in Requests \cup {None, Released}
    /\ conn \in [Requests -> Seq(Stmt)]
    /\ req \in [Requests -> ReqType]
    /\ used \subseteq Keys /\ byHand \subseteq used
    /\ orphans \in (SUBSET used) \cup {Unknown}

\* A committed row has its file in S3, whoever's transaction it went through and
\* however that ended, unless the file was deleted through /media/delete.
RowHasFile == rows \subseteq files \cup byHand

\* The deletions that updateProduct does not wait for are sent before its COMMIT.
RemovalsBeforeCommit ==
    \A c \in Requests : \A i, j \in 1..Len(conn[c]) :
        i < j /\ conn[c][i].op = "commit" => conn[c][j].op \notin Removals

Calm == orphans # Unknown
Quiet == \A r \in Requests : req[r] = Idle /\ conn[r] = <<>>

\* After calm requests, failed ones included, S3 holds no file without a row, apart from
\* those that a released manager refused.
QuietFilesHaveRows == Calm /\ Quiet /\ erasing = {} => files \subseteq rows \cup orphans

\* After calm requests every thumbnail of a product, and every avatar, has its row.
QuietLinksHaveRows ==
    Calm /\ Quiet =>
        /\ \A p \in Products : shown[p] # None => shown[p] \subseteq rows
        /\ \A u \in Users : avatar[u] # None => avatar[u] \in rows

Life == INSTANCE MediaLife WITH life <-
    [k \in Keys |-> IF k \notin used THEN "absent"
                    ELSE IF k \in rows THEN IF k \in files THEN "kept" ELSE "lost"
                    ELSE IF k \in files THEN "stored" ELSE "gone"]

\* The life of every file is the one that MediaLife promises.
LifeSpec == Life!Spec
=============================================================================
