-------------------------- MODULE MediaQuietProofs --------------------------
(* What calm requests leave behind in Media: no file without a row, and no  *)
(* link without one.                                                       *)
EXTENDS MediaProofs

USE MediaAssumption

-----------------------------------------------------------------------------
(* The inductive invariant, on top of Core.                                *)

\* Products and users link to files.
Owners == ({"product"} \X Products) \cup ({"user"} \X Users)

LinksOf(o) ==
    IF o[1] = "product" THEN IF shown[o[2]] = None THEN {} ELSE shown[o[2]]
    ELSE {avatar[o[2]]} \ {None}

Links == [o \in Owners |-> LinksOf(o)]

\* Whose links a request changes.
Target(q) == IF q.kind \in ProductKinds THEN <<"product", q.what>> ELSE <<"user", q.what>>

\* The links that it will put in their place,
New(q) ==
    IF q.kind = "avatar"
    THEN IF q.pc \in {"drop", "commit", "broken", "store"} THEN {q.key} ELSE {}
    ELSE q.thumbs

\* and those whose rows it has deleted or looks for to delete.
Leaving(q, s) == q.removed \cup {a.key : a \in {b \in On(s) : b.op \in Removals}}

Early == {"upload", "alone", "save", "readDoc"}

\* It takes its new links from nobody else, and before it has read the document of its product
\* not from there either; it keeps their rows.  It deletes only rows of its old links, and none
\* that early.  R are the rows and L the links as they are.
Bound(q, s, R, L) ==
    /\ \A o \in Owners : o # Target(q) \/ q.pc \in Early => New(q) \cap L[o] = {}
    /\ New(q) \cap Leaving(q, s) = {}
    /\ IF q.kind = "upload" \/ q.pc \in Early THEN Leaving(q, s) = {}
       ELSE Leaving(q, s) \subseteq L[Target(q)]
    /\ q.kind # "upload" => New(q) \subseteq R \cup q.inserted
    /\ q.kind = "avatar" => q.gone \subseteq L[Target(q)]

\* Nothing is sent behind a rollback.
Final(s) == \A i, j \in 1..Len(s) : i < j => s[i].op # "rollback"

\* No removal is left to be answered behind the rollback, which would take effect by itself.
\* P and D are the products' links and documents.
Staged(q, s, P, D) ==
    /\ q.pc = "fetch" => P[q.what] # None
    /\ q.pc \in {"undo", "broken"} => \A a \in On(s) : a.op \notin {"find", "reload"}
    /\ Final(s)
    /\ q.pc = "commit" /\ q.kind \in ProductKinds => D[q.what] = q.thumbs

Single ==
    /\ \A q, r \in Requests : req[q] # Idle /\ req[r] # Idle => q = r
    /\ \A r \in Requests : req[r] = Idle => conn[r] = <<>>

\* Every file has a row, was refused one, is about to be erased, or is on its way.
Accounted ==
    \A k \in files : \/ k \in rows \cup orphans \cup erasing
                     \/ \E r \in Requests : k \in Pending(req[r]) \cup Inserted(req[r])

Doing(pc, o) == \E r \in Requests : req[r].pc = pc /\ Target(req[r]) = o

\* Links have rows, but for an avatar that is about to be replaced; nobody shares one; a
\* document shows its product, or what is about to be committed.
Linked ==
    /\ \A o \in Owners : Links[o] \subseteq rows \/ Doing("store", o)
    /\ \A o, x \in Owners : o # x => Links[o] \cap Links[x] = {}
    /\ \A p \in Products : docs[p] \in {None, shown[p]} \/ Doing("commit", <<"product", p>>)

Peace ==
    /\ Single /\ Accounted /\ Linked
    /\ \A r \in Requests : req[r] # Idle => /\ Bound(req[r], conn[r], rows, Links)
                                            /\ Staged(req[r], conn[r], shown, docs)

CalmInv == Calm => Peace

-----------------------------------------------------------------------------
(* What is on the one connection in use.                                   *)

LEMMA FinalShort ==
    ASSUME NEW s \in Seq(Stmt), Len(s) <= 1
    PROVE  Final(s)
  BY DEF Final

LEMMA FinalAppend ==
    ASSUME NEW s \in Seq(Stmt), NEW e \in Stmt, Final(s), \A a \in On(s) : a.op # "rollback"
    PROVE  Final(Append(s, e))
  <1> DEFINE t == Append(s, e)
  <1>1. /\ Len(t) = Len(s) + 1 /\ Len(s) \in Nat
        /\ \A i \in 1..Len(s) : t[i] = s[i]
    BY AppendProperties
  <1> HIDE DEF t
  <1>2. ASSUME NEW i \in 1..Len(t), NEW j \in 1..Len(t), i < j PROVE t[i].op # "rollback"
    <2>1. i \in 1..Len(s)
      BY <1>1, <1>2
    <2> QED BY <1>1, <2>1 DEF On
  <1>3. Final(t)
    BY <1>2 DEF Final
  <1> QED BY <1>3 DEF t

LEMMA FinalTail ==
    ASSUME NEW s \in Seq(Stmt), s # <<>>, Final(s)
    PROVE  Final(Tail(s)) /\ (Head(s).op = "rollback" => Tail(s) = <<>>)
  <1> DEFINE t == Tail(s)
  <1>1. /\ t \in Seq(Stmt) /\ Len(t) = Len(s) - 1 /\ Len(s) \in Nat \ {0}
        /\ Head(s) = s[1]
        /\ \A i \in 1..Len(t) : t[i] = s[i + 1]
    BY HeadTailProperties, EmptySeq
  <1> HIDE DEF t
  <1>2. ASSUME NEW i \in 1..Len(t), NEW j \in 1..Len(t), i < j PROVE t[i].op # "rollback"
    <2>1. i + 1 \in 1..Len(s) /\ j + 1 \in 1..Len(s) /\ i + 1 < j + 1
      BY <1>1, <1>2
    <2> QED BY <1>1, <2>1 DEF Final
  <1>3. Final(t)
    BY <1>2 DEF Final
  <1>4. ASSUME Head(s).op = "rollback" PROVE t = <<>>
    <2>1. ~(2 \in 1..Len(s))
      BY <1>1, <1>4 DEF Final
    <2>2. Len(t) = 0
      BY <1>1, <2>1
    <2> QED BY <1>1, <2>2, EmptySeq
  <1> QED BY <1>3, <1>4 DEF t

\* The statement that is answered is of the one request in flight, in its transaction.
LEMMA InUse ==
    ASSUME Core, Single, NEW c \in Requests, conn[c] # <<>>
    PROVE  /\ req[c].pc # "idle" /\ req[c] # Idle /\ InTransaction(c)
           /\ Head(conn[c]).by = c
           /\ \A x \in Requests : x # c => req[x] = Idle /\ conn[x] = <<>>
  <1>1. /\ req[c] # Idle /\ req \in [Requests -> ReqType]
        /\ \A x \in Requests : x # c => req[x] = Idle /\ conn[x] = <<>>
    BY DEF Single, Core, Wired
  <1>2. req[c].pc # "idle"
    BY <1>1, Busy
  <1>3. /\ Apart(req[c], conn[c]) /\ req[c] \in BusyType /\ ReqOf(req[c])
        /\ InTransaction(c) <=> \/ req[c].kind \in ProductKinds
                                \/ req[c].pc \in {"drop", "commit", "broken"}
    BY <1>2, ReqFacts
  <1>4. InTransaction(c)
    BY <1>1, <1>3 DEF Apart
  <1>5. PICK D : D = Answered(c)
    OBVIOUS
  <1>6. Head(conn[c]) \in Stmt /\ StmtOf(req, c, Head(conn[c]))
    BY <1>5, Answers
  <1>7. PICK s : s = Head(conn[c])
    OBVIOUS
  <1>8. s \in Stmt /\ StmtOf(req, c, s)
    BY <1>6, <1>7
  <1>9. s.by = c
    <2>1. CASE s.op \in Saves
      <3>1. s.by \in Requests /\ req[s.by].pc = "save"
        BY <1>8, <2>1 DEF StmtOf, Stmt
      <3>2. req[s.by] # Idle
        BY <3>1 DEF Idle
      <3> QED BY <1>1, <3>1, <3>2
    <2>2. CASE s.op \notin Saves
      BY <1>8, <2>2 DEF StmtOf
    <2> QED BY <2>1, <2>2
  <1> QED BY <1>1, <1>2, <1>4, <1>7, <1>9

-----------------------------------------------------------------------------
(* What a step of the one request in flight must keep.                     *)

LEMMA LinksStay ==
    ASSUME UNCHANGED <<shown, avatar>>
    PROVE  Links' = Links
  BY DEF Links, LinksOf

\* A product's or a user's links are keys.
LEMMA LinkFacts ==
    ASSUME Core
    PROVE  /\ \A p \in Products : <<"product", p>> \in Owners
           /\ \A u \in Users : <<"user", u>> \in Owners
           /\ \A p \in Products : Links[<<"product", p>>] = IF shown[p] = None THEN {} ELSE shown[p]
           /\ \A u \in Users : Links[<<"user", u>>] = {avatar[u]} \ {None}
           /\ \A o \in Owners : Links[o] \subseteq Keys
  <1>1. /\ \A p \in Products : <<"product", p>> \in Owners
        /\ \A u \in Users : <<"user", u>> \in Owners
    BY DEF Owners
  <1>2. \A o \in Owners : Links[o] = LinksOf(o)
    BY DEF Links
  <1>3. \A p \in Products : LinksOf(<<"product", p>>) = IF shown[p] = None THEN {} ELSE shown[p]
    BY DEF LinksOf
  <1>4. \A u \in Users : LinksOf(<<"user", u>>) = {avatar[u]} \ {None}
    BY DEF LinksOf
  <1>5. ASSUME NEW p \in Products PROVE Links[<<"product", p>>] \subseteq Keys
    <2>1. Links[<<"product", p>>] = IF shown[p] = None THEN {} ELSE shown[p]
      BY <1>1, <1>2, <1>3
    <2>2. shown[p] \in (SUBSET Keys) \cup {None}
      BY DEF Core, TypeOK
    <2> QED BY <2>1, <2>2
  <1>6. ASSUME NEW x \in Users PROVE Links[<<"user", x>>] \subseteq Keys
    <2>1. Links[<<"user", x>>] = {avatar[x]} \ {None}
      BY <1>1, <1>2, <1>4
    <2>2. avatar[x] \in Keys \cup {None}
      BY DEF Core, TypeOK
    <2> QED BY <2>1, <2>2
  <1>7. \A o \in Owners : Links[o] \subseteq Keys
    BY <1>5, <1>6 DEF Owners
  <1> QED BY <1>1, <1>2, <1>3, <1>4, <1>7

LEMMA BoundGoes ==
    ASSUME NEW q, NEW s, NEW t, NEW u, NEW R, NEW S, NEW L, Bound(q, s, R, L),
           t.kind = q.kind, t.what = q.what, New(t) \subseteq New(q),
           Leaving(t, u) \subseteq Leaving(q, s), R \cup q.inserted \subseteq S \cup t.inserted,
           t.gone \subseteq q.gone, t.pc \in Early => q.pc \in Early
    PROVE  Bound(t, u, S, L)
  <1>1. Target(t) = Target(q)
    BY DEF Target
  <1> QED BY <1>1 DEF Bound

\* Only r is in flight, and goes on.
LEMMA PeaceGoes ==
    ASSUME Single, NEW r \in Requests, req[r] # Idle,
           \A x \in Requests : x # r => req'[x] = req[x] /\ conn'[x] = conn[x],
           req'[r] = Idle => conn'[r] = <<>>,
           req'[r] # Idle => /\ Bound(req'[r], conn'[r], rows', Links')
                             /\ Staged(req'[r], conn'[r], shown', docs'),
           Accounted', Linked'
    PROVE  Peace'
  <1>1. \A x \in Requests : x # r => req'[x] = Idle /\ conn'[x] = <<>>
    BY DEF Single
  <1>2. Single'
    BY <1>1 DEF Single
  <1>3. \A x \in Requests : req'[x] # Idle => /\ Bound(req'[x], conn'[x], rows', Links')
                                              /\ Staged(req'[x], conn'[x], shown', docs')
    BY <1>1
  <1> QED BY <1>2, <1>3 DEF Peace

\* Links and documents stay as they are, and no row goes.
LEMMA LinkedStays ==
    ASSUME Single, Linked, NEW r \in Requests, req[r].pc \notin {"idle", "store"},
           req[r].pc = "commit" => req'[r].pc = "commit" /\ Target(req'[r]) = Target(req[r]),
           UNCHANGED <<shown, avatar, docs>>, rows \subseteq rows'
    PROVE  Linked'
  <1>1. \A x \in Requests : x # r => req[x] = Idle
    BY DEF Single, Idle
  <1>2. \A x \in Requests : req[x].pc # "store" /\ (req[x].pc = "commit" => x = r)
    BY <1>1 DEF Idle
  <1>3. Links' = Links
    BY LinksStay
  <1>4. \A o \in Owners : Links'[o] \subseteq rows'
    BY <1>2, <1>3 DEF Linked, Doing
  <1>5. \A o, x \in Owners : o # x => Links'[o] \cap Links'[x] = {}
    BY <1>3 DEF Linked
  <1>6. \A p \in Products : docs'[p] \in {None, shown'[p]} \/ Doing("commit", <<"product", p>>)'
    <2> SUFFICES ASSUME NEW p \in Products, Doing("commit", <<"product", p>>)
                 PROVE  Doing("commit", <<"product", p>>)'
      BY DEF Linked
    <2>1. req[r].pc = "commit" /\ Target(req[r]) = <<"product", p>>
      BY <1>2 DEF Doing
    <2> QED BY <2>1 DEF Doing
  <1> QED BY <1>4, <1>5, <1>6 DEF Linked

\* What r has on its way gets its row, or stays there.
LEMMA AccountedStays ==
    ASSUME Single, Accounted, NEW r \in Requests, req[r] # Idle,
           UNCHANGED <<files, erasing, orphans>>, rows \subseteq rows',
           \A k \in Pending(req[r]) \cup Inserted(req[r]) :
               k \in rows' \/ k \in Pending(req'[r]) \cup Inserted(req'[r])
    PROVE  Accounted'
  <1>1. \A x \in Requests : x # r => req[x] = Idle
    BY DEF Single
  <1>2. \A x \in Requests : x # r => Pending(req[x]) \cup Inserted(req[x]) = {}
    BY <1>1 DEF Pending, Inserted, Idle
  <1>3. ASSUME NEW k \in files
        PROVE  \/ k \in rows' \cup orphans' \cup erasing'
               \/ \E x \in Requests : k \in Pending(req'[x]) \cup Inserted(req'[x])
    <2>1. CASE k \in rows \cup orphans \cup erasing
      BY <2>1
    <2>2. CASE \E x \in Requests : k \in Pending(req[x]) \cup Inserted(req[x])
      BY <1>2, <2>2
    <2> QED BY <1>3, <2>1, <2>2 DEF Accounted
  <1> QED BY <1>3 DEF Accounted

\* Most steps change nothing else.
LEMMA PeaceStays ==
    ASSUME Core, Peace, NEW r \in Requests, req[r].pc \notin {"idle", "store"},
           req[r].pc = "commit" => req'[r].pc = "commit" /\ Target(req'[r]) = Target(req[r]),
           UNCHANGED <<files, erasing, orphans, shown, avatar, docs>>, rows \subseteq rows',
           \A x \in Requests : x # r => req'[x] = req[x] /\ conn'[x] = conn[x],
           req'[r] = Idle => conn'[r] = <<>>,
           req'[r] # Idle => /\ Bound(req'[r], conn'[r], rows', Links)
                             /\ Staged(req'[r], conn'[r], shown, docs),
           \A k \in Pending(req[r]) \cup Inserted(req[r]) :
               k \in rows' \/ k \in Pending(req'[r]) \cup Inserted(req'[r])
    PROVE  Peace'
  <1>1. req[r] # Idle
    BY ReqFacts
  <1>2. Accounted'
    BY <1>1, AccountedStays DEF Peace
  <1>3. Linked'
    BY LinkedStays DEF Peace
  <1>4. Links' = Links
    BY LinksStay
  <1> QED BY <1>1, <1>2, <1>3, <1>4, PeaceGoes DEF Peace

\* A call was rejected: in a transaction r sends a rollback behind what is left.
LEMMA FailEnds ==
    ASSUME NEW r \in Requests, NEW pc \in {"undo", "broken"},
           NEW Q, NEW C,
           Q \in [Requests -> ReqType], C \in [Requests -> Seq(Stmt)], Q[r] \in BusyType,
           InTransaction(r), Fail(r, Q, C, pc),
           Q[r].kind = "avatar" => Q[r].pc = "drop" /\ pc = "broken",
           Bound(Q[r], C[r], rows, Links), Final(C[r]),
           \A a \in On(C[r]) : a.op \notin {"rollback", "find", "reload"}
    PROVE  /\ req'[r] # Idle
           /\ \A x \in Requests : x # r => req'[x] = Q[x] /\ conn'[x] = C[x]
           /\ Bound(req'[r], conn'[r], rows, Links) /\ Staged(req'[r], conn'[r], shown, docs)
           /\ Pending(req'[r]) = {} /\ Inserted(req'[r]) = Q[r].inserted
  <1> DEFINE e == [by |-> r, op |-> "rollback", key |-> None]
  <1>1. /\ req' = [Q EXCEPT ![r].pc = pc, ![r].thumbs = {}, ![r].gone = {}]
        /\ conn' = [C EXCEPT ![r] = Append(@, e)]
    BY DEF Fail, Send
  <1>2. e \in Stmt /\ e.op = "rollback"
    BY DEF Stmt
  <1> HIDE DEF e
  <1>3. PICK t : t = req'[r]
    OBVIOUS
  <1>4. PICK u : u = conn'[r]
    OBVIOUS
  <1>5. t = [Q[r] EXCEPT !.pc = pc, !.thumbs = {}, !.gone = {}]
    BY <1>1, <1>3
  <1>6. t.pc = pc /\ t.kind = Q[r].kind /\ t.what = Q[r].what /\ t.thumbs = {} /\ t.gone = {}
    BY <1>5 DEF BusyType
  <1>7. t.key = Q[r].key /\ t.inserted = Q[r].inserted /\ t.removed = Q[r].removed
    BY <1>5 DEF BusyType
  <1>8. t \in BusyType
    BY <1>5 DEF BusyType, Places
  <1>9. u = Append(C[r], e) /\ \A x \in Requests : x # r => req'[x] = Q[x] /\ conn'[x] = C[x]
    BY <1>1, <1>4
  <1>10. On(u) = On(C[r]) \cup {e}
    BY <1>2, <1>9, OnAppend
  <1>11. Final(u)
    BY <1>2, <1>9, FinalAppend
  <1>12. t # Idle
    BY <1>8, Busy, BusyIsReq
  <1>13. Leaving(t, u) \subseteq Leaving(Q[r], C[r])
    BY <1>2, <1>7, <1>10 DEF Leaving, Removals
  <1>14. New(t) \subseteq New(Q[r])
    BY <1>6, <1>7 DEF New
  <1>15. Bound(t, u, rows, Links)
    <2>1. t.pc \notin Early
      BY <1>6 DEF Early
    <2> QED BY <1>6, <1>7, <1>13, <1>14, <2>1, BoundGoes
  <1>16. Staged(t, u, shown, docs)
    BY <1>2, <1>6, <1>10, <1>11 DEF Staged
  <1>17. Pending(t) = {} /\ Inserted(t) = Q[r].inserted
    BY <1>6, <1>7, <1>12 DEF Pending, Inserted
  <1> QED BY <1>3, <1>4, <1>9, <1>12, <1>15, <1>16, <1>17

\* The media of r are stored, with a key that nothing links to yet: r takes it for a link.
LEMMA UploadedEnds ==
    ASSUME NEW r \in Requests, NEW Q, NEW C,
           Q \in [Requests -> ReqType], C \in [Requests -> Seq(Stmt)], Q[r] \in BusyType,
           ReqOf(Q[r]), Apart(Q[r], C[r]), Q[r].pc \in {"alone", "save"},
           Uploaded(r, Q, C), Bound(Q[r], C[r], rows, Links), Final(C[r]),
           \A a \in On(C[r]) : a.op \notin Removals \cup Own,
           rows \subseteq rows', Q[r].key \in rows' \cup Q[r].inserted,
           \A o \in Owners : Q[r].key \notin Links[o]
    PROVE  /\ \A x \in Requests : x # r => req'[x] = Q[x] /\ conn'[x] = C[x]
           /\ req'[r] = Idle => conn'[r] = <<>> /\ Q[r].inserted = {}
           /\ req'[r] # Idle => /\ Bound(req'[r], conn'[r], rows', Links) /\ Staged(req'[r], conn'[r], shown, docs)
                                /\ Inserted(req'[r]) = Q[r].inserted
  <1> DEFINE k == Q[r].key
             done == [Q EXCEPT ![r].left = @ - 1, ![r].thumbs = @ \cup {k}]
  <1>1. PICK t : t = req'[r]
    OBVIOUS
  <1>2. PICK u : u = conn'[r]
    OBVIOUS
  <1>3. Q[r] # Idle /\ Q[r].left >= 1 /\ k \in Keys
    BY Busy, BusyIsReq DEF ReqOf
  <1>4. Q[r].kind # "upload" => Target(Q[r]) \in Owners /\ k \notin Links[Target(Q[r])]
    <2>1. Q[r].kind # "upload" => Target(Q[r]) \in Owners
      BY DEF BusyType, ReqOf, ProductKinds, Target, Owners
    <2> QED BY <2>1
  \* It goes on to pc, and u is what there is to be answered.
  <1>5. ASSUME NEW pc \in {"upload", "write", "readDoc", "store", "drop"},
               req' = [done EXCEPT ![r].pc = pc],
               pc \in {"store", "drop"} => Q[r].kind = "avatar",
               Leaving(Q[r], u) \subseteq Leaving(Q[r], C[r]) \cup (IF Q[r].kind = "avatar" THEN Q[r].gone ELSE {}),
               Final(u), pc \in {"upload", "readDoc"} => u = C[r]
        PROVE  /\ \A x \in Requests : x # r => req'[x] = Q[x]
               /\ t # Idle /\ Bound(t, u, rows', Links) /\ Staged(t, u, shown, docs) /\ Inserted(t) = Q[r].inserted
    <2>1. /\ t = [Q[r] EXCEPT !.left = @ - 1, !.thumbs = @ \cup {k}, !.pc = pc]
          /\ \A x \in Requests : x # r => req'[x] = Q[x]
      BY <1>1, <1>5
    <2>2. t.pc = pc /\ t.kind = Q[r].kind /\ t.what = Q[r].what /\ t.key = k
      BY <2>1 DEF BusyType
    <2>3. t.thumbs = Q[r].thumbs \cup {k} /\ t.gone = Q[r].gone
      BY <2>1 DEF BusyType
    <2>4. t.inserted = Q[r].inserted /\ t.removed = Q[r].removed
      BY <2>1 DEF BusyType
    <2>5. t # Idle
      BY <2>2 DEF Idle
    <2>6. Target(t) = Target(Q[r])
      BY <2>2 DEF Target
    <2>7. New(t) \subseteq New(Q[r]) \cup {k}
      BY <2>2, <2>3 DEF New
    <2>8. Leaving(t, u) = Leaving(Q[r], u)
      BY <2>4 DEF Leaving
    <2>9. Q[r].pc \in Early
      BY DEF Early
    <2>10. \A o \in Owners : New(t) \cap Links[o] = {}
      BY <2>7, <2>9 DEF Bound
    <2>11. Leaving(Q[r], C[r]) = {}
      BY <2>9 DEF Bound
    <2>12. IF t.kind = "upload" \/ t.pc \in Early THEN Leaving(t, u) = {}
           ELSE Leaving(t, u) \subseteq Links[Target(t)]
      BY <1>5, <2>2, <2>6, <2>8, <2>11 DEF Bound, Early
    <2>13. New(t) \cap Leaving(t, u) = {}
      BY <1>4, <2>2, <2>6, <2>10, <2>12
    <2>14. Q[r].kind # "upload" => New(t) \subseteq rows' \cup t.inserted
      BY <2>4, <2>7 DEF Bound
    <2>15. t.kind = "avatar" => t.gone \subseteq Links[Target(t)]
      BY <2>2, <2>3, <2>6 DEF Bound
    <2>16. Bound(t, u, rows', Links)
      BY <2>2, <2>10, <2>12, <2>13, <2>14, <2>15 DEF Bound
    <2>17. Staged(t, u, shown, docs)
      BY <1>5, <2>2 DEF Staged
    <2> QED BY <2>1, <2>4, <2>5, <2>16, <2>17 DEF Inserted
  <1>6. CASE /\ Q[r].kind = "upload"
             /\ req' = [Q EXCEPT ![r] = Idle] /\ conn' = C
    <2>1. C[r] = <<>>
      BY <1>3, <1>6 DEF Apart, ProductKinds
    <2>2. Q[r].inserted = {}
      BY <1>6 DEF ReqOf, ProductKinds
    <2>3. req'[r] = Idle /\ \A x \in Requests : x # r => req'[x] = Q[x]
      BY <1>6
    <2> QED BY <1>6, <2>1, <2>2, <2>3
  <1>7. CASE \E pc \in {"upload", "readDoc", "store"} :
                /\ req' = [done EXCEPT ![r].pc = pc] /\ conn' = C
                /\ pc = "store" => Q[r].kind = "avatar"
    <2>1. PICK pc \in {"upload", "readDoc", "store"} :
                /\ req' = [done EXCEPT ![r].pc = pc] /\ conn' = C
                /\ pc = "store" => Q[r].kind = "avatar"
      BY <1>7
    <2>2. u = C[r]
      BY <1>2, <2>1
    <2>3. Leaving(Q[r], u) \subseteq Leaving(Q[r], C[r]) \cup (IF Q[r].kind = "avatar" THEN Q[r].gone ELSE {})
      BY <2>2
    <2> QED BY <1>1, <1>2, <1>5, <2>1, <2>2, <2>3
  <1>8. CASE \E e \in Stmt : \E pc \in {"write", "drop"} :
                /\ req' = [done EXCEPT ![r].pc = pc]
                /\ conn' = [C EXCEPT ![r] = Append(@, e)]
                /\ e.op = "select" \/ (e.op = "find" /\ e.key \in Q[r].gone /\ Q[r].kind = "avatar")
                /\ pc = "drop" => Q[r].kind = "avatar"
    <2>1. PICK e \in Stmt, pc \in {"write", "drop"} :
                /\ req' = [done EXCEPT ![r].pc = pc]
                /\ conn' = [C EXCEPT ![r] = Append(@, e)]
                /\ e.op = "select" \/ (e.op = "find" /\ e.key \in Q[r].gone /\ Q[r].kind = "avatar")
                /\ pc = "drop" => Q[r].kind = "avatar"
      BY <1>8
    <2>2. u = Append(C[r], e) /\ \A x \in Requests : x # r => conn'[x] = C[x]
      BY <1>2, <2>1
    <2>3. On(u) = On(C[r]) \cup {e}
      BY <2>2, OnAppend
    <2>4. Final(u)
      BY <2>2, FinalAppend DEF Own
    <2>5. Leaving(Q[r], u) \subseteq Leaving(Q[r], C[r]) \cup (IF Q[r].kind = "avatar" THEN Q[r].gone ELSE {})
      BY <2>1, <2>3 DEF Leaving, Removals
    <2> QED BY <1>1, <1>2, <1>5, <2>1, <2>2, <2>4, <2>5
  <1>9. CASE Q[r].left > 1
    <2>1. req' = [done EXCEPT ![r].pc = "upload"] /\ conn' = C
      BY <1>9 DEF Uploaded
    <2> QED BY <1>7, <2>1
  <1>10. CASE ~(Q[r].left > 1) /\ Q[r].kind = "create"
    <2>1. PICK e : e = [by |-> r, op |-> "select", key |-> None]
      OBVIOUS
    <2>2. e \in Stmt /\ e.op = "select"
      BY <2>1 DEF Stmt
    <2>3. /\ req' = [done EXCEPT ![r].pc = "write"] /\ conn' = [C EXCEPT ![r] = Append(@, e)]
      BY <1>10, <2>1 DEF Uploaded, Send
    <2> QED BY <1>8, <2>2, <2>3
  <1>11. CASE ~(Q[r].left > 1) /\ Q[r].kind = "update"
    <2>1. req' = [done EXCEPT ![r].pc = "readDoc"] /\ conn' = C
      BY <1>11 DEF Uploaded
    <2> QED BY <1>7, <2>1
  <1>12. CASE ~(Q[r].left > 1) /\ Q[r].kind = "upload"
    <2>1. req' = [Q EXCEPT ![r] = Idle] /\ conn' = C
      BY <1>12 DEF Uploaded
    <2> QED BY <1>6, <1>12, <2>1
  <1>13. CASE ~(Q[r].left > 1) /\ Q[r].kind = "avatar" /\ Q[r].gone = {}
    <2>1. req' = [done EXCEPT ![r].pc = "store"] /\ conn' = C
      BY <1>13 DEF Uploaded
    <2> QED BY <1>7, <1>13, <2>1
  <1>14. CASE ~(Q[r].left > 1) /\ Q[r].kind = "avatar" /\ Q[r].gone # {}
    <2>1. PICK old \in Q[r].gone : /\ req' = [done EXCEPT ![r].pc = "drop"]
                                   /\ conn' = Send(C, r, r, "find", old)
      BY <1>14 DEF Uploaded
    <2>2. PICK e : e = [by |-> r, op |-> "find", key |-> old]
      OBVIOUS
    <2>3. old \in Keys
      BY DEF BusyType
    <2>4. e \in Stmt /\ e.op = "find" /\ e.key \in Q[r].gone
      BY <2>2, <2>3 DEF Stmt, Removals
    <2>5. conn' = [C EXCEPT ![r] = Append(@, e)]
      BY <2>1, <2>2 DEF Send
    <2> QED BY <1>8, <1>14, <2>1, <2>4, <2>5
  <1>15. Q[r].kind \in {"create", "update", "avatar", "upload"}
    BY DEF BusyType
  <1> QED BY <1>9, <1>10, <1>11, <1>12, <1>13, <1>14, <1>15

-----------------------------------------------------------------------------
(* A request goes on by itself.                                            *)

\* What is known of a request in flight.
LEMMA Peaceful ==
    ASSUME Core, Peace, NEW r \in Requests, req[r].pc # "idle"
    PROVE  /\ req[r] # Idle
           /\ Bound(req[r], conn[r], rows, Links) /\ Staged(req[r], conn[r], shown, docs)
           /\ Final(conn[r])
           /\ \A x \in Requests : x # r => req[x] = Idle /\ conn[x] = <<>>
  <1>1. req[r] # Idle
    BY ReqFacts
  <1> QED BY <1>1 DEF Peace, Single, Staged

\* Nothing links to a file whose row is still on its way.
LEMMA Unlinked ==
    ASSUME Core, Peace, NEW r \in Requests, NEW k \in Pending(req[r])
    PROVE  \A o \in Owners : k \notin Links[o]
  <1>1. req[r].pc \in {"alone", "save"}
    BY DEF Pending
  <1>2. \A x \in Requests : x # r => req[x] = Idle
    BY <1>1, Peaceful
  <1>3. \A x \in Requests : req[x].pc # "store"
    BY <1>1, <1>2 DEF Idle
  <1>4. \A o \in Owners : Links[o] \subseteq rows
    BY <1>3 DEF Peace, Linked, Doing
  <1>5. k \notin rows
    BY DEF Core, Placed, Stored
  <1> QED BY <1>4, <1>5

LEMMA StoreAlonePeace ==
    ASSUME Core, Peace, NEW r \in Requests, StoreAlone(r)
    PROVE  Peace'
  <1>1. /\ req[r].pc = "alone" /\ rows' = rows \cup {req[r].key} /\ Uploaded(r, req, conn)
        /\ UNCHANGED <<files, erasing, shown, avatar, docs, orphans>>
    BY DEF StoreAlone, history
  <1>2. /\ Bound(req[r], conn[r], rows, Links) /\ Final(conn[r]) /\ req[r] # Idle
    BY <1>1, Peaceful
  <1>3. /\ req \in [Requests -> ReqType] /\ conn \in [Requests -> Seq(Stmt)]
        /\ req[r] \in BusyType /\ ReqOf(req[r]) /\ Apart(req[r], conn[r])
        /\ \A a \in On(conn[r]) : a.op \notin Removals \cup Own
    BY <1>1, ReqFacts DEF StmtOf, Removable, Own
  <1>4. req[r].key \in Pending(req[r]) /\ Pending(req[r]) = {req[r].key}
    BY <1>1 DEF Pending
  <1>5. \A o \in Owners : req[r].key \notin Links[o]
    BY <1>4, Unlinked
  <1>6. /\ \A x \in Requests : x # r => req'[x] = req[x] /\ conn'[x] = conn[x]
        /\ req'[r] = Idle => conn'[r] = <<>> /\ req[r].inserted = {}
        /\ req'[r] # Idle => /\ Bound(req'[r], conn'[r], rows', Links)
                             /\ Staged(req'[r], conn'[r], shown, docs)
                             /\ Inserted(req'[r]) = req[r].inserted
    <2>1. rows \subseteq rows' /\ req[r].key \in rows' \cup req[r].inserted
      BY <1>1
    <2> QED BY <1>1, <1>2, <1>3, <1>5, <2>1, UploadedEnds
  <1>7. \A k \in Pending(req[r]) \cup Inserted(req[r]) :
               k \in rows' \/ k \in Pending(req'[r]) \cup Inserted(req'[r])
    BY <1>1, <1>2, <1>4, <1>6 DEF Inserted
  <1>8. rows \subseteq rows'
    BY <1>1
  <1> QED BY <1>1, <1>6, <1>7, <1>8, PeaceStays

LEMMA ReadDocPeace ==
    ASSUME Core, Peace, NEW r \in Requests, ReadDoc(r)
    PROVE  Peace'
  <1>1. /\ req[r].pc = "readDoc"
        /\ UNCHANGED <<files, erasing, rows, shown, avatar, docs, orphans>>
    BY DEF ReadDoc, history, tables
  <1>2. /\ Bound(req[r], conn[r], rows, Links) /\ Final(conn[r]) /\ req[r] # Idle
        /\ \A x \in Requests : x # r => req[x] = Idle
    BY <1>1, Peaceful
  <1>3. /\ req \in [Requests -> ReqType] /\ conn \in [Requests -> Seq(Stmt)]
        /\ req[r] \in BusyType /\ ReqOf(req[r]) /\ InTransaction(r)
        /\ req[r].kind \in ProductKinds /\ req[r].what \in Products
        /\ \A a \in On(conn[r]) : a.op \notin Removals \cup Own
    BY <1>1, ReqFacts DEF StmtOf, Removable, Own, ReqOf
  <1>4. Pending(req[r]) = {} /\ Inserted(req[r]) = req[r].inserted
    BY <1>1, <1>2 DEF Pending, Inserted
  <1>5. PICK p \in Products : p = req[r].what
    BY <1>3
  <1>6. PICK o \in Owners : o = <<"product", p>>
    BY LinkFacts
  <1>7. Target(req[r]) = o /\ Links[o] = IF shown[p] = None THEN {} ELSE shown[p]
    BY <1>3, <1>5, <1>6, LinkFacts DEF Target
  <1>8. docs[p] \in {None, shown[p]}
    <2>1. \A x \in Requests : req[x].pc # "commit"
      BY <1>1, <1>2 DEF Idle
    <2> QED BY <2>1 DEF Peace, Linked, Doing
  <1>9. CASE Fail(r, req, conn, "undo")
    <2>1. \A a \in On(conn[r]) : a.op \notin {"rollback", "find", "reload"}
      BY <1>3 DEF Removals, Own
    <2>2. req[r].kind # "avatar"
      BY <1>3 DEF ProductKinds
    <2>3. /\ req'[r] # Idle
          /\ \A x \in Requests : x # r => req'[x] = req[x] /\ conn'[x] = conn[x]
          /\ Bound(req'[r], conn'[r], rows, Links) /\ Staged(req'[r], conn'[r], shown, docs)
          /\ Inserted(req'[r]) = req[r].inserted
      BY <1>2, <1>3, <1>9, <2>1, <2>2, FailEnds
    <2> QED BY <1>1, <1>4, <2>3, PeaceStays
  <1>10. CASE /\ docs[p] # None
              /\ req' = [req EXCEPT ![r].pc = "fetch", ![r].gone = {},
                                    ![r].thumbs = @ \cup (docs[p] \ req[r].gone)]
              /\ \E finds \in SetToSeqs({[by |-> r, op |-> "find", key |-> k] :
                                            k \in docs[p] \cap req[r].gone}) :
                   conn' = [conn EXCEPT ![r] = @ \o finds]
    <2>1. shown[p] # None /\ docs[p] = shown[p] /\ docs[p] = Links[o] /\ docs[p] \subseteq Keys
      BY <1>7, <1>8, <1>10, LinkFacts
    <2>2. PICK K \in SUBSET Keys : K = docs[p] \cap req[r].gone
      BY <2>1
    <2>3. PICK finds \in SetToSeqs({[by |-> r, op |-> "find", key |-> k] : k \in K}) :
                   conn' = [conn EXCEPT ![r] = @ \o finds]
      BY <1>10, <2>2
    <2>4. /\ finds \in Seq(Stmt)
          /\ \A a \in On(finds) : a.by = r /\ a.op = "find" /\ a.key \in K
      BY Finds
    <2>5. PICK t : t = req'[r]
      OBVIOUS
    <2>6. PICK u : u = conn'[r]
      OBVIOUS
    <2>7. u = conn[r] \o finds /\ \A x \in Requests : x # r => conn'[x] = conn[x]
      BY <1>3, <2>3, <2>6
    <2>8. /\ t = [req[r] EXCEPT !.pc = "fetch", !.gone = {}, !.thumbs = @ \cup (docs[p] \ req[r].gone)]
          /\ \A x \in Requests : x # r => req'[x] = req[x]
      BY <1>3, <1>10, <2>5
    <2>9. t.pc = "fetch" /\ t.kind = req[r].kind /\ t.what = p /\ t.gone = {}
      BY <1>3, <1>5, <2>8 DEF BusyType
    <2>10. /\ t.thumbs = req[r].thumbs \cup (docs[p] \ req[r].gone)
           /\ t.inserted = req[r].inserted /\ t.removed = req[r].removed
      BY <1>3, <2>8 DEF BusyType
    <2>11. t # Idle
      BY <2>9 DEF Idle
    <2>12. Target(t) = o
      BY <1>3, <1>6, <2>9 DEF Target
    <2>13. /\ Final(u)
           /\ On(u) \subseteq On(conn[r]) \cup On(finds)
      <3>1. /\ Len(u) = Len(conn[r]) + Len(finds) /\ Len(conn[r]) \in Nat /\ Len(finds) \in Nat
            /\ \A i \in 1..Len(conn[r]) + Len(finds) :
                  u[i] = IF i <= Len(conn[r]) THEN conn[r][i] ELSE finds[i - Len(conn[r])]
        <4>1. conn[r] \in Seq(Stmt)
          BY <1>3
        <4> QED BY <2>4, <2>7, <4>1, ConcatProperties
      <3>2. \A i \in 1..Len(u) : u[i] \in On(conn[r]) \cup On(finds)
        <4> SUFFICES ASSUME NEW i \in 1..Len(u) PROVE u[i] \in On(conn[r]) \cup On(finds)
          OBVIOUS
        <4>1. CASE i <= Len(conn[r])
          BY <3>1, <4>1 DEF On
        <4>2. CASE ~(i <= Len(conn[r]))
          <5>1. i - Len(conn[r]) \in 1..Len(finds) /\ u[i] = finds[i - Len(conn[r])]
            BY <3>1, <4>2
          <5> QED BY <5>1 DEF On
        <4> QED BY <4>1, <4>2
      <3>3. On(u) \subseteq On(conn[r]) \cup On(finds)
        BY <3>2 DEF On
      <3>4. \A i \in 1..Len(u) : u[i].op # "rollback"
        BY <1>3, <2>4, <3>2 DEF Own
      <3> QED BY <3>3, <3>4 DEF Final
    <2>14. Leaving(t, u) \subseteq Leaving(req[r], conn[r]) \cup K
      BY <2>4, <2>10, <2>13 DEF Leaving
    <2>15. /\ \A x \in Owners : New(req[r]) \cap Links[x] = {}
           /\ New(req[r]) = req[r].thumbs /\ New(t) = t.thumbs
           /\ New(req[r]) \subseteq rows \cup req[r].inserted
           /\ Leaving(req[r], conn[r]) = {}
      BY <1>1, <1>2, <1>3, <2>9 DEF Bound, New, Early, ProductKinds
    <2>16. Links[o] \subseteq rows
      <3>1. \A x \in Requests : req[x].pc # "store"
        BY <1>1, <1>2 DEF Idle
      <3> QED BY <3>1 DEF Peace, Linked, Doing
    <2>17. /\ \A x \in Owners : x # o => New(t) \cap Links[x] = {}
           /\ New(t) \cap Leaving(t, u) = {}
           /\ Leaving(t, u) \subseteq Links[o]
           /\ New(t) \subseteq rows \cup t.inserted
      <3>1. \A x \in Owners : x # o => Links[o] \cap Links[x] = {}
        BY DEF Peace, Linked
      <3>2. \A x \in Owners : x # o => New(t) \cap Links[x] = {}
        BY <2>1, <2>10, <2>15, <3>1
      <3>3. Leaving(t, u) \subseteq Links[o] /\ Leaving(t, u) \subseteq req[r].gone
        BY <2>1, <2>2, <2>14, <2>15
      <3>4. New(t) \cap Leaving(t, u) = {}
        BY <2>10, <2>15, <3>3
      <3>5. New(t) \subseteq rows \cup t.inserted
        BY <2>1, <2>10, <2>15, <2>16
      <3> QED BY <3>2, <3>3, <3>4, <3>5
    <2>18. Bound(t, u, rows, Links)
      BY <1>3, <2>9, <2>12, <2>17 DEF Bound, Early, ProductKinds
    <2>19. Staged(t, u, shown, docs)
      BY <2>1, <2>9, <2>13 DEF Staged
    <2>20. Inserted(t) = req[r].inserted
      BY <2>10, <2>11 DEF Inserted
    <2> QED BY <1>1, <1>4, <2>5, <2>6, <2>7, <2>8, <2>11, <2>18, <2>19, <2>20, PeaceStays
  <1> QED BY <1>5, <1>9, <1>10 DEF ReadDoc

\* All the same but the place.
Alike(q, t) ==
    /\ t.kind = q.kind /\ t.what = q.what /\ t.key = q.key /\ t.thumbs = q.thumbs
    /\ t.gone = q.gone /\ t.inserted = q.inserted /\ t.removed = q.removed

LEMMA GoneTo ==
    ASSUME NEW r \in Requests, NEW pc, req \in [Requests -> ReqType], req[r] \in BusyType,
           req' = [req EXCEPT ![r].pc = pc], pc # "idle"
    PROVE  /\ Alike(req[r], req'[r]) /\ req'[r].pc = pc /\ req'[r] # Idle
           /\ \A x \in Requests : x # r => req'[x] = req[x]
  <1>1. PICK t : t = req'[r]
    OBVIOUS
  <1>2. t = [req[r] EXCEPT !.pc = pc] /\ \A x \in Requests : x # r => req'[x] = req[x]
    BY <1>1
  <1>3. t.kind = req[r].kind /\ t.what = req[r].what /\ t.key = req[r].key /\ t.pc = pc
    BY <1>2 DEF BusyType
  <1>4. t.thumbs = req[r].thumbs /\ t.gone = req[r].gone
    BY <1>2 DEF BusyType
  <1>5. t.inserted = req[r].inserted /\ t.removed = req[r].removed
    BY <1>2 DEF BusyType
  <1>6. t # Idle
    BY <1>3 DEF Idle
  <1> QED BY <1>1, <1>2, <1>3, <1>4, <1>5, <1>6 DEF Alike

\* Further on in a transaction r holds what it held.
LEMMA BoundOn ==
    ASSUME NEW q, NEW s, NEW t, NEW u, NEW e, Bound(q, s, rows, Links), Alike(q, t),
           On(u) \subseteq On(s) \cup {e}, e.op \notin Removals, t.pc \notin Early,
           q.kind = "avatar" => q.pc \in {"drop", "commit", "broken", "store"}
    PROVE  Bound(t, u, rows, Links)
  <1>1. t.kind = q.kind /\ t.what = q.what /\ New(t) \subseteq New(q)
    BY DEF Alike, New
  <1>2. Leaving(t, u) \subseteq Leaving(q, s)
    BY DEF Alike, Leaving
  <1>3. rows \cup q.inserted \subseteq rows \cup t.inserted /\ t.gone \subseteq q.gone
    BY DEF Alike
  <1> QED BY <1>1, <1>2, <1>3, BoundGoes

\* r goes on in its transaction, and sends e or nothing.
LEMMA OnwardPeace ==
    ASSUME Core, Peace, NEW r \in Requests, NEW e,
           req[r].pc \notin {"idle", "alone", "save", "store", "commit"},
           Alike(req[r], req'[r]), req'[r] # Idle,
           req'[r].pc \in {"write", "uncache", "cache", "commit"},
           req'[r].pc = "commit" => req[r].kind = "avatar",
           req[r].kind = "avatar" => req[r].pc = "drop",
           \A x \in Requests : x # r => req'[x] = req[x] /\ conn'[x] = conn[x],
           On(conn'[r]) \subseteq On(conn[r]) \cup {e}, e.op \notin Removals, Final(conn'[r]),
           UNCHANGED <<files, erasing, rows, orphans, shown, avatar, docs>>
    PROVE  Peace'
  <1>1. Bound(req[r], conn[r], rows, Links) /\ req[r] # Idle
    BY Peaceful
  <1>2. req'[r].pc \notin Early
    BY DEF Early
  <1>3. Bound(req'[r], conn'[r], rows, Links)
    BY <1>1, <1>2, BoundOn
  <1>4. Staged(req'[r], conn'[r], shown, docs)
    BY DEF Staged, Alike, ProductKinds
  <1>5. Pending(req[r]) = {} /\ Inserted(req[r]) = Inserted(req'[r])
    BY <1>1 DEF Pending, Inserted, Alike
  <1> QED BY <1>3, <1>4, <1>5, PeaceStays

LEMMA FetchPeace ==
    ASSUME Core, Peace, NEW r \in Requests, Fetch(r)
    PROVE  Peace'
  <1>1. /\ req[r].pc = "fetch"
        /\ UNCHANGED <<files, erasing, rows, shown, avatar, docs, orphans>>
    BY DEF Fetch, history, tables
  <1>2. /\ Staged(req[r], conn[r], shown, docs) /\ Final(conn[r])
    BY <1>1, Peaceful
  <1>3. /\ req \in [Requests -> ReqType] /\ conn \in [Requests -> Seq(Stmt)]
        /\ req[r] \in BusyType /\ req[r].kind \in ProductKinds
        /\ \A a \in On(conn[r]) : a.op # "rollback"
    BY <1>1, ReqFacts DEF StmtOf, ReqOf, Removals, Saves
  <1>4. PICK e : e = [by |-> r, op |-> "select", key |-> None]
    OBVIOUS
  <1>5. e \in Stmt /\ e.op \notin Removals
    BY <1>4 DEF Stmt, Removals
  <1>6. req' = [req EXCEPT ![r].pc = "write"] /\ conn' = [conn EXCEPT ![r] = Append(@, e)]
    BY <1>1, <1>2, <1>4 DEF Fetch, Send, Staged
  <1>7. /\ Alike(req[r], req'[r]) /\ req'[r].pc = "write" /\ req'[r] # Idle
        /\ \A x \in Requests : x # r => req'[x] = req[x]
    BY <1>3, <1>6, GoneTo
  <1>8. conn'[r] = Append(conn[r], e) /\ \A x \in Requests : x # r => conn'[x] = conn[x]
    BY <1>3, <1>6
  <1>9. On(conn'[r]) \subseteq On(conn[r]) \cup {e} /\ Final(conn'[r])
    BY <1>2, <1>3, <1>5, <1>8, OnAppend, FinalAppend
  <1>10. req[r].kind # "avatar"
    BY <1>3 DEF ProductKinds
  <1> QED BY <1>1, <1>5, <1>7, <1>8, <1>9, <1>10, OnwardPeace

\* Documents are deleted, or show what r is about to commit.
LEMMA LinkedDocs ==
    ASSUME Single, Linked, NEW r \in Requests, req[r].pc \notin {"idle", "store", "commit"},
           UNCHANGED <<shown, avatar, rows>>,
           \A p \in Products : \/ docs'[p] \in {docs[p], None}
                               \/ req'[r].pc = "commit" /\ Target(req'[r]) = <<"product", p>>
    PROVE  Linked'
  <1>1. \A x \in Requests : x # r => req[x] = Idle
    BY DEF Single, Idle
  <1>2. \A x \in Requests : req[x].pc \notin {"store", "commit"}
    BY <1>1 DEF Idle
  <1>3. Links' = Links
    BY LinksStay
  <1>4. \A o \in Owners : Links'[o] \subseteq rows'
    BY <1>2, <1>3 DEF Linked, Doing
  <1>5. \A o, x \in Owners : o # x => Links'[o] \cap Links'[x] = {}
    BY <1>3 DEF Linked
  <1>6. \A p \in Products : docs'[p] \in {None, shown'[p]} \/ Doing("commit", <<"product", p>>)'
    <2>1. \A p \in Products : docs[p] \in {None, shown[p]}
      BY <1>2 DEF Linked, Doing
    <2> QED BY <2>1 DEF Doing
  <1> QED BY <1>4, <1>5, <1>6 DEF Linked

LEMMA UncachePeace ==
    ASSUME Core, Peace, NEW r \in Requests, Uncache(r)
    PROVE  Peace'
  <1>1. /\ req[r].pc = "uncache" /\ docs' = [docs EXCEPT ![req[r].what] = None]
        /\ req' = [req EXCEPT ![r].pc = "cache"]
        /\ UNCHANGED <<files, erasing, rows, shown, avatar, conn, orphans>>
    BY DEF Uncache, history, tables
  <1>2. Bound(req[r], conn[r], rows, Links) /\ Final(conn[r]) /\ req[r] # Idle
    BY <1>1, Peaceful
  <1>3. /\ req \in [Requests -> ReqType]
        /\ req[r] \in BusyType /\ req[r].kind \in ProductKinds
    BY <1>1, ReqFacts DEF ReqOf
  <1>4. /\ Alike(req[r], req'[r]) /\ req'[r].pc = "cache" /\ req'[r] # Idle
        /\ \A x \in Requests : x # r => req'[x] = req[x]
    BY <1>1, <1>3, GoneTo
  <1>5. PICK e : e = [op |-> "select"]
    OBVIOUS
  <1>6. Bound(req'[r], conn[r], rows, Links)
    <2>1. req'[r].pc \notin Early /\ e.op \notin Removals /\ req[r].kind # "avatar"
      BY <1>3, <1>4, <1>5 DEF Early, Removals, ProductKinds
    <2> QED BY <1>2, <1>4, <2>1, BoundOn
  <1>7. Staged(req'[r], conn[r], shown', docs')
    BY <1>2, <1>4 DEF Staged
  <1>8. Pending(req[r]) = {} /\ Inserted(req[r]) = Inserted(req'[r])
    BY <1>1, <1>2, <1>4 DEF Pending, Inserted, Alike
  <1>9. Accounted'
    BY <1>1, <1>2, <1>8, AccountedStays DEF Peace
  <1>10. Linked'
    <2>1. \A p \in Products : docs'[p] \in {docs[p], None}
      BY <1>1 DEF Core, TypeOK
    <2> QED BY <1>1, <2>1, LinkedDocs DEF Peace
  <1>11. Links' = Links
    BY <1>1, LinksStay
  <1> QED BY <1>1, <1>2, <1>4, <1>6, <1>7, <1>9, <1>10, <1>11, PeaceGoes DEF Peace

LEMMA CachePeace ==
    ASSUME Core, Peace, NEW r \in Requests, Cache(r)
    PROVE  Peace'
  <1>1. PICK e : e = [by |-> r, op |-> "commit", key |-> None]
    OBVIOUS
  <1>2. /\ req[r].pc = "cache" /\ docs' = [docs EXCEPT ![req[r].what] = req[r].thumbs]
        /\ req' = [req EXCEPT ![r].pc = "commit"]
        /\ conn' = [conn EXCEPT ![r] = Append(@, e)]
        /\ UNCHANGED <<files, erasing, rows, shown, avatar, orphans>>
    BY <1>1 DEF Cache, Send, history, tables
  <1>3. Bound(req[r], conn[r], rows, Links) /\ Final(conn[r]) /\ req[r] # Idle
    BY <1>2, Peaceful
  <1>4. /\ req \in [Requests -> ReqType] /\ conn \in [Requests -> Seq(Stmt)]
        /\ req[r] \in BusyType /\ req[r].kind \in ProductKinds /\ req[r].what \in Products
        /\ \A a \in On(conn[r]) : a.op # "rollback"
    BY <1>2, ReqFacts DEF StmtOf, ReqOf, Removals, Saves
  <1>5. /\ Alike(req[r], req'[r]) /\ req'[r].pc = "commit" /\ req'[r] # Idle
        /\ \A x \in Requests : x # r => req'[x] = req[x]
    BY <1>2, <1>4, GoneTo
  <1>6. e \in Stmt /\ e.op \notin Removals
    BY <1>1 DEF Stmt, Removals
  <1>7. conn'[r] = Append(conn[r], e) /\ \A x \in Requests : x # r => conn'[x] = conn[x]
    BY <1>2, <1>4
  <1>8. On(conn'[r]) \subseteq On(conn[r]) \cup {e} /\ Final(conn'[r])
    BY <1>3, <1>4, <1>6, <1>7, OnAppend, FinalAppend
  <1>9. Bound(req'[r], conn'[r], rows, Links)
    <2>1. req'[r].pc \notin Early /\ req[r].kind # "avatar"
      BY <1>4, <1>5 DEF Early, ProductKinds
    <2> QED BY <1>3, <1>5, <1>6, <1>8, <2>1, BoundOn
  <1>10. PICK p \in Products : p = req[r].what
    BY <1>4
  <1>11. docs'[p] = req[r].thumbs /\ \A x \in Products : x # p => docs'[x] = docs[x]
    BY <1>2, <1>10 DEF Core, TypeOK
  <1>12. Staged(req'[r], conn'[r], shown', docs')
    BY <1>5, <1>8, <1>10, <1>11 DEF Staged, Alike
  <1>13. Pending(req[r]) = {} /\ Inserted(req[r]) = Inserted(req'[r])
    BY <1>2, <1>3, <1>5 DEF Pending, Inserted, Alike
  <1>14. Accounted'
    BY <1>2, <1>3, <1>13, AccountedStays DEF Peace
  <1>15. Linked'
    <2>1. Target(req'[r]) = <<"product", p>>
      BY <1>4, <1>5, <1>10 DEF Target, Alike
    <2> QED BY <1>2, <1>5, <1>11, <2>1, LinkedDocs DEF Peace
  <1>16. Links' = Links
    BY <1>2, LinksStay
  <1> QED BY <1>2, <1>3, <1>5, <1>7, <1>9, <1>12, <1>14, <1>15, <1>16, PeaceGoes DEF Peace

LEMMA StoreAvatarPeace ==
    ASSUME Core, Peace, NEW r \in Requests, StoreAvatar(r)
    PROVE  Peace'
  <1>1. /\ req[r].pc = "store" /\ avatar' = [avatar EXCEPT ![req[r].what] = req[r].key]
        /\ req' = [req EXCEPT ![r] = Idle]
        /\ UNCHANGED <<files, erasing, rows, shown, docs, conn, orphans>>
    BY DEF StoreAvatar, history
  <1>2. /\ Bound(req[r], conn[r], rows, Links) /\ req[r] # Idle
        /\ \A x \in Requests : x # r => req[x] = Idle
    BY <1>1, Peaceful
  <1>3. /\ req \in [Requests -> ReqType] /\ req[r].kind = "avatar" /\ req[r].what \in Users
        /\ req[r].key \in Keys /\ req[r].inserted = {} /\ conn[r] = <<>>
    BY <1>1, ReqFacts DEF ReqOf, Apart, ProductKinds
  <1>4. PICK u \in Users : u = req[r].what
    BY <1>3
  <1>5. PICK k \in Keys : k = req[r].key
    BY <1>3
  <1>6. PICK o \in Owners : o = <<"user", u>>
    BY LinkFacts
  <1>7. Target(req[r]) = o /\ New(req[r]) = {k}
    BY <1>1, <1>3, <1>4, <1>5, <1>6 DEF Target, New, ProductKinds
  <1>8. k \in rows /\ \A x \in Owners : x # o => k \notin Links[x]
    BY <1>2, <1>3, <1>7 DEF Bound
  <1>9. Links'[o] = {k} /\ \A x \in Owners : x # o => Links'[x] = Links[x]
    <2>1. avatar'[u] = k /\ \A x \in Users : x # u => avatar'[x] = avatar[x]
      BY <1>1, <1>4, <1>5 DEF Core, TypeOK
    <2>2. Links'[o] = LinksOf(o)' /\ LinksOf(o)' = {k}
      BY <1>6, <2>1 DEF Links, LinksOf
    <2>3. ASSUME NEW x \in Owners, x # o PROVE Links'[x] = Links[x]
      <3>1. Links'[x] = LinksOf(x)' /\ Links[x] = LinksOf(x)
        BY DEF Links
      <3>2. CASE \E p \in Products : x = <<"product", p>>
        BY <1>1, <3>1, <3>2 DEF LinksOf
      <3>3. CASE \E v \in Users : x = <<"user", v>>
        <4>1. PICK v \in Users : x = <<"user", v>>
          BY <3>3
        <4>2. v # u
          BY <1>6, <2>3, <4>1
        <4> QED BY <2>1, <3>1, <4>1, <4>2 DEF LinksOf
      <3> QED BY <3>2, <3>3 DEF Owners
    <2> QED BY <2>2, <2>3
  <1>10. /\ req'[r] = Idle /\ conn'[r] = <<>>
         /\ \A x \in Requests : x # r => req'[x] = req[x] /\ conn'[x] = conn[x]
    BY <1>1, <1>3
  <1>11. Linked'
    <2>1. ASSUME NEW x \in Owners, x # o PROVE Links[x] \subseteq rows
      <3>1. ~Doing("store", x)
        BY <1>2, <1>7, <2>1 DEF Doing, Idle
      <3> QED BY <3>1 DEF Peace, Linked
    <2>2. \A x \in Owners : Links'[x] \subseteq rows'
      BY <1>1, <1>8, <1>9, <2>1
    <2>3. \A x, y \in Owners : x # y => Links'[x] \cap Links'[y] = {}
      BY <1>8, <1>9 DEF Peace, Linked
    <2>4. \A p \in Products : docs[p] \in {None, shown[p]}
      <3>1. \A x \in Requests : req[x].pc # "commit"
        BY <1>1, <1>2 DEF Idle
      <3> QED BY <3>1 DEF Peace, Linked, Doing
    <2> QED BY <1>1, <2>2, <2>3, <2>4 DEF Linked
  <1>12. Accounted'
    <2>1. Pending(req[r]) = {} /\ Inserted(req[r]) = {}
      BY <1>1, <1>2, <1>3 DEF Pending, Inserted
    <2> QED BY <1>1, <1>2, <2>1, AccountedStays DEF Peace
  <1> QED BY <1>2, <1>10, <1>11, <1>12, PeaceGoes DEF Peace

\* A rejected call that leaves a doubt about what it has done ends the calm.
LEMMA RejectPeace ==
    ASSUME Core, Peace, NEW r \in Requests, Reject(r), Calm'
    PROVE  Peace'
  <1>1. /\ req[r].pc \in {"upload", "readDoc", "uncache", "cache"} /\ Fail(r, req, conn, "undo")
        /\ UNCHANGED <<files, erasing, rows, shown, avatar, docs, orphans>>
    BY DEF Reject, Calm, tables
  <1>2. /\ Bound(req[r], conn[r], rows, Links) /\ Final(conn[r]) /\ req[r] # Idle
    BY <1>1, Peaceful
  <1>3. /\ req \in [Requests -> ReqType] /\ conn \in [Requests -> Seq(Stmt)]
        /\ req[r] \in BusyType /\ ReqOf(req[r]) /\ Apart(req[r], conn[r])
        /\ InTransaction(r) <=> req[r].kind \in ProductKinds
        /\ \A a \in On(conn[r]) : a.op \notin {"rollback", "find", "reload"}
    BY <1>1, ReqFacts DEF StmtOf, Removable, Removals, Saves
  <1>4. Pending(req[r]) = {} /\ Inserted(req[r]) = req[r].inserted
    BY <1>1, <1>2 DEF Pending, Inserted
  <1>5. CASE InTransaction(r)
    <2>1. req[r].kind # "avatar"
      BY <1>3, <1>5 DEF ProductKinds
    <2>2. /\ req'[r] # Idle
          /\ \A x \in Requests : x # r => req'[x] = req[x] /\ conn'[x] = conn[x]
          /\ Bound(req'[r], conn'[r], rows, Links) /\ Staged(req'[r], conn'[r], shown, docs)
          /\ Inserted(req'[r]) = req[r].inserted
      BY <1>1, <1>2, <1>3, <1>5, <2>1, FailEnds
    <2> QED BY <1>1, <1>4, <2>2, PeaceStays
  <1>6. CASE ~InTransaction(r)
    <2>1. req' = [req EXCEPT ![r] = Idle] /\ conn' = conn
      BY <1>1, <1>6 DEF Fail
    <2>2. /\ req'[r] = Idle /\ conn[r] = <<>> /\ req[r].inserted = {}
          /\ \A x \in Requests : x # r => req'[x] = req[x]
      BY <1>1, <1>2, <1>3, <1>6, <2>1 DEF Apart, ReqOf
    <2> QED BY <1>1, <1>4, <2>1, <2>2, PeaceStays
  <1> QED BY <1>5, <1>6

LEMMA UploadPeace ==
    ASSUME Core, Peace, NEW r \in Requests, Upload(r), Calm'
    PROVE  Peace'
  <1>1. /\ req[r].pc = "upload"
        /\ UNCHANGED <<erasing, rows, shown, avatar, docs, manager>>
    BY DEF Upload, tables
  <1>2. /\ Bound(req[r], conn[r], rows, Links) /\ Final(conn[r]) /\ req[r] # Idle
        /\ \A x \in Requests : x # r => req[x] = Idle
    BY <1>1, Peaceful
  <1>3. /\ req \in [Requests -> ReqType] /\ conn \in [Requests -> Seq(Stmt)]
        /\ req[r] \in BusyType /\ ReqOf(req[r]) /\ Apart(req[r], conn[r])
        /\ InTransaction(r) <=> req[r].kind \in ProductKinds
        /\ OfProduct(r) <=> req[r].kind \in ProductKinds
        /\ \A a \in On(conn[r]) : a.op \notin {"rollback", "find", "reload"}
    BY <1>1, ReqFacts DEF StmtOf, Removable, Removals, Saves
  <1>4. PICK k \in Keys \ used :
             /\ files' = files \cup {k}
             /\ \/ /\ manager = None
                   /\ req' = [[req EXCEPT ![r].key = k] EXCEPT ![r].pc = "alone"]
                   /\ UNCHANGED <<conn, orphans>>
                \/ /\ Orphan(k)
                   /\ Fail(r, [req EXCEPT ![r].key = k], conn, "undo")
                \/ /\ manager \in Requests
                   /\ req' = [[req EXCEPT ![r].key = k] EXCEPT ![r].pc = "save"]
                   /\ conn' = Send(conn, manager, r, "load", k)
                   /\ UNCHANGED orphans
    BY DEF Upload
  <1>5. PICK Q : Q = [req EXCEPT ![r].key = k]
    OBVIOUS
  <1>6. PICK q : q = [req[r] EXCEPT !.key = k]
    OBVIOUS
  <1>7. /\ q \in BusyType /\ q.pc = "upload" /\ q.key = k
        /\ q.kind = req[r].kind /\ q.what = req[r].what /\ q.thumbs = req[r].thumbs
        /\ q.gone = req[r].gone /\ q.inserted = req[r].inserted /\ q.removed = req[r].removed
    <2>1. q \in BusyType /\ q.pc = "upload" /\ q.key = k /\ q.kind = req[r].kind
      BY <1>1, <1>3, <1>6 DEF BusyType
    <2>2. q.what = req[r].what /\ q.thumbs = req[r].thumbs /\ q.gone = req[r].gone
      BY <1>3, <1>6 DEF BusyType
    <2>3. q.inserted = req[r].inserted /\ q.removed = req[r].removed
      BY <1>3, <1>6 DEF BusyType
    <2> QED BY <2>1, <2>2, <2>3
  <1>8. /\ Q[r] = q /\ Q \in [Requests -> ReqType]
        /\ \A x \in Requests : x # r => Q[x] = req[x]
    BY <1>3, <1>5, <1>6, <1>7, BusyIsReq
  <1>9. New(q) = New(req[r]) /\ Leaving(q, conn[r]) = Leaving(req[r], conn[r])
    BY <1>1, <1>7 DEF New, Leaving
  <1>10. Bound(q, conn[r], rows, Links)
    <2>1. /\ q.pc \in Early => req[r].pc \in Early
          /\ rows \cup req[r].inserted \subseteq rows \cup q.inserted
      BY <1>1, <1>7
    <2> QED BY <1>2, <1>7, <1>9, <2>1, BoundGoes
  <1>11. Linked' /\ Links' = Links
    <2>1. rows \subseteq rows'
      BY <1>1
    <2> QED BY <1>1, <2>1, LinkedStays, LinksStay DEF Peace
  <1>12. Inserted(req[r]) = req[r].inserted /\ Pending(req[r]) = {}
         /\ \A x \in Requests : x # r => Pending(req[x]) \cup Inserted(req[x]) = {}
    BY <1>1, <1>2 DEF Inserted, Pending, Idle
  \* The new file is on its way, or refused.
  <1>13. ASSUME /\ orphans' = orphans \/ orphans' = orphans \cup {k}
                /\ k \in orphans' \cup Pending(req'[r])
                /\ req[r].inserted \subseteq Inserted(req'[r])
         PROVE  Accounted'
    <2> SUFFICES ASSUME NEW x \in files'
                 PROVE  \/ x \in rows' \cup orphans' \cup erasing'
                        \/ \E y \in Requests : x \in Pending(req'[y]) \cup Inserted(req'[y])
      BY DEF Accounted
    <2>1. CASE x = k
      BY <1>13, <2>1
    <2>2. CASE x \in files
      <3>1. \/ x \in rows \cup orphans \cup erasing
            \/ x \in Inserted(req[r])
        BY <1>12, <2>2 DEF Peace, Accounted
      <3> QED BY <1>1, <1>12, <1>13, <3>1
    <2> QED BY <1>4, <2>1, <2>2
  <1>14. CASE Orphan(k) /\ Fail(r, Q, conn, "undo")
    <2>1. orphans' = orphans \cup {k}
      BY <1>14 DEF Orphan, Calm
    <2>2. CASE InTransaction(r)
      <3>1. Q[r].kind # "avatar"
        BY <1>3, <1>7, <1>8, <2>2 DEF ProductKinds
      <3>2. /\ req'[r] # Idle
            /\ \A x \in Requests : x # r => req'[x] = Q[x] /\ conn'[x] = conn[x]
            /\ Bound(req'[r], conn'[r], rows, Links) /\ Staged(req'[r], conn'[r], shown, docs)
            /\ Inserted(req'[r]) = Q[r].inserted
        BY <1>2, <1>3, <1>7, <1>8, <1>10, <1>14, <2>2, <3>1, FailEnds
      <3>3. Accounted'
        BY <1>7, <1>8, <1>13, <2>1, <3>2
      <3> QED BY <1>1, <1>2, <1>8, <1>11, <3>2, <3>3, PeaceGoes DEF Peace
    <2>3. CASE ~InTransaction(r)
      <3>1. req' = [Q EXCEPT ![r] = Idle] /\ conn' = conn
        BY <1>14, <2>3 DEF Fail
      <3>2. /\ req'[r] = Idle /\ conn[r] = <<>> /\ req[r].inserted = {}
            /\ \A x \in Requests : x # r => req'[x] = req[x]
        BY <1>1, <1>2, <1>3, <1>8, <2>3, <3>1 DEF Apart, ReqOf
      <3>3. Accounted'
        BY <1>13, <2>1, <3>2
      <3> QED BY <1>1, <1>2, <1>11, <3>1, <3>2, <3>3, PeaceGoes DEF Peace
    <2> QED BY <2>2, <2>3
  <1>15. CASE /\ UNCHANGED orphans
              /\ \E pc \in {"alone", "save"} : req' = [Q EXCEPT ![r].pc = pc]
              /\ \/ conn' = conn
                 \/ manager \in Requests /\ conn' = Send(conn, manager, r, "load", k)
    <2>1. PICK pc \in {"alone", "save"} : req' = [Q EXCEPT ![r].pc = pc]
      BY <1>15
    <2>2. PICK t : t = req'[r]
      OBVIOUS
    <2>3. t = [q EXCEPT !.pc = pc] /\ \A x \in Requests : x # r => req'[x] = req[x]
      BY <1>8, <2>1, <2>2
    <2>4. t.pc = pc /\ t.key = k /\ t.kind = q.kind /\ t.what = q.what /\ t.thumbs = q.thumbs
      BY <1>7, <2>3 DEF BusyType
    <2>5. t.gone = q.gone /\ t.inserted = q.inserted /\ t.removed = q.removed
      BY <1>7, <2>3 DEF BusyType
    <2>6. t # Idle /\ Pending(t) = {k} /\ Inserted(t) = req[r].inserted
      BY <1>7, <2>4, <2>5 DEF Idle, Pending, Inserted
    <2>7. Accounted'
      BY <1>13, <1>15, <2>2, <2>6
    <2>8. /\ On(conn'[r]) \subseteq On(conn[r]) \cup {[by |-> r, op |-> "load", key |-> k]}
          /\ Final(conn'[r])
          /\ \A x \in Requests : x # r => conn'[x] = conn[x]
      <3>1. CASE conn' = conn
        BY <1>2, <3>1
      <3>2. CASE manager \in Requests /\ conn' = Send(conn, manager, r, "load", k)
        <4>1. manager = r
          BY <1>2, <3>2 DEF Core, Managed, OfProduct
        <4>2. PICK e : e = [by |-> r, op |-> "load", key |-> k]
          OBVIOUS
        <4>3. e \in Stmt
          BY <4>2 DEF Stmt
        <4>4. conn'[r] = Append(conn[r], e) /\ \A x \in Requests : x # r => conn'[x] = conn[x]
          BY <1>3, <3>2, <4>1, <4>2 DEF Send
        <4>5. On(conn'[r]) = On(conn[r]) \cup {e} /\ Final(conn'[r])
          BY <1>2, <1>3, <4>3, <4>4, OnAppend, FinalAppend
        <4> QED BY <4>2, <4>4, <4>5
      <3> QED BY <1>15, <3>1, <3>2
    <2>9. New(t) = New(q) /\ Leaving(t, conn'[r]) \subseteq Leaving(q, conn[r])
      BY <1>7, <2>4, <2>5, <2>8 DEF New, Leaving, Removals
    <2>10. Bound(t, conn'[r], rows, Links)
      <3>1. q.pc \in Early /\ rows \cup q.inserted \subseteq rows \cup t.inserted
        BY <1>7, <2>5 DEF Early
      <3> QED BY <1>10, <2>4, <2>5, <2>9, <3>1, BoundGoes
    <2>11. Staged(t, conn'[r], shown, docs)
      BY <2>4, <2>8 DEF Staged
    <2>12. /\ req'[r] # Idle
           /\ Bound(req'[r], conn'[r], rows', Links') /\ Staged(req'[r], conn'[r], shown', docs')
      BY <1>1, <1>11, <2>2, <2>6, <2>10, <2>11
    <2> QED BY <1>2, <1>11, <2>3, <2>7, <2>8, <2>12, PeaceGoes DEF Peace
  <1> QED BY <1>4, <1>5, <1>14, <1>15

-----------------------------------------------------------------------------
(* A connection answers.                                                   *)

\* What is known when the connection c has answered, of its request and of what is left.
LEMMA OnAnswer ==
    ASSUME Core, Peace, NEW c \in Requests, conn[c] # <<>>, NEW D, D = Answered(c)
    PROVE  /\ req \in [Requests -> ReqType] /\ D \in [Requests -> Seq(Stmt)]
           /\ req[c].pc # "idle" /\ req[c] # Idle /\ req[c] \in BusyType /\ ReqOf(req[c])
           /\ InTransaction(c) /\ Head(conn[c]).by = c /\ Head(conn[c]) \in Stmt
           /\ StmtOf(req, c, Head(conn[c])) /\ Head(conn[c]) \in On(conn[c])
           /\ \A x \in Requests : x # c => req[x] = Idle /\ D[x] = conn[x]
           /\ \A a \in On(conn[c]) : StmtOf(req, c, a)
  <1>1. /\ req[c].pc # "idle" /\ req[c] # Idle /\ InTransaction(c) /\ Head(conn[c]).by = c
        /\ \A x \in Requests : x # c => req[x] = Idle
    BY InUse DEF Peace
  <1>2. /\ Wired(req, D) /\ conn \in [Requests -> Seq(Stmt)] /\ D \in [Requests -> Seq(Stmt)]
        /\ \A x \in Requests : x # c => D[x] = conn[x]
        /\ Head(conn[c]) \in On(conn[c])
    BY Answers
  <1>3. Head(conn[c]) \in Stmt /\ StmtOf(req, c, Head(conn[c]))
    BY Answers
  <1>4. /\ req \in [Requests -> ReqType] /\ req[c] \in BusyType /\ ReqOf(req[c])
        /\ \A a \in On(conn[c]) : StmtOf(req, c, a)
    BY <1>1, ReqFacts
  <1> QED BY <1>1, <1>2, <1>3, <1>4

\* And what is left to be answered.
LEMMA Left ==
    ASSUME Core, Peace, NEW c \in Requests, conn[c] # <<>>, NEW D, D = Answered(c)
    PROVE  /\ On(D[c]) \subseteq On(conn[c]) /\ \A b \in On(D[c]) : InOrder(Head(conn[c]), b)
           /\ Final(D[c]) /\ (Head(conn[c]).op = "rollback" => D[c] = <<>>)
           /\ Bound(req[c], D[c], rows, Links) /\ Staged(req[c], D[c], shown, docs)
           /\ Apart(req[c], D[c])
  <1>1. req[c].pc # "idle"
    BY OnAnswer
  <1>2. On(D[c]) \subseteq On(conn[c]) /\ \A b \in On(D[c]) : InOrder(Head(conn[c]), b)
    BY Answers
  <1>3. Bound(req[c], conn[c], rows, Links) /\ Staged(req[c], conn[c], shown, docs) /\ Final(conn[c])
    BY <1>1, Peaceful
  <1>4. Final(D[c]) /\ (Head(conn[c]).op = "rollback" => D[c] = <<>>)
    <2>1. D[c] = Tail(conn[c]) /\ conn[c] \in Seq(Stmt)
      BY Answers DEF Answered
    <2> QED BY <1>3, <2>1, FinalTail
  <1>5. Bound(req[c], D[c], rows, Links)
    <2>1. Leaving(req[c], D[c]) \subseteq Leaving(req[c], conn[c])
      BY <1>2 DEF Leaving
    <2> QED BY <1>3, <2>1, BoundGoes
  <1>6. Staged(req[c], D[c], shown, docs)
    BY <1>2, <1>3, <1>4 DEF Staged
  <1>7. Apart(req[c], D[c])
    <2>1. Wired(req, D)
      BY Answers
    <2> QED BY <2>1 DEF Wired
  <1> QED BY <1>2, <1>4, <1>5, <1>6, <1>7

\* The request stays where it is, and the connection sends what follows the answer.
LEMMA SentOnwards ==
    ASSUME Core, Peace, NEW c \in Requests, conn[c] # <<>>, NEW D, D = Answered(c),
           NEW e \in Stmt, conn' = [D EXCEPT ![c] = Append(@, e)], req' = req,
           req[c].pc \notin {"undo", "broken"},
           e.op \in Removals => Head(conn[c]).op \in Removals /\ e.key = Head(conn[c]).key,
           UNCHANGED <<files, erasing, rows, orphans, shown, avatar, docs>>
    PROVE  Peace'
  <1>1. /\ D \in [Requests -> Seq(Stmt)] /\ req[c].pc # "idle" /\ req[c] # Idle
        /\ \A x \in Requests : x # c => D[x] = conn[x]
    BY OnAnswer
  <1>2. /\ \A a \in On(conn[c]) : StmtOf(req, c, a)
        /\ Head(conn[c]) \in On(conn[c])
    BY OnAnswer
  <1>3. On(D[c]) \subseteq On(conn[c]) /\ Final(D[c])
    BY Left
  <1>4. Bound(req[c], conn[c], rows, Links) /\ Staged(req[c], conn[c], shown, docs)
    BY <1>1, Peaceful
  <1>5. req[c].pc # "store"
    <2>1. Apart(req[c], conn[c]) /\ ReqOf(req[c])
      BY <1>1, ReqFacts
    <2> QED BY <1>1, <2>1 DEF Apart, ReqOf, ProductKinds
  <1>6. PICK u : u = conn'[c]
    OBVIOUS
  <1>7. u = Append(D[c], e) /\ \A x \in Requests : x # c => conn'[x] = conn[x]
    BY <1>1, <1>6
  <1>8. On(u) = On(D[c]) \cup {e}
    BY <1>1, <1>7, OnAppend
  <1>9. Final(u)
    <2>1. \A a \in On(D[c]) : a.op # "rollback"
      BY <1>2, <1>3 DEF StmtOf
    <2> QED BY <1>1, <1>3, <1>7, <2>1, FinalAppend
  <1>10. Leaving(req[c], u) \subseteq Leaving(req[c], conn[c])
    <2>1. e.op \in Removals => \E a \in On(conn[c]) : a.op \in Removals /\ a.key = e.key
      BY <1>2
    <2> QED BY <1>3, <1>8, <2>1 DEF Leaving
  <1>11. Bound(req[c], u, rows, Links)
    BY <1>4, <1>10, BoundGoes
  <1>12. Staged(req[c], u, shown, docs)
    BY <1>4, <1>9 DEF Staged
  <1> QED BY <1>1, <1>5, <1>6, <1>7, <1>11, <1>12, PeaceStays

LEMMA LoadMediaPeace ==
    ASSUME Core, Peace, NEW c \in Requests, LoadMedia(c)
    PROVE  Peace'
  <1>1. conn[c] # <<>> /\ Head(conn[c]).op = "load"
    BY DEF LoadMedia, At
  <1>2. PICK D : D = Answered(c)
    OBVIOUS
  <1>3. /\ InTransaction(c) /\ Head(conn[c]).by = c /\ Head(conn[c]) \in Stmt
        /\ StmtOf(req, c, Head(conn[c]))
    BY <1>1, <1>2, OnAnswer
  <1>4. req[c].pc = "save"
    BY <1>1, <1>3 DEF StmtOf, Saves
  <1>5. PICK e : e = [by |-> c, op |-> "insert", key |-> Head(conn[c]).key]
    OBVIOUS
  <1>6. e \in Stmt /\ e.op = "insert"
    BY <1>3, <1>5 DEF Stmt
  <1>7. /\ conn' = [D EXCEPT ![c] = Append(@, e)] /\ req' = req
        /\ UNCHANGED <<files, erasing, rows, orphans, shown, avatar, docs>>
    BY <1>2, <1>3, <1>4, <1>5 DEF LoadMedia, Broken, Send, tables
  <1> QED BY <1>1, <1>2, <1>4, <1>6, <1>7, SentOnwards DEF Removals

LEMMA SelectProductPeace ==
    ASSUME Core, Peace, NEW c \in Requests, SelectProduct(c)
    PROVE  Peace'
  <1>1. conn[c] # <<>> /\ Head(conn[c]).op = "select"
    BY DEF SelectProduct, At
  <1>2. PICK D : D = Answered(c)
    OBVIOUS
  <1>3. StmtOf(req, c, Head(conn[c]))
    BY <1>1, <1>2, OnAnswer
  <1>4. req[c].pc = "write"
    BY <1>1, <1>3 DEF StmtOf
  <1>5. PICK e : e = [by |-> c, op |-> "write", key |-> None]
    OBVIOUS
  <1>6. e \in Stmt /\ e.op = "write"
    BY <1>5 DEF Stmt
  <1>7. /\ conn' = [D EXCEPT ![c] = Append(@, e)] /\ req' = req
        /\ UNCHANGED <<files, erasing, rows, orphans, shown, avatar, docs>>
    BY <1>2, <1>5 DEF SelectProduct, Send, tables, history
  <1> QED BY <1>1, <1>2, <1>4, <1>6, <1>7, SentOnwards DEF Removals

LEMMA ReloadMediaPeace ==
    ASSUME Core, Peace, NEW c \in Requests, ReloadMedia(c)
    PROVE  Peace'
  <1>1. conn[c] # <<>> /\ Head(conn[c]).op = "reload"
    BY DEF ReloadMedia, At
  <1>2. PICK D : D = Answered(c)
    OBVIOUS
  <1>3. /\ InTransaction(c) /\ Head(conn[c]) \in Stmt /\ Head(conn[c]) \in On(conn[c])
        /\ req[c].pc # "idle"
    BY <1>1, <1>2, OnAnswer
  <1>4. req[c].pc \notin {"undo", "broken"}
    BY <1>1, <1>3, Peaceful DEF Staged
  <1>5. PICK e : e = [by |-> c, op |-> "delete", key |-> Head(conn[c]).key]
    OBVIOUS
  <1>6. e \in Stmt /\ e.key = Head(conn[c]).key
    BY <1>3, <1>5 DEF Stmt, Removals
  <1>7. /\ conn' = [D EXCEPT ![c] = Append(@, e)] /\ req' = req
        /\ UNCHANGED <<files, erasing, rows, orphans, shown, avatar, docs>>
    BY <1>2, <1>3, <1>4, <1>5 DEF ReloadMedia, Broken, Send, tables, history
  <1> QED BY <1>1, <1>2, <1>4, <1>6, <1>7, SentOnwards DEF Removals

LEMMA WriteProductPeace ==
    ASSUME Core, Peace, NEW c \in Requests, WriteProduct(c)
    PROVE  Peace'
  <1>1. /\ conn[c] # <<>> /\ Head(conn[c]).op = "write"
        /\ UNCHANGED <<files, erasing, rows, orphans, shown, avatar, docs>>
    BY DEF WriteProduct, At, tables, history
  <1>2. PICK D : D = Answered(c)
    OBVIOUS
  <1>3. /\ req \in [Requests -> ReqType] /\ D \in [Requests -> Seq(Stmt)]
        /\ req[c] \in BusyType /\ ReqOf(req[c]) /\ InTransaction(c)
        /\ StmtOf(req, c, Head(conn[c]))
    BY <1>1, <1>2, OnAnswer
  <1>4. /\ \A x \in Requests : x # c => D[x] = conn[x]
        /\ \A a \in On(conn[c]) : StmtOf(req, c, a)
        /\ req[c] # Idle
    BY <1>1, <1>2, OnAnswer
  <1>5. /\ Final(D[c]) /\ Bound(req[c], D[c], rows, Links)
        /\ On(D[c]) \subseteq On(conn[c]) /\ \A b \in On(D[c]) : InOrder(Head(conn[c]), b)
    BY <1>1, <1>2, Left
  <1>6. req[c].pc = "write" /\ req[c].kind # "avatar"
    BY <1>1, <1>3 DEF StmtOf, ReqOf, ProductKinds
  <1>7. Pending(req[c]) = {} /\ Inserted(req[c]) = req[c].inserted
    BY <1>4, <1>6 DEF Pending, Inserted
  <1>8. CASE Fail(c, req, D, "broken")
    <2>1. \A a \in On(D[c]) : a.op \notin {"rollback", "find", "reload"}
      BY <1>1, <1>4, <1>5, <1>6 DEF InOrder, StmtOf
    <2>2. /\ req'[c] # Idle
          /\ \A x \in Requests : x # c => req'[x] = req[x] /\ conn'[x] = D[x]
          /\ Bound(req'[c], conn'[c], rows, Links) /\ Staged(req'[c], conn'[c], shown, docs)
          /\ Inserted(req'[c]) = req[c].inserted
      BY <1>3, <1>5, <1>6, <1>8, <2>1, FailEnds
    <2> QED BY <1>1, <1>4, <1>6, <1>7, <2>2, PeaceStays
  <1>9. CASE /\ req' = [req EXCEPT ![c].pc = IF req[c].kind = "create" THEN "cache" ELSE "uncache"]
             /\ conn' = D
    <2>1. PICK pc \in {"cache", "uncache"} : req' = [req EXCEPT ![c].pc = pc]
      BY <1>9
    <2>2. /\ Alike(req[c], req'[c]) /\ req'[c].pc = pc /\ req'[c] # Idle
          /\ \A x \in Requests : x # c => req'[x] = req[x]
      BY <1>3, <2>1, GoneTo
    <2>3. PICK e : e = [op |-> "select"]
      OBVIOUS
    <2>4. /\ e.op \notin Removals /\ On(conn'[c]) \subseteq On(conn[c]) \cup {e} /\ Final(conn'[c])
          /\ \A x \in Requests : x # c => conn'[x] = conn[x]
      BY <1>4, <1>5, <1>9, <2>3 DEF Removals
    <2> QED BY <1>1, <1>6, <2>2, <2>4, OnwardPeace
  <1> QED BY <1>2, <1>8, <1>9 DEF WriteProduct

\* An answer that changes nothing.
LEMMA HeardPeace ==
    ASSUME Core, Peace, NEW c \in Requests, conn[c] # <<>>, NEW D, D = Answered(c),
           conn' = D, req' = req,
           UNCHANGED <<files, erasing, rows, orphans, shown, avatar, docs>>
    PROVE  Peace'
  <1>1. /\ req[c].pc # "idle" /\ req[c] # Idle
        /\ \A x \in Requests : x # c => D[x] = conn[x]
    BY OnAnswer
  <1>2. Bound(req[c], D[c], rows, Links) /\ Staged(req[c], D[c], shown, docs)
    BY Left
  <1>3. req[c].pc # "store"
    <2>1. Apart(req[c], conn[c]) /\ ReqOf(req[c])
      BY <1>1, ReqFacts
    <2> QED BY <1>1, <2>1 DEF Apart, ReqOf, ProductKinds
  <1> QED BY <1>1, <1>2, <1>3, PeaceStays

LEMMA FindMediaPeace ==
    ASSUME Core, Peace, NEW c \in Requests, FindMedia(c)
    PROVE  Peace'
  <1>1. conn[c] # <<>> /\ Head(conn[c]).op = "find"
    BY DEF FindMedia, At
  <1>2. PICK D : D = Answered(c)
    OBVIOUS
  <1>3. /\ req \in [Requests -> ReqType] /\ D \in [Requests -> Seq(Stmt)]
        /\ req[c] \in BusyType /\ ReqOf(req[c]) /\ InTransaction(c)
        /\ Head(conn[c]) \in Stmt /\ Head(conn[c]) \in On(conn[c]) /\ req[c].pc # "idle"
    BY <1>1, <1>2, OnAnswer
  <1>4. /\ \A x \in Requests : x # c => D[x] = conn[x]
        /\ \A a \in On(conn[c]) : StmtOf(req, c, a)
    BY <1>1, <1>2, OnAnswer
  <1>5. Final(D[c]) /\ On(D[c]) \subseteq On(conn[c])
    BY <1>1, <1>2, Left
  <1>6. req[c].pc \notin {"undo", "broken"}
    BY <1>1, <1>3, Peaceful DEF Staged
  <1>7. UNCHANGED <<files, erasing, rows, orphans, shown, avatar, docs>>
    BY <1>6 DEF FindMedia, Broken, tables, history
  <1>8. CASE conn' = Send(D, c, c, "reload", Head(conn[c]).key) /\ UNCHANGED req
    <2>1. PICK e : e = [by |-> c, op |-> "reload", key |-> Head(conn[c]).key]
      OBVIOUS
    <2>2. e \in Stmt /\ e.key = Head(conn[c]).key
      BY <1>3, <2>1 DEF Stmt, Removals
    <2>3. conn' = [D EXCEPT ![c] = Append(@, e)] /\ req' = req
      BY <1>8, <2>1 DEF Send
    <2> QED BY <1>1, <1>2, <1>6, <1>7, <2>2, <2>3, SentOnwards DEF Removals
  <1>9. CASE RemovalDone(c, req, D) /\ req[c].pc # "drop"
    <2>1. conn' = D /\ req' = req
      BY <1>9 DEF RemovalDone
    <2> QED BY <1>1, <1>2, <1>7, <2>1, HeardPeace
  <1>10. CASE RemovalDone(c, req, D) /\ req[c].pc = "drop"
    <2>1. PICK e : e = [by |-> c, op |-> "commit", key |-> None]
      OBVIOUS
    <2>2. e \in Stmt /\ e.op \notin Removals
      BY <2>1 DEF Stmt, Removals
    <2>3. req' = [req EXCEPT ![c].pc = "commit"] /\ conn' = [D EXCEPT ![c] = Append(@, e)]
      BY <1>10, <2>1 DEF RemovalDone, Send
    <2>4. /\ Alike(req[c], req'[c]) /\ req'[c].pc = "commit" /\ req'[c] # Idle
          /\ \A x \in Requests : x # c => req'[x] = req[x]
      BY <1>3, <2>3, GoneTo
    <2>5. conn'[c] = Append(D[c], e) /\ \A x \in Requests : x # c => conn'[x] = conn[x]
      BY <1>3, <1>4, <2>3
    <2>6. \A a \in On(D[c]) : a.op # "rollback"
      BY <1>4, <1>5, <1>10 DEF StmtOf
    <2>7. On(conn'[c]) \subseteq On(conn[c]) \cup {e} /\ Final(conn'[c])
      BY <1>3, <1>4, <1>5, <2>2, <2>5, <2>6, OnAppend, FinalAppend
    <2>8. req[c].kind = "avatar"
      BY <1>3, <1>10 DEF ReqOf
    <2> QED BY <1>7, <1>10, <2>2, <2>4, <2>5, <2>7, <2>8, OnwardPeace
  <1> QED BY <1>2, <1>6, <1>8, <1>9, <1>10 DEF FindMedia, Broken

LEMMA InsertMediaPeace ==
    ASSUME Core, Peace, NEW c \in Requests, InsertMedia(c)
    PROVE  Peace'
  <1>1. /\ conn[c] # <<>> /\ Head(conn[c]).op = "insert"
        /\ UNCHANGED <<files, erasing, shown, avatar, docs, orphans>>
    BY DEF InsertMedia, At, history
  <1>2. PICK D : D = Answered(c)
    OBVIOUS
  <1>3. /\ req \in [Requests -> ReqType] /\ D \in [Requests -> Seq(Stmt)]
        /\ req[c] \in BusyType /\ ReqOf(req[c]) /\ InTransaction(c) /\ req[c] # Idle
        /\ Head(conn[c]).by = c /\ StmtOf(req, c, Head(conn[c]))
    BY <1>1, <1>2, OnAnswer
  <1>4. /\ \A x \in Requests : x # c => D[x] = conn[x]
        /\ \A a \in On(conn[c]) : StmtOf(req, c, a)
    BY <1>1, <1>2, OnAnswer
  <1>5. /\ Final(D[c]) /\ Bound(req[c], D[c], rows, Links) /\ Apart(req[c], D[c])
        /\ On(D[c]) \subseteq On(conn[c])
    BY <1>1, <1>2, Left
  <1>6. PICK k : k = Head(conn[c]).key
    OBVIOUS
  <1>7. req[c].pc = "save" /\ req[c].key = k
    BY <1>1, <1>3, <1>6 DEF StmtOf, Saves
  <1>8. k \in Keys /\ k \in Pending(req[c]) /\ req[c].kind \in ProductKinds
    BY <1>1, <1>2, <1>3, <1>6, Saved DEF Saves
  <1>9. PICK Q : Q = [req EXCEPT ![c].inserted = @ \cup {k}]
    OBVIOUS
  <1>10. Uploaded(c, Q, D) /\ rows' = rows
    BY <1>2, <1>3, <1>6, <1>7, <1>9 DEF InsertMedia, Broken
  <1>11. PICK q : q = Q[c]
    OBVIOUS
  <1>12. /\ q = [req[c] EXCEPT !.inserted = @ \cup {k}]
         /\ \A x \in Requests : x # c => Q[x] = req[x]
    BY <1>3, <1>9, <1>11
  <1>13. q \in BusyType /\ q.inserted = req[c].inserted \cup {k} /\ q.pc = "save"
    BY <1>3, <1>7, <1>8, <1>12 DEF BusyType
  <1>14. q.key = k /\ q.kind = req[c].kind /\ q.what = req[c].what /\ q.left = req[c].left
    BY <1>3, <1>7, <1>12 DEF BusyType
  <1>15. q.thumbs = req[c].thumbs /\ q.gone = req[c].gone /\ q.removed = req[c].removed
    BY <1>3, <1>12 DEF BusyType
  <1>16. Q \in [Requests -> ReqType]
    BY <1>3, <1>9, <1>11, <1>13, BusyIsReq
  <1>17. ReqOf(q) /\ Apart(q, D[c])
    BY <1>3, <1>5, <1>7, <1>8, <1>13, <1>14 DEF ReqOf, Apart
  <1>18. Bound(q, D[c], rows, Links)
    <2>1. New(q) \subseteq New(req[c]) /\ Leaving(q, D[c]) \subseteq Leaving(req[c], D[c])
      BY <1>7, <1>13, <1>14, <1>15 DEF New, Leaving
    <2> QED BY <1>5, <1>7, <1>13, <1>14, <1>15, <2>1, BoundGoes
  <1>19. \A a \in On(D[c]) : a.op \notin Removals \cup Own
    BY <1>4, <1>5, <1>7 DEF StmtOf, Removable, Own
  <1>20. \A o \in Owners : q.key \notin Links[o]
    BY <1>8, <1>14, Unlinked
  <1>21. /\ \A x \in Requests : x # c => req'[x] = Q[x] /\ conn'[x] = D[x]
         /\ req'[c] # Idle
         /\ Bound(req'[c], conn'[c], rows', Links) /\ Staged(req'[c], conn'[c], shown, docs)
         /\ Inserted(req'[c]) = q.inserted
    <2>1. rows \subseteq rows' /\ q.key \in rows' \cup q.inserted /\ q.pc \in {"alone", "save"}
      BY <1>10, <1>13, <1>14
    <2>2. /\ \A x \in Requests : x # c => req'[x] = Q[x] /\ conn'[x] = D[x]
          /\ req'[c] = Idle => conn'[c] = <<>> /\ Q[c].inserted = {}
          /\ req'[c] # Idle => /\ Bound(req'[c], conn'[c], rows', Links)
                               /\ Staged(req'[c], conn'[c], shown, docs)
                               /\ Inserted(req'[c]) = Q[c].inserted
      BY <1>3, <1>5, <1>10, <1>11, <1>13, <1>16, <1>17, <1>18, <1>19, <1>20, <2>1, UploadedEnds
    <2>3. Q[c].inserted # {}
      BY <1>11, <1>13
    <2> QED BY <1>11, <2>2, <2>3
  <1>22. \A x \in Pending(req[c]) \cup Inserted(req[c]) : x \in Inserted(req'[c])
    BY <1>3, <1>7, <1>13, <1>21 DEF Pending, Inserted
  <1> QED BY <1>1, <1>4, <1>7, <1>10, <1>12, <1>21, <1>22, PeaceStays

\* A removal that fails takes the server with it, and the calm.
LEMMA DeleteMediaPeace ==
    ASSUME Core, Peace, NEW c \in Requests, DeleteMedia(c), Calm'
    PROVE  Peace'
  <1>1. conn[c] # <<>> /\ Head(conn[c]).op = "delete"
    BY DEF DeleteMedia, At
  <1>2. PICK D : D = Answered(c)
    OBVIOUS
  <1>3. /\ req \in [Requests -> ReqType] /\ D \in [Requests -> Seq(Stmt)]
        /\ req[c] \in BusyType /\ ReqOf(req[c]) /\ InTransaction(c) /\ req[c] # Idle
        /\ StmtOf(req, c, Head(conn[c])) /\ req[c].pc # "idle"
    BY <1>1, <1>2, OnAnswer
  <1>4. /\ \A x \in Requests : x # c => req[x] = Idle /\ D[x] = conn[x]
        /\ \A a \in On(conn[c]) : StmtOf(req, c, a)
        /\ Head(conn[c]) \in On(conn[c])
    BY <1>1, <1>2, OnAnswer
  <1>5. /\ Final(D[c]) /\ Staged(req[c], D[c], shown, docs) /\ On(D[c]) \subseteq On(conn[c])
    BY <1>1, <1>2, Left
  <1>6. Bound(req[c], conn[c], rows, Links)
    BY <1>3, Peaceful
  <1>7. PICK k : k = Head(conn[c]).key
    OBVIOUS
  <1>8. k \in Keys /\ k \in Leaving(req[c], conn[c]) /\ Removable(req[c].pc, "delete")
    BY <1>1, <1>3, <1>4, <1>7 DEF StmtOf, Leaving, Removals
  <1>9. req[c].pc \notin {"alone", "save", "store"} /\ req[c].pc \notin Early
    <2>1. Apart(req[c], conn[c])
      BY <1>3, ReqFacts
    <2> QED BY <1>1, <1>3, <1>8, <2>1 DEF Removable, Early, Apart, ReqOf, ProductKinds
  <1>10. PICK Q : Q = [req EXCEPT ![c].removed = @ \cup {k}]
    OBVIOUS
  <1>11. /\ RemovalDone(c, Q, D) /\ rows' = rows
         /\ UNCHANGED <<files, erasing, shown, avatar, docs, orphans>>
    <2>1. ~\E x \in Requests \ {c} : req[x] # Idle /\ k \in req[x].removed
      BY <1>4
    <2>2. ~(Broken(c) /\ RemovalRejected(c))
      BY DEF Broken, RemovalRejected, Restart, Calm
    <2> QED BY <1>2, <1>3, <1>7, <1>10, <2>1, <2>2 DEF DeleteMedia, history
  <1>12. PICK q : q = Q[c]
    OBVIOUS
  <1>13. /\ q = [req[c] EXCEPT !.removed = @ \cup {k}]
         /\ \A x \in Requests : x # c => Q[x] = req[x]
    BY <1>3, <1>10, <1>12
  <1>14. q \in BusyType /\ q.removed = req[c].removed \cup {k} /\ q.pc = req[c].pc
    BY <1>3, <1>8, <1>13 DEF BusyType
  <1>15. q.key = req[c].key /\ q.kind = req[c].kind /\ q.what = req[c].what
    BY <1>3, <1>13 DEF BusyType
  <1>16. q.thumbs = req[c].thumbs /\ q.gone = req[c].gone /\ q.inserted = req[c].inserted
    BY <1>3, <1>13 DEF BusyType
  <1>17. Q \in [Requests -> ReqType]
    BY <1>3, <1>10, <1>12, <1>14, BusyIsReq
  \* It goes on to t, with u to be answered.
  <1>18. ASSUME NEW t, NEW u, t = req'[c], u = conn'[c],
                Alike(q, t), t # Idle, t.pc = q.pc \/ (q.pc = "drop" /\ t.pc = "commit"),
                \A x \in Requests : x # c => req'[x] = Q[x] /\ conn'[x] = D[x],
                Final(u), \A a \in On(u) : a.op \in {"find", "reload", "delete"} => a \in On(conn[c])
         PROVE  Peace'
    <2>1. t.kind = req[c].kind /\ t.what = req[c].what /\ t.gone = req[c].gone
      BY <1>15, <1>16, <1>18 DEF Alike
    <2>2. t.key = req[c].key /\ t.thumbs = req[c].thumbs /\ t.inserted = req[c].inserted
      BY <1>15, <1>16, <1>18 DEF Alike
    <2>3. t.pc = req[c].pc \/ (req[c].pc = "drop" /\ t.pc = "commit")
      BY <1>14, <1>18
    <2>4. New(t) \subseteq New(req[c])
      BY <2>1, <2>2, <2>3 DEF New
    <2>5. Leaving(t, u) \subseteq Leaving(req[c], conn[c])
      <3>1. t.removed = req[c].removed \cup {k}
        BY <1>14, <1>18 DEF Alike
      <3> QED BY <1>8, <1>18, <3>1 DEF Leaving, Removals
    <2>6. Bound(t, u, rows, Links)
      <3>1. t.pc \notin Early
        BY <1>9, <2>3 DEF Early
      <3> QED BY <1>6, <2>1, <2>2, <2>4, <2>5, <3>1, BoundGoes
    <2>7. Staged(t, u, shown, docs)
      <3>1. Staged(req[c], conn[c], shown, docs)
        BY <1>3, Peaceful
      <3>2. req[c].pc = "drop" => t.kind \notin ProductKinds
        BY <1>3, <2>1 DEF ReqOf, ProductKinds
      <3> QED BY <1>18, <2>1, <2>2, <2>3, <3>1, <3>2 DEF Staged
    <2>8. Pending(req[c]) = {} /\ Inserted(t) = Inserted(req[c])
      BY <1>3, <1>9, <1>18, <2>2 DEF Pending, Inserted
    <2>9. Target(t) = Target(req[c]) /\ (req[c].pc = "commit" => t.pc = "commit")
      BY <2>1, <2>3 DEF Target
    <2>10. /\ req'[c] # Idle /\ Pending(req[c]) = {} /\ Inserted(req'[c]) = Inserted(req[c])
           /\ Bound(req'[c], conn'[c], rows', Links) /\ Staged(req'[c], conn'[c], shown, docs)
      BY <1>11, <1>18, <2>6, <2>7, <2>8
    <2>11. /\ req[c].pc \notin {"idle", "store"} /\ rows \subseteq rows'
           /\ req[c].pc = "commit" => req'[c].pc = "commit" /\ Target(req'[c]) = Target(req[c])
           /\ \A x \in Requests : x # c => req'[x] = req[x] /\ conn'[x] = conn[x]
      BY <1>3, <1>4, <1>9, <1>11, <1>13, <1>18, <2>9
    <2> QED BY <1>11, <2>10, <2>11, PeaceStays
  <1>19. CASE req[c].pc # "drop"
    <2>1. req' = Q /\ conn' = D
      BY <1>11, <1>19 DEF RemovalDone
    <2>2. Alike(q, q) /\ q # Idle
      BY <1>14, Busy, BusyIsReq DEF Alike
    <2> QED BY <1>5, <1>12, <1>18, <2>1, <2>2
  <1>20. CASE req[c].pc = "drop"
    <2>1. PICK e : e = [by |-> c, op |-> "commit", key |-> None]
      OBVIOUS
    <2>2. e \in Stmt /\ e.op = "commit"
      BY <2>1 DEF Stmt
    <2>3. req' = [Q EXCEPT ![c].pc = "commit"] /\ conn' = [D EXCEPT ![c] = Append(@, e)]
      BY <1>11, <1>20, <2>1 DEF RemovalDone, Send
    <2>4. PICK t : t = req'[c]
      OBVIOUS
    <2>5. t = [q EXCEPT !.pc = "commit"] /\ \A x \in Requests : x # c => req'[x] = Q[x]
      BY <1>12, <1>17, <2>3, <2>4
    <2>6. t.key = q.key /\ t.kind = q.kind /\ t.what = q.what /\ t.pc = "commit"
      BY <1>14, <2>5 DEF BusyType
    <2>7. t.thumbs = q.thumbs /\ t.gone = q.gone
      BY <1>14, <2>5 DEF BusyType
    <2>8. t.inserted = q.inserted /\ t.removed = q.removed
      BY <1>14, <2>5 DEF BusyType
    <2>9. Alike(q, t) /\ t # Idle
      BY <2>6, <2>7, <2>8 DEF Alike, Idle
    <2>10. conn'[c] = Append(D[c], e) /\ \A x \in Requests : x # c => conn'[x] = D[x]
      BY <1>3, <2>3
    <2>11. On(conn'[c]) = On(D[c]) \cup {e}
      BY <1>3, <2>2, <2>10, OnAppend
    <2>12. Final(conn'[c])
      <3>1. \A a \in On(D[c]) : a.op # "rollback"
        BY <1>4, <1>5, <1>20 DEF StmtOf
      <3> QED BY <1>3, <1>5, <2>2, <2>10, <3>1, FinalAppend
    <2> QED BY <1>5, <1>14, <1>18, <1>20, <2>2, <2>4, <2>5, <2>6, <2>9, <2>10, <2>11, <2>12
  <1> QED BY <1>19, <1>20

-----------------------------------------------------------------------------
(* The end of a transaction.                                               *)

LEMMA OnNothing ==
    ASSUME NEW s \in Seq(Stmt), On(s) = {}
    PROVE  s = <<>>
  <1>1. \A i \in 1..Len(s) : s[i] \in On(s)
    BY DEF On
  <1>2. Len(s) \in Nat /\ ~(1 \in 1..Len(s))
    BY <1>1
  <1>3. Len(s) = 0
    BY <1>2
  <1> QED BY <1>3, EmptySeq

\* Files lose their rows, and what r has on its way, to those that are erased.
LEMMA AccountedEnds ==
    ASSUME Single, Accounted, NEW r \in Requests, req[r] # Idle, UNCHANGED <<files, orphans>>,
           erasing \subseteq erasing', rows \subseteq rows' \cup erasing',
           Pending(req[r]) \cup Inserted(req[r]) \subseteq rows' \cup erasing'
    PROVE  Accounted'
  <1>1. \A x \in Requests : x # r => Pending(req[x]) \cup Inserted(req[x]) = {}
    BY DEF Single, Pending, Inserted, Idle
  <1>2. ASSUME NEW k \in files PROVE k \in rows' \cup orphans' \cup erasing'
    <2>1. CASE k \in rows \cup orphans \cup erasing
      BY <2>1
    <2>2. CASE \E x \in Requests : k \in Pending(req[x]) \cup Inserted(req[x])
      BY <1>1, <2>2
    <2> QED BY <1>2, <2>1, <2>2 DEF Accounted
  <1> QED BY <1>2 DEF Accounted

\* Behind COMMIT and ROLLBACK nothing is left to be answered.
LEMMA EndsAlone ==
    ASSUME Core, Peace, NEW c \in Requests, conn[c] # <<>>, Head(conn[c]).op \in {"commit", "rollback"},
           Over(c)
    PROVE  /\ conn'[c] = <<>>
           /\ \A x \in Requests : x # c => /\ req[x] = Idle
                                           /\ req'[x] = req[x] /\ conn'[x] = conn[x]
           /\ req[c] # Idle /\ InTransaction(c) /\ req[c] \in BusyType /\ ReqOf(req[c])
           /\ req[c].kind \in ProductKinds => req'[c] = Idle
           /\ req[c].kind \notin ProductKinds =>
                 /\ req[c].kind = "avatar"
                 /\ req'[c] = [req[c] EXCEPT !.pc = "store", !.inserted = {}, !.removed = {}]
           /\ IF Head(conn[c]).op = "commit" THEN req[c].pc = "commit"
              ELSE req[c].pc \in {"undo", "broken"}
  <1>1. PICK D : D = Answered(c)
    OBVIOUS
  <1>2. /\ req \in [Requests -> ReqType] /\ D \in [Requests -> Seq(Stmt)]
        /\ req[c] \in BusyType /\ ReqOf(req[c]) /\ InTransaction(c) /\ req[c] # Idle
        /\ StmtOf(req, c, Head(conn[c])) /\ req[c].pc # "idle"
    BY <1>1, OnAnswer
  <1>3. /\ \A x \in Requests : x # c => req[x] = Idle /\ D[x] = conn[x]
        /\ \A a \in On(conn[c]) : StmtOf(req, c, a)
    BY <1>1, OnAnswer
  <1>4. /\ On(D[c]) \subseteq On(conn[c]) /\ \A b \in On(D[c]) : InOrder(Head(conn[c]), b)
        /\ Head(conn[c]).op = "rollback" => D[c] = <<>>
    BY <1>1, Left
  <1>5. IF Head(conn[c]).op = "commit" THEN req[c].pc = "commit" ELSE req[c].pc \in {"undo", "broken"}
    BY <1>2 DEF StmtOf
  <1>6. D[c] = <<>>
    <2> SUFFICES ASSUME Head(conn[c]).op = "commit" PROVE D[c] = <<>>
      BY <1>4
    <2>1. ASSUME NEW a \in On(D[c]) PROVE FALSE
      <3>1. a \in Stmt
        BY <1>2, <2>1 DEF On
      <3>2. InOrder(Head(conn[c]), a) /\ StmtOf(req, c, a)
        BY <1>3, <1>4, <2>1
      <3>3. a.op \notin Own \cup Removals
        BY <3>2 DEF InOrder, Own
      <3>4. a.op \in Saves /\ a.by \in Requests
        BY <3>1, <3>3 DEF Stmt, Own, Saves
      <3>5. req[a.by].pc = "save"
        BY <3>2, <3>4 DEF StmtOf
      <3>6. a.by = c
        BY <1>3, <3>4, <3>5 DEF Idle
      <3> QED BY <1>5, <3>5, <3>6
    <2> QED BY <1>2, <2>1, OnNothing
  <1>7. /\ conn' = D
        /\ req' = [req EXCEPT ![c] = IF OfProduct(c) THEN Idle
                     ELSE [@ EXCEPT !.pc = "store", !.inserted = {}, !.removed = {}]]
    BY <1>1 DEF Over
  <1>8. OfProduct(c) <=> req[c].kind \in ProductKinds
    BY <1>2, ReqFacts
  <1>9. req[c].kind \notin ProductKinds => req[c].kind = "avatar"
    BY <1>2, <1>5 DEF ReqOf, BusyType, ProductKinds
  <1>10. req[c].kind \in ProductKinds => req'[c] = Idle
    BY <1>2, <1>7, <1>8
  <1>11. req[c].kind \notin ProductKinds =>
              req'[c] = [req[c] EXCEPT !.pc = "store", !.inserted = {}, !.removed = {}]
    BY <1>2, <1>7, <1>8
  <1>12. \A x \in Requests : x # c => req'[x] = req[x] /\ conn'[x] = conn[x]
    BY <1>2, <1>3, <1>7
  <1> QED BY <1>2, <1>3, <1>5, <1>6, <1>7, <1>9, <1>10, <1>11, <1>12

\* An avatar's request goes on to its user's row, with nothing to remove any more.
LEMMA ToStore ==
    ASSUME NEW q \in BusyType, NEW s, NEW t, NEW S, q.kind = "avatar",
           q.pc \in {"commit", "broken"}, q.inserted = {}, Bound(q, s, rows, Links),
           t = [q EXCEPT !.pc = "store", !.inserted = {}, !.removed = {}],
           New(q) \subseteq rows => New(q) \subseteq S
    PROVE  /\ t # Idle /\ t.pc = "store" /\ Target(t) = Target(q)
           /\ Bound(t, <<>>, S, Links) /\ Staged(t, <<>>, shown, docs)
  <1>1. t.pc = "store" /\ t.kind = q.kind /\ t.what = q.what /\ t.key = q.key
    BY DEF BusyType
  <1>2. t.gone = q.gone /\ t.inserted = {} /\ t.removed = {}
    BY DEF BusyType
  <1>3. t # Idle /\ Target(t) = Target(q)
    <2>1. t # Idle
      BY <1>1 DEF Idle
    <2>2. Target(t) = Target(q)
      BY <1>1 DEF Target
    <2> QED BY <2>1, <2>2
  <1>4. New(t) = New(q)
    BY <1>1 DEF New
  <1>5. On(<<>>) = {} /\ Final(<<>>)
    BY OnEmpty, EmptySeq DEF Final
  <1>6. Leaving(t, <<>>) = {}
    BY <1>2, <1>5 DEF Leaving
  <1>7. New(q) \subseteq rows
    BY DEF Bound
  <1>8. Bound(t, <<>>, S, Links)
    <2>1. t.pc \notin Early
      BY <1>1 DEF Early
    <2> QED BY <1>1, <1>2, <1>3, <1>4, <1>6, <1>7, <2>1 DEF Bound
  <1>9. Staged(t, <<>>, shown, docs)
    BY <1>1, <1>5 DEF Staged
  <1> QED BY <1>1, <1>3, <1>8, <1>9

LEMMA RollbackPeace ==
    ASSUME Core, Peace, NEW c \in Requests, Rollback(c)
    PROVE  Peace'
  <1>1. /\ conn[c] # <<>> /\ Head(conn[c]).op = "rollback" /\ Over(c)
        /\ erasing' = erasing \cup req[c].inserted
        /\ UNCHANGED <<files, rows, shown, avatar, docs, orphans>>
    BY DEF Rollback, At, Over, history
  <1>2. /\ conn'[c] = <<>>
        /\ \A x \in Requests : x # c => req'[x] = req[x] /\ conn'[x] = conn[x]
        /\ req[c] # Idle /\ req[c].pc \in {"undo", "broken"}
    BY <1>1, EndsAlone
  <1>3. /\ req[c] \in BusyType /\ ReqOf(req[c])
        /\ req[c].kind \in ProductKinds => req'[c] = Idle
        /\ req[c].kind \notin ProductKinds =>
                 /\ req[c].kind = "avatar"
                 /\ req'[c] = [req[c] EXCEPT !.pc = "store", !.inserted = {}, !.removed = {}]
    BY <1>1, EndsAlone
  <1>4. Bound(req[c], conn[c], rows, Links)
    BY <1>2, Peaceful
  <1>5. Accounted'
    <2>1. Pending(req[c]) \cup Inserted(req[c]) \subseteq erasing'
      BY <1>1, <1>2 DEF Pending, Inserted
    <2> QED BY <1>1, <1>2, <2>1, AccountedEnds DEF Peace
  <1>6. Linked' /\ Links' = Links
    <2>1. req[c].pc \notin {"idle", "store", "commit"}
      BY <1>2
    <2>2. \A p \in Products : docs'[p] \in {docs[p], None}
      BY <1>1
    <2> QED BY <1>1, <2>1, <2>2, LinkedDocs, LinksStay DEF Peace
  <1>7. req'[c] # Idle => /\ Bound(req'[c], conn'[c], rows', Links')
                          /\ Staged(req'[c], conn'[c], shown', docs')
    <2> SUFFICES ASSUME req'[c] # Idle
                 PROVE  /\ Bound(req'[c], conn'[c], rows', Links')
                        /\ Staged(req'[c], conn'[c], shown', docs')
      OBVIOUS
    <2>1. /\ req[c].kind = "avatar" /\ req[c].inserted = {} /\ req[c].pc = "broken"
          /\ req'[c] = [req[c] EXCEPT !.pc = "store", !.inserted = {}, !.removed = {}]
      BY <1>2, <1>3 DEF ReqOf, ProductKinds
    <2>2. Bound(req'[c], <<>>, rows, Links) /\ Staged(req'[c], <<>>, shown, docs)
      BY <1>3, <1>4, <2>1, ToStore
    <2> QED BY <1>1, <1>2, <1>6, <2>2
  <1> QED BY <1>2, <1>5, <1>6, <1>7, PeaceGoes DEF Peace

LEMMA CommitPeace ==
    ASSUME Core, Peace, NEW c \in Requests, Commit(c)
    PROVE  Peace'
  <1>1. /\ conn[c] # <<>> /\ Head(conn[c]).op = "commit" /\ Over(c)
        /\ erasing' = erasing \cup req[c].removed /\ rows' = Visible(c)
        /\ shown' = IF OfProduct(c) THEN [shown EXCEPT ![req[c].what] = req[c].thumbs] ELSE shown
        /\ UNCHANGED <<files, avatar, docs, orphans>>
    BY DEF Commit, At, Over, history
  <1>2. /\ conn'[c] = <<>> /\ InTransaction(c)
        /\ \A x \in Requests : x # c => req[x] = Idle /\ req'[x] = req[x] /\ conn'[x] = conn[x]
        /\ req[c] # Idle /\ req[c].pc = "commit"
    BY <1>1, EndsAlone
  <1>3. /\ req[c] \in BusyType /\ ReqOf(req[c])
        /\ req[c].kind \in ProductKinds => req'[c] = Idle
        /\ req[c].kind \notin ProductKinds =>
                 /\ req[c].kind = "avatar"
                 /\ req'[c] = [req[c] EXCEPT !.pc = "store", !.inserted = {}, !.removed = {}]
    BY <1>1, EndsAlone
  <1>4. Bound(req[c], conn[c], rows, Links) /\ Staged(req[c], conn[c], shown, docs)
    BY <1>2, Peaceful
  <1>5. rows' = (rows \cup req[c].inserted) \ req[c].removed
    BY <1>1, <1>2 DEF Visible
  <1>6. Accounted'
    <2>1. Pending(req[c]) = {} /\ Inserted(req[c]) = req[c].inserted
      BY <1>2 DEF Pending, Inserted
    <2> QED BY <1>1, <1>2, <1>5, <2>1, AccountedEnds DEF Peace
  <1>7. PICK o \in Owners : o = Target(req[c])
    <2>1. req[c].kind # "upload"
      BY <1>2, <1>3 DEF ReqOf
    <2>2. Target(req[c]) \in Owners
      BY <1>3, <2>1 DEF BusyType, ReqOf, ProductKinds, Target, Owners
    <2> QED BY <2>2
  <1>8. /\ New(req[c]) \subseteq rows' /\ req[c].removed \subseteq Links[o]
        /\ \A x \in Owners : x # o => New(req[c]) \cap Links[x] = {}
    <2>1. req[c].removed \subseteq Leaving(req[c], conn[c])
      BY DEF Leaving
    <2>2. req[c].kind # "upload" /\ req[c].pc \notin Early
      BY <1>2, <1>3 DEF ReqOf, ProductKinds, Early
    <2> QED BY <1>4, <1>5, <1>7, <2>1, <2>2 DEF Bound
  <1>9. ASSUME NEW x \in Owners, x # o PROVE Links[x] \subseteq rows'
    <2>1. ~Doing("store", x)
      BY <1>2 DEF Doing, Idle
    <2>2. Links[x] \subseteq rows /\ Links[x] \cap Links[o] = {}
      BY <1>9, <2>1 DEF Peace, Linked
    <2> QED BY <1>5, <1>8, <2>2
  <1>10. ASSUME NEW p \in Products, <<"product", p>> # o PROVE docs[p] \in {None, shown[p]}
    <2>1. ~Doing("commit", <<"product", p>>)
      BY <1>2, <1>7, <1>10 DEF Doing, Idle
    <2> QED BY <2>1 DEF Peace, Linked
  <1>11. CASE req[c].kind \in ProductKinds
    <2>1. PICK p \in Products : p = req[c].what
      BY <1>3, <1>11 DEF ReqOf
    <2>2. PICK T : T = req[c].thumbs
      OBVIOUS
    <2>3. /\ o = <<"product", p>> /\ New(req[c]) = T /\ T \subseteq Keys /\ T # None
          /\ OfProduct(c) /\ req'[c] = Idle
      BY <1>2, <1>3, <1>7, <1>11, <2>1, <2>2, MediaAssumption
      DEF Target, New, ProductKinds, BusyType, OfProduct
    <2>4. shown'[p] = T /\ \A x \in Products : x # p => shown'[x] = shown[x]
      BY <1>1, <2>1, <2>2, <2>3 DEF Core, TypeOK
    <2>5. Links'[o] = T /\ \A x \in Owners : x # o => Links'[x] = Links[x]
      <3>1. Links'[o] = LinksOf(o)' /\ LinksOf(o)' = T
        BY <2>3, <2>4 DEF Links, LinksOf
      <3>2. ASSUME NEW x \in Owners, x # o PROVE Links'[x] = Links[x]
        <4>1. Links'[x] = LinksOf(x)' /\ Links[x] = LinksOf(x)
          BY DEF Links
        <4>2. CASE \E u \in Users : x = <<"user", u>>
          BY <1>1, <4>1, <4>2 DEF LinksOf
        <4>3. CASE \E y \in Products : x = <<"product", y>>
          <5>1. PICK y \in Products : x = <<"product", y>>
            BY <4>3
          <5>2. y # p
            BY <2>3, <3>2, <5>1
          <5> QED BY <2>4, <4>1, <5>1, <5>2 DEF LinksOf
        <4> QED BY <4>2, <4>3 DEF Owners
      <3> QED BY <3>1, <3>2
    <2>6. docs[p] = T
      BY <1>2, <1>4, <1>11, <2>1, <2>2 DEF Staged
    <2>7. Linked'
      <3>1. \A x \in Owners : Links'[x] \subseteq rows'
        BY <1>8, <1>9, <2>3, <2>5
      <3>2. \A x, y \in Owners : x # y => Links'[x] \cap Links'[y] = {}
        BY <1>8, <2>3, <2>5 DEF Peace, Linked
      <3>3. \A y \in Products : docs'[y] \in {None, shown'[y]}
        <4> SUFFICES ASSUME NEW y \in Products PROVE docs[y] \in {None, shown'[y]}
          BY <1>1
        <4>1. CASE y = p
          BY <2>4, <2>6, <4>1
        <4>2. CASE y # p
          BY <1>10, <2>3, <2>4, <4>2
        <4> QED BY <4>1, <4>2
      <3> QED BY <3>1, <3>2, <3>3 DEF Linked
    <2> QED BY <1>2, <1>6, <2>3, <2>7, PeaceGoes DEF Peace
  <1>12. CASE req[c].kind \notin ProductKinds
    <2>1. /\ req[c].kind = "avatar" /\ req[c].inserted = {}
          /\ req'[c] = [req[c] EXCEPT !.pc = "store", !.inserted = {}, !.removed = {}]
      BY <1>3, <1>12 DEF ReqOf
    <2>2. UNCHANGED shown
      BY <1>1, <1>12 DEF OfProduct, ProductKinds
    <2>3. Links' = Links
      BY <1>1, <2>2, LinksStay
    <2>4. /\ req'[c] # Idle /\ req'[c].pc = "store" /\ Target(req'[c]) = Target(req[c])
          /\ Bound(req'[c], <<>>, rows', Links) /\ Staged(req'[c], <<>>, shown, docs)
      BY <1>2, <1>3, <1>4, <1>8, <2>1, ToStore
    <2>5. Linked'
      <3>1. Doing("store", o)'
        BY <1>7, <2>4 DEF Doing
      <3>2. ASSUME NEW x \in Owners PROVE Links'[x] \subseteq rows' \/ Doing("store", x)'
        BY <1>9, <2>3, <3>1
      <3>3. \A p \in Products : <<"product", p>> # o
        BY <1>7, <1>12 DEF Target
      <3>4. \A p \in Products : docs'[p] \in {None, shown'[p]}
        BY <1>1, <1>10, <2>2, <3>3
      <3>5. \A x, y \in Owners : x # y => Links'[x] \cap Links'[y] = {}
        BY <2>3 DEF Peace, Linked
      <3> QED BY <3>2, <3>4, <3>5 DEF Linked
    <2> QED BY <1>1, <1>2, <1>6, <2>2, <2>3, <2>4, <2>5, PeaceGoes DEF Peace
  <1> QED BY <1>11, <1>12

-----------------------------------------------------------------------------
(* A request starts where all is quiet, or ends the calm.                  *)

LEMMA BeginPeace ==
    ASSUME Core, Peace, Calm', NEW r \in Requests, NEW pc \in {"upload", "write", "readDoc"},
           NEW kind, NEW what, NEW n, NEW gone, Begin(r, pc, kind, what, n, gone),
           kind = "avatar" => pc = "upload" /\ gone \subseteq Links[<<"user", what>>],
           conn' = conn \/ conn' = Send(conn, r, r, "select", None),
           UNCHANGED <<files, erasing, rows, shown, avatar, docs>>
    PROVE  Peace'
  <1>1. /\ \A x \in Requests : req[x] = Idle /\ conn[x] = <<>>
        /\ orphans' = orphans
    BY DEF Begin, Calm
  <1>2. PICK t : t = [pc |-> pc, kind |-> kind, what |-> what, left |-> n, key |-> None,
                      thumbs |-> {}, gone |-> gone, inserted |-> {}, removed |-> {}]
    OBVIOUS
  <1>3. PICK e : e = [by |-> r, op |-> "select", key |-> None]
    OBVIOUS
  <1>4. PICK u : u = conn'[r]
    OBVIOUS
  <1>5. /\ req \in [Requests -> ReqType] /\ conn \in [Requests -> Seq(Stmt)]
    BY DEF Core, TypeOK
  <1>6. req'[r] = t /\ \A x \in Requests : x # r => req'[x] = req[x]
    BY <1>2, <1>5 DEF Begin
  <1>7. /\ u \in Seq(Stmt) /\ Len(u) <= 1 /\ \A a \in On(u) : a = e
        /\ \A x \in Requests : x # r => conn'[x] = conn[x]
    <2>1. CASE conn' = conn
      <3>1. u = <<>> /\ \A x \in Requests : x # r => conn'[x] = conn[x]
        BY <1>1, <1>4, <2>1
      <3>2. <<>> \in Seq(Stmt) /\ Len(<<>>) = 0 /\ On(<<>>) = {}
        BY OnEmpty, EmptySeq
      <3> QED BY <3>1, <3>2
    <2>2. CASE conn' = Send(conn, r, r, "select", None)
      <3>1. u = Append(<<>>, e) /\ \A x \in Requests : x # r => conn'[x] = conn[x]
        BY <1>1, <1>3, <1>4, <1>5, <2>2 DEF Send
      <3>2. e \in Stmt
        BY <1>3 DEF Stmt
      <3>3. <<>> \in Seq(Stmt) /\ Len(<<>>) = 0 /\ On(<<>>) = {}
        BY OnEmpty, EmptySeq
      <3>4. u \in Seq(Stmt) /\ Len(u) = Len(<<>>) + 1 /\ On(u) = On(<<>>) \cup {e}
        BY <3>1, <3>2, <3>3, OnAppend
      <3> QED BY <3>1, <3>3, <3>4
    <2> QED BY <2>1, <2>2
  <1>8. Links' = Links
    BY LinksStay
  <1>9. Bound(t, u, rows, Links)
    <2>1. t.pc = pc /\ t.kind = kind /\ t.what = what /\ t.thumbs = {} /\ t.gone = gone
      BY <1>2
    <2>2. t.inserted = {} /\ t.removed = {}
      BY <1>2
    <2>3. New(t) = {}
      BY <2>1 DEF New
    <2>4. Leaving(t, u) = {}
      BY <1>3, <1>7, <2>2 DEF Leaving, Removals
    <2>5. kind = "avatar" => Target(t) = <<"user", what>>
      BY <2>1 DEF Target, ProductKinds
    <2> QED BY <2>1, <2>3, <2>4, <2>5 DEF Bound
  <1>10. Staged(t, u, shown, docs)
    <2>1. t.pc = pc
      BY <1>2
    <2> QED BY <1>7, <2>1, FinalShort DEF Staged
  <1>11. Accounted'
    <2>1. \A x \in Requests : Pending(req[x]) = {} /\ Inserted(req[x]) = {}
      BY <1>1 DEF Pending, Inserted, Idle
    <2> QED BY <1>1, <2>1 DEF Peace, Accounted
  <1>12. Linked'
    <2>1. \A x \in Requests : req[x].pc \notin {"store", "commit"}
      BY <1>1 DEF Idle
    <2>2. /\ \A o \in Owners : Links[o] \subseteq rows
          /\ \A p \in Products : docs[p] \in {None, shown[p]}
      BY <2>1 DEF Peace, Linked, Doing
    <2>3. \A o, x \in Owners : o # x => Links'[o] \cap Links'[x] = {}
      BY <1>8 DEF Peace, Linked
    <2> QED BY <1>8, <2>2, <2>3 DEF Linked
  <1>13. Single'
    <2>1. \A x \in Requests : x # r => req'[x] = Idle /\ conn'[x] = <<>>
      BY <1>1, <1>6, <1>7
    <2>2. t # Idle
      <3>1. t.pc = pc
        BY <1>2
      <3> QED BY <3>1 DEF Idle
    <2> QED BY <1>6, <2>1, <2>2 DEF Single
  <1>14. \A x \in Requests : x # r => req'[x] = Idle
    BY <1>1, <1>6
  <1>15. \A x \in Requests : req'[x] # Idle => /\ Bound(req'[x], conn'[x], rows', Links')
                                               /\ Staged(req'[x], conn'[x], shown', docs')
    BY <1>4, <1>6, <1>8, <1>9, <1>10, <1>14
  <1> QED BY <1>11, <1>12, <1>13, <1>15 DEF Peace

LEMMA StartPeace ==
    ASSUME Core, Peace, Calm', NEW r \in Requests, Start(r)
    PROVE  Peace'
  <1>1. ASSUME NEW p \in Products, NEW n \in 0..MaxFiles, StartCreate(r, p, n) PROVE Peace'
    <2>1. PICK pc \in {"upload", "write", "readDoc"} : Begin(r, pc, "create", p, n, {})
      BY <1>1 DEF StartCreate
    <2>2. /\ conn' = conn \/ conn' = Send(conn, r, r, "select", None)
          /\ UNCHANGED <<files, erasing, rows, shown, avatar, docs>>
      BY <1>1 DEF StartCreate, tables
    <2> QED BY <2>1, <2>2, BeginPeace
  <1>2. ASSUME NEW p \in Products, NEW n \in 0..MaxFiles, NEW gone, StartUpdate(r, p, n, gone)
        PROVE  Peace'
    <2>1. PICK pc \in {"upload", "write", "readDoc"} : Begin(r, pc, "update", p, n, gone)
      BY <1>2 DEF StartUpdate
    <2>2. conn' = conn /\ UNCHANGED <<files, erasing, rows, shown, avatar, docs>>
      BY <1>2 DEF StartUpdate, tables
    <2> QED BY <2>1, <2>2, BeginPeace
  <1>3. ASSUME NEW u \in Users, StartAvatar(r, u) PROVE Peace'
    <2>1. Begin(r, "upload", "avatar", u, 1, {avatar[u]} \ {None})
      BY <1>3 DEF StartAvatar
    <2>2. conn' = conn /\ UNCHANGED <<files, erasing, rows, shown, avatar, docs>>
      BY <1>3 DEF StartAvatar, tables
    <2>3. {avatar[u]} \ {None} \subseteq Links[<<"user", u>>]
      BY LinkFacts
    <2> QED BY <2>1, <2>2, <2>3, BeginPeace
  <1>4. ASSUME NEW n, StartUpload(r, n) PROVE Peace'
    <2>1. Begin(r, "upload", "upload", None, n, {})
      BY <1>4 DEF StartUpload
    <2>2. conn' = conn /\ UNCHANGED <<files, erasing, rows, shown, avatar, docs>>
      BY <1>4 DEF StartUpload, tables
    <2> QED BY <2>1, <2>2, BeginPeace
  <1> QED BY <1>1, <1>2, <1>3, <1>4 DEF Start

-----------------------------------------------------------------------------
(* S3, and the whole component.                                            *)

\* Only the files change, or what is to be erased.
LEMMA PeaceKept ==
    ASSUME Peace, UNCHANGED <<rows, shown, avatar, docs, conn, req>>, Accounted'
    PROVE  Peace'
  <1>1. Links' = Links
    BY LinksStay
  <1>2. Single' /\ Linked'
    BY <1>1 DEF Peace, Single, Linked, Doing
  <1>3. \A x \in Requests : req'[x] # Idle => /\ Bound(req'[x], conn'[x], rows', Links')
                                              /\ Staged(req'[x], conn'[x], shown', docs')
    BY <1>1 DEF Peace
  <1> QED BY <1>2, <1>3 DEF Peace

LEMMA ErasePeace ==
    ASSUME Peace, Calm', NEW k \in Keys, Erase(k)
    PROVE  Peace'
  <1>1. /\ files' = files \ {k} /\ erasing' = erasing \ {k}
        /\ UNCHANGED <<rows, shown, avatar, docs, conn, req, orphans>>
    BY DEF Erase, Calm, tables
  <1>2. Accounted'
    BY <1>1 DEF Peace, Accounted
  <1> QED BY <1>1, <1>2, PeaceKept

LEMMA DiscardPeace ==
    ASSUME Peace, NEW k \in Keys, Discard(k)
    PROVE  Peace'
  <1>1. /\ erasing' = erasing \cup {k}
        /\ UNCHANGED <<files, rows, shown, avatar, docs, conn, req, orphans>>
    BY DEF Discard, tables
  <1>2. Accounted'
    BY <1>1 DEF Peace, Accounted
  <1> QED BY <1>1, <1>2, PeaceKept

LEMMA InitPeace ==
    ASSUME Init
    PROVE  Peace
  <1>1. \A r \in Requests : req[r] = Idle /\ conn[r] = <<>>
    BY DEF Init
  <1>2. \A o \in Owners : Links[o] = {}
    <2>1. \A p \in Products : LinksOf(<<"product", p>>) = {}
      BY DEF Init, LinksOf
    <2>2. \A u \in Users : LinksOf(<<"user", u>>) = {}
      BY DEF Init, LinksOf
    <2> QED BY <2>1, <2>2 DEF Links, Owners
  <1>3. \A p \in Products : docs[p] = None
    BY DEF Init
  <1>4. files = {}
    BY DEF Init
  <1> QED BY <1>1, <1>2, <1>3, <1>4 DEF Peace, Single, Accounted, Linked

\* The calm does not come back.
LEMMA CalmBefore ==
    ASSUME [Next]_vars, Calm'
    PROVE  Calm
  <1> SUFFICES ASSUME orphans = Unknown PROVE orphans' = Unknown
    BY DEF Calm
  <1>1. ASSUME NEW r \in Requests, Start(r) PROVE orphans' = Unknown
    BY <1>1 DEF Start, StartCreate, StartUpdate, StartAvatar, StartUpload, Begin
  <1>2. ASSUME NEW r \in Requests, Step(r) PROVE orphans' = Unknown
    BY <1>2 DEF Step, Upload, StoreAlone, ReadDoc, Fetch, Uncache, Cache, StoreAvatar, Reject,
                Orphan, history
  <1>3. ASSUME NEW c \in Requests, Answer(c) PROVE orphans' = Unknown
    <2>1. ASSUME RemovalRejected(c) PROVE orphans' = Unknown
      BY <2>1 DEF RemovalRejected, Restart, history
    <2>2. ASSUME LoadMedia(c) \/ InsertMedia(c) PROVE orphans' = Unknown
      BY <2>2 DEF LoadMedia, InsertMedia, Orphan, history
    <2>3. ASSUME FindMedia(c) \/ ReloadMedia(c) \/ DeleteMedia(c) PROVE orphans' = Unknown
      BY <2>1, <2>3 DEF FindMedia, ReloadMedia, DeleteMedia, history
    <2>4. ASSUME SelectProduct(c) \/ WriteProduct(c) \/ Commit(c) \/ Rollback(c)
          PROVE  orphans' = Unknown
      BY <2>4 DEF SelectProduct, WriteProduct, Commit, Rollback, Over, history
    <2> QED BY <1>3, <2>2, <2>3, <2>4 DEF Answer
  <1>4. ASSUME NEW k \in Keys, Erase(k) \/ Discard(k) PROVE orphans' = Unknown
    BY <1>4 DEF Erase, Discard
  <1>5. ASSUME Restart \/ UNCHANGED vars PROVE orphans' = Unknown
    BY <1>5 DEF Restart, vars, history
  <1> QED BY <1>1, <1>2, <1>3, <1>4, <1>5 DEF Next

LEMMA NextPeace ==
    ASSUME Core, Peace, [Next]_vars, Calm'
    PROVE  Peace'
  <1>1. ASSUME NEW r \in Requests, Start(r) PROVE Peace'
    BY <1>1, StartPeace
  <1>2. ASSUME NEW r \in Requests, Step(r) PROVE Peace'
    BY <1>2, UploadPeace, StoreAlonePeace, ReadDocPeace, FetchPeace, UncachePeace, CachePeace,
       StoreAvatarPeace, RejectPeace DEF Step
  <1>3. ASSUME NEW c \in Requests, Answer(c) PROVE Peace'
    BY <1>3, LoadMediaPeace, InsertMediaPeace, FindMediaPeace, ReloadMediaPeace, DeleteMediaPeace,
       SelectProductPeace, WriteProductPeace, CommitPeace, RollbackPeace DEF Answer
  <1>4. ASSUME NEW k \in Keys, Erase(k) \/ Discard(k) PROVE Peace'
    BY <1>4, ErasePeace, DiscardPeace
  <1>5. ~Restart
    BY DEF Restart, Calm
  <1>6. ASSUME UNCHANGED vars PROVE Peace'
    <2>1. UNCHANGED <<files, erasing, rows, shown, avatar, docs, conn, req, orphans>>
      BY <1>6 DEF vars, tables, history
    <2>2. Accounted'
      BY <2>1 DEF Peace, Accounted
    <2> QED BY <2>1, <2>2, PeaceKept
  <1> QED BY <1>1, <1>2, <1>3, <1>4, <1>5, <1>6 DEF Next

LEMMA Calmness == Spec => []CalmInv
  <1>1. Init => CalmInv
    BY InitPeace DEF CalmInv
  <1>2. Core /\ CalmInv /\ [Next]_vars => CalmInv'
    <2> SUFFICES ASSUME Core, CalmInv, [Next]_vars, Calm' PROVE Peace'
      BY DEF CalmInv
    <2>1. Peace
      BY CalmBefore DEF CalmInv
    <2> QED BY <2>1, NextPeace
  <1> QED BY Invariance, <1>1, <1>2, PTL DEF Spec

-----------------------------------------------------------------------------
(* What the invariant says when all is quiet.                              *)

\* QuietFilesHaveRows: one request after another, each of which may fail wherever its
\* transaction still rolls back, leaves no file in S3 without a row, but for those that a
\* released manager refused: what a transaction inserted is committed or on the subscriber's
\* list, and nothing takes effect behind a rollback.
THEOREM QuietFiles == Spec => []QuietFilesHaveRows
  <1>1. CalmInv => QuietFilesHaveRows
    <2> SUFFICES ASSUME Peace, Quiet, erasing = {}, NEW k \in files PROVE k \in rows \cup orphans
      BY DEF CalmInv, QuietFilesHaveRows
    <2>1. \A r \in Requests : Pending(req[r]) = {} /\ Inserted(req[r]) = {}
      BY DEF Quiet, Pending, Inserted, Idle
    <2> QED BY <2>1 DEF Peace, Accounted
  <1> QED BY Calmness, <1>1, PTL

\* QuietLinksHaveRows: then no product shows a thumbnail, and no user an avatar, whose row is
\* gone: a request only removes files that its own product or user links to and drops the
\* links with their rows.
THEOREM QuietLinks == Spec => []QuietLinksHaveRows
  <1>1. Core /\ CalmInv => QuietLinksHaveRows
    <2> SUFFICES ASSUME Core, Peace, Quiet
                 PROVE  /\ \A p \in Products : shown[p] # None => shown[p] \subseteq rows
                        /\ \A u \in Users : avatar[u] # None => avatar[u] \in rows
      BY DEF CalmInv, QuietLinksHaveRows
    <2>1. \A o \in Owners : Links[o] \subseteq rows
      BY DEF Quiet, Peace, Linked, Doing, Idle
    <2>2. \A p \in Products : shown[p] # None => shown[p] \subseteq rows
      BY <2>1, LinkFacts
    <2>3. \A u \in Users : avatar[u] # None => avatar[u] \in rows
      BY <2>1, LinkFacts
    <2> QED BY <2>2, <2>3
  <1> QED BY Invariance, Calmness, <1>1, PTL
=============================================================================
