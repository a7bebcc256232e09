----------------------------- MODULE MediaProofs ----------------------------
(* Theorems about Media, for every set of keys, products, users and         *)
(* requests, and every number of files in a request.                       *)
EXTENDS Media, FiniteSetTheorems, SequenceTheorems, TLAPS

USE MediaAssumption

-----------------------------------------------------------------------------
(* The inductive invariant: requests and connections.                      *)

\* Statements of save() of a media, and those of the request whose connection it is.
Saves == {"load", "insert"}
Own == {"select", "write", "commit", "rollback"}

\* The statements on a connection.
On(s) == {s[i] : i \in 1..Len(s)}

\* Of two statements on a connection, b behind a: a request awaits one at a time, and the
\* removals it does not wait for keep ahead of it.
InOrder(a, b) ==
    /\ a.op \in Saves /\ b.op \in Saves => a.by # b.by
    /\ a.op \in Own => b.op \notin Own
    /\ a.op = "select" => b.op # "find"
    /\ a.op = "write" => b.op \notin {"find", "reload"}
    /\ a.op = "commit" => b.op \notin Removals

Ordered(s) == \A i, j \in 1..Len(s) : i < j => InOrder(s[i], s[j])

\* Where a request is while a removal of its own is on its connection.
Removable(pc, op) ==
    /\ pc \notin {"upload", "alone", "save", "readDoc"}
    /\ op \in {"find", "reload"} => pc \notin {"uncache", "cache", "commit"}

\* A statement on the connection c is awaited by its request, or is a removal.
StmtOf(Q, c, s) ==
    /\ s.op \in Saves => Q[s.by].pc = "save" /\ Q[s.by].key = s.key
    /\ s.op \notin Saves => s.by = c
    /\ s.op \in {"select", "write"} => Q[c].pc = "write"
    /\ s.op = "commit" => Q[c].pc = "commit"
    /\ s.op = "rollback" => Q[c].pc \in {"undo", "broken"}
    /\ s.op \in Removals => s.key \in Keys /\ Removable(Q[c].pc, s.op)

ProductKinds == {"create", "update"}

\* What a request carries, by where it is.
ReqOf(q) ==
    /\ q.pc \in {"upload", "alone", "save"} => q.left >= 1
    /\ q.pc \in {"alone", "save"} \/ (q.kind = "avatar" /\ q.pc # "upload") => q.key \in Keys
    /\ q.pc \in {"write", "readDoc", "fetch", "uncache", "cache", "undo"} => q.kind \in ProductKinds
    /\ q.pc \in {"drop", "store"} => q.kind = "avatar"
    /\ q.pc \in {"commit", "broken"} => q.kind # "upload"
    /\ q.kind \in ProductKinds => q.what \in Products
    /\ q.kind = "avatar" => q.what \in Users
    /\ q.kind \notin ProductKinds => q.inserted = {}

\* Nobody else uses the connection of an avatar's transaction, and it only has one then.
Apart(q, s) ==
    q # Idle /\ q.kind \notin ProductKinds =>
        /\ Len(s) <= 1 /\ \A a \in On(s) : a.op \notin Saves
        /\ q.pc \notin {"drop", "commit", "broken"} => s = <<>>

Wired(Q, C) ==
    /\ Q \in [Requests -> ReqType] /\ C \in [Requests -> Seq(Stmt)]
    /\ \A r \in Requests : Q[r] # Idle => ReqOf(Q[r])
    /\ \A c \in Requests : Ordered(C[c]) /\ Apart(Q[c], C[c])
    /\ \A c \in Requests : \A s \in On(C[c]) : StmtOf(Q, c, s)
    /\ \A c, d \in Requests : \A s \in On(C[c]), t \in On(C[d]) :
         s.op \in Saves /\ t.op \in Saves /\ s.by = t.by => c = d
    /\ \A c \in Requests : \A s, t \in On(C[c]) : s.op = "write" => t.op # "find"

\* The shared manager belongs to a product's transaction that is open.
Managed == manager \in Requests => OfProduct(manager)

-----------------------------------------------------------------------------
(* Sequences of statements.                                                *)

LEMMA OnEmpty == On(<<>>) = {} /\ Ordered(<<>>) /\ <<>> \in Seq(Stmt)
  BY DEF On, Ordered

LEMMA OnAppend ==
    ASSUME NEW s \in Seq(Stmt), NEW e \in Stmt
    PROVE  /\ Append(s, e) \in Seq(Stmt) /\ Len(Append(s, e)) = Len(s) + 1
           /\ On(Append(s, e)) = On(s) \cup {e}
           /\ Ordered(s) /\ (\A a \in On(s) : InOrder(a, e)) => Ordered(Append(s, e))
  <1> DEFINE t == Append(s, e)
  <1>1. /\ t \in Seq(Stmt) /\ Len(t) = Len(s) + 1 /\ Len(s) \in Nat
        /\ \A i \in 1..Len(s) : t[i] = s[i]
        /\ t[Len(s) + 1] = e
    BY AppendProperties
  <1> HIDE DEF t
  <1>2. On(t) = On(s) \cup {e}
    BY <1>1 DEF On
  <1>3. ASSUME Ordered(s), \A a \in On(s) : InOrder(a, e), NEW i \in 1..Len(t), NEW j \in 1..Len(t), i < j
        PROVE  InOrder(t[i], t[j])
    <2>1. CASE j = Len(s) + 1
      BY <1>1, <1>3, <2>1 DEF On
    <2>2. CASE j # Len(s) + 1
      <3>1. i \in 1..Len(s) /\ j \in 1..Len(s)
        BY <1>1, <1>3, <2>2
      <3>2. InOrder(s[i], s[j])
        BY <1>3, <3>1 DEF Ordered
      <3> QED BY <1>1, <3>1, <3>2
    <2> QED BY <2>1, <2>2
  <1>4. Ordered(s) /\ (\A a \in On(s) : InOrder(a, e)) => Ordered(t)
    BY <1>3 DEF Ordered
  <1> QED BY <1>1, <1>2, <1>4 DEF t

LEMMA OnTail ==
    ASSUME NEW s \in Seq(Stmt), s # <<>>
    PROVE  /\ Tail(s) \in Seq(Stmt) /\ Len(Tail(s)) = Len(s) - 1
           /\ Head(s) \in Stmt /\ On(s) = On(Tail(s)) \cup {Head(s)}
           /\ Ordered(s) => Ordered(Tail(s)) /\ \A b \in On(Tail(s)) : InOrder(Head(s), b)
  <1> DEFINE t == Tail(s)
  <1>1. /\ t \in Seq(Stmt) /\ Len(t) = Len(s) - 1 /\ Len(s) \in Nat \ {0}
        /\ Head(s) \in Stmt /\ Head(s) = s[1]
        /\ \A i \in 1..Len(t) : t[i] = s[i + 1]
    BY HeadTailProperties, EmptySeq
  <1> HIDE DEF t
  <1>2. On(s) = On(t) \cup {s[1]}
    <2>1. On(t) \subseteq On(s) /\ s[1] \in On(s)
      BY <1>1 DEF On
    <2>2. ASSUME NEW i \in 1..Len(s), i # 1 PROVE s[i] \in On(t)
      <3>1. i - 1 \in 1..Len(t) /\ s[i] = t[i - 1]
        BY <1>1, <2>2
      <3> QED BY <3>1 DEF On
    <2> QED BY <2>1, <2>2 DEF On
  <1>3. ASSUME Ordered(s) PROVE Ordered(t)
    BY <1>1, <1>3 DEF Ordered
  <1>4. ASSUME Ordered(s), NEW b \in On(t) PROVE InOrder(s[1], b)
    <2>1. PICK i \in 1..Len(t) : b = t[i]
      BY <1>4 DEF On
    <2>2. b = s[i + 1] /\ i + 1 \in 1..Len(s) /\ 1 \in 1..Len(s) /\ 1 < i + 1
      BY <1>1, <2>1
    <2> QED BY <1>4, <2>2 DEF Ordered
  <1> QED BY <1>1, <1>2, <1>3, <1>4 DEF t

LEMMA OnConcat ==
    ASSUME NEW s \in Seq(Stmt), NEW t \in Seq(Stmt), Ordered(s), Ordered(t),
           \A a \in On(s), b \in On(t) : InOrder(a, b)
    PROVE  s \o t \in Seq(Stmt) /\ Ordered(s \o t) /\ On(s \o t) = On(s) \cup On(t)
  <1> DEFINE u == s \o t
  <1>1. /\ u \in Seq(Stmt) /\ Len(u) = Len(s) + Len(t) /\ Len(s) \in Nat /\ Len(t) \in Nat
        /\ \A i \in 1..Len(s) + Len(t) : u[i] = IF i <= Len(s) THEN s[i] ELSE t[i - Len(s)]
    BY ConcatProperties
  <1> HIDE DEF u
  <1>2. \A i \in 1..Len(u) : u[i] \in On(s) \cup On(t)
    BY <1>1 DEF On
  <1>3. On(s) \subseteq On(u)
    BY <1>1 DEF On
  <1>4. ASSUME NEW j \in 1..Len(t) PROVE t[j] \in On(u)
    <2>1. PICK i \in 1..Len(s) + Len(t) : i = Len(s) + j
      BY <1>1, <1>4
    <2>2. ~(i <= Len(s)) /\ i - Len(s) = j
      BY <1>1, <1>4, <2>1
    <2>3. u[i] = t[j]
      BY <1>1, <2>1, <2>2
    <2> QED BY <1>1, <2>1, <2>3 DEF On
  <1>5. ASSUME NEW i \in 1..Len(u), NEW j \in 1..Len(u), i < j PROVE InOrder(u[i], u[j])
    <2>1. CASE j <= Len(s)
      BY <1>1, <1>5, <2>1 DEF Ordered
    <2>2. CASE i > Len(s)
      <3>1. /\ i - Len(s) \in 1..Len(t) /\ j - Len(s) \in 1..Len(t) /\ i - Len(s) < j - Len(s)
            /\ u[i] = t[i - Len(s)] /\ u[j] = t[j - Len(s)]
        BY <1>1, <1>5, <2>2
      <3> QED BY <3>1 DEF Ordered
    <2>3. CASE i <= Len(s) /\ j > Len(s)
      <3>1. u[i] \in On(s) /\ j - Len(s) \in 1..Len(t) /\ u[j] = t[j - Len(s)]
        BY <1>1, <1>5, <2>3 DEF On
      <3> QED BY <3>1 DEF On
    <2> QED BY <1>1, <2>1, <2>2, <2>3
  <1>6. Ordered(u)
    BY <1>5 DEF Ordered
  <1>7. On(u) = On(s) \cup On(t)
    <2>1. On(t) \subseteq On(u)
      BY <1>4 DEF On
    <2>2. On(u) \subseteq On(s) \cup On(t)
      BY <1>2 DEF On
    <2> QED BY <1>3, <2>1, <2>2
  <1> QED BY <1>1, <1>6, <1>7 DEF u

\* The statements that look for the files to remove, in any order.
LEMMA Finds ==
    ASSUME NEW r \in Requests, NEW K \in SUBSET Keys,
           NEW t \in SetToSeqs({[by |-> r, op |-> "find", key |-> k] : k \in K})
    PROVE  /\ t \in Seq(Stmt) /\ Ordered(t)
           /\ \A a \in On(t) : a.by = r /\ a.op = "find" /\ a.key \in K
  <1> DEFINE F == {[by |-> r, op |-> "find", key |-> k] : k \in K}
  <1>1. IsFiniteSet(F)
    <2> DEFINE f == [k \in K |-> [by |-> r, op |-> "find", key |-> k]]
    <2>1. IsFiniteSet(K)
      BY FS_Subset
    <2>2. f \in Surjection(K, F)
      BY DEF Surjection
    <2> QED BY <2>1, <2>2, FS_Surjection
  <1>2. Cardinality(F) \in Nat /\ t \in [1..Cardinality(F) -> F]
    BY <1>1, FS_CardinalityType DEF SetToSeqs
  <1>3. /\ F \subseteq Stmt
        /\ \A a \in F : a.by = r /\ a.op = "find" /\ a.key \in K
    BY DEF Stmt, Removals
  <1> HIDE DEF F
  <1>4. t \in Seq(Stmt) /\ Len(t) = Cardinality(F) /\ On(t) \subseteq F
    BY <1>2, <1>3 DEF On
  <1> QED BY <1>3, <1>4 DEF On, Ordered, InOrder, Saves, Own

-----------------------------------------------------------------------------
(* Requests and their connections: one answer, one change of a request, or *)
(* one statement sent.                                                     *)

Places == {"upload", "alone", "save", "readDoc", "fetch", "write", "uncache", "cache",
           "commit", "undo", "broken", "drop", "store"}

BusyType ==
    [pc : Places,
     kind : {"create", "update", "avatar", "upload"},
     what : Products \cup Users \cup {None}, left : 0..MaxFiles,
     key : Keys \cup {None}, thumbs : SUBSET Keys, gone : SUBSET Keys,
     inserted : SUBSET Keys, removed : SUBSET Keys]

LEMMA Busy ==
    ASSUME NEW q \in ReqType
    PROVE  /\ q # Idle <=> q \in BusyType
           /\ q # Idle <=> q.pc # "idle"
  BY DEF ReqType, BusyType, Places, Idle

LEMMA BusyIsReq == BusyType \subseteq ReqType /\ Idle \in ReqType
  BY DEF ReqType, BusyType, Places

\* From Q to R only the request r changes; from C to D the statement e is sent over d, or
\* the first one on c is answered.
Turns(Q, R, r) == R \in [Requests -> ReqType] /\ \A x \in Requests : x # r => R[x] = Q[x]
Sends(C, D, d, e) == D = [C EXCEPT ![d] = Append(@, e)]
Hears(C, D, c) == D = [C EXCEPT ![c] = Tail(@)]

\* Nothing that r awaits is on its way.
Free(C, r) ==
    /\ \A c \in Requests : \A s \in On(C[c]) : s.op \in Saves => s.by # r
    /\ \A s \in On(C[r]) : s.op \notin Own

\* A request that awaits nothing from Postgres through a connection.
LEMMA FreeOf ==
    ASSUME NEW Q, NEW C, Wired(Q, C), NEW r \in Requests,
           Q[r].pc \notin {"save", "write", "commit", "undo", "broken"}
    PROVE  Free(C, r)
  BY DEF Wired, StmtOf, Free, Saves, Own

LEMMA Turn ==
    ASSUME NEW Q, NEW C, NEW R, Wired(Q, C), NEW r \in Requests, Free(C, r), Turns(Q, R, r),
           R[r] # Idle => ReqOf(R[r]), Apart(R[r], C[r]),
           \A s \in On(C[r]) : s.op \in Removals => Removable(R[r].pc, s.op)
    PROVE  Wired(R, C)
  <1>0. R \in [Requests -> ReqType] /\ \A x \in Requests : x # r => R[x] = Q[x]
    BY DEF Turns
  <1>1. ASSUME NEW c \in Requests, NEW s \in On(C[c]) PROVE StmtOf(R, c, s)
    <2>1. StmtOf(Q, c, s)
      BY DEF Wired
    <2>2. s.op \in Saves => R[s.by].pc = "save" /\ R[s.by].key = s.key
      <3> SUFFICES ASSUME s.op \in Saves PROVE R[s.by] = Q[s.by]
        BY <2>1 DEF StmtOf
      <3>1. s \in Stmt
        BY DEF Wired, On
      <3> QED BY <1>0, <3>1 DEF Free, Stmt
    <2>3. CASE c # r
      BY <1>0, <2>1, <2>2, <2>3 DEF StmtOf
    <2>4. CASE c = r
      BY <2>1, <2>2, <2>4 DEF StmtOf, Free, Own
    <2> QED BY <2>3, <2>4
  <1>2. \A x \in Requests : R[x] # Idle => ReqOf(R[x])
    BY <1>0 DEF Wired
  <1>3. \A c \in Requests : Ordered(C[c]) /\ Apart(R[c], C[c])
    BY <1>0 DEF Wired
  <1> QED BY <1>0, <1>1, <1>2, <1>3 DEF Wired

\* What is on the connections then.
LEMMA SentOn ==
    ASSUME NEW C \in [Requests -> Seq(Stmt)], NEW D, NEW d \in Requests, NEW e \in Stmt,
           Sends(C, D, d, e)
    PROVE  On(D[d]) \subseteq On(C[d]) \cup {e} /\ e \in On(D[d]) /\ On(C[d]) \subseteq On(D[d])
  <1>1. C[d] \in Seq(Stmt) /\ D[d] = Append(C[d], e)
    BY DEF Sends
  <1>2. On(Append(C[d], e)) = On(C[d]) \cup {e}
    BY <1>1, OnAppend
  <1> QED BY <1>1, <1>2

LEMMA Sent ==
    ASSUME NEW Q, NEW C, NEW D, Wired(Q, C), NEW d \in Requests, NEW e \in Stmt,
           Sends(C, D, d, e), StmtOf(Q, d, e), \A a \in On(C[d]) : InOrder(a, e), Apart(Q[d], D[d]),
           e.op \in Saves => \A c \in Requests : \A s \in On(C[c]) : s.op \in Saves => s.by # e.by,
           e.op = "find" => \A s \in On(C[d]) : s.op # "write",
           e.op = "write" => \A s \in On(C[d]) : s.op # "find"
    PROVE  Wired(Q, D)
  <1>1. /\ C \in [Requests -> Seq(Stmt)] /\ C[d] \in Seq(Stmt) /\ D[d] = Append(C[d], e)
        /\ \A c \in Requests : c # d => D[c] = C[c]
    BY DEF Wired, Sends
  <1>2. /\ D[d] \in Seq(Stmt) /\ On(D[d]) = On(C[d]) \cup {e}
        /\ Ordered(D[d])
    BY <1>1, OnAppend DEF Wired
  <1>3. D \in [Requests -> Seq(Stmt)]
    BY <1>1, <1>2 DEF Sends
  <1>4. \A c \in Requests : Ordered(D[c]) /\ Apart(Q[c], D[c])
    BY <1>1, <1>2 DEF Wired
  <1>5. \A c \in Requests : \A s \in On(D[c]) : s \in On(C[c]) \/ (c = d /\ s = e)
    BY <1>1, <1>2
  <1>6. ASSUME NEW c \in Requests, NEW s \in On(D[c]) PROVE StmtOf(Q, c, s)
    <2>1. CASE s \in On(C[c])
      BY <2>1 DEF Wired
    <2>2. CASE c = d /\ s = e
      BY <2>2
    <2> QED BY <1>5, <1>6, <2>1, <2>2
  <1>7. ASSUME NEW a \in Requests, NEW b \in Requests, NEW s \in On(D[a]), NEW t \in On(D[b]),
               s.op \in Saves, t.op \in Saves, s.by = t.by
        PROVE  a = b
    BY <1>5, <1>7 DEF Wired
  <1>8. ASSUME NEW c \in Requests, NEW s \in On(D[c]), NEW t \in On(D[c]), s.op = "write"
        PROVE  t.op # "find"
    <2>1. s \in On(C[c]) /\ t \in On(C[c]) => t.op # "find"
      BY <1>8 DEF Wired
    <2> QED BY <1>5, <1>8, <2>1
  <1> QED BY <1>1, <1>2, <1>3, <1>4, <1>6, <1>7, <1>8 DEF Wired

LEMMA Heard ==
    ASSUME NEW Q, NEW C, NEW D, Wired(Q, C), NEW c \in Requests, C[c] # <<>>,
           Hears(C, D, c)
    PROVE  /\ Wired(Q, D) /\ On(D[c]) \subseteq On(C[c]) /\ Head(C[c]) \in On(C[c])
           /\ Head(C[c]) \in Stmt /\ StmtOf(Q, c, Head(C[c]))
           /\ \A b \in On(D[c]) : InOrder(Head(C[c]), b)
           /\ Len(C[c]) <= 1 => D[c] = <<>>
  <1> DEFINE h == Head(C[c])
  <1>1. /\ C \in [Requests -> Seq(Stmt)] /\ C[c] \in Seq(Stmt) /\ D[c] = Tail(C[c])
        /\ \A d \in Requests : d # c => D[d] = C[d]
    BY DEF Wired, Hears
  <1>2. /\ D[c] \in Seq(Stmt) /\ Len(D[c]) = Len(C[c]) - 1 /\ h \in Stmt
        /\ On(C[c]) = On(D[c]) \cup {h} /\ Ordered(D[c]) /\ \A b \in On(D[c]) : InOrder(h, b)
    BY <1>1, OnTail DEF Wired
  <1>3. Len(C[c]) <= 1 => D[c] = <<>>
    BY <1>1, <1>2, EmptySeq
  <1>4. D \in [Requests -> Seq(Stmt)] /\ Len(C[c]) \in Nat
    BY <1>1, <1>2 DEF Hears
  <1> HIDE DEF h
  <1>5. \A d \in Requests : On(D[d]) \subseteq On(C[d])
    BY <1>1, <1>2
  <1>6. ASSUME NEW d \in Requests PROVE Ordered(D[d]) /\ Apart(Q[d], D[d])
    <2>1. Ordered(C[d]) /\ Apart(Q[d], C[d])
      BY DEF Wired
    <2>2. CASE d # c
      BY <1>1, <2>1, <2>2
    <2>3. CASE d = c
      <3>1. Ordered(D[c])
        BY <1>2, <2>1, <2>3
      <3>2. Apart(Q[c], D[c])
        BY <1>2, <1>3, <1>4, <1>5, <2>1, <2>3 DEF Apart
      <3> QED BY <2>3, <3>1, <3>2
    <2> QED BY <2>2, <2>3
  <1>7. Wired(Q, D)
    BY <1>4, <1>5, <1>6 DEF Wired
  <1>8. StmtOf(Q, c, h)
    BY <1>2 DEF Wired
  <1> QED BY <1>1, <1>2, <1>3, <1>7, <1>8 DEF h

\* Whoever awaited the answer awaits nothing more.
LEMMA HeardFree ==
    ASSUME NEW Q, NEW C, NEW D, Wired(Q, C), NEW c \in Requests, C[c] # <<>>,
           Hears(C, D, c)
    PROVE  /\ Head(C[c]).op \in Saves => Head(C[c]).by \in Requests /\ Free(D, Head(C[c]).by)
           /\ Head(C[c]).op \in Own => Free(D, c)
  <1> DEFINE h == Head(C[c])
  <1>1. /\ Wired(Q, D) /\ On(D[c]) \subseteq On(C[c]) /\ h \in On(C[c])
        /\ h \in Stmt /\ StmtOf(Q, c, h) /\ \A b \in On(D[c]) : InOrder(h, b)
    BY Heard
  <1>2. \A d \in Requests : d # c => D[d] = C[d]
    BY DEF Hears, Wired
  <1> HIDE DEF h
  <1>3. ASSUME h.op \in Saves PROVE h.by \in Requests /\ Free(D, h.by)
    <2>1. h.by \in Requests /\ Q[h.by].pc = "save"
      BY <1>1, <1>3 DEF Stmt, StmtOf
    <2>2. PICK r \in Requests : r = h.by
      BY <2>1
    <2>3. ASSUME NEW d \in Requests, NEW s \in On(D[d]), s.op \in Saves PROVE s.by # r
      <3>1. CASE d = c
        BY <1>1, <1>3, <2>2, <2>3, <3>1 DEF InOrder
      <3>2. CASE d # c
        BY <1>1, <1>2, <1>3, <2>2, <2>3, <3>2 DEF Wired
      <3> QED BY <3>1, <3>2
    <2>4. ASSUME NEW s \in On(D[r]) PROVE s.op \notin Own
      <3>1. StmtOf(Q, r, s)
        BY <1>1 DEF Wired
      <3> QED BY <2>1, <2>2, <3>1 DEF StmtOf, Own
    <2> QED BY <2>2, <2>3, <2>4 DEF Free
  <1>4. ASSUME h.op \in Own PROVE Free(D, c)
    <2>1. \A s \in On(D[c]) : s.op \notin Own
      BY <1>1, <1>4 DEF InOrder
    <2>2. Q[c].pc # "save"
      BY <1>1, <1>4 DEF StmtOf, Own
    <2>3. \A d \in Requests : \A s \in On(D[d]) : s.op \in Saves => s.by # c
      BY <1>1, <2>2 DEF Wired, StmtOf
    <2> QED BY <2>1, <2>3 DEF Free
  <1> QED BY <1>3, <1>4 DEF h

-----------------------------------------------------------------------------
(* The keys a request holds, and what a rejected call makes of it.          *)

IsProduct(q) == q # Idle /\ q.kind \in ProductKinds

\* The key of a file that is stored and whose row is on its way.
Pending(q) == IF q.pc \in {"alone", "save"} THEN {q.key} ELSE {}

\* Rows that only its transaction knows of.
Inserted(q) == IF q = Idle THEN {} ELSE q.inserted

\* Rows that its transaction has deleted or, having seen them, will delete.
Removing(q, s) ==
    (IF q = Idle THEN {} ELSE q.removed)
        \cup {a.key : a \in {b \in On(s) : b.op \in {"reload", "delete"}}}

\* From Q and C to R and D no request comes to hold anything new.
Within(Q, C, R, D) ==
    \A x \in Requests :
        /\ Pending(R[x]) \subseteq Pending(Q[x])
        /\ Inserted(R[x]) \subseteq Inserted(Q[x])
        /\ Removing(R[x], D[x]) \subseteq Removing(Q[x], C[x])
        /\ IsProduct(Q[x]) => IsProduct(R[x])

LEMMA WithinTrans ==
    ASSUME NEW Q, NEW C, NEW R, NEW D, NEW S, NEW E, Within(Q, C, R, D), Within(R, D, S, E)
    PROVE  Within(Q, C, S, E)
  BY DEF Within

\* One request changes, and one statement is sent that deletes nothing.
LEMMA WithinStep ==
    ASSUME NEW Q, NEW C, NEW R, NEW D, NEW r \in Requests, NEW d \in Requests, NEW e,
           \A x \in Requests : x # r => R[x] = Q[x],
           \A x \in Requests : x # d => D[x] = C[x],
           On(D[d]) \subseteq On(C[d]) \cup {e}, e.op \notin {"reload", "delete"},
           Pending(R[r]) \subseteq Pending(Q[r]), Inserted(R[r]) \subseteq Inserted(Q[r]),
           R[r] # Idle => Q[r] # Idle /\ R[r].removed \subseteq Q[r].removed,
           IsProduct(Q[r]) => IsProduct(R[r])
    PROVE  Within(Q, C, R, D)
  <1> SUFFICES ASSUME NEW x \in Requests, NEW k \in Removing(R[x], D[x])
               PROVE  k \in Removing(Q[x], C[x])
    BY DEF Within
  <1>1. CASE R[x] # Idle /\ k \in R[x].removed
    BY <1>1 DEF Removing
  <1>2. CASE \E a \in On(D[x]) : a.op \in {"reload", "delete"} /\ k = a.key
    <2>1. PICK a \in On(D[x]) : a.op \in {"reload", "delete"} /\ k = a.key
      BY <1>2
    <2>2. a \in On(C[x])
      BY <2>1
    <2> QED BY <2>1, <2>2 DEF Removing
  <1> QED BY <1>1, <1>2 DEF Removing

LEMMA HeardWithin ==
    ASSUME NEW Q, NEW C, NEW D, Wired(Q, C), NEW c \in Requests, C[c] # <<>>,
           Hears(C, D, c)
    PROVE  Within(Q, C, Q, D)
  <1>1. On(D[c]) \subseteq On(C[c])
    BY Heard
  <1>2. \A d \in Requests : d # c => D[d] = C[d]
    BY DEF Hears, Wired
  <1>3. \A d \in Requests : On(D[d]) \subseteq On(C[d])
    BY <1>1, <1>2
  <1> HIDE DEF On
  <1>4. \A x \in Requests : Removing(Q[x], D[x]) \subseteq Removing(Q[x], C[x])
    BY <1>3 DEF Removing
  <1> QED BY <1>4 DEF Within

LEMMA FailKeeps ==
    ASSUME NEW r \in Requests, NEW Q, NEW C, NEW pc \in {"undo", "broken"},
           Wired(Q, C), Free(C, r), Q[r] # Idle,
           InTransaction(r) => /\ Q[r].kind \in ProductKinds \/ pc = "broken"
                               /\ Q[r].kind \in ProductKinds \/ Q[r].kind = "avatar"
                               /\ Q[r].kind = "avatar" => Q[r].pc = "drop" /\ C[r] = <<>>,
           ~InTransaction(r) => Q[r].kind \notin ProductKinds /\ C[r] = <<>>,
           Fail(r, Q, C, pc)
    PROVE  /\ Wired(req', conn') /\ Within(Q, C, req', conn')
           /\ Pending(req'[r]) = {}
           /\ \A x \in Requests : x # r => req'[x] = Q[x] /\ conn'[x] = C[x]
  <1>0. Q \in [Requests -> ReqType] /\ Q[r] \in BusyType /\ ReqOf(Q[r])
        /\ C \in [Requests -> Seq(Stmt)]
    BY Busy DEF Wired
  <1>1. CASE InTransaction(r)
    <2> DEFINE e == [by |-> r, op |-> "rollback", key |-> None]
    <2>1. /\ req' = [Q EXCEPT ![r].pc = pc, ![r].thumbs = {}, ![r].gone = {}]
          /\ conn' = [C EXCEPT ![r] = Append(@, e)]
      BY <1>1 DEF Fail, Send
    <2>2. PICK R : R = req'
      OBVIOUS
    <2>3. PICK D : D = conn'
      OBVIOUS
    <2>4. /\ R \in [Requests -> ReqType] /\ R[r] \in BusyType /\ R[r].pc = pc
          /\ R[r].kind = Q[r].kind /\ R[r].key = Q[r].key /\ R[r].what = Q[r].what
          /\ R[r].inserted = Q[r].inserted /\ R[r].removed = Q[r].removed
          /\ \A x \in Requests : x # r => R[x] = Q[x]
      <3>1. /\ R[r] = [Q[r] EXCEPT !.pc = pc, !.thumbs = {}, !.gone = {}]
            /\ \A x \in Requests : x # r => R[x] = Q[x]
            /\ DOMAIN R = Requests /\ R = [x \in Requests |-> R[x]]
        BY <1>0, <2>1, <2>2
      <3>2. /\ R[r] \in BusyType /\ R[r].pc = pc
            /\ R[r].kind = Q[r].kind /\ R[r].key = Q[r].key /\ R[r].what = Q[r].what
            /\ R[r].inserted = Q[r].inserted /\ R[r].removed = Q[r].removed
        <4>1. R[r] \in BusyType
          BY <1>0, <3>1 DEF BusyType, Places
        <4>2. R[r].pc = pc /\ R[r].kind = Q[r].kind /\ R[r].key = Q[r].key
          BY <1>0, <3>1 DEF BusyType
        <4>3. /\ R[r].what = Q[r].what /\ R[r].inserted = Q[r].inserted
              /\ R[r].removed = Q[r].removed
          BY <1>0, <3>1 DEF BusyType
        <4> QED BY <4>1, <4>2, <4>3
      <3>3. \A x \in Requests : R[x] \in ReqType
        <4>1. R[r] \in ReqType
          BY <3>2, BusyIsReq
        <4> QED BY <1>0, <3>1, <4>1
      <3>4. R \in [Requests -> ReqType]
        BY <3>1, <3>3
      <3> QED BY <3>1, <3>2, <3>4
    <2>5. R[r] # Idle
      BY <2>4, Busy
    <2>6. ReqOf(R[r])
      BY <1>0, <1>1, <2>4 DEF ReqOf, ProductKinds, BusyType
    <2>7. Apart(R[r], C[r])
      BY <1>1, <2>4, OnEmpty, EmptySeq DEF Apart, ProductKinds
    <2>8. \A s \in On(C[r]) : s.op \in Removals => Removable(R[r].pc, s.op)
      BY <2>4 DEF Removable
    <2>9. Wired(R, C)
      BY <2>4, <2>6, <2>7, <2>8, Turn DEF Turns
    <2>10. e \in Stmt /\ e.op = "rollback" /\ e.by = r
      BY DEF Stmt
    <2>11. StmtOf(R, r, e) /\ \A a \in On(C[r]) : InOrder(a, e)
      BY <2>4, <2>10 DEF StmtOf, InOrder, Free, Saves, Own, Removals
    <2>12. Apart(R[r], Append(C[r], e))
      <3>1. CASE C[r] = <<>>
        <4>1. Len(Append(C[r], e)) = Len(C[r]) + 1 /\ On(Append(C[r], e)) = On(C[r]) \cup {e}
          BY <1>0, <2>10, OnAppend
        <4>2. Len(C[r]) = 0 /\ On(C[r]) = {}
          BY <3>1, OnEmpty, EmptySeq
        <4> QED BY <1>1, <2>4, <2>10, <4>1, <4>2 DEF Apart, Saves
      <3> QED BY <1>1, <2>4, <3>1 DEF Apart, ProductKinds
    <2> HIDE DEF e
    <2>13. Sends(C, D, r, e) /\ D[r] = Append(C[r], e)
      BY <1>0, <2>1, <2>3 DEF Sends
    <2>14. /\ Wired(R, D) /\ On(D[r]) \subseteq On(C[r]) \cup {e}
           /\ \A x \in Requests : x # r => D[x] = C[x]
      <3>1. Apart(R[r], D[r])
        BY <2>12, <2>13
      <3>2. e.op \notin Saves /\ e.op # "find" /\ e.op # "write"
        BY <2>10 DEF Saves
      <3>3. Wired(R, D)
        BY <2>9, <2>10, <2>11, <2>13, <3>1, <3>2, Sent
      <3>4. On(D[r]) \subseteq On(C[r]) \cup {e}
        <4>1. C \in [Requests -> Seq(Stmt)] /\ e \in Stmt /\ Sends(C, D, r, e)
          BY <1>0, <2>10, <2>13
        <4> QED BY <4>1, SentOn
      <3>5. \A x \in Requests : x # r => D[x] = C[x]
        BY <2>13 DEF Sends
      <3> QED BY <3>3, <3>4, <3>5
    <2>15. Pending(R[r]) = {}
      BY <2>4 DEF Pending
    <2>16. Within(Q, C, R, D)
      BY <2>4, <2>5, <2>10, <2>14, <2>15, WithinStep DEF Inserted, IsProduct
    <2> QED BY <2>2, <2>3, <2>4, <2>14, <2>15, <2>16
  <1>2. CASE ~InTransaction(r)
    <2>1. req' = [Q EXCEPT ![r] = Idle] /\ conn' = C
      BY <1>2 DEF Fail
    <2>2. PICK R : R = req'
      OBVIOUS
    <2>3. /\ R \in [Requests -> ReqType] /\ R[r] = Idle
          /\ \A x \in Requests : x # r => R[x] = Q[x]
      BY <1>0, <2>1, <2>2, BusyIsReq
    <2>4. On(C[r]) = {}
      BY <1>2, OnEmpty
    <2>5. Wired(R, C)
      BY <2>3, <2>4, Turn DEF Apart, Turns
    <2>6. Pending(R[r]) = {} /\ Inserted(R[r]) = {}
      BY <2>3, Busy DEF Pending, Inserted, Idle
    <2>7. Within(Q, C, R, C)
      BY <1>2, <2>3, <2>4, <2>6 DEF Within, Removing, IsProduct, Pending, Inserted
    <2> QED BY <2>1, <2>2, <2>3, <2>5, <2>6, <2>7
  <1> QED BY <1>1, <1>2

LEMMA UploadedKeeps ==
    ASSUME NEW r \in Requests, NEW Q, NEW C, Wired(Q, C), Free(C, r),
           Q[r].pc \in {"alone", "save"}, Uploaded(r, Q, C)
    PROVE  /\ Wired(req', conn') /\ Within(Q, C, req', conn')
           /\ Pending(req'[r]) = {}
           /\ \A x \in Requests : x # r => req'[x] = Q[x] /\ conn'[x] = C[x]
  <1> DEFINE done == [Q EXCEPT ![r].left = @ - 1, ![r].thumbs = @ \cup {Q[r].key}]
  <1>0. PICK R : R = req'
    OBVIOUS
  <1>1. PICK D : D = conn'
    OBVIOUS
  <1>2. /\ Q \in [Requests -> ReqType] /\ Q[r] \in BusyType /\ ReqOf(Q[r]) /\ Q[r] # Idle
        /\ C \in [Requests -> Seq(Stmt)] /\ Q[r].left >= 1 /\ Q[r].key \in Keys
        /\ Apart(Q[r], C[r])
    <2>1. Q \in [Requests -> ReqType] /\ C \in [Requests -> Seq(Stmt)] /\ Q[r].pc # "idle"
      BY DEF Wired
    <2>2. Q[r] # Idle
      BY <2>1, Busy
    <2>3. ReqOf(Q[r]) /\ Apart(Q[r], C[r])
      BY <2>2 DEF Wired
    <2>4. Q[r].left >= 1 /\ Q[r].key \in Keys
      BY <2>3 DEF ReqOf
    <2> QED BY <2>1, <2>2, <2>3, <2>4, Busy
  <1>3. \A s \in On(C[r]) : s.op \notin Removals /\ s.op \notin Own
    BY DEF Wired, StmtOf, Removable, Free
  \* It goes on to pc.
  <1>4. ASSUME NEW pc \in {"upload", "write", "readDoc", "store", "drop"}, R = [done EXCEPT ![r].pc = pc],
               pc = "upload" => Q[r].left > 1,
               pc = "write" => Q[r].kind = "create", pc = "readDoc" => Q[r].kind = "update",
               pc \in {"store", "drop"} => Q[r].kind = "avatar"
        PROVE  /\ Wired(R, C) /\ R[r].pc = pc /\ R[r].kind = Q[r].kind /\ R[r] # Idle
               /\ Inserted(R[r]) = Inserted(Q[r]) /\ R[r].removed = Q[r].removed
               /\ Pending(R[r]) = {}
               /\ IsProduct(Q[r]) => IsProduct(R[r])
               /\ \A x \in Requests : x # r => R[x] = Q[x]
    <2>1. /\ R[r] = [Q[r] EXCEPT !.left = @ - 1, !.thumbs = @ \cup {Q[r].key}, !.pc = pc]
          /\ \A x \in Requests : x # r => R[x] = Q[x]
          /\ DOMAIN R = Requests /\ R = [x \in Requests |-> R[x]]
      BY <1>2, <1>4
    <2>2. /\ R[r] \in BusyType /\ R[r].pc = pc /\ R[r].left = Q[r].left - 1
          /\ R[r].kind = Q[r].kind /\ R[r].key = Q[r].key /\ R[r].what = Q[r].what
          /\ R[r].inserted = Q[r].inserted /\ R[r].removed = Q[r].removed
      <3>1. Q[r].left - 1 \in 0..MaxFiles /\ Q[r].thumbs \cup {Q[r].key} \in SUBSET Keys
        BY <1>2 DEF BusyType
      <3>2. PICK n \in 0..MaxFiles, K \in SUBSET Keys :
                n = Q[r].left - 1 /\ K = Q[r].thumbs \cup {Q[r].key}
        BY <3>1
      <3>3. R[r] = [Q[r] EXCEPT !.left = n, !.thumbs = K, !.pc = pc]
        BY <2>1, <3>2
      <3>4. R[r] \in BusyType
        <4>1. PICK t : t = [Q[r] EXCEPT !.left = n, !.thumbs = K]
          OBVIOUS
        <4>2. t \in BusyType
          BY <1>2, <3>2, <4>1 DEF BusyType
        <4>3. R[r] = [t EXCEPT !.pc = pc]
          BY <1>2, <3>3, <4>1 DEF BusyType
        <4> QED BY <4>2, <4>3 DEF BusyType, Places
      <3>5. R[r].pc = pc /\ R[r].left = n /\ R[r].kind = Q[r].kind /\ R[r].key = Q[r].key
        BY <1>2, <3>3 DEF BusyType
      <3>6. /\ R[r].what = Q[r].what /\ R[r].inserted = Q[r].inserted
            /\ R[r].removed = Q[r].removed
        BY <1>2, <3>3 DEF BusyType
      <3> QED BY <3>2, <3>4, <3>5, <3>6
    <2>3. R \in [Requests -> ReqType] /\ R[r] # Idle
      BY <1>2, <2>1, <2>2, BusyIsReq, Busy
    <2>4. ReqOf(R[r])
      BY <1>2, <1>4, <2>2 DEF ReqOf, ProductKinds, BusyType
    <2>5. Apart(R[r], C[r])
      BY <1>2, <2>2, <2>3, OnEmpty, EmptySeq DEF Apart
    <2>6. Wired(R, C)
      BY <1>3, <2>1, <2>3, <2>4, <2>5, Turn DEF Turns
    <2> QED BY <1>2, <2>1, <2>2, <2>3, <2>6 DEF Inserted, Pending, IsProduct
  \* It only goes on, or sends e as well.
  <1>5. ASSUME NEW pc \in {"upload", "write", "readDoc", "store", "drop"}, R = [done EXCEPT ![r].pc = pc],
               pc = "upload" => Q[r].left > 1,
               pc = "write" => Q[r].kind = "create", pc = "readDoc" => Q[r].kind = "update",
               pc \in {"store", "drop"} => Q[r].kind = "avatar",
               NEW e \in Stmt, e.by = r, e.op \in {"select", "find"},
               e.op = "select" => pc = "write", e.op = "find" => pc = "drop" /\ e.key \in Keys,
               Sends(C, D, r, e)
        PROVE  Wired(R, D) /\ Within(Q, C, R, D) /\ Pending(R[r]) = {}
    <2>1. /\ Wired(R, C) /\ R[r].pc = pc /\ R[r].kind = Q[r].kind /\ R[r] # Idle
          /\ Inserted(R[r]) = Inserted(Q[r]) /\ R[r].removed = Q[r].removed
          /\ Pending(R[r]) = {}
          /\ IsProduct(Q[r]) => IsProduct(R[r])
          /\ \A x \in Requests : x # r => R[x] = Q[x]
      BY <1>4, <1>5
    <2>2. StmtOf(R, r, e) /\ \A a \in On(C[r]) : InOrder(a, e)
      BY <1>3, <1>5, <2>1 DEF StmtOf, InOrder, Saves, Own, Removals, Removable
    <2>3. Apart(R[r], D[r])
      <3>1. CASE R[r].kind \notin ProductKinds
        <4>1. C[r] = <<>> /\ pc = "drop"
          BY <1>2, <1>5, <2>1, <3>1 DEF Apart, ProductKinds
        <4>2. D[r] = Append(C[r], e) /\ C[r] \in Seq(Stmt)
          BY <1>2, <1>5 DEF Sends
        <4>3. Len(D[r]) = Len(C[r]) + 1 /\ On(D[r]) = On(C[r]) \cup {e}
          BY <1>5, <4>2, OnAppend
        <4>4. Len(C[r]) = 0 /\ On(C[r]) = {}
          BY <4>1, OnEmpty, EmptySeq
        <4> QED BY <1>5, <2>1, <4>1, <4>3, <4>4 DEF Apart, Saves
      <3> QED BY <3>1 DEF Apart
    <2>4. \A s \in On(C[r]) : s.op # "write" /\ s.op # "find"
      BY <1>3 DEF Own, Removals
    <2>5. Wired(R, D)
      BY <1>5, <2>1, <2>2, <2>3, <2>4, Sent DEF Saves
    <2>6. On(D[r]) \subseteq On(C[r]) \cup {e}
      <3>1. e \in Stmt /\ Sends(C, D, r, e)
        BY <1>5
      <3> QED BY <1>2, <3>1, SentOn
    <2>7. \A x \in Requests : x # r => D[x] = C[x]
      BY <1>5 DEF Sends
    <2>8. e.op \notin {"reload", "delete"}
      BY <1>5
    <2>9. Within(Q, C, R, D)
      <3>1. /\ Pending(R[r]) \subseteq Pending(Q[r]) /\ Inserted(R[r]) \subseteq Inserted(Q[r])
            /\ R[r] # Idle => Q[r] # Idle /\ R[r].removed \subseteq Q[r].removed
            /\ IsProduct(Q[r]) => IsProduct(R[r])
            /\ \A x \in Requests : x # r => R[x] = Q[x]
        BY <1>2, <2>1
      <3> QED BY <2>6, <2>7, <2>8, <3>1, WithinStep
    <2>10. Pending(R[r]) = {}
      BY <2>1
    <2> QED BY <2>5, <2>9, <2>10
  <1>6. \A x \in Requests : x # r => req'[x] = Q[x] /\ conn'[x] = C[x]
    BY <1>2 DEF Uploaded, Send
  <1>7. ASSUME NEW pc \in {"upload", "readDoc", "store"}, R = [done EXCEPT ![r].pc = pc], D = C,
               pc = "upload" => Q[r].left > 1,
               pc = "readDoc" => Q[r].kind = "update", pc = "store" => Q[r].kind = "avatar"
        PROVE  Wired(R, D) /\ Within(Q, C, R, D) /\ Pending(R[r]) = {}
    <2>1. /\ Wired(R, C) /\ Pending(R[r]) = {} /\ Inserted(R[r]) = Inserted(Q[r])
          /\ R[r].removed = Q[r].removed
          /\ IsProduct(Q[r]) => IsProduct(R[r])
          /\ \A x \in Requests : x # r => R[x] = Q[x]
      BY <1>4, <1>7
    <2>2. Within(Q, C, R, C)
      BY <1>2, <2>1 DEF Within, Removing
    <2> QED BY <1>7, <2>1, <2>2
  <1>8. CASE Q[r].kind = "create" /\ ~(Q[r].left > 1)
    <2> DEFINE e == [by |-> r, op |-> "select", key |-> None]
    <2>1. R = [done EXCEPT ![r].pc = "write"] /\ Sends(C, D, r, e)
      BY <1>0, <1>1, <1>8 DEF Uploaded, Send, Sends
    <2>2. e \in Stmt /\ e.op = "select" /\ e.by = r
      BY DEF Stmt
    <2> HIDE DEF e
    <2>3. Wired(R, D) /\ Within(Q, C, R, D) /\ Pending(R[r]) = {}
      BY <1>5, <1>8, <2>1, <2>2
    <2> QED BY <1>0, <1>1, <1>6, <2>3
  <1>9. CASE Q[r].kind = "upload" /\ ~(Q[r].left > 1)
    <2>1. R = [Q EXCEPT ![r] = Idle] /\ D = C
      BY <1>0, <1>1, <1>9 DEF Uploaded
    <2>2. /\ R \in [Requests -> ReqType] /\ R[r] = Idle
          /\ \A x \in Requests : x # r => R[x] = Q[x]
      BY <1>2, <2>1, BusyIsReq
    <2>3. Wired(R, C)
      BY <1>3, <2>2, Turn DEF Apart, Turns
    <2>4. Pending(R[r]) = {} /\ Inserted(R[r]) = {} /\ ~IsProduct(Q[r])
      BY <1>9, <2>2 DEF Pending, Inserted, Idle, IsProduct, ProductKinds
    <2>5. Within(Q, C, R, C)
      BY <2>2, <2>4 DEF Within, Removing
    <2> QED BY <1>0, <1>1, <1>6, <2>1, <2>3, <2>4, <2>5
  <1>10. CASE Q[r].kind = "avatar" /\ Q[r].gone # {} /\ ~(Q[r].left > 1)
    <2>1. PICK old \in Q[r].gone : conn' = Send(C, r, r, "find", old)
      BY <1>10 DEF Uploaded
    <2> DEFINE e == [by |-> r, op |-> "find", key |-> old]
    <2>2. R = [done EXCEPT ![r].pc = "drop"] /\ Sends(C, D, r, e)
      BY <1>0, <1>1, <1>10, <2>1 DEF Uploaded, Send, Sends
    <2>3. old \in Keys
      BY <1>2 DEF BusyType
    <2>4. e \in Stmt /\ e.op = "find" /\ e.by = r /\ e.key \in Keys
      BY <2>3 DEF Stmt, Removals
    <2> HIDE DEF e
    <2>5. Wired(R, D) /\ Within(Q, C, R, D) /\ Pending(R[r]) = {}
      BY <1>5, <1>10, <2>2, <2>4
    <2> QED BY <1>0, <1>1, <1>6, <2>5
  <1>11. CASE \/ Q[r].left > 1
              \/ Q[r].kind = "update"
              \/ Q[r].kind = "avatar" /\ Q[r].gone = {}
    <2>1. PICK pc \in {"upload", "readDoc", "store"} :
             /\ R = [done EXCEPT ![r].pc = pc] /\ D = C
             /\ pc = "upload" => Q[r].left > 1
             /\ pc = "readDoc" => Q[r].kind = "update"
             /\ pc = "store" => Q[r].kind = "avatar"
      BY <1>0, <1>1, <1>11 DEF Uploaded
    <2>2. Wired(R, D) /\ Within(Q, C, R, D) /\ Pending(R[r]) = {}
      BY <1>7, <2>1
    <2> QED BY <1>0, <1>1, <1>6, <2>2
  <1> QED BY <1>2, <1>8, <1>9, <1>10, <1>11 DEF BusyType

-----------------------------------------------------------------------------
(* The inductive invariant: files and their rows.                          *)

\* A key without a row whose file is there and about to be erased by nobody, or which was
\* deleted by hand.
Stored(k) == k \in used \ rows /\ (k \in files \ erasing \/ k \in byHand)

\* A key whose row is on its way belongs to one request, a row that is not committed to one
\* transaction, and no other deletes it.
Placed ==
    /\ rows \subseteq files \cup byHand
    /\ erasing \cap rows \subseteq byHand
    /\ \A r \in Requests : Removing(req[r], conn[r]) \subseteq used
    /\ \A r \in Requests : \A k \in Pending(req[r]) :
         /\ Stored(k)
         /\ \A q \in Requests : /\ k \notin Removing(req[q], conn[q])
                                /\ k \notin Inserted(req[q])
                                /\ k \in Pending(req[q]) => q = r
    /\ \A r \in Requests : \A k \in Inserted(req[r]) :
         /\ Stored(k)
         /\ \A q \in Requests : q # r => /\ k \notin Removing(req[q], conn[q])
                                         /\ k \notin Inserted(req[q])

Core == TypeOK /\ Wired(req, conn) /\ Managed /\ Placed

LEMMA PlacedStays ==
    ASSUME Placed, Within(req, conn, req', conn'),
           files \subseteq files', rows' \subseteq rows, used \subseteq used',
           UNCHANGED <<erasing, byHand>>
    PROVE  Placed'
  <1>1. \A k : Stored(k) => Stored(k)'
    BY DEF Stored
  <1>2. /\ (rows \subseteq files \cup byHand)'
        /\ (erasing \cap rows \subseteq byHand)'
        /\ \A r \in Requests : Removing(req'[r], conn'[r]) \subseteq used'
    BY DEF Placed, Within
  <1>3. ASSUME NEW r \in Requests, NEW k \in Pending(req'[r])
        PROVE  /\ Stored(k)'
               /\ \A q \in Requests : /\ k \notin Removing(req'[q], conn'[q])
                                      /\ k \notin Inserted(req'[q])
                                      /\ k \in Pending(req'[q]) => q = r
    BY <1>1, <1>3 DEF Placed, Within
  <1>4. ASSUME NEW r \in Requests, NEW k \in Inserted(req'[r])
        PROVE  /\ Stored(k)'
               /\ \A q \in Requests : q # r => /\ k \notin Removing(req'[q], conn'[q])
                                               /\ k \notin Inserted(req'[q])
    BY <1>1, <1>4 DEF Placed, Within
  <1> QED BY <1>2, <1>3, <1>4 DEF Placed

\* What is not about files, requests and connections.
Typed ==
    /\ shown \in [Products -> (SUBSET Keys) \cup {None}]
    /\ docs \in [Products -> (SUBSET Keys) \cup {None}]
    /\ avatar \in [Users -> Keys \cup {None}]
    /\ orphans \in (SUBSET used) \cup {Unknown}

LEMMA CoreStays ==
    ASSUME Core, Wired(req', conn'), Within(req, conn, req', conn'), Typed',
           UNCHANGED <<files, erasing, rows, byHand, used, manager>>
    PROVE  Core'
  <1>1. TypeOK'
    BY DEF Core, TypeOK, Typed, Wired
  <1>2. Managed'
    <2>1. IsProduct(req[manager]) => IsProduct(req'[manager]) \/ manager \notin Requests
      BY DEF Within
    <2> QED BY <2>1 DEF Core, Managed, OfProduct, IsProduct, ProductKinds
  <1>3. Placed'
    BY PlacedStays DEF Core
  <1> QED BY <1>1, <1>2, <1>3 DEF Core

\* A file was stored under a key that was never drawn before.
LEMMA PlacedUpload ==
    ASSUME Core, NEW k \in Keys \ used, NEW r \in Requests,
           files' = files \cup {k}, used' = used \cup {k}, UNCHANGED <<erasing, rows, byHand>>,
           \A x \in Requests : /\ Pending(req'[x]) \subseteq Pending(req[x]) \cup (IF x = r THEN {k} ELSE {})
                               /\ Inserted(req'[x]) \subseteq Inserted(req[x])
                               /\ Removing(req'[x], conn'[x]) \subseteq Removing(req[x], conn[x])
    PROVE  Placed'
  <1>1. /\ files \subseteq used /\ rows \subseteq used /\ erasing \subseteq used /\ byHand \subseteq used
        /\ Placed
    BY DEF Core, TypeOK
  <1>2. /\ Stored(k)'
        /\ \A x : Stored(x) => Stored(x)' /\ x # k
    BY <1>1 DEF Stored
  <1>3. \A x \in Requests : /\ k \notin Pending(req[x]) /\ k \notin Inserted(req[x])
                            /\ k \notin Removing(req[x], conn[x])
    BY <1>1, <1>2 DEF Placed
  <1>4. /\ (rows \subseteq files \cup byHand)'
        /\ (erasing \cap rows \subseteq byHand)'
        /\ \A x \in Requests : Removing(req'[x], conn'[x]) \subseteq used'
    BY <1>1 DEF Placed
  <1>5. ASSUME NEW x \in Requests, NEW y \in Pending(req'[x])
        PROVE  /\ Stored(y)'
               /\ \A q \in Requests : /\ y \notin Removing(req'[q], conn'[q])
                                      /\ y \notin Inserted(req'[q])
                                      /\ y \in Pending(req'[q]) => q = x
    <2>1. CASE y = k
      <3>1. \A q \in Requests : y \in Pending(req'[q]) => q = r
        BY <1>3, <2>1
      <3> QED BY <1>2, <1>3, <1>5, <2>1, <3>1
    <2>2. CASE y # k
      <3>1. y \in Pending(req[x])
        BY <1>5, <2>2
      <3>2. \A q \in Requests : y \in Pending(req'[q]) => y \in Pending(req[q])
        BY <2>2
      <3> QED BY <1>1, <1>2, <3>1, <3>2 DEF Placed
    <2> QED BY <2>1, <2>2
  <1>6. ASSUME NEW x \in Requests, NEW y \in Inserted(req'[x])
        PROVE  /\ Stored(y)'
               /\ \A q \in Requests : q # x => /\ y \notin Removing(req'[q], conn'[q])
                                               /\ y \notin Inserted(req'[q])
    BY <1>1, <1>2, <1>6 DEF Placed
  <1> QED BY <1>4, <1>5, <1>6 DEF Placed

\* A row that was on its way is committed by itself.
LEMMA PlacedRow ==
    ASSUME Placed, Within(req, conn, req', conn'), NEW r \in Requests, NEW k \in Pending(req[r]),
           Pending(req'[r]) = {}, rows' = rows \cup {k}, UNCHANGED <<files, erasing, byHand, used>>
    PROVE  Placed'
  <1>1. \A x : Stored(x) /\ x # k => Stored(x)'
    BY DEF Stored
  <1>2. Stored(k)
    BY DEF Placed
  <1>3. /\ (rows \subseteq files \cup byHand)'
        /\ (erasing \cap rows \subseteq byHand)'
        /\ \A x \in Requests : Removing(req'[x], conn'[x]) \subseteq used'
    BY <1>2 DEF Placed, Within, Stored
  <1>4. ASSUME NEW x \in Requests, NEW y \in Pending(req'[x])
        PROVE  /\ Stored(y)'
               /\ \A q \in Requests : /\ y \notin Removing(req'[q], conn'[q])
                                      /\ y \notin Inserted(req'[q])
                                      /\ y \in Pending(req'[q]) => q = x
    <2>1. y \in Pending(req[x]) /\ x # r
      BY <1>4 DEF Within
    <2>2. y # k
      BY <2>1 DEF Placed
    <2> QED BY <1>1, <2>1, <2>2 DEF Placed, Within
  <1>5. ASSUME NEW x \in Requests, NEW y \in Inserted(req'[x])
        PROVE  /\ Stored(y)'
               /\ \A q \in Requests : q # x => /\ y \notin Removing(req'[q], conn'[q])
                                               /\ y \notin Inserted(req'[q])
    <2>1. y \in Inserted(req[x])
      BY <1>5 DEF Within
    <2>2. y # k
      BY <2>1 DEF Placed
    <2> QED BY <1>1, <2>1, <2>2 DEF Placed, Within
  <1> QED BY <1>3, <1>4, <1>5 DEF Placed

\* A row that was on its way is inserted by the transaction of c.
LEMMA PlacedInsert ==
    ASSUME Placed, NEW r \in Requests, NEW c \in Requests, NEW k \in Pending(req[r]),
           Pending(req'[r]) = {}, UNCHANGED <<files, erasing, rows, byHand, used>>,
           \A x \in Requests : /\ Pending(req'[x]) \subseteq Pending(req[x])
                               /\ Inserted(req'[x]) \subseteq Inserted(req[x]) \cup (IF x = c THEN {k} ELSE {})
                               /\ Removing(req'[x], conn'[x]) \subseteq Removing(req[x], conn[x])
    PROVE  Placed'
  <1>1. \A x : Stored(x) => Stored(x)'
    BY DEF Stored
  <1>2. /\ Stored(k)
        /\ \A x \in Requests : /\ k \notin Inserted(req[x]) /\ k \notin Removing(req[x], conn[x])
                               /\ k \in Pending(req[x]) => x = r
    BY DEF Placed
  <1>3. /\ (rows \subseteq files \cup byHand)'
        /\ (erasing \cap rows \subseteq byHand)'
        /\ \A x \in Requests : Removing(req'[x], conn'[x]) \subseteq used'
    BY DEF Placed
  <1>4. ASSUME NEW x \in Requests, NEW y \in Pending(req'[x])
        PROVE  /\ Stored(y)'
               /\ \A q \in Requests : /\ y \notin Removing(req'[q], conn'[q])
                                      /\ y \notin Inserted(req'[q])
                                      /\ y \in Pending(req'[q]) => q = x
    <2>1. y \in Pending(req[x]) /\ x # r
      BY <1>4
    <2>2. y # k
      BY <1>2, <2>1
    <2>3. /\ Stored(y)
          /\ \A q \in Requests : /\ y \notin Removing(req[q], conn[q])
                                 /\ y \notin Inserted(req[q])
                                 /\ y \in Pending(req[q]) => q = x
      BY <2>1 DEF Placed
    <2> QED BY <1>1, <2>2, <2>3
  <1>5. ASSUME NEW x \in Requests, NEW y \in Inserted(req'[x])
        PROVE  /\ Stored(y)'
               /\ \A q \in Requests : q # x => /\ y \notin Removing(req'[q], conn'[q])
                                               /\ y \notin Inserted(req'[q])
    <2>1. CASE y = k
      <3>1. x = c
        BY <1>2, <1>5, <2>1
      <3> QED BY <1>1, <1>2, <2>1, <3>1
    <2>2. CASE y # k
      <3>1. y \in Inserted(req[x])
        BY <1>5, <2>2
      <3>2. /\ Stored(y)
            /\ \A q \in Requests : q # x => /\ y \notin Removing(req[q], conn[q])
                                            /\ y \notin Inserted(req[q])
        BY <3>1 DEF Placed
      <3> QED BY <1>1, <2>2, <3>2
    <2> QED BY <2>1, <2>2
  <1> QED BY <1>3, <1>4, <1>5 DEF Placed

\* The transaction of c has seen the row that it will delete.
LEMMA PlacedFind ==
    ASSUME Core, NEW c \in Requests, NEW k, k \in rows \cup Inserted(req[c]),
           UNCHANGED <<files, erasing, rows, byHand, used>>,
           \A x \in Requests : /\ Pending(req'[x]) \subseteq Pending(req[x])
                               /\ Inserted(req'[x]) \subseteq Inserted(req[x])
                               /\ Removing(req'[x], conn'[x]) \subseteq
                                    Removing(req[x], conn[x]) \cup (IF x = c THEN {k} ELSE {})
    PROVE  Placed'
  <1>1. \A x : Stored(x) => Stored(x)' /\ x \notin rows /\ x \in used
    BY DEF Stored
  <1>2. rows \subseteq used /\ files \subseteq used /\ Placed
    BY DEF Core, TypeOK
  <1>3. k \in used
    BY <1>1, <1>2 DEF Placed
  <1>4. /\ (rows \subseteq files \cup byHand)'
        /\ (erasing \cap rows \subseteq byHand)'
        /\ \A x \in Requests : Removing(req'[x], conn'[x]) \subseteq used'
    BY <1>2, <1>3 DEF Placed
  <1>5. ASSUME NEW x \in Requests, NEW y \in Pending(req'[x])
        PROVE  /\ Stored(y)'
               /\ \A q \in Requests : /\ y \notin Removing(req'[q], conn'[q])
                                      /\ y \notin Inserted(req'[q])
                                      /\ y \in Pending(req'[q]) => q = x
    <2>1. /\ Stored(y)
          /\ \A q \in Requests : /\ y \notin Removing(req[q], conn[q])
                                 /\ y \notin Inserted(req[q])
                                 /\ y \in Pending(req[q]) => q = x
      BY <1>2, <1>5 DEF Placed
    <2>2. y # k
      BY <1>1, <2>1
    <2> QED BY <1>1, <2>1, <2>2
  <1>6. ASSUME NEW x \in Requests, NEW y \in Inserted(req'[x])
        PROVE  /\ Stored(y)'
               /\ \A q \in Requests : q # x => /\ y \notin Removing(req'[q], conn'[q])
                                               /\ y \notin Inserted(req'[q])
    <2>1. y \in Inserted(req[x])
      BY <1>6
    <2>2. /\ Stored(y)
          /\ \A q \in Requests : q # x => /\ y \notin Removing(req[q], conn[q])
                                          /\ y \notin Inserted(req[q])
      BY <1>2, <2>1 DEF Placed
    <2>3. y = k => x = c
      BY <1>1, <2>2
    <2> QED BY <1>1, <2>2, <2>3
  <1> QED BY <1>4, <1>5, <1>6 DEF Placed

-----------------------------------------------------------------------------
(* A request begins.                                                       *)

LEMMA BeginKeeps ==
    ASSUME Core, NEW r \in Requests, NEW pc \in {"upload", "write", "readDoc"},
           NEW kind \in {"create", "update", "avatar", "upload"}, NEW what, NEW n \in 0..MaxFiles,
           NEW gone \in SUBSET Keys, Begin(r, pc, kind, what, n, gone),
           pc = "upload" => n >= 1, pc # "upload" => kind \in ProductKinds,
           kind \in ProductKinds => what \in Products, kind = "avatar" => what \in Users,
           kind = "upload" => what = None
    PROVE  /\ Wired(req', conn) /\ Within(req, conn, req', conn)
           /\ req'[r].pc = pc /\ req'[r].kind = kind /\ req'[r] # Idle
           /\ Pending(req'[r]) = {} /\ Inserted(req'[r]) = {} /\ req'[r].removed = {}
           /\ \A x \in Requests : x # r => req'[x] = req[x]
           /\ conn[r] = <<>> /\ Free(conn, r)
           /\ orphans' \in (SUBSET used) \cup {Unknown} /\ UNCHANGED <<used, byHand>>
  <1>1. /\ Wired(req, conn) /\ req \in [Requests -> ReqType] /\ conn \in [Requests -> Seq(Stmt)]
        /\ req[r] = Idle /\ conn[r] = <<>>
    BY DEF Core, Wired, Begin
  <1>2. PICK q : q = [pc |-> pc, kind |-> kind, what |-> what, left |-> n, key |-> None,
                      thumbs |-> {}, gone |-> gone, inserted |-> {}, removed |-> {}]
    OBVIOUS
  <1>3. PICK R : R = req'
    OBVIOUS
  <1>4. R = [req EXCEPT ![r] = q]
    BY <1>2, <1>3 DEF Begin
  <1>5. /\ q \in BusyType /\ q.pc = pc /\ q.kind = kind /\ q.what = what /\ q.left = n
        /\ q.inserted = {} /\ q.removed = {}
    BY <1>2 DEF BusyType, Places, ProductKinds
  <1>6. /\ R \in [Requests -> ReqType] /\ R[r] = q /\ q # Idle
        /\ \A x \in Requests : x # r => R[x] = req[x]
    BY <1>1, <1>4, <1>5, BusyIsReq, Busy
  <1>7. ReqOf(q)
    BY <1>5 DEF ReqOf, ProductKinds
  <1>8. On(conn[r]) = {} /\ Len(conn[r]) = 0
    BY <1>1, OnEmpty, EmptySeq
  <1>9. Free(conn, r)
    BY <1>1, FreeOf DEF Idle
  <1>10. Wired(R, conn)
    BY <1>1, <1>6, <1>7, <1>8, <1>9, Turn DEF Turns, Apart
  <1>11. Pending(q) = {} /\ Inserted(q) = {}
    BY <1>5 DEF Pending, Inserted
  <1>12. Within(req, conn, R, conn)
    BY <1>1, <1>5, <1>6, <1>8, <1>11 DEF Within, Removing, IsProduct
  <1>13. orphans' \in (SUBSET used) \cup {Unknown} /\ UNCHANGED <<used, byHand>>
    <2>1. orphans \in (SUBSET used) \cup {Unknown} /\ orphans' \in {orphans, Unknown}
      BY DEF Begin, Core, TypeOK
    <2>2. UNCHANGED <<used, byHand>>
      BY DEF Begin
    <2>3. CASE orphans' = orphans
      BY <2>1, <2>2, <2>3
    <2>4. CASE orphans' = Unknown
      BY <2>2, <2>4
    <2> QED BY <2>1, <2>3, <2>4
  <1> QED BY <1>1, <1>3, <1>5, <1>6, <1>9, <1>10, <1>11, <1>12, <1>13

LEMMA StartInv ==
    ASSUME Core, NEW r \in Requests, Start(r)
    PROVE  Core'
  <1>0. \A p \in Products : Listed(p) \subseteq Keys
    <2> SUFFICES ASSUME NEW p \in Products PROVE Listed(p) \subseteq Keys
      OBVIOUS
    <2>1. docs[p] \in (SUBSET Keys) \cup {None}
      BY DEF Core, TypeOK
    <2>2. CASE docs[p] = None
      BY <2>2 DEF Listed
    <2>3. CASE docs[p] # None
      BY <2>1, <2>3 DEF Listed
    <2> QED BY <2>2, <2>3
  <1>1. ASSUME NEW p \in Products, NEW n \in 0..MaxFiles, StartCreate(r, p, n) PROVE Core'
    <2>1. PICK pc : pc = IF n > 0 THEN "upload" ELSE "write"
      OBVIOUS
    <2>2. /\ Begin(r, pc, "create", p, n, {}) /\ manager' = r
          /\ conn' = IF n > 0 THEN conn ELSE Send(conn, r, r, "select", None)
          /\ UNCHANGED <<files, erasing, tables, docs>>
      BY <1>1, <2>1 DEF StartCreate
    <2>3. /\ Wired(req', conn) /\ Within(req, conn, req', conn)
          /\ req'[r].pc = pc /\ req'[r].kind = "create" /\ req'[r] # Idle
          /\ conn[r] = <<>> /\ Free(conn, r)
          /\ orphans' \in (SUBSET used) \cup {Unknown} /\ UNCHANGED <<used, byHand>>
      BY <2>1, <2>2, BeginKeeps DEF ProductKinds
    <2>4. Wired(req', conn') /\ Within(req, conn, req', conn')
      <3>1. CASE n > 0
        BY <2>2, <2>3, <3>1
      <3>2. CASE ~(n > 0)
        <4> DEFINE e == [by |-> r, op |-> "select", key |-> None]
        <4>1. Sends(conn, conn', r, e)
          BY <2>2, <3>2 DEF Send, Sends
        <4>2. e \in Stmt /\ e.op = "select" /\ e.by = r
          BY DEF Stmt
        <4> HIDE DEF e
        <4>3. /\ StmtOf(req', r, e) /\ Apart(req'[r], conn'[r])
          BY <2>1, <2>3, <3>2, <4>2 DEF StmtOf, Saves, Removals, Apart, ProductKinds
        <4>4. On(conn[r]) = {}
          BY <2>3, OnEmpty
        <4>5. Wired(req', conn')
          BY <2>3, <4>1, <4>2, <4>3, <4>4, Sent DEF Saves
        <4>6. conn \in [Requests -> Seq(Stmt)]
          BY DEF Core, Wired
        <4>7. On(conn'[r]) \subseteq On(conn[r]) \cup {e}
          <5>1. e \in Stmt /\ Sends(conn, conn', r, e)
            BY <4>1, <4>2, <4>6
          <5> QED BY <4>6, <5>1, SentOn
        <4>8. \A x \in Requests : x # r => conn'[x] = conn[x]
          BY <4>1, <4>6 DEF Sends
        <4>9. Within(req', conn, req', conn')
          BY <4>2, <4>7, <4>8, WithinStep
        <4> QED BY <2>3, <4>5, <4>9, WithinTrans
      <3> QED BY <3>1, <3>2
    <2>5. Typed'
      BY <2>2, <2>3 DEF tables, Core, TypeOK, Typed
    <2>6. TypeOK'
      BY <2>2, <2>3, <2>4, <2>5 DEF tables, Core, TypeOK, Typed, Wired
    <2>7. Managed'
      BY <2>2, <2>3 DEF Managed, OfProduct
    <2>8. Placed'
      BY <2>2, <2>3, <2>4, PlacedStays DEF tables, Core
    <2> QED BY <2>4, <2>6, <2>7, <2>8 DEF Core
  <1>2. ASSUME Wired(req', conn), Within(req, conn, req', conn), req'[r] # Idle,
               manager' = manager \/ (manager' = r /\ req'[r].kind = "update"),
               orphans' \in (SUBSET used) \cup {Unknown}, UNCHANGED <<used, byHand>>,
               UNCHANGED <<files, erasing, tables, docs, conn>>
        PROVE  Core'
    <2>2. Typed'
      BY <1>2 DEF tables, Core, TypeOK, Typed
    <2>3. TypeOK'
      BY <1>2, <2>2 DEF tables, Core, TypeOK, Typed, Wired
    <2>4. Managed'
      <3>1. CASE manager' = manager
        BY <1>2, <3>1 DEF Within, Core, Managed, OfProduct, IsProduct, ProductKinds
      <3>2. CASE manager' = r /\ req'[r].kind = "update"
        BY <1>2, <3>2 DEF Managed, OfProduct
      <3> QED BY <1>2, <3>1, <3>2
    <2>5. Placed'
      BY <1>2, PlacedStays DEF tables, Core
    <2> QED BY <1>2, <2>3, <2>4, <2>5 DEF Core
  <1>3. ASSUME NEW p \in Products, NEW n \in 0..MaxFiles, NEW gone \in SUBSET Listed(p),
               StartUpdate(r, p, n, gone)
        PROVE  Core'
    <2>1. PICK pc \in {"upload", "readDoc"} : pc = IF n > 0 THEN "upload" ELSE "readDoc"
      OBVIOUS
    <2>2. /\ Begin(r, pc, "update", p, n, gone) /\ manager' = IF n > 0 THEN r ELSE manager
          /\ UNCHANGED <<files, erasing, tables, docs, conn>>
      BY <1>3, <2>1 DEF StartUpdate
    <2>3. gone \in SUBSET Keys
      BY <1>0, <1>3
    <2>4. /\ Wired(req', conn) /\ Within(req, conn, req', conn)
          /\ req'[r].kind = "update" /\ req'[r] # Idle
          /\ orphans' \in (SUBSET used) \cup {Unknown} /\ UNCHANGED <<used, byHand>>
      BY <2>1, <2>2, <2>3, BeginKeeps DEF ProductKinds
    <2> QED BY <1>2, <2>2, <2>4
  <1>4. ASSUME NEW u \in Users, StartAvatar(r, u) PROVE Core'
    <2>1. PICK gone \in SUBSET Keys : gone = {avatar[u]} \ {None}
      BY DEF Core, TypeOK
    <2>2. /\ Begin(r, "upload", "avatar", u, 1, gone)
          /\ UNCHANGED <<files, erasing, tables, docs, manager, conn>>
      BY <1>4, <2>1 DEF StartAvatar
    <2>3. 1 \in 0..MaxFiles
      OBVIOUS
    <2>4. /\ Wired(req', conn) /\ Within(req, conn, req', conn) /\ req'[r] # Idle
          /\ orphans' \in (SUBSET used) \cup {Unknown} /\ UNCHANGED <<used, byHand>>
      BY <2>2, <2>3, BeginKeeps DEF ProductKinds
    <2> QED BY <1>2, <2>2, <2>4
  <1>5. ASSUME NEW n \in 1..MaxFiles, StartUpload(r, n) PROVE Core'
    <2>1. /\ Begin(r, "upload", "upload", None, n, {})
          /\ UNCHANGED <<files, erasing, tables, docs, manager, conn>>
      BY <1>5 DEF StartUpload
    <2>2. /\ Wired(req', conn) /\ Within(req, conn, req', conn) /\ req'[r] # Idle
          /\ orphans' \in (SUBSET used) \cup {Unknown} /\ UNCHANGED <<used, byHand>>
      <3>1. n \in 0..MaxFiles /\ n >= 1 /\ {} \in SUBSET Keys
        OBVIOUS
      <3> QED BY <2>1, <3>1, BeginKeeps DEF ProductKinds
    <2> QED BY <1>2, <2>1, <2>2
  <1> QED BY <1>1, <1>3, <1>4, <1>5 DEF Start

-----------------------------------------------------------------------------
(* A request goes on by itself.                                            *)

LEMMA ReqFacts ==
    ASSUME Core, NEW r \in Requests, req[r].pc # "idle"
    PROVE  /\ req \in [Requests -> ReqType] /\ conn \in [Requests -> Seq(Stmt)]
           /\ req[r] \in BusyType /\ req[r] # Idle /\ ReqOf(req[r]) /\ Apart(req[r], conn[r])
           /\ OfProduct(r) <=> req[r].kind \in ProductKinds
           /\ InTransaction(r) <=> \/ req[r].kind \in ProductKinds
                                   \/ req[r].pc \in {"drop", "commit", "broken"}
           /\ \A s \in On(conn[r]) : StmtOf(req, r, s)
  <1>1. req \in [Requests -> ReqType] /\ conn \in [Requests -> Seq(Stmt)]
    BY DEF Core, Wired
  <1>2. req[r] \in BusyType /\ req[r] # Idle
    BY <1>1, Busy
  <1>3. ReqOf(req[r]) /\ Apart(req[r], conn[r]) /\ \A s \in On(conn[r]) : StmtOf(req, r, s)
    BY <1>2 DEF Core, Wired
  <1> QED BY <1>1, <1>2, <1>3 DEF OfProduct, InTransaction, ProductKinds

\* r changes into t, and keeps what it is about and its transaction.
Swaps(R, r, t) ==
    /\ R = [x \in Requests |-> R[x]] /\ R[r] = t
    /\ \A x \in Requests : x # r => R[x] = req[x]
    /\ t.kind = req[r].kind /\ t.what = req[r].what /\ t.left = req[r].left
    /\ t.inserted = req[r].inserted /\ t.removed = req[r].removed

LEMMA GoesOn ==
    ASSUME Core, NEW r \in Requests, req[r].pc # "idle", NEW t \in BusyType,
           NEW R, Swaps(R, r, t)
    PROVE  /\ R \in [Requests -> ReqType] /\ R[r] = t /\ t # Idle
           /\ Inserted(t) = Inserted(req[r])
           /\ IsProduct(t) <=> IsProduct(req[r])
           /\ Turns(req, R, r)
  <1>1. req \in [Requests -> ReqType] /\ req[r] \in BusyType /\ req[r] # Idle
    BY ReqFacts
  <1>2. R \in [Requests -> ReqType] /\ R[r] = t /\ \A x \in Requests : x # r => R[x] = req[x]
    BY <1>1, BusyIsReq DEF Swaps
  <1>3. t # Idle
    BY <1>2, Busy
  <1> QED BY <1>1, <1>2, <1>3 DEF Turns, Inserted, IsProduct, Swaps

\* r goes on to pc with the key k.
Keyed(r, k, pc) == [[req EXCEPT ![r].key = k] EXCEPT ![r].pc = pc]

LEMMA UploadInv ==
    ASSUME Core, NEW r \in Requests, Upload(r)
    PROVE  Core'
  <1>0. PICK k \in Keys \ used :
            /\ files' = files \cup {k} /\ used' = used \cup {k}
            /\ \/ /\ manager = None
                  /\ req' = [[req EXCEPT ![r].key = k] EXCEPT ![r].pc = "alone"]
                  /\ UNCHANGED <<conn, orphans>>
               \/ /\ manager = Released /\ Orphan(k)
                  /\ Fail(r, [req EXCEPT ![r].key = k], conn, "undo")
               \/ /\ manager \in Requests
                  /\ req' = [[req EXCEPT ![r].key = k] EXCEPT ![r].pc = "save"]
                  /\ conn' = Send(conn, manager, r, "load", k)
                  /\ UNCHANGED orphans
    BY DEF Upload
  <1>1. req[r].pc = "upload" /\ UNCHANGED <<erasing, tables, docs, manager, byHand>>
    BY DEF Upload
  <1>2. /\ req \in [Requests -> ReqType] /\ conn \in [Requests -> Seq(Stmt)]
        /\ req[r] \in BusyType /\ req[r] # Idle /\ ReqOf(req[r]) /\ Apart(req[r], conn[r])
        /\ InTransaction(r) <=> req[r].kind \in ProductKinds
        /\ \A s \in On(conn[r]) : StmtOf(req, r, s)
    BY <1>1, ReqFacts
  <1>3. Free(conn, r)
    BY <1>1, FreeOf DEF Core
  <1>4. \A s \in On(conn[r]) : s.op \notin Removals
    BY <1>1, <1>2 DEF StmtOf, Removable
  <1>5. orphans' \in (SUBSET used') \cup {Unknown}
    <2>1. orphans' = orphans \/ orphans' = Unknown \/ orphans' = orphans \cup {k}
      BY <1>0 DEF Orphan
    <2>2. orphans = Unknown => orphans' = Unknown
      BY <1>0 DEF Orphan
    <2>3. orphans \in (SUBSET used) \cup {Unknown}
      BY DEF Core, TypeOK
    <2> QED BY <1>0, <2>1, <2>2, <2>3
  \* Whichever way it goes on, this is what is left to show.
  <1>6. ASSUME Wired(req', conn'), \A x \in Requests : IsProduct(req[x]) => IsProduct(req'[x]),
               \A x \in Requests :
                  /\ Pending(req'[x]) \subseteq Pending(req[x]) \cup (IF x = r THEN {k} ELSE {})
                  /\ Inserted(req'[x]) \subseteq Inserted(req[x])
                  /\ Removing(req'[x], conn'[x]) \subseteq Removing(req[x], conn[x])
        PROVE  Core'
    <2>1. Placed'
      BY <1>0, <1>1, <1>6, PlacedUpload DEF tables
    <2>2. Managed'
      BY <1>1, <1>6 DEF Core, Managed, OfProduct, IsProduct, ProductKinds
    <2>3. TypeOK'
      BY <1>0, <1>1, <1>5, <1>6 DEF Core, TypeOK, Wired, tables
    <2> QED BY <1>6, <2>1, <2>2, <2>3 DEF Core
  \* It goes on to pc with the new key.
  <1>7. ASSUME NEW pc \in {"upload", "alone", "save"}, NEW R, R = Keyed(r, k, pc)
        PROVE  /\ Wired(R, conn) /\ R[r].pc = pc /\ R[r].key = k /\ R[r] # Idle /\ R[r].kind = req[r].kind
               /\ Inserted(R[r]) = Inserted(req[r]) /\ R[r].removed = req[r].removed
               /\ Pending(R[r]) \subseteq {k}
               /\ pc = "upload" => Pending(R[r]) = {}
               /\ IsProduct(R[r]) <=> IsProduct(req[r])
               /\ \A x \in Requests : x # r => R[x] = req[x]
    <2>1. PICK t : t = [req[r] EXCEPT !.key = k, !.pc = pc]
      OBVIOUS
    <2>2. t \in BusyType /\ t.pc = pc /\ t.key = k /\ Swaps(R, r, t)
      BY <1>2, <1>7, <2>1 DEF BusyType, Places, Keyed, Swaps
    <2>3. /\ R \in [Requests -> ReqType] /\ R[r] = t /\ t # Idle
          /\ Inserted(t) = Inserted(req[r])
          /\ IsProduct(t) <=> IsProduct(req[r])
          /\ Turns(req, R, r)
      BY <1>1, <2>2, GoesOn
    <2>4. ReqOf(t) /\ Apart(t, conn[r])
      BY <1>0, <1>1, <1>2, <2>2, <2>3 DEF ReqOf, Apart, Swaps
    <2>5. Wired(R, conn)
      BY <1>3, <1>4, <2>3, <2>4, Turn DEF Core
    <2> QED BY <2>2, <2>3, <2>5 DEF Pending, Turns, Swaps
  <1>8. CASE manager = None /\ req' = [[req EXCEPT ![r].key = k] EXCEPT ![r].pc = "alone"] /\ conn' = conn
    <2>1. PICK R : R = req'
      OBVIOUS
    <2>2. /\ Wired(R, conn) /\ R[r] # Idle
          /\ Inserted(R[r]) = Inserted(req[r]) /\ R[r].removed = req[r].removed
          /\ Pending(R[r]) \subseteq {k}
          /\ IsProduct(R[r]) <=> IsProduct(req[r])
          /\ \A x \in Requests : x # r => R[x] = req[x]
      <3>1. R = Keyed(r, k, "alone")
        BY <1>8, <2>1 DEF Keyed
      <3> QED BY <1>7, <3>1
    <2>3. \A x \in Requests :
              /\ Pending(R[x]) \subseteq Pending(req[x]) \cup (IF x = r THEN {k} ELSE {})
              /\ Inserted(R[x]) \subseteq Inserted(req[x])
              /\ Removing(R[x], conn[x]) \subseteq Removing(req[x], conn[x])
      BY <1>2, <2>2 DEF Removing
    <2> QED BY <1>6, <1>8, <2>1, <2>2, <2>3
  <1>9. CASE Fail(r, [req EXCEPT ![r].key = k], conn, "undo")
    <2>1. PICK R : R = [req EXCEPT ![r].key = k]
      OBVIOUS
    <2>2. R = Keyed(r, k, "upload")
      BY <1>1, <1>2, <2>1 DEF BusyType, Keyed
    <2>3. /\ Wired(R, conn) /\ R[r] # Idle /\ R[r].pc = "upload" /\ R[r].kind = req[r].kind
          /\ Inserted(R[r]) = Inserted(req[r]) /\ R[r].removed = req[r].removed
          /\ Pending(R[r]) = {}
          /\ IsProduct(R[r]) <=> IsProduct(req[r])
          /\ \A x \in Requests : x # r => R[x] = req[x]
      BY <1>7, <2>2
    <2>4. req[r].kind \notin ProductKinds => conn[r] = <<>>
      BY <1>1, <1>2 DEF Apart
    <2>5. Wired(req', conn') /\ Within(R, conn, req', conn')
      BY <1>2, <1>3, <1>9, <2>1, <2>3, <2>4, FailKeeps DEF ProductKinds
    <2>6. Within(req, conn, R, conn)
      BY <1>2, <2>3 DEF Within, Removing
    <2>7. Within(req, conn, req', conn')
      BY <2>5, <2>6, WithinTrans
    <2> QED BY <1>6, <2>5, <2>7 DEF Within
  <1>10. CASE /\ manager \in Requests
              /\ req' = [[req EXCEPT ![r].key = k] EXCEPT ![r].pc = "save"]
              /\ conn' = Send(conn, manager, r, "load", k)
    <2>1. PICK R : R = req'
      OBVIOUS
    <2>2. PICK m \in Requests : m = manager
      BY <1>10
    <2>3. /\ Wired(R, conn) /\ R[r] # Idle /\ R[r].pc = "save" /\ R[r].key = k
          /\ Inserted(R[r]) = Inserted(req[r]) /\ R[r].removed = req[r].removed
          /\ Pending(R[r]) \subseteq {k}
          /\ IsProduct(R[r]) <=> IsProduct(req[r])
          /\ \A x \in Requests : x # r => R[x] = req[x]
      <3>1. R = Keyed(r, k, "save")
        BY <1>10, <2>1 DEF Keyed
      <3> QED BY <1>7, <3>1
    <2> DEFINE e == [by |-> r, op |-> "load", key |-> k]
    <2>4. Sends(conn, conn', m, e)
      BY <1>10, <2>2 DEF Send, Sends
    <2>5. e \in Stmt /\ e.op = "load" /\ e.by = r /\ e.key = k
      BY DEF Stmt
    <2> HIDE DEF e
    <2>6. IsProduct(R[m])
      BY <1>10, <2>2, <2>3 DEF Core, Managed, OfProduct, IsProduct, ProductKinds
    <2>7. StmtOf(R, m, e) /\ Apart(R[m], conn'[m])
      BY <2>3, <2>5, <2>6 DEF StmtOf, Saves, Removals, Apart, IsProduct
    <2>8. \A c \in Requests : \A s \in On(conn[c]) : s.op \in Saves => s.by # e.by
      BY <1>3, <2>5 DEF Free
    <2>9. \A a \in On(conn[m]) : InOrder(a, e)
      BY <2>5, <2>8 DEF InOrder, Own, Removals
    <2>10. Wired(R, conn')
      BY <2>3, <2>4, <2>5, <2>7, <2>8, <2>9, Sent
    <2>11. On(conn'[m]) \subseteq On(conn[m]) \cup {e}
      <3>1. conn \in [Requests -> Seq(Stmt)] /\ e \in Stmt /\ Sends(conn, conn', m, e)
        BY <1>2, <2>4, <2>5
      <3> QED BY <3>1, SentOn
    <2>12. \A x \in Requests : x # m => conn'[x] = conn[x]
      BY <1>2, <2>4 DEF Sends
    <2>13. Within(R, conn, R, conn')
      BY <2>5, <2>11, <2>12, WithinStep
    <2>14. \A x \in Requests :
              /\ Pending(R[x]) \subseteq Pending(req[x]) \cup (IF x = r THEN {k} ELSE {})
              /\ Inserted(R[x]) \subseteq Inserted(req[x])
              /\ Removing(R[x], conn'[x]) \subseteq Removing(req[x], conn[x])
      <3>1. \A x \in Requests : Removing(R[x], conn[x]) \subseteq Removing(req[x], conn[x])
        BY <1>2, <2>3 DEF Removing
      <3> QED BY <2>3, <2>13, <3>1 DEF Within
    <2> QED BY <1>6, <2>1, <2>3, <2>10, <2>14
  <1> QED BY <1>0, <1>8, <1>9, <1>10

\* A request that waits for nothing goes on,
LEMMA GoesKeeps ==
    ASSUME Core, NEW r \in Requests, req[r].pc # "idle", NEW t \in BusyType, NEW R, Swaps(R, r, t),
           Free(conn, r), ReqOf(t), Apart(t, conn[r]), t.pc \notin {"alone", "save"},
           \A s \in On(conn[r]) : s.op \in Removals => Removable(t.pc, s.op)
    PROVE  Wired(R, conn) /\ Within(req, conn, R, conn)
  <1>1. /\ R \in [Requests -> ReqType] /\ R[r] = t /\ t # Idle
        /\ Inserted(t) = Inserted(req[r])
        /\ IsProduct(t) <=> IsProduct(req[r])
        /\ Turns(req, R, r)
    BY GoesOn
  <1>2. Wired(R, conn)
    BY <1>1, Turn DEF Core
  <1>3. req[r] # Idle /\ t.removed = req[r].removed
    BY ReqFacts DEF Swaps
  <1>4. Within(req, conn, R, conn)
    BY <1>1, <1>3 DEF Within, Removing, Turns, Pending
  <1> QED BY <1>2, <1>4

\* and sends the next statement of its transaction.
LEMMA GoesAndSends ==
    ASSUME Core, NEW r \in Requests, req[r].pc # "idle", NEW t \in BusyType, NEW R, Swaps(R, r, t),
           Free(conn, r), ReqOf(t), t.kind \in ProductKinds, t.pc \notin {"alone", "save"},
           \A s \in On(conn[r]) : s.op \in Removals => Removable(t.pc, s.op),
           NEW e \in Stmt, NEW D, Sends(conn, D, r, e), e.by = r, e.op \in {"select", "commit"},
           e.op = "select" => t.pc = "write", e.op = "commit" => t.pc = "commit"
    PROVE  Wired(R, D) /\ Within(req, conn, R, D)
  <1>1. R[r] = t
    BY DEF Swaps
  <1>2. Wired(R, conn) /\ Within(req, conn, R, conn)
    BY GoesKeeps DEF Apart
  <1>3. StmtOf(R, r, e) /\ Apart(R[r], D[r])
    BY <1>1 DEF StmtOf, Saves, Removals, Apart
  <1>4. \A a \in On(conn[r]) : InOrder(a, e)
    BY DEF InOrder, Free, Saves, Own, Removals
  <1>5. Wired(R, D)
    BY <1>2, <1>3, <1>4, Sent DEF Saves
  <1>6. conn \in [Requests -> Seq(Stmt)]
    BY DEF Core, Wired
  <1>7. On(D[r]) \subseteq On(conn[r]) \cup {e}
    BY <1>6, SentOn
  <1>8. \A x \in Requests : x # r => D[x] = conn[x]
    BY <1>6 DEF Sends
  <1>9. e.op \notin {"reload", "delete"}
    OBVIOUS
  <1>10. Within(R, conn, R, D)
    BY <1>7, <1>8, <1>9, WithinStep
  <1> QED BY <1>2, <1>5, <1>10, WithinTrans

LEMMA StoreAloneInv ==
    ASSUME Core, NEW r \in Requests, StoreAlone(r)
    PROVE  Core'
  <1>1. /\ req[r].pc = "alone" /\ rows' = rows \cup {req[r].key} /\ Uploaded(r, req, conn)
        /\ UNCHANGED <<files, erasing, shown, avatar, docs, manager, history>>
    BY DEF StoreAlone
  <1>2. Free(conn, r)
    BY <1>1, FreeOf DEF Core
  <1>3. Wired(req', conn') /\ Within(req, conn, req', conn') /\ Pending(req'[r]) = {}
    BY <1>1, <1>2, UploadedKeeps DEF Core
  <1>4. PICK k : k = req[r].key /\ k \in Pending(req[r])
    BY <1>1 DEF Pending
  <1>5. k \in used
    BY <1>4 DEF Core, Placed, Stored
  <1>6. Placed'
    BY <1>1, <1>3, <1>4, PlacedRow DEF Core, history
  <1>7. TypeOK'
    BY <1>1, <1>3, <1>4, <1>5 DEF Core, TypeOK, Wired, history
  <1>8. Managed'
    BY <1>1, <1>3 DEF Core, Managed, Within, OfProduct, IsProduct, ProductKinds
  <1> QED BY <1>3, <1>6, <1>7, <1>8 DEF Core

LEMMA ReadDocInv ==
    ASSUME Core, NEW r \in Requests, ReadDoc(r)
    PROVE  Core'
  <1>1. req[r].pc = "readDoc" /\ UNCHANGED <<files, erasing, tables, docs, manager, history>>
    BY DEF ReadDoc
  <1>2. /\ req \in [Requests -> ReqType] /\ conn \in [Requests -> Seq(Stmt)]
        /\ req[r] \in BusyType /\ req[r] # Idle /\ ReqOf(req[r])
        /\ InTransaction(r) /\ req[r].kind \in ProductKinds /\ req[r].what \in Products
        /\ \A s \in On(conn[r]) : StmtOf(req, r, s)
    BY <1>1, ReqFacts DEF ReqOf
  <1>3. Free(conn, r) /\ \A s \in On(conn[r]) : s.op \notin Removals
    BY <1>1, <1>2, FreeOf DEF Core, StmtOf, Removable
  <1>4. Typed'
    BY <1>1 DEF Typed, tables, history, Core, TypeOK
  <1>5. CASE Fail(r, req, conn, "undo")
    <2>1. Wired(req', conn') /\ Within(req, conn, req', conn')
      BY <1>2, <1>3, <1>5, FailKeeps DEF Core, ProductKinds
    <2> QED BY <1>1, <1>4, <2>1, CoreStays DEF tables, history
  <1>6. CASE docs[req[r].what] # None /\ ~Fail(r, req, conn, "undo")
    <2>1. PICK doc \in SUBSET Keys : doc = docs[req[r].what]
      BY <1>2, <1>6 DEF Core, TypeOK
    <2>2. PICK thumbs \in SUBSET Keys, rem \in SUBSET Keys :
              thumbs = req[r].thumbs \cup (doc \ req[r].gone) /\ rem = doc \cap req[r].gone
      BY <1>2 DEF BusyType
    <2>3. PICK t : t = [req[r] EXCEPT !.pc = "fetch", !.gone = {}, !.thumbs = thumbs]
      OBVIOUS
    <2>4. req' = [req EXCEPT ![r].pc = "fetch", ![r].gone = {}, ![r].thumbs = @ \cup (doc \ req[r].gone)]
      BY <1>6, <2>1 DEF ReadDoc
    <2>5. t \in BusyType /\ t.pc = "fetch" /\ Swaps(req', r, t)
      BY <1>2, <2>2, <2>3, <2>4 DEF BusyType, Places, Swaps
    <2>6. PICK finds \in SetToSeqs({[by |-> r, op |-> "find", key |-> k] : k \in rem}) :
             conn' = [conn EXCEPT ![r] = @ \o finds]
      BY <1>6, <2>1, <2>2 DEF ReadDoc
    <2>7. /\ finds \in Seq(Stmt) /\ Ordered(finds)
          /\ \A a \in On(finds) : a.by = r /\ a.op = "find" /\ a.key \in Keys
      <3>1. /\ finds \in Seq(Stmt) /\ Ordered(finds)
            /\ \A a \in On(finds) : a.by = r /\ a.op = "find" /\ a.key \in rem
        BY Finds
      <3> QED BY <3>1
    <2>8. ReqOf(t) /\ Apart(t, conn[r])
      BY <1>2, <2>5 DEF ReqOf, Apart, Swaps, ProductKinds
    <2>9. \A s \in On(conn[r]) : s.op \in Removals => Removable(t.pc, s.op)
      BY <1>3
    <2>10. Wired(req', conn) /\ Within(req, conn, req', conn)
      BY <1>1, <1>3, <2>5, <2>8, <2>9, GoesKeeps
    <2>11. \A a \in On(conn[r]), b \in On(finds) : InOrder(a, b)
      BY <1>3, <2>7 DEF InOrder, Free, Saves, Own
    <2>12. PICK s \in Seq(Stmt) : s = conn[r] /\ Ordered(s)
      BY <1>2 DEF Core, Wired
    <2>13. /\ s \o finds \in Seq(Stmt) /\ Ordered(s \o finds)
           /\ On(s \o finds) = On(s) \cup On(finds)
      BY <2>7, <2>11, <2>12, OnConcat
    <2>14. PICK R : R = req'
      OBVIOUS
    <2>15. PICK D : D = conn'
      OBVIOUS
    <2>16. /\ D \in [Requests -> Seq(Stmt)] /\ D[r] = s \o finds
           /\ \A x \in Requests : x # r => D[x] = conn[x]
      BY <1>2, <2>6, <2>12, <2>13, <2>15
    <2>17. /\ \A x \in Requests : \A a \in On(D[x]) : a \in On(conn[x]) \/ (x = r /\ a \in On(finds))
           /\ \A a \in On(D[r]) : a.op # "write"
      <3>1. \A x \in Requests : \A a \in On(D[x]) : a \in On(conn[x]) \/ (x = r /\ a \in On(finds))
        BY <2>12, <2>13, <2>16
      <3> QED BY <1>3, <2>7, <3>1 DEF Free, Own
    <2>18. R[r] = t /\ t.kind \in ProductKinds /\ Wired(R, conn) /\ Within(req, conn, R, conn)
      BY <1>2, <2>5, <2>10, <2>14 DEF Swaps
    <2>19. Wired(R, D)
      <3>1. \A x \in Requests : Ordered(D[x]) /\ Apart(R[x], D[x])
        <4>1. Ordered(D[r]) /\ Apart(R[r], D[r])
          BY <2>13, <2>16, <2>18 DEF Apart
        <4> QED BY <2>16, <2>18, <4>1 DEF Wired
      <3>2. ASSUME NEW x \in Requests, NEW a \in On(D[x]) PROVE StmtOf(R, x, a)
        <4>1. CASE a \in On(conn[x])
          BY <2>18, <4>1 DEF Wired
        <4>2. CASE x = r /\ a \in On(finds)
          BY <2>5, <2>7, <2>18, <4>2 DEF StmtOf, Saves, Removals, Removable
        <4> QED BY <2>17, <3>2, <4>1, <4>2
      <3>3. \A x, y \in Requests : \A a \in On(D[x]), b \in On(D[y]) :
               a.op \in Saves /\ b.op \in Saves /\ a.by = b.by => x = y
        <4>1. \A x \in Requests : \A a \in On(D[x]) : a.op \in Saves => a \in On(conn[x])
          BY <2>7, <2>17 DEF Saves
        <4> QED BY <2>18, <4>1 DEF Wired
      <3>4. \A x \in Requests : \A a, b \in On(D[x]) : a.op = "write" => b.op # "find"
        BY <2>16, <2>17, <2>18 DEF Wired
      <3> QED BY <2>16, <2>18, <3>1, <3>2, <3>3, <3>4 DEF Wired
    <2>20. Within(R, conn, R, D)
      <3>1. \A x \in Requests : \A a \in On(D[x]) :
               a.op \in {"reload", "delete"} => a \in On(conn[x])
        BY <2>7, <2>17
      <3>2. \A x \in Requests : Removing(R[x], D[x]) \subseteq Removing(R[x], conn[x])
        BY <3>1 DEF Removing
      <3> QED BY <3>2 DEF Within
    <2>21. Within(req, conn, R, D)
      BY <2>18, <2>20, WithinTrans
    <2> QED BY <1>1, <1>4, <2>14, <2>15, <2>19, <2>21, CoreStays DEF tables, history
  <1> QED BY <1>2, <1>5, <1>6 DEF ReadDoc

LEMMA FetchInv ==
    ASSUME Core, NEW r \in Requests, Fetch(r)
    PROVE  Core'
  <1>1. req[r].pc = "fetch" /\ UNCHANGED <<files, erasing, tables, docs, manager, history>>
    BY DEF Fetch
  <1>2. /\ req \in [Requests -> ReqType] /\ conn \in [Requests -> Seq(Stmt)]
        /\ req[r] \in BusyType /\ req[r] # Idle /\ ReqOf(req[r])
        /\ InTransaction(r) /\ req[r].kind \in ProductKinds
        /\ \A s \in On(conn[r]) : StmtOf(req, r, s)
    BY <1>1, ReqFacts DEF ReqOf
  <1>3. Free(conn, r) /\ Typed'
    BY <1>1, FreeOf DEF Core, Typed, tables, history, TypeOK
  <1>4. CASE Fail(r, req, conn, "undo")
    <2>1. Wired(req', conn') /\ Within(req, conn, req', conn')
      BY <1>2, <1>3, <1>4, FailKeeps DEF Core, ProductKinds
    <2> QED BY <1>1, <1>3, <2>1, CoreStays DEF tables, history
  <1>5. CASE req' = [req EXCEPT ![r].pc = "write"] /\ conn' = Send(conn, r, r, "select", None)
    <2>1. PICK t : t = [req[r] EXCEPT !.pc = "write"]
      OBVIOUS
    <2>2. t \in BusyType /\ t.pc = "write" /\ Swaps(req', r, t)
      BY <1>2, <1>5, <2>1 DEF BusyType, Places, Swaps
    <2> DEFINE e == [by |-> r, op |-> "select", key |-> None]
    <2>3. Sends(conn, conn', r, e) /\ e \in Stmt /\ e.op = "select" /\ e.by = r
      BY <1>5 DEF Send, Sends, Stmt
    <2> HIDE DEF e
    <2>4. ReqOf(t) /\ t.kind \in ProductKinds
      BY <1>2, <2>2 DEF ReqOf, Swaps, ProductKinds
    <2>5. \A s \in On(conn[r]) : s.op \in Removals => Removable(t.pc, s.op)
      BY <1>2, <2>2 DEF StmtOf, Removable
    <2>6. Wired(req', conn') /\ Within(req, conn, req', conn')
      BY <1>1, <1>3, <2>2, <2>3, <2>4, <2>5, GoesAndSends
    <2> QED BY <1>1, <1>3, <2>6, CoreStays DEF tables, history
  <1> QED BY <1>4, <1>5 DEF Fetch

LEMMA UncacheInv ==
    ASSUME Core, NEW r \in Requests, Uncache(r)
    PROVE  Core'
  <1>1. /\ req[r].pc = "uncache" /\ UNCHANGED <<files, erasing, tables, manager, conn, history>>
        /\ req' = [req EXCEPT ![r].pc = "cache"] /\ docs' = [docs EXCEPT ![req[r].what] = None]
    BY DEF Uncache
  <1>2. /\ req \in [Requests -> ReqType] /\ conn \in [Requests -> Seq(Stmt)]
        /\ req[r] \in BusyType /\ req[r] # Idle /\ ReqOf(req[r])
        /\ req[r].kind \in ProductKinds
        /\ \A s \in On(conn[r]) : StmtOf(req, r, s)
    BY <1>1, ReqFacts DEF ReqOf
  <1>3. docs' \in [Products -> (SUBSET Keys) \cup {None}]
    BY <1>1 DEF Core, TypeOK
  <1>4. Free(conn, r) /\ Typed'
    BY <1>1, <1>3, FreeOf DEF Core, Typed, tables, history, TypeOK
  <1>5. PICK t : t = [req[r] EXCEPT !.pc = "cache"]
    OBVIOUS
  <1>6. t \in BusyType /\ t.pc = "cache" /\ Swaps(req', r, t)
    BY <1>1, <1>2, <1>5 DEF BusyType, Places, Swaps
  <1>7. ReqOf(t) /\ Apart(t, conn[r])
    BY <1>2, <1>6 DEF ReqOf, Swaps, ProductKinds, Apart
  <1>8. \A s \in On(conn[r]) : s.op \in Removals => Removable(t.pc, s.op)
    BY <1>1, <1>2, <1>6 DEF StmtOf, Removable
  <1>9. Wired(req', conn) /\ Within(req, conn, req', conn)
    BY <1>1, <1>4, <1>6, <1>7, <1>8, GoesKeeps
  <1> QED BY <1>1, <1>4, <1>9, CoreStays DEF tables, history

LEMMA CacheInv ==
    ASSUME Core, NEW r \in Requests, Cache(r)
    PROVE  Core'
  <1>1. /\ req[r].pc = "cache" /\ UNCHANGED <<files, erasing, tables, manager, history>>
        /\ req' = [req EXCEPT ![r].pc = "commit"]
        /\ docs' = [docs EXCEPT ![req[r].what] = req[r].thumbs]
        /\ conn' = Send(conn, r, r, "commit", None)
    BY DEF Cache
  <1>2. /\ req \in [Requests -> ReqType] /\ conn \in [Requests -> Seq(Stmt)]
        /\ req[r] \in BusyType /\ req[r] # Idle /\ ReqOf(req[r])
        /\ req[r].kind \in ProductKinds
        /\ \A s \in On(conn[r]) : StmtOf(req, r, s)
    BY <1>1, ReqFacts DEF ReqOf
  <1>3. docs' \in [Products -> (SUBSET Keys) \cup {None}]
    <2>1. req[r].thumbs \in SUBSET Keys
      BY <1>2 DEF BusyType
    <2> QED BY <1>1, <2>1 DEF Core, TypeOK
  <1>4. Free(conn, r) /\ Typed'
    BY <1>1, <1>3, FreeOf DEF Core, Typed, tables, history, TypeOK
  <1>5. PICK t : t = [req[r] EXCEPT !.pc = "commit"]
    OBVIOUS
  <1>6. t \in BusyType /\ t.pc = "commit" /\ Swaps(req', r, t)
    BY <1>1, <1>2, <1>5 DEF BusyType, Places, Swaps
  <1> DEFINE e == [by |-> r, op |-> "commit", key |-> None]
  <1>7. Sends(conn, conn', r, e) /\ e \in Stmt /\ e.op = "commit" /\ e.by = r
    BY <1>1 DEF Send, Sends, Stmt
  <1> HIDE DEF e
  <1>8. ReqOf(t) /\ t.kind \in ProductKinds
    BY <1>2, <1>6 DEF ReqOf, Swaps, ProductKinds
  <1>9. \A s \in On(conn[r]) : s.op \in Removals => Removable(t.pc, s.op)
    BY <1>1, <1>2, <1>6 DEF StmtOf, Removable
  <1>10. Wired(req', conn') /\ Within(req, conn, req', conn')
    BY <1>1, <1>4, <1>6, <1>7, <1>8, <1>9, GoesAndSends
  <1> QED BY <1>1, <1>4, <1>10, CoreStays DEF tables, history

LEMMA StoreAvatarInv ==
    ASSUME Core, NEW r \in Requests, StoreAvatar(r)
    PROVE  Core'
  <1>1. /\ req[r].pc = "store" /\ UNCHANGED <<files, erasing, rows, shown, docs, manager, conn, history>>
        /\ req' = [req EXCEPT ![r] = Idle]
        /\ avatar' = [avatar EXCEPT ![req[r].what] = req[r].key]
    BY DEF StoreAvatar
  <1>2. /\ req \in [Requests -> ReqType] /\ conn \in [Requests -> Seq(Stmt)]
        /\ req[r] \in BusyType /\ req[r] # Idle /\ req[r].key \in Keys
        /\ req[r].kind = "avatar" /\ conn[r] = <<>>
    BY <1>1, ReqFacts DEF ReqOf, Apart, ProductKinds
  <1>3. avatar' \in [Users -> Keys \cup {None}]
    BY <1>1, <1>2 DEF Core, TypeOK
  <1>4. Free(conn, r) /\ Typed'
    BY <1>1, <1>3, FreeOf DEF Core, Typed, history, TypeOK
  <1>5. PICK R : R = req'
    OBVIOUS
  <1>6. Turns(req, R, r) /\ R[r] = Idle
    BY <1>1, <1>2, <1>5, BusyIsReq DEF Turns
  <1>7. On(conn[r]) = {}
    BY <1>2, OnEmpty
  <1>8. Wired(R, conn)
    BY <1>4, <1>6, <1>7, Turn DEF Core, Apart
  <1>9. Pending(Idle) = {} /\ Inserted(Idle) = {} /\ ~IsProduct(req[r])
    BY <1>2 DEF Pending, Inserted, Idle, IsProduct, ProductKinds
  <1>10. Within(req, conn, R, conn)
    BY <1>6, <1>7, <1>9 DEF Within, Removing, Turns
  <1> QED BY <1>1, <1>4, <1>5, <1>8, <1>10, CoreStays DEF history

LEMMA RejectInv ==
    ASSUME Core, NEW r \in Requests, Reject(r)
    PROVE  Core'
  <1>1. /\ req[r].pc \in {"upload", "alone", "readDoc", "fetch", "uncache", "cache", "store"}
        /\ Fail(r, req, conn, "undo")
        /\ orphans' \in {orphans, Unknown}
        /\ UNCHANGED <<files, erasing, tables, docs, manager, used, byHand>>
    BY DEF Reject
  <1>2. /\ req[r] # Idle /\ req[r].pc \notin {"drop", "commit", "broken"}
        /\ InTransaction(r) => req[r].kind \in ProductKinds
        /\ ~InTransaction(r) => req[r].kind \notin ProductKinds /\ conn[r] = <<>>
    BY <1>1, ReqFacts DEF Apart
  <1>3. Free(conn, r)
    BY <1>1, FreeOf DEF Core
  <1>4. Typed'
    <2>1. orphans' \in (SUBSET used) \cup {Unknown}
      BY <1>1 DEF Core, TypeOK
    <2> QED BY <1>1, <2>1 DEF Core, Typed, tables, TypeOK
  <1>5. Wired(req', conn') /\ Within(req, conn, req', conn')
    BY <1>1, <1>2, <1>3, FailKeeps DEF Core, ProductKinds
  <1> QED BY <1>1, <1>4, <1>5, CoreStays DEF tables

LEMMA RestartInv ==
    ASSUME Core, Restart
    PROVE  Core'
  <1>1. PICK R : R = req'
    OBVIOUS
  <1>2. PICK D : D = conn'
    OBVIOUS
  <1>3. /\ R \in [Requests -> ReqType] /\ \A r \in Requests : R[r] = Idle
        /\ D \in [Requests -> Seq(Stmt)] /\ \A r \in Requests : D[r] = <<>> /\ On(D[r]) = {}
    BY <1>1, <1>2, BusyIsReq, OnEmpty DEF Restart
  <1>4. \A r \in Requests : Ordered(D[r]) /\ Apart(R[r], D[r])
    BY <1>3, OnEmpty DEF Apart
  <1>5. Wired(R, D)
    BY <1>3, <1>4 DEF Wired
  <1>6. \A r \in Requests : Pending(R[r]) = {} /\ Inserted(R[r]) = {} /\ Removing(R[r], D[r]) = {}
    BY <1>3 DEF Pending, Inserted, Removing, Idle
  <1>7. /\ erasing' = {} /\ manager' = None /\ orphans' = Unknown
        /\ UNCHANGED <<files, tables, docs, used, byHand>>
    BY DEF Restart
  <1>8. Placed'
    BY <1>1, <1>2, <1>6, <1>7 DEF Core, Placed, tables
  <1>9. TypeOK'
    BY <1>1, <1>2, <1>3, <1>7 DEF Core, TypeOK, tables
  <1>10. Managed'
    BY <1>7 DEF Managed
  <1> QED BY <1>1, <1>2, <1>5, <1>8, <1>9, <1>10 DEF Core

-----------------------------------------------------------------------------
(* A connection answers.                                                   *)

LEMMA Answers ==
    ASSUME Core, NEW c \in Requests, conn[c] # <<>>, NEW D, D = Answered(c)
    PROVE  /\ Hears(conn, D, c) /\ Wired(req, conn) /\ Wired(req, D) /\ Within(req, conn, req, D)
           /\ conn \in [Requests -> Seq(Stmt)] /\ D \in [Requests -> Seq(Stmt)]
           /\ \A x \in Requests : x # c => D[x] = conn[x]
           /\ On(D[c]) \subseteq On(conn[c]) /\ Head(conn[c]) \in On(conn[c])
           /\ Head(conn[c]) \in Stmt /\ StmtOf(req, c, Head(conn[c]))
           /\ \A b \in On(D[c]) : InOrder(Head(conn[c]), b)
           /\ Len(conn[c]) <= 1 => D[c] = <<>>
  <1>1. Hears(conn, D, c) /\ Wired(req, conn)
    BY DEF Hears, Answered, Core
  <1>2. /\ Wired(req, D) /\ On(D[c]) \subseteq On(conn[c]) /\ Head(conn[c]) \in On(conn[c])
        /\ Head(conn[c]) \in Stmt /\ StmtOf(req, c, Head(conn[c]))
        /\ \A b \in On(D[c]) : InOrder(Head(conn[c]), b)
        /\ Len(conn[c]) <= 1 => D[c] = <<>>
    <2>1. Wired(req, D) /\ On(D[c]) \subseteq On(conn[c]) /\ Head(conn[c]) \in On(conn[c])
      BY <1>1, Heard
    <2>2. /\ Head(conn[c]) \in Stmt /\ StmtOf(req, c, Head(conn[c]))
          /\ Len(conn[c]) <= 1 => D[c] = <<>>
      BY <1>1, Heard
    <2>3. \A b \in On(D[c]) : InOrder(Head(conn[c]), b)
      BY <1>1, Heard
    <2> QED BY <2>1, <2>2, <2>3
  <1>3. Within(req, conn, req, D)
    BY <1>1, HeardWithin
  <1>4. conn \in [Requests -> Seq(Stmt)] /\ D \in [Requests -> Seq(Stmt)]
    BY <1>1, <1>2 DEF Wired
  <1>5. \A x \in Requests : x # c => D[x] = conn[x]
    BY <1>1, <1>4 DEF Hears
  <1> QED BY <1>1, <1>2, <1>3, <1>4, <1>5

\* The answer to a statement of save(), for r.
LEMMA Saved ==
    ASSUME Core, NEW c \in Requests, conn[c] # <<>>, NEW D, D = Answered(c),
           Head(conn[c]).op \in Saves
    PROVE  /\ Head(conn[c]).by \in Requests /\ Free(D, Head(conn[c]).by)
           /\ Head(conn[c]).key \in Pending(req[Head(conn[c]).by])
           /\ Head(conn[c]).key \in Keys \cap used
           /\ req[Head(conn[c]).by].pc = "save" /\ req[Head(conn[c]).by] # Idle
           /\ IF InTransaction(Head(conn[c]).by) THEN req[Head(conn[c]).by].kind \in ProductKinds
              ELSE /\ req[Head(conn[c]).by].kind \notin ProductKinds
                   /\ D[Head(conn[c]).by] = <<>> /\ Head(conn[c]).by # c
           /\ req[c] = Idle \/ IsProduct(req[c])
  <1>1. /\ Hears(conn, D, c) /\ Wired(req, conn) /\ Wired(req, D)
        /\ \A x \in Requests : x # c => D[x] = conn[x]
        /\ Head(conn[c]) \in On(conn[c])
        /\ Head(conn[c]) \in Stmt /\ StmtOf(req, c, Head(conn[c]))
    BY Answers
  <1>2. Head(conn[c]).by \in Requests /\ Free(D, Head(conn[c]).by)
    BY <1>1, HeardFree
  <1>3. PICK s : s = Head(conn[c])
    OBVIOUS
  <1>4. PICK r \in Requests : r = s.by
    BY <1>2, <1>3
  <1>5. req[r].pc = "save" /\ req[r].key = s.key
    BY <1>1, <1>3, <1>4 DEF StmtOf
  <1>6. /\ req[r] # Idle /\ ReqOf(req[r]) /\ Apart(req[r], conn[r])
        /\ InTransaction(r) <=> req[r].kind \in ProductKinds
    BY <1>5, ReqFacts
  <1>7. req[r].kind \notin ProductKinds => D[r] = <<>> /\ r # c
    BY <1>1, <1>5, <1>6 DEF Apart
  <1>8. s.key \in Pending(req[r]) /\ s.key \in Keys
    BY <1>5, <1>6 DEF Pending, ReqOf
  <1>9. s.key \in used
    BY <1>8 DEF Core, Placed, Stored
  <1>10. req[c] = Idle \/ IsProduct(req[c])
    BY <1>1 DEF Wired, Apart, IsProduct
  <1> QED BY <1>2, <1>3, <1>4, <1>5, <1>6, <1>7, <1>8, <1>9, <1>10

LEMMA LoadMediaInv ==
    ASSUME Core, NEW c \in Requests, LoadMedia(c)
    PROVE  Core'
  <1>0. PICK D : D = Answered(c)
    OBVIOUS
  <1>1. PICK s : s = Head(conn[c])
    OBVIOUS
  <1>2. PICK r : r = s.by
    OBVIOUS
  <1>3. /\ conn[c] # <<>> /\ s.op = "load"
        /\ UNCHANGED <<files, erasing, tables, docs, manager, used, byHand>>
    BY <1>1 DEF LoadMedia, At
  <1>4. /\ Wired(req, D) /\ Within(req, conn, req, D) /\ D \in [Requests -> Seq(Stmt)]
        /\ s \in Stmt /\ StmtOf(req, c, s)
    BY <1>0, <1>1, <1>3, Answers
  <1>5. /\ r \in Requests /\ Free(D, r) /\ s.key \in Keys \cap used
        /\ req[r].pc = "save" /\ req[r] # Idle
        /\ IF InTransaction(r) THEN req[r].kind \in ProductKinds
           ELSE req[r].kind \notin ProductKinds /\ D[r] = <<>>
        /\ req[c] = Idle \/ IsProduct(req[c])
    BY <1>0, <1>1, <1>2, <1>3, Saved DEF Saves
  <1>6. CASE conn' = Send(D, c, s.by, "insert", s.key) /\ UNCHANGED <<req, orphans>>
    <2> DEFINE e == [by |-> s.by, op |-> "insert", key |-> s.key]
    <2>1. Sends(D, conn', c, e)
      BY <1>6 DEF Send, Sends
    <2>2. e \in Stmt /\ e.op = "insert" /\ e.by = s.by /\ e.key = s.key
      BY <1>4 DEF Stmt
    <2> HIDE DEF e
    <2>3. StmtOf(req, c, e) /\ Apart(req[c], conn'[c])
      BY <1>3, <1>4, <1>5, <2>2 DEF StmtOf, Saves, Removals, Apart, IsProduct
    <2>4. /\ \A x \in Requests : \A a \in On(D[x]) : a.op \in Saves => a.by # e.by
          /\ \A a \in On(D[c]) : InOrder(a, e)
      BY <1>2, <1>5, <2>2 DEF Free, InOrder, Own, Removals
    <2>5. Wired(req, conn')
      BY <1>4, <2>1, <2>2, <2>3, <2>4, Sent
    <2>6. On(conn'[c]) \subseteq On(D[c]) \cup {e}
      <3>1. D \in [Requests -> Seq(Stmt)] /\ e \in Stmt /\ Sends(D, conn', c, e)
        BY <1>4, <2>1, <2>2
      <3> QED BY <3>1, SentOn
    <2>7. \A x \in Requests : x # c => conn'[x] = D[x]
      BY <1>4, <2>1 DEF Sends
    <2>8. Within(req, D, req, conn')
      BY <2>2, <2>6, <2>7, WithinStep
    <2>9. Within(req, conn, req, conn')
      BY <1>4, <2>8, WithinTrans
    <2>10. req' = req /\ Typed'
      BY <1>3, <1>6 DEF Core, Typed, TypeOK, tables
    <2> QED BY <1>3, <2>5, <2>9, <2>10, CoreStays DEF tables
  <1>7. CASE Fail(r, req, D, "undo") /\ Orphan(s.key)
    <2>1. Wired(req', conn') /\ Within(req, D, req', conn')
      BY <1>4, <1>5, <1>7, FailKeeps DEF ProductKinds
    <2>2. Within(req, conn, req', conn')
      BY <1>4, <2>1, WithinTrans
    <2>3. orphans' \in (SUBSET used) \cup {Unknown}
      BY <1>5, <1>7 DEF Core, TypeOK, Orphan
    <2>4. Typed'
      BY <1>3, <2>3 DEF Core, Typed, TypeOK, tables
    <2> QED BY <1>3, <2>1, <2>2, <2>4, CoreStays DEF tables
  <1> QED BY <1>0, <1>1, <1>2, <1>6, <1>7 DEF LoadMedia

LEMMA InsertMediaInv ==
    ASSUME Core, NEW c \in Requests, InsertMedia(c)
    PROVE  Core'
  <1>0. PICK D : D = Answered(c)
    OBVIOUS
  <1>1. PICK s : s = Head(conn[c])
    OBVIOUS
  <1>2. PICK r : r = s.by
    OBVIOUS
  <1>3. /\ conn[c] # <<>> /\ s.op = "insert"
        /\ UNCHANGED <<files, erasing, shown, avatar, docs, manager, history>>
    BY <1>1 DEF InsertMedia, At
  <1>4. /\ Wired(req, D) /\ Within(req, conn, req, D) /\ D \in [Requests -> Seq(Stmt)]
        /\ s \in Stmt /\ StmtOf(req, c, s)
    BY <1>0, <1>1, <1>3, Answers
  <1>5. /\ r \in Requests /\ Free(D, r) /\ s.key \in Keys \cap used
        /\ s.key \in Pending(req[r])
        /\ req[r].pc = "save" /\ req[r] # Idle
        /\ IF InTransaction(r) THEN req[r].kind \in ProductKinds
           ELSE req[r].kind \notin ProductKinds /\ D[r] = <<>> /\ r # c
        /\ req[c] = Idle \/ IsProduct(req[c])
    BY <1>0, <1>1, <1>2, <1>3, Saved DEF Saves
  <1>6. Typed'
    BY <1>3 DEF Core, Typed, TypeOK, history
  <1>7. CASE InTransaction(c) /\ UNCHANGED rows /\ Uploaded(r, [req EXCEPT ![c].inserted = @ \cup {s.key}], D)
    <2>1. PICK R : R = [req EXCEPT ![c].inserted = @ \cup {s.key}]
      OBVIOUS
    <2>2. req[c] # Idle /\ IsProduct(req[c])
      BY <1>5, <1>7 DEF InTransaction, OfProduct, Idle
    <2>3. req[c] \in BusyType /\ ReqOf(req[c]) /\ req \in [Requests -> ReqType]
      BY <2>2, Busy DEF Core, Wired
    <2>4. PICK K \in SUBSET Keys : K = req[c].inserted \cup {s.key}
      BY <1>5, <2>3 DEF BusyType
    <2>5. PICK t : t = [req[c] EXCEPT !.inserted = K]
      OBVIOUS
    <2>6. /\ t \in BusyType /\ t.pc = req[c].pc /\ t.kind = req[c].kind /\ t.key = req[c].key
          /\ t.left = req[c].left /\ t.what = req[c].what
          /\ t.inserted = K /\ t.removed = req[c].removed
      BY <2>3, <2>5 DEF BusyType
    <2>7. /\ R \in [Requests -> ReqType] /\ R[c] = t /\ t # Idle
          /\ \A x \in Requests : x # c => R[x] = req[x]
      <3>1. R[c] = t /\ \A x \in Requests : x # c => R[x] = req[x]
        BY <2>1, <2>3, <2>4, <2>5
      <3>2. R \in [Requests -> ReqType]
        BY <2>1, <2>3, <2>6, <3>1, BusyIsReq
      <3> QED BY <2>6, <3>1, <3>2, Busy
    <2>8. ReqOf(t)
      BY <2>2, <2>3, <2>6 DEF ReqOf, IsProduct
    <2>9. Wired(R, D)
      <3>1. \A x \in Requests : R[x] # Idle => ReqOf(R[x])
        BY <2>7, <2>8 DEF Core, Wired
      <3>2. \A x \in Requests : Ordered(D[x]) /\ Apart(R[x], D[x])
        BY <1>4, <2>2, <2>6, <2>7 DEF Wired, Apart, IsProduct
      <3>3. \A x \in Requests : R[x].pc = req[x].pc /\ R[x].key = req[x].key
        BY <2>6, <2>7
      <3>4. ASSUME NEW x \in Requests, NEW a \in On(D[x]) PROVE StmtOf(R, x, a)
        <4>1. a \in Stmt /\ StmtOf(req, x, a)
          BY <1>4 DEF Wired, On
        <4>2. a.by \in Requests
          BY <4>1 DEF Stmt
        <4> QED BY <3>3, <4>1, <4>2 DEF StmtOf
      <3> QED BY <1>4, <2>7, <3>1, <3>2, <3>4 DEF Wired
    <2>10. R[r].pc = "save"
      BY <1>5, <2>6, <2>7
    <2>11. Uploaded(r, R, D)
      BY <1>7, <2>1
    <2>12. Wired(req', conn') /\ Within(R, D, req', conn') /\ Pending(req'[r]) = {}
      BY <1>5, <2>9, <2>10, <2>11, UploadedKeeps
    <2>13. \A x \in Requests :
              /\ Pending(R[x]) \subseteq Pending(req[x])
              /\ Inserted(R[x]) \subseteq Inserted(req[x]) \cup (IF x = c THEN {s.key} ELSE {})
              /\ Removing(R[x], D[x]) \subseteq Removing(req[x], D[x])
              /\ IsProduct(req[x]) => IsProduct(R[x])
      <3>1. /\ Pending(t) \subseteq Pending(req[c])
            /\ Inserted(t) \subseteq Inserted(req[c]) \cup {s.key}
            /\ Removing(t, D[c]) \subseteq Removing(req[c], D[c])
            /\ IsProduct(t)
        BY <2>2, <2>4, <2>6, <2>7 DEF Pending, Inserted, Removing, IsProduct
      <3> QED BY <2>7, <3>1
    <2>14. \A x \in Requests :
              /\ Pending(req'[x]) \subseteq Pending(req[x])
              /\ Inserted(req'[x]) \subseteq Inserted(req[x]) \cup (IF x = c THEN {s.key} ELSE {})
              /\ Removing(req'[x], conn'[x]) \subseteq Removing(req[x], conn[x])
              /\ IsProduct(req[x]) => IsProduct(req'[x])
      <3> SUFFICES ASSUME NEW x \in Requests
                   PROVE  /\ Pending(req'[x]) \subseteq Pending(req[x])
                          /\ Inserted(req'[x]) \subseteq Inserted(req[x]) \cup (IF x = c THEN {s.key} ELSE {})
                          /\ Removing(req'[x], conn'[x]) \subseteq Removing(req[x], conn[x])
                          /\ IsProduct(req[x]) => IsProduct(req'[x])
        OBVIOUS
      <3>1. /\ Pending(req'[x]) \subseteq Pending(R[x]) /\ Inserted(req'[x]) \subseteq Inserted(R[x])
            /\ Removing(req'[x], conn'[x]) \subseteq Removing(R[x], D[x])
            /\ IsProduct(R[x]) => IsProduct(req'[x])
        BY <2>12 DEF Within
      <3>2. Removing(req[x], D[x]) \subseteq Removing(req[x], conn[x])
        BY <1>4 DEF Within
      <3> QED BY <2>13, <3>1, <3>2
    <2>15. Placed'
      <3>1. Placed /\ UNCHANGED <<files, erasing, rows, byHand, used>>
        BY <1>3, <1>7 DEF Core, history
      <3> QED BY <1>5, <2>12, <2>14, <3>1, PlacedInsert
    <2>16. Managed'
      BY <1>3, <2>14 DEF Core, Managed, OfProduct, IsProduct, ProductKinds
    <2>17. TypeOK'
      BY <1>3, <1>7, <2>12 DEF Core, TypeOK, Wired, history
    <2> QED BY <2>12, <2>15, <2>16, <2>17 DEF Core
  <1>8. CASE UNCHANGED rows /\ Fail(r, req, D, "undo")
    <2>1. Wired(req', conn') /\ Within(req, D, req', conn')
      BY <1>4, <1>5, <1>8, FailKeeps DEF ProductKinds
    <2>2. Within(req, conn, req', conn')
      BY <1>4, <2>1, WithinTrans
    <2> QED BY <1>3, <1>6, <1>8, <2>1, <2>2, CoreStays DEF history
  <1>9. CASE rows' = rows \cup {s.key} /\ Uploaded(r, req, D)
    <2>1. Wired(req', conn') /\ Within(req, D, req', conn') /\ Pending(req'[r]) = {}
      BY <1>4, <1>5, <1>9, UploadedKeeps
    <2>2. Within(req, conn, req', conn')
      BY <1>4, <2>1, WithinTrans
    <2>3. Placed'
      BY <1>3, <1>5, <1>9, <2>1, <2>2, PlacedRow DEF Core, history
    <2>4. TypeOK'
      BY <1>3, <1>5, <1>9, <2>1 DEF Core, TypeOK, Wired, history
    <2>5. Managed'
      BY <1>3, <2>2 DEF Core, Managed, Within, OfProduct, IsProduct, ProductKinds
    <2> QED BY <2>1, <2>3, <2>4, <2>5 DEF Core
  <1> QED BY <1>0, <1>1, <1>2, <1>7, <1>8, <1>9 DEF InsertMedia

LEMMA SelectProductInv ==
    ASSUME Core, NEW c \in Requests, SelectProduct(c)
    PROVE  Core'
  <1>0. PICK D : D = Answered(c)
    OBVIOUS
  <1>1. /\ conn[c] # <<>> /\ Head(conn[c]).op = "select"
        /\ UNCHANGED <<files, erasing, tables, docs, manager, req, history>>
    BY DEF SelectProduct, At
  <1>2. /\ Hears(conn, D, c) /\ Wired(req, conn) /\ Wired(req, D) /\ Within(req, conn, req, D)
        /\ D \in [Requests -> Seq(Stmt)] /\ StmtOf(req, c, Head(conn[c]))
        /\ \A b \in On(D[c]) : InOrder(Head(conn[c]), b)
    BY <1>0, <1>1, Answers
  <1>3. Free(D, c)
    BY <1>1, <1>2, HeardFree DEF Own
  <1>4. req[c].pc = "write"
    BY <1>1, <1>2 DEF StmtOf
  <1>5. req[c].kind \in ProductKinds
    BY <1>4, ReqFacts DEF ReqOf
  <1> DEFINE e == [by |-> c, op |-> "write", key |-> None]
  <1>6. Sends(D, conn', c, e)
    BY <1>0 DEF SelectProduct, Send, Sends
  <1>7. e \in Stmt /\ e.op = "write" /\ e.by = c
    BY DEF Stmt
  <1> HIDE DEF e
  <1>8. StmtOf(req, c, e) /\ Apart(req[c], conn'[c])
    BY <1>4, <1>5, <1>7 DEF StmtOf, Saves, Removals, Apart
  <1>9. \A a \in On(D[c]) : InOrder(a, e) /\ a.op # "find"
    BY <1>1, <1>2, <1>3, <1>7 DEF Free, InOrder, Saves, Own, Removals
  <1>10. Wired(req, conn')
    BY <1>2, <1>6, <1>7, <1>8, <1>9, Sent DEF Saves
  <1>11. On(conn'[c]) \subseteq On(D[c]) \cup {e}
    <2>1. D \in [Requests -> Seq(Stmt)] /\ e \in Stmt /\ Sends(D, conn', c, e)
      BY <1>2, <1>6, <1>7
    <2> QED BY <2>1, SentOn
  <1>12. \A x \in Requests : x # c => conn'[x] = D[x]
    BY <1>2, <1>6 DEF Sends
  <1>13. Within(req, D, req, conn')
    BY <1>7, <1>11, <1>12, WithinStep
  <1>14. Within(req, conn, req, conn')
    BY <1>2, <1>13, WithinTrans
  <1>15. req' = req /\ Typed'
    BY <1>1 DEF Core, Typed, TypeOK, tables, history
  <1> QED BY <1>1, <1>10, <1>14, <1>15, CoreStays DEF tables, history

LEMMA WriteProductInv ==
    ASSUME Core, NEW c \in Requests, WriteProduct(c)
    PROVE  Core'
  <1>0. PICK D : D = Answered(c)
    OBVIOUS
  <1>1. /\ conn[c] # <<>> /\ Head(conn[c]).op = "write"
        /\ UNCHANGED <<files, erasing, tables, docs, manager, history>>
    BY DEF WriteProduct, At
  <1>2. /\ Hears(conn, D, c) /\ Wired(req, conn) /\ Wired(req, D) /\ Within(req, conn, req, D)
        /\ D \in [Requests -> Seq(Stmt)] /\ StmtOf(req, c, Head(conn[c]))
        /\ \A b \in On(D[c]) : InOrder(Head(conn[c]), b)
    BY <1>0, <1>1, Answers
  <1>3. Free(D, c)
    BY <1>1, <1>2, HeardFree DEF Own
  <1>4. req[c].pc = "write"
    BY <1>1, <1>2 DEF StmtOf
  <1>5. /\ req \in [Requests -> ReqType] /\ req[c] \in BusyType /\ req[c] # Idle /\ ReqOf(req[c])
        /\ req[c].kind \in ProductKinds /\ InTransaction(c)
    BY <1>4, ReqFacts DEF ReqOf
  <1>6. Typed'
    BY <1>1 DEF Core, Typed, TypeOK, tables, history
  <1>7. CASE Fail(c, req, D, "broken")
    <2>1. Wired(req', conn') /\ Within(req, D, req', conn')
      BY <1>2, <1>3, <1>5, <1>7, FailKeeps DEF ProductKinds
    <2>2. Within(req, conn, req', conn')
      BY <1>2, <2>1, WithinTrans
    <2> QED BY <1>1, <1>6, <2>1, <2>2, CoreStays DEF tables, history
  <1>8. CASE /\ req' = [req EXCEPT ![c].pc = IF req[c].kind = "create" THEN "cache" ELSE "uncache"]
             /\ conn' = D
    <2>1. PICK pc \in {"cache", "uncache"} : req' = [req EXCEPT ![c].pc = pc]
      BY <1>8
    <2>2. PICK t : t = [req[c] EXCEPT !.pc = pc]
      OBVIOUS
    <2>3. t \in BusyType /\ t.pc = pc /\ Swaps(req', c, t)
      BY <1>5, <2>1, <2>2 DEF BusyType, Places, Swaps
    <2>4. PICK R : R = req'
      OBVIOUS
    <2>5. Swaps(R, c, t)
      BY <2>3, <2>4
    <2>6. /\ R[c] = t /\ t # Idle /\ Inserted(t) = Inserted(req[c])
          /\ IsProduct(t) <=> IsProduct(req[c])
          /\ Turns(req, R, c)
      BY <1>4, <2>3, <2>5, GoesOn
    <2>7. ReqOf(t) /\ Apart(t, D[c])
      BY <1>5, <2>3 DEF ReqOf, Swaps, ProductKinds, Apart
    <2>8. \A s \in On(D[c]) : s.op \in Removals => Removable(t.pc, s.op)
      BY <1>1, <1>2, <2>3 DEF InOrder, Removable
    <2>9. Wired(R, D)
      BY <1>2, <1>3, <2>6, <2>7, <2>8, Turn
    <2>10. Within(req, D, R, D)
      BY <1>5, <2>3, <2>6 DEF Within, Removing, Turns, Pending, Swaps
    <2>11. Within(req, conn, R, D)
      BY <1>2, <2>10, WithinTrans
    <2> QED BY <1>1, <1>6, <1>8, <2>4, <2>9, <2>11, CoreStays DEF tables, history
  <1> QED BY <1>0, <1>7, <1>8 DEF WriteProduct

\* A removal is rejected.
LEMMA RemovalRejectedInv ==
    ASSUME Core, NEW c \in Requests, conn[c] # <<>>, RemovalRejected(c)
    PROVE  Core'
  <1>0. PICK D : D = Answered(c)
    OBVIOUS
  <1>1. CASE Restart
    BY <1>1, RestartInv
  <1>2. CASE /\ req[c].pc = "drop" /\ Fail(c, req, D, "broken")
             /\ UNCHANGED <<files, erasing, tables, docs, manager, history>>
    <2>1. /\ Wired(req, D) /\ Within(req, conn, req, D)
          /\ Len(conn[c]) <= 1 => D[c] = <<>>
      BY <1>0, Answers
    <2>2. /\ req[c] # Idle /\ req[c].kind = "avatar" /\ Len(conn[c]) <= 1 /\ InTransaction(c)
      BY <1>2, ReqFacts DEF ReqOf, Apart, ProductKinds
    <2>3. Free(D, c)
      BY <1>2, <2>1, FreeOf
    <2>4. Wired(req', conn') /\ Within(req, D, req', conn')
      BY <1>2, <2>1, <2>2, <2>3, FailKeeps
    <2>5. Within(req, conn, req', conn')
      BY <2>1, <2>4, WithinTrans
    <2>6. Typed'
      BY <1>2 DEF Core, Typed, TypeOK, tables, history
    <2> QED BY <1>2, <2>4, <2>5, <2>6, CoreStays DEF tables, history
  <1> QED BY <1>0, <1>1, <1>2 DEF RemovalRejected

\* The next statement of a removal takes the place of the one that was answered.
LEMMA StillApart ==
    ASSUME NEW q, NEW s \in Seq(Stmt), NEW t \in Seq(Stmt), NEW e \in Stmt, s # <<>>,
           Len(s) <= 1 => t = <<>>, e.op \notin Saves, Apart(q, s)
    PROVE  Apart(q, Append(t, e))
  <1> SUFFICES ASSUME q # Idle, q.kind \notin ProductKinds
               PROVE  Apart(q, Append(t, e))
    BY DEF Apart
  <1>1. t = <<>> /\ q.pc \in {"drop", "commit", "broken"}
    BY DEF Apart
  <1>2. Len(Append(t, e)) = Len(t) + 1 /\ On(Append(t, e)) = On(t) \cup {e}
    BY OnAppend
  <1>3. Len(t) = 0 /\ On(t) = {}
    BY <1>1, OnEmpty, EmptySeq
  <1> QED BY <1>1, <1>2, <1>3 DEF Apart

LEMMA ReloadMediaInv ==
    ASSUME Core, NEW c \in Requests, ReloadMedia(c)
    PROVE  Core'
  <1>0. PICK D : D = Answered(c)
    OBVIOUS
  <1>1. PICK s : s = Head(conn[c])
    OBVIOUS
  <1>2. conn[c] # <<>> /\ s.op = "reload"
    BY <1>1 DEF ReloadMedia, At
  <1>3. CASE RemovalRejected(c)
    BY <1>2, <1>3, RemovalRejectedInv
  <1>4. CASE /\ conn' = Send(D, c, c, "delete", s.key)
             /\ UNCHANGED <<files, erasing, tables, docs, manager, req, history>>
    <2>1. /\ Wired(req, conn) /\ Wired(req, D) /\ Within(req, conn, req, D)
          /\ conn \in [Requests -> Seq(Stmt)] /\ D \in [Requests -> Seq(Stmt)]
          /\ s \in Stmt /\ StmtOf(req, c, s) /\ s \in On(conn[c])
          /\ Len(conn[c]) <= 1 => D[c] = <<>>
      BY <1>0, <1>1, <1>2, Answers
    <2> DEFINE e == [by |-> c, op |-> "delete", key |-> s.key]
    <2>2. Sends(D, conn', c, e) /\ conn'[c] = Append(D[c], e)
      BY <1>4, <2>1 DEF Send, Sends
    <2>3. e \in Stmt /\ e.op = "delete" /\ e.by = c /\ e.key = s.key
      BY <2>1 DEF Stmt, Removals
    <2> HIDE DEF e
    <2>4. StmtOf(req, c, e)
      BY <1>2, <2>1, <2>3 DEF StmtOf, Saves, Removals, Removable
    <2>5. Apart(req[c], conn'[c])
      <3>1. Apart(req[c], conn[c]) /\ conn[c] \in Seq(Stmt) /\ D[c] \in Seq(Stmt)
        BY <2>1 DEF Wired
      <3>2. conn[c] # <<>> /\ (Len(conn[c]) <= 1 => D[c] = <<>>) /\ e.op \notin Saves
        BY <1>2, <2>1, <2>3 DEF Saves
      <3>3. Apart(req[c], Append(D[c], e))
        BY <2>3, <3>1, <3>2, StillApart
      <3> QED BY <2>2, <3>3
    <2>6. \A a \in On(D[c]) : InOrder(a, e)
      <3>1. \A a \in On(D[c]) : a.op # "commit"
        BY <1>2, <2>1 DEF Wired, StmtOf, Removals, Removable
      <3> QED BY <2>3, <3>1 DEF InOrder, Saves, Own
    <2>7. Wired(req, conn')
      BY <2>1, <2>2, <2>3, <2>4, <2>5, <2>6, Sent DEF Saves
    <2>8. On(conn'[c]) \subseteq On(D[c]) \cup {e}
      <3>1. D \in [Requests -> Seq(Stmt)] /\ e \in Stmt /\ Sends(D, conn', c, e)
        BY <2>1, <2>2, <2>3
      <3> QED BY <3>1, SentOn
    <2>9. \A x \in Requests : x # c => conn'[x] = D[x]
      BY <2>1, <2>2 DEF Sends
    <2>10. Within(req, conn, req, conn')
      <3>1. s.key \in Removing(req[c], conn[c])
        BY <1>2, <2>1 DEF Removing
      <3>2. Removing(req[c], conn'[c]) \subseteq Removing(req[c], D[c]) \cup {s.key}
        BY <2>3, <2>8 DEF Removing
      <3>3. \A x \in Requests : Removing(req[x], D[x]) \subseteq Removing(req[x], conn[x])
        BY <2>1 DEF Within
      <3>4. \A x \in Requests : Removing(req[x], conn'[x]) \subseteq Removing(req[x], conn[x])
        BY <2>9, <3>1, <3>2, <3>3
      <3> QED BY <3>4 DEF Within
    <2>11. req' = req /\ Typed'
      BY <1>4 DEF Core, Typed, TypeOK, tables, history
    <2> QED BY <1>4, <2>7, <2>10, <2>11, CoreStays DEF tables, history
  <1> QED BY <1>0, <1>1, <1>3, <1>4 DEF ReloadMedia

\* A removal is done; Q and D are the requests and connections as they are by then.
LEMMA RemovalDoneKeeps ==
    ASSUME NEW c \in Requests, NEW Q, NEW D, Wired(Q, D), RemovalDone(c, Q, D),
           Q[c].pc = req[c].pc, Q[c].pc = "drop" => D[c] = <<>>
    PROVE  Wired(req', conn') /\ Within(Q, D, req', conn')
  <1>1. CASE req[c].pc # "drop"
    BY <1>1 DEF RemovalDone, Within
  <1>2. CASE req[c].pc = "drop"
    <2>1. /\ Q \in [Requests -> ReqType] /\ D \in [Requests -> Seq(Stmt)] /\ Q[c].pc = "drop"
      BY <1>2 DEF Wired
    <2>2. Q[c] \in BusyType /\ Q[c] # Idle
      BY <2>1, Busy
    <2>3. ReqOf(Q[c]) /\ Q[c].kind = "avatar" /\ D[c] = <<>>
      BY <2>1, <2>2 DEF Wired, ReqOf
    <2>4. Free(D, c)
      BY <2>1, FreeOf
    <2>5. PICK R : R = req'
      OBVIOUS
    <2>6. PICK t : t = [Q[c] EXCEPT !.pc = "commit"]
      OBVIOUS
    <2>7. /\ R = [Q EXCEPT ![c].pc = "commit"] /\ R[c] = t
          /\ \A x \in Requests : x # c => R[x] = Q[x]
      BY <1>2, <2>1, <2>5, <2>6 DEF RemovalDone
    <2>8. /\ t \in BusyType /\ t.pc = "commit" /\ t.kind = Q[c].kind /\ t.what = Q[c].what
          /\ t.key = Q[c].key /\ t.inserted = Q[c].inserted /\ t.removed = Q[c].removed
      BY <2>2, <2>6 DEF BusyType, Places
    <2>9. R \in [Requests -> ReqType] /\ t # Idle
      <3>1. t \in ReqType
        BY <2>8, BusyIsReq
      <3>2. \A x \in Requests : R[x] \in ReqType
        BY <2>1, <2>7, <3>1
      <3>3. R = [x \in Requests |-> R[x]]
        BY <2>1, <2>7
      <3>4. R \in [Requests -> ReqType]
        BY <3>2, <3>3
      <3> QED BY <2>7, <2>8, <3>4, Busy
    <2>10. ReqOf(t)
      BY <2>1, <2>3, <2>8 DEF ReqOf, ProductKinds
    <2>11. On(D[c]) = {} /\ Len(D[c]) = 0
      BY <2>3, OnEmpty, EmptySeq
    <2>12. Wired(R, D)
      <3>1. Turns(Q, R, c) /\ Apart(R[c], D[c])
        BY <2>7, <2>9, <2>11, <2>3 DEF Turns, Apart
      <3> QED BY <2>4, <2>7, <2>10, <2>11, <3>1, Turn
    <2> DEFINE e == [by |-> c, op |-> "commit", key |-> None]
    <2>13. Sends(D, conn', c, e)
      BY <1>2 DEF RemovalDone, Send, Sends
    <2>14. e \in Stmt /\ e.op = "commit" /\ e.by = c
      BY DEF Stmt
    <2> HIDE DEF e
    <2>15. StmtOf(R, c, e)
      BY <2>7, <2>8, <2>14 DEF StmtOf, Saves, Removals
    <2>16. Apart(R[c], conn'[c])
      <3>1. conn'[c] = Append(D[c], e) /\ D[c] \in Seq(Stmt)
        BY <2>1, <2>13 DEF Sends
      <3>2. Len(Append(D[c], e)) = Len(D[c]) + 1 /\ On(Append(D[c], e)) = On(D[c]) \cup {e}
        BY <2>14, <3>1, OnAppend
      <3> QED BY <2>7, <2>8, <2>11, <2>14, <3>1, <3>2 DEF Apart, Saves
    <2>17. Wired(R, conn')
      BY <2>11, <2>12, <2>13, <2>14, <2>15, <2>16, Sent DEF Saves
    <2>18. On(conn'[c]) \subseteq On(D[c]) \cup {e}
      <3>1. D \in [Requests -> Seq(Stmt)] /\ e \in Stmt /\ Sends(D, conn', c, e)
        BY <2>1, <2>13, <2>14
      <3> QED BY <3>1, SentOn
    <2>19. \A x \in Requests : x # c => conn'[x] = D[x]
      BY <2>1, <2>13 DEF Sends
    <2>20. Within(Q, D, R, conn')
      <3>1. /\ Pending(R[c]) \subseteq Pending(Q[c]) /\ Inserted(R[c]) \subseteq Inserted(Q[c])
            /\ R[c] # Idle => Q[c] # Idle /\ R[c].removed \subseteq Q[c].removed
            /\ IsProduct(Q[c]) => IsProduct(R[c])
        BY <2>2, <2>7, <2>8, <2>9 DEF Pending, Inserted, IsProduct
      <3>2. e.op \notin {"reload", "delete"}
        BY <2>14
      <3>3. \A x \in Requests : x # c => R[x] = Q[x]
        BY <2>7
      <3>4. Within(R, D, R, conn')
        BY <2>18, <2>19, <3>2, WithinStep
      <3>5. Within(Q, D, R, D)
        BY <3>1, <3>3 DEF Within, Removing
      <3> QED BY <3>4, <3>5, WithinTrans
    <2> QED BY <2>5, <2>17, <2>20
  <1> QED BY <1>1, <1>2

LEMMA FindMediaInv ==
    ASSUME Core, NEW c \in Requests, FindMedia(c)
    PROVE  Core'
  <1>0. PICK D : D = Answered(c)
    OBVIOUS
  <1>1. PICK s : s = Head(conn[c])
    OBVIOUS
  <1>2. conn[c] # <<>> /\ s.op = "find"
    BY <1>1 DEF FindMedia, At
  <1>3. /\ Wired(req, conn) /\ Wired(req, D) /\ Within(req, conn, req, D)
        /\ conn \in [Requests -> Seq(Stmt)] /\ D \in [Requests -> Seq(Stmt)]
        /\ s \in Stmt /\ StmtOf(req, c, s) /\ s \in On(conn[c]) /\ On(D[c]) \subseteq On(conn[c])
        /\ Len(conn[c]) <= 1 => D[c] = <<>>
    BY <1>0, <1>1, <1>2, Answers
  <1>4. CASE RemovalRejected(c)
    BY <1>2, <1>4, RemovalRejectedInv
  <1>5. CASE /\ s.key \in Visible(c) /\ conn' = Send(D, c, c, "reload", s.key)
             /\ UNCHANGED <<files, erasing, tables, docs, manager, req, history>>
    <2> DEFINE e == [by |-> c, op |-> "reload", key |-> s.key]
    <2>1. Sends(D, conn', c, e) /\ conn'[c] = Append(D[c], e)
      BY <1>3, <1>5 DEF Send, Sends
    <2>2. e \in Stmt /\ e.op = "reload" /\ e.by = c /\ e.key = s.key
      BY <1>3 DEF Stmt, Removals
    <2> HIDE DEF e
    <2>3. StmtOf(req, c, e)
      BY <1>2, <1>3, <2>2 DEF StmtOf, Saves, Removals, Removable
    <2>4. Apart(req[c], conn'[c])
      <3>1. Apart(req[c], conn[c]) /\ conn[c] \in Seq(Stmt) /\ D[c] \in Seq(Stmt)
        BY <1>3 DEF Wired
      <3>2. conn[c] # <<>> /\ (Len(conn[c]) <= 1 => D[c] = <<>>) /\ e.op \notin Saves
        BY <1>2, <1>3, <2>2 DEF Saves
      <3>3. Apart(req[c], Append(D[c], e))
        BY <2>2, <3>1, <3>2, StillApart
      <3> QED BY <2>1, <3>3
    <2>5. \A a \in On(D[c]) : InOrder(a, e)
      <3>1. \A a \in On(D[c]) : a.op # "commit"
        BY <1>2, <1>3 DEF Wired, StmtOf, Removals, Removable
      <3>2. \A a \in On(D[c]) : a.op # "write"
        BY <1>2, <1>3 DEF Wired
      <3> QED BY <2>2, <3>1, <3>2 DEF InOrder, Saves, Own
    <2>6. Wired(req, conn')
      BY <1>3, <2>1, <2>2, <2>3, <2>4, <2>5, Sent DEF Saves
    <2>7. On(conn'[c]) \subseteq On(D[c]) \cup {e}
      <3>1. D \in [Requests -> Seq(Stmt)] /\ e \in Stmt /\ Sends(D, conn', c, e)
        BY <1>3, <2>1, <2>2
      <3> QED BY <3>1, SentOn
    <2>8. \A x \in Requests : x # c => conn'[x] = D[x]
      BY <1>3, <2>1 DEF Sends
    <2>9. /\ req' = req /\ UNCHANGED <<files, erasing, rows, byHand, used>>
          /\ \A x \in Requests : Removing(req[x], conn'[x]) \subseteq
               Removing(req[x], conn[x]) \cup (IF x = c THEN {s.key} ELSE {})
      <3>1. Removing(req[c], conn'[c]) \subseteq Removing(req[c], conn[c]) \cup {s.key}
        BY <1>3, <2>2, <2>7 DEF Removing
      <3>2. \A x \in Requests : x # c => Removing(req[x], conn'[x]) \subseteq Removing(req[x], conn[x])
        BY <1>3, <2>8 DEF Within
      <3> QED BY <1>5, <3>1, <3>2 DEF tables, history
    <2>10. s.key \in rows \cup Inserted(req[c])
      BY <1>5 DEF Visible, InTransaction, OfProduct, Inserted, Idle
    <2>11. Placed'
      BY <2>9, <2>10, PlacedFind
    <2>12. TypeOK' /\ Managed'
      BY <1>5, <2>6 DEF Core, TypeOK, Managed, OfProduct, Wired, tables, history
    <2> QED BY <2>6, <2>9, <2>11, <2>12 DEF Core
  <1>6. CASE /\ RemovalDone(c, req, D)
             /\ UNCHANGED <<files, erasing, tables, docs, manager, history>>
    <2>1. req[c].pc = "drop" => D[c] = <<>>
      BY <1>3, ReqFacts DEF ReqOf, Apart, ProductKinds
    <2>2. Wired(req', conn') /\ Within(req, D, req', conn')
      BY <1>3, <1>6, <2>1, RemovalDoneKeeps
    <2>3. Within(req, conn, req', conn')
      BY <1>3, <2>2, WithinTrans
    <2>4. Typed'
      BY <1>6 DEF Core, Typed, TypeOK, tables, history
    <2> QED BY <1>6, <2>2, <2>3, <2>4, CoreStays DEF tables, history
  <1> QED BY <1>0, <1>1, <1>4, <1>5, <1>6 DEF FindMedia

LEMMA DeleteMediaInv ==
    ASSUME Core, NEW c \in Requests, DeleteMedia(c)
    PROVE  Core'
  <1>0. PICK D : D = Answered(c)
    OBVIOUS
  <1>1. PICK s : s = Head(conn[c])
    OBVIOUS
  <1>2. conn[c] # <<>> /\ s.op = "delete"
    BY <1>1 DEF DeleteMedia, At
  <1>3. /\ Wired(req, conn) /\ Wired(req, D) /\ Within(req, conn, req, D)
        /\ conn \in [Requests -> Seq(Stmt)] /\ D \in [Requests -> Seq(Stmt)]
        /\ s \in Stmt /\ StmtOf(req, c, s) /\ s \in On(conn[c]) /\ On(D[c]) \subseteq On(conn[c])
        /\ Len(conn[c]) <= 1 => D[c] = <<>>
    BY <1>0, <1>1, <1>2, Answers
  <1>4. CASE RemovalRejected(c)
    BY <1>2, <1>4, RemovalRejectedInv
  <1>5. CASE /\ InTransaction(c)
             /\ RemovalDone(c, [req EXCEPT ![c].removed = @ \cup {s.key}], D)
             /\ UNCHANGED <<files, erasing, tables, docs, manager, history>>
    <2>1. PICK R : R = [req EXCEPT ![c].removed = @ \cup {s.key}]
      OBVIOUS
    <2>2. req[c] # Idle
      BY <1>5 DEF InTransaction, OfProduct, Idle
    <2>3. req[c] \in BusyType /\ ReqOf(req[c]) /\ req \in [Requests -> ReqType]
      BY <2>2, Busy DEF Core, Wired
    <2>4. PICK K \in SUBSET Keys : K = req[c].removed \cup {s.key}
      BY <1>2, <1>3, <2>3 DEF BusyType, StmtOf, Removals
    <2>5. PICK t : t = [req[c] EXCEPT !.removed = K]
      OBVIOUS
    <2>6. /\ t \in BusyType /\ t.pc = req[c].pc /\ t.kind = req[c].kind /\ t.key = req[c].key
          /\ t.left = req[c].left /\ t.what = req[c].what
          /\ t.inserted = req[c].inserted /\ t.removed = K
      BY <2>3, <2>5 DEF BusyType
    <2>7. /\ R \in [Requests -> ReqType] /\ R[c] = t /\ t # Idle
          /\ \A x \in Requests : x # c => R[x] = req[x]
      <3>1. R[c] = t /\ \A x \in Requests : x # c => R[x] = req[x]
        BY <2>1, <2>3, <2>4, <2>5
      <3>2. R \in [Requests -> ReqType]
        BY <2>1, <2>3, <2>6, <3>1, BusyIsReq
      <3> QED BY <2>6, <3>1, <3>2, Busy
    <2>8. ReqOf(t)
      BY <2>3, <2>6 DEF ReqOf
    <2>9. Wired(R, D)
      <3>1. \A x \in Requests : R[x] # Idle => ReqOf(R[x])
        BY <2>7, <2>8 DEF Core, Wired
      <3>2. \A x \in Requests : Ordered(D[x]) /\ Apart(R[x], D[x])
        <4>1. \A x \in Requests : Ordered(D[x]) /\ Apart(req[x], D[x])
          BY <1>3 DEF Wired
        <4>2. Apart(req[c], D[c]) => Apart(t, D[c])
          BY <2>2, <2>6 DEF Apart
        <4> QED BY <2>7, <4>1, <4>2
      <3>3. \A x \in Requests : R[x].pc = req[x].pc /\ R[x].key = req[x].key
        BY <2>6, <2>7
      <3>4. ASSUME NEW x \in Requests, NEW a \in On(D[x]) PROVE StmtOf(R, x, a)
        <4>1. a \in Stmt /\ StmtOf(req, x, a)
          BY <1>3 DEF Wired, On
        <4>2. a.by \in Requests
          BY <4>1 DEF Stmt
        <4> QED BY <3>3, <4>1, <4>2 DEF StmtOf
      <3> QED BY <1>3, <2>7, <3>1, <3>2, <3>4 DEF Wired
    <2>10. Within(req, conn, R, D)
      <3>1. s.key \in Removing(req[c], conn[c])
        BY <1>2, <1>3 DEF Removing
      <3>2. Removing(t, D[c]) \subseteq Removing(req[c], D[c]) \cup {s.key}
        BY <2>2, <2>4, <2>6 DEF Removing
      <3>3. \A x \in Requests : Removing(req[x], D[x]) \subseteq Removing(req[x], conn[x])
        BY <1>3 DEF Within
      <3>4. \A x \in Requests : Removing(R[x], D[x]) \subseteq Removing(req[x], conn[x])
        BY <2>7, <3>1, <3>2, <3>3
      <3>5. /\ Pending(t) \subseteq Pending(req[c]) /\ Inserted(t) \subseteq Inserted(req[c])
            /\ IsProduct(req[c]) => IsProduct(t)
        BY <2>2, <2>6, <2>7 DEF Pending, Inserted, IsProduct
      <3> QED BY <2>7, <3>4, <3>5 DEF Within
    <2>11. R[c].pc = req[c].pc /\ (R[c].pc = "drop" => D[c] = <<>>)
      BY <1>3, <2>6, <2>7, ReqFacts DEF ReqOf, Apart, ProductKinds
    <2>12. Wired(req', conn') /\ Within(R, D, req', conn')
      BY <1>5, <2>1, <2>9, <2>11, RemovalDoneKeeps
    <2>13. Within(req, conn, req', conn')
      BY <2>10, <2>12, WithinTrans
    <2>14. Typed'
      BY <1>5 DEF Core, Typed, TypeOK, tables, history
    <2> QED BY <1>5, <2>12, <2>13, <2>14, CoreStays DEF tables, history
  <1>6. CASE /\ rows' = rows \ {s.key} /\ conn' = D
             /\ UNCHANGED <<files, erasing, shown, avatar, docs, manager, req, history>>
    <2>1. req' = req
      BY <1>6
    <2>2. Wired(req', conn') /\ Within(req, conn, req', conn')
      BY <1>3, <1>6, <2>1
    <2>3. Placed'
      BY <1>6, <2>2, PlacedStays DEF Core, history
    <2>4. TypeOK' /\ Managed'
      BY <1>6, <2>2 DEF Core, TypeOK, Managed, OfProduct, Wired, history
    <2> QED BY <2>2, <2>3, <2>4 DEF Core
  <1> QED BY <1>0, <1>1, <1>4, <1>5, <1>6 DEF DeleteMedia, tables

\* A transaction is over.
LEMMA OverKeeps ==
    ASSUME Core, NEW c \in Requests, conn[c] # <<>>, Head(conn[c]).op \in {"commit", "rollback"}, Over(c)
    PROVE  /\ Wired(req', conn') /\ Managed'
           /\ req[c] # Idle /\ InTransaction(c)
           /\ Pending(req'[c]) = {} /\ Inserted(req'[c]) = {}
           /\ \A x \in Requests : Removing(req'[x], conn'[x]) \subseteq Removing(req[x], conn[x])
           /\ \A x \in Requests : x # c => req'[x] = req[x]
           /\ UNCHANGED <<files, avatar, docs, history>>
           /\ manager' \in {manager, Released}
  <1>0. PICK D : D = Answered(c)
    OBVIOUS
  <1>1. PICK s : s = Head(conn[c])
    OBVIOUS
  <1>2. /\ Hears(conn, D, c) /\ Wired(req, conn) /\ Wired(req, D) /\ Within(req, conn, req, D)
        /\ conn \in [Requests -> Seq(Stmt)] /\ D \in [Requests -> Seq(Stmt)]
        /\ StmtOf(req, c, s)
        /\ Len(conn[c]) <= 1 => D[c] = <<>>
    BY <1>0, <1>1, Answers
  <1>3. Free(D, c)
    BY <1>1, <1>2, HeardFree DEF Own
  <1>4. req[c].pc \in {"commit", "undo", "broken"}
    BY <1>1, <1>2 DEF StmtOf
  <1>5. /\ req \in [Requests -> ReqType] /\ req[c] \in BusyType /\ req[c] # Idle /\ ReqOf(req[c])
        /\ Apart(req[c], conn[c]) /\ (OfProduct(c) <=> req[c].kind \in ProductKinds)
        /\ InTransaction(c) /\ req[c].kind # "upload"
    BY <1>4, ReqFacts DEF ReqOf, ProductKinds
  <1>6. PICK R : R = req'
    OBVIOUS
  <1>7. /\ conn' = D /\ manager' = IF manager = c THEN Released ELSE manager
        /\ UNCHANGED <<files, avatar, docs, history>>
        /\ R = [req EXCEPT ![c] = IF OfProduct(c) THEN Idle
                  ELSE [@ EXCEPT !.pc = "store", !.inserted = {}, !.removed = {}]]
    BY <1>0, <1>6 DEF Over
  <1>8. /\ R \in [Requests -> ReqType] /\ \A x \in Requests : x # c => R[x] = req[x]
        /\ R[c] = Idle \/ /\ R[c].pc = "store" /\ R[c].kind = "avatar" /\ R[c].what = req[c].what
                          /\ R[c].key = req[c].key /\ R[c].inserted = {} /\ R[c].removed = {}
                          /\ D[c] = <<>>
    <2>1. CASE OfProduct(c)
      BY <1>5, <1>7, <2>1, BusyIsReq
    <2>2. CASE ~OfProduct(c)
      <3>1. req[c].kind = "avatar" /\ D[c] = <<>>
        BY <1>2, <1>5, <2>2 DEF Apart, BusyType, ProductKinds
      <3>2. PICK t : t = [req[c] EXCEPT !.pc = "store", !.inserted = {}, !.removed = {}]
        OBVIOUS
      <3>3. /\ t \in BusyType /\ t.pc = "store" /\ t.kind = "avatar" /\ t.what = req[c].what
            /\ t.key = req[c].key /\ t.inserted = {} /\ t.removed = {}
        BY <1>5, <3>1, <3>2 DEF BusyType, Places
      <3>4. R = [req EXCEPT ![c] = t]
        BY <1>7, <2>2, <3>2
      <3> QED BY <1>5, <3>1, <3>3, <3>4, BusyIsReq
    <2> QED BY <2>1, <2>2
  <1>9. R[c] # Idle => ReqOf(R[c])
    <2>1. req[c].kind = "avatar" => req[c].key \in Keys /\ req[c].what \in Users
      BY <1>4, <1>5 DEF ReqOf
    <2>2. R[c].kind = "avatar" /\ R[c].pc = "store" => req[c].kind = "avatar" \/ OfProduct(c)
      BY <1>5 DEF BusyType, ProductKinds
    <2>3. OfProduct(c) => R[c] = Idle
      BY <1>5, <1>7
    <2> QED BY <1>8, <2>1, <2>2, <2>3 DEF ReqOf, ProductKinds
  <1>10. Apart(R[c], D[c])
    BY <1>8, OnEmpty, EmptySeq DEF Apart
  <1>11. \A a \in On(D[c]) : a.op \in Removals => Removable(R[c].pc, a.op)
    BY <1>8, OnEmpty DEF Removable, Idle
  <1>12. Wired(R, D)
    <2>1. Turns(req, R, c)
      BY <1>8 DEF Turns
    <2> QED BY <1>2, <1>3, <1>9, <1>10, <1>11, <2>1, Turn
  <1>13. Pending(R[c]) = {} /\ Inserted(R[c]) = {}
    BY <1>8 DEF Pending, Inserted, Idle
  <1>14. \A x \in Requests : Removing(R[x], D[x]) \subseteq Removing(req[x], conn[x])
    <2>1. \A x \in Requests : Removing(req[x], D[x]) \subseteq Removing(req[x], conn[x])
      BY <1>2 DEF Within
    <2>2. Removing(R[c], D[c]) \subseteq Removing(req[c], D[c])
      BY <1>8 DEF Removing
    <2> QED BY <1>8, <2>1, <2>2
  <1>15. Managed'
    BY <1>6, <1>7, <1>8 DEF Core, Managed, OfProduct
  <1> QED BY <1>5, <1>6, <1>7, <1>8, <1>12, <1>13, <1>14, <1>15

LEMMA CommitInv ==
    ASSUME Core, NEW c \in Requests, Commit(c)
    PROVE  Core'
  <1>1. /\ conn[c] # <<>> /\ Head(conn[c]).op = "commit" /\ Over(c)
        /\ rows' = Visible(c) /\ erasing' = erasing \cup req[c].removed
    BY DEF Commit, At
  <1>2. /\ Wired(req', conn') /\ Managed' /\ req[c] # Idle /\ InTransaction(c)
        /\ Pending(req'[c]) = {} /\ Inserted(req'[c]) = {}
        /\ \A x \in Requests : Removing(req'[x], conn'[x]) \subseteq Removing(req[x], conn[x])
        /\ \A x \in Requests : x # c => req'[x] = req[x]
        /\ UNCHANGED <<files, avatar, docs, history>>
        /\ manager' \in {manager, Released}
    BY <1>1, OverKeeps
  <1>3. /\ rows' = (rows \cup Inserted(req[c])) \ req[c].removed
        /\ req[c].removed \subseteq Removing(req[c], conn[c])
    BY <1>1, <1>2 DEF Visible, Inserted, Removing
  <1>4. /\ Placed /\ rows \subseteq used /\ files \subseteq used /\ erasing \subseteq used
    BY DEF Core, TypeOK
  <1>5. /\ (rows \subseteq files \cup byHand)'
        /\ (erasing \cap rows \subseteq byHand)'
        /\ \A x \in Requests : Removing(req'[x], conn'[x]) \subseteq used'
    BY <1>1, <1>2, <1>3, <1>4 DEF Placed, Stored, history
  <1>6. ASSUME NEW x, Stored(x), x \notin Inserted(req[c]), x \notin Removing(req[c], conn[c])
        PROVE  Stored(x)'
    BY <1>1, <1>2, <1>3, <1>6 DEF Stored, history
  <1>7. ASSUME NEW x \in Requests, NEW y \in Pending(req'[x])
        PROVE  /\ Stored(y)'
               /\ \A q \in Requests : /\ y \notin Removing(req'[q], conn'[q])
                                      /\ y \notin Inserted(req'[q])
                                      /\ y \in Pending(req'[q]) => q = x
    <2>1. x # c /\ y \in Pending(req[x])
      BY <1>2, <1>7
    <2>2. /\ Stored(y)
          /\ \A q \in Requests : /\ y \notin Removing(req[q], conn[q])
                                 /\ y \notin Inserted(req[q])
                                 /\ y \in Pending(req[q]) => q = x
      BY <1>4, <2>1 DEF Placed
    <2> QED BY <1>2, <1>6, <2>2
  <1>8. ASSUME NEW x \in Requests, NEW y \in Inserted(req'[x])
        PROVE  /\ Stored(y)'
               /\ \A q \in Requests : q # x => /\ y \notin Removing(req'[q], conn'[q])
                                               /\ y \notin Inserted(req'[q])
    <2>1. x # c /\ y \in Inserted(req[x])
      BY <1>2, <1>8
    <2>2. /\ Stored(y)
          /\ \A q \in Requests : q # x => /\ y \notin Removing(req[q], conn[q])
                                          /\ y \notin Inserted(req[q])
      BY <1>4, <2>1 DEF Placed
    <2> QED BY <1>2, <1>6, <2>1, <2>2
  <1>9. Placed'
    BY <1>5, <1>7, <1>8 DEF Placed
  <1>10. shown' \in [Products -> (SUBSET Keys) \cup {None}]
    <2>1. CASE OfProduct(c)
      <3>1. req[c] \in BusyType /\ req[c].what \in Products
        BY <1>2, <2>1, Busy DEF Core, Wired, OfProduct, ReqOf, ProductKinds
      <3>2. req[c].thumbs \in SUBSET Keys
        BY <3>1 DEF BusyType
      <3>3. shown' = [shown EXCEPT ![req[c].what] = req[c].thumbs]
        BY <2>1 DEF Commit
      <3> QED BY <3>1, <3>2, <3>3 DEF Core, TypeOK
    <2>2. CASE ~OfProduct(c)
      BY <2>2 DEF Commit, Core, TypeOK
    <2> QED BY <2>1, <2>2
  <1>11. rows' \subseteq used /\ erasing' \subseteq used
    BY <1>1, <1>3, <1>4, <1>2 DEF Placed, Stored
  <1>12. TypeOK'
    BY <1>2, <1>10, <1>11 DEF Core, TypeOK, Wired, history
  <1> QED BY <1>2, <1>9, <1>12 DEF Core

LEMMA RollbackInv ==
    ASSUME Core, NEW c \in Requests, Rollback(c)
    PROVE  Core'
  <1>1. /\ conn[c] # <<>> /\ Head(conn[c]).op = "rollback" /\ Over(c)
        /\ UNCHANGED <<rows, shown>> /\ erasing' = erasing \cup req[c].inserted
    BY DEF Rollback, At
  <1>2. /\ Wired(req', conn') /\ Managed' /\ req[c] # Idle
        /\ Pending(req'[c]) = {} /\ Inserted(req'[c]) = {}
        /\ \A x \in Requests : Removing(req'[x], conn'[x]) \subseteq Removing(req[x], conn[x])
        /\ \A x \in Requests : x # c => req'[x] = req[x]
        /\ UNCHANGED <<files, avatar, docs, history>>
        /\ manager' \in {manager, Released}
    BY <1>1, OverKeeps
  <1>3. erasing' = erasing \cup Inserted(req[c])
    BY <1>1, <1>2 DEF Inserted
  <1>4. /\ Placed /\ rows \subseteq used /\ files \subseteq used /\ erasing \subseteq used
    BY DEF Core, TypeOK
  <1>5. /\ (rows \subseteq files \cup byHand)'
        /\ (erasing \cap rows \subseteq byHand)'
        /\ \A x \in Requests : Removing(req'[x], conn'[x]) \subseteq used'
    BY <1>1, <1>2, <1>3, <1>4 DEF Placed, Stored, history
  <1>6. ASSUME NEW x, Stored(x), x \notin Inserted(req[c])
        PROVE  Stored(x)'
    BY <1>1, <1>2, <1>3, <1>6 DEF Stored, history
  <1>7. ASSUME NEW x \in Requests, NEW y \in Pending(req'[x])
        PROVE  /\ Stored(y)'
               /\ \A q \in Requests : /\ y \notin Removing(req'[q], conn'[q])
                                      /\ y \notin Inserted(req'[q])
                                      /\ y \in Pending(req'[q]) => q = x
    <2>1. x # c /\ y \in Pending(req[x])
      BY <1>2, <1>7
    <2>2. /\ Stored(y)
          /\ \A q \in Requests : /\ y \notin Removing(req[q], conn[q])
                                 /\ y \notin Inserted(req[q])
                                 /\ y \in Pending(req[q]) => q = x
      BY <1>4, <2>1 DEF Placed
    <2> QED BY <1>2, <1>6, <2>2
  <1>8. ASSUME NEW x \in Requests, NEW y \in Inserted(req'[x])
        PROVE  /\ Stored(y)'
               /\ \A q \in Requests : q # x => /\ y \notin Removing(req'[q], conn'[q])
                                               /\ y \notin Inserted(req'[q])
    <2>1. x # c /\ y \in Inserted(req[x])
      BY <1>2, <1>8
    <2>2. /\ Stored(y)
          /\ \A q \in Requests : q # x => /\ y \notin Removing(req[q], conn[q])
                                          /\ y \notin Inserted(req[q])
      BY <1>4, <2>1 DEF Placed
    <2> QED BY <1>2, <1>6, <2>1, <2>2
  <1>9. Placed'
    BY <1>5, <1>7, <1>8 DEF Placed
  <1>10. erasing' \subseteq used
    BY <1>3, <1>4 DEF Placed, Stored
  <1>11. TypeOK'
    BY <1>1, <1>2, <1>4, <1>10 DEF Core, TypeOK, Wired, history
  <1> QED BY <1>2, <1>9, <1>11 DEF Core

-----------------------------------------------------------------------------
(* S3, and the whole component.                                            *)

LEMMA EraseInv ==
    ASSUME Core, NEW k \in Keys, Erase(k)
    PROVE  Core'
  <1>1. /\ k \in erasing /\ erasing' = erasing \ {k}
        /\ files' = files \/ files' = files \ {k}
        /\ orphans' \in {orphans, Unknown}
        /\ UNCHANGED <<tables, docs, manager, conn, req, used, byHand>>
    BY DEF Erase
  <1>2. Placed
    BY DEF Core
  <1>3. \A x : Stored(x) => Stored(x)'
    BY <1>1 DEF Stored, tables
  <1>4. Placed'
    <2>1. /\ (rows \subseteq files \cup byHand)'
          /\ (erasing \cap rows \subseteq byHand)'
          /\ \A r \in Requests : Removing(req'[r], conn'[r]) \subseteq used'
      BY <1>1, <1>2 DEF Placed, tables
    <2>2. req' = req /\ conn' = conn
      BY <1>1
    <2>3. ASSUME NEW r \in Requests, NEW x \in Pending(req'[r])
          PROVE  /\ Stored(x)'
                 /\ \A q \in Requests : /\ x \notin Removing(req'[q], conn'[q])
                                        /\ x \notin Inserted(req'[q])
                                        /\ x \in Pending(req'[q]) => q = r
      BY <1>2, <1>3, <2>2, <2>3 DEF Placed
    <2>4. ASSUME NEW r \in Requests, NEW x \in Inserted(req'[r])
          PROVE  /\ Stored(x)'
                 /\ \A q \in Requests : q # r => /\ x \notin Removing(req'[q], conn'[q])
                                                 /\ x \notin Inserted(req'[q])
      BY <1>2, <1>3, <2>2, <2>4 DEF Placed
    <2> QED BY <2>1, <2>3, <2>4 DEF Placed
  <1>5. orphans' \in (SUBSET used) \cup {Unknown}
    BY <1>1 DEF Core, TypeOK
  <1>6. TypeOK' /\ Managed' /\ Wired(req', conn')
    BY <1>1, <1>5 DEF Core, TypeOK, Managed, OfProduct, Wired, tables
  <1> QED BY <1>4, <1>6 DEF Core

LEMMA DiscardInv ==
    ASSUME Core, NEW k \in Keys, Discard(k)
    PROVE  Core'
  <1>1. /\ k \in used /\ erasing' = erasing \cup {k} /\ byHand' = byHand \cup {k}
        /\ UNCHANGED <<files, tables, docs, manager, conn, req, used, orphans>>
    BY DEF Discard
  <1>2. Placed /\ rows \subseteq used
    BY DEF Core, TypeOK
  <1>3. \A x : Stored(x) => Stored(x)'
    BY <1>1 DEF Stored, tables
  <1>4. Placed'
    <2>1. /\ (rows \subseteq files \cup byHand)'
          /\ (erasing \cap rows \subseteq byHand)'
          /\ \A r \in Requests : Removing(req'[r], conn'[r]) \subseteq used'
      BY <1>1, <1>2 DEF Placed, tables
    <2>2. req' = req /\ conn' = conn
      BY <1>1
    <2>3. ASSUME NEW r \in Requests, NEW x \in Pending(req'[r])
          PROVE  /\ Stored(x)'
                 /\ \A q \in Requests : /\ x \notin Removing(req'[q], conn'[q])
                                        /\ x \notin Inserted(req'[q])
                                        /\ x \in Pending(req'[q]) => q = r
      BY <1>2, <1>3, <2>2, <2>3 DEF Placed
    <2>4. ASSUME NEW r \in Requests, NEW x \in Inserted(req'[r])
          PROVE  /\ Stored(x)'
                 /\ \A q \in Requests : q # r => /\ x \notin Removing(req'[q], conn'[q])
                                                 /\ x \notin Inserted(req'[q])
      BY <1>2, <1>3, <2>2, <2>4 DEF Placed
    <2> QED BY <2>1, <2>3, <2>4 DEF Placed
  <1>5. TypeOK' /\ Managed' /\ Wired(req', conn')
    BY <1>1, <1>2 DEF Core, TypeOK, Managed, OfProduct, Wired, tables
  <1> QED BY <1>4, <1>5 DEF Core

LEMMA InitCore ==
    ASSUME Init
    PROVE  Core
  <1>1. /\ req \in [Requests -> ReqType] /\ \A r \in Requests : req[r] = Idle
        /\ conn \in [Requests -> Seq(Stmt)] /\ \A r \in Requests : conn[r] = <<>> /\ On(conn[r]) = {}
        /\ \A r \in Requests : Ordered(conn[r])
    BY BusyIsReq, OnEmpty DEF Init
  <1>2. Wired(req, conn)
    BY <1>1 DEF Wired, Apart
  <1>3. \A r \in Requests : /\ Pending(req[r]) = {} /\ Inserted(req[r]) = {}
                            /\ Removing(req[r], conn[r]) = {}
    BY <1>1 DEF Pending, Inserted, Removing, Idle
  <1>4. Placed
    BY <1>3 DEF Init, Placed
  <1>5. TypeOK
    <2>1. /\ shown \in [Products -> (SUBSET Keys) \cup {None}]
          /\ docs \in [Products -> (SUBSET Keys) \cup {None}]
          /\ avatar \in [Users -> Keys \cup {None}]
      BY DEF Init
    <2>2. /\ erasing = {} /\ files = {} /\ rows = {} /\ used = {} /\ byHand = {} /\ orphans = {}
          /\ manager = None
      BY DEF Init
    <2> QED BY <1>1, <2>1, <2>2 DEF TypeOK
  <1>6. Managed
    BY DEF Init, Managed
  <1> QED BY <1>2, <1>4, <1>5, <1>6 DEF Core

LEMMA CoreStutters ==
    ASSUME Core, UNCHANGED vars
    PROVE  Core'
  <1>1. /\ req' = req /\ conn' = conn /\ files' = files /\ erasing' = erasing /\ rows' = rows
        /\ shown' = shown /\ avatar' = avatar /\ docs' = docs /\ manager' = manager
        /\ used' = used /\ byHand' = byHand /\ orphans' = orphans
    BY DEF vars, tables, history
  <1>2. TypeOK' /\ Managed' /\ Wired(req', conn')
    BY <1>1 DEF Core, TypeOK, Managed, OfProduct
  <1>3. Placed'
    BY <1>1 DEF Core, Placed, Stored
  <1> QED BY <1>2, <1>3 DEF Core

LEMMA NextCore ==
    ASSUME Core, [Next]_vars
    PROVE  Core'
  <1>1. ASSUME NEW r \in Requests, Start(r) PROVE Core'
    BY <1>1, StartInv
  <1>2. ASSUME NEW r \in Requests, Step(r) PROVE Core'
    BY <1>2, UploadInv, StoreAloneInv, ReadDocInv, FetchInv, UncacheInv, CacheInv,
       StoreAvatarInv, RejectInv DEF Step
  <1>3. ASSUME NEW c \in Requests, Answer(c) PROVE Core'
    BY <1>3, LoadMediaInv, InsertMediaInv, FindMediaInv, ReloadMediaInv, DeleteMediaInv,
       SelectProductInv, WriteProductInv, CommitInv, RollbackInv DEF Answer
  <1>4. ASSUME NEW k \in Keys, Erase(k) \/ Discard(k) PROVE Core'
    BY <1>4, EraseInv, DiscardInv
  <1> QED BY <1>1, <1>2, <1>3, <1>4, RestartInv, CoreStutters DEF Next

LEMMA Invariance == Spec => []Core
  <1>1. Core /\ [Next]_vars => Core'
    BY NextCore
  <1> QED BY InitCore, <1>1, PTL DEF Spec

-----------------------------------------------------------------------------
(* What the invariant says.                                                *)

\* TypeOK: also behind a shared manager, every connection only carries statements of save()
\* and of its own request, and no file, row or link has a key that was never drawn.
THEOREM TypeCorrect == Spec => []TypeOK
  <1>1. Core => TypeOK
    BY DEF Core
  <1> QED BY Invariance, <1>1, PTL

\* RowHasFile: whichever transaction the shared manager sends a row through, and however it
\* ends, the row's file is neither erased by a subscriber's list of inserted files nor gone
\* before the row; a server that dies in between loses files at most.
THEOREM RowsHaveFiles == Spec => []RowHasFile
  <1>1. Core => RowHasFile
    BY DEF Core, Placed, RowHasFile
  <1> QED BY Invariance, <1>1, PTL

\* RemovalsBeforeCommit: the statements of the removals that updateProduct does not await
\* are never sent behind its COMMIT, where each would commit by itself.
THEOREM RemovalsKeepAhead == Spec => []RemovalsBeforeCommit
  <1>1. Core => RemovalsBeforeCommit
    BY DEF Core, Wired, Ordered, InOrder, RemovalsBeforeCommit
  <1> QED BY Invariance, <1>1, PTL

-----------------------------------------------------------------------------
(* The life of every file is the one that MediaLife promises.              *)

Still == UNCHANGED <<files, rows, used, byHand>>

\* What may become of the key k in one step.
Lived(k) ==
    \/ (k \in used' <=> k \in used) /\ (k \in rows' <=> k \in rows) /\ (k \in files' <=> k \in files)
    \/ k \notin used /\ k \in used' /\ k \in files' /\ k \notin rows'
    \/ /\ k \in used /\ k \in used' /\ (k \in files' <=> k \in files) /\ k \notin rows /\ k \in rows'
       /\ k \in files \/ k \in byHand
    \/ k \in used /\ k \in used' /\ (k \in files' <=> k \in files) /\ k \in rows /\ k \notin rows'
    \/ /\ k \in used /\ k \in used' /\ k \in files /\ k \notin files' /\ (k \in rows' <=> k \in rows)
       /\ k \in rows => k \in byHand

Lives == byHand \subseteq byHand' /\ \A k \in Keys : Lived(k)

LEMMA StillLives ==
    ASSUME Still
    PROVE  Lives
  BY DEF Still, Lives, Lived

LEMMA StepLives ==
    ASSUME Core, NEW r \in Requests, Step(r)
    PROVE  Lives
  <1>1. ASSUME Upload(r) PROVE Lives
    <2>1. PICK k \in Keys \ used : files' = files \cup {k} /\ used' = used \cup {k}
      BY <1>1 DEF Upload
    <2>2. rows' = rows /\ byHand' = byHand
      BY <1>1 DEF Upload, tables
    <2>3. rows \subseteq used
      BY DEF Core, TypeOK
    <2> QED BY <2>1, <2>2, <2>3 DEF Lives, Lived
  <1>2. ASSUME StoreAlone(r) PROVE Lives
    <2>1. /\ rows' = rows \cup {req[r].key} /\ used' = used /\ files' = files /\ byHand' = byHand
          /\ req[r].pc = "alone"
      BY <1>2 DEF StoreAlone, history
    <2>2. req[r].key \in used \ rows /\ req[r].key \in files \cup byHand
      BY <2>1 DEF Core, Placed, Pending, Stored
    <2> QED BY <2>1, <2>2 DEF Lives, Lived
  <1>3. ASSUME ReadDoc(r) \/ Fetch(r) \/ Uncache(r) \/ Cache(r) \/ StoreAvatar(r) \/ Reject(r)
        PROVE  Still
    BY <1>3 DEF ReadDoc, Fetch, Uncache, Cache, StoreAvatar, Reject, tables, history, Still
  <1> QED BY <1>1, <1>2, <1>3, StillLives DEF Step

LEMMA AnswerLives ==
    ASSUME Core, NEW c \in Requests, Answer(c)
    PROVE  Lives
  <1>1. ASSUME InsertMedia(c) PROVE Lives
    <2>1. /\ used' = used /\ files' = files /\ byHand' = byHand
          /\ conn[c] # <<>> /\ Head(conn[c]).op = "insert"
          /\ rows' = rows \/ rows' = rows \cup {Head(conn[c]).key}
      BY <1>1 DEF InsertMedia, At, history
    <2>2. PICK D : D = Answered(c)
      OBVIOUS
    <2>3. /\ Head(conn[c]).by \in Requests
          /\ Head(conn[c]).key \in Pending(req[Head(conn[c]).by])
      BY <2>1, <2>2, Saved DEF Saves
    <2>4. Head(conn[c]).key \in used \ rows /\ Head(conn[c]).key \in files \cup byHand
      BY <2>3 DEF Core, Placed, Stored
    <2> QED BY <2>1, <2>3, <2>4 DEF Lives, Lived
  <1>2. ASSUME Still \/ Restart PROVE Lives
    BY <1>2, StillLives DEF Restart, tables, Still
  <1>3. ASSUME RemovalRejected(c) PROVE Still \/ Restart
    BY <1>3 DEF RemovalRejected, tables, history, Still
  <1>4. ASSUME DeleteMedia(c) PROVE Lives
    <2>1. CASE RemovalRejected(c)
      BY <1>2, <1>3, <2>1
    <2>2. CASE /\ files' = files /\ used' = used /\ byHand' = byHand
               /\ rows' = rows \/ rows' = rows \ {Head(conn[c]).key}
      <3>1. rows \subseteq used
        BY DEF Core, TypeOK
      <3> QED BY <2>2, <3>1 DEF Lives, Lived
    <2> QED BY <1>4, <2>1, <2>2 DEF DeleteMedia, history
  <1>5. ASSUME Commit(c) PROVE Lives
    <2>1. /\ conn[c] # <<>> /\ Head(conn[c]).op = "commit" /\ Over(c) /\ rows' = Visible(c)
      BY <1>5 DEF Commit, At
    <2>2. req[c] # Idle /\ InTransaction(c) /\ UNCHANGED <<files, history>>
      BY <2>1, OverKeeps
    <2>3. rows' = (rows \cup Inserted(req[c])) \ req[c].removed
      BY <2>1, <2>2 DEF Visible, Inserted
    <2>4. \A k \in Inserted(req[c]) : k \in used \ rows /\ k \in files \cup byHand
      BY DEF Core, Placed, Stored
    <2>5. rows \subseteq used /\ files' = files /\ used' = used /\ byHand' = byHand
      BY <2>2 DEF Core, TypeOK, history
    <2> QED BY <2>3, <2>4, <2>5 DEF Lives, Lived
  <1>6. ASSUME FindMedia(c) \/ ReloadMedia(c) PROVE Still \/ RemovalRejected(c)
    BY <1>6 DEF FindMedia, ReloadMedia, tables, history, Still
  <1>7. ASSUME LoadMedia(c) \/ SelectProduct(c) \/ WriteProduct(c) \/ Rollback(c) PROVE Still
    BY <1>7 DEF LoadMedia, SelectProduct, WriteProduct, Rollback, Over, tables, history, Still
  <1> QED BY <1>1, <1>2, <1>3, <1>4, <1>5, <1>6, <1>7 DEF Answer

LEMMA NextLives ==
    ASSUME Core, [Next]_vars
    PROVE  Lives
  <1>1. ASSUME NEW r \in Requests, Start(r) PROVE Still
    BY <1>1 DEF Start, StartCreate, StartUpdate, StartAvatar, StartUpload, Begin, tables, Still
  <1>2. ASSUME NEW k \in Keys, Erase(k) PROVE Lives
    <2>1. /\ k \in erasing /\ rows' = rows /\ used' = used /\ byHand' = byHand
          /\ files' = files \/ files' = files \ {k}
      BY <1>2 DEF Erase, tables
    <2>2. /\ k \in rows => k \in byHand
          /\ files \subseteq used
      BY <2>1 DEF Core, TypeOK, Placed
    <2> QED BY <2>1, <2>2 DEF Lives, Lived
  <1>3. ASSUME NEW k \in Keys, Discard(k) PROVE Lives
    <2>1. files' = files /\ rows' = rows /\ used' = used /\ byHand' = byHand \cup {k}
      BY <1>3 DEF Discard, tables
    <2> QED BY <2>1 DEF Lives, Lived
  <1>4. ASSUME Restart \/ UNCHANGED vars PROVE Still
    BY <1>4 DEF Restart, vars, tables, history, Still
  <1> QED BY <1>1, <1>2, <1>3, <1>4, StillLives, StepLives, AnswerLives DEF Next

\* Each of these is a move of MediaLife, or leaves the file where it is in its life.
LEMMA LivesMove ==
    ASSUME Core, Lives
    PROVE  Life!Next
  <1> DEFINE LifeOf(k) ==
        IF k \notin used THEN "absent"
        ELSE IF k \in rows THEN IF k \in files THEN "kept" ELSE "lost"
        ELSE IF k \in files THEN "stored" ELSE "gone"
  <1>1. PICK life : life = [k \in Keys |-> LifeOf(k)]
    OBVIOUS
  <1>2. PICK lifeNext : lifeNext = [k \in Keys |-> LifeOf(k)']
    OBVIOUS
  <1>3. lifeNext \in [Keys -> {"absent", "stored", "kept", "lost", "gone"}]
    BY <1>2
  <1>4. ASSUME NEW k \in Keys
        PROVE  \/ lifeNext[k] = life[k]
               \/ <<life[k], lifeNext[k]>> \in Life!Moves
               \/ k \in byHand /\ life[k] \in {"kept", "gone"} /\ lifeNext[k] = "lost"
    <2>1. life[k] = LifeOf(k) /\ lifeNext[k] = LifeOf(k)'
      BY <1>1, <1>2
    <2>2. Lived(k)
      BY DEF Lives
    <2> QED BY <2>1, <2>2 DEF Lived, Life!Moves
  <1>5. byHand \subseteq byHand'
    BY DEF Lives
  <1> QED BY <1>1, <1>2, <1>3, <1>4, <1>5 DEF Life!Next, Life!Move

\* LifeSpec: the detailed model implements MediaLife, file by file and step by step: a file
\* is stored before its row is committed, loses its row before it is erased, and does not
\* come back. Only the route by key takes a file from under its row, or before its row is
\* committed, which it may do at any time.
THEOREM LivesAsPromised == Spec => LifeSpec
  <1>1. Init => Life!Init
    BY DEF Init, Life!Init
  <1>2. Core /\ [Next]_vars => Life!Next
    BY NextLives, LivesMove
  <1> QED BY Invariance, <1>1, <1>2, PTL DEF Spec, LifeSpec, Life!Spec
=============================================================================
