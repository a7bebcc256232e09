--------------------------- MODULE SessionsProofs ---------------------------
(* Theorems about Sessions, for every set of users, requests, keys and rows *)
(* and every pair of token lifetimes.                                      *)
EXTENDS Sessions, TLAPS

USE SessionsAssumption

-----------------------------------------------------------------------------
(* Helpers: what the operators the actions are built from return.          *)

WriterPcs == {"sign", "lookup", "create", "fetch", "load", "flush", "insert", "cache"}
LeaverPcs == {"find", "delete", "forget"}
ReqType == {Idle} \cup WriterType \cup LeaverType
Phases == {"signedIn", "signedOut", "unknown"}

\* Ageing a token keeps it a token, of the same user and key.
LEMMA OlderType ==
    ASSUME NEW t \in TokenType
    PROVE  /\ Older(t) \in TokenType
           /\ Older(t).user = t.user
           /\ Older(t).key = t.key
           /\ Older(t).left = IF t.left = 0 THEN 0 ELSE t.left - 1
  BY DEF Older, TokenType

\* What has not expired after a tick is still a set of tokens.
LEMMA AgedType ==
    ASSUME NEW S \in SUBSET TokenType
    PROVE  Unexpired({Older(t) : t \in S}) \subseteq TokenType
  BY OlderType DEF Unexpired

\* getTokensData makes a well-formed request state out of typed arguments.
LEMMA WriterIsTyped ==
    ASSUME NEW pc \in WriterPcs, NEW u \in Users, NEW pub \in Keys, NEW priv \in Keys
    PROVE  /\ Writer(pc, u, pub, priv) \in WriterType
           /\ Writer(pc, u, pub, priv).pub = pub
           /\ Writer(pc, u, pub, priv).priv = priv
           /\ Writer(pc, u, pub, priv).user = u
           /\ Writer(pc, u, pub, priv).pc = pc
           /\ Writer(pc, u, pub, priv).access.user = u
           /\ Writer(pc, u, pub, priv).access.left = AccessTTL
           /\ Writer(pc, u, pub, priv).dirty = {}
  BY DEF Writer, WriterType, WriterPcs, Token, TokenType

\* The pc of a request tells which kind of request it is.
LEMMA PcTellsKind ==
    ASSUME TypeOK, NEW r \in Requests
    PROVE  /\ req[r] \in ReqType
           /\ req[r].pc \in WriterPcs => req[r] \in WriterType /\ r \in Writers
           /\ req[r].pc \in LeaverPcs => req[r] \in LeaverType
           /\ req[r] \in WriterType => req[r].pc \in WriterPcs
           /\ req[r] \in WriterType <=> r \in Writers
  BY DEF TypeOK, ReqType, WriterPcs, LeaverPcs, Idle, WriterType, LeaverType,
         Writers, InFlight

\* Beginning a request.
LEMMA BeginType ==
    ASSUME TypeOK, NEW r \in Requests, NEW u \in Users, NEW state \in ReqType,
           Begin(r, u, state)
    PROVE  /\ req' \in [Requests -> ReqType]
           /\ contended' \subseteq Requests
           /\ phase' \in [Users -> Phases]
  BY DEF TypeOK, ReqType, Phases, Begin, InFlightOf, InFlight

\* Ending a request.
LEMMA EndType ==
    ASSUME TypeOK, NEW r \in Requests, NEW outcome \in Phases, End(r, outcome)
    PROVE  /\ req' \in [Requests -> ReqType]
           /\ contended' \subseteq Requests
           /\ phase' \in [Users -> Phases]
  BY DEF TypeOK, ReqType, Phases, End

\* Advancing a login or a refresh.
LEMMA GotoWriterType ==
    ASSUME TypeOK, NEW r \in Requests, req[r] \in WriterType, NEW pc \in WriterPcs,
           Goto(r, pc)
    PROVE  /\ req' \in [Requests -> ReqType]
           /\ contended' \subseteq Requests
           /\ phase' \in [Users -> Phases]
  <1>1. [req[r] EXCEPT !.pc = pc] \in WriterType
    BY DEF WriterType, WriterPcs
  <1> QED BY <1>1 DEF TypeOK, ReqType, Phases, Goto, history

-----------------------------------------------------------------------------
(* Type correctness.                                                       *)

\* TypeOK, with the three conjuncts that most actions share put together.
ReqOK ==
    /\ req \in [Requests -> ReqType]
    /\ contended \subseteq Requests
    /\ phase \in [Users -> Phases]

StoresOK ==
    /\ keyTokens \subseteq RowType
    /\ acTokens \subseteq TokenType
    /\ accesses \subseteq TokenType
    /\ cookies \subseteq TokenType

\* TypeOK is not inductive: InsertRow writes the row id that the request holds,
\* which is a row id only because FetchRow has set it on the way there.
RowFetched ==
    \A r \in Requests : req[r].pc \in {"load", "flush", "insert"} => req[r].row \in RowIds

LEMMA TypeOKParts ==
    /\ TypeOK <=> StoresOK /\ ReqOK
    /\ TypeOK' <=> StoresOK' /\ ReqOK'
  BY DEF TypeOK, StoresOK, ReqOK, ReqType, Phases

\* The initial state is well typed.
LEMMA InitType == Init => TypeOK
  BY DEF Init, TypeOK

\* Beginning a request keeps every variable typed.
LEMMA StartType ==
    ASSUME TypeOK, NEW r \in Requests, NEW u \in Users, Start(r, u)
    PROVE  TypeOK'
  <1>1. CASE StartLogin(r, u)
    <2>1. PICK k \in Keys : Begin(r, u, Writer("lookup", u, k, k))
      BY <1>1 DEF StartLogin
    <2>2. Writer("lookup", u, k, k) \in ReqType
      BY WriterIsTyped DEF WriterPcs, ReqType
    <2>3. ReqOK'
      BY <2>1, <2>2, BeginType DEF ReqOK
    <2> QED BY <1>1, <2>3, TypeOKParts DEF StartLogin, StoresOK
  <1>2. CASE StartRefresh(r, u)
    <2>1. PICK row \in keyTokens : Begin(r, u, Writer("sign", u, row.pub, row.priv))
      BY <1>2 DEF StartRefresh, StoreOf
    <2>2. row.pub \in Keys /\ row.priv \in Keys
      BY DEF TypeOK, RowType
    <2>3. Writer("sign", u, row.pub, row.priv) \in ReqType
      BY <2>2, WriterIsTyped DEF WriterPcs, ReqType
    <2>4. ReqOK'
      BY <2>1, <2>3, BeginType DEF ReqOK
    <2> QED BY <1>2, <2>4, TypeOKParts DEF StartRefresh, StoresOK
  <1>3. CASE StartLogout(r, u)
    <2>1. [pc |-> "find", user |-> u, row |-> NoRow] \in ReqType
      BY DEF ReqType, LeaverType
    <2>2. ReqOK'
      BY <1>3, <2>1, BeginType DEF StartLogout, ReqOK
    <2> QED BY <1>3, <2>2, TypeOKParts DEF StartLogout, StoresOK
  <1> QED BY <1>1, <1>2, <1>3 DEF Start

\* Each step of login and refreshToken keeps every variable typed.
LEMMA WriterStepType ==
    ASSUME TypeOK, RowFetched, NEW r \in Requests,
           \/ SignTokens(r) \/ LookupRow(r) \/ CreateRow(r) \/ FetchRow(r)
           \/ LoadRow(r) \/ FlushRow(r) \/ InsertRow(r) \/ CacheKey(r)
    PROVE  TypeOK'
  <1>1. req[r] \in WriterType
    BY PcTellsKind DEF WriterPcs, SignTokens, LookupRow, CreateRow, FetchRow,
       LoadRow, FlushRow, InsertRow, CacheKey
  <1>2. /\ req[r].user \in Users /\ req[r].pub \in Keys /\ req[r].priv \in Keys
        /\ req[r].access \in TokenType /\ req[r].refresh \in TokenType
    BY <1>1 DEF WriterType
  <1>3. StoresOK /\ ReqOK
    BY TypeOKParts
  <1>4. CASE SignTokens(r)
    <2>1. Writer("fetch", req[r].user, req[r].pub, req[r].priv) \in ReqType
      BY <1>2, WriterIsTyped DEF WriterPcs, ReqType
    <2> QED BY <1>3, <1>4, <2>1, TypeOKParts DEF SignTokens, ReqOK, StoresOK
  <1>5. CASE LookupRow(r)
    <2>1. ReqOK'
      BY <1>1, <1>5, GotoWriterType DEF LookupRow, WriterPcs, ReqOK
    <2> QED BY <1>3, <1>5, <2>1, TypeOKParts DEF LookupRow, StoresOK
  <1>6. CASE CreateRow(r)
    <2>1. ReqOK'
      BY <1>1, <1>6, GotoWriterType, EndType DEF CreateRow, WriterPcs, Phases, ReqOK
    <2>2. PICK i \in RowIds :
            \/ UNCHANGED keyTokens
            \/ keyTokens' = keyTokens \cup
                 {[id |-> i, user |-> req[r].user, pub |-> req[r].pub,
                   priv |-> req[r].priv, refresh |-> req[r].refresh]}
      BY <1>6 DEF CreateRow
    <2>3. keyTokens' \subseteq RowType
      BY <1>2, <1>3, <2>2 DEF RowType, StoresOK
    <2> QED BY <1>3, <1>6, <2>1, <2>3, TypeOKParts DEF CreateRow, StoresOK
  <1>7. CASE FetchRow(r)
    <2>1. CASE End(r, "unknown")
      <3>1. ReqOK' BY <2>1, EndType DEF Phases, ReqOK
      <3> QED BY <1>3, <1>7, <3>1, TypeOKParts DEF FetchRow, StoresOK
    <2>2. CASE \E row \in StoreOf(req[r].user) :
                  /\ req' = [req EXCEPT ![r].pc = "load", ![r].row = row.id]
                  /\ UNCHANGED history
      <3>1. PICK row \in keyTokens :
                req' = [req EXCEPT ![r].pc = "load", ![r].row = row.id]
        BY <2>2 DEF StoreOf
      <3>2. row.id \in RowIds
        BY DEF TypeOK, RowType
      <3>3. [req[r] EXCEPT !.pc = "load", !.row = row.id] \in WriterType
        BY <1>1, <3>2 DEF WriterType
      <3>4. ReqOK'
        BY <1>3, <2>2, <3>1, <3>3 DEF ReqOK, ReqType, history
      <3> QED BY <1>3, <1>7, <3>4, TypeOKParts DEF FetchRow, StoresOK
    <2> QED BY <1>7, <2>1, <2>2 DEF FetchRow
  <1>8. CASE LoadRow(r)
    <2>1. CASE Goto(r, "insert")
      <3>1. ReqOK' BY <1>1, <2>1, GotoWriterType DEF WriterPcs, ReqOK
      <3> QED BY <1>3, <1>8, <3>1, TypeOKParts DEF LoadRow, StoresOK
    <2>2. CASE \E row \in RowWithId(req[r].row) :
                  /\ req' = [req EXCEPT ![r].pc = "flush",
                                        ![r].dirty = Differing(r, row)]
                  /\ UNCHANGED history
      <3>1. PICK row :
                req' = [req EXCEPT ![r].pc = "flush", ![r].dirty = Differing(r, row)]
        BY <2>2
      <3>2. Differing(r, row) \in SUBSET Column
        BY DEF Differing
      <3>3. [req[r] EXCEPT !.pc = "flush", !.dirty = Differing(r, row)] \in WriterType
        BY <1>1, <3>2 DEF WriterType
      <3>4. ReqOK'
        BY <1>3, <2>2, <3>1, <3>3 DEF ReqOK, ReqType, history
      <3> QED BY <1>3, <1>8, <3>4, TypeOKParts DEF LoadRow, StoresOK
    <2> QED BY <1>8, <2>1, <2>2 DEF LoadRow
  <1>9. CASE FlushRow(r)
    <2>1. ReqOK'
      BY <1>1, <1>9, GotoWriterType, EndType DEF FlushRow, WriterPcs, Phases, ReqOK
    <2>2. ASSUME NEW row \in keyTokens
          PROVE  Patched(r, row) \in RowType
      BY <1>2 DEF Patched, RowType, TypeOK
    <2>3. keyTokens' \subseteq RowType
      <3>1. keyTokens \subseteq RowType
        BY <1>3 DEF StoresOK
      <3>2. \/ keyTokens' = keyTokens
            \/ \E row \in keyTokens : keyTokens' = (keyTokens \ {row}) \cup {Patched(r, row)}
        BY <1>9 DEF FlushRow, RowWithId
      <3> QED BY <2>2, <3>1, <3>2
    <2> QED BY <1>3, <1>9, <2>1, <2>3, TypeOKParts DEF FlushRow, StoresOK
  <1>10. CASE InsertRow(r)
    <2>1. ReqOK'
      BY <1>1, <1>10, GotoWriterType, EndType DEF InsertRow, WriterPcs, Phases, ReqOK
    <2>2. keyTokens' \subseteq RowType
      <3>1. req[r].row \in RowIds
        BY <1>10 DEF RowFetched, InsertRow
      <3> QED BY <1>2, <1>3, <1>10, <3>1 DEF InsertRow, RowType, StoresOK
    <2> QED BY <1>3, <1>10, <2>1, <2>2, TypeOKParts DEF InsertRow, StoresOK
  <1>11. CASE CacheKey(r)
    <2>1. ReqOK'
      BY <1>11, EndType DEF CacheKey, Phases, ReqOK
    <2>2. Token(req[r].user, req[r].pub, AccessTTL) \in TokenType
      BY <1>2 DEF Token, TokenType
    <2> QED BY <1>2, <1>3, <1>11, <2>1, <2>2, TypeOKParts
            DEF CacheKey, SetAcToken, StoresOK
  <1> QED BY <1>4, <1>5, <1>6, <1>7, <1>8, <1>9, <1>10, <1>11

\* Each step of logout keeps every variable typed.
LEMMA LeaverStepType ==
    ASSUME TypeOK, NEW r \in Requests, FindRow(r) \/ DeleteRow(r) \/ ForgetKey(r)
    PROVE  TypeOK'
  <1>1. req[r] \in LeaverType
    BY PcTellsKind DEF LeaverPcs, FindRow, DeleteRow, ForgetKey
  <1>2. StoresOK /\ ReqOK
    BY TypeOKParts
  <1>3. CASE FindRow(r)
    <2>1. CASE End(r, "unknown")
      <3>1. ReqOK' BY <2>1, EndType DEF Phases, ReqOK
      <3> QED BY <1>2, <1>3, <3>1, TypeOKParts DEF FindRow, StoresOK
    <2>2. CASE \E row \in StoreOf(req[r].user) :
                  /\ req' = [req EXCEPT ![r].pc = "delete", ![r].row = row.id]
                  /\ UNCHANGED history
      <3>1. PICK row \in keyTokens :
                req' = [req EXCEPT ![r].pc = "delete", ![r].row = row.id]
        BY <2>2 DEF StoreOf
      <3>2. row.id \in RowIds
        BY DEF TypeOK, RowType
      <3>3. [req[r] EXCEPT !.pc = "delete", !.row = row.id] \in LeaverType
        BY <1>1, <3>2 DEF LeaverType
      <3>4. ReqOK'
        BY <1>2, <2>2, <3>1, <3>3 DEF ReqOK, ReqType, history
      <3> QED BY <1>2, <1>3, <3>4, TypeOKParts DEF FindRow, StoresOK
    <2> QED BY <1>3, <2>1, <2>2 DEF FindRow
  <1>4. CASE DeleteRow(r)
    <2>1. [req[r] EXCEPT !.pc = "forget"] \in LeaverType
      BY <1>1 DEF LeaverType
    <2>2. ReqOK'
      BY <1>2, <1>4, <2>1 DEF DeleteRow, Goto, ReqOK, ReqType, history
    <2> QED BY <1>2, <1>4, <2>2, TypeOKParts DEF DeleteRow, StoresOK
  <1>5. CASE ForgetKey(r)
    <2>1. ReqOK'
      BY <1>5, EndType DEF ForgetKey, Phases, ReqOK
    <2> QED BY <1>2, <1>5, <2>1, TypeOKParts DEF ForgetKey, StoresOK
  <1> QED BY <1>3, <1>4, <1>5

\* A request that is cut short keeps every variable typed.
LEMMA AbortType ==
    ASSUME TypeOK, NEW r \in Requests, Abort(r)
    PROVE  TypeOK'
  <1>1. StoresOK /\ ReqOK
    BY TypeOKParts
  <1>2. ReqOK'
    BY EndType DEF Abort, Phases, ReqOK
  <1>3. \A q \in {r} \cap Writers : req[r].refresh \in TokenType
    BY DEF Writers, WriterType
  <1>4. cookies' \subseteq TokenType
    BY <1>1, <1>3 DEF Abort, StoresOK
  <1> QED BY <1>1, <1>2, <1>4, TypeOKParts DEF Abort, StoresOK

\* A tick of the clock keeps every variable typed.
LEMMA TickType ==
    ASSUME TypeOK, Tick
    PROVE  TypeOK'
  <1>1. StoresOK /\ ReqOK
    BY TypeOKParts
  <1>2. acTokens' \subseteq TokenType /\ accesses' \subseteq TokenType
        /\ cookies' \subseteq TokenType
    BY <1>1, AgedType DEF Tick, StoresOK
  <1>3. keyTokens' \subseteq RowType
    <2>1. ASSUME NEW row \in keyTokens
          PROVE  [row EXCEPT !.refresh = Older(@)] \in RowType
      <3>1. row \in RowType
        BY <1>1 DEF StoresOK
      <3>2. Older(row.refresh) \in TokenType
        BY <3>1, OlderType DEF RowType
      <3> QED BY <3>1, <3>2 DEF RowType
    <2> QED BY <2>1 DEF Tick
  <1>4. ReqOK'
    <2>1. ASSUME NEW r \in Requests
          PROVE  req'[r] \in ReqType
      <3>1. req[r] \in ReqType
        BY <1>1 DEF ReqOK
      <3>2. CASE r \in Writers
        <4>1. req[r] \in WriterType
          BY <3>2 DEF Writers
        <4>2. Older(req[r].access) \in TokenType /\ Older(req[r].refresh) \in TokenType
          BY <4>1, OlderType DEF WriterType
        <4>3. [req[r] EXCEPT !.access = Older(@), !.refresh = Older(@)] \in WriterType
          BY <4>1, <4>2 DEF WriterType
        <4> QED BY <3>2, <4>3 DEF Tick, ReqType
      <3>3. CASE r \notin Writers
        BY <3>1, <3>3 DEF Tick
      <3> QED BY <3>2, <3>3
    <2> QED BY <1>1, <2>1 DEF Tick, ReqOK, history
  <1> QED BY <1>2, <1>3, <1>4, TypeOKParts DEF StoresOK

\* A request that gets to save an entity holds the id of the row it has fetched.
LEMMA RowFetchedStep ==
    ASSUME TypeOK, RowFetched, Next
    PROVE  RowFetched'
  <1> DEFINE Saving == {"load", "flush", "insert"}
  <1>2. CASE Tick
    <2>1. ASSUME NEW q \in Requests
          PROVE  req'[q].pc \in Saving => req'[q].row \in RowIds
      BY <1>2 DEF Tick, RowFetched, Writers, WriterType
    <2> QED BY <2>1 DEF RowFetched
  <1>3. ASSUME NEW r \in Requests, NEW state, req' = [req EXCEPT ![r] = state],
               state.pc \in Saving => state.row \in RowIds
        PROVE  RowFetched'
    BY <1>3 DEF RowFetched, TypeOK
  <1>4. ASSUME NEW r \in Requests, Abort(r)
        PROVE  RowFetched'
    BY <1>3, <1>4 DEF Abort, End, Idle
  <1>5. ASSUME NEW r \in Requests, NEW u \in Users, Start(r, u)
        PROVE  RowFetched'
    BY <1>3, <1>5 DEF Start, StartLogin, StartRefresh, StartLogout, Begin, Writer
  <1>6. ASSUME NEW r \in Requests, Step(r)
        PROVE  RowFetched'
    <2>1. req[r].pc \in Saving => req[r].row \in RowIds
      BY DEF RowFetched
    <2>2. req \in [Requests -> ReqType]
      BY TypeOKParts DEF ReqOK
    <2>3. ASSUME NEW pc, Goto(r, pc), pc \in Saving => req[r].pc \in Saving
          PROVE  RowFetched'
      <3>1. req' = [req EXCEPT ![r].pc = pc]
        BY <2>3 DEF Goto
      <3>2. req'[r] = [req[r] EXCEPT !.pc = pc]
        BY <2>2, <3>1
      <3>3. req'[r].pc \in Saving => req'[r].row \in RowIds
        BY <2>1, <2>3, <3>2, PcTellsKind DEF WriterPcs, WriterType
      <3>4. \A q \in Requests : q # r => req'[q] = req[q]
        BY <2>2, <3>1
      <3> QED BY <3>3, <3>4 DEF RowFetched
    <2>4. CASE \E pc, row : /\ req' = [req EXCEPT ![r].pc = pc, ![r].row = row.id]
                          /\ row \in keyTokens
      <3>1. \A row \in keyTokens : row.id \in RowIds
        BY DEF TypeOK, RowType
      <3>2. PICK pc, row : /\ req' = [req EXCEPT ![r].pc = pc, ![r].row = row.id]
                           /\ row \in keyTokens
        BY <2>4
      <3> QED BY <2>2, <3>1, <3>2, PcTellsKind DEF RowFetched
    <2>5. CASE \E D : /\ req[r].pc = "load"
                    /\ req' = [req EXCEPT ![r].pc = "flush", ![r].dirty = D]
      BY <2>1, <2>2, <2>5 DEF RowFetched
    <2>6. CASE \E outcome : End(r, outcome)
      BY <2>6, <1>3 DEF End, Idle
    <2>7. CASE SignTokens(r)
      BY <2>7, <1>3 DEF SignTokens, Writer
    <2> QED BY <1>6, <2>3, <2>4, <2>5, <2>6, <2>7
            DEF Step, LookupRow, CreateRow, FetchRow, LoadRow, FlushRow, InsertRow,
                CacheKey, FindRow, DeleteRow, ForgetKey, StoreOf
  <1> QED BY <1>2, <1>4, <1>5, <1>6 DEF Next

\* Every step keeps every variable typed.
LEMMA NextType ==
    ASSUME TypeOK, RowFetched, [Next]_vars
    PROVE  TypeOK'
  <1>1. CASE UNCHANGED vars
    BY <1>1 DEF vars, TypeOK
  <1>2. CASE Next
    BY <1>2, StartType, WriterStepType, LeaverStepType, AbortType, TickType
       DEF Next, Step
  <1> QED BY <1>1, <1>2

\* Every reachable state is well typed: keys, tokens and rows never mix, and no
\* request saves an entity without an id.
THEOREM TypeCorrect == Spec => [](TypeOK /\ RowFetched)
  <1>1. Init => TypeOK /\ RowFetched
    BY InitType DEF Init, RowFetched, Idle
  <1>2. TypeOK /\ RowFetched /\ [Next]_vars => TypeOK' /\ RowFetched'
    BY NextType, RowFetchedStep DEF vars, RowFetched
  <1> QED BY <1>1, <1>2, PTL DEF Spec

-----------------------------------------------------------------------------
(* The two keys of a row belong together.                                  *)

\* Why KeyPairIntact is kept: a login or refresh carries the pair of one login, and
\* because the row it compared the pair with was a pair too, the columns found to
\* differ include both keys or neither. Its access token is its user's and has at
\* most the lifetime it was signed with.
CarriesLogin(w) ==
    w.pc \in WriterPcs =>
        /\ w.pub = w.priv
        /\ w.access.user = w.user /\ w.access.left <= AccessTTL
        /\ w.pc = "flush" => ("publicKey" \in w.dirty <=> "privateKey" \in w.dirty)

LoginsCarried == \A r \in Requests : CarriesLogin(req[r])

KeyPairInv == KeyPairIntact /\ LoginsCarried

\* A step that moves one request on by its pc alone.
LEMMA GotoCarries ==
    ASSUME TypeOK, LoginsCarried, NEW r \in Requests, NEW pc, Goto(r, pc), pc # "flush",
           req[r].pc \in WriterPcs \/ pc \notin WriterPcs
    PROVE  LoginsCarried'
  <1>1. req'[r] = [req[r] EXCEPT !.pc = pc] /\ \A q \in Requests : q # r => req'[q] = req[q]
    BY TypeOKParts DEF Goto, ReqOK
  <1>2. CASE req[r].pc \in WriterPcs
    <2>1. req[r] \in WriterType
      BY <1>2, PcTellsKind
    <2>2. /\ req'[r].pc = pc /\ req'[r].pub = req[r].pub /\ req'[r].priv = req[r].priv
          /\ req'[r].user = req[r].user /\ req'[r].access = req[r].access
      BY <1>1, <2>1 DEF WriterType
    <2>3. CarriesLogin(req[r]) /\ \A q \in Requests : CarriesLogin(req[q])
      BY DEF LoginsCarried
    <2>4. CarriesLogin(req'[r])
      BY <1>2, <2>2, <2>3 DEF CarriesLogin
    <2>5. ASSUME NEW q \in Requests, q # r
          PROVE  CarriesLogin(req'[q])
      BY <1>1, <2>3, <2>5
    <2> QED BY <2>4, <2>5 DEF LoginsCarried
  <1>3. CASE req[r].pc \notin WriterPcs /\ pc \notin WriterPcs
    <2>1. req'[r].pc \notin WriterPcs
      BY <1>1, <1>3, PcTellsKind DEF ReqType, WriterType, LeaverType, Idle, WriterPcs
    <2> QED BY <1>1, <2>1 DEF LoginsCarried, CarriesLogin
  <1> QED BY <1>2, <1>3

\* A step that replaces the state of one request as a whole.
LEMMA ReplaceCarries ==
    ASSUME TypeOK, LoginsCarried, NEW r \in Requests, NEW state,
           req' = [req EXCEPT ![r] = state], CarriesLogin(state)
    PROVE  LoginsCarried'
  BY TypeOKParts DEF ReqOK, LoginsCarried

\* An ended request carries nothing.
LEMMA EndCarries ==
    ASSUME TypeOK, LoginsCarried, NEW r \in Requests, NEW outcome, End(r, outcome)
    PROVE  LoginsCarried'
  BY ReplaceCarries DEF End, Idle, CarriesLogin, WriterPcs

\* Every step keeps the pairs together.
LEMMA KeyPairStep ==
    ASSUME TypeOK, RowFetched, KeyPairInv, [Next]_vars
    PROVE  KeyPairInv'
  <1> USE DEF KeyPairInv
  <1>1. CASE UNCHANGED vars
    BY <1>1 DEF vars, KeyPairIntact, LoginsCarried
  <1>2. ASSUME NEW r \in Requests, NEW u \in Users, Start(r, u)
        PROVE  KeyPairInv'
    <2>1. KeyPairIntact'
      BY <1>2 DEF Start, StartLogin, StartRefresh, StartLogout, KeyPairIntact
    <2>2. CASE StartLogin(r, u)
      <3>1. PICK k \in Keys : req' = [req EXCEPT ![r] = Writer("lookup", u, k, k)]
        BY <2>2 DEF StartLogin, Begin
      <3>2. CarriesLogin(Writer("lookup", u, k, k))
        BY WriterIsTyped DEF WriterPcs, CarriesLogin
      <3> QED BY <2>1, <3>1, <3>2, ReplaceCarries
    <2>3. CASE StartRefresh(r, u)
      <3>1. PICK row \in keyTokens :
                req' = [req EXCEPT ![r] = Writer("sign", u, row.pub, row.priv)]
        BY <2>3 DEF StartRefresh, StoreOf, Begin
      <3>2. row.pub = row.priv /\ row.pub \in Keys
        BY DEF KeyPairIntact, TypeOK, RowType
      <3>3. CarriesLogin(Writer("sign", u, row.pub, row.priv))
        BY <3>2, WriterIsTyped DEF WriterPcs, CarriesLogin
      <3> QED BY <2>1, <3>1, <3>3, ReplaceCarries
    <2>4. CASE StartLogout(r, u)
      <3>1. CarriesLogin([pc |-> "find", user |-> u, row |-> NoRow])
        BY DEF CarriesLogin, WriterPcs
      <3> QED BY <2>1, <2>4, <3>1, ReplaceCarries DEF StartLogout, Begin
    <2> QED BY <1>2, <2>2, <2>3, <2>4 DEF Start
  <1>3. ASSUME NEW r \in Requests, SignTokens(r)
        PROVE  KeyPairInv'
    <2>1. req[r] \in WriterType /\ req[r].pub = req[r].priv
      BY <1>3, PcTellsKind DEF SignTokens, WriterPcs, LoginsCarried, CarriesLogin
    <2>2. CarriesLogin(Writer("fetch", req[r].user, req[r].pub, req[r].priv))
      BY <2>1, WriterIsTyped DEF WriterType, WriterPcs, CarriesLogin
    <2> QED BY <1>3, <2>2, ReplaceCarries DEF SignTokens, KeyPairIntact
  <1>4. ASSUME NEW r \in Requests, LookupRow(r)
        PROVE  KeyPairInv'
    BY <1>4, GotoCarries DEF LookupRow, WriterPcs, KeyPairIntact
  <1>5. ASSUME NEW r \in Requests, CreateRow(r) \/ InsertRow(r)
        PROVE  KeyPairInv'
    <2>1. req[r].pc \in WriterPcs
      BY <1>5 DEF CreateRow, InsertRow, WriterPcs
    <2>2. req[r].pub = req[r].priv
      BY <2>1 DEF LoginsCarried, CarriesLogin
    <2>3. LoginsCarried'
      BY <1>5, <2>1, GotoCarries, EndCarries DEF CreateRow, InsertRow
    <2>4. KeyPairIntact'
      <3>1. CASE CreateRow(r)
        BY <2>2, <3>1 DEF CreateRow, KeyPairIntact
      <3>2. CASE InsertRow(r)
        BY <2>2, <3>2 DEF InsertRow, KeyPairIntact
      <3> QED BY <1>5, <3>1, <3>2
    <2> QED BY <2>3, <2>4
  <1>6. ASSUME NEW r \in Requests, FetchRow(r)
        PROVE  KeyPairInv'
    <2>1. KeyPairIntact'
      BY <1>6 DEF FetchRow, KeyPairIntact
    <2>2. CASE End(r, "unknown")
      BY <2>1, <2>2, EndCarries
    <2>3. CASE \E row \in StoreOf(req[r].user) :
                  req' = [req EXCEPT ![r].pc = "load", ![r].row = row.id]
      <3>1. req[r] \in WriterType /\ req[r].pc \in WriterPcs /\ CarriesLogin(req[r])
        BY <1>6, PcTellsKind DEF FetchRow, WriterPcs, LoginsCarried, CarriesLogin
      <3>2. PICK row \in keyTokens :
                req' = [req EXCEPT ![r] = [req[r] EXCEPT !.pc = "load", !.row = row.id]]
        BY <2>3, TypeOKParts DEF StoreOf, ReqOK
      <3>3. CarriesLogin([req[r] EXCEPT !.pc = "load", !.row = row.id])
        BY <3>1 DEF WriterType, CarriesLogin
      <3> QED BY <2>1, <3>2, <3>3, ReplaceCarries
    <2> QED BY <1>6, <2>2, <2>3 DEF FetchRow
  <1>7. ASSUME NEW r \in Requests, LoadRow(r)
        PROVE  KeyPairInv'
    <2>1. KeyPairIntact'
      BY <1>7 DEF LoadRow, KeyPairIntact
    <2>2. /\ req[r] \in WriterType /\ req[r].pc \in WriterPcs
          /\ CarriesLogin(req[r]) /\ req[r].pub = req[r].priv
      BY <1>7, PcTellsKind DEF LoadRow, WriterPcs, LoginsCarried, CarriesLogin
    <2>3. CASE Goto(r, "insert")
      BY <1>7, <2>1, <2>3, GotoCarries DEF LoadRow, WriterPcs
    <2>4. CASE \E row \in RowWithId(req[r].row) :
                  req' = [req EXCEPT ![r].pc = "flush", ![r].dirty = Differing(r, row)]
      <3>1. PICK row \in keyTokens :
                req' = [req EXCEPT ![r] = [req[r] EXCEPT !.pc = "flush",
                                                         !.dirty = Differing(r, row)]]
        BY <2>4, TypeOKParts DEF RowWithId, ReqOK
      <3>2. "publicKey" \in Differing(r, row) <=> "privateKey" \in Differing(r, row)
        BY <2>2 DEF Differing, Column, KeyPairIntact
      <3>3. CarriesLogin([req[r] EXCEPT !.pc = "flush", !.dirty = Differing(r, row)])
        BY <2>2, <3>2 DEF WriterType, CarriesLogin
      <3> QED BY <2>1, <3>1, <3>3, ReplaceCarries
    <2> QED BY <1>7, <2>3, <2>4 DEF LoadRow
  <1>8. ASSUME NEW r \in Requests, FlushRow(r)
        PROVE  KeyPairInv'
    <2>1. /\ req[r].pc \in WriterPcs /\ req[r].pub = req[r].priv
          /\ "publicKey" \in req[r].dirty <=> "privateKey" \in req[r].dirty
      BY <1>8 DEF FlushRow, WriterPcs, LoginsCarried, CarriesLogin
    <2>2. LoginsCarried'
      BY <1>8, <2>1, GotoCarries, EndCarries DEF FlushRow
    <2>3. ASSUME NEW row \in keyTokens
          PROVE  Patched(r, row).pub = Patched(r, row).priv
      BY <2>1 DEF Patched, KeyPairIntact, TypeOK, RowType
    <2>4. KeyPairIntact'
      BY <1>8, <2>3 DEF FlushRow, RowWithId, KeyPairIntact
    <2> QED BY <2>2, <2>4
  <1>9. ASSUME NEW r \in Requests, CacheKey(r) \/ FindRow(r) \/ DeleteRow(r) \/ ForgetKey(r)
        PROVE  KeyPairInv'
    <2>1. KeyPairIntact'
      BY <1>9 DEF CacheKey, FindRow, DeleteRow, ForgetKey, KeyPairIntact
    <2>2. CASE FindRow(r) /\ \E row \in StoreOf(req[r].user) :
                  req' = [req EXCEPT ![r].pc = "delete", ![r].row = row.id]
      <3>1. PICK row :
                req' = [req EXCEPT ![r] = [req[r] EXCEPT !.pc = "delete", !.row = row.id]]
        BY <2>2, TypeOKParts DEF ReqOK
      <3>2. CarriesLogin([req[r] EXCEPT !.pc = "delete", !.row = row.id])
        BY <2>2, PcTellsKind DEF FindRow, LeaverPcs, LeaverType, WriterPcs, CarriesLogin
      <3> QED BY <2>1, <3>1, <3>2, ReplaceCarries
    <2>3. CASE DeleteRow(r)
      BY <2>1, <2>3, GotoCarries DEF DeleteRow, WriterPcs
    <2>4. CASE \E outcome \in Phases : End(r, outcome)
      BY <2>1, <2>4, EndCarries
    <2> QED BY <1>9, <2>2, <2>3, <2>4 DEF CacheKey, FindRow, ForgetKey, Phases
  <1>10. ASSUME NEW r \in Requests, Abort(r)
         PROVE  KeyPairInv'
    BY <1>10, EndCarries DEF Abort, KeyPairIntact
  <1>11. CASE Tick
    <2>1. KeyPairIntact'
      BY <1>11 DEF Tick, KeyPairIntact, TypeOK, RowType
    <2>2. ASSUME NEW r \in Requests
          PROVE  CarriesLogin(req'[r])
      <3>1. CASE r \in Writers
        <4>1. req[r] \in WriterType /\ req[r].pc \in WriterPcs /\ CarriesLogin(req[r])
          BY <3>1, PcTellsKind DEF LoginsCarried
        <4>2. req[r].access \in TokenType /\ AccessTTL \in Nat
          BY <4>1 DEF WriterType
        <4>3. /\ Older(req[r].access).user = req[r].access.user
              /\ Older(req[r].access).left <= AccessTTL
          <5>1. req[r].access.left \in Nat /\ req[r].access.left <= AccessTTL
            BY <4>1, <4>2 DEF CarriesLogin, TokenType
          <5> QED BY <4>2, <5>1, OlderType
        <4>4. req'[r] = [req[r] EXCEPT !.access = Older(@), !.refresh = Older(@)]
          BY <1>11, <3>1 DEF Tick
        <4> QED BY <4>1, <4>3, <4>4 DEF WriterType, CarriesLogin
      <3>2. CASE r \notin Writers
        BY <1>11, <3>2 DEF Tick, LoginsCarried
      <3> QED BY <3>1, <3>2
    <2> QED BY <2>1, <2>2 DEF LoginsCarried
  <1> QED BY <1>1, <1>2, <1>3, <1>4, <1>5, <1>6, <1>7, <1>8, <1>9, <1>10, <1>11
          DEF Next, Step

\* However logins, refreshes and logouts interleave, whatever fails in between and
\* however many there are, no row ever holds the public key of one login beside the
\* private key of another: save() writes the differing columns of the pair together.
THEOREM KeyPairsStayIntact == Spec => []KeyPairIntact
  <1>1. Init => KeyPairInv
    BY DEF Init, KeyPairInv, KeyPairIntact, LoginsCarried, CarriesLogin, Idle, WriterPcs
  <1>2. TypeOK /\ RowFetched /\ KeyPairInv /\ [Next]_vars => KeyPairInv'
    BY KeyPairStep
  <1>3. KeyPairInv => KeyPairIntact
    BY DEF KeyPairInv
  <1> QED BY <1>1, <1>2, <1>3, TypeCorrect, PTL DEF Spec

-----------------------------------------------------------------------------
(* The cached key outlives the tokens it verifies.                         *)

\* Why CachedKeyOutlivesTokens is kept: no access token has more left than AccessTTL,
\* which is what every write of the cached key sets the clock to.
CacheInv ==
    /\ CachedKeyOutlivesTokens
    /\ \A t \in accesses : t.left <= AccessTTL

\* Every step keeps the cached key alive as long as its tokens.
LEMMA CacheStep ==
    ASSUME TypeOK, LoginsCarried, CacheInv, [Next]_vars
    PROVE  CacheInv'
  <1> USE DEF CacheInv
  <1>1. CASE acTokens' \subseteq acTokens /\ accesses' = accesses
    BY <1>1 DEF CachedKeyOutlivesTokens
  <1>2. ASSUME NEW r \in Requests, CacheKey(r)
        PROVE  CacheInv'
    <2>1. /\ req[r] \in WriterType
          /\ req[r].access.user = req[r].user /\ req[r].access.left <= AccessTTL
      BY <1>2, PcTellsKind DEF CacheKey, WriterPcs, LoginsCarried, CarriesLogin
    <2>2. \A t \in accesses' : t \in accesses \/ t = req[r].access
      BY <1>2 DEF CacheKey
    <2>3. \A t \in accesses' : t.left <= AccessTTL
      BY <2>1, <2>2
    <2>4. \A e \in acTokens' : \/ e \in acTokens /\ e.user # req[r].user
                               \/ e.user = req[r].user /\ e.left = AccessTTL
      BY <1>2 DEF CacheKey, SetAcToken, Token
    <2>5. ASSUME NEW e \in acTokens', NEW t \in accesses', t.key = e.key, t.user = e.user
          PROVE  t.left <= e.left
      <3>1. CASE e.user = req[r].user /\ e.left = AccessTTL
        BY <2>3, <3>1
      <3>2. CASE e \in acTokens /\ e.user # req[r].user
        <4>1. t \in accesses
          BY <2>1, <2>2, <2>5, <3>2
        <4> QED BY <2>5, <3>2, <4>1 DEF CachedKeyOutlivesTokens
      <3> QED BY <2>4, <3>1, <3>2
    <2> QED BY <2>3, <2>5 DEF CachedKeyOutlivesTokens
  <1>3. CASE Tick
    <2>1. ASSUME NEW e \in acTokens'
          PROVE  \E e0 \in acTokens : e = Older(e0)
      BY <1>3 DEF Tick, Unexpired
    <2>2. ASSUME NEW t \in accesses'
          PROVE  \E t0 \in accesses : t = Older(t0)
      BY <1>3 DEF Tick, Unexpired
    <2>3. ASSUME NEW t \in accesses'
          PROVE  t.left <= AccessTTL
      <3>1. PICK t0 \in accesses : t = Older(t0)
        BY <2>2
      <3>2. t0 \in TokenType /\ t0.left \in Nat /\ t0.left <= AccessTTL
        BY DEF TypeOK, TokenType
      <3> QED BY <3>1, <3>2, OlderType
    <2>4. ASSUME NEW e \in acTokens', NEW t \in accesses', t.key = e.key, t.user = e.user
          PROVE  t.left <= e.left
      <3>1. PICK e0 \in acTokens : e = Older(e0)
        BY <2>1
      <3>2. PICK t0 \in accesses : t = Older(t0)
        BY <2>2
      <3>3. /\ e0 \in TokenType /\ e0.left \in Nat
            /\ t0 \in TokenType /\ t0.left \in Nat
        BY DEF TypeOK, TokenType
      <3>4. t0.key = e0.key /\ t0.user = e0.user
        BY <2>4, <3>1, <3>2, <3>3, OlderType
      <3>5. t0.left <= e0.left
        BY <3>4 DEF CachedKeyOutlivesTokens
      <3> QED BY <3>1, <3>2, <3>3, <3>5, OlderType
    <2> QED BY <2>3, <2>4 DEF CachedKeyOutlivesTokens
  <1>4. CASE Next /\ ~(\E r \in Requests : CacheKey(r)) /\ ~Tick
    <2>1. acTokens' \subseteq acTokens /\ accesses' = accesses
      BY <1>4 DEF Next, Start, StartLogin, StartRefresh, StartLogout, Step, SignTokens,
         LookupRow, CreateRow, FetchRow, LoadRow, FlushRow, InsertRow, FindRow,
         DeleteRow, ForgetKey, Abort
    <2> QED BY <1>1, <2>1
  <1>5. CASE UNCHANGED vars
    BY <1>1, <1>5 DEF vars
  <1> QED BY <1>2, <1>3, <1>4, <1>5

\* Whichever login or refresh wrote AC_TOKEN:<userId> last, it never expires before an
\* access token it verifies, for every number of requests and every pair of TTLs.
THEOREM CachedKeyOutlives == Spec => []CachedKeyOutlivesTokens
  <1>1. Init => KeyPairInv /\ CacheInv
    BY DEF Init, KeyPairInv, KeyPairIntact, LoginsCarried, CarriesLogin, Idle, WriterPcs,
       CacheInv, CachedKeyOutlivesTokens
  <1>2. TypeOK /\ RowFetched /\ KeyPairInv /\ CacheInv /\ [Next]_vars
            => KeyPairInv' /\ CacheInv'
    BY KeyPairStep, CacheStep DEF KeyPairInv
  <1>3. CacheInv => CachedKeyOutlivesTokens
    BY DEF CacheInv
  <1> QED BY <1>1, <1>2, <1>3, TypeCorrect, PTL DEF Spec


-----------------------------------------------------------------------------
(* What a step of one request does to it and to the stores.                *)

\* The tokens of a login or a refresh are its user's, signed with its keys.
SignedFor(q) ==
    q.pc \in WriterPcs =>
        /\ q.access.user = q.user /\ q.access.key = q.pub
        /\ q.refresh.user = q.user /\ q.refresh.key = q.priv

Turns(r, t) == req' = [req EXCEPT ![r] = t]

\* A request goes on as t, for the same user and with the same keys; the row it holds by
\* then is the one it held, or its user's.
Moves(q, t) ==
    t # Idle =>
        /\ t.user = q.user
        /\ t.pc \in WriterPcs <=> q.pc \in WriterPcs
        /\ t.pc \in WriterPcs => t.pub = q.pub /\ t.priv = q.priv
        /\ SignedFor(q) => SignedFor(t)
        /\ t.row \in {q.row, NoRow} \cup {row.id : row \in StoreOf(q.user)}

LEMMA TurnFacts ==
    ASSUME TypeOK, NEW r \in Requests, NEW t, Turns(r, t)
    PROVE  req'[r] = t /\ \A s \in Requests : s # r => req'[s] = req[s]
  BY DEF TypeOK, Turns

LEMMA GotoMoves ==
    ASSUME TypeOK, NEW r \in Requests, NEW pc \in WriterPcs \cup LeaverPcs, Goto(r, pc),
           req[r] # Idle, pc \in WriterPcs <=> req[r].pc \in WriterPcs
    PROVE  \E t : /\ Turns(r, t) /\ Moves(req[r], t) /\ t = [req[r] EXCEPT !.pc = pc]
                  /\ t # Idle /\ UNCHANGED history
  <1>1. PICK t : t = [req[r] EXCEPT !.pc = pc]
    OBVIOUS
  <1>2. Turns(r, t) /\ UNCHANGED history
    BY <1>1 DEF Goto, Turns, TypeOK
  <1>3. CASE req[r] \in WriterType
    <2>1. /\ t.pc = pc /\ t.user = req[r].user /\ t.row = req[r].row /\ t.pub = req[r].pub
          /\ t.priv = req[r].priv /\ t.access = req[r].access /\ t.refresh = req[r].refresh
      BY <1>1, <1>3 DEF WriterType
    <2>2. Moves(req[r], t)
      BY <2>1 DEF Moves, SignedFor
    <2>3. t # Idle
      BY <2>1 DEF Idle, WriterPcs, LeaverPcs
    <2> QED BY <1>1, <1>2, <2>2, <2>3
  <1>4. CASE req[r] \in LeaverType
    <2>1. /\ t.pc = pc /\ t.user = req[r].user /\ t.row = req[r].row /\ req[r].pc \notin WriterPcs
      BY <1>1, <1>4 DEF LeaverType, WriterPcs
    <2>2. Moves(req[r], t)
      BY <2>1 DEF Moves, SignedFor
    <2>3. t # Idle
      BY <2>1 DEF Idle, WriterPcs, LeaverPcs
    <2> QED BY <1>1, <1>2, <2>2, <2>3
  <1> QED BY <1>3, <1>4 DEF TypeOK

Ends(r) == End(r, "unknown") \/ CacheKey(r) \/ ForgetKey(r)

\* A step either ends the request, or moves it on.
LEMMA StepMoves ==
    ASSUME TypeOK, NEW r \in Requests, Step(r) \/ Abort(r)
    PROVE  /\ req[r] # Idle
           /\ \E t : /\ Turns(r, t) /\ Moves(req[r], t)
                     /\ \/ t = Idle /\ Ends(r)
                        \/ t # Idle /\ UNCHANGED history
  <1> DEFINE Goal == \E t : /\ Turns(r, t) /\ Moves(req[r], t)
                            /\ \/ t = Idle /\ Ends(r)
                               \/ t # Idle /\ UNCHANGED history
  <1>1. req[r] # Idle
    BY DEF Step, Abort, SignTokens, LookupRow, CreateRow, FetchRow, LoadRow, FlushRow,
           InsertRow, CacheKey, FindRow, DeleteRow, ForgetKey, Idle
  <1>2. ASSUME Ends(r) PROVE Goal
    <2>1. Turns(r, Idle)
      BY <1>2 DEF Ends, CacheKey, ForgetKey, End, Turns
    <2> QED BY <1>2, <2>1 DEF Moves
  <1>3. ASSUME NEW pc \in WriterPcs \cup LeaverPcs, Goto(r, pc),
               pc \in WriterPcs <=> req[r].pc \in WriterPcs
        PROVE  Goal
    BY <1>1, <1>3, GotoMoves
  <1>4. ASSUME SignTokens(r) PROVE Goal
    <2>1. PICK t : t = Writer("fetch", req[r].user, req[r].pub, req[r].priv)
      OBVIOUS
    <2>2. Turns(r, t) /\ t # Idle /\ UNCHANGED history /\ req[r].pc = "sign"
      BY <1>4, <2>1 DEF SignTokens, Turns, Writer, Idle, history
    <2>3. Moves(req[r], t)
      BY <2>1, <2>2 DEF Moves, Writer, SignedFor, Token, WriterPcs
    <2> QED BY <2>2, <2>3
  <1>5. ASSUME FetchRow(r), ~End(r, "unknown") PROVE Goal
    <2>1. PICK row \in StoreOf(req[r].user) :
              req' = [req EXCEPT ![r].pc = "load", ![r].row = row.id] /\ UNCHANGED history
      BY <1>5 DEF FetchRow
    <2>2. PICK t : t = [req[r] EXCEPT !.pc = "load", !.row = row.id]
      OBVIOUS
    <2>3. Turns(r, t) /\ req[r] \in WriterType /\ req[r].pc \in WriterPcs
      BY <1>5, <2>1, <2>2, PcTellsKind DEF Turns, TypeOK, FetchRow, WriterPcs
    <2>4. /\ t.pc = "load" /\ t.user = req[r].user /\ t.row = row.id /\ t.pub = req[r].pub
          /\ t.priv = req[r].priv /\ t.access = req[r].access /\ t.refresh = req[r].refresh
      BY <2>2, <2>3 DEF WriterType
    <2>5. Moves(req[r], t) /\ t # Idle
      BY <2>3, <2>4 DEF Moves, SignedFor, WriterPcs, Idle
    <2> QED BY <2>1, <2>3, <2>5
  <1>6. ASSUME FindRow(r), ~End(r, "unknown") PROVE Goal
    <2>1. PICK row \in StoreOf(req[r].user) :
              req' = [req EXCEPT ![r].pc = "delete", ![r].row = row.id] /\ UNCHANGED history
      BY <1>6 DEF FindRow
    <2>2. PICK t : t = [req[r] EXCEPT !.pc = "delete", !.row = row.id]
      OBVIOUS
    <2>3. Turns(r, t) /\ req[r] \in LeaverType /\ req[r].pc = "find"
      BY <1>6, <2>1, <2>2, PcTellsKind DEF Turns, TypeOK, FindRow, LeaverPcs
    <2>4. t.pc = "delete" /\ t.user = req[r].user /\ t.row = row.id
      BY <2>2, <2>3 DEF LeaverType
    <2>5. Moves(req[r], t) /\ t # Idle
      BY <2>3, <2>4 DEF Moves, SignedFor, WriterPcs, Idle
    <2> QED BY <2>1, <2>3, <2>5
  <1>7. ASSUME LoadRow(r), RowWithId(req[r].row) # {} PROVE Goal
    <2>1. PICK row \in RowWithId(req[r].row) :
              req' = [req EXCEPT ![r].pc = "flush", ![r].dirty = Differing(r, row)] /\ UNCHANGED history
      BY <1>7 DEF LoadRow
    <2>2. PICK t : t = [req[r] EXCEPT !.pc = "flush", !.dirty = Differing(r, row)]
      OBVIOUS
    <2>3. Turns(r, t) /\ req[r] \in WriterType /\ req[r].pc \in WriterPcs
      BY <1>7, <2>1, <2>2, PcTellsKind DEF Turns, TypeOK, LoadRow, WriterPcs
    <2>4. /\ t.pc = "flush" /\ t.user = req[r].user /\ t.row = req[r].row /\ t.pub = req[r].pub
          /\ t.priv = req[r].priv /\ t.access = req[r].access /\ t.refresh = req[r].refresh
      BY <2>2, <2>3 DEF WriterType
    <2>5. Moves(req[r], t) /\ t # Idle
      BY <2>3, <2>4 DEF Moves, SignedFor, WriterPcs, Idle
    <2> QED BY <2>1, <2>3, <2>5
  <1> HIDE DEF Goal
  <1>8. LookupRow(r) \/ (LoadRow(r) /\ RowWithId(req[r].row) = {}) \/ DeleteRow(r) => Goal
    BY <1>3 DEF LookupRow, LoadRow, DeleteRow, WriterPcs, LeaverPcs
  <1>9. CreateRow(r) \/ FlushRow(r) \/ InsertRow(r) => Goal
    BY <1>2, <1>3 DEF CreateRow, FlushRow, InsertRow, WriterPcs, LeaverPcs, Ends
  <1>10. CacheKey(r) \/ ForgetKey(r) \/ Abort(r) => Goal
    BY <1>2 DEF Abort, Ends
  <1>11. FetchRow(r) \/ FindRow(r) => Goal
    BY <1>2, <1>5, <1>6 DEF Ends
  <1>12. Goal
    BY <1>4, <1>7, <1>8, <1>9, <1>10, <1>11 DEF Step
  <1> QED BY <1>1, <1>12 DEF Goal

\* A row that a login or a refresh inserts: its user's under a new id, or nobody's under
\* that of the row it held.
Adds(q, row) ==
    /\ q.pc \in WriterPcs
    /\ row.pub = q.pub /\ row.priv = q.priv /\ row.refresh = q.refresh
    /\ \/ row.user = q.user /\ row.id \notin LiveRows
       \/ row.user = NoUser /\ row.id = q.row

\* One that it updates: columns of its own beside columns of the row.
Alters(q, row, new) ==
    /\ q.pc \in WriterPcs
    /\ row.id = q.row /\ new.id = row.id /\ new.user = row.user
    /\ new.pub \in {row.pub, q.pub} /\ new.priv \in {row.priv, q.priv}
    /\ new.refresh \in {row.refresh, q.refresh}

Inserts(q, row) ==
    Adds(q, row) /\ ~Clash(row, keyTokens) /\ keyTokens' = keyTokens \cup {row}

Updates(q, row, new) ==
    /\ Alters(q, row, new) /\ ~Clash(new, keyTokens \ {row})
    /\ keyTokens' = (keyTokens \ {row}) \cup {new}

LEMMA StepRows ==
    ASSUME TypeOK, RowFetched, NEW r \in Requests, Step(r) \/ Abort(r)
    PROVE  \/ keyTokens' = keyTokens
           \/ \E row \in RowType : Inserts(req[r], row)
           \/ \E row \in keyTokens, new \in RowType : Updates(req[r], row, new)
           \/ keyTokens' = keyTokens \ RowWithId(req[r].row)
  <1> DEFINE q == req[r]
  <1>1. CASE CreateRow(r)
    <2>1. q \in WriterType /\ q.pc \in WriterPcs
      BY <1>1, PcTellsKind DEF CreateRow, WriterPcs
    <2>2. PICK i \in RowIds \ LiveRows :
              LET row == [id |-> i, user |-> q.user, pub |-> q.pub, priv |-> q.priv, refresh |-> q.refresh]
              IN  \/ keyTokens' = keyTokens
                  \/ ~Clash(row, keyTokens) /\ keyTokens' = keyTokens \cup {row}
      BY <1>1 DEF CreateRow
    <2>3. PICK row : row = [id |-> i, user |-> q.user, pub |-> q.pub, priv |-> q.priv, refresh |-> q.refresh]
      OBVIOUS
    <2>4. row \in RowType
      BY <2>1, <2>3 DEF WriterType, RowType
    <2>5. Adds(q, row)
      BY <2>1, <2>2, <2>3 DEF Adds
    <2> QED BY <2>2, <2>3, <2>4, <2>5 DEF Inserts
  <1>2. CASE InsertRow(r)
    <2>1. q \in WriterType /\ q.pc \in WriterPcs /\ q.row \in RowIds
      BY <1>2, PcTellsKind DEF InsertRow, WriterPcs, RowFetched
    <2>2. PICK row : row = [id |-> q.row, user |-> NoUser, pub |-> q.pub, priv |-> q.priv, refresh |-> q.refresh]
      OBVIOUS
    <2>3. keyTokens' = keyTokens \/ (~Clash(row, keyTokens) /\ keyTokens' = keyTokens \cup {row})
      BY <1>2, <2>2 DEF InsertRow
    <2>4. row \in RowType
      BY <2>1, <2>2 DEF WriterType, RowType
    <2>5. Adds(q, row)
      BY <2>1, <2>2 DEF Adds
    <2> QED BY <2>3, <2>4, <2>5 DEF Inserts
  <1>3. CASE FlushRow(r) /\ keyTokens' # keyTokens
    <2>1. q \in WriterType /\ q.pc \in WriterPcs
      BY <1>3, PcTellsKind DEF FlushRow, WriterPcs
    <2>2. PICK row \in RowWithId(q.row) :
              /\ ~Clash(Patched(r, row), keyTokens \ {row})
              /\ keyTokens' = (keyTokens \ {row}) \cup {Patched(r, row)}
      BY <1>3 DEF FlushRow
    <2>3. row \in keyTokens /\ row \in RowType /\ row.id = q.row
      BY <2>2 DEF RowWithId, TypeOK
    <2>4. Patched(r, row) \in RowType
      BY <2>1, <2>3 DEF Patched, RowType, WriterType
    <2>5. Alters(q, row, Patched(r, row))
      BY <2>1, <2>3 DEF Alters, Patched, RowType
    <2> QED BY <2>2, <2>3, <2>4, <2>5 DEF Updates
  <1>4. CASE DeleteRow(r)
    BY <1>4 DEF DeleteRow
  <1>5. CASE SignTokens(r) \/ LookupRow(r) \/ FetchRow(r) \/ LoadRow(r) \/ CacheKey(r) \/ FindRow(r)
             \/ ForgetKey(r) \/ Abort(r)
    BY <1>5 DEF SignTokens, LookupRow, FetchRow, LoadRow, CacheKey, FindRow, ForgetKey, Abort
  <1> QED BY <1>1, <1>2, <1>3, <1>4, <1>5 DEF Step

\* What a step adds to the cached keys and to the clients' tokens is its request's.
LEMMA StepTokens ==
    ASSUME TypeOK, NEW r \in Requests, Step(r) \/ Abort(r)
    PROVE  /\ \A e \in acTokens' :
                e \in acTokens \/ (req[r].pc \in WriterPcs /\ e.user = req[r].user /\ e.key = req[r].pub)
           /\ \A t \in accesses' : t \in accesses \/ (req[r].pc \in WriterPcs /\ t = req[r].access)
           /\ \A t \in cookies' : t \in cookies \/ (req[r].pc \in WriterPcs /\ t = req[r].refresh)
  <1>1. CASE CacheKey(r)
    BY <1>1 DEF CacheKey, SetAcToken, Token, WriterPcs
  <1>2. CASE ForgetKey(r)
    BY <1>2 DEF ForgetKey
  <1>3. CASE Abort(r)
    BY <1>3 DEF Abort, WriterPcs
  <1>4. CASE SignTokens(r) \/ LookupRow(r) \/ CreateRow(r) \/ FetchRow(r) \/ LoadRow(r) \/ FlushRow(r)
             \/ InsertRow(r) \/ FindRow(r) \/ DeleteRow(r)
    BY <1>4 DEF SignTokens, LookupRow, CreateRow, FetchRow, LoadRow, FlushRow, InsertRow, FindRow,
                DeleteRow
  <1> QED BY <1>1, <1>2, <1>3, <1>4 DEF Step

-----------------------------------------------------------------------------
(* A key belongs to the user whose login drew it.                          *)

Signed == \A r \in Requests : SignedFor(req[r])

\* A row that has lost its user still has its user's refresh token.
RowsOwned == \A row \in keyTokens : row.user \in {NoUser, row.refresh.user}

\* The row that a request holds is its user's, also after it was deleted: save() inserts it
\* again under the same id.
RowHeld ==
    \A r \in Requests : req[r] # Idle /\ req[r].row # NoRow =>
        /\ \A row \in keyTokens : row.id = req[r].row => row.refresh.user = req[r].user
        /\ \A s \in Requests :
             req[s] # Idle /\ req[s].row = req[r].row => req[s].user = req[r].user

\* The primary key and the unique user of the table.
UniqueRows ==
    \A a, b \in keyTokens : a.id = b.id \/ (a.user = b.user /\ a.user # NoUser) => a = b

\* Who has a key: in a token or a cached key, in a row, in a login or refresh in flight.
TokenHas(S, u, k) == \E t \in S : t.user = u /\ t.key = k

RowHas(row, u, k) == row.refresh.user = u /\ k \in {row.pub, row.priv, row.refresh.key}

StoreHas(u, k) ==
    \/ TokenHas(acTokens, u, k) \/ TokenHas(accesses, u, k) \/ TokenHas(cookies, u, k)
    \/ \E row \in keyTokens : RowHas(row, u, k)

HasOf(q, u, k) == q.pc \in WriterPcs /\ q.user = u /\ k \in {q.pub, q.priv}

RequestHas(u, k) == \E r \in Requests : HasOf(req[r], u, k)

Has(u, k) == StoreHas(u, k) \/ RequestHas(u, k)

\* KeysBelongToOneUser is not inductive: keys also pass through rows and requests, and from
\* them into tokens.
OneOwner == \A u, v \in Users, k \in Keys : Has(u, k) /\ Has(v, k) => u = v

OwnerInv == Signed /\ RowsOwned /\ RowHeld /\ UniqueRows /\ OneOwner

\* How a request begins: with keys that nobody knows, or those of its user's row.
LEMMA StartShape ==
    ASSUME TypeOK, NEW r \in Requests, NEW u \in Users, Start(r, u)
    PROVE  /\ \E t \in ReqType :
                /\ Begin(r, u, t) /\ t # Idle /\ t.user = u /\ t.row = NoRow /\ SignedFor(t)
                /\ t.pc \in {"lookup", "sign", "find"}
                /\ t.pc \in WriterPcs =>
                     \/ t.pub = t.priv /\ t.pub \in Keys \ LiveKeys
                     \/ \E row \in StoreOf(u) : t.pub = row.pub /\ t.priv = row.priv
           /\ UNCHANGED <<keyTokens, acTokens, accesses, cookies>>
  <1>1. CASE StartLogin(r, u)
    <2>1. PICK k \in Keys \ LiveKeys : Begin(r, u, Writer("lookup", u, k, k))
      BY <1>1 DEF StartLogin
    <2>2. PICK t : t = Writer("lookup", u, k, k)
      OBVIOUS
    <2>3. t \in ReqType
      BY <2>2, WriterIsTyped DEF WriterPcs, ReqType
    <2>4. /\ t.user = u /\ t.row = NoRow /\ SignedFor(t) /\ t.pc = "lookup" /\ t # Idle
          /\ t.pub = k /\ t.priv = k
      BY <2>2 DEF Writer, SignedFor, Token, Idle
    <2> QED BY <1>1, <2>1, <2>2, <2>3, <2>4 DEF StartLogin
  <1>2. CASE StartRefresh(r, u)
    <2>1. PICK row \in StoreOf(u) : Begin(r, u, Writer("sign", u, row.pub, row.priv))
      BY <1>2 DEF StartRefresh
    <2>2. PICK t : t = Writer("sign", u, row.pub, row.priv)
      OBVIOUS
    <2>3. row.pub \in Keys /\ row.priv \in Keys
      BY DEF StoreOf, TypeOK, RowType
    <2>4. t \in ReqType
      BY <2>2, <2>3, WriterIsTyped DEF WriterPcs, ReqType
    <2>5. /\ t.user = u /\ t.row = NoRow /\ SignedFor(t) /\ t.pc = "sign" /\ t # Idle
          /\ t.pub = row.pub /\ t.priv = row.priv
      BY <2>2 DEF Writer, SignedFor, Token, Idle
    <2> QED BY <1>2, <2>1, <2>2, <2>4, <2>5 DEF StartRefresh
  <1>3. CASE StartLogout(r, u)
    <2>1. PICK t : t = [pc |-> "find", user |-> u, row |-> NoRow]
      OBVIOUS
    <2>2. Begin(r, u, t) /\ t \in ReqType
      BY <1>3, <2>1 DEF StartLogout, ReqType, LeaverType
    <2>3. t.user = u /\ t.row = NoRow /\ t.pc = "find" /\ t # Idle /\ t.pc \notin WriterPcs
      BY <2>1 DEF Idle, WriterPcs
    <2> QED BY <1>3, <2>2, <2>3 DEF StartLogout, SignedFor
  <1> QED BY <1>1, <1>2, <1>3 DEF Start

\* A key that nobody knows is had by nobody.
LEMMA LiveKeysHad ==
    ASSUME TypeOK, NEW u \in Users, NEW k \in Keys, Has(u, k)
    PROVE  k \in LiveKeys
  <1>1. CASE \E row \in keyTokens : RowHas(row, u, k)
    BY <1>1 DEF RowHas, LiveKeys
  <1>2. CASE TokenHas(acTokens, u, k) \/ TokenHas(accesses, u, k) \/ TokenHas(cookies, u, k)
    <2>1. CASE TokenHas(acTokens, u, k)
      BY <2>1 DEF TokenHas, LiveKeys
    <2>2. CASE \E t \in accesses \cup cookies : t.key = k
      BY <2>2 DEF LiveKeys
    <2> QED BY <1>2, <2>1, <2>2 DEF TokenHas
  <1>3. CASE RequestHas(u, k)
    <2>1. PICK r \in Requests : HasOf(req[r], u, k)
      BY <1>3 DEF RequestHas
    <2>2. r \in Writers /\ k \in {req[r].pub, req[r].priv}
      BY <2>1, PcTellsKind DEF HasOf
    <2>3. k \in UNION {{req[s].pub, req[s].priv} : s \in Writers}
      BY <2>2
    <2> QED BY <2>3 DEF LiveKeys
  <1> QED BY <1>1, <1>2, <1>3 DEF Has, StoreHas

\* What a request's step puts into the stores its user had.
LEMMA StoresKnow ==
    ASSUME TypeOK, RowFetched, Signed, RowHeld, NEW r \in Requests, Step(r) \/ Abort(r),
           NEW u, NEW k, StoreHas(u, k)'
    PROVE  Has(u, k)
  <1> DEFINE q == req[r]
  <1>1. SignedFor(q)
    BY DEF Signed
  <1>2. ASSUME q.pc \in WriterPcs, u = q.user, k \in {q.pub, q.priv} PROVE Has(u, k)
    BY <1>2 DEF Has, RequestHas, HasOf
  <1>3. CASE TokenHas(acTokens, u, k)'
    BY <1>2, <1>3, StepTokens DEF TokenHas, Has, StoreHas
  <1>4. CASE TokenHas(accesses, u, k)'
    BY <1>1, <1>2, <1>4, StepTokens DEF TokenHas, Has, StoreHas, SignedFor
  <1>5. CASE TokenHas(cookies, u, k)'
    BY <1>1, <1>2, <1>5, StepTokens DEF TokenHas, Has, StoreHas, SignedFor
  <1>6. CASE \E row \in keyTokens' : RowHas(row, u, k)
    <2>1. PICK row \in keyTokens' : RowHas(row, u, k)
      BY <1>6
    <2>2. CASE row \in keyTokens
      BY <2>1, <2>2 DEF Has, StoreHas
    <2>3. CASE row \notin keyTokens
      <3>1. \/ Inserts(q, row)
            \/ \E old \in keyTokens : Updates(q, old, row)
        BY <2>1, <2>3, StepRows DEF Inserts, Updates
      <3>2. CASE Inserts(q, row)
        BY <1>1, <1>2, <2>1, <3>2 DEF Inserts, Adds, RowHas, SignedFor
      <3>3. CASE \E old \in keyTokens : Updates(q, old, row)
        <4>1. PICK old \in keyTokens : Alters(q, old, row)
          BY <3>3 DEF Updates
        <4>2. q # Idle /\ q.row # NoRow /\ old.refresh.user = q.user
          BY <4>1, StepMoves DEF Alters, RowHeld, TypeOK, RowType
        <4>3. q.refresh.user = q.user /\ q.refresh.key = q.priv
          BY <1>1, <4>1 DEF Alters, SignedFor
        <4>4. u = q.user /\ (RowHas(old, u, k) \/ k \in {q.pub, q.priv})
          BY <2>1, <4>1, <4>2, <4>3 DEF Alters, RowHas
        <4> QED BY <1>2, <4>1, <4>4 DEF Alters, Has, StoreHas
      <3> QED BY <3>1, <3>2, <3>3
    <2> QED BY <2>2, <2>3
  <1> QED BY <1>3, <1>4, <1>5, <1>6 DEF StoreHas

LEMMA RequestsKnow ==
    ASSUME TypeOK, NEW r \in Requests, Step(r) \/ Abort(r), NEW u, NEW k, RequestHas(u, k)'
    PROVE  RequestHas(u, k)
  <1>1. PICK t : Turns(r, t) /\ Moves(req[r], t)
    BY StepMoves
  <1>2. PICK s \in Requests : HasOf(req'[s], u, k)
    BY DEF RequestHas
  <1>3. CASE s # r
    BY <1>1, <1>2, <1>3, TurnFacts DEF RequestHas
  <1>4. CASE s = r
    <2>1. HasOf(t, u, k) /\ t # Idle
      BY <1>1, <1>2, <1>4, TurnFacts DEF HasOf, Idle, WriterPcs
    <2>2. HasOf(req[r], u, k)
      BY <1>1, <2>1 DEF Moves, HasOf
    <2> QED BY <2>2 DEF RequestHas
  <1> QED BY <1>3, <1>4

LEMMA StepUnique ==
    ASSUME TypeOK, RowFetched, UniqueRows, NEW r \in Requests, Step(r) \/ Abort(r)
    PROVE  UniqueRows'
  <1>1. CASE keyTokens' \subseteq keyTokens
    BY <1>1 DEF UniqueRows
  <1>2. ASSUME NEW row \in RowType, Inserts(req[r], row) PROVE UniqueRows'
    BY <1>2 DEF Inserts, Clash, UniqueRows
  <1>3. ASSUME NEW row \in keyTokens, NEW new \in RowType, Updates(req[r], row, new) PROVE UniqueRows'
    BY <1>3 DEF Updates, Clash, UniqueRows
  <1> QED BY <1>1, <1>2, <1>3, StepRows

LEMMA StepOwner ==
    ASSUME TypeOK, RowFetched, OwnerInv, NEW r \in Requests, Step(r) \/ Abort(r)
    PROVE  OwnerInv'
  <1> USE DEF OwnerInv
  <1> DEFINE q == req[r]
  <1>1. PICK t : Turns(r, t) /\ Moves(q, t)
    BY StepMoves
  <1>2. q # Idle /\ req'[r] = t /\ \A s \in Requests : s # r => req'[s] = req[s]
    BY <1>1, StepMoves, TurnFacts
  <1>3. Signed'
    <2>1. SignedFor(t)
      BY <1>1 DEF Moves, Signed, SignedFor, Idle, WriterPcs
    <2>2. \A s \in Requests : SignedFor(req'[s])
      BY <1>2, <2>1 DEF Signed
    <2> QED BY <2>2 DEF Signed, SignedFor
  <1>4. ASSUME NEW row \in keyTokens', row \notin keyTokens
        PROVE  /\ row.user \in {NoUser, row.refresh.user}
               /\ row.refresh.user = q.user
               /\ row.id \notin LiveRows \/ row.id = q.row
    <2>1. Inserts(q, row) \/ \E old \in keyTokens : Updates(q, old, row)
      BY <1>4, StepRows DEF Inserts, Updates
    <2>2. CASE Inserts(q, row)
      BY <2>2 DEF Inserts, Adds, Signed, SignedFor
    <2>3. CASE \E old \in keyTokens : Updates(q, old, row)
      <3>1. PICK old \in keyTokens : Alters(q, old, row)
        BY <2>3 DEF Updates
      <3>2. old.refresh.user = q.user
        BY <1>2, <3>1 DEF Alters, RowHeld, TypeOK, RowType
      <3>3. row.refresh.user = q.user
        BY <3>1, <3>2 DEF Alters, Signed, SignedFor
      <3> QED BY <3>1, <3>2, <3>3 DEF Alters, RowsOwned
    <2> QED BY <2>1, <2>2, <2>3
  <1>5. RowsOwned'
    BY <1>4 DEF RowsOwned
  \* Every request that holds a row by then has held it, or finds its user's.
  <1>6. ASSUME NEW s \in Requests, req'[s] # Idle, req'[s].row # NoRow
        PROVE  /\ req[s] # Idle /\ req'[s].user = req[s].user
               /\ \/ req'[s].row = req[s].row
                  \/ s = r /\ \E row \in keyTokens : req'[s].row = row.id /\ row.refresh.user = req[s].user
    <2>1. CASE s # r
      BY <1>2, <1>6, <2>1
    <2>2. CASE s = r
      <3>1. t # Idle /\ t.row # NoRow
        BY <1>2, <1>6, <2>2
      <3>2. /\ t.user = q.user
            /\ t.row = q.row \/ \E row \in StoreOf(q.user) : t.row = row.id
        BY <1>1, <3>1 DEF Moves
      <3>3. q.user \in Users
        BY <1>2 DEF TypeOK, WriterType, LeaverType
      <3>4. \A row \in StoreOf(q.user) : row \in keyTokens /\ row.refresh.user = q.user
        BY <3>3 DEF StoreOf, RowsOwned
      <3> QED BY <1>2, <2>2, <3>2, <3>4
    <2> QED BY <2>1, <2>2
  <1>7. ASSUME NEW s \in Requests, req'[s] # Idle, req'[s].row # NoRow,
               NEW row \in keyTokens', row.id = req'[s].row
        PROVE  row.refresh.user = req'[s].user
    <2>1. CASE row \in keyTokens
      BY <1>6, <1>7, <2>1 DEF RowHeld, UniqueRows
    <2>2. CASE row \notin keyTokens
      <3>1. row.refresh.user = q.user /\ (row.id \notin LiveRows \/ row.id = q.row)
        BY <1>4, <2>2
      <3>2. req[s] # Idle /\ req'[s].user = req[s].user
        BY <1>6, <1>7
      <3>3. CASE s # r
        <4>1. req[s].row = row.id
          BY <1>2, <1>7, <3>3
        <4>2. row.id \in LiveRows
          BY <3>2, <4>1 DEF LiveRows, InFlight
        <4>3. req[s].row = q.row /\ q.row # NoRow
          BY <1>2, <1>7, <3>1, <3>3, <4>1, <4>2
        <4> QED BY <1>2, <3>1, <3>2, <4>3 DEF RowHeld
      <3> QED BY <3>1, <3>2, <3>3
    <2> QED BY <2>1, <2>2
  <1>8. ASSUME NEW s \in Requests, NEW x \in Requests, req'[s] # Idle, req'[s].row # NoRow,
               req'[x] # Idle, req'[x].row = req'[s].row
        PROVE  req'[x].user = req'[s].user
    <2>1. CASE s # r /\ x # r
      BY <1>2, <1>8, <2>1 DEF RowHeld
    <2>2. CASE s = r /\ x # r
      BY <1>2, <1>6, <1>8, <2>2 DEF RowHeld
    <2>3. CASE s # r /\ x = r
      BY <1>2, <1>6, <1>8, <2>3 DEF RowHeld
    <2> QED BY <2>1, <2>2, <2>3
  <1>9. RowHeld'
    BY <1>7, <1>8 DEF RowHeld
  <1>10. UniqueRows'
    BY StepUnique
  <1>11. ASSUME NEW u \in Users, NEW k \in Keys, Has(u, k)' PROVE Has(u, k)
    BY <1>11, StoresKnow, RequestsKnow DEF Has
  <1>12. OneOwner'
    BY <1>11 DEF OneOwner
  <1> QED BY <1>3, <1>5, <1>9, <1>10, <1>12

LEMMA StartOwner ==
    ASSUME TypeOK, OwnerInv, NEW r \in Requests, NEW u \in Users, Start(r, u)
    PROVE  OwnerInv'
  <1> USE DEF OwnerInv
  <1>1. PICK t \in ReqType :
            /\ Begin(r, u, t) /\ t # Idle /\ t.user = u /\ t.row = NoRow /\ SignedFor(t)
            /\ t.pc \in WriterPcs =>
                 \/ t.pub = t.priv /\ t.pub \in Keys \ LiveKeys
                 \/ \E row \in StoreOf(u) : t.pub = row.pub /\ t.priv = row.priv
    BY StartShape
  <1>2. UNCHANGED <<keyTokens, acTokens, accesses, cookies>>
    BY StartShape
  <1>3. req'[r] = t /\ \A s \in Requests : s # r => req'[s] = req[s]
    BY <1>1, TurnFacts DEF Begin, Turns
  <1>4. Signed'
    <2>1. \A s \in Requests : SignedFor(req'[s])
      BY <1>1, <1>3 DEF Signed
    <2> QED BY <2>1 DEF Signed, SignedFor
  <1>5. RowsOwned' /\ UniqueRows'
    BY <1>2 DEF RowsOwned, UniqueRows
  <1>6. RowHeld'
    BY <1>1, <1>2, <1>3 DEF RowHeld
  \* Only a login brings a key that its user did not have, and that nobody had.
  <1>7. ASSUME NEW v \in Users, NEW k \in Keys, Has(v, k)', ~Has(v, k)
        PROVE  v = u /\ k \notin LiveKeys /\ t.pc \in WriterPcs /\ k = t.pub /\ k = t.priv
    <2>1. StoreHas(v, k)' = StoreHas(v, k)
      BY <1>2 DEF StoreHas, TokenHas
    <2>2. HasOf(t, v, k)
      BY <1>3, <1>7, <2>1 DEF Has, RequestHas, HasOf
    <2>3. ASSUME NEW row \in StoreOf(u), t.pub = row.pub, t.priv = row.priv PROVE FALSE
      <3>1. row \in keyTokens /\ row.refresh.user = u
        BY DEF StoreOf, RowsOwned
      <3>2. RowHas(row, v, k)
        BY <1>1, <2>2, <2>3, <3>1 DEF RowHas, HasOf
      <3> QED BY <1>7, <3>1, <3>2 DEF Has, StoreHas
    <2> QED BY <1>1, <2>2, <2>3 DEF HasOf
  <1>8. OneOwner'
    <2> SUFFICES ASSUME NEW v \in Users, NEW w \in Users, NEW k \in Keys, Has(v, k)', Has(w, k)'
                 PROVE  v = w
      BY DEF OneOwner
    <2>1. CASE Has(v, k) /\ Has(w, k)
      BY <2>1 DEF OneOwner
    <2>2. CASE ~Has(v, k) /\ ~Has(w, k)
      BY <1>7, <2>2
    <2>3. CASE ~Has(v, k) /\ Has(w, k)
      BY <1>7, <2>3, LiveKeysHad
    <2>4. CASE Has(v, k) /\ ~Has(w, k)
      BY <1>7, <2>4, LiveKeysHad
    <2> QED BY <2>1, <2>2, <2>3, <2>4
  <1> QED BY <1>4, <1>5, <1>6, <1>8

\* The clock changes no user, no key and no id.
Ages(q, t) ==
    /\ t.pc = q.pc /\ (t = Idle <=> q = Idle)
    /\ q # Idle => t.user = q.user /\ t.row = q.row
    /\ q.pc \in WriterPcs =>
         /\ t.pub = q.pub /\ t.priv = q.priv /\ t.dirty = q.dirty
         /\ t.access = Older(q.access) /\ t.refresh = Older(q.refresh)

LEMMA TickRequests ==
    ASSUME TypeOK, Tick, NEW r \in Requests
    PROVE  Ages(req[r], req'[r])
  <1>1. CASE r \in Writers
    <2>1. req[r] \in WriterType /\ req'[r] = [req[r] EXCEPT !.access = Older(@), !.refresh = Older(@)]
      BY <1>1, PcTellsKind DEF Tick
    <2>2. req'[r].pc = req[r].pc /\ req[r] # Idle /\ req[r].pc \in WriterPcs
      BY <2>1, PcTellsKind DEF WriterType, Idle
    <2>3. req'[r] # Idle
      BY <2>2 DEF Idle, WriterPcs
    <2> QED BY <2>1, <2>2, <2>3 DEF WriterType, Ages
  <1>2. CASE r \notin Writers
    <2>1. req'[r] = req[r] /\ req[r].pc \notin WriterPcs
      BY <1>2, PcTellsKind DEF Tick
    <2> QED BY <2>1 DEF Ages
  <1> QED BY <1>1, <1>2

LEMMA TickRows ==
    ASSUME TypeOK, Tick
    PROVE  /\ \A row \in keyTokens' :
                \E old \in keyTokens :
                    /\ row = [old EXCEPT !.refresh = Older(@)]
                    /\ row.id = old.id /\ row.user = old.user /\ row.pub = old.pub /\ row.priv = old.priv
                    /\ row.refresh = Older(old.refresh)
                    /\ row.refresh.user = old.refresh.user /\ row.refresh.key = old.refresh.key
           /\ \A old \in keyTokens :
                \E row \in keyTokens' :
                    /\ row.id = old.id /\ row.user = old.user /\ row.pub = old.pub /\ row.priv = old.priv
                    /\ row.refresh = Older(old.refresh)
                    /\ row.refresh.user = old.refresh.user /\ row.refresh.key = old.refresh.key
  <1>1. ASSUME NEW old \in keyTokens, NEW row, row = [old EXCEPT !.refresh = Older(@)]
        PROVE  /\ row.id = old.id /\ row.user = old.user /\ row.pub = old.pub /\ row.priv = old.priv
               /\ row.refresh = Older(old.refresh)
               /\ row.refresh.user = old.refresh.user /\ row.refresh.key = old.refresh.key
    <2>1. old \in RowType /\ old.refresh \in TokenType
      BY DEF TypeOK, RowType
    <2>2. /\ row.id = old.id /\ row.user = old.user /\ row.pub = old.pub /\ row.priv = old.priv
          /\ row.refresh = Older(old.refresh)
      BY <1>1, <2>1 DEF RowType
    <2> QED BY <2>1, <2>2, OlderType
  <1>2. keyTokens' = {[row EXCEPT !.refresh = Older(@)] : row \in keyTokens}
    BY DEF Tick
  <1>3. \A row \in keyTokens' : \E old \in keyTokens : row = [old EXCEPT !.refresh = Older(@)]
    BY <1>2
  <1>4. \A old \in keyTokens : \E row \in keyTokens' : row = [old EXCEPT !.refresh = Older(@)]
    BY <1>2
  <1> QED BY <1>1, <1>3, <1>4

LEMMA AgedFrom ==
    ASSUME NEW S \in SUBSET TokenType, NEW t \in Unexpired({Older(e) : e \in S})
    PROVE  \E e \in S : t.user = e.user /\ t.key = e.key
  BY OlderType DEF Unexpired

LEMMA TickTokens ==
    ASSUME TypeOK, Tick
    PROVE  /\ \A t \in acTokens' : \E e \in acTokens : t.user = e.user /\ t.key = e.key
           /\ \A t \in accesses' : \E e \in accesses : t.user = e.user /\ t.key = e.key
           /\ \A t \in cookies' : \E e \in cookies : t.user = e.user /\ t.key = e.key
  <1>1. /\ acTokens \in SUBSET TokenType /\ accesses \in SUBSET TokenType
        /\ cookies \in SUBSET TokenType
    BY DEF TypeOK
  <1>2. \A t \in acTokens' : \E e \in acTokens : t.user = e.user /\ t.key = e.key
    BY <1>1, AgedFrom DEF Tick
  <1>3. \A t \in accesses' : \E e \in accesses : t.user = e.user /\ t.key = e.key
    BY <1>1, AgedFrom DEF Tick
  <1>4. \A t \in cookies' : \E e \in cookies : t.user = e.user /\ t.key = e.key
    BY <1>1, AgedFrom DEF Tick
  <1> QED BY <1>2, <1>3, <1>4

LEMMA TickOwner ==
    ASSUME TypeOK, OwnerInv, Tick
    PROVE  OwnerInv'
  <1> USE DEF OwnerInv
  <1>1. Signed'
    <2>1. ASSUME NEW r \in Requests PROVE SignedFor(req'[r])
      <3>1. SignedFor(req[r]) /\ Ages(req[r], req'[r])
        BY TickRequests DEF Signed
      <3>2. CASE req[r].pc \in WriterPcs
        <4>1. req[r].access \in TokenType /\ req[r].refresh \in TokenType
          BY <3>2, PcTellsKind DEF WriterType
        <4>2. req[r] # Idle
          BY <3>2 DEF Idle, WriterPcs
        <4> QED BY <3>1, <3>2, <4>1, <4>2, OlderType DEF Ages, SignedFor
      <3> QED BY <3>1, <3>2 DEF Ages, SignedFor
    <2> QED BY <2>1 DEF Signed, SignedFor
  <1>2. RowsOwned'
    BY TickRows DEF RowsOwned
  <1>3. RowHeld'
    <2>1. \A r \in Requests : /\ req'[r] = Idle <=> req[r] = Idle
                              /\ req[r] # Idle => req'[r].user = req[r].user /\ req'[r].row = req[r].row
      BY TickRequests DEF Ages
    <2>2. \A row \in keyTokens' : \E old \in keyTokens :
              row.id = old.id /\ row.refresh.user = old.refresh.user
      BY TickRows
    <2> QED BY <2>1, <2>2 DEF RowHeld
  <1>4. UniqueRows'
    <2> SUFFICES ASSUME NEW a \in keyTokens', NEW b \in keyTokens',
                        a.id = b.id \/ (a.user = b.user /\ a.user # NoUser)
                 PROVE  a = b
      BY DEF UniqueRows
    <2>1. PICK c \in keyTokens :
              a = [c EXCEPT !.refresh = Older(@)] /\ a.id = c.id /\ a.user = c.user
      BY TickRows
    <2>2. PICK d \in keyTokens :
              b = [d EXCEPT !.refresh = Older(@)] /\ b.id = d.id /\ b.user = d.user
      BY TickRows
    <2>3. c = d
      BY <2>1, <2>2 DEF UniqueRows
    <2> QED BY <2>1, <2>2, <2>3
  <1>5. ASSUME NEW u \in Users, NEW k \in Keys, Has(u, k)' PROVE Has(u, k)
    <2>1. CASE TokenHas(acTokens, u, k)'
      BY <2>1, TickTokens DEF TokenHas, Has, StoreHas
    <2>2. CASE TokenHas(accesses, u, k)'
      BY <2>2, TickTokens DEF TokenHas, Has, StoreHas
    <2>3. CASE TokenHas(cookies, u, k)'
      BY <2>3, TickTokens DEF TokenHas, Has, StoreHas
    <2>4. CASE \E row \in keyTokens' : RowHas(row, u, k)
      <3>1. PICK row \in keyTokens' : RowHas(row, u, k)
        BY <2>4
      <3>2. PICK old \in keyTokens :
                /\ row.pub = old.pub /\ row.priv = old.priv
                /\ row.refresh.user = old.refresh.user /\ row.refresh.key = old.refresh.key
        BY TickRows
      <3>3. RowHas(old, u, k)
        BY <3>1, <3>2 DEF RowHas
      <3> QED BY <3>3 DEF Has, StoreHas
    <2>5. CASE RequestHas(u, k)'
      <3>1. PICK r \in Requests : HasOf(req'[r], u, k)
        BY <2>5 DEF RequestHas
      <3>2. HasOf(req[r], u, k)
        <4>1. req'[r].pc = req[r].pc /\ req[r].pc \in WriterPcs /\ req[r] # Idle
          BY <3>1, TickRequests DEF Ages, HasOf, Idle, WriterPcs
        <4> QED BY <3>1, <4>1, TickRequests DEF Ages, HasOf
      <3> QED BY <3>2 DEF Has, RequestHas
    <2> QED BY <1>5, <2>1, <2>2, <2>3, <2>4, <2>5 DEF Has, StoreHas
  <1>6. OneOwner'
    BY <1>5 DEF OneOwner
  <1> QED BY <1>1, <1>2, <1>3, <1>4, <1>6

LEMMA OwnerStep ==
    ASSUME TypeOK, RowFetched, OwnerInv, [Next]_vars
    PROVE  OwnerInv'
  <1>1. CASE UNCHANGED vars
    BY <1>1 DEF vars, OwnerInv, Signed, RowsOwned, RowHeld, UniqueRows, OneOwner, Has, StoreHas,
                TokenHas, RequestHas
  <1>2. CASE Next
    BY <1>2, StartOwner, StepOwner, TickOwner DEF Next
  <1> QED BY <1>1, <1>2

LEMMA OwnerInvariance == Spec => []OwnerInv
  <1>1. Init => OwnerInv
    BY DEF Init, OwnerInv, Signed, SignedFor, RowsOwned, RowHeld, UniqueRows, OneOwner, Has,
           StoreHas, TokenHas, RequestHas, HasOf, Idle, WriterPcs
  <1>2. TypeOK /\ RowFetched /\ OwnerInv /\ [Next]_vars => OwnerInv'
    BY OwnerStep
  <1> QED BY <1>1, <1>2, TypeCorrect, PTL DEF Spec

\* KeysBelongToOneUser: no key ever comes to two users, through however many logins,
\* refreshes, rows that lost their user and tokens that outlived their session.
THEOREM KeysStayWithTheirUser == Spec => []KeysBelongToOneUser
  <1>1. TypeOK /\ OwnerInv => KeysBelongToOneUser
    <2> SUFFICES ASSUME TypeOK, OwnerInv PROVE KeysBelongToOneUser
      OBVIOUS
    <2>1. ASSUME NEW e \in acTokens, NEW t \in accesses, t.key = e.key PROVE t.user = e.user
      <3>1. t.user \in Users /\ e.user \in Users /\ e.key \in Keys
        BY DEF TypeOK, TokenType
      <3>2. Has(e.user, e.key) /\ Has(t.user, e.key)
        BY <2>1 DEF Has, StoreHas, TokenHas
      <3> QED BY <3>1, <3>2 DEF OwnerInv, OneOwner
    <2>2. ASSUME NEW row \in keyTokens, NEW t \in cookies, row.user # NoUser, t.key = row.priv
          PROVE  t.user = row.user
      <3>1. t.user \in Users /\ row.user \in Users /\ row.priv \in Keys /\ row.user = row.refresh.user
        BY <2>2 DEF TypeOK, TokenType, RowType, OwnerInv, RowsOwned
      <3>2. Has(row.user, row.priv)
        BY <3>1 DEF Has, StoreHas, RowHas
      <3>3. Has(t.user, row.priv)
        BY <2>2 DEF Has, StoreHas, TokenHas
      <3> QED BY <3>1, <3>2, <3>3 DEF OwnerInv, OneOwner
    <2> QED BY <2>1, <2>2 DEF KeysBelongToOneUser
  <1> QED BY <1>1, TypeCorrect, OwnerInvariance, PTL

-----------------------------------------------------------------------------
(* An undisturbed request leaves both stores as it says.                   *)

\* The columns that differ are on their way into the row.
Saved(q, row) ==
    /\ "publicKey" \notin q.dirty => row.pub = q.pub
    /\ "privateKey" \notin q.dirty => row.priv = q.priv
    /\ "refreshToken" \notin q.dirty => row.refresh = q.refresh

\* What a request of u that overlaps no other has behind it. Its row cannot go between the
\* queries of save(), so that it never comes to insert.
Solo(q, u) ==
    /\ q.pc # "insert"
    /\ q.pc = "load" => \E row \in StoreOf(u) : row.id = q.row
    /\ q.pc = "flush" => \E row \in StoreOf(u) : row.id = q.row /\ Saved(q, row)
    /\ q.pc = "cache" =>
         \E row \in StoreOf(u) : row.pub = q.pub /\ row.priv = q.priv /\ row.refresh.key = row.priv
    /\ q.pc = "delete" => \A row \in StoreOf(u) : row.id = q.row
    /\ q.pc = "forget" => StoreOf(u) = {}

Alone ==
    \A r \in Requests, u \in Users :
        req[r] # Idle /\ req[r].user = u /\ r \notin contended => Solo(req[r], u)

\* Of requests that overlap, every one knows.
Overlaps ==
    \A r, s \in Requests :
        r # s /\ req[r] # Idle /\ req[s] # Idle /\ req[r].user = req[s].user => r \in contended

\* What QuietStoresAgree says of u.
Agree(u) ==
    /\ phase[u] = "signedOut" =>
          /\ StoreOf(u) = {}
          /\ \A e \in acTokens : e.user # u
    /\ phase[u] = "signedIn" =>
          \E row \in StoreOf(u) :
              /\ row.refresh.key = row.priv
              /\ \A e \in acTokens : e.user = u => e.key = row.pub

Settled ==
    \A u \in Users : (\A r \in Requests : req[r] # Idle => req[r].user # u) => Agree(u)

QuietInv == Overlaps /\ Alone /\ Settled

LEMMA SettledIsQuiet == Settled => QuietStoresAgree
  BY DEF Settled, Agree, QuietStoresAgree, InFlightOf, InFlight

\* Nothing of u has changed, but that a cached key may have gone.
Same(u) ==
    /\ \A row \in keyTokens' : row.user = u => row \in keyTokens
    /\ \A row \in keyTokens : row.user = u => row \in keyTokens'
    /\ \A e \in acTokens' : e.user = u => e \in acTokens

LEMMA SameStore ==
    ASSUME NEW u, Same(u)
    PROVE  StoreOf(u)' = StoreOf(u)
  BY DEF Same, StoreOf

LEMMA SameAgree ==
    ASSUME NEW u \in Users, Same(u), phase'[u] = phase[u], Agree(u)
    PROVE  Agree(u)'
  <1>1. StoreOf(u)' = StoreOf(u) /\ \A e \in acTokens' : e.user = u => e \in acTokens
    BY SameStore DEF Same
  <1> QED BY <1>1 DEF Agree

LEMMA SameSolo ==
    ASSUME NEW u \in Users, NEW r \in Requests, Same(u), req'[r] = req[r], Solo(req[r], u)
    PROVE  Solo(req[r], u)'
  <1>1. StoreOf(u)' = StoreOf(u)
    BY SameStore
  <1> QED BY <1>1 DEF Solo, Saved

\* A request touches nothing of other users: the rows it holds by their ids are its user's.
LEMMA StepSame ==
    ASSUME TypeOK, RowFetched, OwnerInv, NEW r \in Requests, Step(r) \/ Abort(r),
           NEW u \in Users, req[r].user # u
    PROVE  Same(u)
  <1> USE DEF OwnerInv
  <1> DEFINE q == req[r]
  <1>1. q # Idle
    BY StepMoves
  <1>2. ASSUME NEW row \in keyTokens, row.user = u, row.id = q.row PROVE FALSE
    <2>1. row.id \in RowIds /\ row.refresh.user = u
      BY <1>2 DEF TypeOK, RowType, RowsOwned
    <2>2. q.row # NoRow
      BY <1>2, <2>1
    <2> QED BY <1>1, <1>2, <2>1, <2>2 DEF RowHeld
  <1>3. ASSUME NEW row \in keyTokens', row.user = u, row \notin keyTokens PROVE FALSE
    <2>1. Inserts(q, row) \/ \E old \in keyTokens : Updates(q, old, row)
      BY <1>3, StepRows DEF Inserts, Updates
    <2>2. CASE Inserts(q, row)
      BY <1>3, <2>2 DEF Inserts, Adds
    <2>3. CASE \E old \in keyTokens : Updates(q, old, row)
      BY <1>2, <1>3, <2>3 DEF Updates, Alters
    <2> QED BY <2>1, <2>2, <2>3
  <1>4. ASSUME NEW row \in keyTokens, row.user = u, row \notin keyTokens' PROVE FALSE
    <2>1. \/ \E old \in keyTokens, new \in RowType : Updates(q, old, new)
          \/ keyTokens' = keyTokens \ RowWithId(q.row)
      BY <1>4, StepRows DEF Inserts
    <2>2. row.id = q.row
      BY <1>4, <2>1 DEF Updates, Alters, RowWithId
    <2> QED BY <1>2, <1>4, <2>2
  <1>5. \A e \in acTokens' : e.user = u => e \in acTokens
    BY StepTokens
  <1> QED BY <1>3, <1>4, <1>5 DEF Same

\* What a request that overlaps no other has done so far, it still finds at its next step.
LEMMA StepSolo ==
    ASSUME TypeOK, RowFetched, OwnerInv, NEW r \in Requests, NEW u \in Users, req[r].user = u,
           req[r] # Idle, Solo(req[r], u), Step(r), req'[r] # Idle
    PROVE  Solo(req[r], u)'
  <1> USE DEF OwnerInv
  <1> DEFINE q == req[r]
             t == req'[r]
  <1>1. q \in WriterType => SignedFor(q) /\ q.pc \in WriterPcs
    BY PcTellsKind DEF Signed
  <1>2. CASE t.pc \in {"fetch", "create", "lookup", "sign", "find"}
    BY <1>2 DEF Solo
  <1>3. ASSUME CreateRow(r) PROVE Solo(req[r], u)'
    <2>1. q \in WriterType /\ q.pc \in WriterPcs
      BY <1>3, PcTellsKind DEF CreateRow, WriterPcs
    <2>2. ~End(r, "unknown")
      BY DEF End, TypeOK
    <2>3. PICK i \in RowIds \ LiveRows :
              LET row == [id |-> i, user |-> q.user, pub |-> q.pub, priv |-> q.priv, refresh |-> q.refresh]
              IN  keyTokens' = keyTokens \cup {row} /\ Goto(r, "cache")
      BY <1>3, <2>2 DEF CreateRow
    <2>4. PICK row : row = [id |-> i, user |-> q.user, pub |-> q.pub, priv |-> q.priv, refresh |-> q.refresh]
      OBVIOUS
    <2>5. t = [q EXCEPT !.pc = "cache"]
      BY <2>3 DEF Goto, TypeOK
    <2>6. t.pc = "cache" /\ t.pub = q.pub /\ t.priv = q.priv
      BY <2>1, <2>5 DEF WriterType
    <2>7. row \in StoreOf(u)' /\ row.pub = q.pub /\ row.priv = q.priv /\ row.refresh.key = row.priv
      BY <1>1, <2>1, <2>3, <2>4 DEF StoreOf, SignedFor
    <2> QED BY <2>6, <2>7 DEF Solo
  <1>4. ASSUME FetchRow(r) PROVE Solo(req[r], u)'
    <2>1. q \in WriterType
      BY <1>4, PcTellsKind DEF FetchRow, WriterPcs
    <2>2. ~End(r, "unknown")
      BY DEF End, TypeOK
    <2>3. PICK row \in StoreOf(u) : req' = [req EXCEPT ![r].pc = "load", ![r].row = row.id]
      BY <1>4, <2>2 DEF FetchRow
    <2>4. t = [q EXCEPT !.pc = "load", !.row = row.id] /\ keyTokens' = keyTokens
      BY <1>4, <2>3 DEF TypeOK, FetchRow
    <2>5. t.pc = "load" /\ t.row = row.id
      BY <2>1, <2>4 DEF WriterType
    <2> QED BY <2>3, <2>4, <2>5 DEF Solo, StoreOf
  <1>5. ASSUME LoadRow(r) PROVE Solo(req[r], u)'
    <2>1. q \in WriterType
      BY <1>5, PcTellsKind DEF LoadRow, WriterPcs
    <2>2. PICK own \in StoreOf(u) : own.id = q.row
      BY <1>5 DEF Solo, LoadRow
    <2>3. own \in RowWithId(q.row) /\ \A row \in RowWithId(q.row) : row = own
      BY <2>2 DEF StoreOf, RowWithId, UniqueRows
    <2>4. req' = [req EXCEPT ![r].pc = "flush", ![r].dirty = Differing(r, own)]
      BY <1>5, <2>3 DEF LoadRow
    <2>5. t = [q EXCEPT !.pc = "flush", !.dirty = Differing(r, own)] /\ keyTokens' = keyTokens
      BY <1>5, <2>4 DEF TypeOK, LoadRow
    <2>6. /\ t.pc = "flush" /\ t.row = q.row /\ t.pub = q.pub /\ t.priv = q.priv
          /\ t.refresh = q.refresh /\ t.dirty = Differing(r, own)
      BY <2>1, <2>5 DEF WriterType
    <2>7. Saved(t, own)
      BY <2>6 DEF Saved, Differing, Column
    <2>8. own \in StoreOf(u)'
      BY <2>2, <2>5 DEF StoreOf
    <2> QED BY <2>2, <2>6, <2>7, <2>8 DEF Solo, Saved
  <1>6. ASSUME FlushRow(r) PROVE Solo(req[r], u)'
    <2>1. q \in WriterType /\ q.pc \in WriterPcs
      BY <1>6, PcTellsKind DEF FlushRow, WriterPcs
    <2>2. PICK own \in StoreOf(u) : own.id = q.row /\ Saved(q, own)
      BY <1>6 DEF Solo, FlushRow
    <2>3. own \in RowWithId(q.row) /\ \A row \in RowWithId(q.row) : row = own
      BY <2>2 DEF StoreOf, RowWithId, UniqueRows
    <2>4. ~End(r, "unknown")
      BY DEF End, TypeOK
    <2>5. keyTokens' = (keyTokens \ {own}) \cup {Patched(r, own)} /\ Goto(r, "cache")
      BY <1>6, <2>3, <2>4 DEF FlushRow
    <2>6. t = [q EXCEPT !.pc = "cache"]
      BY <2>5 DEF Goto, TypeOK
    <2>7. t.pc = "cache" /\ t.pub = q.pub /\ t.priv = q.priv
      BY <2>1, <2>6 DEF WriterType
    <2>8. PICK row : row = Patched(r, own)
      OBVIOUS
    <2>9. own \in RowType /\ own.user = u
      BY <2>2 DEF StoreOf, TypeOK
    <2>10. row.user = u /\ row.pub = q.pub /\ row.priv = q.priv /\ row.refresh = q.refresh
      BY <2>2, <2>8, <2>9 DEF Patched, Saved, RowType
    <2>11. row \in StoreOf(u)' /\ row.refresh.key = row.priv
      BY <1>1, <2>1, <2>5, <2>8, <2>10 DEF StoreOf, SignedFor
    <2> QED BY <2>7, <2>10, <2>11 DEF Solo
  <1>7. ASSUME FindRow(r) PROVE Solo(req[r], u)'
    <2>1. q \in LeaverType
      BY <1>7, PcTellsKind DEF FindRow, LeaverPcs
    <2>2. ~End(r, "unknown")
      BY DEF End, TypeOK
    <2>3. PICK row \in StoreOf(u) : req' = [req EXCEPT ![r].pc = "delete", ![r].row = row.id]
      BY <1>7, <2>2 DEF FindRow
    <2>4. t = [q EXCEPT !.pc = "delete", !.row = row.id] /\ keyTokens' = keyTokens
      BY <1>7, <2>3 DEF TypeOK, FindRow
    <2>5. t.pc = "delete" /\ t.row = row.id
      BY <2>1, <2>4 DEF LeaverType
    <2>6. \A other \in StoreOf(u) : other = row
      BY <2>3 DEF StoreOf, UniqueRows
    <2> QED BY <2>4, <2>5, <2>6 DEF Solo, StoreOf
  <1>8. ASSUME DeleteRow(r) PROVE Solo(req[r], u)'
    <2>1. q \in LeaverType
      BY <1>8, PcTellsKind DEF DeleteRow, LeaverPcs
    <2>2. t = [q EXCEPT !.pc = "forget"] /\ keyTokens' = keyTokens \ RowWithId(q.row)
      BY <1>8 DEF DeleteRow, Goto, TypeOK
    <2>3. t.pc = "forget"
      BY <2>1, <2>2 DEF LeaverType
    <2>4. \A row \in StoreOf(u) : row.id = q.row
      BY <1>8 DEF Solo, DeleteRow
    <2>5. StoreOf(u)' = {}
      BY <2>2, <2>4 DEF StoreOf, RowWithId
    <2> QED BY <2>3, <2>5 DEF Solo
  <1>9. ASSUME SignTokens(r) \/ LookupRow(r) PROVE t.pc \in {"fetch", "create"}
    <2>1. CASE SignTokens(r)
      BY <2>1 DEF SignTokens, Writer, TypeOK
    <2>2. CASE LookupRow(r)
      <3>1. q \in WriterType
        BY <2>2, PcTellsKind DEF LookupRow, WriterPcs
      <3> QED BY <2>2, <3>1 DEF LookupRow, Goto, TypeOK, WriterType
    <2> QED BY <1>9, <2>1, <2>2
  <1>10. ~InsertRow(r) /\ ~CacheKey(r) /\ ~ForgetKey(r)
    BY DEF Solo, InsertRow, CacheKey, ForgetKey, End, TypeOK
  <1> QED BY <1>2, <1>3, <1>4, <1>5, <1>6, <1>7, <1>8, <1>9, <1>10 DEF Step

\* What a request that ends says of its user is true when it overlapped no other, and
\* otherwise it says nothing.
LEMMA StepEnds ==
    ASSUME TypeOK, RowFetched, OwnerInv, NEW r \in Requests, NEW u \in Users, req[r].user = u,
           r \notin contended => Solo(req[r], u), Step(r) \/ Abort(r), req[r] # Idle, req'[r] = Idle
    PROVE  Agree(u)'
  <1>1. Ends(r)
    BY StepMoves, TurnFacts
  <1>2. CASE phase'[u] = "unknown"
    BY <1>2 DEF Agree
  <1>3. CASE CacheKey(r) /\ phase'[u] # "unknown"
    <2>1. r \notin contended /\ phase'[u] = "signedIn" /\ keyTokens' = keyTokens
      BY <1>3 DEF CacheKey, End, TypeOK
    <2>2. PICK row \in StoreOf(u) : row.pub = req[r].pub /\ row.refresh.key = row.priv
      BY <1>3, <2>1 DEF CacheKey, Solo
    <2>3. \A e \in acTokens' : e.user = u => e.key = row.pub
      BY <1>3, <2>2 DEF CacheKey, SetAcToken, Token
    <2>4. row \in StoreOf(u)'
      BY <2>1, <2>2 DEF StoreOf
    <2> QED BY <2>1, <2>2, <2>3, <2>4 DEF Agree
  <1>4. CASE ForgetKey(r) /\ phase'[u] # "unknown"
    <2>1. r \notin contended /\ phase'[u] = "signedOut" /\ keyTokens' = keyTokens
      BY <1>4 DEF ForgetKey, End, TypeOK
    <2>2. StoreOf(u)' = {}
      BY <1>4, <2>1 DEF ForgetKey, Solo, StoreOf
    <2>3. \A e \in acTokens' : e.user # u
      BY <1>4 DEF ForgetKey
    <2> QED BY <2>1, <2>2, <2>3 DEF Agree
  <1>5. CASE End(r, "unknown")
    <2>1. phase'[u] = "unknown"
      BY <1>5 DEF End, TypeOK
    <2> QED BY <1>2, <2>1
  <1> QED BY <1>1, <1>2, <1>3, <1>4, <1>5 DEF Ends

LEMMA StepQuiet ==
    ASSUME TypeOK, RowFetched, OwnerInv, QuietInv, NEW r \in Requests, Step(r) \/ Abort(r)
    PROVE  QuietInv'
  <1> USE DEF QuietInv
  <1>1. PICK t : Turns(r, t) /\ Moves(req[r], t) /\ ((t = Idle /\ Ends(r)) \/ (t # Idle /\ UNCHANGED history))
    BY StepMoves
  <1>2. /\ req[r] # Idle /\ req'[r] = t
        /\ \A s \in Requests : s # r => req'[s] = req[s]
    BY <1>1, StepMoves, TurnFacts
  <1>3. PICK v \in Users : v = req[r].user
    BY <1>2 DEF TypeOK, WriterType, LeaverType
  <1>4. t # Idle => t.user = v
    BY <1>1, <1>3 DEF Moves
  <1>5. /\ contended' = IF t = Idle THEN contended \ {r} ELSE contended
        /\ \A u \in Users : u # v => phase'[u] = phase[u]
    <2>1. CASE t = Idle
      <3>1. PICK outcome : End(r, outcome)
        BY <1>1, <2>1 DEF Ends, CacheKey, ForgetKey
      <3> QED BY <1>3, <2>1, <3>1 DEF End, TypeOK
    <2>2. CASE t # Idle
      BY <1>1, <2>2 DEF history
    <2> QED BY <2>1, <2>2
  <1>6. \A u \in Users : u # v => Same(u)
    BY <1>3, StepSame
  <1>7. Overlaps'
    <2> SUFFICES ASSUME NEW x \in Requests, NEW y \in Requests, x # y, req'[x] # Idle, req'[y] # Idle,
                        req'[x].user = req'[y].user
                 PROVE  x \in contended'
      BY DEF Overlaps
    <2>1. /\ req[x] # Idle /\ req'[x].user = req[x].user
          /\ req[y] # Idle /\ req'[y].user = req[y].user
      BY <1>2, <1>3, <1>4
    <2>2. x \in contended
      BY <2>1 DEF Overlaps
    <2> QED BY <1>2, <1>5, <2>2
  <1>8. Alone'
    <2>1. ASSUME NEW s \in Requests, NEW u \in Users, req'[s] # Idle, req'[s].user = u, s \notin contended'
          PROVE  Solo(req[s], u)'
      <3>1. CASE s # r /\ u # v
        <4>1. req'[s] = req[s] /\ Solo(req[s], u)
          BY <1>2, <1>5, <2>1, <3>1 DEF Alone
        <4> QED BY <1>6, <3>1, <4>1, SameSolo
      <3>2. CASE s # r /\ u = v
        <4>1. s \in contended
          BY <1>2, <1>3, <2>1, <3>2 DEF Overlaps
        <4> QED BY <1>5, <2>1, <3>2, <4>1
      <3>3. CASE s = r
        <4>1. t # Idle /\ u = v /\ r \notin contended
          BY <1>2, <1>4, <1>5, <2>1, <3>3
        <4>2. Solo(req[r], v)
          BY <1>2, <1>3, <4>1 DEF Alone
        <4>3. Step(r)
          BY <1>2, <4>1 DEF Abort, End, TypeOK
        <4> QED BY <1>2, <1>3, <3>3, <4>1, <4>2, <4>3, StepSolo
      <3> QED BY <3>1, <3>2, <3>3
    <2> QED BY <2>1 DEF Alone
  <1>9. Settled'
    <2>1. ASSUME NEW u \in Users, \A s \in Requests : req'[s] # Idle => req'[s].user # u
          PROVE  Agree(u)'
      <3>1. CASE u # v
        <4>1. \A s \in Requests : req[s] # Idle => req[s].user # u
          BY <1>2, <1>3, <2>1, <3>1
        <4>2. Agree(u)
          BY <4>1 DEF Settled
        <4> QED BY <1>5, <1>6, <3>1, <4>2, SameAgree
      <3>2. CASE u = v
        <4>1. t = Idle
          BY <1>2, <1>4, <2>1, <3>2
        <4>2. r \notin contended => Solo(req[r], v)
          BY <1>2, <1>3 DEF Alone
        <4> QED BY <1>2, <1>3, <3>2, <4>1, <4>2, StepEnds
      <3> QED BY <3>1, <3>2
    <2> QED BY <2>1 DEF Settled
  <1> QED BY <1>7, <1>8, <1>9

LEMMA StartQuiet ==
    ASSUME TypeOK, OwnerInv, QuietInv, NEW r \in Requests, NEW v \in Users, Start(r, v)
    PROVE  QuietInv'
  <1> USE DEF QuietInv
  <1>1. PICK t \in ReqType : /\ Begin(r, v, t) /\ t # Idle /\ t.user = v
                             /\ t.pc \in {"lookup", "sign", "find"}
    BY StartShape
  <1>2. UNCHANGED <<keyTokens, acTokens, accesses, cookies>>
    BY StartShape
  <1>3. /\ req[r] = Idle /\ req'[r] = t /\ \A s \in Requests : s # r => req'[s] = req[s]
        /\ phase' = phase
        /\ contended' = IF InFlightOf(v) = {} THEN contended \ {r}
                        ELSE contended \cup InFlightOf(v) \cup {r}
    BY <1>1, TurnFacts DEF Begin, Turns
  <1>4. \A u \in Users : Same(u)
    BY <1>2 DEF Same
  <1>5. Overlaps'
    <2> SUFFICES ASSUME NEW x \in Requests, NEW y \in Requests, x # y, req'[x] # Idle, req'[y] # Idle,
                        req'[x].user = req'[y].user
                 PROVE  x \in contended'
      BY DEF Overlaps
    <2>1. CASE x = r
      <3>1. y \in InFlightOf(v)
        BY <1>1, <1>3, <2>1 DEF InFlightOf, InFlight
      <3> QED BY <1>3, <2>1, <3>1
    <2>2. CASE y = r
      <3>1. x \in InFlightOf(v)
        BY <1>1, <1>3, <2>2 DEF InFlightOf, InFlight
      <3> QED BY <1>3, <2>2, <3>1
    <2>3. CASE x # r /\ y # r
      <3>1. x \in contended
        BY <1>3, <2>3 DEF Overlaps
      <3> QED BY <1>3, <2>3, <3>1
    <2> QED BY <2>1, <2>2, <2>3
  <1>6. Alone'
    <2>1. ASSUME NEW s \in Requests, NEW u \in Users, req'[s] # Idle, req'[s].user = u, s \notin contended'
          PROVE  Solo(req[s], u)'
      <3>1. CASE s # r
        <4>1. req'[s] = req[s] /\ s \notin contended
          BY <1>3, <2>1, <3>1
        <4>2. Solo(req[s], u)
          BY <2>1, <4>1 DEF Alone
        <4> QED BY <1>4, <4>1, <4>2, SameSolo
      <3>2. CASE s = r
        BY <1>1, <1>3, <3>2 DEF Solo
      <3> QED BY <3>1, <3>2
    <2> QED BY <2>1 DEF Alone
  <1>7. Settled'
    <2>1. ASSUME NEW u \in Users, \A s \in Requests : req'[s] # Idle => req'[s].user # u
          PROVE  Agree(u)'
      <3>1. \A s \in Requests : req[s] # Idle => req[s].user # u
        BY <1>3, <2>1
      <3>2. Agree(u)
        BY <3>1 DEF Settled
      <3> QED BY <1>3, <1>4, <3>2, SameAgree
    <2> QED BY <2>1 DEF Settled
  <1> QED BY <1>5, <1>6, <1>7

LEMMA TickQuiet ==
    ASSUME TypeOK, QuietInv, Tick
    PROVE  QuietInv'
  <1> USE DEF QuietInv
  <1>1. \A r \in Requests : /\ req'[r] = Idle <=> req[r] = Idle
                            /\ req[r] # Idle => req'[r].user = req[r].user
    BY TickRequests DEF Ages
  <1>2. contended' = contended /\ phase' = phase
    BY DEF Tick, history
  <1>3. Overlaps'
    BY <1>1, <1>2 DEF Overlaps
  <1>4. Alone'
    <2>1. ASSUME NEW r \in Requests, NEW u \in Users, req'[r] # Idle, req'[r].user = u, r \notin contended'
          PROVE  Solo(req[r], u)'
      <3> DEFINE q == req[r]
                 t == req'[r]
      <3>1. Solo(q, u) /\ Ages(q, t) /\ q # Idle
        BY <1>1, <1>2, <2>1, TickRequests DEF Alone
      <3>2. t.pc = q.pc /\ t.row = q.row
        BY <3>1 DEF Ages
      <3>3. \A row \in StoreOf(u)' : \E old \in StoreOf(u) : row.id = old.id
        BY TickRows DEF StoreOf
      <3>4. \A old \in StoreOf(u) : \E row \in StoreOf(u)' :
                /\ row.id = old.id /\ row.pub = old.pub /\ row.priv = old.priv
                /\ row.refresh = Older(old.refresh) /\ row.refresh.key = old.refresh.key
        BY TickRows DEF StoreOf
      <3>5. q.pc \in WriterPcs => /\ t.pub = q.pub /\ t.priv = q.priv /\ t.dirty = q.dirty
                                  /\ t.refresh = Older(q.refresh)
        BY <3>1 DEF Ages
      <3>6. q.pc # "insert" /\ (q.pc = "load" => \E row \in StoreOf(u)' : row.id = t.row)
        BY <3>1, <3>2, <3>4 DEF Solo
      <3>7. ASSUME q.pc = "flush" PROVE \E row \in StoreOf(u)' : row.id = t.row /\ Saved(t, row)
        <4>1. PICK old \in StoreOf(u) : old.id = q.row /\ Saved(q, old)
          BY <3>1, <3>7 DEF Solo
        <4>2. PICK row \in StoreOf(u)' :
                  /\ row.id = old.id /\ row.pub = old.pub /\ row.priv = old.priv
                  /\ row.refresh = Older(old.refresh)
          BY <3>4
        <4>3. Saved(t, row)
          BY <3>5, <3>7, <4>1, <4>2 DEF Saved, WriterPcs
        <4> QED BY <3>2, <4>1, <4>2, <4>3
      <3>8. ASSUME q.pc = "cache"
            PROVE  \E row \in StoreOf(u)' :
                       row.pub = t.pub /\ row.priv = t.priv /\ row.refresh.key = row.priv
        <4>1. PICK old \in StoreOf(u) :
                  old.pub = q.pub /\ old.priv = q.priv /\ old.refresh.key = old.priv
          BY <3>1, <3>8 DEF Solo
        <4> QED BY <3>4, <3>5, <3>8, <4>1 DEF WriterPcs
      <3>9. ASSUME q.pc = "delete" PROVE \A row \in StoreOf(u)' : row.id = t.row
        BY <3>1, <3>2, <3>3, <3>9 DEF Solo
      <3>10. ASSUME q.pc = "forget" PROVE StoreOf(u)' = {}
        BY <3>1, <3>3, <3>10 DEF Solo
      <3> HIDE DEF q
      <3> QED BY <3>2, <3>6, <3>7, <3>8, <3>9, <3>10 DEF Solo, Saved
    <2> QED BY <2>1 DEF Alone
  <1>5. Settled'
    <2>1. ASSUME NEW u \in Users, \A s \in Requests : req'[s] # Idle => req'[s].user # u
          PROVE  Agree(u)'
      <3>1. Agree(u)
        BY <1>1, <2>1 DEF Settled
      <3>2. \A row \in StoreOf(u)' : \E old \in StoreOf(u) : row.id = old.id
        BY TickRows DEF StoreOf
      <3>3. \A old \in StoreOf(u) : \E row \in StoreOf(u)' :
                row.pub = old.pub /\ row.priv = old.priv /\ row.refresh.key = old.refresh.key
        BY TickRows DEF StoreOf
      <3>4. \A e \in acTokens' : \E f \in acTokens : e.user = f.user /\ e.key = f.key
        BY TickTokens
      <3>5. phase[u] = "signedOut" => StoreOf(u)' = {} /\ \A e \in acTokens' : e.user # u
        BY <3>1, <3>2, <3>4 DEF Agree
      <3>6. ASSUME phase[u] = "signedIn"
            PROVE  \E row \in StoreOf(u)' :
                       row.refresh.key = row.priv /\ \A e \in acTokens' : e.user = u => e.key = row.pub
        <4>1. PICK old \in StoreOf(u) :
                  old.refresh.key = old.priv /\ \A e \in acTokens : e.user = u => e.key = old.pub
          BY <3>1, <3>6 DEF Agree
        <4>2. PICK row \in StoreOf(u)' :
                  row.pub = old.pub /\ row.priv = old.priv /\ row.refresh.key = old.refresh.key
          BY <3>3
        <4> QED BY <3>4, <4>1, <4>2
      <3> QED BY <1>2, <3>5, <3>6 DEF Agree
    <2> QED BY <2>1 DEF Settled
  <1> QED BY <1>3, <1>4, <1>5

LEMMA QuietStep ==
    ASSUME TypeOK, RowFetched, OwnerInv, QuietInv, [Next]_vars
    PROVE  QuietInv'
  <1>1. CASE UNCHANGED vars
    BY <1>1 DEF vars, QuietInv, Overlaps, Alone, Solo, Settled, Agree, StoreOf
  <1>2. CASE Next
    BY <1>2, StartQuiet, StepQuiet, TickQuiet DEF Next
  <1> QED BY <1>1, <1>2

\* QuietStoresAgree: after a login, a refresh or a logout that overlapped no other request
\* of its user, whatever other users and the clock did meanwhile and whatever was left of
\* earlier requests that failed, Postgres and Redis hold the same session, or both none.
THEOREM StoresAgree == Spec => []QuietStoresAgree
  <1>1. Init => QuietInv
    BY DEF Init, QuietInv, Overlaps, Alone, Settled, Agree, StoreOf, Idle
  <1>2. TypeOK /\ RowFetched /\ OwnerInv /\ QuietInv /\ [Next]_vars => QuietInv'
    BY QuietStep
  <1>3. QuietInv => QuietStoresAgree
    BY SettledIsQuiet DEF QuietInv
  <1> QED BY <1>1, <1>2, <1>3, TypeCorrect, OwnerInvariance, PTL DEF Spec
=============================================================================
