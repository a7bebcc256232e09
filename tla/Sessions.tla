------------------------------ MODULE Sessions ------------------------------
(***************************************************************************)
(* Signed-in sessions: AuthService.login, refreshToken and logout, the two *)
(* passport strategies that guard them, and the two stores they keep in    *)
(* step by hand:                                                           *)
(*                                                                         *)
(*   keyTokens  the Postgres table 'key-tokens', written through           *)
(*              KeyTokenService, BaseRepository and TypeORM's save();       *)
(*   acTokens   the Redis entries AC_TOKEN:<userId>, each with a TTL.       *)
(*                                                                         *)
(* Every HTTP request is a process that may be suspended at each await;    *)
(* one action is the code between two awaits that touch shared state.      *)
(*                                                                         *)
(* Time is relative: a token, a cached key carries the ticks it has left,  *)
(* so two tokens signed with the same key in the same tick are equal, as   *)
(* two JWTs with the same secret, payload and iat are.                     *)
(***************************************************************************)
EXTENDS Integers, FiniteSets

CONSTANTS
    Users,       \* user ids
    NoUser,      \* SQL NULL in the userId column
    Requests,    \* HTTP requests the server may have in flight at once
    Keys,        \* key generations: one crypto.randomBytes pair per login
    RowIds,      \* uuids of rows of 'key-tokens'
    NoRow,       \* a request that has not loaded a row yet
    AccessTTL,   \* AUTH_JWT_TOKEN_EXPIRES_IN, in ticks
    RefreshTTL   \* AUTH_REFRESH_TOKEN_EXPIRES_IN, in ticks

ASSUME SessionsAssumption ==
    /\ NoUser \notin Users
    /\ NoRow \notin RowIds
    /\ AccessTTL \in Nat \ {0}
    /\ RefreshTTL \in Nat \ {0}

VARIABLES
    keyTokens,   \* the rows of the table 'key-tokens'
    acTokens,    \* the AC_TOKEN:<userId> entries of Redis
    accesses,    \* unexpired access tokens that clients have received
    cookies,     \* unexpired refresh tokens that clients have received
    req,         \* what each request in flight is doing
    contended,   \* history: requests that overlapped another of their user
    phase        \* history: how the last request of each user ended

vars == <<keyTokens, acTokens, accesses, cookies, req, contended, phase>>
history == <<contended, phase>>

-----------------------------------------------------------------------------
(* Data.                                                                   *)

Column == {"publicKey", "privateKey", "refreshToken"}

\* A JWT: its payload's userId, the secret that signed it, the ticks it has left.
Token(u, k, left) == [user |-> u, key |-> k, left |-> left]
TokenType == [user : Users, key : Keys, left : Nat]

RowType == [id : RowIds, user : Users \cup {NoUser},
            pub : Keys, priv : Keys, refresh : TokenType]

Idle == [pc |-> "idle"]

\* A login or a refresh: the keys it carries and the tokens it has signed (at
\* pc "sign", the tokens it is about to sign).
WriterType ==
    [pc : {"sign", "lookup", "create", "fetch", "load", "flush", "insert", "cache"},
     user : Users, pub : Keys, priv : Keys,
     access : TokenType, refresh : TokenType,
     row : RowIds \cup {NoRow}, dirty : SUBSET Column]

\* A logout.
LeaverType == [pc : {"find", "delete", "forget"}, user : Users,
               row : RowIds \cup {NoRow}]

\* getTokensData: the access token is signed with publicKey, the refresh
\* token with privateKey.
Writer(pc, u, pub, priv) ==
    [pc |-> pc, user |-> u, pub |-> pub, priv |-> priv,
     access |-> Token(u, pub, AccessTTL), refresh |-> Token(u, priv, RefreshTTL),
     row |-> NoRow, dirty |-> {}]

InFlight == {r \in Requests : req[r] # Idle}
InFlightOf(u) == {r \in InFlight : req[r].user = u}
Writers == {r \in InFlight : req[r] \in WriterType}

\* findKeyStoreByUserId: at most one row, userId being unique.
StoreOf(u) == {row \in keyTokens : row.user = u}
RowWithId(i) == {row \in keyTokens : row.id = i}

\* The primary key, the unique columns and the one-to-one userId of the table.
Clash(row, rows) ==
    \E other \in rows :
        \/ other.id = row.id
        \/ other.user = row.user /\ row.user # NoUser
        \/ other.pub = row.pub
        \/ other.priv = row.priv
        \/ other.refresh = row.refresh

\* Every key that some store, client or request still knows.
LiveKeys ==
    (UNION {{row.pub, row.priv, row.refresh.key} : row \in keyTokens})
    \cup {e.key : e \in acTokens}
    \cup {t.key : t \in accesses \cup cookies}
    \cup (UNION {{req[r].pub, req[r].priv} : r \in Writers})

LiveRows == {row.id : row \in keyTokens} \cup {req[r].row : r \in InFlight}

-----------------------------------------------------------------------------
(* The bookkeeping of the history variables.                               *)

Begin(r, u, state) ==
    /\ req[r] = Idle
    /\ req' = [req EXCEPT ![r] = state]
    /\ contended' = IF InFlightOf(u) = {} THEN contended \ {r}
                    ELSE contended \cup InFlightOf(u) \cup {r}
    /\ UNCHANGED phase

\* The request ends: with an error ("unknown"), or having signed its user in or out.
End(r, outcome) ==
    /\ req' = [req EXCEPT ![r] = Idle]
    /\ phase' = [phase EXCEPT ![req[r].user] =
                    IF r \in contended THEN "unknown" ELSE outcome]
    /\ contended' = contended \ {r}

Goto(r, pc) ==
    /\ req' = [req EXCEPT ![r].pc = pc]
    /\ UNCHANGED history

-----------------------------------------------------------------------------
(* Beginning a request.                                                    *)

\* Mutant of StartLogin: the key pair is not drawn anew for each login.
StartLoginReusingKeys(r, u) ==
    /\ \E k \in Keys : Begin(r, u, Writer("lookup", u, k, k))
    /\ UNCHANGED <<keyTokens, acTokens, accesses, cookies>>

\* login, with an active account and the right password, up to the lookup of
\* the key store: a new pair of keys, and both tokens signed with it.
StartLogin(r, u) ==
    /\ \E k \in Keys \ LiveKeys : Begin(r, u, Writer("lookup", u, k, k))
    /\ UNCHANGED <<keyTokens, acTokens, accesses, cookies>>

\* The jwt-refresh strategy: the cookie must be the stored refresh token, verify
\* under the stored privateKey and name the user; the keys of the row are carried
\* along in req.body.keyStore.
StartRefresh(r, u) ==
    /\ \E row \in StoreOf(u) :
        /\ row.refresh \in cookies
        /\ row.refresh.key = row.priv
        /\ row.refresh.left > 0
        /\ row.refresh.user = u
        /\ Begin(r, u, Writer("sign", u, row.pub, row.priv))
    /\ UNCHANGED <<keyTokens, acTokens, accesses, cookies>>

\* The jwt strategy accepts access token t of user u: AC_TOKEN:u is in Redis,
\* t verifies under it, has not expired and names u.
Accepted(u, t) ==
    /\ \E e \in acTokens : e.user = u /\ e.key = t.key
    /\ t.left > 0
    /\ t.user = u

\* The jwt strategy in front of logout.
StartLogout(r, u) ==
    /\ \E t \in accesses : Accepted(u, t)
    /\ Begin(r, u, [pc |-> "find", user |-> u, row |-> NoRow])
    /\ UNCHANGED <<keyTokens, acTokens, accesses, cookies>>

-----------------------------------------------------------------------------
(* login and refreshToken: writing the key store, then the cached key.     *)

\* refreshToken, after validate has found the user: both tokens are signed with
\* the keys that the strategy read.
SignTokens(r) ==
    /\ req[r].pc = "sign"
    /\ req' = [req EXCEPT ![r] = Writer("fetch", req[r].user, req[r].pub, req[r].priv)]
    /\ UNCHANGED <<keyTokens, acTokens, accesses, cookies, contended, phase>>

\* login: findKeyStoreByUserId decides between update and create.
LookupRow(r) ==
    /\ req[r].pc = "lookup"
    /\ Goto(r, IF StoreOf(req[r].user) = {} THEN "create" ELSE "fetch")
    /\ UNCHANGED <<keyTokens, acTokens, accesses, cookies>>

\* createKeyToken: an INSERT, refused when a unique column is taken.
CreateRow(r) ==
    /\ req[r].pc = "create"
    /\ \E i \in RowIds \ LiveRows :
        LET row == [id |-> i, user |-> req[r].user, pub |-> req[r].pub,
                    priv |-> req[r].priv, refresh |-> req[r].refresh]
        IN IF Clash(row, keyTokens)
           THEN End(r, "unknown") /\ UNCHANGED keyTokens
           ELSE keyTokens' = keyTokens \cup {row} /\ Goto(r, "cache")
    /\ UNCHANGED <<acTokens, accesses, cookies>>

\* updateKeyToken -> updateBy: getOneOrFail reads the row of the user; with no
\* row it resolves to null, and assigning to null throws.
FetchRow(r) ==
    /\ req[r].pc = "fetch"
    /\ \/ /\ StoreOf(req[r].user) = {}
          /\ End(r, "unknown")
       \/ \E row \in StoreOf(req[r].user) :
            /\ req' = [req EXCEPT ![r].pc = "load", ![r].row = row.id]
            /\ UNCHANGED history
    /\ UNCHANGED <<keyTokens, acTokens, accesses, cookies>>

\* Mutant of Differing: updateKeyToken passes no privateKey on to updateBy.
DifferingButPrivate(r, row) ==
    {c \in Column : \/ c = "publicKey" /\ row.pub # req[r].pub
                    \/ c = "refreshToken" /\ row.refresh # req[r].refresh}

\* Mutant of Differing: updateKeyToken passes the user on to updateBy as well, where
\* it was never loaded.
DifferingAndUser(r, row) ==
    {"user"} \cup
    {c \in Column : \/ c = "publicKey" /\ row.pub # req[r].pub
                    \/ c = "privateKey" /\ row.priv # req[r].priv
                    \/ c = "refreshToken" /\ row.refresh # req[r].refresh}

\* The columns of row in which the entity that request r saves differs.
Differing(r, row) ==
    {c \in Column : \/ c = "publicKey" /\ row.pub # req[r].pub
                    \/ c = "privateKey" /\ row.priv # req[r].priv
                    \/ c = "refreshToken" /\ row.refresh # req[r].refresh}

\* entity.save(), first query: SELECT by id. The columns that differ will be
\* updated; an entity that is no longer in the table will be inserted.
LoadRow(r) ==
    /\ req[r].pc = "load"
    /\ \/ /\ RowWithId(req[r].row) = {}
          /\ Goto(r, "insert")
       \/ \E row \in RowWithId(req[r].row) :
            /\ req' = [req EXCEPT ![r].pc = "flush", ![r].dirty = Differing(r, row)]
            /\ UNCHANGED history
    /\ UNCHANGED <<keyTokens, acTokens, accesses, cookies>>

\* The row after UPDATE ... SET <dirty columns>.
Patched(r, row) ==
    [row EXCEPT !.pub = IF "publicKey" \in req[r].dirty THEN req[r].pub ELSE @,
                !.priv = IF "privateKey" \in req[r].dirty THEN req[r].priv ELSE @,
                !.refresh = IF "refreshToken" \in req[r].dirty THEN req[r].refresh ELSE @]

\* entity.save(), second query: UPDATE ... WHERE id, which touches nothing
\* when the row has gone and is refused when a unique column is taken.
FlushRow(r) ==
    /\ req[r].pc = "flush"
    /\ \/ /\ RowWithId(req[r].row) = {}
          /\ Goto(r, "cache")
          /\ UNCHANGED keyTokens
       \/ \E row \in RowWithId(req[r].row) :
            LET others == keyTokens \ {row}
            IN IF Clash(Patched(r, row), others)
               THEN End(r, "unknown") /\ UNCHANGED keyTokens
               ELSE keyTokens' = others \cup {Patched(r, row)} /\ Goto(r, "cache")
    /\ UNCHANGED <<acTokens, accesses, cookies>>

\* entity.save() of an entity that a logout deleted meanwhile: INSERT under the
\* old id. The user relation was never loaded, so userId is NULL.
InsertRow(r) ==
    /\ req[r].pc = "insert"
    /\ LET row == [id |-> req[r].row, user |-> NoUser, pub |-> req[r].pub,
                   priv |-> req[r].priv, refresh |-> req[r].refresh]
       IN IF Clash(row, keyTokens)
          THEN End(r, "unknown") /\ UNCHANGED keyTokens
          ELSE keyTokens' = keyTokens \cup {row} /\ Goto(r, "cache")
    /\ UNCHANGED <<acTokens, accesses, cookies>>

\* Mutant of SetAcToken: the TTL of an existing entry is kept (SET ... KEEPTTL).
SetAcTokenKeepingTTL(u, k) ==
    {e \in acTokens : e.user # u}
    \cup {Token(u, k, left) :
            left \in IF \E e \in acTokens : e.user = u
                     THEN {e.left : e \in {f \in acTokens : f.user = u}}
                     ELSE {AccessTTL}}

\* setOnKey(AC_TOKEN, userId, publicKey, ttl): SETEX replaces value and TTL.
SetAcToken(u, k) ==
    {e \in acTokens : e.user # u} \cup {Token(u, k, AccessTTL)}

\* The rest of login and refreshToken: cookie, cached key, answer.
CacheKey(r) ==
    /\ req[r].pc = "cache"
    /\ acTokens' = SetAcToken(req[r].user, req[r].pub)
    /\ accesses' = accesses \cup {t \in {req[r].access} : t.left > 0}
    /\ cookies' = cookies \cup {t \in {req[r].refresh} : t.left > 0}
    /\ End(r, "signedIn")
    /\ UNCHANGED keyTokens

-----------------------------------------------------------------------------
(* logout: the row, then the cached key.                                   *)

\* deleteKeyStoreByUser -> deleteBy: getOneOrFail; with no row it resolves to
\* null, which remove() refuses with an error.
FindRow(r) ==
    /\ req[r].pc = "find"
    /\ \/ /\ StoreOf(req[r].user) = {}
          /\ End(r, "unknown")
       \/ \E row \in StoreOf(req[r].user) :
            /\ req' = [req EXCEPT ![r].pc = "delete", ![r].row = row.id]
            /\ UNCHANGED history
    /\ UNCHANGED <<keyTokens, acTokens, accesses, cookies>>

\* repo.remove(entity): DELETE ... WHERE id.
DeleteRow(r) ==
    /\ req[r].pc = "delete"
    /\ keyTokens' = keyTokens \ RowWithId(req[r].row)
    /\ Goto(r, "forget")
    /\ UNCHANGED <<acTokens, accesses, cookies>>

\* Mutant of ForgetKey: logout leaves the cached key to its TTL.
ForgetKeyLater(r) ==
    /\ req[r].pc = "forget"
    /\ End(r, "signedOut")
    /\ UNCHANGED <<keyTokens, acTokens, accesses, cookies>>

\* delOnKey(AC_TOKEN, userId), clearCookie, answer.
ForgetKey(r) ==
    /\ req[r].pc = "forget"
    /\ acTokens' = {e \in acTokens : e.user # req[r].user}
    /\ End(r, "signedOut")
    /\ UNCHANGED <<keyTokens, accesses, cookies>>

-----------------------------------------------------------------------------
(* The environment.                                                        *)

\* The call a request awaits is rejected (Postgres or Redis fails, the server
\* dies): the request ends there, what it wrote stays. A login or refresh that
\* fails at its last await has put the cookie on the response already.
Abort(r) ==
    /\ req[r] # Idle
    /\ cookies' = cookies \cup {t \in {req[r].refresh : q \in {r} \cap Writers} :
                                    req[r].pc = "cache" /\ t.left > 0}
    /\ End(r, "unknown")
    /\ UNCHANGED <<keyTokens, acTokens, accesses>>

Older(t) == [t EXCEPT !.left = IF @ = 0 THEN 0 ELSE @ - 1]
Unexpired(S) == {t \in S : t.left > 0}

\* Mutant of Tick: the cached key was set without a TTL.
TickKeepingCachedKeys ==
    /\ accesses' = Unexpired({Older(t) : t \in accesses})
    /\ cookies' = Unexpired({Older(t) : t \in cookies})
    /\ keyTokens' = {[row EXCEPT !.refresh = Older(@)] : row \in keyTokens}
    /\ req' = [r \in Requests |->
                IF r \in Writers
                THEN [req[r] EXCEPT !.access = Older(@), !.refresh = Older(@)]
                ELSE req[r]]
    /\ UNCHANGED <<acTokens, history>>

\* One tick of the clock: tokens grow older, Redis drops what has expired.
Tick ==
    /\ acTokens' = Unexpired({Older(e) : e \in acTokens})
    /\ accesses' = Unexpired({Older(t) : t \in accesses})
    /\ cookies' = Unexpired({Older(t) : t \in cookies})
    /\ keyTokens' = {[row EXCEPT !.refresh = Older(@)] : row \in keyTokens}
    /\ req' = [r \in Requests |->
                IF r \in Writers
                THEN [req[r] EXCEPT !.access = Older(@), !.refresh = Older(@)]
                ELSE req[r]]
    /\ UNCHANGED history

-----------------------------------------------------------------------------

Init ==
    /\ keyTokens = {}
    /\ acTokens = {}
    /\ accesses = {}
    /\ cookies = {}
    /\ req = [r \in Requests |-> Idle]
    /\ contended = {}
    /\ phase = [u \in Users |-> "signedOut"]

Step(r) ==
    \/ SignTokens(r) \/ LookupRow(r) \/ CreateRow(r) \/ FetchRow(r) \/ LoadRow(r)
    \/ FlushRow(r) \/ InsertRow(r) \/ CacheKey(r)
    \/ FindRow(r) \/ DeleteRow(r) \/ ForgetKey(r)

Start(r, u) == StartLogin(r, u) \/ StartRefresh(r, u) \/ StartLogout(r, u)

Next ==
    \/ \E r \in Requests, u \in Users : Start(r, u)
    \/ \E r \in Requests : Step(r) \/ Abort(r)
    \/ Tick

Spec == Init /\ [][Next]_vars

\* Time passes whatever the requests do.
FairSpec == Spec /\ WF_vars(Tick)

-----------------------------------------------------------------------------
(* Properties.                                                             *)

TypeOK ==
    /\ keyTokens \subseteq RowType
    /\ acTokens \subseteq TokenType
    /\ accesses \subseteq TokenType
    /\ cookies \subseteq TokenType
    /\ req \in [Requests -> {Idle} \cup WriterType \cup LeaverType]
    /\ contended \subseteq Requests
    /\ phase \in [Users -> {"signedIn", "signedOut", "unknown"}]

\* The two keys of a row always come from the same login: save() writes only the
\* columns that differed when it looked, so interleaved logins and refreshes
\* could have left the publicKey of one beside the privateKey of another
\* (base.repository.ts update, keyToken.service.ts updateKeyToken).
KeyPairIntact == \A row \in keyTokens : row.pub = row.priv

\* A cached public key never expires before an access token it verifies: no
\* client is turned away with an unexpired token of the session that Redis
\* holds, whichever login or refresh wrote the entry last (auth.service.ts
\* login and refreshToken sign first and set the TTL afterwards).
CachedKeyOutlivesTokens ==
    \A e \in acTokens, t \in accesses :
        t.key = e.key /\ t.user = e.user => t.left <= e.left

\* A key is only ever used for the user whose login drew it: the cached key of a
\* user verifies no token of another, even without the strategies' comparison
\* of the payload's userId with the x-client-id header.
KeysBelongToOneUser ==
    /\ \A e \in acTokens, t \in accesses : t.key = e.key => t.user = e.user
    /\ \A row \in keyTokens, t \in cookies :
          row.user # NoUser /\ t.key = row.priv => t.user = row.user

\* When the last request of a user ran alone and succeeded, the two stores tell
\* the same story: signed out means no row and no cached key, signed in means a
\* row whose refresh token verifies under its own key, and a cached key, if it
\* has not expired, that is the row's.
QuietStoresAgree ==
    \A u \in Users :
        InFlightOf(u) = {} =>
            /\ phase[u] = "signedOut" =>
                  /\ StoreOf(u) = {}
                  /\ \A e \in acTokens : e.user # u
            /\ phase[u] = "signedIn" =>
                  \E row \in StoreOf(u) :
                      /\ row.refresh.key = row.priv
                      /\ \A e \in acTokens : e.user = u => e.key = row.pub

\* Key k of user u verifies access tokens, but neither u's row nor a request
\* in flight knows it any more.
Stranded(u, k) ==
    /\ \E e \in acTokens : e.user = u /\ e.key = k
    /\ \A row \in StoreOf(u) : row.pub # k
    /\ \A r \in Writers : req[r].pub # k

\* A cached key that the database has lost (an interrupted logout, a logout
\* that crossed a login) stops verifying tokens in the end: nobody can renew it,
\* so its TTL removes it, although no further logout can.
StrandedKeyDiesOut ==
    \A u \in Users, k \in Keys :
        Stranded(u, k) ~> ~(\E e \in acTokens : e.user = u /\ e.key = k)

=============================================================================
