---------------------------- MODULE Registration ----------------------------
(***************************************************************************)
(* Opening an account, in three requests of the client:                    *)
(*                                                                         *)
(*   vertify-email  AuthService.ConfirmEmail: mail a code, then store its   *)
(*                  hash under OTP:<email> for OtpTTL;                      *)
(*   vertify-otp    AuthService.vertiyOtp: compare the code that came back, *)
(*                  delete it and set the flag register:<email>;            *)
(*   register       AuthService.register: require and delete the flag, then *)
(*                  insert the user.                                        *)
(*                                                                         *)
(* Each first looks the address up in the table 'users' and is suspended at *)
(* each await afterwards; the stages are linked by nothing but the entries  *)
(* in Redis, which expire.                                                 *)
(***************************************************************************)
EXTENDS Integers, FiniteSets

CONSTANTS
    Emails,      \* addresses
    Codes,       \* one-time codes; the generator may draw any of them
    NoCode,      \* nothing delivered yet
    Requests,    \* requests the server may have in flight at once
    OtpTTL,      \* 120 seconds in the code, in ticks
    FlagTTL      \* AUTH_JWT_TOKEN_EXPIRES_IN, in ticks

ASSUME RegistrationAssumption ==
    /\ NoCode \notin Codes
    /\ OtpTTL \in Nat \ {0}
    /\ FlagTTL \in Nat \ {0}

VARIABLES
    users,       \* the addresses in the table 'users'
    otps,        \* the OTP:<email> entries of Redis
    flags,       \* the register:<email> entries of Redis
    req,         \* what each request in flight is doing
    delivered,   \* history: the code last delivered to each mailbox
    verified,    \* history: the addresses whose code has come back
    contended,   \* history: requests that overlapped another of their address
    stage        \* history: where the last request of each address left it

stores == <<users, otps, flags>>
history == <<contended, stage>>
vars == <<users, otps, flags, req, delivered, verified, contended, stage>>

-----------------------------------------------------------------------------

OtpType == [email : Emails, code : Codes, left : 1..OtpTTL]
FlagType == [email : Emails, left : 1..FlagTTL]

Idle == [pc |-> "idle"]

\* code is the one drawn (vertify-email) or submitted (vertify-otp).
ReqType == {Idle} \cup
    [pc : {"mail", "store", "otp", "forget", "flag", "check", "consume", "insert"},
     email : Emails, code : Codes \cup {NoCode}, mailed : BOOLEAN]

Stages == {"new", "coded", "verified", "registered", "unknown"}

InFlightOf(e) == {r \in Requests : req[r] # Idle /\ req[r].email = e}
OtpOf(e) == {o \in otps : o.email = e}
FlagOf(e) == {f \in flags : f.email = e}

\* A request arrives and looks the address up: only a new one goes on.
Begin(r, pc, e, c) ==
    /\ req[r] = Idle
    /\ e \notin users
    /\ req' = [req EXCEPT ![r] = [pc |-> pc, email |-> e, code |-> c, mailed |-> FALSE]]
    /\ contended' = IF InFlightOf(e) = {} THEN contended \ {r}
                    ELSE contended \cup InFlightOf(e) \cup {r}
    /\ UNCHANGED <<stores, delivered, verified, stage>>

Goto(r, pc) ==
    /\ req' = [req EXCEPT ![r].pc = pc]
    /\ UNCHANGED history

\* The request ends and leaves its address at a stage.
End(r, reached) ==
    /\ req' = [req EXCEPT ![r] = Idle]
    /\ stage' = [stage EXCEPT ![req[r].email] =
                    IF r \in contended THEN "unknown" ELSE reached]
    /\ contended' = contended \ {r}

\* The request is refused before it has changed anything.
Refuse(r) == End(r, stage[req[r].email])

-----------------------------------------------------------------------------
(* ConfirmEmail.                                                           *)

StartConfirm(r, e) == \E c \in Codes : Begin(r, "mail", e, c)

\* The mail is sent first; a failure is logged and otherwise ignored.
SendMail(r) ==
    /\ req[r].pc = "mail"
    /\ \E sent \in BOOLEAN :
        /\ req' = [req EXCEPT ![r].pc = "store", ![r].mailed = sent]
        /\ delivered' = IF sent THEN [delivered EXCEPT ![req[r].email] = req[r].code]
                        ELSE delivered
    /\ UNCHANGED <<stores, verified, history>>

\* Mutant of StoreOtp: the code is given the lifetime of the flag.
StoreOtpAsLongAsFlag(r) ==
    /\ req[r].pc = "store"
    /\ otps' = (otps \ OtpOf(req[r].email))
               \cup {[email |-> req[r].email, code |-> req[r].code, left |-> FlagTTL]}
    /\ End(r, IF req[r].mailed THEN "coded" ELSE "unknown")
    /\ UNCHANGED <<users, flags, delivered, verified>>

\* insertOtp: SETEX replaces the previous code and its TTL.
StoreOtp(r) ==
    /\ req[r].pc = "store"
    /\ otps' = (otps \ OtpOf(req[r].email))
               \cup {[email |-> req[r].email, code |-> req[r].code, left |-> OtpTTL]}
    /\ End(r, IF req[r].mailed THEN "coded" ELSE "unknown")
    /\ UNCHANGED <<users, flags, delivered, verified>>

-----------------------------------------------------------------------------
(* vertiyOtp.                                                              *)

StartVerify(r, e) == \E c \in Codes : Begin(r, "otp", e, c)

\* Mutant of CheckOtp: compareHash is not awaited, and a promise is truthy.
CheckOtpWithoutAwait(r) ==
    /\ req[r].pc = "otp"
    /\ \/ /\ OtpOf(req[r].email) = {}
          /\ Refuse(r)
          /\ UNCHANGED verified
       \/ /\ OtpOf(req[r].email) # {}
          /\ Goto(r, "forget")
          /\ verified' = verified \cup
                {o.email : o \in {p \in OtpOf(req[r].email) : p.code = req[r].code}}
    /\ UNCHANGED <<stores, delivered>>

\* vaildOtp: the entry must be there and its hash must match the code.
CheckOtp(r) ==
    /\ req[r].pc = "otp"
    /\ LET matching == {o \in OtpOf(req[r].email) : o.code = req[r].code}
       IN \/ /\ matching = {}
             /\ Refuse(r)
             /\ UNCHANGED verified
          \/ /\ matching # {}
             /\ Goto(r, "forget")
             /\ verified' = verified \cup {req[r].email}
    /\ UNCHANGED <<stores, delivered>>

\* deleteOtp: whatever code the entry holds by now.
ForgetOtp(r) ==
    /\ req[r].pc = "forget"
    /\ otps' = otps \ OtpOf(req[r].email)
    /\ Goto(r, "flag")
    /\ UNCHANGED <<users, flags, delivered, verified>>

SetFlag(r) ==
    /\ req[r].pc = "flag"
    /\ flags' = (flags \ FlagOf(req[r].email))
                \cup {[email |-> req[r].email, left |-> FlagTTL]}
    /\ End(r, "verified")
    /\ UNCHANGED <<users, otps, delivered, verified>>

-----------------------------------------------------------------------------
(* register.                                                               *)

StartRegister(r, e) == Begin(r, "check", e, NoCode)

\* getOnKey: without the flag the verification has expired.
CheckFlag(r) ==
    /\ req[r].pc = "check"
    /\ \/ FlagOf(req[r].email) = {} /\ Refuse(r)
       \/ FlagOf(req[r].email) # {} /\ Goto(r, "consume")
    /\ UNCHANGED <<stores, delivered, verified>>

\* Mutant of ConsumeFlag: the flag is left to its TTL.
KeepFlag(r) ==
    /\ req[r].pc = "consume"
    /\ Goto(r, "insert")
    /\ UNCHANGED <<stores, delivered, verified>>

ConsumeFlag(r) ==
    /\ req[r].pc = "consume"
    /\ flags' = flags \ FlagOf(req[r].email)
    /\ Goto(r, "insert")
    /\ UNCHANGED <<users, otps, delivered, verified>>

\* createUser: the unique column refuses an address that another request has
\* registered meanwhile. The welcome mail is queued and nobody waits for it.
InsertUser(r) ==
    /\ req[r].pc = "insert"
    /\ \/ /\ req[r].email \in users
          /\ End(r, "unknown")
          /\ UNCHANGED users
       \/ /\ req[r].email \notin users
          /\ users' = users \cup {req[r].email}
          /\ End(r, "registered")
    /\ UNCHANGED <<otps, flags, delivered, verified>>

-----------------------------------------------------------------------------
(* The environment.                                                        *)

\* The call a request awaits is rejected, or the server dies.
Abort(r) ==
    /\ req[r] # Idle
    /\ End(r, "unknown")
    /\ UNCHANGED <<stores, delivered, verified>>

Aged(S) == {[x EXCEPT !.left = @ - 1] : x \in {y \in S : y.left > 1}}

\* Mutant of Tick: flags were set without a TTL.
TickKeepingFlags ==
    /\ otps' = Aged(otps)
    /\ UNCHANGED <<users, flags, req, delivered, verified, history>>

\* One tick of the clock; Redis drops what has expired.
Tick ==
    /\ otps' = Aged(otps)
    /\ flags' = Aged(flags)
    /\ UNCHANGED <<users, req, delivered, verified, history>>

Init ==
    /\ users = {}
    /\ otps = {}
    /\ flags = {}
    /\ req = [r \in Requests |-> Idle]
    /\ delivered = [e \in Emails |-> NoCode]
    /\ verified = {}
    /\ contended = {}
    /\ stage = [e \in Emails |-> "new"]

Step(r) ==
    \/ SendMail(r) \/ StoreOtp(r)
    \/ CheckOtp(r) \/ ForgetOtp(r) \/ SetFlag(r)
    \/ CheckFlag(r) \/ ConsumeFlag(r) \/ InsertUser(r)

Start(r, e) == StartConfirm(r, e) \/ StartVerify(r, e) \/ StartRegister(r, e)

Next ==
    \/ \E r \in Requests, e \in Emails : Start(r, e)
    \/ \E r \in Requests : Step(r) \/ Abort(r)
    \/ Tick

Spec == Init /\ [][Next]_vars

\* Time passes, and a request in flight is answered, fails or dies with its server.
FairSpec ==
    /\ Spec
    /\ WF_vars(Tick)
    /\ \A r \in Requests : WF_vars(Step(r) \/ Abort(r))

-----------------------------------------------------------------------------
(* Properties.                                                             *)

TypeOK ==
    /\ users \subseteq Emails
    /\ otps \subseteq OtpType
    /\ flags \subseteq FlagType
    /\ req \in [Requests -> ReqType]
    /\ delivered \in [Emails -> Codes \cup {NoCode}]
    /\ verified \subseteq Emails
    /\ contended \subseteq Requests
    /\ stage \in [Emails -> Stages]

\* Three requests and two expiring entries lie between a mail and an account, yet an
\* account or a flag only ever exists for an address whose code has come back.
AccountsAreVerified ==
    /\ users \subseteq verified
    /\ \A f \in flags : f.email \in verified

\* When the last request of an address ran alone and succeeded, what the client was
\* told is true: the code just mailed is the only one that will be accepted, a code
\* that has been redeemed is gone, an account has no flag left that could open it
\* again.
QuietStagesAgree ==
    \A e \in Emails :
        InFlightOf(e) = {} =>
            /\ stage[e] = "coded" => \A o \in OtpOf(e) : o.code = delivered[e]
            /\ stage[e] = "verified" => OtpOf(e) = {} /\ e \notin users
            /\ stage[e] = "registered" => e \in users /\ FlagOf(e) = {}

\* Codes and flags of a registered address, those that requests overtaken by the
\* registration still leave behind included, disappear for good.
LeftoversDie ==
    \A e \in Emails : e \in users ~> [](OtpOf(e) = {} /\ FlagOf(e) = {})

=============================================================================
