------------------------- MODULE RegistrationProofs -------------------------
(* Theorems about Registration, for every set of addresses, codes and        *)
(* requests and all lifetimes.                                             *)
EXTENDS Registration, TLAPS

USE RegistrationAssumption

\* What a request in flight has behind it: past the comparison of the code, or past
\* the check of the flag, its address is a verified one; and a confirmation carries
\* the code that it has drawn.
PastProof ==
    \A r \in Requests :
        /\ req[r].pc \in {"forget", "flag", "consume", "insert"} => req[r].email \in verified
        /\ req[r].pc \in {"mail", "store"} => req[r].code \in Codes

Inv == TypeOK /\ AccountsAreVerified /\ PastProof

-----------------------------------------------------------------------------
(* Types.                                                                  *)

BusyType ==
    [pc : {"mail", "store", "otp", "forget", "flag", "check", "consume", "insert"},
     email : Emails, code : Codes \cup {NoCode}, mailed : BOOLEAN]

\* A request that is not idle is a record that names its address.
LEMMA Busy ==
    ASSUME TypeOK, NEW r \in Requests, req[r] # Idle
    PROVE  req[r] \in BusyType /\ req[r].email \in Emails
  BY DEF TypeOK, ReqType, BusyType

LEMMA EndType ==
    ASSUME TypeOK, NEW r \in Requests, NEW reached \in Stages, End(r, reached)
    PROVE  /\ req' \in [Requests -> ReqType]
           /\ contended' \subseteq Requests
           /\ stage' \in [Emails -> Stages]
           /\ req'[r] = Idle /\ \A q \in Requests : q # r => req'[q] = req[q]
  BY DEF TypeOK, End, ReqType, Stages

LEMMA RefuseType ==
    ASSUME TypeOK, NEW r \in Requests, req[r] # Idle, Refuse(r)
    PROVE  /\ req' \in [Requests -> ReqType]
           /\ contended' \subseteq Requests
           /\ stage' \in [Emails -> Stages]
           /\ req'[r] = Idle /\ \A q \in Requests : q # r => req'[q] = req[q]
  <1>1. stage[req[r].email] \in Stages
    BY Busy DEF TypeOK
  <1> QED BY <1>1, EndType DEF Refuse

LEMMA GotoType ==
    ASSUME TypeOK, NEW r \in Requests, req[r] # Idle, Goto(r, "forget") \/ Goto(r, "flag")
                                    \/ Goto(r, "consume") \/ Goto(r, "insert")
    PROVE  /\ req' \in [Requests -> ReqType]
           /\ contended' \subseteq Requests
           /\ stage' \in [Emails -> Stages]
           /\ req'[r].email = req[r].email /\ req'[r].pc \notin {"mail", "store"}
           /\ \A q \in Requests : q # r => req'[q] = req[q]
  <1>1. PICK pc \in {"forget", "flag", "consume", "insert"} : Goto(r, pc)
    OBVIOUS
  <1>2. req' = [req EXCEPT ![r] = [req[r] EXCEPT !.pc = pc]]
    BY <1>1 DEF Goto, TypeOK
  <1>3. /\ [req[r] EXCEPT !.pc = pc] \in BusyType
        /\ [req[r] EXCEPT !.pc = pc].email = req[r].email
        /\ [req[r] EXCEPT !.pc = pc].pc = pc
    BY Busy DEF BusyType
  <1>4. [req[r] EXCEPT !.pc = pc] \in ReqType
    BY <1>3 DEF BusyType, ReqType
  <1> QED BY <1>1, <1>2, <1>3, <1>4 DEF Goto, history, TypeOK

LEMMA AgedType ==
    /\ \A S \in SUBSET OtpType : Aged(S) \subseteq OtpType
    /\ \A S \in SUBSET FlagType :
          Aged(S) \subseteq FlagType /\ \A f \in Aged(S) : \E g \in S : f.email = g.email
  <1>1. ASSUME NEW x \in OtpType, x.left > 1
        PROVE  [x EXCEPT !.left = @ - 1] \in OtpType
    BY <1>1 DEF OtpType
  <1>2. ASSUME NEW x \in FlagType, x.left > 1
        PROVE  /\ [x EXCEPT !.left = @ - 1] \in FlagType
               /\ [x EXCEPT !.left = @ - 1].email = x.email
    BY <1>2 DEF FlagType
  <1> QED BY <1>1, <1>2 DEF Aged

-----------------------------------------------------------------------------
(* One lemma per stage of the protocol.                                    *)

LEMMA StartInv ==
    ASSUME Inv, NEW r \in Requests, NEW e \in Emails, Start(r, e)
    PROVE  Inv'
  <1>1. PICK pc \in {"mail", "otp", "check"}, c \in Codes \cup {NoCode} :
            Begin(r, pc, e, c) /\ (pc = "mail" => c \in Codes)
    BY DEF Start, StartConfirm, StartVerify, StartRegister
  <1>2. [pc |-> pc, email |-> e, code |-> c, mailed |-> FALSE] \in ReqType
    BY DEF ReqType
  <1>3. TypeOK'
    BY <1>1, <1>2 DEF Begin, stores, Inv, TypeOK, InFlightOf
  <1> QED BY <1>1, <1>3 DEF Begin, stores, Inv, TypeOK, AccountsAreVerified, PastProof

LEMMA ConfirmInv ==
    ASSUME Inv, NEW r \in Requests, SendMail(r) \/ StoreOtp(r)
    PROVE  Inv'
  <1> USE DEF Inv
  <1>1. req[r] # Idle
    BY DEF SendMail, StoreOtp, Idle
  <1>2. req[r] \in BusyType /\ req[r].email \in Emails
    BY <1>1, Busy
  <1>3. CASE SendMail(r)
    <2>1. PICK sent \in BOOLEAN :
              /\ req' = [req EXCEPT ![r] = [req[r] EXCEPT !.pc = "store", !.mailed = sent]]
              /\ delivered' = IF sent THEN [delivered EXCEPT ![req[r].email] = req[r].code]
                              ELSE delivered
      BY <1>3 DEF SendMail, TypeOK
    <2>2. [req[r] EXCEPT !.pc = "store", !.mailed = sent] \in BusyType
      BY <1>2 DEF BusyType
    <2>3. req' \in [Requests -> ReqType]
      BY <2>1, <2>2 DEF BusyType, ReqType, TypeOK
    <2>4. delivered' \in [Emails -> Codes \cup {NoCode}]
      BY <1>2, <2>1 DEF BusyType, TypeOK
    <2>5. TypeOK'
      BY <1>3, <2>3, <2>4 DEF SendMail, stores, history, TypeOK
    <2>6. PastProof'
      <3>1. req[r].code \in Codes
        BY <1>3 DEF SendMail, PastProof
      <3>2. req'[r].pc = "store" /\ req'[r].code \in Codes
        BY <1>2, <2>1, <3>1 DEF BusyType, TypeOK
      <3>3. \A q \in Requests : q # r => req'[q] = req[q]
        BY <2>1 DEF TypeOK
      <3> QED BY <1>3, <3>2, <3>3 DEF SendMail, PastProof
    <2> QED BY <1>3, <2>5, <2>6 DEF SendMail, stores, AccountsAreVerified
  <1>4. CASE StoreOtp(r)
    <2>1. /\ req' \in [Requests -> ReqType] /\ contended' \subseteq Requests
          /\ stage' \in [Emails -> Stages]
          /\ req'[r] = Idle /\ \A q \in Requests : q # r => req'[q] = req[q]
      BY <1>4, EndType DEF StoreOtp, Stages
    <2>2. req[r].code \in Codes
      BY <1>4 DEF StoreOtp, PastProof
    <2>3. otps' \subseteq OtpType
      BY <1>2, <1>4, <2>2 DEF StoreOtp, OtpType, TypeOK
    <2> QED BY <1>4, <2>1, <2>3 DEF StoreOtp, TypeOK, AccountsAreVerified, PastProof, Idle
  <1> QED BY <1>3, <1>4

LEMMA VerifyInv ==
    ASSUME Inv, NEW r \in Requests, CheckOtp(r) \/ ForgetOtp(r) \/ SetFlag(r)
    PROVE  Inv'
  <1> USE DEF Inv
  <1>1. req[r] # Idle
    BY DEF CheckOtp, ForgetOtp, SetFlag, Idle
  <1>2. req[r].email \in Emails
    BY <1>1, Busy
  <1>3. CASE CheckOtp(r) /\ Refuse(r) /\ UNCHANGED verified
    BY <1>1, <1>3, RefuseType
       DEF CheckOtp, stores, TypeOK, AccountsAreVerified, PastProof, Idle
  <1>4. CASE CheckOtp(r) /\ Goto(r, "forget") /\ verified' = verified \cup {req[r].email}
    BY <1>1, <1>2, <1>4, GotoType
       DEF CheckOtp, stores, TypeOK, AccountsAreVerified, PastProof
  <1>5. CASE ForgetOtp(r)
    BY <1>1, <1>5, GotoType DEF ForgetOtp, TypeOK, AccountsAreVerified, PastProof
  <1>6. CASE SetFlag(r)
    <2>1. /\ req' \in [Requests -> ReqType] /\ contended' \subseteq Requests
          /\ stage' \in [Emails -> Stages]
          /\ req'[r] = Idle /\ \A q \in Requests : q # r => req'[q] = req[q]
      BY <1>6, EndType DEF SetFlag, Stages
    <2>2. req[r].email \in verified
      BY <1>6 DEF SetFlag, PastProof
    <2>3. flags' \subseteq FlagType
      BY <1>2, <1>6 DEF SetFlag, FlagType, TypeOK
    <2> QED BY <1>6, <2>1, <2>2, <2>3
            DEF SetFlag, TypeOK, AccountsAreVerified, PastProof, Idle
  <1> QED BY <1>3, <1>4, <1>5, <1>6 DEF CheckOtp

LEMMA RegisterInv ==
    ASSUME Inv, NEW r \in Requests, CheckFlag(r) \/ ConsumeFlag(r) \/ InsertUser(r)
    PROVE  Inv'
  <1> USE DEF Inv
  <1>1. req[r] # Idle
    BY DEF CheckFlag, ConsumeFlag, InsertUser, Idle
  <1>2. req[r].email \in Emails
    BY <1>1, Busy
  <1>3. CASE CheckFlag(r) /\ Refuse(r)
    BY <1>1, <1>3, RefuseType
       DEF CheckFlag, stores, TypeOK, AccountsAreVerified, PastProof, Idle
  <1>4. CASE CheckFlag(r) /\ FlagOf(req[r].email) # {} /\ Goto(r, "consume")
    <2>1. req[r].email \in verified
      BY <1>4 DEF FlagOf, AccountsAreVerified
    <2> QED BY <1>1, <1>4, <2>1, GotoType
            DEF CheckFlag, stores, TypeOK, AccountsAreVerified, PastProof
  <1>5. CASE ConsumeFlag(r)
    <2>1. req[r].email \in verified
      BY <1>5 DEF ConsumeFlag, PastProof
    <2> QED BY <1>1, <1>5, <2>1, GotoType
            DEF ConsumeFlag, TypeOK, AccountsAreVerified, PastProof
  <1>6. CASE InsertUser(r)
    <2>1. /\ req' \in [Requests -> ReqType] /\ contended' \subseteq Requests
          /\ stage' \in [Emails -> Stages]
          /\ req'[r] = Idle /\ \A q \in Requests : q # r => req'[q] = req[q]
      BY <1>6, EndType DEF InsertUser, Stages
    <2>2. req[r].email \in verified
      BY <1>6 DEF InsertUser, PastProof
    <2>3. users' \subseteq users \cup {req[r].email}
      BY <1>6 DEF InsertUser
    <2> QED BY <1>2, <1>6, <2>1, <2>2, <2>3
            DEF InsertUser, TypeOK, AccountsAreVerified, PastProof, Idle
  <1> QED BY <1>3, <1>4, <1>5, <1>6 DEF CheckFlag

LEMMA AbortInv ==
    ASSUME Inv, NEW r \in Requests, Abort(r)
    PROVE  Inv'
  BY EndType DEF Abort, stores, Inv, Stages, TypeOK, AccountsAreVerified, PastProof, Idle

LEMMA TickInv ==
    ASSUME Inv, Tick
    PROVE  Inv'
  BY AgedType DEF Tick, history, Inv, TypeOK, AccountsAreVerified, PastProof

LEMMA NextInv ==
    ASSUME Inv, [Next]_vars
    PROVE  Inv'
  <1>1. CASE UNCHANGED vars
    BY <1>1 DEF vars, Inv, TypeOK, AccountsAreVerified, PastProof
  <1>2. CASE Next
    BY <1>2, StartInv, ConfirmInv, VerifyInv, RegisterInv, AbortInv, TickInv DEF Next, Step
  <1> QED BY <1>1, <1>2

-----------------------------------------------------------------------------
(* A request that runs alone finds what the last one of its address left.   *)

\* What the stage of e says of its code, its flag and its account.
Agree(e) ==
    /\ stage[e] = "coded" => \A o \in OtpOf(e) : o.code = delivered[e]
    /\ stage[e] = "verified" => OtpOf(e) = {} /\ e \notin users
    /\ stage[e] = "registered" => e \in users /\ FlagOf(e) = {}

\* Of two requests for one address, each is known to overlap another.
Overlaps ==
    \A q, r \in Requests :
        q # r /\ req[q] # Idle /\ req[r] # Idle /\ req[q].email = req[r].email => r \in contended

\* What the request q for the address e has behind it when it is alone.
Solo(q, e) ==
    /\ q.pc \in {"mail", "otp", "check"} => Agree(e)
    /\ q.pc = "store" /\ q.mailed => delivered[e] = q.code
    /\ q.pc \in {"otp", "forget", "flag"} => e \notin users
    /\ q.pc = "flag" => OtpOf(e) = {}
    /\ q.pc = "insert" => FlagOf(e) = {}

Alone ==
    \A r \in Requests : \A e \in Emails :
        req[r] # Idle /\ req[r].email = e /\ r \notin contended => Solo(req[r], e)

QuietInv == Overlaps /\ Alone /\ QuietStagesAgree

\* A step that leaves the address e alone.
Same(e) ==
    /\ UNCHANGED OtpOf(e) /\ UNCHANGED FlagOf(e)
    /\ e \in users' <=> e \in users
    /\ delivered'[e] = delivered[e] /\ stage'[e] = stage[e]

LEMMA SameSolo ==
    ASSUME NEW r \in Requests, NEW e \in Emails, Same(e), req'[r] = req[r], Solo(req[r], e)
    PROVE  Solo(req[r], e)'
  <1>1. Agree(e) => Agree(e)'
    BY DEF Same, Agree
  <1> QED BY <1>1 DEF Same, Solo

\* The request r ends, or goes on for its address.
Proceeds(r) ==
    /\ \A q \in Requests : q # r => req'[q] = req[q]
    /\ \/ req'[r] = Idle /\ contended' = contended \ {r}
       \/ req'[r] # Idle /\ req'[r].email = req[r].email /\ contended' = contended

\* A request proceeds; it is left to show what that means for itself.
LEMMA ProceedsInv ==
    ASSUME Inv, QuietInv, NEW r \in Requests, NEW e \in Emails, req[r] # Idle, e = req[r].email,
           Proceeds(r), \A x \in Emails : x # e => Same(x),
           req'[r] = Idle => Agree(e)',
           req'[r] # Idle /\ r \notin contended => Solo(req[r], e)'
    PROVE  QuietInv'
  <1>2. ASSUME NEW q \in Requests, req'[q] # Idle
        PROVE  req[q] # Idle /\ req'[q].email = req[q].email
    BY <1>2 DEF Proceeds
  <1>3. Overlaps'
    <2> SUFFICES ASSUME NEW p \in Requests, NEW q \in Requests, p # q, req'[p] # Idle, req'[q] # Idle,
                        req'[p].email = req'[q].email
                 PROVE  q \in contended'
      BY DEF Overlaps
    <2>1. q \in contended
      BY <1>2 DEF QuietInv, Overlaps
    <2> QED BY <2>1 DEF Proceeds
  <1>4. ASSUME NEW q \in Requests, NEW x \in Emails, req'[q] # Idle, req'[q].email = x, q \notin contended'
        PROVE  Solo(req[q], x)'
    <2>1. CASE q = r
      <3>1. x = e /\ r \notin contended
        BY <1>2, <1>4, <2>1 DEF Proceeds
      <3> QED BY <1>4, <2>1, <3>1
    <2>2. CASE q # r
      <3>1. req'[q] = req[q] /\ req[q] # Idle /\ q \notin contended
        BY <1>4, <2>2 DEF Proceeds
      <3>2. Solo(req[q], x) /\ x # e
        BY <1>4, <2>2, <3>1 DEF QuietInv, Overlaps, Alone
      <3> QED BY <3>1, <3>2, SameSolo
    <2> QED BY <2>1, <2>2
  <1>5. ASSUME NEW x \in Emails, InFlightOf(x)' = {} PROVE Agree(x)'
    <2>1. CASE x = e
      <3>1. req'[r] = Idle
        BY <1>2, <1>5, <2>1 DEF InFlightOf
      <3> QED BY <2>1, <3>1
    <2>2. CASE x # e
      <3>1. InFlightOf(x) = {}
        BY <1>5, <2>2 DEF InFlightOf, Proceeds
      <3>2. Agree(x)
        BY <3>1 DEF QuietInv, QuietStagesAgree, Agree
      <3>3. Same(x)
        BY <2>2
      <3> QED BY <3>2, <3>3 DEF Same, Agree
    <2> QED BY <2>1, <2>2
  <1>6. Alone'
    BY <1>4 DEF Alone
  <1>7. QuietStagesAgree'
    BY <1>5 DEF QuietStagesAgree, Agree
  <1> QED BY <1>3, <1>6, <1>7 DEF QuietInv

\* How a request ends,
LEMMA Ends ==
    ASSUME Inv, NEW r \in Requests, req[r] # Idle, NEW reached, End(r, reached)
    PROVE  /\ Proceeds(r) /\ req'[r] = Idle
           /\ \A e \in Emails : e # req[r].email => stage'[e] = stage[e]
           /\ stage'[req[r].email] = IF r \in contended THEN "unknown" ELSE reached
  <1>1. req[r].email \in Emails
    BY Busy DEF Inv
  <1> QED BY <1>1 DEF End, Proceeds, Inv, TypeOK

\* and how it goes on.
LEMMA Goes ==
    ASSUME Inv, NEW r \in Requests, req[r] # Idle, NEW pc \in {"forget", "flag", "consume", "insert"},
           Goto(r, pc)
    PROVE  /\ Proceeds(r) /\ req'[r] # Idle /\ req'[r].pc = pc /\ req'[r].email = req[r].email
           /\ \A e \in Emails : stage'[e] = stage[e]
  <1>1. req[r] \in BusyType
    BY Busy DEF Inv
  <1>2. PICK t : t = [req[r] EXCEPT !.pc = pc]
    OBVIOUS
  <1>3. t.pc = pc /\ t.email = req[r].email /\ t # Idle
    BY <1>1, <1>2 DEF BusyType, Idle
  <1>4. req'[r] = t /\ \A q \in Requests : q # r => req'[q] = req[q]
    BY <1>2 DEF Goto, Inv, TypeOK
  <1> QED BY <1>3, <1>4 DEF Goto, Proceeds, history

LEMMA StartQuiet ==
    ASSUME Inv, QuietInv, NEW r \in Requests, NEW e \in Emails, Start(r, e)
    PROVE  QuietInv'
  <1>1. PICK pc \in {"mail", "otp", "check"}, c \in Codes \cup {NoCode} : Begin(r, pc, e, c)
    BY DEF Start, StartConfirm, StartVerify, StartRegister
  <1>2. PICK t : t = [pc |-> pc, email |-> e, code |-> c, mailed |-> FALSE]
    OBVIOUS
  <1>3. /\ req[r] = Idle /\ req'[r] = t /\ t # Idle /\ t.email = e /\ t.pc = pc
        /\ \A q \in Requests : q # r => req'[q] = req[q]
    BY <1>1, <1>2 DEF Begin, Inv, TypeOK, Idle
  <1>4. /\ contended' = IF InFlightOf(e) = {} THEN contended \ {r} ELSE contended \cup InFlightOf(e) \cup {r}
        /\ UNCHANGED <<users, otps, flags, delivered, stage>>
    BY <1>1 DEF Begin, stores
  <1>5. \A x : Agree(x) => Agree(x)'
    BY <1>4 DEF Agree, OtpOf, FlagOf
  <1>6. \A x : Same(x)
    BY <1>4 DEF Same, OtpOf, FlagOf
  <1>7. Overlaps'
    <2> SUFFICES ASSUME NEW p \in Requests, NEW q \in Requests, p # q, req'[p] # Idle, req'[q] # Idle,
                        req'[p].email = req'[q].email
                 PROVE  q \in contended'
      BY DEF Overlaps
    <2>1. CASE q = r
      BY <1>3, <1>4, <2>1 DEF InFlightOf
    <2>2. CASE p = r
      BY <1>3, <1>4, <2>2 DEF InFlightOf
    <2>3. CASE p # r /\ q # r
      BY <1>3, <1>4, <2>3 DEF QuietInv, Overlaps
    <2> QED BY <2>1, <2>2, <2>3
  <1>8. Alone'
    <2> SUFFICES ASSUME NEW q \in Requests, NEW x \in Emails, req'[q] # Idle, req'[q].email = x,
                        q \notin contended'
                 PROVE  Solo(req[q], x)'
      BY DEF Alone
    <2>1. CASE q = r
      <3>1. InFlightOf(e) = {} /\ x = e
        BY <1>3, <1>4, <2>1
      <3>2. Agree(x)
        BY <3>1 DEF QuietInv, QuietStagesAgree, Agree
      <3>3. Agree(x)'
        BY <1>5, <3>2
      <3>4. req'[q].pc \in {"mail", "otp", "check"} /\ e \notin users'
        BY <1>1, <1>3, <1>4, <2>1 DEF Begin
      <3> QED BY <3>1, <3>3, <3>4 DEF Solo
    <2>2. CASE q # r
      <3>1. req'[q] = req[q] /\ q \notin contended
        BY <1>3, <1>4, <2>2
      <3>2. Solo(req[q], x)
        BY <3>1 DEF QuietInv, Alone
      <3> QED BY <1>6, <3>1, <3>2, SameSolo
    <2> QED BY <2>1, <2>2
  <1>9. QuietStagesAgree'
    <2> SUFFICES ASSUME NEW x \in Emails, InFlightOf(x)' = {} PROVE Agree(x)'
      BY DEF QuietStagesAgree, Agree
    <2>1. InFlightOf(x) = {}
      BY <1>3 DEF InFlightOf
    <2>2. Agree(x)
      BY <2>1 DEF QuietInv, QuietStagesAgree, Agree
    <2> QED BY <1>5, <2>2
  <1> QED BY <1>7, <1>8, <1>9 DEF QuietInv

LEMMA ConfirmQuiet ==
    ASSUME Inv, QuietInv, NEW r \in Requests, SendMail(r) \/ StoreOtp(r)
    PROVE  QuietInv'
  <1>1. req[r] # Idle
    BY DEF SendMail, StoreOtp, Idle
  <1>2. req[r] \in BusyType /\ req[r].email \in Emails
    BY <1>1, Busy DEF Inv
  <1>3. CASE SendMail(r)
    <2>1. PICK sent \in BOOLEAN :
              /\ req' = [req EXCEPT ![r] = [req[r] EXCEPT !.pc = "store", !.mailed = sent]]
              /\ delivered' = IF sent THEN [delivered EXCEPT ![req[r].email] = req[r].code]
                              ELSE delivered
      BY <1>3 DEF SendMail, Inv, TypeOK
    <2>2. PICK t : t = [req[r] EXCEPT !.pc = "store", !.mailed = sent]
      OBVIOUS
    <2>3. /\ t.pc = "store" /\ t.mailed = sent /\ t.email = req[r].email /\ t.code = req[r].code
          /\ t # Idle
      BY <1>2, <2>2 DEF BusyType, Idle
    <2>4. req'[r] = t /\ \A q \in Requests : q # r => req'[q] = req[q]
      BY <2>1, <2>2 DEF Inv, TypeOK
    <2>5. Proceeds(r)
      BY <1>3, <2>3, <2>4 DEF Proceeds, SendMail, history
    <2>6. PICK e \in Emails : e = req[r].email
      BY <1>2
    <2>7. \A x \in Emails : x # e => Same(x)
      BY <1>3, <2>1, <2>6 DEF SendMail, stores, history, Same, OtpOf, FlagOf, Inv, TypeOK
    <2>8. sent => delivered'[e] = req[r].code
      BY <1>2, <2>1, <2>6 DEF Inv, TypeOK
    <2>9. Solo(req[r], e)'
      BY <2>3, <2>4, <2>8 DEF Solo
    <2> QED BY <1>1, <2>3, <2>4, <2>5, <2>6, <2>7, <2>9, ProceedsInv
  <1>4. CASE StoreOtp(r)
    <2>1. PICK e \in Emails : e = req[r].email
      BY <1>2
    <2>2. /\ otps' = (otps \ OtpOf(e)) \cup {[email |-> e, code |-> req[r].code, left |-> OtpTTL]}
          /\ End(r, IF req[r].mailed THEN "coded" ELSE "unknown")
          /\ UNCHANGED <<users, flags, delivered, verified>>
      BY <1>4, <2>1 DEF StoreOtp
    <2>3. /\ Proceeds(r) /\ req'[r] = Idle
          /\ \A x \in Emails : x # e => stage'[x] = stage[x]
          /\ stage'[e] = IF r \in contended THEN "unknown"
                         ELSE IF req[r].mailed THEN "coded" ELSE "unknown"
      BY <1>1, <2>1, <2>2, Ends
    <2>4. \A x \in Emails : x # e => Same(x)
      BY <2>2, <2>3 DEF Same, OtpOf, FlagOf
    <2>5. stage'[e] = "coded" => \A o \in OtpOf(e)' : o.code = delivered'[e]
      <3>1. \A o \in OtpOf(e)' : o.code = req[r].code
        BY <2>2 DEF OtpOf
      <3>2. stage'[e] = "coded" => delivered[e] = req[r].code
        BY <1>1, <1>4, <2>1, <2>3 DEF QuietInv, Alone, Solo, StoreOtp
      <3> QED BY <2>2, <3>1, <3>2
    <2>6. Agree(e)'
      BY <2>3, <2>5 DEF Agree
    <2> QED BY <1>1, <2>1, <2>3, <2>4, <2>6, ProceedsInv
  <1> QED BY <1>3, <1>4

\* A request is refused: nothing has changed since it began.
LEMMA RefuseQuiet ==
    ASSUME Inv, QuietInv, NEW r \in Requests, req[r].pc \in {"otp", "check"}, Refuse(r),
           UNCHANGED <<stores, delivered>>
    PROVE  QuietInv'
  <1>1. req[r] # Idle
    BY DEF Idle
  <1>2. PICK e \in Emails : e = req[r].email
    BY <1>1, Busy DEF Inv
  <1>3. /\ Proceeds(r) /\ req'[r] = Idle
        /\ \A x \in Emails : x # e => stage'[x] = stage[x]
        /\ stage'[e] = IF r \in contended THEN "unknown" ELSE stage[e]
    BY <1>1, <1>2, Ends DEF Refuse
  <1>4. \A x \in Emails : x # e => Same(x)
    BY <1>3 DEF Same, OtpOf, FlagOf, stores
  <1>5. r \notin contended => Agree(e)
    BY <1>1, <1>2 DEF QuietInv, Alone, Solo
  <1>6. Agree(e)'
    BY <1>3, <1>5 DEF Agree, OtpOf, FlagOf, stores
  <1> QED BY <1>1, <1>2, <1>3, <1>4, <1>6, ProceedsInv

LEMMA VerifyQuiet ==
    ASSUME Inv, QuietInv, NEW r \in Requests, CheckOtp(r) \/ ForgetOtp(r) \/ SetFlag(r)
    PROVE  QuietInv'
  <1>1. req[r] # Idle
    BY DEF CheckOtp, ForgetOtp, SetFlag, Idle
  <1>2. PICK e \in Emails : e = req[r].email
    BY <1>1, Busy DEF Inv
  <1>3. CASE CheckOtp(r) /\ Refuse(r)
    BY <1>3, RefuseQuiet DEF CheckOtp
  <1>4. CASE CheckOtp(r) /\ Goto(r, "forget") /\ OtpOf(e) # {}
    <2>1. /\ Proceeds(r) /\ req'[r] # Idle /\ req'[r].pc = "forget" /\ req'[r].email = e
          /\ \A x \in Emails : stage'[x] = stage[x]
      BY <1>1, <1>2, <1>4, Goes
    <2>2. req[r].pc = "otp" /\ UNCHANGED <<users, otps, flags, delivered>>
      BY <1>4 DEF CheckOtp, stores
    <2>3. \A x \in Emails : Same(x)
      BY <2>1, <2>2 DEF Same, OtpOf, FlagOf
    <2>4. r \notin contended => e \notin users
      BY <1>1, <1>2, <2>2 DEF QuietInv, Alone, Solo
    <2>5. r \notin contended => Solo(req[r], e)'
      BY <2>1, <2>2, <2>4 DEF Solo
    <2> QED BY <1>1, <1>2, <2>1, <2>3, <2>5, ProceedsInv
  <1>5. CASE ForgetOtp(r)
    <2>1. /\ Proceeds(r) /\ req'[r] # Idle /\ req'[r].pc = "flag" /\ req'[r].email = e
          /\ \A x \in Emails : stage'[x] = stage[x]
      BY <1>1, <1>2, <1>5, Goes DEF ForgetOtp
    <2>2. /\ req[r].pc = "forget" /\ otps' = otps \ OtpOf(e) /\ UNCHANGED <<users, flags, delivered>>
      BY <1>2, <1>5 DEF ForgetOtp
    <2>3. \A x \in Emails : x # e => Same(x)
      BY <2>1, <2>2 DEF Same, OtpOf, FlagOf
    <2>4. OtpOf(e)' = {}
      BY <2>2 DEF OtpOf
    <2>5. r \notin contended => e \notin users
      BY <1>1, <1>2, <2>2 DEF QuietInv, Alone, Solo
    <2>6. r \notin contended => Solo(req[r], e)'
      BY <2>1, <2>2, <2>4, <2>5 DEF Solo
    <2> QED BY <1>1, <1>2, <2>1, <2>3, <2>6, ProceedsInv
  <1>6. CASE SetFlag(r)
    <2>1. /\ Proceeds(r) /\ req'[r] = Idle
          /\ \A x \in Emails : x # e => stage'[x] = stage[x]
          /\ stage'[e] = IF r \in contended THEN "unknown" ELSE "verified"
      BY <1>1, <1>2, <1>6, Ends DEF SetFlag
    <2>2. /\ req[r].pc = "flag" /\ flags' = (flags \ FlagOf(e)) \cup {[email |-> e, left |-> FlagTTL]}
          /\ UNCHANGED <<users, otps, delivered>>
      BY <1>2, <1>6 DEF SetFlag
    <2>3. \A x \in Emails : x # e => Same(x)
      BY <2>1, <2>2 DEF Same, OtpOf, FlagOf
    <2>4. r \notin contended => e \notin users /\ OtpOf(e) = {}
      BY <1>1, <1>2, <2>2 DEF QuietInv, Alone, Solo
    <2>5. Agree(e)'
      BY <2>1, <2>2, <2>4 DEF Agree, OtpOf
    <2> QED BY <1>1, <1>2, <2>1, <2>3, <2>5, ProceedsInv
  <1> QED BY <1>2, <1>3, <1>4, <1>5, <1>6 DEF CheckOtp

LEMMA RegisterQuiet ==
    ASSUME Inv, QuietInv, NEW r \in Requests, CheckFlag(r) \/ ConsumeFlag(r) \/ InsertUser(r)
    PROVE  QuietInv'
  <1>1. req[r] # Idle
    BY DEF CheckFlag, ConsumeFlag, InsertUser, Idle
  <1>2. PICK e \in Emails : e = req[r].email
    BY <1>1, Busy DEF Inv
  <1>3. CASE CheckFlag(r) /\ Refuse(r)
    BY <1>3, RefuseQuiet DEF CheckFlag
  <1>4. CASE CheckFlag(r) /\ Goto(r, "consume")
    <2>1. /\ Proceeds(r) /\ req'[r] # Idle /\ req'[r].pc = "consume" /\ req'[r].email = e
          /\ \A x \in Emails : stage'[x] = stage[x]
      BY <1>1, <1>2, <1>4, Goes
    <2>2. UNCHANGED <<users, otps, flags, delivered>>
      BY <1>4 DEF CheckFlag, stores
    <2>3. \A x \in Emails : Same(x)
      BY <2>1, <2>2 DEF Same, OtpOf, FlagOf
    <2>4. Solo(req[r], e)'
      BY <2>1 DEF Solo
    <2> QED BY <1>1, <1>2, <2>1, <2>3, <2>4, ProceedsInv
  <1>5. CASE ConsumeFlag(r)
    <2>1. /\ Proceeds(r) /\ req'[r] # Idle /\ req'[r].pc = "insert" /\ req'[r].email = e
          /\ \A x \in Emails : stage'[x] = stage[x]
      BY <1>1, <1>2, <1>5, Goes DEF ConsumeFlag
    <2>2. flags' = flags \ FlagOf(e) /\ UNCHANGED <<users, otps, delivered>>
      BY <1>2, <1>5 DEF ConsumeFlag
    <2>3. \A x \in Emails : x # e => Same(x)
      BY <2>1, <2>2 DEF Same, OtpOf, FlagOf
    <2>4. FlagOf(e)' = {}
      BY <2>2 DEF FlagOf
    <2>5. Solo(req[r], e)'
      BY <2>1, <2>4 DEF Solo
    <2> QED BY <1>1, <1>2, <2>1, <2>3, <2>5, ProceedsInv
  <1>6. CASE InsertUser(r)
    <2>1. PICK reached \in {"registered", "unknown"} :
              /\ End(r, reached)
              /\ reached = "registered" => e \in users'
              /\ users \subseteq users' /\ users' \subseteq users \cup {e}
      BY <1>2, <1>6 DEF InsertUser
    <2>2. /\ Proceeds(r) /\ req'[r] = Idle
          /\ \A x \in Emails : x # e => stage'[x] = stage[x]
          /\ stage'[e] = IF r \in contended THEN "unknown" ELSE reached
      BY <1>1, <1>2, <2>1, Ends
    <2>3. req[r].pc = "insert" /\ UNCHANGED <<otps, flags, delivered>>
      BY <1>6 DEF InsertUser
    <2>4. \A x \in Emails : x # e => Same(x)
      BY <2>1, <2>2, <2>3 DEF Same, OtpOf, FlagOf
    <2>5. r \notin contended => FlagOf(e) = {}
      BY <1>1, <1>2, <2>3 DEF QuietInv, Alone, Solo
    <2>6. Agree(e)'
      BY <2>1, <2>2, <2>3, <2>5 DEF Agree, FlagOf
    <2> QED BY <1>1, <1>2, <2>2, <2>4, <2>6, ProceedsInv
  <1> QED BY <1>3, <1>4, <1>5, <1>6 DEF CheckFlag

LEMMA AbortQuiet ==
    ASSUME Inv, QuietInv, NEW r \in Requests, Abort(r)
    PROVE  QuietInv'
  <1>1. req[r] # Idle /\ End(r, "unknown") /\ UNCHANGED <<users, otps, flags, delivered>>
    BY DEF Abort, stores
  <1>2. PICK e \in Emails : e = req[r].email
    BY <1>1, Busy DEF Inv
  <1>3. /\ Proceeds(r) /\ req'[r] = Idle /\ stage'[e] = "unknown"
        /\ \A x \in Emails : x # e => stage'[x] = stage[x]
    BY <1>1, <1>2, Ends
  <1>4. \A x \in Emails : x # e => Same(x)
    BY <1>1, <1>3 DEF Same, OtpOf, FlagOf
  <1>5. Agree(e)'
    BY <1>3 DEF Agree
  <1> QED BY <1>1, <1>2, <1>3, <1>4, <1>5, ProceedsInv

LEMMA TickQuiet ==
    ASSUME Inv, QuietInv, Tick
    PROVE  QuietInv'
  <1>1. /\ otps' = Aged(otps) /\ flags' = Aged(flags)
        /\ UNCHANGED <<users, req, delivered, contended, stage>>
    BY DEF Tick, history
  <1>2. /\ \A o \in otps' : \E p \in otps : o.email = p.email /\ o.code = p.code
        /\ \A f \in flags' : \E g \in flags : f.email = g.email
    <2>1. ASSUME NEW p \in otps, p.left > 1
          PROVE  [p EXCEPT !.left = @ - 1].email = p.email /\ [p EXCEPT !.left = @ - 1].code = p.code
      <3>1. p \in [email : Emails, code : Codes, left : 1..OtpTTL]
        BY DEF Inv, TypeOK, OtpType
      <3> QED BY <3>1
    <2>2. ASSUME NEW g \in flags, g.left > 1 PROVE [g EXCEPT !.left = @ - 1].email = g.email
      <3>1. g \in [email : Emails, left : 1..FlagTTL]
        BY DEF Inv, TypeOK, FlagType
      <3> QED BY <3>1
    <2>3. ASSUME NEW o \in Aged(otps) PROVE \E p \in otps : o.email = p.email /\ o.code = p.code
      <3>1. PICK p \in otps : p.left > 1 /\ o = [p EXCEPT !.left = @ - 1]
        BY <2>3 DEF Aged
      <3> QED BY <2>1, <3>1
    <2>4. ASSUME NEW f \in Aged(flags) PROVE \E g \in flags : f.email = g.email
      <3>1. PICK g \in flags : g.left > 1 /\ f = [g EXCEPT !.left = @ - 1]
        BY <2>4 DEF Aged
      <3> QED BY <2>2, <3>1
    <2> QED BY <1>1, <2>3, <2>4
  <1>3. ASSUME NEW e
        PROVE  /\ OtpOf(e) = {} => OtpOf(e)' = {}
               /\ FlagOf(e) = {} => FlagOf(e)' = {}
               /\ Agree(e) => Agree(e)'
    <2>1. \A o \in OtpOf(e)' : \E p \in OtpOf(e) : o.code = p.code
      BY <1>2 DEF OtpOf
    <2>2. FlagOf(e) = {} => FlagOf(e)' = {}
      BY <1>2 DEF FlagOf
    <2> QED BY <1>1, <2>1, <2>2 DEF Agree
  <1>4. ASSUME NEW r \in Requests, NEW e \in Emails, Solo(req[r], e) PROVE Solo(req[r], e)'
    <2>1. req'[r] = req[r] /\ (e \in users' <=> e \in users) /\ delivered'[e] = delivered[e]
      BY <1>1
    <2> QED BY <1>3, <1>4, <2>1 DEF Solo
  <1> QED BY <1>1, <1>3, <1>4 DEF QuietInv, Overlaps, Alone, QuietStagesAgree, Agree, InFlightOf

LEMMA NextQuiet ==
    ASSUME Inv, QuietInv, [Next]_vars
    PROVE  QuietInv'
  <1>1. CASE UNCHANGED vars
    BY <1>1 DEF vars, QuietInv, Overlaps, Alone, Solo, QuietStagesAgree, Agree, InFlightOf, OtpOf, FlagOf
  <1>2. CASE Next
    BY <1>2, StartQuiet, ConfirmQuiet, VerifyQuiet, RegisterQuiet, AbortQuiet, TickQuiet DEF Next, Step
  <1> QED BY <1>1, <1>2

-----------------------------------------------------------------------------
(* The theorems.                                                           *)

LEMMA Invariance == Spec => []Inv
  <1>1. Init => Inv
    BY DEF Init, Inv, TypeOK, ReqType, Stages, AccountsAreVerified, PastProof, Idle
  <1>2. Inv /\ [Next]_vars => Inv'
    BY NextInv
  <1> QED BY <1>1, <1>2, PTL DEF Spec

\* TypeOK: every entry in Redis keeps a code, an address and a remaining lifetime, and
\* every request in flight those that it was sent with.
THEOREM TypeCorrect == Spec => []TypeOK
  <1>1. Inv => TypeOK
    BY DEF Inv
  <1> QED BY <1>1, Invariance, PTL

\* Nobody gets an account, or a flag that would open one, without having returned a
\* code that was stored for that very address: for every number of concurrent
\* confirmations, verifications and registrations, whatever expires or fails.
THEOREM OnlyVerifiedAccounts == Spec => []AccountsAreVerified
  <1>1. Inv => AccountsAreVerified
    BY DEF Inv
  <1> QED BY <1>1, Invariance, PTL

\* QuietStagesAgree: what the client was told by the last request of its address is true
\* of the stores, however many requests of other addresses, and earlier ones of its own,
\* it was interleaved with.
THEOREM StagesAgree == Spec => []QuietStagesAgree
  <1>1. Init => QuietInv
    BY DEF Init, QuietInv, Overlaps, Alone, QuietStagesAgree
  <1>2. Inv /\ QuietInv /\ [Next]_vars => QuietInv'
    BY NextQuiet
  <1>3. QuietInv => QuietStagesAgree
    BY DEF QuietInv
  <1> QED BY <1>1, <1>2, <1>3, Invariance, PTL DEF Spec

=============================================================================
