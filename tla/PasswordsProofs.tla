-------------------------- MODULE PasswordsProofs ---------------------------
(* Theorems about Passwords, for every set of users, passwords and requests. *)
EXTENDS Passwords, TLAPS

USE PasswordsAssumption

-----------------------------------------------------------------------------
(* The inductive invariant.                                                *)

\* Two requests of one user in flight together know that they overlap.
Exclusive ==
    \A q, r \in Requests :
        q # r /\ req[q] # Idle /\ req[r] # Idle /\ req[q].user = req[r].user
            => q \in contended

\* What a request that overlaps no other carries: a profile update the column as it
\* still is, a reset about to answer the text it has stored, a change a fresh hash.
CarriesOf(w, column) ==
    /\ w.pc \in {"select", "flush"} => w.pass = column
    /\ w.pc = "spend" => w.pass.text = column.text
    /\ w.pc = "change" => w.pass.layers = 1

Carried ==
    \A r \in Requests :
        req[r] # Idle /\ r \notin contended => CarriesOf(req[r], stored[req[r].user])

\* No overlapping requests of u, and no reset between its write and its answer.
Settled(u) == \A r \in InFlightOf(u) : r \notin contended /\ req[r].pc # "spend"

\* No overlapping requests of u.
Alone(u) == \A r \in InFlightOf(u) : r \notin contended

\* What was confirmed stays true while requests without overlap are under way.
Confirmed(u) ==
    /\ Settled(u) /\ known[u] # Unknown => stored[u].text = known[u]
    /\ Settled(u) /\ last[u] = "changed" => SignsIn(u)
    /\ Alone(u) /\ last[u] = "reset" => u \notin resetTokens

Inv == TypeOK /\ Exclusive /\ Carried /\ \A u \in Users : Confirmed(u)

-----------------------------------------------------------------------------
(* Types.                                                                  *)

BusyType ==
    [pc : {"ask", "check", "reset", "spend", "change", "select", "flush"},
     user : Users, pass : StoredType, edits : BOOLEAN]

Lasts == {"changed", "reset", "asked", "edited", "unknown"}

\* A request that is not idle is a record that names its user.
LEMMA Busy ==
    ASSUME TypeOK, NEW r \in Requests, req[r] # Idle
    PROVE  req[r] \in BusyType /\ req[r].user \in Users /\ req[r].pass \in StoredType
  BY DEF TypeOK, ReqType, BusyType

\* How a request ends.
LEMMA EndType ==
    ASSUME TypeOK, NEW r \in Requests, req[r] # Idle,
           NEW how \in Lasts, NEW pass \in Passwords \cup {Unknown}, End(r, how, pass)
    PROVE  /\ req' \in [Requests -> ReqType]
           /\ contended' \subseteq Requests
           /\ last' \in [Users -> Lasts]
           /\ known' \in [Users -> Passwords \cup {Unknown}]
  BY Busy DEF TypeOK, End, ReqType, Lasts

LEMMA WriteType ==
    ASSUME TypeOK, NEW r \in Requests, req[r] # Idle, NEW pass \in StoredType,
           Write(r, pass)
    PROVE  /\ stored' \in [Users -> StoredType]
           /\ outdated' \subseteq Requests
           /\ stored'[req[r].user] = pass
           /\ \A u \in Users : u # req[r].user => stored'[u] = stored[u]
  BY Busy DEF TypeOK, Write, InFlightOf

-----------------------------------------------------------------------------
(* What beginning, advancing and ending a request preserve.                *)

\* A request begins: it overlaps nothing, or everything of its user that is in flight.
LEMMA BeginInv ==
    ASSUME Inv, NEW r \in Requests, NEW u \in Users, NEW edits \in BOOLEAN,
           NEW pc \in {"ask", "check", "change", "select"}, NEW pass \in StoredType,
           pc = "select" => pass = stored[u],
           pc = "change" => pass.layers = 1,
           Begin(r, pc, u, pass, edits)
    PROVE  Inv'
  <1> DEFINE new == [pc |-> pc, user |-> u, pass |-> pass, edits |-> edits]
  <1>1. /\ new \in ReqType /\ new # Idle
        /\ new.pc = pc /\ new.user = u /\ new.pass = pass
    BY DEF ReqType, Idle
  <1> HIDE DEF new
  <1>2. /\ req[r] = Idle /\ req'[r] = new
        /\ \A q \in Requests : q # r => req'[q] = req[q]
        /\ req' \in [Requests -> ReqType]
    BY <1>1 DEF Begin, Inv, TypeOK, new
  <1>3. contended' \subseteq Requests /\ outdated' \subseteq Requests
    BY DEF Begin, Inv, TypeOK, InFlightOf
  <1>4. TypeOK'
    BY <1>2, <1>3 DEF Begin, Inv, TypeOK
  <1>5. /\ \A q \in InFlightOf(u) : q \in contended' /\ r \in contended'
        /\ InFlightOf(u) = {} => r \notin contended'
        /\ \A q \in Requests : q # r /\ q \notin contended' => q \notin contended
        /\ \A q \in Requests : q # r /\ q \notin InFlightOf(u) =>
                (q \in contended' <=> q \in contended)
    BY DEF Begin
  <1>6. Exclusive'
    BY <1>1, <1>2, <1>5 DEF Inv, Exclusive, InFlightOf
  <1>7. Carried'
    BY <1>1, <1>2, <1>5 DEF Begin, Inv, Carried, CarriesOf
  <1>8. ASSUME NEW v \in Users PROVE Confirmed(v)'
    <2>1. Alone(v)' => Alone(v)
      BY <1>1, <1>2, <1>5 DEF Alone, InFlightOf
    <2>2. Settled(v)' => Settled(v)
      BY <1>1, <1>2, <1>5 DEF Settled, InFlightOf
    <2> QED BY <2>1, <2>2 DEF Begin, Inv, Confirmed, SignsIn
  <1> QED BY <1>4, <1>6, <1>7, <1>8 DEF Inv

\* A request ends without writing the column: an overlapped one leaves its user
\* nothing to rely on, any other must leave what it confirms.
LEMMA EndInv ==
    ASSUME Inv, NEW r \in Requests, req[r] # Idle, NEW how \in Lasts,
           NEW pass \in Passwords \cup {Unknown}, End(r, how, pass),
           stored' \in [Users -> StoredType], outdated' \subseteq Requests,
           resetTokens' \subseteq Users,
           \A u \in Users : u # req[r].user =>
               /\ stored'[u] = stored[u]
               /\ u \in resetTokens' <=> u \in resetTokens,
           r \notin contended =>
               /\ pass # Unknown => stored'[req[r].user].text = pass
               /\ how = "changed" => stored'[req[r].user] = Hashed(pass)
               /\ how = "reset" => req[r].user \notin resetTokens'
    PROVE  Inv'
  <1> DEFINE u == req[r].user
  <1>1. /\ req'[r] = Idle /\ \A q \in Requests : q # r => req'[q] = req[q]
        /\ contended' = contended \ {r}
    BY DEF End, Inv, TypeOK
  <1>2. TypeOK'
    BY EndType DEF Inv, TypeOK, Lasts
  <1>3. Exclusive'
    BY <1>1 DEF Inv, Exclusive
  <1>4. Carried'
    <2> SUFFICES ASSUME NEW q \in Requests, req'[q] # Idle, q \notin contended'
                 PROVE  CarriesOf(req'[q], stored'[req'[q].user])
      BY DEF Carried
    <2>1. q # r /\ req'[q] = req[q] /\ q \notin contended
      BY <1>1
    <2>2. req[q].user # u /\ req[q].user \in Users
      BY <2>1, Busy DEF Inv, Exclusive
    <2> QED BY <2>1, <2>2 DEF Inv, Carried
  <1>5. ASSUME NEW v \in Users, v # u PROVE Confirmed(v)'
    <2>1. /\ InFlightOf(v)' = InFlightOf(v)
          /\ \A q \in InFlightOf(v) : q # r
      BY <1>1, <1>5 DEF InFlightOf
    <2>2. (Alone(v)' <=> Alone(v)) /\ (Settled(v)' <=> Settled(v))
      BY <1>1, <2>1 DEF Alone, Settled, InFlightOf
    <2>3. known'[v] = known[v] /\ last'[v] = last[v]
      BY <1>5 DEF End, Inv, TypeOK
    <2> QED BY <1>5, <2>2, <2>3 DEF Inv, Confirmed, SignsIn
  <1>6. ASSUME NEW v \in Users, v = u PROVE Confirmed(v)'
    <2>1. /\ known'[v] = IF r \in contended THEN Unknown ELSE pass
          /\ last'[v] = IF r \in contended THEN "unknown" ELSE how
      BY <1>6 DEF End, Inv, TypeOK
    <2>2. how = "changed" /\ r \notin contended => pass = stored'[v].text
      BY <1>6 DEF Hashed
    <2>3. r \notin contended => /\ pass # Unknown => stored'[v].text = pass
                                /\ how = "changed" => stored'[v].layers = 1
                                /\ how = "reset" => v \notin resetTokens'
      BY <1>6 DEF Hashed
    <2> QED BY <2>1, <2>2, <2>3 DEF Confirmed, SignsIn
  <1> QED BY <1>2, <1>3, <1>4, <1>5, <1>6 DEF Inv

\* A request advances without writing the column or the tokens.
LEMMA GotoInv ==
    ASSUME Inv, NEW r \in Requests, req[r] # Idle, NEW pc \in {"reset", "flush"},
           Goto(r, pc), UNCHANGED <<stored, resetTokens, outdated>>,
           req[r].pc \in {"check", "select"}, pc = "flush" => req[r].pc = "select"
    PROVE  Inv'
  <1>1. /\ req'[r] = [req[r] EXCEPT !.pc = pc]
        /\ \A q \in Requests : q # r => req'[q] = req[q]
        /\ req' \in [Requests -> ReqType]
    BY Busy DEF Goto, Inv, TypeOK, ReqType, BusyType
  <1>2. /\ req'[r] # Idle /\ req'[r].pc = pc
        /\ req'[r].user = req[r].user /\ req'[r].pass = req[r].pass
    BY <1>1, Busy DEF Inv, BusyType, Idle
  <1>3. TypeOK'
    BY <1>1 DEF Goto, history, Inv, TypeOK
  <1>4. Exclusive'
    BY <1>1, <1>2 DEF Goto, history, Inv, Exclusive
  <1>5. Carried'
    BY <1>1, <1>2 DEF Goto, history, Inv, Carried, CarriesOf
  <1>6. ASSUME NEW v \in Users PROVE Confirmed(v)'
    <2>1. (Alone(v)' => Alone(v)) /\ (Settled(v)' => Settled(v))
      BY <1>1, <1>2 DEF Goto, history, Alone, Settled, InFlightOf
    <2> QED BY <2>1 DEF Goto, history, Inv, Confirmed, SignsIn
  <1> QED BY <1>3, <1>4, <1>5, <1>6 DEF Inv

-----------------------------------------------------------------------------
(* The handlers.                                                           *)

\* An undisturbed user's confirmed facts, as its only request finds them.
LEMMA Undisturbed ==
    ASSUME Inv, NEW r \in Requests, req[r] # Idle, r \notin contended
    PROVE  /\ Alone(req[r].user)
           /\ req[r].pc # "spend" => Settled(req[r].user)
           /\ CarriesOf(req[r], stored[req[r].user])
           /\ Confirmed(req[r].user)
  BY Busy DEF Inv, Exclusive, Carried, Alone, Settled, InFlightOf

LEMMA StartInv ==
    ASSUME Inv, NEW r \in Requests, NEW u \in Users, Start(r, u)
    PROVE  Inv'
  <1>1. stored[u] \in StoredType
    BY DEF Inv, TypeOK
  <1>2. CASE StartForget(r, u)
    BY <1>1, <1>2, BeginInv DEF StartForget
  <1>3. CASE StartReset(r, u)
    <2>1. PICK p \in Passwords : Begin(r, "check", u, [text |-> p, layers |-> 0], FALSE)
      BY <1>3 DEF StartReset
    <2>2. [text |-> p, layers |-> 0] \in StoredType
      BY DEF StoredType
    <2> QED BY <2>1, <2>2, BeginInv
  <1>4. CASE StartChange(r, u)
    <2>1. PICK p \in Passwords : Begin(r, "change", u, Hashed(p), FALSE)
      BY <1>4 DEF StartChange
    <2>2. Hashed(p) \in StoredType /\ Hashed(p).layers = 1
      BY DEF StoredType, Hashed
    <2> QED BY <2>1, <2>2, BeginInv
  <1>5. CASE StartProfile(r, u)
    BY <1>1, <1>5, BeginInv DEF StartProfile
  <1> QED BY <1>2, <1>3, <1>4, <1>5 DEF Start

LEMMA ForgetInv ==
    ASSUME Inv, NEW r \in Requests, SetResetToken(r)
    PROVE  Inv'
  <1>1. req[r] # Idle /\ req[r].pc # "spend" /\ req[r].user \in Users
    BY Busy DEF SetResetToken, Idle, Inv
  <1>2. known[req[r].user] \in Passwords \cup {Unknown}
    BY <1>1 DEF Inv, TypeOK
  <1>3. r \notin contended =>
            (known[req[r].user] # Unknown => stored[req[r].user].text = known[req[r].user])
    BY <1>1, Undisturbed DEF Confirmed
  <1>4. /\ stored' \in [Users -> StoredType] /\ outdated' \subseteq Requests
        /\ resetTokens' \subseteq Users
    BY <1>1 DEF SetResetToken, Inv, TypeOK
  <1> QED BY <1>1, <1>2, <1>3, <1>4, EndInv DEF SetResetToken, Lasts

LEMMA CheckInv ==
    ASSUME Inv, NEW r \in Requests, CheckResetToken(r)
    PROVE  Inv'
  <1>1. req[r] # Idle /\ req[r].pc = "check" /\ req[r].user \in Users
    BY Busy DEF CheckResetToken, Idle, Inv
  <1>2. CASE Goto(r, "reset")
    BY <1>1, <1>2, GotoInv DEF CheckResetToken
  <1>3. ASSUME NEW u, u = req[r].user, u \notin resetTokens,
               NEW how, how = last[u], NEW pass, pass = known[u], End(r, how, pass)
        PROVE  Inv'
    <2>1. u \in Users /\ pass \in Passwords \cup {Unknown} /\ how \in Lasts
      BY <1>1, <1>3 DEF Inv, TypeOK, Lasts
    <2>2. stored' = stored /\ resetTokens' = resetTokens /\ outdated' = outdated
      BY DEF CheckResetToken
    <2>3. /\ stored' \in [Users -> StoredType] /\ outdated' \subseteq Requests
          /\ resetTokens' \subseteq Users
      BY <2>2 DEF Inv, TypeOK
    <2>4. r \notin contended =>
              /\ known[u] # Unknown => stored[u].text = known[u]
              /\ last[u] = "changed" => SignsIn(u)
      BY <1>1, <1>3, Undisturbed DEF Confirmed
    <2>5. SignsIn(u) => stored[u] = Hashed(pass)
      BY <1>3, <2>1 DEF SignsIn, Hashed, Inv, TypeOK, StoredType
    <2>6. r \notin contended =>
              /\ pass # Unknown => stored'[req[r].user].text = pass
              /\ how = "changed" => stored'[req[r].user] = Hashed(pass)
              /\ how = "reset" => req[r].user \notin resetTokens'
      BY <1>3, <2>2, <2>4, <2>5
    <2> QED BY <1>1, <1>3, <2>1, <2>2, <2>3, <2>6, EndInv
  <1> QED BY <1>2, <1>3 DEF CheckResetToken

\* Between the write and the answer the column is ahead of what the user was told.
LEMMA ResetInv ==
    ASSUME Inv, NEW r \in Requests, ResetPassword(r)
    PROVE  Inv'
  <1>1. req[r] # Idle /\ req[r] \in BusyType /\ req[r].user \in Users /\ req[r].pass \in StoredType
    BY Busy DEF ResetPassword, Idle, Inv
  <1>2. /\ req'[r] = [req[r] EXCEPT !.pc = "spend"]
        /\ \A q \in Requests : q # r => req'[q] = req[q]
        /\ req' \in [Requests -> ReqType]
    BY <1>1 DEF ResetPassword, Goto, Inv, TypeOK, ReqType, BusyType
  <1>3. /\ req'[r] # Idle /\ req'[r].pc = "spend"
        /\ req'[r].user = req[r].user /\ req'[r].pass = req[r].pass
    BY <1>1, <1>2 DEF BusyType, Idle
  <1>4. /\ stored' \in [Users -> StoredType] /\ outdated' \subseteq Requests
        /\ stored'[req[r].user] = req[r].pass
        /\ \A u \in Users : u # req[r].user => stored'[u] = stored[u]
    BY <1>1, WriteType DEF ResetPassword, Inv
  <1>5. UNCHANGED <<resetTokens, contended, known, last>>
    BY DEF ResetPassword, Goto, history
  <1>6. TypeOK'
    BY <1>2, <1>4, <1>5 DEF Inv, TypeOK
  <1>7. Exclusive'
    <2>1. \A q \in Requests : req'[q] # Idle => req[q] # Idle /\ req'[q].user = req[q].user
      BY <1>1, <1>2, <1>3
    <2>2. contended' = contended
      BY <1>5
    <2> QED BY <2>1, <2>2 DEF Inv, Exclusive
  <1>8. Carried'
    <2> SUFFICES ASSUME NEW q \in Requests, req'[q] # Idle, q \notin contended'
                 PROVE  CarriesOf(req'[q], stored'[req'[q].user])
      BY DEF Carried
    <2>1. CASE q = r
      BY <1>3, <1>4, <2>1 DEF CarriesOf
    <2>2. CASE q # r
      <3>1. req'[q] = req[q] /\ req[q].user # req[r].user /\ req[q].user \in Users
        BY <1>1, <1>2, <1>5, <2>2, Busy DEF Inv, Exclusive
      <3> QED BY <1>4, <1>5, <3>1 DEF Inv, Carried
    <2> QED BY <2>1, <2>2
  <1>9. ASSUME NEW v \in Users PROVE Confirmed(v)'
    <2>1. Alone(v)' => Alone(v)
      BY <1>2, <1>3, <1>5 DEF Alone, InFlightOf
    <2>2. CASE v = req[r].user
      <3>1. ~Settled(v)'
        BY <1>3, <2>2 DEF Settled, InFlightOf
      <3> QED BY <1>5, <2>1, <3>1 DEF Inv, Confirmed
    <2>3. CASE v # req[r].user
      <3>1. Settled(v)' => Settled(v)
        BY <1>2, <1>3, <1>5, <2>3 DEF Settled, InFlightOf
      <3> QED BY <1>4, <1>5, <2>1, <2>3, <3>1 DEF Inv, Confirmed, SignsIn
    <2> QED BY <2>2, <2>3
  <1> QED BY <1>6, <1>7, <1>8, <1>9 DEF Inv

LEMMA SpendInv ==
    ASSUME Inv, NEW r \in Requests, SpendResetToken(r)
    PROVE  Inv'
  <1>1. req[r] # Idle /\ req[r].user \in Users /\ req[r].pass.text \in Passwords
    BY Busy DEF SpendResetToken, Idle, Inv, StoredType
  <1>2. r \notin contended => stored[req[r].user].text = req[r].pass.text
    BY <1>1, Undisturbed DEF SpendResetToken, CarriesOf
  <1>3. /\ stored' \in [Users -> StoredType] /\ outdated' \subseteq Requests
        /\ resetTokens' \subseteq Users /\ stored' = stored
        /\ resetTokens' = resetTokens \ {req[r].user}
    BY DEF SpendResetToken, Inv, TypeOK
  <1> QED BY <1>1, <1>2, <1>3, EndInv DEF SpendResetToken, Lasts

LEMMA ChangeInv ==
    ASSUME Inv, NEW r \in Requests, ChangePassword(r)
    PROVE  Inv'
  <1>1. req[r] # Idle /\ req[r].pass \in StoredType /\ req[r].pass.text \in Passwords
    BY Busy DEF ChangePassword, Idle, Inv, StoredType
  <1>2. /\ stored' \in [Users -> StoredType] /\ outdated' \subseteq Requests
        /\ stored'[req[r].user] = req[r].pass
        /\ \A u \in Users : u # req[r].user => stored'[u] = stored[u]
    BY <1>1, WriteType DEF ChangePassword, Inv
  <1>3. r \notin contended => req[r].pass = Hashed(req[r].pass.text)
    BY <1>1, Undisturbed DEF ChangePassword, CarriesOf, Hashed, StoredType
  <1>4. resetTokens' \subseteq Users /\ resetTokens' = resetTokens
    BY DEF ChangePassword, Inv, TypeOK
  <1> QED BY <1>1, <1>2, <1>3, <1>4, EndInv DEF ChangePassword, Lasts

LEMMA SelectInv ==
    ASSUME Inv, NEW r \in Requests, SelectUser(r)
    PROVE  Inv'
  <1> DEFINE u == req[r].user
  <1>1. req[r] # Idle /\ req[r].pc = "select" /\ u \in Users
    BY Busy DEF SelectUser, Idle, Inv
  <1>2. CASE Goto(r, "flush")
    BY <1>1, <1>2, GotoInv DEF SelectUser
  <1>3. CASE End(r, "edited", known[u])
    <2>1. known[u] \in Passwords \cup {Unknown} /\ "edited" \in Lasts
      BY <1>1 DEF Inv, TypeOK, Lasts
    <2>2. r \notin contended => (known[u] # Unknown => stored[u].text = known[u])
      BY <1>1, Undisturbed DEF Confirmed
    <2>3. stored' = stored /\ resetTokens' = resetTokens /\ outdated' = outdated
      BY DEF SelectUser
    <2>4. /\ stored' \in [Users -> StoredType] /\ outdated' \subseteq Requests
          /\ resetTokens' \subseteq Users
      BY <2>3 DEF Inv, TypeOK
    <2> QED BY <1>1, <1>3, <2>1, <2>2, <2>3, <2>4, EndInv
  <1> QED BY <1>2, <1>3 DEF SelectUser

\* The hook hashes the column once more but keeps the text it came from.
LEMMA FlushInv ==
    ASSUME Inv, NEW r \in Requests, FlushUser(r)
    PROVE  Inv'
  <1>1. /\ req[r] # Idle /\ req[r].pc = "flush"
        /\ req[r].user \in Users /\ req[r].pass \in StoredType
    BY Busy DEF FlushUser, Idle, Inv
  <1>2. Rehashed(req[r].pass) \in StoredType /\ Rehashed(req[r].pass).text = req[r].pass.text
    BY <1>1 DEF Rehashed, StoredType
  <1>3. /\ stored' \in [Users -> StoredType] /\ outdated' \subseteq Requests
        /\ stored'[req[r].user] = Rehashed(req[r].pass)
        /\ \A u \in Users : u # req[r].user => stored'[u] = stored[u]
    BY <1>1, <1>2, WriteType DEF FlushUser, Inv
  <1>4. known[req[r].user] \in Passwords \cup {Unknown}
    BY <1>1 DEF Inv, TypeOK
  <1>5. r \notin contended =>
            (known[req[r].user] # Unknown => stored'[req[r].user].text = known[req[r].user])
    BY <1>1, <1>2, <1>3, Undisturbed DEF Confirmed, CarriesOf
  <1>6. resetTokens' \subseteq Users /\ resetTokens' = resetTokens
    BY DEF FlushUser, Inv, TypeOK
  <1> QED BY <1>1, <1>3, <1>4, <1>5, <1>6, EndInv DEF FlushUser, Lasts

LEMMA AbortInv ==
    ASSUME Inv, NEW r \in Requests, Abort(r)
    PROVE  Inv'
  <1>1. /\ stored' \in [Users -> StoredType] /\ outdated' \subseteq Requests
        /\ resetTokens' \subseteq Users
    BY DEF Abort, Inv, TypeOK
  <1> QED BY <1>1, EndInv DEF Abort, Lasts

LEMMA NextInv ==
    ASSUME Inv, [Next]_vars
    PROVE  Inv'
  <1>1. CASE UNCHANGED vars
    BY <1>1 DEF vars, history, Inv, TypeOK, Exclusive, Carried, Confirmed, Settled, Alone,
                InFlightOf, SignsIn
  <1>2. CASE Next
    BY <1>2, StartInv, ForgetInv, CheckInv, ResetInv, SpendInv, ChangeInv, SelectInv,
       FlushInv, AbortInv DEF Next, Step
  <1> QED BY <1>1, <1>2

LEMMA InitInv == Init => Inv
  <1> SUFFICES ASSUME Init PROVE Inv
    OBVIOUS
  <1>1. TypeOK
    BY DEF Init, TypeOK, StoredType, ReqType, Hashed
  <1>2. Exclusive /\ Carried
    BY DEF Init, Exclusive, Carried
  <1>3. ASSUME NEW u \in Users PROVE Confirmed(u)
    BY DEF Init, Confirmed, SignsIn, Hashed
  <1> QED BY <1>1, <1>2, <1>3 DEF Inv

LEMMA Invariance == Spec => []Inv
  <1> QED BY InitInv, NextInv, PTL DEF Spec

\* A user without requests in flight has settled.
LEMMA QuietIsSettled ==
    ASSUME NEW u \in Users, Quiet(u)
    PROVE  Settled(u) /\ Alone(u)
  BY DEF Quiet, Settled, Alone

-----------------------------------------------------------------------------
(* The theorems.                                                           *)

\* The state of Passwords is well typed.
THEOREM TypeCorrect == Spec => []TypeOK
  <1>1. Inv => TypeOK
    BY DEF Inv
  <1> QED BY <1>1, Invariance, PTL

\* For any number of users and requests: without overlap, no handler loses the
\* password its user was last told is in force, or brings an older one back.
THEOREM NoPasswordLost == Spec => []QuietPasswordIsKnown
  <1>1. Inv => QuietPasswordIsKnown
    BY QuietIsSettled DEF Inv, Confirmed, QuietPasswordIsKnown
  <1> QED BY <1>1, Invariance, PTL

\* However often the column was reset or hashed again before, a signed-in change
\* that answers success leaves a password that signs its user in.
THEOREM ChangesWork == Spec => []QuietChangeWorks
  <1>1. Inv => QuietChangeWorks
    BY QuietIsSettled DEF Inv, Confirmed, QuietChangeWorks
  <1> QED BY <1>1, Invariance, PTL

\* A reset that answers success has used its token up.
THEOREM ResetsSpend == Spec => []QuietResetIsSpent
  <1>1. Inv => QuietResetIsSpent
    BY QuietIsSettled DEF Inv, Confirmed, QuietResetIsSpent
  <1> QED BY <1>1, Invariance, PTL

=============================================================================
