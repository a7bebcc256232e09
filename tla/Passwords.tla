------------------------------ MODULE Passwords -----------------------------
(***************************************************************************)
(* The password column of the table 'users' and the four handlers that     *)
(* touch it: forgetPassword and changePassowrd (the reset by mail),        *)
(* changePassword (signed in) and updateUser (the profile, whose save()    *)
(* runs the entity's BeforeUpdate hook).  Each is suspended at its awaits.  *)
(*                                                                         *)
(* A stored password is the text it came from and the number of times it    *)
(* has been hashed since: bcrypt.compare accepts that text only if it was   *)
(* hashed exactly once.                                                    *)
(***************************************************************************)
EXTENDS Integers, FiniteSets

CONSTANTS
    Users,       \* ids of registered users
    Passwords,   \* texts a user may choose
    Unknown,     \* which password is in force depends on how requests crossed
    Requests     \* requests the server may have in flight at once

ASSUME PasswordsAssumption ==
    /\ IsFiniteSet(Requests)
    /\ Unknown \notin Passwords

VARIABLES
    stored,      \* the password column of each user
    resetTokens, \* the users with an entry token-forget-password:<userId> in Redis
    req,         \* what each request in flight is doing
    outdated,    \* requests whose strategy loaded a row that was written since
    contended,   \* history: requests that overlapped another of their user
    known,       \* history: the password each user was last told is in force
    last         \* history: the last request of each user to end

history == <<contended, known, last>>
vars == <<stored, resetTokens, req, outdated, history>>

-----------------------------------------------------------------------------

Hashed(p) == [text |-> p, layers |-> 1]
StoredType == [text : Passwords, layers : 0..2]      \* 2: twice or more often

Idle == [pc |-> "idle"]

\* pass is what the request will write; edits: its profile differs from the one
\* that its strategy loaded.
ReqType == {Idle} \cup
    [pc : {"ask", "check", "reset", "spend", "change", "select", "flush"},
     user : Users, pass : StoredType, edits : BOOLEAN]

InFlightOf(u) == {r \in Requests : req[r] # Idle /\ req[r].user = u}

Begin(r, pc, u, pass, edits) ==
    /\ req[r] = Idle
    /\ req' = [req EXCEPT ![r] = [pc |-> pc, user |-> u, pass |-> pass, edits |-> edits]]
    /\ outdated' = outdated \ {r}
    /\ contended' = IF InFlightOf(u) = {} THEN contended \ {r}
                    ELSE contended \cup InFlightOf(u) \cup {r}
    /\ UNCHANGED <<stored, resetTokens, known, last>>

Goto(r, pc) ==
    /\ req' = [req EXCEPT ![r].pc = pc]
    /\ UNCHANGED history

\* The request ends; its user takes pass to be in force from now on.
End(r, how, pass) ==
    /\ req' = [req EXCEPT ![r] = Idle]
    /\ contended' = contended \ {r}
    /\ last' = [last EXCEPT ![req[r].user] = IF r \in contended THEN "unknown" ELSE how]
    /\ known' = [known EXCEPT ![req[r].user] = IF r \in contended THEN Unknown ELSE pass]

\* UPDATE users SET password = pass, updated_at = now.
Write(r, pass) ==
    /\ stored' = [stored EXCEPT ![req[r].user] = pass]
    /\ outdated' = outdated \cup InFlightOf(req[r].user)

-----------------------------------------------------------------------------
(* The reset by mail.                                                      *)

StartForget(r, u) == Begin(r, "ask", u, stored[u], FALSE)

\* Mutant of SetResetToken: the entry is named after the request, not the user.
SetResetTokenByRequest(r) ==
    /\ req[r].pc = "ask"
    /\ resetTokens' = resetTokens \cup {r}
    /\ End(r, "asked", known[req[r].user])
    /\ UNCHANGED <<stored, outdated>>

\* forgetPassword: the token is stored whether or not its mail can be sent.
SetResetToken(r) ==
    /\ req[r].pc = "ask"
    /\ resetTokens' = resetTokens \cup {req[r].user}
    /\ End(r, "asked", known[req[r].user])
    /\ UNCHANGED <<stored, outdated>>

StartReset(r, u) ==
    \E p \in Passwords : Begin(r, "check", u, [text |-> p, layers |-> 0], FALSE)

\* changePassowrd: refused without an entry. The promise that compares the token
\* is not awaited, hence true.
CheckResetToken(r) ==
    /\ req[r].pc = "check"
    /\ \/ /\ req[r].user \in resetTokens
          /\ Goto(r, "reset")
       \/ /\ req[r].user \notin resetTokens
          /\ End(r, last[req[r].user], known[req[r].user])
    /\ UNCHANGED <<stored, resetTokens, outdated>>

\* UserEntity.update: a query, which runs no entity hook; the text is stored as it is.
ResetPassword(r) ==
    /\ req[r].pc = "reset"
    /\ Write(r, req[r].pass)
    /\ Goto(r, "spend")
    /\ UNCHANGED resetTokens

\* Mutant of SpendResetToken: the token is kept for another reset.
KeepResetToken(r) ==
    /\ req[r].pc = "spend"
    /\ End(r, "reset", req[r].pass.text)
    /\ UNCHANGED <<stored, outdated, resetTokens>>

SpendResetToken(r) ==
    /\ req[r].pc = "spend"
    /\ resetTokens' = resetTokens \ {req[r].user}
    /\ End(r, "reset", req[r].pass.text)
    /\ UNCHANGED <<stored, outdated>>

-----------------------------------------------------------------------------
(* Signed in.                                                              *)

\* changePassword: the current password must match the row that the strategy
\* loaded; the new one is hashed.
StartChange(r, u) ==
    /\ stored[u].layers = 1
    /\ \E p \in Passwords : Begin(r, "change", u, Hashed(p), FALSE)

\* Mutant of ChangePassword: the new password goes through entity.save() and its
\* hook as well.
ChangePasswordTwiceHashed(r) ==
    /\ req[r].pc = "change"
    /\ Write(r, [req[r].pass EXCEPT !.layers = @ + 1])
    /\ End(r, "changed", req[r].pass.text)
    /\ UNCHANGED resetTokens

ChangePassword(r) ==
    /\ req[r].pc = "change"
    /\ Write(r, req[r].pass)
    /\ End(r, "changed", req[r].pass.text)
    /\ UNCHANGED resetTokens

\* updateUser: the entity of the strategy, its password included, with the new
\* profile spread over it.
StartProfile(r, u) == \E edits \in BOOLEAN : Begin(r, "select", u, stored[u], edits)

\* entity.save(), first query: nothing is written unless the entity differs from
\* the row that is there now.
SelectUser(r) ==
    /\ req[r].pc = "select"
    /\ \/ /\ req[r].edits \/ r \in outdated
          /\ Goto(r, "flush")
       \/ /\ ~(req[r].edits \/ r \in outdated)
          /\ End(r, "edited", known[req[r].user])
    /\ UNCHANGED <<stored, resetTokens, outdated>>

\* setPassword, the BeforeUpdate hook: both branches hash what the entity holds.
Rehashed(pass) == [pass EXCEPT !.layers = IF @ = 2 THEN 2 ELSE @ + 1]

\* Mutant of FlushUser: the profile form brings a password of its own.
FlushUserWithPassword(r) ==
    /\ req[r].pc = "flush"
    /\ \E p \in Passwords : Write(r, Hashed(p))
    /\ End(r, "edited", known[req[r].user])
    /\ UNCHANGED resetTokens

\* entity.save(), second query: the hook has changed the password, so that it is
\* written along with the profile.
FlushUser(r) ==
    /\ req[r].pc = "flush"
    /\ Write(r, Rehashed(req[r].pass))
    /\ End(r, "edited", known[req[r].user])
    /\ UNCHANGED resetTokens

\* The call a request awaits is rejected, or the server dies.
Abort(r) ==
    /\ req[r] # Idle
    /\ End(r, "unknown", Unknown)
    /\ UNCHANGED <<stored, resetTokens, outdated>>

\* createUser: BeforeInsert hashes the password once.
Init ==
    /\ known \in [Users -> Passwords]
    /\ stored = [u \in Users |-> Hashed(known[u])]
    /\ resetTokens = {}
    /\ req = [r \in Requests |-> Idle]
    /\ outdated = {}
    /\ contended = {}
    /\ last = [u \in Users |-> "changed"]

Start(r, u) ==
    StartForget(r, u) \/ StartReset(r, u) \/ StartChange(r, u) \/ StartProfile(r, u)

Step(r) ==
    \/ SetResetToken(r)
    \/ CheckResetToken(r) \/ ResetPassword(r) \/ SpendResetToken(r)
    \/ ChangePassword(r)
    \/ SelectUser(r) \/ FlushUser(r)

Next ==
    \/ \E r \in Requests, u \in Users : Start(r, u)
    \/ \E r \in Requests : Step(r) \/ Abort(r)

Spec == Init /\ [][Next]_vars

-----------------------------------------------------------------------------
(* Properties.                                                             *)

TypeOK ==
    /\ stored \in [Users -> StoredType]
    /\ resetTokens \subseteq Users
    /\ req \in [Requests -> ReqType]
    /\ outdated \subseteq Requests
    /\ contended \subseteq Requests
    /\ known \in [Users -> Passwords \cup {Unknown}]
    /\ last \in [Users -> {"changed", "reset", "asked", "edited", "unknown"}]

Quiet(u) == InFlightOf(u) = {}

\* login compares the submitted text with the column (auth.service.ts:167).
SignsIn(u) == stored[u].text = known[u] /\ stored[u].layers = 1

\* The column never comes from a password other than the one its user was last told
\* is in force: profile updates, resets and changes that do not overlap neither
\* lose a new password nor bring an old one back.
QuietPasswordIsKnown ==
    \A u \in Users : Quiet(u) /\ known[u] # Unknown => stored[u].text = known[u]

\* After 'Change password successfully' of /user/passwd, whatever resets and profile
\* updates came before, the new password signs its user in.
QuietChangeWorks ==
    \A u \in Users : Quiet(u) /\ last[u] = "changed" => SignsIn(u)

\* A token resets the password once: after the answer none is left.
QuietResetIsSpent ==
    \A u \in Users : Quiet(u) /\ last[u] = "reset" => u \notin resetTokens

\* After 'Change password successfully' of /auth/change-password the new password
\* signs its user in.
ResetWorks ==
    \A u \in Users : Quiet(u) /\ last[u] = "reset" => SignsIn(u)

\* A profile update leaves a user who could sign in able to sign in.
ProfileKeepsSignIn ==
    [][\A r \in Requests, u \in Users :
        /\ SelectUser(r) \/ FlushUser(r)
        /\ req[r].user = u /\ r \notin contended
        /\ SignsIn(u)
        => SignsIn(u)']_vars

=============================================================================
