---------------------------- MODULE MCPasswords -----------------------------
(* TLC instances of Passwords.                                             *)
EXTENDS Passwords, TLC

\* Requests and passwords are interchangeable.
Symmetry == Permutations(Requests) \cup Permutations(Passwords)
=============================================================================
