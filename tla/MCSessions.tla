----------------------------- MODULE MCSessions -----------------------------
(* TLC instances of Sessions.                                              *)
EXTENDS Sessions, TLC

\* Requests, key generations and row ids are interchangeable.
Symmetry == Permutations(Requests) \cup Permutations(Keys) \cup Permutations(RowIds)

\* And so are users, NoUser not being one of them.
UserSymmetry == Symmetry \cup Permutations(Users)
=============================================================================
