--------------------------- MODULE MCRegistration ---------------------------
(* TLC instances of Registration.                                          *)
EXTENDS Registration, TLC

\* Requests, codes and addresses are interchangeable.
Symmetry == Permutations(Requests) \cup Permutations(Codes) \cup Permutations(Emails)
=============================================================================
