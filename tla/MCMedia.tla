------------------------------- MODULE MCMedia ------------------------------
(* TLC instances of Media.                                                 *)
EXTENDS Media, TLC

\* Requests and keys are interchangeable.
Symmetry == Permutations(Requests) \cup Permutations(Keys)
=============================================================================
