---------------------------- MODULE MCRateLimit -----------------------------
(* TLC instances of RateLimit.                                             *)
EXTENDS RateLimit, TLC

\* Requests are interchangeable, and so are the addresses they come from.
Symmetry == Permutations(Requests) \cup Permutations(Addresses)
=============================================================================
