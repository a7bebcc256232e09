------------------------------- MODULE MCCarts ------------------------------
(* TLC instances of Carts.                                                 *)
EXTENDS Carts, TLC

\* Requests and users are interchangeable.
Symmetry == Permutations(Requests) \cup Permutations(Users)
=============================================================================
