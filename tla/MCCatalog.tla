------------------------------ MODULE MCCatalog -----------------------------
(* TLC instances of Catalog.                                               *)
EXTENDS Catalog, TLC

\* Requests, products, values and fillings are interchangeable.
Symmetry == Permutations(Requests) \cup Permutations(Values)
            \cup Permutations(Shops) \cup Permutations(Products) \cup Permutations(Fillings)
=============================================================================
