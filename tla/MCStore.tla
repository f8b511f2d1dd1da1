------------------------------ MODULE MCStore ------------------------------
(***************************************************************************)
(* Small instances of Store for TLC.                                       *)
(***************************************************************************)
EXTENDS StoreInv, TLC

\* Requests are interchangeable, and so are the keys of an instance in which
\* Small, Large, Listable and Packable hold all of them or none.
FullSymmetry == Permutations(Requests) \cup Permutations(Keys)
=============================================================================
