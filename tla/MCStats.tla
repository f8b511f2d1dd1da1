------------------------------ MODULE MCStats ------------------------------
(***************************************************************************)
(* Two tasks and a few records, enough for one record to begin and end     *)
(* while a summary loads and another overlaps its beginning.               *)
(***************************************************************************)
EXTENDS Stats, TLC

TaskSymmetry == Permutations(Tasks)
=============================================================================
