------------------------------- MODULE MCPack -------------------------------
(***************************************************************************)
(* Small instances of Pack for TLC.                                        *)
(***************************************************************************)
EXTENDS Pack

\* One to three objects in the order of their keys, as save_pack() sorts them,
\* with bodies that are empty, small or large.
Bodies == {0, 1, 9}
MCInputs ==
    {<<[key |-> "a", klen |-> 1, blen |-> x]>> : x \in Bodies} \cup
    {<<[key |-> "a", klen |-> 1, blen |-> x],
       [key |-> "bb", klen |-> 2, blen |-> y]>> : x, y \in Bodies} \cup
    {<<[key |-> "a", klen |-> 1, blen |-> x],
       [key |-> "bb", klen |-> 2, blen |-> y],
       [key |-> "c", klen |-> 1, blen |-> z]>> : x, y, z \in Bodies}

\* From no room for the magic number, through exact fits (a single empty
\* object takes 17 bytes), to room for everything.
MCLimits == {0, 16, 17, 31, 41, 100}
=============================================================================
