------------------------------- MODULE MCJobs -------------------------------
(***************************************************************************)
(* A small instance of Jobs for TLC: two runs of one workflow, a job       *)
(* "build" in each and a job "build-linux" whose documents "build" finds.  *)
(* Between them the two builds fetch more small objects than a pack holds. *)
(***************************************************************************)
EXTENDS Jobs, TLC

CONSTANTS build1, linux1, build2, k1, k2, t1, t2

MCScope == build1 :> <<"build">> @@ linux1 :> <<"build", "linux">> @@ build2 :> <<"build">>
MCFetches == build1 :> {k1, t1} @@ linux1 :> {k2} @@ build2 :> {k2, t2}
=============================================================================
