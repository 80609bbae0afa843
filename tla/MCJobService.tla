---------------------------- MODULE MCJobService -----------------------------
(***************************************************************************)
(* Small instances of JobService for TLC.  Jobs, calls, tasks and request   *)
(* ids are model values that no action tells apart, so runs that check no   *)
(* liveness may permute them.                                               *)
(***************************************************************************)
EXTENDS JobProperties, TLC

Symmetry ==
  Permutations(Jobs) \cup Permutations(Calls) \cup Permutations(Tasks)
    \cup Permutations(Requests)
=============================================================================
