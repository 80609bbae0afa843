----------------------------- MODULE MCJobBoard ------------------------------
(***************************************************************************)
(* Small instances of JobService and its mapping to JobBoard, for TLC.      *)
(***************************************************************************)
EXTENDS MCJobService, JobBoardRefinement
=============================================================================
