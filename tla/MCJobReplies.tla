---------------------------- MODULE MCJobReplies -----------------------------
(***************************************************************************)
(* Small instances of JobReplies, with the properties of JobService too.    *)
(***************************************************************************)
EXTENDS JobReplies, MCJobService
=============================================================================
