---------------------------- MODULE MCJobRequests ----------------------------
(***************************************************************************)
(* Small instances of JobRequests: the service, its counters and what is    *)
(* paid for, with the properties of JobService too.                         *)
(***************************************************************************)
EXTENDS JobRequests, MCJobService
=============================================================================
