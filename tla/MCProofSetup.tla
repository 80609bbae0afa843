---------------------------- MODULE MCProofSetup -----------------------------
(***************************************************************************)
(* Small instances of ProofSetup: the startup task and a few jobs ask.      *)
(***************************************************************************)
EXTENDS ProofSetup

FiveCallers == 1..5
NoCaller == 0
=============================================================================
