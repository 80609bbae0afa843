------------------------------ MODULE JobStatus ------------------------------
(***************************************************************************)
(* The job state machine's states, as the two database trees store them.   *)
(* A status is a record with a "status" field naming the variant of the    *)
(* Rust enum JobStatus and, where the variant carries data a property      *)
(* tells apart, a field for it.  The proof input inside DataAvailable is   *)
(* determined by the job (the chain is immutable) and is left out.         *)
(***************************************************************************)
CONSTANT Requests   \* ids the prover network can give to proof requests

\* The absence of a key in a tree, and the None of Failed's Option.
Absent == [status |-> "Absent"]

DataAvailabilityPending == [status |-> "DataAvailabilityPending"]
DataAvailable           == [status |-> "DataAvailable"]
ZkProofPending(r)       == [status |-> "ZkProofPending", request |-> r]
ZkProofFinished(r)      == [status |-> "ZkProofFinished", request |-> r]
Failed(retry)           == [status |-> "Failed", retry |-> retry]

\* What the queue tree may hold: the statuses a worker can progress.
PendingStatus ==
  {DataAvailabilityPending, DataAvailable} \cup {ZkProofPending(r) : r \in Requests}

\* Both error handlers offer one of two retries: start over, or never.
Retries == {Absent, DataAvailabilityPending}

\* What the finished tree may hold.
FinalStatus ==
  {ZkProofFinished(r) : r \in Requests} \cup {Failed(retry) : retry \in Retries}

\* A result the service will never act on again by itself: a proof, or a
\* failure that carries no status to retry with.
Settling == {ZkProofFinished(r) : r \in Requests} \cup {Failed(Absent)}
=============================================================================
