----------------------------- MODULE ProofPath -------------------------------
(***************************************************************************)
(* One job's way through the outside world: the growing chain, a DA node    *)
(* that follows it, the three DA calls, the index arithmetic, the proof     *)
(* input, the zkVM program, the prover network, and the public values the   *)
(* client reads.  JobService models how many jobs share the process; here   *)
(* one job is alone, each of its stages has its outcomes in full, and what  *)
(* JobService leaves out of a status (proof input, proof, error) is kept.   *)
(***************************************************************************)
EXTENDS OdsIndex, KeccakProgram, JobStatus, ErrorClasses

CONSTANTS
  Blocks,     \* the blocks the chain may consist of
  MaxHeight,  \* bound: the chain stops growing at this height
  Asked,      \* the jobs that may be asked for: [height, batch_number, chain_id]
  BlobHash,   \* Keccak-256 of the data behind the jobs' commitment
  Faults      \* which kinds of failure the environment produces

\* "rpc": a DA call fails.  "lag": another node answers, further behind.
\* "bad_answer": no blob index, or a range whose proof is under any data root.
\* "zk": the prover network fails a request.  "unhandled": an error without a
\* handler, from the SDKs or from the proof setup.  "db": a database operation
\* fails.  "crash": the process restarts.
FaultKinds == {"rpc", "lag", "bad_answer", "zk", "unhandled", "db", "crash"}

ASSUME HeightAssumption == MaxHeight \in Nat /\ MaxHeight < Base
ASSUME BlockAssumption ==
  /\ Blocks \subseteq [width : Nat, start : Nat, shares : Nat, signer : BOOLEAN]
  /\ \A b \in Blocks : b.shares > 0 => b.start + b.shares <= b.width * b.width
ASSUME AskedAssumption ==
  Asked \subseteq [height : 1..MaxHeight, batch_number : U32, chain_id : U64]
ASSUME HashAssumption == BlobHash \in Hashes
ASSUME FaultsAssumption == Faults \subseteq FaultKinds

VARIABLES
  chain,    \* the blocks produced so far
  synced,   \* the height up to which the DA node has headers and data
  calm,     \* from now on nothing fails
  job,      \* the job somebody asks for
  status,   \* its status, in whichever tree it is; Absent if in neither
  stage,    \* what its task does next: "header", "blob" or "range" (the DA
            \* calls), "request" or "wait" (for a proof); "none": no task
  index,    \* what the task knows of the blob: its index in the EDS
  input,    \* the proof input inside DataAvailable
  proof,    \* the bytes of the public values inside ZkProofFinished
  cause,    \* the class of the error its task ended with, or "none"
  requests  \* prover network: request id -> input of its last request

world == <<chain, synced, calm>>
vars  == <<world, job, status, stage, index, input, proof, cause, requests>>

None == [none |-> TRUE]
NoProof == <<>>

\* Hash of the header at a height: any two blocks have different roots.
DataRoot(height) == [i \in 1..HashLen |-> height]

Block == chain[job.height]

Happens(kind) == kind \in Faults /\ ~calm

\* The blob the job names is on the chain, where the job says.
BlobOnChain == job.height <= Len(chain) /\ Block.shares > 0

Init ==
  /\ chain = <<>>
  /\ synced = 0
  /\ calm = FALSE
  /\ job \in Asked
  /\ status = Absent
  /\ stage = "none"
  /\ index = 0
  /\ input = None
  /\ proof = NoProof
  /\ cause = "none"
  /\ requests = [r \in Requests |-> None]

-----------------------------------------------------------------------------
(***************************************************************************)
(* The chain and the node.                                                  *)
(***************************************************************************)

ProduceBlock ==
  /\ Len(chain) < MaxHeight
  /\ \E block \in Blocks : chain' = Append(chain, block)
  /\ UNCHANGED <<synced, calm, job, status, stage, index, input, proof, cause, requests>>

NodeSyncs ==
  /\ synced < Len(chain)
  /\ synced' = synced + 1
  /\ UNCHANGED <<chain, calm, job, status, stage, index, input, proof, cause, requests>>

\* Behind an RPC endpoint the next call may reach a node that is further behind.
NodeLags ==
  /\ Happens("lag")
  /\ synced > 0
  /\ synced' = synced - 1
  /\ UNCHANGED <<chain, calm, job, status, stage, index, input, proof, cause, requests>>

\* Whatever was wrong with the nodes, the network or the prover is over.
CalmDown ==
  /\ ~calm
  /\ calm' = TRUE
  /\ UNCHANGED <<chain, synced, job, status, stage, index, input, proof, cause, requests>>

\* The error a node gives for a height it has nothing of.
NodeErrors ==
  IF job.height > Len(chain) THEN {"height from the future"}
  ELSE IF job.height > synced THEN {"syncing in progress", "header not found"}
  ELSE {}

\* Errors any call may meet.
CallErrors ==
  IF Happens("rpc") THEN DaClientErrors \cup {"other call error"} ELSE {}

-----------------------------------------------------------------------------
(***************************************************************************)
(* How a stage ends.                                                        *)
(***************************************************************************)

\* finalize_job with the Failed status an error handler chose; the failure of
\* finalize_job itself is DatabaseFails.
Fail(error, retryable) ==
  /\ status' = Failed(IF error \in retryable THEN DataAvailabilityPending ELSE Absent)
  /\ cause' = error
  /\ stage' = "none"
  /\ index' = 0
  /\ input' = None
  /\ UNCHANGED <<world, job, proof, requests>>

\* handle_da_client_error
DaFails(error) == Fail(error, DaRetryable)

\* Variant: a retry that would start at the proof request, without its input.
ZkFailsToRetryProof(error) ==
  /\ status' = Failed(IF error \in ZkRetryable THEN DataAvailable ELSE Absent)
  /\ cause' = error
  /\ stage' = "none"
  /\ UNCHANGED <<world, job, index, input, proof, requests>>

\* handle_zk_client_error
ZkFails(error) == Fail(error, ZkRetryable)

\* The task ends with an error that is only counted, or only logged; the job
\* stays in the queue as it is.
GivesUp(error) ==
  /\ cause' = error
  /\ stage' = "none"
  /\ index' = 0
  /\ UNCHANGED <<world, job, status, input, proof, requests>>

\* Whatever a task does, it reads or writes the trees, and that may fail: the
\* lookup at its start, the next status at its end, a failure it records.
DatabaseFails ==
  /\ stage # "none"
  /\ Happens("db")
  /\ GivesUp("InternalError")

-----------------------------------------------------------------------------
(***************************************************************************)
(* get_zk_proof_input_from_da                                               *)
(***************************************************************************)

\* header_get_by_height.
GetHeader ==
  /\ stage = "header"
  /\ NodeErrors = {}
  /\ stage' = "blob"
  /\ UNCHANGED <<world, job, status, index, input, proof, cause, requests>>

HeaderFails ==
  /\ stage = "header"
  /\ \/ \E error \in NodeErrors \cup CallErrors : DaFails(error)
     \/ Happens("unhandled") /\ GivesUp("no DA client")

\* blob_get: the blob comes with its index in the extended square.
GetBlob ==
  /\ stage = "blob"
  /\ NodeErrors = {}
  /\ Block.shares > 0
  /\ index' = EdsPosition(Block.start \div Block.width, Block.start % Block.width,
                          Block.width)
  /\ stage' = "range"
  /\ UNCHANGED <<world, job, status, input, proof, cause, requests>>

BlobFails ==
  /\ stage = "blob"
  /\ \/ \E error \in NodeErrors \cup CallErrors : DaFails(error)
     \/ NodeErrors = {} /\ Block.shares = 0 /\ DaFails("blob not found")
     \/ Happens("bad_answer") /\ Block.shares > 0 /\ GivesUp("MissingBlobIndex")

\* The shares the service asks for.
WantedRange ==
  LET from == OdsIndexOf(index, EdsSize(Block.width)) IN
  [from |-> from, to |-> from + Block.shares]

InSquare(range) == range.to <= Block.width * Block.width

\* The error for a range outside of the square.
RangeErrors == IF InSquare(WantedRange) THEN {} ELSE {"other call error"}

\* A node answers with the range it was asked for; the data root its proof leads
\* to is the header's, unless that node has another chain or answers rubbish.
AnsweredRoots ==
  {DataRoot(job.height)} \cup (IF Happens("bad_answer") THEN Hashes ELSE {})

\* The proof input, put together from the answers, and the job stored with it.
StoreInput(rowProof) ==
  /\ status' = DataAvailable
  /\ input' = [share_proofs |-> WantedRange,
               row_proof    |-> rowProof,
               data_root    |-> DataRoot(job.height),
               keccak_hash  |-> BlobHash,
               author       |-> Block.signer,
               batch_number |-> job.batch_number,
               chain_id     |-> job.chain_id]
  /\ stage' = "request"
  /\ index' = 0
  /\ UNCHANGED <<world, job, proof, cause, requests>>

\* Variant: the answer is stored without the sanity check.
GetRangeUnchecked ==
  /\ stage = "range"
  /\ NodeErrors = {}
  /\ InSquare(WantedRange)
  /\ \E rowProof \in AnsweredRoots : StoreInput(rowProof)

\* share_get_range, and the sanity check against the root of the header.
GetRange ==
  /\ stage = "range"
  /\ NodeErrors = {}
  /\ InSquare(WantedRange)
  /\ \E rowProof \in AnsweredRoots :
       /\ Verifies(rowProof, DataRoot(job.height))
       /\ StoreInput(rowProof)

RangeFails ==
  /\ stage = "range"
  /\ \/ \E error \in NodeErrors \cup RangeErrors \cup CallErrors : DaFails(error)
     \/ /\ NodeErrors = {} /\ InSquare(WantedRange)
        /\ \E rowProof \in AnsweredRoots : ~Verifies(rowProof, DataRoot(job.height))
        /\ GivesUp("FailedShareRangeProofSanityCheck")

DaStep == GetHeader \/ HeaderFails \/ GetBlob \/ BlobFails \/ GetRange \/ RangeFails

-----------------------------------------------------------------------------
(***************************************************************************)
(* request_zk_proof and wait_for_zk_proof                                   *)
(***************************************************************************)

\* The program accepts the input, with the block its data root belongs to.
Provable(proofInput) ==
  \E height \in 1..Len(chain) :
    /\ proofInput.data_root = DataRoot(height)
    /\ Accepts(proofInput, chain[height], BlobHash)

\* The network simulates the program before it takes the request.
SimulationErrors == IF Provable(input) THEN {} ELSE {"SimulationFailed"}
NetworkErrors    == IF Happens("zk") THEN ZkErrors ELSE {}

\* The request gets an id; ids are few here, and one whose request failed is
\* used again.  The network has the request even if the job cannot be stored.
RequestZkProof ==
  /\ stage = "request"
  /\ Provable(input)
  /\ \E r \in Requests :
       /\ requests' = [requests EXCEPT ![r] = input]
       /\ \/ /\ status' = ZkProofPending(r) /\ stage' = "wait"
             /\ input' = None
             /\ UNCHANGED cause
          \/ /\ Happens("db")
             /\ stage' = "none" /\ cause' = "InternalError"
             /\ UNCHANGED <<status, input>>
  /\ UNCHANGED <<world, job, index, proof>>

\* An error of the network's is handled; the proof setup's failure and an error
\* of another type are not.
RequestFails ==
  /\ stage = "request"
  /\ \/ \E error \in SimulationErrors \cup NetworkErrors : ZkFails(error)
     \/ /\ Happens("unhandled")
        /\ \E error \in {"InternalError", "Unhandled Error"} : GivesUp(error)

\* The network runs the program on the request's input.
ProofArrives ==
  /\ stage = "wait"
  /\ status' = ZkProofFinished(status.request)
  /\ proof' = Committed(requests[status.request])
  /\ stage' = "none"
  /\ UNCHANGED <<world, job, index, input, cause, requests>>

ProofFails ==
  /\ stage = "wait"
  /\ \/ \E error \in NetworkErrors : ZkFails(error)
     \/ Happens("unhandled") /\ GivesUp("Unhandled Error")

ZkStep == RequestZkProof \/ RequestFails \/ ProofArrives \/ ProofFails

-----------------------------------------------------------------------------
(***************************************************************************)
(* The client and the process.                                              *)
(***************************************************************************)

\* A call about a job that is not known, or failed in a way worth a retry.
Ask ==
  /\ status \in {Absent, Failed(DataAvailabilityPending)}
  /\ status' = DataAvailabilityPending
  /\ cause' = "none"
  /\ stage' = "header"
  /\ UNCHANGED <<world, job, index, input, proof, requests>>

\* Where a task starts with a job of some status.
StageOf(pending) ==
  CASE pending = DataAvailabilityPending -> "header"
    [] pending = DataAvailable -> "request"
    [] OTHER -> "wait"

\* A restart resumes the job from its status; what its task knew is gone, and
\* a job a task gave up on has a task again.
Restart ==
  /\ Happens("crash")
  /\ status \in PendingStatus
  /\ stage' = StageOf(status)
  /\ index' = 0
  /\ cause' = "none"
  /\ UNCHANGED <<world, job, status, input, proof, requests>>

Next ==
  \/ ProduceBlock \/ NodeSyncs \/ NodeLags \/ CalmDown
  \/ DaStep \/ ZkStep \/ DatabaseFails
  \/ Ask \/ Restart

Spec == Init /\ [][Next]_vars

\* Every call is answered or times out; the node follows the chain; the client
\* keeps asking.
Fairness == WF_vars(DaStep) /\ WF_vars(ZkStep) /\ WF_vars(NodeSyncs) /\ WF_vars(Ask)

FairSpec == Spec /\ Fairness

-----------------------------------------------------------------------------
(***************************************************************************)
(* Properties                                                               *)
(***************************************************************************)

Inputs == [share_proofs : [from : Nat, to : Nat], row_proof : Hashes,
           data_root : Hashes, keccak_hash : Hashes, author : BOOLEAN,
           batch_number : U32, chain_id : U64]

Stages == {"none", "header", "blob", "range", "request", "wait"}

Errors == {"none"} \cup DaCallErrors \cup DaClientErrors \cup ZkErrors \cup UnhandledErrors

TypeOK ==
  /\ chain \in Seq(Blocks) /\ Len(chain) <= MaxHeight
  /\ synced \in 0..Len(chain)
  /\ calm \in BOOLEAN
  /\ job \in Asked
  /\ status \in {Absent} \cup PendingStatus \cup FinalStatus
  /\ stage \in Stages
  /\ index \in Nat
  /\ input # None => input \in Inputs
  /\ cause \in Errors
  /\ \A r \in Requests : requests[r] # None => requests[r] \in Inputs

\* A proof is paid for only if it can be made: what the DA stage stores, from the
\* answers of three nodes and its own index arithmetic, the zkVM program accepts
\* against the data root that goes with it, wherever in the square the blob lies
\* and whatever root a node proves its shares under.
StoredInputIsProvable ==
  /\ status = DataAvailable => Provable(input)
  /\ \A r \in Requests : requests[r] # None => Provable(requests[r])

\* What a client reads from a finished proof is about its own job: the blob's
\* hash, the data root of the height it asked for, its batch and its chain.
ProofIsAboutTheJob ==
  proof # NoProof =>
    FromBytes(proof) = [keccak_hash  |-> BlobHash,
                        data_root    |-> DataRoot(job.height),
                        batch_number |-> job.batch_number,
                        chain_id     |-> job.chain_id]

\* Errors that say only that somebody was behind, slow or out of reach.
PassingErrors ==
  {"header not found", "syncing in progress", "RequestTimeout", "Transport",
   "RestartNeeded", "RequestTimedOut", "RequestAuctionTimedOut", "RpcError"}

\* The job was failed for good, for a reason that does not pass.
FailedForAReason == status = Failed(Absent) /\ cause \notin PassingErrors

\* The one error that passes and yet fails the job for good (see below).
FailedByAuction == status = Failed(Absent) /\ cause = "RequestAuctionTimedOut"

\* Its last task gave it up, over an error without a handler.
GivenUp == status \in PendingStatus /\ stage = "none" /\ cause \in UnhandledErrors

\* Once the troubles are over, a client that keeps asking for a blob that is on
\* the chain gets its proof, however often nodes lagged, calls and requests
\* failed or the process restarted before, in whichever stage.  Before, only an
\* error that does not pass or an auction may have failed the job for good, and
\* only an error without a handler, with no restart since, left it stuck.
BlobOnChainIsProved ==
  <>calm =>
    (BlobOnChain /\ status # Failed(Absent)
       ~> status \in {ZkProofFinished(r) : r \in Requests}
            \/ FailedForAReason \/ FailedByAuction \/ GivenUp)

\* What the text of an error says ("callback to start the job over") is so: a
\* client that calls back finds its job started over.
AnnouncedRetryStartsOver ==
  cause \in AnnouncedRetries ~> status = DataAvailabilityPending
=============================================================================
