-------------------------- MODULE ProofPathProofs ----------------------------
(***************************************************************************)
(* Theorems about ProofPath, for squares of every width, blobs of every     *)
(* position and length, every byte and hash size, every height and every    *)
(* set of faults: what is stored can be proved, and what is proved is about *)
(* the job.                                                                 *)
(***************************************************************************)
EXTENDS ProofPath, PublicValuesProofs

-----------------------------------------------------------------------------
(***************************************************************************)
(* The index arithmetic is right for squares of every width                 *)
(***************************************************************************)

\* A quotient is determined by the multiple of the divisor below the dividend.
LEMMA QuotientOf ==
  ASSUME NEW d \in Nat \ {0}, NEW q \in Nat, NEW c \in 0..(d - 1)
  PROVE  (q * d + c) \div d = q
<1> DEFINE n == q * d + c
           k == n \div d
<1>1. n \in Nat /\ k \in Nat
  OBVIOUS
<1>2. k * d <= n /\ n < k * d + d
  OBVIOUS
<1>3. ~(k < q)
  <2> SUFFICES ASSUME k < q PROVE FALSE
    OBVIOUS
  <2>1. (k + 1) * d <= q * d
    OBVIOUS
  <2> QED
    BY <1>1, <1>2, <2>1
<1>4. ~(q < k)
  <2> SUFFICES ASSUME q < k PROVE FALSE
    OBVIOUS
  <2>1. (q + 1) * d <= k * d
    OBVIOUS
  <2> QED
    BY <1>1, <1>2, <2>1
<1> QED
  BY <1>1, <1>3, <1>4

\* For a share in the original half of any row of any square, the code's index
\* is the share's number in the original square.
THEOREM OdsIndexCorrect ==
  ASSUME NEW width \in Nat \ {0}, NEW row \in Nat, NEW column \in 0..(width - 1)
  PROVE  OdsIndexOf(EdsPosition(row, column, width), EdsSize(width))
           = OdsPosition(row, column, width)
<1> DEFINE eds == EdsPosition(row, column, width)
<1>1. OdsSize(EdsSize(width)) = width
  BY DEF OdsSize, EdsSize
<1>2. FirstRow(eds, EdsSize(width)) = row
  <2>1. EdsSize(width) \in Nat \ {0} /\ column \in 0..(EdsSize(width) - 1)
    BY DEF EdsSize
  <2> QED
    BY <2>1, QuotientOf DEF FirstRow, EdsPosition
<1>3. OdsIndexOf(eds, EdsSize(width)) = eds - row * width
  BY <1>1, <1>2 DEF OdsIndexOf
<1>4. eds = row * width + row * width + column
  BY DEF EdsPosition, EdsSize
<1> QED
  BY <1>3, <1>4 DEF OdsPosition

-----------------------------------------------------------------------------
(***************************************************************************)
(* The blob and its input                                                   *)
(***************************************************************************)

\* The proof input of a job whose blob is on the chain.
JobInput == [share_proofs |-> [from |-> Block.start, to |-> Block.start + Block.shares],
             row_proof    |-> DataRoot(job.height),
             data_root    |-> DataRoot(job.height),
             keccak_hash  |-> BlobHash,
             author       |-> Block.signer,
             batch_number |-> job.batch_number,
             chain_id     |-> job.chain_id]

\* The index a node gives for the job's blob.
BlobIndex == EdsPosition(Block.start \div Block.width, Block.start % Block.width,
                         Block.width)

\* What is known of every job and every block.
World == chain \in Seq(Blocks) /\ Len(chain) <= MaxHeight /\ job \in Asked

LEMMA JobFacts ==
  ASSUME job \in Asked
  PROVE  /\ job.height \in Nat /\ 1 <= job.height /\ job.height <= MaxHeight
         /\ job.batch_number \in U32 /\ job.chain_id \in U64
         /\ DataRoot(job.height) \in Hashes
<1>1. job \in [height : 1..MaxHeight, batch_number : U32, chain_id : U64]
  BY AskedAssumption
<1>2. job.height \in 1..MaxHeight /\ job.batch_number \in U32 /\ job.chain_id \in U64
  BY <1>1
<1>3. job.height \in Bytes
  BY <1>2, HeightAssumption, BaseAssumption DEF Bytes
<1>4. DataRoot(job.height) \in Hashes
  BY <1>3 DEF DataRoot, Hashes
<1> QED
  BY <1>2, <1>4, HeightAssumption

\* Dividing with a remainder.
LEMMA Division ==
  ASSUME NEW n \in Nat, NEW d \in Nat, d # 0
  PROVE  n \div d \in Nat /\ n % d \in 0..(d - 1) /\ (n \div d) * d + (n % d) = n
OBVIOUS

\* A block with the job's blob, and where the index arithmetic says the blob is.
LEMMA BlockFacts ==
  ASSUME World, BlobOnChain
  PROVE  /\ Block \in Blocks
         /\ Block.width \in Nat \ {0} /\ Block.start \in Nat /\ Block.shares \in Nat
         /\ Block.shares > 0 /\ Block.signer \in BOOLEAN
         /\ Block.start + Block.shares <= Block.width * Block.width
         /\ BlobIndex \in Nat
         /\ OdsIndexOf(BlobIndex, EdsSize(Block.width)) = Block.start
<1>1. Block \in Blocks
  BY JobFacts DEF World, BlobOnChain, Block
<1> DEFINE b == Block
<1>2. b \in [width : Nat, start : Nat, shares : Nat, signer : BOOLEAN]
  BY <1>1, BlockAssumption
<1>3. /\ b.width \in Nat /\ b.start \in Nat /\ b.shares \in Nat
      /\ b.signer \in BOOLEAN /\ b.shares > 0
      /\ b.start + b.shares <= b.width * b.width
  BY <1>1, <1>2, BlockAssumption DEF BlobOnChain
<1> HIDE DEF b
<1>4. b.width # 0
  BY <1>3
<1> DEFINE row    == b.start \div b.width
           column == b.start % b.width
<1>5. /\ row \in Nat /\ column \in 0..(b.width - 1)
      /\ row * b.width + column = b.start
  BY <1>3, <1>4, Division
<1> HIDE DEF row, column
<1>6. /\ OdsIndexOf(EdsPosition(row, column, b.width), EdsSize(b.width)) = b.start
      /\ EdsPosition(row, column, b.width) \in Nat
  <2>1. OdsIndexOf(EdsPosition(row, column, b.width), EdsSize(b.width))
          = OdsPosition(row, column, b.width)
    BY <1>3, <1>4, <1>5, OdsIndexCorrect
  <2>2. EdsPosition(row, column, b.width) \in Nat
    BY <1>3, <1>5 DEF EdsPosition, EdsSize
  <2> QED
    BY <1>5, <2>1, <2>2 DEF OdsPosition
<1>7. BlobIndex = EdsPosition(row, column, b.width)
  BY DEF BlobIndex, b, row, column
<1> QED
  BY <1>1, <1>3, <1>4, <1>6, <1>7 DEF b

\* The program accepts the job's input and commits to what the client expects.
LEMMA InputFacts ==
  ASSUME World, BlobOnChain
  PROVE  /\ JobInput \in Inputs
         /\ Provable(JobInput)
         /\ FromBytes(Committed(JobInput)) =
              [keccak_hash  |-> BlobHash,
               data_root    |-> DataRoot(job.height),
               batch_number |-> job.batch_number,
               chain_id     |-> job.chain_id]
<1>1. JobInput \in Inputs
  BY BlockFacts, JobFacts, HashAssumption DEF World, JobInput, Inputs
<1>2. Provable(JobInput)
  <2>1. Accepts(JobInput, Block, BlobHash)
    BY BlockFacts DEF Accepts, RebuildsShares, CoversBlob, Verifies, JobInput
  <2>2. job.height \in 1..Len(chain) /\ JobInput.data_root = DataRoot(job.height)
    BY JobFacts DEF World, BlobOnChain, JobInput
  <2> QED
    BY <2>1, <2>2 DEF Provable, Block
<1> DEFINE output == [keccak_hash  |-> BlobHash,
                      data_root    |-> DataRoot(job.height),
                      batch_number |-> job.batch_number,
                      chain_id     |-> job.chain_id]
<1>3. output \in Outputs
  BY JobFacts, HashAssumption DEF World, Outputs
<1>4. Committed(JobInput) = ToVec(output)
  BY DEF Committed, JobInput
<1> HIDE DEF output
<1>5. FromBytes(Committed(JobInput)) = output
  BY <1>3, <1>4, OutputIsReadBack
<1> QED
  BY <1>1, <1>2, <1>5 DEF output

-----------------------------------------------------------------------------
(***************************************************************************)
(* The invariant: wherever the job is, what is known of its blob is right.  *)
(***************************************************************************)

RangeKnown   == stage = "range" => BlobOnChain /\ index = BlobIndex
StageRight   ==
  /\ stage = "request" => status = DataAvailable
  /\ stage = "wait" => \E r \in Requests : status = ZkProofPending(r)
InputRight   == status = DataAvailable => BlobOnChain /\ input = JobInput
RequestsRight ==
  /\ requests = [r \in Requests |-> requests[r]]
  /\ \A r \in Requests : requests[r] = None \/ (BlobOnChain /\ requests[r] = JobInput)
PendingRight ==
  \A r \in Requests :
    status = ZkProofPending(r) => BlobOnChain /\ requests[r] = JobInput
ProofRight   == proof = NoProof \/ (BlobOnChain /\ proof = Committed(JobInput))

PathInv ==
  /\ World /\ RangeKnown /\ StageRight
  /\ InputRight /\ RequestsRight /\ PendingRight /\ ProofRight

\* The statuses, told apart by their variant.
LEMMA PathStatusFacts ==
  /\ \A r : ZkProofPending(r).status = "ZkProofPending" /\ ZkProofPending(r).request = r
  /\ \A r : ZkProofFinished(r).status = "ZkProofFinished"
  /\ \A s : Failed(s).status = "Failed"
  /\ DataAvailable.status = "DataAvailable"
  /\ DataAvailabilityPending.status = "DataAvailabilityPending"
  /\ Absent.status = "Absent"
BY DEF ZkProofPending, ZkProofFinished, Failed, DataAvailable,
       DataAvailabilityPending, Absent

LEMMA InitPath == Init => PathInv
<1> SUFFICES ASSUME Init PROVE PathInv
  OBVIOUS
<1>1. chain \in Seq(Blocks) /\ Len(chain) <= MaxHeight
  BY HeightAssumption DEF Init
<1>2. RequestsRight
  BY DEF Init, RequestsRight
<1> QED
  BY <1>1, <1>2, PathStatusFacts
  DEF Init, PathInv, World, RangeKnown, StageRight, InputRight, PendingRight, ProofRight

\* A longer chain has the same block where the job says.
LEMMA ChainGrows ==
  ASSUME World, ProduceBlock
  PROVE  /\ World'
         /\ BlobOnChain => /\ BlobOnChain' /\ JobInput' = JobInput
                           /\ BlobIndex' = BlobIndex
<1>1. PICK block \in Blocks : chain' = Append(chain, block)
  BY DEF ProduceBlock
<1>2. World'
  <2>1. chain \in Seq(Blocks) /\ Len(chain) < MaxHeight /\ job' = job
    BY DEF World, ProduceBlock
  <2>2. chain' \in Seq(Blocks) /\ Len(chain') = Len(chain) + 1
    BY <1>1, <2>1, AppendProperties
  <2> QED
    BY <2>1, <2>2, HeightAssumption, LenProperties DEF World
<1>3. BlobOnChain => BlobOnChain' /\ Block' = Block
  <2>1. ASSUME NEW h \in 1..Len(chain)
        PROVE  h <= Len(chain') /\ chain'[h] = chain[h]
    BY <1>1 DEF World
  <2>2. BlobOnChain => job.height \in 1..Len(chain)
    BY JobFacts DEF World, BlobOnChain
  <2> QED
    BY <2>1, <2>2 DEF BlobOnChain, Block, ProduceBlock
<1>4. job' = job
  BY DEF ProduceBlock
<1>5. BlobOnChain => JobInput' = JobInput /\ BlobIndex' = BlobIndex
  BY <1>3, <1>4 DEF JobInput, BlobIndex
<1> QED
  BY <1>2, <1>3, <1>5

\* Most steps leave the chain alone, and what it says of the job with it.
LEMMA SameBlob ==
  ASSUME World, UNCHANGED <<chain, job>>
  PROVE  /\ World' /\ BlobOnChain' = BlobOnChain
         /\ JobInput' = JobInput /\ BlobIndex' = BlobIndex
         /\ Block' = Block
BY DEF World, BlobOnChain, JobInput, BlobIndex, Block

\* A failure forgets the input and leaves proof and requests.
LEMMA FailKeeps ==
  ASSUME PathInv, NEW error, NEW retryable, Fail(error, retryable)
  PROVE  PathInv'
<1> USE DEF PathInv
<1>1. /\ World' /\ BlobOnChain' = BlobOnChain
      /\ JobInput' = JobInput /\ BlobIndex' = BlobIndex
  BY SameBlob DEF Fail, world
<1>2. /\ stage' = "none" /\ proof' = proof /\ requests' = requests
      /\ status'.status = "Failed"
  BY PathStatusFacts DEF Fail
<1>3. RequestsRight' /\ ProofRight'
  BY <1>1, <1>2 DEF RequestsRight, ProofRight
<1>4. RangeKnown' /\ StageRight' /\ InputRight' /\ PendingRight'
  BY <1>2, PathStatusFacts DEF RangeKnown, StageRight, InputRight, PendingRight
<1> QED
  BY <1>1, <1>3, <1>4

\* A job that is given up stays as it is.
LEMMA GivesUpKeeps ==
  ASSUME PathInv, NEW error, GivesUp(error)
  PROVE  PathInv'
BY SameBlob
DEF GivesUp, world, PathInv, RangeKnown, StageRight, InputRight, RequestsRight,
    PendingRight, ProofRight

\* A blob that is found is the job's, where the node says it is ...
LEMMA BlobFound ==
  ASSUME World, GetBlob
  PROVE  BlobOnChain /\ index' = BlobIndex
<1>1. ~(job.height > Len(chain)) /\ Block.shares > 0
  BY DEF GetBlob, NodeErrors
<1>2. job.height \in Nat /\ Len(chain) \in Nat
  BY JobFacts, LenProperties DEF World
<1> QED
  BY <1>1, <1>2 DEF BlobOnChain, GetBlob, BlobIndex

\* ... and the input made of its shares is the job's.
LEMMA RangeFetched ==
  ASSUME World, RangeKnown, GetRange
  PROVE  /\ BlobOnChain /\ input' = JobInput
         /\ status' = DataAvailable /\ stage' = "request" /\ index' = 0
         /\ UNCHANGED <<world, job, proof, cause, requests>>
<1>1. BlobOnChain /\ index = BlobIndex
  BY DEF GetRange, RangeKnown
<1>2. WantedRange = [from |-> Block.start, to |-> Block.start + Block.shares]
  BY <1>1, BlockFacts DEF WantedRange
<1>3. StoreInput(DataRoot(job.height))
  BY DEF GetRange, Verifies
<1> QED
  BY <1>1, <1>2, <1>3 DEF StoreInput, JobInput

LEMMA DaStepKeeps ==
  ASSUME PathInv, DaStep
  PROVE  PathInv'
<1> USE DEF PathInv
<1>1. CASE GetHeader
  BY <1>1, SameBlob
  DEF GetHeader, world, RangeKnown, StageRight, InputRight, RequestsRight, PendingRight,
      ProofRight
<1>2. CASE GetBlob
  <2>1. /\ World' /\ BlobOnChain' = BlobOnChain
        /\ JobInput' = JobInput /\ BlobIndex' = BlobIndex
    BY <1>2, SameBlob DEF GetBlob, world
  <2> QED
    BY <1>2, <2>1, BlobFound
    DEF GetBlob, RangeKnown, StageRight, InputRight, RequestsRight, PendingRight, ProofRight
<1>3. CASE GetRange
  <2>1. /\ World' /\ BlobOnChain' = BlobOnChain
        /\ JobInput' = JobInput /\ BlobIndex' = BlobIndex
    BY <1>3, SameBlob, RangeFetched DEF world
  <2>2. BlobOnChain /\ input' = JobInput /\ status' = DataAvailable
        /\ stage' = "request" /\ requests' = requests /\ proof' = proof
    BY <1>3, RangeFetched
  <2>3. DataAvailable.status = "DataAvailable"
    BY PathStatusFacts
  <2> QED
    BY <2>1, <2>2, <2>3, PathStatusFacts
    DEF RangeKnown, StageRight, InputRight, RequestsRight, PendingRight, ProofRight
<1>4. CASE HeaderFails \/ BlobFails \/ RangeFails
  <2>1. \E error : GivesUp(error) \/ Fail(error, DaRetryable)
    BY <1>4 DEF HeaderFails, BlobFails, RangeFails, DaFails
  <2> QED
    BY <2>1, FailKeeps, GivesUpKeeps
<1> QED
  BY <1>1, <1>2, <1>3, <1>4 DEF DaStep

LEMMA ZkStepKeeps ==
  ASSUME PathInv, ZkStep
  PROVE  PathInv'
<1> USE DEF PathInv
<1>1. CASE RequestZkProof
  <2>1. /\ World' /\ BlobOnChain' = BlobOnChain
        /\ JobInput' = JobInput /\ BlobIndex' = BlobIndex
    BY <1>1, SameBlob DEF RequestZkProof, world
  <2>2. PICK r \in Requests :
          /\ requests' = [requests EXCEPT ![r] = input]
          /\ \/ status' = ZkProofPending(r) /\ stage' = "wait"
             \/ status' = status /\ input' = input /\ stage' = "none"
    BY <1>1 DEF RequestZkProof
  <2>3. status = DataAvailable /\ BlobOnChain /\ input = JobInput
    BY <1>1 DEF RequestZkProof, StageRight, InputRight
  <2>4. requests = [q \in Requests |-> requests[q]]
    BY DEF RequestsRight
  <2>5. /\ requests' = [q \in Requests |-> requests'[q]]
        /\ requests'[r] = JobInput
        /\ \A q \in Requests \ {r} : requests'[q] = requests[q]
    BY <2>2, <2>3, <2>4
  <2>6. RequestsRight'
    BY <2>1, <2>3, <2>5 DEF RequestsRight
  <2>7. PendingRight' /\ InputRight' /\ StageRight' /\ RangeKnown'
    BY <2>1, <2>2, <2>3, <2>5, PathStatusFacts
    DEF PendingRight, InputRight, StageRight, RangeKnown
  <2> QED
    BY <1>1, <2>1, <2>6, <2>7 DEF RequestZkProof, ProofRight
<1>2. CASE ProofArrives
  <2>1. /\ World' /\ BlobOnChain' = BlobOnChain
        /\ JobInput' = JobInput /\ BlobIndex' = BlobIndex
    BY <1>2, SameBlob DEF ProofArrives, world
  <2>2. PICK r \in Requests : status = ZkProofPending(r)
    BY <1>2 DEF ProofArrives, StageRight
  <2>3. BlobOnChain /\ requests[r] = JobInput
    BY <2>2 DEF PendingRight
  <2>4. proof' = Committed(JobInput)
    BY <1>2, <2>2, <2>3, PathStatusFacts DEF ProofArrives
  <2>5. status'.status = "ZkProofFinished" /\ stage' = "none" /\ requests' = requests
    BY <1>2, PathStatusFacts DEF ProofArrives
  <2> QED
    BY <2>1, <2>3, <2>4, <2>5, PathStatusFacts
    DEF RangeKnown, StageRight, InputRight, RequestsRight, PendingRight, ProofRight
<1>3. CASE RequestFails \/ ProofFails
  <2>1. \E error : GivesUp(error) \/ Fail(error, ZkRetryable)
    BY <1>3 DEF RequestFails, ProofFails, ZkFails
  <2> QED
    BY <2>1, FailKeeps, GivesUpKeeps
<1> QED
  BY <1>1, <1>2, <1>3 DEF ZkStep

\* A restarted task is in the stage of its job's status.
LEMMA RestartKeeps ==
  ASSUME PathInv, Restart
  PROVE  PathInv'
<1>1. /\ UNCHANGED <<chain, job, status, input, proof, requests>>
      /\ stage' = StageOf(status) /\ status \in PendingStatus
  BY DEF Restart, world
<1>2. /\ StageOf(status) # "range"
      /\ StageOf(status) = "request" => status = DataAvailable
      /\ StageOf(status) = "wait" => \E r \in Requests : status = ZkProofPending(r)
  BY <1>1, PathStatusFacts DEF StageOf, PendingStatus
<1> QED
  BY <1>1, <1>2, SameBlob
  DEF PathInv, RangeKnown, StageRight, InputRight, RequestsRight, PendingRight,
      ProofRight

LEMMA PathInvariant == Spec => []PathInv
<1>1. PathInv /\ [Next]_vars => PathInv'
  <2> SUFFICES ASSUME PathInv, [Next]_vars PROVE PathInv'
    OBVIOUS
  <2>1. CASE ProduceBlock
    BY <2>1, ChainGrows
    DEF ProduceBlock, PathInv, RangeKnown, StageRight, InputRight, RequestsRight, PendingRight,
        ProofRight
  <2>2. CASE DaStep
    BY <2>2, DaStepKeeps
  <2>3. CASE ZkStep
    BY <2>3, ZkStepKeeps
  <2>4. CASE NodeSyncs \/ NodeLags \/ CalmDown \/ UNCHANGED vars
    BY <2>4, SameBlob
    DEF NodeSyncs, NodeLags, CalmDown, vars, world, PathInv, RangeKnown, StageRight,
        InputRight, RequestsRight, PendingRight, ProofRight
  <2>5. CASE Ask
    <3>1. /\ UNCHANGED <<chain, job, input, proof, requests>>
          /\ stage' = "header" /\ status' = DataAvailabilityPending
      BY <2>5 DEF Ask, world
    <3> QED
      BY <3>1, SameBlob, PathStatusFacts
      DEF PathInv, RangeKnown, StageRight, InputRight, RequestsRight, PendingRight,
          ProofRight
  <2>6. CASE Restart
    BY <2>6, RestartKeeps
  <2>7. CASE DatabaseFails
    BY <2>7, GivesUpKeeps DEF DatabaseFails
  <2> QED
    BY <2>1, <2>2, <2>3, <2>4, <2>5, <2>6, <2>7 DEF Next
<1> QED
  BY <1>1, InitPath, PTL DEF Spec

-----------------------------------------------------------------------------
(***************************************************************************)
(* Theorems                                                                 *)
(***************************************************************************)

\* StoredInputIsProvable: no proof is paid for that the program would refuse,
\* whatever data root a node proves its shares under.
THEOREM EveryInputIsProvable == Spec => []StoredInputIsProvable
<1>1. PathInv => StoredInputIsProvable
  BY InputFacts
  DEF PathInv, InputRight, RequestsRight, StoredInputIsProvable
<1> QED
  BY <1>1, PathInvariant, PTL

\* ProofIsAboutTheJob: what a client reads from a finished proof is about its
\* own job.
THEOREM EveryProofIsAboutItsJob == Spec => []ProofIsAboutTheJob
<1>1. PathInv => ProofIsAboutTheJob
  BY InputFacts DEF PathInv, ProofRight, ProofIsAboutTheJob
<1> QED
  BY <1>1, PathInvariant, PTL

-----------------------------------------------------------------------------
(***************************************************************************)
(* Type correctness                                                         *)
(***************************************************************************)

\* TypeOK alone is not inductive: that the range and the index are numbers
\* depends on where the blob is, and the input on what the task knows of it.
PathTyped ==
  /\ synced \in 0..Len(chain)
  /\ calm \in BOOLEAN
  /\ status \in {Absent} \cup PendingStatus \cup FinalStatus
  /\ stage \in Stages
  /\ index \in Nat
  /\ input = None \/ (BlobOnChain /\ input = JobInput)
  /\ cause \in Errors

LEMMA TypedFail ==
  ASSUME PathInv, PathTyped, NEW error \in Errors, NEW retryable,
         Fail(error, retryable)
  PROVE  PathTyped'
<1>1. Failed(IF error \in retryable THEN DataAvailabilityPending ELSE Absent)
        \in FinalStatus
  BY DEF FinalStatus, Retries
<1> QED
  BY <1>1 DEF Fail, PathTyped, world, Stages

LEMMA TypedGivesUp ==
  ASSUME PathInv, PathTyped, NEW error \in Errors, GivesUp(error)
  PROVE  PathTyped'
<1>1. /\ BlobOnChain' = BlobOnChain /\ JobInput' = JobInput
      /\ UNCHANGED <<chain, synced, calm>>
  BY SameBlob DEF GivesUp, world, PathInv
<1> QED
  BY <1>1 DEF GivesUp, PathTyped, Stages

LEMMA TypedDaStep ==
  ASSUME PathInv, PathTyped, DaStep
  PROVE  PathTyped'
<1> USE DEF PathInv
<1>1. UNCHANGED <<world, job>>
  BY RangeFetched
  DEF DaStep, GetHeader, HeaderFails, GetBlob, BlobFails, RangeFails, DaFails, Fail, GivesUp
<1>2. /\ BlobOnChain' = BlobOnChain /\ JobInput' = JobInput
      /\ UNCHANGED <<chain, synced, calm>>
  BY <1>1, SameBlob DEF world
<1>3. CASE GetHeader
  BY <1>2, <1>3 DEF GetHeader, PathTyped, Stages
<1>4. CASE GetBlob
  BY <1>2, <1>4, BlobFound, BlockFacts DEF GetBlob, PathTyped, Stages
<1>5. CASE GetRange
  BY <1>2, <1>5, RangeFetched DEF PathTyped, PendingStatus, Stages
<1>6. CASE HeaderFails \/ BlobFails \/ RangeFails
  <2>1. NodeErrors \cup RangeErrors \cup CallErrors \cup {"blob not found"}
          \subseteq Errors
    BY DEF NodeErrors, RangeErrors, CallErrors, Errors, DaCallErrors
  <2>2. UnhandledErrors \subseteq Errors
    BY DEF Errors
  <2>3. \E error \in Errors : GivesUp(error) \/ Fail(error, DaRetryable)
    BY <1>6, <2>1, <2>2 DEF HeaderFails, BlobFails, RangeFails, DaFails, UnhandledErrors
  <2> QED
    BY <2>3, TypedFail, TypedGivesUp
<1> QED
  BY <1>3, <1>4, <1>5, <1>6 DEF DaStep

LEMMA TypedZkStep ==
  ASSUME PathInv, PathTyped, ZkStep
  PROVE  PathTyped'
<1> USE DEF PathInv
<1>1. UNCHANGED <<world, job>>
  BY DEF ZkStep, RequestZkProof, RequestFails, ProofArrives, ProofFails, ZkFails, Fail,
     GivesUp
<1>2. /\ BlobOnChain' = BlobOnChain /\ JobInput' = JobInput
      /\ UNCHANGED <<chain, synced, calm>>
  BY <1>1, SameBlob DEF world
<1>3. CASE RequestZkProof
  <2>1. /\ status' = status \/ status' \in PendingStatus
        /\ input' = input \/ input' = None
        /\ cause' \in Errors /\ index' = index /\ stage' \in Stages
    BY <1>3 DEF RequestZkProof, PathTyped, PendingStatus, Errors, UnhandledErrors, Stages
  <2> QED
    BY <1>2, <2>1 DEF PathTyped
<1>4. CASE ProofArrives
  <2>1. PICK r \in Requests : status = ZkProofPending(r)
    BY <1>4 DEF ProofArrives, StageRight
  <2>2. status' = ZkProofFinished(r)
    BY <1>4, <2>1, PathStatusFacts DEF ProofArrives
  <2> QED
    BY <1>2, <1>4, <2>2 DEF ProofArrives, PathTyped, FinalStatus, Stages
<1>5. CASE RequestFails \/ ProofFails
  <2>1. SimulationErrors \cup NetworkErrors \subseteq Errors
    BY DEF SimulationErrors, NetworkErrors, Errors, ZkErrors
  <2>2. UnhandledErrors \subseteq Errors
    BY DEF Errors
  <2>3. \E error \in Errors : GivesUp(error) \/ Fail(error, ZkRetryable)
    BY <1>5, <2>1, <2>2 DEF RequestFails, ProofFails, ZkFails, UnhandledErrors
  <2> QED
    BY <2>3, TypedFail, TypedGivesUp
<1> QED
  BY <1>3, <1>4, <1>5 DEF ZkStep

LEMMA TypedStep == PathInv /\ PathTyped /\ [Next]_vars => PathTyped'
<1> SUFFICES ASSUME PathInv, PathTyped, [Next]_vars PROVE PathTyped'
  OBVIOUS
<1> USE DEF PathInv
<1>1. Len(chain) \in Nat /\ synced \in Nat /\ synced <= Len(chain)
  BY LenProperties DEF World, PathTyped
<1>2. CASE ProduceBlock
  <2>1. Len(chain') = Len(chain) + 1
    BY <1>2 DEF ProduceBlock, World
  <2> QED
    BY <1>1, <1>2, <2>1, ChainGrows DEF ProduceBlock, PathTyped
<1>3. CASE NodeSyncs \/ NodeLags \/ CalmDown
  <2>1. /\ BlobOnChain' = BlobOnChain /\ JobInput' = JobInput
        /\ UNCHANGED <<chain, status, stage, index, input, cause>>
    BY <1>3, SameBlob DEF NodeSyncs, NodeLags, CalmDown
  <2>2. synced' \in 0..Len(chain)
    <3>1. synced' = synced \/ (synced < Len(chain) /\ synced' = synced + 1)
            \/ (synced > 0 /\ synced' = synced - 1)
      BY <1>3 DEF NodeSyncs, NodeLags, CalmDown
    <3> QED
      BY ONLY <1>1, <3>1
  <2>3. calm' = calm \/ calm' = TRUE
    BY <1>3 DEF NodeSyncs, NodeLags, CalmDown
  <2> QED
    BY <2>1, <2>2, <2>3 DEF PathTyped
<1>4. CASE Ask \/ Restart \/ UNCHANGED vars
  <2>1. /\ BlobOnChain' = BlobOnChain /\ JobInput' = JobInput
        /\ UNCHANGED <<chain, synced, calm, input>>
    BY <1>4, SameBlob DEF Ask, Restart, vars, world
  <2>2. cause' \in Errors
    BY <1>4 DEF Ask, Restart, vars, PathTyped, Errors
  <2>3. stage' \in Stages
    BY <1>4 DEF Ask, Restart, StageOf, vars, PathTyped, Stages
  <2> QED
    BY <1>4, <2>1, <2>2, <2>3 DEF Ask, Restart, vars, PathTyped, PendingStatus
<1>5. CASE DatabaseFails
  <2>1. "InternalError" \in Errors
    BY DEF Errors, UnhandledErrors
  <2> QED
    BY <1>5, <2>1, TypedGivesUp DEF DatabaseFails
<1> QED
  BY <1>2, <1>3, <1>4, <1>5, TypedDaStep, TypedZkStep DEF Next

\* TypeOK: whatever the chain, the node and the network answer, the job has a
\* status and an error the service knows, and an input with numbers in range.
THEOREM PathTypeCorrect == Spec => []TypeOK
<1>1. Init => PathTyped
  <2> SUFFICES ASSUME Init PROVE PathTyped
    OBVIOUS
  <2>1. synced \in 0..Len(chain)
    BY EmptySeq DEF Init
  <2>2. calm = FALSE /\ cause \in Errors
    BY DEF Init, Errors
  <2> QED
    BY <2>1, <2>2 DEF Init, PathTyped, Stages
<1>2. PathInv /\ PathTyped => TypeOK
  BY InputFacts DEF PathInv, World, RequestsRight, PathTyped, TypeOK, Errors
<1> QED
  BY <1>1, <1>2, TypedStep, PathInvariant, PTL DEF Spec
=============================================================================
