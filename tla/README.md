# A TLA+ model of the eq-service

The eq-service is a gRPC service that turns "this blob is on Celestia" into a
zero-knowledge proof. A client asks for a *job* (a blob id, a chain id and a
batch number); the service fetches an inclusion proof from a Celestia DA node,
asks Succinct's prover network for a ZK proof of it, and hands the proof out
when somebody asks again. Jobs live in two trees of an embedded sled database,
survive restarts, and are driven by tasks on a multi-threaded tokio runtime.

This directory models the job life cycle: every step that touches a tree, the
worker's channel or the prover network, with every interleaving of handlers,
tasks, the resume loop, shutdown, flushes and crashes that the runtime allows,
and on top of it what clients are told, what the counters count and what is paid
for. Around it are models of what the life cycle takes as single steps: the way
of a blob from the DA node through the index arithmetic and the zkVM program to
the public values a client reads, the cache of the proving setup, and the text
form of blob ids.

## Inventory

| Part | State it keeps | Operations | Talks to |
|---|---|---|---|
| gRPC handler `get_zk_stack` (`internal/grpc.rs`) | none of its own | look up `finished_db`, look up `queue_db`, admit a new job, resubmit a retryable failure, send to the worker | both trees, the channel |
| Worker `job_worker` (`internal/inclusion.rs`) | position in its loop | receive a job and spawn a task, receive `None`, flush, exit the process | the channel, sled, all tasks |
| Job task `prove` (`internal/inclusion.rs`) | the status it read | one step per status: DA fetch, proof request, wait for the proof; finalize or store and send | both trees, the channel, DA node, prover network |
| Job status (`internal/job.rs`) | `DataAvailabilityPending`, `DataAvailable`, `ZkProofPending`, `ZkProofFinished`, `Failed(_, retry)` | | stored in the trees |
| Start-up and shutdown (`main.rs`, `internal/util.rs`) | the shutdown signal | open the trees, spawn everything, resume queued jobs, serve, send `None` on a signal | everything |
| DA fetch (`get_zk_proof_input_from_da`, the two error handlers) | none | header, blob, share range, sanity check; which retry an error carries | DA node |
| Prover calls (`request_zk_proof`, `wait_for_zk_proof`) | a request id in the job's status | simulate and request, wait | prover network |
| DA and ZK client cells, proving setup | `OnceCell`s and the `config` tree | initialise once, share | sled, every task |
| Metrics (`internal/prom_metrics.rs`) | counters, in memory | increment, serve | handlers and the worker |
| zkVM program (`program-keccak-inclusion`) | none | check a proof input, commit to public values | the prover runs it |
| Public values (`common/src/lib.rs`) | none | `to_vec`, `from_bytes` | zkVM program, verifiers |
| SDK (`sdk/src`) | none | `BlobId` to and from text, build a request | the handler |
| blob-tool, runner, examples; monitoring configuration | none | command-line tools | |

How they interact: a call admits a job by inserting it in the queue tree and
sending it on an unbounded channel. The worker spawns a task per message. A task
reads the job's status, does the work that status calls for, stores the next
status (one transaction on both trees) and sends the job again, or finalizes it
(one transaction: out of the queue, into `finished`) and sends nothing. A
retryable failure is resubmitted by the next call about it. At start-up every
queued job is sent again. A signal sends `None`; the worker then flushes and
calls `process::exit(0)`, whatever else is running.

What is hard about it:

- the handler's two lookups and its insert are three separate accesses, so calls
  about one job interleave with each other and with the job's task;
- a task holds the status it read for minutes and then writes unconditionally;
- storing a job and sending it are two steps, in the handler and in the task;
- some error paths finalize the job and some only log;
- the disk lags behind memory by an arbitrary prefix of the history, and exit
  and crashes cut the process at any point;
- nothing bounds the number of calls, messages or tasks;
- the DA node is read three times in a row, and behind one endpoint the answers
  may come from nodes that are not equally far;
- whether a job can ever be asked for again depends on which of a dozen errors
  ended it;
- the setup is generated by whoever comes first, for all, with a failing
  generation or a failing store in between;
- counters are in memory and jobs on the disk, and counting and what is counted
  are different steps.

What makes each part correct:

- *handler*: a job it answers with "pending" is really being worked on; a final
  answer is repeated, not recomputed;
- *task*: it is the only one working on its job and its copy of the status is
  never stale; it leaves the job queued and scheduled, or finalized;
- *trees*: a job is in at most one tree; a job on the disk is never lost; the
  queue holds only pending statuses, `finished` only final ones;
- *start-up*: every queued job gets exactly one message;
- *shutdown*: it always ends, and loses only what arrived while it flushed;
- *DA fetch*: the input it stores is one the program accepts, and trouble that
  passes does not end a job for good;
- *prover calls*: no proof is paid for twice without a reason;
- *setup*: one initialiser at a time, one instance, stored before it is used, and
  everybody who asks is answered;
- *metrics*: every run of a job that began is in flight or has ended in a counted
  way, or in one of the ways the code does not count;
- *public values and ids*: what is decoded is what was encoded, and it is about
  the job that was asked for.

## Modules

| Module | What it is |
|---|---|
| `JobStatus` | the statuses, and which tree may hold which |
| `JobService` | the whole process: 14 variables, one action per access to shared state |
| `JobProperties` | the invariants, action properties and liveness properties, and the documentation's claims the code does not keep |
| `JobBoard` | the abstract specification: open jobs, results, who asks, who works, what is saved |
| `JobReplies` | `JobService` with the replies of the handler: what clients see of a job |
| `JobMetrics` | `JobService` with the counters |
| `JobRequests` | `JobMetrics` with a record of what makes another proof request legitimate |
| `OdsIndex` | the index arithmetic between the extended and the original square |
| `PublicValues` | the bytes of the public values, both ways |
| `KeccakProgram` | the zkVM program: which inputs it accepts, what it verifies them against, what it commits to |
| `ErrorClasses` | the errors of the DA and SP1 clients and the retry each leads to, and those without a handler |
| `ProofPath` | one job with all of these: chain, DA node, the three calls, prover, public values |
| `ProofSetup` | the `OnceCell` of the proving setup and the entry in the `config` tree |
| `BlobIdText` | a blob id printed, copied with errors, parsed, sent and turned into a job |
| `JobBoardRefinement` | the refinement mapping from `JobService` to `JobBoard` |
| `MC...` | instances for TLC |
| `JobServiceProofs` | typing, durability, no lost job, settled answers, what exit may lose |
| `JobSerialProofs` | unraced jobs are serial, and what follows from it |
| `JobBoardProofs` | the service implements the board |
| `JobHistoryProofs` | the counters add up, no proof is paid for twice, replies only progress |
| `PublicValuesProofs` | the codec is right for all sizes |
| `ProofPathProofs` | typing, the index arithmetic for all widths, stored inputs are provable, proofs are about their job |
| `ProofSetupProofs` | the safety of the setup cache for any number of callers |
| `BlobIdTextProofs` | ids and jobs lead to each other, for all ids and requests |

`JobReplies` and `JobMetrics` extend `JobService`: each of their actions is an
action of the service conjoined with what it does to the added variables, so no
step of the service can happen without them, and they never block one but for the
bound `MaxAttempts`.
`ProofPath` opens up what `JobService` takes as one step (`FetchFromDa`,
`DaClientError`, `RequestZkProof`, `ProofArrives`, `ZkClientError`) for a job on
its own; the statuses and their order are the same, from `JobStatus`.

### How `JobService` corresponds to the code

*Handler.* `CheckFinished` (finished lookup; a settled answer is given at once),
`CheckQueue`, `InsertNew`, `Resubmit`, `SendFromCall`. The handler contains no
`await`, so a call is never cancelled half way, but between two database
accesses other threads run. `CallFails` is a database error before the store.

*Task.* `ReadStatus`, then by status `ConnectInTask` / `FetchFromDa` /
`DaClientError`, `RequestZkProof` / `RecordRequest`, `ProofArrives`, and
`ZkClientError`. `StoreStatus` is the transaction of `send_job_with_new_status`,
`SendFromTask` its send; `FinalizeJob` is `finalize_job`. `GiveUp` stands for
every way a task ends without finalizing its job: `MissingBlobIndex`, the
sanity check, a failing set-up, errors of the SP1 client that are not
`SP1NetworkError`, failing transactions, a panic.

*Worker.* `Dispatch`, `ReceiveStop`, `FlushTree` (twice; either flush writes the
log that all trees share), `Exit`.

*Process.* `Boot`, `ResumeNext`, `ResumeSkip` (`.flatten()` and `if let Ok`
drop what they cannot read), `Serve`, `StartupConnect`, `StartupConnectFails`
(`exit(1)`), `Signal`, `Crash`. Whatever ends the process is `Halt`: memory is
gone and the trees become what `disk` holds. `BackgroundFlush` may make `disk`
the present trees at any time, so at a crash it is any earlier state of both
trees together, which is what sled's single log gives.

*External parts*, modelled from how the code uses them: sled (atomic operations,
atomic transactions over several trees, one log), the prover network
(`requests`: which request id belongs to which job), tokio (any ready task may
run; handlers and tasks run in parallel).

*History variables.* `abandoned` holds the queued jobs whose task gave up (or
that the resume loop skipped); `raced` holds the jobs that were admitted while
the service still held them, had them queued, or had got a result after the
call's lookup. No guard reads either.

Definitions whose comment starts with "Variant" are not part of the
specification: each is a plausible mistake in the definition after it, with
which the property named for it in `PROJECT.json` fails.

*Abstractions.* A status is its variant plus the request id or the retry; proof
inputs and proofs are in `ProofPath`, replies in `JobReplies`, validation in
`BlobIdText`. The three DA calls are one step here, since the task touches nothing
shared between them. The retry inside `Failed` is always `None` or
`DataAvailabilityPending`, as in both error handlers.

### How the other modules correspond to the code

*`JobReplies`.* The reply is fixed by the step that decides it: `ReplyIfSettled`
(finished lookup, `grpc.rs` 47-78), `ReplyIfQueued` (queue lookup), `ReplyToNew`,
`ReplyToRetry`. `ReplyToFailure` is a failing database operation; storing a retry
is the one whose failure is answered as `PermanentFailure` and not as a gRPC
error. `last` keeps the last reply about each job; a new process starts without.

*`JobMetrics`.* `jobs_attempted` is incremented after the lookup and before the
insert (`CountAttempt`); `jobs_finished` and `jobs_errors` after the task's
transaction, by the spawned task (`Report`, with `due` counting the increments to
come). ZK errors, panics and jobs that left the queue in the meantime end a run
without any increment (`uncounted`). Error labels are one counter.

*`JobRequests`.* `excused` holds the jobs for which another proof request has a
reason: a restart that had no trace of the first one, a failure, a task that gave
up, or an admission that raced.

*`ProofPath`.* `ProduceBlock`, `NodeSyncs` and `NodeLags` are the world: a chain
that grows and a node that follows it, or is replaced by one that is behind.
`GetHeader`, `GetBlob` and `GetRange` are the calls of
`get_zk_proof_input_from_da`, each with a failing twin whose errors come from the
state of the node (`NodeErrors`), from the transport (`CallErrors`) or from an
answer that makes no sense. A range proof has two halves, the shares and the rows
that lead to a data root. A node answers with the range it was asked for, but the
root its proof leads to may be any (`AnsweredRoots`); `GetRange` contains the sanity
check against the header's root, and `Accepts` the program's own verification
against the `data_root` of its input.
`RequestZkProof` simulates the program on the input, as the SP1 client is told
to.

A stage ends in one of four ways: with the next status; with the failure that
`DaFails` or `ZkFails`, the two error handlers, choose; with an error that neither
handler sees (`GivesUp`: no DA client, a missing blob index, the sanity check, the
proof setup, an SDK error of another type); or with a database operation that
fails (`DatabaseFails`, and inside `RequestZkProof`, where the network then has a
request that no status holds). The last two leave the job in the queue as it is,
with no task, until a `Restart` resumes it from its status.
A block is seen from the job's blob: its width, where the blob's shares
start, how many there are, and whether a signer is among them.

*`ProofSetup`.* `Enter`, `TakeFromCell`, `Fail` and `Set` are
`OnceCell::get_or_try_init` with its fair semaphore, `Lookup`, `Generate` and
`Insert` the initialiser. An entry of the tree that does not deserialize
("foreign") is an error and not a missing entry. `Flush` and `Restart` are sled
and the process.

*`BlobIdText`.* `Display`, `Split` / `Parses` / `FromStr` are the text form,
`ToRequest` the SDK, `Valid` and `JobOf` the handler. A text is the sequence of
its parts between colons. The parser decides by place alone which field a part is
for, so a part is a pair: the number it reads as and the bytes it reads as, since
the digits of a number may be base64 of something (`DigitsAsBase64`). `Miscopy` is
one error in passing a text on: a part lost (`LosePart`), a part or a scrap too many
(`AddPart`), two parts exchanged (`SwapParts`), less than a whole part (`CutPart`,
with `Fragments` as what may be left). What is not an error of copying, another
whole commitment pasted into the text, is out of the model: the text is then
somebody else's, and no format could tell.

## Runs

| Run | Instance | What it shows |
|---|---|---|
| `core` | 1 job, 2 calls, 2 tasks, 1 request, every failure but crashes, replies, fair scheduling | `TypeOK`; `UnracedJobIsSerial`: unless two admissions overlap, one holder, one tree, no stale status; `UnracedResultFinal`: a final answer is displaced by an overlapping admission only; `ProgressSeen`: the replies about a job never go back, but by a retry that is announced or a database error told as a failure; `QueuedJobResolved`, `ShutdownCompletes`; `AskingGetsResult`: a client that keeps asking gets past the pending replies |
| `crash` | 1 job, 2 calls, 2 tasks, 2 requests, every failure and crashes, counters | `SettledStays`, `DurableForever`, `DurableRequestKept`; `RunsAreConserved`: attempts and resumptions equal runs in flight, reports and uncounted ends; `RequestedOncePerReason`: a second proof request for a job has a reason |
| `two_jobs` | 2 jobs, 1 call, 2 tasks, DA / ZK errors, clean shutdowns and restarts | `NoLostJob`, `ExitLosesOnlyNewcomers` |
| `board` | 1 job, 2 calls, every failure and crashes | `ImplementsBoard`: `JobService` implements `JobBoard` |
| `path` | every position and length of a blob in squares of width 1, 2 and 4, signed or not or missing; a lagging node, every error of the two clients, ranges proved under another root, errors without a handler, a failing database, restarts | `TypeOK`; `StoredInputIsProvable`; `ProofIsAboutTheJob`; `BlobOnChainIsProved`: once the troubles are over, a blob on the chain is proved, unless before that an error that does not pass or an auction failed the job for good, or an error without a handler left it in the queue with nobody to advance it |
| `setup` | 5 callers, failing database and generation, a foreign entry, restarts | `OneInitialiser`, `NobodyWaitsInVain`, `SingleInstance`, `StoredBeforeUse`, `GeneratedOnce`, `CallersAreServed` |
| `blob_id` | ids with boundary numbers and single-byte namespaces and commitments of real size, texts with up to two errors, other clients' requests | `NeverAnotherBlob`: an intact text leads to its own job, a part too few or too many to an error, and no text to another commitment; `OwnIdIsAccepted`; `JobCanBeAskedFor` |

Five runs find what the repository says and the code does not do:

- `proof_kept`: the README says finished work is returned and not redone, and
  that repeating a request is safe. One polling client is enough: its call finds
  no result, the worker finalizes the job, the call finds nothing queued either,
  admits the job as new, and the next stored status deletes the finished proof.
  The model lets any time pass between the two lookups; in the code it is the
  moment between two database reads, which must contain the worker's transaction.
- `finalized`: the comment on `finalize_job` says it removes the job from any
  further processing. Two clients asking for the same new job at the same time
  start two tasks, and one works on after the other has finalized the job.
- `driven`: the README says each request is driven to success or failure. After
  an error that nothing handles, the job stays queued, is reported as pending to
  every caller, and is not touched again until the service restarts.
- `auction`: a proof request that no prover took (`RequestAuctionTimedOut`) is
  recorded with the words "callback to start the job over" and without a retry: the
  client that calls back gets the same words again, for good.
- `permanent`: the message's definition calls `PERMANENT_FAILURE` "No way to complete
  request". A retry that the database refuses to store is answered so, and the next
  call finds the job as retryable as before. `ProgressSeen` has to except these
  replies (`Misreported`).

### Bounds

- `MaxBacklog` bounds the work in flight (calls, messages, tasks, jobs to resume):
  a new call is taken up only below it. It is the only bound in
  `JobService`, in the guard of `CheckFinished`. Each run has at least as many task
  slots as its backlog, so the worker never waits for a slot, which the code never does either.
- `Calls`: two overlapping calls are what the races need; a third adds a third
  copy of the same job.
- `Jobs`: jobs share only the channel, the worker, the resume loop and the disk
  image. `two_jobs` has two for these; the other runs have one job and overlap
  its admissions, which is where the difficulty is.
- `Requests`: two request ids, so that a retried or raced job can have a second
  request (`crash`); with one, a further request cannot be made and the task takes
  an error path instead (the other runs have ZK errors for this).
- `Faults` names the failures a run's environment produces.
- `MaxAttempts` (`crash`): a call is taken up only while fewer than 2 attempts were
  counted in this process; a restart sets the count back, so retries, resumptions
  and a second life of a job all happen. The properties of jobs that this run
  checks are also proved, without the bound.
- `MaxHeight` (`path`): 1. The job is for that block; before it is produced the
  job is from the future, afterwards the node may still lag behind it.
- `Base`, `HashLen` (`path`): a byte has 2 values and a hash 2 bytes; the batch
  number and the chain id differ in a byte of their own, so that swapping or
  cutting them shows. The codec is proved for all sizes.
- Widths (`path`): 1, 2 and 4, the widths real squares have up to 4; every row and
  column of them, and every length. The arithmetic and the two safety properties
  are proved for all widths.
- In `path` a request id is used again when its request has failed: one job can
  fail any number of times.
- `auction` has one small block and only the prover network failing: the retry an
  error carries depends on nothing else. `permanent` has one client
  and one job, which is all its behaviour needs.
- `Callers` (`setup`): five, so that the queue of the permit has an order.
- `MaxHeight`, `MaxU32`, `MaxU64` (`blob_id`): the largest values of three types;
  only their order matters.
- `MaxErrors` (`blob_id`): two errors in copying, enough for a text with five parts
  again after one was lost.
- `Fragments`, `DigitsAsBase64` (`blob_id`): what may be left of a part is nothing, a
  shorter number, a shorter namespace or something no field takes; the largest
  number has four digits, which is the shortest text that is also base64. Neither
  may be 32 bytes in base64 (`DigitsAssumption`, `FragmentsAssumption`): those take
  44 characters, more than any number has and all that a commitment has.

Deadlock is checked everywhere but in `path`, `auction` and `blob_id`, where a job with its
answer is left alone. Symmetry is used only in runs without liveness.

### Fairness

Tasks, calls, the worker and the main task each have weak fairness: tokio runs
every ready task. A task waiting for the DA node or the prover is answered or
fails eventually, because DA requests time out in the RPC client and proof
requests carry a deadline (`PROOF_GEN_TIMEOUT_SECONDS`). Clients, signals, the
disk, crashes and restarts have none.

`AskingGetsResult` is about a client that keeps asking; that is a premise of the
property (`KeepsAsking`, strong fairness of being heard, since its calls compete with
others for the slots of the instance) and no part of the specification.

In `path` the stages of the job are fair for the same reasons as tasks, the node
follows the chain (`NodeSyncs`), and the client asks again (`Ask`). Outages are
not fair: `BlobOnChainIsProved` has the premise `<>calm`, that failures end at
some time, before which there may be any number of them.

In `setup` the initialiser and whoever was woken are fair. `Enter` is not: nobody
has to ask.

## Theorems

The theorems about `JobService` and the modules that extend it hold for every set
of jobs, calls, tasks and request ids, every backlog and every set of faults; they
assume that `NoJob` and `Shutdown` are not jobs (`JobsAssumption`). The one about
the counters also needs jobs, calls and tasks to be finitely many
(`FiniteAssumption`), since a sum over infinitely many slots means nothing; in the
code they are. It holds for every `MaxAttempts`, and so without that bound. The
theorems about the other modules hold for every set of callers (with `Nobody` not
among them), every byte size above 1, every hash length, every height below the
number of values of a byte (`DataRoot` tells blocks apart by their height), every
set of blocks in which a blob fits into its square (`BlockAssumption`), and every
set of blob ids and of requests of other clients that have the types of the code
(`IdsAssumption`, `RequestsAssumption`: `BlobId`, whose namespaces are what
`celestia_types` can construct, and `GetZkStackRequest`, with byte strings of any
length), any number of errors in copying and all fragments and digits that satisfy
the two assumptions above.

| Theorem | States |
|---|---|
| `TypeCorrect` | `TypeOK`, and the shape of every slot |
| `Durability` | `DurableForever` |
| `NoJobIsLost` | `NoLostJob` |
| `SettledForGood` | `SettledStays` |
| `UnracedSerial` | `UnracedJobIsSerial` |
| `UnracedFinal` | `UnracedResultFinal` |
| `RecordedRequestKept` | `DurableRequestKept` |
| `ExitKeepsWork` | `ExitLosesOnlyNewcomers` |
| `ServiceImplementsBoard` | `ImplementsBoard`: `JobService` refines `JobBoard` |
| `NoRunIsLostOrDoubled` | `RunsAreConserved` |
| `NoProofPaidTwice` | `RequestedOncePerReason` |
| `RepliesOnlyProgress` | `ProgressSeen` |
| `OdsIndexCorrect` | the code's index is the position in the original square, for every width, row and column |
| `OutputIsReadBack` | `FromBytes(ToVec(output)) = output` |
| `PathTypeCorrect` | `TypeOK` of `ProofPath` |
| `EveryInputIsProvable` | `StoredInputIsProvable` |
| `EveryProofIsAboutItsJob` | `ProofIsAboutTheJob` |
| `OneAtATime` | `OneInitialiser` |
| `NoLostWakeUp` | `NobodyWaitsInVain` |
| `OneSharedInstance` | `SingleInstance` |
| `StoredFirst` | `StoredBeforeUse` |
| `NeverGeneratedAgain` | `GeneratedOnce` |
| `AnIdIsOneBlob` | `NeverAnotherBlob` |
| `NoIdIsRefused` | `OwnIdIsAccepted` |
| `EveryJobHasAnId` | `JobCanBeAskedFor` |

The argument:

- *Typing* (`TypeInv`) needs the shapes of the slots: that a task at stage "wait"
  remembers a request id is what makes the result it stores a final status.
- *Durability* needs one fact about all steps (`EveryTreeStep`): a step leaves the
  trees alone, flushes them, ends the process, or stores one job's pending or
  final status by one of the two transactions. The invariant `DurableInv` (what
  the disk knows, memory knows) follows step by step.
- *No lost job* is inductive given typing; the work is in the two facts about the
  channel, that `Append` adds one message and `Tail` drops the first.
- *Settled answers* need typing only: a settled job has no holder and no call, so
  no step but an ending of the process can touch it.
- *Serial jobs* need the strengthening `SerialInv`: besides the property, whoever
  holds an unraced job finds it queued (so a new task never meets an absent
  status), the disk has the job in one tree (so a restart does not break the
  property), and nothing is held while the process is down (so the resume loop
  is the only holder after a start). The step proof first shows that a step which
  leaves everything about a job alone keeps it (`UntouchedIsKept`), then treats
  the job's own steps one action at a time.
- *Exit* is about two flushes with handlers and tasks running on between and after
  them. The invariant `ExitInv` adds two facts: a job that the channel, a task, a call
  or the resume loop holds is in a tree (`HeldIsKnown`), and from the first flush on
  a job that is not on the disk is still on its way to the worker and in no task
  (`SavedButNewcomers`). Nothing leaves that way any more, since the worker, which
  would receive it, is the one that flushes.
- *The refinement* (`JobBoardRefinement`) shows an outsider's view: which jobs are
  open, their results, who asks, who works, what is saved. Every step of the
  service is one step of the board or none (`EveryStepOnBoard`). The mapping needs
  to know that worker and main task live and die together (`UpTogether`) and that
  nothing is held while the process is down (`DownIsEmpty`). The hard steps are
  those that hand a job from one holder to the next, which must show nothing, and
  those where a slot is emptied while another slot may have the same job: then
  the job has not stopped being worked on.
- *The counters* (`RunsInv`) are an account: every step changes runs in flight
  and the two sides of the sum by amounts that agree (`Balanced`). In flight are a set
  of positions of the channel, a set of slots and the jobs to resume, so the work
  is in the cardinalities: `Append` adds one position, `Tail` moves all of them
  by one, and a slot enters or leaves the busy ones alone.
- *Requests* (`RequestInv`): a job that a request id belongs to, and that has no
  excuse, has it remembered: in the queue, as its proof, or in the task that is
  about to record it (`Remembered`). A task about to make a request holds
  "available" and, the job being serial, holds what the queue has, so the request
  is not remembered.
- *Replies* (`ReplyInv`): what clients were last told of an unraced job has been
  reached and can only be passed (`Reached`): someone told "pending proof" finds the
  queue with a request, or a result. A call that replies later than it looked does
  not exist for unraced jobs; that is what serial means here.

- *The index* comes down to one lemma: a quotient is determined by the multiple of
  the divisor below the dividend.
- *The codec*: where the parts of a concatenation are (`Layout`), and that low byte
  and rest of a number give the number back (`FourBytes`).
- *The proof path* needs `PathInv`: at stage "range" the task holds the index the
  node gives for the blob, and at the prover's stages the status is the one the
  stage works on (`StageRight`); a job that is available has the one right input
  (`JobInput`); every request, and the one a pending job waits for, is for that
  input; a proof is what the program commits to for it. The two theorems above
  turn this into what is claimed. Blocks are immutable, so a growing chain keeps
  all of it (`ChainGrows`). Its typing (`PathTyped`) leans on it: that an index is a
  number is a fact about where the node finds a blob.
- *The setup* needs, besides its properties, that a caller about to set the cell
  has the setup stored, that one that generates found nothing and nobody else can
  store anything meanwhile, and that the disk holds nothing the tree does not.
  The hard step is a failing initialiser that passes the permit on: the queue
  loses its head, everybody in it moves up, and the head becomes the initialiser.
- *Blob ids* need three round trips: cutting the padding off a namespace and putting
  it back (`NamespaceRoundTrip`), text (`TextRoundTrip`) and request
  (`RequestRoundTrip`), that the text of another namespace version does not parse
  (`OtherVersionRefused`) and that only a text of five parts does
  (`FivePartsParse`). The invariant `WayInv` carries along what a text is made of:
  each part is one of the printed id's or a fragment, whatever place it is in
  (`MiscopiedText`, one step for each kind of error). A part that reads as 32 bytes
  can then only be the id's own commitment, so a text that parses names it
  (`ParsedText`). The theorem about jobs needs no more than that whatever `new_v0`
  accepts is a namespace of version 0 (`NewV0Namespace`), for byte strings of any
  length.

Every invariant and every action property that a passing run checks, and the
refinement, is a theorem. Only model-checked are the liveness properties (`QueuedJobResolved`,
`ShutdownCompletes`, `AskingGetsResult`, `BlobOnChainIsProved`, `CallersAreServed`):
fairness and `ENABLED` are out of the prover's reach. The five runs that find a
violation are counterexamples and stay with TLC too.

## Noticed on the way

Places where texts and behaviour differ that no run is about:

- `eqservice.proto` (line 10) and the handler's refusal (`grpc.rs` 34) give the
  namespace 32 bytes. `new_v0` takes 28, or up to 10 (`Valid` in `BlobIdText`), and
  refuses 32.
- The log line at `inclusion.rs` 576 says that preexisting jobs are finished; the
  process exits with their tasks running. They are resumed at the next start.
- A job for the block that is produced next ends for good: "height from the
  future" is not retried (`inclusion.rs` 326), and the answer stays
  `PERMANENT_FAILURE` when the block is there.
- `InternalError` is labelled as another variant in `count_error`'s labels
  (`error.rs` 49).
- The alert on the job backlog (`alert_rules.yml` 53) takes attempted jobs less
  finished ones less errors. ZK errors are logged and reach neither counter, so a job
  that the prover network failed stays in that figure although nothing is in
  progress. `RunsAreConserved` is the same account with what the formula leaves out:
  `uncounted`, and `resumed` on the other side.
- After a restart `jobs_attempted - jobs_finished` can be negative: resumed jobs
  finish without having been attempted in this process.
- The metrics listener ends on its first accept error.

## Not modelled

- *Generated protobuf code, command-line tools, monitoring configuration*: no state
  of the job path. `OdsIndex` is also the blob tool's arithmetic.
- *Metrics endpoint, error labels, the request counter and the histogram of
  waiting times*: nothing depends on them.
- *Formatting and parsing of numbers and base64, Merkle and share verification,
  the SP1 prover, sled and tokio*: external, modelled by what they establish.
- *Job data sizes and contents of blobs*: a blob is where its shares are.

## Plan

What would add most from here:

1. `ProofPath` shown to refine the stages of `JobService` for one job, so that what
   is proved of the content of a stage and of the order of stages meet.
2. The documented claims that do not hold, under the weakest premise that makes them
   true (no overlapping admissions, no unhandled errors), as theorems.
