----------------------------- MODULE JobService ------------------------------
(***************************************************************************)
(* The eq-service process: the gRPC handler that admits jobs, the worker    *)
(* loop that spawns one task per queued message, the tasks that drive a     *)
(* job one status further each, the two sled trees they share, the startup  *)
(* loop that resumes queued jobs, shutdown, and crashes.                    *)
(*                                                                         *)
(* Every step that touches shared state (a tree, the channel, the prover    *)
(* network) is an action of its own, so that handlers and tasks interleave  *)
(* exactly where tokio's threads can.  A sled operation or transaction is   *)
(* atomic.  Work on local state between two shared accesses belongs to the  *)
(* action that follows it.                                                  *)
(*                                                                         *)
(* A definition marked "Variant" is not part of the specification: it is a  *)
(* plausible mistake in the action or operator that follows it.            *)
(***************************************************************************)
EXTENDS Naturals, Sequences, FiniteSets, JobStatus

CONSTANTS
  Jobs,        \* job ids (BlobId: height, namespace, commitment, chain, batch)
  Calls,       \* slots for gRPC calls being handled at the same time
  Tasks,       \* slots for spawned worker tasks
  MaxBacklog,  \* bound: no new call is taken up with this much work in flight
  Faults,      \* which kinds of failure the environment produces
  NoJob,       \* the job of an idle slot, the owner of an unused request id
  Shutdown     \* the None message that ends the worker loop

\* "da", "zk": a client error the code turns into a Failed status.
\* "unhandled": any error path of a task that returns without finalizing.
\* "db": a sled operation of a handler, the flush or the startup loop fails.
\* "crash": the process dies, or exits because the DA client never connects.
FaultKinds == {"da", "zk", "unhandled", "db", "crash"}

ASSUME JobsAssumption == NoJob \notin Jobs /\ Shutdown \notin Jobs
ASSUME BoundAssumption == MaxBacklog \in Nat
ASSUME FaultsAssumption == Faults \subseteq FaultKinds

VARIABLES
  queue_db,     \* tree "queue":    job -> pending status or Absent
  finished_db,  \* tree "finished": job -> final status or Absent
  disk,         \* the image of both trees a restart would recover
  channel,      \* job_sender / job_receiver: unbounded FIFO
  tasks,        \* spawned runs of prove(job), one per slot
  calls,        \* get_zk_stack handlers, one per slot
  main,         \* the main task: "down", "resuming" or "serving"
  worker,       \* the job_worker task
  resume,       \* queued jobs the startup loop has not visited yet
  da_client,    \* the OnceCell of the DA client: "unset" or "ready"
  stopping,     \* the shutdown signal handler has run
  requests,     \* prover network: request id -> job it was made for
  abandoned,    \* history: queued jobs whose task gave up without a result
  raced         \* history: jobs admitted while the service still held them

db    == <<queue_db, finished_db>>
flow  == <<main, worker, resume, da_client, stopping>>
ghost == <<abandoned, raced>>
vars  == <<queue_db, finished_db, disk, channel, tasks, calls, main, worker,
           resume, da_client, stopping, requests, abandoned, raced>>

IdleTask == [pc |-> "idle", job |-> NoJob, status |-> Absent]
IdleCall == [pc |-> "idle", job |-> NoJob, status |-> Absent]

TaskPcs == {"idle", "spawned", "fetch", "prove", "record", "wait", "send"}
CallPcs == {"idle", "check_queue", "insert", "resubmit", "send"}
WorkerPcs == {"down", "loop", "flush_queue", "flush_finished", "exit"}

Trees == [queue    : [Jobs -> PendingStatus \cup {Absent}],
          finished : [Jobs -> FinalStatus \cup {Absent}]]

TypeOK ==
  /\ queue_db \in [Jobs -> PendingStatus \cup {Absent}]
  /\ finished_db \in [Jobs -> FinalStatus \cup {Absent}]
  /\ disk \in Trees
  /\ channel \in Seq(Jobs \cup {Shutdown})
  /\ tasks \in [Tasks -> [pc : TaskPcs, job : Jobs \cup {NoJob},
                          status : PendingStatus \cup {Absent}]]
  /\ calls \in [Calls -> [pc : CallPcs, job : Jobs \cup {NoJob},
                          status : PendingStatus \cup {Absent}]]
  /\ main \in {"down", "resuming", "serving"}
  /\ worker \in WorkerPcs
  /\ resume \subseteq Jobs
  /\ da_client \in {"unset", "ready"}
  /\ stopping \in BOOLEAN
  /\ requests \in [Requests -> Jobs \cup {NoJob}]
  /\ abandoned \subseteq Jobs
  /\ raced \subseteq Jobs

-----------------------------------------------------------------------------
(***************************************************************************)
(* Who still holds a job.                                                   *)
(***************************************************************************)

InChannel(j) == \E i \in 1..Len(channel) : channel[i] = j
InTask(j)    == \E t \in Tasks : tasks[t].job = j
Sending(j)   == \E c \in Calls : calls[c].pc = "send" /\ calls[c].job = j
InCall(j)    == \E c \in Calls : calls[c].job = j

\* Some part of the process will still act on j's queue entry.
Held(j) == InChannel(j) \/ InTask(j) \/ Sending(j) \/ j \in resume

Backlog == Len(channel) + Cardinality(resume)
           + Cardinality({t \in Tasks : tasks[t].pc # "idle"})
           + Cardinality({c \in Calls : calls[c].pc # "idle"})

-----------------------------------------------------------------------------
(***************************************************************************)
(* The two sled transactions.                                               *)
(***************************************************************************)

\* Variant: finalizing forgets to take the job out of the queue tree.
FinalizeKeepingEntry(j, status) ==
  /\ queue_db' = queue_db
  /\ finished_db' = [finished_db EXCEPT ![j] = status]
  /\ abandoned' = abandoned \ {j}

\* Variant: without a transaction, the removal takes place and the insert fails.
FinalizeOutsideTransaction(j, status) ==
  /\ queue_db' = [queue_db EXCEPT ![j] = Absent]
  /\ finished_db' = finished_db
  /\ abandoned' = abandoned \ {j}

\* finalize_job: the job leaves the queue tree for the finished tree.
FinalizeJob(j, status) ==
  /\ queue_db' = [queue_db EXCEPT ![j] = Absent]
  /\ finished_db' = [finished_db EXCEPT ![j] = status]
  /\ abandoned' = abandoned \ {j}

\* The transaction of send_job_with_new_status; the send is a later step.
StoreStatus(j, status) ==
  /\ finished_db' = [finished_db EXCEPT ![j] = Absent]
  /\ queue_db' = [queue_db EXCEPT ![j] = status]
  /\ abandoned' = abandoned \ {j}

Image == [queue |-> queue_db, finished |-> finished_db]

-----------------------------------------------------------------------------
(***************************************************************************)
(* The gRPC handler get_zk_stack.  It has no await, so a call is never      *)
(* cancelled half way, but other threads run between its database accesses. *)
(* A call that only answers changes nothing but its slot.                   *)
(***************************************************************************)

\* Variant: a permanent failure is treated as if it were not there.
CheckFinishedForProof(c, j) ==
  /\ main = "serving"
  /\ calls[c].pc = "idle"
  /\ Backlog < MaxBacklog
  /\ finished_db[j] \in {Absent, Failed(Absent)}
  /\ calls' = [calls EXCEPT ![c] =
                 [pc |-> "check_queue", job |-> j, status |-> Absent]]
  /\ UNCHANGED <<db, disk, channel, tasks, flow, requests, ghost>>

\* A request for j arrives and the finished tree is looked up.  A proof or a
\* permanent failure is answered at once (the slot stays idle); a retryable
\* failure is sent back to the queue; otherwise the queue is checked next.
CheckFinished(c, j) ==
  /\ main = "serving"
  /\ calls[c].pc = "idle"
  /\ Backlog < MaxBacklog
  /\ \/ /\ finished_db[j] = Absent
        /\ calls' = [calls EXCEPT ![c] =
                       [pc |-> "check_queue", job |-> j, status |-> Absent]]
     \/ /\ finished_db[j] \in Settling
        /\ calls' = calls
     \/ /\ finished_db[j] \in FinalStatus \ Settling
        /\ calls' = [calls EXCEPT ![c] =
                       [pc |-> "resubmit", job |-> j,
                        status |-> finished_db[j].retry]]
  /\ UNCHANGED <<db, disk, channel, tasks, flow, requests, ghost>>

\* A pending job is answered with its status; an unknown one is admitted.
CheckQueue(c) ==
  /\ calls[c].pc = "check_queue"
  /\ calls' = IF queue_db[calls[c].job] = Absent
                THEN [calls EXCEPT ![c].pc = "insert"]
                ELSE [calls EXCEPT ![c] = IdleCall]
  /\ UNCHANGED <<db, disk, channel, tasks, flow, requests, ghost>>

\* Variant: the job is stored and never sent to the worker.
InsertWithoutSend(c) ==
  LET j == calls[c].job IN
  /\ calls[c].pc = "insert"
  /\ queue_db' = [queue_db EXCEPT ![j] = DataAvailabilityPending]
  /\ calls' = [calls EXCEPT ![c] = IdleCall]
  /\ UNCHANGED <<finished_db, disk, channel, tasks, flow, requests, ghost>>

\* The new job enters the queue tree: a plain insert, no transaction, and
\* nothing re-checks what the two lookups saw.
InsertNew(c) ==
  LET j == calls[c].job IN
  /\ calls[c].pc = "insert"
  /\ queue_db' = [queue_db EXCEPT ![j] = DataAvailabilityPending]
  /\ calls' = [calls EXCEPT ![c].pc = "send"]
  /\ abandoned' = abandoned \ {j}
  /\ raced' = IF Held(j) \/ queue_db[j] # Absent \/ finished_db[j] # Absent
                THEN raced \cup {j} ELSE raced
  /\ UNCHANGED <<finished_db, disk, channel, tasks, flow, requests>>

\* Variant: the whole failure is queued instead of the status inside it.
ResubmitFailure(c) ==
  LET j == calls[c].job IN
  /\ calls[c].pc = "resubmit"
  /\ StoreStatus(j, Failed(calls[c].status))
  /\ calls' = [calls EXCEPT ![c].pc = "send"]
  /\ UNCHANGED <<disk, channel, tasks, flow, requests, raced>>

\* Retry: send_job_with_new_status with the status the failure carried.
Resubmit(c) ==
  LET j == calls[c].job IN
  /\ calls[c].pc = "resubmit"
  /\ StoreStatus(j, calls[c].status)
  /\ calls' = [calls EXCEPT ![c].pc = "send"]
  /\ raced' = IF \/ Held(j) \/ queue_db[j] # Absent
                 \/ finished_db[j] # Failed(calls[c].status)
                THEN raced \cup {j} ELSE raced
  /\ UNCHANGED <<disk, channel, tasks, flow, requests>>

\* The job goes to the worker's channel and the call returns.
SendFromCall(c) ==
  /\ calls[c].pc = "send"
  /\ channel' = Append(channel, calls[c].job)
  /\ calls' = [calls EXCEPT ![c] = IdleCall]
  /\ UNCHANGED <<db, disk, tasks, flow, requests, ghost>>

\* A database error before the job was stored: the call returns an error.
CallFails(c) ==
  /\ "db" \in Faults
  /\ calls[c].pc \in {"check_queue", "insert", "resubmit"}
  /\ calls' = [calls EXCEPT ![c] = IdleCall]
  /\ UNCHANGED <<db, disk, channel, tasks, flow, requests, ghost>>

CallStep(c) == CheckQueue(c) \/ InsertNew(c) \/ Resubmit(c) \/ SendFromCall(c)
               \/ CallFails(c)

-----------------------------------------------------------------------------
(***************************************************************************)
(* prove(job): one spawned task advances the job by one status.             *)
(***************************************************************************)

\* Variant: a job whose proof is already requested is requested again.
StageRequestingAgain(status) ==
  IF status = DataAvailabilityPending THEN "fetch" ELSE "prove"

\* The task reads the job's status and picks the work it calls for.  A job
\* that is not queued any more, or has a status that is not pending, ends it.
StageOf(status) ==
  CASE status = DataAvailabilityPending -> "fetch"
    [] status = DataAvailable -> "prove"
    [] OTHER -> "wait"

ReadStatus(t) ==
  LET status == queue_db[tasks[t].job] IN
  /\ tasks[t].pc = "spawned"
  /\ tasks' = [tasks EXCEPT ![t] =
                 IF status \in PendingStatus
                   THEN [pc |-> StageOf(status), job |-> tasks[t].job,
                         status |-> status]
                   ELSE IdleTask]
  /\ UNCHANGED <<db, disk, channel, calls, flow, requests, ghost>>

\* get_da_client: the first task in need of the client connects it.
ConnectInTask(t) ==
  /\ tasks[t].pc = "fetch"
  /\ da_client = "unset"
  /\ da_client' = "ready"
  /\ UNCHANGED <<db, disk, channel, tasks, calls, main, worker, resume,
                 stopping, requests, ghost>>

\* get_zk_proof_input_from_da succeeds: header, blob, share range, sanity
\* check, then the job is stored as DataAvailable.
FetchFromDa(t) ==
  /\ tasks[t].pc = "fetch"
  /\ da_client = "ready"
  /\ StoreStatus(tasks[t].job, DataAvailable)
  /\ tasks' = [tasks EXCEPT ![t] = [pc |-> "send", job |-> @.job,
                                     status |-> DataAvailable]]
  /\ UNCHANGED <<disk, channel, calls, flow, requests, raced>>

\* A DA call fails: handle_da_client_error finalizes the job.
DaClientError(t) ==
  /\ "da" \in Faults
  /\ tasks[t].pc = "fetch"
  /\ da_client = "ready"
  /\ \E retry \in Retries : FinalizeJob(tasks[t].job, Failed(retry))
  /\ tasks' = [tasks EXCEPT ![t] = IdleTask]
  /\ UNCHANGED <<disk, channel, calls, flow, requests, raced>>

\* request_zk_proof succeeds: the network has the request, under a new id,
\* before the service has recorded it anywhere.
RequestZkProof(t) ==
  /\ tasks[t].pc = "prove"
  /\ \E r \in Requests :
       /\ requests[r] = NoJob
       /\ requests' = [requests EXCEPT ![r] = tasks[t].job]
       /\ tasks' = [tasks EXCEPT ![t] = [pc |-> "record", job |-> @.job,
                                          status |-> ZkProofPending(r)]]
  /\ UNCHANGED <<db, disk, channel, calls, flow, ghost>>

\* The request id is stored with the job.
RecordRequest(t) ==
  /\ tasks[t].pc = "record"
  /\ StoreStatus(tasks[t].job, tasks[t].status)
  /\ tasks' = [tasks EXCEPT ![t].pc = "send"]
  /\ UNCHANGED <<disk, channel, calls, flow, requests, raced>>

\* wait_for_zk_proof returns the proof and the job is finalized with it.
ProofArrives(t) ==
  /\ tasks[t].pc = "wait"
  /\ FinalizeJob(tasks[t].job, ZkProofFinished(tasks[t].status.request))
  /\ tasks' = [tasks EXCEPT ![t] = IdleTask]
  /\ UNCHANGED <<disk, channel, calls, flow, requests, raced>>

\* The prover network refuses or fails a request: handle_zk_client_error.
ZkClientError(t) ==
  /\ "zk" \in Faults
  /\ tasks[t].pc \in {"prove", "wait"}
  /\ \E retry \in Retries : FinalizeJob(tasks[t].job, Failed(retry))
  /\ tasks' = [tasks EXCEPT ![t] = IdleTask]
  /\ UNCHANGED <<disk, channel, calls, flow, requests, raced>>

\* Every other way a task ends early: the error is returned or logged and
\* the job stays in the queue with nobody to advance it.
GiveUp(t) ==
  /\ "unhandled" \in Faults
  /\ tasks[t].pc \in {"spawned", "fetch", "prove", "record", "wait"}
  /\ tasks' = [tasks EXCEPT ![t] = IdleTask]
  /\ abandoned' = IF queue_db[tasks[t].job] # Absent
                    THEN abandoned \cup {tasks[t].job} ELSE abandoned
  /\ UNCHANGED <<db, disk, channel, calls, flow, requests, raced>>

\* Variant: the task ends without scheduling the job's next status.
EndWithoutSend(t) ==
  /\ tasks[t].pc = "send"
  /\ tasks' = [tasks EXCEPT ![t] = IdleTask]
  /\ UNCHANGED <<db, disk, channel, calls, flow, requests, ghost>>

\* Variant: the job is sent by the helper and once more by its caller.
SendTwice(t) ==
  /\ tasks[t].pc = "send"
  /\ channel' = channel \o <<tasks[t].job, tasks[t].job>>
  /\ tasks' = [tasks EXCEPT ![t] = IdleTask]
  /\ UNCHANGED <<db, disk, calls, flow, requests, ghost>>

\* The second half of send_job_with_new_status: schedule the next status.
SendFromTask(t) ==
  /\ tasks[t].pc = "send"
  /\ channel' = Append(channel, tasks[t].job)
  /\ tasks' = [tasks EXCEPT ![t] = IdleTask]
  /\ UNCHANGED <<db, disk, calls, flow, requests, ghost>>

TaskStep(t) ==
  \/ ReadStatus(t) \/ ConnectInTask(t) \/ FetchFromDa(t) \/ DaClientError(t)
  \/ RequestZkProof(t) \/ RecordRequest(t) \/ ProofArrives(t)
  \/ ZkClientError(t) \/ GiveUp(t) \/ SendFromTask(t)


-----------------------------------------------------------------------------
(***************************************************************************)
(* job_worker: the receiving end of the channel.                            *)
(***************************************************************************)

\* The loop receives a job and spawns a task for it; it never waits for one.
Dispatch(t) ==
  /\ worker = "loop"
  /\ channel # <<>>
  /\ Head(channel) \in Jobs
  /\ tasks[t].pc = "idle"
  /\ channel' = Tail(channel)
  /\ tasks' = [tasks EXCEPT ![t] =
                 [pc |-> "spawned", job |-> Head(channel), status |-> Absent]]
  /\ UNCHANGED <<db, disk, calls, flow, requests, ghost>>

\* The loop receives None and ends; tasks already spawned keep running.
ReceiveStop ==
  /\ worker = "loop"
  /\ channel # <<>>
  /\ Head(channel) = Shutdown
  /\ channel' = Tail(channel)
  /\ worker' = "flush_queue"
  /\ UNCHANGED <<db, disk, tasks, calls, main, resume, da_client, stopping,
                 requests, ghost>>

\* Variant: the worker exits without flushing.
SkipFlush == disk' = disk

\* Flushing either tree flushes the log both of them share; the result of a
\* flush is ignored.
Flush ==
  \/ disk' = Image
  \/ "db" \in Faults /\ disk' = disk

FlushTree ==
  /\ worker \in {"flush_queue", "flush_finished"}
  /\ Flush
  /\ worker' = IF worker = "flush_queue" THEN "flush_finished" ELSE "exit"
  /\ UNCHANGED <<db, channel, tasks, calls, main, resume, da_client, stopping,
                 requests, ghost>>

\* The process ends: memory is gone, the trees are what the disk holds.
Halt ==
  /\ main' = "down"
  /\ worker' = "down"
  /\ queue_db' = disk.queue
  /\ finished_db' = disk.finished
  /\ channel' = <<>>
  /\ tasks' = [t \in Tasks |-> IdleTask]
  /\ calls' = [c \in Calls |-> IdleCall]
  /\ resume' = {}
  /\ da_client' = "unset"
  /\ stopping' = FALSE
  /\ abandoned' = {}
  /\ UNCHANGED <<disk, requests, raced>>

\* process::exit(0) at the end of job_worker, whatever is still running.
Exit == worker = "exit" /\ Halt

WorkerStep == (\E t \in Tasks : Dispatch(t)) \/ ReceiveStop \/ FlushTree \/ Exit

-----------------------------------------------------------------------------
(***************************************************************************)
(* main, the shutdown signal, the database's flusher thread and crashes.    *)
(***************************************************************************)

\* Variant: only jobs that have not yet been sent to the prover are resumed.
BootWithoutPendingProofs ==
  /\ main = "down"
  /\ main' = "resuming"
  /\ worker' = "loop"
  /\ resume' = {j \in Jobs : queue_db[j] \in {DataAvailabilityPending, DataAvailable}}
  /\ UNCHANGED <<db, disk, channel, tasks, calls, da_client, stopping, requests,
                 ghost>>

\* The trees are opened, the worker is spawned, the resume loop begins.
Boot ==
  /\ main = "down"
  /\ main' = "resuming"
  /\ worker' = "loop"
  /\ resume' = {j \in Jobs : queue_db[j] # Absent}
  /\ UNCHANGED <<db, disk, channel, tasks, calls, da_client, stopping, requests,
                 ghost>>

\* One iteration of the resume loop.
ResumeNext(j) ==
  /\ j \in resume
  /\ resume' = resume \ {j}
  /\ channel' = Append(channel, j)
  /\ UNCHANGED <<db, disk, tasks, calls, main, worker, da_client, stopping,
                 requests, ghost>>

\* An entry the iteration cannot read is skipped without a word.
ResumeSkip(j) ==
  /\ "db" \in Faults
  /\ j \in resume
  /\ resume' = resume \ {j}
  /\ abandoned' = abandoned \cup {j}
  /\ UNCHANGED <<db, disk, channel, tasks, calls, main, worker, da_client,
                 stopping, requests, raced>>

\* Only then does the server start to accept calls.
Serve ==
  /\ main = "resuming"
  /\ resume = {}
  /\ main' = "serving"
  /\ UNCHANGED <<db, disk, channel, tasks, calls, worker, resume, da_client,
                 stopping, requests, ghost>>

MainStep == (\E j \in Jobs : ResumeNext(j) \/ ResumeSkip(j)) \/ Serve

\* The startup task connects the DA client ...
StartupConnect ==
  /\ main # "down"
  /\ da_client = "unset"
  /\ da_client' = "ready"
  /\ UNCHANGED <<db, disk, channel, tasks, calls, main, worker, resume,
                 stopping, requests, ghost>>

\* ... or cannot, and ends the process with exit(1).
StartupConnectFails ==
  /\ "crash" \in Faults
  /\ main # "down"
  /\ da_client = "unset"
  /\ Halt

\* Variant: the signal is noted but the worker is not told.
SignalIgnored ==
  /\ main # "down"
  /\ ~stopping
  /\ stopping' = TRUE
  /\ UNCHANGED <<db, disk, channel, tasks, calls, main, worker, resume,
                 da_client, requests, ghost>>

\* A signal arrives: shutdown() sends None, behind every job sent so far.
Signal ==
  /\ main # "down"
  /\ ~stopping
  /\ stopping' = TRUE
  /\ channel' = Append(channel, Shutdown)
  /\ UNCHANGED <<db, disk, tasks, calls, main, worker, resume, da_client,
                 requests, ghost>>

\* sled writes its log out on its own, every half second or when it is full:
\* at any moment the disk holds the trees as they were at some earlier one.
BackgroundFlush ==
  /\ main # "down"
  /\ disk' = Image
  /\ UNCHANGED <<db, channel, tasks, calls, flow, requests, ghost>>

\* Power loss, a kill, or serve() failing.
Crash ==
  /\ "crash" \in Faults
  /\ main # "down"
  /\ Halt

-----------------------------------------------------------------------------
Init ==
  /\ queue_db = [j \in Jobs |-> Absent]
  /\ finished_db = [j \in Jobs |-> Absent]
  /\ disk = Image
  /\ channel = <<>>
  /\ tasks = [t \in Tasks |-> IdleTask]
  /\ calls = [c \in Calls |-> IdleCall]
  /\ main = "down"
  /\ worker = "down"
  /\ resume = {}
  /\ da_client = "unset"
  /\ stopping = FALSE
  /\ requests = [r \in Requests |-> NoJob]
  /\ abandoned = {}
  /\ raced = {}

Next ==
  \/ \E c \in Calls : (\E j \in Jobs : CheckFinished(c, j)) \/ CallStep(c)
  \/ \E t \in Tasks : TaskStep(t)
  \/ WorkerStep
  \/ Boot
  \/ MainStep
  \/ StartupConnect \/ StartupConnectFails
  \/ Signal
  \/ BackgroundFlush
  \/ Crash

Spec == Init /\ [][Next]_vars

\* tokio runs every ready task sooner or later; DA requests and proof requests
\* carry timeouts, so each is answered or fails.  Nothing obliges a client to
\* call, a signal to arrive, the process to crash, the disk to be written or a
\* stopped process to be started again.
Fairness ==
  /\ \A t \in Tasks : WF_vars(TaskStep(t))
  /\ \A c \in Calls : WF_vars(CallStep(c))
  /\ WF_vars(WorkerStep)
  /\ WF_vars(MainStep)

FairSpec == Spec /\ Fairness
=============================================================================
