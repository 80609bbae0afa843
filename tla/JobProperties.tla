---------------------------- MODULE JobProperties ----------------------------
(***************************************************************************)
(* What the eq-service promises about jobs: invariants, properties of every *)
(* step and liveness properties of JobService, and the claims of the        *)
(* repository's documentation that the code does not keep.                  *)
(***************************************************************************)
EXTENDS JobService

\* The service knows of j: in memory, or on the disk.
Known(j)     == queue_db[j] # Absent \/ finished_db[j] # Absent
DiskKnown(j) == disk.queue[j] # Absent \/ disk.finished[j] # Absent

\* The disk agrees with the trees about j.
OnDisk(j) == disk.queue[j] = queue_db[j] /\ disk.finished[j] = finished_db[j]

\* j has its final answer and nothing in the process is about to touch it.
Settled(j) == /\ finished_db[j] \in Settling
              /\ queue_db[j] = Absent
              /\ ~Held(j)
              /\ ~InCall(j)

-----------------------------------------------------------------------------
(***************************************************************************)
(* Safety                                                                   *)
(***************************************************************************)

\* No job is left in the queue with nobody to advance it: it is in the channel,
\* in a task, about to be sent, or waiting for the resume loop, unless a task
\* gave up on it through one of the error paths that finalize nothing.
NoLostJob ==
  main # "down" =>
    \A j \in Jobs : queue_db[j] # Absent => Held(j) \/ j \in abandoned

\* At most one part of the process holds j.
HeldOnce(j) ==
  /\ \A i, k \in 1..Len(channel) : channel[i] = j /\ channel[k] = j => i = k
  /\ \A t, u \in Tasks : tasks[t].job = j /\ tasks[u].job = j => t = u
  /\ \A c, d \in Calls :
       /\ calls[c].pc = "send" /\ calls[c].job = j
       /\ calls[d].pc = "send" /\ calls[d].job = j
       => c = d
  /\ InChannel(j) => ~InTask(j) /\ ~Sending(j) /\ j \notin resume
  /\ InTask(j) => ~Sending(j) /\ j \notin resume
  /\ Sending(j) => j \notin resume

\* What a task remembers of its job is still what the queue tree says.
TaskIsCurrent(t) ==
  LET stored == queue_db[tasks[t].job] IN
  CASE tasks[t].pc = "spawned" -> stored \in PendingStatus
    [] tasks[t].pc = "record"  -> stored = DataAvailable
    [] OTHER                   -> stored = tasks[t].status

\* A job is in one tree at a time.
InOneTree(j) == queue_db[j] = Absent \/ finished_db[j] = Absent

\* Unless two admissions of the same job overlapped, a job is worked on by one
\* task at a time, that task's copy of the status is never stale, and the job
\* is in one tree only, although tasks read a status, wait for minutes on the
\* network, and then write without looking again.
UnracedJobIsSerial ==
  \A j \in Jobs \ raced :
    /\ HeldOnce(j)
    /\ InOneTree(j)
    /\ \A t \in Tasks : tasks[t].job = j => TaskIsCurrent(t)

\* When a clean shutdown is about to exit, all the service knows is on the disk,
\* except jobs admitted while the two flushes ran, which no task has begun.
ExitLosesOnlyNewcomers ==
  worker = "exit" /\ "db" \notin Faults =>
    \A j \in Jobs : Known(j) /\ ~DiskKnown(j) => Sending(j) \/ InChannel(j)

-----------------------------------------------------------------------------
(***************************************************************************)
(* What a step may never do                                                 *)
(***************************************************************************)

\* A job with its final answer, and no call about it in progress, keeps that
\* answer whatever happens to other jobs and however often it is asked for; only
\* a restart can forget it, and not when the disk had it.
SettledStays ==
  [][\A j \in Jobs : Settled(j) =>
       \/ Settled(j)' /\ finished_db'[j] = finished_db[j]
       \/ main' = "down" /\ ~OnDisk(j)]_vars

\* While the process runs, the final answer of a job is displaced in one way
\* only: by an admission that had looked the job up before it was finished.
UnracedResultFinal ==
  [][\A j \in Jobs :
       finished_db[j] \in Settling /\ finished_db'[j] # finished_db[j] =>
         main' = "down" \/ j \in raced']_vars

\* Once a job has reached the disk, the service never loses it again: no
\* transition of it, crash or restart leaves it in neither tree.
DurableForever ==
  [][\A j \in Jobs : DiskKnown(j) => DiskKnown(j)' /\ Known(j)']_vars

\* A proof request that has reached the disk is never dropped for another one:
\* its job, across crashes too, leaves it only with its proof or as failed.
DurableRequestKept ==
  [][\A j \in Jobs \ raced', r \in Requests :
       queue_db[j] = ZkProofPending(r) /\ OnDisk(j) =>
         \/ queue_db'[j] = ZkProofPending(r)
         \/ /\ queue_db'[j] = Absent
            /\ \/ finished_db'[j] = ZkProofFinished(r)
               \/ \E retry \in Retries : finished_db'[j] = Failed(retry)]_vars

-----------------------------------------------------------------------------
(***************************************************************************)
(* Liveness                                                                 *)
(***************************************************************************)

\* Every queued job leaves the queue with a result, unless its task gave up on
\* it or the process is going down.
QueuedJobResolved ==
  \A j \in Jobs :
    queue_db[j] # Absent ~>
      (queue_db[j] = Absent \/ j \in abandoned \/ stopping \/ main = "down")

\* After a signal the process exits, however many jobs are in flight and
\* however long the prover network takes.
ShutdownCompletes == stopping ~> main = "down"

-----------------------------------------------------------------------------
(***************************************************************************)
(* What the repository says and the code does not do                        *)
(***************************************************************************)

\* README: the service "eagerly caches work as it's completed, returning those
\* results rather than redoing work".  A finished proof is kept while the
\* process runs.
FinishedProofKept ==
  [][\A j \in Jobs, r \in Requests :
       finished_db[j] = ZkProofFinished(r) =>
         finished_db'[j] = finished_db[j] \/ main' = "down"]_vars

\* finalize_job: it "removes the job from any further processing by workers".
\* No task is still at work on a job that has left the queue for good.
FinalizedIsNotProcessed ==
  \A t \in Tasks :
    tasks[t].pc \in {"fetch", "prove", "record", "wait"} =>
      LET j == tasks[t].job IN
      ~(queue_db[j] = Absent /\ finished_db[j] \in Settling)

\* README: the service drives "each request to success or failure".
DrivenToCompletion ==
  \A j \in Jobs :
    queue_db[j] # Absent ~> (queue_db[j] = Absent \/ stopping \/ main = "down")
=============================================================================
