----------------------------- MODULE JobMetrics ------------------------------
(***************************************************************************)
(* The Prometheus counters composed with the eq-service.  The counters live *)
(* in memory, next to jobs that live on the disk; they are incremented in   *)
(* other steps than the ones that change the trees, and not on every path.  *)
(*                                                                         *)
(* An admission, a retry or a resumption starts a run of the job: a chain   *)
(* of messages and tasks that ends with a result or an error.               *)
(***************************************************************************)
EXTENDS JobService

CONSTANT MaxAttempts   \* bound: calls are taken up while fewer were counted

ASSUME AttemptsAssumption == MaxAttempts \in Nat

\* Blob ids have a fixed size, and memory for slots is finite: what is counted
\* can be counted.
ASSUME FiniteAssumption ==
  IsFiniteSet(Jobs) /\ IsFiniteSet(Calls) /\ IsFiniteSet(Tasks)

VARIABLES
  attempted,  \* jobs_attempted
  finished,   \* jobs_finished
  errors,     \* jobs_errors, all labels together
  due,        \* increments of either still to come, from tasks that have ended
  resumed,    \* history: runs the startup loop began in this process
  uncounted   \* history: runs that ended without an increment to come

metrics == <<attempted, finished, errors, due, resumed, uncounted>>
mvars   == <<vars, metrics>>

\* What a task may still have to report: its proof, or the error it returned.
Reports == {"finished", "error"}

MInit ==
  /\ Init
  /\ attempted = 0
  /\ finished = 0
  /\ errors = 0
  /\ due = [r \in Reports |-> 0]
  /\ resumed = 0
  /\ uncounted = 0

-----------------------------------------------------------------------------
(***************************************************************************)
(* What a step of the service does to the counters.                         *)
(***************************************************************************)

\* A task ends and will report.
Reporting(report) ==
  /\ due' = [due EXCEPT ![report] = @ + 1]
  /\ UNCHANGED <<attempted, finished, errors, resumed, uncounted>>

\* A run ends and nobody will know.
EndsUncounted ==
  /\ uncounted' = uncounted + 1
  /\ UNCHANGED <<attempted, finished, errors, due, resumed>>

\* A call is counted as an attempt once it is decided that it will queue the
\* job, before it has.
CountAttempt(c) ==
  /\ \/ attempted < MaxAttempts /\ \E j \in Jobs : CheckFinished(c, j)
     \/ CheckQueue(c)
  /\ attempted' = IF calls'[c].pc \in {"insert", "resubmit"}
                    THEN attempted + 1 ELSE attempted
  /\ UNCHANGED <<finished, errors, due, resumed, uncounted>>

\* A call that fails after it was counted.
CountedCallFails(c) ==
  /\ CallFails(c)
  /\ IF calls[c].pc = "check_queue" THEN UNCHANGED metrics ELSE EndsUncounted

\* The job is not there, or is no longer pending: prove returns Ok(()).
CountedReadStatus(t) ==
  /\ ReadStatus(t)
  /\ IF tasks'[t].pc = "idle" THEN EndsUncounted ELSE UNCHANGED metrics

\* The error a DA call ends with is returned from prove ...
CountedDaError(t) == DaClientError(t) /\ Reporting("error")

\* ... and the error of a proof request or of the wait for it is only logged.
CountedZkError(t) == ZkClientError(t) /\ EndsUncounted

\* A panic reports nothing; other errors are returned, but not from the stage
\* that requests the proof, which only logs them.
CountedGiveUp(t) ==
  /\ GiveUp(t)
  /\ EndsUncounted \/ (tasks[t].pc # "prove" /\ Reporting("error"))

CountedProof(t) == ProofArrives(t) /\ Reporting("finished")

\* The increment itself, by a task whose job is finalized or given up.
Report(report) ==
  /\ due[report] > 0
  /\ due' = [due EXCEPT ![report] = @ - 1]
  /\ IF report = "finished" THEN finished' = finished + 1 /\ UNCHANGED errors
     ELSE errors' = errors + 1 /\ UNCHANGED finished   \* count_error
  /\ UNCHANGED <<vars, attempted, resumed, uncounted>>

CountedBoot ==
  /\ Boot
  /\ resumed' = Cardinality(resume')
  /\ UNCHANGED <<attempted, finished, errors, due, uncounted>>

CountedSkip(j) == ResumeSkip(j) /\ EndsUncounted

\* Memory is gone, and the counters with it.
CountedHalt ==
  /\ Exit \/ StartupConnectFails \/ Crash
  /\ attempted' = 0
  /\ finished' = 0
  /\ errors' = 0
  /\ due' = [r \in Reports |-> 0]
  /\ resumed' = 0
  /\ uncounted' = 0

\* Steps no counter takes notice of.
UncountedStep ==
  /\ \/ \E c \in Calls : InsertNew(c) \/ Resubmit(c) \/ SendFromCall(c)
     \/ \E t \in Tasks : \/ ConnectInTask(t) \/ FetchFromDa(t) \/ RequestZkProof(t)
                         \/ RecordRequest(t) \/ SendFromTask(t) \/ Dispatch(t)
     \/ ReceiveStop \/ FlushTree \/ Serve \/ StartupConnect \/ Signal
     \/ BackgroundFlush
     \/ \E j \in Jobs : ResumeNext(j)
  /\ UNCHANGED metrics

MNext ==
  \/ \E c \in Calls : CountAttempt(c) \/ CountedCallFails(c)
  \/ \E t \in Tasks : \/ CountedReadStatus(t) \/ CountedDaError(t)
                      \/ CountedZkError(t) \/ CountedGiveUp(t) \/ CountedProof(t)
  \/ \E report \in Reports : Report(report)
  \/ CountedBoot \/ CountedHalt
  \/ \E j \in Jobs : CountedSkip(j)
  \/ UncountedStep

MSpec == MInit /\ [][MNext]_mvars

-----------------------------------------------------------------------------
(***************************************************************************)
(* Properties                                                               *)
(***************************************************************************)

\* Runs that have not ended: each is in one message, one task, one call that
\* was counted, or one entry the startup loop still has to send.
RunsInFlight ==
  Cardinality({i \in 1..Len(channel) : channel[i] \in Jobs})
    + Cardinality(resume)
    + Cardinality({t \in Tasks : tasks[t].pc # "idle"})
    + Cardinality({c \in Calls : calls[c].pc \in {"insert", "resubmit", "send"}})

\* No run is lost and none is doubled, although runs of one job race, end in
\* other tasks than they began in, and are cut off by restarts: what was
\* attempted or resumed is in flight, counted as finished or as an error, about
\* to be, or one of the runs that ended without a report.
RunsAreConserved ==
  attempted + resumed =
    RunsInFlight + finished + errors + due["finished"] + due["error"] + uncounted
=============================================================================
