----------------------------- MODULE JobReplies ------------------------------
(***************************************************************************)
(* What a client sees of the eq-service: the replies of get_zk_stack, over  *)
(* many calls about the same job, composed with everything that goes on     *)
(* behind them.  A call's reply is fixed by the step of the handler that    *)
(* decides it.                                                              *)
(***************************************************************************)
EXTENDS JobService

VARIABLE last   \* history: the last reply of this process about each job

rvars == <<vars, last>>

NoReply == "NoReply"

\* The Status field of GetZkStackResponse; "Error" is a gRPC error instead.
ResponseStatus == {"DaPending", "DaAvailable", "ZkpPending", "ZkpFinished",
                   "RetryableFailure", "PermanentFailure"}

\* Variant: a job is reported as available from its proof request on only.
QueueReplyLate(status) ==
  CASE status = DataAvailabilityPending -> "DaPending"
    [] status = DataAvailable           -> "DaAvailable"
    [] OTHER                            -> "DaPending"

\* The reply to a status found in the queue tree ...
QueueReply(status) ==
  CASE status = DataAvailabilityPending -> "DaPending"
    [] status = DataAvailable           -> "DaAvailable"
    [] status \in {ZkProofPending(r) : r \in Requests} -> "ZkpPending"
    [] OTHER                            -> "Error"

\* ... and to a settled one in the finished tree.
SettledReply(status) ==
  IF status = Failed(Absent) THEN "PermanentFailure" ELSE "ZkpFinished"

RInit == Init /\ last = [j \in Jobs |-> NoReply]

Reply(j, reply) == last' = [last EXCEPT ![j] = reply]

\* A call that finds a settled answer gives it; any other says nothing yet.
ReplyIfSettled(c, j) ==
  /\ CheckFinished(c, j)
  /\ IF finished_db[j] \in Settling THEN Reply(j, SettledReply(finished_db[j]))
     ELSE UNCHANGED last

\* A call that finds the job queued says how far it is.
ReplyIfQueued(c) ==
  LET j == calls[c].job IN
  /\ CheckQueue(c)
  /\ IF queue_db[j] = Absent THEN UNCHANGED last
     ELSE Reply(j, QueueReply(queue_db[j]))

\* A new job is announced as pending ...
ReplyToNew(c) == InsertNew(c) /\ Reply(calls[c].job, "DaPending")

\* ... and a resubmitted one as a failure that is being retried.
ReplyToRetry(c) == Resubmit(c) /\ Reply(calls[c].job, "RetryableFailure")

\* A resubmission that cannot be stored is reported as a permanent failure; any
\* other call that fails gets a gRPC error, which says nothing of the job.
ReplyToFailure(c) ==
  LET j == calls[c].job IN
  /\ CallFails(c)
  /\ IF calls[c].pc = "resubmit" THEN Reply(j, "PermanentFailure")
     ELSE UNCHANGED last

\* The rest of the service says nothing; a process that ends is not asked.
Silent == last' = IF main' = "down" THEN [j \in Jobs |-> NoReply] ELSE last

SilentStep ==
  /\ \/ \E c \in Calls : SendFromCall(c)
     \/ \E t \in Tasks : TaskStep(t)
     \/ WorkerStep \/ Boot \/ MainStep
     \/ StartupConnect \/ StartupConnectFails
     \/ Signal \/ BackgroundFlush \/ Crash
  /\ Silent

CallReplies(c) ==
  ReplyIfQueued(c) \/ ReplyToNew(c) \/ ReplyToRetry(c) \/ ReplyToFailure(c)

RNext ==
  \/ \E c \in Calls : (\E j \in Jobs : ReplyIfSettled(c, j)) \/ CallReplies(c)
  \/ SilentStep

RSpec == RInit /\ [][RNext]_rvars

\* As in JobService.
RFairness ==
  /\ \A t \in Tasks : WF_rvars(TaskStep(t) /\ Silent)
  /\ \A c \in Calls :
       /\ WF_rvars(CallReplies(c))
       /\ WF_rvars(SendFromCall(c) /\ Silent)
  /\ WF_rvars(WorkerStep /\ Silent)
  /\ WF_rvars(MainStep /\ Silent)

FairRSpec == RSpec /\ RFairness

\* A client that whenever it can be heard again and again is heard about j.
KeepsAsking(j) == SF_rvars(\E c \in Calls : ReplyIfSettled(c, j))

-----------------------------------------------------------------------------
(***************************************************************************)
(* Properties                                                               *)
(***************************************************************************)

\* The order in which a job makes its way.
Rank(reply) ==
  CASE reply = "DaPending"        -> 1
    [] reply = "DaAvailable"      -> 2
    [] reply = "ZkpPending"       -> 3
    [] reply = "ZkpFinished"      -> 4
    [] reply = "PermanentFailure" -> 4
    [] OTHER                      -> 0

\* The failure of a resubmission is taken for that of the job.
Misreported(j, reply) ==
  reply = "PermanentFailure" /\ finished_db[j] # Failed(Absent)

\* Within a process, clients never see a job go back, except by a failure that
\* one of them is told is being retried, by a database error that is reported
\* as a permanent failure, or after its admission raced with another one; and
\* a settled answer is repeated word for word.
ProgressSeen ==
  [][\A j \in Jobs :
       last'[j] # last[j] =>
         \/ Rank(last'[j]) > Rank(last[j])
         \/ last'[j] = "RetryableFailure" /\ Rank(last[j]) < 4
         \/ Misreported(j, last[j]) \/ Misreported(j, last'[j])
         \/ j \in raced'
         \/ main' = "down"]_rvars

\* What the message's definition says of PERMANENT_FAILURE, "no way to complete
\* request", is so: no other reply follows it, unless the job's admission raced
\* with another one or the process goes down.
PermanentIsPermanent ==
  [][\A j \in Jobs :
       last[j] = "PermanentFailure" /\ last'[j] # last[j] =>
         j \in raced' \/ main' = "down"]_rvars

\* A client that keeps asking gets past the pending replies: to a result, to a
\* failure that is retried or not, unless its job was given up, its admission
\* raced with another one, or the process goes down.
AskingGetsResult ==
  \A j \in Jobs :
    KeepsAsking(j) =>
      (last[j] \in {"DaPending", "DaAvailable", "ZkpPending"} ~>
         \/ last[j] \in {"ZkpFinished", "RetryableFailure", "PermanentFailure"}
         \/ j \in abandoned \/ j \in raced \/ stopping \/ main = "down")
=============================================================================
