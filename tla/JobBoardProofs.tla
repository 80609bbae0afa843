--------------------------- MODULE JobBoardProofs ----------------------------
(***************************************************************************)
(* JobService implements JobBoard, for every set of jobs, calls, tasks and  *)
(* request ids and every set of faults: each step of the service is, seen   *)
(* through the mapping, one step of the board or none.                      *)
(***************************************************************************)
EXTENDS JobBoardRefinement, JobSerialProofs

-----------------------------------------------------------------------------
(***************************************************************************)
(* What the mapping needs to know of the service's states                   *)
(***************************************************************************)

\* The worker lives as long as the main task.
UpTogether == worker = "down" <=> main = "down"

BoardInv == TypeInv /\ DownIsEmpty /\ UpTogether

LEMMA UpTogetherStep == UpTogether /\ [Next]_vars => UpTogether'
  BY DEF UpTogether, Next, CallStep, CheckFinished, CheckQueue, InsertNew, Resubmit,
     SendFromCall, CallFails, TaskStep, ReadStatus, ConnectInTask, FetchFromDa,
     DaClientError, RequestZkProof, RecordRequest, ProofArrives, ZkClientError,
     GiveUp, SendFromTask, WorkerStep, Dispatch, ReceiveStop, FlushTree, Exit, Boot,
     MainStep, ResumeNext, ResumeSkip, Serve, StartupConnect,
     StartupConnectFails, Signal, BackgroundFlush, Crash, Halt, flow, vars

\* The board's statuses are the service's.
LEMMA SameStatuses ==
  /\ Board!Absent = Absent
  /\ Board!FinalStatus = FinalStatus
  /\ Board!Settling = Settling
  BY DEF Board!Absent, Board!FinalStatus, Board!Settling, Board!ZkProofFinished,
     Board!Failed, Board!Retries, Board!DataAvailabilityPending,
     Absent, FinalStatus, Settling, ZkProofFinished, Failed, Retries,
     DataAvailabilityPending

\* A step of the board, or none.
BoardStep ==
  Board!Next \/ UNCHANGED <<Open, finished_db, Asking, Working, Saved, Up>>

\* What the board shows depends on these parts of the service only.
LEMMA Mapped ==
  /\ UNCHANGED queue_db => Open' = Open
  /\ UNCHANGED calls => Asking' = Asking
  /\ UNCHANGED disk => Saved' = Saved
  /\ UNCHANGED main => Up' = Up
  /\ (\A j \in Jobs : Held(j)' <=> Held(j)) => Working' = Working
  BY DEF Open, Asking, Working, Saved, Up

-----------------------------------------------------------------------------
(***************************************************************************)
(* Calls                                                                    *)
(***************************************************************************)

\* A call that ends without having stored its job is an answer.
LEMMA CallEnds ==
  ASSUME TypeInv, NEW c \in Calls, calls[c].pc \notin {"idle", "send"},
         calls' = [calls EXCEPT ![c] = IdleCall],
         UNCHANGED <<queue_db, finished_db, disk, channel, tasks, main, resume>>
  PROVE  BoardStep
<1> DEFINE j == calls[c].job
<1>1. j \in Jobs /\ j \in Asking
  BY DEF TypeInv, TypeOK, Shapes, CallShape, Asking
<1>2. \A d \in Calls : calls'[d] = IF d = c THEN IdleCall ELSE calls[d]
  BY DEF TypeInv, TypeOK
<1>3. Working' = Working
  BY <1>2, Mapped DEF Held, InChannel, InTask, Sending, IdleCall
<1>4. Asking' \in {Asking, Asking \ {j}}
  <2>1. \A k \in Jobs : k \in Asking' => k \in Asking
    BY <1>2, JobsAssumption DEF Asking, IdleCall
  <2>2. \A k \in Jobs : k \in Asking /\ k # j => k \in Asking'
    BY <1>2 DEF Asking
  <2> QED
    BY <2>1, <2>2 DEF Asking
<1>5. CASE Asking' = Asking
  BY <1>3, <1>5, Mapped DEF BoardStep
<1>6. CASE Asking' = Asking \ {j}
  <2>1. Board!Answer(j)
    BY <1>1, <1>3, <1>6, Mapped DEF Board!Answer
  <2> QED
    BY <1>1, <2>1 DEF BoardStep, Board!Next
<1> QED
  BY <1>4, <1>5, <1>6

\* Both kinds of admission.
LEMMA CallAdmits ==
  ASSUME TypeInv, NEW c \in Calls, InsertNew(c) \/ Resubmit(c)
  PROVE  BoardStep
<1> DEFINE j == calls[c].job
<1>1. j \in Jobs /\ j \in Asking
  BY DEF InsertNew, Resubmit, TypeInv, TypeOK, Shapes, CallShape, Asking
<1>2. /\ UNCHANGED <<disk, channel, tasks, main, resume>>
      /\ calls' = [calls EXCEPT ![c].pc = "send"]
      /\ \E s \in PendingStatus : queue_db' = [queue_db EXCEPT ![j] = s]
      /\ finished_db' \in {finished_db, [finished_db EXCEPT ![j] = Absent]}
  BY StatusFacts
  DEF InsertNew, Resubmit, StoreStatus, flow, TypeInv, Shapes, CallShape
<1>3. \A k \in Jobs : queue_db'[k] # Absent <=> k = j \/ queue_db[k] # Absent
  BY <1>2, StatusFacts DEF TypeInv, TypeOK
<1>4. Open' = Open \cup {j}
  BY <1>1, <1>3 DEF Open
<1>5. /\ \A d \in Calls : calls'[d].job = calls[d].job
      /\ \A d \in Calls : calls'[d].pc = IF d = c THEN "send" ELSE calls[d].pc
  BY <1>2 DEF TypeInv, TypeOK
<1>6. Asking' \in {Asking, Asking \ {j}}
  <2>1. \A k \in Jobs : k \in Asking' => k \in Asking
    BY <1>5 DEF Asking
  <2>2. \A k \in Jobs : k \in Asking /\ k # j => k \in Asking'
    BY <1>5 DEF Asking
  <2> QED
    BY <2>1, <2>2 DEF Asking
<1>7. Working' = Working \cup {j}
  <2>1. \A k \in Jobs : Sending(k)' <=> Sending(k) \/ k = j
    BY <1>5 DEF Sending
  <2>2. \A k \in Jobs : Held(k)' <=> Held(k) \/ k = j
    BY <1>2, <2>1 DEF Held, InChannel, InTask
  <2> QED
    BY <1>1, <2>2 DEF Working
<1>8. Board!Admit(j)
  BY <1>1, <1>2, <1>4, <1>6, <1>7, Mapped, SameStatuses DEF Board!Admit
<1> QED
  BY <1>1, <1>8 DEF BoardStep, Board!Next

LEMMA CallOnBoard ==
  ASSUME TypeInv, NEW c \in Calls, CallStep(c) \/ \E j \in Jobs : CheckFinished(c, j)
  PROVE  BoardStep
<1>1. ASSUME NEW j \in Jobs, CheckFinished(c, j) PROVE BoardStep
  <2>1. UNCHANGED <<queue_db, finished_db, disk, channel, tasks, main, resume>>
    BY <1>1 DEF CheckFinished, db, flow
  <2>2. CASE calls' = calls
    BY <2>1, <2>2, Mapped DEF BoardStep, Held, InChannel, InTask, Sending
  <2>3. CASE calls' # calls
    <3>1. PICK slot :
            /\ slot.job = j /\ slot.pc \in {"check_queue", "resubmit"}
            /\ calls' = [calls EXCEPT ![c] = slot]
      <4>1. CASE calls' = [calls EXCEPT ![c] =
                            [pc |-> "check_queue", job |-> j, status |-> Absent]]
        BY <4>1
      <4>2. CASE calls' = [calls EXCEPT ![c] =
                            [pc |-> "resubmit", job |-> j,
                             status |-> finished_db[j].retry]]
        BY <4>2
      <4> QED
        BY <1>1, <2>3, <4>1, <4>2 DEF CheckFinished
    <3>2. calls[c].pc = "idle" /\ calls[c].job = NoJob
      BY <1>1 DEF CheckFinished, TypeInv, Shapes, CallShape
    <3>3. \A d \in Calls : calls'[d] = IF d = c THEN slot ELSE calls[d]
      BY <3>1 DEF TypeInv, TypeOK
    <3>4. Working' = Working
      BY <2>1, <3>1, <3>2, <3>3, Mapped DEF Held, InChannel, InTask, Sending
    <3>5. Asking' = Asking \cup {j}
      BY <3>1, <3>2, <3>3, JobsAssumption DEF Asking
    <3>6. Up /\ finished_db[j] \notin Settling
      BY <1>1, <2>3, StatusFacts DEF CheckFinished, Up
    <3>7. Board!Ask(j)
      BY <2>1, <3>4, <3>5, <3>6, Mapped, SameStatuses DEF Board!Ask
    <3> QED
      BY <3>7 DEF BoardStep, Board!Next
  <2> QED
    BY <2>2, <2>3
<1>2. CASE CheckQueue(c)
  <2>1. /\ calls[c].pc = "check_queue"
        /\ UNCHANGED <<queue_db, finished_db, disk, channel, tasks, main, resume>>
    BY <1>2 DEF CheckQueue, db, flow
  <2>2. CASE calls' = [calls EXCEPT ![c] = IdleCall]
    BY <2>1, <2>2, CallEnds
  <2>3. CASE calls' = [calls EXCEPT ![c].pc = "insert"]
    <3>1. /\ \A d \in Calls : calls'[d].job = calls[d].job
          /\ \A d \in Calls : calls'[d].pc = "send" <=> calls[d].pc = "send"
      BY <2>1, <2>3 DEF TypeInv, TypeOK
    <3>2. Asking' = Asking
      BY <3>1 DEF Asking
    <3>3. Working' = Working
      BY <2>1, <3>1, Mapped DEF Held, InChannel, InTask, Sending
    <3> QED
      BY <2>1, <3>2, <3>3, Mapped DEF BoardStep
  <2> QED
    BY <1>2, <2>2, <2>3 DEF CheckQueue
<1>3. CASE InsertNew(c) \/ Resubmit(c)
  BY <1>3, CallAdmits
<1>4. CASE SendFromCall(c)
  <2>1. /\ calls[c].pc = "send" /\ calls[c].job \in Jobs
        /\ channel' = Append(channel, calls[c].job)
        /\ calls' = [calls EXCEPT ![c] = IdleCall]
        /\ UNCHANGED <<queue_db, finished_db, disk, tasks, main, resume>>
    BY <1>4 DEF SendFromCall, db, flow, TypeInv, TypeOK, Shapes, CallShape
  <2>2. \A d \in Calls : calls'[d] = IF d = c THEN IdleCall ELSE calls[d]
    BY <2>1 DEF TypeInv, TypeOK
  <2>3. \A j \in Jobs : In(channel', j) <=> In(channel, j) \/ j = calls[c].job
    BY <2>1, InAppend DEF TypeInv, TypeOK
  <2>4. \A j \in Jobs : Held(j)' <=> Held(j)
    BY <2>1, <2>2, <2>3 DEF Held, InChannel, In, InTask, Sending, IdleCall
  <2>5. Asking' = Asking
    BY <2>1, <2>2, JobsAssumption DEF Asking, IdleCall
  <2> QED
    BY <2>1, <2>4, <2>5, Mapped DEF BoardStep
<1>5. CASE CallFails(c)
  BY <1>5, CallEnds DEF CallFails, db, flow
<1> QED
  BY <1>1, <1>2, <1>3, <1>4, <1>5 DEF CallStep

-----------------------------------------------------------------------------
(***************************************************************************)
(* Tasks                                                                    *)
(***************************************************************************)

\* A task that goes on holds its job as before.
LEMMA TaskGoesOn ==
  ASSUME \A u \in Tasks : tasks'[u].job = tasks[u].job,
         UNCHANGED <<channel, calls, resume>>
  PROVE  Working' = Working
  BY Mapped DEF Held, InChannel, InTask, Sending

\* A task that ends may have been the last to work on its job.
LEMMA TaskEnds ==
  ASSUME TypeInv, NEW t \in Tasks, tasks[t].pc # "idle",
         tasks' = [tasks EXCEPT ![t] = IdleTask],
         UNCHANGED <<channel, calls, resume>>
  PROVE  Working' \in {Working, Working \ {tasks[t].job}}
<1> DEFINE j == tasks[t].job
<1>1. \A u \in Tasks : tasks'[u].job = IF u = t THEN NoJob ELSE tasks[u].job
  BY DEF TypeInv, TypeOK, IdleTask
<1>2. \A k \in Jobs : InTask(k)' => InTask(k)
  BY <1>1, JobsAssumption DEF InTask
<1>3. \A k \in Jobs : InTask(k) /\ k # j => InTask(k)'
  BY <1>1 DEF InTask
<1>4. \A k \in Jobs : Held(k)' => Held(k)
  BY <1>2 DEF Held, InChannel, Sending
<1>5. \A k \in Jobs : Held(k) /\ k # j => Held(k)'
  BY <1>3 DEF Held, InChannel, Sending
<1> QED
  BY <1>4, <1>5 DEF Working

\* The job of a task is worked on.
LEMMA TaskJob ==
  ASSUME TypeInv, NEW t \in Tasks, tasks[t].pc # "idle"
  PROVE  tasks[t].job \in Jobs /\ tasks[t].job \in Working
  BY DEF TypeInv, TypeOK, Shapes, TaskShape, Working, Held, InTask

\* A task that stores the next status advances its job.
LEMMA TaskAdvances ==
  ASSUME TypeInv, NEW t \in Tasks, FetchFromDa(t) \/ RecordRequest(t)
  PROVE  BoardStep
<1> DEFINE j == tasks[t].job
<1>1. j \in Jobs /\ j \in Working
  BY TaskJob DEF FetchFromDa, RecordRequest
<1>2. PICK s \in PendingStatus : StoreStatus(j, s)
  BY StatusFacts DEF FetchFromDa, RecordRequest, TypeInv, Shapes, TaskShape
<1>3. /\ \A u \in Tasks : tasks'[u].job = tasks[u].job
      /\ UNCHANGED <<disk, channel, calls, main, resume>>
  BY DEF FetchFromDa, RecordRequest, flow, TypeInv, TypeOK
<1>4. \A k \in Jobs : queue_db'[k] # Absent <=> k = j \/ queue_db[k] # Absent
  BY <1>2, StatusFacts DEF StoreStatus, TypeInv, TypeOK
<1>5. Open' = Open \cup {j}
  BY <1>1, <1>4 DEF Open
<1>6. Board!Advance(j)
  BY <1>1, <1>2, <1>3, <1>5, TaskGoesOn, Mapped, SameStatuses
  DEF Board!Advance, StoreStatus
<1> QED
  BY <1>1, <1>6 DEF BoardStep, Board!Next

\* A task that finalizes its job finishes it.
LEMMA TaskFinishes ==
  ASSUME TypeInv, NEW t \in Tasks,
         DaClientError(t) \/ ZkClientError(t) \/ ProofArrives(t)
  PROVE  BoardStep
<1> DEFINE j == tasks[t].job
<1>1. j \in Jobs /\ j \in Working
  BY TaskJob DEF DaClientError, ZkClientError, ProofArrives
<1>2. PICK s \in FinalStatus : FinalizeJob(j, s)
  <2>1. CASE DaClientError(t) \/ ZkClientError(t)
    BY <2>1, StatusFacts DEF DaClientError, ZkClientError
  <2>2. CASE ProofArrives(t)
    BY <2>2, StatusFacts DEF ProofArrives, TypeInv, Shapes, TaskShape
  <2> QED
    BY <2>1, <2>2
<1>3. /\ tasks' = [tasks EXCEPT ![t] = IdleTask] /\ tasks[t].pc # "idle"
      /\ UNCHANGED <<disk, channel, calls, main, resume>>
  BY DEF DaClientError, ZkClientError, ProofArrives, flow
<1>4. \A k \in Jobs : queue_db'[k] # Absent <=> k # j /\ queue_db[k] # Absent
  BY <1>2 DEF FinalizeJob, TypeInv, TypeOK
<1>5. Open' = Open \ {j}
  BY <1>1, <1>4 DEF Open
<1>6. Board!Finish(j)
  BY <1>1, <1>2, <1>3, <1>5, TaskEnds, Mapped, SameStatuses
  DEF Board!Finish, FinalizeJob
<1> QED
  BY <1>1, <1>6 DEF BoardStep, Board!Next

\* A task that ends without a result: its job is closed, or was given up.
LEMMA TaskReleases ==
  ASSUME TypeInv, NEW t \in Tasks, ReadStatus(t) \/ GiveUp(t),
         tasks' = [tasks EXCEPT ![t] = IdleTask],
         queue_db[tasks[t].job] = Absent \/ "unhandled" \in Faults
  PROVE  BoardStep
<1> DEFINE j == tasks[t].job
<1>1. j \in Jobs /\ j \in Working /\ tasks[t].pc # "idle"
  BY TaskJob DEF ReadStatus, GiveUp
<1>2. UNCHANGED <<queue_db, finished_db, disk, channel, calls, main, resume>>
  BY DEF ReadStatus, GiveUp, db, flow
<1>3. j \notin Open \/ Faults \cap {"unhandled", "db"} # {}
  BY DEF Open
<1>4. CASE Working' = Working
  BY <1>2, <1>4, Mapped DEF BoardStep
<1>5. CASE Working' = Working \ {j}
  <2>1. Board!Release(j)
    BY <1>1, <1>2, <1>3, <1>5, Mapped DEF Board!Release
  <2> QED
    BY <1>1, <2>1 DEF BoardStep, Board!Next
<1> QED
  BY <1>1, <1>2, <1>4, <1>5, TaskEnds

LEMMA TaskOnBoard ==
  ASSUME TypeInv, NEW t \in Tasks, TaskStep(t)
  PROVE  BoardStep
<1>1. CASE ReadStatus(t)
  <2>1. /\ tasks[t].job \in Jobs
        /\ UNCHANGED <<queue_db, finished_db, disk, channel, calls, main, resume>>
    BY <1>1, TaskJob DEF ReadStatus, db, flow
  <2>2. CASE queue_db[tasks[t].job] \in PendingStatus
    <3>1. \A u \in Tasks : tasks'[u].job = tasks[u].job
      BY <1>1, <2>2 DEF ReadStatus, TypeInv, TypeOK
    <3> QED
      BY <2>1, <3>1, TaskGoesOn, Mapped DEF BoardStep
  <2>3. CASE queue_db[tasks[t].job] \notin PendingStatus
    <3>1. queue_db[tasks[t].job] = Absent
      BY <2>1, <2>3 DEF TypeInv, TypeOK
    <3>2. tasks' = [tasks EXCEPT ![t] = IdleTask]
      BY <1>1, <2>3 DEF ReadStatus
    <3> QED
      BY <1>1, <3>1, <3>2, TaskReleases
  <2> QED
    BY <2>2, <2>3
<1>2. CASE ConnectInTask(t) \/ RequestZkProof(t)
  <2>1. /\ \A u \in Tasks : tasks'[u].job = tasks[u].job
        /\ UNCHANGED <<queue_db, finished_db, disk, channel, calls, main, resume>>
    BY <1>2 DEF ConnectInTask, RequestZkProof, db, flow, TypeInv, TypeOK
  <2> QED
    BY <2>1, TaskGoesOn, Mapped DEF BoardStep
<1>3. CASE FetchFromDa(t) \/ RecordRequest(t)
  BY <1>3, TaskAdvances
<1>4. CASE DaClientError(t) \/ ZkClientError(t) \/ ProofArrives(t)
  BY <1>4, TaskFinishes
<1>5. CASE GiveUp(t)
  BY <1>5, TaskReleases DEF GiveUp
<1>6. CASE SendFromTask(t)
  <2>1. /\ tasks[t].job \in Jobs
        /\ channel' = Append(channel, tasks[t].job)
        /\ tasks' = [tasks EXCEPT ![t] = IdleTask]
        /\ UNCHANGED <<queue_db, finished_db, disk, calls, main, resume>>
    BY <1>6, TaskJob DEF SendFromTask, db, flow
  <2>2. \A u \in Tasks : tasks'[u].job = IF u = t THEN NoJob ELSE tasks[u].job
    BY <2>1 DEF TypeInv, TypeOK, IdleTask
  <2>3. \A j \in Jobs : In(channel', j) <=> In(channel, j) \/ j = tasks[t].job
    BY <2>1, InAppend DEF TypeInv, TypeOK
  <2>4. \A j \in Jobs : Held(j)' <=> Held(j)
    BY <2>1, <2>2, <2>3, JobsAssumption DEF Held, InChannel, In, InTask, Sending
  <2> QED
    BY <2>1, <2>4, Mapped DEF BoardStep
<1> QED
  BY <1>1, <1>2, <1>3, <1>4, <1>5, <1>6 DEF TaskStep

-----------------------------------------------------------------------------
(***************************************************************************)
(* The worker, the main task and the database's flusher                     *)
(***************************************************************************)

\* Steps that pass a job on, or only move the control around.
LEMMA HandOver ==
  ASSUME TypeInv,
         \/ \E t \in Tasks : Dispatch(t)
         \/ \E j \in Jobs : ResumeNext(j)
         \/ ReceiveStop \/ Signal \/ Serve \/ StartupConnect \/ UNCHANGED vars
  PROVE  BoardStep
<1>1. /\ UNCHANGED <<queue_db, finished_db, disk, calls>>
      /\ channel \in Seq(Jobs \cup {Shutdown})
      /\ \A j \in Jobs : j # Shutdown
  BY JobsAssumption
  DEF Dispatch, ResumeNext, ReceiveStop, Signal, Serve, StartupConnect, vars, db,
      flow, TypeInv, TypeOK
<1>2. Up' = Up
  BY DEF Dispatch, ResumeNext, ReceiveStop, Signal, Serve, StartupConnect, vars,
     flow, Up
<1>3. \A j \in Jobs : Held(j)' <=> Held(j)
  <2>1. CASE \E t \in Tasks : Dispatch(t)
    <3>1. PICK t \in Tasks : Dispatch(t)
      BY <2>1
    <3>2. /\ channel # <<>> /\ Head(channel) \in Jobs /\ channel' = Tail(channel)
          /\ tasks[t].job = NoJob /\ resume' = resume
          /\ \A u \in Tasks : tasks'[u].job =
                                IF u = t THEN Head(channel) ELSE tasks[u].job
      BY <3>1 DEF Dispatch, flow, TypeInv, TypeOK, Shapes, TaskShape
    <3>3. \A j \in Jobs : InTask(j)' <=> InTask(j) \/ j = Head(channel)
      BY <3>2, JobsAssumption DEF InTask
    <3>4. \A j \in Jobs : In(channel, j) <=> In(channel', j) \/ j = Head(channel)
      BY ONLY <1>1, <3>2, InTail
    <3> QED
      BY <1>1, <3>2, <3>3, <3>4 DEF Held, InChannel, In, Sending
  <2>2. CASE \E k \in Jobs : ResumeNext(k)
    <3>1. PICK k \in Jobs : /\ k \in resume /\ resume' = resume \ {k}
                            /\ channel' = Append(channel, k)
                            /\ tasks' = tasks
      BY <2>2 DEF ResumeNext
    <3>2. \A j \in Jobs : In(channel', j) <=> In(channel, j) \/ j = k
      BY ONLY <1>1, <3>1, InAppend
    <3> QED
      BY <1>1, <3>1, <3>2 DEF Held, InChannel, In, InTask, Sending
  <2>3. CASE ReceiveStop
    <3>1. /\ channel # <<>> /\ Head(channel) = Shutdown /\ channel' = Tail(channel)
          /\ UNCHANGED <<tasks, resume>>
      BY <2>3 DEF ReceiveStop
    <3>2. \A j \in Jobs : In(channel, j) <=> In(channel', j)
      BY ONLY <1>1, <3>1, InTail
    <3> QED
      BY <1>1, <3>1, <3>2 DEF Held, InChannel, In, InTask, Sending
  <2>4. CASE Signal
    <3>1. channel' = Append(channel, Shutdown) /\ UNCHANGED <<tasks, resume>>
      BY <2>4 DEF Signal
    <3>2. \A j \in Jobs : In(channel, j) <=> In(channel', j)
      BY ONLY <1>1, <3>1, InAppend
    <3> QED
      BY <1>1, <3>1, <3>2 DEF Held, InChannel, In, InTask, Sending
  <2>5. CASE Serve \/ StartupConnect \/ UNCHANGED vars
    BY <2>5 DEF Serve, StartupConnect, vars, Held, InChannel, InTask, Sending
  <2> QED
    BY <2>1, <2>2, <2>3, <2>4, <2>5
<1> QED
  BY <1>1, <1>2, <1>3, Mapped DEF BoardStep

\* A queue entry the resume loop cannot read is given up.
LEMMA SkipOnBoard ==
  ASSUME TypeInv, NEW j \in Jobs, ResumeSkip(j)
  PROVE  BoardStep
<1>1. /\ j \in Working /\ Faults \cap {"unhandled", "db"} # {}
      /\ resume' = resume \ {j}
      /\ UNCHANGED <<queue_db, finished_db, disk, channel, tasks, calls, main>>
  BY DEF ResumeSkip, db, Working, Held
<1>2. \A k \in Jobs : /\ Held(k)' => Held(k)
                      /\ Held(k) /\ k # j => Held(k)'
  BY <1>1 DEF Held, InChannel, InTask, Sending
<1>3. CASE Working' = Working
  BY <1>1, <1>3, Mapped DEF BoardStep
<1>4. CASE Working' = Working \ {j}
  <2>1. Board!Release(j)
    BY <1>1, <1>4, Mapped DEF Board!Release
  <2> QED
    BY <2>1 DEF BoardStep, Board!Next
<1>5. Working' \in {Working, Working \ {j}}
  BY <1>2 DEF Working
<1> QED
  BY <1>3, <1>4, <1>5

\* A flush by the worker or by sled itself saves both trees, or does nothing.
LEMMA FlushOnBoard ==
  ASSUME BoardInv, FlushTree \/ BackgroundFlush
  PROVE  BoardStep
<1>1. /\ main # "down"
      /\ disk' \in {disk, Image}
      /\ UNCHANGED <<queue_db, finished_db, channel, tasks, calls, main, resume>>
  BY DEF FlushTree, Flush, BackgroundFlush, db, flow, BoardInv, UpTogether
<1>2. Working' = Working
  BY <1>1, Mapped DEF Held, InChannel, InTask, Sending
<1>3. CASE disk' = disk
  BY <1>1, <1>2, <1>3, Mapped DEF BoardStep
<1>4. CASE disk' = Image
  <2>1. Saved' = [open |-> Open, result |-> finished_db]
    BY <1>4 DEF Saved, Open, Image
  <2>2. Board!Save
    BY <1>1, <1>2, <2>1, Mapped DEF Board!Save, Up
  <2> QED
    BY <2>2 DEF BoardStep, Board!Next
<1> QED
  BY <1>1, <1>3, <1>4

\* The process ends, in whatever way.
LEMMA HaltOnBoard ==
  ASSUME main # "down", Halt
  PROVE  BoardStep
<1>1. /\ Open' = Saved.open /\ finished_db' = Saved.result
      /\ Saved' = Saved /\ Up' = FALSE
  BY DEF Halt, Open, Saved, Up
<1>2. Asking' = {}
  BY JobsAssumption DEF Halt, Asking, IdleCall
<1>3. Working' = {}
  BY JobsAssumption
  DEF Halt, Working, Held, InChannel, InTask, Sending, IdleCall, IdleTask
<1>4. Board!Stop
  BY <1>1, <1>2, <1>3 DEF Board!Stop, Up
<1> QED
  BY <1>4 DEF BoardStep, Board!Next

\* A restart resumes exactly the open jobs.
LEMMA BootOnBoard ==
  ASSUME BoardInv, Boot
  PROVE  BoardStep
<1>1. /\ main = "down" /\ main' = "resuming"
      /\ resume' = Open
      /\ UNCHANGED <<queue_db, finished_db, disk, channel, tasks, calls>>
  BY DEF Boot, Open, db
<1>2. /\ channel = <<>>
      /\ \A t \in Tasks : tasks[t].job = NoJob
      /\ \A c \in Calls : calls[c].pc = "idle"
  BY <1>1 DEF BoardInv, DownIsEmpty, TypeInv, Shapes, TaskShape
<1>3. \A j \in Jobs : Held(j)' <=> j \in Open
  BY <1>1, <1>2, JobsAssumption DEF Held, InChannel, InTask, Sending
<1>4. Working' = Open
  BY <1>3 DEF Working, Open
<1>5. Board!Start
  BY <1>1, <1>4, Mapped DEF Board!Start, Up
<1> QED
  BY <1>5 DEF BoardStep, Board!Next

-----------------------------------------------------------------------------
(***************************************************************************)
(* The refinement                                                           *)
(***************************************************************************)

LEMMA BoardInit == Init => Board!Init
<1> SUFFICES ASSUME Init PROVE Board!Init
  OBVIOUS
<1>1. Open = {} /\ ~Up /\ Saved = [open |-> Open, result |-> finished_db]
  BY DEF Init, Open, Up, Saved, Image
<1>2. Asking = {} /\ Working = {}
  BY EmptySeq, JobsAssumption
  DEF Init, Asking, Working, Held, InChannel, InTask, Sending, IdleCall, IdleTask
<1>3. finished_db = [j \in Jobs |-> Board!Absent]
  BY SameStatuses DEF Init
<1> QED
  BY <1>1, <1>2, <1>3 DEF Board!Init

LEMMA EveryStepOnBoard == BoardInv /\ [Next]_vars => BoardStep
<1> SUFFICES ASSUME BoardInv, [Next]_vars PROVE BoardStep
  OBVIOUS
<1> USE DEF BoardInv
<1>1. ASSUME NEW c \in Calls, CallStep(c) \/ \E j \in Jobs : CheckFinished(c, j)
      PROVE  BoardStep
  BY <1>1, CallOnBoard
<1>2. ASSUME NEW t \in Tasks, TaskStep(t) PROVE BoardStep
  BY <1>2, TaskOnBoard
<1>3. CASE WorkerStep
  <2>1. CASE Exit
    BY <2>1, HaltOnBoard DEF Exit, UpTogether
  <2> QED
    BY <1>3, <2>1, HandOver, FlushOnBoard DEF WorkerStep
<1>4. CASE Boot
  BY <1>4, BootOnBoard
<1>5. CASE MainStep
  BY <1>5, HandOver, SkipOnBoard DEF MainStep
<1>6. CASE StartupConnectFails \/ Crash
  BY <1>6, HaltOnBoard DEF StartupConnectFails, Crash
<1>7. CASE StartupConnect \/ Signal \/ UNCHANGED vars
  BY <1>7, HandOver
<1>8. CASE BackgroundFlush
  BY <1>8, FlushOnBoard
<1> QED
  BY <1>1, <1>2, <1>3, <1>4, <1>5, <1>6, <1>7, <1>8 DEF Next

\* The detailed service implements the board: whatever calls, tasks, faults,
\* shutdowns and crashes do, an outsider sees admissions that a lookup allowed,
\* results that close their job in the same step, work that ends only with a
\* closed or a given-up job, and restarts that resume what the disk kept.
THEOREM ServiceImplementsBoard == Spec => ImplementsBoard
<1>1. Init => BoardInv
  BY TypeInit DEF BoardInv, DownIsEmpty, UpTogether, Init, IdleTask, IdleCall
<1>2. BoardInv /\ [Next]_vars => BoardInv'
  BY TypeStep, DownStep, UpTogetherStep DEF BoardInv
<1>3. BoardInv /\ [Next]_vars => [Board!Next]_(Board!board)
  BY EveryStepOnBoard DEF BoardStep, Board!board
<1> QED
  BY <1>1, <1>2, <1>3, BoardInit, PTL DEF Spec, ImplementsBoard, Board!Spec
=============================================================================
