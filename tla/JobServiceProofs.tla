-------------------------- MODULE JobServiceProofs ---------------------------
(***************************************************************************)
(* Theorems about JobService, for every set of jobs, calls, tasks and       *)
(* request ids, every bound on the backlog and every set of faults.         *)
(***************************************************************************)
EXTENDS JobProperties, SequenceTheorems, TLAPS

-----------------------------------------------------------------------------
(***************************************************************************)
(* Statuses                                                                 *)
(***************************************************************************)

\* The statuses the trees hold are told apart by their variant, and the only
\* failure that is not settling carries the retry "start over".
LEMMA StatusFacts ==
  /\ Absent \notin PendingStatus
  /\ Absent \notin FinalStatus
  /\ Settling \subseteq FinalStatus
  /\ DataAvailabilityPending \in PendingStatus
  /\ DataAvailable \in PendingStatus
  /\ \A r \in Requests : /\ ZkProofPending(r) \in PendingStatus
                         /\ ZkProofPending(r).request = r
                         /\ ZkProofFinished(r) \in FinalStatus
  /\ \A retry \in Retries : Failed(retry) \in FinalStatus
  /\ \A s \in FinalStatus \ Settling : s.retry = DataAvailabilityPending
  /\ \A s \in PendingStatus : \/ s = DataAvailabilityPending
                              \/ s = DataAvailable
                              \/ \E r \in Requests : s = ZkProofPending(r)
<1> USE DEF Absent, DataAvailabilityPending, DataAvailable, ZkProofPending,
           ZkProofFinished, Failed
<1>1. /\ Absent.status = "Absent"
      /\ DataAvailabilityPending.status = "DataAvailabilityPending"
      /\ DataAvailable.status = "DataAvailable"
      /\ \A r : ZkProofPending(r).status = "ZkProofPending"
      /\ \A r : ZkProofFinished(r).status = "ZkProofFinished"
      /\ \A s : Failed(s).status = "Failed"
  OBVIOUS
<1>2. /\ \A r : ZkProofPending(r).request = r
      /\ \A s : Failed(s).retry = s
  OBVIOUS
<1> USE ONLY <1>1, <1>2
<1>3. Absent \notin PendingStatus
  BY DEF PendingStatus
<1>4. Absent \notin FinalStatus
  BY DEF FinalStatus
<1>5. Settling \subseteq FinalStatus
  BY DEF Settling, FinalStatus, Retries
<1>6. \A s \in FinalStatus \ Settling : s.retry = DataAvailabilityPending
  BY DEF Settling, FinalStatus, Retries
<1> QED
  BY <1>3, <1>4, <1>5, <1>6 DEF PendingStatus, FinalStatus

\* The stage a pending status calls for.
LEMMA StageFacts ==
  ASSUME NEW s \in PendingStatus
  PROVE  /\ StageOf(s) \in {"fetch", "prove", "wait"}
         /\ StageOf(s) = "fetch" => s = DataAvailabilityPending
         /\ StageOf(s) = "prove" => s = DataAvailable
         /\ StageOf(s) = "wait" => \E r \in Requests : s = ZkProofPending(r)
  BY StatusFacts DEF StageOf

-----------------------------------------------------------------------------
(***************************************************************************)
(* Type correctness                                                         *)
(***************************************************************************)

\* What a slot's stage says about the rest of the slot.
TaskShape(t) ==
  /\ tasks[t].pc = "idle" <=> tasks[t].job = NoJob
  /\ tasks[t].pc = "fetch" => tasks[t].status = DataAvailabilityPending
  /\ tasks[t].pc = "prove" => tasks[t].status = DataAvailable
  /\ tasks[t].pc \in {"record", "wait"} =>
       \E r \in Requests : tasks[t].status = ZkProofPending(r)
  /\ tasks[t].pc = "send" => tasks[t].status \in PendingStatus

CallShape(c) ==
  /\ calls[c].pc = "idle" <=> calls[c].job = NoJob
  /\ calls[c].pc = "resubmit" => calls[c].status = DataAvailabilityPending

Shapes == (\A t \in Tasks : TaskShape(t)) /\ (\A c \in Calls : CallShape(c))

\* TypeOK alone is not inductive: that a stored status has the right variant
\* depends on what a slot remembers at each stage.
TypeInv == TypeOK /\ Shapes

LEMMA TypeInit == Init => TypeInv
<1> SUFFICES ASSUME Init PROVE TypeInv
  OBVIOUS
<1>1. TypeOK
  BY EmptySeq
  DEF Init, TypeOK, IdleTask, IdleCall, TaskPcs, CallPcs, WorkerPcs, Trees, Image
<1>2. Shapes
  BY DEF Init, Shapes, TaskShape, CallShape, IdleTask, IdleCall
<1> QED
  BY <1>1, <1>2 DEF TypeInv

\* A process that ends leaves idle slots and what the disk held.
LEMMA TypeHalt == TypeInv /\ Halt => TypeInv'
<1> SUFFICES ASSUME TypeInv, Halt PROVE TypeInv'
  OBVIOUS
<1>1. TypeOK'
  BY EmptySeq
  DEF Halt, TypeInv, TypeOK, IdleTask, IdleCall, TaskPcs, CallPcs, WorkerPcs, Trees
<1>2. Shapes'
  BY DEF Halt, Shapes, TaskShape, CallShape, IdleTask, IdleCall
<1> QED
  BY <1>1, <1>2 DEF TypeInv

\* What one call's step does to its slot is all a call changes of the slots.
LEMMA TypeCalls ==
  ASSUME TypeInv, NEW c \in Calls, CallStep(c) \/ \E j \in Jobs : CheckFinished(c, j)
  PROVE  TypeInv'
<1> USE JobsAssumption, StatusFacts
    DEF TypeInv, TypeOK, Shapes, TaskShape, CallShape, IdleCall, CallPcs, db, flow,
        ghost
<1>1. CASE \E j \in Jobs : CheckFinished(c, j)
  <2> PICK j \in Jobs : CheckFinished(c, j)
    BY <1>1
  <2>1. finished_db[j] \in FinalStatus \ Settling =>
          finished_db[j].retry = DataAvailabilityPending
    OBVIOUS
  <2>2. CASE calls' = calls
    BY <2>2 DEF CheckFinished
  <2>3. CASE calls' = [calls EXCEPT ![c] =
                        [pc |-> "check_queue", job |-> j, status |-> Absent]]
    BY <2>3 DEF CheckFinished
  <2>4. CASE calls' = [calls EXCEPT ![c] =
                        [pc |-> "resubmit", job |-> j,
                         status |-> DataAvailabilityPending]]
    BY <2>4 DEF CheckFinished
  <2> QED
    BY <2>1, <2>2, <2>3, <2>4 DEF CheckFinished
<1>2. CASE CheckQueue(c)
  <2>1. CASE calls' = [calls EXCEPT ![c].pc = "insert"]
    <3>1. TypeOK'
      <4>1. calls' \in [Calls -> [pc : CallPcs, job : Jobs \cup {NoJob},
                                  status : PendingStatus \cup {Absent}]]
        <5>1. TypeOK /\ "insert" \in CallPcs
          OBVIOUS
        <5> QED
          BY ONLY <5>1, <2>1, c \in Calls DEF TypeOK
      <4>2. UNCHANGED <<queue_db, finished_db, disk, channel, tasks, main, worker,
                        resume, da_client, stopping, requests, abandoned, raced>>
        BY <1>2 DEF CheckQueue
      <4> QED
        BY ONLY TypeInv, <4>1, <4>2 DEF TypeInv, TypeOK
    <3>2. Shapes'
      BY <1>2, <2>1 DEF CheckQueue
    <3> QED
      BY <3>1, <3>2
  <2>2. CASE calls' = [calls EXCEPT ![c] = IdleCall]
    BY <1>2, <2>2 DEF CheckQueue
  <2> QED
    BY <1>2, <2>1, <2>2 DEF CheckQueue
<1>3. CASE InsertNew(c)
  <2>1. TypeOK'
    <3>1. queue_db' \in [Jobs -> PendingStatus \cup {Absent}]
      BY <1>3 DEF InsertNew
    <3>2. calls' \in [Calls -> [pc : CallPcs, job : Jobs \cup {NoJob},
                                status : PendingStatus \cup {Absent}]]
      <4>1. TypeOK /\ "send" \in CallPcs /\ calls' = [calls EXCEPT ![c].pc = "send"]
        BY <1>3 DEF InsertNew
      <4> QED
        BY ONLY <4>1, c \in Calls DEF TypeOK
    <3>3. abandoned' \in SUBSET Jobs /\ raced' \in SUBSET Jobs
      BY <1>3 DEF InsertNew
    <3>4. UNCHANGED <<finished_db, disk, channel, tasks, main, worker, resume,
                      da_client, stopping, requests>>
      BY <1>3 DEF InsertNew
    <3> QED
      BY ONLY TypeInv, <3>1, <3>2, <3>3, <3>4 DEF TypeInv, TypeOK
  <2>2. Shapes'
    BY <1>3 DEF InsertNew
  <2> QED
    BY <2>1, <2>2
<1>4. CASE Resubmit(c)
  BY <1>4 DEF Resubmit, StoreStatus
<1>5. CASE SendFromCall(c)
  BY <1>5 DEF SendFromCall
<1>6. CASE CallFails(c)
  BY <1>6 DEF CallFails
<1> QED
  BY <1>1, <1>2, <1>3, <1>4, <1>5, <1>6 DEF CallStep

LEMMA TypeTasks ==
  ASSUME TypeInv, NEW t \in Tasks, TaskStep(t)
  PROVE  TypeInv'
<1> USE JobsAssumption, StatusFacts
    DEF TypeInv, TypeOK, Shapes, TaskShape, CallShape, IdleTask, TaskPcs, db, flow,
        ghost
<1>1. CASE ReadStatus(t)
  BY <1>1, StageFacts DEF ReadStatus
<1>2. CASE ConnectInTask(t)
  BY <1>2 DEF ConnectInTask
<1>3. CASE FetchFromDa(t)
  BY <1>3 DEF FetchFromDa, StoreStatus
<1>4. CASE DaClientError(t)
  BY <1>4 DEF DaClientError, FinalizeJob
<1>5. CASE RequestZkProof(t)
  BY <1>5 DEF RequestZkProof
<1>6. CASE RecordRequest(t)
  BY <1>6 DEF RecordRequest, StoreStatus
<1>7. CASE ProofArrives(t)
  BY <1>7 DEF ProofArrives, FinalizeJob
<1>8. CASE ZkClientError(t)
  BY <1>8 DEF ZkClientError, FinalizeJob
<1>9. CASE GiveUp(t)
  BY <1>9 DEF GiveUp
<1>10. CASE SendFromTask(t)
  BY <1>10 DEF SendFromTask
<1> QED
  BY <1>1, <1>2, <1>3, <1>4, <1>5, <1>6, <1>7, <1>8, <1>9, <1>10 DEF TaskStep

LEMMA TypeWorker ==
  ASSUME TypeInv, WorkerStep
  PROVE  TypeInv'
<1> USE JobsAssumption, StatusFacts
    DEF TypeInv, TypeOK, Shapes, TaskShape, CallShape, TaskPcs, WorkerPcs, Trees,
        db, flow, ghost
<1>1. ASSUME NEW t \in Tasks, Dispatch(t) PROVE TypeInv'
  BY <1>1, HeadTailProperties DEF Dispatch
<1>2. CASE ReceiveStop
  BY <1>2, HeadTailProperties DEF ReceiveStop
<1>3. CASE FlushTree
  BY <1>3 DEF FlushTree, Flush, Image
<1>4. CASE Exit
  BY <1>4, TypeHalt DEF Exit
<1> QED
  BY <1>1, <1>2, <1>3, <1>4 DEF WorkerStep

LEMMA TypeMain ==
  ASSUME TypeInv,
         \/ Boot \/ MainStep \/ StartupConnect \/ StartupConnectFails \/ Signal
         \/ BackgroundFlush \/ Crash \/ UNCHANGED vars
  PROVE  TypeInv'
<1> USE DEF TypeInv, TypeOK, Shapes, TaskShape, CallShape, WorkerPcs, Trees, db,
        flow, ghost
<1>1. CASE Boot
  BY <1>1 DEF Boot
<1>2. CASE MainStep
  BY <1>2 DEF MainStep, ResumeNext, ResumeSkip, Serve
<1>3. CASE StartupConnect
  BY <1>3 DEF StartupConnect
<1>4. CASE StartupConnectFails \/ Crash
  BY <1>4, TypeHalt DEF StartupConnectFails, Crash
<1>5. CASE Signal
  BY <1>5 DEF Signal
<1>6. CASE BackgroundFlush
  BY <1>6 DEF BackgroundFlush, Image
<1>7. CASE UNCHANGED vars
  BY <1>7 DEF vars
<1> QED
  BY <1>1, <1>2, <1>3, <1>4, <1>5, <1>6, <1>7

LEMMA TypeStep == TypeInv /\ [Next]_vars => TypeInv'
  BY TypeCalls, TypeTasks, TypeWorker, TypeMain DEF Next

\* Every variable always has its type and every slot the shape of its stage:
\* the queue tree only ever holds pending statuses and the finished tree only
\* final ones, the invariant whose violation the code can only log.
THEOREM TypeCorrect == Spec => [](TypeOK /\ Shapes)
  BY TypeInit, TypeStep, PTL DEF Spec, TypeInv

-----------------------------------------------------------------------------
(***************************************************************************)
(* What a step does to the trees and the disk                               *)
(***************************************************************************)

StoresPending(j) ==
  /\ \E s \in PendingStatus : queue_db' = [queue_db EXCEPT ![j] = s]
  /\ finished_db' \in {finished_db, [finished_db EXCEPT ![j] = Absent]}
  /\ disk' = disk

StoresFinal(j) ==
  /\ queue_db' = [queue_db EXCEPT ![j] = Absent]
  /\ \E s \in FinalStatus : finished_db' = [finished_db EXCEPT ![j] = s]
  /\ disk' = disk

\* The whole service changes the trees in two ways, and the disk in one.
TreeStep ==
  \/ UNCHANGED <<queue_db, finished_db, disk>>
  \/ UNCHANGED <<queue_db, finished_db>> /\ disk' = Image
  \/ Halt
  \/ \E j \in Jobs : StoresPending(j) \/ StoresFinal(j)

LEMMA CallTreeStep ==
  ASSUME TypeInv, NEW c \in Calls, CallStep(c) \/ \E j \in Jobs : CheckFinished(c, j)
  PROVE  TreeStep
<1> DEFINE j == calls[c].job
<1>1. CASE InsertNew(c)
  <2>1. j \in Jobs
    BY <1>1 DEF InsertNew, TypeInv, TypeOK, Shapes, CallShape
  <2>2. StoresPending(j)
    BY <1>1, StatusFacts DEF InsertNew, StoresPending
  <2> QED
    BY <2>1, <2>2 DEF TreeStep
<1>2. CASE Resubmit(c)
  <2>1. j \in Jobs /\ calls[c].status \in PendingStatus
    BY <1>2, StatusFacts DEF Resubmit, TypeInv, TypeOK, Shapes, CallShape
  <2>2. StoresPending(j)
    BY <1>2, <2>1 DEF Resubmit, StoreStatus, StoresPending
  <2> QED
    BY <2>1, <2>2 DEF TreeStep
<1>3. CASE \/ \E k \in Jobs : CheckFinished(c, k)
           \/ CheckQueue(c) \/ SendFromCall(c) \/ CallFails(c)
  BY <1>3 DEF CheckFinished, CheckQueue, SendFromCall, CallFails, TreeStep, db
<1> QED
  BY <1>1, <1>2, <1>3 DEF CallStep

LEMMA TaskTreeStep ==
  ASSUME TypeInv, NEW t \in Tasks, TaskStep(t)
  PROVE  TreeStep
<1> DEFINE j == tasks[t].job
<1>1. tasks[t].pc # "idle" => j \in Jobs
  BY DEF TypeInv, TypeOK, Shapes, TaskShape
<1>2. CASE FetchFromDa(t)
  <2>1. StoresPending(j)
    BY <1>2, StatusFacts DEF FetchFromDa, StoreStatus, StoresPending
  <2> QED
    BY <1>1, <1>2, <2>1 DEF TreeStep, FetchFromDa
<1>3. CASE RecordRequest(t)
  <2>1. tasks[t].status \in PendingStatus
    BY <1>3, StatusFacts DEF RecordRequest, TypeInv, Shapes, TaskShape
  <2>2. StoresPending(j)
    BY <1>3, <2>1 DEF RecordRequest, StoreStatus, StoresPending
  <2> QED
    BY <1>1, <1>3, <2>2 DEF TreeStep, RecordRequest
<1>4. CASE DaClientError(t) \/ ZkClientError(t)
  <2>1. PICK retry \in Retries : FinalizeJob(j, Failed(retry)) /\ disk' = disk
    BY <1>4 DEF DaClientError, ZkClientError
  <2>2. StoresFinal(j)
    BY <2>1, StatusFacts DEF FinalizeJob, StoresFinal
  <2> QED
    BY <1>1, <1>4, <2>2 DEF TreeStep, DaClientError, ZkClientError
<1>5. CASE ProofArrives(t)
  <2>1. ZkProofFinished(tasks[t].status.request) \in FinalStatus
    BY <1>5, StatusFacts DEF ProofArrives, TypeInv, Shapes, TaskShape
  <2>2. StoresFinal(j)
    BY <1>5, <2>1 DEF ProofArrives, FinalizeJob, StoresFinal
  <2> QED
    BY <1>1, <1>5, <2>2 DEF TreeStep, ProofArrives
<1>6. CASE \/ ReadStatus(t) \/ ConnectInTask(t) \/ RequestZkProof(t) \/ GiveUp(t)
           \/ SendFromTask(t)
  BY <1>6 DEF ReadStatus, ConnectInTask, RequestZkProof, GiveUp, SendFromTask,
              TreeStep, db
<1> QED
  BY <1>2, <1>3, <1>4, <1>5, <1>6 DEF TaskStep

LEMMA EveryTreeStep == TypeInv /\ [Next]_vars => TreeStep
<1> SUFFICES ASSUME TypeInv, [Next]_vars PROVE TreeStep
  OBVIOUS
<1>1. CASE WorkerStep
  BY <1>1 DEF WorkerStep, Dispatch, ReceiveStop, FlushTree, Flush, Exit, TreeStep, db
<1>2. CASE \/ Boot \/ MainStep \/ StartupConnect \/ StartupConnectFails \/ Signal
           \/ BackgroundFlush \/ Crash \/ UNCHANGED vars
  BY <1>2 DEF Boot, MainStep, ResumeNext, ResumeSkip, Serve, StartupConnect,
              StartupConnectFails, Signal, BackgroundFlush, Crash, TreeStep, db, vars
<1> QED
  BY <1>1, <1>2, CallTreeStep, TaskTreeStep DEF Next

-----------------------------------------------------------------------------
(***************************************************************************)
(* Durability                                                               *)
(***************************************************************************)

\* What the disk knows, the running process knows.
DurableInv == TypeInv /\ \A j \in Jobs : DiskKnown(j) => Known(j)

LEMMA DurableInit == Init => DurableInv
  BY TypeInit DEF Init, DurableInv, DiskKnown, Known, Image

LEMMA DurableStep ==
  DurableInv /\ [Next]_vars =>
    DurableInv' /\ \A j \in Jobs : DiskKnown(j) => DiskKnown(j)' /\ Known(j)'
<1> SUFFICES ASSUME DurableInv, [Next]_vars
             PROVE  /\ TypeInv'
                    /\ \A j \in Jobs : DiskKnown(j)' => Known(j)'
                    /\ \A j \in Jobs : DiskKnown(j) => DiskKnown(j)'
  BY DEF DurableInv
<1>1. TypeInv'
  BY TypeStep DEF DurableInv
<1>2. TreeStep
  BY EveryTreeStep DEF DurableInv
<1>3. CASE UNCHANGED <<queue_db, finished_db>> /\ disk' \in {disk, Image}
  BY <1>1, <1>3 DEF DurableInv, DiskKnown, Known, Image
<1>4. CASE Halt
  BY <1>1, <1>4 DEF DurableInv, DiskKnown, Known, Halt
<1>5. ASSUME NEW k \in Jobs, StoresPending(k) \/ StoresFinal(k)
      PROVE  \A j \in Jobs : Known(j) => Known(j)'
  BY <1>5, StatusFacts
  DEF DurableInv, TypeInv, TypeOK, Known, StoresPending, StoresFinal
<1>6. ASSUME NEW k \in Jobs, StoresPending(k) \/ StoresFinal(k)
      PROVE  disk' = disk
  BY <1>6 DEF StoresPending, StoresFinal
<1> QED
  BY <1>1, <1>2, <1>3, <1>4, <1>5, <1>6 DEF TreeStep, DurableInv, DiskKnown

\* A job that has reached the disk is known for ever after, in memory and on
\* the disk, through every transition, crash and restart.
THEOREM Durability == Spec => DurableForever
  BY DurableInit, DurableStep, PTL DEF Spec, DurableForever

-----------------------------------------------------------------------------
(***************************************************************************)
(* The channel as a set                                                     *)
(***************************************************************************)

In(s, e) == \E i \in 1..Len(s) : s[i] = e

LEMMA InAppend ==
  ASSUME NEW S, NEW s \in Seq(S), NEW e \in S, NEW x
  PROVE  In(Append(s, e), x) <=> In(s, x) \/ x = e
<1>1. /\ Len(s) \in Nat
      /\ Len(Append(s, e)) = Len(s) + 1
      /\ \A i \in 1..Len(s) : Append(s, e)[i] = s[i]
      /\ Append(s, e)[Len(s) + 1] = e
  OBVIOUS
<1> QED
  BY <1>1 DEF In

LEMMA InTail ==
  ASSUME NEW S, NEW s \in Seq(S), s # <<>>, NEW x
  PROVE  In(s, x) <=> In(Tail(s), x) \/ x = Head(s)
<1>1. /\ Len(s) \in Nat \ {0}
      /\ Len(Tail(s)) = Len(s) - 1
      /\ \A i \in 1..Len(Tail(s)) : Tail(s)[i] = s[i + 1]
      /\ Head(s) = s[1]
  BY HeadTailProperties, EmptySeq
<1>2. ASSUME In(s, x) PROVE In(Tail(s), x) \/ x = Head(s)
  <2> PICK i \in 1..Len(s) : s[i] = x
    BY <1>2 DEF In
  <2>1. CASE i = 1
    BY <1>1, <2>1
  <2>2. CASE i # 1
    <3>1. i - 1 \in 1..Len(Tail(s)) /\ Tail(s)[i - 1] = s[i]
      BY <1>1, <2>2
    <3> QED
      BY <3>1 DEF In
  <2> QED
    BY <2>1, <2>2
<1>3. ASSUME In(Tail(s), x) \/ x = Head(s) PROVE In(s, x)
  BY <1>1, <1>3 DEF In
<1> QED
  BY <1>2, <1>3

-----------------------------------------------------------------------------
(***************************************************************************)
(* No job is lost                                                           *)
(***************************************************************************)

NoLostInv == TypeInv /\ NoLostJob

\* The part of NoLostJob about one job.
Safe(j) == queue_db[j] # Absent => Held(j) \/ j \in abandoned

LEMMA NoLostCalls ==
  ASSUME TypeInv, NEW j \in Jobs, Safe(j),
         NEW c \in Calls, CallStep(c) \/ \E k \in Jobs : CheckFinished(c, k)
  PROVE  Safe(j)'
<1> USE DEF Safe, Held, InChannel, InTask, Sending, db, flow, ghost, TypeInv, TypeOK
<1>1. CASE \E k \in Jobs : CheckFinished(c, k)
  BY <1>1 DEF CheckFinished
<1>2. CASE CheckQueue(c)
  BY <1>2 DEF CheckQueue
<1>3. CASE InsertNew(c)
  BY <1>3 DEF InsertNew
<1>4. CASE Resubmit(c)
  BY <1>4 DEF Resubmit, StoreStatus
<1>5. CASE SendFromCall(c)
  <2>1. calls[c].job \in Jobs
    BY <1>5 DEF SendFromCall, Shapes, CallShape
  <2>2. In(channel', j) <=> In(channel, j) \/ j = calls[c].job
    BY <1>5, <2>1, InAppend DEF SendFromCall
  <2> QED
    BY <1>5, <2>2 DEF SendFromCall, In
<1>6. CASE CallFails(c)
  BY <1>6 DEF CallFails
<1> QED
  BY <1>1, <1>2, <1>3, <1>4, <1>5, <1>6 DEF CallStep

LEMMA NoLostTasks ==
  ASSUME TypeInv, NEW j \in Jobs, Safe(j), NEW t \in Tasks, TaskStep(t)
  PROVE  Safe(j)'
<1> USE StatusFacts
    DEF Safe, Held, InChannel, InTask, Sending, db, flow, ghost, TypeInv, TypeOK
<1>1. CASE ReadStatus(t)
  <2>1. tasks[t].job \in Jobs
    BY <1>1 DEF ReadStatus, Shapes, TaskShape
  <2> QED
    BY <1>1, <2>1 DEF ReadStatus
<1>2. CASE ConnectInTask(t)
  BY <1>2 DEF ConnectInTask
<1>3. CASE FetchFromDa(t)
  BY <1>3 DEF FetchFromDa, StoreStatus
<1>4. CASE DaClientError(t) \/ ZkClientError(t)
  <2>1. /\ queue_db' = [queue_db EXCEPT ![tasks[t].job] = Absent]
        /\ abandoned' = abandoned \ {tasks[t].job}
    BY <1>4 DEF DaClientError, ZkClientError, FinalizeJob
  <2> QED
    BY <1>4, <2>1 DEF DaClientError, ZkClientError
<1>5. CASE RequestZkProof(t)
  BY <1>5 DEF RequestZkProof
<1>6. CASE RecordRequest(t)
  BY <1>6 DEF RecordRequest, StoreStatus
<1>7. CASE ProofArrives(t)
  BY <1>7 DEF ProofArrives, FinalizeJob
<1>8. CASE GiveUp(t)
  BY <1>8 DEF GiveUp
<1>9. CASE SendFromTask(t)
  <2>1. tasks[t].job \in Jobs
    BY <1>9 DEF SendFromTask, Shapes, TaskShape
  <2>2. In(channel', j) <=> In(channel, j) \/ j = tasks[t].job
    <3>1. /\ channel' = Append(channel, tasks[t].job)
          /\ channel \in Seq(Jobs \cup {Shutdown})
          /\ tasks[t].job \in Jobs \cup {Shutdown}
      BY <1>9, <2>1 DEF SendFromTask
    <3> QED
      BY ONLY <3>1, InAppend
  <2> QED
    BY <1>9, <2>2 DEF SendFromTask, In
<1> QED
  BY <1>1, <1>2, <1>3, <1>4, <1>5, <1>6, <1>7, <1>8, <1>9 DEF TaskStep

LEMMA NoLostRest ==
  ASSUME TypeInv, NEW j \in Jobs, Safe(j),
         \/ WorkerStep \/ MainStep \/ StartupConnect \/ Signal \/ BackgroundFlush
         \/ UNCHANGED vars,
         ~Halt
  PROVE  Safe(j)'
<1> USE JobsAssumption
    DEF Safe, Held, InChannel, InTask, Sending, db, flow, ghost, TypeInv, TypeOK
<1>1. ASSUME NEW t \in Tasks, Dispatch(t) PROVE Safe(j)'
  <2>1. In(channel, j) <=> In(channel', j) \/ j = Head(channel)
    BY <1>1, InTail DEF Dispatch
  <2>2. tasks[t].job = NoJob
    BY <1>1 DEF Dispatch, Shapes, TaskShape
  <2>3. /\ InChannel(j) => InChannel(j)' \/ j = Head(channel)
        /\ InTask(j) => InTask(j)'
        /\ j = Head(channel) => InTask(j)'
    BY <1>1, <2>1, <2>2 DEF Dispatch, In
  <2>4. /\ Sending(j)' <=> Sending(j)
        /\ UNCHANGED <<queue_db, resume, abandoned>>
    BY <1>1 DEF Dispatch
  <2> QED
    BY ONLY Safe(j), <2>3, <2>4 DEF Safe, Held
<1>2. CASE ReceiveStop
  <2>1. In(channel, j) <=> In(channel', j) \/ j = Head(channel)
    BY <1>2, InTail DEF ReceiveStop
  <2> QED
    BY <1>2, <2>1 DEF ReceiveStop, In
<1>3. CASE FlushTree \/ BackgroundFlush \/ StartupConnect \/ UNCHANGED vars
  BY <1>3 DEF FlushTree, BackgroundFlush, StartupConnect, vars
<1>4. ASSUME NEW k \in Jobs, ResumeNext(k) PROVE Safe(j)'
  <2>1. In(channel', j) <=> In(channel, j) \/ j = k
    BY <1>4, InAppend DEF ResumeNext
  <2> QED
    BY <1>4, <2>1 DEF ResumeNext, In
<1>5. CASE (\E k \in Jobs : ResumeSkip(k)) \/ Serve
  BY <1>5 DEF ResumeSkip, Serve
<1>6. CASE Signal
  <2>1. In(channel', j) <=> In(channel, j) \/ j = Shutdown
    BY <1>6, InAppend DEF Signal
  <2> QED
    BY <1>6, <2>1 DEF Signal, In
<1> QED
  BY <1>1, <1>2, <1>3, <1>4, <1>5, <1>6 DEF WorkerStep, MainStep, Exit

LEMMA NoLostStep == NoLostInv /\ [Next]_vars => NoLostInv'
<1> SUFFICES ASSUME NoLostInv, [Next]_vars PROVE NoLostJob'
  BY TypeStep DEF NoLostInv
<1>1. CASE Halt
  BY <1>1 DEF Halt, NoLostJob
<1>2. CASE Boot
  BY <1>2 DEF Boot, NoLostJob, Held, db
<1>3. CASE ~Halt /\ ~Boot
  <2> SUFFICES ASSUME main' # "down", NEW j \in Jobs PROVE Safe(j)'
    BY DEF NoLostJob, Safe
  <2>1. main # "down" => Safe(j)
    BY DEF NoLostInv, NoLostJob, Safe
  <2>2. main # "down"
    BY <1>3 DEF Next, CallStep, CheckFinished, CheckQueue, InsertNew, Resubmit,
         SendFromCall, CallFails, TaskStep, ReadStatus, ConnectInTask, FetchFromDa,
         DaClientError, RequestZkProof, RecordRequest, ProofArrives, ZkClientError,
         GiveUp, SendFromTask, WorkerStep, Dispatch, ReceiveStop, FlushTree, Exit,
         MainStep, ResumeNext, ResumeSkip, Serve, StartupConnect,
         StartupConnectFails, Signal, BackgroundFlush, Crash, flow, vars
  <2> QED
    BY <1>3, <2>1, <2>2, NoLostCalls, NoLostTasks, NoLostRest
    DEF NoLostInv, Next, StartupConnectFails, Crash
<1> QED
  BY <1>1, <1>2, <1>3

\* No interleaving of handlers, tasks, the worker, the resume loop, shutdown and
\* crashes leaves a queued job with nobody to advance it, except through the
\* error paths that finalize nothing.
THEOREM NoJobIsLost == Spec => []NoLostJob
<1>1. Init => NoLostInv
  BY TypeInit DEF Init, NoLostInv, NoLostJob
<1> QED
  BY <1>1, NoLostStep, PTL DEF Spec, NoLostInv

-----------------------------------------------------------------------------
(***************************************************************************)
(* A settled job stays settled                                              *)
(***************************************************************************)

StaysSettled(j) == Settled(j)' /\ finished_db'[j] = finished_db[j]

LEMMA SettledCalls ==
  ASSUME TypeInv, NEW j \in Jobs, Settled(j),
         NEW c \in Calls, CallStep(c) \/ \E k \in Jobs : CheckFinished(c, k)
  PROVE  StaysSettled(j)
<1> USE JobsAssumption
    DEF StaysSettled, Settled, Held, InChannel, InTask, Sending, InCall, IdleCall, db,
        flow, ghost, TypeInv, TypeOK
<1>1. calls[c].job # j
  OBVIOUS
<1>2. CASE \E k \in Jobs : CheckFinished(c, k)
  <2> PICK k \in Jobs : CheckFinished(c, k)
    BY <1>2
  <2>1. CASE k = j
    <3>1. finished_db[j] \in Settling /\ finished_db[j] # Absent
      BY StatusFacts
    <3>2. calls' = calls
      BY <2>1, <3>1 DEF CheckFinished
    <3> QED
      BY <3>2 DEF CheckFinished
  <2>2. CASE k # j
    <3>1. \A d \in Calls : calls'[d].job = j \/ calls'[d].pc = "send" =>
            calls'[d] = calls[d]
      BY <2>2 DEF CheckFinished
    <3> QED
      BY <3>1 DEF CheckFinished
  <2> QED
    BY <2>1, <2>2
<1>3. CASE CheckQueue(c)
  BY <1>1, <1>3 DEF CheckQueue
<1>4. CASE InsertNew(c)
  BY <1>1, <1>4 DEF InsertNew
<1>5. CASE Resubmit(c)
  BY <1>1, <1>5 DEF Resubmit, StoreStatus
<1>6. CASE SendFromCall(c)
  <2>1. calls[c].job \in Jobs
    BY <1>6 DEF SendFromCall, Shapes, CallShape
  <2>2. In(channel', j) <=> In(channel, j) \/ j = calls[c].job
    BY <1>6, <2>1, InAppend DEF SendFromCall
  <2> QED
    BY <1>1, <1>6, <2>2 DEF SendFromCall, In
<1>7. CASE CallFails(c)
  BY <1>1, <1>7 DEF CallFails
<1> QED
  BY <1>2, <1>3, <1>4, <1>5, <1>6, <1>7 DEF CallStep

LEMMA SettledTasks ==
  ASSUME TypeInv, NEW j \in Jobs, Settled(j), NEW t \in Tasks, TaskStep(t)
  PROVE  StaysSettled(j)
<1> USE JobsAssumption
    DEF StaysSettled, Settled, Held, InChannel, InTask, Sending, InCall, IdleTask, db,
        flow, ghost, TypeInv, TypeOK
<1>1. tasks[t].job # j
  OBVIOUS
<1>2. CASE ReadStatus(t)
  BY <1>1, <1>2 DEF ReadStatus
<1>3. CASE ConnectInTask(t)
  BY <1>3 DEF ConnectInTask
<1>4. CASE FetchFromDa(t)
  BY <1>1, <1>4 DEF FetchFromDa, StoreStatus
<1>5. CASE DaClientError(t) \/ ZkClientError(t) \/ ProofArrives(t)
  <2>1. /\ queue_db' = [queue_db EXCEPT ![tasks[t].job] = Absent]
        /\ finished_db'[j] = finished_db[j]
        /\ tasks' = [tasks EXCEPT ![t] = IdleTask]
        /\ UNCHANGED <<channel, calls, resume>>
    BY <1>1, <1>5 DEF DaClientError, ZkClientError, ProofArrives, FinalizeJob
  <2> QED
    BY <1>1, <2>1
<1>6. CASE RequestZkProof(t)
  BY <1>1, <1>6 DEF RequestZkProof
<1>7. CASE RecordRequest(t)
  BY <1>1, <1>7 DEF RecordRequest, StoreStatus
<1>8. CASE GiveUp(t)
  BY <1>1, <1>8 DEF GiveUp
<1>9. CASE SendFromTask(t)
  <2>1. tasks[t].job \in Jobs
    BY <1>9 DEF SendFromTask, Shapes, TaskShape
  <2>2. In(channel', j) <=> In(channel, j) \/ j = tasks[t].job
    <3>1. /\ channel' = Append(channel, tasks[t].job)
          /\ channel \in Seq(Jobs \cup {Shutdown})
          /\ tasks[t].job \in Jobs \cup {Shutdown}
      BY <1>9, <2>1 DEF SendFromTask
    <3> QED
      BY ONLY <3>1, InAppend
  <2> QED
    BY <1>1, <1>9, <2>2 DEF SendFromTask, In
<1> QED
  BY <1>2, <1>3, <1>4, <1>5, <1>6, <1>7, <1>8, <1>9 DEF TaskStep

LEMMA SettledRest ==
  ASSUME TypeInv, NEW j \in Jobs, Settled(j),
         \/ WorkerStep \/ Boot \/ MainStep \/ StartupConnect \/ Signal
         \/ BackgroundFlush \/ UNCHANGED vars,
         ~Halt
  PROVE  StaysSettled(j)
<1> USE JobsAssumption
    DEF StaysSettled, Settled, Held, InChannel, InTask, Sending, InCall, db, flow,
        ghost, TypeInv, TypeOK
<1>1. ASSUME NEW t \in Tasks, Dispatch(t) PROVE StaysSettled(j)
  <2>1. In(channel, j) <=> In(channel', j) \/ j = Head(channel)
    BY <1>1, InTail DEF Dispatch
  <2> QED
    BY <1>1, <2>1 DEF Dispatch, In
<1>2. CASE ReceiveStop
  <2>1. In(channel, j) <=> In(channel', j) \/ j = Head(channel)
    BY <1>2, InTail DEF ReceiveStop
  <2> QED
    BY <1>2, <2>1 DEF ReceiveStop, In
<1>3. CASE FlushTree \/ BackgroundFlush \/ StartupConnect \/ UNCHANGED vars
  BY <1>3 DEF FlushTree, BackgroundFlush, StartupConnect, vars
<1>4. ASSUME NEW k \in Jobs, ResumeNext(k) PROVE StaysSettled(j)
  <2>1. In(channel', j) <=> In(channel, j) \/ j = k
    BY <1>4, InAppend DEF ResumeNext
  <2> QED
    BY <1>4, <2>1 DEF ResumeNext, In
<1>5. CASE (\E k \in Jobs : ResumeSkip(k)) \/ Serve \/ Boot
  BY <1>5 DEF ResumeSkip, Serve, Boot
<1>6. CASE Signal
  <2>1. In(channel', j) <=> In(channel, j) \/ j = Shutdown
    BY <1>6, InAppend DEF Signal
  <2> QED
    BY <1>6, <2>1 DEF Signal, In
<1> QED
  BY <1>1, <1>2, <1>3, <1>4, <1>5, <1>6 DEF WorkerStep, MainStep, Exit

LEMMA SettledHalt ==
  ASSUME TypeInv, NEW j \in Jobs, Settled(j), Halt, OnDisk(j)
  PROVE  StaysSettled(j)
  BY JobsAssumption
  DEF StaysSettled, Settled, Held, InChannel, InTask, Sending, InCall, IdleTask,
      IdleCall, Halt, OnDisk

LEMMA SettledStep ==
  ASSUME TypeInv, [Next]_vars, NEW j \in Jobs, Settled(j)
  PROVE  StaysSettled(j) \/ (main' = "down" /\ ~OnDisk(j))
<1>1. CASE Halt
  BY <1>1, SettledHalt DEF Halt
<1>2. CASE ~Halt
  BY <1>2, SettledCalls, SettledTasks, SettledRest
  DEF Next, StartupConnectFails, Crash
<1> QED
  BY <1>1, <1>2

\* Once a job has its final answer and no call about it is in progress, that
\* answer is given for ever; and if the disk has it, no crash changes that.
THEOREM SettledForGood == Spec => SettledStays
<1>1. TypeInv /\ [Next]_vars =>
        \A j \in Jobs : Settled(j) =>
          \/ Settled(j)' /\ finished_db'[j] = finished_db[j]
          \/ main' = "down" /\ ~OnDisk(j)
  BY SettledStep DEF StaysSettled
<1> QED
  BY <1>1, TypeInit, TypeStep, PTL DEF Spec, SettledStays

-----------------------------------------------------------------------------
(***************************************************************************)
(* What a clean shutdown leaves behind                                      *)
(***************************************************************************)

\* Whatever holds a job found it in a tree, or put it there.
HeldIsKnown == \A j \in Jobs : Held(j) => Known(j)

\* Between the last two flushes and the exit, a job the disk does not have has
\* been admitted since, and no task has begun with it.
SavedButNewcomers ==
  worker \in {"flush_finished", "exit"} /\ "db" \notin Faults =>
    \A j \in Jobs :
      /\ InTask(j) => DiskKnown(j)
      /\ Known(j) /\ ~DiskKnown(j) => Sending(j) \/ InChannel(j)

ExitInv == DurableInv /\ HeldIsKnown /\ SavedButNewcomers

\* What a step that does not flush may do to the holders of a job: a new holder
\* leaves the job known; once the loop has ended, no task begins and no message
\* is taken; and a job becomes known by its task or by the call that sends it.
Passes(j) ==
  /\ Held(j)' => Held(j) \/ Known(j)'
  /\ Known(j)' => Known(j) \/ Sending(j)' \/ InTask(j)
  /\ worker # "loop" =>
       /\ InTask(j)' => InTask(j)
       /\ Sending(j) \/ InChannel(j) => Sending(j)' \/ InChannel(j)'
  /\ worker' = worker \/ worker' \in {"loop", "flush_queue"}

LEMMA PassesCalls ==
  ASSUME TypeInv, NEW j \in Jobs,
         NEW c \in Calls, CallStep(c) \/ \E k \in Jobs : CheckFinished(c, k)
  PROVE  Passes(j)
<1> USE StatusFacts
    DEF Passes, Known, Held, InChannel, InTask, Sending, IdleCall, db, flow, ghost,
        TypeInv, TypeOK
<1>1. CASE (\E k \in Jobs : CheckFinished(c, k)) \/ CheckQueue(c) \/ CallFails(c)
  <2>1. \A d \in Calls : calls[d].pc = "send" \/ calls'[d].pc = "send" =>
          calls'[d] = calls[d]
    BY <1>1 DEF CheckFinished, CheckQueue, CallFails
  <2>2. UNCHANGED <<queue_db, finished_db, channel, tasks, resume, worker>>
    BY <1>1 DEF CheckFinished, CheckQueue, CallFails
  <2> QED
    BY ONLY <2>1, <2>2 DEF Passes, Known, Held, InChannel, InTask, Sending
<1>2. CASE InsertNew(c)
  BY <1>2 DEF InsertNew
<1>3. CASE Resubmit(c)
  <2>1. calls[c].status \in PendingStatus
    BY <1>3 DEF Resubmit, Shapes, CallShape
  <2> QED
    BY <1>3, <2>1 DEF Resubmit, StoreStatus
<1>4. CASE SendFromCall(c)
  <2>1. calls[c].job \in Jobs
    BY <1>4 DEF SendFromCall, Shapes, CallShape
  <2>2. In(channel', j) <=> In(channel, j) \/ j = calls[c].job
    BY <1>4, <2>1, InAppend DEF SendFromCall
  <2> QED
    BY <1>4, <2>2 DEF SendFromCall, In
<1> QED
  BY <1>1, <1>2, <1>3, <1>4 DEF CallStep

LEMMA PassesTasks ==
  ASSUME TypeInv, NEW j \in Jobs, NEW t \in Tasks, TaskStep(t)
  PROVE  Passes(j)
<1> USE JobsAssumption
    DEF Passes, Known, Held, InChannel, InTask, Sending, db, flow, ghost, TypeInv,
        TypeOK
<1>1. CASE SendFromTask(t)
  <2>1. tasks[t].job \in Jobs
    BY <1>1 DEF SendFromTask, Shapes, TaskShape
  <2>2. In(channel', j) <=> In(channel, j) \/ j = tasks[t].job
    <3>1. /\ channel' = Append(channel, tasks[t].job)
          /\ channel \in Seq(Jobs \cup {Shutdown})
          /\ tasks[t].job \in Jobs \cup {Shutdown}
      BY <1>1, <2>1 DEF SendFromTask
    <3> QED
      BY ONLY <3>1, InAppend
  <2> QED
    BY <1>1, <2>2 DEF SendFromTask, In, IdleTask
<1>2. CASE ~SendFromTask(t)
  <2>1. /\ \A u \in Tasks : tasks'[u].job \in {tasks[u].job, NoJob}
        /\ queue_db'[j] = queue_db[j] \/ tasks[t].job = j
        /\ finished_db'[j] = finished_db[j] \/ tasks[t].job = j
        /\ UNCHANGED <<channel, calls, worker, resume>>
    BY <1>2 DEF TaskStep, ReadStatus, ConnectInTask, FetchFromDa, DaClientError,
       RequestZkProof, RecordRequest, ProofArrives, ZkClientError, GiveUp,
       StoreStatus, FinalizeJob, IdleTask
  <2> QED
    BY <2>1
<1> QED
  BY <1>1, <1>2

LEMMA PassesRest ==
  ASSUME TypeInv, NEW j \in Jobs,
         \/ WorkerStep \/ Boot \/ MainStep \/ StartupConnect \/ Signal
         \/ BackgroundFlush \/ UNCHANGED vars,
         ~Halt, ~FlushTree
  PROVE  Passes(j)
<1> USE JobsAssumption
    DEF Passes, Known, Held, InChannel, InTask, Sending, db, flow, ghost, TypeInv,
        TypeOK
<1>1. ASSUME NEW t \in Tasks, Dispatch(t) PROVE Passes(j)
  <2>1. In(channel, j) <=> In(channel', j) \/ j = Head(channel)
    BY <1>1, InTail DEF Dispatch
  <2> QED
    BY <1>1, <2>1 DEF Dispatch, In
<1>2. CASE ReceiveStop
  <2>1. In(channel, j) <=> In(channel', j) \/ j = Head(channel)
    BY <1>2, InTail DEF ReceiveStop
  <2> QED
    BY <1>2, <2>1 DEF ReceiveStop, In
<1>3. CASE BackgroundFlush \/ StartupConnect \/ UNCHANGED vars
  BY <1>3 DEF BackgroundFlush, StartupConnect, vars
<1>4. ASSUME NEW k \in Jobs, ResumeNext(k) PROVE Passes(j)
  <2>1. In(channel', j) <=> In(channel, j) \/ j = k
    BY <1>4, InAppend DEF ResumeNext
  <2> QED
    BY <1>4, <2>1 DEF ResumeNext, In
<1>5. CASE (\E k \in Jobs : ResumeSkip(k)) \/ Serve \/ Boot
  BY <1>5 DEF ResumeSkip, Serve, Boot
<1>6. CASE Signal
  <2>1. In(channel', j) <=> In(channel, j) \/ j = Shutdown
    BY <1>6, InAppend DEF Signal
  <2> QED
    BY <1>6, <2>1 DEF Signal, In
<1> QED
  BY <1>1, <1>2, <1>3, <1>4, <1>5, <1>6 DEF WorkerStep, MainStep, Exit

\* A job is forgotten by an ending process only.
LEMMA KnownStays ==
  ASSUME TypeInv, [Next]_vars, ~Halt, NEW j \in Jobs, Known(j)
  PROVE  Known(j)'
<1>1. TreeStep
  BY EveryTreeStep
<1>2. ASSUME NEW k \in Jobs, StoresPending(k) \/ StoresFinal(k) PROVE Known(j)'
  BY <1>2, StatusFacts DEF TypeInv, TypeOK, Known, StoresPending, StoresFinal
<1> QED
  BY <1>1, <1>2 DEF TreeStep, Known

LEMMA ExitStep == ExitInv /\ [Next]_vars => ExitInv'
<1> SUFFICES ASSUME ExitInv, [Next]_vars PROVE HeldIsKnown' /\ SavedButNewcomers'
  BY DurableStep DEF ExitInv
<1>1. TypeInv /\ DurableInv /\ TypeInv'
  BY TypeStep DEF ExitInv, DurableInv
<1>2. CASE Halt
  <2>1. worker' = "down" /\ channel' = <<>> /\ resume' = {}
    BY <1>2 DEF Halt
  <2>2. \A j \in Jobs : ~InChannel(j)' /\ ~InTask(j)' /\ ~Sending(j)'
    BY <1>2, EmptySeq, JobsAssumption
    DEF Halt, InChannel, InTask, Sending, IdleTask, IdleCall
  <2> QED
    BY <1>2, <2>1, <2>2 DEF HeldIsKnown, Held, SavedButNewcomers
<1>3. CASE FlushTree
  <2>1. /\ UNCHANGED <<queue_db, finished_db, channel, tasks, calls, resume>>
        /\ "db" \notin Faults => disk' = Image
    BY <1>3 DEF FlushTree, Flush, db
  <2>2. \A j \in Jobs : (Held(j)' <=> Held(j)) /\ (Known(j)' <=> Known(j))
    BY <2>1 DEF Held, InChannel, InTask, Sending, Known
  <2>3. "db" \notin Faults => \A j \in Jobs : DiskKnown(j)' <=> Known(j)
    BY <2>1 DEF DiskKnown, Known, Image
  <2>4. \A j \in Jobs : InTask(j)' => Known(j)
    BY <2>2 DEF ExitInv, HeldIsKnown, Held
  <2> QED
    BY <2>2, <2>3, <2>4 DEF ExitInv, HeldIsKnown, SavedButNewcomers
<1>4. CASE ~Halt /\ ~FlushTree
  <2>1. ASSUME NEW j \in Jobs PROVE Passes(j)
    BY <1>1, <1>4, PassesCalls, PassesTasks, PassesRest
    DEF Next, StartupConnectFails, Crash
  <2>2. \A j \in Jobs : (Known(j) => Known(j)') /\ (DiskKnown(j) => DiskKnown(j)')
    BY <1>1, <1>4, KnownStays, DurableStep
  <2>3. HeldIsKnown'
    BY <2>1, <2>2 DEF ExitInv, HeldIsKnown, Passes
  <2>4. SavedButNewcomers'
    <3> SUFFICES ASSUME worker' \in {"flush_finished", "exit"}, "db" \notin Faults,
                        NEW j \in Jobs
                 PROVE  /\ InTask(j)' => DiskKnown(j)'
                        /\ Known(j)' /\ ~DiskKnown(j)' => Sending(j)' \/ InChannel(j)'
      BY DEF SavedButNewcomers
    <3>1. worker = worker' /\ worker # "loop"
      BY <2>1 DEF Passes
    <3>2. /\ InTask(j) => DiskKnown(j)
          /\ Known(j) /\ ~DiskKnown(j) => Sending(j) \/ InChannel(j)
      BY <3>1 DEF ExitInv, SavedButNewcomers
    <3> QED
      BY <2>1, <2>2, <3>1, <3>2 DEF Passes
  <2> QED
    BY <2>3, <2>4
<1> QED
  BY <1>2, <1>3, <1>4

\* When a clean shutdown exits, although handlers and tasks went on during its
\* flushes, the disk has every job the service knows but the ones admitted since,
\* which are still on their way to a worker that is gone.
THEOREM ExitKeepsWork == Spec => []ExitLosesOnlyNewcomers
<1>1. Init => ExitInv
  <2> SUFFICES ASSUME Init PROVE HeldIsKnown /\ SavedButNewcomers
    BY DurableInit DEF ExitInv
  <2>1. \A j \in Jobs : ~InChannel(j) /\ ~InTask(j) /\ ~Sending(j) /\ j \notin resume
    BY EmptySeq, JobsAssumption
    DEF Init, InChannel, InTask, Sending, IdleTask, IdleCall
  <2> QED
    BY <2>1 DEF Init, HeldIsKnown, Held, SavedButNewcomers
<1>2. ExitInv => ExitLosesOnlyNewcomers
  BY DEF ExitInv, SavedButNewcomers, ExitLosesOnlyNewcomers
<1> QED
  BY <1>1, <1>2, ExitStep, PTL DEF Spec
=============================================================================
