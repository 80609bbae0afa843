--------------------------- MODULE JobSerialProofs ---------------------------
(***************************************************************************)
(* A job whose admissions never overlapped is worked on by one task at a    *)
(* time, with a status that is never stale.  From this follow the           *)
(* properties of its result and of its recorded proof request.              *)
(***************************************************************************)
EXTENDS JobServiceProofs

-----------------------------------------------------------------------------
(***************************************************************************)
(* Jobs occurring once in the channel                                       *)
(***************************************************************************)

Once(s, e) == \A i, k \in 1..Len(s) : s[i] = e /\ s[k] = e => i = k

LEMMA OnceAppend ==
  ASSUME NEW S, NEW s \in Seq(S), NEW e \in S, NEW x,
         Once(s, x), x = e => ~In(s, x)
  PROVE  Once(Append(s, e), x)
<1>1. /\ Len(s) \in Nat
      /\ Len(Append(s, e)) = Len(s) + 1
      /\ \A i \in 1..Len(s) : Append(s, e)[i] = s[i]
      /\ Append(s, e)[Len(s) + 1] = e
  OBVIOUS
<1>2. SUFFICES ASSUME NEW i \in 1..(Len(s) + 1), NEW k \in 1..(Len(s) + 1),
                      Append(s, e)[i] = x, Append(s, e)[k] = x
               PROVE  i = k
  BY <1>1 DEF Once
<1>3. CASE i \in 1..Len(s) /\ k \in 1..Len(s)
  BY <1>1, <1>2, <1>3 DEF Once
<1>4. CASE ~(i \in 1..Len(s) /\ k \in 1..Len(s))
  <2>1. x = e
    BY <1>1, <1>2, <1>4
  <2>2. i \notin 1..Len(s) /\ k \notin 1..Len(s)
    BY <1>1, <1>2, <2>1 DEF In
  <2> QED
    BY <1>1, <2>2
<1> QED
  BY <1>3, <1>4

LEMMA OnceTail ==
  ASSUME NEW S, NEW s \in Seq(S), s # <<>>, NEW x, Once(s, x)
  PROVE  Once(Tail(s), x) /\ ~(x = Head(s) /\ In(Tail(s), x))
<1>1. /\ Len(s) \in Nat \ {0}
      /\ Len(Tail(s)) = Len(s) - 1
      /\ \A i \in 1..Len(Tail(s)) : Tail(s)[i] = s[i + 1]
      /\ Head(s) = s[1]
  BY HeadTailProperties, EmptySeq
<1>2. Once(Tail(s), x)
  <2> SUFFICES ASSUME NEW i \in 1..Len(Tail(s)), NEW k \in 1..Len(Tail(s)),
                      Tail(s)[i] = x, Tail(s)[k] = x
               PROVE  i = k
    BY DEF Once
  <2>1. i + 1 \in 1..Len(s) /\ k + 1 \in 1..Len(s)
    BY <1>1
  <2>2. i + 1 = k + 1
    BY <1>1, <2>1 DEF Once
  <2> QED
    BY <1>1, <2>2
<1>3. ASSUME x = Head(s), In(Tail(s), x) PROVE FALSE
  <2> PICK i \in 1..Len(Tail(s)) : Tail(s)[i] = x
    BY <1>3 DEF In
  <2>1. i + 1 \in 1..Len(s) /\ 1 \in 1..Len(s) /\ i + 1 # 1
    BY <1>1
  <2> QED
    BY <1>1, <1>3, <2>1 DEF Once
<1> QED
  BY <1>2, <1>3

-----------------------------------------------------------------------------
(***************************************************************************)
(* The invariant, job by job                                                *)
(***************************************************************************)

\* HeldOnce by way of In and Once.
Single(j) ==
  /\ Once(channel, j)
  /\ \A t, u \in Tasks : tasks[t].job = j /\ tasks[u].job = j => t = u
  /\ \A c, d \in Calls :
       /\ calls[c].pc = "send" /\ calls[c].job = j
       /\ calls[d].pc = "send" /\ calls[d].job = j
       => c = d
  /\ In(channel, j) => ~InTask(j) /\ ~Sending(j) /\ j \notin resume
  /\ InTask(j) => ~Sending(j) /\ j \notin resume
  /\ Sending(j) => j \notin resume

LEMMA SingleIsHeldOnce == \A j : Single(j) <=> HeldOnce(j)
  BY DEF Single, HeldOnce, Once, In, InChannel

\* Whoever holds j finds it in the queue.
HeldIsQueued(j) ==
  (In(channel, j) \/ InTask(j) \/ Sending(j) \/ j \in resume) => queue_db[j] # Absent

InOneDiskTree(j) == disk.queue[j] = Absent \/ disk.finished[j] = Absent

TasksCurrent(j) == \A t \in Tasks : tasks[t].job = j => TaskIsCurrent(t)

\* What makes UnracedJobIsSerial inductive for one job: besides the property
\* itself, that a held job is queued (a new task will find a pending status)
\* and that the disk, which a restart brings back, has the job in one tree.
Serial(j) ==
  /\ Single(j)
  /\ HeldIsQueued(j)
  /\ TasksCurrent(j)
  /\ InOneTree(j)
  /\ InOneDiskTree(j)

\* Nothing holds anything while the process is down.
DownIsEmpty ==
  main = "down" =>
    /\ channel = <<>>
    /\ resume = {}
    /\ \A t \in Tasks : tasks[t].pc = "idle"
    /\ \A c \in Calls : calls[c].pc = "idle"

SerialInv == TypeInv /\ DownIsEmpty /\ \A j \in Jobs \ raced : Serial(j)

\* What a step may not do to an unraced job's final answer and recorded request.
AnswerKept(j) ==
  finished_db[j] \in Settling => finished_db'[j] = finished_db[j]

RequestKept(j) ==
  \A r \in Requests :
    queue_db[j] = ZkProofPending(r) =>
      \/ queue_db'[j] = ZkProofPending(r)
      \/ /\ queue_db'[j] = Absent
         /\ \/ finished_db'[j] = ZkProofFinished(r)
            \/ \E retry \in Retries : finished_db'[j] = Failed(retry)

Kept(j) == Serial(j)' /\ AnswerKept(j) /\ RequestKept(j)

\* A step that leaves alone everything about j keeps j as it was.
Untouched(j) ==
  /\ queue_db'[j] = queue_db[j]
  /\ finished_db'[j] = finished_db[j]
  /\ disk'.queue[j] = disk.queue[j]
  /\ disk'.finished[j] = disk.finished[j]
  /\ In(channel', j) <=> In(channel, j)
  /\ Once(channel', j)
  /\ \A t \in Tasks : tasks[t].job = j \/ tasks'[t].job = j => tasks'[t] = tasks[t]
  /\ \A c \in Calls :
       (calls[c].pc = "send" /\ calls[c].job = j) <=>
         (calls'[c].pc = "send" /\ calls'[c].job = j)
  /\ j \in resume' <=> j \in resume

LEMMA UntouchedIsKept ==
  ASSUME NEW j \in Jobs, Serial(j), Untouched(j)
  PROVE  Kept(j)
<1>1. (InTask(j)' <=> InTask(j)) /\ (Sending(j)' <=> Sending(j))
  BY DEF Untouched, InTask, Sending
<1>2. Single(j)' /\ HeldIsQueued(j)'
  BY <1>1 DEF Untouched, Serial, Single, HeldIsQueued
<1>3. TasksCurrent(j)'
  BY DEF Untouched, Serial, TasksCurrent, TaskIsCurrent
<1> QED
  BY <1>2, <1>3 DEF Untouched, Kept, Serial, InOneTree, InOneDiskTree, AnswerKept,
     RequestKept

-----------------------------------------------------------------------------
(***************************************************************************)
(* Steps of calls                                                           *)
(***************************************************************************)

LEMMA SerialLookups ==
  ASSUME TypeInv, NEW j \in Jobs, Serial(j), NEW c \in Calls,
         (\E k \in Jobs : CheckFinished(c, k)) \/ CheckQueue(c) \/ CallFails(c)
  PROVE  Kept(j)
<1>1. \A d \in Calls : calls[d].pc = "send" \/ calls'[d].pc = "send" =>
        calls'[d] = calls[d]
  BY DEF CheckFinished, CheckQueue, CallFails, TypeInv, TypeOK, IdleCall
<1>2. UNCHANGED <<queue_db, finished_db, disk, channel, tasks, resume>>
  BY DEF CheckFinished, CheckQueue, CallFails, db, flow
<1>3. Untouched(j)
  BY <1>1, <1>2 DEF Untouched, Serial, Single
<1> QED
  BY <1>3, UntouchedIsKept

\* Admissions: a job that stays unraced was held by nobody and in no tree.
LEMMA SerialAdmission ==
  ASSUME TypeInv, NEW j \in Jobs \ raced', Serial(j), NEW c \in Calls,
         InsertNew(c) \/ Resubmit(c)
  PROVE  Kept(j)
<1> DEFINE k == calls[c].job
<1>1. k \in Jobs /\ calls[c].pc # "send"
  BY DEF InsertNew, Resubmit, TypeInv, TypeOK, Shapes, CallShape
<1>2. /\ UNCHANGED <<disk, channel, tasks, resume>>
      /\ calls' = [calls EXCEPT ![c].pc = "send"]
      /\ \E s \in PendingStatus : queue_db' = [queue_db EXCEPT ![k] = s]
  BY StatusFacts
  DEF InsertNew, Resubmit, StoreStatus, flow, TypeInv, Shapes, CallShape
<1>3. finished_db' \in {finished_db, [finished_db EXCEPT ![k] = Absent]}
  BY DEF InsertNew, Resubmit, StoreStatus
<1>4. CASE k # j
  <2>1. Untouched(j)
    BY <1>1, <1>2, <1>3, <1>4 DEF Untouched, Serial, Single, TypeInv, TypeOK
  <2> QED
    BY <2>1, UntouchedIsKept
<1>5. CASE k = j
  <2>1. /\ ~Held(j) /\ queue_db[j] = Absent
        /\ finished_db[j] \notin Settling
        /\ finished_db'[j] = Absent
    <3>1. CASE InsertNew(c)
      BY <1>5, <3>1, StatusFacts DEF InsertNew
    <3>2. CASE Resubmit(c)
      <4>1. calls[c].status = DataAvailabilityPending
        BY <3>2 DEF Resubmit, TypeInv, Shapes, CallShape
      <4>2. Failed(DataAvailabilityPending) \notin Settling
        BY DEF Settling, Failed, DataAvailabilityPending, Absent, ZkProofFinished
      <4> QED
        BY <1>5, <3>2, <4>1, <4>2 DEF Resubmit, StoreStatus, TypeInv, TypeOK
    <3> QED
      BY <3>1, <3>2
  <2>2. /\ ~In(channel, j) /\ ~InTask(j) /\ j \notin resume
        /\ \A d \in Calls : ~(calls[d].pc = "send" /\ calls[d].job = j)
    BY <2>1 DEF Held, In, InChannel, Sending
  <2>3. queue_db'[j] # Absent
    BY <1>2, <1>5, StatusFacts DEF TypeInv, TypeOK
  <2>4. \A d \in Calls : calls'[d].pc = "send" /\ calls'[d].job = j => d = c
    BY <1>2, <2>2 DEF TypeInv, TypeOK
  <2>5. Single(j)' /\ HeldIsQueued(j)' /\ TasksCurrent(j)'
    BY <1>2, <2>2, <2>3, <2>4
    DEF Serial, Single, HeldIsQueued, TasksCurrent, InTask, Sending
  <2> QED
    BY <1>2, <2>1, <2>5, StatusFacts
    DEF Kept, Serial, InOneTree, InOneDiskTree, AnswerKept, RequestKept
<1> QED
  BY <1>4, <1>5

LEMMA SerialSendFromCall ==
  ASSUME TypeInv, NEW j \in Jobs, Serial(j), NEW c \in Calls, SendFromCall(c)
  PROVE  Kept(j)
<1> DEFINE k == calls[c].job
<1>1. k \in Jobs
  BY DEF SendFromCall, TypeInv, TypeOK, Shapes, CallShape
<1>2. /\ UNCHANGED <<queue_db, finished_db, disk, tasks, resume>>
      /\ calls[c].pc = "send"
      /\ calls' = [calls EXCEPT ![c] = IdleCall]
      /\ channel' = Append(channel, k)
  BY DEF SendFromCall, db, flow
<1>3. In(channel', j) <=> In(channel, j) \/ j = k
  BY <1>1, <1>2, InAppend DEF TypeInv, TypeOK
<1>4. Once(channel', j)
  BY <1>1, <1>2, OnceAppend DEF TypeInv, TypeOK, Serial, Single, Sending
<1>5. CASE k # j
  <2>1. Untouched(j)
    BY <1>2, <1>3, <1>4, <1>5, JobsAssumption DEF Untouched, TypeInv, TypeOK, IdleCall
  <2> QED
    BY <2>1, UntouchedIsKept
<1>6. CASE k = j
  <2>1. Sending(j) /\ ~Sending(j)'
    BY <1>2, <1>6 DEF Serial, Single, Sending, TypeInv, TypeOK, IdleCall
  <2>2. InTask(j)' <=> InTask(j)
    BY <1>2 DEF InTask
  <2>3. Single(j)' /\ HeldIsQueued(j)'
    BY <1>2, <1>3, <1>4, <2>1, <2>2 DEF Serial, Single, HeldIsQueued, Sending
  <2> QED
    BY <1>2, <2>3 DEF Kept, Serial, TasksCurrent, TaskIsCurrent, InOneTree,
       InOneDiskTree, AnswerKept, RequestKept
<1> QED
  BY <1>5, <1>6

-----------------------------------------------------------------------------
(***************************************************************************)
(* Steps of tasks                                                           *)
(***************************************************************************)

\* A task changes nothing about jobs that are not its own.
LEMMA SerialOtherTask ==
  ASSUME TypeInv, NEW j \in Jobs, Serial(j), NEW t \in Tasks, TaskStep(t),
         tasks[t].job # j
  PROVE  Kept(j)
<1> DEFINE k == tasks[t].job
<1>1. /\ UNCHANGED <<disk, calls, resume>>
      /\ queue_db'[j] = queue_db[j]
      /\ finished_db'[j] = finished_db[j]
  BY DEF TaskStep, ReadStatus, ConnectInTask, FetchFromDa, DaClientError,
     RequestZkProof, RecordRequest, ProofArrives, ZkClientError, GiveUp, SendFromTask,
     StoreStatus, FinalizeJob, db, flow, TypeInv, TypeOK
<1>2. \A u \in Tasks : tasks[u].job = j \/ tasks'[u].job = j => tasks'[u] = tasks[u]
  BY JobsAssumption
  DEF TaskStep, ReadStatus, ConnectInTask, FetchFromDa, DaClientError,
      RequestZkProof, RecordRequest, ProofArrives, ZkClientError, GiveUp, SendFromTask,
      IdleTask, TypeInv, TypeOK
<1>3. (In(channel', j) <=> In(channel, j)) /\ Once(channel', j)
  <2>1. CASE channel' = channel
    BY <2>1 DEF Serial, Single
  <2>2. CASE SendFromTask(t)
    <3>1. k \in Jobs /\ channel' = Append(channel, k)
      BY <2>2 DEF SendFromTask, TypeInv, TypeOK, Shapes, TaskShape
    <3>2. channel \in Seq(Jobs \cup {Shutdown}) /\ Once(channel, j) /\ j # k
      BY DEF Serial, Single, TypeInv, TypeOK
    <3> QED
      BY ONLY <3>1, <3>2, InAppend, OnceAppend
  <2> QED
    BY <2>1, <2>2
    DEF TaskStep, ReadStatus, ConnectInTask, FetchFromDa, DaClientError,
        RequestZkProof, RecordRequest, ProofArrives, ZkClientError, GiveUp
<1>4. Untouched(j)
  BY <1>1, <1>2, <1>3 DEF Untouched
<1> QED
  BY <1>4, UntouchedIsKept

\* The task of an unraced job is the only holder of it, and current.
LEMMA OwnTask ==
  ASSUME TypeInv, NEW j \in Jobs, Serial(j), NEW t \in Tasks, tasks[t].job = j
  PROVE  /\ tasks[t].pc # "idle"
         /\ \A u \in Tasks : tasks[u].job = j => u = t
         /\ ~In(channel, j) /\ ~Sending(j) /\ j \notin resume
         /\ queue_db[j] \in PendingStatus
         /\ finished_db[j] = Absent
         /\ TaskIsCurrent(t)
<1>1. InTask(j)
  BY DEF InTask
<1>2. queue_db[j] # Absent
  BY <1>1 DEF Serial, HeldIsQueued
<1> QED
  BY <1>1, <1>2, JobsAssumption
  DEF Serial, Single, TasksCurrent, InOneTree, TypeInv, TypeOK, Shapes, TaskShape

\* The task stays, at another stage, with a status that is again current.
LEMMA SerialTaskStays ==
  ASSUME TypeInv, NEW j \in Jobs, Serial(j), NEW t \in Tasks, tasks[t].job = j,
         UNCHANGED <<disk, channel, calls, resume>>,
         finished_db'[j] = Absent, queue_db'[j] # Absent,
         NEW slot, tasks' = [tasks EXCEPT ![t] = slot], slot.job = j,
         TaskIsCurrent(t)'
  PROVE  Serial(j)'
<1>1. \A u \in Tasks : tasks'[u].job = tasks[u].job
  BY DEF TypeInv, TypeOK
<1>2. (InTask(j)' <=> InTask(j)) /\ (Sending(j)' <=> Sending(j))
  BY <1>1 DEF InTask, Sending
<1>3. Single(j)' /\ HeldIsQueued(j)'
  BY <1>1, <1>2 DEF Serial, Single, HeldIsQueued
<1>4. TasksCurrent(j)'
  BY <1>1, OwnTask DEF TasksCurrent
<1> QED
  BY <1>3, <1>4 DEF Serial, InOneTree, InOneDiskTree

\* The task ends and nobody holds the job.
LEMMA SerialTaskEnds ==
  ASSUME TypeInv, NEW j \in Jobs, Serial(j), NEW t \in Tasks, tasks[t].job = j,
         UNCHANGED <<disk, channel, calls, resume>>,
         queue_db'[j] = Absent \/ finished_db'[j] = Absent,
         tasks' = [tasks EXCEPT ![t] = IdleTask]
  PROVE  Serial(j)'
<1>1. \A u \in Tasks : tasks'[u].job # j
  BY OwnTask, JobsAssumption DEF TypeInv, TypeOK, IdleTask
<1>2. ~InTask(j)' /\ ~In(channel', j) /\ ~Sending(j)' /\ j \notin resume'
  BY <1>1, OwnTask DEF InTask, Sending
<1>3. Single(j)' /\ HeldIsQueued(j)' /\ TasksCurrent(j)'
  BY <1>1, <1>2 DEF Serial, Single, HeldIsQueued, TasksCurrent, Sending
<1> QED
  BY <1>3 DEF Serial, InOneTree, InOneDiskTree

LEMMA SerialOwnTask ==
  ASSUME TypeInv, NEW j \in Jobs, Serial(j), NEW t \in Tasks, TaskStep(t),
         tasks[t].job = j
  PROVE  Kept(j)
<1> USE StatusFacts DEF TypeInv, TypeOK
<1>1. /\ \A u \in Tasks : tasks[u].job = j => u = t
      /\ ~In(channel, j) /\ ~Sending(j) /\ j \notin resume
      /\ queue_db[j] \in PendingStatus
      /\ finished_db[j] = Absent
      /\ TaskIsCurrent(t)
  BY OwnTask
<1>2. AnswerKept(j)
  BY <1>1 DEF AnswerKept
<1>3. SUFFICES Serial(j)' /\ RequestKept(j)
  BY <1>2 DEF Kept
<1>4. CASE ReadStatus(t)
  <2> DEFINE slot == [pc |-> StageOf(queue_db[j]), job |-> j, status |-> queue_db[j]]
  <2>1. /\ tasks' = [tasks EXCEPT ![t] = slot]
        /\ UNCHANGED <<queue_db, finished_db, disk, channel, calls, resume>>
    BY <1>1, <1>4 DEF ReadStatus, db, flow
  <2>2. TaskIsCurrent(t)'
    BY <1>1, <2>1, StageFacts DEF TaskIsCurrent
  <2>3. Serial(j)'
    BY <1>1, <2>1, <2>2, SerialTaskStays
  <2> QED
    BY <2>1, <2>3 DEF RequestKept
<1>5. CASE ConnectInTask(t)
  <2>1. Untouched(j)
    BY <1>5 DEF ConnectInTask, db, Untouched, Serial, Single
  <2> QED
    BY <2>1, UntouchedIsKept DEF Kept
<1>6. CASE FetchFromDa(t)
  <2> DEFINE slot == [pc |-> "send", job |-> j, status |-> DataAvailable]
  <2>1. /\ tasks' = [tasks EXCEPT ![t] = slot]
        /\ queue_db'[j] = DataAvailable /\ finished_db'[j] = Absent
        /\ UNCHANGED <<disk, channel, calls, resume>>
    BY <1>6 DEF FetchFromDa, StoreStatus, flow
  <2>2. TaskIsCurrent(t)'
    BY <2>1 DEF TaskIsCurrent
  <2>3. Serial(j)'
    BY <2>1, <2>2, SerialTaskStays
  <2>4. queue_db[j] = DataAvailabilityPending
    BY <1>1, <1>6 DEF FetchFromDa, TaskIsCurrent, Shapes, TaskShape
  <2>5. \A r \in Requests : DataAvailabilityPending # ZkProofPending(r)
    BY DEF DataAvailabilityPending, ZkProofPending
  <2> QED
    BY <2>3, <2>4, <2>5 DEF RequestKept
<1>7. CASE DaClientError(t) \/ ZkClientError(t)
  <2> PICK retry \in Retries : FinalizeJob(j, Failed(retry))
    BY <1>7 DEF DaClientError, ZkClientError
  <2>1. /\ tasks' = [tasks EXCEPT ![t] = IdleTask]
        /\ queue_db'[j] = Absent /\ finished_db'[j] = Failed(retry)
        /\ UNCHANGED <<disk, channel, calls, resume>>
    BY <1>7 DEF DaClientError, ZkClientError, FinalizeJob, flow
  <2> QED
    BY <2>1, SerialTaskEnds DEF RequestKept
<1>8. CASE RequestZkProof(t)
  <2> PICK r \in Requests : tasks' = [tasks EXCEPT ![t] =
                               [pc |-> "record", job |-> j, status |-> ZkProofPending(r)]]
    BY <1>8 DEF RequestZkProof
  <2> DEFINE slot == [pc |-> "record", job |-> j, status |-> ZkProofPending(r)]
  <2>1. UNCHANGED <<queue_db, finished_db, disk, channel, calls, resume>>
    BY <1>8 DEF RequestZkProof, db, flow
  <2>2. queue_db[j] = DataAvailable
    BY <1>1, <1>8 DEF RequestZkProof, TaskIsCurrent, Shapes, TaskShape
  <2>3. TaskIsCurrent(t)'
    BY <2>1, <2>2 DEF TaskIsCurrent
  <2>4. tasks' = [tasks EXCEPT ![t] = slot] /\ slot.job = j
    OBVIOUS
  <2>5. Serial(j)'
    BY <1>1, <2>1, <2>3, <2>4, SerialTaskStays
  <2> QED
    BY <2>1, <2>5 DEF RequestKept
<1>9. CASE RecordRequest(t)
  <2> DEFINE slot == [tasks[t] EXCEPT !.pc = "send"]
  <2>1. /\ tasks' = [tasks EXCEPT ![t].pc = "send"]
        /\ queue_db'[j] = tasks[t].status /\ finished_db'[j] = Absent
        /\ UNCHANGED <<disk, channel, calls, resume>>
    BY <1>9 DEF RecordRequest, StoreStatus, flow
  <2>2. tasks[t].status \in PendingStatus
    BY <1>9 DEF RecordRequest, Shapes, TaskShape
  <2>3. TaskIsCurrent(t)'
    BY <2>1 DEF TaskIsCurrent
  <2>4. tasks' = [tasks EXCEPT ![t] = slot] /\ slot.job = j
    BY <2>1
  <2> HIDE DEF slot
  <2>5. Serial(j)'
    BY <2>1, <2>2, <2>3, <2>4, SerialTaskStays
  <2>6. queue_db[j] = DataAvailable
    BY <1>1, <1>9 DEF RecordRequest, TaskIsCurrent
  <2>7. \A r \in Requests : DataAvailable # ZkProofPending(r)
    BY DEF DataAvailable, ZkProofPending
  <2> QED
    BY <2>5, <2>6, <2>7 DEF RequestKept
<1>10. CASE ProofArrives(t)
  <2>1. /\ tasks' = [tasks EXCEPT ![t] = IdleTask]
        /\ queue_db'[j] = Absent
        /\ finished_db'[j] = ZkProofFinished(tasks[t].status.request)
        /\ UNCHANGED <<disk, channel, calls, resume>>
    BY <1>10 DEF ProofArrives, FinalizeJob, flow
  <2>2. queue_db[j] = tasks[t].status
    BY <1>1, <1>10 DEF ProofArrives, TaskIsCurrent
  <2> QED
    BY <2>1, <2>2, SerialTaskEnds DEF RequestKept
<1>11. CASE GiveUp(t)
  <2>1. /\ tasks' = [tasks EXCEPT ![t] = IdleTask]
        /\ UNCHANGED <<queue_db, finished_db, disk, channel, calls, resume>>
    BY <1>11 DEF GiveUp, db, flow
  <2> QED
    BY <1>1, <2>1, SerialTaskEnds DEF RequestKept
<1>12. CASE SendFromTask(t)
  <2>1. /\ tasks' = [tasks EXCEPT ![t] = IdleTask]
        /\ channel' = Append(channel, j)
        /\ UNCHANGED <<queue_db, finished_db, disk, calls, resume>>
    BY <1>12 DEF SendFromTask, db, flow
  <2>2. \A u \in Tasks : tasks'[u].job # j
    BY <1>1, <2>1, JobsAssumption DEF IdleTask
  <2>3. Once(channel', j) /\ ~InTask(j)' /\ ~Sending(j)' /\ j \notin resume'
    BY <1>1, <2>1, <2>2, OnceAppend DEF InTask, Sending, Serial, Single
  <2>4. Single(j)' /\ HeldIsQueued(j)' /\ TasksCurrent(j)'
    BY <1>1, <2>1, <2>2, <2>3
    DEF Serial, Single, HeldIsQueued, TasksCurrent, Sending
  <2> QED
    BY <2>1, <2>4 DEF Serial, InOneTree, InOneDiskTree, RequestKept
<1> QED
  BY <1>4, <1>5, <1>6, <1>7, <1>8, <1>9, <1>10, <1>11, <1>12 DEF TaskStep

-----------------------------------------------------------------------------
(***************************************************************************)
(* Steps of the worker, of main and of the environment                      *)
(***************************************************************************)

LEMMA SerialDispatch ==
  ASSUME TypeInv, NEW j \in Jobs, Serial(j), NEW t \in Tasks, Dispatch(t)
  PROVE  Kept(j)
<1> DEFINE k == Head(channel)
           slot == [pc |-> "spawned", job |-> k, status |-> Absent]
<1>1. /\ channel \in Seq(Jobs \cup {Shutdown}) /\ channel # <<>>
      /\ channel' = Tail(channel) /\ k \in Jobs
      /\ tasks[t].job = NoJob /\ tasks' = [tasks EXCEPT ![t] = slot]
      /\ UNCHANGED <<queue_db, finished_db, disk, calls, resume>>
  BY DEF Dispatch, db, flow, TypeInv, TypeOK, Shapes, TaskShape
<1>2. /\ In(channel, j) <=> In(channel', j) \/ j = k
      /\ Once(channel', j)
      /\ ~(j = k /\ In(channel', j))
  BY <1>1, InTail, OnceTail DEF Serial, Single
<1>3. \A u \in Tasks : u # t => tasks'[u] = tasks[u]
  BY <1>1 DEF TypeInv, TypeOK
<1>4. tasks'[t] = slot
  BY <1>1 DEF TypeInv, TypeOK
<1>5. CASE k # j
  <2>1. \A u \in Tasks : tasks[u].job = j \/ tasks'[u].job = j => tasks'[u] = tasks[u]
    BY <1>1, <1>3, <1>4, <1>5, JobsAssumption
  <2>2. Untouched(j)
    BY <1>1, <1>2, <1>5, <2>1 DEF Untouched
  <2> QED
    BY <2>2, UntouchedIsKept
<1>6. CASE k = j
  <2>1. /\ \A u \in Tasks : tasks[u].job # j
        /\ ~Sending(j) /\ j \notin resume
        /\ queue_db[j] \in PendingStatus
    BY <1>2, <1>6 DEF Serial, Single, HeldIsQueued, InTask, TypeInv, TypeOK
  <2>2. \A u \in Tasks : tasks'[u].job = j => u = t
    BY <1>3, <2>1
  <2>3. TasksCurrent(j)'
    BY <1>1, <1>4, <1>6, <2>1, <2>2 DEF TasksCurrent, TaskIsCurrent
  <2>4. ~Sending(j)' /\ j \notin resume' /\ ~In(channel', j)
    BY <1>1, <1>2, <1>6, <2>1 DEF Sending
  <2>5. Single(j)' /\ HeldIsQueued(j)'
    BY <1>1, <1>2, <2>1, <2>2, <2>4, StatusFacts
    DEF Single, HeldIsQueued, Sending
  <2> QED
    BY <1>1, <2>3, <2>5
    DEF Kept, Serial, InOneTree, InOneDiskTree, AnswerKept, RequestKept
<1> QED
  BY <1>5, <1>6

LEMMA SerialResumeNext ==
  ASSUME TypeInv, NEW j \in Jobs, Serial(j), NEW k \in Jobs, ResumeNext(k)
  PROVE  Kept(j)
<1>1. /\ channel \in Seq(Jobs \cup {Shutdown})
      /\ k \in resume /\ resume' = resume \ {k}
      /\ channel' = Append(channel, k)
      /\ UNCHANGED <<queue_db, finished_db, disk, tasks, calls>>
  BY DEF ResumeNext, db, TypeInv, TypeOK
<1>2. In(channel', j) <=> In(channel, j) \/ j = k
  BY <1>1, InAppend
<1>3. Once(channel', j)
  BY <1>1, OnceAppend DEF Serial, Single
<1>4. CASE k # j
  <2>1. Untouched(j)
    BY <1>1, <1>2, <1>3, <1>4 DEF Untouched
  <2> QED
    BY <2>1, UntouchedIsKept
<1>5. CASE k = j
  <2>1. ~InTask(j)' /\ ~Sending(j)' /\ j \notin resume'
    BY <1>1, <1>5 DEF Serial, Single, InTask, Sending
  <2>2. Single(j)' /\ HeldIsQueued(j)'
    BY <1>1, <1>3, <1>5, <2>1 DEF Serial, Single, HeldIsQueued, InTask, Sending
  <2> QED
    BY <1>1, <2>2 DEF Kept, Serial, TasksCurrent, TaskIsCurrent, InOneTree,
       InOneDiskTree, AnswerKept, RequestKept
<1> QED
  BY <1>4, <1>5

\* Messages that are not jobs, and steps that only move the control around.
LEMMA SerialControl ==
  ASSUME TypeInv, NEW j \in Jobs, Serial(j),
         ReceiveStop \/ Signal \/ Serve \/ StartupConnect \/ UNCHANGED vars
  PROVE  Kept(j)
<1>1. /\ UNCHANGED <<queue_db, finished_db, disk, tasks, calls, resume>>
      /\ channel \in Seq(Jobs \cup {Shutdown})
      /\ Once(channel, j) /\ j # Shutdown
  BY JobsAssumption
  DEF ReceiveStop, Signal, Serve, StartupConnect, vars, db, flow, Serial, Single,
      TypeInv, TypeOK
<1>2. (In(channel', j) <=> In(channel, j)) /\ Once(channel', j)
  <2>1. CASE ReceiveStop
    <3>1. channel # <<>> /\ Head(channel) = Shutdown /\ channel' = Tail(channel)
      BY <2>1 DEF ReceiveStop
    <3> QED
      BY ONLY <1>1, <3>1, InTail, OnceTail
  <2>2. CASE Signal
    <3>1. channel' = Append(channel, Shutdown)
      BY <2>2 DEF Signal
    <3> QED
      BY ONLY <1>1, <3>1, InAppend, OnceAppend
  <2>3. CASE Serve \/ StartupConnect \/ UNCHANGED vars
    BY <1>1, <2>3 DEF Serve, StartupConnect, vars
  <2> QED
    BY <2>1, <2>2, <2>3
<1>3. Untouched(j)
  BY <1>1, <1>2 DEF Untouched
<1> QED
  BY <1>3, UntouchedIsKept

\* A flush gives the disk a tree pair in which the job is in one tree.
LEMMA SerialFlush ==
  ASSUME TypeInv, NEW j \in Jobs, Serial(j), FlushTree \/ BackgroundFlush
  PROVE  Kept(j)
<1>1. /\ UNCHANGED <<queue_db, finished_db, channel, tasks, calls, resume>>
      /\ disk' \in {disk, Image}
  BY DEF FlushTree, Flush, BackgroundFlush, db, flow
<1>2. (InTask(j)' <=> InTask(j)) /\ (Sending(j)' <=> Sending(j))
  BY <1>1 DEF InTask, Sending
<1>3. Single(j)' /\ HeldIsQueued(j)' /\ TasksCurrent(j)' /\ InOneTree(j)'
  BY <1>1, <1>2
  DEF Serial, Single, HeldIsQueued, TasksCurrent, TaskIsCurrent, InOneTree
<1>4. InOneDiskTree(j)'
  BY <1>1 DEF Serial, InOneTree, InOneDiskTree, Image
<1> QED
  BY <1>1, <1>3, <1>4 DEF Kept, Serial, AnswerKept, RequestKept

\* An entry that cannot be read is dropped from the resume loop.
LEMMA SerialResumeSkip ==
  ASSUME TypeInv, NEW j \in Jobs, Serial(j), NEW k \in Jobs, ResumeSkip(k)
  PROVE  Kept(j)
<1>1. /\ UNCHANGED <<queue_db, finished_db, disk, channel, tasks, calls>>
      /\ resume' \subseteq resume
  BY DEF ResumeSkip, db
<1>2. (InTask(j)' <=> InTask(j)) /\ (Sending(j)' <=> Sending(j))
  BY <1>1 DEF InTask, Sending
<1>3. Single(j)' /\ HeldIsQueued(j)'
  BY <1>1, <1>2 DEF Serial, Single, HeldIsQueued
<1> QED
  BY <1>1, <1>3 DEF Kept, Serial, TasksCurrent, TaskIsCurrent, InOneTree,
     InOneDiskTree, AnswerKept, RequestKept

\* A process that starts holds each queued job once, in the resume loop.
LEMMA SerialBoot ==
  ASSUME TypeInv, DownIsEmpty, NEW j \in Jobs, Serial(j), Boot
  PROVE  Kept(j)
<1>1. /\ channel = <<>> /\ channel' = <<>>
      /\ UNCHANGED <<queue_db, finished_db, disk, tasks, calls>>
      /\ resume' = {k \in Jobs : queue_db[k] # Absent}
      /\ \A t \in Tasks : tasks[t].job # j
      /\ \A c \in Calls : calls[c].pc # "send"
  BY JobsAssumption DEF Boot, DownIsEmpty, db, TypeInv, Shapes, TaskShape
<1>2. ~InTask(j)' /\ ~Sending(j)' /\ ~In(channel', j) /\ Once(channel', j)
  BY <1>1, EmptySeq DEF InTask, Sending, In, Once
<1>3. Single(j)' /\ HeldIsQueued(j)'
  BY <1>1, <1>2 DEF Single, HeldIsQueued
<1> QED
  BY <1>1, <1>3 DEF Kept, Serial, TasksCurrent, TaskIsCurrent, InOneTree,
     InOneDiskTree, AnswerKept, RequestKept

LEMMA SerialHalt ==
  ASSUME NEW j \in Jobs, Serial(j), Halt
  PROVE  Serial(j)'
<1>1. /\ channel' = <<>> /\ resume' = {} /\ UNCHANGED disk
      /\ queue_db' = disk.queue /\ finished_db' = disk.finished
      /\ \A t \in Tasks : tasks'[t].job # j
      /\ \A c \in Calls : calls'[c].pc # "send"
  BY JobsAssumption DEF Halt, IdleTask, IdleCall
<1>2. ~InTask(j)' /\ ~Sending(j)' /\ ~In(channel', j) /\ Once(channel', j)
  BY <1>1, EmptySeq DEF InTask, Sending, In, Once
<1>3. Single(j)' /\ HeldIsQueued(j)' /\ TasksCurrent(j)'
  BY <1>1, <1>2 DEF Single, HeldIsQueued, TasksCurrent
<1> QED
  BY <1>1, <1>3 DEF Serial, InOneTree, InOneDiskTree

-----------------------------------------------------------------------------
(***************************************************************************)
(* The theorems                                                             *)
(***************************************************************************)

LEMMA DownStep == TypeInv /\ DownIsEmpty /\ [Next]_vars => DownIsEmpty'
<1> SUFFICES ASSUME TypeInv, DownIsEmpty, [Next]_vars, main' = "down"
             PROVE  /\ channel' = <<>> /\ resume' = {}
                    /\ \A t \in Tasks : tasks'[t].pc = "idle"
                    /\ \A c \in Calls : calls'[c].pc = "idle"
  BY DEF DownIsEmpty
<1>1. CASE Halt
  BY <1>1 DEF Halt, IdleTask, IdleCall
<1>2. CASE ~Halt
  <2>1. main = "down"
    BY <1>2 DEF Next, CallStep, CheckFinished, CheckQueue, InsertNew, Resubmit,
       SendFromCall, CallFails, TaskStep, ReadStatus, ConnectInTask, FetchFromDa,
       DaClientError, RequestZkProof, RecordRequest, ProofArrives, ZkClientError,
       GiveUp, SendFromTask, WorkerStep, Dispatch, ReceiveStop, FlushTree, Exit, Boot,
       MainStep, ResumeNext, ResumeSkip, Serve, StartupConnect,
       StartupConnectFails, Signal, BackgroundFlush, Crash, flow, vars
  <2>2. /\ channel = <<>> /\ resume = {}
        /\ \A t \in Tasks : tasks[t].pc = "idle"
        /\ \A c \in Calls : calls[c].pc = "idle"
    BY <2>1 DEF DownIsEmpty
  <2>3. UNCHANGED <<channel, resume, tasks, calls>>
    BY <1>2, <2>1, <2>2
    DEF Next, CallStep, CheckFinished, CheckQueue, InsertNew, Resubmit,
       SendFromCall, CallFails, TaskStep, ReadStatus, ConnectInTask, FetchFromDa,
       DaClientError, RequestZkProof, RecordRequest, ProofArrives, ZkClientError,
       GiveUp, SendFromTask, WorkerStep, Dispatch, ReceiveStop, FlushTree, Exit, Boot,
       MainStep, ResumeNext, ResumeSkip, Serve, StartupConnect,
       StartupConnectFails, Signal, BackgroundFlush, Crash, flow, vars
  <2> QED
    BY <2>2, <2>3
<1> QED
  BY <1>1, <1>2

\* No step forgets that a job was raced.
LEMMA RacedGrows == TypeInv /\ [Next]_vars => raced \subseteq raced'
  BY DEF Next, CallStep, CheckFinished, CheckQueue, InsertNew, Resubmit,
     SendFromCall, CallFails, TaskStep, ReadStatus, ConnectInTask, FetchFromDa,
     DaClientError, RequestZkProof, RecordRequest, ProofArrives, ZkClientError,
     GiveUp, SendFromTask, WorkerStep, Dispatch, ReceiveStop, FlushTree, Exit, Boot,
     MainStep, ResumeNext, ResumeSkip, Serve, StartupConnect,
     StartupConnectFails, Signal, BackgroundFlush, Crash, Halt, ghost, vars

LEMMA SerialInit == Init => SerialInv
<1> SUFFICES ASSUME Init PROVE SerialInv
  OBVIOUS
<1>1. DownIsEmpty
  BY DEF Init, DownIsEmpty, IdleTask, IdleCall
<1>2. ASSUME NEW j \in Jobs PROVE Serial(j)
  <2>1. ~In(channel, j) /\ Once(channel, j)
    BY EmptySeq DEF Init, In, Once
  <2>2. \A t \in Tasks : tasks[t].job # j
    BY JobsAssumption DEF Init, IdleTask
  <2>3. ~InTask(j) /\ ~Sending(j) /\ j \notin resume
    BY <2>2 DEF Init, InTask, Sending, IdleCall
  <2>4. Single(j) /\ HeldIsQueued(j) /\ TasksCurrent(j)
    BY <2>1, <2>2, <2>3 DEF Single, HeldIsQueued, TasksCurrent, Sending
  <2>5. InOneTree(j) /\ InOneDiskTree(j)
    BY DEF Init, InOneTree, InOneDiskTree, Image
  <2> QED
    BY <2>4, <2>5 DEF Serial
<1> QED
  BY <1>1, <1>2, TypeInit DEF SerialInv

LEMMA SerialKept ==
  ASSUME SerialInv, [Next]_vars, ~Halt, NEW j \in Jobs \ raced'
  PROVE  Kept(j)
<1>1. TypeInv /\ DownIsEmpty /\ Serial(j)
  BY RacedGrows DEF SerialInv
<1>2. ASSUME NEW c \in Calls, CallStep(c) \/ \E k \in Jobs : CheckFinished(c, k)
      PROVE  Kept(j)
  BY <1>1, <1>2, SerialLookups, SerialAdmission, SerialSendFromCall DEF CallStep
<1>3. ASSUME NEW t \in Tasks, TaskStep(t) PROVE Kept(j)
  BY <1>1, <1>3, SerialOtherTask, SerialOwnTask
<1>4. CASE WorkerStep
  BY <1>1, <1>4, SerialDispatch, SerialControl, SerialFlush DEF WorkerStep, Exit
<1>5. CASE MainStep
  BY <1>1, <1>5, SerialResumeNext, SerialResumeSkip, SerialControl DEF MainStep
<1>6. CASE Boot
  BY <1>1, <1>6, SerialBoot
<1>7. CASE StartupConnect \/ Signal \/ BackgroundFlush \/ UNCHANGED vars
  BY <1>1, <1>7, SerialControl, SerialFlush
<1> QED
  BY <1>2, <1>3, <1>4, <1>5, <1>6, <1>7 DEF Next, StartupConnectFails, Crash

LEMMA SerialStep == SerialInv /\ [Next]_vars => SerialInv'
<1> SUFFICES ASSUME SerialInv, [Next]_vars PROVE SerialInv'
  OBVIOUS
<1>1. TypeInv' /\ DownIsEmpty'
  BY TypeStep, DownStep DEF SerialInv
<1>2. ASSUME NEW j \in Jobs \ raced' PROVE Serial(j)'
  <2>1. CASE Halt
    BY <2>1, RacedGrows, SerialHalt DEF SerialInv
  <2>2. CASE ~Halt
    BY <2>2, SerialKept DEF Kept
  <2> QED
    BY <2>1, <2>2
<1> QED
  BY <1>1, <1>2 DEF SerialInv

\* Unless two of its admissions overlapped, a job is held by one part of the
\* process, its task acts on a current status, and it is in one tree: through
\* every interleaving, failure, crash and restart.
THEOREM UnracedSerial == Spec => []UnracedJobIsSerial
<1>1. SerialInv => UnracedJobIsSerial
  BY SingleIsHeldOnce DEF SerialInv, Serial, UnracedJobIsSerial, TasksCurrent
<1> QED
  BY <1>1, SerialInit, SerialStep, PTL DEF Spec

\* The final answer of a job is displaced only by an overlapping admission.
THEOREM UnracedFinal == Spec => UnracedResultFinal
<1>1. SerialInv /\ [Next]_vars =>
        \A j \in Jobs :
          finished_db[j] \in Settling /\ finished_db'[j] # finished_db[j] =>
            main' = "down" \/ j \in raced'
  BY SerialKept DEF Kept, AnswerKept, Halt
<1> QED
  BY <1>1, SerialInit, SerialStep, PTL DEF Spec, UnracedResultFinal

\* A proof request on the disk is left only for its proof or a failure.
THEOREM RecordedRequestKept == Spec => DurableRequestKept
<1>1. SerialInv /\ [Next]_vars =>
        \A j \in Jobs \ raced', r \in Requests :
          queue_db[j] = ZkProofPending(r) /\ OnDisk(j) =>
            \/ queue_db'[j] = ZkProofPending(r)
            \/ /\ queue_db'[j] = Absent
               /\ \/ finished_db'[j] = ZkProofFinished(r)
                  \/ \E retry \in Retries : finished_db'[j] = Failed(retry)
  BY SerialKept DEF Kept, RequestKept, Halt, OnDisk
<1> QED
  BY <1>1, SerialInit, SerialStep, PTL DEF Spec, DurableRequestKept
=============================================================================
