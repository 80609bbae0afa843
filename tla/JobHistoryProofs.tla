-------------------------- MODULE JobHistoryProofs ---------------------------
(***************************************************************************)
(* Theorems about what the service reports of its past: the counters of     *)
(* JobMetrics, the requests of JobRequests and the replies of JobReplies,   *)
(* for every finite set of jobs, calls and tasks and every set of faults.   *)
(***************************************************************************)
EXTENDS JobRequests, JobReplies, JobSerialProofs, FiniteSetTheorems,
        FunctionTheorems

-----------------------------------------------------------------------------
(***************************************************************************)
(* Counting slots and messages                                              *)
(***************************************************************************)

\* Two sets that differ in one element at most.
LEMMA OneElement ==
  ASSUME NEW A, NEW B, NEW x, IsFiniteSet(A), A \ {x} = B \ {x}
  PROVE  /\ IsFiniteSet(B) /\ Cardinality(A) \in Nat /\ Cardinality(B) \in Nat
         /\ (x \in A <=> x \in B) => Cardinality(B) = Cardinality(A)
         /\ x \in B /\ x \notin A => Cardinality(B) = Cardinality(A) + 1
         /\ x \in A /\ x \notin B => Cardinality(A) = Cardinality(B) + 1
<1>1. CASE x \in A <=> x \in B
  <2>1. A = B
    BY <1>1
  <2> QED
    BY <1>1, <2>1, FS_CardinalityType
<1>2. CASE x \in B /\ x \notin A
  <2>1. B = A \cup {x}
    BY <1>2
  <2> QED
    BY <1>2, <2>1, FS_AddElement, FS_CardinalityType
<1>3. CASE x \in A /\ x \notin B
  <2>1. B = A \ {x} /\ A = B \cup {x}
    BY <1>3
  <2>2. IsFiniteSet(B)
    BY <2>1, FS_RemoveElement
  <2> QED
    BY <1>3, <2>1, <2>2, FS_AddElement, FS_CardinalityType
<1> QED
  BY <1>1, <1>2, <1>3

\* The positions of a sequence that hold a job.
Messages(s) == {i \in 1..Len(s) : s[i] \in Jobs}

LEMMA MessagesFinite ==
  ASSUME NEW s \in Seq(Jobs \cup {Shutdown})
  PROVE  IsFiniteSet(Messages(s)) /\ Cardinality(Messages(s)) \in Nat
<1>1. Len(s) \in Nat /\ IsFiniteSet(1..Len(s))
  BY FS_Interval
<1>2. Messages(s) \in SUBSET (1..Len(s))
  BY DEF Messages
<1> QED
  BY <1>1, <1>2, FS_Subset, FS_CardinalityType

LEMMA MessagesAppend ==
  ASSUME NEW s \in Seq(Jobs \cup {Shutdown}), NEW e \in Jobs \cup {Shutdown}
  PROVE  Cardinality(Messages(Append(s, e)))
           = IF e \in Jobs THEN Cardinality(Messages(s)) + 1
             ELSE Cardinality(Messages(s))
<1> DEFINE n == Len(s) + 1
<1>1. /\ Len(s) \in Nat /\ Len(Append(s, e)) = n
      /\ \A i \in 1..Len(s) : Append(s, e)[i] = s[i]
      /\ Append(s, e)[n] = e
  OBVIOUS
<1>2. n \notin Messages(s)
  BY <1>1 DEF Messages
<1>3. n \in Messages(Append(s, e)) <=> e \in Jobs
  BY <1>1 DEF Messages
<1>4. Messages(s) \ {n} = Messages(Append(s, e)) \ {n}
  BY <1>1 DEF Messages
<1> QED
  BY <1>2, <1>3, <1>4, MessagesFinite, OneElement

LEMMA MessagesTail ==
  ASSUME NEW s \in Seq(Jobs \cup {Shutdown}), s # <<>>
  PROVE  Cardinality(Messages(s))
           = IF Head(s) \in Jobs THEN Cardinality(Messages(Tail(s))) + 1
             ELSE Cardinality(Messages(Tail(s)))
<1> DEFINE T == Messages(Tail(s))
           S == Messages(s)
           shift == [i \in T |-> i + 1]
<1>1. /\ Len(s) \in Nat \ {0}
      /\ Tail(s) \in Seq(Jobs \cup {Shutdown})
      /\ Len(Tail(s)) = Len(s) - 1
      /\ \A i \in 1..Len(Tail(s)) : Tail(s)[i] = s[i + 1]
      /\ Head(s) = s[1]
  BY HeadTailProperties, EmptySeq
<1>2. shift \in Bijection(T, S \ {1})
  <2>1. \A i \in T : i \in Nat /\ i + 1 \in S \ {1}
    BY <1>1 DEF Messages
  <2>2. shift \in [T -> S \ {1}]
    BY <2>1
  <2>3. \A i, k \in T : shift[i] = shift[k] => i = k
    BY <2>1
  <2>4. \A k \in S \ {1} : \E i \in T : shift[i] = k
    <3> SUFFICES ASSUME NEW k \in S \ {1} PROVE k - 1 \in T /\ shift[k - 1] = k
      OBVIOUS
    <3>1. k \in Nat /\ k - 1 \in 1..Len(Tail(s)) /\ (k - 1) + 1 = k /\ s[k] \in Jobs
      BY <1>1 DEF Messages
    <3>2. k - 1 \in T
      BY <1>1, <3>1 DEF Messages
    <3> QED
      BY <3>1, <3>2
  <2> QED
    BY <2>2, <2>3, <2>4, Fun_IsBij
<1>3. Cardinality(S \ {1}) = Cardinality(T)
  BY <1>1, <1>2, MessagesFinite, FS_Bijection DEF ExistsBijection
<1>4. 1 \in S <=> Head(s) \in Jobs
  BY <1>1 DEF Messages
<1> HIDE DEF S, T
<1>5. S \ {1} = (S \ {1}) \ {1} /\ IsFiniteSet(S)
  BY MessagesFinite DEF S
<1>6. Cardinality(S) = IF 1 \in S THEN Cardinality(S \ {1}) + 1 ELSE Cardinality(S \ {1})
  BY <1>5, OneElement
<1> QED
  BY <1>3, <1>4, <1>6 DEF S, T

Busy      == {t \in Tasks : tasks[t].pc # "idle"}
Admitting == {c \in Calls : calls[c].pc \in {"insert", "resubmit", "send"}}

\* What a step that moves one task, or one call, does to these sets.
LEMMA BusyChanges ==
  ASSUME NEW t \in Tasks, \A u \in Tasks \ {t} : tasks'[u] = tasks[u]
  PROVE  /\ Cardinality(Busy) \in Nat /\ Cardinality(Busy') \in Nat
         /\ t \in Busy /\ t \in Busy' => Cardinality(Busy') = Cardinality(Busy)
         /\ t \notin Busy /\ t \in Busy' => Cardinality(Busy') = Cardinality(Busy) + 1
         /\ t \in Busy /\ t \notin Busy' => Cardinality(Busy) = Cardinality(Busy') + 1
<1>1. Busy \ {t} = Busy' \ {t}
  BY DEF Busy
<1>2. IsFiniteSet(Busy)
  BY FiniteAssumption, FS_Subset DEF Busy
<1> QED
  BY <1>1, <1>2, OneElement

LEMMA AdmittingChanges ==
  ASSUME NEW c \in Calls, \A d \in Calls \ {c} : calls'[d] = calls[d]
  PROVE  /\ Cardinality(Admitting) \in Nat /\ Cardinality(Admitting') \in Nat
         /\ (c \in Admitting <=> c \in Admitting') =>
              Cardinality(Admitting') = Cardinality(Admitting)
         /\ c \notin Admitting /\ c \in Admitting' =>
              Cardinality(Admitting') = Cardinality(Admitting) + 1
         /\ c \in Admitting /\ c \notin Admitting' =>
              Cardinality(Admitting) = Cardinality(Admitting') + 1
<1>1. Admitting \ {c} = Admitting' \ {c}
  BY DEF Admitting
<1>2. IsFiniteSet(Admitting)
  BY FiniteAssumption, FS_Subset DEF Admitting
<1> QED
  BY <1>1, <1>2, OneElement

-----------------------------------------------------------------------------
(***************************************************************************)
(* The counters                                                             *)
(***************************************************************************)

\* What the counters are between restarts, and right before one.
CountersTyped ==
  /\ attempted \in Nat /\ finished \in Nat /\ errors \in Nat
  /\ resumed \in Nat /\ uncounted \in Nat
  /\ due \in [Reports -> Nat]
  /\ main = "down" => resumed = 0

\* RunsAreConserved alone is not inductive: a restart counts what it resumes
\* anew, which is right because nothing is in flight and nothing was resumed.
RunsInv == TypeInv /\ DownIsEmpty /\ CountersTyped /\ RunsAreConserved

\* Every step of the counted service is a step of the service.
LEMMA CountedStep == MNext => [Next]_vars
  BY DEF MNext, CountAttempt, CountedCallFails, CountedReadStatus, CountedDaError,
     CountedZkError, CountedGiveUp, CountedProof, Report, CountedBoot, CountedHalt,
     CountedSkip, UncountedStep, Next, CallStep, TaskStep, WorkerStep, MainStep

LEMMA FlowTyped ==
  ASSUME TypeInv
  PROVE  /\ Cardinality(Messages(channel)) \in Nat
         /\ IsFiniteSet(resume) /\ Cardinality(resume) \in Nat
         /\ Cardinality(Busy) \in Nat
         /\ Cardinality(Admitting) \in Nat
<1>1. resume \in SUBSET Jobs /\ channel \in Seq(Jobs \cup {Shutdown})
  BY DEF TypeInv, TypeOK
<1>2. Busy \in SUBSET Tasks /\ Admitting \in SUBSET Calls
  BY DEF Busy, Admitting
<1> QED
  BY <1>1, <1>2, MessagesFinite, FiniteAssumption, FS_Subset, FS_CardinalityType

\* The runs in flight, by the sets just counted.
InFlight == Cardinality(Messages(channel)) + Cardinality(resume) + Cardinality(Busy)
              + Cardinality(Admitting)

LEMMA SameFlight == RunsInFlight = InFlight /\ RunsInFlight' = InFlight'
  BY DEF RunsInFlight, InFlight, Messages, Busy, Admitting

\* A step that moves one call only.
LEMMA FlowOfCall ==
  ASSUME TypeInv, NEW c \in Calls, \A d \in Calls \ {c} : calls'[d] = calls[d],
         UNCHANGED <<channel, tasks, resume>>
  PROVE  /\ InFlight \in Nat /\ InFlight' \in Nat
         /\ (c \in Admitting <=> c \in Admitting') => InFlight' = InFlight
         /\ c \notin Admitting /\ c \in Admitting' => InFlight' = InFlight + 1
         /\ c \in Admitting /\ c \notin Admitting' => InFlight = InFlight' + 1
<1>1. Busy' = Busy
  BY DEF Busy
<1> QED
  BY <1>1, FlowTyped, AdmittingChanges DEF InFlight

\* A step that moves one busy task only.
LEMMA FlowOfTask ==
  ASSUME TypeInv, NEW t \in Tasks, \A u \in Tasks \ {t} : tasks'[u] = tasks[u],
         t \in Busy, UNCHANGED <<channel, calls, resume>>
  PROVE  /\ InFlight \in Nat /\ InFlight' \in Nat
         /\ t \in Busy' => InFlight' = InFlight
         /\ t \notin Busy' => InFlight = InFlight' + 1
<1>1. Admitting' = Admitting
  BY DEF Admitting
<1> QED
  BY <1>1, FlowTyped, BusyChanges DEF InFlight

\* The runs that have ended.
Closed == finished + errors + due["finished"] + due["error"] + uncounted

\* RunsAreConserved as an account of these two.
Balanced ==
  /\ Closed \in Nat /\ attempted \in Nat /\ resumed \in Nat
  /\ RunsAreConserved <=> attempted + resumed = InFlight + Closed

LEMMA Account == CountersTyped /\ InFlight \in Nat => Balanced
<1> SUFFICES ASSUME CountersTyped, InFlight \in Nat PROVE Balanced
  OBVIOUS
<1>1. /\ attempted \in Nat /\ resumed \in Nat /\ finished \in Nat /\ errors \in Nat
      /\ uncounted \in Nat /\ due["finished"] \in Nat /\ due["error"] \in Nat
  BY DEF CountersTyped, Reports
<1> DEFINE balance == InFlight + finished + errors + due["finished"] + due["error"]
                        + uncounted
<1>2. balance = InFlight + Closed /\ Closed \in Nat
  BY <1>1 DEF Closed
<1>3. RunsAreConserved <=> attempted + resumed = balance
  BY SameFlight DEF RunsAreConserved
<1> QED
  BY <1>1, <1>2, <1>3 DEF Balanced

\* What starts is in flight or has ended already; what ends was in flight.
LEMMA AccountKept ==
  ASSUME CountersTyped, RunsAreConserved, CountersTyped',
         InFlight \in Nat, InFlight' \in Nat,
         attempted' + resumed' + (InFlight + Closed)
           = attempted + resumed + (InFlight' + Closed')
  PROVE  RunsAreConserved'
<1>1. Balanced
  BY Account
<1>2. Balanced'
  <2>1. CountersTyped' /\ (InFlight \in Nat)' => Balanced'
    BY Account, PTL
  <2> QED
    BY <2>1
<1> QED
  BY <1>1, <1>2 DEF Balanced

\* A call starts a run exactly when it is counted, and a counted call that fails
\* is one of the runs nobody will know of.
LEMMA RunsOfCalls ==
  ASSUME RunsInv, NEW c \in Calls, CountAttempt(c) \/ CountedCallFails(c)
  PROVE  CountersTyped' /\ RunsAreConserved'
<1> USE DEF RunsInv
<1>1. /\ UNCHANGED <<channel, tasks, resume, main, finished, errors, due, resumed>>
      /\ \A d \in Calls \ {c} : calls'[d] = calls[d]
  BY DEF CountAttempt, CountedCallFails, CheckFinished, CheckQueue, CallFails, flow,
     EndsUncounted, metrics, TypeInv, TypeOK
<1>2. CASE CountAttempt(c)
  <2>1. calls[c].pc \in {"idle", "check_queue"} /\ calls'[c].pc # "send"
    BY <1>2 DEF CountAttempt, CheckFinished, CheckQueue, IdleCall, TypeInv, TypeOK
  <2>2. /\ c \notin Admitting
        /\ c \in Admitting' <=> calls'[c].pc \in {"insert", "resubmit"}
    BY <2>1 DEF Admitting
  <2>3. /\ uncounted' = uncounted
        /\ attempted' = IF c \in Admitting' THEN attempted + 1 ELSE attempted
    BY <1>2, <2>2 DEF CountAttempt
  <2>4. CountersTyped' /\ attempted \in Nat /\ resumed \in Nat
    BY <1>1, <2>3 DEF CountersTyped
  <2>5. Closed \in Nat /\ Closed' = Closed
    BY <1>1, <2>3 DEF Closed, CountersTyped, Reports
  <2>6. /\ InFlight \in Nat /\ InFlight' \in Nat
        /\ InFlight' = IF c \in Admitting' THEN InFlight + 1 ELSE InFlight
    BY <1>1, <2>2, FlowOfCall
  <2>7. attempted' + resumed + (InFlight + Closed)
          = attempted + resumed + (InFlight' + Closed)
    BY <2>3, <2>4, <2>5, <2>6
  <2> QED
    BY <1>1, <2>4, <2>5, <2>6, <2>7, AccountKept
<1>3. CASE CountedCallFails(c)
  <2>1. attempted' = attempted /\ c \notin Admitting'
    BY <1>3 DEF CountedCallFails, CallFails, EndsUncounted, metrics, Admitting,
       IdleCall, TypeInv, TypeOK
  <2>2. uncounted' = IF c \in Admitting THEN uncounted + 1 ELSE uncounted
    BY <1>3 DEF CountedCallFails, CallFails, EndsUncounted, metrics, Admitting
  <2>3. /\ InFlight \in Nat /\ InFlight' \in Nat
        /\ IF c \in Admitting THEN InFlight = InFlight' + 1 ELSE InFlight' = InFlight
    BY <1>1, <2>1, FlowOfCall
  <2>4. CountersTyped' /\ attempted \in Nat /\ resumed \in Nat
    BY <1>1, <2>1, <2>2 DEF CountersTyped
  <2>5. /\ Closed \in Nat /\ Closed' \in Nat
        /\ Closed' = IF c \in Admitting THEN Closed + 1 ELSE Closed
    BY <1>1, <2>2 DEF Closed, CountersTyped, Reports
  <2>6. InFlight' + Closed' = InFlight + Closed
    <3>1. CASE c \in Admitting
      <4>1. InFlight = InFlight' + 1 /\ Closed' = Closed + 1
        BY <2>3, <2>5, <3>1
      <4> QED
        BY <2>3, <2>5, <4>1
    <3>2. CASE c \notin Admitting
      BY <2>3, <2>5, <3>2
    <3> QED
      BY <3>1, <3>2
  <2> QED
    BY <1>1, <2>1, <2>3, <2>4, <2>6, AccountKept
<1> QED
  BY <1>2, <1>3

\* A task that ends a run reports it, or the run is one nobody will know of.
LEMMA RunsOfTasks ==
  ASSUME RunsInv, NEW t \in Tasks,
         \/ CountedReadStatus(t) \/ CountedDaError(t) \/ CountedZkError(t)
         \/ CountedGiveUp(t) \/ CountedProof(t)
  PROVE  CountersTyped' /\ RunsAreConserved'
<1> USE DEF RunsInv
<1>1. /\ UNCHANGED <<channel, calls, resume, main>>
      /\ \A u \in Tasks \ {t} : tasks'[u] = tasks[u]
      /\ t \in Busy
  BY DEF CountedReadStatus, CountedDaError, CountedZkError, CountedGiveUp, CountedProof,
     ReadStatus, DaClientError, ZkClientError, GiveUp, ProofArrives, flow, Busy,
     TypeInv, TypeOK
<1>2. UNCHANGED <<attempted, finished, errors, resumed>>
  BY DEF CountedReadStatus, CountedDaError, CountedZkError, CountedGiveUp, CountedProof,
     Reporting, EndsUncounted, metrics
<1>3. CASE t \in Busy'
  <2>1. UNCHANGED metrics
    BY <1>3 DEF CountedReadStatus, CountedDaError, CountedZkError, CountedGiveUp,
       CountedProof, ReadStatus, DaClientError, ZkClientError, GiveUp, ProofArrives,
       Busy, IdleTask, TypeInv, TypeOK
  <2>2. InFlight \in Nat /\ InFlight' = InFlight
    BY <1>1, <1>3, FlowOfTask
  <2>3. CountersTyped' /\ Closed' = Closed
    BY <1>1, <2>1 DEF metrics, CountersTyped, Closed
  <2> QED
    BY <2>1, <2>2, <2>3, AccountKept DEF metrics
<1>4. CASE t \notin Busy'
  <2>1. EndsUncounted \/ \E report \in Reports : Reporting(report)
    BY <1>4 DEF CountedReadStatus, CountedDaError, CountedZkError, CountedGiveUp,
       CountedProof, Busy, Reports
  <2>2. due["finished"] \in Nat /\ due["error"] \in Nat /\ uncounted \in Nat
    BY DEF CountersTyped, Reports
  <2>3. /\ due' \in [Reports -> Nat] /\ uncounted' \in Nat
        /\ \/ due' = due /\ uncounted' = uncounted + 1
           \/ /\ due'["finished"] = due["finished"] + 1 /\ due'["error"] = due["error"]
              /\ uncounted' = uncounted
           \/ /\ due'["error"] = due["error"] + 1 /\ due'["finished"] = due["finished"]
              /\ uncounted' = uncounted
    BY <2>1 DEF EndsUncounted, Reporting, Reports, CountersTyped
  <2>4. CountersTyped'
    BY <1>1, <1>2, <2>3 DEF CountersTyped
  <2>5. Closed \in Nat /\ Closed' \in Nat /\ Closed' = Closed + 1
    <3>1. /\ finished \in Nat /\ errors \in Nat
          /\ finished' = finished /\ errors' = errors
      BY <1>2 DEF CountersTyped
    <3>2. CASE due' = due /\ uncounted' = uncounted + 1
      BY <2>2, <3>1, <3>2 DEF Closed
    <3>3. CASE /\ due'["finished"] = due["finished"] + 1 /\ due'["error"] = due["error"]
               /\ uncounted' = uncounted
      BY <2>2, <3>1, <3>3 DEF Closed
    <3>4. CASE /\ due'["error"] = due["error"] + 1 /\ due'["finished"] = due["finished"]
               /\ uncounted' = uncounted
      BY <2>2, <3>1, <3>4 DEF Closed
    <3> QED
      BY <2>3, <3>2, <3>3, <3>4
  <2>6. InFlight \in Nat /\ InFlight' \in Nat /\ InFlight = InFlight' + 1
    BY <1>1, <1>4, FlowOfTask
  <2>7. InFlight' + Closed' = InFlight + Closed
    BY <2>5, <2>6
  <2> QED
    BY <1>2, <2>4, <2>6, <2>7, AccountKept
<1> QED
  BY <1>3, <1>4

\* Whatever hands a run on keeps it: a message becomes a task, a task or a call
\* a message, an entry to resume a message.
LEMMA RunsHandedOn ==
  ASSUME TypeInv, UncountedStep
  PROVE  InFlight \in Nat /\ InFlight' = InFlight
<1>1. /\ channel \in Seq(Jobs \cup {Shutdown})
      /\ resume \in SUBSET Jobs
      /\ Shutdown \notin Jobs
      /\ \A e \in Jobs : Cardinality(Messages(Append(channel, e)))
                           = Cardinality(Messages(channel)) + 1
  BY JobsAssumption, MessagesAppend DEF TypeInv, TypeOK
<1>2. ASSUME NEW c \in Calls, InsertNew(c) \/ Resubmit(c) PROVE InFlight' = InFlight
  BY <1>2, FlowOfCall
  DEF InsertNew, Resubmit, flow, Admitting, TypeInv, TypeOK
<1>3. ASSUME NEW c \in Calls, SendFromCall(c) PROVE InFlight' = InFlight
  <2>1. /\ channel' = Append(channel, calls[c].job) /\ calls[c].job \in Jobs
        /\ c \in Admitting /\ c \notin Admitting'
        /\ \A d \in Calls \ {c} : calls'[d] = calls[d]
        /\ UNCHANGED <<tasks, resume>>
    BY <1>3 DEF SendFromCall, flow, Admitting, IdleCall, TypeInv, TypeOK, Shapes,
       CallShape
  <2>2. Busy' = Busy
    BY <2>1 DEF Busy
  <2>3. Cardinality(Admitting) = Cardinality(Admitting') + 1
        /\ Cardinality(Admitting') \in Nat
    BY <2>1, AdmittingChanges
  <2>4. Cardinality(Messages(channel')) = Cardinality(Messages(channel)) + 1
    BY <1>1, <2>1
  <2> QED
    BY <2>1, <2>2, <2>3, <2>4, FlowTyped DEF InFlight
<1>4. ASSUME NEW t \in Tasks,
             ConnectInTask(t) \/ FetchFromDa(t) \/ RequestZkProof(t) \/ RecordRequest(t)
      PROVE  InFlight' = InFlight
  <2>1. /\ t \in Busy /\ t \in Busy'
        /\ \A u \in Tasks \ {t} : tasks'[u] = tasks[u]
        /\ UNCHANGED <<channel, calls, resume>>
    BY <1>4 DEF ConnectInTask, FetchFromDa, RequestZkProof, RecordRequest, flow, Busy,
       TypeInv, TypeOK
  <2> QED
    BY <2>1, FlowOfTask
<1>5. ASSUME NEW t \in Tasks, SendFromTask(t) PROVE InFlight' = InFlight
  <2>1. /\ channel' = Append(channel, tasks[t].job) /\ tasks[t].job \in Jobs
        /\ t \in Busy /\ t \notin Busy'
        /\ \A u \in Tasks \ {t} : tasks'[u] = tasks[u]
        /\ UNCHANGED <<calls, resume>>
    BY <1>5 DEF SendFromTask, flow, Busy, IdleTask, TypeInv, TypeOK, Shapes, TaskShape
  <2>2. Admitting' = Admitting
    BY <2>1 DEF Admitting
  <2>3. Cardinality(Busy) = Cardinality(Busy') + 1 /\ Cardinality(Busy') \in Nat
    BY <2>1, BusyChanges
  <2>4. Cardinality(Messages(channel')) = Cardinality(Messages(channel)) + 1
    BY <1>1, <2>1
  <2> QED
    BY <2>1, <2>2, <2>3, <2>4, FlowTyped DEF InFlight
<1>6. ASSUME NEW t \in Tasks, Dispatch(t) PROVE InFlight' = InFlight
  <2>1. /\ channel # <<>> /\ Head(channel) \in Jobs /\ channel' = Tail(channel)
        /\ t \notin Busy /\ t \in Busy'
        /\ \A u \in Tasks \ {t} : tasks'[u] = tasks[u]
        /\ UNCHANGED <<calls, resume>>
    BY <1>6 DEF Dispatch, flow, Busy, TypeInv, TypeOK
  <2>2. Admitting' = Admitting
    BY <2>1 DEF Admitting
  <2>3. Cardinality(Messages(channel)) = Cardinality(Messages(channel')) + 1
        /\ Cardinality(Messages(channel')) \in Nat
    BY <1>1, <2>1, MessagesTail, MessagesFinite, HeadTailProperties
  <2>4. Cardinality(Busy') = Cardinality(Busy) + 1
    BY <2>1, BusyChanges
  <2> QED
    BY <2>1, <2>2, <2>3, <2>4, FlowTyped DEF InFlight
<1>7. ASSUME NEW j \in Jobs, ResumeNext(j) PROVE InFlight' = InFlight
  <2>1. /\ j \in resume /\ resume' = resume \ {j}
        /\ channel' = Append(channel, j)
        /\ UNCHANGED <<tasks, calls>>
    BY <1>7 DEF ResumeNext
  <2>2. Busy' = Busy /\ Admitting' = Admitting
    BY <2>1 DEF Busy, Admitting
  <2>3. Cardinality(resume') = Cardinality(resume) - 1
    BY <2>1, FlowTyped, FS_RemoveElement
  <2> QED
    BY <1>1, <2>1, <2>2, <2>3, FlowTyped DEF InFlight
<1>8. ASSUME ReceiveStop \/ Signal PROVE InFlight' = InFlight
  <2>1. UNCHANGED <<tasks, calls, resume>>
    BY <1>8 DEF ReceiveStop, Signal
  <2>2. Busy' = Busy /\ Admitting' = Admitting
    BY <2>1 DEF Busy, Admitting
  <2>3. Cardinality(Messages(channel')) = Cardinality(Messages(channel))
    <3>1. CASE ReceiveStop
      BY <1>1, <3>1, MessagesTail DEF ReceiveStop
    <3>2. CASE Signal
      BY <1>1, <3>2, MessagesAppend DEF Signal
    <3> QED
      BY <1>8, <3>1, <3>2
  <2> QED
    BY <2>1, <2>2, <2>3 DEF InFlight
<1>9. ASSUME FlushTree \/ Serve \/ StartupConnect \/ BackgroundFlush
      PROVE  InFlight' = InFlight
  <2>1. UNCHANGED <<channel, tasks, calls, resume>>
    BY <1>9 DEF FlushTree, Serve, StartupConnect, BackgroundFlush, flow
  <2> QED
    BY <2>1 DEF InFlight, Messages, Busy, Admitting
<1>10. InFlight \in Nat
  BY FlowTyped DEF InFlight
<1> QED
  BY <1>2, <1>3, <1>4, <1>5, <1>6, <1>7, <1>8, <1>9, <1>10 DEF UncountedStep

\* Nothing is in flight in a process that is about to start.
LEMMA NothingInFlight ==
  ASSUME channel = <<>>, \A t \in Tasks : tasks[t].pc = "idle",
         \A c \in Calls : calls[c].pc = "idle", IsFiniteSet(resume)
  PROVE  InFlight = Cardinality(resume)
<1>1. Messages(channel) = {} /\ Busy = {} /\ Admitting = {}
  BY EmptySeq DEF Messages, Busy, Admitting
<1>2. Cardinality(resume) \in Nat
  BY FS_CardinalityType
<1>3. /\ Cardinality(Messages(channel)) = 0
      /\ Cardinality(Busy) = 0 /\ Cardinality(Admitting) = 0
  BY <1>1, FS_EmptySet
<1> QED
  BY <1>2, <1>3 DEF InFlight

LEMMA RunsOfRestarts ==
  ASSUME RunsInv, CountedBoot \/ CountedHalt \/ \E j \in Jobs : CountedSkip(j)
  PROVE  CountersTyped' /\ RunsAreConserved'
<1> USE DEF RunsInv
<1>1. CASE CountedBoot
  <2>1. /\ main = "down" /\ main' # "down" /\ resume = {}
        /\ UNCHANGED <<channel, tasks, calls>>
        /\ resume' \in SUBSET Jobs /\ resumed' = Cardinality(resume')
        /\ UNCHANGED <<attempted, finished, errors, due, uncounted>>
    BY <1>1 DEF CountedBoot, Boot, DownIsEmpty
  <2>2. IsFiniteSet(resume') /\ Cardinality(resume') \in Nat
    BY <2>1, FiniteAssumption, FS_Subset, FS_CardinalityType
  <2>3. Messages(channel) = {} /\ Busy = {} /\ Admitting = {}
    BY <2>1, EmptySeq DEF Messages, Busy, Admitting, DownIsEmpty
  <2>4. Messages(channel') = {} /\ Busy' = {} /\ Admitting' = {}
    BY <2>1, <2>3 DEF Busy, Admitting
  <2>5. InFlight = 0 /\ InFlight' = Cardinality(resume')
    BY <2>1, <2>2, <2>3, <2>4, FS_EmptySet DEF InFlight
  <2>6. CountersTyped' /\ Closed' = Closed /\ resumed = 0
    BY <2>1, <2>2 DEF CountersTyped, Closed
  <2>7. Balanced
    BY <2>5, Account
  <2>8. attempted + resumed' + (InFlight + Closed)
          = attempted + resumed + (InFlight' + Closed)
    BY <2>1, <2>2, <2>5, <2>6, <2>7 DEF Balanced
  <2> QED
    BY <2>1, <2>2, <2>5, <2>6, <2>8, AccountKept
<1>2. CASE CountedHalt
  <2>1. Halt
    BY <1>2 DEF CountedHalt, Exit, StartupConnectFails, Crash
  <2>2. Messages(channel') = {} /\ Busy' = {} /\ Admitting' = {} /\ resume' = {}
    BY <2>1, EmptySeq DEF Halt, Messages, Busy, Admitting, IdleTask, IdleCall
  <2>3. InFlight' = 0
    BY <2>2, FS_EmptySet DEF InFlight
  <2> QED
    BY <1>2, <2>3, SameFlight DEF CountedHalt, CountersTyped, RunsAreConserved, Reports
<1>3. ASSUME NEW j \in Jobs, CountedSkip(j) PROVE CountersTyped' /\ RunsAreConserved'
  <2>1. /\ j \in resume /\ resume' = resume \ {j}
        /\ UNCHANGED <<channel, tasks, calls, main>>
        /\ uncounted' = uncounted + 1
        /\ UNCHANGED <<attempted, finished, errors, due, resumed>>
    BY <1>3 DEF CountedSkip, ResumeSkip, EndsUncounted
  <2>2. Busy' = Busy /\ Admitting' = Admitting
    BY <2>1 DEF Busy, Admitting
  <2>3. Cardinality(resume') = Cardinality(resume) - 1
    BY <2>1, FlowTyped, FS_RemoveElement
  <2>4. Cardinality(resume') \in Nat
    BY <2>1, FlowTyped, FS_RemoveElement, FS_CardinalityType
  <2>5. InFlight \in Nat /\ InFlight' \in Nat /\ InFlight = InFlight' + 1
    BY <2>1, <2>2, <2>3, <2>4, FlowTyped DEF InFlight
  <2>6. CountersTyped'
    BY <2>1 DEF CountersTyped
  <2>7. Closed \in Nat /\ Closed' \in Nat /\ Closed' = Closed + 1
    BY <2>1 DEF Closed, CountersTyped, Reports
  <2>8. InFlight' + Closed' = InFlight + Closed
    BY <2>5, <2>7
  <2> QED
    BY <2>1, <2>5, <2>6, <2>8, AccountKept
<1> QED
  BY <1>1, <1>2, <1>3

LEMMA RunsStep == RunsInv /\ [MNext]_mvars => RunsInv'
<1> SUFFICES ASSUME RunsInv, [MNext]_mvars PROVE CountersTyped' /\ RunsAreConserved'
  BY CountedStep, TypeStep, DownStep DEF RunsInv, mvars, vars
<1> USE DEF RunsInv
<1>1. ASSUME NEW c \in Calls, CountAttempt(c) \/ CountedCallFails(c)
      PROVE  CountersTyped' /\ RunsAreConserved'
  BY <1>1, RunsOfCalls
<1>2. ASSUME NEW t \in Tasks,
             \/ CountedReadStatus(t) \/ CountedDaError(t) \/ CountedZkError(t)
             \/ CountedGiveUp(t) \/ CountedProof(t)
      PROVE  CountersTyped' /\ RunsAreConserved'
  BY <1>2, RunsOfTasks
<1>3. ASSUME NEW report \in Reports, Report(report)
      PROVE  CountersTyped' /\ RunsAreConserved'
  <2>1. InFlight \in Nat /\ InFlight' = InFlight
    BY <1>3, FlowTyped DEF Report, vars, InFlight, Messages, Busy, Admitting
  <2>2. CountersTyped'
    BY <1>3 DEF Report, vars, CountersTyped, Reports
  <2>3. Closed' = Closed
    BY <1>3 DEF Report, Closed, CountersTyped, Reports
  <2> QED
    BY <1>3, <2>1, <2>2, <2>3, AccountKept DEF Report
<1>4. CASE CountedBoot \/ CountedHalt \/ \E j \in Jobs : CountedSkip(j)
  BY <1>4, RunsOfRestarts
<1>5. CASE UncountedStep
  <2>1. main' = "down" => main = "down"
    BY <1>5 DEF UncountedStep, InsertNew, Resubmit, SendFromCall, ConnectInTask,
       FetchFromDa, RequestZkProof, RecordRequest, SendFromTask, Dispatch, ReceiveStop,
       FlushTree, Serve, StartupConnect, Signal, BackgroundFlush, ResumeNext, flow
  <2>2. UNCHANGED metrics
    BY <1>5 DEF UncountedStep
  <2> QED
    BY <1>5, <2>1, <2>2, RunsHandedOn, SameFlight
    DEF metrics, CountersTyped, RunsAreConserved
<1>6. CASE UNCHANGED mvars
  <2>1. InFlight' = InFlight
    BY <1>6 DEF mvars, vars, InFlight, Messages, Busy, Admitting
  <2> QED
    BY <1>6, <2>1, SameFlight
    DEF mvars, vars, metrics, CountersTyped, RunsAreConserved
<1> QED
  BY <1>1, <1>2, <1>3, <1>4, <1>5, <1>6 DEF MNext

\* RunsAreConserved: between two restarts, every run the service began is in
\* flight, counted, about to be, or one of those it never counts.
THEOREM NoRunIsLostOrDoubled == MSpec => []RunsAreConserved
<1>1. MInit => RunsInv
  <2> SUFFICES ASSUME MInit PROVE RunsInv
    OBVIOUS
  <2>1. TypeInv /\ DownIsEmpty /\ CountersTyped
    BY TypeInit DEF MInit, Init, DownIsEmpty, IdleTask, IdleCall, CountersTyped, Reports
  <2>2. resume = {}
    BY DEF MInit, Init
  <2>3. InFlight = 0
    BY <2>2, NothingInFlight, FS_EmptySet DEF MInit, Init, IdleTask, IdleCall
  <2> QED
    BY <2>1, <2>3, SameFlight DEF RunsInv, RunsAreConserved, MInit, Reports
<1>2. RunsInv => RunsAreConserved
  BY DEF RunsInv
<1> QED
  BY <1>1, <1>2, RunsStep, PTL DEF MSpec
-----------------------------------------------------------------------------
(***************************************************************************)
(* The requests                                                             *)
(***************************************************************************)

Requested(j) == \E r \in Requests : requests[r] = j

\* The service knows of j's request: it is stored, answered, or about to be stored.
Remembered(j) ==
  \/ queue_db[j] \in {ZkProofPending(r) : r \in Requests}
  \/ finished_db[j] \in {ZkProofFinished(r) : r \in Requests}
  \/ \E t \in Tasks : tasks[t].pc = "record" /\ tasks[t].job = j

\* What RequestedOncePerReason rests on: a request is known for as long as
\* there is no reason to make another one, and only jobs that were never raced
\* can be relied on to act on what is known.
RequestInv ==
  /\ SerialInv
  /\ raced \subseteq excused
  /\ \A j \in Jobs \ excused : Requested(j) => Remembered(j)

\* Only one step makes requests, and it makes them for the job of its task.
LEMMA RequestsStep ==
  [Next]_vars => UNCHANGED requests \/ \E t \in Tasks : RequestZkProof(t)
  BY DEF Next, CallStep, CheckFinished, CheckQueue, InsertNew, Resubmit,
     SendFromCall, CallFails, TaskStep, ReadStatus, ConnectInTask, FetchFromDa,
     DaClientError, RecordRequest, ProofArrives, ZkClientError,
     GiveUp, SendFromTask, WorkerStep, Dispatch, ReceiveStop, FlushTree, Exit, Boot,
     MainStep, ResumeNext, ResumeSkip, Serve, StartupConnect,
     StartupConnectFails, Signal, BackgroundFlush, Crash, Halt, vars

LEMMA NewRequestStep ==
  ASSUME TypeInv, [Next]_vars, NEW j \in Jobs, NewRequest(j)
  PROVE  /\ ~Halt
         /\ \E t \in Tasks : /\ tasks[t].pc = "prove" /\ tasks[t].job = j
                             /\ tasks'[t].pc = "record" /\ tasks'[t].job = j
<1>1. PICK r \in Requests : requests[r] = NoJob /\ requests'[r] = j
  BY DEF NewRequest
<1>2. j # NoJob
  BY JobsAssumption
<1>3. PICK t \in Tasks : RequestZkProof(t)
  BY <1>1, <1>2, RequestsStep
<1>4. PICK q \in Requests :
        /\ requests[q] = NoJob
        /\ requests' = [requests EXCEPT ![q] = tasks[t].job]
        /\ tasks' = [tasks EXCEPT ![t] = [pc |-> "record", job |-> tasks[t].job,
                                           status |-> ZkProofPending(q)]]
  BY <1>3 DEF RequestZkProof
<1>5. tasks[t].job = j
  BY <1>1, <1>2, <1>4 DEF TypeInv, TypeOK
<1>6. tasks[t].pc = "prove" /\ tasks'[t].pc = "record" /\ tasks'[t].job = j
  BY <1>3, <1>4, <1>5 DEF RequestZkProof, TypeInv, TypeOK
<1>7. ~Halt
  BY <1>1, <1>2 DEF Halt
<1> QED
  BY <1>5, <1>6, <1>7

LEMMA RequestsStay ==
  ASSUME TypeInv, [Next]_vars, NEW j \in Jobs, ~NewRequest(j),
         NEW r \in Requests, requests'[r] = j
  PROVE  requests[r] = j
<1>1. ASSUME NEW t \in Tasks, RequestZkProof(t) PROVE requests[r] = j
  BY <1>1 DEF RequestZkProof, NewRequest, TypeInv, TypeOK
<1> QED
  BY <1>1, RequestsStep

\* Whatever else happens, a task about to record its request is left alone.
LEMMA StepOfTask ==
  ASSUME TypeInv, [Next]_vars, ~Halt, NEW t \in Tasks, tasks[t].pc = "record",
         ~RecordRequest(t), ~GiveUp(t)
  PROVE  tasks'[t] = tasks[t]
  BY DEF Next, CallStep, CheckFinished, CheckQueue, InsertNew, Resubmit,
     SendFromCall, CallFails, TaskStep, ReadStatus, ConnectInTask, FetchFromDa,
     DaClientError, RequestZkProof, RecordRequest, ProofArrives, ZkClientError,
     GiveUp, SendFromTask, WorkerStep, Dispatch, ReceiveStop, FlushTree, Exit, Boot,
     MainStep, ResumeNext, ResumeSkip, Serve, StartupConnect,
     StartupConnectFails, Signal, BackgroundFlush, Crash, vars, TypeInv, TypeOK

\* A request that is known stays known while nothing goes wrong with the job.
LEMMA RememberedKept ==
  ASSUME SerialInv, [Next]_vars, NEW j \in Jobs, ~Reason(j), Remembered(j)
  PROVE  Remembered(j)'
<1>1. CASE Halt
  <2>1. /\ queue_db' = disk.queue /\ finished_db' = disk.finished
        /\ ~Forgotten(j)
    BY <1>1 DEF Halt, Reason
  <2> QED
    BY <2>1 DEF Forgotten, Remembered
<1>2. CASE ~Halt
  <2>1. j \in Jobs \ raced' /\ j \notin abandoned'
        /\ \A retry \in Retries : finished_db'[j] # Failed(retry)
    BY DEF Reason
  <2>2. Kept(j) /\ Serial(j) /\ TypeInv
    BY <1>2, <2>1, SerialKept, RacedGrows DEF SerialInv
  <2>3. ASSUME NEW r \in Requests, queue_db[j] = ZkProofPending(r)
        PROVE  Remembered(j)'
    BY <2>1, <2>2, <2>3 DEF Kept, RequestKept, Remembered
  <2>4. ASSUME NEW r \in Requests, finished_db[j] = ZkProofFinished(r)
        PROVE  Remembered(j)'
    <3>1. finished_db'[j] = ZkProofFinished(r)
      BY <2>2, <2>4 DEF Kept, AnswerKept, Settling
    <3> QED
      BY <3>1 DEF Remembered
  <2>5. ASSUME NEW t \in Tasks, tasks[t].pc = "record", tasks[t].job = j
        PROVE  Remembered(j)'
    <3>1. queue_db[j] = DataAvailable
      BY <2>2, <2>5 DEF Serial, TasksCurrent, TaskIsCurrent
    <3>2. CASE RecordRequest(t)
      <4>1. queue_db'[j] = tasks[t].status
        BY <2>2, <2>5, <3>2 DEF RecordRequest, StoreStatus, TypeInv, TypeOK
      <4>2. \E r \in Requests : tasks[t].status = ZkProofPending(r)
        BY <2>2, <2>5 DEF TypeInv, Shapes, TaskShape
      <4> QED
        BY <4>1, <4>2 DEF Remembered
    <3>3. ~GiveUp(t)
      BY <2>1, <2>5, <3>1, StatusFacts DEF GiveUp, TypeInv, TypeOK
    <3>4. CASE ~RecordRequest(t)
      <4>1. tasks'[t] = tasks[t]
        BY <1>2, <2>2, <2>5, <3>3, <3>4, StepOfTask
      <4> QED
        BY <2>5, <4>1 DEF Remembered
    <3> QED
      BY <3>2, <3>4
  <2> QED
    BY <2>3, <2>4, <2>5 DEF Remembered
<1> QED
  BY <1>1, <1>2

LEMMA RequestStep == RequestInv /\ [QNext]_qvars => RequestInv'
<1> SUFFICES ASSUME RequestInv, [QNext]_qvars PROVE RequestInv'
  OBVIOUS
<1>1. [Next]_vars
  BY CountedStep DEF QNext, qvars, mvars, vars
<1>2. SerialInv /\ SerialInv'
  BY <1>1, SerialStep DEF RequestInv
<1>3. CASE UNCHANGED qvars
  BY <1>2, <1>3 DEF RequestInv, Requested, Remembered, qvars, mvars, vars
<1>4. CASE QNext
  <2>1. excused' = {j \in Jobs : Reason(j) \/ (j \in excused /\ ~NewRequest(j))}
    BY <1>4 DEF QNext
  <2>2. raced' \subseteq excused'
    BY <1>2, <2>1 DEF Reason, SerialInv, TypeInv, TypeOK
  <2>3. ASSUME NEW j \in Jobs \ excused', Requested(j)' PROVE Remembered(j)'
    <3>1. CASE NewRequest(j)
      BY <1>1, <1>2, <3>1, NewRequestStep DEF Remembered, SerialInv
    <3>2. CASE ~NewRequest(j)
      <4>1. j \notin excused /\ ~Reason(j)
        BY <2>1, <2>3, <3>2
      <4>2. Requested(j)
        BY <1>1, <1>2, <2>3, <3>2, RequestsStay DEF Requested, SerialInv
      <4> QED
        BY <1>1, <1>2, <4>1, <4>2, RememberedKept DEF RequestInv
    <3> QED
      BY <3>1, <3>2
  <2> QED
    BY <1>2, <2>2, <2>3 DEF RequestInv
<1> QED
  BY <1>3, <1>4

\* RequestedOncePerReason: over every interleaving, retry and restart, a job
\* is requested again from the prover network only for one of the reasons.
THEOREM NoProofPaidTwice == QSpec => RequestedOncePerReason
<1>1. QInit => RequestInv
  <2> SUFFICES ASSUME QInit PROVE RequestInv
    OBVIOUS
  <2>1. SerialInv
    BY SerialInit DEF QInit, MInit
  <2>2. raced \subseteq excused /\ \A j \in Jobs : ~Requested(j)
    BY JobsAssumption DEF QInit, MInit, Init, Requested
  <2> QED
    BY <2>1, <2>2 DEF RequestInv
<1>2. RequestInv /\ [QNext]_qvars =>
        \A j \in Jobs :
          NewRequest(j) /\ (\E r \in Requests : requests[r] = j) => j \in excused
  <2> SUFFICES ASSUME RequestInv, [QNext]_qvars, NEW j \in Jobs, NewRequest(j),
                      Requested(j), j \notin excused
               PROVE  FALSE
    BY DEF Requested
  <2>1. [Next]_vars /\ TypeInv /\ Serial(j) /\ Remembered(j)
    BY CountedStep DEF QNext, qvars, mvars, vars, RequestInv, SerialInv
  <2>2. PICK t \in Tasks : tasks[t].pc = "prove" /\ tasks[t].job = j
    BY <2>1, NewRequestStep
  <2>3. queue_db[j] = DataAvailable /\ finished_db[j] = Absent
    BY <2>1, <2>2, StatusFacts
    DEF Serial, TasksCurrent, TaskIsCurrent, InOneTree, TypeInv, Shapes, TaskShape
  <2>4. \A u \in Tasks : tasks[u].job = j => u = t
    BY <2>1, <2>2 DEF Serial, Single
  <2>5. \A r \in Requests : DataAvailable # ZkProofPending(r) /\ Absent # ZkProofFinished(r)
    BY DEF DataAvailable, ZkProofPending, Absent, ZkProofFinished
  <2> QED
    BY <2>1, <2>2, <2>3, <2>4, <2>5 DEF Remembered
<1> QED
  BY <1>1, <1>2, RequestStep, PTL DEF QSpec, RequestedOncePerReason
-----------------------------------------------------------------------------
(***************************************************************************)
(* The replies                                                              *)
(***************************************************************************)

Proofs == {ZkProofFinished(r) : r \in Requests}
OnNetwork == {ZkProofPending(r) : r \in Requests}

\* The job is where the reply said it was, or further on its way.
Reached(j, reply) ==
  CASE reply = "DaPending"   -> Known(j)
    [] reply = "DaAvailable" ->
         queue_db[j] \in OnNetwork \cup {DataAvailable} \/ finished_db[j] # Absent
    [] reply = "ZkpPending"  -> queue_db[j] \in OnNetwork \/ finished_db[j] # Absent
    [] reply = "ZkpFinished" -> finished_db[j] \in Proofs
    [] OTHER -> TRUE

RepliesTyped == last \in [Jobs -> ResponseStatus \cup {NoReply}]

\* What ProgressSeen rests on: a job whose admissions never overlapped has got
\* at least as far as the last client was told.
ReplyInv ==
  /\ SerialInv
  /\ RepliesTyped
  /\ \A j \in Jobs \ raced : Reached(j, last[j])

\* One move of a job on its way, or none.
GoesOn(j) ==
  \/ queue_db'[j] = queue_db[j] /\ finished_db'[j] = finished_db[j]
  \/ finished_db[j] = Absent /\ finished_db'[j] # Absent
  \/ ~Known(j) /\ queue_db'[j] = DataAvailabilityPending
  \/ queue_db[j] = DataAvailabilityPending /\ queue_db'[j] = DataAvailable
     /\ finished_db[j] = Absent
  \/ queue_db[j] = DataAvailable /\ queue_db'[j] \in OnNetwork
     /\ finished_db[j] = Absent

LEMMA VariantsDiffer ==
  /\ \A r : ZkProofPending(r) # Absent /\ ZkProofPending(r) # DataAvailable
            /\ ZkProofPending(r) # DataAvailabilityPending
  /\ \A r : ZkProofFinished(r) # Absent
  /\ \A r, retry : ZkProofFinished(r) # Failed(retry)
  /\ \A retry : Failed(retry) # Absent
  /\ DataAvailable # Absent /\ DataAvailabilityPending # Absent
  /\ DataAvailabilityPending # DataAvailable
  /\ Failed(Absent) # Failed(DataAvailabilityPending)
<1>1. /\ Absent.status = "Absent"
      /\ DataAvailabilityPending.status = "DataAvailabilityPending"
      /\ DataAvailable.status = "DataAvailable"
      /\ \A r : ZkProofPending(r).status = "ZkProofPending"
      /\ \A r : ZkProofFinished(r).status = "ZkProofFinished"
      /\ \A s : Failed(s).status = "Failed" /\ Failed(s).retry = s
  BY DEF Absent, DataAvailabilityPending, DataAvailable, ZkProofPending,
     ZkProofFinished, Failed
<1> QED
  BY ONLY <1>1

LEMMA ReachedKept ==
  ASSUME NEW j \in Jobs, GoesOn(j), NEW reply, Reached(j, reply)
  PROVE  Reached(j, reply)'
<1>1. /\ Reached(j, "DaPending") => Reached(j, "DaPending")'
      /\ Reached(j, "DaAvailable") => Reached(j, "DaAvailable")'
      /\ Reached(j, "ZkpPending") => Reached(j, "ZkpPending")'
      /\ Reached(j, "ZkpFinished") => Reached(j, "ZkpFinished")'
  BY VariantsDiffer DEF GoesOn, Reached, Known, OnNetwork, Proofs
<1> QED
  BY <1>1 DEF Reached

LEMMA TaskGoesOnWay ==
  ASSUME TypeInv, NEW j \in Jobs, Serial(j), NEW t \in Tasks, TaskStep(t)
  PROVE  GoesOn(j)
<1> DEFINE k == tasks[t].job
<1>1. CASE ReadStatus(t) \/ ConnectInTask(t) \/ RequestZkProof(t) \/ GiveUp(t)
           \/ SendFromTask(t)
  BY <1>1 DEF ReadStatus, ConnectInTask, RequestZkProof, GiveUp, SendFromTask, db,
     GoesOn
<1>2. CASE FetchFromDa(t) \/ RecordRequest(t)
  <2>1. /\ \E s : queue_db' = [queue_db EXCEPT ![k] = s]
        /\ finished_db' = [finished_db EXCEPT ![k] = Absent]
    BY <1>2 DEF FetchFromDa, RecordRequest, StoreStatus
  <2>2. CASE k # j
    BY <2>1, <2>2 DEF GoesOn, TypeInv, TypeOK
  <2>3. CASE k = j
    <3>1. finished_db[j] = Absent /\ TaskIsCurrent(t)
      BY <2>3, OwnTask
    <3>2. CASE FetchFromDa(t)
      <4>1. queue_db[j] = DataAvailabilityPending
        BY <2>3, <3>1, <3>2
        DEF TaskIsCurrent, FetchFromDa, TypeInv, Shapes, TaskShape
      <4>2. queue_db'[j] = DataAvailable
        BY <2>3, <3>2 DEF FetchFromDa, StoreStatus, TypeInv, TypeOK
      <4> QED
        BY <3>1, <4>1, <4>2 DEF GoesOn
    <3>3. CASE RecordRequest(t)
      <4>1. queue_db[j] = DataAvailable
        BY <2>3, <3>1, <3>3 DEF TaskIsCurrent, RecordRequest
      <4>2. queue_db'[j] = tasks[t].status
        BY <2>3, <3>3 DEF RecordRequest, StoreStatus, TypeInv, TypeOK
      <4>3. tasks[t].status \in OnNetwork
        BY <3>3 DEF RecordRequest, TypeInv, Shapes, TaskShape, OnNetwork
      <4> QED
        BY <3>1, <4>1, <4>2, <4>3 DEF GoesOn
    <3> QED
      BY <1>2, <3>2, <3>3
  <2> QED
    BY <2>2, <2>3
<1>3. CASE DaClientError(t) \/ ZkClientError(t) \/ ProofArrives(t)
  <2>1. PICK s : FinalizeJob(k, s) /\ s # Absent
    BY <1>3, VariantsDiffer DEF DaClientError, ZkClientError, ProofArrives
  <2>2. CASE k # j
    BY <2>1, <2>2 DEF FinalizeJob, GoesOn, TypeInv, TypeOK
  <2>3. CASE k = j
    <3>1. finished_db[j] = Absent
      BY <2>3, OwnTask
    <3>2. finished_db'[j] = s
      BY <2>1, <2>3 DEF FinalizeJob, TypeInv, TypeOK
    <3> QED
      BY <2>1, <3>1, <3>2 DEF GoesOn
  <2> QED
    BY <2>2, <2>3
<1> QED
  BY <1>1, <1>2, <1>3 DEF TaskStep

\* What goes on while no client is told of it.
LEMMA SilentGoesOn ==
  ASSUME TypeInv, NEW j \in Jobs, Serial(j), SilentStep, main' # "down"
  PROVE  GoesOn(j)
<1>1. ASSUME NEW c \in Calls, SendFromCall(c) PROVE GoesOn(j)
  BY <1>1 DEF SendFromCall, db, GoesOn
<1>2. CASE WorkerStep \/ Boot \/ MainStep
  BY <1>2 DEF WorkerStep, Dispatch, ReceiveStop, FlushTree, Exit, Halt, Boot,
     MainStep, ResumeNext, ResumeSkip, Serve, db, GoesOn
<1>3. CASE \/ StartupConnect \/ StartupConnectFails \/ Signal \/ BackgroundFlush
           \/ Crash
  BY <1>3 DEF StartupConnect, StartupConnectFails, Signal, BackgroundFlush, Crash,
     Halt, db, GoesOn
<1> QED
  BY <1>1, <1>2, <1>3, TaskGoesOnWay DEF SilentStep

LEMMA ReplyingStep == RNext => [Next]_vars
  BY DEF RNext, ReplyIfSettled, CallReplies, ReplyIfQueued, ReplyToNew, ReplyToRetry,
     ReplyToFailure, SilentStep, Next, CallStep

\* What a client is told of a job, and from what.
Told(j, reply) ==
  \/ finished_db[j] \in Settling /\ reply = SettledReply(finished_db[j])
  \/ queue_db[j] \in PendingStatus /\ reply = QueueReply(queue_db[j])
  \/ /\ ~Known(j) /\ queue_db'[j] = DataAvailabilityPending
     /\ reply = "DaPending"
  \/ finished_db[j] = Failed(DataAvailabilityPending) /\ reply = "RetryableFailure"
  \/ reply = "PermanentFailure"

RepliedStep(j) ==
  /\ last'[j] = last[j] \/ Told(j, last'[j])
  /\ GoesOn(j) \/ last'[j] = "RetryableFailure"

LEMMA QueueReplies ==
  ASSUME NEW s \in PendingStatus
  PROVE  /\ QueueReply(s) \in ResponseStatus
         /\ s = DataAvailabilityPending => QueueReply(s) = "DaPending"
         /\ s = DataAvailable => QueueReply(s) = "DaAvailable"
         /\ s \in OnNetwork => QueueReply(s) = "ZkpPending"
<1>1. s \in OnNetwork => s # DataAvailabilityPending /\ s # DataAvailable
  BY VariantsDiffer DEF OnNetwork
<1>2. s = DataAvailabilityPending \/ s = DataAvailable \/ s \in OnNetwork
  BY DEF PendingStatus, OnNetwork
<1>3. CASE s = DataAvailabilityPending
  BY <1>1, <1>3, VariantsDiffer DEF QueueReply, ResponseStatus
<1>4. CASE s = DataAvailable
  BY <1>1, <1>4, VariantsDiffer DEF QueueReply, ResponseStatus
<1>5. CASE s \in OnNetwork
  BY <1>1, <1>5 DEF QueueReply, OnNetwork, ResponseStatus
<1> QED
  BY <1>2, <1>3, <1>4, <1>5

LEMMA TypedReplies == SerialInv /\ RepliesTyped /\ [RNext]_rvars => RepliesTyped'
<1> SUFFICES ASSUME TypeInv, RepliesTyped, [RNext]_rvars PROVE RepliesTyped'
  BY DEF SerialInv
<1>1. ASSUME NEW c \in Calls, NEW k \in Jobs, ReplyIfSettled(c, k)
      PROVE  RepliesTyped'
  BY <1>1 DEF ReplyIfSettled, Reply, SettledReply, ResponseStatus, RepliesTyped
<1>2. ASSUME NEW c \in Calls, CallReplies(c) PROVE RepliesTyped'
  <2> DEFINE k == calls[c].job
  <2>1. k \in Jobs
    BY <1>2 DEF CallReplies, ReplyIfQueued, CheckQueue, ReplyToNew, InsertNew,
       ReplyToRetry, Resubmit, ReplyToFailure, CallFails, TypeInv, TypeOK, Shapes,
       CallShape
  <2>2. queue_db[k] # Absent => QueueReply(queue_db[k]) \in ResponseStatus
    BY <2>1, QueueReplies DEF TypeInv, TypeOK
  <2> QED
    BY <1>2, <2>1, <2>2
    DEF CallReplies, ReplyIfQueued, ReplyToNew, ReplyToRetry, ReplyToFailure, Reply,
        ResponseStatus, RepliesTyped
<1>3. CASE SilentStep \/ UNCHANGED rvars
  BY <1>3 DEF SilentStep, Silent, rvars, RepliesTyped
<1> QED
  BY <1>1, <1>2, <1>3 DEF RNext

LEMMA CallReplied ==
  ASSUME SerialInv, RepliesTyped,
         NEW c \in Calls, (\E k \in Jobs : ReplyIfSettled(c, k)) \/ CallReplies(c),
         NEW j \in Jobs \ raced'
  PROVE  RepliedStep(j)
<1> DEFINE k == calls[c].job
<1>1. TypeInv /\ Serial(j)
  <2>1. [Next]_vars
    BY ReplyingStep DEF RNext
  <2> QED
    BY <2>1, RacedGrows DEF SerialInv
<1>2. ASSUME NEW i \in Jobs, ReplyIfSettled(c, i) PROVE RepliedStep(j)
  <2>1. GoesOn(j)
    BY <1>2 DEF ReplyIfSettled, CheckFinished, db, GoesOn
  <2> QED
    BY <1>2, <2>1 DEF ReplyIfSettled, Reply, RepliedStep, Told, RepliesTyped
<1>3. calls[c].pc # "idle" => k \in Jobs
  BY <1>1 DEF TypeInv, TypeOK, Shapes, CallShape
<1>4. CASE ReplyIfQueued(c)
  <2>1. GoesOn(j) /\ k \in Jobs
    BY <1>3, <1>4 DEF ReplyIfQueued, CheckQueue, db, GoesOn
  <2>2. CASE queue_db[k] = Absent
    BY <1>4, <2>1, <2>2 DEF ReplyIfQueued, RepliedStep
  <2>3. CASE queue_db[k] # Absent
    <3>1. queue_db[k] \in PendingStatus
      BY <1>1, <2>1, <2>3 DEF TypeInv, TypeOK
    <3>2. last' = [last EXCEPT ![k] = QueueReply(queue_db[k])]
      BY <1>4, <2>3 DEF ReplyIfQueued, Reply
    <3> QED
      BY <2>1, <3>1, <3>2, QueueReplies DEF RepliedStep, Told
  <2> QED
    BY <2>2, <2>3
<1>5. CASE ReplyToNew(c)
  <2>1. /\ k \in Jobs /\ last' = [last EXCEPT ![k] = "DaPending"]
        /\ queue_db' = [queue_db EXCEPT ![k] = DataAvailabilityPending]
        /\ finished_db' = finished_db
        /\ k = j => ~Known(j)
    BY <1>3, <1>5 DEF ReplyToNew, InsertNew, Reply, Known
  <2>2. k = j => queue_db'[j] = DataAvailabilityPending
    BY <1>1, <2>1 DEF TypeInv, TypeOK
  <2>3. k # j => queue_db'[j] = queue_db[j]
    BY <1>1, <2>1 DEF TypeInv, TypeOK
  <2>4. GoesOn(j)
    BY <2>1, <2>2, <2>3 DEF GoesOn
  <2> QED
    BY <2>1, <2>2, <2>4 DEF RepliedStep, Told, ResponseStatus
<1>6. CASE ReplyToRetry(c)
  <2>1. /\ k \in Jobs /\ last' = [last EXCEPT ![k] = "RetryableFailure"]
        /\ \E s : queue_db' = [queue_db EXCEPT ![k] = s]
        /\ finished_db' = [finished_db EXCEPT ![k] = Absent]
        /\ k = j => finished_db[j] = Failed(calls[c].status)
        /\ calls[c].status = DataAvailabilityPending
    BY <1>1, <1>3, <1>6
    DEF ReplyToRetry, Resubmit, StoreStatus, Reply, TypeInv, Shapes, CallShape
  <2>2. k # j => GoesOn(j)
    BY <1>1, <2>1 DEF GoesOn, TypeInv, TypeOK
  <2> QED
    BY <2>1, <2>2 DEF RepliedStep, Told, RepliesTyped
<1>7. CASE ReplyToFailure(c)
  <2>1. GoesOn(j) /\ k \in Jobs
    BY <1>3, <1>7 DEF ReplyToFailure, CallFails, db, GoesOn
  <2> QED
    BY <1>7, <2>1 DEF ReplyToFailure, Reply, RepliedStep, Told, RepliesTyped
<1> QED
  BY <1>2, <1>4, <1>5, <1>6, <1>7 DEF CallReplies

\* In a running process, each job goes on, or a client is told that it starts over.
LEMMA EveryReply ==
  ASSUME SerialInv, RepliesTyped,
         [RNext]_rvars, main' # "down", NEW j \in Jobs \ raced'
  PROVE  RepliedStep(j)
<1>1. TypeInv /\ Serial(j)
  <2>1. [Next]_vars
    BY ReplyingStep DEF rvars, vars
  <2> QED
    BY <2>1, RacedGrows DEF SerialInv
<1>2. CASE SilentStep
  BY <1>1, <1>2, SilentGoesOn DEF SilentStep, Silent, RepliedStep
<1>3. CASE UNCHANGED rvars
  BY <1>3 DEF rvars, vars, GoesOn, RepliedStep
<1> QED
  BY <1>2, <1>3, CallReplied DEF RNext

\* What is told is true of the job when the step is done.
LEMMA ToldIsReached ==
  ASSUME NEW j \in Jobs, NEW reply, Told(j, reply), GoesOn(j)
  PROVE  Reached(j, reply)'
<1>1. CASE Reached(j, reply)
  BY <1>1, ReachedKept
<1>2. CASE queue_db'[j] = DataAvailabilityPending /\ reply = "DaPending"
  BY <1>2, VariantsDiffer DEF Reached, Known
<1>3. CASE reply \in {"PermanentFailure", "RetryableFailure"}
  BY <1>3 DEF Reached
<1>4. ASSUME finished_db[j] \in Settling, reply = SettledReply(finished_db[j])
      PROVE  Reached(j, reply)
  <2>1. finished_db[j] = Failed(Absent) \/ finished_db[j] \in Proofs
    BY <1>4 DEF Settling, Proofs
  <2> QED
    BY <1>4, <2>1 DEF SettledReply, Reached
<1>5. ASSUME queue_db[j] \in PendingStatus, reply = QueueReply(queue_db[j])
      PROVE  Reached(j, reply)
  <2>1. \/ queue_db[j] = DataAvailabilityPending \/ queue_db[j] = DataAvailable
        \/ queue_db[j] \in OnNetwork
    BY <1>5 DEF PendingStatus, OnNetwork
  <2> QED
    BY <1>5, <2>1, QueueReplies, VariantsDiffer DEF Reached, Known
<1> QED
  BY <1>1, <1>2, <1>3, <1>4, <1>5 DEF Told

LEMMA ReplyStep == ReplyInv /\ [RNext]_rvars => ReplyInv'
<1> SUFFICES ASSUME ReplyInv, [RNext]_rvars PROVE ReplyInv'
  OBVIOUS
<1>1. SerialInv /\ [Next]_vars /\ SerialInv' /\ RepliesTyped'
  BY ReplyingStep, SerialStep, TypedReplies DEF ReplyInv, rvars, vars
<1>2. CASE main' = "down"
  <2>1. ASSUME NEW c \in Calls,
               (\E k \in Jobs : ReplyIfSettled(c, k)) \/ CallReplies(c)
        PROVE  FALSE
    <3>1. main' = main /\ (main = "down" => calls[c].pc # "idle")
      BY <2>1
      DEF ReplyIfSettled, CheckFinished, CallReplies, ReplyIfQueued, CheckQueue,
          ReplyToNew, InsertNew, ReplyToRetry, Resubmit, ReplyToFailure, CallFails,
          flow
    <3> QED
      BY <1>1, <1>2, <3>1 DEF SerialInv, DownIsEmpty
  <2>2. last' = [j \in Jobs |-> NoReply] \/ UNCHANGED rvars
    BY <1>2, <2>1 DEF RNext, SilentStep, Silent
  <2>3. CASE last' = [j \in Jobs |-> NoReply]
    BY <1>1, <2>3 DEF ReplyInv, Reached, NoReply
  <2>4. CASE UNCHANGED rvars
    BY <1>1, <2>4 DEF ReplyInv, Reached, Known, rvars, vars
  <2> QED
    BY <2>2, <2>3, <2>4
<1>3. CASE main' # "down"
  <2>1. ASSUME NEW j \in Jobs \ raced', NEW reply, reply = last'[j]
        PROVE  Reached(j, reply)'
    <3>1. j \in Jobs \ raced
      BY <1>1, RacedGrows DEF SerialInv
    <3>2. RepliedStep(j) /\ Reached(j, last[j])
      BY <1>1, <1>3, <3>1, EveryReply DEF ReplyInv
    <3>3. CASE reply = "RetryableFailure"
      BY <3>3 DEF Reached
    <3>4. CASE GoesOn(j)
      BY <2>1, <3>2, <3>4, ReachedKept, ToldIsReached DEF RepliedStep
    <3> QED
      BY <2>1, <3>2, <3>3, <3>4 DEF RepliedStep
  <2> QED
    BY <1>1, <2>1 DEF ReplyInv
<1> QED
  BY <1>2, <1>3

\* Nothing that is told lies behind what was told before.
LEMMA ToldIsNews ==
  ASSUME TypeInv, NEW j \in Jobs, Serial(j),
         NEW old \in ResponseStatus \cup {NoReply}, Reached(j, old),
         NEW reply, Told(j, reply), reply # old, ~Misreported(j, old),
         ~Misreported(j, reply)
  PROVE  Rank(reply) > Rank(old) \/ (reply = "RetryableFailure" /\ Rank(old) < 4)
<1>1. /\ Rank("DaPending") = 1 /\ Rank("DaAvailable") = 2 /\ Rank("ZkpPending") = 3
      /\ Rank("ZkpFinished") = 4 /\ Rank("PermanentFailure") = 4
      /\ Rank("RetryableFailure") = 0 /\ Rank(NoReply) = 0
  BY DEF Rank, NoReply
<1>2. /\ old = "ZkpFinished" => finished_db[j] \in Proofs
      /\ old = "PermanentFailure" => finished_db[j] = Failed(Absent)
      /\ old \in {"ZkpFinished", "PermanentFailure"} \/ Rank(old) < 4
  BY <1>1 DEF Reached, Misreported, ResponseStatus
<1>3. ASSUME finished_db[j] \in Settling, reply = SettledReply(finished_db[j])
      PROVE  Rank(reply) > Rank(old)
  <2>1. \/ finished_db[j] = Failed(Absent) /\ reply = "PermanentFailure"
        \/ finished_db[j] \in Proofs /\ reply = "ZkpFinished"
    BY <1>3, VariantsDiffer DEF SettledReply, Settling, Proofs
  <2>2. Rank(old) < 4
    BY <1>2, <2>1, VariantsDiffer DEF Proofs
  <2> QED
    BY <1>1, <2>1, <2>2
<1>4. ASSUME queue_db[j] \in PendingStatus, reply = QueueReply(queue_db[j])
      PROVE  Rank(reply) > Rank(old)
  <2>1. finished_db[j] = Absent /\ queue_db[j] # Absent
    BY <1>4, StatusFacts DEF Serial, InOneTree
  <2>2. old \notin {"ZkpFinished", "PermanentFailure"}
    BY <1>2, <2>1, VariantsDiffer DEF Proofs
  <2>3. \/ queue_db[j] = DataAvailabilityPending /\ reply = "DaPending"
        \/ queue_db[j] = DataAvailable /\ reply = "DaAvailable"
        \/ queue_db[j] \in OnNetwork /\ reply = "ZkpPending"
    BY <1>4, QueueReplies DEF PendingStatus, OnNetwork
  <2>4. /\ old = "ZkpPending" => queue_db[j] \in OnNetwork
        /\ old = "DaAvailable" => queue_db[j] \in OnNetwork \cup {DataAvailable}
    BY <2>1 DEF Reached
  <2> QED
    BY <1>1, <2>2, <2>3, <2>4, VariantsDiffer DEF OnNetwork, ResponseStatus
<1>5. ASSUME ~Known(j), reply = "DaPending" PROVE Rank(reply) > Rank(old)
  <2>1. old \in {"RetryableFailure", NoReply}
    BY <1>2, <1>5, VariantsDiffer DEF Known, Reached, ResponseStatus, OnNetwork, Proofs
  <2> QED
    BY <1>1, <1>5, <2>1
<1>6. ASSUME finished_db[j] = Failed(DataAvailabilityPending),
             reply = "RetryableFailure"
      PROVE  Rank(old) < 4
  BY <1>2, <1>6, VariantsDiffer DEF Proofs
<1>7. ASSUME reply = "PermanentFailure" PROVE Rank(reply) > Rank(old)
  <2>1. finished_db[j] = Failed(Absent)
    BY <1>7 DEF Misreported
  <2>2. Rank(old) < 4
    BY <1>2, <1>7, <2>1, VariantsDiffer DEF Proofs
  <2> QED
    BY <1>1, <1>7, <2>2
<1> QED
  BY <1>3, <1>4, <1>5, <1>6, <1>7 DEF Told

\* ProgressSeen: within a process, what clients are told of a job never goes
\* back, except by the failures and the race the property names.
THEOREM RepliesOnlyProgress == RSpec => ProgressSeen
<1>1. RInit => ReplyInv
  BY SerialInit DEF RInit, ReplyInv, RepliesTyped, Reached, NoReply
<1>2. ReplyInv /\ [RNext]_rvars =>
        \A j \in Jobs :
          last'[j] # last[j] =>
            \/ Rank(last'[j]) > Rank(last[j])
            \/ last'[j] = "RetryableFailure" /\ Rank(last[j]) < 4
            \/ Misreported(j, last[j]) \/ Misreported(j, last'[j])
            \/ j \in raced'
            \/ main' = "down"
  <2> SUFFICES ASSUME ReplyInv, [RNext]_rvars, NEW j \in Jobs \ raced',
                      last'[j] # last[j], main' # "down",
                      ~Misreported(j, last[j]), ~Misreported(j, last'[j])
               PROVE  \/ Rank(last'[j]) > Rank(last[j])
                      \/ last'[j] = "RetryableFailure" /\ Rank(last[j]) < 4
    OBVIOUS
  <2>1. SerialInv /\ [Next]_vars
    BY ReplyingStep DEF ReplyInv, rvars, vars
  <2>2. j \in Jobs \ raced
    BY <2>1, RacedGrows DEF SerialInv
  <2>3. Told(j, last'[j])
    BY EveryReply DEF ReplyInv, RepliedStep
  <2> QED
    BY <2>1, <2>2, <2>3, ToldIsNews DEF ReplyInv, RepliesTyped, SerialInv
<1> QED
  BY <1>1, <1>2, ReplyStep, PTL DEF RSpec, ProgressSeen
=============================================================================
