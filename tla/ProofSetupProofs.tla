-------------------------- MODULE ProofSetupProofs ---------------------------
(***************************************************************************)
(* The setup cell, for every set of callers and every failure: one          *)
(* initialiser at a time, no lost wake-up, one instance, stored before use, *)
(* and never generated again once it is on the disk.                        *)
(***************************************************************************)
EXTENDS ProofSetup, SequenceTheorems, TLAPS

\* A caller with a setup to hand out has it in the tree.
SetIsStored == \A c \in Callers : pc[c] = "set" => config_db = "setup"

\* Who generates the setup found none in the tree, and nobody else stores one.
GeneratesMissing ==
  \A c \in Callers : pc[c] \in {"generate", "insert"} => config_db = "none"

\* The disk has what the tree has, or had: the tree's entry changes once.
DiskBehind == disk \in {"none", config_db}

\* A set cell has no permit and nobody in the queue.
SetCellIsFree == cell # Nobody => permit = Nobody /\ waiters = <<>>

Inv ==
  /\ TypeOK
  /\ OneInitialiser
  /\ NobodyWaitsInVain
  /\ SingleInstance
  /\ StoredBeforeUse
  /\ SetIsStored
  /\ GeneratesMissing
  /\ DiskBehind
  /\ SetCellIsFree

LEMMA InitInv == Init => Inv
BY NobodyAssumption DEF Init, Inv, TypeOK, OneInitialiser, NobodyWaitsInVain,
   SingleInstance, StoredBeforeUse, SetIsStored, GeneratesMissing, DiskBehind, SetCellIsFree, Pcs,
   Entries, Initialising

\* The end of an initialiser passes the permit on and wakes who was first.
LEMMA FailKeeps ==
  ASSUME Inv, NEW c \in Callers, pc[c] \in Initialising, Fail(c),
         UNCHANGED <<config_db, disk>>
  PROVE  Inv'
<1> USE NobodyAssumption
<1>1. permit = c /\ cell = Nobody /\ c \notin {waiters[i] : i \in 1..Len(waiters)}
  BY DEF Inv, OneInitialiser, NobodyWaitsInVain, Initialising
<1>2. \A d \in Callers : d # c => pc[d] \notin Initialising
  BY <1>1 DEF Inv, OneInitialiser
<1>3. waiters \in Seq(Callers)
  BY DEF Inv, TypeOK
<1>4. CASE waiters = <<>>
  BY <1>1, <1>2, <1>4 DEF Inv, TypeOK, OneInitialiser, NobodyWaitsInVain,
     SingleInstance, StoredBeforeUse, SetIsStored, GeneratesMissing, DiskBehind, SetCellIsFree, Pcs,
     Entries, Initialising, Fail
<1>5. CASE waiters # <<>>
  <2> DEFINE h == Head(waiters)
             t == Tail(waiters)
  <2>1. /\ h \in Callers /\ h = waiters[1] /\ h # c
        /\ t \in Seq(Callers) /\ Len(t) = Len(waiters) - 1 /\ Len(waiters) \in Nat \ {0}
        /\ \A i \in 1..Len(t) : t[i] = waiters[i + 1]
    BY <1>1, <1>3, <1>5, EmptySeq, LenProperties, HeadTailProperties
  <2>2. /\ permit' = h /\ waiters' = t /\ cell' = Nobody /\ got' = got
        /\ pc' = [pc EXCEPT ![c] = "idle", ![h] = "lookup"]
        /\ config_db' = config_db /\ disk' = disk
    BY <1>1, <1>5 DEF Fail
  <2>3. /\ pc'[c] = "idle" /\ pc'[h] = "lookup"
        /\ \A d \in Callers : d # c /\ d # h => pc'[d] = pc[d]
    BY <2>1, <2>2 DEF Inv, TypeOK
  <2>4. TypeOK'
    BY <2>1, <2>2 DEF Inv, TypeOK, Pcs
  <2>5. OneInitialiser'
    BY <1>2, <2>2, <2>3 DEF OneInitialiser, Initialising
  <2>6. NobodyWaitsInVain'
    <3>1. \A i, k \in 1..Len(t) : t[i] = t[k] => i = k
      BY <1>1, <2>1 DEF Inv, NobodyWaitsInVain
    <3>2. \A d \in Callers : pc[d] = "waiting" <=> \E i \in 1..Len(waiters) : waiters[i] = d
      BY <1>1 DEF Inv, NobodyWaitsInVain
    <3>3. ASSUME NEW d \in Callers
          PROVE  pc'[d] = "waiting" <=> \E i \in 1..Len(t) : t[i] = d
      <4>1. CASE d = h
        <5>1. \A i \in 1..Len(t) : waiters[i + 1] # waiters[1]
          BY <1>1, <2>1 DEF Inv, NobodyWaitsInVain
        <5> QED
          BY <2>1, <2>3, <4>1, <5>1
      <4>2. CASE d = c
        BY <1>1, <2>1, <2>3, <4>2
      <4>3. CASE d # h /\ d # c
        <5>1. pc'[d] = "waiting" <=> \E i \in 1..Len(waiters) : waiters[i] = d
          BY <2>3, <3>2, <4>3
        <5>2. ASSUME NEW i \in 1..Len(waiters), waiters[i] = d
              PROVE  i - 1 \in 1..Len(t) /\ t[i - 1] = d
          BY <2>1, <4>3, <5>2
        <5>3. ASSUME NEW i \in 1..Len(t), t[i] = d
              PROVE  i + 1 \in 1..Len(waiters) /\ waiters[i + 1] = d
          BY <2>1, <5>3
        <5> QED
          BY <5>1, <5>2, <5>3
      <4> QED
        BY <4>1, <4>2, <4>3
    <3>4. permit' # Nobody /\ pc'[permit'] \in Initialising
      BY <2>1, <2>2, <2>3, NobodyAssumption DEF Initialising
    <3> QED
      BY <2>2, <3>1, <3>3, <3>4 DEF NobodyWaitsInVain
  <2>7. SingleInstance' /\ StoredBeforeUse' /\ DiskBehind' /\ SetCellIsFree'
    BY <1>1, <2>2 DEF Inv, SingleInstance, StoredBeforeUse, DiskBehind, SetCellIsFree
  <2>8. SetIsStored' /\ GeneratesMissing'
    BY <2>2, <2>3 DEF Inv, SetIsStored, GeneratesMissing
  <2> QED
    BY <2>4, <2>5, <2>6, <2>7, <2>8 DEF Inv
<1> QED
  BY <1>4, <1>5

\* A step of an initialiser to its next stage, whatever it stores on the way.
LEMMA GotoKeeps ==
  ASSUME Inv, NEW c \in Callers, pc[c] \in Initialising,
         NEW stage \in Initialising, Goto(c, stage), UNCHANGED disk,
         config_db' \in Entries, config_db' = config_db \/ disk = "none",
         stage = "set" => config_db' = "setup",
         stage \in {"generate", "insert"} => config_db' = "none"
  PROVE  Inv'
<1>1. permit = c /\ cell = Nobody
  BY DEF Inv, OneInitialiser
<1>2. \A d \in Callers : d # c => pc'[d] = pc[d] /\ pc[d] \notin Initialising
  BY <1>1 DEF Inv, TypeOK, OneInitialiser, Goto
<1>3. pc'[c] = stage /\ stage \in Pcs /\ stage # "waiting" /\ pc[c] # "waiting"
  BY DEF Inv, TypeOK, Goto, Initialising, Pcs
<1>4. permit' = c /\ cell' = Nobody /\ waiters' = waiters /\ got' = got
  BY <1>1 DEF Goto, shared
<1>5. TypeOK'
  BY <1>3, <1>4 DEF Inv, TypeOK, Goto, shared
<1>6. OneInitialiser'
  BY <1>2, <1>4 DEF OneInitialiser
<1>7. NobodyWaitsInVain'
  BY <1>1, <1>2, <1>3, <1>4, NobodyAssumption DEF Inv, NobodyWaitsInVain
<1>8. SetIsStored' /\ GeneratesMissing'
  BY <1>2, <1>3 DEF SetIsStored, GeneratesMissing, Initialising
<1>9. SingleInstance' /\ StoredBeforeUse' /\ DiskBehind' /\ SetCellIsFree'
  BY <1>1, <1>4 DEF Inv, SingleInstance, StoredBeforeUse, DiskBehind, SetCellIsFree
<1> QED
  BY <1>5, <1>6, <1>7, <1>8, <1>9 DEF Inv

LEMMA EnterKeeps == ASSUME Inv, NEW c \in Callers, Enter(c) PROVE Inv'
<1> USE NobodyAssumption
<1>1. CASE permit = Nobody
  <2>1. permit' = c /\ waiters' = waiters /\ pc' = [pc EXCEPT ![c] = "lookup"]
    BY <1>1 DEF Enter
  <2>2. waiters = <<>> /\ \A d \in Callers : pc[d] \notin Initialising
    BY <1>1 DEF Enter, Inv, NobodyWaitsInVain, OneInitialiser
  <2> QED
    BY <2>1, <2>2 DEF Enter, Inv, TypeOK, OneInitialiser, NobodyWaitsInVain,
       SingleInstance, StoredBeforeUse, SetIsStored, GeneratesMissing, DiskBehind, SetCellIsFree, Pcs,
       Entries, Initialising
<1>2. CASE permit # Nobody
  <2>1. /\ waiters' = Append(waiters, c) /\ pc' = [pc EXCEPT ![c] = "waiting"]
        /\ permit' = permit /\ cell' = cell /\ cell = Nobody /\ got' = got
        /\ config_db' = config_db /\ disk' = disk /\ pc[c] = "idle"
    BY <1>2 DEF Enter
  <2>2. /\ waiters' \in Seq(Callers) /\ Len(waiters') = Len(waiters) + 1
        /\ Len(waiters) \in Nat /\ waiters'[Len(waiters) + 1] = c
        /\ \A i \in 1..Len(waiters) : waiters'[i] = waiters[i]
    BY <2>1, AppendProperties, LenProperties DEF Inv, TypeOK
  <2>3. pc'[c] = "waiting" /\ \A d \in Callers : d # c => pc'[d] = pc[d]
    BY <2>1 DEF Inv, TypeOK
  <2>4. TypeOK'
    BY <2>1, <2>2 DEF Inv, TypeOK, Pcs
  <2>5. OneInitialiser' /\ SetIsStored' /\ GeneratesMissing'
    BY <2>1, <2>3 DEF Inv, OneInitialiser, SetIsStored, GeneratesMissing, Initialising
  <2>6. NobodyWaitsInVain'
    <3>1. /\ \A d \in Callers : pc[d] = "waiting" <=> \E i \in 1..Len(waiters) : waiters[i] = d
          /\ \A i, k \in 1..Len(waiters) : waiters[i] = waiters[k] => i = k
          /\ pc[permit] \in Initialising
      BY <1>2, <2>1 DEF Inv, NobodyWaitsInVain
    <3>2. \A i \in 1..Len(waiters) : waiters[i] # c
      BY <2>1, <3>1
    <3>3. \A i, k \in 1..Len(waiters') : waiters'[i] = waiters'[k] => i = k
      BY <2>2, <3>1, <3>2
    <3>4. ASSUME NEW d \in Callers
          PROVE  pc'[d] = "waiting" <=> \E i \in 1..Len(waiters') : waiters'[i] = d
      <4>1. CASE d = c
        BY <2>2, <2>3, <4>1
      <4>2. CASE d # c
        <5>1. ASSUME NEW i \in 1..Len(waiters'), waiters'[i] = d
              PROVE  i \in 1..Len(waiters)
          BY <2>2, <4>2, <5>1
        <5> QED
          BY <2>2, <2>3, <3>1, <4>2, <5>1
      <4> QED
        BY <4>1, <4>2
    <3>5. permit # c /\ permit \in Callers
      BY <1>2, <2>1, <3>1 DEF Inv, TypeOK, Initialising
    <3> QED
      BY <1>2, <2>1, <2>3, <3>1, <3>3, <3>4, <3>5 DEF NobodyWaitsInVain
  <2>7. SingleInstance' /\ StoredBeforeUse' /\ DiskBehind' /\ SetCellIsFree'
    BY <2>1 DEF Inv, SingleInstance, StoredBeforeUse, DiskBehind, SetCellIsFree
  <2> QED
    BY <2>4, <2>5, <2>6, <2>7 DEF Inv
<1> QED
  BY <1>1, <1>2

LEMMA SetKeeps == ASSUME Inv, NEW c \in Callers, Set(c) PROVE Inv'
<1> USE NobodyAssumption
<1>1. permit = c /\ cell = Nobody /\ config_db = "setup"
  BY DEF Set, Inv, OneInitialiser, SetIsStored, Initialising
<1>2. \A d \in Callers : got[d] = Nobody
  BY <1>1 DEF Inv, SingleInstance, TypeOK
<1>3. \A d \in Callers : d # c => pc[d] \notin Initialising
  BY <1>1 DEF Inv, OneInitialiser
<1> QED
  BY <1>1, <1>2, <1>3 DEF Set, Inv, TypeOK, OneInitialiser, NobodyWaitsInVain,
     SingleInstance, StoredBeforeUse, SetIsStored, GeneratesMissing, DiskBehind, SetCellIsFree, Pcs,
     Entries, Initialising

LEMMA InitialiseKeeps == ASSUME Inv, NEW c \in Callers, Initialise(c) PROVE Inv'
<1>1. CASE Lookup(c)
  <2>1. pc[c] \in Initialising /\ UNCHANGED <<config_db, disk>>
    BY <1>1 DEF Lookup, Initialising
  <2>2. CASE Fail(c)
    BY <2>1, <2>2, FailKeeps
  <2>3. CASE config_db = "setup" /\ Goto(c, "set")
    <3>1. config_db' \in Entries /\ config_db' = "setup" /\ "set" \in Initialising
      BY <2>1, <2>3 DEF Entries, Initialising
    <3> QED
      BY <2>1, <2>3, <3>1, GotoKeeps
  <2>4. CASE config_db = "none" /\ Goto(c, "generate")
    <3>1. config_db' \in Entries /\ config_db' = "none" /\ "generate" \in Initialising
      BY <2>1, <2>4 DEF Inv, TypeOK, Initialising
    <3> QED
      BY <2>1, <2>4, <3>1, GotoKeeps
  <2> QED
    BY <1>1, <2>2, <2>3, <2>4 DEF Lookup
<1>2. CASE Generate(c)
  <2>1. pc[c] \in Initialising /\ UNCHANGED <<config_db, disk>>
    BY <1>2 DEF Generate, Initialising
  <2>2. CASE Fail(c)
    BY <2>1, <2>2, FailKeeps
  <2>3. CASE Goto(c, "insert")
    <3>1. config_db' \in Entries /\ config_db' = "none" /\ "insert" \in Initialising
      BY <1>2, <2>1 DEF Inv, TypeOK, GeneratesMissing, Initialising, Generate
    <3> QED
      BY <2>1, <2>3, <3>1, GotoKeeps
  <2> QED
    BY <1>2, <2>2, <2>3 DEF Generate
<1>3. CASE Insert(c)
  <2>1. pc[c] \in Initialising /\ UNCHANGED disk
    BY <1>3 DEF Insert, Initialising
  <2>2. CASE Fail(c) /\ UNCHANGED config_db
    BY <2>1, <2>2, FailKeeps
  <2>3. CASE config_db' = "setup" /\ Goto(c, "set")
    <3>1. disk = "none" \/ config_db' = config_db
      BY <1>3 DEF Insert, Inv, GeneratesMissing, DiskBehind
    <3>2. config_db' \in Entries /\ "set" \in Initialising
      BY <2>3 DEF Entries, Initialising
    <3> QED
      BY <2>1, <2>3, <3>1, <3>2, GotoKeeps
  <2> QED
    BY <1>3, <2>2, <2>3 DEF Insert
<1>4. CASE Set(c)
  BY <1>4, SetKeeps
<1> QED
  BY <1>1, <1>2, <1>3, <1>4 DEF Initialise

LEMMA TakeKeeps == ASSUME Inv, NEW c \in Callers, TakeFromCell(c) PROVE Inv'
<1>1. \A d \in Callers : pc[d] \notin Initialising
  BY DEF TakeFromCell, Inv, OneInitialiser
<1>2. /\ cell' = cell /\ cell # Nobody /\ permit' = permit /\ waiters' = waiters
      /\ config_db' = config_db /\ disk' = disk
      /\ got' = [got EXCEPT ![c] = cell] /\ pc' = [pc EXCEPT ![c] = "idle"]
  BY DEF TakeFromCell, shared
<1>3. TypeOK'
  BY <1>2 DEF Inv, TypeOK, Pcs
<1>4. \A d \in Callers : pc'[d] \notin Initialising
  BY <1>1, <1>2 DEF Inv, TypeOK, Initialising
<1>5. OneInitialiser' /\ SetIsStored' /\ GeneratesMissing'
  BY <1>4 DEF OneInitialiser, SetIsStored, GeneratesMissing, Initialising
<1>6. SingleInstance' /\ NobodyWaitsInVain' /\ StoredBeforeUse' /\ DiskBehind'
        /\ SetCellIsFree'
  BY <1>2 DEF Inv, TypeOK, SingleInstance, NobodyWaitsInVain, StoredBeforeUse,
     DiskBehind, SetCellIsFree
<1> QED
  BY <1>3, <1>5, <1>6 DEF Inv

LEMMA NextInv == Inv /\ [Next]_vars => Inv'
<1> SUFFICES ASSUME Inv, [Next]_vars PROVE Inv'
  OBVIOUS
<1>1. ASSUME NEW c \in Callers, Enter(c) PROVE Inv'
  BY <1>1, EnterKeeps
<1>2. ASSUME NEW c \in Callers, TakeFromCell(c) PROVE Inv'
  BY <1>2, TakeKeeps
<1>3. ASSUME NEW c \in Callers, Initialise(c) PROVE Inv'
  BY <1>3, InitialiseKeeps
<1>4. CASE Flush
  BY <1>4 DEF Flush, shared, Inv, TypeOK, OneInitialiser, NobodyWaitsInVain,
     SingleInstance, StoredBeforeUse, SetIsStored, GeneratesMissing, DiskBehind,
     SetCellIsFree
<1>5. CASE Restart
  BY <1>5, NobodyAssumption DEF Restart, Inv, TypeOK, OneInitialiser,
     NobodyWaitsInVain, SingleInstance, StoredBeforeUse, SetIsStored,
     GeneratesMissing, DiskBehind, SetCellIsFree, Pcs, Initialising
<1>6. CASE UNCHANGED vars
  BY <1>6 DEF vars, shared, Inv, TypeOK, OneInitialiser, NobodyWaitsInVain,
     SingleInstance, StoredBeforeUse, SetIsStored, GeneratesMissing, DiskBehind,
     SetCellIsFree
<1> QED
  BY <1>1, <1>2, <1>3, <1>4, <1>5, <1>6 DEF Next

LEMMA SetupInvariant == Spec => []Inv
BY InitInv, NextInv, PTL DEF Spec

\* For every set of callers: one at a time runs the initialiser, which holds the
\* permit of get_or_try_init, and only while the cell is empty.
THEOREM OneAtATime == Spec => []OneInitialiser
<1>1. Inv => OneInitialiser
  BY DEF Inv
<1> QED
  BY <1>1, SetupInvariant, PTL

\* For every set of callers: no wake-up is lost, however many initialisers fail
\* before one succeeds.
THEOREM NoLostWakeUp == Spec => []NobodyWaitsInVain
<1>1. Inv => NobodyWaitsInVain
  BY DEF Inv
<1> QED
  BY <1>1, SetupInvariant, PTL

\* For every set of callers: all of them use the one instance in the cell.
THEOREM OneSharedInstance == Spec => []SingleInstance
<1>1. Inv => SingleInstance
  BY DEF Inv
<1> QED
  BY <1>1, SetupInvariant, PTL

\* For every set of callers: the config tree has what the cell holds, whichever
\* database operations failed before.
THEOREM StoredFirst == Spec => []StoredBeforeUse
<1>1. Inv => StoredBeforeUse
  BY DEF Inv
<1> QED
  BY <1>1, SetupInvariant, PTL

\* For every set of callers and over any number of restarts: what the disk has
\* is never generated again.
THEOREM NeverGeneratedAgain == Spec => GeneratedOnce
<1> DEFINE Once == \A c \in Callers :
                     pc[c] # "generate" /\ pc'[c] = "generate" => disk = "none"
<1>1. Inv /\ [Next]_vars => [Once]_vars
  <2> SUFFICES ASSUME Inv, Next, NEW c \in Callers,
                      pc[c] # "generate", pc'[c] = "generate"
               PROVE  disk = "none"
    OBVIOUS
  <2>1. ASSUME NEW d \in Callers, Lookup(d) PROVE disk = "none"
    <3>1. CASE config_db = "none"
      BY <3>1 DEF Inv, DiskBehind
    <3>2. CASE Goto(d, "set")
      BY <3>2 DEF Goto, Inv, TypeOK
    <3>3. CASE Fail(d)
      BY <3>3 DEF Fail, Inv, TypeOK
    <3> QED
      BY <2>1, <3>1, <3>2, <3>3 DEF Lookup
  <2>2. ASSUME NEW d \in Callers, Generate(d) \/ Insert(d) \/ Set(d) PROVE FALSE
    <3>1. CASE Fail(d)
      BY <3>1 DEF Fail, Inv, TypeOK
    <3>2. CASE Goto(d, "insert") \/ Goto(d, "set") \/ Set(d)
      BY <3>2 DEF Goto, Set, Inv, TypeOK
    <3> QED
      BY <2>2, <3>1, <3>2 DEF Generate, Insert
  <2>3. ASSUME NEW d \in Callers, Enter(d) \/ TakeFromCell(d) PROVE FALSE
    BY <2>3 DEF Enter, TakeFromCell, Inv, TypeOK
  <2>4. CASE Flush \/ Restart
    BY <2>4 DEF Flush, Restart, Inv, TypeOK
  <2> QED
    BY <2>1, <2>2, <2>3, <2>4 DEF Next, Initialise
<1> QED
  BY <1>1, SetupInvariant, PTL DEF Spec, GeneratedOnce
=============================================================================
