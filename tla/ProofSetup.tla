----------------------------- MODULE ProofSetup ------------------------------
(***************************************************************************)
(* The proving setup of the zkVM program: heavy to generate, identical      *)
(* every time, wanted by every job at its proof request and by the startup  *)
(* task.  One OnceCell per process holds it, one entry of the config tree   *)
(* keeps it from one process to the next.                                   *)
(*                                                                         *)
(* tokio's OnceCell hands a single permit to its callers in the order they  *)
(* came; who has it runs the initialiser; an initialiser that fails passes  *)
(* the permit on, one that succeeds lets everybody through.                 *)
(***************************************************************************)
EXTENDS Naturals, Sequences

CONSTANTS
  Callers,   \* tasks that ask for the setup; each may ask again and again
  Nobody,    \* no caller
  Faults     \* which kinds of failure the environment produces

\* "db": a sled operation fails.  "setup": generating fails.  "crash": the
\* process dies.  "foreign": the tree may hold an entry of another format.
FaultKinds == {"db", "setup", "crash", "foreign"}

ASSUME NobodyAssumption == Nobody \notin Callers
ASSUME SetupFaultsAssumption == Faults \subseteq FaultKinds

VARIABLES
  cell,       \* KECCAK_INCLUSION_SETUP: the caller whose instance it holds
  permit,     \* the caller that runs the initialiser
  waiters,    \* callers waiting for the permit, first come first
  pc,         \* where each caller is in get_proof_setup
  got,        \* the instance each caller has got from the cell last
  config_db,  \* the tree's entry for the program: "none", "setup", "foreign"
  disk        \* the entry a restart would recover

shared == <<cell, permit, waiters>>
vars   == <<cell, permit, waiters, pc, got, config_db, disk>>

Pcs == {"idle", "waiting", "lookup", "generate", "insert", "set"}
Initialising == {"lookup", "generate", "insert", "set"}
Entries == {"none", "setup", "foreign"}

TypeOK ==
  /\ cell \in Callers \cup {Nobody}
  /\ permit \in Callers \cup {Nobody}
  /\ waiters \in Seq(Callers)
  /\ pc \in [Callers -> Pcs]
  /\ got \in [Callers -> Callers \cup {Nobody}]
  /\ config_db \in Entries
  /\ disk \in Entries

Init ==
  /\ cell = Nobody
  /\ permit = Nobody
  /\ waiters = <<>>
  /\ pc = [c \in Callers |-> "idle"]
  /\ got = [c \in Callers |-> Nobody]
  /\ config_db \in {"none"} \cup ({"foreign"} \cap Faults)
  /\ disk = config_db

-----------------------------------------------------------------------------
(***************************************************************************)
(* The cell.                                                                *)
(***************************************************************************)

\* The cell is set: the caller clones the pointer and leaves.
TakeFromCell(c) ==
  /\ pc[c] = "idle" \/ pc[c] = "waiting"
  /\ cell # Nobody
  /\ got' = [got EXCEPT ![c] = cell]
  /\ pc' = [pc EXCEPT ![c] = "idle"]
  /\ UNCHANGED <<shared, config_db, disk>>

\* Variant: whoever finds the cell empty initialises it, without a permit.
EnterAtOnce(c) ==
  /\ pc[c] = "idle"
  /\ cell = Nobody
  /\ pc' = [pc EXCEPT ![c] = "lookup"]
  /\ UNCHANGED <<shared, got, config_db, disk>>

\* The cell is empty: the caller takes the permit, or waits for it.
Enter(c) ==
  /\ pc[c] = "idle"
  /\ cell = Nobody
  /\ IF permit = Nobody
       THEN permit' = c /\ pc' = [pc EXCEPT ![c] = "lookup"] /\ UNCHANGED waiters
       ELSE /\ waiters' = Append(waiters, c)
            /\ pc' = [pc EXCEPT ![c] = "waiting"]
            /\ UNCHANGED permit
  /\ UNCHANGED <<cell, got, config_db, disk>>

\* Variant: a failing initialiser keeps the permit.
FailHolding(c) ==
  /\ pc' = [pc EXCEPT ![c] = "idle"]
  /\ UNCHANGED <<shared, got>>

\* Variant: a failing initialiser wakes everybody who waits.
FailWakingAll(c) ==
  /\ permit' = Nobody
  /\ waiters' = <<>>
  /\ pc' = [d \in Callers |-> IF d = c THEN "idle"
                              ELSE IF pc[d] = "waiting" THEN "lookup" ELSE pc[d]]
  /\ UNCHANGED <<cell, got>>

\* The initialiser failed: its caller returns the error, the cell stays empty,
\* the permit goes to the first waiter.
Fail(c) ==
  /\ IF waiters = <<>>
       THEN /\ permit' = Nobody
            /\ pc' = [pc EXCEPT ![c] = "idle"]
            /\ UNCHANGED waiters
       ELSE /\ permit' = Head(waiters)
            /\ pc' = [pc EXCEPT ![c] = "idle", ![Head(waiters)] = "lookup"]
            /\ waiters' = Tail(waiters)
  /\ UNCHANGED <<cell, got>>

\* The initialiser succeeded: the caller has its instance, and from now on it
\* is everybody's.
Set(c) ==
  /\ pc[c] = "set"
  /\ cell' = c
  /\ permit' = Nobody
  /\ waiters' = <<>>
  /\ got' = [got EXCEPT ![c] = c]
  /\ pc' = [pc EXCEPT ![c] = "idle"]
  /\ UNCHANGED <<config_db, disk>>

-----------------------------------------------------------------------------
(***************************************************************************)
(* The initialiser.                                                         *)
(***************************************************************************)

Goto(c, stage) ==
  /\ pc' = [pc EXCEPT ![c] = stage]
  /\ UNCHANGED <<shared, got>>

\* Variant: an entry that does not deserialize is taken for a missing one.
LookupRegenerating(c) ==
  /\ pc[c] = "lookup"
  /\ IF config_db = "setup" THEN Goto(c, "set") ELSE Goto(c, "generate")
  /\ UNCHANGED <<config_db, disk>>

\* config_db.get, and bincode of what it found.
Lookup(c) ==
  /\ pc[c] = "lookup"
  /\ \/ config_db = "setup" /\ Goto(c, "set")
     \/ config_db = "none" /\ Goto(c, "generate")
     \/ config_db = "foreign" /\ Fail(c)
     \/ "db" \in Faults /\ Fail(c)
  /\ UNCHANGED <<config_db, disk>>

\* zk_client.setup on a blocking thread, which may panic.
Generate(c) ==
  /\ pc[c] = "generate"
  /\ \/ Goto(c, "insert")
     \/ "setup" \in Faults /\ Fail(c)
  /\ UNCHANGED <<config_db, disk>>

\* Variant: the result of the insert is ignored.
InsertIgnoringErrors(c) ==
  /\ pc[c] = "insert"
  /\ \/ config_db' = "setup"
     \/ "db" \in Faults /\ UNCHANGED config_db
  /\ Goto(c, "set")
  /\ UNCHANGED disk

\* config_db.insert; a setup that could not be stored is thrown away.
Insert(c) ==
  /\ pc[c] = "insert"
  /\ \/ config_db' = "setup" /\ Goto(c, "set")
     \/ "db" \in Faults /\ Fail(c) /\ UNCHANGED config_db
  /\ UNCHANGED disk

-----------------------------------------------------------------------------
(***************************************************************************)
(* The process and its disk.                                                *)
(***************************************************************************)

Flush == disk' = config_db /\ UNCHANGED <<shared, pc, got, config_db>>

Restart ==
  /\ "crash" \in Faults
  /\ cell' = Nobody
  /\ permit' = Nobody
  /\ waiters' = <<>>
  /\ pc' = [c \in Callers |-> "idle"]
  /\ got' = [c \in Callers |-> Nobody]
  /\ config_db' = disk
  /\ UNCHANGED disk

Initialise(c) == Lookup(c) \/ Generate(c) \/ Insert(c) \/ Set(c)

Next ==
  \/ \E c \in Callers : Enter(c) \/ TakeFromCell(c) \/ Initialise(c)
  \/ Flush
  \/ Restart

Spec == Init /\ [][Next]_vars

\* A task in the initialiser goes on, and one that is woken runs.  Nobody has
\* to ask.
Fairness ==
  \A c \in Callers :
    WF_vars(Initialise(c)) /\ WF_vars(pc[c] = "waiting" /\ TakeFromCell(c))

FairSpec == Spec /\ Fairness

-----------------------------------------------------------------------------
(***************************************************************************)
(* Properties                                                               *)
(***************************************************************************)

\* Only one caller at a time reads, generates and stores the setup, and only
\* as long as the cell is empty: never two 200 MB generations at once.
OneInitialiser ==
  \A c \in Callers : pc[c] \in Initialising => permit = c /\ cell = Nobody

\* No wake-up is lost: while the cell is empty, the callers that wait are the
\* ones in the permit's queue, each there once, and whoever has the permit is
\* at work and will pass it on.
NobodyWaitsInVain ==
  cell = Nobody =>
    /\ \A c \in Callers : pc[c] = "waiting" <=> \E i \in 1..Len(waiters) : waiters[i] = c
    /\ \A i, k \in 1..Len(waiters) : waiters[i] = waiters[k] => i = k
    /\ waiters # <<>> => permit # Nobody
    /\ permit # Nobody => pc[permit] \in Initialising

\* All jobs of a process read a single instance, whichever of them built it.
SingleInstance == \A c \in Callers : got[c] # Nobody => got[c] = cell

\* What jobs prove with is in the config tree: no restart after a flush has to
\* generate what this process already used.
StoredBeforeUse == cell # Nobody => config_db = "setup"

\* What the disk has is never generated again, or written over, by any later
\* process.
GeneratedOnce ==
  [][\A c \in Callers :
       pc[c] # "generate" /\ pc'[c] = "generate" => disk = "none"]_vars

\* Whoever asks is answered, with the setup or with an error, even if every
\* initialiser before it failed.
CallersAreServed == \A c \in Callers : pc[c] # "idle" ~> pc[c] = "idle"
=============================================================================
