------------------------- MODULE JobBoardRefinement --------------------------
(***************************************************************************)
(* JobService implements JobBoard: the refinement mapping.                  *)
(***************************************************************************)
EXTENDS JobService

Open    == {j \in Jobs : queue_db[j] # Absent}
Asking  == {j \in Jobs : \E c \in Calls : calls[c].job = j /\ calls[c].pc # "send"}
Working == {j \in Jobs : Held(j)}
Saved   == [open   |-> {j \in Jobs : disk.queue[j] # Absent},
            result |-> disk.finished]
Up      == main # "down"

Board == INSTANCE JobBoard WITH
  MayAbandon <- Faults \cap {"unhandled", "db"} # {},
  open    <- Open,
  result  <- finished_db,
  asking  <- Asking,
  working <- Working,
  saved   <- Saved,
  up      <- Up

\* Every behaviour of the service is, seen through the mapping, a behaviour of
\* the board: no handler, task, crash or restart shows an outsider anything the
\* abstract specification does not allow.
ImplementsBoard == Board!Spec
=============================================================================
