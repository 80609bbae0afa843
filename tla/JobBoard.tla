------------------------------ MODULE JobBoard -------------------------------
(***************************************************************************)
(* What the eq-service promises to someone who sees only its two trees and  *)
(* its disk: which jobs are open (queued), which have a result, who is      *)
(* being answered, which jobs somebody is working on, and what a restart    *)
(* brings back.  No channel, no tasks, no statuses of a queued job.         *)
(***************************************************************************)
EXTENDS JobStatus

CONSTANTS
  Jobs,
  MayAbandon   \* whether work on an open job may stop without a result

VARIABLES
  open,         \* jobs in the queue tree
  result,       \* the finished tree
  asking,       \* jobs a call is deciding about
  working,      \* jobs that some part of the process will act on
  saved,        \* what the disk holds of open and result
  up            \* whether the process runs

board == <<open, result, asking, working, saved, up>>

Results == [Jobs -> FinalStatus \cup {Absent}]

BoardTypeOK ==
  /\ open \subseteq Jobs
  /\ result \in Results
  /\ asking \subseteq Jobs
  /\ working \subseteq Jobs
  /\ saved \in [open : SUBSET Jobs, result : Results]
  /\ up \in BOOLEAN

Init ==
  /\ open = {}
  /\ result = [j \in Jobs |-> Absent]
  /\ asking = {}
  /\ working = {}
  /\ saved = [open |-> open, result |-> result]
  /\ up = FALSE

\* A call about j may lead to its admission only if it found no final answer.
Ask(j) ==
  /\ up
  /\ result[j] \notin Settling
  /\ asking' = asking \cup {j}
  /\ UNCHANGED <<open, result, working, saved, up>>

\* The call ends without admitting j.
Answer(j) ==
  /\ j \in asking
  /\ asking' = asking \ {j}
  /\ UNCHANGED <<open, result, working, saved, up>>

\* The call admits j; whoever admits a job leaves somebody working on it.  A
\* first admission leaves the result alone (it saw none), a retry clears it.
Admit(j) ==
  /\ j \in asking
  /\ asking' \in {asking, asking \ {j}}
  /\ open' = open \cup {j}
  /\ working' = working \cup {j}
  /\ result' \in {result, [result EXCEPT ![j] = Absent]}
  /\ UNCHANGED <<saved, up>>

\* Work on j advances: the job is open and has no result.
Advance(j) ==
  /\ j \in working
  /\ open' = open \cup {j}
  /\ result' = [result EXCEPT ![j] = Absent]
  /\ UNCHANGED <<asking, working, saved, up>>

\* Work on j ends with a result, which closes the job in the same step.
Finish(j) ==
  /\ j \in working
  /\ open' = open \ {j}
  /\ \E answer \in FinalStatus : result' = [result EXCEPT ![j] = answer]
  /\ working' \in {working, working \ {j}}
  /\ UNCHANGED <<asking, saved, up>>

\* Nobody works on j any more: it is closed, or it is given up.
Release(j) ==
  /\ j \in working
  /\ j \notin open \/ MayAbandon
  /\ working' = working \ {j}
  /\ UNCHANGED <<open, result, asking, saved, up>>

\* The disk catches up with both trees at once.
Save ==
  /\ up
  /\ saved' = [open |-> open, result |-> result]
  /\ UNCHANGED <<open, result, asking, working, up>>

\* The process ends: the trees are what was saved, all work is gone.
Stop ==
  /\ up
  /\ up' = FALSE
  /\ open' = saved.open
  /\ result' = saved.result
  /\ asking' = {}
  /\ working' = {}
  /\ UNCHANGED saved

\* A restart takes up every open job.
Start ==
  /\ ~up
  /\ up' = TRUE
  /\ working' = open
  /\ UNCHANGED <<open, result, asking, saved>>

Next ==
  \/ \E j \in Jobs :
       Ask(j) \/ Answer(j) \/ Admit(j) \/ Advance(j) \/ Finish(j) \/ Release(j)
  \/ Save \/ Stop \/ Start

Spec == Init /\ [][Next]_board

=============================================================================
