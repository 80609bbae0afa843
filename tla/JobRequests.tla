----------------------------- MODULE JobRequests -----------------------------
(***************************************************************************)
(* Every proof request is paid for.  The service and its counters, with one *)
(* more history variable: the jobs for which something has happened, since  *)
(* their last request, that leaves the service no way to know of it.        *)
(***************************************************************************)
EXTENDS JobMetrics

VARIABLE excused   \* history: jobs with a reason to be requested again

qvars == <<mvars, excused>>

\* What a restart recovers says nothing of the job's request.
Forgotten(j) ==
  /\ disk.queue[j] \notin {ZkProofPending(r) : r \in Requests}
  /\ disk.finished[j] \notin {ZkProofFinished(r) : r \in Requests}

\* Reasons: the process ended before the request was on the disk, the network
\* failed it, a task gave up between making and recording it, or the job was
\* admitted twice.
Reason(j) ==
  \/ main' = "down" /\ Forgotten(j)
  \/ finished_db'[j] \in {Failed(retry) : retry \in Retries}
  \/ j \in abandoned'
  \/ j \in raced'

NewRequest(j) == \E r \in Requests : requests[r] = NoJob /\ requests'[r] = j

QInit == MInit /\ excused = {}

QNext ==
  /\ MNext
  /\ excused' = {j \in Jobs : Reason(j) \/ (j \in excused /\ ~NewRequest(j))}

QSpec == QInit /\ [][QNext]_qvars

\* No proof is paid for twice without a reason: not by polling, not by clean
\* or unclean restarts of a service that had its request on the disk, not by
\* retries of anything but a failure.
RequestedOncePerReason ==
  [][\A j \in Jobs :
       NewRequest(j) /\ (\E r \in Requests : requests[r] = j) => j \in excused]_qvars
=============================================================================
