---------------------------- MODULE ErrorClasses -----------------------------
(***************************************************************************)
(* What the two error handlers make of an error: which retry a failed job   *)
(* carries.  An error is its class; of its text only this is kept: whether  *)
(* it tells the reader to start the job over.                               *)
(***************************************************************************)

\* JsonRpcError::Call, by the start of its message ...
DaCallErrors == {"header not found", "height from the future",
                 "syncing in progress", "blob not found", "other call error"}
\* ... and the other variants; "other client error" is the catch-all arm.
DaClientErrors == {"RequestTimeout", "Transport", "RestartNeeded",
                   "other client error"}

\* The ones that say the call did not get through.
DaTransportErrors == {"RequestTimeout", "Transport", "RestartNeeded"}

\* Variant: only the transport is worth a retry, not a node that lags behind.
DaRetryableTransport == DaTransportErrors

\* The DA errors after which handle_da_client_error offers to start over.
DaRetryable == {"header not found", "syncing in progress"} \cup DaTransportErrors

\* sp1_sdk::network::Error; the first two are the program refusing its input.
ZkErrors == {"SimulationFailed", "RequestUnexecutable", "RequestUnfulfillable",
             "RequestTimedOut", "RpcError", "Other", "RequestAuctionTimedOut"}

\* The ones after which handle_zk_client_error offers to start over.
ZkRetryable == {"RequestTimedOut", "RpcError", "Other"}

\* The ones whose text says "callback to start the job over".
AnnouncedRetries == {"RequestTimedOut", "RequestAuctionTimedOut"}

\* Errors that neither handler sees: the task ends, and its job stays as it is.
\* InternalError is a failing database operation or the proof setup's failure;
\* the last two are an SDK error without a type, and a client that cannot be made.
UnhandledErrors == {"MissingBlobIndex", "FailedShareRangeProofSanityCheck",
                    "InternalError", "Unhandled Error", "no DA client"}
=============================================================================
