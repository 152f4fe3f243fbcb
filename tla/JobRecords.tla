------------------------------ MODULE JobRecords ------------------------------
(***************************************************************************)
(* What a reader of job_history may rely on about one row, whatever fails  *)
(* and whatever dies: it is written three times at most.  It is created    *)
(* pending (or, for an uploaded template, as done), it is decided once,    *)
(* and that verdict, unless it was already a failure of the application,   *)
(* may be taken back by the last resort of the ingest handler.  That one   *)
(* is final.                                                               *)
(*                                                                         *)
(* Ingest and MediaLifecycle implement this module with all their faults   *)
(* and crashes; the rows JobStats counts are written by nothing else.      *)
(***************************************************************************)
CONSTANT Jobs

VARIABLES
    status,   \* job_history.status, "none" before the row exists
    reason    \* job_history.failure_reason

vars == <<status, reason>>

ProviderVerdicts ==
    {<<"done", "null">>, <<"timeout", "provider_timeout">>, <<"failed", "provider_error">>}

(* The upload was refused, or the application itself failed. *)
OwnVerdicts ==
    {"failed"} \X {"invalid_request", "payload_too_large", "unsupported_media_type",
                   "internal_error"}

Init ==
    /\ status = [j \in Jobs |-> "none"]
    /\ reason = [j \in Jobs |-> "null"]

Write(j, verdict) ==
    /\ status' = [status EXCEPT ![j] = verdict[1]]
    /\ reason' = [reason EXCEPT ![j] = verdict[2]]

Create(j) ==
    /\ status[j] = "none"
    /\ \/ Write(j, <<"pending", "null">>)
       \/ Write(j, <<"done", "null">>)

Decide(j) ==
    /\ status[j] = "pending"
    /\ \E verdict \in ProviderVerdicts \cup OwnVerdicts : Write(j, verdict)

TakeBack(j) ==
    /\ <<status[j], reason[j]>> \in ProviderVerdicts
    /\ Write(j, <<"failed", "internal_error">>)

Next == \E j \in Jobs : Create(j) \/ Decide(j) \/ TakeBack(j)

Spec == Init /\ [][Next]_vars
=============================================================================
