---------------------------- MODULE JobLifecycle ----------------------------
(***************************************************************************)
(* What the ingest service promises about a job, whatever the handler, the *)
(* cron script and the two stores do to keep the promise.                  *)
(*                                                                         *)
(* A job is recorded once as pending, is decided once (done, timeout or    *)
(* failed) and never changes its mind.  The public link of a job answers   *)
(* 404 until the job is done, serves the result from the very step that    *)
(* decides "done", and once the result has been withdrawn answers 410 for  *)
(* ever.  Ingest and MediaLifecycle are checked to implement this module.  *)
(***************************************************************************)
CONSTANT Jobs

VARIABLES
    status,   \* job_history.status, "none" before the row exists
    link      \* what GET /public/results/{job_id} answers

vars == <<status, link>>

Decided == {"done", "timeout", "failed"}

TypeOK ==
    /\ status \in [Jobs -> {"none", "pending"} \cup Decided]
    /\ link \in [Jobs -> {"not_found", "available", "expired"}]

Init ==
    /\ status = [j \in Jobs |-> "none"]
    /\ link = [j \in Jobs |-> "not_found"]

(* The row of job j is created. *)
Open(j) ==
    /\ status[j] = "none"
    /\ status' = [status EXCEPT ![j] = "pending"]
    /\ UNCHANGED link

(* Job j is decided; a done job is served from this step on. *)
Decide(j, verdict) ==
    /\ status[j] = "pending"
    /\ status' = [status EXCEPT ![j] = verdict]
    /\ link' = [link EXCEPT ![j] = IF verdict = "done" THEN "available" ELSE @]

(* The retention of job j's result is over and its files are gone. *)
Withdraw(j) ==
    /\ link[j] = "available"
    /\ link' = [link EXCEPT ![j] = "expired"]
    /\ UNCHANGED status

Next ==
    \E j \in Jobs :
        \/ Open(j)
        \/ \E verdict \in Decided : Decide(j, verdict)
        \/ Withdraw(j)

Spec == Init /\ [][Next]_vars
=============================================================================
