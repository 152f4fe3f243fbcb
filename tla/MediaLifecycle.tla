--------------------------- MODULE MediaLifecycle ---------------------------
(***************************************************************************)
(* The ingest path together with the second process that touches the same  *)
(* rows and files: scripts/cleanup_media.py, started by cron every fifteen *)
(* minutes.  One cron run lists the expired results, deletes and marks     *)
(* them one by one, then does the same for the expired temp files.         *)
(*                                                                         *)
(* Expiry is an event of the environment.  A result expires hours after    *)
(* its handler is over; a temp lease is at most the sync deadline computed *)
(* in prepare_job, so it can run out while the provider still works (its   *)
(* own timeout starts later).                                              *)
(***************************************************************************)
EXTENDS Ingest

CONSTANT MaxCronDeaths   \* bound on cron runs that die half way

ASSUME CronAssumption == MaxCronDeaths \in Nat

VARIABLES
    resExpired,   \* jobs whose result_expires_at has passed
    tmpExpired,   \* jobs whose temp lease has passed
    cronAt,       \* where the cron run is
    cronDue,      \* temp leases that had passed when the run took its `now'
    cronTodo,     \* rows of the current listing not handled yet
    cronJob,      \* the row being handled
    cronDeaths    \* runs that died so far

expiryVars == <<resExpired, tmpExpired>>
cronVars == <<cronAt, cronDue, cronTodo, cronJob, cronDeaths>>
mediaVars == <<expiryVars, cronVars>>
allVars == <<vars, mediaVars>>
appVars == <<loop, handlerVars, lockVars, jobVars>>

CronPlaces == {"idle", "results", "mark_result", "temp", "mark_temp"}

MediaTypeOK ==
    /\ TypeOK
    /\ resExpired \subseteq Requests
    /\ tmpExpired \subseteq Requests
    /\ cronAt \in CronPlaces
    /\ cronDue \subseteq Requests
    /\ cronTodo \subseteq Requests
    /\ cronJob \in Requests \cup {NoRequest}
    /\ cronDeaths \in 0..MaxCronDeaths

MediaInit ==
    /\ Init
    /\ resExpired = {}
    /\ tmpExpired = {}
    /\ cronAt = "idle"
    /\ cronDue = {}
    /\ cronTodo = {}
    /\ cronJob = NoRequest
    /\ cronDeaths = 0

-----------------------------------------------------------------------------
(* Time *)

(* started_at + RESULT_TTL_HOURS passes; the handler ended hours before. *)
ResultExpires(r) ==
    /\ status[r] = "done"
    /\ at[r] \in Over
    /\ r \notin resExpired
    /\ resExpired' = resExpired \cup {r}
    /\ UNCHANGED <<vars, tmpExpired, cronVars>>

(* min(sync_deadline, now + TEMP_TTL_SECONDS) passes. *)
TempExpires(r) ==
    /\ tmpRow[r] = "live"
    /\ r \notin tmpExpired
    /\ tmpExpired' = tmpExpired \cup {r}
    /\ UNCHANGED <<vars, resExpired, cronVars>>

-----------------------------------------------------------------------------
(* One cron run *)

(* Mistake: every tracked result is listed, expired or not. *)
CronStartEager ==
    /\ cronAt = "idle"
    /\ cronAt' = "results"
    /\ cronDue' = tmpExpired
    /\ cronTodo' = {r \in Requests : resRow[r] = "live"}
    /\ UNCHANGED <<vars, expiryVars, cronJob, cronDeaths>>

(* Mistake: rows whose file is gone already are not listed. *)
CronStartExisting ==
    /\ cronAt = "idle"
    /\ cronAt' = "results"
    /\ cronDue' = tmpExpired
    /\ cronTodo' = {r \in resExpired : resRow[r] = "live" /\ dir[r] # "absent"}
    /\ UNCHANGED <<vars, expiryVars, cronJob, cronDeaths>>

(* perform_cleanup takes `now' and lists the results expired by then. *)
CronStart ==
    /\ cronAt = "idle"
    /\ cronAt' = "results"
    /\ cronDue' = tmpExpired
    /\ cronTodo' = {r \in resExpired : resRow[r] = "live"}
    /\ UNCHANGED <<vars, expiryVars, cronJob, cronDeaths>>

(* Mistake: the row is going to be marked, the directory is left alone. *)
CronSkipResult ==
    /\ cronAt = "results"
    /\ \E r \in cronTodo : cronJob' = r
    /\ cronAt' = "mark_result"
    /\ UNCHANGED <<vars, expiryVars, cronDue, cronTodo, cronDeaths>>

(* remove_result_dir: rmtree swallows its errors. *)
CronRemoveResult ==
    /\ cronAt = "results"
    /\ \E r \in cronTodo : \E kept \in Remains(dir[r]) :
          /\ dir' = [dir EXCEPT ![r] = kept]
          /\ CountSwallowed(kept)
          /\ cronJob' = r
    /\ cronAt' = "mark_result"
    /\ UNCHANGED <<appVars, resRow, tempVars, crashes, expiryVars, cronDue, cronTodo, cronDeaths>>

CronMarkResult ==
    /\ cronAt = "mark_result"
    /\ resRow' = [resRow EXCEPT ![cronJob] = "cleaned"]
    /\ cronTodo' = cronTodo \ {cronJob}
    /\ cronAt' = "results"
    /\ cronJob' = NoRequest
    /\ UNCHANGED <<appVars, dir, tempVars, budgetVars, expiryVars, cronDue, cronDeaths>>

(* cleanup_expired lists the temp rows against the `now' of the start. *)
CronListTemp ==
    /\ cronAt = "results"
    /\ cronTodo = {}
    /\ cronAt' = "temp"
    /\ cronTodo' = {r \in cronDue : tmpRow[r] = "live"}
    /\ UNCHANGED <<vars, expiryVars, cronDue, cronJob, cronDeaths>>

(* _remove_single_path: unlink, any exception swallowed. *)
CronRemoveTemp ==
    /\ cronAt = "temp"
    /\ \E r \in cronTodo : \E kept \in Remains(tmp[r]) :
          /\ tmp' = [tmp EXCEPT ![r] = kept]
          /\ CountSwallowed(kept)
          /\ cronJob' = r
    /\ cronAt' = "mark_temp"
    /\ UNCHANGED <<appVars, resultVars, tmpRow, crashes, expiryVars, cronDue, cronTodo, cronDeaths>>

CronMarkTemp ==
    /\ cronAt = "mark_temp"
    /\ tmpRow' = [tmpRow EXCEPT ![cronJob] = "cleaned"]
    /\ cronTodo' = cronTodo \ {cronJob}
    /\ cronAt' = "temp"
    /\ cronJob' = NoRequest
    /\ UNCHANGED <<appVars, resultVars, tmp, budgetVars, expiryVars, cronDue, cronDeaths>>

CronEnds ==
    /\ cronAt = "temp"
    /\ cronTodo = {}
    /\ cronAt' = "idle"
    /\ cronDue' = {}
    /\ UNCHANGED <<vars, expiryVars, cronTodo, cronJob, cronDeaths>>

(* Killed, or an exception of the database: exit code 2, nothing undone. *)
CronDies ==
    /\ cronAt # "idle"
    /\ cronDeaths < MaxCronDeaths
    /\ cronDeaths' = cronDeaths + 1
    /\ cronAt' = "idle"
    /\ cronDue' = {}
    /\ cronTodo' = {}
    /\ cronJob' = NoRequest
    /\ UNCHANGED <<vars, expiryVars>>

-----------------------------------------------------------------------------
CronStep ==
    \/ CronStart \/ CronRemoveResult \/ CronMarkResult
    \/ CronListTemp \/ CronRemoveTemp \/ CronMarkTemp \/ CronEnds

MediaNext ==
    \/ Next /\ UNCHANGED mediaVars
    \/ \E r \in Requests : ResultExpires(r) \/ TempExpires(r)
    \/ CronStep
    \/ CronDies

MediaSpec == MediaInit /\ [][MediaNext]_allVars

(* The handlers as in Ingest; time passes; the scheduler starts the script *)
(* again and again and lets it run.                                        *)
MediaFairSpec ==
    /\ MediaSpec
    /\ \A r \in Requests :
          /\ WF_allVars(Step(r) /\ UNCHANGED mediaVars)
          /\ WF_allVars(ResultExpires(r))
          /\ WF_allVars(TempExpires(r))
    /\ WF_allVars(CronStep)

-----------------------------------------------------------------------------
(* What GET /media/{media_id} answers for the temp row of r. *)
MediaAnswer(r) ==
    IF tmpRow[r] # "live" THEN 404
    ELSE IF r \in tmpExpired \/ tmp[r] = "absent" THEN 410
    ELSE 200

(* Nothing is deleted early: a done job serves its result until the        *)
(* retention is over, and a driver that passes the provider a link to the  *)
(* upload passes one that works until the lease is over, whatever a cron   *)
(* run that listed its rows earlier does meanwhile.                        *)
NothingDeletedEarly ==
    \A r \in Requests :
        /\ status[r] = "done" /\ r \notin resExpired => Link(r) = "available"
        /\ at[r] = "provider" /\ r \notin tmpExpired => MediaAnswer(r) = 200

(* A row marked cleaned has no file behind it, except in the moment        *)
(* between the two statements of TempMediaStore.cleanup.                   *)
CleanedMeansGone ==
    \A r \in Requests :
        /\ resRow[r] = "cleaned" => dir[r] = "absent"
        /\ tmpRow[r] = "cleaned" => tmp[r] = "absent" \/ at[r] = "remove_temp"

(* A file that is gone gets its cleaned_at, also when the cron run died    *)
(* between the deletion and the mark.                                      *)
DeletionIsRecorded ==
    \A r \in Requests :
        /\ resRow[r] = "live" /\ dir[r] = "absent" ~> resRow[r] = "cleaned"
        /\ tmpRow[r] = "live" /\ tmp[r] = "absent" ~> tmpRow[r] = "cleaned"

(* Public links stop working once the retention is over. *)
PublicLinkExpires ==
    \A r \in Requests : r \in resExpired ~> Link(r) # "available"

(* A temp file whose deletion by the cron run failed is deleted later. *)
FailedDeletionIsRetried ==
    \A r \in Requests :
        cronAt = "mark_temp" /\ cronJob = r /\ tmp[r] = "present" ~> tmp[r] = "absent"
=============================================================================
