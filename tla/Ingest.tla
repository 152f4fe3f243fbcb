------------------------------- MODULE Ingest -------------------------------
(***************************************************************************)
(* The ingest path of PhotoChanger: POST /api/ingest/{slot_id} and the     *)
(* admin test run, from arrival to reply, with the rows and files they     *)
(* leave behind.                                                           *)
(*                                                                         *)
(* All handlers are coroutines of one asyncio event loop.  Code between    *)
(* two awaits runs without another coroutine in between, so `loop' names   *)
(* the handler that is running; every commit and every file operation is   *)
(* still a step of its own, because the process can die between two of     *)
(* them and because the cron script (MediaLifecycle) is another process.   *)
(*                                                                         *)
(* One request opens at most one job, so a request also names its job.     *)
(***************************************************************************)
EXTENDS Naturals, Sequences

CONSTANTS
    Requests,     \* requests that may arrive, and the jobs they open
    Slots,        \* slot identifiers
    NoRequest,    \* nobody runs, nobody owns the lock
    SlotOf,       \* the slot a request addresses
    TestRuns,     \* the requests that are admin test runs
    MaxFaults,    \* bound on operations of a store that fail
    MaxCrashes    \* bound on crashes of the application process

ASSUME IngestAssumption ==
    /\ NoRequest \notin Requests
    /\ SlotOf \in [Requests -> Slots]
    /\ TestRuns \subseteq Requests
    /\ MaxFaults \in Nat
    /\ MaxCrashes \in Nat

VARIABLES
    loop,      \* the handler between two awaits, or NoRequest
    at,        \* where each handler is
    outcome,   \* what the handler is about to record and answer
    reply,     \* HTTP status sent, 0 before the answer
    owner,     \* per slot: the holder of its asyncio.Lock
    waiters,   \* per slot: the FIFO of handlers blocked in acquire()
    status,    \* job_history.status
    reason,    \* job_history.failure_reason
    dir,       \* media/results/{slot}/{job}
    resRow,    \* media_object of scope "result"
    tmp,       \* the upload's copy under media/temp
    tmpRow,    \* media_object of scope "provider"
    faults,    \* failed operations so far
    crashes    \* crashes so far

handlerVars == <<at, outcome, reply>>
lockVars == <<owner, waiters>>
jobVars == <<status, reason>>
resultVars == <<dir, resRow>>
tempVars == <<tmp, tmpRow>>
storeVars == <<jobVars, resultVars, tempVars>>
budgetVars == <<faults, crashes>>
vars == <<loop, handlerVars, lockVars, storeVars, budgetVars>>

-----------------------------------------------------------------------------
(* Values *)

JobStatus == {"pending", "done", "timeout", "failed"}

FailureReason ==
    {"invalid_request", "payload_too_large", "unsupported_media_type",
     "provider_timeout", "provider_error", "internal_error"}

(* Places before the handler holds a job of its own. *)
Entrance == {"idle", "form", "waiting"}

(* Places inside `async with slot_lock`, and the same code of a test run. *)
Inside ==
    {"prepare", "mkdir", "validate", "reading", "persist", "copying",
     "provider", "save", "set_result", "register_result",
     "set_failure", "remove_result", "mark_temp", "remove_temp"}

Over == {"answered", "lost"}

Places == Entrance \cup Inside \cup Over

(* The HTTP status of the reply for an outcome. *)
ReplyFor(o) ==
    CASE o = "ok" -> 200
      [] o = "invalid_request" -> 400
      [] o = "payload_too_large" -> 413
      [] o = "unsupported_media_type" -> 415
      [] o = "provider_timeout" -> 504
      [] o = "provider_error" -> 502
      [] OTHER -> 500

ReplyCodes == {0, 200, 400, 401, 404, 413, 415, 429, 500, 502, 504}

TypeOK ==
    /\ loop \in Requests \cup {NoRequest}
    /\ at \in [Requests -> Places]
    /\ outcome \in [Requests -> FailureReason \cup {"none", "ok"}]
    /\ reply \in [Requests -> ReplyCodes]
    /\ owner \in [Slots -> Requests \cup {NoRequest}]
    /\ waiters \in [Slots -> Seq(Requests)]
    /\ status \in [Requests -> JobStatus \cup {"none"}]
    /\ reason \in [Requests -> FailureReason \cup {"null"}]
    /\ dir \in [Requests -> {"absent", "empty", "payload"}]
    /\ resRow \in [Requests -> {"none", "live", "cleaned"}]
    /\ tmp \in [Requests -> {"absent", "present"}]
    /\ tmpRow \in [Requests -> {"none", "live", "cleaned"}]
    /\ faults \in 0..MaxFaults
    /\ crashes \in 0..MaxCrashes

Init ==
    /\ loop = NoRequest
    /\ at = [r \in Requests |-> "idle"]
    /\ outcome = [r \in Requests |-> "none"]
    /\ reply = [r \in Requests |-> 0]
    /\ owner = [s \in Slots |-> NoRequest]
    /\ waiters = [s \in Slots |-> <<>>]
    /\ status = [r \in Requests |-> "none"]
    /\ reason = [r \in Requests |-> "null"]
    /\ dir = [r \in Requests |-> "absent"]
    /\ resRow = [r \in Requests |-> "none"]
    /\ tmp = [r \in Requests |-> "absent"]
    /\ tmpRow = [r \in Requests |-> "none"]
    /\ faults = 0
    /\ crashes = 0

-----------------------------------------------------------------------------
(* Moves of a handler *)

(* Handler r is the running coroutine, or the loop is free to resume it. *)
Runs(r, place) ==
    /\ at[r] = place
    /\ loop \in {NoRequest, r}

(* r goes on to `place' with no await in between ... *)
Continue(r, place) ==
    /\ at' = [at EXCEPT ![r] = place]
    /\ loop' = r

(* ... or awaits something there and gives up the loop. *)
Await(r, place) ==
    /\ at' = [at EXCEPT ![r] = place]
    /\ loop' = NoRequest

(* Mistake: the lock is never given back. *)
ReleaseForgotten(r) == UNCHANGED owner

Release(r) == owner' = [owner EXCEPT ![SlotOf[r]] = IF @ = r THEN NoRequest ELSE @]

(* Mistake: the reply is sent without leaving `async with'. *)
AnswerKeepingLock(r, code) ==
    /\ at' = [at EXCEPT ![r] = "answered"]
    /\ reply' = [reply EXCEPT ![r] = code]
    /\ loop' = NoRequest
    /\ UNCHANGED owner

(* r leaves the handler: __aexit__ of the lock, then the response. *)
Answer(r, code) ==
    /\ at' = [at EXCEPT ![r] = "answered"]
    /\ reply' = [reply EXCEPT ![r] = code]
    /\ loop' = NoRequest
    /\ Release(r)

(* r starts to record the failure `why'. *)
Fail(r, why) ==
    /\ outcome' = [outcome EXCEPT ![r] = why]
    /\ Continue(r, "set_failure")

(* TempMediaStore.cleanup marks the handle's row first, if there is one. *)
CleanupPlace(r) == IF tmpRow[r] = "none" THEN "remove_temp" ELSE "mark_temp"

(* What a deletion that ignores errors leaves of x: nothing, unless the    *)
(* file system fails and the error is swallowed.                           *)
Remains(x) == {"absent"} \cup (IF faults < MaxFaults THEN {x} ELSE {})

CountSwallowed(kept) == faults' = IF kept = "absent" THEN faults ELSE faults + 1

-----------------------------------------------------------------------------
(* Arrival and the slot lock *)

(* A test run takes no lock.  It is refused when its overrides do not      *)
(* parse or its slot does not exist.                                       *)
StartTest(r) ==
    \/ Continue(r, "prepare") /\ UNCHANGED <<reply, owner>>
    \/ \E code \in {400, 404} : Answer(r, code)

(* The request reaches the handler.  An ingest request is refused at once  *)
(* while the slot is locked.  `await request.form()' may or may not give   *)
(* up the loop.                                                            *)
Arrive(r) ==
    /\ Runs(r, "idle")
    /\ IF r \in TestRuns
          THEN StartTest(r)
          ELSE IF owner[SlotOf[r]] # NoRequest
                  THEN Answer(r, 429)
                  ELSE /\ Continue(r, "form") \/ Await(r, "form")
                       /\ UNCHANGED <<reply, owner>>
    /\ UNCHANGED <<outcome, waiters, storeVars, budgetVars>>

(* Missing field or wrong password: no job is opened. *)
Refuse(r) ==
    /\ Runs(r, "form")
    /\ \E code \in {400, 401} : Answer(r, code)
    /\ UNCHANGED <<outcome, waiters, storeVars, budgetVars>>

(* Mistake: the check at arrival is taken for the lock. *)
EnterUnlocked(r) ==
    /\ Runs(r, "form")
    /\ owner' = [owner EXCEPT ![SlotOf[r]] = r]
    /\ Continue(r, "prepare")
    /\ UNCHANGED <<outcome, reply, waiters, storeVars, budgetVars>>

Enter(r) ==
    /\ Runs(r, "form")
    /\ owner[SlotOf[r]] = NoRequest
    /\ waiters[SlotOf[r]] = <<>>
    /\ owner' = [owner EXCEPT ![SlotOf[r]] = r]
    /\ Continue(r, "prepare")
    /\ UNCHANGED <<outcome, reply, waiters, storeVars, budgetVars>>

Queue(r) ==
    /\ Runs(r, "form")
    /\ \/ owner[SlotOf[r]] # NoRequest
       \/ waiters[SlotOf[r]] # <<>>
    /\ waiters' = [waiters EXCEPT ![SlotOf[r]] = Append(@, r)]
    /\ Await(r, "waiting")
    /\ UNCHANGED <<outcome, reply, owner, storeVars, budgetVars>>

(* release() wakes the first waiter, which takes the lock when it runs. *)
Wake(r) ==
    /\ Runs(r, "waiting")
    /\ owner[SlotOf[r]] = NoRequest
    /\ waiters[SlotOf[r]] # <<>>
    /\ Head(waiters[SlotOf[r]]) = r
    /\ owner' = [owner EXCEPT ![SlotOf[r]] = r]
    /\ waiters' = [waiters EXCEPT ![SlotOf[r]] = Tail(@)]
    /\ Continue(r, "prepare")
    /\ UNCHANGED <<outcome, reply, storeVars, budgetVars>>

-----------------------------------------------------------------------------
(* prepare_job *)

(* Unknown or disabled slot: 404 and no row. *)
RejectSlot(r) ==
    /\ Runs(r, "prepare")
    /\ Answer(r, 404)
    /\ UNCHANGED <<outcome, waiters, storeVars, budgetVars>>

CreatePending(r) ==
    /\ Runs(r, "prepare")
    /\ status' = [status EXCEPT ![r] = "pending"]
    /\ Continue(r, "mkdir")
    /\ UNCHANGED <<outcome, reply, lockVars, reason, resultVars, tempVars, budgetVars>>

EnsureResultDir(r) ==
    /\ Runs(r, "mkdir")
    /\ dir' = [dir EXCEPT ![r] = "empty"]
    /\ Continue(r, "validate")
    /\ UNCHANGED <<outcome, reply, lockVars, jobVars, resRow, tempVars, budgetVars>>

-----------------------------------------------------------------------------
(* validate_upload *)

(* Mistake: the refusal is answered and not recorded. *)
RefuseUnrecorded(r) ==
    /\ Runs(r, "validate")
    /\ \/ Answer(r, 415) /\ UNCHANGED outcome
       \/ Await(r, "reading") /\ UNCHANGED <<outcome, reply, owner>>
    /\ UNCHANGED <<waiters, storeVars, budgetVars>>

(* The slot is read again and the declared content type is checked. *)
CheckContentType(r) ==
    /\ Runs(r, "validate")
    /\ \/ Fail(r, "unsupported_media_type")
       \/ Await(r, "reading") /\ UNCHANGED outcome
    /\ UNCHANGED <<reply, lockVars, storeVars, budgetVars>>

(* The upload is read to its end or to the cap.  A checksum that does not  *)
(* match is only logged.  An error of the read is a StoreFault: validate() *)
(* turns it into UploadReadError, but its `finally' then seeks in the file *)
(* it has just closed, and the ValueError of the seek is what escapes.     *)
ReadUpload(r) ==
    /\ Runs(r, "reading")
    /\ \/ Fail(r, "payload_too_large")
       \/ Continue(r, "persist") /\ UNCHANGED outcome
    /\ UNCHANGED <<reply, lockVars, storeVars, budgetVars>>

(* The temp file is created and the copy awaits its first chunk. *)
OpenTempFile(r) ==
    /\ Runs(r, "persist")
    /\ tmp' = [tmp EXCEPT ![r] = "present"]
    /\ Await(r, "copying")
    /\ UNCHANGED <<outcome, reply, lockVars, jobVars, resultVars, tmpRow, budgetVars>>

(* The copy ends, its row is registered and the provider is awaited. *)
RegisterTemp(r) ==
    /\ Runs(r, "copying")
    /\ tmpRow' = [tmpRow EXCEPT ![r] = "live"]
    /\ Await(r, "provider")
    /\ UNCHANGED <<outcome, reply, lockVars, jobVars, resultVars, tmp, budgetVars>>

-----------------------------------------------------------------------------
(* process, record_success *)

(* wait_for(driver.process) ends: a result, a timeout of either kind, or   *)
(* any other exception of the driver.                                      *)
ProviderEnds(r) ==
    /\ Runs(r, "provider")
    /\ \/ /\ outcome' = [outcome EXCEPT ![r] = "ok"]
          /\ Continue(r, "save")
       \/ \E why \in {"provider_timeout", "provider_error"} : Fail(r, why)
    /\ UNCHANGED <<reply, lockVars, storeVars, budgetVars>>

(* Mistake: the payload is not on disk when the row says done. *)
SavePayloadLater(r) ==
    /\ Runs(r, "save")
    /\ Continue(r, "set_result")
    /\ UNCHANGED <<outcome, reply, lockVars, jobVars, resultVars, tempVars, budgetVars>>

SavePayload(r) ==
    /\ Runs(r, "save")
    /\ dir' = [dir EXCEPT ![r] = "payload"]
    /\ Continue(r, "set_result")
    /\ UNCHANGED <<outcome, reply, lockVars, jobVars, resRow, tempVars, budgetVars>>

SetResult(r) ==
    /\ Runs(r, "set_result")
    /\ status' = [status EXCEPT ![r] = "done"]
    /\ reason' = [reason EXCEPT ![r] = "null"]
    /\ Continue(r, "register_result")
    /\ UNCHANGED <<outcome, reply, lockVars, resultVars, tempVars, budgetVars>>

(* Mistake: no media_object for the result. *)
RegisterNothing(r) ==
    /\ Runs(r, "register_result")
    /\ Continue(r, CleanupPlace(r))
    /\ UNCHANGED <<outcome, reply, lockVars, jobVars, resultVars, tempVars, budgetVars>>

RegisterResult(r) ==
    /\ Runs(r, "register_result")
    /\ resRow' = [resRow EXCEPT ![r] = "live"]
    /\ Continue(r, CleanupPlace(r))
    /\ UNCHANGED <<outcome, reply, lockVars, jobVars, dir, tempVars, budgetVars>>

-----------------------------------------------------------------------------
(* record_failure, TempMediaStore.cleanup *)

(* Mistake: the status argument is forgotten and its default is used. *)
SetFailureDefault(r) ==
    /\ Runs(r, "set_failure")
    /\ status' = [status EXCEPT ![r] = "failed"]
    /\ reason' = [reason EXCEPT ![r] = outcome[r]]
    /\ Continue(r, "remove_result")
    /\ UNCHANGED <<outcome, reply, lockVars, resultVars, tempVars, budgetVars>>

SetFailure(r) ==
    /\ Runs(r, "set_failure")
    /\ status' = [status EXCEPT ![r] =
                    IF outcome[r] = "provider_timeout" THEN "timeout" ELSE "failed"]
    /\ reason' = [reason EXCEPT ![r] = outcome[r]]
    /\ Continue(r, "remove_result")
    /\ UNCHANGED <<outcome, reply, lockVars, resultVars, tempVars, budgetVars>>

(* Mistake: a failed job keeps the directory prepare_job made for it. *)
KeepResultDir(r) ==
    /\ Runs(r, "remove_result")
    /\ Continue(r, CleanupPlace(r))
    /\ UNCHANGED <<outcome, reply, lockVars, storeVars, budgetVars>>

RemoveResultDir(r) ==
    /\ Runs(r, "remove_result")
    /\ \E kept \in Remains(dir[r]) :
          /\ dir' = [dir EXCEPT ![r] = kept]
          /\ CountSwallowed(kept)
    /\ Continue(r, CleanupPlace(r))
    /\ UNCHANGED <<outcome, reply, lockVars, jobVars, resRow, tempVars, crashes>>

MarkTemp(r) ==
    /\ Runs(r, "mark_temp")
    /\ tmpRow' = [tmpRow EXCEPT ![r] = "cleaned"]
    /\ Continue(r, "remove_temp")
    /\ UNCHANGED <<outcome, reply, lockVars, jobVars, resultVars, tmp, budgetVars>>

(* The last effect of either path; then the handler answers. *)
RemoveTemp(r) ==
    /\ Runs(r, "remove_temp")
    /\ \E kept \in Remains(tmp[r]) :
          /\ tmp' = [tmp EXCEPT ![r] = kept]
          /\ CountSwallowed(kept)
    /\ Answer(r, ReplyFor(outcome[r]))
    /\ UNCHANGED <<outcome, waiters, jobVars, resultVars, tmpRow, crashes>>

-----------------------------------------------------------------------------
(* Failures *)

(* Places where a commit or a file operation can raise. *)
Fallible ==
    {"prepare", "mkdir", "validate", "reading", "persist", "copying", "save",
     "set_result", "register_result", "set_failure", "mark_temp"}

(* Mistake: submit_ingest without its `except Exception'. *)
NeverInProcess(r) == FALSE

(* The exception is raised inside service.process(). *)
InProcess(r) == outcome[r] \in {"ok", "provider_timeout", "provider_error"}

(* An operation of a store raises and has no effect, except that a failed  *)
(* write may leave a partial payload.  submit_ingest records what escapes  *)
(* from process() as internal_error; everything else, and every error of a *)
(* test run, reaches the framework as a bare 500.                          *)
StoreFault(r) ==
    /\ faults < MaxFaults
    /\ at[r] \in Fallible
    /\ loop \in {NoRequest, r}
    /\ faults' = faults + 1
    /\ \/ UNCHANGED dir
       \/ at[r] = "save" /\ dir' = [dir EXCEPT ![r] = "payload"]
    /\ IF InProcess(r) /\ r \notin TestRuns
          THEN Fail(r, "internal_error") /\ UNCHANGED <<reply, owner>>
          ELSE Answer(r, 500) /\ UNCHANGED outcome
    /\ UNCHANGED <<waiters, jobVars, resRow, tempVars, crashes>>

(* The process dies and is started again: handlers and locks are gone,     *)
(* rows and files stay, and nothing recovers the jobs left pending.        *)
Crash ==
    /\ crashes < MaxCrashes
    /\ crashes' = crashes + 1
    /\ loop' = NoRequest
    /\ at' = [r \in Requests |->
                IF at[r] \in {"idle", "answered"} THEN at[r] ELSE "lost"]
    /\ owner' = [s \in Slots |-> NoRequest]
    /\ waiters' = [s \in Slots |-> <<>>]
    /\ UNCHANGED <<outcome, reply, storeVars, faults>>

-----------------------------------------------------------------------------
Step(r) ==
    \/ Refuse(r) \/ Enter(r) \/ Queue(r) \/ Wake(r)
    \/ RejectSlot(r) \/ CreatePending(r) \/ EnsureResultDir(r)
    \/ CheckContentType(r) \/ ReadUpload(r) \/ OpenTempFile(r) \/ RegisterTemp(r)
    \/ ProviderEnds(r) \/ SavePayload(r) \/ SetResult(r) \/ RegisterResult(r)
    \/ SetFailure(r) \/ RemoveResultDir(r) \/ MarkTemp(r) \/ RemoveTemp(r)

Next ==
    \/ \E r \in Requests : Arrive(r) \/ Step(r) \/ StoreFault(r)
    \/ Crash

Spec == Init /\ [][Next]_vars

(* The event loop resumes every ready coroutine, uploads end or are cut    *)
(* off, and wait_for bounds the provider.  Nobody has to send a request.   *)
FairSpec == Spec /\ \A r \in Requests : WF_vars(Step(r))

-----------------------------------------------------------------------------
(* Safety *)

(* Ingest requests of one slot never overlap: of two different ones at     *)
(* most one is between prepare_job and its reply.  Holds although the      *)
(* `locked()' test and the acquisition are separated by an await, and      *)
(* although a released lock is free for a moment before its waiter runs.   *)
SlotExclusion ==
    \A r, q \in Requests \ TestRuns :
        r # q /\ SlotOf[r] = SlotOf[q] => ~(at[r] \in Inside /\ at[q] \in Inside)

(* Whatever raises in `async with slot_lock', the lock is given back: its  *)
(* owner is always a handler still inside, so no slot answers 429 for ever.*)
OwnerIsInside ==
    \A s \in Slots : owner[s] # NoRequest =>
        at[owner[s]] \in Inside /\ SlotOf[owner[s]] = s

(* The reply and the row tell the same story: 200 goes with a done, stored *)
(* and tracked result, every other code of an opened job with the status   *)
(* and failure_reason it stands for, and the entrance codes with no row.   *)
(* So while no operation has failed, also for those who outlive a crash.   *)
ReplyMatchesRow ==
    \A r \in Requests : faults = 0 /\ at[r] = "answered" =>
        CASE reply[r] = 200 ->
                status[r] = "done" /\ reason[r] = "null" /\ dir[r] = "payload"
                /\ resRow[r] = "live"
          [] reply[r] \in {401, 404, 429} -> status[r] = "none"
          [] reply[r] = 504 -> status[r] = "timeout" /\ reason[r] = "provider_timeout"
          [] OTHER ->
                \/ status[r] = "failed" /\ reply[r] = ReplyFor(reason[r])
                \/ status[r] = "none" /\ reply[r] = 400

(* While no operation has failed, an answered request leaves no temp file, *)
(* no live temp row, and no result directory unless the job is done.       *)
NothingLeftBehind ==
    \A r \in Requests : faults = 0 /\ at[r] = "answered" =>
        /\ tmp[r] = "absent"
        /\ tmpRow[r] # "live"
        /\ dir[r] # "absent" => status[r] = "done"

(* Whatever fails, no job is answered as if it had been decided: one that  *)
(* is left pending (what raises outside service.process(), or anywhere in  *)
(* a test run, is not recorded) was answered with a bare 500.              *)
PendingMeansBare500 ==
    \A r \in Requests : at[r] = "answered" /\ status[r] = "pending" => reply[r] = 500

(* Whatever fails, 200 is answered only for a result that is stored and    *)
(* that the cleanup script can find again.                                 *)
OkMeansStored ==
    \A r \in Requests : reply[r] = 200 =>
        status[r] = "done" /\ dir[r] = "payload" /\ resRow[r] = "live"

(* GET /public/results/{job_id}: 404 until the row is done, then the file, *)
(* or 410 when it is missing.                                              *)
Link(r) ==
    IF status[r] # "done" THEN "not_found"
    ELSE IF dir[r] = "payload" THEN "available"
    ELSE "expired"

(* After one failed operation, an ingest request answered with an error    *)
(* has no public result: the generic handler takes "done" back.            *)
ErrorReplyNotServed ==
    \A r \in Requests \ TestRuns :
        at[r] = "answered" /\ reply[r] # 200 => Link(r) # "available"

-----------------------------------------------------------------------------
(* Steps *)

(* A decided job is never decided again. *)
VerdictIsFinal ==
    [][\A r \in Requests : status[r] \in {"done", "timeout", "failed"}
            => status'[r] = status[r]]_vars

(* Rows, files and public links together behave like JobLifecycle. *)
Lifecycle == INSTANCE JobLifecycle WITH
    Jobs <- Requests,
    status <- status,
    link <- [r \in Requests |-> Link(r)]

ImplementsLifecycle == Lifecycle!Spec

(* Whatever fails and whatever dies, a row is written in the order of      *)
(* JobRecords: a reader may see a verdict replaced, but by internal_error  *)
(* only, and only once.                                                    *)
Records == INSTANCE JobRecords WITH
    Jobs <- Requests,
    status <- status,
    reason <- reason

ImplementsRecords == Records!Spec

-----------------------------------------------------------------------------
(* Progress *)

(* Every request that arrives is answered, or was cut off by a crash. *)
EveryRequestAnswered ==
    \A r \in Requests : at[r] # "idle" ~> at[r] \in Over
=============================================================================
