----------------------------- MODULE MediaProofs -----------------------------
(***************************************************************************)
(* Machine-checked theorems about the life of a job: first about Ingest,   *)
(* the handlers alone, for every set of requests and slots and every bound *)
(* on faults and crashes; then about MediaLifecycle, the handlers and the  *)
(* cron script on the same rows and files, for every number of cron deaths *)
(* as well.                                                                *)
(***************************************************************************)
EXTENDS MediaLifecycle, TLAPS

(* Every reply code the handler computes from an outcome is one it sends,  *)
(* and only the outcome "ok" becomes 200.                                  *)
LEMMA ReplyForCodes ==
    ASSUME NEW o
    PROVE  /\ ReplyFor(o) \in ReplyCodes
           /\ ReplyFor(o) = 200 => o = "ok"
  BY DEF ReplyFor, ReplyCodes

(* What a deletion leaves: nothing, or what was there with one more fault. *)
LEMMA RemainsFacts ==
    ASSUME TypeOK, NEW x, NEW kept \in Remains(x), CountSwallowed(kept)
    PROVE  /\ kept \in {"absent", x}
           /\ faults' \in 0..MaxFaults
           /\ MaxFaults = 0 => kept = "absent"
  BY IngestAssumption DEF Remains, CountSwallowed, TypeOK

-----------------------------------------------------------------------------
(* Type correctness *)

LEMMA InitType == Init => TypeOK
  BY IngestAssumption
     DEF Init, TypeOK, Places, Entrance, Inside, Over, ReplyCodes, FailureReason, JobStatus

(* The moves keep the types of what they write. *)
LEMMA MoveType ==
    ASSUME TypeOK, NEW r \in Requests, NEW place \in Places,
           Continue(r, place) \/ Await(r, place)
    PROVE  /\ at' \in [Requests -> Places]
           /\ loop' \in Requests \cup {NoRequest}
  BY DEF TypeOK, Continue, Await, Places

LEMMA FailType ==
    ASSUME TypeOK, NEW r \in Requests, NEW why \in FailureReason, Fail(r, why)
    PROVE  /\ at' \in [Requests -> Places]
           /\ loop' \in Requests \cup {NoRequest}
           /\ outcome' \in [Requests -> FailureReason \cup {"none", "ok"}]
  <1>1. outcome' \in [Requests -> FailureReason \cup {"none", "ok"}]
    BY DEF TypeOK, Fail
  <1>2. Continue(r, "set_failure") /\ "set_failure" \in Places
    BY DEF Fail, Places, Inside
  <1>3. QED
    BY <1>1, <1>2, MoveType

LEMMA ReleaseType ==
    ASSUME TypeOK, NEW r \in Requests, Release(r)
    PROVE  owner' \in [Slots -> Requests \cup {NoRequest}]
  BY IngestAssumption DEF TypeOK, Release

LEMMA AnswerType ==
    ASSUME TypeOK, NEW r \in Requests, NEW code \in ReplyCodes, Answer(r, code)
    PROVE  /\ at' \in [Requests -> Places]
           /\ loop' \in Requests \cup {NoRequest}
           /\ reply' \in [Requests -> ReplyCodes]
           /\ owner' \in [Slots -> Requests \cup {NoRequest}]
  <1>1. at' \in [Requests -> Places]
    BY DEF TypeOK, Answer, Places, Over
  <1>2. reply' \in [Requests -> ReplyCodes]
    BY DEF TypeOK, Answer
  <1>3. owner' \in [Slots -> Requests \cup {NoRequest}]
    BY ReleaseType DEF Answer
  <1>4. QED
    BY <1>1, <1>2, <1>3 DEF Answer

(* TypeOK is not inductive alone: SetFailure copies the outcome into the   *)
(* row, and that it is a FailureReason there depends on the way in.  What  *)
(* holds of one job in every state relates the handler's place to its row, *)
(* its directory, its tracked result and its reply.                        *)
Underway ==
    {"mkdir", "validate", "reading", "persist", "copying", "provider", "save",
     "set_result"}

Record(r) ==
    /\ at[r] \in Entrance \cup {"prepare"} => status[r] = "none"
    /\ at[r] \in Underway => status[r] = "pending"
    /\ at[r] \in {"save", "set_result", "register_result"} => outcome[r] = "ok"
    /\ at[r] = "set_result" => dir[r] = "payload"
    /\ at[r] = "register_result" => status[r] = "done"
    /\ status[r] = "done" => dir[r] = "payload"
    /\ at[r] \in {"set_failure", "remove_result"} => outcome[r] \in FailureReason
    /\ at[r] = "remove_result" => status[r] \in {"failed", "timeout"}
    /\ at[r] \in {"mark_temp", "remove_temp"} /\ outcome[r] = "ok"
          => status[r] = "done" /\ resRow[r] = "live"
    /\ at[r] \in {"mark_temp", "remove_temp"} => status[r] # "pending"
    /\ reply[r] = 200 => status[r] = "done" /\ resRow[r] = "live"
    /\ at[r] = "answered" /\ status[r] = "pending" => reply[r] = 500
    /\ reply[r] # 0 => at[r] = "answered"
    /\ MaxFaults = 0 /\ at[r] = "set_failure" => status[r] = "pending"

RecordOK == \A r \in Requests : Record(r)

JobInv == TypeOK /\ RecordOK

(* The part of it that the types of a step rest on. *)
FailuresHaveReasons == \A r \in Requests : at[r] = "set_failure" => outcome[r] \in FailureReason

LEMMA StepType == TypeOK /\ FailuresHaveReasons /\ [Next]_vars => TypeOK'
  <1> SUFFICES ASSUME TypeOK, FailuresHaveReasons, [Next]_vars PROVE TypeOK'
    OBVIOUS
  <1> USE DEF handlerVars, lockVars, jobVars, resultVars, tempVars, storeVars, budgetVars
  <1>1. ASSUME NEW r \in Requests, Arrive(r) PROVE TypeOK'
    <2>1. CASE r \in TestRuns
      BY <1>1, <2>1, MoveType, AnswerType
         DEF Arrive, StartTest, TypeOK, Places, Inside, ReplyCodes
    <2>2. CASE r \notin TestRuns /\ owner[SlotOf[r]] # NoRequest
      BY <1>1, <2>2, AnswerType DEF Arrive, TypeOK, ReplyCodes
    <2>3. CASE r \notin TestRuns /\ owner[SlotOf[r]] = NoRequest
      BY <1>1, <2>3, MoveType DEF Arrive, TypeOK, Places, Entrance
    <2>4. QED
      BY <2>1, <2>2, <2>3
  <1>2. ASSUME NEW r \in Requests, Refuse(r) PROVE TypeOK'
    BY <1>2, AnswerType DEF Refuse, TypeOK, ReplyCodes
  <1>3. ASSUME NEW r \in Requests, Enter(r) PROVE TypeOK'
    BY <1>3, MoveType, IngestAssumption DEF Enter, TypeOK, Places, Inside
  <1>4. ASSUME NEW r \in Requests, Queue(r) PROVE TypeOK'
    <2>1. waiters' \in [Slots -> Seq(Requests)]
      BY <1>4, IngestAssumption DEF Queue, TypeOK
    <2>2. QED
      BY <1>4, <2>1, MoveType DEF Queue, TypeOK, Places, Entrance
  <1>5. ASSUME NEW r \in Requests, Wake(r) PROVE TypeOK'
    <2>1. waiters' \in [Slots -> Seq(Requests)]
      BY <1>5, IngestAssumption DEF Wake, TypeOK
    <2>2. owner' \in [Slots -> Requests \cup {NoRequest}]
      BY <1>5 DEF Wake, TypeOK
    <2>3. QED
      BY <1>5, <2>1, <2>2, MoveType DEF Wake, TypeOK, Places, Inside
  <1>6. ASSUME NEW r \in Requests, RejectSlot(r) PROVE TypeOK'
    BY <1>6, AnswerType DEF RejectSlot, TypeOK, ReplyCodes
  <1>7. ASSUME NEW r \in Requests, CreatePending(r) PROVE TypeOK'
    BY <1>7, MoveType DEF CreatePending, TypeOK, Places, Inside, JobStatus
  <1>8. ASSUME NEW r \in Requests, EnsureResultDir(r) PROVE TypeOK'
    BY <1>8, MoveType DEF EnsureResultDir, TypeOK, Places, Inside
  <1>9. ASSUME NEW r \in Requests, CheckContentType(r) PROVE TypeOK'
    BY <1>9, MoveType, FailType DEF CheckContentType, TypeOK, Places, Inside, FailureReason
  <1>10. ASSUME NEW r \in Requests, ReadUpload(r) PROVE TypeOK'
    BY <1>10, MoveType, FailType DEF ReadUpload, TypeOK, Places, Inside, FailureReason
  <1>11. ASSUME NEW r \in Requests, OpenTempFile(r) PROVE TypeOK'
    BY <1>11, MoveType DEF OpenTempFile, TypeOK, Places, Inside
  <1>12. ASSUME NEW r \in Requests, RegisterTemp(r) PROVE TypeOK'
    BY <1>12, MoveType DEF RegisterTemp, TypeOK, Places, Inside
  <1>13. ASSUME NEW r \in Requests, ProviderEnds(r) PROVE TypeOK'
    BY <1>13, MoveType, FailType DEF ProviderEnds, TypeOK, Places, Inside, FailureReason
  <1>14. ASSUME NEW r \in Requests, SavePayload(r) PROVE TypeOK'
    BY <1>14, MoveType DEF SavePayload, TypeOK, Places, Inside
  <1>15. ASSUME NEW r \in Requests, SetResult(r) PROVE TypeOK'
    BY <1>15, MoveType DEF SetResult, TypeOK, Places, Inside, JobStatus
  <1>16. ASSUME NEW r \in Requests, RegisterResult(r) PROVE TypeOK'
    BY <1>16, MoveType DEF RegisterResult, CleanupPlace, TypeOK, Places, Inside
  <1>17. ASSUME NEW r \in Requests, SetFailure(r) PROVE TypeOK'
    <2>1. outcome[r] \in FailureReason
      BY <1>17 DEF SetFailure, Runs, FailuresHaveReasons
    <2>2. QED
      BY <1>17, <2>1, MoveType DEF SetFailure, TypeOK, Places, Inside, JobStatus
  <1>18. ASSUME NEW r \in Requests, RemoveResultDir(r) PROVE TypeOK'
    <2>1. PICK kept \in Remains(dir[r]) :
             dir' = [dir EXCEPT ![r] = kept] /\ CountSwallowed(kept)
      BY <1>18 DEF RemoveResultDir
    <2>2. dir' \in [Requests -> {"absent", "empty", "payload"}]
      BY <2>1, RemainsFacts DEF TypeOK
    <2>3. CleanupPlace(r) \in Places
      BY DEF CleanupPlace, Places, Inside
    <2>4. QED
      BY <1>18, <2>1, <2>2, <2>3, MoveType, RemainsFacts DEF RemoveResultDir, TypeOK
  <1>19. ASSUME NEW r \in Requests, MarkTemp(r) PROVE TypeOK'
    BY <1>19, MoveType DEF MarkTemp, TypeOK, Places, Inside
  <1>20. ASSUME NEW r \in Requests, RemoveTemp(r) PROVE TypeOK'
    <2>1. PICK kept \in Remains(tmp[r]) :
             tmp' = [tmp EXCEPT ![r] = kept] /\ CountSwallowed(kept)
      BY <1>20 DEF RemoveTemp
    <2>2. tmp' \in [Requests -> {"absent", "present"}]
      BY <2>1, RemainsFacts DEF TypeOK
    <2>3. ReplyFor(outcome[r]) \in ReplyCodes
      BY ReplyForCodes
    <2>4. QED
      BY <1>20, <2>1, <2>2, <2>3, AnswerType, RemainsFacts DEF RemoveTemp, TypeOK
  <1>21. ASSUME NEW r \in Requests, StoreFault(r) PROVE TypeOK'
    <2>1. faults' \in 0..MaxFaults
      BY <1>21, IngestAssumption DEF StoreFault, TypeOK
    <2>2. dir' \in [Requests -> {"absent", "empty", "payload"}]
      BY <1>21 DEF StoreFault, TypeOK
    <2>3. CASE InProcess(r) /\ r \notin TestRuns
      BY <1>21, <2>1, <2>2, <2>3, FailType DEF StoreFault, TypeOK, FailureReason
    <2>4. CASE ~(InProcess(r) /\ r \notin TestRuns)
      BY <1>21, <2>1, <2>2, <2>4, AnswerType DEF StoreFault, TypeOK, ReplyCodes
    <2>5. QED
      BY <2>3, <2>4
  <1>22. CASE Crash
    <2>1. /\ at' \in [Requests -> Places]
          /\ crashes' \in 0..MaxCrashes
          /\ waiters' \in [Slots -> Seq(Requests)]
      BY <1>22, IngestAssumption DEF Crash, TypeOK, Places, Over
    <2>2. QED
      BY <1>22, <2>1 DEF Crash, TypeOK
  <1>23. CASE UNCHANGED vars
    BY <1>23 DEF vars, TypeOK
  <1>24. QED
    BY <1>1, <1>2, <1>3, <1>4, <1>5, <1>6, <1>7, <1>8, <1>9, <1>10, <1>11, <1>12,
       <1>13, <1>14, <1>15, <1>16, <1>17, <1>18, <1>19, <1>20, <1>21, <1>22, <1>23
    DEF Next, Step

LEMMA NextType == JobInv /\ [Next]_vars => TypeOK'
  BY StepType DEF JobInv, RecordOK, Record, FailuresHaveReasons

-----------------------------------------------------------------------------
(* The records of the jobs *)

(* A handler touches nothing of another request's job. *)
Act(r) == Arrive(r) \/ Step(r) \/ StoreFault(r)

Untouched(q) ==
    /\ at'[q] = at[q] /\ outcome'[q] = outcome[q] /\ reply'[q] = reply[q]
    /\ status'[q] = status[q] /\ dir'[q] = dir[q] /\ resRow'[q] = resRow[q]
    /\ reason'[q] = reason[q] /\ tmp'[q] = tmp[q] /\ tmpRow'[q] = tmpRow[q]

LEMMA OthersUntouched ==
    ASSUME TypeOK, NEW r \in Requests, NEW q \in Requests, q # r, Act(r)
    PROVE  Untouched(q)
  <1> USE DEF TypeOK, Untouched, Continue, Await, Fail, Answer,
              handlerVars, lockVars, jobVars, resultVars, tempVars, storeVars, budgetVars
  <1>1. CASE Arrive(r)
    BY <1>1 DEF Arrive, StartTest
  <1>2. CASE Refuse(r) \/ Enter(r) \/ Queue(r) \/ Wake(r)
    BY <1>2 DEF Refuse, Enter, Queue, Wake
  <1>3. CASE RejectSlot(r) \/ CreatePending(r) \/ EnsureResultDir(r)
    BY <1>3 DEF RejectSlot, CreatePending, EnsureResultDir
  <1>4. CASE CheckContentType(r) \/ ReadUpload(r) \/ OpenTempFile(r) \/ RegisterTemp(r)
    BY <1>4 DEF CheckContentType, ReadUpload, OpenTempFile, RegisterTemp
  <1>5. CASE ProviderEnds(r) \/ SavePayload(r) \/ SetResult(r) \/ RegisterResult(r)
    BY <1>5 DEF ProviderEnds, SavePayload, SetResult, RegisterResult
  <1>6. CASE SetFailure(r) \/ RemoveResultDir(r) \/ MarkTemp(r) \/ RemoveTemp(r)
    BY <1>6 DEF SetFailure, RemoveResultDir, MarkTemp, RemoveTemp
  <1>7. CASE StoreFault(r)
    BY <1>7 DEF StoreFault
  <1>8. QED
    BY <1>1, <1>2, <1>3, <1>4, <1>5, <1>6, <1>7 DEF Act, Step

(* The handler's own step keeps its record straight, action by action.     *)
LEMMA OwnRecord ==
    ASSUME TypeOK, NEW r \in Requests, Record(r), Act(r)
    PROVE  Record(r)'
  <1> USE DEF TypeOK, Record, Entrance, Underway, Runs, Continue, Await, Fail,
              handlerVars, lockVars, jobVars, resultVars, tempVars, storeVars, budgetVars
  <1>1. CASE Arrive(r)
    BY <1>1 DEF Arrive, StartTest, Answer
  <1>2. CASE Refuse(r) \/ RejectSlot(r)
    BY <1>2 DEF Refuse, RejectSlot, Answer
  <1>3. CASE Enter(r) \/ Queue(r) \/ Wake(r)
    BY <1>3 DEF Enter, Queue, Wake
  <1>4. CASE CreatePending(r) \/ EnsureResultDir(r)
    BY <1>4 DEF CreatePending, EnsureResultDir
  <1>5. CASE CheckContentType(r) \/ ReadUpload(r) \/ ProviderEnds(r)
    BY <1>5 DEF CheckContentType, ReadUpload, ProviderEnds, FailureReason
  <1>6. CASE OpenTempFile(r) \/ RegisterTemp(r)
    BY <1>6 DEF OpenTempFile, RegisterTemp
  <1>7. CASE SavePayload(r) \/ SetResult(r)
    BY <1>7 DEF SavePayload, SetResult
  <1>8. CASE RegisterResult(r)
    BY <1>8 DEF RegisterResult, CleanupPlace
  <1>9. CASE SetFailure(r)
    BY <1>9 DEF SetFailure, FailureReason
  <1>10. CASE RemoveResultDir(r)
    BY <1>10 DEF RemoveResultDir, CleanupPlace, FailureReason
  <1>11. CASE MarkTemp(r)
    BY <1>11 DEF MarkTemp
  <1>12. CASE RemoveTemp(r)
    <2>1. ReplyFor(outcome[r]) = 200 => outcome[r] = "ok"
      BY ReplyForCodes
    <2>2. QED
      BY <1>12, <2>1 DEF RemoveTemp, Answer
  <1>13. CASE StoreFault(r)
    <2>1. MaxFaults # 0
      BY <1>13, IngestAssumption DEF StoreFault
    <2>2. CASE InProcess(r) /\ r \notin TestRuns
      BY <1>13, <2>1, <2>2 DEF StoreFault, InProcess, Fallible, FailureReason
    <2>3. CASE ~(InProcess(r) /\ r \notin TestRuns)
      BY <1>13, <2>1, <2>3 DEF StoreFault, Fallible, Answer
    <2>4. QED
      BY <2>2, <2>3
  <1>14. QED
    BY <1>1, <1>2, <1>3, <1>4, <1>5, <1>6, <1>7, <1>8, <1>9, <1>10, <1>11, <1>12,
       <1>13 DEF Act, Step

LEMMA NextRecord == JobInv /\ [Next]_vars => RecordOK'
  <1> SUFFICES ASSUME TypeOK, RecordOK, [Next]_vars PROVE RecordOK'
    BY DEF JobInv
  <1>1. ASSUME NEW r \in Requests, Act(r) PROVE RecordOK'
    <2> SUFFICES ASSUME NEW q \in Requests PROVE Record(q)'
      BY DEF RecordOK
    <2>1. CASE q = r
      BY <1>1, <2>1, OwnRecord DEF RecordOK
    <2>2. CASE q # r
      BY <1>1, <2>2, OthersUntouched DEF RecordOK, Record, Untouched
    <2>3. QED
      BY <2>1, <2>2
  <1>2. CASE Crash
    BY <1>2 DEF Crash, RecordOK, Record, TypeOK, Entrance, Underway,
                storeVars, jobVars, resultVars
  <1>3. CASE UNCHANGED vars
    BY <1>3 DEF vars, handlerVars, storeVars, jobVars, resultVars, RecordOK, Record
  <1>4. QED
    BY <1>1, <1>2, <1>3 DEF Next, Act

LEMMA JobInvariant == Spec => []JobInv
  <1>1. Init => JobInv
    <2>1. ASSUME Init, NEW r \in Requests PROVE Record(r)
      <3>1. at[r] = "idle" /\ status[r] = "none" /\ reply[r] = 0
        BY <2>1 DEF Init
      <3>2. QED
        BY <3>1 DEF Record, Underway
    <2>2. QED
      BY <2>1, InitType DEF JobInv, RecordOK
  <1>2. JobInv /\ [Next]_vars => JobInv'
    BY NextType, NextRecord DEF JobInv
  <1>3. QED
    BY <1>1, <1>2, PTL DEF Spec

(* Every variable keeps its type, whatever fails and however often the     *)
(* process crashes.                                                        *)
THEOREM TypeCorrect == Spec => []TypeOK
  <1>1. JobInv => TypeOK
    BY DEF JobInv
  <1>2. QED
    BY <1>1, JobInvariant, PTL

(* A request answered with 200 has a done row, a stored payload and a      *)
(* tracked result, whichever operations failed on the way.                 *)
THEOREM OkStored == Spec => []OkMeansStored
  <1>1. JobInv => OkMeansStored
    BY DEF JobInv, RecordOK, Record, OkMeansStored
  <1>2. QED
    BY <1>1, JobInvariant, PTL

(* Only a bare 500 leaves a job pending, whichever operations failed.      *)
THEOREM PendingConfessed == Spec => []PendingMeansBare500
  <1>1. JobInv => PendingMeansBare500
    BY DEF JobInv, RecordOK, Record, PendingMeansBare500
  <1>2. QED
    BY <1>1, JobInvariant, PTL

-----------------------------------------------------------------------------
(* The whole tale of a job, while no operation has failed                  *)

Untold(r) ==
    /\ status[r] = "none" /\ reason[r] = "null" /\ outcome[r] = "none"
    /\ dir[r] = "absent" /\ resRow[r] = "none"
    /\ tmp[r] = "absent" /\ tmpRow[r] = "none"

(* The row records the outcome, and a failure leaves no directory. *)
Told(r) ==
    \/ /\ outcome[r] = "ok"
       /\ status[r] = "done" /\ reason[r] = "null"
       /\ dir[r] = "payload" /\ resRow[r] = "live"
    \/ /\ outcome[r] \in FailureReason
       /\ status[r] = IF outcome[r] = "provider_timeout" THEN "timeout" ELSE "failed"
       /\ reason[r] = outcome[r]

TempInStep(r) ==
    \/ tmp[r] = "absent" /\ tmpRow[r] = "none"
    \/ tmp[r] = "present" /\ tmpRow[r] = "live"

(* What holds of a request at each place.  ReplyMatchesRow and             *)
(* NothingLeftBehind speak of the last place only.                         *)
Tale(r) ==
    /\ at[r] \in Entrance \cup {"prepare"} => Untold(r)
    /\ at[r] \in {"mkdir", "validate", "reading", "persist"} =>
          tmp[r] = "absent" /\ tmpRow[r] = "none"
    /\ at[r] = "copying" => tmp[r] = "present" /\ tmpRow[r] = "none"
    /\ at[r] \in {"provider", "save", "set_result", "register_result", "set_failure",
                  "remove_result"} => TempInStep(r)
    /\ at[r] = "register_result" => reason[r] = "null"
    /\ at[r] \in {"remove_result", "mark_temp", "remove_temp"} => Told(r)
    /\ at[r] \in {"mark_temp", "remove_temp"} /\ outcome[r] # "ok" => dir[r] = "absent"
    /\ at[r] = "mark_temp" => tmpRow[r] = "live"
    /\ at[r] = "remove_temp" => tmpRow[r] # "live"
    /\ at[r] = "answered" =>
          /\ tmp[r] = "absent" /\ tmpRow[r] # "live"
          /\ \/ Told(r) /\ reply[r] = ReplyFor(outcome[r])
                 /\ (outcome[r] # "ok" => dir[r] = "absent")
             \/ Untold(r) /\ reply[r] \in {400, 401, 404, 429}

TaleOK == faults = 0 => \A r \in Requests : Tale(r)

(* A handler's own step continues its tale, unless something fails.        *)
LEMMA OwnTale ==
    ASSUME TypeOK, NEW r \in Requests, Record(r), Tale(r), Act(r), faults = 0, faults' = 0
    PROVE  Tale(r)'
  <1> USE DEF TypeOK, Record, Tale, Entrance, Runs, Continue, Await, Fail,
              handlerVars, lockVars, jobVars, resultVars, tempVars, storeVars, budgetVars
  <1>1. CASE Arrive(r)
    BY <1>1 DEF Arrive, StartTest, Answer, Untold
  <1>2. CASE Refuse(r) \/ RejectSlot(r)
    BY <1>2 DEF Refuse, RejectSlot, Answer, Untold
  <1>3. CASE Enter(r) \/ Queue(r) \/ Wake(r)
    BY <1>3 DEF Enter, Queue, Wake, Untold
  <1>4. CASE CreatePending(r) \/ EnsureResultDir(r)
    BY <1>4 DEF CreatePending, EnsureResultDir, Untold
  <1>5. CASE CheckContentType(r) \/ ReadUpload(r) \/ ProviderEnds(r)
    BY <1>5 DEF CheckContentType, ReadUpload, ProviderEnds, TempInStep
  <1>6. CASE OpenTempFile(r) \/ RegisterTemp(r)
    BY <1>6 DEF OpenTempFile, RegisterTemp, TempInStep
  <1>7. CASE SavePayload(r) \/ SetResult(r)
    BY <1>7 DEF SavePayload, SetResult, TempInStep
  <1>8. CASE RegisterResult(r)
    BY <1>8 DEF RegisterResult, CleanupPlace, TempInStep, Told, FailureReason
  <1>9. CASE SetFailure(r)
    BY <1>9 DEF SetFailure, TempInStep, Told
  <1>10. CASE RemoveResultDir(r)
    <2>1. dir'[r] = "absent"
      BY <1>10 DEF RemoveResultDir, Remains, CountSwallowed
    <2>2. outcome[r] \in FailureReason /\ outcome[r] # "ok"
      BY <1>10 DEF RemoveResultDir, FailureReason
    <2>3. QED
      BY <1>10, <2>1, <2>2 DEF RemoveResultDir, CleanupPlace, TempInStep, Told
  <1>11. CASE MarkTemp(r)
    BY <1>11 DEF MarkTemp, Told
  <1>12. CASE RemoveTemp(r)
    <2>1. tmp'[r] = "absent"
      BY <1>12 DEF RemoveTemp, Remains, CountSwallowed
    <2>2. QED
      BY <1>12, <2>1 DEF RemoveTemp, Answer, Told
  <1>13. CASE StoreFault(r)
    BY <1>13 DEF StoreFault
  <1>14. QED
    BY <1>1, <1>2, <1>3, <1>4, <1>5, <1>6, <1>7, <1>8, <1>9, <1>10, <1>11, <1>12,
       <1>13 DEF Act, Step

LEMMA FaultsStay ==
    ASSUME TypeOK, NEW r \in Requests, Act(r), faults' = 0
    PROVE  faults = 0
  <1> USE DEF TypeOK, budgetVars
  <1>1. CASE RemoveResultDir(r) \/ RemoveTemp(r)
    BY <1>1, IngestAssumption DEF RemoveResultDir, RemoveTemp, CountSwallowed
  <1>2. CASE StoreFault(r)
    BY <1>2, IngestAssumption DEF StoreFault
  <1>3. CASE Arrive(r) \/ Refuse(r) \/ Enter(r) \/ Queue(r) \/ Wake(r) \/ RejectSlot(r)
    BY <1>3 DEF Arrive, Refuse, Enter, Queue, Wake, RejectSlot
  <1>4. CASE \/ CreatePending(r) \/ EnsureResultDir(r) \/ CheckContentType(r)
             \/ ReadUpload(r) \/ OpenTempFile(r) \/ RegisterTemp(r)
    BY <1>4 DEF CreatePending, EnsureResultDir, CheckContentType, ReadUpload, OpenTempFile,
                RegisterTemp
  <1>5. CASE \/ ProviderEnds(r) \/ SavePayload(r) \/ SetResult(r) \/ RegisterResult(r)
             \/ SetFailure(r) \/ MarkTemp(r)
    BY <1>5 DEF ProviderEnds, SavePayload, SetResult, RegisterResult, SetFailure, MarkTemp
  <1>6. QED
    BY <1>1, <1>2, <1>3, <1>4, <1>5 DEF Act, Step

LEMMA TaleInvariant == Spec => []TaleOK
  <1>1. Init => TaleOK
    <2>1. ASSUME Init, NEW r \in Requests PROVE at[r] = "idle" /\ Untold(r)
      BY <2>1 DEF Init, Untold
    <2>2. QED
      BY <2>1 DEF TaleOK, Tale
  <1>2. JobInv /\ TaleOK /\ [Next]_vars => TaleOK'
    <2> SUFFICES ASSUME JobInv, TaleOK, [Next]_vars, faults' = 0, NEW q \in Requests
                 PROVE  Tale(q)'
      BY DEF TaleOK
    <2>1. ASSUME NEW r \in Requests, Act(r) PROVE Tale(q)'
      <3>1. faults = 0
        BY <2>1, FaultsStay DEF JobInv
      <3>2. CASE q = r
        BY <2>1, <3>1, <3>2, OwnTale DEF JobInv, RecordOK, TaleOK
      <3>3. CASE q # r
        BY <2>1, <3>1, <3>3, OthersUntouched
           DEF JobInv, TaleOK, Tale, Untold, Told, TempInStep, Untouched
      <3>4. QED
        BY <3>2, <3>3
    <2>2. CASE Crash
      BY <2>2 DEF Crash, JobInv, TypeOK, TaleOK, Tale, Untold, Told, Entrance,
                  storeVars, jobVars, resultVars, tempVars
    <2>3. CASE UNCHANGED vars
      BY <2>3 DEF vars, handlerVars, storeVars, jobVars, resultVars, tempVars, budgetVars,
                  TaleOK, Tale, Untold, Told, TempInStep
    <2>4. QED
      BY <2>1, <2>2, <2>3 DEF Next, Act
  <1>3. QED
    BY <1>1, <1>2, JobInvariant, PTL DEF Spec

(* While no operation has failed, every reply tells what the row says,     *)
(* after crashes too.                                                      *)
THEOREM RepliesMatch == Spec => []ReplyMatchesRow
  <1>1. JobInv /\ TaleOK => ReplyMatchesRow
    <2> SUFFICES ASSUME JobInv, TaleOK, NEW r \in Requests, faults = 0, at[r] = "answered"
                 PROVE  CASE reply[r] = 200 ->
                               status[r] = "done" /\ reason[r] = "null" /\ dir[r] = "payload"
                               /\ resRow[r] = "live"
                          [] reply[r] \in {401, 404, 429} -> status[r] = "none"
                          [] reply[r] = 504 ->
                               status[r] = "timeout" /\ reason[r] = "provider_timeout"
                          [] OTHER ->
                               \/ status[r] = "failed" /\ reply[r] = ReplyFor(reason[r])
                               \/ status[r] = "none" /\ reply[r] = 400
      BY DEF ReplyMatchesRow
    <2>1. CASE Untold(r) /\ reply[r] \in {400, 401, 404, 429}
      BY <2>1 DEF Untold
    <2>2. CASE Told(r) /\ reply[r] = ReplyFor(outcome[r])
      <3>1. CASE outcome[r] = "ok"
        BY <2>2, <3>1 DEF Told, ReplyFor, FailureReason
      <3>2. CASE outcome[r] = "provider_timeout"
        BY <2>2, <3>2 DEF Told, ReplyFor
      <3>3. CASE outcome[r] \in FailureReason \ {"provider_timeout"}
        <4>1. reply[r] \in {400, 413, 415, 502, 500} /\ reply[r] = ReplyFor(reason[r])
          BY <2>2, <3>3 DEF Told, ReplyFor, FailureReason
        <4>2. status[r] = "failed"
          BY <2>2, <3>3 DEF Told, FailureReason
        <4>3. QED
          BY <4>1, <4>2
      <3>4. QED
        BY <2>2, <3>1, <3>2, <3>3 DEF Told
    <2>3. QED
      BY <2>1, <2>2 DEF TaleOK, Tale
  <1>2. QED
    BY <1>1, JobInvariant, TaleInvariant, PTL

(* While no operation has failed, an answered request leaves neither a     *)
(* temp file nor a live temp row, and a directory only with a done job.    *)
THEOREM NothingLeft == Spec => []NothingLeftBehind
  <1>1. TaleOK => NothingLeftBehind
    <2> SUFFICES ASSUME TaleOK, NEW r \in Requests, faults = 0, at[r] = "answered"
                 PROVE  /\ tmp[r] = "absent"
                        /\ tmpRow[r] # "live"
                        /\ dir[r] # "absent" => status[r] = "done"
      BY DEF NothingLeftBehind
    <2>1. Tale(r)
      BY DEF TaleOK
    <2>2. QED
      BY <2>1 DEF Tale, Told, Untold, FailureReason
  <1>2. QED
    BY <1>1, TaleInvariant, PTL

-----------------------------------------------------------------------------
(* One failed operation *)

(* What an error reply of an ingest request rests on: a done job is being  *)
(* failed only after an operation has failed, and then no second one can.  *)
TakenBack(r) ==
    /\ at[r] = "set_failure" /\ status[r] = "done" => faults # 0
    /\ at[r] \in {"mark_temp", "remove_temp"} /\ outcome[r] # "ok" => status[r] # "done"
    /\ at[r] = "answered" /\ reply[r] # 200 => status[r] # "done"

TakenBackOK == \A r \in Requests \ TestRuns : TakenBack(r)

LEMMA OwnTakenBack ==
    ASSUME MaxFaults <= 1, TypeOK, NEW r \in Requests \ TestRuns, Record(r), TakenBack(r), Act(r)
    PROVE  TakenBack(r)'
  <1> USE DEF TypeOK, Record, TakenBack, Entrance, Underway, Runs, Continue, Await, Fail,
              handlerVars, lockVars, jobVars, resultVars, tempVars, storeVars, budgetVars
  <1>1. CASE Arrive(r) \/ Refuse(r) \/ RejectSlot(r)
    BY <1>1 DEF Arrive, Refuse, RejectSlot, Answer
  <1>2. CASE Enter(r) \/ Queue(r) \/ Wake(r) \/ CreatePending(r) \/ EnsureResultDir(r)
    BY <1>2 DEF Enter, Queue, Wake, CreatePending, EnsureResultDir
  <1>3. CASE \/ CheckContentType(r) \/ ReadUpload(r) \/ ProviderEnds(r)
             \/ OpenTempFile(r) \/ RegisterTemp(r)
    BY <1>3 DEF CheckContentType, ReadUpload, ProviderEnds, OpenTempFile, RegisterTemp
  <1>4. CASE SavePayload(r) \/ SetResult(r) \/ RegisterResult(r) \/ SetFailure(r)
    BY <1>4 DEF SavePayload, SetResult, RegisterResult, SetFailure, CleanupPlace
  <1>5. CASE RemoveResultDir(r) \/ MarkTemp(r)
    BY <1>5 DEF RemoveResultDir, MarkTemp, CleanupPlace
  <1>6. CASE RemoveTemp(r)
    BY <1>6 DEF RemoveTemp, Answer, ReplyFor
  <1>7. CASE StoreFault(r)
    <2>1. faults = 0 /\ faults' # 0
      BY <1>7, IngestAssumption DEF StoreFault
    <2>2. CASE InProcess(r)
      BY <1>7, <2>1, <2>2 DEF StoreFault
    <2>3. CASE ~InProcess(r)
      BY <1>7, <2>1, <2>3 DEF StoreFault, InProcess, Fallible, Answer
    <2>4. QED
      BY <2>2, <2>3
  <1>8. QED
    BY <1>1, <1>2, <1>3, <1>4, <1>5, <1>6, <1>7 DEF Act, Step

(* After one failed operation, an ingest request that was answered with an *)
(* error has no public result, for any number of requests and crashes.     *)
THEOREM ErrorsAreNotServed ==
    ASSUME MaxFaults <= 1
    PROVE  Spec => []ErrorReplyNotServed
  <1>1. Init => TakenBackOK
    BY DEF Init, TakenBackOK, TakenBack
  <1>2. JobInv /\ TakenBackOK /\ [Next]_vars => TakenBackOK'
    <2> SUFFICES ASSUME JobInv, TakenBackOK, [Next]_vars, NEW q \in Requests \ TestRuns
                 PROVE  TakenBack(q)'
      BY DEF TakenBackOK
    <2>1. ASSUME NEW r \in Requests, Act(r) PROVE TakenBack(q)'
      <3>1. CASE q = r
        BY <2>1, <3>1, OwnTakenBack DEF JobInv, RecordOK, TakenBackOK
      <3>2. CASE q # r
        <4>1. Untouched(q)
          BY <2>1, <3>2, OthersUntouched DEF JobInv
        <4>2. faults # 0 => faults' # 0
          BY <2>1, FaultsStay DEF JobInv
        <4>3. QED
          BY <4>1, <4>2 DEF TakenBackOK, TakenBack, Untouched
      <3>3. QED
        BY <3>1, <3>2
    <2>2. CASE Crash
      BY <2>2 DEF Crash, TakenBackOK, TakenBack, storeVars, jobVars
    <2>3. CASE UNCHANGED vars
      BY <2>3 DEF vars, handlerVars, storeVars, jobVars, budgetVars, TakenBackOK, TakenBack
    <2>4. QED
      BY <2>1, <2>2, <2>3 DEF Next, Act
  <1>3. TakenBackOK => ErrorReplyNotServed
    BY DEF TakenBackOK, TakenBack, ErrorReplyNotServed, Link
  <1>4. QED
    BY <1>1, <1>2, <1>3, JobInvariant, PTL DEF Spec

-----------------------------------------------------------------------------
(* The slot lock *)

(* SlotExclusion is not inductive: it holds because whoever is inside owns *)
(* the lock, and that is kept because an owner never leaves with it.       *)
HolderOwns ==
    \A r \in Requests \ TestRuns : at[r] \in Inside => owner[SlotOf[r]] = r

LockInv == HolderOwns /\ OwnerIsInside

(* The four ways a step can touch the lock or the set of those inside. *)

LEMMA StayKeepsLock ==
    ASSUME TypeOK, LockInv, NEW r \in Requests, NEW place \in Inside, at[r] \in Inside,
           at' = [at EXCEPT ![r] = place], UNCHANGED owner
    PROVE  LockInv'
  BY DEF TypeOK, LockInv, HolderOwns, OwnerIsInside

LEMMA OutsideKeepsLock ==
    ASSUME TypeOK, LockInv, NEW r \in Requests, NEW place \in Entrance, at[r] \in Entrance,
           at' = [at EXCEPT ![r] = place], UNCHANGED owner
    PROVE  LockInv'
  BY DEF TypeOK, LockInv, HolderOwns, OwnerIsInside, Entrance, Inside

LEMMA TakeKeepsLock ==
    ASSUME TypeOK, LockInv, NEW r \in Requests, at[r] \in Entrance,
           owner[SlotOf[r]] = NoRequest,
           owner' = [owner EXCEPT ![SlotOf[r]] = r],
           at' = [at EXCEPT ![r] = "prepare"]
    PROVE  LockInv'
  <1>1. at[r] \notin Inside /\ "prepare" \in Inside
    BY DEF Entrance, Inside
  <1>2. HolderOwns'
    BY IngestAssumption, <1>1 DEF TypeOK, LockInv, HolderOwns
  <1>3. OwnerIsInside'
    BY IngestAssumption, <1>1 DEF TypeOK, LockInv, OwnerIsInside
  <1>4. QED
    BY <1>2, <1>3 DEF LockInv

(* A test run enters without the lock and disturbs no owner. *)
LEMMA TestRunKeepsLock ==
    ASSUME TypeOK, LockInv, NEW r \in TestRuns, at[r] = "idle",
           at' = [at EXCEPT ![r] = "prepare"], UNCHANGED owner
    PROVE  LockInv'
  <1>1. r \in Requests
    BY IngestAssumption
  <1>2. "idle" \notin Inside
    BY DEF Inside
  <1>3. HolderOwns'
    BY <1>1, <1>2 DEF TypeOK, LockInv, HolderOwns
  <1>4. OwnerIsInside'
    BY <1>1, <1>2 DEF TypeOK, LockInv, OwnerIsInside
  <1>5. QED
    BY <1>3, <1>4 DEF LockInv

LEMMA AnswerKeepsLock ==
    ASSUME TypeOK, LockInv, NEW r \in Requests, NEW code, Answer(r, code)
    PROVE  LockInv'
  <1>1. owner' = [owner EXCEPT ![SlotOf[r]] = IF @ = r THEN NoRequest ELSE @]
    BY DEF Answer, Release
  <1>2. at' = [at EXCEPT ![r] = "answered"] /\ "answered" \notin Inside
    BY DEF Answer, Inside
  <1>3. HolderOwns'
    BY <1>1, <1>2, IngestAssumption DEF TypeOK, LockInv, HolderOwns
  <1>4. OwnerIsInside'
    BY <1>1, <1>2, IngestAssumption DEF TypeOK, LockInv, OwnerIsInside
  <1>5. QED
    BY <1>3, <1>4 DEF LockInv

LEMMA NextLock == TypeOK /\ LockInv /\ [Next]_vars => LockInv'
  <1> SUFFICES ASSUME TypeOK, LockInv, [Next]_vars PROVE LockInv'
    OBVIOUS
  <1> USE DEF Runs, Continue, Await, lockVars
  <1>1. ASSUME NEW r \in Requests, Arrive(r) PROVE LockInv'
    <2>1. CASE r \in TestRuns
      <3>1. at[r] = "idle" /\ StartTest(r)
        BY <1>1, <2>1 DEF Arrive
      <3>2. CASE Continue(r, "prepare") /\ UNCHANGED <<reply, owner>>
        BY <2>1, <3>1, <3>2, TestRunKeepsLock
      <3>3. CASE \E code \in {400, 404} : Answer(r, code)
        BY <3>3, AnswerKeepsLock
      <3>4. QED
        BY <3>1, <3>2, <3>3 DEF StartTest
    <2>2. CASE r \notin TestRuns /\ owner[SlotOf[r]] # NoRequest
      BY <1>1, <2>2, AnswerKeepsLock DEF Arrive
    <2>3. CASE r \notin TestRuns /\ owner[SlotOf[r]] = NoRequest
      BY <1>1, <2>3, OutsideKeepsLock DEF Arrive, Entrance
    <2>4. QED
      BY <2>1, <2>2, <2>3
  <1>2. ASSUME NEW r \in Requests, Refuse(r) \/ RejectSlot(r) \/ RemoveTemp(r)
        PROVE LockInv'
    BY <1>2, AnswerKeepsLock DEF Refuse, RejectSlot, RemoveTemp
  <1>3. ASSUME NEW r \in Requests, Enter(r) \/ Wake(r) PROVE LockInv'
    BY <1>3, TakeKeepsLock DEF Enter, Wake, Entrance
  <1>4. ASSUME NEW r \in Requests, Queue(r) PROVE LockInv'
    BY <1>4, OutsideKeepsLock DEF Queue, Entrance
  <1>5. ASSUME NEW r \in Requests, CreatePending(r) \/ EnsureResultDir(r) PROVE LockInv'
    BY <1>5, StayKeepsLock DEF CreatePending, EnsureResultDir, Inside
  <1>6. ASSUME NEW r \in Requests, CheckContentType(r) \/ ReadUpload(r) \/ ProviderEnds(r)
        PROVE LockInv'
    BY <1>6, StayKeepsLock DEF CheckContentType, ReadUpload, ProviderEnds, Fail, Inside
  <1>7. ASSUME NEW r \in Requests, OpenTempFile(r) \/ RegisterTemp(r) PROVE LockInv'
    BY <1>7, StayKeepsLock DEF OpenTempFile, RegisterTemp, Inside
  <1>8. ASSUME NEW r \in Requests, SavePayload(r) \/ SetResult(r) PROVE LockInv'
    BY <1>8, StayKeepsLock DEF SavePayload, SetResult, Inside
  <1>9. ASSUME NEW r \in Requests, RegisterResult(r) \/ RemoveResultDir(r) PROVE LockInv'
    BY <1>9, StayKeepsLock DEF RegisterResult, RemoveResultDir, CleanupPlace, Inside
  <1>10. ASSUME NEW r \in Requests, SetFailure(r) \/ MarkTemp(r) PROVE LockInv'
    BY <1>10, StayKeepsLock DEF SetFailure, MarkTemp, Inside
  <1>11. ASSUME NEW r \in Requests, StoreFault(r) PROVE LockInv'
    <2>1. at[r] \in Inside
      BY <1>11 DEF StoreFault, Fallible, Inside
    <2>2. CASE InProcess(r) /\ r \notin TestRuns
      BY <1>11, <2>1, <2>2, StayKeepsLock DEF StoreFault, Fail, Inside
    <2>3. CASE ~(InProcess(r) /\ r \notin TestRuns)
      BY <1>11, <2>3, AnswerKeepsLock DEF StoreFault
    <2>4. QED
      BY <2>2, <2>3
  <1>12. CASE Crash
    BY <1>12, IngestAssumption
       DEF Crash, TypeOK, LockInv, HolderOwns, OwnerIsInside, Inside
  <1>13. CASE UNCHANGED vars
    BY <1>13 DEF vars, handlerVars, LockInv, HolderOwns, OwnerIsInside
  <1>14. QED
    BY <1>1, <1>2, <1>3, <1>4, <1>5, <1>6, <1>7, <1>8, <1>9, <1>10, <1>11, <1>12,
       <1>13 DEF Next, Step

LEMMA LockInvariant == Spec => []LockInv
  <1>1. Init => LockInv
    BY IngestAssumption DEF Init, LockInv, HolderOwns, OwnerIsInside, Inside
  <1>2. TypeOK /\ LockInv /\ [Next]_vars => LockInv'
    BY NextLock
  <1>3. QED
    BY <1>1, <1>2, TypeCorrect, PTL DEF Spec

(* The lock of a slot is always owned by a handler still inside, so it is  *)
(* given back on every path out of the handler, faults and crashes too.    *)
THEOREM LockGivenBack == Spec => []OwnerIsInside
  <1>1. LockInv => OwnerIsInside
    BY DEF LockInv
  <1>2. QED
    BY <1>1, LockInvariant, PTL

(* Two ingest requests of one slot are never inside at the same time. *)
THEOREM Exclusion == Spec => []SlotExclusion
  <1>1. TypeOK /\ LockInv => SlotExclusion
    BY DEF LockInv, HolderOwns, SlotExclusion
  <1>2. QED
    BY <1>1, TypeCorrect, LockInvariant, PTL

-----------------------------------------------------------------------------
(* Refinement *)

(* Without the cron script no done job lacks its payload, so the public    *)
(* link is a function of the row and changes only with it.                 *)
LinkOf(s) == IF s = "done" THEN "available" ELSE "not_found"

LEMMA LinkFollowsStatus ==
    ASSUME JobInv, NEW r \in Requests
    PROVE  Link(r) = LinkOf(status[r])
  BY DEF JobInv, RecordOK, Record, Link, LinkOf

(* What a row is like where a step writes it. *)
RowsInStep ==
    \A r \in Requests :
        /\ at[r] = "prepare" => status[r] = "none"
        /\ at[r] = "set_result" => status[r] = "pending"
        /\ MaxFaults = 0 /\ at[r] = "set_failure" => status[r] = "pending"

LEMMA RecordedRows == JobInv => RowsInStep
  BY DEF JobInv, RecordOK, Record, Underway, RowsInStep

(* Which steps write a row, and how.  Only here the bound on faults counts: *)
(* a fault after set_result decides the job a second time.                 *)
LEMMA RowChanges ==
    ASSUME RowsInStep, [Next]_vars
    PROVE  \/ UNCHANGED status
           \/ \E r \in Requests :
                 \/ /\ status[r] = "none"
                    /\ status' = [status EXCEPT ![r] = "pending"]
                 \/ \E verdict \in {"done", "timeout", "failed"} :
                       /\ MaxFaults = 0 => status[r] = "pending"
                       /\ status' = [status EXCEPT ![r] = verdict]
  <1> USE DEF storeVars, jobVars
  <1>1. CASE \E r \in Requests : CreatePending(r)
    <2>1. PICK r \in Requests : CreatePending(r)
      BY <1>1
    <2>2. status[r] = "none"
      BY <2>1 DEF CreatePending, Runs, RowsInStep
    <2>3. QED
      BY <2>1, <2>2 DEF CreatePending
  <1>2. CASE \E r \in Requests : SetResult(r)
    <2>1. PICK r \in Requests : SetResult(r)
      BY <1>2
    <2>2. status[r] = "pending"
      BY <2>1 DEF SetResult, Runs, RowsInStep
    <2>3. QED
      BY <2>1, <2>2 DEF SetResult
  <1>3. CASE \E r \in Requests : SetFailure(r)
    <2>1. PICK r \in Requests : SetFailure(r)
      BY <1>3
    <2>2. MaxFaults = 0 => status[r] = "pending"
      BY <2>1 DEF SetFailure, Runs, RowsInStep
    <2>3. QED
      BY <2>1, <2>2 DEF SetFailure
  <1>4. ASSUME NEW r \in Requests,
               \/ Arrive(r) \/ StoreFault(r) \/ Refuse(r) \/ Enter(r) \/ Queue(r)
               \/ Wake(r) \/ RejectSlot(r) \/ EnsureResultDir(r) \/ CheckContentType(r)
        PROVE  UNCHANGED status
    BY <1>4 DEF Arrive, StoreFault, Refuse, Enter, Queue, Wake, RejectSlot,
                EnsureResultDir, CheckContentType
  <1>5. ASSUME NEW r \in Requests,
               \/ ReadUpload(r) \/ OpenTempFile(r) \/ RegisterTemp(r) \/ ProviderEnds(r)
               \/ SavePayload(r) \/ RegisterResult(r) \/ RemoveResultDir(r)
               \/ MarkTemp(r) \/ RemoveTemp(r)
        PROVE  UNCHANGED status
    BY <1>5 DEF ReadUpload, OpenTempFile, RegisterTemp, ProviderEnds, SavePayload,
                RegisterResult, RemoveResultDir, MarkTemp, RemoveTemp
  <1>6. Crash \/ UNCHANGED vars => UNCHANGED status
    BY DEF Crash, vars
  <1>7. QED
    BY <1>1, <1>2, <1>3, <1>4, <1>5, <1>6 DEF Next, Step

(* While no operation of a store fails, rows and public links implement    *)
(* JobLifecycle, crashes of the process included.                          *)
THEOREM Refinement ==
    ASSUME MaxFaults = 0
    PROVE  Spec => ImplementsLifecycle
  <1>1. Init => Lifecycle!Init
    BY DEF Init, Lifecycle!Init, Link
  <1>2. JobInv /\ JobInv' /\ [Next]_vars => [Lifecycle!Next]_(Lifecycle!vars)
    <2> SUFFICES ASSUME JobInv, JobInv', [Next]_vars
                 PROVE  [Lifecycle!Next]_(Lifecycle!vars)
      OBVIOUS
    <2>1. /\ [r \in Requests |-> Link(r)] = [r \in Requests |-> LinkOf(status[r])]
          /\ [r \in Requests |-> Link(r)]' = [r \in Requests |-> LinkOf(status'[r])]
      BY LinkFollowsStatus DEF JobInv, RecordOK, Record, Link, LinkOf
    <2>2. CASE UNCHANGED status
      BY <2>1, <2>2 DEF Lifecycle!vars
    <2>3. ASSUME NEW r \in Requests, status[r] = "none",
                 status' = [status EXCEPT ![r] = "pending"]
          PROVE  Lifecycle!Open(r)
      <3>1. \A q \in Requests : LinkOf(status'[q]) = LinkOf(status[q])
        BY <2>3 DEF LinkOf, JobInv, TypeOK
      <3>2. UNCHANGED [q \in Requests |-> Link(q)]
        BY <2>1, <3>1
      <3>3. QED
        BY <2>3, <3>2 DEF Lifecycle!Open
    <2>4. ASSUME NEW r \in Requests, NEW verdict \in {"done", "timeout", "failed"},
                 status[r] = "pending", status' = [status EXCEPT ![r] = verdict]
          PROVE  Lifecycle!Decide(r, verdict)
      <3>1. [q \in Requests |-> LinkOf(status'[q])] =
               [[q \in Requests |-> LinkOf(status[q])] EXCEPT ![r] =
                   IF verdict = "done" THEN "available" ELSE @]
        BY <2>4 DEF LinkOf, JobInv, TypeOK
      <3>2. QED
        BY <2>1, <2>4, <3>1 DEF Lifecycle!Decide
    <2>5. QED
      BY <2>2, <2>3, <2>4, RecordedRows, RowChanges DEF Lifecycle!Next, Lifecycle!Decided
  <1>3. QED
    BY <1>1, <1>2, JobInvariant, PTL DEF Spec, ImplementsLifecycle, Lifecycle!Spec

(* While no operation of a store fails, a decided job is never decided     *)
(* again; the run ingest_final shows that the condition is needed.         *)
THEOREM FinalWithoutFaults ==
    ASSUME MaxFaults = 0
    PROVE  Spec => VerdictIsFinal
  <1>1. JobInv /\ [Next]_vars
          => [\A r \in Requests : status[r] \in {"done", "timeout", "failed"}
                => status'[r] = status[r]]_vars
    BY RecordedRows, RowChanges DEF JobInv, TypeOK
  <1>2. QED
    BY <1>1, JobInvariant, PTL DEF Spec, VerdictIsFinal

-----------------------------------------------------------------------------
(* The order in which a row is written, for all faults and crashes.        *)

(* What a row says at each place of its handler.  Wherever the last resort *)
(* may still fail a job, its row is pending or holds what process() itself *)
(* recorded; after the last resort nothing records anything any more.      *)
RowFor(o) ==
    <<CASE o = "ok" -> "done" [] o = "provider_timeout" -> "timeout" [] OTHER -> "failed",
      IF o = "ok" THEN "null" ELSE o>>

RowIs(r, verdict) == status[r] = verdict[1] /\ reason[r] = verdict[2]

Written(r) ==
    /\ at[r] \in Entrance \cup {"prepare"} => RowIs(r, <<"none", "null">>) /\ outcome[r] = "none"
    /\ at[r] \in Underway => RowIs(r, <<"pending", "null">>)
    /\ at[r] \in {"save", "set_result", "register_result"} => outcome[r] = "ok"
    /\ at[r] = "register_result" => RowIs(r, <<"done", "null">>)
    /\ at[r] = "set_failure" =>
          /\ outcome[r] \in FailureReason
          /\ \/ status[r] = "pending"
             \/ /\ outcome[r] = "internal_error"
                /\ \E verdict \in Records!ProviderVerdicts : RowIs(r, verdict)
    /\ at[r] \in {"remove_result", "mark_temp", "remove_temp"} =>
          /\ outcome[r] \in FailureReason \cup {"ok"}
          /\ RowIs(r, RowFor(outcome[r]))

WrittenOK == \A r \in Requests : Written(r)

(* What a handler may do to its row. *)
RowStep(r) ==
    \/ UNCHANGED jobVars
    \/ Records!Create(r) \/ Records!Decide(r) \/ Records!TakeBack(r)

LEMMA OwnRow ==
    ASSUME TypeOK, NEW r \in Requests, Written(r), Act(r)
    PROVE  RowStep(r)
  <1> USE DEF Written, RowIs, Runs, RowStep, jobVars, Records!Write
  <1>1. CASE CreatePending(r)
    BY <1>1 DEF CreatePending, TypeOK, Records!Create
  <1>2. CASE SetResult(r)
    <2>1. status[r] = "pending"
      BY <1>2 DEF SetResult, Underway
    <2>2. Records!Write(r, <<"done", "null">>)
      BY <1>2 DEF SetResult
    <2>3. QED
      BY <2>1, <2>2 DEF Records!Decide, Records!ProviderVerdicts
  <1>3. CASE SetFailure(r)
    <2>1. at[r] = "set_failure" /\ outcome[r] \in FailureReason
      BY <1>3 DEF SetFailure
    <2>2. RowFor(outcome[r]) \in Records!ProviderVerdicts \cup Records!OwnVerdicts
      BY <2>1 DEF RowFor, FailureReason, Records!ProviderVerdicts, Records!OwnVerdicts
    <2>3. Records!Write(r, RowFor(outcome[r]))
      BY <1>3, <2>1 DEF SetFailure, RowFor, FailureReason
    <2>4. CASE status[r] = "pending"
      BY <2>2, <2>3, <2>4 DEF Records!Decide
    <2>5. CASE /\ outcome[r] = "internal_error"
               /\ \E verdict \in Records!ProviderVerdicts : RowIs(r, verdict)
      <3>1. RowFor(outcome[r]) = <<"failed", "internal_error">>
        BY <2>5 DEF RowFor
      <3>2. <<status[r], reason[r]>> \in Records!ProviderVerdicts
        BY <2>5 DEF Records!ProviderVerdicts
      <3>3. QED
        BY <2>3, <3>1, <3>2 DEF Records!TakeBack
    <2>6. QED
      BY <2>1, <2>4, <2>5
  <1>4. CASE \/ Arrive(r) \/ StoreFault(r) \/ Refuse(r) \/ Enter(r) \/ Queue(r)
             \/ Wake(r) \/ RejectSlot(r) \/ EnsureResultDir(r) \/ CheckContentType(r)
    BY <1>4 DEF Arrive, StoreFault, Refuse, Enter, Queue, Wake, RejectSlot,
                EnsureResultDir, CheckContentType, storeVars
  <1>5. CASE \/ ReadUpload(r) \/ OpenTempFile(r) \/ RegisterTemp(r) \/ ProviderEnds(r)
             \/ SavePayload(r) \/ RegisterResult(r) \/ RemoveResultDir(r)
             \/ MarkTemp(r) \/ RemoveTemp(r)
    BY <1>5 DEF ReadUpload, OpenTempFile, RegisterTemp, ProviderEnds, SavePayload,
                RegisterResult, RemoveResultDir, MarkTemp, RemoveTemp, storeVars
  <1>6. QED
    BY <1>1, <1>2, <1>3, <1>4, <1>5 DEF Act, Step

LEMMA OwnWritten ==
    ASSUME TypeOK, NEW r \in Requests, Written(r), Act(r)
    PROVE  Written(r)'
  <1> USE DEF TypeOK, Written, RowIs, Entrance, Underway, Runs, Continue, Await, Fail,
              handlerVars, lockVars, jobVars, resultVars, tempVars, storeVars, budgetVars
  <1>1. CASE Arrive(r)
    BY <1>1 DEF Arrive, StartTest, Answer
  <1>2. CASE Refuse(r) \/ RejectSlot(r)
    BY <1>2 DEF Refuse, RejectSlot, Answer
  <1>3. CASE Enter(r) \/ Queue(r) \/ Wake(r)
    BY <1>3 DEF Enter, Queue, Wake
  <1>4. CASE CreatePending(r) \/ EnsureResultDir(r)
    BY <1>4 DEF CreatePending, EnsureResultDir
  <1>5. CASE CheckContentType(r) \/ ReadUpload(r) \/ ProviderEnds(r)
    BY <1>5 DEF CheckContentType, ReadUpload, ProviderEnds, FailureReason
  <1>6. CASE OpenTempFile(r) \/ RegisterTemp(r)
    BY <1>6 DEF OpenTempFile, RegisterTemp
  <1>7. CASE SavePayload(r) \/ SetResult(r)
    BY <1>7 DEF SavePayload, SetResult
  <1>8. CASE RegisterResult(r)
    BY <1>8 DEF RegisterResult, CleanupPlace, RowFor
  <1>9. CASE SetFailure(r)
    BY <1>9 DEF SetFailure, FailureReason, RowFor
  <1>10. CASE RemoveResultDir(r)
    BY <1>10 DEF RemoveResultDir, CleanupPlace
  <1>11. CASE MarkTemp(r)
    BY <1>11 DEF MarkTemp
  <1>12. CASE RemoveTemp(r)
    BY <1>12 DEF RemoveTemp, Answer
  <1>13. CASE StoreFault(r)
    <2>1. CASE InProcess(r) /\ r \notin TestRuns
      <3>1. /\ at' = [at EXCEPT ![r] = "set_failure"]
            /\ outcome' = [outcome EXCEPT ![r] = "internal_error"]
            /\ UNCHANGED jobVars
            /\ at[r] \in Fallible /\ outcome[r] \in {"ok", "provider_timeout", "provider_error"}
        BY <1>13, <2>1 DEF StoreFault, InProcess
      <3>2. CASE at[r] = "mark_temp"
        <4>1. RowFor(outcome[r]) \in Records!ProviderVerdicts
          BY <3>1 DEF RowFor, Records!ProviderVerdicts
        <4>2. \E verdict \in Records!ProviderVerdicts : RowIs(r, verdict)
          BY <3>2, <4>1
        <4>3. QED
          BY <3>1, <4>2 DEF FailureReason
      <3>3. CASE at[r] = "register_result"
        BY <3>1, <3>3 DEF FailureReason, Records!ProviderVerdicts
      <3>4. CASE at[r] \notin {"mark_temp", "register_result"}
        BY <3>1, <3>4 DEF Fallible, FailureReason
      <3>5. QED
        BY <3>2, <3>3, <3>4
    <2>2. CASE ~(InProcess(r) /\ r \notin TestRuns)
      BY <1>13, <2>2 DEF StoreFault, Fallible, Answer
    <2>3. QED
      BY <2>1, <2>2
  <1>14. QED
    BY <1>1, <1>2, <1>3, <1>4, <1>5, <1>6, <1>7, <1>8, <1>9, <1>10, <1>11, <1>12,
       <1>13 DEF Act, Step

(* A step of the application, whatever else it shares the machine with. *)
LEMMA NextWritten ==
    ASSUME TypeOK, WrittenOK, [Next]_vars
    PROVE  WrittenOK' /\ [Records!Next]_(Records!vars)
  <1>1. ASSUME NEW r \in Requests, Act(r)
        PROVE  WrittenOK' /\ [Records!Next]_(Records!vars)
    <2>1. ASSUME NEW q \in Requests PROVE Written(q)'
      <3>1. CASE q = r
        BY <1>1, <3>1, OwnWritten DEF WrittenOK
      <3>2. CASE q # r
        BY <1>1, <3>2, OthersUntouched DEF WrittenOK, Written, RowIs, Untouched
      <3>3. QED
        BY <3>1, <3>2
    <2>2. RowStep(r)
      BY <1>1, OwnRow DEF WrittenOK
    <2>3. QED
      BY <2>1, <2>2 DEF WrittenOK, RowStep, jobVars, Records!Next, Records!vars
  <1>2. CASE Crash
    BY <1>2 DEF Crash, WrittenOK, Written, RowIs, TypeOK, Entrance, Underway,
                storeVars, jobVars, Records!vars
  <1>3. CASE UNCHANGED vars
    BY <1>3 DEF vars, handlerVars, storeVars, jobVars, WrittenOK, Written, RowIs, Records!vars
  <1>4. QED
    BY <1>1, <1>2, <1>3 DEF Next, Act

LEMMA InitWritten == Init => WrittenOK /\ Records!Init
  BY DEF Init, WrittenOK, Written, RowIs, Underway, Records!Init

(* Whatever fails and whatever dies, a row is created, decided, and at     *)
(* most taken back once, by internal_error.                                *)
THEOREM RecordsRefined == Spec => ImplementsRecords
  <1>1. TypeOK /\ WrittenOK /\ [Next]_vars => WrittenOK' /\ [Records!Next]_(Records!vars)
    BY NextWritten
  <1>2. QED
    BY <1>1, InitWritten, TypeCorrect, PTL DEF Spec, ImplementsRecords, Records!Spec

-----------------------------------------------------------------------------
(* MediaLifecycle: handlers and cron script together.                      *)

(* What holds of one job in every state, whatever the cron script does:    *)
(* its result expires only after its handler, and until then the payload   *)
(* of a done job is there; its temp row appears with the copy, and both    *)
(* stay until the lease is over or the handler is done with the provider.  *)
Course(r) ==
    /\ at[r] \in Entrance \cup {"prepare"} => status[r] = "none"
    /\ at[r] \in Underway => status[r] = "pending"
    /\ at[r] = "set_result" => dir[r] = "payload"
    /\ at[r] = "set_failure" => outcome[r] \in FailureReason
    /\ MaxFaults = 0 /\ at[r] = "set_failure" => status[r] = "pending"
    /\ at[r] = "remove_result" => status[r] \in {"failed", "timeout"}
    /\ status[r] = "done" /\ r \notin resExpired => dir[r] = "payload"
    /\ r \in resExpired => at[r] \in Over /\ status[r] = "done"

Lease(r) ==
    /\ at[r] \in Entrance \cup {"prepare", "mkdir", "validate", "reading", "persist"}
          => tmpRow[r] = "none"
    /\ at[r] = "copying" => tmpRow[r] = "none" /\ tmp[r] = "present"
    /\ at[r] = "provider" /\ r \notin tmpExpired => tmpRow[r] = "live" /\ tmp[r] = "present"
    /\ r \in tmpExpired => tmpRow[r] # "none"

JobsOK == \A r \in Requests : Course(r) /\ Lease(r)

(* A cron run only ever works on what had expired when it was listed.      *)
CronOK ==
    /\ cronDue \subseteq tmpExpired
    /\ cronAt \in {"results", "mark_result"} => cronTodo \subseteq resExpired
    /\ cronAt \in {"temp", "mark_temp"} => cronTodo \subseteq tmpExpired
    /\ cronAt \in {"mark_result", "mark_temp"} => cronJob \in cronTodo

MediaInv == MediaTypeOK /\ JobsOK /\ CronOK

-----------------------------------------------------------------------------
LEMMA MediaInitInv == MediaInit => MediaInv
  <1> SUFFICES ASSUME MediaInit PROVE MediaInv
    OBVIOUS
  <1>1. MediaTypeOK
    BY InitType, CronAssumption DEF MediaInit, MediaTypeOK, CronPlaces
  <1>2. ASSUME NEW r \in Requests PROVE Course(r) /\ Lease(r)
    <2>1. at[r] = "idle" /\ status[r] = "none" /\ tmpRow[r] = "none"
          /\ r \notin resExpired /\ r \notin tmpExpired
      BY DEF MediaInit, Init
    <2>2. QED
      BY <2>1 DEF Course, Lease, Underway
  <1>3. CronOK
    BY DEF MediaInit, CronOK
  <1>4. QED
    BY <1>1, <1>2, <1>3 DEF MediaInv, JobsOK

(* The handler's own step, action by action. *)
LEMMA OwnCourse ==
    ASSUME TypeOK, NEW r \in Requests, Course(r), Act(r), UNCHANGED mediaVars
    PROVE  Course(r)'
  <1> USE DEF TypeOK, Course, Entrance, Underway, Over, Runs, Continue, Await, Fail,
              handlerVars, lockVars, jobVars, resultVars, tempVars, storeVars, budgetVars,
              mediaVars, expiryVars
  <1>1. CASE Arrive(r)
    BY <1>1 DEF Arrive, StartTest, Answer
  <1>2. CASE Refuse(r) \/ RejectSlot(r)
    BY <1>2 DEF Refuse, RejectSlot, Answer
  <1>3. CASE Enter(r) \/ Queue(r) \/ Wake(r)
    BY <1>3 DEF Enter, Queue, Wake
  <1>4. CASE CreatePending(r) \/ EnsureResultDir(r)
    BY <1>4 DEF CreatePending, EnsureResultDir
  <1>5. CASE CheckContentType(r) \/ ReadUpload(r) \/ ProviderEnds(r)
    BY <1>5 DEF CheckContentType, ReadUpload, ProviderEnds, FailureReason
  <1>6. CASE OpenTempFile(r) \/ RegisterTemp(r)
    BY <1>6 DEF OpenTempFile, RegisterTemp
  <1>7. CASE SavePayload(r) \/ SetResult(r)
    BY <1>7 DEF SavePayload, SetResult
  <1>8. CASE RegisterResult(r)
    BY <1>8 DEF RegisterResult, CleanupPlace
  <1>9. CASE SetFailure(r)
    BY <1>9 DEF SetFailure, FailureReason
  <1>10. CASE RemoveResultDir(r)
    BY <1>10 DEF RemoveResultDir, CleanupPlace, FailureReason
  <1>11. CASE MarkTemp(r)
    BY <1>11 DEF MarkTemp
  <1>12. CASE RemoveTemp(r)
    BY <1>12 DEF RemoveTemp, Answer
  <1>13. CASE StoreFault(r)
    <2>1. MaxFaults # 0
      BY <1>13, IngestAssumption DEF StoreFault
    <2>2. CASE InProcess(r) /\ r \notin TestRuns
      BY <1>13, <2>1, <2>2 DEF StoreFault, InProcess, Fallible, FailureReason
    <2>3. CASE ~(InProcess(r) /\ r \notin TestRuns)
      BY <1>13, <2>1, <2>3 DEF StoreFault, Fallible, Answer
    <2>4. QED
      BY <2>2, <2>3
  <1>14. QED
    BY <1>1, <1>2, <1>3, <1>4, <1>5, <1>6, <1>7, <1>8, <1>9, <1>10, <1>11, <1>12,
       <1>13 DEF Act, Step

LEMMA OwnLease ==
    ASSUME TypeOK, NEW r \in Requests, Lease(r), Act(r), UNCHANGED mediaVars
    PROVE  Lease(r)'
  <1> USE DEF TypeOK, Lease, Entrance, Runs, Continue, Await, Fail,
              handlerVars, lockVars, jobVars, resultVars, tempVars, storeVars, budgetVars,
              mediaVars, expiryVars
  <1>1. CASE Arrive(r)
    BY <1>1 DEF Arrive, StartTest, Answer
  <1>2. CASE Refuse(r) \/ RejectSlot(r)
    BY <1>2 DEF Refuse, RejectSlot, Answer
  <1>3. CASE Enter(r) \/ Queue(r) \/ Wake(r)
    BY <1>3 DEF Enter, Queue, Wake
  <1>4. CASE CreatePending(r) \/ EnsureResultDir(r)
    BY <1>4 DEF CreatePending, EnsureResultDir
  <1>5. CASE CheckContentType(r) \/ ReadUpload(r) \/ ProviderEnds(r)
    BY <1>5 DEF CheckContentType, ReadUpload, ProviderEnds
  <1>6. CASE OpenTempFile(r) \/ RegisterTemp(r)
    BY <1>6 DEF OpenTempFile, RegisterTemp
  <1>7. CASE SavePayload(r) \/ SetResult(r) \/ RegisterResult(r)
    BY <1>7 DEF SavePayload, SetResult, RegisterResult, CleanupPlace
  <1>8. CASE SetFailure(r) \/ RemoveResultDir(r)
    BY <1>8 DEF SetFailure, RemoveResultDir, CleanupPlace
  <1>9. CASE MarkTemp(r) \/ RemoveTemp(r)
    BY <1>9 DEF MarkTemp, RemoveTemp, Answer
  <1>10. CASE StoreFault(r)
    BY <1>10 DEF StoreFault, Answer
  <1>11. QED
    BY <1>1, <1>2, <1>3, <1>4, <1>5, <1>6, <1>7, <1>8, <1>9, <1>10 DEF Act, Step

(* A step of the application: one handler, a crash, or none. *)
LEMMA NextApp ==
    ASSUME MediaInv, [Next]_vars, UNCHANGED mediaVars
    PROVE  MediaInv'
  <1> USE DEF MediaInv
  <1>1. MediaTypeOK'
    <2>1. FailuresHaveReasons
      BY DEF JobsOK, Course, FailuresHaveReasons
    <2>2. TypeOK'
      BY <2>1, StepType DEF MediaTypeOK
    <2>3. QED
      BY <2>2 DEF MediaTypeOK, mediaVars, expiryVars, cronVars
  <1>2. CronOK'
    BY DEF CronOK, mediaVars, expiryVars, cronVars
  <1>3. ASSUME NEW r \in Requests, Act(r) PROVE JobsOK'
    <2> SUFFICES ASSUME NEW q \in Requests PROVE (Course(q) /\ Lease(q))'
      BY DEF JobsOK
    <2>1. CASE q = r
      BY <1>3, <2>1, OwnCourse, OwnLease DEF JobsOK, MediaTypeOK
    <2>2. CASE q # r
      <3>1. Untouched(q)
        BY <1>3, <2>2, OthersUntouched DEF MediaTypeOK
      <3>2. QED
        BY <3>1 DEF JobsOK, Course, Lease, Untouched, mediaVars, expiryVars
    <2>3. QED
      BY <2>1, <2>2
  <1>4. ASSUME Crash PROVE JobsOK'
    <2> SUFFICES ASSUME NEW q \in Requests PROVE (Course(q) /\ Lease(q))'
      BY DEF JobsOK
    <2>1. /\ status'[q] = status[q] /\ dir'[q] = dir[q] /\ outcome'[q] = outcome[q]
          /\ tmp'[q] = tmp[q] /\ tmpRow'[q] = tmpRow[q]
          /\ resExpired' = resExpired /\ tmpExpired' = tmpExpired
      BY <1>4 DEF Crash, storeVars, jobVars, resultVars, tempVars, mediaVars, expiryVars
    <2>2. \/ at'[q] = at[q] /\ at[q] \in {"idle", "answered"}
          \/ at'[q] = "lost"
      BY <1>4 DEF Crash
    <2>3. Course(q)'
      BY <2>1, <2>2 DEF JobsOK, Course, Entrance, Underway, Over
    <2>4. Lease(q)'
      BY <2>1, <2>2 DEF JobsOK, Lease, Entrance
    <2>5. QED
      BY <2>3, <2>4
  <1>5. ASSUME UNCHANGED vars PROVE JobsOK'
    <2> SUFFICES ASSUME NEW q \in Requests PROVE (Course(q) /\ Lease(q))'
      BY DEF JobsOK
    <2>1. Untouched(q)
      BY <1>5 DEF vars, handlerVars, storeVars, jobVars, resultVars, tempVars, Untouched
    <2>2. QED
      BY <2>1 DEF JobsOK, Course, Lease, Untouched, mediaVars, expiryVars
  <1>6. QED
    BY <1>1, <1>2, <1>3, <1>4, <1>5 DEF Next, Act

LEMMA NextExpiry ==
    ASSUME MediaInv, NEW r \in Requests, ResultExpires(r) \/ TempExpires(r)
    PROVE  MediaInv'
  <1> USE DEF MediaInv, vars, handlerVars, lockVars, storeVars, jobVars, resultVars, tempVars,
              budgetVars, cronVars
  <1>1. CASE ResultExpires(r)
    BY <1>1 DEF ResultExpires, MediaTypeOK, TypeOK, JobsOK, Course, Lease, CronOK, Over
  <1>2. CASE TempExpires(r)
    BY <1>2 DEF TempExpires, MediaTypeOK, TypeOK, JobsOK, Course, Lease, CronOK
  <1>3. QED
    BY <1>1, <1>2

LEMMA NextCron ==
    ASSUME MediaInv, CronStep \/ CronDies
    PROVE  MediaInv'
  <1> USE DEF MediaInv, vars, appVars, handlerVars, lockVars, storeVars, jobVars, resultVars,
              tempVars, budgetVars, expiryVars, MediaTypeOK, CronPlaces
  <1>1. CASE CronStart \/ CronListTemp \/ CronEnds \/ CronDies
    <2>1. CronOK' /\ MediaTypeOK'
      BY <1>1, CronAssumption
         DEF CronStart, CronListTemp, CronEnds, CronDies, CronOK, TypeOK
    <2>2. JobsOK'
      BY <1>1 DEF CronStart, CronListTemp, CronEnds, CronDies, JobsOK, Course, Lease
    <2>3. QED
      BY <2>1, <2>2
  <1>2. CASE CronRemoveResult
    <2>1. PICK r \in cronTodo : \E kept \in Remains(dir[r]) :
             dir' = [dir EXCEPT ![r] = kept] /\ CountSwallowed(kept) /\ cronJob' = r
      BY <1>2 DEF CronRemoveResult
    <2>2. PICK kept \in Remains(dir[r]) :
             dir' = [dir EXCEPT ![r] = kept] /\ CountSwallowed(kept) /\ cronJob' = r
      BY <2>1
    <2>3. r \in Requests /\ r \in resExpired
      BY <1>2 DEF CronRemoveResult, CronOK
    <2>4. kept \in {"absent", dir[r]} /\ faults' \in 0..MaxFaults
      BY <2>2, RemainsFacts
    <2>5. TypeOK'
      BY <1>2, <2>2, <2>3, <2>4 DEF CronRemoveResult, TypeOK
    <2>6. MediaTypeOK' /\ CronOK'
      BY <1>2, <2>2, <2>3, <2>5 DEF CronRemoveResult, CronOK
    <2>7. JobsOK'
      BY <1>2, <2>2, <2>3 DEF CronRemoveResult, JobsOK, Course, Lease, TypeOK, Over, Underway
    <2>8. QED
      BY <2>6, <2>7
  <1>3. CASE CronMarkResult
    <2>1. cronJob \in resExpired /\ cronJob \in Requests
      BY <1>3 DEF CronMarkResult, CronOK
    <2>2. MediaTypeOK' /\ CronOK'
      BY <1>3, <2>1 DEF CronMarkResult, CronOK, TypeOK
    <2>3. JobsOK'
      BY <1>3, <2>1 DEF CronMarkResult, JobsOK, Course, Lease
    <2>4. QED
      BY <2>2, <2>3
  <1>4. CASE CronRemoveTemp
    <2>1. PICK r \in cronTodo : \E kept \in Remains(tmp[r]) :
             tmp' = [tmp EXCEPT ![r] = kept] /\ CountSwallowed(kept) /\ cronJob' = r
      BY <1>4 DEF CronRemoveTemp
    <2>2. PICK kept \in Remains(tmp[r]) :
             tmp' = [tmp EXCEPT ![r] = kept] /\ CountSwallowed(kept) /\ cronJob' = r
      BY <2>1
    <2>3. r \in Requests /\ r \in tmpExpired
      BY <1>4 DEF CronRemoveTemp, CronOK
    <2>4. kept \in {"absent", tmp[r]} /\ faults' \in 0..MaxFaults
      BY <2>2, RemainsFacts
    <2>5. TypeOK'
      BY <1>4, <2>2, <2>3, <2>4 DEF CronRemoveTemp, TypeOK
    <2>6. MediaTypeOK' /\ CronOK'
      BY <1>4, <2>2, <2>3, <2>5 DEF CronRemoveTemp, CronOK
    <2>7. JobsOK'
      BY <1>4, <2>2, <2>3 DEF CronRemoveTemp, JobsOK, Course, Lease, TypeOK
    <2>8. QED
      BY <2>6, <2>7
  <1>5. CASE CronMarkTemp
    <2>1. cronJob \in tmpExpired /\ cronJob \in Requests
      BY <1>5 DEF CronMarkTemp, CronOK
    <2>2. MediaTypeOK' /\ CronOK'
      BY <1>5, <2>1 DEF CronMarkTemp, CronOK, TypeOK
    <2>3. JobsOK'
      BY <1>5, <2>1 DEF CronMarkTemp, JobsOK, Course, Lease, TypeOK
    <2>4. QED
      BY <2>2, <2>3
  <1>6. QED
    BY <1>1, <1>2, <1>3, <1>4, <1>5 DEF CronStep

LEMMA NextMedia == MediaInv /\ [MediaNext]_allVars => MediaInv'
  <1> SUFFICES ASSUME MediaInv, [MediaNext]_allVars PROVE MediaInv'
    OBVIOUS
  <1>1. CASE UNCHANGED allVars
    BY <1>1, NextApp DEF allVars
  <1>2. QED
    BY <1>1, NextApp, NextExpiry, NextCron DEF MediaNext

LEMMA MediaInvariant == MediaSpec => []MediaInv
  BY MediaInitInv, NextMedia, PTL DEF MediaSpec

-----------------------------------------------------------------------------
(* Handlers and cron script keep the types of rows, files and listings. *)
THEOREM MediaTypeCorrect == MediaSpec => []MediaTypeOK
  <1>1. MediaInv => MediaTypeOK
    BY DEF MediaInv
  <1>2. QED
    BY <1>1, MediaInvariant, PTL

(* No result and no leased upload is deleted before its time, whichever    *)
(* operations fail, whenever the process or the cron script dies.          *)
THEOREM NothingIsDeletedEarly == MediaSpec => []NothingDeletedEarly
  <1>1. MediaInv => NothingDeletedEarly
    <2> SUFFICES ASSUME MediaInv, NEW r \in Requests
                 PROVE  /\ status[r] = "done" /\ r \notin resExpired => Link(r) = "available"
                        /\ at[r] = "provider" /\ r \notin tmpExpired => MediaAnswer(r) = 200
      BY DEF NothingDeletedEarly
    <2>1. Course(r) /\ Lease(r)
      BY DEF MediaInv, JobsOK
    <2>2. status[r] = "done" /\ r \notin resExpired => Link(r) = "available"
      BY <2>1 DEF Course, Link
    <2>3. at[r] = "provider" /\ r \notin tmpExpired => MediaAnswer(r) = 200
      BY <2>1 DEF Lease, MediaAnswer
    <2>4. QED
      BY <2>2, <2>3
  <1>2. QED
    BY <1>1, MediaInvariant, PTL

-----------------------------------------------------------------------------
(* A handler that is over does nothing any more. *)
LEMMA OverIsUntouched ==
    ASSUME TypeOK, NEW r \in Requests, Act(r), NEW q \in Requests, at[q] \in Over
    PROVE  Untouched(q)
  <1>1. at[r] \notin Over
    BY DEF Act, Step, Arrive, Refuse, Enter, Queue, Wake, RejectSlot, CreatePending,
           EnsureResultDir, CheckContentType, ReadUpload, OpenTempFile, RegisterTemp,
           ProviderEnds, SavePayload, SetResult, RegisterResult, SetFailure,
           RemoveResultDir, MarkTemp, RemoveTemp, StoreFault, Fallible, Runs, Over
  <1>2. QED
    BY <1>1, OthersUntouched

(* What a handler makes of its own files and rows while nothing fails: it  *)
(* puts a temp file where there is no row yet, marks the row on its way to *)
(* the file, and does not leave before the file is gone.                   *)
LEMMA HandlerCleansUp ==
    ASSUME MaxFaults = 0, TypeOK, NEW r \in Requests, Lease(r), Act(r)
    PROVE  /\ resRow'[r] = "cleaned" => resRow[r] = "cleaned"
           /\ tmp'[r] \in {tmp[r], "absent"} \/ tmpRow[r] = "none"
           /\ tmpRow'[r] = "cleaned" => tmpRow[r] = "cleaned" \/ at'[r] = "remove_temp"
           /\ at[r] = "remove_temp" => tmp'[r] = "absent"
  <1> USE DEF TypeOK, Lease, Entrance, Runs, Continue, Await, Fail,
              handlerVars, lockVars, jobVars, resultVars, tempVars, storeVars, budgetVars
  <1>1. CASE Arrive(r) \/ Refuse(r) \/ Enter(r) \/ Queue(r) \/ Wake(r) \/ RejectSlot(r)
    BY <1>1 DEF Arrive, Refuse, Enter, Queue, Wake, RejectSlot
  <1>2. CASE \/ CreatePending(r) \/ EnsureResultDir(r) \/ CheckContentType(r)
             \/ ReadUpload(r) \/ ProviderEnds(r)
    BY <1>2 DEF CreatePending, EnsureResultDir, CheckContentType, ReadUpload, ProviderEnds
  <1>3. CASE OpenTempFile(r) \/ RegisterTemp(r)
    BY <1>3 DEF OpenTempFile, RegisterTemp
  <1>4. CASE SavePayload(r) \/ SetResult(r) \/ RegisterResult(r) \/ SetFailure(r)
    BY <1>4 DEF SavePayload, SetResult, RegisterResult, SetFailure
  <1>5. CASE RemoveResultDir(r)
    BY <1>5 DEF RemoveResultDir
  <1>6. CASE MarkTemp(r)
    BY <1>6 DEF MarkTemp
  <1>7. CASE RemoveTemp(r)
    <2>1. PICK kept \in Remains(tmp[r]) :
             tmp' = [tmp EXCEPT ![r] = kept] /\ CountSwallowed(kept)
      BY <1>7 DEF RemoveTemp
    <2>2. kept = "absent"
      BY <2>1, RemainsFacts
    <2>3. QED
      BY <1>7, <2>1, <2>2 DEF RemoveTemp
  <1>8. CASE StoreFault(r)
    BY <1>8 DEF StoreFault
  <1>9. QED
    BY <1>1, <1>2, <1>3, <1>4, <1>5, <1>6, <1>7, <1>8 DEF Act, Step

(* CleanedMeansGone is not inductive alone: between the deletion and the   *)
(* mark of a cron run nothing may put the file back.                       *)
Gone(r) ==
    /\ resRow[r] = "cleaned" => r \in resExpired /\ dir[r] = "absent"
    /\ tmpRow[r] = "cleaned" => tmp[r] = "absent" \/ at[r] = "remove_temp"
    /\ cronAt = "mark_result" /\ cronJob = r => dir[r] = "absent"
    /\ cronAt = "mark_temp" /\ cronJob = r => tmp[r] = "absent"

GoneOK == \A r \in Requests : Gone(r)

LEMMA NextGoneApp ==
    ASSUME MaxFaults = 0, MaxCrashes = 0, MediaInv, GoneOK, [Next]_vars, UNCHANGED mediaVars
    PROVE  GoneOK'
  <1>1. ASSUME NEW r \in Requests, Act(r), NEW q \in Requests PROVE Gone(q)'
    <2>1. Course(q) /\ Lease(q) /\ Gone(q) /\ TypeOK
      BY DEF MediaInv, MediaTypeOK, JobsOK, GoneOK
    <2>2. CASE q # r \/ at[q] \in Over
      <3>1. Untouched(q)
        BY <1>1, <2>1, <2>2, OthersUntouched, OverIsUntouched
      <3>2. QED
        BY <2>1, <3>1 DEF Gone, Untouched, mediaVars, expiryVars, cronVars
    <2>3. CASE q = r /\ at[q] \notin Over
      <3>1. q \notin resExpired /\ resRow[q] # "cleaned"
        BY <2>1, <2>3 DEF Course, Gone
      <3>2. cronAt = "mark_result" => cronJob # q
        BY <3>1 DEF MediaInv, CronOK
      <3>3. cronAt = "mark_temp" /\ cronJob = q => tmpRow[q] # "none"
        BY <2>1 DEF MediaInv, CronOK, Lease
      <3>4. /\ resRow'[q] # "cleaned"
            /\ tmp'[q] \in {tmp[q], "absent"} \/ tmpRow[q] = "none"
            /\ tmpRow'[q] = "cleaned" => tmpRow[q] = "cleaned" \/ at'[q] = "remove_temp"
            /\ at[q] = "remove_temp" => tmp'[q] = "absent"
        BY <1>1, <2>1, <2>3, <3>1, HandlerCleansUp
      <3>5. QED
        BY <2>1, <3>2, <3>3, <3>4 DEF Gone, mediaVars, expiryVars, cronVars
    <2>4. QED
      BY <2>2, <2>3
  <1>2. ~Crash
    BY IngestAssumption DEF Crash, MediaInv, MediaTypeOK, TypeOK
  <1>3. CASE UNCHANGED vars
    BY <1>3 DEF vars, handlerVars, storeVars, resultVars, tempVars, GoneOK, Gone,
                mediaVars, expiryVars, cronVars
  <1>4. QED
    BY <1>1, <1>2, <1>3 DEF GoneOK, Next, Act

LEMMA NextGoneCron ==
    ASSUME MaxFaults = 0, MediaInv, GoneOK, CronStep \/ CronDies
    PROVE  GoneOK'
  <1> USE DEF vars, appVars, handlerVars, lockVars, storeVars, jobVars, resultVars,
              tempVars, budgetVars, expiryVars, MediaInv, MediaTypeOK
  <1> SUFFICES ASSUME NEW q \in Requests PROVE Gone(q)'
    BY DEF GoneOK
  <1>1. Gone(q) /\ TypeOK
    BY DEF GoneOK
  <1>2. CASE CronStart \/ CronListTemp \/ CronEnds \/ CronDies
    BY <1>1, <1>2 DEF CronStart, CronListTemp, CronEnds, CronDies, Gone
  <1>3. CASE CronRemoveResult
    <2>1. PICK r \in cronTodo : \E kept \in Remains(dir[r]) :
             dir' = [dir EXCEPT ![r] = kept] /\ CountSwallowed(kept) /\ cronJob' = r
      BY <1>3 DEF CronRemoveResult
    <2>2. r \in Requests /\ dir' = [dir EXCEPT ![r] = "absent"] /\ cronJob' = r
      BY <1>1, <2>1, RemainsFacts
    <2>3. dir'[r] = "absent" /\ (dir'[q] = dir[q] \/ q = r)
      BY <1>1, <2>2 DEF TypeOK
    <2>4. QED
      BY <1>1, <1>3, <2>2, <2>3 DEF CronRemoveResult, Gone
  <1>4. CASE CronMarkResult
    <2>1. cronJob \in resExpired
      BY <1>4 DEF CronMarkResult, CronOK
    <2>2. QED
      BY <1>1, <1>4, <2>1 DEF CronMarkResult, Gone, TypeOK
  <1>5. CASE CronRemoveTemp
    <2>1. PICK r \in cronTodo : \E kept \in Remains(tmp[r]) :
             tmp' = [tmp EXCEPT ![r] = kept] /\ CountSwallowed(kept) /\ cronJob' = r
      BY <1>5 DEF CronRemoveTemp
    <2>2. r \in Requests /\ tmp' = [tmp EXCEPT ![r] = "absent"] /\ cronJob' = r
      BY <1>1, <2>1, RemainsFacts
    <2>3. tmp'[r] = "absent" /\ (tmp'[q] = tmp[q] \/ q = r)
      BY <1>1, <2>2 DEF TypeOK
    <2>4. QED
      BY <1>1, <1>5, <2>2, <2>3 DEF CronRemoveTemp, Gone
  <1>6. CASE CronMarkTemp
    BY <1>1, <1>6 DEF CronMarkTemp, Gone, TypeOK
  <1>7. QED
    BY <1>2, <1>3, <1>4, <1>5, <1>6 DEF CronStep

(* While nothing fails and the process does not crash, a row that is       *)
(* marked cleaned has no file behind it, whichever of the two processes    *)
(* cleaned it and however often cron runs die.                             *)
THEOREM NoFileOutlivesItsRow ==
    ASSUME MaxFaults = 0, MaxCrashes = 0
    PROVE  MediaSpec => []CleanedMeansGone
  <1>1. MediaInit => GoneOK
    BY DEF MediaInit, Init, GoneOK, Gone
  <1>2. MediaInv /\ GoneOK /\ [MediaNext]_allVars => GoneOK'
    <2> SUFFICES ASSUME MediaInv, GoneOK, [MediaNext]_allVars PROVE GoneOK'
      OBVIOUS
    <2>1. CASE UNCHANGED allVars
      BY <2>1, NextGoneApp DEF allVars
    <2>2. ASSUME NEW r \in Requests, ResultExpires(r) \/ TempExpires(r) PROVE GoneOK'
      BY <2>2 DEF ResultExpires, TempExpires, GoneOK, Gone, vars, handlerVars, storeVars,
                  resultVars, tempVars, cronVars
    <2>3. QED
      BY <2>1, <2>2, NextGoneApp, NextGoneCron DEF MediaNext
  <1>3. GoneOK => CleanedMeansGone
    BY DEF GoneOK, Gone, CleanedMeansGone
  <1>4. QED
    BY <1>1, <1>2, <1>3, MediaInvariant, PTL DEF MediaSpec

-----------------------------------------------------------------------------
(* Refinement: rows and public links, with two processes at work.          *)

(* No handler touches the directory of a done job while nothing fails. *)
LEMMA DoneKeepsDir ==
    ASSUME MaxFaults = 0, TypeOK, NEW r \in Requests, Course(r), Act(r), status[r] = "done"
    PROVE  dir'[r] = dir[r]
  <1> USE DEF TypeOK, Course, Underway, Runs, storeVars, resultVars
  <1>1. ~(EnsureResultDir(r) \/ SavePayload(r) \/ RemoveResultDir(r) \/ StoreFault(r))
    BY IngestAssumption DEF EnsureResultDir, SavePayload, RemoveResultDir, StoreFault
  <1>2. CASE \/ Arrive(r) \/ Refuse(r) \/ Enter(r) \/ Queue(r) \/ Wake(r) \/ RejectSlot(r)
             \/ CreatePending(r) \/ CheckContentType(r) \/ ReadUpload(r)
    BY <1>2 DEF Arrive, Refuse, Enter, Queue, Wake, RejectSlot, CreatePending,
                CheckContentType, ReadUpload
  <1>3. CASE \/ OpenTempFile(r) \/ RegisterTemp(r) \/ ProviderEnds(r) \/ SetResult(r)
             \/ RegisterResult(r) \/ SetFailure(r) \/ MarkTemp(r) \/ RemoveTemp(r)
    BY <1>3 DEF OpenTempFile, RegisterTemp, ProviderEnds, SetResult, RegisterResult,
                SetFailure, MarkTemp, RemoveTemp
  <1>4. QED
    BY <1>1, <1>2, <1>3 DEF Act, Step

(* So a link follows its row, and a job that becomes done is served. *)
LEMMA LinksFollowRows ==
    ASSUME MaxFaults = 0, MediaInv, MediaInv', [Next]_vars, UNCHANGED mediaVars,
           NEW q \in Requests
    PROVE  /\ status'[q] = status[q] => Link(q)' = Link(q)
           /\ status[q] = "pending" /\ status'[q] = "done" => Link(q)' = "available"
           /\ status[q] # "done" => Link(q) = "not_found"
           /\ status'[q] # "done" => Link(q)' = "not_found"
  <1>1. Course(q) /\ Course(q)' /\ TypeOK
    BY DEF MediaInv, MediaTypeOK, JobsOK
  <1>2. status[q] = "done" => dir'[q] = dir[q]
    <2>1. ASSUME NEW r \in Requests, Act(r), status[q] = "done" PROVE dir'[q] = dir[q]
      BY <1>1, <2>1, DoneKeepsDir, OthersUntouched DEF Untouched
    <2>2. Crash \/ UNCHANGED vars => UNCHANGED dir
      BY DEF Crash, vars, storeVars, resultVars
    <2>3. QED
      BY <2>1, <2>2 DEF Next, Act
  <1>3. status[q] = "pending" /\ status'[q] = "done" => dir'[q] = "payload"
    BY <1>1 DEF Course, mediaVars, expiryVars
  <1>4. QED
    BY <1>2, <1>3 DEF Link

(* While no operation of a store fails, handlers and cron script together  *)
(* implement JobLifecycle, crashes of either included.                     *)
THEOREM MediaRefinement ==
    ASSUME MaxFaults = 0
    PROVE  MediaSpec => ImplementsLifecycle
  <1>1. MediaInit => Lifecycle!Init
    BY DEF MediaInit, Init, Lifecycle!Init, Link
  <1>2. MediaInv /\ MediaInv' /\ [MediaNext]_allVars => [Lifecycle!Next]_(Lifecycle!vars)
    <2> SUFFICES ASSUME MediaInv, MediaInv', [MediaNext]_allVars
                 PROVE  [Lifecycle!Next]_(Lifecycle!vars)
      OBVIOUS
    <2>1. [r \in Requests |-> Link(r)]' = [r \in Requests |-> Link(r)']
      OBVIOUS
    <2>2. ASSUME [Next]_vars, UNCHANGED mediaVars
          PROVE  [Lifecycle!Next]_(Lifecycle!vars)
      <3>1. RowsInStep
        BY DEF MediaInv, JobsOK, Course, Underway, RowsInStep
      <3>2. ASSUME UNCHANGED status PROVE UNCHANGED Lifecycle!vars
        BY <2>1, <2>2, <3>2, LinksFollowRows DEF Lifecycle!vars
      <3>3. ASSUME NEW r \in Requests, status[r] = "none",
                   status' = [status EXCEPT ![r] = "pending"]
            PROVE  Lifecycle!Open(r)
        <4>1. \A q \in Requests : Link(q)' = Link(q)
          <5> SUFFICES ASSUME NEW q \in Requests PROVE Link(q)' = Link(q)
            OBVIOUS
          <5>1. CASE q = r
            BY <2>2, <3>3, <5>1, LinksFollowRows DEF MediaInv, MediaTypeOK, TypeOK
          <5>2. CASE q # r
            BY <2>2, <3>3, <5>2, LinksFollowRows DEF MediaInv, MediaTypeOK, TypeOK
          <5>3. QED
            BY <5>1, <5>2
        <4>2. QED
          BY <2>1, <3>3, <4>1 DEF Lifecycle!Open
      <3>4. ASSUME NEW r \in Requests, NEW verdict \in {"done", "timeout", "failed"},
                   status[r] = "pending", status' = [status EXCEPT ![r] = verdict]
            PROVE  Lifecycle!Decide(r, verdict)
        <4>1. ASSUME NEW q \in Requests
              PROVE  Link(q)' = IF q = r /\ verdict = "done" THEN "available" ELSE Link(q)
          <5>1. CASE q = r
            <6>1. status'[q] = verdict
              BY <3>4, <5>1 DEF MediaInv, MediaTypeOK, TypeOK
            <6>2. QED
              BY <2>2, <3>4, <5>1, <6>1, LinksFollowRows
          <5>2. CASE q # r
            BY <2>2, <3>4, <5>2, LinksFollowRows DEF MediaInv, MediaTypeOK, TypeOK
          <5>3. QED
            BY <5>1, <5>2
        <4>2. [q \in Requests |-> Link(q)]' =
                 [[q \in Requests |-> Link(q)] EXCEPT ![r] =
                     IF verdict = "done" THEN "available" ELSE @]
          BY <2>1, <4>1
        <4>3. QED
          BY <3>4, <4>2 DEF Lifecycle!Decide
      <3>5. QED
        BY <2>2, <3>1, <3>2, <3>3, <3>4, RowChanges DEF Lifecycle!Next, Lifecycle!Decided
    <2>3. ASSUME UNCHANGED status, UNCHANGED dir
          PROVE  UNCHANGED Lifecycle!vars
      BY <2>3 DEF Lifecycle!vars, Link
    <2>4. CASE CronRemoveResult
      <3>1. PICK r \in cronTodo : \E kept \in Remains(dir[r]) :
               dir' = [dir EXCEPT ![r] = kept] /\ CountSwallowed(kept)
        BY <2>4 DEF CronRemoveResult
      <3>2. /\ r \in Requests /\ status[r] = "done"
            /\ dir' = [dir EXCEPT ![r] = "absent"] /\ UNCHANGED status
        BY <2>4, <3>1, RemainsFacts
           DEF CronRemoveResult, MediaInv, MediaTypeOK, CronOK, JobsOK, Course, appVars, jobVars
      <3>3. ASSUME NEW q \in Requests PROVE Link(q)' = IF q = r THEN "expired" ELSE Link(q)
        BY <3>2 DEF Link, MediaInv, MediaTypeOK, TypeOK
      <3>4. CASE Link(r) = "available"
        <4>1. [q \in Requests |-> Link(q)]' =
                 [[q \in Requests |-> Link(q)] EXCEPT ![r] = "expired"]
          BY <2>1, <3>3
        <4>2. Lifecycle!Withdraw(r)
          BY <3>2, <3>4, <4>1 DEF Lifecycle!Withdraw
        <4>3. QED
          BY <3>2, <4>2 DEF Lifecycle!Next
      <3>5. CASE Link(r) # "available"
        <4>1. Link(r) = "expired"
          BY <3>2, <3>5 DEF Link
        <4>2. QED
          BY <2>1, <3>2, <3>3, <4>1 DEF Lifecycle!vars
      <3>6. QED
        BY <3>4, <3>5
    <2>5. ASSUME \/ \E r \in Requests : ResultExpires(r) \/ TempExpires(r)
                 \/ CronStart \/ CronMarkResult \/ CronListTemp \/ CronRemoveTemp
                 \/ CronMarkTemp \/ CronEnds \/ CronDies
          PROVE  UNCHANGED status /\ UNCHANGED dir
      BY <2>5 DEF ResultExpires, TempExpires, CronStart, CronMarkResult, CronListTemp,
                  CronRemoveTemp, CronMarkTemp, CronEnds, CronDies, vars, appVars, storeVars,
                  jobVars, resultVars
    <2>6. UNCHANGED allVars => [Next]_vars /\ UNCHANGED mediaVars
      BY DEF allVars
    <2>7. QED
      BY <2>2, <2>3, <2>4, <2>5, <2>6 DEF MediaNext, CronStep
  <1>3. QED
    BY <1>1, <1>2, MediaInvariant, PTL DEF MediaSpec, ImplementsLifecycle, Lifecycle!Spec

-----------------------------------------------------------------------------
(* The cron script and the leases write no row of job_history: the order   *)
(* of JobRecords survives them, too.                                       *)
THEOREM MediaRecordsRefined == MediaSpec => ImplementsRecords
  <1>1. MediaInit => WrittenOK /\ Records!Init
    BY InitWritten DEF MediaInit
  <1>2. MediaInv /\ WrittenOK /\ [MediaNext]_allVars
            => WrittenOK' /\ [Records!Next]_(Records!vars)
    <2> SUFFICES ASSUME MediaInv, WrittenOK, [MediaNext]_allVars
                 PROVE  WrittenOK' /\ [Records!Next]_(Records!vars)
      OBVIOUS
    <2>1. CASE [Next]_vars
      BY <2>1, NextWritten DEF MediaInv, MediaTypeOK
    <2>2. CASE CronStep \/ CronDies \/ \E r \in Requests : ResultExpires(r) \/ TempExpires(r)
      <3>1. UNCHANGED <<at, outcome, jobVars>>
        BY <2>2 DEF CronStep, CronStart, CronRemoveResult, CronMarkResult, CronListTemp,
                    CronRemoveTemp, CronMarkTemp, CronEnds, CronDies, ResultExpires,
                    TempExpires, appVars, vars, handlerVars, storeVars
      <3>2. QED
        BY <3>1 DEF WrittenOK, Written, RowIs, jobVars, Records!vars
    <2>3. QED
      BY <2>1, <2>2 DEF MediaNext, allVars
  <1>3. QED
    BY <1>1, <1>2, MediaInvariant, PTL DEF MediaSpec, ImplementsRecords, Records!Spec
=============================================================================
