------------------------------ MODULE JobStats ------------------------------
(***************************************************************************)
(* Statistics over job_history: GET /api/stats/overview and GET            *)
(* /api/stats/slots, and the totals that GET /metrics exports (module      *)
(* Metrics has the rest of a scrape).                                      *)
(*                                                                         *)
(* The two reports run on a thread of the pool and count with one SELECT   *)
(* after another, each seeing what is committed by then, while the event   *)
(* loop opens and decides jobs.                                            *)
(*                                                                         *)
(* Left out: jobs_total, last_success_at and last_error_reason, single     *)
(* numbers that are compared with nothing.                                 *)
(***************************************************************************)
EXTENDS Naturals, SequencesExt

CONSTANTS
    Jobs,
    SlotOf,         \* the slot of a job
    SlotList,       \* the slots, each once, in the order of their ids
    All,            \* in a statement: the jobs of every slot
    Window,         \* the window of a report or a scrape, in ticks
    FailureLimit,   \* how many failures recent_failures lists
    MaxReports,     \* bound on the reports made
    MaxClock        \* bound on the clock

Slots == {SlotList[i] : i \in DOMAIN SlotList}

ASSUME StatsAssumption ==
    /\ IsFiniteSet(Jobs)
    /\ SlotList \in Seq(Slots)
    /\ \A i, j \in DOMAIN SlotList : SlotList[i] = SlotList[j] => i = j
    /\ SlotOf \in [Jobs -> Slots]
    /\ All \notin Slots
    /\ {Window, FailureLimit} \subseteq Nat \ {0}
    /\ {MaxReports, MaxClock} \subseteq Nat

VARIABLES
    clock,
    row,        \* job_history
    kind,       \* the report being made or made last
    began,      \* when it started
    known,      \* history: the jobs whose rows existed then
    step,       \* how many of its statements it has executed
    num,        \* what they returned
    reports,    \* how many reports were started
    undone      \* history: the provider's verdict taken back from a job since then

reportVars == <<kind, began, known, step, num, reports>>
vars == <<clock, row, reportVars, undone>>

Time == 0..(MaxClock + 1)
Row == [status : {"none", "pending", "done", "timeout", "failed"},
        reason : {"none", "provider_timeout", "provider_error", "internal_error"},
        started : Time,
        completed : Time]   \* 0 for None
NoRow == [status |-> "none", reason |-> "none", started |-> 0, completed |-> 0]

ProviderReasons == {"provider_timeout", "provider_error"}

Counts == {"jobs", "timeouts", "errors", "success"}
Statement == ((Slots \cup {All}) \X Counts) \cup {<<All, "failures">>}

-----------------------------------------------------------------------------
(* The statements of the two reports, in their order.                      *)

SystemMetrics == <<<<All, "jobs">>, <<All, "timeouts">>, <<All, "errors">>>>

SlotCounts == <<"jobs", "timeouts", "errors", "success">>

(* The four counts of one slot after those of another. *)
SlotMetrics ==
    [i \in 1..(4 * Len(SlotList)) |->
        <<SlotList[((i - 1) \div 4) + 1], SlotCounts[((i - 1) % 4) + 1]>>]

(* Mistake: the slots are counted before the system. *)
OverviewSlotsFirst == SlotMetrics \o SystemMetrics

Overview == SystemMetrics \o SlotMetrics

SlotStats == SlotMetrics \o << <<All, "failures">> >>

Statements(report) ==
    CASE report = "overview" -> Overview
      [] report = "slot_stats" -> SlotStats
      [] report = "none" -> <<>>

-----------------------------------------------------------------------------
TypeOK ==
    /\ clock \in 1..(MaxClock + 1)
    /\ row \in [Jobs -> Row]
    /\ kind \in {"none", "overview", "slot_stats"}
    /\ began \in Time
    /\ known \subseteq Jobs
    /\ step \in 0..Len(Statements(kind))
    /\ num \in [Statement -> Nat]
    /\ reports \in 0..MaxReports
    /\ undone \in [Jobs -> {"none"} \cup ProviderReasons]

Init ==
    /\ clock = 1
    /\ row = [j \in Jobs |-> NoRow]
    /\ kind = "none" /\ began = 0 /\ known = {}
    /\ step = 0 /\ num = [s \in Statement |-> 0]
    /\ reports = 0
    /\ undone = [j \in Jobs |-> "none"]

Existing == {j \in Jobs : row[j].status # "none"}

-----------------------------------------------------------------------------
(* The writers of job rows.                                                *)

Tick ==
    /\ clock <= MaxClock
    /\ clock' = clock + 1
    /\ UNCHANGED <<row, reportVars, undone>>

Open(j) ==
    /\ row[j].status = "none"
    /\ row' = [row EXCEPT ![j].status = "pending", ![j].started = clock]
    /\ UNCHANGED <<clock, reportVars, undone>>

(* A template is recorded as a job that is done when it starts. *)
UploadTemplate(j) ==
    /\ row[j].status = "none"
    /\ row' = [row EXCEPT ![j].status = "done", ![j].started = clock, ![j].completed = clock]
    /\ UNCHANGED <<clock, reportVars, undone>>

SetResult(j) ==
    /\ row[j].status = "pending"
    /\ row' = [row EXCEPT ![j].status = "done", ![j].completed = clock]
    /\ UNCHANGED <<clock, reportVars, undone>>

Verdicts == {<<"timeout", "provider_timeout">>, <<"failed", "provider_error">>,
             <<"failed", "internal_error">>}

(* What a job's row said is lost to a reader of the rows. *)
TakeBack(j) ==
    undone' = [undone EXCEPT ![j] = IF row[j].reason \in ProviderReasons THEN row[j].reason ELSE @]

(* Mistake: any verdict may replace any other. *)
SetFailureTwice(j, verdict) ==
    /\ row[j].status # "none"
    /\ row' = [row EXCEPT ![j].status = verdict[1], ![j].reason = verdict[2],
                          ![j].completed = clock]
    /\ TakeBack(j)
    /\ UNCHANGED <<clock, reportVars>>

(* Mistake: the reason is written where the status belongs. *)
SetFailureAsReason(j, verdict) ==
    /\ row[j].status = "pending"
    /\ row' = [row EXCEPT ![j].status = verdict[2], ![j].completed = clock]
    /\ UNCHANGED <<clock, reportVars, undone>>

(* A job is decided while it is pending.  But what record_success or       *)
(* record_failure raises in process() after the row was written is         *)
(* recorded by the handler's last resort, over that verdict.  An upload    *)
(* that is refused is internal_error here, too: no statement looks at it.  *)
SetFailure(j, verdict) ==
    /\ \/ row[j].status = "pending"
       \/ /\ row[j].status # "none" /\ row[j].reason # "internal_error"
          /\ verdict[2] = "internal_error"
    /\ row' = [row EXCEPT ![j].status = verdict[1], ![j].reason = verdict[2],
                          ![j].completed = clock]
    /\ TakeBack(j)
    /\ UNCHANGED <<clock, reportVars>>

-----------------------------------------------------------------------------
(* The statements.  None of the times of a row is compared without         *)
(* `t >= window_start'.                                                    *)

InWindow(t, at) == t # 0 /\ t + Window >= at

Of(whom) == {j \in Existing : whom = All \/ SlotOf[j] = whom}

(* Mistake: every failure is taken for one of the provider's. *)
IsProviderErrorIfAny(j) == row[j].reason # "none"

IsProviderError(j) == row[j].reason = "provider_error"

Chosen(whom, what, at) ==
    {j \in Of(whom) :
        CASE what = "jobs" -> InWindow(row[j].started, at)
          [] what = "timeouts" -> row[j].status = "timeout" /\ InWindow(row[j].completed, at)
          [] what = "errors" -> IsProviderError(j) /\ InWindow(row[j].completed, at)
          [] what = "success" -> row[j].status = "done" /\ InWindow(row[j].completed, at)}

(* recent_failures(provider_only=True). *)
Failures(at) ==
    {j \in Existing : /\ row[j].reason \in ProviderReasons
                      /\ InWindow(row[j].completed, at)}

Result(statement) ==
    IF statement[2] = "failures"
        THEN LET found == Cardinality(Failures(began))
             IN  IF found < FailureLimit THEN found ELSE FailureLimit
        ELSE Cardinality(Chosen(statement[1], statement[2], began))

-----------------------------------------------------------------------------
(* The reports of StatsService.                                            *)

Complete == step = Len(Statements(kind))

StartReport(report) ==
    /\ Complete
    /\ reports < MaxReports
    /\ reports' = reports + 1
    /\ kind' = report
    /\ began' = clock
    /\ known' = Existing
    /\ step' = 0
    /\ num' = [s \in Statement |-> 0]
    /\ undone' = [j \in Jobs |-> "none"]
    /\ UNCHANGED <<clock, row>>

Execute ==
    /\ ~Complete
    /\ step' = step + 1
    /\ LET statement == Statements(kind)[step']
       IN  num' = [num EXCEPT ![statement] = Result(statement)]
    /\ UNCHANGED <<clock, row, kind, began, known, reports, undone>>

-----------------------------------------------------------------------------
(* slot_totals, which a scrape exports: all time, so no window.            *)
SlotTotals(s) ==
    [c \in Counts |->
        Cardinality({j \in Of(s) :
            CASE c = "jobs" -> TRUE
              [] c = "timeouts" -> row[j].status = "timeout"
              [] c = "errors" -> row[j].reason = "provider_error"
              [] c = "success" -> row[j].status = "done"})]

WriteRow ==
    \E j \in Jobs :
        \/ Open(j) \/ UploadTemplate(j) \/ SetResult(j)
        \/ \E verdict \in Verdicts : SetFailure(j, verdict)

Report == (\E report \in {"overview", "slot_stats"} : StartReport(report)) \/ Execute

Next == Tick \/ WriteRow \/ Report

Spec == Init /\ [][Next]_vars

-----------------------------------------------------------------------------
Finished(report) == kind = report /\ Complete

(* The sum of a number for each place in the list of slots. *)
Sums(f) ==
    LET sum[i \in 0..Len(SlotList)] == IF i = 0 THEN 0 ELSE sum[i - 1] + f[i]
    IN  sum

SumOverSlots(c) ==
    Sums([i \in DOMAIN SlotList |-> num[<<SlotList[i], c>>]])[Len(SlotList)]

NothingUndone == \A j \in Jobs : undone[j] = "none"

(* Although a report counts with many statements while jobs go on, no      *)
(* number contradicts one that was counted before it: the slots of an      *)
(* overview add up to at least what the system as a whole shows, and every *)
(* failure counted for a slot is in the list that goes with the slots,     *)
(* unless the list is full.  For failures this needs that no verdict of    *)
(* the provider was taken back meanwhile; for jobs it always holds.        *)
ReportsAddUp ==
    /\ Finished("overview") =>
          /\ num[<<All, "jobs">>] <= SumOverSlots("jobs")
          /\ NothingUndone => \A c \in {"timeouts", "errors"} : num[<<All, c>>] <= SumOverSlots(c)
    /\ Finished("slot_stats") /\ NothingUndone =>
          \/ SumOverSlots("timeouts") + SumOverSlots("errors") <= num[<<All, "failures">>]
          \/ num[<<All, "failures">>] = FailureLimit

(* Every verdict a report counts for a slot belongs to a job of its own:   *)
(* one it counted as started, or one that started before the window and    *)
(* ended in it, or one whose row is younger than the report.  (The last    *)
(* two are why success_rate and timeout_rate may exceed 1.)                *)
VerdictsAreAccountedFor ==
    \A s \in Slots :
        Finished("overview") \/ Finished("slot_stats") =>
            LET uncounted == {j \in Of(s) : /\ InWindow(row[j].completed, began)
                                            /\ \/ j \notin known
                                               \/ ~InWindow(row[j].started, began)}
            IN  num[<<s, "timeouts">>] + num[<<s, "errors">>] + num[<<s, "success">>]
                    <= num[<<s, "jobs">>] + Cardinality(uncounted)

(* From one scrape to any later one, the exported number of jobs never     *)
(* falls, and the counters of their outcomes fall by no more than the      *)
(* verdicts that were taken back by the handler's last resort.             *)
CountersFallOnlyByCorrection ==
    [][\A s \in Slots :
          LET corrected == {j \in Of(s) : /\ row[j].status # "pending"
                                          /\ row[j].reason # "internal_error"
                                          /\ row'[j].reason = "internal_error"}
          IN  /\ SlotTotals(s)["jobs"] <= SlotTotals(s)'["jobs"]
              /\ \A c \in Counts :
                    SlotTotals(s)[c] <= SlotTotals(s)'[c] + Cardinality(corrected)]_vars

(* The writers of job rows assumed here do nothing that JobRecords, the    *)
(* rule Ingest keeps to, does not allow.  (That they may do all that the   *)
(* writers of Ingest do is read off the code, not shown here.)             *)
Records == INSTANCE JobRecords WITH
    status <- [j \in Jobs |-> row[j].status],
    reason <- [j \in Jobs |-> IF row[j].reason = "none" THEN "null" ELSE row[j].reason]

RowsFollowRecords == Records!Spec
=============================================================================
