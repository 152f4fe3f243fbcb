----------------------------- MODULE StatsProofs -----------------------------
(***************************************************************************)
(* Machine-checked theorems about JobStats and Metrics, for every set of   *)
(* jobs and list of slots: what is exported as a counter or as a           *)
(* histogram, and the two reports, whose statements see a table that       *)
(* changes in between.                                                     *)
(***************************************************************************)
EXTENDS Metrics, SequenceTheorems, FiniteSetTheorems, WellFoundedInduction, TLAPS

(* A row has a reason only once its job has failed.                        *)
RowsOK ==
    /\ row \in [Jobs -> Row]
    /\ \A j \in Jobs :
          /\ row[j].reason = "provider_error" => row[j].status = "failed"
          /\ row[j].status = "timeout" => row[j].reason = "provider_timeout"
          /\ row[j].status \in {"none", "pending", "done"} => row[j].reason = "none"
          /\ row[j].status = "failed" => row[j].reason \in {"provider_error", "internal_error"}

(* What a statement of slot_totals counts. *)
Counted(s, c) ==
    {j \in Of(s) : CASE c = "jobs" -> TRUE
                     [] c = "timeouts" -> row[j].status = "timeout"
                     [] c = "errors" -> row[j].reason = "provider_error"
                     [] c = "success" -> row[j].status = "done"}

(* The step takes the verdict of job j back. *)
Corrected(j) ==
    /\ row[j].status # "pending"
    /\ row[j].reason # "internal_error"
    /\ row'[j].reason = "internal_error"

-----------------------------------------------------------------------------
LEMMA RowStep ==
    ASSUME RowsOK, clock \in 1..(MaxClock + 1), [Next]_vars
    PROVE  /\ clock' \in 1..(MaxClock + 1)
           /\ RowsOK'
           /\ \A j \in Jobs :
                 /\ row[j].status # "none" => row'[j].status # "none"
                 /\ \/ row[j].status \in {"none", "pending"}
                    \/ row'[j] = row[j]
                    \/ Corrected(j)
  <1> USE StatsAssumption DEF RowsOK
  <1>1. ASSUME UNCHANGED row, UNCHANGED clock \/ Tick
        PROVE  /\ clock' \in 1..(MaxClock + 1)
               /\ RowsOK'
               /\ \A j \in Jobs : row'[j] = row[j]
    BY <1>1 DEF Tick
  <1>2. ASSUME NEW j \in Jobs, Open(j) \/ UploadTemplate(j) \/ SetResult(j)
        PROVE  /\ clock' = clock
               /\ RowsOK'
               /\ row[j].status \in {"none", "pending"} /\ row'[j].status # "none"
               /\ \A k \in Jobs : k # j => row'[k] = row[k]
    <2>1. row[j] \in Row /\ clock \in Time
      BY DEF Time
    <2>2. CASE Open(j)
      <3>1. row'[j] = [row[j] EXCEPT !.status = "pending", !.started = clock]
        BY <2>2 DEF Open
      <3>2. row'[j] \in Row /\ row'[j].status = "pending" /\ row'[j].reason = row[j].reason
        BY <2>1, <3>1 DEF Row
      <3>3. QED
        BY <2>1, <2>2, <3>2 DEF Open
    <2>3. CASE UploadTemplate(j)
      <3>1. row'[j] = [row[j] EXCEPT !.status = "done", !.started = clock, !.completed = clock]
        BY <2>3 DEF UploadTemplate
      <3>2. row'[j] \in Row /\ row'[j].status = "done" /\ row'[j].reason = row[j].reason
        BY <2>1, <3>1 DEF Row
      <3>3. QED
        BY <2>1, <2>3, <3>2 DEF UploadTemplate
    <2>4. CASE SetResult(j)
      <3>1. row'[j] = [row[j] EXCEPT !.status = "done", !.completed = clock]
        BY <2>4 DEF SetResult
      <3>2. row'[j] \in Row /\ row'[j].status = "done" /\ row'[j].reason = row[j].reason
        BY <2>1, <3>1 DEF Row
      <3>3. QED
        BY <2>1, <2>4, <3>2 DEF SetResult
    <2>5. QED
      BY <1>2, <2>2, <2>3, <2>4
  <1>3. ASSUME NEW j \in Jobs, NEW verdict \in Verdicts, SetFailure(j, verdict)
        PROVE  /\ clock' = clock
               /\ RowsOK'
               /\ row[j].status = "pending" \/ Corrected(j)
               /\ row'[j].status # "none"
               /\ \A k \in Jobs : k # j => row'[k] = row[k]
    <2>1. row[j] \in Row /\ clock \in Time
      BY DEF Time
    <2>2. /\ verdict[1] \in {"timeout", "failed"}
          /\ verdict[2] \in {"provider_timeout", "provider_error", "internal_error"}
          /\ verdict[2] = "provider_error" => verdict[1] = "failed"
          /\ verdict[1] = "timeout" => verdict[2] = "provider_timeout"
          /\ verdict[1] = "failed" => verdict[2] \in {"provider_error", "internal_error"}
      BY DEF Verdicts
    <2>3. row'[j] = [row[j] EXCEPT !.status = verdict[1], !.reason = verdict[2],
                                   !.completed = clock]
      BY <1>3 DEF SetFailure
    <2>4. row'[j] \in Row /\ row'[j].status = verdict[1] /\ row'[j].reason = verdict[2]
      BY <2>1, <2>2, <2>3 DEF Row
    <2>5. row' \in [Jobs -> Row] /\ \A k \in Jobs : k # j => row'[k] = row[k]
      BY <1>3, <2>4 DEF SetFailure
    <2>6. row[j].status = "pending" \/ Corrected(j)
      BY <1>3, <2>4 DEF SetFailure, Corrected
    <2>7. QED
      BY <1>3, <2>2, <2>4, <2>5, <2>6 DEF SetFailure
  <1>4. (\E report \in {"overview", "slot_stats"} : StartReport(report)) \/ Execute
        \/ UNCHANGED vars => UNCHANGED row /\ UNCHANGED clock
    BY DEF StartReport, Execute, vars
  <1>5. Tick => UNCHANGED row
    BY DEF Tick
  <1>6. QED
    BY <1>1, <1>2, <1>3, <1>4, <1>5 DEF Next, WriteRow, Report

(* From one scrape to any later one the counter of requests never falls,   *)
(* and those of outcomes fall by the verdicts taken back at most.          *)
THEOREM CountersFall == Spec => CountersFallOnlyByCorrection
  <1> DEFINE Inv == RowsOK /\ clock \in 1..(MaxClock + 1)
             corrected(s) == {j \in Of(s) : Corrected(j)}
  <1>1. Init => Inv
    BY StatsAssumption DEF Init, RowsOK, Row, NoRow, Time
  <1>2. Inv /\ [Next]_vars => Inv'
    BY RowStep
  <1>3. Inv /\ [Next]_vars =>
           [\A s \in Slots :
               /\ SlotTotals(s)["jobs"] <= SlotTotals(s)'["jobs"]
               /\ \A c \in Counts :
                     SlotTotals(s)[c] <= SlotTotals(s)'[c] + Cardinality(corrected(s))]_vars
    <2> SUFFICES ASSUME Inv, [Next]_vars, NEW s \in Slots
                 PROVE  /\ SlotTotals(s)["jobs"] <= SlotTotals(s)'["jobs"]
                        /\ \A c \in Counts :
                              SlotTotals(s)[c] <= SlotTotals(s)'[c] + Cardinality(corrected(s))
      OBVIOUS
    <2>1. \A d \in Counts : /\ SlotTotals(s)[d] = Cardinality(Counted(s, d))
                            /\ SlotTotals(s)'[d] = Cardinality(Counted(s, d)')
      BY DEF SlotTotals, Counted
    <2>2. Of(s) \subseteq Of(s)' /\ Of(s) \subseteq Jobs /\ Of(s)' \subseteq Jobs
      BY RowStep DEF Of, Existing
    <2>3. \A d \in Counts : /\ IsFiniteSet(Counted(s, d)) /\ IsFiniteSet(Counted(s, d)')
      <3>1. \A d : Counted(s, d) \subseteq Jobs /\ Counted(s, d)' \subseteq Jobs
        BY <2>2 DEF Counted
      <3>2. QED
        BY <3>1, StatsAssumption, FS_Subset
    <2>4. IsFiniteSet(corrected(s)) /\ Cardinality(corrected(s)) \in Nat
      <3>1. corrected(s) \subseteq Jobs
        BY <2>2
      <3>2. QED
        BY <3>1, StatsAssumption, FS_Subset, FS_CardinalityType
    <2>5. SlotTotals(s)["jobs"] <= SlotTotals(s)'["jobs"]
      <3>1. Counted(s, "jobs") \subseteq Counted(s, "jobs")'
        BY <2>2 DEF Counted
      <3>2. "jobs" \in Counts
        BY DEF Counts
      <3>3. Cardinality(Counted(s, "jobs")) <= Cardinality(Counted(s, "jobs")')
        BY <2>3, <3>1, <3>2, FS_Subset
      <3>4. QED
        BY <2>1, <3>2, <3>3
    <2>6. ASSUME NEW c \in Counts
          PROVE  SlotTotals(s)[c] <= SlotTotals(s)'[c] + Cardinality(corrected(s))
      <3> DEFINE old == Counted(s, c)
                 new == Counted(s, c)'
                 gone == corrected(s)
      <3>1. old \subseteq new \cup gone
        <4> SUFFICES ASSUME NEW j \in old, j \notin new PROVE j \in gone
          OBVIOUS
        <4>1. j \in Of(s) /\ j \in Of(s)' /\ j \in Jobs /\ row[j].status # "none"
          BY <2>2 DEF Counted, Of, Existing
        <4>2. row[j].status # "pending" \/ c = "jobs"
          <5>1. row[j].status = "pending" => row[j].reason = "none"
            BY <4>1 DEF RowsOK
          <5>2. \/ c = "jobs"
                \/ c = "timeouts" /\ row[j].status = "timeout"
                \/ c = "errors" /\ row[j].reason = "provider_error"
                \/ c = "success" /\ row[j].status = "done"
            BY DEF Counted, Counts
          <5>3. QED
            BY <5>1, <5>2
        <4>3. row'[j] = row[j] \/ Corrected(j) \/ c = "jobs"
          BY <4>1, <4>2, RowStep
        <4>4. row'[j] = row[j] \/ c = "jobs" => j \in new
          BY <4>1 DEF Counted, Counts
        <4>5. QED
          BY <4>1, <4>3, <4>4
      <3>2. IsFiniteSet(old) /\ IsFiniteSet(new) /\ IsFiniteSet(gone)
        BY <2>3, <2>4
      <3>3. SlotTotals(s)[c] = Cardinality(old) /\ SlotTotals(s)'[c] = Cardinality(new)
        BY <2>1
      <3> HIDE DEF old, new, gone, corrected
      <3>4. IsFiniteSet(new \cap gone)
        BY <3>2, FS_Subset
      <3>5. /\ IsFiniteSet(new \cup gone)
            /\ Cardinality(new \cup gone)
                  = Cardinality(new) + Cardinality(gone) - Cardinality(new \cap gone)
        BY <3>2, FS_Union
      <3>6. Cardinality(old) <= Cardinality(new \cup gone)
        BY <3>1, <3>5, FS_Subset
      <3>7. /\ Cardinality(old) \in Nat /\ Cardinality(new) \in Nat /\ Cardinality(gone) \in Nat
            /\ Cardinality(new \cap gone) \in Nat /\ Cardinality(new \cup gone) \in Nat
        BY <3>2, <3>4, <3>5, FS_CardinalityType
      <3>8. Cardinality(old) <= Cardinality(new) + Cardinality(gone)
        BY <3>5, <3>6, <3>7
      <3>9. QED
        BY <3>3, <3>8 DEF gone
    <2>7. QED
      BY <2>5, <2>6
  <1>4. QED
    BY <1>1, <1>2, <1>3, PTL DEF Spec, CountersFallOnlyByCorrection, Corrected

-----------------------------------------------------------------------------
(* What JobRecords is told of a row. *)
Told(r) == IF r.reason = "none" THEN "null" ELSE r.reason

LEMMA OneRowWritten ==
    ASSUME RowsOK, NEW j \in Jobs, NEW new \in Row, row' = [row EXCEPT ![j] = new],
           NEW verdict, NEW why, verdict = new.status, why = Told(new)
    PROVE  Records!Write(j, <<verdict, why>>)
  <1> DEFINE status == [i \in Jobs |-> row[i].status]
             reason == [i \in Jobs |-> Told(row[i])]
  <1>1. row'[j] = new /\ \A i \in Jobs : i # j => row'[i] = row[i]
    BY DEF RowsOK
  <1>2. [i \in Jobs |-> row'[i].status] = [status EXCEPT ![j] = verdict]
    <2>1. \A i \in Jobs : row'[i].status = IF i = j THEN verdict ELSE row[i].status
      BY <1>1
    <2>2. QED
      BY <2>1
  <1>3. [i \in Jobs |-> Told(row'[i])] = [reason EXCEPT ![j] = why]
    <2>1. \A i \in Jobs : Told(row'[i]) = IF i = j THEN why ELSE Told(row[i])
      BY <1>1
    <2>2. QED
      BY <2>1
  <1>4. QED
    BY <1>2, <1>3 DEF Records!Write, Told

LEMMA RecordStep ==
    ASSUME RowsOK, clock \in 1..(MaxClock + 1), [Next]_vars
    PROVE  [Records!Next]_(Records!vars)
  <1>1. clock \in Time /\ row \in [Jobs -> Row] /\ \A j \in Jobs : row[j] \in Row
    BY StatsAssumption DEF RowsOK, Time
  <1>2. UNCHANGED row => UNCHANGED Records!vars
    BY DEF Records!vars
  <1>3. ASSUME NEW j \in Jobs, Open(j) \/ UploadTemplate(j)
        PROVE  Records!Create(j)
    <2>1. row[j].status = "none" /\ row[j].reason = "none"
      BY <1>3 DEF Open, UploadTemplate, RowsOK
    <2>2. CASE Open(j)
      <3> DEFINE new == [row[j] EXCEPT !.status = "pending", !.started = clock]
      <3>1. row' = [row EXCEPT ![j] = new]
        BY <1>1, <2>2 DEF Open
      <3>2. new \in Row /\ new.status = "pending" /\ new.reason = "none"
        BY <1>1, <2>1 DEF Row
      <3> HIDE DEF new
      <3>3. Told(new) = "null"
        BY <3>2 DEF Told
      <3>4. Records!Write(j, <<"pending", "null">>)
        BY <3>1, <3>2, <3>3, OneRowWritten
      <3>5. QED
        BY <2>1, <3>4 DEF Records!Create
    <2>3. CASE UploadTemplate(j)
      <3> DEFINE new == [row[j] EXCEPT !.status = "done", !.started = clock, !.completed = clock]
      <3>1. row' = [row EXCEPT ![j] = new]
        BY <1>1, <2>3 DEF UploadTemplate
      <3>2. new \in Row /\ new.status = "done" /\ new.reason = "none"
        BY <1>1, <2>1 DEF Row
      <3> HIDE DEF new
      <3>3. Told(new) = "null"
        BY <3>2 DEF Told
      <3>4. Records!Write(j, <<"done", "null">>)
        BY <3>1, <3>2, <3>3, OneRowWritten
      <3>5. QED
        BY <2>1, <3>4 DEF Records!Create
    <2>4. QED
      BY <1>3, <2>2, <2>3
  <1>4. ASSUME NEW j \in Jobs, SetResult(j)
        PROVE  Records!Decide(j)
    <2> DEFINE new == [row[j] EXCEPT !.status = "done", !.completed = clock]
    <2>1. row[j].status = "pending" /\ row[j].reason = "none"
      BY <1>4 DEF SetResult, RowsOK
    <2>2. row' = [row EXCEPT ![j] = new]
      BY <1>1, <1>4 DEF SetResult
    <2>3. new \in Row /\ new.status = "done" /\ new.reason = "none"
      BY <1>1, <2>1 DEF Row
    <2> HIDE DEF new
    <2>4. Told(new) = "null"
      BY <2>3 DEF Told
    <2>5. Records!Write(j, <<"done", "null">>)
      BY <2>2, <2>3, <2>4, OneRowWritten
    <2>6. QED
      BY <2>1, <2>5 DEF Records!Decide, Records!ProviderVerdicts
  <1>5. ASSUME NEW j \in Jobs, NEW verdict \in Verdicts, SetFailure(j, verdict)
        PROVE  Records!Decide(j) \/ Records!TakeBack(j)
    <2> DEFINE new == [row[j] EXCEPT !.status = verdict[1], !.reason = verdict[2],
                                     !.completed = clock]
    <2>1. /\ \/ row[j].status = "pending"
             \/ /\ row[j].status # "none" /\ row[j].reason # "internal_error"
                /\ verdict[2] = "internal_error"
          /\ row' = [row EXCEPT ![j].status = verdict[1], ![j].reason = verdict[2],
                                ![j].completed = clock]
      BY <1>5, Zenon DEF SetFailure
    <2>2. row' = [row EXCEPT ![j] = new]
      BY <1>1, <2>1
    <2>3. \/ verdict = <<"timeout", "provider_timeout">>
          \/ verdict = <<"failed", "provider_error">>
          \/ verdict = <<"failed", "internal_error">>
      BY DEF Verdicts
    <2>4. new \in Row /\ new.status = verdict[1] /\ new.reason = verdict[2]
      <3>1. /\ verdict[1] \in {"timeout", "failed"}
            /\ verdict[2] \in {"provider_timeout", "provider_error", "internal_error"}
        BY <2>3
      <3>2. QED
        BY <1>1, <3>1 DEF Row
    <2> HIDE DEF new
    <2>5. Told(new) = verdict[2] /\ verdict = <<verdict[1], verdict[2]>>
      BY <2>3, <2>4 DEF Told
    <2>6. Records!Write(j, verdict)
      <3>1. Records!Write(j, <<verdict[1], verdict[2]>>)
        BY <2>2, <2>4, <2>5, OneRowWritten
      <3>2. QED
        BY <2>5, <3>1
    <2>7. CASE row[j].status = "pending"
      <3>1. verdict \in Records!ProviderVerdicts \cup Records!OwnVerdicts
        BY <2>3 DEF Records!ProviderVerdicts, Records!OwnVerdicts
      <3>2. QED
        BY <2>6, <2>7, <3>1 DEF Records!Decide
    <2>8. CASE row[j].status # "pending"
      <3>1. row[j].status # "none" /\ row[j].reason # "internal_error"
            /\ verdict = <<"failed", "internal_error">>
        BY <2>1, <2>3, <2>8
      <3>2. <<row[j].status, Told(row[j])>> \in Records!ProviderVerdicts
        BY <1>1, <2>8, <3>1 DEF RowsOK, Row, Told, Records!ProviderVerdicts
      <3>3. QED
        BY <2>6, <3>1, <3>2 DEF Records!TakeBack, Told
    <2>9. QED
      BY <2>7, <2>8
  <1>6. (\E report \in {"overview", "slot_stats"} : StartReport(report)) \/ Execute \/ Tick
        \/ UNCHANGED vars => UNCHANGED row
    BY DEF StartReport, Execute, Tick, vars
  <1>7. QED
    BY <1>2, <1>3, <1>4, <1>5, <1>6 DEF Next, WriteRow, Report, Records!Next

(* The rows counted here behave as those of the ingest path do.            *)
THEOREM RowsRecorded == Spec => RowsFollowRecords
  <1> DEFINE Inv == RowsOK /\ clock \in 1..(MaxClock + 1)
  <1>1. Init => Inv /\ Records!Init
    BY StatsAssumption DEF Init, RowsOK, Row, NoRow, Time, Records!Init
  <1>2. Inv /\ [Next]_vars => Inv' /\ [Records!Next]_(Records!vars)
    BY RowStep, RecordStep
  <1>3. QED
    BY <1>1, <1>2, PTL DEF Spec, RowsFollowRecords, Records!Spec

-----------------------------------------------------------------------------
(* Where each statement stands in its report.                              *)

(* The position of the q-th count of the i-th slot among those of slots. *)
Place(i, q) == 4 * (i - 1) + q

LEMMA SlotListIs ==
    /\ Len(SlotList) \in Nat /\ DOMAIN SlotList = 1..Len(SlotList)
    /\ \A i \in 1..Len(SlotList) : SlotList[i] \in Slots
    /\ \A s \in Slots : \E i \in 1..Len(SlotList) : s = SlotList[i]
    /\ \A i, j \in 1..Len(SlotList) : SlotList[i] = SlotList[j] => i = j
  <1>1. SlotList \in Seq(Slots)
    BY StatsAssumption
  <1>2. Len(SlotList) \in Nat /\ DOMAIN SlotList = 1..Len(SlotList)
    BY <1>1, LenProperties
  <1>3. QED
    BY <1>2, StatsAssumption DEF Slots

LEMMA PlacesOfSlots ==
    ASSUME NEW m \in 1..(4 * Len(SlotList))
    PROVE  \E i \in 1..Len(SlotList), q \in 1..4 :
              /\ m = Place(i, q)
              /\ SlotMetrics[m] = <<SlotList[i], SlotCounts[q]>>
  <1> DEFINE i == ((m - 1) \div 4) + 1
             q == ((m - 1) % 4) + 1
  <1>1. Len(SlotList) \in Nat
    BY SlotListIs
  <1>2. i \in 1..Len(SlotList) /\ q \in 1..4 /\ m = Place(i, q)
    BY <1>1 DEF Place
  <1>3. SlotMetrics[m] = <<SlotList[i], SlotCounts[q]>>
    BY DEF SlotMetrics
  <1>4. QED
    BY <1>2, <1>3

LEMMA PlacesDiffer ==
    ASSUME NEW i \in Nat, NEW j \in Nat, NEW q \in 1..4, NEW r \in 1..4, Place(i, q) = Place(j, r)
    PROVE  i = j /\ q = r
  BY DEF Place

LEMMA PlaceOfSlot ==
    ASSUME NEW i \in 1..Len(SlotList), NEW q \in 1..4
    PROVE  /\ Place(i, q) \in 1..(4 * Len(SlotList))
           /\ SlotMetrics[Place(i, q)] = <<SlotList[i], SlotCounts[q]>>
  <1>1. Len(SlotList) \in Nat
    BY SlotListIs
  <1>2. Place(i, q) \in 1..(4 * Len(SlotList))
    BY <1>1 DEF Place
  <1>3. PICK j \in 1..Len(SlotList), r \in 1..4 :
            /\ Place(i, q) = Place(j, r)
            /\ SlotMetrics[Place(i, q)] = <<SlotList[j], SlotCounts[r]>>
    BY <1>2, PlacesOfSlots
  <1>4. i = j /\ q = r
    BY <1>1, <1>3, PlacesDiffer
  <1>5. QED
    BY <1>2, <1>3, <1>4

(* How many statements come before those of slots. *)
Ahead(report) == IF report = "overview" THEN 3 ELSE 0

LEMMA CountsAre ==
    /\ SlotCounts[1] = "jobs" /\ SlotCounts[2] = "timeouts"
    /\ SlotCounts[3] = "errors" /\ SlotCounts[4] = "success"
    /\ \A q \in 1..4 : SlotCounts[q] \in Counts
    /\ \A q, r \in 1..4 : SlotCounts[q] = SlotCounts[r] => q = r
  <1>1. /\ SlotCounts[1] = "jobs" /\ SlotCounts[2] = "timeouts"
        /\ SlotCounts[3] = "errors" /\ SlotCounts[4] = "success"
    BY DEF SlotCounts
  <1>2. \A q \in 1..4 : q = 1 \/ q = 2 \/ q = 3 \/ q = 4
    OBVIOUS
  <1>3. QED
    BY <1>1, <1>2 DEF Counts

LEMMA MetricsAreSeqs ==
    /\ SlotMetrics \in Seq(Statement)
    /\ Len(SlotMetrics) = 4 * Len(SlotList)
    /\ SystemMetrics \in Seq(Statement)
    /\ Len(SystemMetrics) = 3
    /\ \A q \in 1..3 : SystemMetrics[q] = <<All, SlotCounts[q]>>
    /\ << <<All, "failures">> >> \in Seq(Statement)
  <1>1. Len(SlotList) \in Nat /\ 4 * Len(SlotList) \in Nat
    BY SlotListIs
  <1>2. \A m \in 1..(4 * Len(SlotList)) : SlotMetrics[m] \in Statement
    <2> SUFFICES ASSUME NEW m \in 1..(4 * Len(SlotList)) PROVE SlotMetrics[m] \in Statement
      OBVIOUS
    <2>1. PICK i \in 1..Len(SlotList), q \in 1..4 : SlotMetrics[m] = <<SlotList[i], SlotCounts[q]>>
      BY PlacesOfSlots
    <2>2. SlotList[i] \in Slots /\ SlotCounts[q] \in Counts
      BY SlotListIs, CountsAre
    <2>3. QED
      BY <2>1, <2>2 DEF Statement
  <1>3. DOMAIN SlotMetrics = 1..(4 * Len(SlotList))
    BY DEF SlotMetrics
  <1>4. SlotMetrics \in [1..(4 * Len(SlotList)) -> Statement]
    BY <1>2 DEF SlotMetrics
  <1>5. SlotMetrics \in Seq(Statement) /\ Len(SlotMetrics) = 4 * Len(SlotList)
    <2>1. SlotMetrics \in Seq(Statement)
      BY <1>1, <1>4, SeqDef
    <2>2. QED
      BY <1>1, <1>3, <2>1, LenProperties
  <1>6. SystemMetrics \in Seq(Statement) /\ Len(SystemMetrics) = 3
    BY DEF SystemMetrics, Statement, Counts
  <1>7. \A q \in 1..3 : SystemMetrics[q] = <<All, SlotCounts[q]>>
    BY CountsAre DEF SystemMetrics
  <1>8. << <<All, "failures">> >> \in Seq(Statement)
    BY DEF Statement
  <1>9. QED
    BY <1>5, <1>6, <1>7, <1>8

LEMMA OverviewIs ==
    /\ Overview \in Seq(Statement)
    /\ Len(Overview) = 3 + 4 * Len(SlotList)
    /\ \A q \in 1..3 : Overview[q] = <<All, SlotCounts[q]>>
    /\ \A m \in 1..(4 * Len(SlotList)) : Overview[3 + m] = SlotMetrics[m]
  <1>1. /\ SlotMetrics \in Seq(Statement) /\ Len(SlotMetrics) = 4 * Len(SlotList)
        /\ SystemMetrics \in Seq(Statement) /\ Len(SystemMetrics) = 3
        /\ \A q \in 1..3 : SystemMetrics[q] = <<All, SlotCounts[q]>>
        /\ Len(SlotList) \in Nat
    BY MetricsAreSeqs, SlotListIs
  <1> DEFINE a == SystemMetrics
             b == SlotMetrics
  <1> HIDE DEF a, b
  <1>2. /\ a \o b \in Seq(Statement)
        /\ Len(a \o b) = Len(a) + Len(b)
        /\ \A m \in 1..(Len(a) + Len(b)) :
              (a \o b)[m] = IF m <= Len(a) THEN a[m] ELSE b[m - Len(a)]
    BY <1>1, ConcatProperties DEF a, b
  <1>3. Len(a) = 3 /\ Len(b) = 4 * Len(SlotList)
    BY <1>1 DEF a, b
  <1>4. \A q \in 1..3 : (a \o b)[q] = a[q]
    BY <1>1, <1>2, <1>3
  <1>5. \A m \in 1..(4 * Len(SlotList)) : (a \o b)[3 + m] = b[m]
    <2> SUFFICES ASSUME NEW m \in 1..(4 * Len(SlotList)) PROVE (a \o b)[3 + m] = b[m]
      OBVIOUS
    <2>1. 3 + m \in 1..(Len(a) + Len(b)) /\ ~(3 + m <= Len(a)) /\ (3 + m) - Len(a) = m
      BY <1>1, <1>3
    <2>2. QED
      BY <1>2, <2>1
  <1>6. Overview = a \o b
    BY DEF Overview, a, b
  <1>7. QED
    BY <1>1, <1>2, <1>3, <1>4, <1>5, <1>6 DEF a, b

LEMMA SlotStatsAre ==
    /\ SlotStats \in Seq(Statement)
    /\ Len(SlotStats) = 1 + 4 * Len(SlotList)
    /\ \A m \in 1..(4 * Len(SlotList)) : SlotStats[m] = SlotMetrics[m]
    /\ SlotStats[1 + 4 * Len(SlotList)] = <<All, "failures">>
  <1> DEFINE a == SlotMetrics
             b == << <<All, "failures">> >>
  <1>1. /\ a \in Seq(Statement) /\ Len(a) = 4 * Len(SlotList)
        /\ b \in Seq(Statement) /\ Len(b) = 1 /\ b[1] = <<All, "failures">>
        /\ Len(SlotList) \in Nat
    BY MetricsAreSeqs, SlotListIs
  <1>2. SlotStats = a \o b
    BY DEF SlotStats
  <1> HIDE DEF a, b
  <1>3. /\ a \o b \in Seq(Statement)
        /\ Len(a \o b) = Len(a) + Len(b)
        /\ \A m \in 1..(Len(a) + Len(b)) :
              (a \o b)[m] = IF m <= Len(a) THEN a[m] ELSE b[m - Len(a)]
    BY <1>1, ConcatProperties
  <1>4. \A m \in 1..(4 * Len(SlotList)) : (a \o b)[m] = a[m]
    <2> SUFFICES ASSUME NEW m \in 1..(4 * Len(SlotList)) PROVE (a \o b)[m] = a[m]
      OBVIOUS
    <2>1. m \in 1..(Len(a) + Len(b)) /\ m <= Len(a)
      BY <1>1
    <2>2. QED
      BY <1>3, <2>1
  <1>5. (a \o b)[1 + 4 * Len(SlotList)] = <<All, "failures">>
    <2> DEFINE m == 1 + 4 * Len(SlotList)
    <2>1. m \in 1..(Len(a) + Len(b)) /\ ~(m <= Len(a)) /\ m - Len(a) = 1
      BY <1>1
    <2> HIDE DEF m
    <2>2. (a \o b)[m] = b[1]
      BY <1>3, <2>1
    <2>3. QED
      BY <1>1, <2>2 DEF m
  <1>6. QED
    BY <1>1, <1>2, <1>3, <1>4, <1>5 DEF a

(* The statement that is executed next. *)
LEMMA NextStatement ==
    ASSUME TypeOK, ~Complete, NEW statement, statement = Statements(kind)[step + 1]
    PROVE  /\ statement \in Statement
           /\ step + 1 \in 1..Len(Statements(kind))
           /\ \/ /\ kind = "overview"
                 /\ \E q \in 1..3 : step + 1 = q /\ statement = <<All, SlotCounts[q]>>
              \/ /\ kind \in {"overview", "slot_stats"}
                 /\ \E i \in 1..Len(SlotList), q \in 1..4 :
                       /\ step + 1 = Ahead(kind) + Place(i, q)
                       /\ statement = <<SlotList[i], SlotCounts[q]>>
              \/ /\ kind = "slot_stats"
                 /\ step + 1 = Len(SlotStats)
                 /\ statement = <<All, "failures">>
  <1> DEFINE m == step + 1
             n == 4 * Len(SlotList)
  <1>1. Len(SlotList) \in Nat /\ n \in Nat
    BY SlotListIs
  <1>2. CASE kind = "overview"
    <2>1. Statements(kind) = Overview /\ m \in 1..(3 + n) /\ Len(Statements(kind)) = 3 + n
      BY <1>1, <1>2, OverviewIs DEF Statements, TypeOK, Complete
    <2>2. statement \in Statement
      BY <2>1, OverviewIs, ElementOfSeq
    <2>3. CASE m <= 3
      BY <1>1, <1>2, <2>1, <2>2, <2>3, OverviewIs
    <2>4. CASE m > 3
      <3>1. PICK k \in 1..n : m = 3 + k
        <4>1. m - 3 \in 1..n /\ m = 3 + (m - 3)
          BY <1>1, <2>1, <2>4
        <4>2. QED
          BY <4>1
      <3>2. statement = SlotMetrics[k]
        BY <2>1, <3>1, OverviewIs
      <3>3. PICK i \in 1..Len(SlotList), q \in 1..4 :
                k = Place(i, q) /\ SlotMetrics[k] = <<SlotList[i], SlotCounts[q]>>
        BY PlacesOfSlots
      <3>4. step + 1 = Ahead(kind) + Place(i, q)
        BY <1>2, <3>1, <3>3 DEF Ahead
      <3>5. QED
        BY <1>2, <2>1, <2>2, <3>2, <3>3, <3>4
    <2>5. QED
      BY <2>1, <2>3, <2>4
  <1>3. CASE kind = "slot_stats"
    <2>1. Statements(kind) = SlotStats /\ m \in 1..(1 + n) /\ Len(Statements(kind)) = 1 + n
      BY <1>1, <1>3, SlotStatsAre DEF Statements, TypeOK, Complete
    <2>2. statement \in Statement
      BY <2>1, SlotStatsAre, ElementOfSeq
    <2>3. CASE m = 1 + n
      BY <1>3, <2>1, <2>2, <2>3, SlotStatsAre
    <2>4. CASE m # 1 + n
      <3>1. m \in 1..n
        BY <1>1, <2>1, <2>4
      <3>2. statement = SlotMetrics[m]
        BY <2>1, <3>1, SlotStatsAre
      <3>3. PICK i \in 1..Len(SlotList), q \in 1..4 :
                m = Place(i, q) /\ SlotMetrics[m] = <<SlotList[i], SlotCounts[q]>>
        BY <3>1, PlacesOfSlots
      <3>4. step + 1 = Ahead(kind) + Place(i, q)
        BY <1>1, <1>3, <3>3 DEF Ahead, Place
      <3>5. QED
        BY <1>3, <2>1, <2>2, <3>2, <3>3, <3>4
    <2>5. QED
      BY <2>3, <2>4
  <1>4. CASE kind = "none"
    <2>1. Statements(kind) = <<>>
      BY <1>4 DEF Statements
    <2>2. QED
      BY <2>1 DEF TypeOK, Complete
  <1>5. QED
    BY <1>2, <1>3, <1>4 DEF TypeOK

-----------------------------------------------------------------------------
(* Sums. *)

(* Every nonempty set of natural numbers has a least element. *)
LEMMA LeastNumber ==
    ASSUME NEW T, T \subseteq Nat, T # {}
    PROVE  \E m \in T : \A k \in T : m <= k
  <1> DEFINE R == OpToRel(<, Nat)
  <1>1. PICK m \in T : \A k \in T : ~ (<<k, m>> \in R)
    <2> HIDE DEF R
    <2>1. IsWellFoundedOn(R, Nat)
      BY NatLessThanWellFounded DEF R
    <2>2. QED
      BY <2>1, WFMin
  <1>2. \A k \in T : ~(k < m)
    BY <1>1 DEF OpToRel
  <1>3. QED
    BY <1>2, SMT

(* A set of positions that begins at 0 and goes on at every step has all.  *)
LEMMA PositionsByStep ==
    ASSUME NEW n \in Nat, NEW P, 0 \in P,
           \A i \in 1..n : i - 1 \in P => i \in P
    PROVE  \A i \in 0..n : i \in P
  <1> DEFINE T == {i \in 0..n : i \notin P}
  <1> SUFFICES ASSUME T # {} PROVE FALSE
    OBVIOUS
  <1>1. PICK m \in T : \A k \in T : m <= k
    <2>1. T \subseteq Nat
      OBVIOUS
    <2> HIDE DEF T
    <2>2. QED
      BY <2>1, LeastNumber
  <1>2. m \in 0..n /\ m \notin P /\ m # 0
    BY <1>1
  <1>3. m - 1 \in 0..n /\ m \in 1..n
    BY <1>2
  <1>4. m - 1 \in P
    BY <1>1, <1>3
  <1>5. QED
    BY <1>2, <1>3, <1>4

(* The equation that defines the sums, for the first n places. *)
SumsUpTo(g, f, n) == g = [i \in 0..n |-> IF i = 0 THEN 0 ELSE g[i - 1] + f[i]]

LEMMA SumsExist ==
    ASSUME NEW f, NEW n \in Nat
    PROVE  \E g : SumsUpTo(g, f, n)
  <1> DEFINE P == {m \in Nat : \E g : SumsUpTo(g, f, m)}
  <1>1. 0 \in P
    <2> DEFINE g == [i \in 0..0 |-> 0]
    <2>1. g = [i \in 0..0 |-> IF i = 0 THEN 0 ELSE g[i - 1] + f[i]]
      OBVIOUS
    <2>2. SumsUpTo(g, f, 0)
      BY <2>1 DEF SumsUpTo
    <2>3. QED
      BY <2>2
  <1>2. ASSUME NEW m \in 1..n, m - 1 \in P
        PROVE  m \in P
    <2>1. PICK e : SumsUpTo(e, f, m - 1)
      BY <1>2
    <2>2. e = [i \in 0..(m - 1) |-> IF i = 0 THEN 0 ELSE e[i - 1] + f[i]]
      BY <2>1 DEF SumsUpTo
    <2> DEFINE g == [i \in 0..m |-> IF i = m THEN e[m - 1] + f[m] ELSE e[i]]
               h == [i \in 0..m |-> IF i = 0 THEN 0 ELSE g[i - 1] + f[i]]
    <2>3. \A i \in 0..m : g[i] = h[i]
      <3> SUFFICES ASSUME NEW i \in 0..m PROVE g[i] = h[i]
        OBVIOUS
      <3>1. CASE i = m
        BY <3>1
      <3>2. CASE i = 0
        BY <2>2, <3>2
      <3>3. CASE i # 0 /\ i # m
        <4>1. i \in 0..(m - 1) /\ i - 1 \in 0..(m - 1) /\ i - 1 # m /\ i - 1 \in 0..m
          BY <3>3
        <4>2. e[i] = e[i - 1] + f[i]
          BY <2>2, <3>3, <4>1
        <4>3. g[i] = e[i] /\ g[i - 1] = e[i - 1]
          BY <3>3, <4>1
        <4>4. QED
          BY <3>3, <4>2, <4>3
      <3>4. QED
        BY <3>1, <3>2, <3>3
    <2>4. g = h
      BY <2>3
    <2>5. SumsUpTo(g, f, m)
      BY <2>4 DEF SumsUpTo
    <2>6. QED
      BY <2>5
  <1> HIDE DEF P
  <1>3. \A i \in 0..n : i \in P
    BY <1>1, <1>2, PositionsByStep
  <1>4. QED
    BY <1>3 DEF P

(* A sum, place by place. *)
LEMMA SumSteps ==
    ASSUME NEW f
    PROVE  /\ Sums(f)[0] = 0
           /\ \A i \in 1..Len(SlotList) : Sums(f)[i] = Sums(f)[i - 1] + f[i]
  <1> DEFINE n == Len(SlotList)
             sums == Sums(f)
  <1>1. n \in Nat
    BY SlotListIs
  <1>2. sums = CHOOSE g : SumsUpTo(g, f, n)
    BY DEF Sums, SumsUpTo
  <1>3. \E g : SumsUpTo(g, f, n)
    BY <1>1, SumsExist
  <1> HIDE DEF sums
  <1>4. SumsUpTo(sums, f, n)
    BY <1>2, <1>3
  <1>5. sums[0] = 0 /\ \A i \in 1..n : sums[i] = sums[i - 1] + f[i]
    BY <1>1, <1>4 DEF SumsUpTo
  <1>6. QED
    BY <1>5 DEF sums

LEMMA SumIsNumber ==
    ASSUME NEW f, \A i \in 1..Len(SlotList) : f[i] \in Nat
    PROVE  \A i \in 0..Len(SlotList) : Sums(f)[i] \in Nat
  <1> DEFINE n == Len(SlotList)
             sums == Sums(f)
             P == {i \in 0..n : sums[i] \in Nat}
  <1>1. n \in Nat /\ sums[0] = 0 /\ \A i \in 1..n : sums[i] = sums[i - 1] + f[i]
    BY SlotListIs, SumSteps
  <1> HIDE DEF sums
  <1>2. 0 \in P
    BY <1>1
  <1>3. ASSUME NEW i \in 1..n, i - 1 \in P PROVE i \in P
    BY <1>1, <1>3
  <1> HIDE DEF P
  <1>4. \A i \in 0..n : i \in P
    BY <1>1, <1>2, <1>3, PositionsByStep
  <1>5. QED
    BY <1>4 DEF P, sums

(* The sum of larger numbers is larger. *)
LEMMA SumGrows ==
    ASSUME NEW f, NEW g,
           \A i \in 1..Len(SlotList) : f[i] \in Nat /\ g[i] \in Nat /\ f[i] <= g[i]
    PROVE  Sums(f)[Len(SlotList)] <= Sums(g)[Len(SlotList)]
  <1> DEFINE n == Len(SlotList)
             low == Sums(f)
             high == Sums(g)
             P == {i \in 0..n : low[i] <= high[i]}
  <1>1. /\ n \in Nat
        /\ low[0] = 0 /\ \A i \in 1..n : low[i] = low[i - 1] + f[i]
        /\ high[0] = 0 /\ \A i \in 1..n : high[i] = high[i - 1] + g[i]
        /\ \A i \in 0..n : low[i] \in Nat /\ high[i] \in Nat
    BY SlotListIs, SumSteps, SumIsNumber
  <1> HIDE DEF low, high
  <1>2. 0 \in P
    BY <1>1
  <1>3. ASSUME NEW i \in 1..n, i - 1 \in P PROVE i \in P
    <2>1. i - 1 \in 0..n /\ i \in 0..n
      BY <1>1
    <2>2. low[i] <= high[i]
      <3>1. low[i] = low[i - 1] + f[i] /\ high[i] = high[i - 1] + g[i]
        BY <1>1
      <3>2. low[i - 1] \in Nat /\ high[i - 1] \in Nat /\ low[i - 1] <= high[i - 1]
        BY <1>1, <1>3, <2>1
      <3>3. f[i] \in Nat /\ g[i] \in Nat /\ f[i] <= g[i]
        OBVIOUS
      <3>4. QED
        BY <3>1, <3>2, <3>3
    <2>3. QED
      BY <2>1, <2>2
  <1> HIDE DEF P
  <1>4. \A i \in 0..n : i \in P
    BY <1>1, <1>2, <1>3, PositionsByStep
  <1>5. n \in 0..n
    BY <1>1
  <1>6. QED
    BY <1>4, <1>5 DEF P, low, high

(* What is in one of the sets is counted in their sizes. *)
LEMMA UnionIsCovered ==
    ASSUME NEW S, NEW f, NEW X,
           \A i \in 1..Len(SlotList) : IsFiniteSet(S[i]) /\ Cardinality(S[i]) <= f[i] /\ f[i] \in Nat,
           \A x \in X : \E i \in 1..Len(SlotList) : x \in S[i]
    PROVE  IsFiniteSet(X) /\ Cardinality(X) <= Sums(f)[Len(SlotList)]
  <1> DEFINE n == Len(SlotList)
             sums == Sums(f)
             upTo(i) == {x \in X : \E j \in 1..i : x \in S[j]}
             P == {i \in 0..n : IsFiniteSet(upTo(i)) /\ Cardinality(upTo(i)) <= sums[i]}
  <1>1. /\ n \in Nat
        /\ sums[0] = 0 /\ \A i \in 1..n : sums[i] = sums[i - 1] + f[i]
        /\ \A i \in 0..n : sums[i] \in Nat
    BY SlotListIs, SumSteps, SumIsNumber
  <1> HIDE DEF sums
  <1>2. 0 \in P
    <2>1. upTo(0) = {}
      OBVIOUS
    <2>2. IsFiniteSet(upTo(0)) /\ Cardinality(upTo(0)) = 0
      BY <2>1, FS_EmptySet
    <2> HIDE DEF upTo
    <2>3. 0 \in 0..n /\ Cardinality(upTo(0)) <= sums[0]
      BY <1>1, <2>2
    <2>4. QED
      BY <2>2, <2>3
  <1>3. ASSUME NEW i \in 1..n, i - 1 \in P PROVE i \in P
    <2> DEFINE old == upTo(i - 1)
               new == upTo(i)
    <2>1. i - 1 \in 0..n /\ i \in 0..n /\ i \in Nat
      BY <1>1
    <2>2. /\ IsFiniteSet(old) /\ Cardinality(old) <= sums[i - 1]
          /\ sums[i] = sums[i - 1] + f[i] /\ sums[i - 1] \in Nat /\ sums[i] \in Nat
      BY <1>1, <1>3, <2>1
    <2>3. IsFiniteSet(S[i]) /\ Cardinality(S[i]) <= f[i] /\ f[i] \in Nat
      OBVIOUS
    <2>4. new \subseteq old \cup S[i]
      <3>1. \A j \in 1..i : j = i \/ j \in 1..(i - 1)
        BY <2>1
      <3>2. QED
        BY <3>1
    <2> HIDE DEF old, new
    <2>5. /\ IsFiniteSet(old \cup S[i]) /\ IsFiniteSet(old \cap S[i])
          /\ Cardinality(old \cup S[i]) = Cardinality(old) + Cardinality(S[i]) - Cardinality(old \cap S[i])
      <3>1. IsFiniteSet(old \cap S[i])
        BY <2>2, FS_Subset
      <3>2. QED
        BY <2>2, <2>3, <3>1, FS_Union
    <2>6. IsFiniteSet(new) /\ Cardinality(new) <= Cardinality(old \cup S[i])
      BY <2>4, <2>5, FS_Subset
    <2>7. /\ Cardinality(new) \in Nat /\ Cardinality(old) \in Nat /\ Cardinality(S[i]) \in Nat
          /\ Cardinality(old \cap S[i]) \in Nat /\ Cardinality(old \cup S[i]) \in Nat
      BY <2>2, <2>3, <2>5, <2>6, FS_CardinalityType
    <2>8. Cardinality(new) <= sums[i]
      BY <2>2, <2>3, <2>5, <2>6, <2>7
    <2>9. QED
      BY <2>1, <2>6, <2>8 DEF new
  <1> HIDE DEF P
  <1>4. \A i \in 0..n : i \in P
    BY <1>1, <1>2, <1>3, PositionsByStep
  <1>5. n \in 0..n
    BY <1>1
  <1>6. upTo(n) = X
    OBVIOUS
  <1>7. QED
    BY <1>4, <1>5, <1>6 DEF P, sums

(* Sets that do not meet fit into X together. *)
LEMMA DisjointFit ==
    ASSUME NEW S, NEW f, NEW X, IsFiniteSet(X),
           \A i \in 1..Len(SlotList) : S[i] \subseteq X /\ f[i] \in Nat /\ f[i] <= Cardinality(S[i]),
           \A i, j \in 1..Len(SlotList) : i # j => S[i] \cap S[j] = {}
    PROVE  Sums(f)[Len(SlotList)] <= Cardinality(X)
  <1> DEFINE n == Len(SlotList)
             sums == Sums(f)
             upTo(i) == {x \in X : \E j \in 1..i : x \in S[j]}
             P == {i \in 0..n : sums[i] <= Cardinality(upTo(i))}
  <1>1. /\ n \in Nat
        /\ sums[0] = 0 /\ \A i \in 1..n : sums[i] = sums[i - 1] + f[i]
        /\ \A i \in 0..n : sums[i] \in Nat
    BY SlotListIs, SumSteps, SumIsNumber
  <1> HIDE DEF sums
  <1>2. 0 \in P
    <2>1. upTo(0) = {}
      OBVIOUS
    <2>2. Cardinality(upTo(0)) = 0
      BY <2>1, FS_EmptySet
    <2> HIDE DEF upTo
    <2>3. 0 \in 0..n /\ sums[0] <= Cardinality(upTo(0))
      BY <1>1, <2>2
    <2>4. QED
      BY <2>3
  <1>3. ASSUME NEW i \in 1..n, i - 1 \in P PROVE i \in P
    <2> DEFINE old == upTo(i - 1)
               new == upTo(i)
    <2>1. i - 1 \in 0..n /\ i \in 0..n /\ i \in Nat
      BY <1>1
    <2>2. /\ sums[i - 1] <= Cardinality(old)
          /\ sums[i] = sums[i - 1] + f[i] /\ sums[i - 1] \in Nat /\ sums[i] \in Nat
      BY <1>1, <1>3, <2>1
    <2>3. S[i] \subseteq X /\ f[i] \in Nat /\ f[i] <= Cardinality(S[i])
      OBVIOUS
    <2>4. new = old \cup S[i] /\ old \cap S[i] = {} /\ old \subseteq X
      <3>1. \A j \in 1..i : j = i \/ j \in 1..(i - 1)
        BY <2>1
      <3>2. \A j \in 1..(i - 1) : j \in 1..i /\ j \in 1..n /\ j # i
        BY <1>1, <2>1
      <3>3. i \in 1..i
        BY <2>1
      <3>4. old \cap S[i] = {}
        BY <3>2
      <3>5. QED
        BY <2>3, <3>1, <3>2, <3>3, <3>4
    <2> HIDE DEF old, new
    <2>5. IsFiniteSet(old) /\ IsFiniteSet(S[i]) /\ IsFiniteSet({}) /\ Cardinality({}) = 0
      BY <2>3, <2>4, FS_Subset, FS_EmptySet
    <2>6. Cardinality(old \cup S[i]) = Cardinality(old) + Cardinality(S[i]) - Cardinality(old \cap S[i])
      BY <2>5, FS_Union
    <2>7. Cardinality(old) \in Nat /\ Cardinality(S[i]) \in Nat
      BY <2>5, FS_CardinalityType
    <2>8. Cardinality(new) = Cardinality(old) + Cardinality(S[i])
      <3>1. Cardinality(old \cap S[i]) = 0 /\ new = old \cup S[i]
        BY <2>4, <2>5
      <3>2. QED
        BY <2>6, <2>7, <3>1
    <2>9. sums[i] <= Cardinality(new)
      BY <2>2, <2>3, <2>7, <2>8
    <2>10. QED
      BY <2>1, <2>9 DEF new
  <1> HIDE DEF P
  <1>4. \A i \in 0..n : i \in P
    BY <1>1, <1>2, <1>3, PositionsByStep
  <1>5. upTo(n) \subseteq X
    OBVIOUS
  <1>6. Cardinality(upTo(n)) <= Cardinality(X) /\ Cardinality(upTo(n)) \in Nat /\ Cardinality(X) \in Nat
    <2>1. IsFiniteSet(upTo(n)) /\ Cardinality(upTo(n)) <= Cardinality(X)
      BY <1>5, FS_Subset
    <2>2. QED
      BY <2>1, FS_CardinalityType
  <1>7. sums[n] <= Cardinality(upTo(n)) /\ sums[n] \in Nat
    BY <1>1, <1>4 DEF P
  <1>8. QED
    BY <1>6, <1>7 DEF sums

-----------------------------------------------------------------------------
(* Rows.  A verdict is final, except that the handler itself may still     *)
(* take it back; every verdict is stamped with the clock.                  *)
RowsConsistent ==
    \A j \in Jobs :
        /\ row[j].reason = "provider_error" => row[j].status = "failed"
        /\ row[j].reason = "provider_timeout" <=> row[j].status = "timeout"
        /\ undone[j] # "none" => row[j].status = "failed" /\ row[j].reason = "internal_error"

GoesOn(j) ==
    \/ /\ undone'[j] = undone[j]
       /\ \/ row'[j] = row[j]
          \/ /\ row[j].status = "none"
             /\ row'[j].status = "pending" \/ row'[j].status = "done"
             /\ row'[j].status = "done" => row'[j].completed = clock
             /\ row'[j].reason = row[j].reason
          \/ /\ row[j].status = "pending"
             /\ row'[j].status # "none"
             /\ row'[j].started = row[j].started
             /\ row'[j].completed = clock
    \/ /\ row[j].status \notin {"none", "pending"} /\ row[j].reason # "internal_error"
       /\ row'[j].status = "failed" /\ row'[j].reason = "internal_error"
       /\ row'[j].started = row[j].started
       /\ row'[j].completed = clock
       /\ undone'[j] = IF row[j].reason \in ProviderReasons THEN row[j].reason ELSE undone[j]

LEMMA WritersGoOn ==
    ASSUME TypeOK, RowsConsistent, NEW j \in Jobs,
           \/ Open(j) \/ UploadTemplate(j) \/ SetResult(j)
           \/ \E verdict \in Verdicts : SetFailure(j, verdict)
    PROVE  /\ UNCHANGED <<clock, reportVars>>
           /\ row' \in [Jobs -> Row]
           /\ undone' \in [Jobs -> {"none"} \cup ProviderReasons]
           /\ RowsConsistent'
           /\ \A i \in Jobs : GoesOn(i)
  <1>1. /\ row[j] \in Row /\ clock \in Time /\ row \in [Jobs -> Row]
        /\ undone \in [Jobs -> {"none"} \cup ProviderReasons]
    BY DEF TypeOK, Time
  <1>2. ASSUME NEW new \in Row, row' = [row EXCEPT ![j] = new],
               NEW back \in {"none"} \cup ProviderReasons, undone' = [undone EXCEPT ![j] = back],
               new.reason = "provider_error" => new.status = "failed",
               new.reason = "provider_timeout" <=> new.status = "timeout",
               back # "none" => new.status = "failed" /\ new.reason = "internal_error"
        PROVE  /\ row' \in [Jobs -> Row] /\ row'[j] = new
               /\ undone' \in [Jobs -> {"none"} \cup ProviderReasons] /\ undone'[j] = back
               /\ RowsConsistent'
               /\ \A i \in Jobs : i # j => GoesOn(i)
    <2>1. /\ row' \in [Jobs -> Row] /\ row'[j] = new
          /\ undone' \in [Jobs -> {"none"} \cup ProviderReasons] /\ undone'[j] = back
          /\ \A i \in Jobs : i # j => row'[i] = row[i] /\ undone'[i] = undone[i]
      BY <1>1, <1>2
    <2>2. RowsConsistent'
      BY <1>2, <2>1 DEF RowsConsistent
    <2>3. QED
      BY <2>1, <2>2 DEF GoesOn
  <1>3. undone = [undone EXCEPT ![j] = undone[j]] /\ undone[j] \in {"none"} \cup ProviderReasons
    BY <1>1
  <1>4. CASE Open(j)
    <2> DEFINE new == [row[j] EXCEPT !.status = "pending", !.started = clock]
    <2>1. row' = [row EXCEPT ![j] = new]
      BY <1>1, <1>4 DEF Open
    <2>2. /\ new \in Row
          /\ new.status = "pending" /\ new.reason = row[j].reason
      BY <1>1 DEF Row
    <2>3. row[j].status = "none"
      BY <1>4 DEF Open
    <2> HIDE DEF new
    <2>4. /\ new.reason = "provider_error" => new.status = "failed"
          /\ new.reason = "provider_timeout" <=> new.status = "timeout"
      BY <2>2, <2>3 DEF RowsConsistent
    <2>5. undone[j] = "none"
      BY <2>3 DEF RowsConsistent
    <2>6. undone' = [undone EXCEPT ![j] = undone[j]]
      BY <1>4, <1>3 DEF Open
    <2>7. /\ row' \in [Jobs -> Row] /\ row'[j] = new
          /\ undone' \in [Jobs -> {"none"} \cup ProviderReasons] /\ undone'[j] = undone[j]
          /\ RowsConsistent'
          /\ \A i \in Jobs : i # j => GoesOn(i)
      BY <1>2, <1>3, <2>1, <2>2, <2>4, <2>5, <2>6
    <2>8. GoesOn(j)
      BY <2>2, <2>3, <2>7 DEF GoesOn
    <2>9. QED
      BY <1>4, <2>7, <2>8 DEF Open
  <1>5. CASE UploadTemplate(j)
    <2> DEFINE new == [row[j] EXCEPT !.status = "done", !.started = clock, !.completed = clock]
    <2>1. row' = [row EXCEPT ![j] = new]
      BY <1>1, <1>5 DEF UploadTemplate
    <2>2. /\ new \in Row
          /\ new.status = "done" /\ new.reason = row[j].reason /\ new.completed = clock
      BY <1>1 DEF Row
    <2>3. row[j].status = "none"
      BY <1>5 DEF UploadTemplate
    <2> HIDE DEF new
    <2>4. /\ new.reason = "provider_error" => new.status = "failed"
          /\ new.reason = "provider_timeout" <=> new.status = "timeout"
      BY <2>2, <2>3 DEF RowsConsistent
    <2>5. undone[j] = "none"
      BY <2>3 DEF RowsConsistent
    <2>6. undone' = [undone EXCEPT ![j] = undone[j]]
      BY <1>5, <1>3 DEF UploadTemplate
    <2>7. /\ row' \in [Jobs -> Row] /\ row'[j] = new
          /\ undone' \in [Jobs -> {"none"} \cup ProviderReasons] /\ undone'[j] = undone[j]
          /\ RowsConsistent'
          /\ \A i \in Jobs : i # j => GoesOn(i)
      BY <1>2, <1>3, <2>1, <2>2, <2>4, <2>5, <2>6
    <2>8. GoesOn(j)
      BY <2>2, <2>3, <2>7 DEF GoesOn
    <2>9. QED
      BY <1>5, <2>7, <2>8 DEF UploadTemplate
  <1>6. CASE SetResult(j)
    <2> DEFINE new == [row[j] EXCEPT !.status = "done", !.completed = clock]
    <2>1. row' = [row EXCEPT ![j] = new]
      BY <1>1, <1>6 DEF SetResult
    <2>2. /\ new \in Row
          /\ new.status = "done" /\ new.reason = row[j].reason
          /\ new.started = row[j].started /\ new.completed = clock
      BY <1>1 DEF Row
    <2>3. row[j].status = "pending"
      BY <1>6 DEF SetResult
    <2> HIDE DEF new
    <2>4. /\ new.reason = "provider_error" => new.status = "failed"
          /\ new.reason = "provider_timeout" <=> new.status = "timeout"
      BY <2>2, <2>3 DEF RowsConsistent
    <2>5. undone[j] = "none"
      BY <2>3 DEF RowsConsistent
    <2>6. undone' = [undone EXCEPT ![j] = undone[j]]
      BY <1>6, <1>3 DEF SetResult
    <2>7. /\ row' \in [Jobs -> Row] /\ row'[j] = new
          /\ undone' \in [Jobs -> {"none"} \cup ProviderReasons] /\ undone'[j] = undone[j]
          /\ RowsConsistent'
          /\ \A i \in Jobs : i # j => GoesOn(i)
      BY <1>2, <1>3, <2>1, <2>2, <2>4, <2>5, <2>6
    <2>8. GoesOn(j)
      BY <2>2, <2>3, <2>7 DEF GoesOn
    <2>9. QED
      BY <1>6, <2>7, <2>8 DEF SetResult
  <1>7. ASSUME NEW verdict \in Verdicts, SetFailure(j, verdict)
        PROVE  /\ UNCHANGED <<clock, reportVars>>
               /\ row' \in [Jobs -> Row] /\ undone' \in [Jobs -> {"none"} \cup ProviderReasons]
               /\ RowsConsistent' /\ \A i \in Jobs : GoesOn(i)
    <2> DEFINE new == [row[j] EXCEPT !.status = verdict[1], !.reason = verdict[2],
                                     !.completed = clock]
               back == IF row[j].reason \in ProviderReasons THEN row[j].reason ELSE undone[j]
    <2>1. /\ \/ row[j].status = "pending"
             \/ /\ row[j].status # "none" /\ row[j].reason # "internal_error"
                /\ verdict[2] = "internal_error"
          /\ row' = [row EXCEPT ![j].status = verdict[1], ![j].reason = verdict[2],
                                ![j].completed = clock]
          /\ TakeBack(j)
          /\ UNCHANGED <<clock, reportVars>>
      BY <1>7, Zenon DEF SetFailure
    <2>2. row' = [row EXCEPT ![j] = new]
      BY <1>1, <2>1
    <2>3. undone' = [undone EXCEPT ![j] = back]
      BY <1>3, <2>1 DEF TakeBack
    <2>4. \/ verdict[1] = "timeout" /\ verdict[2] = "provider_timeout"
          \/ verdict[1] = "failed" /\ verdict[2] = "provider_error"
          \/ verdict[1] = "failed" /\ verdict[2] = "internal_error"
      BY DEF Verdicts
    <2>5. /\ new \in Row
          /\ new.status = verdict[1] /\ new.reason = verdict[2]
          /\ new.started = row[j].started /\ new.completed = clock
      BY <1>1, <2>4 DEF Row
    <2>6. \/ row[j].status = "pending"
          \/ /\ row[j].status \notin {"none", "pending"} /\ row[j].reason # "internal_error"
             /\ verdict[1] = "failed" /\ verdict[2] = "internal_error"
      BY <2>1, <2>4
    <2>7. row[j].status = "pending" => back = "none" /\ undone[j] = "none"
      BY <1>3 DEF RowsConsistent, ProviderReasons
    <2>8. back \in {"none"} \cup ProviderReasons
      BY <1>3
    <2>9. back = IF row[j].reason \in ProviderReasons THEN row[j].reason ELSE undone[j]
      OBVIOUS
    <2> HIDE DEF new, back
    <2>10. /\ new.reason = "provider_error" => new.status = "failed"
           /\ new.reason = "provider_timeout" <=> new.status = "timeout"
           /\ back # "none" => new.status = "failed" /\ new.reason = "internal_error"
      BY <2>4, <2>5, <2>6, <2>7
    <2>11. /\ row' \in [Jobs -> Row] /\ row'[j] = new
           /\ undone' \in [Jobs -> {"none"} \cup ProviderReasons] /\ undone'[j] = back
           /\ RowsConsistent'
           /\ \A i \in Jobs : i # j => GoesOn(i)
      BY <1>2, <2>2, <2>3, <2>5, <2>8, <2>10
    <2>12. GoesOn(j)
      <3>1. CASE row[j].status = "pending"
        BY <2>4, <2>5, <2>7, <2>11, <3>1 DEF GoesOn
      <3>2. CASE row[j].status # "pending"
        BY <2>5, <2>6, <2>9, <2>11, <3>2 DEF GoesOn
      <3>3. QED
        BY <3>1, <3>2
    <2>13. QED
      BY <2>1, <2>11, <2>12
  <1>8. QED
    BY <1>4, <1>5, <1>6, <1>7

LEMMA ResultIsNumber ==
    ASSUME TypeOK, NEW statement \in Statement
    PROVE  Result(statement) \in Nat
  <1>1. Failures(began) \subseteq Jobs
    BY DEF Failures, Existing
  <1>2. Chosen(statement[1], statement[2], began) \subseteq Jobs
    BY DEF Chosen, Of, Existing
  <1>3. /\ Cardinality(Failures(began)) \in Nat
        /\ Cardinality(Chosen(statement[1], statement[2], began)) \in Nat
    BY <1>1, <1>2, StatsAssumption, FS_Subset, FS_CardinalityType
  <1>4. FailureLimit \in Nat
    BY StatsAssumption
  <1>5. QED
    BY <1>3, <1>4 DEF Result

(* What one statement does. *)
LEMMA Executed ==
    ASSUME TypeOK, Execute
    PROVE  \E statement \in Statement :
              /\ statement = Statements(kind)[step + 1]
              /\ ~Complete
              /\ num' = [num EXCEPT ![statement] = Result(statement)]
              /\ num' \in [Statement -> Nat]
              /\ num'[statement] = Result(statement)
              /\ \A other \in Statement : other # statement => num'[other] = num[other]
              /\ step' = step + 1
              /\ UNCHANGED <<clock, row, kind, began, known, reports, undone>>
  <1> DEFINE statement == Statements(kind)[step + 1]
  <1>1. ~Complete /\ step' = step + 1 /\ num' = [num EXCEPT ![statement] = Result(statement)]
        /\ UNCHANGED <<clock, row, kind, began, known, reports, undone>>
    BY DEF Execute
  <1>2. statement \in Statement
    BY <1>1, NextStatement
  <1> HIDE DEF statement
  <1>3. Result(statement) \in Nat /\ num \in [Statement -> Nat]
    BY <1>2, ResultIsNumber DEF TypeOK
  <1>4. /\ num' \in [Statement -> Nat]
        /\ num'[statement] = Result(statement)
        /\ \A other \in Statement : other # statement => num'[other] = num[other]
    BY <1>1, <1>2, <1>3
  <1>5. QED
    BY <1>1, <1>2, <1>4 DEF statement

RowTypes == TypeOK /\ RowsConsistent

LEMMA NextKeepsTypes ==
    ASSUME RowTypes, [Next]_vars
    PROVE  RowTypes'
  <1>1. TypeOK /\ RowsConsistent
    BY DEF RowTypes
  <1>2. CASE Tick
    <2>1. clock' \in 1..(MaxClock + 1)
      BY <1>1, <1>2, StatsAssumption DEF TypeOK, Tick
    <2>2. QED
      BY <1>1, <1>2, <2>1 DEF Tick, reportVars, TypeOK, RowTypes, RowsConsistent, Complete
  <1>3. ASSUME NEW j \in Jobs,
               \/ Open(j) \/ UploadTemplate(j) \/ SetResult(j)
               \/ \E verdict \in Verdicts : SetFailure(j, verdict)
        PROVE  RowTypes'
    <2>1. /\ UNCHANGED <<clock, reportVars>> /\ row' \in [Jobs -> Row] /\ RowsConsistent'
          /\ undone' \in [Jobs -> {"none"} \cup ProviderReasons]
      BY <1>1, <1>3, WritersGoOn
    <2>2. QED
      BY <1>1, <2>1 DEF reportVars, TypeOK, RowTypes
  <1>4. ASSUME NEW report \in {"overview", "slot_stats"}, StartReport(report)
        PROVE  RowTypes'
    <2>1. /\ UNCHANGED <<clock, row>> /\ kind' = report /\ step' = 0
          /\ num' = [s \in Statement |-> 0]
          /\ began' = clock /\ known' = Existing /\ reports' = reports + 1
          /\ reports < MaxReports /\ undone' = [j \in Jobs |-> "none"]
      BY <1>4 DEF StartReport
    <2>2. Len(Statements(report)) \in Nat
      BY OverviewIs, SlotStatsAre, LenProperties DEF Statements
    <2>3. step' \in 0..Len(Statements(kind'))
      BY <2>1, <2>2
    <2>4. known' \subseteq Jobs /\ began' \in Time
      BY <1>1, <2>1 DEF Existing, TypeOK, Time
    <2>5. reports' \in 0..MaxReports
      BY <1>1, <2>1, StatsAssumption DEF TypeOK
    <2>6. QED
      BY <1>1, <2>1, <2>3, <2>4, <2>5 DEF TypeOK, RowTypes, RowsConsistent
  <1>5. CASE Execute
    <2>1. /\ num' \in [Statement -> Nat] /\ step' = step + 1 /\ ~Complete
          /\ UNCHANGED <<clock, row, kind, began, known, reports, undone>>
      BY <1>1, <1>5, Executed
    <2>2. step + 1 \in 1..Len(Statements(kind))
      BY <1>1, <2>1, NextStatement
    <2>3. step' \in 0..Len(Statements(kind))
      BY <1>1, <2>1, <2>2 DEF TypeOK
    <2>4. QED
      BY <1>1, <2>1, <2>3 DEF TypeOK, RowTypes, RowsConsistent
  <1>6. CASE UNCHANGED vars
    BY <1>1, <1>6 DEF vars, reportVars, TypeOK, RowTypes, RowsConsistent
  <1>7. QED
    BY <1>2, <1>3, <1>4, <1>5, <1>6 DEF Next, WriteRow, Report

LEMMA InitTypes == Init => RowTypes
  <1> SUFFICES ASSUME Init PROVE RowTypes
    OBVIOUS
  <1>1. NoRow \in Row /\ NoRow.reason = "none" /\ NoRow.status = "none" /\ 0 \in Time
    BY StatsAssumption DEF NoRow, Row, Time
  <1>2. Len(Statements(kind)) = 0 /\ Len(<<>>) = 0
    BY EmptySeq DEF Init, Statements
  <1>3. step \in 0..Len(Statements(kind))
    BY <1>2 DEF Init
  <1>4. clock \in 1..(MaxClock + 1) /\ reports \in 0..MaxReports
    BY StatsAssumption DEF Init
  <1> HIDE DEF NoRow
  <1>5. QED
    BY <1>1, <1>3, <1>4 DEF Init, TypeOK, RowTypes, RowsConsistent

(* Type correctness. *)
THEOREM TypeCorrect == Spec => []TypeOK
  <1>1. RowTypes => TypeOK
    BY DEF RowTypes
  <1>2. QED
    BY <1>1, InitTypes, NextKeepsTypes, PTL DEF Spec

-----------------------------------------------------------------------------
(* What a statement counts and what may come to it later.  A verdict that  *)
(* is taken back leaves its count, but the job is still one that was       *)
(* decided in the window, and `undone' tells what it was counted for: what *)
(* lasts is a timeout, or an error, that is shown or was shown.            *)
Kept == {"jobs", "timeouts", "errors"}

Blamed(j, c) ==
    \/ c = "timeouts" /\ (row[j].status = "timeout" \/ undone[j] = "provider_timeout")
    \/ c = "errors" /\ (row[j].reason = "provider_error" \/ undone[j] = "provider_error")

Lasting(s, c) == {j \in Of(s) : InWindow(row[j].completed, began) /\ Blamed(j, c)}

Settled(s) ==
    {j \in Of(s) : /\ InWindow(row[j].completed, began)
                   /\ row[j].status \in {"done", "failed"}
                   /\ row[j].reason # "provider_error"
                   /\ undone[j] = "none"}

(* The jobs of slot s that its count of jobs cannot miss. *)
Foreseen(s) == {j \in Of(s) : j \in known /\ InWindow(row[j].started, began)}

LEMMA CountedAreFinite ==
    ASSUME NEW s, NEW c
    PROVE  /\ IsFiniteSet(Chosen(s, c, began)) /\ Cardinality(Chosen(s, c, began)) \in Nat
           /\ IsFiniteSet(Lasting(s, c)) /\ Cardinality(Lasting(s, c)) \in Nat
           /\ IsFiniteSet(Settled(s)) /\ Cardinality(Settled(s)) \in Nat
           /\ IsFiniteSet(Foreseen(s)) /\ Cardinality(Foreseen(s)) \in Nat
           /\ IsFiniteSet(Of(s))
  <1>1. Chosen(s, c, began) \subseteq Jobs /\ Settled(s) \subseteq Jobs /\ Foreseen(s) \subseteq Jobs
        /\ Of(s) \subseteq Jobs /\ Lasting(s, c) \subseteq Jobs
    BY DEF Chosen, Lasting, Settled, Foreseen, Of, Existing
  <1>2. IsFiniteSet(Jobs)
    BY StatsAssumption
  <1>3. QED
    BY <1>1, <1>2, FS_Subset, FS_CardinalityType

LEMMA WindowReaches ==
    ASSUME TypeOK, began <= clock
    PROVE  InWindow(clock, began)
  BY StatsAssumption DEF TypeOK, InWindow, Time

LEMMA CountedStay ==
    ASSUME RowTypes, RowTypes', began <= clock, UNCHANGED reportVars,
           \A j \in Jobs : GoesOn(j), \A j \in known : row[j].status # "none"
    PROVE  /\ \A s : Chosen(s, "jobs", began) \subseteq Chosen(s, "jobs", began)'
           /\ NothingUndone' =>
                 /\ NothingUndone
                 /\ \A s : \A c \in Kept : Chosen(s, c, began) \subseteq Chosen(s, c, began)'
           /\ \A s : \A c \in {"timeouts", "errors"} : Lasting(s, c) \subseteq Lasting(s, c)'
           /\ \A s : Settled(s) \subseteq Settled(s)'
           /\ \A s : Foreseen(s) = Foreseen(s)'
           /\ \A j \in known : row'[j].status # "none"
  <1>1. TypeOK /\ RowsConsistent /\ began' = began /\ known' = known /\ known \subseteq Jobs
    BY DEF RowTypes, TypeOK, reportVars
  <1>2. InWindow(clock, began)
    BY <1>1, WindowReaches
  <1>3. ASSUME NEW j \in Jobs, row[j].status # "none"
        PROVE  row'[j].status # "none" /\ row'[j].started = row[j].started
    BY <1>3 DEF GoesOn
  <1>4. ASSUME NEW j \in Jobs, NEW c \in {"timeouts", "errors"}, Blamed(j, c)
        PROVE  /\ Blamed(j, c)'
               /\ row'[j].completed \in {row[j].completed, clock}
    <2>1. /\ row[j].reason = "provider_error" => row[j].status = "failed"
          /\ row[j].reason = "provider_timeout" <=> row[j].status = "timeout"
          /\ undone[j] # "none" => row[j].status = "failed" /\ row[j].reason = "internal_error"
      BY <1>1 DEF RowsConsistent
    <2>2. row[j].status \notin {"none", "pending"}
      BY <1>4, <2>1 DEF Blamed
    <2>3. \/ row'[j] = row[j] /\ undone'[j] = undone[j]
          \/ /\ row[j].reason # "internal_error" /\ row'[j].completed = clock
             /\ undone'[j] = IF row[j].reason \in ProviderReasons THEN row[j].reason ELSE undone[j]
      BY <2>2 DEF GoesOn
    <2>4. CASE row'[j] = row[j] /\ undone'[j] = undone[j]
      BY <1>4, <2>4 DEF Blamed
    <2>5. CASE /\ row[j].reason # "internal_error" /\ row'[j].completed = clock
               /\ undone'[j] = IF row[j].reason \in ProviderReasons THEN row[j].reason ELSE undone[j]
      <3>1. \/ c = "timeouts" /\ row[j].reason = "provider_timeout"
            \/ c = "errors" /\ row[j].reason = "provider_error"
        BY <1>4, <2>1, <2>5 DEF Blamed
      <3>2. QED
        BY <2>5, <3>1 DEF Blamed, ProviderReasons
    <2>6. QED
      BY <2>3, <2>4, <2>5
  <1>5. \A s : Of(s) \subseteq Of(s)' /\ Of(s) \subseteq Jobs
    BY <1>3 DEF Of, Existing
  <1>6. \A s : Chosen(s, "jobs", began) \subseteq Chosen(s, "jobs", began)'
    BY <1>1, <1>3, <1>5 DEF Chosen, InWindow, Of, Existing
  <1>7. ASSUME NothingUndone'
         PROVE  /\ NothingUndone
                /\ \A s : \A c \in Kept : Chosen(s, c, began) \subseteq Chosen(s, c, began)'
    <2>1. \A j \in Jobs : undone'[j] = "none"
      BY <1>7 DEF NothingUndone
    <2>2. NothingUndone
      <3> SUFFICES ASSUME NEW j \in Jobs, undone[j] # "none" PROVE FALSE
        BY DEF NothingUndone
      <3>1. row[j].status = "failed" /\ row[j].reason = "internal_error"
        BY <1>1 DEF RowsConsistent
      <3>2. QED
        BY <2>1, <3>1 DEF GoesOn
    <2>3. ASSUME NEW j \in Jobs, row[j].status = "timeout" \/ row[j].reason = "provider_error"
          PROVE  row'[j] = row[j]
      <3>1. row[j].status \notin {"none", "pending"} /\ row[j].reason \in ProviderReasons
        BY <1>1, <2>3 DEF RowsConsistent, ProviderReasons
      <3>2. row[j].reason # "none"
        BY <3>1 DEF ProviderReasons
      <3>3. QED
        BY <2>1, <3>1, <3>2 DEF GoesOn
    <2>4. ASSUME NEW s, NEW c \in Kept, NEW j \in Chosen(s, c, began)
          PROVE  j \in Chosen(s, c, began)'
      <3>1. j \in Of(s) /\ j \in Of(s)' /\ j \in Jobs
        BY <1>5 DEF Chosen
      <3>2. CASE c = "jobs"
        BY <1>6, <3>2
      <3>3. CASE c = "timeouts"
        BY <1>1, <2>3, <3>1, <3>3 DEF Chosen, InWindow
      <3>4. CASE c = "errors"
        BY <1>1, <2>3, <3>1, <3>4 DEF Chosen, InWindow, IsProviderError
      <3>5. QED
        BY <3>2, <3>3, <3>4 DEF Kept
    <2>5. QED
      BY <2>2, <2>4
  <1>8. ASSUME NEW s, NEW c \in {"timeouts", "errors"}
         PROVE  Lasting(s, c) \subseteq Lasting(s, c)'
    <2> SUFFICES ASSUME NEW j \in Lasting(s, c) PROVE j \in Lasting(s, c)'
      OBVIOUS
    <2>1. j \in Of(s)' /\ j \in Jobs /\ InWindow(row[j].completed, began) /\ Blamed(j, c)
      BY <1>5 DEF Lasting
    <2>2. Blamed(j, c)' /\ row'[j].completed \in {row[j].completed, clock}
      BY <1>4, <2>1
    <2>3. InWindow(row'[j].completed, began)
      BY <1>2, <2>1, <2>2
    <2>4. QED
      BY <1>1, <2>1, <2>2, <2>3 DEF Lasting, InWindow
  <1>9. ASSUME NEW s
        PROVE  Settled(s) \subseteq Settled(s)'
    <2> SUFFICES ASSUME NEW j \in Settled(s) PROVE j \in Settled(s)'
      OBVIOUS
    <2>1. /\ j \in Of(s)' /\ j \in Jobs
          /\ InWindow(row[j].completed, began)
          /\ row[j].status \in {"done", "failed"} /\ row[j].reason # "provider_error"
          /\ undone[j] = "none"
      BY <1>5 DEF Settled
    <2>2. row[j].reason \notin ProviderReasons
      BY <1>1, <2>1 DEF RowsConsistent, ProviderReasons
    <2>3. /\ undone'[j] = "none"
          /\ \/ row'[j] = row[j]
             \/ /\ row'[j].status = "failed" /\ row'[j].reason = "internal_error"
                /\ row'[j].completed = clock
      BY <2>1, <2>2 DEF GoesOn
    <2>4. InWindow(row'[j].completed, began)
      BY <1>2, <2>1, <2>3
    <2>5. row'[j].status \in {"done", "failed"} /\ row'[j].reason # "provider_error"
      BY <2>1, <2>3
    <2>6. QED
      BY <1>1, <2>1, <2>3, <2>4, <2>5 DEF Settled, InWindow
  <1>10. \A s : Foreseen(s) = Foreseen(s)'
    <2> SUFFICES ASSUME NEW s PROVE Foreseen(s) = Foreseen(s)'
      OBVIOUS
    <2>1. \A j \in known : j \in Jobs /\ row'[j].status # "none" /\ row'[j].started = row[j].started
      BY <1>1, <1>3
    <2>2. \A j \in known : j \in Of(s) <=> j \in Of(s)'
      BY <2>1 DEF Of, Existing
    <2>3. QED
      BY <1>1, <2>1, <2>2 DEF Foreseen, InWindow
  <1>11. QED
    BY <1>1, <1>3, <1>6, <1>9, <1>10, <1>7, <1>8

-----------------------------------------------------------------------------
(* The counts of one slot.  Each is at most what can be found when the     *)
(* report is complete, that of its jobs at least what was there to find.   *)
AtMost(s) ==
    /\ num[<<s, "timeouts">>] <= Cardinality(Lasting(s, "timeouts"))
    /\ num[<<s, "errors">>] <= Cardinality(Lasting(s, "errors"))
    /\ num[<<s, "success">>] <= Cardinality(Settled(s))

AtLeast(i) ==
    kind # "none" /\ step >= Ahead(kind) + Place(i, 1) =>
        Cardinality(Foreseen(SlotList[i])) <= num[<<SlotList[i], "jobs">>]

CountInv ==
    /\ RowTypes
    /\ began <= clock
    /\ \A j \in known : row[j].status # "none"
    /\ \A s \in Slots : AtMost(s)
    /\ \A i \in 1..Len(SlotList) : AtLeast(i)

LEMMA SlotStatements ==
    ASSUME NEW s \in Slots \cup {All}, NEW c \in Counts
    PROVE  <<s, c>> \in Statement
  BY DEF Statement

(* A step that leaves the reports alone. *)
LEMMA CountsStay ==
    ASSUME CountInv, RowTypes', clock \in Nat, clock' \in Nat, clock <= clock', UNCHANGED reportVars,
           \A j \in Jobs : GoesOn(j)
    PROVE  CountInv'
  <1>1. /\ RowTypes /\ began <= clock /\ \A j \in known : row[j].status # "none"
        /\ began \in Nat /\ num \in [Statement -> Nat]
    BY DEF CountInv, RowTypes, TypeOK, Time
  <1>2. /\ \A s : \A c \in {"timeouts", "errors"} : Lasting(s, c) \subseteq Lasting(s, c)'
        /\ \A s : Settled(s) \subseteq Settled(s)'
        /\ \A s : Foreseen(s) = Foreseen(s)'
        /\ \A j \in known : row'[j].status # "none"
    BY <1>1, CountedStay
  <1>3. \A s, c : /\ IsFiniteSet(Lasting(s, c)') /\ IsFiniteSet(Settled(s)')
    <2>1. \A s, c : Lasting(s, c)' \subseteq Jobs /\ Settled(s)' \subseteq Jobs
      BY DEF Lasting, Settled, Of, Existing
    <2>2. QED
      BY <2>1, StatsAssumption, FS_Subset
  <1>4. ASSUME NEW s \in Slots
        PROVE  AtMost(s)'
    <2>1. /\ Cardinality(Lasting(s, "timeouts")) <= Cardinality(Lasting(s, "timeouts")')
          /\ Cardinality(Lasting(s, "errors")) <= Cardinality(Lasting(s, "errors")')
          /\ Cardinality(Settled(s)) <= Cardinality(Settled(s)')
      BY <1>2, <1>3, FS_Subset
    <2>2. /\ Cardinality(Lasting(s, "timeouts")') \in Nat
          /\ Cardinality(Lasting(s, "errors")') \in Nat
          /\ Cardinality(Settled(s)') \in Nat
      BY <1>3, FS_CardinalityType
    <2>3. /\ Cardinality(Lasting(s, "timeouts")) \in Nat
          /\ Cardinality(Lasting(s, "errors")) \in Nat
          /\ Cardinality(Settled(s)) \in Nat
      BY CountedAreFinite
    <2>4. /\ num[<<s, "timeouts">>] \in Nat /\ num[<<s, "errors">>] \in Nat
          /\ num[<<s, "success">>] \in Nat
      <3>1. \A c \in Counts : <<s, c>> \in Statement
        BY SlotStatements
      <3>2. QED
        BY <1>1, <3>1 DEF Counts
    <2>5. AtMost(s) /\ num' = num
      BY DEF CountInv, reportVars
    <2> DEFINE t == Cardinality(Lasting(s, "timeouts"))
               tt == Cardinality(Lasting(s, "timeouts")')
               e == Cardinality(Lasting(s, "errors"))
               ee == Cardinality(Lasting(s, "errors")')
               d == Cardinality(Settled(s))
               dd == Cardinality(Settled(s)')
    <2>6. num[<<s, "timeouts">>] <= t /\ num[<<s, "errors">>] <= e /\ num[<<s, "success">>] <= d
      BY <2>5 DEF AtMost
    <2>7. AtMost(s)' <=> /\ num[<<s, "timeouts">>] <= tt /\ num[<<s, "errors">>] <= ee
                         /\ num[<<s, "success">>] <= dd
      BY <2>5 DEF AtMost
    <2> HIDE DEF t, tt, e, ee, d, dd
    <2>8. t \in Nat /\ tt \in Nat /\ e \in Nat /\ ee \in Nat /\ d \in Nat /\ dd \in Nat
          /\ t <= tt /\ e <= ee /\ d <= dd
      BY <2>1, <2>2, <2>3 DEF t, tt, e, ee, d, dd
    <2>9. QED
      BY <2>4, <2>6, <2>7, <2>8
  <1>5. ASSUME NEW i \in 1..Len(SlotList)
        PROVE  AtLeast(i)'
    BY <1>2 DEF CountInv, AtLeast, reportVars
  <1>6. began' <= clock' /\ \A j \in known' : row'[j].status # "none"
    <2>1. began' = began /\ known' = known
      BY DEF reportVars
    <2>2. QED
      BY <1>1, <1>2, <2>1
  <1>7. QED
    BY <1>4, <1>5, <1>6 DEF CountInv

LEMMA ResultOfCount ==
    ASSUME NEW s, NEW c \in Counts
    PROVE  Result(<<s, c>>) = Cardinality(Chosen(s, c, began))
  BY DEF Result, Counts

(* A success that is counted is one of the jobs that stay settled, a       *)
(* failure one that lasts.                                                 *)
LEMMA CountsLast ==
    ASSUME RowTypes, NEW s
    PROVE  /\ Cardinality(Chosen(s, "success", began)) <= Cardinality(Settled(s))
           /\ Cardinality(Chosen(s, "timeouts", began)) <= Cardinality(Lasting(s, "timeouts"))
           /\ Cardinality(Chosen(s, "errors", began)) <= Cardinality(Lasting(s, "errors"))
  <1>1. Chosen(s, "success", began) \subseteq Settled(s)
    BY DEF Chosen, Settled, RowTypes, RowsConsistent, Of, Existing
  <1>2. /\ Chosen(s, "timeouts", began) \subseteq Lasting(s, "timeouts")
        /\ Chosen(s, "errors", began) \subseteq Lasting(s, "errors")
    BY DEF Chosen, Lasting, Blamed, IsProviderError
  <1>3. QED
    BY <1>1, <1>2, CountedAreFinite, FS_Subset

LEMMA ExecuteKeepsCounts ==
    ASSUME CountInv, Execute
    PROVE  CountInv'
  <1>1. RowTypes /\ TypeOK /\ RowTypes'
    BY NextKeepsTypes DEF CountInv, RowTypes, Next, Report
  <1>2. PICK statement \in Statement :
            /\ statement = Statements(kind)[step + 1]
            /\ ~Complete
            /\ num' = [num EXCEPT ![statement] = Result(statement)]
            /\ num' \in [Statement -> Nat]
            /\ num'[statement] = Result(statement)
            /\ \A other \in Statement : other # statement => num'[other] = num[other]
            /\ step' = step + 1
            /\ UNCHANGED <<clock, row, kind, began, known, reports, undone>>
    BY <1>1, Executed
  <1>3. /\ \A s, c : Chosen(s, c, began)' = Chosen(s, c, began) /\ Lasting(s, c)' = Lasting(s, c)
        /\ \A s : Settled(s)' = Settled(s) /\ Foreseen(s)' = Foreseen(s)
    BY <1>2 DEF Chosen, Lasting, Blamed, Settled, Foreseen, Of, Existing, IsProviderError, InWindow
  <1>4. ASSUME NEW s \in Slots
        PROVE  AtMost(s)'
    <2>1. \A c \in Counts : \/ num'[<<s, c>>] = num[<<s, c>>]
                            \/ num'[<<s, c>>] = Cardinality(Chosen(s, c, began))
      BY <1>2, SlotStatements, ResultOfCount
    <2>2. \A c \in Counts : Cardinality(Chosen(s, c, began)) \in Nat
                            /\ Cardinality(Lasting(s, c)) \in Nat
      BY CountedAreFinite
    <2>3. /\ Cardinality(Chosen(s, "success", began)) <= Cardinality(Settled(s))
          /\ Cardinality(Chosen(s, "timeouts", began)) <= Cardinality(Lasting(s, "timeouts"))
          /\ Cardinality(Chosen(s, "errors", began)) <= Cardinality(Lasting(s, "errors"))
      BY <1>1, CountsLast
    <2>4. "timeouts" \in Counts /\ "errors" \in Counts /\ "success" \in Counts
      BY DEF Counts
    <2>5. AtMost(s)
      BY DEF CountInv
    <2>6. num'[<<s, "timeouts">>] <= Cardinality(Lasting(s, "timeouts"))
      BY <2>1, <2>3, <2>4, <2>5 DEF AtMost
    <2>7. num'[<<s, "errors">>] <= Cardinality(Lasting(s, "errors"))
      BY <2>1, <2>3, <2>4, <2>5 DEF AtMost
    <2>8. num'[<<s, "success">>] <= Cardinality(Settled(s))
      BY <2>1, <2>3, <2>4, <2>5 DEF AtMost
    <2>9. QED
      BY <1>3, <2>6, <2>7, <2>8 DEF AtMost
  <1>5. ASSUME NEW i \in 1..Len(SlotList)
        PROVE  AtLeast(i)'
    <2> SUFFICES ASSUME kind # "none", step + 1 >= Ahead(kind) + Place(i, 1)
                 PROVE  Cardinality(Foreseen(SlotList[i])) <= num'[<<SlotList[i], "jobs">>]
      BY <1>2, <1>3 DEF AtLeast
    <2> DEFINE s == SlotList[i]
    <2>1. s \in Slots /\ <<s, "jobs">> \in Statement /\ "jobs" \in Counts /\ Len(SlotList) \in Nat
      BY SlotListIs, SlotStatements DEF Counts
    <2>2. CASE statement = <<s, "jobs">>
      <3>1. num'[<<s, "jobs">>] = Cardinality(Chosen(s, "jobs", began))
        BY <1>2, <2>1, <2>2, ResultOfCount
      <3>2. Foreseen(s) \subseteq Chosen(s, "jobs", began)
        BY DEF Foreseen, Chosen
      <3>3. Cardinality(Foreseen(s)) <= Cardinality(Chosen(s, "jobs", began))
        BY <3>2, CountedAreFinite, FS_Subset
      <3>4. QED
        BY <3>1, <3>3
    <2>3. CASE statement # <<s, "jobs">>
      <3>1. num'[<<s, "jobs">>] = num[<<s, "jobs">>]
        BY <1>2, <2>1, <2>3
      <3>2. step + 1 # Ahead(kind) + Place(i, 1)
        <4> SUFFICES ASSUME step + 1 = Ahead(kind) + Place(i, 1) PROVE FALSE
          OBVIOUS
        <4>1. kind = "overview" => step + 1 \notin 1..3
          BY <2>1 DEF Ahead, Place
        <4>2. kind = "slot_stats" => step + 1 # Len(SlotStats)
          BY <2>1, SlotStatsAre DEF Ahead, Place
        <4>3. PICK j \in 1..Len(SlotList), q \in 1..4 :
                  /\ step + 1 = Ahead(kind) + Place(j, q)
                  /\ statement = <<SlotList[j], SlotCounts[q]>>
          BY <1>1, <1>2, <4>1, <4>2, NextStatement
        <4>4. Place(j, q) = Place(i, 1)
          BY <2>1, <4>3 DEF Ahead, Place
        <4>5. i = j /\ q = 1
          BY <2>1, <4>4, PlacesDiffer
        <4>6. QED
          BY <2>3, <4>3, <4>5, CountsAre
      <3>3. step >= Ahead(kind) + Place(i, 1)
        <4>1. step \in Nat /\ Ahead(kind) + Place(i, 1) \in Nat
          <5>1. Len(Statements(kind)) \in Nat
            BY <1>1, OverviewIs, SlotStatsAre, EmptySeq, LenProperties DEF Statements, TypeOK
          <5>2. QED
            BY <1>1, <2>1, <5>1 DEF TypeOK, Ahead, Place
        <4>2. QED
          BY <3>2, <4>1
      <3>4. QED
        BY <3>1, <3>3 DEF CountInv, AtLeast
    <2>4. QED
      BY <2>2, <2>3
  <1>6. began' <= clock' /\ \A j \in known' : row'[j].status # "none"
    BY <1>2 DEF CountInv
  <1>7. QED
    BY <1>1, <1>4, <1>5, <1>6 DEF CountInv

LEMMA StartKeepsCounts ==
    ASSUME CountInv, NEW report \in {"overview", "slot_stats"}, StartReport(report)
    PROVE  CountInv'
  <1>1. RowTypes /\ TypeOK /\ RowTypes'
    BY NextKeepsTypes DEF CountInv, RowTypes, Next, Report
  <1>2. /\ UNCHANGED <<clock, row>> /\ kind' = report /\ step' = 0
        /\ num' = [s \in Statement |-> 0]
        /\ began' = clock /\ known' = Existing
    BY DEF StartReport
  <1>3. \A s, c : /\ Cardinality(Lasting(s, c)') \in Nat
                  /\ Cardinality(Settled(s)') \in Nat
    <2>1. \A s, c : Lasting(s, c)' \subseteq Jobs /\ Settled(s)' \subseteq Jobs
      BY DEF Lasting, Settled, Of, Existing
    <2>2. QED
      BY <2>1, StatsAssumption, FS_Subset, FS_CardinalityType
  <1>4. ASSUME NEW s \in Slots
        PROVE  AtMost(s)'
    <2>1. \A c \in Counts : num'[<<s, c>>] = 0
      BY <1>2, SlotStatements
    <2>2. /\ num'[<<s, "timeouts">>] = 0 /\ num'[<<s, "errors">>] = 0
          /\ num'[<<s, "success">>] = 0
      BY <2>1 DEF Counts
    <2>3. \A m \in Nat : 0 <= m
      OBVIOUS
    <2>4. QED
      BY <1>3, <2>2, <2>3 DEF AtMost
  <1>5. ASSUME NEW i \in 1..Len(SlotList)
        PROVE  AtLeast(i)'
    <2>1. Ahead(report) + Place(i, 1) > 0
      BY SlotListIs DEF Ahead, Place
    <2>2. ~(0 >= Ahead(report) + Place(i, 1))
      BY <2>1, SlotListIs DEF Ahead, Place
    <2>3. QED
      BY <1>2, <2>2 DEF AtLeast
  <1>6. began' <= clock' /\ \A j \in known' : row'[j].status # "none"
    BY <1>1, <1>2 DEF TypeOK, Existing
  <1>7. QED
    BY <1>1, <1>4, <1>5, <1>6 DEF CountInv

LEMMA NextKeepsCounts ==
    ASSUME CountInv, [Next]_vars
    PROVE  CountInv'
  <1>1. RowTypes /\ TypeOK /\ RowsConsistent /\ RowTypes'
    BY NextKeepsTypes DEF CountInv, RowTypes
  <1>2. clock \in Nat /\ clock' \in Nat
    BY <1>1 DEF RowTypes, TypeOK
  <1>3. CASE Tick \/ UNCHANGED vars
    <2>1. UNCHANGED <<row, reportVars, undone>> /\ clock <= clock'
      BY <1>2, <1>3 DEF Tick, vars
    <2>2. \A j \in Jobs : GoesOn(j)
      BY <2>1 DEF GoesOn
    <2>3. QED
      BY <1>1, <1>2, <2>1, <2>2, CountsStay
  <1>4. ASSUME NEW j \in Jobs,
               \/ Open(j) \/ UploadTemplate(j) \/ SetResult(j)
               \/ \E verdict \in Verdicts : SetFailure(j, verdict)
        PROVE  CountInv'
    <2>1. UNCHANGED <<clock, reportVars>> /\ \A i \in Jobs : GoesOn(i)
      BY <1>1, <1>4, WritersGoOn
    <2>2. clock <= clock'
      BY <1>2, <2>1
    <2>3. QED
      BY <1>1, <1>2, <2>1, <2>2, CountsStay
  <1>5. QED
    BY <1>3, <1>4, ExecuteKeepsCounts, StartKeepsCounts DEF Next, WriteRow, Report

LEMMA InitCounts == Init => CountInv
  <1> SUFFICES ASSUME Init PROVE CountInv
    OBVIOUS
  <1>1. RowTypes
    BY InitTypes
  <1>2. ASSUME NEW s \in Slots
        PROVE  AtMost(s)
    <2>1. \A c \in Counts : num[<<s, c>>] = 0
      BY SlotStatements DEF Init
    <2>2. num[<<s, "timeouts">>] = 0 /\ num[<<s, "errors">>] = 0 /\ num[<<s, "success">>] = 0
      BY <2>1 DEF Counts
    <2>3. \A m \in Nat : 0 <= m
      OBVIOUS
    <2>4. QED
      BY <2>2, <2>3, CountedAreFinite DEF AtMost
  <1>3. \A i \in 1..Len(SlotList) : AtLeast(i)
    BY DEF Init, AtLeast
  <1>4. began <= clock /\ known = {}
    BY DEF Init
  <1>5. QED
    BY <1>1, <1>2, <1>3, <1>4 DEF CountInv

(* A report that is complete has counted the jobs of every slot. *)
LEMMA CompleteCounts ==
    ASSUME CountInv, Finished("overview") \/ Finished("slot_stats"), NEW s \in Slots
    PROVE  Cardinality(Foreseen(s)) <= num[<<s, "jobs">>]
  <1>1. kind \in {"overview", "slot_stats"} /\ step = Len(Statements(kind)) /\ Len(SlotList) \in Nat
    BY SlotListIs DEF Finished, Complete
  <1>2. PICK i \in 1..Len(SlotList) : s = SlotList[i]
    BY SlotListIs
  <1>3. Place(i, 1) <= 4 * Len(SlotList) /\ Place(i, 1) \in Nat
    BY <1>1 DEF Place
  <1>4. step >= Ahead(kind) + Place(i, 1)
    <2>1. CASE kind = "overview"
      BY <1>1, <1>3, <2>1, OverviewIs DEF Statements, Ahead
    <2>2. CASE kind = "slot_stats"
      BY <1>1, <1>3, <2>2, SlotStatsAre DEF Statements, Ahead
    <2>3. QED
      BY <1>1, <2>1, <2>2
  <1>5. QED
    BY <1>1, <1>2, <1>4 DEF CountInv, AtLeast

(* Every verdict a report counts for a slot belongs to a job of its own:   *)
(* one that it counted as started, or one outside its window or younger    *)
(* than the report.                                                        *)
THEOREM VerdictsHaveJobs == Spec => []VerdictsAreAccountedFor
  <1>1. CountInv => VerdictsAreAccountedFor
    <2> SUFFICES ASSUME CountInv, NEW s \in Slots,
                        Finished("overview") \/ Finished("slot_stats")
                 PROVE  LET uncounted == {j \in Of(s) : /\ InWindow(row[j].completed, began)
                                                        /\ \/ j \notin known
                                                           \/ ~InWindow(row[j].started, began)}
                        IN  num[<<s, "timeouts">>] + num[<<s, "errors">>] + num[<<s, "success">>]
                                <= num[<<s, "jobs">>] + Cardinality(uncounted)
      BY DEF VerdictsAreAccountedFor
    <2> DEFINE uncounted == {j \in Of(s) : /\ InWindow(row[j].completed, began)
                                           /\ \/ j \notin known
                                              \/ ~InWindow(row[j].started, began)}
               timeouts == Lasting(s, "timeouts")
               errors == Lasting(s, "errors")
               settled == Settled(s)
               foreseen == Foreseen(s)
    <2>1. RowTypes /\ RowsConsistent /\ num \in [Statement -> Nat]
      BY DEF CountInv, RowTypes, TypeOK
    <2>2. timeouts \cap errors = {} /\ (timeouts \cup errors) \cap settled = {}
      BY <2>1 DEF Lasting, Blamed, Settled, Of, Existing, RowsConsistent
    <2>3. (timeouts \cup errors) \cup settled \subseteq foreseen \cup uncounted
      BY DEF Lasting, Settled, Foreseen, Of, Existing
    <2>4. /\ IsFiniteSet(timeouts) /\ IsFiniteSet(errors) /\ IsFiniteSet(settled)
          /\ IsFiniteSet(foreseen) /\ IsFiniteSet(uncounted)
      <3>1. IsFiniteSet(Of(s)) /\ uncounted \subseteq Of(s)
        BY CountedAreFinite
      <3>2. IsFiniteSet(uncounted)
        BY <3>1, FS_Subset
      <3>3. QED
        BY <3>2, CountedAreFinite
    <2>5. /\ num[<<s, "timeouts">>] <= Cardinality(timeouts)
          /\ num[<<s, "errors">>] <= Cardinality(errors)
          /\ num[<<s, "success">>] <= Cardinality(settled)
          /\ Cardinality(foreseen) <= num[<<s, "jobs">>]
      BY CompleteCounts DEF CountInv, AtMost
    <2>6. /\ num[<<s, "timeouts">>] \in Nat /\ num[<<s, "errors">>] \in Nat
          /\ num[<<s, "success">>] \in Nat /\ num[<<s, "jobs">>] \in Nat
      <3>1. \A c \in Counts : <<s, c>> \in Statement
        BY SlotStatements
      <3>2. QED
        BY <2>1, <3>1 DEF Counts
    <2> HIDE DEF timeouts, errors, settled, foreseen, uncounted
    <2>7. /\ IsFiniteSet(timeouts \cup errors)
          /\ Cardinality(timeouts \cup errors) = Cardinality(timeouts) + Cardinality(errors)
      <3>1. Cardinality(timeouts \cap errors) = 0 /\ Cardinality(timeouts) \in Nat
            /\ Cardinality(errors) \in Nat
        BY <2>2, <2>4, FS_EmptySet, FS_CardinalityType
      <3>2. /\ IsFiniteSet(timeouts \cup errors)
            /\ Cardinality(timeouts \cup errors)
                  = Cardinality(timeouts) + Cardinality(errors) - Cardinality(timeouts \cap errors)
        BY <2>4, FS_Union
      <3>3. QED
        BY <3>1, <3>2
    <2> DEFINE failed == timeouts \cup errors
    <2> HIDE DEF failed
    <2>8. /\ IsFiniteSet(failed \cup settled)
          /\ Cardinality(failed \cup settled) = Cardinality(failed) + Cardinality(settled)
      <3>1. Cardinality(failed \cap settled) = 0 /\ Cardinality(failed) \in Nat
            /\ Cardinality(settled) \in Nat
        BY <2>2, <2>4, <2>7, FS_EmptySet, FS_CardinalityType DEF failed
      <3>2. /\ IsFiniteSet(failed \cup settled)
            /\ Cardinality(failed \cup settled)
                  = Cardinality(failed) + Cardinality(settled) - Cardinality(failed \cap settled)
        BY <2>4, <2>7, FS_Union DEF failed
      <3>3. QED
        BY <3>1, <3>2
    <2>9. /\ IsFiniteSet(foreseen \cup uncounted)
          /\ Cardinality(foreseen \cup uncounted) <= Cardinality(foreseen) + Cardinality(uncounted)
      <3>1. IsFiniteSet(foreseen \cap uncounted)
        BY <2>4, FS_Subset
      <3>2. Cardinality(foreseen \cap uncounted) \in Nat /\ Cardinality(foreseen) \in Nat
            /\ Cardinality(uncounted) \in Nat
        BY <2>4, <3>1, FS_CardinalityType
      <3>3. /\ IsFiniteSet(foreseen \cup uncounted)
            /\ Cardinality(foreseen \cup uncounted)
                  = Cardinality(foreseen) + Cardinality(uncounted) - Cardinality(foreseen \cap uncounted)
        BY <2>4, FS_Union
      <3>4. QED
        BY <3>2, <3>3
    <2>10. Cardinality(failed \cup settled) <= Cardinality(foreseen \cup uncounted)
      BY <2>3, <2>9, FS_Subset DEF failed
    <2>11. /\ Cardinality(timeouts) \in Nat /\ Cardinality(errors) \in Nat
           /\ Cardinality(settled) \in Nat /\ Cardinality(failed) \in Nat
           /\ Cardinality(foreseen) \in Nat /\ Cardinality(uncounted) \in Nat
           /\ Cardinality(failed \cup settled) \in Nat /\ Cardinality(foreseen \cup uncounted) \in Nat
      BY <2>4, <2>7, <2>8, <2>9, FS_CardinalityType DEF failed
    <2>12. Cardinality(failed) = Cardinality(timeouts) + Cardinality(errors)
      BY <2>7 DEF failed
    <2>13. num[<<s, "timeouts">>] + num[<<s, "errors">>] + num[<<s, "success">>]
               <= num[<<s, "jobs">>] + Cardinality(uncounted)
      BY <2>5, <2>6, <2>8, <2>9, <2>10, <2>11, <2>12
    <2>14. QED
      BY <2>13 DEF uncounted
  <1>2. CountInv /\ [Next]_vars => CountInv'
    BY NextKeepsCounts
  <1>3. QED
    BY <1>1, <1>2, InitCounts, PTL DEF Spec

-----------------------------------------------------------------------------
(* The totals of an overview.  What the system as a whole showed for a     *)
(* count is at most the sum, over the slots, of what their statements have *)
(* returned or, where they are still to come, would return now: for jobs   *)
(* always, for failures until one is taken back.                           *)
Shown(q) ==
    [i \in DOMAIN SlotList |->
        IF step >= 3 + Place(i, q)
        THEN num[<<SlotList[i], SlotCounts[q]>>]
        ELSE Cardinality(Chosen(SlotList[i], SlotCounts[q], began))]

OverviewAddsUp ==
    kind = "overview" =>
        \A q \in 1..3 : step >= q /\ (q = 1 \/ NothingUndone) =>
            num[<<All, SlotCounts[q]>>] <= Sums(Shown(q))[Len(SlotList)]

ListAddsUp ==
    Finished("slot_stats") /\ NothingUndone =>
        \/ SumOverSlots("timeouts") + SumOverSlots("errors") <= num[<<All, "failures">>]
        \/ num[<<All, "failures">>] = FailureLimit

AddUpInv == CountInv /\ OverviewAddsUp /\ ListAddsUp

LEMMA StepIsNumber ==
    ASSUME TypeOK
    PROVE  step \in Nat /\ Len(Statements(kind)) \in Nat
  <1>1. Len(Statements(kind)) \in Nat
    BY OverviewIs, SlotStatsAre, EmptySeq, LenProperties DEF Statements, TypeOK
  <1>2. QED
    BY <1>1 DEF TypeOK

LEMMA ShownAreNumbers ==
    ASSUME TypeOK, NEW q \in 1..4
    PROVE  \A i \in 1..Len(SlotList) : Shown(q)[i] \in Nat
  <1>1. \A i \in 1..Len(SlotList) : <<SlotList[i], SlotCounts[q]>> \in Statement
    BY SlotListIs, CountsAre, SlotStatements
  <1>2. \A i \in 1..Len(SlotList) : num[<<SlotList[i], SlotCounts[q]>>] \in Nat
    BY <1>1 DEF TypeOK
  <1>3. DOMAIN SlotList = 1..Len(SlotList)
    BY SlotListIs
  <1>4. QED
    BY <1>2, <1>3, CountedAreFinite DEF Shown

(* A step that leaves the reports alone. *)
LEMMA TotalsStay ==
    ASSUME AddUpInv, RowTypes', UNCHANGED reportVars, \A j \in Jobs : GoesOn(j)
    PROVE  OverviewAddsUp' /\ ListAddsUp'
  <1>1. /\ RowTypes /\ TypeOK /\ began <= clock /\ \A j \in known : row[j].status # "none"
        /\ TypeOK'
    BY DEF AddUpInv, CountInv, RowTypes
  <1>2. UNCHANGED <<kind, began, step, num>>
    BY DEF reportVars
  <1>3. /\ \A x : Chosen(x, "jobs", began) \subseteq Chosen(x, "jobs", began)'
        /\ NothingUndone' =>
              /\ NothingUndone
              /\ \A x : \A c \in Kept : Chosen(x, c, began) \subseteq Chosen(x, c, began)'
    BY <1>1, CountedStay
  <1>4. ListAddsUp'
    <2> SUFFICES ASSUME Finished("slot_stats")', NothingUndone'
                 PROVE  \/ SumOverSlots("timeouts")' + SumOverSlots("errors")' <= num'[<<All, "failures">>]
                        \/ num'[<<All, "failures">>] = FailureLimit
      BY DEF ListAddsUp
    <2>1. Finished("slot_stats") /\ NothingUndone
      BY <1>2, <1>3 DEF Finished, Complete
    <2>2. QED
      BY <1>2, <2>1 DEF AddUpInv, ListAddsUp, SumOverSlots
  <1>5. ASSUME NEW q \in 1..3, kind = "overview", step >= q, q = 1 \/ NothingUndone'
        PROVE  num[<<All, SlotCounts[q]>>] <= Sums(Shown(q)')[Len(SlotList)]
    <2> DEFINE old == Shown(q)
               new == Shown(q)'
    <2>1. q \in 1..4 /\ SlotCounts[q] \in Kept
      <3>1. q = 1 \/ q = 2 \/ q = 3
        OBVIOUS
      <3>2. QED
        BY <3>1, CountsAre DEF Kept
    <2>2. \A i \in 1..Len(SlotList) : old[i] \in Nat
      BY <1>1, <2>1, ShownAreNumbers
    <2>3. \A i \in 1..Len(SlotList) : new[i] \in Nat /\ old[i] <= new[i]
      <3> SUFFICES ASSUME NEW i \in 1..Len(SlotList) PROVE new[i] \in Nat /\ old[i] <= new[i]
        OBVIOUS
      <3> DEFINE S == Chosen(SlotList[i], SlotCounts[q], began)
                 SS == Chosen(SlotList[i], SlotCounts[q], began)'
      <3>1. S \subseteq SS /\ SS \subseteq Jobs
        <4>1. SS \subseteq Jobs
          BY DEF Chosen, Of, Existing
        <4>2. S \subseteq SS
          <5>1. q = 1 => SlotCounts[q] = "jobs"
            BY CountsAre
          <5>2. QED
            BY <1>5, <1>3, <2>1, <5>1
        <4>3. QED
          BY <4>1, <4>2
      <3>2. IsFiniteSet(SS) /\ Cardinality(S) <= Cardinality(SS)
        BY <3>1, StatsAssumption, FS_Subset
      <3>3. Cardinality(SS) \in Nat
        BY <3>2, FS_CardinalityType
      <3>4. i \in DOMAIN SlotList
        BY SlotListIs
      <3>5. new[i] = IF step >= 3 + Place(i, q) THEN num[<<SlotList[i], SlotCounts[q]>>]
                     ELSE Cardinality(SS)
        BY <1>2, <3>4 DEF Shown
      <3>6. old[i] = IF step >= 3 + Place(i, q) THEN num[<<SlotList[i], SlotCounts[q]>>]
                     ELSE Cardinality(S)
        BY <3>4 DEF Shown
      <3>7. old[i] \in Nat
        BY <2>2
      <3> HIDE DEF S, SS, old, new
      <3>8. CASE step >= 3 + Place(i, q)
        BY <3>5, <3>6, <3>7, <3>8
      <3>9. CASE ~(step >= 3 + Place(i, q))
        BY <3>2, <3>3, <3>5, <3>6, <3>7, <3>9
      <3>10. QED
        BY <3>8, <3>9
    <2>4. num[<<All, SlotCounts[q]>>] <= Sums(old)[Len(SlotList)]
      BY <1>5, <1>3 DEF AddUpInv, OverviewAddsUp
    <2>5. num[<<All, SlotCounts[q]>>] \in Nat
      <3>1. <<All, SlotCounts[q]>> \in Statement
        BY <2>1, CountsAre, SlotStatements
      <3>2. QED
        BY <1>1, <3>1 DEF TypeOK
    <2> HIDE DEF old, new
    <2>6. Sums(old)[Len(SlotList)] <= Sums(new)[Len(SlotList)]
      BY <2>2, <2>3, SumGrows
    <2>7. Len(SlotList) \in 0..Len(SlotList)
      BY SlotListIs
    <2>8. Sums(old)[Len(SlotList)] \in Nat /\ Sums(new)[Len(SlotList)] \in Nat
      BY <2>2, <2>3, <2>7, SumIsNumber
    <2>9. num[<<All, SlotCounts[q]>>] <= Sums(new)[Len(SlotList)]
      BY <2>4, <2>5, <2>6, <2>8
    <2>10. QED
      BY <2>9 DEF new
  <1>6. \A q \in 1..3 : Sums(Shown(q))' = Sums(Shown(q)')
    BY DEF Sums
  <1>7. OverviewAddsUp'
    BY <1>2, <1>5, <1>6 DEF OverviewAddsUp
  <1>8. QED
    BY <1>4, <1>7

(* The slots share no job, and every job is of one of them. *)
LEMMA SlotsPartition ==
    ASSUME TypeOK, NEW c
    PROVE  /\ \A i, j \in 1..Len(SlotList) : i # j =>
                 Chosen(SlotList[i], c, began) \cap Chosen(SlotList[j], c, began) = {}
           /\ \A i \in 1..Len(SlotList) :
                 Chosen(SlotList[i], c, began) \subseteq Chosen(All, c, began)
           /\ \A x \in Chosen(All, c, began) : \E i \in 1..Len(SlotList) :
                 x \in Chosen(SlotList[i], c, began)
  <1>1. /\ \A i \in 1..Len(SlotList) : SlotList[i] \in Slots /\ SlotList[i] # All
        /\ \A s \in Slots : \E i \in 1..Len(SlotList) : s = SlotList[i]
        /\ \A i, j \in 1..Len(SlotList) : SlotList[i] = SlotList[j] => i = j
        /\ \A x \in Jobs : SlotOf[x] \in Slots
    BY SlotListIs, StatsAssumption
  <1>2. \A i \in 1..Len(SlotList) : \A x \in Of(SlotList[i]) : SlotOf[x] = SlotList[i]
    BY <1>1 DEF Of
  <1>3. \A i \in 1..Len(SlotList) : Of(SlotList[i]) \subseteq Of(All)
    BY DEF Of
  <1>4. \A x \in Of(All) : \E i \in 1..Len(SlotList) : x \in Of(SlotList[i])
    BY <1>1 DEF Of, Existing
  <1>5. ASSUME NEW i \in 1..Len(SlotList), NEW j \in 1..Len(SlotList), i # j
        PROVE  Chosen(SlotList[i], c, began) \cap Chosen(SlotList[j], c, began) = {}
    <2>1. SlotList[i] # SlotList[j]
      BY <1>1, <1>5
    <2>2. \A x \in Chosen(SlotList[i], c, began) : SlotOf[x] = SlotList[i]
      BY <1>2 DEF Chosen
    <2>3. \A x \in Chosen(SlotList[j], c, began) : SlotOf[x] = SlotList[j]
      BY <1>2 DEF Chosen
    <2>4. QED
      BY <2>1, <2>2, <2>3
  <1>6. \A i \in 1..Len(SlotList) : Chosen(SlotList[i], c, began) \subseteq Chosen(All, c, began)
    BY <1>3 DEF Chosen
  <1>7. \A x \in Chosen(All, c, began) : \E i \in 1..Len(SlotList) :
            x \in Chosen(SlotList[i], c, began)
    BY <1>4 DEF Chosen
  <1>8. QED
    BY <1>5, <1>6, <1>7

(* So is what lasts. *)
LEMMA LastingApart ==
    ASSUME NEW c
    PROVE  /\ \A i, j \in 1..Len(SlotList) : i # j =>
                 Lasting(SlotList[i], c) \cap Lasting(SlotList[j], c) = {}
           /\ \A i \in 1..Len(SlotList) : Lasting(SlotList[i], c) \subseteq Lasting(All, c)
  <1>1. /\ \A i \in 1..Len(SlotList) : SlotList[i] \in Slots /\ SlotList[i] # All
        /\ \A i, j \in 1..Len(SlotList) : SlotList[i] = SlotList[j] => i = j
    BY SlotListIs, StatsAssumption
  <1>2. \A i \in 1..Len(SlotList) : \A x \in Of(SlotList[i]) : SlotOf[x] = SlotList[i]
    BY <1>1 DEF Of
  <1>3. \A i, j \in 1..Len(SlotList) : i # j =>
            Lasting(SlotList[i], c) \cap Lasting(SlotList[j], c) = {}
    BY <1>1, <1>2 DEF Lasting
  <1>4. \A i \in 1..Len(SlotList) : Lasting(SlotList[i], c) \subseteq Lasting(All, c)
    BY DEF Lasting, Of
  <1>5. QED
    BY <1>3, <1>4

(* A statement over all slots shows no more than the slots have now. *)
LEMMA TotalIsCovered ==
    ASSUME TypeOK, NEW q \in 1..3, step < q
    PROVE  Cardinality(Chosen(All, SlotCounts[q], began)) <= Sums(Shown(q))[Len(SlotList)]
  <1> DEFINE X == Chosen(All, SlotCounts[q], began)
             S == [i \in 1..Len(SlotList) |-> Chosen(SlotList[i], SlotCounts[q], began)]
             f == Shown(q)
  <1>1. \A i \in 1..Len(SlotList) : f[i] = Cardinality(S[i])
    <2> SUFFICES ASSUME NEW i \in 1..Len(SlotList) PROVE f[i] = Cardinality(S[i])
      OBVIOUS
    <2>1. ~(step >= 3 + Place(i, q))
      BY StepIsNumber, SlotListIs DEF Place
    <2>2. i \in DOMAIN SlotList
      BY SlotListIs
    <2>3. QED
      BY <2>1, <2>2 DEF Shown
  <1>2. \A i \in 1..Len(SlotList) : IsFiniteSet(S[i]) /\ Cardinality(S[i]) \in Nat
    BY CountedAreFinite
  <1>3. \A x \in X : \E i \in 1..Len(SlotList) : x \in S[i]
    BY SlotsPartition
  <1> HIDE DEF X, S, f
  <1>4. \A i \in 1..Len(SlotList) : IsFiniteSet(S[i]) /\ Cardinality(S[i]) <= f[i] /\ f[i] \in Nat
    BY <1>1, <1>2
  <1>5. Cardinality(X) <= Sums(f)[Len(SlotList)]
    BY <1>3, <1>4, UnionIsCovered
  <1>6. QED
    BY <1>5 DEF X, f

(* What the slots have been counted for fits into all that lasts. *)
LEMMA SlotsFit ==
    ASSUME CountInv, NEW c \in {"timeouts", "errors"}
    PROVE  /\ SumOverSlots(c) \in Nat
           /\ SumOverSlots(c) <= Cardinality(Lasting(All, c))
  <1> DEFINE X == Lasting(All, c)
             S == [i \in 1..Len(SlotList) |-> Lasting(SlotList[i], c)]
             f == [i \in DOMAIN SlotList |-> num[<<SlotList[i], c>>]]
  <1>1. TypeOK /\ \A s \in Slots : AtMost(s)
    BY DEF CountInv, RowTypes
  <1>2. ASSUME NEW i \in 1..Len(SlotList)
        PROVE  f[i] \in Nat /\ f[i] <= Cardinality(S[i])
    <2>1. SlotList[i] \in Slots /\ i \in DOMAIN SlotList
      BY SlotListIs
    <2>2. <<SlotList[i], c>> \in Statement
      BY <2>1, SlotStatements DEF Counts
    <2>3. f[i] = num[<<SlotList[i], c>>] /\ S[i] = Lasting(SlotList[i], c)
      BY <2>1
    <2>4. num[<<SlotList[i], c>>] \in Nat
      BY <1>1, <2>2 DEF TypeOK
    <2>5. AtMost(SlotList[i])
      BY <1>1, <2>1
    <2>6. CASE c = "timeouts"
      BY <2>3, <2>4, <2>5, <2>6 DEF AtMost
    <2>7. CASE c = "errors"
      BY <2>3, <2>4, <2>5, <2>7 DEF AtMost
    <2>8. QED
      BY <2>6, <2>7
  <1>3. \A i \in 1..Len(SlotList) : S[i] \subseteq X
    BY LastingApart
  <1>4. \A i, j \in 1..Len(SlotList) : i # j => S[i] \cap S[j] = {}
    BY LastingApart
  <1>5. IsFiniteSet(X)
    BY CountedAreFinite
  <1>6. SumOverSlots(c) = Sums(f)[Len(SlotList)]
    BY DEF SumOverSlots
  <1>7. Len(SlotList) \in 0..Len(SlotList)
    BY SlotListIs
  <1> HIDE DEF X, S, f
  <1>8. Sums(f)[Len(SlotList)] \in Nat
    BY <1>2, <1>7, SumIsNumber
  <1>9. Sums(f)[Len(SlotList)] <= Cardinality(X)
    BY <1>2, <1>3, <1>4, <1>5, DisjointFit
  <1>10. QED
    BY <1>6, <1>8, <1>9 DEF X

(* The list of failures holds those of all slots, up to its limit. *)
LEMMA ListIsCovered ==
    ASSUME CountInv, NothingUndone
    PROVE  \/ SumOverSlots("timeouts") + SumOverSlots("errors") <= Result(<<All, "failures">>)
           \/ Result(<<All, "failures">>) = FailureLimit
  <1> DEFINE timeouts == Lasting(All, "timeouts")
             errors == Lasting(All, "errors")
             found == Failures(began)
  <1>1. RowTypes /\ RowsConsistent
    BY DEF CountInv, RowTypes
  <1>2. timeouts \cap errors = {} /\ timeouts \cup errors \subseteq found
    <2>1. \A j \in timeouts : j \in Jobs /\ row[j].status = "timeout"
      BY DEF NothingUndone, Lasting, Blamed, Of, Existing
    <2>2. \A j \in errors : j \in Jobs /\ row[j].reason = "provider_error"
      BY DEF NothingUndone, Lasting, Blamed, Of, Existing
    <2>3. \A j \in timeouts \cup errors : j \in Existing /\ InWindow(row[j].completed, began)
      BY DEF Lasting, Of
    <2> HIDE DEF timeouts, errors
    <2>4. \A j \in timeouts : row[j].reason = "provider_timeout"
      BY <1>1, <2>1 DEF RowsConsistent
    <2>5. QED
      BY <2>1, <2>2, <2>3, <2>4 DEF Failures, ProviderReasons
  <1>3. IsFiniteSet(timeouts) /\ IsFiniteSet(errors) /\ IsFiniteSet(found)
    <2>1. found \subseteq Jobs
      BY DEF Failures, Existing
    <2>2. QED
      BY <2>1, CountedAreFinite, StatsAssumption, FS_Subset
  <1>4. /\ SumOverSlots("timeouts") \in Nat /\ SumOverSlots("timeouts") <= Cardinality(timeouts)
        /\ SumOverSlots("errors") \in Nat /\ SumOverSlots("errors") <= Cardinality(errors)
    BY SlotsFit
  <1>5. Result(<<All, "failures">>)
            = IF Cardinality(found) < FailureLimit THEN Cardinality(found) ELSE FailureLimit
    BY DEF Result
  <1> HIDE DEF timeouts, errors, found
  <1>6. Cardinality(timeouts \cap errors) = 0 /\ Cardinality(timeouts) \in Nat
        /\ Cardinality(errors) \in Nat /\ Cardinality(found) \in Nat
    BY <1>2, <1>3, FS_EmptySet, FS_CardinalityType
  <1>7. Cardinality(timeouts \cup errors)
            = Cardinality(timeouts) + Cardinality(errors) - Cardinality(timeouts \cap errors)
    BY <1>3, FS_Union
  <1>8. Cardinality(timeouts \cup errors) <= Cardinality(found)
    BY <1>2, <1>3, FS_Subset
  <1>9. FailureLimit \in Nat
    BY StatsAssumption
  <1>10. Cardinality(timeouts) + Cardinality(errors) <= Cardinality(found)
    BY <1>6, <1>7, <1>8
  <1>11. SumOverSlots("timeouts") + SumOverSlots("errors") <= Cardinality(found)
    BY <1>4, <1>6, <1>10
  <1>12. QED
    BY <1>5, <1>9, <1>11

(* What a statement returns is what it would have been counted for. *)
LEMMA ShownStays ==
    ASSUME TypeOK, Execute, kind = "overview", NEW q \in 1..3
    PROVE  Shown(q)' = Shown(q)
  <1>1. PICK statement \in Statement :
            /\ statement = Statements(kind)[step + 1]
            /\ ~Complete
            /\ num' = [num EXCEPT ![statement] = Result(statement)]
            /\ num' \in [Statement -> Nat]
            /\ num'[statement] = Result(statement)
            /\ \A other \in Statement : other # statement => num'[other] = num[other]
            /\ step' = step + 1
            /\ UNCHANGED <<clock, row, kind, began, known, reports, undone>>
    BY Executed
  <1>2. /\ q \in 1..4 /\ q \in Nat /\ SlotCounts[q] \in Counts /\ step \in Nat /\ Len(SlotList) \in Nat
        /\ DOMAIN SlotList = 1..Len(SlotList)
    BY CountsAre, SlotListIs, StepIsNumber
  <1>3. \A s, c : Chosen(s, c, began)' = Chosen(s, c, began)
    BY <1>1 DEF Chosen, Of, Existing, IsProviderError, InWindow
  <1>4. ASSUME NEW i \in 1..Len(SlotList)
        PROVE  (IF step + 1 >= 3 + Place(i, q)
                THEN num'[<<SlotList[i], SlotCounts[q]>>]
                ELSE Cardinality(Chosen(SlotList[i], SlotCounts[q], began)))
               = (IF step >= 3 + Place(i, q)
                  THEN num[<<SlotList[i], SlotCounts[q]>>]
                  ELSE Cardinality(Chosen(SlotList[i], SlotCounts[q], began)))
    <2> DEFINE mine == <<SlotList[i], SlotCounts[q]>>
    <2>1. mine \in Statement /\ SlotList[i] # All
      BY <1>2, SlotListIs, SlotStatements, StatsAssumption
    <2>2. Place(i, q) \in Nat
      BY <1>2 DEF Place
    <2>3. CASE step + 1 = 3 + Place(i, q)
      <3>1. ~(step >= 3 + Place(i, q)) /\ step + 1 >= 3 + Place(i, q)
        BY <1>2, <2>2, <2>3
      <3>2. statement = mine
        <4>1. PICK j \in 1..Len(SlotList), r \in 1..4 :
                  /\ step + 1 = 3 + Place(j, r)
                  /\ statement = <<SlotList[j], SlotCounts[r]>>
          <5>1. step + 1 \notin 1..3
            BY <1>2, <2>3 DEF Place
          <5>2. QED
            BY <1>1, <5>1, NextStatement DEF Ahead
        <4>2. Place(j, r) = Place(i, q)
          BY <1>2, <2>2, <2>3, <4>1 DEF Place
        <4>3. i = j /\ q = r
          BY <1>2, <4>2, PlacesDiffer
        <4>4. QED
          BY <4>1, <4>3
      <3>3. num'[mine] = Cardinality(Chosen(SlotList[i], SlotCounts[q], began))
        BY <1>1, <1>2, <3>2, ResultOfCount
      <3>4. QED
        BY <3>1, <3>3
    <2>4. CASE step + 1 # 3 + Place(i, q)
      <3>1. (step + 1 >= 3 + Place(i, q)) <=> (step >= 3 + Place(i, q))
        BY <1>2, <2>2, <2>4
      <3>2. statement # mine
        <4> SUFFICES ASSUME statement = mine PROVE FALSE
          OBVIOUS
        <4>1. \/ \E r \in 1..3 : statement = <<All, SlotCounts[r]>>
              \/ \E j \in 1..Len(SlotList), r \in 1..4 :
                    /\ step + 1 = 3 + Place(j, r)
                    /\ statement = <<SlotList[j], SlotCounts[r]>>
          BY <1>1, NextStatement DEF Ahead
        <4>2. CASE \E r \in 1..3 : statement = <<All, SlotCounts[r]>>
          BY <2>1, <4>2
        <4>3. CASE \E j \in 1..Len(SlotList), r \in 1..4 :
                    /\ step + 1 = 3 + Place(j, r)
                    /\ statement = <<SlotList[j], SlotCounts[r]>>
          <5>1. PICK j \in 1..Len(SlotList), r \in 1..4 :
                    /\ step + 1 = 3 + Place(j, r)
                    /\ statement = <<SlotList[j], SlotCounts[r]>>
            BY <4>3
          <5>2. SlotList[i] = SlotList[j] /\ SlotCounts[q] = SlotCounts[r]
            BY <5>1
          <5>3. i = j
            BY <5>2, SlotListIs
          <5>4. q = r
            BY <1>2, <5>2, CountsAre
          <5>5. QED
            BY <2>4, <5>1, <5>3, <5>4
        <4>4. QED
          BY <4>1, <4>2, <4>3
      <3>3. num'[mine] = num[mine]
        BY <1>1, <2>1, <3>2
      <3>4. QED
        BY <3>1, <3>3
    <2>5. QED
      BY <2>3, <2>4
  <1>5. Shown(q)' = [i \in DOMAIN SlotList |->
            IF step + 1 >= 3 + Place(i, q)
            THEN num'[<<SlotList[i], SlotCounts[q]>>]
            ELSE Cardinality(Chosen(SlotList[i], SlotCounts[q], began))]
    BY <1>1, <1>3 DEF Shown
  <1>6. QED
    BY <1>2, <1>4, <1>5 DEF Shown

LEMMA ExecuteKeepsTotals ==
    ASSUME AddUpInv, Execute
    PROVE  OverviewAddsUp' /\ ListAddsUp'
  <1>1. TypeOK /\ CountInv
    BY DEF AddUpInv, CountInv, RowTypes
  <1>2. PICK statement \in Statement :
            /\ statement = Statements(kind)[step + 1]
            /\ ~Complete
            /\ num' = [num EXCEPT ![statement] = Result(statement)]
            /\ num' \in [Statement -> Nat]
            /\ num'[statement] = Result(statement)
            /\ \A other \in Statement : other # statement => num'[other] = num[other]
            /\ step' = step + 1
            /\ UNCHANGED <<clock, row, kind, began, known, reports, undone>>
    BY <1>1, Executed
  <1>3. NothingUndone' <=> NothingUndone
    BY <1>2 DEF NothingUndone
  <1>4. step \in Nat /\ Len(SlotList) \in Nat /\ DOMAIN SlotList = 1..Len(SlotList)
    BY <1>1, SlotListIs, StepIsNumber
  <1>5. ASSUME kind = "overview", NEW q \in 1..3, step + 1 >= q, q = 1 \/ NothingUndone
        PROVE  num'[<<All, SlotCounts[q]>>] <= Sums(Shown(q))[Len(SlotList)]
    <2> DEFINE mine == <<All, SlotCounts[q]>>
    <2>1. q \in 1..4 /\ SlotCounts[q] \in Counts /\ mine \in Statement
      BY CountsAre, SlotStatements
    <2>2. CASE step + 1 = q
      <3>1. statement = mine
        <4>1. Statements(kind) = Overview
          BY <1>5 DEF Statements
        <4>2. QED
          BY <1>2, <2>2, <4>1, OverviewIs
      <3>2. num'[mine] = Cardinality(Chosen(All, SlotCounts[q], began))
        BY <1>2, <2>1, <3>1, ResultOfCount
      <3>3. step < q
        BY <1>4, <2>2
      <3>4. QED
        BY <1>1, <3>2, <3>3, TotalIsCovered
    <2>3. CASE step + 1 # q
      <3>1. step >= q
        BY <1>4, <1>5, <2>3
      <3>2. statement # mine
        <4> SUFFICES ASSUME statement = mine PROVE FALSE
          OBVIOUS
        <4>1. CASE \E r \in 1..3 : step + 1 = r /\ statement = <<All, SlotCounts[r]>>
          <5>1. PICK r \in 1..3 : step + 1 = r /\ statement = <<All, SlotCounts[r]>>
            BY <4>1
          <5>2. SlotCounts[r] = SlotCounts[q] /\ r \in 1..4
            BY <5>1
          <5>3. r = q
            BY <2>1, <5>2, CountsAre
          <5>4. QED
            BY <2>3, <5>1, <5>3
        <4>2. CASE \E j \in 1..Len(SlotList), r \in 1..4 :
                      statement = <<SlotList[j], SlotCounts[r]>>
          BY <4>2, SlotListIs, StatsAssumption
        <4>3. QED
          BY <1>1, <1>2, <1>5, <4>1, <4>2, NextStatement
      <3>3. num'[mine] = num[mine]
        BY <1>2, <2>1, <3>2
      <3>4. QED
        BY <1>5, <3>1, <3>3 DEF AddUpInv, OverviewAddsUp
    <2>4. QED
      BY <2>2, <2>3
  <1>6. OverviewAddsUp'
    <2> SUFFICES ASSUME kind = "overview", NEW q \in 1..3, step + 1 >= q, q = 1 \/ NothingUndone
                 PROVE  num'[<<All, SlotCounts[q]>>] <= Sums(Shown(q)')[Len(SlotList)]
      <3>1. \A q \in 1..3 : Sums(Shown(q))' = Sums(Shown(q)')
        BY DEF Sums
      <3>2. QED
        BY <1>2, <1>3, <3>1 DEF OverviewAddsUp
    <2>1. Shown(q)' = Shown(q)
      BY <1>1, ShownStays
    <2>2. num'[<<All, SlotCounts[q]>>] <= Sums(Shown(q))[Len(SlotList)]
      BY <1>5
    <2>3. QED
      BY <2>1, <2>2
  <1>7. ListAddsUp'
    <2> SUFFICES ASSUME kind = "slot_stats", step + 1 = Len(SlotStats), NothingUndone
                 PROVE  \/ SumOverSlots("timeouts")' + SumOverSlots("errors")'
                              <= num'[<<All, "failures">>]
                        \/ num'[<<All, "failures">>] = FailureLimit
      BY <1>2, <1>3 DEF ListAddsUp, Finished, Complete, Statements
    <2>1. statement = <<All, "failures">>
      BY <1>2, SlotStatsAre DEF Statements
    <2>2. \A c \in Counts : SumOverSlots(c)' = SumOverSlots(c)
      <3> SUFFICES ASSUME NEW c \in Counts PROVE SumOverSlots(c)' = SumOverSlots(c)
        OBVIOUS
      <3>1. \A i \in 1..Len(SlotList) :
                <<SlotList[i], c>> \in Statement /\ <<SlotList[i], c>> # statement
        BY <2>1, SlotListIs, SlotStatements, StatsAssumption
      <3>2. \A i \in DOMAIN SlotList : num'[<<SlotList[i], c>>] = num[<<SlotList[i], c>>]
        BY <1>2, <1>4, <3>1
      <3>3. [i \in DOMAIN SlotList |-> num'[<<SlotList[i], c>>]]
                = [i \in DOMAIN SlotList |-> num[<<SlotList[i], c>>]]
        BY <3>2
      <3>4. SumOverSlots(c)' =
                Sums([i \in DOMAIN SlotList |-> num'[<<SlotList[i], c>>]])[Len(SlotList)]
        BY DEF SumOverSlots, Sums
      <3>5. QED
        BY <3>3, <3>4 DEF SumOverSlots
    <2>3. /\ SumOverSlots("timeouts")' = SumOverSlots("timeouts")
          /\ SumOverSlots("errors")' = SumOverSlots("errors")
      BY <2>2 DEF Counts
    <2>4. num'[<<All, "failures">>] = Result(<<All, "failures">>)
      BY <1>2, <2>1
    <2>5. \/ SumOverSlots("timeouts") + SumOverSlots("errors") <= Result(<<All, "failures">>)
          \/ Result(<<All, "failures">>) = FailureLimit
      BY <1>1, ListIsCovered
    <2>6. QED
      BY <2>3, <2>4, <2>5
  <1>8. QED
    BY <1>6, <1>7

LEMMA NextAddsUp ==
    ASSUME AddUpInv, [Next]_vars
    PROVE  AddUpInv'
  <1>1. /\ RowTypes /\ TypeOK /\ RowsConsistent /\ RowTypes' /\ CountInv'
    BY NextKeepsCounts DEF AddUpInv, CountInv, RowTypes
  <1>2. CASE Tick \/ UNCHANGED vars
    <2>1. UNCHANGED <<row, reportVars, undone>>
      BY <1>2 DEF Tick, vars
    <2>2. \A j \in Jobs : GoesOn(j)
      BY <2>1 DEF GoesOn
    <2>3. QED
      BY <1>1, <2>1, <2>2, TotalsStay DEF AddUpInv
  <1>3. ASSUME NEW j \in Jobs,
               \/ Open(j) \/ UploadTemplate(j) \/ SetResult(j)
               \/ \E verdict \in Verdicts : SetFailure(j, verdict)
        PROVE  AddUpInv'
    <2>1. UNCHANGED reportVars /\ \A i \in Jobs : GoesOn(i)
      BY <1>1, <1>3, WritersGoOn
    <2>2. QED
      BY <1>1, <2>1, TotalsStay DEF AddUpInv
  <1>4. ASSUME NEW report \in {"overview", "slot_stats"}, StartReport(report)
        PROVE  AddUpInv'
    <2>1. step' = 0 /\ kind' = report
      BY <1>4 DEF StartReport
    <2>2. OverviewAddsUp'
      <3>1. \A q \in 1..3 : ~(0 >= q)
        OBVIOUS
      <3>2. QED
        BY <2>1, <3>1 DEF OverviewAddsUp
    <2>3. 0 # Len(SlotStats)
      BY SlotStatsAre, SlotListIs
    <2>4. ListAddsUp'
      BY <2>1, <2>3 DEF ListAddsUp, Finished, Complete, Statements
    <2>5. QED
      BY <1>1, <2>2, <2>4 DEF AddUpInv
  <1>5. CASE Execute
    BY <1>1, <1>5, ExecuteKeepsTotals DEF AddUpInv
  <1>6. QED
    BY <1>2, <1>3, <1>4, <1>5 DEF Next, WriteRow, Report

(* No number of a report contradicts one that was counted before it.       *)
THEOREM ReportsAgree == Spec => []ReportsAddUp
  <1>1. Init => AddUpInv
    BY InitCounts DEF AddUpInv, Init, OverviewAddsUp, ListAddsUp, Finished
  <1>2. AddUpInv /\ [Next]_vars => AddUpInv'
    BY NextAddsUp
  <1>3. AddUpInv => ReportsAddUp
    <2> SUFFICES ASSUME AddUpInv, Finished("overview"), NEW q \in 1..3, q = 1 \/ NothingUndone
                 PROVE  num[<<All, SlotCounts[q]>>] <= SumOverSlots(SlotCounts[q])
      <3>1. /\ SlotCounts[1] = "jobs"
            /\ \A c \in {"timeouts", "errors"} : \E q \in 1..3 : c = SlotCounts[q]
        BY CountsAre
      <3>2. 1 \in 1..3
        OBVIOUS
      <3>3. QED
        BY <3>1, <3>2 DEF ReportsAddUp, AddUpInv, ListAddsUp
    <2>1. kind = "overview" /\ step = 3 + 4 * Len(SlotList) /\ Len(SlotList) \in Nat
          /\ DOMAIN SlotList = 1..Len(SlotList)
      BY OverviewIs, SlotListIs DEF Finished, Complete, Statements
    <2>2. \A i \in 1..Len(SlotList) : step >= 3 + Place(i, q)
      BY <2>1 DEF Place
    <2>3. Shown(q) = [i \in DOMAIN SlotList |-> num[<<SlotList[i], SlotCounts[q]>>]]
      BY <2>1, <2>2 DEF Shown
    <2>4. step >= q
      BY <2>1
    <2>5. QED
      BY <2>1, <2>3, <2>4 DEF AddUpInv, OverviewAddsUp, SumOverSlots
  <1>4. QED
    BY <1>1, <1>2, <1>3, PTL DEF Spec

-----------------------------------------------------------------------------
(* The histogram.  A finite set can be put into the order of a number that *)
(* each of its elements has: the last comes last, the rest before it.      *)
Sorted(f, T, took) ==
    /\ f \in Bijection(1..Cardinality(T), T)
    /\ \A i, k \in 1..Cardinality(T) : i <= k => took[f[i]] <= took[f[k]]

LEMMA LastOfAll ==
    ASSUME NEW T, T # {}, NEW n \in Nat, NEW took, \A t \in T : took[t] \in 0..n
    PROVE  \E x \in T : \A t \in T : took[t] <= took[x]
  <1> DEFINE U == {n - took[t] : t \in T}
  <1>1. PICK m \in U : \A k \in U : m <= k
    <2>1. U \subseteq Nat /\ U # {}
      OBVIOUS
    <2> HIDE DEF U
    <2>2. QED
      BY <2>1, LeastNumber
  <1>2. PICK x \in T : m = n - took[x]
    BY <1>1
  <1>3. ASSUME NEW t \in T PROVE took[t] <= took[x]
    <2>1. n - took[x] <= n - took[t]
      BY <1>1, <1>2
    <2>2. took[x] \in Nat /\ took[t] \in Nat
      OBVIOUS
    <2>3. QED
      BY <2>1, <2>2
  <1>4. QED
    BY <1>2, <1>3

LEMMA LastComesLast ==
    ASSUME NEW T, IsFiniteSet(T), NEW x \in T, NEW took,
           \A t \in T : took[t] \in Nat /\ took[t] <= took[x],
           NEW e, Sorted(e, T \ {x}, took)
    PROVE  \E f : Sorted(f, T, took)
  <1> DEFINE m == Cardinality(T)
             f == [i \in 1..m |-> IF i = m THEN x ELSE e[i]]
  <1>1. m \in Nat /\ m # 0 /\ Cardinality(T \ {x}) = m - 1
    BY FS_CardinalityType, FS_RemoveElement, FS_EmptySet
  <1> HIDE DEF m
  <1>2. /\ e \in [1..(m - 1) -> T \ {x}]
        /\ \A i, k \in 1..(m - 1) : e[i] = e[k] => i = k
        /\ \A t \in T \ {x} : \E i \in 1..(m - 1) : e[i] = t
        /\ \A i, k \in 1..(m - 1) : i <= k => took[e[i]] <= took[e[k]]
    BY <1>1 DEF Sorted, Bijection, Injection, Surjection, IsInjective
  <1>3. \A i \in 1..m : i = m \/ i \in 1..(m - 1)
    BY <1>1
  <1>4. /\ m \in 1..m /\ f[m] = x
        /\ \A i \in 1..(m - 1) : i \in 1..m /\ f[i] = e[i] /\ f[i] \in T \ {x}
    BY <1>1, <1>2
  <1>5. f \in [1..m -> T]
    BY <1>2, <1>3
  <1> HIDE DEF f
  <1>6. \A i, k \in 1..m : f[i] = f[k] => i = k
    BY <1>2, <1>3, <1>4
  <1>7. \A t \in T : \E i \in 1..m : f[i] = t
    BY <1>2, <1>4
  <1>8. ASSUME NEW i \in 1..m, NEW k \in 1..m, i <= k PROVE took[f[i]] <= took[f[k]]
    <2>1. CASE k = m
      BY <1>4, <1>5, <2>1
    <2>2. CASE k # m
      <3>1. i \in 1..(m - 1) /\ k \in 1..(m - 1)
        BY <1>1, <1>8, <2>2
      <3>2. QED
        BY <1>2, <1>4, <1>8, <3>1
    <2>3. QED
      BY <2>1, <2>2
  <1>9. f \in Bijection(1..m, T)
    BY <1>5, <1>6, <1>7 DEF Bijection, Injection, Surjection, IsInjective
  <1>10. QED
    BY <1>8, <1>9 DEF Sorted, m

LEMMA OrderExists ==
    ASSUME NEW S, IsFiniteSet(S), NEW n \in Nat, NEW took, \A t \in S : took[t] \in 0..n
    PROVE  \E f : Sorted(f, S, took)
  <1> DEFINE Unsorted == {c \in Nat : \E T \in SUBSET S : /\ Cardinality(T) = c
                                                          /\ \A f : ~Sorted(f, T, took)}
  <1> SUFFICES ASSUME \A f : ~Sorted(f, S, took) PROVE FALSE
    OBVIOUS
  <1>1. Cardinality(S) \in Unsorted
    BY FS_CardinalityType
  <1>2. PICK c \in Unsorted : \A d \in Unsorted : c <= d
    <2>1. Unsorted \subseteq Nat
      OBVIOUS
    <2> HIDE DEF Unsorted
    <2>2. QED
      BY <1>1, <2>1, LeastNumber
  <1>3. PICK T \in SUBSET S : Cardinality(T) = c /\ \A f : ~Sorted(f, T, took)
    BY <1>2
  <1>4. IsFiniteSet(T) /\ c \in Nat
    BY <1>2, <1>3, FS_Subset
  <1>5. CASE T = {}
    <2>1. Cardinality(T) = 0
      BY <1>5, FS_EmptySet
    <2> DEFINE f == [i \in 1..0 |-> i]
    <2>2. f \in Bijection(1..0, T)
      BY <1>5 DEF Bijection, Injection, Surjection, IsInjective
    <2>3. Sorted(f, T, took)
      BY <2>1, <2>2 DEF Sorted
    <2>4. QED
      BY <1>3, <2>3
  <1>6. CASE T # {}
    <2>1. PICK x \in T : \A t \in T : took[t] <= took[x]
      BY <1>3, <1>6, LastOfAll
    <2>2. T \ {x} \in SUBSET S /\ Cardinality(T \ {x}) = c - 1 /\ c - 1 \in Nat
      <3>1. c # 0
        BY <1>3, <1>4, <1>6, FS_EmptySet
      <3>2. Cardinality(T \ {x}) = c - 1
        BY <1>3, <1>4, <2>1, FS_RemoveElement
      <3>3. QED
        BY <1>4, <3>1, <3>2
    <2>3. c - 1 \notin Unsorted
      BY <1>2, <1>4
    <2>4. PICK e : Sorted(e, T \ {x}, took)
      BY <2>2, <2>3
    <2>5. \A t \in T : took[t] \in Nat
      BY <1>3
    <2>6. \E f : Sorted(f, T, took)
      BY <1>4, <2>1, <2>4, <2>5, LastComesLast
    <2>7. QED
      BY <1>3, <2>6
  <1>7. QED
    BY <1>5, <1>6

(* The while loop stops behind the last sample that fits the bucket. *)
Rising(samples) ==
    /\ samples \in Seq(Nat)
    /\ \A i, k \in 1..Len(samples) : i <= k => samples[i] <= samples[k]

Splits(i, samples, bound) ==
    /\ i \in 0..Len(samples)
    /\ \A k \in 1..Len(samples) : k <= i <=> samples[k] <= bound

LEMMA AdvanceSplits ==
    ASSUME NEW samples, Rising(samples), NEW idx \in 0..Len(samples), NEW bound \in Nat,
           \A k \in 1..idx : samples[k] <= bound
    PROVE  Splits(Advance(samples, idx, bound), samples, bound)
  <1> DEFINE n == Len(samples)
             Stops(i) == /\ \A k \in (idx + 1)..i : samples[k] <= bound
                         /\ i = n \/ samples[i + 1] > bound
             a == Advance(samples, idx, bound)
  <1>1. n \in Nat /\ idx \in 0..n /\ \A k \in 1..n : samples[k] \in Nat
    BY LenProperties, ElementOfSeq DEF Rising
  <1>2. \E i \in idx..n : Stops(i)
    <2> DEFINE T == {i \in idx..n : i = n \/ samples[i + 1] > bound}
    <2>1. T \subseteq Nat /\ n \in T
      BY <1>1
    <2>2. PICK m \in T : \A i \in T : m <= i
      <3> HIDE DEF T
      <3>1. QED
        BY <2>1, LeastNumber
    <2>3. ASSUME NEW k \in (idx + 1)..m PROVE samples[k] <= bound
      <3>1. k - 1 \in idx..n /\ k - 1 < m /\ k - 1 # n /\ k \in 1..n
        BY <1>1, <2>2
      <3>2. k - 1 \notin T
        <4> HIDE DEF T
        <4>1. k - 1 \in T => m <= k - 1
          BY <2>2
        <4>2. m \in Nat /\ k \in Nat
          BY <1>1, <2>1, <3>1
        <4>3. QED
          BY <3>1, <4>1, <4>2
      <3>3. ~(samples[(k - 1) + 1] > bound)
        BY <3>1, <3>2
      <3>4. (k - 1) + 1 = k
        BY <1>1
      <3>5. QED
        BY <1>1, <3>1, <3>3, <3>4
    <2>4. QED
      BY <2>2, <2>3
  <1>3. a \in idx..n /\ Stops(a)
    BY <1>2 DEF Advance
  <1> HIDE DEF a
  <1>4. ASSUME NEW k \in 1..n PROVE k <= a <=> samples[k] <= bound
    <2>1. CASE k <= idx
      BY <1>1, <1>3, <2>1
    <2>2. CASE idx < k /\ k <= a
      BY <1>1, <1>3, <2>2
    <2>3. CASE a < k
      <3>1. a + 1 \in 1..n /\ a + 1 <= k /\ a # n
        BY <1>1, <1>3, <2>3
      <3>2. samples[a + 1] <= samples[k] /\ samples[a + 1] > bound
        BY <1>3, <3>1 DEF Rising
      <3>3. QED
        BY <1>1, <1>3, <2>3, <3>1, <3>2
    <2>4. QED
      BY <1>1, <1>3, <2>1, <2>2, <2>3
  <1>5. QED
    BY <1>1, <1>3, <1>4 DEF Splits, a

(* The equation that defines the indexes, for the first n buckets. *)
IndexesUpTo(g, samples, n) ==
    g = [i \in 0..n |-> IF i = 0 THEN 0 ELSE Advance(samples, g[i - 1], Buckets[i])]

LEMMA IndexesExist ==
    ASSUME NEW samples, NEW n \in Nat
    PROVE  \E g : IndexesUpTo(g, samples, n)
  <1> DEFINE P == {m \in Nat : \E g : IndexesUpTo(g, samples, m)}
  <1>1. 0 \in P
    <2> DEFINE g == [i \in 0..0 |-> 0]
    <2>1. g = [i \in 0..0 |-> IF i = 0 THEN 0 ELSE Advance(samples, g[i - 1], Buckets[i])]
      OBVIOUS
    <2>2. IndexesUpTo(g, samples, 0)
      BY <2>1 DEF IndexesUpTo
    <2>3. QED
      BY <2>2
  <1>2. ASSUME NEW m \in 1..n, m - 1 \in P
        PROVE  m \in P
    <2>1. PICK e : IndexesUpTo(e, samples, m - 1)
      BY <1>2
    <2>2. e = [i \in 0..(m - 1) |->
                 IF i = 0 THEN 0 ELSE Advance(samples, e[i - 1], Buckets[i])]
      BY <2>1 DEF IndexesUpTo
    <2> DEFINE g == [i \in 0..m |->
                       IF i = m THEN Advance(samples, e[m - 1], Buckets[m]) ELSE e[i]]
               h == [i \in 0..m |->
                       IF i = 0 THEN 0 ELSE Advance(samples, g[i - 1], Buckets[i])]
    <2>3. \A i \in 0..m : g[i] = h[i]
      <3> SUFFICES ASSUME NEW i \in 0..m PROVE g[i] = h[i]
        OBVIOUS
      <3>1. CASE i = m
        BY <3>1
      <3>2. CASE i = 0
        BY <2>2, <3>2
      <3>3. CASE i # 0 /\ i # m
        <4>1. i \in 0..(m - 1) /\ i - 1 \in 0..(m - 1) /\ i - 1 # m /\ i - 1 \in 0..m
          BY <3>3
        <4>2. e[i] = Advance(samples, e[i - 1], Buckets[i])
          BY <2>2, <3>3, <4>1
        <4>3. g[i] = e[i] /\ g[i - 1] = e[i - 1]
          BY <3>3, <4>1
        <4>4. QED
          BY <3>3, <4>2, <4>3
      <3>4. QED
        BY <3>1, <3>2, <3>3
    <2>4. g = h
      BY <2>3
    <2>5. IndexesUpTo(g, samples, m)
      BY <2>4 DEF IndexesUpTo
    <2>6. QED
      BY <2>5
  <1> HIDE DEF P
  <1>3. \A i \in 0..n : i \in P
    BY <1>1, <1>2, PositionsByStep
  <1>4. QED
    BY <1>3 DEF P

(* One pass is enough because the bounds rise: what fits one bucket fits   *)
(* the next.                                                               *)
LEMMA HistogramCounts ==
    ASSUME NEW samples, Rising(samples)
    PROVE  /\ \A b \in DOMAIN Buckets : Splits(Histogram(samples)[b], samples, Buckets[b])
           /\ Histogram(samples)[Len(Buckets) + 1] = Len(samples)
  <1> DEFINE n == Len(Buckets)
             count == Len(samples)
             idx == CHOOSE g : IndexesUpTo(g, samples, n)
             P == {i \in 0..n : i = 0 \/ Splits(idx[i], samples, Buckets[i])}
             first == [i \in DOMAIN Buckets |-> idx[i]]
  <1>1. /\ n \in Nat /\ DOMAIN Buckets = 1..n /\ count \in Nat
        /\ \A i \in 1..n : Buckets[i] \in Nat
        /\ \A k \in 1..count : samples[k] \in Nat
        /\ \A i, k \in 1..n : i <= k => Buckets[i] <= Buckets[k]
    BY MetricsAssumption, LenProperties, ElementOfSeq DEF Rising
  <1>2. IndexesUpTo(idx, samples, n)
    BY <1>1, IndexesExist
  <1>3. Histogram(samples) = first \o <<count>>
    BY DEF Histogram, IndexesUpTo
  <1> HIDE DEF idx
  <1>4. idx[0] = 0 /\ \A i \in 1..n : idx[i] = Advance(samples, idx[i - 1], Buckets[i])
    BY <1>1, <1>2 DEF IndexesUpTo
  <1>5. 0 \in P
    BY <1>1
  <1>6. ASSUME NEW i \in 1..n, i - 1 \in P PROVE i \in P
    <2>1. idx[i - 1] \in 0..count /\ \A k \in 1..idx[i - 1] : samples[k] <= Buckets[i]
      <3>1. CASE i = 1
        BY <1>1, <1>4, <3>1
      <3>2. CASE i # 1
        <4>1. i - 1 \in 1..n /\ i - 1 <= i /\ Splits(idx[i - 1], samples, Buckets[i - 1])
          BY <1>1, <1>6, <3>2
        <4>2. Buckets[i - 1] <= Buckets[i] /\ Buckets[i - 1] \in Nat /\ Buckets[i] \in Nat
          BY <1>1, <4>1
        <4>3. idx[i - 1] \in 0..count
          BY <1>1, <4>1 DEF Splits
        <4>4. ASSUME NEW k \in 1..idx[i - 1] PROVE samples[k] <= Buckets[i]
          <5>1. k \in 1..count /\ k <= idx[i - 1]
            BY <1>1, <4>3
          <5>2. samples[k] <= Buckets[i - 1] /\ samples[k] \in Nat
            BY <1>1, <4>1, <5>1 DEF Splits
          <5>3. QED
            BY <4>2, <5>2
        <4>5. QED
          BY <4>3, <4>4
      <3>3. QED
        BY <3>1, <3>2
    <2>2. Splits(idx[i], samples, Buckets[i])
      BY <1>1, <1>4, <2>1, AdvanceSplits
    <2>3. QED
      BY <1>1, <2>2
  <1> HIDE DEF P
  <1>7. \A i \in 0..n : i \in P
    BY <1>1, <1>5, <1>6, PositionsByStep
  <1>8. \A i \in 1..n : Splits(idx[i], samples, Buckets[i])
    <2> SUFFICES ASSUME NEW i \in 1..n PROVE Splits(idx[i], samples, Buckets[i])
      OBVIOUS
    <2>1. i \in P /\ i # 0
      BY <1>1, <1>7
    <2>2. QED
      BY <2>1 DEF P
  <1>9. first \in Seq(Nat) /\ Len(first) = n
    <2>1. first \in [1..n -> Nat]
      BY <1>1, <1>8 DEF Splits
    <2>2. QED
      BY <1>1, <2>1, SeqDef
  <1>10. /\ \A i \in 1..n : Histogram(samples)[i] = idx[i]
         /\ Histogram(samples)[n + 1] = count
    <2>1. <<count>> \in Seq(Nat) /\ Len(<<count>>) = 1
      BY <1>1
    <2>2. \A i \in 1..n : first[i] = idx[i]
      BY <1>1
    <2> HIDE DEF first, count
    <2>3. QED
      BY <1>1, <1>3, <1>9, <2>1, <2>2, ConcatProperties
  <1>11. QED
    BY <1>1, <1>8, <1>10

-----------------------------------------------------------------------------
(* With scrapes going on, rows and reports do what Spec allows. *)
LEMMA MetricsStep == [MetricsNext]_<<vars, metricsVars>> => [Next]_vars
  BY DEF MetricsNext, Next

(* The theorems above hold with scrapes and saves of slots going on.       *)
THEOREM ReportsAsBefore == MetricsSpec => Spec
  <1>1. MetricsInit => Init
    BY DEF MetricsInit
  <1>2. QED
    BY <1>1, MetricsStep, PTL DEF MetricsSpec, Spec

(* Whose provider the two SELECTs may have read differently. *)
ScrapeInv ==
    /\ MetricsTypeOK
    /\ scrape = "totals" => \A s \in Slots : s \in edited \/ labels[s] = provider[s]
    /\ scrape = "durations" => \A s \in Slots : s \in edited \/ labels[s] = keys[s]

LEMMA NextKeepsScrape ==
    ASSUME TypeOK, ScrapeInv, [MetricsNext]_<<vars, metricsVars>>
    PROVE  ScrapeInv'
  <1> USE DEF ScrapeInv, MetricsTypeOK
  <1>1. ASSUME NEW s \in Slots, NEW p \in Providers, UpdateSlot(s, p)
        PROVE  ScrapeInv'
    <2>1. /\ provider' \in [Slots -> Providers] /\ edited' \subseteq Slots
          /\ UNCHANGED <<scrape, since, labels, keys>>
      BY <1>1 DEF UpdateSlot
    <2>2. ASSUME scrape = "totals"
          PROVE  \A q \in Slots : q \in edited' \/ labels[q] = provider'[q]
      BY <1>1, <2>2 DEF UpdateSlot
    <2>3. ASSUME scrape = "durations"
          PROVE  \A q \in Slots : q \in edited' \/ labels[q] = keys[q]
      BY <1>1, <2>3 DEF UpdateSlot
    <2>4. QED
      BY <2>1, <2>2, <2>3
  <1>2. CASE Collect
    <2>1. clock \in Time
      BY StatsAssumption DEF TypeOK, Time
    <2>2. QED
      BY <1>2, <2>1 DEF Collect
  <1>3. CASE SelectTotals
    BY <1>3 DEF SelectTotals
  <1>4. CASE SelectDurations
    BY <1>4 DEF SelectDurations
  <1>5. CASE Respond
    <2>1. 0 \in Time
      BY StatsAssumption DEF Time
    <2>2. QED
      BY <1>5, <2>1 DEF Respond
  <1>6. CASE UNCHANGED metricsVars
    BY <1>6 DEF metricsVars, scrapeVars
  <1>7. QED
    BY <1>1, <1>2, <1>3, <1>4, <1>5, <1>6 DEF MetricsNext

LEMMA InitScrape == MetricsInit => ScrapeInv
  BY StatsAssumption DEF MetricsInit, ScrapeInv, MetricsTypeOK, Time

LEMMA MetricsTypes == MetricsSpec => [](TypeOK /\ ScrapeInv)
  <1>1. MetricsInit => RowTypes
    BY InitTypes DEF MetricsInit
  <1>2. RowTypes => TypeOK
    BY DEF RowTypes
  <1>3. RowTypes /\ [MetricsNext]_<<vars, metricsVars>> => RowTypes'
    BY MetricsStep, NextKeepsTypes
  <1>4. QED
    BY <1>1, <1>2, <1>3, InitScrape, NextKeepsScrape, PTL DEF MetricsSpec

(* Type correctness, with scrapes. *)
THEOREM MetricsTypeCorrect == MetricsSpec => [](TypeOK /\ MetricsTypeOK)
  <1>1. ScrapeInv => MetricsTypeOK
    BY DEF ScrapeInv
  <1>2. QED
    BY <1>1, MetricsTypes, PTL

LEMMA MeasuredAre ==
    ASSUME NEW s
    PROVE  /\ Measured(s) \subseteq Jobs /\ IsFiniteSet(Measured(s))
           /\ Cardinality(Measured(s)) \in Nat
  <1>1. Measured(s) \subseteq Jobs
    BY DEF Measured, Of, Existing
  <1>2. QED
    BY <1>1, StatsAssumption, FS_Subset, FS_CardinalityType

LEMMA DurationsRise ==
    ASSUME TypeOK, NEW s \in Slots
    PROVE  LET Took(j) == row[j].completed - row[j].started
           IN  /\ Rising(Durations(s))
               /\ Len(Durations(s)) = Cardinality(Measured(s))
               /\ \E f \in Bijection(1..Cardinality(Measured(s)), Measured(s)) :
                     \A k \in 1..Cardinality(Measured(s)) : Durations(s)[k] = Took(f[k])
  <1> DEFINE recent == Measured(s)
             seconds == [j \in recent |-> row[j].completed - row[j].started]
             n == Cardinality(recent)
             ByTime(f) == \A i, k \in DOMAIN f : i <= k => seconds[f[i]] <= seconds[f[k]]
             sorted == CHOOSE f \in Bijection(1..n, recent) : ByTime(f)
             samples == [i \in DOMAIN sorted |-> seconds[sorted[i]]]
  <1>1. IsFiniteSet(recent) /\ n \in Nat
    BY MeasuredAre
  <1>2. \A j \in recent : seconds[j] \in 0..(MaxClock + 1)
    <2> SUFFICES ASSUME NEW j \in recent
                 PROVE  row[j].completed - row[j].started \in 0..(MaxClock + 1)
      OBVIOUS
    <2>1. j \in Jobs /\ row[j].started <= row[j].completed
      BY MeasuredAre DEF Measured
    <2>2. row[j].completed \in 0..(MaxClock + 1) /\ row[j].started \in 0..(MaxClock + 1)
      BY <2>1 DEF TypeOK, Row, Time
    <2>3. QED
      BY <2>1, <2>2, StatsAssumption
  <1>3. Durations(s) = samples
    BY DEF Durations
  <1> HIDE DEF recent, seconds
  <1>4. \E f \in Bijection(1..n, recent) : ByTime(f)
    <2> DEFINE last == MaxClock + 1
    <2>0. last \in Nat /\ \A j \in recent : seconds[j] \in 0..last
      BY <1>2, StatsAssumption
    <2> HIDE DEF last
    <2>1. PICK f : Sorted(f, recent, seconds)
      BY <1>1, <2>0, OrderExists
    <2>2. f \in Bijection(1..n, recent) /\ DOMAIN f = 1..n
      BY <2>1 DEF Sorted, Bijection, Injection
    <2>3. QED
      BY <2>1, <2>2 DEF Sorted
  <1>5. sorted \in Bijection(1..n, recent) /\ ByTime(sorted)
    BY <1>4
  <1> HIDE DEF sorted
  <1>6. DOMAIN sorted = 1..n /\ \A k \in 1..n : sorted[k] \in recent
    BY <1>5 DEF Bijection, Injection
  <1>7. samples \in [1..n -> Nat]
    BY <1>2, <1>6, StatsAssumption
  <1>8. samples \in Seq(Nat) /\ Len(samples) = n
    <2> HIDE DEF samples, n
    <2>1. QED
      BY <1>1, <1>7, SeqDef, LenProperties
  <1>9. Rising(samples)
    BY <1>1, <1>5, <1>6, <1>8 DEF Rising
  <1>10. \A k \in 1..n : samples[k] = row[sorted[k]].completed - row[sorted[k]].started
    BY <1>6 DEF seconds
  <1>11. QED
    <2> HIDE DEF samples
    <2>1. QED
      BY <1>3, <1>5, <1>8, <1>9, <1>10 DEF recent

(* The histogram of a slot whose samples were found. *)
LEMMA BucketsCount ==
    ASSUME TypeOK, NEW s \in Slots
    PROVE  LET UpTo(bound) == {j \in Measured(s) : row[j].completed <= row[j].started + bound}
               histogram == Histogram(Durations(s))
           IN  /\ \A i \in DOMAIN Buckets : histogram[i] = Cardinality(UpTo(Buckets[i]))
               /\ histogram[Len(Buckets) + 1] = Cardinality(Measured(s))
  <1> DEFINE recent == Measured(s)
             UpTo(bound) == {j \in recent : row[j].completed <= row[j].started + bound}
             samples == Durations(s)
             n == Cardinality(recent)
  <1>1. Rising(samples) /\ Len(samples) = n
    BY DurationsRise
  <1>2. PICK f \in Bijection(1..n, recent) :
            \A k \in 1..n : samples[k] = row[f[k]].completed - row[f[k]].started
    BY DurationsRise
  <1>3. \A j \in recent : row[j].completed \in Nat /\ row[j].started \in Nat
    BY StatsAssumption, MeasuredAre DEF TypeOK, Row, Time
  <1>4. /\ f \in [1..n -> recent]
        /\ \A i, k \in 1..n : f[i] = f[k] => i = k
        /\ \A j \in recent : \E k \in 1..n : f[k] = j
    BY <1>2 DEF Bijection, Injection, Surjection, IsInjective
  <1> HIDE DEF samples, recent
  <1>5. n \in Nat
    BY <1>1, LenProperties DEF Rising
  <1>6. ASSUME NEW i \in DOMAIN Buckets
        PROVE  Histogram(samples)[i] = Cardinality(UpTo(Buckets[i]))
    <2>1. PICK bound \in Nat : bound = Buckets[i]
      BY MetricsAssumption, ElementOfSeq, LenProperties
    <2>2. PICK a : a = Histogram(samples)[i]
      OBVIOUS
    <2>3. a \in 0..n /\ \A k \in 1..n : k <= a <=> samples[k] <= bound
      BY <1>1, <2>1, <2>2, HistogramCounts DEF Splits
    <2>4. \A k \in 1..n : samples[k] <= bound <=> f[k] \in UpTo(bound)
      BY <1>2, <1>3, <1>4
    <2> HIDE DEF UpTo
    <2> DEFINE g == [k \in 1..a |-> f[k]]
    <2>5. \A k \in 1..a : k \in 1..n /\ f[k] \in UpTo(bound)
      BY <1>5, <2>3, <2>4
    <2>6. g \in [1..a -> UpTo(bound)] /\ \A k, l \in 1..a : g[k] = g[l] => k = l
      BY <1>4, <2>5
    <2>7. ASSUME NEW j \in UpTo(bound) PROVE \E k \in 1..a : g[k] = j
      <3>1. j \in recent
        BY DEF UpTo
      <3>2. PICK k \in 1..n : f[k] = j
        BY <1>4, <3>1
      <3>3. k \in 1..a
        BY <1>5, <2>3, <2>4, <3>2
      <3>4. QED
        BY <3>2, <3>3
    <2>8. g \in Bijection(1..a, UpTo(bound))
      <3> HIDE DEF g
      <3>1. QED
        BY <2>6, <2>7 DEF Bijection, Injection, Surjection, IsInjective
    <2>9. Cardinality(UpTo(bound)) = a
      <3>1. a \in Nat
        BY <1>5, <2>3
      <3>2. ExistsBijection(1..a, UpTo(bound))
        BY <2>8 DEF ExistsBijection
      <3>3. QED
        BY <3>1, <3>2, FS_CountingElements
    <2>10. QED
      BY <2>1, <2>2, <2>9
  <1>7. Histogram(samples)[Len(Buckets) + 1] = n
    BY <1>1, HistogramCounts
  <1>8. QED
    BY <1>6, <1>7 DEF samples, recent

(* That of a slot whose samples were grouped under another provider. *)
LEMMA BucketsOfNone ==
    \A i \in 1..(Len(Buckets) + 1) : Histogram(<< >>)[i] = 0
  <1>1. Rising(<< >>) /\ Len(<< >>) = 0
    BY EmptySeq DEF Rising
  <1>2. Len(Buckets) \in Nat /\ DOMAIN Buckets = 1..Len(Buckets)
    BY MetricsAssumption, LenProperties
  <1>3. \A i \in DOMAIN Buckets : Histogram(<< >>)[i] \in 0..0
    BY <1>1, HistogramCounts DEF Splits
  <1>4. Histogram(<< >>)[Len(Buckets) + 1] = 0
    BY <1>1, HistogramCounts
  <1>5. QED
    BY <1>2, <1>3, <1>4

(* The histogram is cumulative, for any bounds that rise and any jobs: the *)
(* one index that moves over samples and buckets together counts into each *)
(* bucket exactly the jobs that took no longer than its bound; and a slot  *)
(* loses its samples only if it was saved between the two SELECTs.         *)
THEOREM BucketsAddUp == MetricsSpec => []BucketsAreCumulative
  <1>1. TypeOK /\ ScrapeInv => BucketsAreCumulative
    <2> SUFFICES ASSUME TypeOK, ScrapeInv, scrape = "durations", NEW s \in Slots
                 PROVE  LET UpTo(bound) ==
                                {j \in Measured(s) : row[j].completed <= row[j].started + bound}
                            histogram == Histogram(Samples(s))
                        IN  \/ /\ \A i \in DOMAIN Buckets :
                                     histogram[i] = Cardinality(UpTo(Buckets[i]))
                               /\ histogram[Len(Buckets) + 1] = Cardinality(Measured(s))
                            \/ /\ s \in edited
                               /\ \A i \in 1..(Len(Buckets) + 1) : histogram[i] = 0
      BY DEF BucketsAreCumulative
    <2>1. CASE keys[s] = labels[s]
      <3>1. Samples(s) = Durations(s)
        BY <2>1 DEF Samples
      <3>2. QED
        BY <3>1, BucketsCount
    <2>2. CASE keys[s] # labels[s]
      <3>1. Samples(s) = << >> /\ s \in edited
        BY <2>2 DEF Samples, ScrapeInv
      <3>2. QED
        BY <3>1, BucketsOfNone
    <2>3. QED
      BY <2>1, <2>2
  <1>2. QED
    BY <1>1, MetricsTypes, PTL
=============================================================================
