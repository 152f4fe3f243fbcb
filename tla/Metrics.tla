------------------------------ MODULE Metrics ------------------------------
(***************************************************************************)
(* GET /metrics over the rows of JobStats.                                 *)
(*                                                                         *)
(* A scrape runs on the event loop without an await, as all writers of job *)
(* rows do: none of them acts between its steps.  But it makes two         *)
(* SELECTs, slot_totals and slot_durations, and both read slot.provider,   *)
(* which PUT /api/slots/{id} changes on a thread of the pool.  The samples *)
(* of the second are looked up under the slot and provider of the first.   *)
(*                                                                         *)
(* Left out: the disk usage and the gauges, which are compared with        *)
(* nothing, and the rest of a slot's update (module SlotConfig).           *)
(***************************************************************************)
EXTENDS JobStats

CONSTANTS
    Providers,
    Buckets     \* BUCKETS, the upper bounds of the histogram, ascending

ASSUME MetricsAssumption ==
    /\ Buckets \in Seq(Nat)
    /\ \A i, k \in DOMAIN Buckets : i <= k => Buckets[i] <= Buckets[k]

VARIABLES
    provider,   \* slot.provider
    scrape,     \* what the scrape has done: taken the clock, then its SELECTs
    since,      \* when it took the clock for its window
    labels,     \* the provider of each slot, as slot_totals read it
    keys,       \* the provider of each slot, as slot_durations read it
    edited      \* history: the slots saved between the two SELECTs

scrapeVars == <<scrape, since, labels, keys, edited>>
metricsVars == <<provider, scrapeVars>>

MetricsTypeOK ==
    /\ provider \in [Slots -> Providers]
    /\ scrape \in {"none", "asked", "totals", "durations"}
    /\ since \in Time
    /\ labels \in [Slots -> Providers]
    /\ keys \in [Slots -> Providers]
    /\ edited \subseteq Slots

MetricsInit ==
    /\ Init
    /\ provider \in [Slots -> Providers]
    /\ scrape = "none" /\ since = 0 /\ edited = {}
    /\ labels = provider /\ keys = provider

-----------------------------------------------------------------------------
(* A transaction of update_slot commits. *)
UpdateSlot(s, p) ==
    /\ provider' = [provider EXCEPT ![s] = p]
    /\ edited' = IF scrape = "totals" THEN edited \cup {s} ELSE edited
    /\ UNCHANGED <<scrape, since, labels, keys>>

Collect ==
    /\ scrape = "none"
    /\ scrape' = "asked"
    /\ since' = clock
    /\ UNCHANGED <<provider, labels, keys, edited>>

SelectTotals ==
    /\ scrape = "asked"
    /\ scrape' = "totals"
    /\ labels' = provider
    /\ edited' = {}
    /\ UNCHANGED <<provider, since, keys>>

SelectDurations ==
    /\ scrape = "totals"
    /\ scrape' = "durations"
    /\ keys' = provider
    /\ UNCHANGED <<provider, since, labels, edited>>

(* The text is rendered from what was read, and the loop is free again. *)
Respond ==
    /\ scrape = "durations"
    /\ scrape' = "none"
    /\ since' = 0 /\ labels' = provider /\ keys' = provider /\ edited' = {}
    /\ UNCHANGED provider

MetricsNext ==
    \/ scrape = "none" /\ WriteRow /\ UNCHANGED metricsVars
    \/ (Tick \/ Report) /\ UNCHANGED metricsVars
    \/ /\ \/ \E s \in Slots, p \in Providers : UpdateSlot(s, p)
          \/ Collect \/ SelectTotals \/ SelectDurations \/ Respond
       /\ UNCHANGED vars

MetricsSpec == MetricsInit /\ [][MetricsNext]_<<vars, metricsVars>>

-----------------------------------------------------------------------------
(* The rows slot_durations makes samples of; one that ended before it      *)
(* began is skipped.                                                       *)
Measured(s) ==
    {j \in Of(s) : InWindow(row[j].completed, since) /\ row[j].started <= row[j].completed}

(* Their durations, sorted. *)
Durations(s) ==
    LET seconds == [j \in Measured(s) |-> row[j].completed - row[j].started]
        sorted == CHOOSE f \in Bijection(1..Cardinality(Measured(s)), Measured(s)) :
                      \A i, k \in DOMAIN f : i <= k => seconds[f[i]] <= seconds[f[k]]
    IN  [i \in DOMAIN sorted |-> seconds[sorted[i]]]

(* grouped.get((slot_id, provider), []) with the provider of slot_totals. *)
Samples(s) == IF keys[s] = labels[s] THEN Durations(s) ELSE << >>

(* Mistake: a duration equal to the bound is left to the next bucket. *)
AdvanceBelow(samples, idx, bound) ==
    CHOOSE i \in idx..Len(samples) :
        /\ \A k \in (idx + 1)..i : samples[k] < bound
        /\ i = Len(samples) \/ samples[i + 1] >= bound

(* The while loop of _format_histogram: idx moves over the samples that    *)
(* still fit into the bucket.                                              *)
Advance(samples, idx, bound) ==
    CHOOSE i \in idx..Len(samples) :
        /\ \A k \in (idx + 1)..i : samples[k] <= bound
        /\ i = Len(samples) \/ samples[i + 1] > bound

(* A count per bucket, and that of le="+Inf". *)
Histogram(samples) ==
    LET idx[i \in 0..Len(Buckets)] ==
            IF i = 0 THEN 0 ELSE Advance(samples, idx[i - 1], Buckets[i])
    IN  [i \in DOMAIN Buckets |-> idx[i]] \o <<Len(samples)>>

-----------------------------------------------------------------------------
(* The one pass over the sorted durations counts into each bucket of a     *)
(* slot all the recent durations up to its bound, and into the last one    *)
(* all there are.  The only exception is a slot that was saved between the *)
(* two SELECTs: its histogram may be empty (and is, if its provider was    *)
(* changed, however many recent jobs it has), but never wrong in part, and *)
(* a save of one slot never costs another its histogram.                   *)
BucketsAreCumulative ==
    scrape = "durations" =>
        \A s \in Slots :
            LET UpTo(bound) == {j \in Measured(s) : row[j].completed <= row[j].started + bound}
                histogram == Histogram(Samples(s))
            IN  \/ /\ \A i \in DOMAIN Buckets : histogram[i] = Cardinality(UpTo(Buckets[i]))
                   /\ histogram[Len(Buckets) + 1] = Cardinality(Measured(s))
                \/ /\ s \in edited
                   /\ \A i \in 1..(Len(Buckets) + 1) : histogram[i] = 0
=============================================================================
