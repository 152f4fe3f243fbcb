------------------------------ MODULE MCStats ------------------------------
(***************************************************************************)
(* Small instances of the statistics: two jobs of one slot, another slot   *)
(* that has none.  Reports and scrapes only read, so a behaviour explores  *)
(* one of them and leaves the other alone:                                 *)
(*   - reports: one at a time, of the writers' choice;                     *)
(*   - scrapes: any number, one after another, and saves of both slots     *)
(*     with a choice of two providers (the clock stops one tick earlier).  *)
(***************************************************************************)
EXTENDS Metrics

CONSTANTS j1, j2, s1, s2, p1, p2

VARIABLE part

TwoJobs == {j1, j2}
BothInS1 == [j \in TwoJobs |-> s1]
TwoSlots == <<s1, s2>>
TwoProviders == {p1, p2}
TwoBuckets == <<0, 1>>
Interchangeable == Permutations(TwoJobs) \cup Permutations(TwoProviders)

MCInit ==
    /\ part \in {"reports", "scrapes"}
    /\ MetricsInit
    /\ part = "reports" => provider[s1] = provider[s2]

MCNext ==
    /\ UNCHANGED part
    /\ part = "reports" => UNCHANGED metricsVars
    /\ part = "scrapes" => UNCHANGED reportVars
    /\ MetricsNext
    /\ part = "scrapes" => clock' <= MaxClock

MCSpec == MCInit /\ [][MCNext]_<<part, vars, metricsVars>>
=============================================================================
