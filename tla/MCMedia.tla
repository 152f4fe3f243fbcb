------------------------------ MODULE MCMedia ------------------------------
(* Small instances of MediaLifecycle: an ingest request and a test run of  *)
(* one slot beside the cron script.                                        *)
EXTENDS MediaLifecycle

CONSTANTS s1, r1, t1

OneSlot == {s1}
OneAndTest == {r1, t1}
BothToS1 == [r \in OneAndTest |-> s1]
OnlyT1 == {t1}
=============================================================================
