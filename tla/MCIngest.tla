------------------------------ MODULE MCIngest ------------------------------
(***************************************************************************)
(* A small instance of Ingest: requests for one slot, three of them ingest *)
(* requests, so that one may own or have released the lock while one waits *)
(* and one arrives.  The fourth is a test run, which passes without the    *)
(* lock; it takes the place of the third ingest request.                   *)
(***************************************************************************)
EXTENDS Ingest

CONSTANTS s1, r1, r2, r3, t1

OneSlot == {s1}
ThreeAndTest == {r1, r2, r3, t1}
AllToS1 == [r \in ThreeAndTest |-> s1]
OnlyT1 == {t1}

MCNext == Next /\ "idle" \in {at'[r3], at'[t1]}

MCSpec == Init /\ [][MCNext]_vars /\ \A r \in Requests : WF_vars(Step(r))
=============================================================================
