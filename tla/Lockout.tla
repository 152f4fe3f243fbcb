------------------------------- MODULE Lockout -------------------------------
(***************************************************************************)
(* The login throttle of one username as an administrator would describe   *)
(* it: an attempt is judged in one step, by the time it was made and by    *)
(* what was judged before it.  The limit of wrong guesses in a row blocks, *)
(* nothing counts while the block lasts, and a right guess forgets.        *)
(*                                                                         *)
(* AuthThrottle, with its look-ups, objects and references, is this where  *)
(* one thread handles the logins; with two it is not.                      *)
(***************************************************************************)
EXTENDS Naturals

CONSTANTS Attempts, MaxFailures, BlockDuration

VARIABLES
    clock,
    count,         \* wrong guesses in a row
    blockedUntil,  \* the end of the last block, 0 if a guess came after it
    verdict,       \* what was answered to each attempt
    made           \* the time at which a judged attempt was made

vars == <<clock, count, blockedUntil, verdict, made>>

Init ==
    /\ clock = 1
    /\ count = 0
    /\ blockedUntil = 0
    /\ verdict = [a \in Attempts |-> "none"]
    /\ made = [a \in Attempts |-> 0]

Tick ==
    /\ clock' = clock + 1
    /\ UNCHANGED <<count, blockedUntil, verdict, made>>

(* Attempt a, made at time t, is judged.  Attempts are judged in the order *)
(* in which they were made.                                                *)
Judge(a, t, answer) ==
    /\ verdict[a] = "none"
    /\ \A b \in Attempts : made[b] <= t
    /\ verdict' = [verdict EXCEPT ![a] = answer]
    /\ made' = [made EXCEPT ![a] = t]
    /\ clock' = clock

Throttle(a, t) ==
    /\ t < blockedUntil
    /\ Judge(a, t, "throttled")
    /\ UNCHANGED <<count, blockedUntil>>

Accept(a, t) ==
    /\ blockedUntil <= t
    /\ Judge(a, t, "accepted")
    /\ count' = 0
    /\ blockedUntil' = 0

Reject(a, t) ==
    /\ blockedUntil <= t
    /\ Judge(a, t, "rejected")
    /\ \/ /\ count + 1 < MaxFailures
          /\ count' = count + 1
          /\ blockedUntil' = 0
       \/ /\ count + 1 = MaxFailures
          /\ count' = 0
          /\ blockedUntil' = t + BlockDuration

(* A restart forgets, and some attempts are never answered. *)
Restart ==
    /\ count' = 0
    /\ blockedUntil' = 0
    /\ \E lost \in SUBSET {a \in Attempts : verdict[a] = "none"} :
          verdict' = [a \in Attempts |-> IF a \in lost THEN "lost" ELSE verdict[a]]
    /\ UNCHANGED <<clock, made>>

Next ==
    \/ Tick
    \/ \E a \in Attempts, t \in 1..clock : Throttle(a, t) \/ Accept(a, t) \/ Reject(a, t)
    \/ Restart

Spec == Init /\ [][Next]_vars
=============================================================================
