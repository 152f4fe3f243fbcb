---------------------------- MODULE AuthThrottle ----------------------------
(***************************************************************************)
(* AuthService for one username: authenticate, the tokens it issues, and   *)
(* require_admin_user in front of every admin endpoint.  Logins are        *)
(* throttled by a counter in memory, which a restart of the process loses; *)
(* tokens are signed and stay valid across restarts.  The admin's record   *)
(* is read from a file when the process starts.                            *)
(*                                                                         *)
(* The login endpoint is a plain function, so the framework runs every     *)
(* attempt on a thread of its pool and attempts interleave.  CPython       *)
(* switches threads at calls: the dictionary lookups are such points;      *)
(* everything after the lookup in _register_failure runs without a call    *)
(* and is one step.                                                        *)
(*                                                                         *)
(* The counter lives in an object reached through a dictionary, and a      *)
(* thread keeps its reference after the dictionary has dropped the object: *)
(* an attempt that finds no object makes its own, named after the attempt. *)
(***************************************************************************)
EXTENDS Naturals, Sequences, FiniteSets

CONSTANTS
    Attempts,       \* login attempts, each handled once
    NoState,        \* the username is not in _failed_logins
    MaxThreads,     \* bound on the threads handling logins at a time
    MaxFailures,    \* AuthService.max_failures
    BlockDuration,  \* AuthService.block_duration, in ticks
    TokenTtl,       \* AuthService.token_ttl, in ticks
    MaxRestarts,    \* bound on restarts of the process
    MaxClock        \* bound on the clock

ASSUME AuthAssumption ==
    /\ NoState \notin Attempts
    /\ MaxThreads \in Nat \ {0}
    /\ MaxFailures \in Nat \ {0}
    /\ BlockDuration \in Nat \ {0}
    /\ TokenTtl \in Nat \ {0}
    /\ MaxRestarts \in Nat
    /\ MaxClock \in Nat

VARIABLES
    threads,    \* how many threads this process has for logins
    clock,
    at,         \* where each attempt is
    now,        \* the time an attempt read when it started
    ref,        \* the FailedLoginState an attempt looked up
    entry,      \* _failed_logins[username]
    failures,   \* FailedLoginState.failures of each object
    until,      \* FailedLoginState.blocked_until, 0 for None
    loaded,     \* AuthService.credentials holds the record, not disabled
    guesses,    \* history: times of the failures since the last success
    restarts    \* history: times of the restarts

attemptVars == <<at, now, ref>>
stateVars == <<entry, failures, until>>
processVars == <<loaded, restarts>>
vars == <<threads, clock, attemptVars, stateVars, processVars, guesses>>

Busy == {"check", "verify", "update"}
Judged == {"throttled", "rejected", "accepted", "lost"}
Time == 0..(MaxClock + 1)

TypeOK ==
    /\ threads \in 1..MaxThreads
    /\ clock \in 1..(MaxClock + 1)
    /\ at \in [Attempts -> {"idle"} \cup Busy \cup Judged]
    /\ now \in [Attempts -> Time]
    /\ ref \in [Attempts -> Attempts \cup {NoState}]
    /\ entry \in Attempts \cup {NoState}
    /\ failures \in [Attempts -> 0..(MaxFailures - 1)]
    /\ until \in [Attempts -> 0..(MaxClock + 1 + BlockDuration)]
    /\ loaded \in BOOLEAN
    /\ guesses \in Seq(Time)
    /\ restarts \in Seq(Time)

Init ==
    /\ threads \in 1..MaxThreads
    /\ clock = 1
    /\ at = [a \in Attempts |-> "idle"]
    /\ now = [a \in Attempts |-> 0]
    /\ ref = [a \in Attempts |-> NoState]
    /\ entry = NoState
    /\ failures = [a \in Attempts |-> 0]
    /\ until = [a \in Attempts |-> 0]
    /\ loaded = TRUE
    /\ guesses = <<>> /\ restarts = <<>>

Tick ==
    /\ clock <= MaxClock
    /\ clock' = clock + 1
    /\ UNCHANGED <<threads, attemptVars, stateVars, processVars, guesses>>

(* A thread of the pool takes the attempt: _utcnow(), then get(username). *)
Start(a) ==
    /\ at[a] = "idle"
    /\ Cardinality({b \in Attempts : at[b] \in Busy}) < threads
    /\ at' = [at EXCEPT ![a] = "check"]
    /\ now' = [now EXCEPT ![a] = clock]
    /\ ref' = [ref EXCEPT ![a] = entry]
    /\ UNCHANGED <<threads, clock, processVars, stateVars, guesses>>

(* Mistake: the block is not looked at. *)
SeesNoBlock(a) == FALSE

(* Mistake: the block includes the moment it ends. *)
SeesBlockToItsEnd(a) == ref[a] # NoState /\ until[ref[a]] # 0 /\ now[a] <= until[ref[a]]

(* `now < blocked_until' of the object the attempt holds. *)
SeesBlock(a) == ref[a] # NoState /\ now[a] < until[ref[a]]

Throttle(a) ==
    /\ at[a] = "check"
    /\ SeesBlock(a)
    /\ at' = [at EXCEPT ![a] = "throttled"]
    /\ UNCHANGED <<threads, clock, processVars, now, ref, stateVars, guesses>>

Admit(a) ==
    /\ at[a] = "check"
    /\ ~SeesBlock(a)
    /\ at' = [at EXCEPT ![a] = "verify"]
    /\ UNCHANGED <<threads, clock, processVars, now, ref, stateVars, guesses>>

(* Mistake: a success leaves the count of failures. *)
AcceptKeepingCount(a) ==
    /\ at[a] = "verify"
    /\ loaded
    /\ guesses' = <<>>
    /\ at' = [at EXCEPT ![a] = "accepted"]
    /\ UNCHANGED <<threads, clock, processVars, now, ref, stateVars>>

(* Right password of an enabled record: _reset_failures drops the object,  *)
(* and a token is issued that names the time the attempt started.          *)
Accept(a) ==
    /\ at[a] = "verify"
    /\ loaded
    /\ entry' = NoState
    /\ guesses' = <<>>
    /\ at' = [at EXCEPT ![a] = "accepted"]
    /\ UNCHANGED <<threads, clock, processVars, now, ref, failures, until>>

(* Wrong password, or a disabled record: _register_failure looks the       *)
(* object up again.                                                        *)
FindState(a) ==
    /\ at[a] = "verify"
    /\ ref' = [ref EXCEPT ![a] = entry]
    /\ at' = [at EXCEPT ![a] = "update"]
    /\ UNCHANGED <<threads, clock, processVars, now, stateVars, guesses>>

(* The rest of _register_failure, on the object found or on a new one that *)
(* replaces whatever the dictionary holds by now.  The limit blocks and    *)
(* restarts the count; below the limit the block is cleared.               *)
CountFailure(a) ==
    LET object == IF ref[a] = NoState THEN a ELSE ref[a]
        count == failures[object] + 1
    IN  /\ at[a] = "update"
        /\ entry' = IF ref[a] = NoState THEN a ELSE entry
        /\ failures' = [failures EXCEPT ![object] = IF count >= MaxFailures THEN 0 ELSE count]
        /\ until' = [until EXCEPT ![object] =
                        IF count >= MaxFailures THEN now[a] + BlockDuration ELSE 0]
        /\ guesses' = Append(guesses, now[a])
        /\ at' = [at EXCEPT ![a] = "rejected"]
        /\ UNCHANGED <<threads, clock, processVars, now, ref>>

-----------------------------------------------------------------------------
(* Tokens and restarts.                                                    *)

(* Mistake: a token need not have an expiry. *)
HonouredForEver(a) == at[a] = "accepted"

(* validate_token compares the expiry with the clock, and does not look at *)
(* the credentials again.                                                  *)
ValidToken(a) == clock < now[a] + TokenTtl

(* require_admin_user lets a request with the token of attempt a in. *)
Honoured(a) == at[a] = "accepted" /\ ValidToken(a)

(* The process dies, with the attempts it handles and its memory, and      *)
(* starts again: _load_credentials reads the file, in which an operator    *)
(* may have enabled or disabled the admin.                                 *)
Restart ==
    /\ Len(restarts) < MaxRestarts
    /\ restarts' = Append(restarts, clock)
    /\ loaded' \in BOOLEAN
    /\ entry' = NoState
    /\ at' = [a \in Attempts |-> IF at[a] \in Busy THEN "lost" ELSE at[a]]
    /\ UNCHANGED <<threads, clock, now, ref, failures, until, guesses>>

Next ==
    \/ Tick
    \/ \E a \in Attempts :
          \/ Start(a) \/ Throttle(a) \/ Admit(a) \/ Accept(a) \/ FindState(a)
          \/ CountFailure(a)
    \/ Restart

Spec == Init /\ [][Next]_vars

-----------------------------------------------------------------------------
Blocked == entry # NoState /\ clock < until[entry]

(* Wrong guesses counted within the half-open window of BlockDuration that *)
(* starts at t, and restarts in it.                                        *)
In(times, t) == {i \in DOMAIN times : t <= times[i] /\ times[i] < t + BlockDuration}

(* With one login thread, no window as long as the block holds more than   *)
(* MaxFailures wrong guesses in a row, and as many again for each restart  *)
(* of the process, which forgets both count and block: what the throttle   *)
(* is for.                                                                 *)
GuessRateBounded ==
    threads = 1 =>
        \A t \in 1..(MaxClock + 1) :
            Cardinality(In(guesses, t)) <= MaxFailures * (1 + Cardinality(In(restarts, t)))

(* A user is never locked out for less than MaxFailures wrong guesses      *)
(* since the last success that dropped the count, whatever the threads do. *)
NoSpuriousBlock ==
    Blocked => Len(guesses) >= MaxFailures

(* Nobody gets in later than TokenTtl after the process was started with   *)
(* the admin's record disabled: no attempt that was under way survives the *)
(* restart, and the tokens from before it run out.                         *)
AccessEndsWithRecord ==
    ~loaded /\ (\E a \in Attempts : Honoured(a)) =>
        clock < restarts[Len(restarts)] + TokenTtl

(* What the dictionary leads to. *)
Count == IF entry = NoState THEN 0 ELSE failures[entry]
BlockEnd == IF entry = NoState THEN 0 ELSE until[entry]

Answered(a) == at[a] \in Judged \ {"lost"}

Atomic == INSTANCE Lockout WITH
    count <- Count,
    blockedUntil <- BlockEnd,
    verdict <- [a \in Attempts |-> IF at[a] \in Judged THEN at[a] ELSE "none"],
    made <- [a \in Attempts |-> IF Answered(a) THEN now[a] ELSE 0]

(* With one login thread every attempt is judged as if in one step, by its *)
(* own time and by the attempts made before it: the look-ups of one        *)
(* attempt, and a restart or the clock between them, change no verdict, no *)
(* count and no block.                                                     *)
OneThreadIsAtomic ==
    Atomic!Init /\ [][threads = 1 => Atomic!Next]_(Atomic!vars)

(* Counting one more failure never lifts a block. *)
FailureKeepsBlock ==
    [][Blocked /\ Len(guesses') > Len(guesses) => Blocked']_vars
=============================================================================
