----------------------------- MODULE AuthProofs -----------------------------
(***************************************************************************)
(* Machine-checked theorems about AuthThrottle, for every number of        *)
(* attempts, threads and restarts and every limit and duration.            *)
(***************************************************************************)
EXTENDS AuthThrottle, TLAPS, SequenceTheorems, FiniteSetTheorems

(* What holds of the objects that count failures, and of what the history  *)
(* records: an object an attempt made is new until that attempt is         *)
(* rejected, and neither the dictionary nor another attempt holds it       *)
(* before; no attempt and no restart lies in the future.                   *)
Made(o) == at[o] = "rejected"

ObjectsInv ==
    /\ entry # NoState => Made(entry)
    /\ \A a \in Attempts :
          /\ ref[a] # NoState => Made(ref[a])
          /\ ~Made(a) => failures[a] = 0 /\ until[a] = 0

(* Why nobody is blocked without cause: the object in the dictionary has   *)
(* not counted, and its block has not taken, more failures than there were *)
(* since the success that dropped its predecessor.                         *)
CountInv ==
    entry # NoState =>
        /\ failures[entry] <= Len(guesses)
        /\ until[entry] # 0 => Len(guesses) >= MaxFailures

TimesInv == \A a \in Attempts : now[a] <= clock

(* Why access ends: whoever was accepted was so before the restart that    *)
(* left the record out.                                                    *)
RecordInv ==
    ~loaded =>
        /\ restarts # <<>>
        /\ \A a \in Attempts : at[a] = "accepted" => now[a] <= restarts[Len(restarts)]

Inv == TypeOK /\ ObjectsInv /\ CountInv /\ TimesInv /\ RecordInv

-----------------------------------------------------------------------------
(* A sequence grows by one element of its type. *)
LEMMA AppendFacts ==
    ASSUME NEW S, NEW s \in Seq(S), NEW e \in S
    PROVE  /\ Append(s, e) \in Seq(S)
           /\ Len(Append(s, e)) = Len(s) + 1
           /\ Len(s) \in Nat
           /\ Append(s, e)[Len(Append(s, e))] = e
           /\ Append(s, e) # <<>>
  BY AppendProperties, LenProperties, EmptySeq

LEMMA InitInv == Init => Inv
  <1> SUFFICES ASSUME Init PROVE Inv
    OBVIOUS
  <1>1. TypeOK
    <2>1. guesses \in Seq(Time) /\ restarts \in Seq(Time)
      BY DEF Init
    <2>2. QED
      BY <2>1, AuthAssumption DEF Init, TypeOK, Time
  <1>2. ObjectsInv /\ CountInv /\ TimesInv /\ RecordInv
    BY AuthAssumption DEF Init, ObjectsInv, CountInv, TimesInv, RecordInv, Made
  <1>3. QED
    BY <1>1, <1>2 DEF Inv

LEMMA NextType == TypeOK /\ ObjectsInv /\ [Next]_vars => TypeOK'
  <1> SUFFICES ASSUME TypeOK, ObjectsInv, [Next]_vars PROVE TypeOK'
    OBVIOUS
  <1> USE AuthAssumption DEF attemptVars, stateVars, processVars
  <1>1. CASE Tick
    BY <1>1 DEF Tick, TypeOK
  <1>2. ASSUME NEW a \in Attempts, Start(a) PROVE TypeOK'
    BY <1>2 DEF Start, TypeOK, Busy, Time
  <1>3. ASSUME NEW a \in Attempts, Throttle(a) \/ Admit(a) PROVE TypeOK'
    BY <1>3 DEF Throttle, Admit, TypeOK, Busy, Judged
  <1>4. ASSUME NEW a \in Attempts, Accept(a) PROVE TypeOK'
    BY <1>4 DEF Accept, TypeOK, Judged
  <1>5. ASSUME NEW a \in Attempts, FindState(a) PROVE TypeOK'
    BY <1>5 DEF FindState, TypeOK, Busy
  <1>6. ASSUME NEW a \in Attempts, CountFailure(a) PROVE TypeOK'
    <2> DEFINE object == IF ref[a] = NoState THEN a ELSE ref[a]
               count == failures[object] + 1
    <2>1. object \in Attempts /\ count \in Nat
      BY DEF TypeOK
    <2>2. failures' \in [Attempts -> 0..(MaxFailures - 1)]
      BY <1>6, <2>1 DEF CountFailure, TypeOK
    <2>3. now[a] + BlockDuration \in 0..(MaxClock + 1 + BlockDuration)
      BY DEF TypeOK, Time
    <2>4. until' \in [Attempts -> 0..(MaxClock + 1 + BlockDuration)]
      BY <1>6, <2>1, <2>3 DEF CountFailure, TypeOK
    <2>5. guesses' \in Seq(Time)
      BY <1>6, AppendFacts DEF CountFailure, TypeOK
    <2>6. entry' \in Attempts \cup {NoState}
      BY <1>6 DEF CountFailure, TypeOK
    <2>7. at' \in [Attempts -> {"idle"} \cup Busy \cup Judged]
      BY <1>6 DEF CountFailure, TypeOK, Judged
    <2>8. QED
      BY <1>6, <2>2, <2>4, <2>5, <2>6, <2>7 DEF CountFailure, TypeOK
  <1>7. CASE Restart
    <2>1. clock \in Time
      BY DEF TypeOK, Time
    <2>2. restarts' \in Seq(Time)
      BY <1>7, <2>1, AppendFacts DEF Restart, TypeOK
    <2>3. at' \in [Attempts -> {"idle"} \cup Busy \cup Judged]
      BY <1>7 DEF Restart, TypeOK, Judged
    <2>4. QED
      BY <1>7, <2>2, <2>3 DEF Restart, TypeOK
  <1>8. CASE UNCHANGED vars
    BY <1>8 DEF vars, TypeOK
  <1>9. QED
    BY <1>1, <1>2, <1>3, <1>4, <1>5, <1>6, <1>7, <1>8 DEF Next

(* An attempt leaves the place where it counts only to be rejected, and a  *)
(* rejected one stays where it is: what was made stays made.               *)
LEMMA NextObjects == TypeOK /\ ObjectsInv /\ [Next]_vars => ObjectsInv'
  <1> SUFFICES ASSUME TypeOK, ObjectsInv, [Next]_vars PROVE ObjectsInv'
    OBVIOUS
  <1> USE DEF attemptVars, stateVars, processVars
  <1>1. CASE Tick \/ UNCHANGED vars
    BY <1>1 DEF Tick, vars, ObjectsInv, Made
  <1>2. ASSUME NEW a \in Attempts,
               Start(a) \/ Throttle(a) \/ Admit(a) \/ Accept(a) \/ FindState(a)
        PROVE  ObjectsInv'
    BY <1>2, AuthAssumption
       DEF Start, Throttle, Admit, Accept, FindState, TypeOK, ObjectsInv, Made
  <1>3. ASSUME NEW a \in Attempts, CountFailure(a) PROVE ObjectsInv'
    <2> DEFINE object == IF ref[a] = NoState THEN a ELSE ref[a]
    <2>1. object \in Attempts /\ at'[object] = "rejected"
      BY <1>3 DEF CountFailure, TypeOK, ObjectsInv, Made
    <2>2. \A b \in Attempts : Made(b) => Made(b)'
      BY <1>3 DEF CountFailure, TypeOK, Made
    <2>3. \A b \in Attempts : ~Made(b)' => failures'[b] = failures[b] /\ until'[b] = until[b]
      BY <1>3, <2>1 DEF CountFailure, TypeOK, Made
    <2>4. entry' # NoState => Made(entry)'
      BY <1>3, <2>1, <2>2 DEF CountFailure, TypeOK, ObjectsInv, Made
    <2>5. QED
      BY <1>3, <2>2, <2>3, <2>4, AuthAssumption DEF CountFailure, TypeOK, ObjectsInv
  <1>4. CASE Restart
    <2>1. \A b \in Attempts : Made(b)' <=> Made(b)
      BY <1>4 DEF Restart, TypeOK, Made, Busy
    <2>2. QED
      BY <1>4, <2>1 DEF Restart, TypeOK, ObjectsInv
  <1>5. QED
    BY <1>1, <1>2, <1>3, <1>4 DEF Next

LEMMA NextCount == TypeOK /\ ObjectsInv /\ CountInv /\ [Next]_vars => CountInv'
  <1> SUFFICES ASSUME TypeOK, ObjectsInv, CountInv, [Next]_vars PROVE CountInv'
    OBVIOUS
  <1> USE DEF attemptVars, stateVars, processVars
  <1>1. ASSUME NEW a \in Attempts, CountFailure(a) PROVE CountInv'
    <2> DEFINE object == IF ref[a] = NoState THEN a ELSE ref[a]
               count == failures[object] + 1
    <2>1. Len(guesses') = Len(guesses) + 1 /\ Len(guesses) \in Nat
      BY <1>1, AppendFacts DEF CountFailure, TypeOK
    <2>2. CASE ref[a] = NoState
      <3>1. entry' = a /\ failures[a] = 0
        BY <1>1, <2>2 DEF CountFailure, ObjectsInv, Made
      <3>2. /\ failures'[a] = IF 1 >= MaxFailures THEN 0 ELSE 1
            /\ until'[a] = IF 1 >= MaxFailures THEN now[a] + BlockDuration ELSE 0
        BY <1>1, <2>2, <3>1 DEF CountFailure, TypeOK
      <3>3. QED
        BY <2>1, <3>1, <3>2, AuthAssumption DEF CountInv
    <2>3. CASE ref[a] # NoState /\ entry = ref[a]
      <3>1. entry' = entry /\ entry \in Attempts /\ entry # NoState
        BY <1>1, <2>3 DEF CountFailure, TypeOK
      <3>2. /\ failures'[entry] = IF count >= MaxFailures THEN 0 ELSE count
            /\ until'[entry] = IF count >= MaxFailures THEN now[a] + BlockDuration ELSE 0
        BY <1>1, <2>3, <3>1 DEF CountFailure, TypeOK
      <3>3. count \in Nat /\ count <= Len(guesses')
        BY <2>1, <2>3, <3>1 DEF CountInv, TypeOK
      <3>4. QED
        BY <2>1, <3>1, <3>2, <3>3, AuthAssumption DEF CountInv
    <2>4. CASE ref[a] # NoState /\ entry # ref[a]
      <3>1. entry' = entry
        BY <1>1, <2>4 DEF CountFailure
      <3>2. entry # NoState => failures'[entry] = failures[entry] /\ until'[entry] = until[entry]
        BY <1>1, <2>4 DEF CountFailure, TypeOK
      <3>3. entry # NoState => failures[entry] \in Nat
        BY DEF TypeOK
      <3>4. QED
        BY <2>1, <3>1, <3>2, <3>3, AuthAssumption DEF CountInv
    <2>5. QED
      BY <2>2, <2>3, <2>4
  <1>2. ASSUME NEW a \in Attempts,
               Start(a) \/ Throttle(a) \/ Admit(a) \/ Accept(a) \/ FindState(a)
        PROVE  CountInv'
    BY <1>2 DEF Start, Throttle, Admit, Accept, FindState, CountInv
  <1>3. CASE Tick \/ Restart \/ UNCHANGED vars
    BY <1>3 DEF Tick, Restart, vars, CountInv
  <1>4. QED
    BY <1>1, <1>2, <1>3 DEF Next

LEMMA NextTimes ==
    TypeOK /\ TimesInv /\ RecordInv /\ [Next]_vars => TimesInv' /\ RecordInv'
  <1> SUFFICES ASSUME TypeOK, TimesInv, RecordInv, [Next]_vars
               PROVE  TimesInv' /\ RecordInv'
    OBVIOUS
  <1> USE DEF attemptVars, stateVars, processVars
  <1>1. CASE Tick \/ UNCHANGED vars
    BY <1>1 DEF Tick, vars, TypeOK, Time, TimesInv, RecordInv
  <1>2. ASSUME NEW a \in Attempts, Start(a) PROVE TimesInv' /\ RecordInv'
    BY <1>2 DEF Start, TypeOK, TimesInv, RecordInv
  <1>3. ASSUME NEW a \in Attempts,
               Throttle(a) \/ Admit(a) \/ Accept(a) \/ FindState(a) \/ CountFailure(a)
        PROVE  TimesInv' /\ RecordInv'
    BY <1>3 DEF Throttle, Admit, Accept, FindState, CountFailure, TypeOK, TimesInv, RecordInv
  <1>4. CASE Restart
    <2>1. clock \in Time
      BY DEF TypeOK, Time
    <2>2. restarts' # <<>> /\ restarts'[Len(restarts')] = clock
      BY <1>4, <2>1, AppendFacts DEF Restart, TypeOK
    <2>3. QED
      BY <1>4, <2>2 DEF Restart, TimesInv, RecordInv
  <1>5. QED
    BY <1>1, <1>2, <1>3, <1>4 DEF Next

LEMMA Invariant == Spec => []Inv
  <1>1. Inv /\ [Next]_vars => Inv'
    BY NextType, NextObjects, NextCount, NextTimes DEF Inv
  <1>2. QED
    BY InitInv, <1>1, PTL DEF Spec

-----------------------------------------------------------------------------
(* Every variable keeps its type. *)
THEOREM TypeCorrect == Spec => []TypeOK
  <1>1. Inv => TypeOK
    BY DEF Inv
  <1>2. QED
    BY <1>1, Invariant, PTL

(* No interleaving of login threads, late writers to dropped objects       *)
(* included, blocks a user for fewer than MaxFailures wrong guesses since  *)
(* the last success.                                                       *)
THEOREM BlocksAreEarned == Spec => []NoSpuriousBlock
  <1>1. Inv => NoSpuriousBlock
    BY DEF Inv, TypeOK, CountInv, NoSpuriousBlock, Blocked
  <1>2. QED
    BY <1>1, Invariant, PTL

(* After a restart without the admin's record all access ends within the   *)
(* lifetime of a token, whatever was under way.                            *)
THEOREM RecordRemoved == Spec => []AccessEndsWithRecord
  <1>1. Inv => AccessEndsWithRecord
    <2> SUFFICES ASSUME Inv, ~loaded, NEW a \in Attempts, Honoured(a)
                 PROVE  clock < restarts[Len(restarts)] + TokenTtl
      BY DEF AccessEndsWithRecord
    <2>1. now[a] <= restarts[Len(restarts)] /\ clock < now[a] + TokenTtl
      BY DEF Inv, RecordInv, Honoured, ValidToken
    <2>2. restarts[Len(restarts)] \in Time
      BY ElementOfSeq, LenProperties, EmptySeq DEF Inv, TypeOK, RecordInv
    <2>3. QED
      BY <2>1, <2>2, AuthAssumption DEF Inv, TypeOK, Time
  <1>2. QED
    BY <1>1, Invariant, PTL

-----------------------------------------------------------------------------
(* The throttle with one login thread.  Windows of BlockDuration are       *)
(* counted by the time they start, for all times.                          *)

LEMMA InIsFinite ==
    ASSUME NEW s \in Seq(Time), NEW t
    PROVE  IsFiniteSet(In(s, t)) /\ Cardinality(In(s, t)) \in Nat
  <1>1. Len(s) \in Nat /\ DOMAIN s = 1..Len(s)
    BY LenProperties
  <1>2. IsFiniteSet(1..Len(s))
    BY <1>1, FS_Interval
  <1>3. In(s, t) \in SUBSET (1..Len(s))
    BY <1>1 DEF In
  <1>4. IsFiniteSet(In(s, t))
    BY <1>2, <1>3, FS_Subset
  <1>5. QED
    BY <1>4, FS_CardinalityType

(* One more time in a log adds one to the windows it falls into. *)
LEMMA InGrows ==
    ASSUME NEW s \in Seq(Time), NEW x \in Time, NEW t
    PROVE  Cardinality(In(Append(s, x), t)) =
               Cardinality(In(s, t)) + (IF t <= x /\ x < t + BlockDuration THEN 1 ELSE 0)
  <1> DEFINE n == Len(s)
             new == Append(s, x)
  <1>1. n \in Nat /\ DOMAIN s = 1..n
    BY LenProperties
  <1>2. /\ new \in Seq(Time) /\ Len(new) = n + 1
        /\ \A i \in 1..n : new[i] = s[i]
        /\ new[n + 1] = x
    BY AppendProperties
  <1>3. DOMAIN new = 1..(n + 1)
    BY <1>2, LenProperties
  <1>4. IsFiniteSet(In(s, t)) /\ Cardinality(In(s, t)) \in Nat
    BY InIsFinite
  <1> HIDE DEF n, new
  <1>5. n + 1 \notin In(s, t)
    BY <1>1 DEF In
  <1>6. CASE t <= x /\ x < t + BlockDuration
    <2>1. In(new, t) = In(s, t) \cup {n + 1}
      BY <1>1, <1>2, <1>3, <1>6 DEF In
    <2>2. Cardinality(In(new, t)) = Cardinality(In(s, t)) + 1
      BY <1>4, <1>5, <2>1, FS_AddElement
    <2>3. QED
      BY <1>6, <2>2 DEF new
  <1>7. CASE ~(t <= x /\ x < t + BlockDuration)
    <2>1. In(new, t) = In(s, t)
      BY <1>1, <1>2, <1>3, <1>7 DEF In
    <2>2. QED
      BY <1>4, <1>7, <2>1 DEF new
  <1>8. QED
    BY <1>6, <1>7

LEMMA InOfNothing == \A t : In(<<>>, t) = {} /\ Cardinality(In(<<>>, t)) = 0
  <1>1. DOMAIN <<>> = {}
    BY EmptySeq, LenProperties
  <1>2. QED
    BY <1>1, FS_EmptySet DEF In

(* No time of the history is later than x. *)
AllBefore(x) ==
    /\ \A i \in DOMAIN guesses : guesses[i] <= x
    /\ \A i \in DOMAIN restarts : restarts[i] <= x

(* The one attempt under way is the latest thing that happened, holds what *)
(* the dictionary holds, and was let in after the end of the block.        *)
OneAttempt ==
    \A a, b \in Attempts : at[a] \in Busy /\ at[b] \in Busy => a = b

AttemptInv ==
    \A a \in Attempts :
        /\ at[a] \in Busy => AllBefore(now[a])
        /\ at[a] \in {"check", "update"} => ref[a] = entry
        /\ at[a] \in {"verify", "update"} => BlockEnd <= now[a]

Guesses(t) == Cardinality(In(guesses, t))
Allowed(t) == MaxFailures * Cardinality(In(restarts, t))

(* A window that goes on beyond the block and all that happened has no     *)
(* more guesses than restarts account for and the object has counted: this *)
(* is what admits the next guess.                                          *)
CountedInv ==
    \A t, y \in Nat :
        t <= y /\ y < t + BlockDuration /\ BlockEnd <= y /\ AllBefore(y) =>
            Guesses(t) <= Allowed(t) + Count

RateInv == \A t \in Nat : Guesses(t) <= Allowed(t) + MaxFailures

SequentialInv ==
    threads = 1 =>
        /\ OneAttempt
        /\ AllBefore(clock)
        /\ AttemptInv
        /\ CountedInv
        /\ RateInv

LEMMA Numbers ==
    ASSUME TypeOK
    PROVE  /\ clock \in Nat
           /\ \A a \in Attempts : now[a] \in Nat
           /\ Count \in 0..(MaxFailures - 1)
           /\ BlockEnd \in Nat
           /\ \A t : Guesses(t) \in Nat /\ Allowed(t) \in Nat
           /\ \A i \in DOMAIN guesses : guesses[i] \in Nat
           /\ \A i \in DOMAIN restarts : restarts[i] \in Nat
  <1>1. clock \in Nat /\ \A a \in Attempts : now[a] \in Nat
    BY AuthAssumption DEF TypeOK, Time
  <1>2. Count \in 0..(MaxFailures - 1) /\ BlockEnd \in Nat
    BY AuthAssumption DEF TypeOK, Count, BlockEnd
  <1>3. ASSUME NEW t
        PROVE  Guesses(t) \in Nat /\ Allowed(t) \in Nat
    <2>1. Cardinality(In(guesses, t)) \in Nat /\ Cardinality(In(restarts, t)) \in Nat
      BY InIsFinite DEF TypeOK
    <2>2. QED
      BY <2>1, AuthAssumption DEF Guesses, Allowed
  <1>4. /\ \A i \in DOMAIN guesses : guesses[i] \in Time
        /\ \A i \in DOMAIN restarts : restarts[i] \in Time
    BY ElementOfSeq, LenProperties DEF TypeOK
  <1>5. QED
    BY <1>1, <1>2, <1>3, <1>4, AuthAssumption DEF Time

(* With one thread, an attempt starts only when none is under way. *)
LEMMA StartsAlone ==
    ASSUME TypeOK, OneAttempt, threads = 1, NEW a \in Attempts, Start(a)
    PROVE  \A b \in Attempts : at[b] \notin Busy
  <1> SUFFICES ASSUME NEW b \in Attempts, at[b] \in Busy
               PROVE  FALSE
    OBVIOUS
  <1>1. {c \in Attempts : at[c] \in Busy} = {b}
    BY DEF OneAttempt
  <1>2. Cardinality({b}) = 1
    BY FS_Singleton
  <1>3. Cardinality({c \in Attempts : at[c] \in Busy}) < 1
    BY DEF Start
  <1>4. QED
    BY <1>1, <1>2, <1>3

(* A step that changes neither the counters nor the history. *)
LEMMA SameCounters ==
    ASSUME UNCHANGED <<guesses, restarts, entry, failures, until>>
    PROVE  /\ Count' = Count /\ BlockEnd' = BlockEnd
           /\ CountedInv => CountedInv'
           /\ RateInv => RateInv'
           /\ \A x : AllBefore(x)' <=> AllBefore(x)
  BY DEF Count, BlockEnd, CountedInv, RateInv, AllBefore, Guesses, Allowed

LEMMA QuietSteps ==
    ASSUME Inv, threads = 1, SequentialInv,
           \/ Tick \/ UNCHANGED vars
           \/ \E a \in Attempts : Start(a) \/ Throttle(a) \/ Admit(a) \/ FindState(a)
    PROVE  SequentialInv'
  <1> USE DEF attemptVars, stateVars, processVars
  <1>1. /\ TypeOK /\ OneAttempt /\ AllBefore(clock) /\ AttemptInv /\ CountedInv /\ RateInv
        /\ TimesInv
    BY DEF Inv, SequentialInv
  <1>2. UNCHANGED <<threads, guesses, restarts, entry, failures, until>>
    BY DEF Tick, vars, Start, Throttle, Admit, FindState
  <1>3. /\ BlockEnd' = BlockEnd /\ CountedInv' /\ RateInv'
        /\ \A x : AllBefore(x)' <=> AllBefore(x)
    BY <1>1, <1>2, SameCounters
  <1>4. AllBefore(clock) /\ clock <= clock' => AllBefore(clock')
    <2>1. clock \in Nat
      BY <1>1, Numbers
    <2>2. clock' = clock \/ clock' = clock + 1
      BY DEF Tick, vars, Start, Throttle, Admit, FindState
    <2>3. QED
      BY <1>1, <2>1, <2>2, Numbers DEF AllBefore
  <1>5. CASE Tick \/ UNCHANGED vars
    <2>1. UNCHANGED attemptVars /\ clock <= clock'
      BY <1>1, <1>5, Numbers DEF Tick, vars
    <2>2. AllBefore(clock)'
      BY <1>1, <1>3, <1>4, <2>1 DEF AllBefore
    <2>3. OneAttempt' /\ AttemptInv'
      BY <1>1, <1>2, <1>3, <2>1 DEF OneAttempt, AttemptInv
    <2>4. QED
      BY <1>3, <2>2, <2>3 DEF SequentialInv
  <1>6. ASSUME NEW a \in Attempts, Start(a) \/ Throttle(a) \/ Admit(a) \/ FindState(a)
        PROVE  SequentialInv'
    <2>1. clock' = clock /\ AllBefore(clock)'
      BY <1>1, <1>3, <1>6 DEF Start, Throttle, Admit, FindState, AllBefore
    <2>2. CASE Start(a)
      <3>1. \A b \in Attempts : at[b] \notin Busy
        BY <1>1, <2>2, StartsAlone
      <3>2. /\ at' = [at EXCEPT ![a] = "check"] /\ now' = [now EXCEPT ![a] = clock]
            /\ ref' = [ref EXCEPT ![a] = entry]
        BY <2>2 DEF Start
      <3>3. OneAttempt'
        BY <1>1, <3>1, <3>2 DEF OneAttempt, TypeOK
      <3>4. \A b \in Attempts : at'[b] \in Busy => b = a
        BY <1>1, <3>1, <3>2 DEF TypeOK
      <3>5. at'[a] = "check" /\ now'[a] = clock /\ ref'[a] = entry
        BY <1>1, <3>2 DEF TypeOK
      <3>6. AttemptInv'
        BY <1>1, <1>2, <1>3, <3>4, <3>5 DEF AttemptInv, Busy
      <3>7. QED
        BY <1>3, <2>1, <3>3, <3>6 DEF SequentialInv
    <2>3. CASE Throttle(a)
      <3>1. at' = [at EXCEPT ![a] = "throttled"] /\ now' = now /\ ref' = ref
        BY <2>3 DEF Throttle
      <3>2. OneAttempt' /\ AttemptInv'
        BY <1>1, <1>2, <1>3, <3>1 DEF OneAttempt, AttemptInv, TypeOK, Busy
      <3>3. QED
        BY <1>3, <2>1, <3>2 DEF SequentialInv
    <2>4. CASE Admit(a)
      <3>1. at[a] = "check" /\ at' = [at EXCEPT ![a] = "verify"] /\ now' = now /\ ref' = ref
        BY <2>4 DEF Admit
      <3>2. OneAttempt'
        BY <1>1, <3>1 DEF OneAttempt, TypeOK, Busy
      <3>3. ref[a] = entry
        BY <1>1, <3>1 DEF AttemptInv
      <3>4. BlockEnd <= now[a]
        <4>1. ref[a] = NoState \/ ~(now[a] < until[ref[a]])
          BY <2>4 DEF Admit, SeesBlock
        <4>2. now[a] \in Nat /\ BlockEnd \in Nat
          BY <1>1, Numbers
        <4>3. QED
          BY <3>3, <4>1, <4>2 DEF BlockEnd
      <3>5. AttemptInv'
        BY <1>1, <1>2, <1>3, <3>1, <3>4 DEF AttemptInv, TypeOK, Busy
      <3>6. QED
        BY <1>3, <2>1, <3>2, <3>5 DEF SequentialInv
    <2>5. CASE FindState(a)
      <3>1. /\ at[a] = "verify" /\ at' = [at EXCEPT ![a] = "update"] /\ now' = now
            /\ ref' = [ref EXCEPT ![a] = entry]
        BY <2>5 DEF FindState
      <3>2. OneAttempt' /\ AttemptInv'
        BY <1>1, <1>2, <1>3, <3>1 DEF OneAttempt, AttemptInv, TypeOK, Busy
      <3>3. QED
        BY <1>3, <2>1, <3>2 DEF SequentialInv
    <2>6. QED
      BY <1>6, <2>2, <2>3, <2>4, <2>5
  <1>7. QED
    BY <1>5, <1>6

LEMMA AcceptSequential ==
    ASSUME Inv, threads = 1, SequentialInv, NEW a \in Attempts, Accept(a)
    PROVE  SequentialInv'
  <1> USE DEF attemptVars, stateVars, processVars
  <1>1. TypeOK /\ OneAttempt /\ AllBefore(clock) /\ AttemptInv
    BY DEF Inv, SequentialInv
  <1>2. /\ at[a] = "verify" /\ at' = [at EXCEPT ![a] = "accepted"]
        /\ entry' = NoState /\ guesses' = <<>>
        /\ UNCHANGED <<threads, clock, now, ref, restarts>>
    BY DEF Accept
  <1>3. \A b \in Attempts : at'[b] \notin Busy
    BY <1>1, <1>2 DEF OneAttempt, TypeOK, Busy
  <1>4. OneAttempt' /\ AttemptInv'
    BY <1>3 DEF OneAttempt, AttemptInv, Busy
  <1>5. AllBefore(clock)'
    <2>1. DOMAIN guesses' = {}
      BY <1>2, EmptySeq, LenProperties
    <2>2. QED
      BY <1>1, <1>2, <2>1 DEF AllBefore
  <1>6. \A t : Guesses(t)' = 0
    BY <1>2, InOfNothing DEF Guesses
  <1>7. \A t : Allowed(t)' \in Nat /\ Count' = 0
    BY <1>1, <1>2, Numbers DEF Allowed, Count
  <1>8. CountedInv' /\ RateInv'
    BY <1>6, <1>7, AuthAssumption DEF CountedInv, RateInv
  <1>9. QED
    BY <1>4, <1>5, <1>8 DEF SequentialInv

LEMMA RestartSequential ==
    ASSUME Inv, threads = 1, SequentialInv, Restart
    PROVE  SequentialInv'
  <1> USE DEF attemptVars, stateVars, processVars
  <1>1. TypeOK /\ AllBefore(clock) /\ RateInv
    BY DEF Inv, SequentialInv
  <1>2. /\ entry' = NoState /\ restarts' = Append(restarts, clock)
        /\ UNCHANGED <<threads, clock, guesses>>
        /\ clock \in Time /\ clock \in Nat
    BY <1>1, Numbers DEF Restart, TypeOK, Time
  <1>3. \A b \in Attempts : at'[b] \notin Busy
    BY <1>1 DEF Restart, TypeOK, Busy
  <1>4. OneAttempt' /\ AttemptInv'
    BY <1>3 DEF OneAttempt, AttemptInv, Busy
  <1>5. /\ Len(restarts) \in Nat /\ DOMAIN restarts = 1..Len(restarts)
        /\ DOMAIN restarts' = 1..(Len(restarts) + 1)
        /\ \A i \in 1..Len(restarts) : restarts'[i] = restarts[i]
        /\ restarts'[Len(restarts) + 1] = clock
    <2>1. restarts \in Seq(Time)
      BY <1>1 DEF TypeOK
    <2>2. Len(restarts) \in Nat /\ DOMAIN restarts = 1..Len(restarts)
      BY <2>1, LenProperties
    <2>3. /\ restarts' \in Seq(Time) /\ Len(restarts') = Len(restarts) + 1
          /\ \A i \in 1..Len(restarts) : restarts'[i] = restarts[i]
          /\ restarts'[Len(restarts) + 1] = clock
      BY <1>2, <2>1, AppendProperties
    <2>4. DOMAIN restarts' = 1..(Len(restarts) + 1)
      BY <2>3, LenProperties
    <2>5. QED
      BY <2>2, <2>3, <2>4
  <1>6. AllBefore(clock)'
    BY <1>1, <1>2, <1>5 DEF AllBefore
  <1>7. \A t : Guesses(t)' = Guesses(t) /\ Guesses(t) \in Nat /\ Allowed(t) \in Nat
    BY <1>1, <1>2, Numbers DEF Guesses
  <1>8. ASSUME NEW t
        PROVE  Allowed(t)' = Allowed(t) + (IF t <= clock /\ clock < t + BlockDuration
                                           THEN MaxFailures ELSE 0)
    <2>1. Cardinality(In(restarts, t)) \in Nat
      BY <1>1, InIsFinite DEF TypeOK
    <2>2. Cardinality(In(restarts', t)) = Cardinality(In(restarts, t))
               + (IF t <= clock /\ clock < t + BlockDuration THEN 1 ELSE 0)
      BY <1>1, <1>2, InGrows DEF TypeOK
    <2>3. QED
      BY <2>1, <2>2, AuthAssumption DEF Allowed
  <1>9. RateInv'
    BY <1>1, <1>7, <1>8, AuthAssumption DEF RateInv
  <1>10. CountedInv'
    <2> SUFFICES ASSUME NEW t \in Nat, NEW y \in Nat, y < t + BlockDuration, AllBefore(y)'
                 PROVE  Guesses(t)' <= Allowed(t)' + Count'
      BY DEF CountedInv
    <2>1. clock <= y /\ Count' = 0
      BY <1>2, <1>5 DEF AllBefore, Count
    <2>2. CASE t <= clock
      <3>1. clock < t + BlockDuration
        BY <1>2, <2>1, AuthAssumption
      <3>2. Allowed(t)' = Allowed(t) + MaxFailures
        BY <1>8, <2>2, <3>1
      <3>3. QED
        BY <1>1, <1>7, <2>1, <3>2, AuthAssumption DEF RateInv
    <2>3. CASE clock < t
      <3>1. In(guesses, t) = {}
        BY <1>1, <1>2, <2>3, Numbers DEF AllBefore, In
      <3>2. Guesses(t)' = 0
        BY <1>7, <3>1, FS_EmptySet DEF Guesses
      <3>3. Allowed(t)' \in Nat
        BY <1>7, <1>8, AuthAssumption
      <3>4. QED
        BY <2>1, <3>2, <3>3
    <2>4. QED
      BY <1>2, <2>2, <2>3
  <1>11. QED
    BY <1>4, <1>6, <1>9, <1>10 DEF SequentialInv

(* The attempt counts on the object in the dictionary, or on its own. *)
LEMMA OneMoreFailure ==
    ASSUME Inv, threads = 1, SequentialInv, NEW a \in Attempts, CountFailure(a)
    PROVE  /\ entry' \in Attempts /\ entry' # NoState
           /\ failures'[entry'] = IF Count + 1 >= MaxFailures THEN 0 ELSE Count + 1
           /\ until'[entry'] = IF Count + 1 >= MaxFailures THEN now[a] + BlockDuration ELSE 0
  <1>1. TypeOK /\ ObjectsInv /\ AttemptInv /\ at[a] = "update"
    BY DEF Inv, SequentialInv, CountFailure
  <1>2. ref[a] = entry
    BY <1>1 DEF AttemptInv
  <1>3. CASE entry = NoState
    <2>1. entry' = a /\ failures[a] = 0
      BY <1>1, <1>2, <1>3 DEF CountFailure, ObjectsInv, Made
    <2>2. QED
      BY <1>1, <1>2, <1>3, <2>1, AuthAssumption DEF CountFailure, TypeOK, Count
  <1>4. CASE entry # NoState
    <2>1. entry' = entry /\ entry \in Attempts
      BY <1>1, <1>2, <1>4 DEF CountFailure, TypeOK
    <2>2. QED
      BY <1>1, <1>2, <1>4, <2>1, AuthAssumption DEF CountFailure, TypeOK, Count
  <1>5. QED
    BY <1>3, <1>4

(* The step that counts: the window it falls into had room for it, and     *)
(* after the last one allowed the block covers the rest of every window    *)
(* it falls into.                                                          *)
LEMMA CountFailureSequential ==
    ASSUME Inv, threads = 1, SequentialInv, NEW a \in Attempts, CountFailure(a)
    PROVE  SequentialInv'
  <1> USE DEF attemptVars, stateVars, processVars
  <1> DEFINE g == now[a]
             n == Len(guesses)
  <1>1. /\ TypeOK /\ ObjectsInv /\ OneAttempt /\ AllBefore(clock) /\ AttemptInv
        /\ CountedInv /\ RateInv /\ TimesInv
    BY DEF Inv, SequentialInv
  <1>2. /\ at[a] = "update" /\ at' = [at EXCEPT ![a] = "rejected"]
        /\ guesses' = Append(guesses, g)
        /\ UNCHANGED <<threads, clock, now, ref, restarts>>
    BY DEF CountFailure
  <1>3. /\ ref[a] = entry /\ AllBefore(g) /\ BlockEnd <= g
        /\ g \in Nat /\ g \in Time /\ g <= clock
    BY <1>1, <1>2, Numbers DEF AttemptInv, Busy, TypeOK, TimesInv
  <1>4. /\ entry' \in Attempts /\ entry' # NoState
        /\ failures'[entry'] = IF Count + 1 >= MaxFailures THEN 0 ELSE Count + 1
        /\ until'[entry'] = IF Count + 1 >= MaxFailures THEN g + BlockDuration ELSE 0
    BY OneMoreFailure
  <1>5. Count \in 0..(MaxFailures - 1)
    BY <1>1, Numbers
  <1>6. /\ n \in Nat /\ DOMAIN guesses = 1..n
        /\ DOMAIN guesses' = 1..(n + 1)
        /\ \A i \in 1..n : guesses'[i] = guesses[i]
        /\ guesses'[n + 1] = g
    <2>1. guesses \in Seq(Time)
      BY <1>1 DEF TypeOK
    <2>2. n \in Nat /\ DOMAIN guesses = 1..n
      BY <2>1, LenProperties
    <2>3. /\ guesses' \in Seq(Time) /\ Len(guesses') = n + 1
          /\ \A i \in 1..n : guesses'[i] = guesses[i]
          /\ guesses'[n + 1] = g
      BY <1>2, <1>3, <2>1, AppendProperties
    <2>4. DOMAIN guesses' = 1..(n + 1)
      BY <2>3, LenProperties
    <2>5. QED
      BY <2>2, <2>3, <2>4
  <1>7. \A t : /\ Guesses(t)' = Guesses(t) + (IF t <= g /\ g < t + BlockDuration THEN 1 ELSE 0)
               /\ Allowed(t)' = Allowed(t)
               /\ Guesses(t) \in Nat /\ Allowed(t) \in Nat
    BY <1>1, <1>2, <1>3, InGrows, Numbers DEF Guesses, Allowed, TypeOK
  <1>8. \A b \in Attempts : at'[b] \notin Busy
    BY <1>1, <1>2 DEF OneAttempt, TypeOK, Busy
  <1>9. OneAttempt' /\ AttemptInv'
    BY <1>8 DEF OneAttempt, AttemptInv, Busy
  <1>10. AllBefore(clock)'
    BY <1>1, <1>2, <1>3, <1>6 DEF AllBefore
  <1>11. \A t \in Nat : t <= g /\ g < t + BlockDuration => Guesses(t) <= Allowed(t) + Count
    BY <1>1, <1>3 DEF CountedInv
  <1>12. RateInv'
    BY <1>1, <1>5, <1>7, <1>11, AuthAssumption DEF RateInv
  <1>13. CountedInv'
    <2> SUFFICES ASSUME NEW t \in Nat, NEW y \in Nat, t <= y, y < t + BlockDuration,
                        BlockEnd' <= y, AllBefore(y)'
                 PROVE  Guesses(t)' <= Allowed(t)' + Count'
      BY DEF CountedInv
    <2>1. g <= y /\ AllBefore(y)
      BY <1>2, <1>6 DEF AllBefore
    <2>2. Count' = failures'[entry'] /\ BlockEnd' = until'[entry']
      BY <1>4 DEF Count, BlockEnd
    <2>3. CASE g < t
      <3>1. In(guesses, t) = {}
        BY <1>3, <1>6, <2>3, Numbers, <1>1 DEF AllBefore, In
      <3>2. Guesses(t)' = 0
        <4>1. Guesses(t) = 0
          BY <3>1, FS_EmptySet DEF Guesses
        <4>2. ~(t <= g)
          BY <1>3, <2>3
        <4>3. QED
          BY <1>7, <4>1, <4>2
      <3>3. Count' \in Nat
        BY <1>4, <1>5, <2>2
      <3>4. QED
        BY <1>7, <3>2, <3>3
    <2>4. CASE t <= g
      <3>1. g < t + BlockDuration
        BY <1>3, <2>1, AuthAssumption
      <3>2. Guesses(t)' <= Allowed(t) + Count + 1
        BY <1>5, <1>7, <1>11, <2>4, <3>1
      <3>3. Count + 1 < MaxFailures
        <4>1. ~(g + BlockDuration <= y)
          BY <1>3, <2>4, AuthAssumption
        <4>2. QED
          BY <1>4, <1>5, <2>2, <4>1, AuthAssumption
      <3>4. Count' = Count + 1
        BY <1>4, <1>5, <2>2, <3>3, AuthAssumption
      <3>5. QED
        BY <1>5, <1>7, <3>2, <3>4
    <2>5. QED
      BY <1>3, <2>3, <2>4
  <1>14. QED
    BY <1>9, <1>10, <1>12, <1>13 DEF SequentialInv

LEMMA NextSequential == Inv /\ SequentialInv /\ [Next]_vars => SequentialInv'
  <1> SUFFICES ASSUME Inv, SequentialInv, [Next]_vars PROVE SequentialInv'
    OBVIOUS
  <1>1. threads' = threads
    BY DEF Next, Tick, Start, Throttle, Admit, Accept, FindState, CountFailure, Restart, vars
  <1>2. CASE threads = 1
    BY <1>2, QuietSteps, AcceptSequential, RestartSequential, CountFailureSequential DEF Next
  <1>3. CASE threads # 1
    BY <1>1, <1>3 DEF SequentialInv
  <1>4. QED
    BY <1>2, <1>3

LEMMA Sequential == Spec => []SequentialInv
  <1>1. Init => SequentialInv
    <2> SUFFICES ASSUME Init PROVE SequentialInv
      OBVIOUS
    <2>1. guesses = <<>> /\ restarts = <<>> /\ DOMAIN <<>> = {}
      BY EmptySeq, LenProperties DEF Init
    <2>2. \A x : AllBefore(x)
      BY <2>1 DEF AllBefore
    <2>3. \A t : Guesses(t) = 0 /\ Allowed(t) = 0
      BY <2>1, InOfNothing, AuthAssumption DEF Guesses, Allowed
    <2>4. Count = 0
      BY DEF Init, Count
    <2>5. CountedInv /\ RateInv
      BY <2>3, <2>4, AuthAssumption DEF CountedInv, RateInv
    <2>6. OneAttempt /\ AttemptInv
      BY DEF Init, OneAttempt, AttemptInv, Busy
    <2>7. QED
      BY <2>2, <2>5, <2>6 DEF SequentialInv
  <1>2. QED
    BY <1>1, NextSequential, Invariant, PTL DEF Spec

(* What the throttle is for: with one login thread, no window as long as   *)
(* the block holds more than MaxFailures wrong guesses in a row, and as    *)
(* many again for each restart in it.                                      *)
THEOREM GuessesAreThrottled == Spec => []GuessRateBounded
  <1>1. Inv /\ SequentialInv => GuessRateBounded
    <2> SUFFICES ASSUME Inv, RateInv, NEW t \in 1..(MaxClock + 1)
                 PROVE  Cardinality(In(guesses, t))
                            <= MaxFailures * (1 + Cardinality(In(restarts, t)))
      BY DEF SequentialInv, GuessRateBounded
    <2>1. t \in Nat
      BY AuthAssumption
    <2>2. Cardinality(In(restarts, t)) \in Nat
      BY InIsFinite DEF Inv, TypeOK
    <2>3. Cardinality(In(guesses, t)) <= MaxFailures * Cardinality(In(restarts, t)) + MaxFailures
      BY <2>1 DEF RateInv, Guesses, Allowed
    <2>4. QED
      BY <2>2, <2>3, AuthAssumption
  <1>2. QED
    BY <1>1, Sequential, Invariant, PTL
-----------------------------------------------------------------------------
(* One thread is atomic.  Beyond what is proved above, an attempt under    *)
(* way was made after every attempt that has been answered.                *)
LatestInv ==
    threads = 1 =>
        \A a \in Attempts : at[a] \in Busy =>
            /\ now[a] \in 1..clock
            /\ \A b \in Attempts : Answered(b) => now[b] <= now[a]

LEMMA NextLatest == Inv /\ SequentialInv /\ LatestInv /\ [Next]_vars => LatestInv'
  <1> SUFFICES ASSUME Inv, SequentialInv, LatestInv, [Next]_vars PROVE LatestInv'
    OBVIOUS
  <1> USE DEF attemptVars, stateVars, processVars
  <1>1. threads' = threads
    BY DEF Next, Tick, Start, Throttle, Admit, Accept, FindState, CountFailure, Restart, vars
  <1> SUFFICES ASSUME threads = 1
               PROVE  \A a \in Attempts : at'[a] \in Busy =>
                          /\ now'[a] \in 1..clock'
                          /\ \A b \in Attempts : Answered(b)' => now'[b] <= now'[a]
    BY <1>1 DEF LatestInv
  <1>2. /\ TypeOK /\ OneAttempt /\ TimesInv
        /\ \A a \in Attempts : at[a] \in Busy =>
              /\ now[a] \in 1..clock
              /\ \A b \in Attempts : Answered(b) => now[b] <= now[a]
        /\ clock \in Nat \ {0}
        /\ DOMAIN at = Attempts /\ DOMAIN now = Attempts
    BY AuthAssumption DEF Inv, SequentialInv, LatestInv, TypeOK
  <1>3. CASE Tick \/ UNCHANGED vars
    <2>1. UNCHANGED attemptVars /\ (clock' = clock \/ clock' = clock + 1)
      BY <1>3 DEF Tick, vars
    <2>2. QED
      BY <1>2, <2>1 DEF Answered
  <1>4. ASSUME NEW a \in Attempts, Start(a)
        PROVE  LatestInv'
    <2>1. \A b \in Attempts : at[b] \notin Busy
      BY <1>2, <1>4, StartsAlone
    <2>2. /\ at' = [at EXCEPT ![a] = "check"] /\ now' = [now EXCEPT ![a] = clock]
          /\ clock' = clock
      BY <1>4 DEF Start
    <2>3. \A b \in Attempts : at'[b] \in Busy => b = a
      BY <1>2, <2>1, <2>2
    <2>4. now'[a] = clock /\ ~Answered(a)'
      BY <1>2, <2>2 DEF Answered, Judged
    <2>5. \A b \in Attempts : Answered(b)' => now'[b] <= clock
      BY <1>2, <2>2, <2>4 DEF TimesInv
    <2>6. QED
      BY <1>2, <2>2, <2>3, <2>4, <2>5 DEF LatestInv
  <1>5. ASSUME NEW a \in Attempts, Throttle(a) \/ Accept(a) \/ CountFailure(a)
        PROVE  LatestInv'
    <2>1. /\ at[a] \in Busy
          /\ \/ at' = [at EXCEPT ![a] = "throttled"]
             \/ at' = [at EXCEPT ![a] = "accepted"]
             \/ at' = [at EXCEPT ![a] = "rejected"]
      BY <1>5 DEF Throttle, Accept, CountFailure, Busy
    <2>2. \A b \in Attempts : at'[b] \notin Busy
      BY <1>2, <2>1 DEF OneAttempt, Busy
    <2>3. QED
      BY <2>2 DEF LatestInv
  <1>6. ASSUME NEW a \in Attempts, Admit(a) \/ FindState(a)
        PROVE  LatestInv'
    <2>1. /\ at[a] \in Busy /\ UNCHANGED <<clock, now>>
          /\ at' = [at EXCEPT ![a] = "verify"] \/ at' = [at EXCEPT ![a] = "update"]
      BY <1>6 DEF Admit, FindState, Busy
    <2>2. \A b \in Attempts : /\ at'[b] \in Busy => at[b] \in Busy
                              /\ Answered(b)' => Answered(b)
      BY <1>2, <2>1 DEF Busy, Answered, Judged
    <2>3. QED
      BY <1>2, <2>1, <2>2 DEF LatestInv
  <1>7. CASE Restart
    <2>1. \A b \in Attempts : at'[b] \notin Busy
      BY <1>2, <1>7 DEF Restart, Busy
    <2>2. QED
      BY <2>1
  <1>8. QED
    BY <1>1, <1>3, <1>4, <1>5, <1>6, <1>7 DEF Next, LatestInv

(* An attempt under way that is answered now. *)
LEMMA Judges ==
    ASSUME Inv, SequentialInv, LatestInv, threads = 1, NEW a \in Attempts, at[a] \in Busy,
           NEW answer \in Judged \ {"lost"}, at' = [at EXCEPT ![a] = answer],
           UNCHANGED <<clock, now>>
    PROVE  now[a] \in 1..clock /\ Atomic!Judge(a, now[a], answer)
  <1>1. /\ TypeOK
        /\ now[a] \in 1..clock
        /\ \A b \in Attempts : Answered(b) => now[b] <= now[a]
        /\ DOMAIN at = Attempts /\ clock \in Nat
    BY AuthAssumption DEF Inv, LatestInv, TypeOK
  <1> DEFINE verdict == [b \in Attempts |-> IF at[b] \in Judged THEN at[b] ELSE "none"]
             made == [b \in Attempts |-> IF Answered(b) THEN now[b] ELSE 0]
  <1>2. at[a] \notin Judged /\ answer \in Judged
    BY DEF Busy, Judged
  <1>3. verdict[a] = "none"
    BY <1>2
  <1>4. \A b \in Attempts : made[b] <= now[a]
    BY <1>1
  <1>5. verdict' = [verdict EXCEPT ![a] = answer]
    BY <1>1, <1>2
  <1>6. made' = [made EXCEPT ![a] = now[a]]
    BY <1>1, <1>2 DEF Answered
  <1>7. QED
    BY <1>1, <1>3, <1>4, <1>5, <1>6 DEF Atomic!Judge

LEMMA StepIsAtomic ==
    ASSUME Inv, SequentialInv, LatestInv, threads = 1, [Next]_vars
    PROVE  [Atomic!Next]_(Atomic!vars)
  <1> USE DEF attemptVars, stateVars, processVars
  <1>1. /\ TypeOK /\ AttemptInv /\ DOMAIN at = Attempts /\ clock \in Nat
        /\ \A a \in Attempts : now[a] \in Nat
        /\ Count \in 0..(MaxFailures - 1) /\ BlockEnd \in Nat
    BY Numbers DEF Inv, SequentialInv, TypeOK
  <1>2. ASSUME UNCHANGED <<clock, entry, failures, until, at, now>>
        PROVE  UNCHANGED Atomic!vars
    BY <1>2 DEF Atomic!vars, Count, BlockEnd, Answered
  <1>3. CASE Tick
    <2>1. /\ clock' = clock + 1
          /\ UNCHANGED <<entry, failures, until, at, now>>
      BY <1>3 DEF Tick
    <2>2. Atomic!Tick
      BY <2>1 DEF Atomic!Tick, Count, BlockEnd, Answered
    <2>3. QED
      BY <2>2 DEF Atomic!Next
  <1>4. ASSUME NEW a \in Attempts, Start(a) \/ Admit(a) \/ FindState(a)
        PROVE  UNCHANGED Atomic!vars
    <2>1. /\ UNCHANGED <<clock, entry, failures, until>>
          /\ at[a] \notin Judged /\ at'[a] \notin Judged
          /\ \A b \in Attempts \ {a} : at'[b] = at[b] /\ now'[b] = now[b]
      BY <1>1, <1>4 DEF Start, Admit, FindState, Judged, TypeOK
    <2>2. \A b \in Attempts : /\ at'[b] \in Judged <=> at[b] \in Judged
                              /\ at[b] \in Judged => at'[b] = at[b] /\ now'[b] = now[b]
      BY <2>1
    <2>3. QED
      BY <2>1, <2>2 DEF Atomic!vars, Count, BlockEnd, Answered
  <1>5. ASSUME NEW a \in Attempts, Throttle(a)
        PROVE  Atomic!Next
    <2>1. /\ at[a] = "check" /\ at' = [at EXCEPT ![a] = "throttled"]
          /\ UNCHANGED <<clock, now, entry, failures, until>>
          /\ SeesBlock(a)
      BY <1>5 DEF Throttle
    <2>2. ref[a] = entry
      BY <1>1, <2>1 DEF AttemptInv
    <2>3. now[a] < BlockEnd /\ Count' = Count /\ BlockEnd' = BlockEnd
      BY <2>1, <2>2 DEF SeesBlock, Count, BlockEnd
    <2>4. now[a] \in 1..clock /\ Atomic!Judge(a, now[a], "throttled")
      BY <2>1, Judges DEF Busy, Judged
    <2>5. Atomic!Throttle(a, now[a])
      BY <2>3, <2>4 DEF Atomic!Throttle
    <2>6. QED
      BY <2>4, <2>5 DEF Atomic!Next
  <1>6. ASSUME NEW a \in Attempts, Accept(a)
        PROVE  Atomic!Next
    <2>1. /\ at[a] = "verify" /\ at' = [at EXCEPT ![a] = "accepted"]
          /\ entry' = NoState /\ UNCHANGED <<clock, now>>
      BY <1>6 DEF Accept
    <2>2. BlockEnd <= now[a]
      BY <1>1, <2>1 DEF AttemptInv
    <2>3. Count' = 0 /\ BlockEnd' = 0
      BY <2>1 DEF Count, BlockEnd
    <2>4. now[a] \in 1..clock /\ Atomic!Judge(a, now[a], "accepted")
      BY <2>1, Judges DEF Busy, Judged
    <2>5. Atomic!Accept(a, now[a])
      BY <2>2, <2>3, <2>4 DEF Atomic!Accept
    <2>6. QED
      BY <2>4, <2>5 DEF Atomic!Next
  <1>7. ASSUME NEW a \in Attempts, CountFailure(a)
        PROVE  Atomic!Next
    <2>1. /\ at[a] = "update" /\ at' = [at EXCEPT ![a] = "rejected"]
          /\ UNCHANGED <<clock, now>>
      BY <1>7 DEF CountFailure
    <2>2. BlockEnd <= now[a]
      BY <1>1, <2>1 DEF AttemptInv
    <2>3. /\ entry' # NoState
          /\ failures'[entry'] = IF Count + 1 >= MaxFailures THEN 0 ELSE Count + 1
          /\ until'[entry'] = IF Count + 1 >= MaxFailures THEN now[a] + BlockDuration ELSE 0
      BY <1>7, OneMoreFailure
    <2>4. Count' = failures'[entry'] /\ BlockEnd' = until'[entry']
      BY <2>3 DEF Count, BlockEnd
    <2>5. \/ Count + 1 < MaxFailures /\ Count' = Count + 1 /\ BlockEnd' = 0
          \/ Count + 1 = MaxFailures /\ Count' = 0 /\ BlockEnd' = now[a] + BlockDuration
      BY <1>1, <2>3, <2>4, AuthAssumption
    <2>6. now[a] \in 1..clock /\ Atomic!Judge(a, now[a], "rejected")
      BY <2>1, Judges DEF Busy, Judged
    <2>7. Atomic!Reject(a, now[a])
      BY <2>2, <2>5, <2>6 DEF Atomic!Reject
    <2>8. QED
      BY <2>6, <2>7 DEF Atomic!Next
  <1>8. CASE Restart
    <2> DEFINE verdict == [a \in Attempts |-> IF at[a] \in Judged THEN at[a] ELSE "none"]
               lost == {a \in Attempts : at[a] \in Busy}
    <2>1. /\ entry' = NoState /\ UNCHANGED <<clock, now>>
          /\ at' = [a \in Attempts |-> IF at[a] \in Busy THEN "lost" ELSE at[a]]
      BY <1>8 DEF Restart
    <2>2. Count' = 0 /\ BlockEnd' = 0
      BY <2>1 DEF Count, BlockEnd
    <2>3. \A a \in Attempts : Answered(a)' <=> Answered(a)
      BY <2>1 DEF Answered, Judged, Busy
    <2>4. lost \in SUBSET {a \in Attempts : verdict[a] = "none"}
      BY DEF Busy, Judged
    <2>5. verdict' = [a \in Attempts |-> IF a \in lost THEN "lost" ELSE verdict[a]]
      BY <2>1 DEF Busy, Judged
    <2>6. UNCHANGED [a \in Attempts |-> IF Answered(a) THEN now[a] ELSE 0]
      BY <2>1, <2>3
    <2>7. Atomic!Restart
      BY <2>1, <2>2, <2>4, <2>5, <2>6 DEF Atomic!Restart
    <2>8. QED
      BY <2>7 DEF Atomic!Next
  <1>9. CASE UNCHANGED vars
    BY <1>2, <1>9 DEF vars
  <1>10. QED
    BY <1>3, <1>4, <1>5, <1>6, <1>7, <1>8, <1>9 DEF Next

(* Where one thread handles the logins, every attempt is judged as if in   *)
(* one step, by its own time and by the attempts made before it.           *)
THEOREM LoginsAreAtomic == Spec => OneThreadIsAtomic
  <1>1. Init => Atomic!Init
    BY DEF Init, Atomic!Init, Count, BlockEnd, Answered, Judged
  <1>2. Init => LatestInv
    BY DEF Init, LatestInv, Busy
  <1>3. Inv /\ SequentialInv /\ LatestInv /\ [Next]_vars
            => [threads = 1 => Atomic!Next]_(Atomic!vars)
    BY StepIsAtomic
  <1>4. QED
    BY <1>1, <1>2, <1>3, NextLatest, Sequential, Invariant, PTL DEF Spec, OneThreadIsAtomic
=============================================================================
