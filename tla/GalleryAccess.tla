--------------------------- MODULE GalleryAccess ---------------------------
(***************************************************************************)
(* Who gets as far as the public gallery's page: the share switch, then    *)
(* GalleryRateLimiter.check, a counter per client address in a window of   *)
(* fixed start.  Requests run on threads of the pool, which can be         *)
(* switched out between any two calls.  A thread reads the clock before    *)
(* the bucket, and so may judge a bucket that is younger than its own      *)
(* time; the dictionary is read and written back without a lock, and an    *)
(* increment made in between is lost.                                      *)
(***************************************************************************)
EXTENDS Naturals, FiniteSets

CONSTANTS
    Requests,    \* calls of GET /pub/gallery, each handled once
    Clients,
    ClientOf,    \* the address a request comes from
    ShareTimes,  \* the `minutes' administrators ask for, in ticks
    Window,      \* GalleryRateLimiter.window_seconds, in ticks
    RateLimit,   \* GalleryRateLimiter.limit_per_minute
    MaxThreads,  \* bound on the threads that handle requests at a time
    MaxClock     \* bound on the clock

ASSUME LimiterAssumption ==
    /\ IsFiniteSet(Requests)
    /\ ClientOf \in [Requests -> Clients]
    /\ ShareTimes \subseteq Nat
    /\ Window \in Nat
    /\ RateLimit \in Nat \ {0}
    /\ MaxThreads \in Nat \ {0}
    /\ MaxClock \in Nat

VARIABLES
    threads,   \* how many threads this process has for the gallery
    clock,
    share,     \* GalleryShareState.share_until, 0 for None
    bucket,    \* GalleryRateLimiter.buckets
    at,        \* where each request is
    now,       \* the time a request read last
    judged,    \* history: the time at which it was refused or admitted
    seen       \* the bucket a request is about to write back

vars == <<threads, clock, share, bucket, at, now, judged, seen>>

Bucket == [count : Nat, start : Nat]
NoBucket == [count |-> 0, start |-> 0]
OnThread == {"asks", "allowed", "looks", "writes"}

TypeOK ==
    /\ threads \in 1..MaxThreads
    /\ clock \in Nat
    /\ share \in Nat
    /\ bucket \in [Clients -> Bucket]
    /\ at \in [Requests -> {"idle", "forbidden", "refused", "passed"} \cup OnThread]
    /\ now \in [Requests -> Nat]
    /\ judged \in [Requests -> Nat]
    /\ seen \in [Requests -> Bucket]

Init ==
    /\ threads \in 1..MaxThreads
    /\ clock = 1
    /\ share = 0
    /\ bucket = [c \in Clients |-> NoBucket]
    /\ at = [r \in Requests |-> "idle"]
    /\ now = [r \in Requests |-> 0]
    /\ judged = [r \in Requests |-> 0]
    /\ seen = [r \in Requests |-> NoBucket]

Tick ==
    /\ clock <= MaxClock
    /\ clock' = clock + 1
    /\ UNCHANGED <<threads, share, bucket, at, now, judged, seen>>

(* POST /api/gallery/share: a later call replaces an earlier one. *)
Enable(minutes) ==
    /\ share' = clock + minutes
    /\ UNCHANGED <<threads, clock, bucket, at, now, judged, seen>>

(* is_enabled() reads the clock first and then what it is compared with.   *)
Ask(r) ==
    /\ at[r] = "idle"
    /\ Cardinality({q \in Requests : at[q] \in OnThread}) < threads
    /\ now' = [now EXCEPT ![r] = clock]
    /\ at' = [at EXCEPT ![r] = "asks"]
    /\ UNCHANGED <<threads, clock, share, bucket, judged, seen>>

IsEnabled(r) == now[r] < share

Forbid(r) ==
    /\ at[r] = "asks"
    /\ ~IsEnabled(r)
    /\ at' = [at EXCEPT ![r] = "forbidden"]
    /\ UNCHANGED <<threads, clock, share, bucket, now, judged, seen>>

Allow(r) ==
    /\ at[r] = "asks"
    /\ IsEnabled(r)
    /\ at' = [at EXCEPT ![r] = "allowed"]
    /\ UNCHANGED <<threads, clock, share, bucket, now, judged, seen>>

-----------------------------------------------------------------------------
(* check().                                                                *)

ReadClock(r) ==
    /\ at[r] = "allowed"
    /\ now' = [now EXCEPT ![r] = clock]
    /\ at' = [at EXCEPT ![r] = "looks"]
    /\ UNCHANGED <<threads, clock, share, bucket, judged, seen>>

(* Mistake: the window is measured from the last request, not the first.   *)
OpenBucketSliding(r, b) ==
    IF b.count = 0 \/ now[r] > b.start + Window
        THEN [count |-> 0, start |-> now[r]]
        ELSE [b EXCEPT !.start = now[r]]

(* Mistake: a window ends one tick early, so two fit into one. *)
OpenBucketEarly(r, b) ==
    IF b.count = 0 \/ now[r] >= b.start + Window
        THEN [count |-> 0, start |-> now[r]]
        ELSE b

(* Given the bucket it found, the one request r goes on with: none yet, or *)
(* one whose window is over, is replaced by a new one.                     *)
OpenBucket(r, b) ==
    IF b.count = 0 \/ now[r] > b.start + Window
        THEN [count |-> 0, start |-> now[r]]
        ELSE b

Found(r) == OpenBucket(r, bucket[ClientOf[r]])

Refuse(r) ==
    /\ at[r] = "looks"
    /\ Found(r).count >= RateLimit
    /\ at' = [at EXCEPT ![r] = "refused"]
    /\ judged' = [judged EXCEPT ![r] = clock]
    /\ UNCHANGED <<threads, clock, share, bucket, now, seen>>

Admit(r) ==
    /\ at[r] = "looks"
    /\ Found(r).count < RateLimit
    /\ at' = [at EXCEPT ![r] = "writes"]
    /\ judged' = [judged EXCEPT ![r] = clock]
    /\ seen' = [seen EXCEPT ![r] = Found(r)]
    /\ UNCHANGED <<threads, clock, share, bucket, now>>

(* The bucket goes back as it was read, one request richer. *)
WriteBucket(r) ==
    /\ at[r] = "writes"
    /\ bucket' = [bucket EXCEPT ![ClientOf[r]] =
                     [count |-> seen[r].count + 1, start |-> seen[r].start]]
    /\ at' = [at EXCEPT ![r] = "passed"]
    /\ seen' = [seen EXCEPT ![r] = NoBucket]
    /\ UNCHANGED <<threads, clock, share, now, judged>>

Next ==
    \/ Tick
    \/ \E minutes \in ShareTimes : Enable(minutes)
    \/ \E r \in Requests :
          \/ Ask(r) \/ Forbid(r) \/ Allow(r)
          \/ ReadClock(r) \/ Refuse(r) \/ Admit(r) \/ WriteBucket(r)

Spec == Init /\ [][Next]_vars

-----------------------------------------------------------------------------
(* The requests of client c that were admitted. *)
Admitted(c) == {q \in Requests : ClientOf[q] = c /\ at[q] \in {"writes", "passed"}}

(* Whatever the threads do, nobody is refused before the limit has been    *)
(* used up, by requests admitted from some moment until this refusal.      *)
(* That moment lies no more than a window before the time at which the     *)
(* refused request read the clock: a lost increment, or an old bucket      *)
(* written back, only ever counts in the client's favour.                  *)
NoSpuriousRefusal ==
    \A r \in Requests :
        at[r] = "refused" =>
            \E t \in 0..judged[r] :
                /\ now[r] <= t + Window
                /\ Cardinality({q \in Admitted(ClientOf[r]) : judged[q] \in t..judged[r]})
                      >= RateLimit

(* With one thread, no span of a window's length holds twice the limit, if *)
(* each request counts for when it read the clock: the most is the rest of *)
(* one window after its first request, and the whole of the next.          *)
BurstBounded ==
    threads = 1 =>
        \A c \in Clients, t \in 1..clock :
            Cardinality({q \in Admitted(c) : now[q] \in t..(t + Window)}) < 2 * RateLimit
=============================================================================
