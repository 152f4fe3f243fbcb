---------------------------- MODULE GalleryProofs ----------------------------
(***************************************************************************)
(* Machine-checked theorems about GalleryAccess, for every number of       *)
(* requests, clients and threads and every limit and window.               *)
(***************************************************************************)
EXTENDS GalleryAccess, FiniteSetTheorems, TLAPS

TimesInv ==
    /\ \A r \in Requests : now[r] <= clock /\ judged[r] <= clock /\ seen[r].start <= clock
    /\ \A c \in Clients : bucket[c].start <= clock

(* The requests of client c admitted from t to u, and how many they are,   *)
(* of places p and times of admission n.                                   *)
Those(p, n, c, t, u) ==
    {q \in Requests : ClientOf[q] = c /\ p[q] \in {"writes", "passed"} /\ n[q] \in t..u}

Spent(p, n, c, t, u) == Cardinality(Those(p, n, c, t, u))

(* Why nobody is refused without cause: a bucket, whether kept or about to *)
(* be written back, counts no more requests than were admitted since its   *)
(* start.  A lost increment makes it count fewer.                          *)
CountInv ==
    /\ \A c \in Clients : bucket[c].count <= Spent(at, judged, c, bucket[c].start, clock)
    /\ \A r \in Requests :
          at[r] = "writes" =>
              seen[r].count + 1 <= Spent(at, judged, ClientOf[r], seen[r].start, clock)

Inv == TypeOK /\ TimesInv /\ CountInv /\ NoSpuriousRefusal

-----------------------------------------------------------------------------
LEMMA FoundFacts ==
    ASSUME TypeOK, TimesInv, NEW r \in Requests
    PROVE  /\ Found(r) \in Bucket
           /\ Found(r).start <= clock
           /\ \/ Found(r).count = 0
              \/ /\ Found(r) = bucket[ClientOf[r]]
                 /\ now[r] <= bucket[ClientOf[r]].start + Window
  <1> DEFINE b == bucket[ClientOf[r]]
  <1>1. b \in Bucket /\ b.start <= clock /\ now[r] \in Nat /\ now[r] <= clock
    BY LimiterAssumption DEF TypeOK, TimesInv
  <1>2. b.start \in Nat /\ b.count \in Nat
    BY <1>1 DEF Bucket
  <1>3. CASE b.count = 0 \/ now[r] > b.start + Window
    BY <1>1, <1>3 DEF Found, OpenBucket, Bucket
  <1>4. CASE ~(b.count = 0 \/ now[r] > b.start + Window)
    BY <1>1, <1>2, <1>4, LimiterAssumption DEF Found, OpenBucket
  <1>5. QED
    BY <1>3, <1>4

LEMMA InitInv == Init => Inv
  <1> SUFFICES ASSUME Init PROVE Inv
    OBVIOUS
  <1>1. TypeOK /\ TimesInv
    BY LimiterAssumption DEF Init, TypeOK, TimesInv, Bucket, NoBucket
  <1>2. \A c \in Clients, t, u \in Nat : Spent(at, judged, c, t, u) \in Nat
    <2>1. \A c \in Clients, t, u \in Nat : Those(at, judged, c, t, u) \subseteq Requests
      BY DEF Those
    <2>2. QED
      BY <2>1, LimiterAssumption, FS_Subset, FS_CardinalityType DEF Spent
  <1>3. CountInv
    <2>1. ASSUME NEW c \in Clients
          PROVE  bucket[c].count <= Spent(at, judged, c, bucket[c].start, clock)
      <3>1. bucket[c].count = 0 /\ bucket[c].start = 0 /\ clock = 1
        BY DEF Init, NoBucket
      <3>2. Spent(at, judged, c, 0, 1) \in Nat
        BY <1>2
      <3>3. QED
        BY <3>1, <3>2
    <2>2. QED
      BY <2>1 DEF Init, CountInv
  <1>4. QED
    BY <1>1, <1>3 DEF Init, Inv, NoSpuriousRefusal

LEMMA NextType == TypeOK /\ TimesInv /\ [Next]_vars => TypeOK' /\ TimesInv'
  <1> SUFFICES ASSUME TypeOK, TimesInv, [Next]_vars PROVE TypeOK' /\ TimesInv'
    OBVIOUS
  <1> USE LimiterAssumption DEF TypeOK, TimesInv
  <1>1. CASE Tick
    BY <1>1 DEF Tick, Bucket
  <1>2. ASSUME NEW minutes \in ShareTimes, Enable(minutes) PROVE TypeOK' /\ TimesInv'
    BY <1>2 DEF Enable
  <1>3. ASSUME NEW r \in Requests, Ask(r) \/ Forbid(r) \/ Allow(r) \/ ReadClock(r)
        PROVE  TypeOK' /\ TimesInv'
    BY <1>3 DEF Ask, Forbid, Allow, ReadClock, OnThread
  <1>4. ASSUME NEW r \in Requests, Refuse(r) PROVE TypeOK' /\ TimesInv'
    BY <1>4 DEF Refuse
  <1>5. ASSUME NEW r \in Requests, Admit(r) PROVE TypeOK' /\ TimesInv'
    <2>1. Found(r) \in Bucket /\ Found(r).start <= clock
      BY FoundFacts
    <2>2. QED
      BY <1>5, <2>1 DEF Admit, OnThread
  <1>6. ASSUME NEW r \in Requests, WriteBucket(r) PROVE TypeOK' /\ TimesInv'
    <2>1. seen[r] \in Bucket /\ ClientOf[r] \in Clients
      OBVIOUS
    <2>2. [count |-> seen[r].count + 1, start |-> seen[r].start] \in Bucket
      BY <2>1 DEF Bucket
    <2>3. QED
      BY <1>6, <2>1, <2>2 DEF WriteBucket, NoBucket, Bucket
  <1>7. CASE UNCHANGED vars
    BY <1>7 DEF vars
  <1>8. QED
    BY <1>1, <1>2, <1>3, <1>4, <1>5, <1>6, <1>7 DEF Next

(* Who was admitted stays admitted, at the same time. *)
LEMMA AdmittedGrow ==
    TypeOK /\ [Next]_vars =>
        /\ clock' \in Nat /\ clock <= clock'
        /\ \A q \in Requests :
              at[q] \in {"writes", "passed"} =>
                  /\ at'[q] \in {"writes", "passed"}
                  /\ now'[q] = now[q] /\ judged'[q] = judged[q]
  <1> SUFFICES ASSUME TypeOK, [Next]_vars
               PROVE  /\ clock' \in Nat /\ clock <= clock'
                      /\ \A q \in Requests :
                            at[q] \in {"writes", "passed"} =>
                                /\ at'[q] \in {"writes", "passed"}
                                /\ now'[q] = now[q] /\ judged'[q] = judged[q]
    OBVIOUS
  <1>1. CASE Tick
    BY <1>1 DEF Tick, TypeOK
  <1>2. CASE \E minutes \in ShareTimes : Enable(minutes)
    BY <1>2 DEF Enable, TypeOK
  <1>3. ASSUME NEW r \in Requests,
               Ask(r) \/ Forbid(r) \/ Allow(r) \/ ReadClock(r) \/ Refuse(r) \/ Admit(r)
        PROVE  /\ clock' = clock
               /\ \A q \in Requests :
                     at[q] \in {"writes", "passed"} =>
                         at'[q] = at[q] /\ now'[q] = now[q] /\ judged'[q] = judged[q]
    BY <1>3 DEF Ask, Forbid, Allow, ReadClock, Refuse, Admit, TypeOK
  <1>4. ASSUME NEW r \in Requests, WriteBucket(r)
        PROVE  /\ clock' = clock
               /\ \A q \in Requests :
                     at[q] \in {"writes", "passed"} =>
                         /\ at'[q] \in {"writes", "passed"}
                         /\ now'[q] = now[q] /\ judged'[q] = judged[q]
    BY <1>4 DEF WriteBucket, TypeOK
  <1>5. CASE UNCHANGED vars
    BY <1>5 DEF vars, TypeOK
  <1>6. QED
    BY <1>1, <1>2, <1>3, <1>4, <1>5 DEF Next, TypeOK

(* So the number of requests admitted in a span only grows. *)
LEMMA CountsGrow ==
    TypeOK /\ [Next]_vars =>
        \A c \in Clients, t, u, v \in Nat :
            u <= v => /\ Spent(at, judged, c, t, u) \in Nat
                      /\ Spent(at', judged', c, t, v) \in Nat
                      /\ Spent(at, judged, c, t, u) <= Spent(at', judged', c, t, v)
  <1> SUFFICES ASSUME TypeOK, [Next]_vars, NEW c \in Clients,
                      NEW t \in Nat, NEW u \in Nat, NEW v \in Nat, u <= v
               PROVE  /\ Spent(at, judged, c, t, u) \in Nat
                      /\ Spent(at', judged', c, t, v) \in Nat
                      /\ Spent(at, judged, c, t, u) <= Spent(at', judged', c, t, v)
    OBVIOUS
  <1>1. /\ Those(at, judged, c, t, u) \subseteq Those(at', judged', c, t, v)
        /\ Those(at', judged', c, t, v) \subseteq Requests
    BY AdmittedGrow DEF Those, TypeOK
  <1>2. IsFiniteSet(Those(at', judged', c, t, v))
    BY <1>1, LimiterAssumption, FS_Subset
  <1>3. QED
    BY <1>1, <1>2, FS_Subset, FS_CardinalityType DEF Spent

(* The same, for a span that stays as it is. *)
LEMMA CountsStay ==
    TypeOK /\ [Next]_vars =>
        \A c \in Clients, t, u \in Nat :
            /\ Spent(at, judged, c, t, u) \in Nat
            /\ Spent(at', judged', c, t, u) \in Nat
            /\ Spent(at, judged, c, t, u) <= Spent(at', judged', c, t, u)
  <1>1. \A u \in Nat : u <= u
    OBVIOUS
  <1>2. QED
    BY <1>1, CountsGrow

LEMMA NextCount == TypeOK /\ TimesInv /\ CountInv /\ [Next]_vars => CountInv'
  <1> SUFFICES ASSUME TypeOK, TimesInv, CountInv, [Next]_vars PROVE CountInv'
    OBVIOUS
  <1>1. clock \in Nat /\ clock' \in Nat /\ clock <= clock'
    BY AdmittedGrow DEF TypeOK
  <1>2. ASSUME NEW c \in Clients, NEW t \in Nat, NEW n \in Nat,
               n = 0 \/ n <= Spent(at, judged, c, t, clock)
        PROVE  n <= Spent(at', judged', c, t, clock')
    <2>1. /\ Spent(at, judged, c, t, clock) \in Nat
          /\ Spent(at', judged', c, t, clock') \in Nat
          /\ Spent(at, judged, c, t, clock) <= Spent(at', judged', c, t, clock')
      BY <1>1, CountsGrow
    <2>2. QED
      BY <1>2, <2>1
  <1>3. /\ \A c \in Clients : bucket[c].start \in Nat /\ bucket[c].count \in Nat
        /\ \A q \in Requests : /\ ClientOf[q] \in Clients
                               /\ seen[q].start \in Nat /\ seen[q].count \in Nat
    BY LimiterAssumption DEF TypeOK, Bucket
  <1>4. ASSUME NEW c \in Clients, bucket'[c] = bucket[c]
        PROVE  bucket'[c].count <= Spent(at', judged', c, bucket'[c].start, clock')
    BY <1>2, <1>3, <1>4 DEF CountInv
  <1>5. ASSUME NEW q \in Requests, at[q] = "writes"
        PROVE  seen[q].count + 1 <= Spent(at', judged', ClientOf[q], seen[q].start, clock')
    <2>1. seen[q].count + 1 \in Nat
      BY <1>3
    <2>2. QED
      BY <1>2, <1>3, <1>5, <2>1 DEF CountInv
  <1>6. CASE \/ Tick \/ (\E minutes \in ShareTimes : Enable(minutes)) \/ UNCHANGED vars
             \/ \E r \in Requests :
                   Ask(r) \/ Forbid(r) \/ Allow(r) \/ ReadClock(r) \/ Refuse(r)
    <2>1. /\ bucket' = bucket /\ seen' = seen
          /\ \A q \in Requests : at'[q] = "writes" => at[q] = "writes"
      BY <1>6 DEF Tick, Enable, Ask, Forbid, Allow, ReadClock, Refuse, vars, TypeOK
    <2>2. QED
      BY <1>4, <1>5, <2>1 DEF CountInv
  <1>7. ASSUME NEW r \in Requests, Admit(r) PROVE CountInv'
    <2> DEFINE c == ClientOf[r]
               o == Found(r)
               before == Those(at, judged, c, o.start, clock)
               after == Those(at', judged', c, o.start, clock')
    <2>1. /\ bucket' = bucket /\ seen'[r] = o /\ clock' = clock
          /\ \A q \in Requests \ {r} : seen'[q] = seen[q] /\ at'[q] = at[q]
      BY <1>7 DEF Admit, TypeOK
    <2>2. c \in Clients /\ o \in Bucket /\ o.start <= clock
      BY <1>3, FoundFacts
    <2>3. o.start \in Nat /\ o.count \in Nat
      BY <2>2 DEF Bucket
    <2>4. o.count <= Cardinality(before)
      <3>1. Spent(at, judged, c, o.start, clock) \in Nat
        BY <1>1, <2>2, <2>3, CountsGrow
      <3>2. o.count = 0 \/ o = bucket[c]
        BY <2>2, FoundFacts
      <3>3. QED
        BY <2>2, <2>3, <3>1, <3>2 DEF CountInv, Spent
    <2>5. r \notin before
      BY <1>7 DEF Admit, Those
    <2>6. before \cup {r} \subseteq after /\ after \subseteq Requests
      <3>1. at'[r] = "writes" /\ judged'[r] = clock
        BY <1>7 DEF Admit, TypeOK
      <3>2. clock \in o.start..clock
        BY <1>1, <2>2, <2>3
      <3>3. r \in after
        BY <2>1, <3>1, <3>2 DEF Those
      <3>4. \A q \in before : q \in after
        BY <2>1, AdmittedGrow DEF Those
      <3>5. QED
        BY <3>3, <3>4 DEF Those
    <2>7. o.count + 1 <= Spent(at', judged', c, o.start, clock')
      <3>1. IsFiniteSet(after) /\ IsFiniteSet(before)
        BY <2>6, LimiterAssumption, FS_Subset
      <3>2. Cardinality(before \cup {r}) = Cardinality(before) + 1
        BY <2>5, <3>1, FS_AddElement
      <3>3. /\ Cardinality(before \cup {r}) <= Cardinality(after)
            /\ Cardinality(after) \in Nat /\ Cardinality(before) \in Nat
        BY <2>6, <3>1, FS_Subset, FS_CardinalityType
      <3>4. QED
        BY <2>3, <2>4, <3>2, <3>3 DEF Spent
    <2>8. QED
      BY <1>4, <1>5, <2>1, <2>7 DEF CountInv
  <1>8. ASSUME NEW r \in Requests, WriteBucket(r) PROVE CountInv'
    <2> DEFINE c == ClientOf[r]
    <2>1. /\ c \in Clients /\ at[r] = "writes"
          /\ bucket'[c] = [count |-> seen[r].count + 1, start |-> seen[r].start]
          /\ \A d \in Clients \ {c} : bucket'[d] = bucket[d]
          /\ at'[r] = "passed"
          /\ \A q \in Requests \ {r} : seen'[q] = seen[q] /\ at'[q] = at[q]
      BY <1>3, <1>8 DEF WriteBucket, TypeOK
    <2>2. bucket'[c].count <= Spent(at', judged', c, bucket'[c].start, clock')
      BY <1>5, <2>1
    <2>3. QED
      BY <1>4, <1>5, <2>1, <2>2 DEF CountInv
  <1>9. QED
    BY <1>6, <1>7, <1>8 DEF Next

LEMMA NextRefusal ==
    TypeOK /\ TimesInv /\ CountInv /\ NoSpuriousRefusal /\ [Next]_vars => NoSpuriousRefusal'
  <1> SUFFICES ASSUME TypeOK, TimesInv, CountInv, NoSpuriousRefusal, [Next]_vars,
                      NEW r \in Requests, at'[r] = "refused"
               PROVE  \E t \in 0..judged'[r] :
                         /\ now'[r] <= t + Window
                         /\ Spent(at', judged', ClientOf[r], t, judged'[r]) >= RateLimit
    BY DEF NoSpuriousRefusal, Admitted, Spent, Those
  <1> USE LimiterAssumption
  <1>1. /\ ClientOf[r] \in Clients /\ clock \in Nat /\ RateLimit \in Nat
        /\ now[r] \in Nat /\ judged[r] \in Nat
    BY DEF TypeOK
  <1>2. CASE Refuse(r)
    <2> DEFINE c == ClientOf[r]
               start == bucket[c].start
    <2>1. judged'[r] = clock /\ now'[r] = now[r] /\ Found(r).count >= RateLimit
      BY <1>2 DEF Refuse, TypeOK
    <2>2. Found(r) = bucket[c] /\ now[r] <= start + Window
      BY <1>1, <2>1, FoundFacts
    <2>3. start \in 0..clock /\ start \in Nat /\ bucket[c].count \in Nat
      BY <1>1 DEF TypeOK, TimesInv, Bucket
    <2>4. /\ Spent(at, judged, c, start, clock) \in Nat
          /\ Spent(at', judged', c, start, clock) \in Nat
          /\ Spent(at, judged, c, start, clock) <= Spent(at', judged', c, start, clock)
      BY <1>1, <2>3, CountsStay
    <2>5. Spent(at, judged, c, start, clock) >= RateLimit
      BY <1>1, <2>1, <2>2, <2>3, <2>4 DEF CountInv
    <2>6. Spent(at', judged', c, start, clock) >= RateLimit
      BY <1>1, <2>4, <2>5
    <2>7. start \in 0..judged'[r] /\ now'[r] <= start + Window
      BY <2>1, <2>2, <2>3
    <2>8. Spent(at', judged', c, start, judged'[r]) >= RateLimit
      BY <2>1, <2>6
    <2>9. QED
      BY <2>7, <2>8, Zenon
  <1>3. CASE at[r] = "refused"
    <2>1. now'[r] = now[r] /\ judged'[r] = judged[r]
      <3>1. CASE Tick \/ (\E minutes \in ShareTimes : Enable(minutes)) \/ UNCHANGED vars
        BY <3>1 DEF Tick, Enable, vars
      <3>2. ASSUME NEW q \in Requests,
                   \/ Ask(q) \/ Forbid(q) \/ Allow(q)
                   \/ ReadClock(q) \/ Refuse(q) \/ Admit(q) \/ WriteBucket(q)
            PROVE  now'[r] = now[r] /\ judged'[r] = judged[r]
        BY <1>3, <3>2
           DEF Ask, Forbid, Allow, ReadClock, Refuse, Admit, WriteBucket, TypeOK
      <3>3. QED
        BY <3>1, <3>2 DEF Next
    <2>2. PICK t \in 0..judged[r] :
                 /\ now[r] <= t + Window
                 /\ Spent(at, judged, ClientOf[r], t, judged[r]) >= RateLimit
      BY <1>3 DEF NoSpuriousRefusal, Admitted, Spent, Those
    <2>3. t \in Nat
      BY <2>2
    <2>4. /\ Spent(at, judged, ClientOf[r], t, judged[r]) \in Nat
          /\ Spent(at', judged', ClientOf[r], t, judged[r]) \in Nat
          /\ Spent(at, judged, ClientOf[r], t, judged[r])
                <= Spent(at', judged', ClientOf[r], t, judged[r])
      BY <1>1, <2>3, CountsStay
    <2>5. Spent(at', judged', ClientOf[r], t, judged[r]) >= RateLimit
      BY <1>1, <2>2, <2>4
    <2>6. /\ t \in 0..judged'[r] /\ now'[r] <= t + Window
          /\ Spent(at', judged', ClientOf[r], t, judged'[r]) >= RateLimit
      BY <2>1, <2>2, <2>5
    <2>7. QED
      BY <2>6, Zenon
  <1>4. CASE at[r] # "refused" /\ ~Refuse(r)
    <2>1. CASE Tick \/ (\E minutes \in ShareTimes : Enable(minutes)) \/ UNCHANGED vars
      BY <1>4, <2>1 DEF Tick, Enable, vars
    <2>2. ASSUME NEW q \in Requests,
                 \/ Ask(q) \/ Forbid(q) \/ Allow(q)
                 \/ ReadClock(q) \/ Refuse(q) \/ Admit(q) \/ WriteBucket(q)
          PROVE  FALSE
      BY <1>4, <2>2 DEF Ask, Forbid, Allow, ReadClock, Refuse, Admit, WriteBucket, TypeOK
    <2>3. QED
      BY <2>1, <2>2 DEF Next
  <1>5. QED
    BY <1>2, <1>3, <1>4

LEMMA Invariant == Spec => []Inv
  <1>1. Inv /\ [Next]_vars => Inv'
    BY NextType, NextCount, NextRefusal DEF Inv
  <1>2. QED
    BY InitInv, <1>1, PTL DEF Spec

-----------------------------------------------------------------------------
(* Every variable keeps its type. *)
THEOREM TypeCorrect == Spec => []TypeOK
  <1>1. Inv => TypeOK
    BY DEF Inv
  <1>2. QED
    BY <1>1, Invariant, PTL

(* No interleaving of threads, and no delay between a look at the clock    *)
(* and one at the bucket, turns a client away before its limit was used up *)
(* since a window before that look at the clock.                           *)
THEOREM RefusalsAreEarned == Spec => []NoSpuriousRefusal
  <1>1. Inv => NoSpuriousRefusal
    BY DEF Inv
  <1>2. QED
    BY <1>1, Invariant, PTL

-----------------------------------------------------------------------------
(* The limiter with one thread: of the requests of a client that were      *)
(* admitted, those that read the clock not earlier than s, those from t    *)
(* until before s, and those of one span.                                  *)
From(c, s) == {q \in Admitted(c) : s <= now[q]}
Between(c, t, s) == {q \in Admitted(c) : t <= now[q] /\ now[q] < s}
Inside(c, t) == {q \in Admitted(c) : t <= now[q] /\ now[q] <= t + Window}

(* Bucket b, once it is written back, is right for client c: it began with *)
(* a request, counts all since, none of which is later than its window,    *)
(* and every span that reaches into it missed one of those before: the     *)
(* first of the window it followed.                                        *)
Fits(b, c) ==
    \/ b.count = 0 /\ Admitted(c) = {}
    \/ /\ b.count \in 1..RateLimit
       /\ \A q \in Admitted(c) : now[q] <= b.start + Window
       /\ \E q \in Admitted(c) : now[q] = b.start
       /\ Cardinality(From(c, b.start)) <= b.count
       /\ \A t \in Nat : b.start <= t + Window =>
             Cardinality(Between(c, t, b.start)) <= RateLimit - 1

Pending(r) == [count |-> seen[r].count + 1, start |-> seen[r].start]

OneAtATime == \A r, q \in Requests : at[r] \in OnThread /\ at[q] \in OnThread => r = q

(* A request that looks for its bucket has read the clock after every      *)
(* request that was admitted.                                              *)
LooksLast ==
    \A r \in Requests : at[r] = "looks" =>
        \A c \in Clients : \A q \in Admitted(c) : now[q] <= now[r]

BucketsFit ==
    /\ \A c \in Clients :
          (\A r \in Requests : at[r] = "writes" => ClientOf[r] # c) => Fits(bucket[c], c)
    /\ \A r \in Requests : at[r] = "writes" => Fits(Pending(r), ClientOf[r])

SpansBounded ==
    \A c \in Clients, t \in Nat : Cardinality(Inside(c, t)) <= 2 * RateLimit - 1

BurstInv == threads = 1 => OneAtATime /\ LooksLast /\ BucketsFit /\ SpansBounded

LEMMA AdmittedFinite ==
    ASSUME NEW T, NEW c, T \subseteq Admitted(c)
    PROVE  IsFiniteSet(T) /\ Cardinality(T) \in Nat
  <1>1. T \in SUBSET Requests
    BY DEF Admitted
  <1>2. QED
    BY <1>1, LimiterAssumption, FS_Subset, FS_CardinalityType

(* A step that admits nobody. *)
LEMMA SameAdmitted ==
    ASSUME threads' = threads,
           \A q \in Requests : /\ at'[q] \in {"writes", "passed"} <=> at[q] \in {"writes", "passed"}
                               /\ at[q] \in {"writes", "passed"} => now'[q] = now[q]
    PROVE  /\ \A b, c : Fits(b, c)' <=> Fits(b, c)
           /\ SpansBounded' <=> SpansBounded
  <1>1. \A c : Admitted(c)' = Admitted(c)
    BY DEF Admitted
  <1>2. \A c, t, s : /\ From(c, s)' = From(c, s)
                     /\ Between(c, t, s)' = Between(c, t, s)
                     /\ Inside(c, t)' = Inside(c, t)
    BY <1>1 DEF Admitted, From, Between, Inside
  <1>3. \A c : \A q \in Admitted(c) : now'[q] = now[q]
    BY DEF Admitted
  <1>4. \A b, c : Fits(b, c)' <=> Fits(b, c)
    BY <1>1, <1>2, <1>3 DEF Fits
  <1>5. SpansBounded' <=> SpansBounded
    BY <1>2 DEF SpansBounded
  <1>6. QED
    BY <1>4, <1>5

(* An attempt starts only when nobody else is under way. *)
LEMMA NobodyElse ==
    ASSUME TypeOK, threads = 1, NEW r \in Requests, Ask(r)
    PROVE  \A q \in Requests : at[q] \notin OnThread
  <1> DEFINE under == {q \in Requests : at[q] \in OnThread}
  <1>1. IsFiniteSet(under) /\ Cardinality(under) < 1
    BY LimiterAssumption, FS_Subset DEF Ask
  <1>2. Cardinality(under) = 0
    BY <1>1, FS_CardinalityType
  <1>3. under = {}
    BY <1>1, <1>2, FS_EmptySet
  <1>4. QED
    BY <1>3

LEMMA OthersKeepBurst ==
    ASSUME TypeOK, TimesInv, BurstInv, threads = 1,
           \/ Tick \/ UNCHANGED vars \/ \E minutes \in ShareTimes : Enable(minutes)
           \/ \E r \in Requests : Ask(r) \/ Forbid(r) \/ Allow(r) \/ ReadClock(r) \/ Refuse(r)
    PROVE  BurstInv'
  <1>1. /\ UNCHANGED <<threads, bucket, seen>>
        /\ \A q \in Requests :
              /\ at'[q] \in {"writes", "passed"} <=> at[q] \in {"writes", "passed"}
              /\ at[q] \in {"writes", "passed"} => now'[q] = now[q] /\ at'[q] = at[q]
              /\ at'[q] = "writes" <=> at[q] = "writes"
    BY DEF Tick, vars, Enable, Ask, Forbid, Allow, ReadClock, Refuse, TypeOK
  <1>2. /\ \A b, c : Fits(b, c)' <=> Fits(b, c)
        /\ SpansBounded' <=> SpansBounded
    BY <1>1, SameAdmitted
  <1>3. OneAtATime'
    <2>1. ASSUME NEW r \in Requests, Ask(r) PROVE OneAtATime'
      <3>1. \A q \in Requests : q # r => at'[q] \notin OnThread
        BY <2>1, NobodyElse DEF Ask, TypeOK
      <3>2. QED
        BY <3>1 DEF OneAtATime
    <2>2. ASSUME ~ \E r \in Requests : Ask(r) PROVE OneAtATime'
      <3>1. \A q \in Requests : at'[q] \in OnThread => at[q] \in OnThread
        BY <2>2 DEF Tick, vars, Enable, Forbid, Allow, ReadClock, Refuse, TypeOK, OnThread
      <3>2. QED
        BY <3>1 DEF OneAtATime, BurstInv
    <2>3. QED
      BY <2>1, <2>2
  <1>4. LooksLast'
    <2> SUFFICES ASSUME NEW r \in Requests, at'[r] = "looks",
                        NEW c \in Clients, NEW q \in Admitted(c)'
                 PROVE  now'[q] <= now'[r]
      BY DEF LooksLast
    <2>1. q \in Requests /\ q \in Admitted(c) /\ now'[q] = now[q]
      BY <1>1 DEF Admitted
    <2>2. CASE ReadClock(r)
      BY <2>1, <2>2 DEF ReadClock, TimesInv, TypeOK
    <2>3. CASE ~ReadClock(r)
      <3>1. at[r] = "looks" /\ now'[r] = now[r]
        BY <2>3 DEF Tick, vars, Enable, Ask, Forbid, Allow, ReadClock, Refuse, TypeOK
      <3>2. QED
        BY <2>1, <3>1 DEF BurstInv, LooksLast
    <2>4. QED
      BY <2>2, <2>3
  <1>5. BucketsFit'
    BY <1>1, <1>2 DEF BurstInv, BucketsFit, Pending
  <1>6. QED
    BY <1>2, <1>3, <1>4, <1>5 DEF BurstInv

LEMMA WriteKeepsBurst ==
    ASSUME TypeOK, BurstInv, threads = 1, NEW r \in Requests, WriteBucket(r)
    PROVE  BurstInv'
  <1>1. /\ at[r] = "writes" /\ at' = [at EXCEPT ![r] = "passed"]
        /\ bucket' = [bucket EXCEPT ![ClientOf[r]] = Pending(r)]
        /\ seen' = [seen EXCEPT ![r] = NoBucket]
        /\ UNCHANGED <<threads, now>>
        /\ ClientOf[r] \in Clients
    BY LimiterAssumption DEF WriteBucket, Pending
  <1>2. \A q \in Requests : at'[q] \notin OnThread
    BY <1>1 DEF BurstInv, OneAtATime, OnThread, TypeOK
  <1>3. /\ \A b, c : Fits(b, c)' <=> Fits(b, c)
        /\ SpansBounded' <=> SpansBounded
    BY <1>1, SameAdmitted DEF TypeOK
  <1>4. \A c \in Clients : Fits(bucket'[c], c)
    <2> SUFFICES ASSUME NEW c \in Clients PROVE Fits(bucket'[c], c)
      OBVIOUS
    <2>1. CASE c = ClientOf[r]
      BY <1>1, <2>1 DEF BurstInv, BucketsFit, TypeOK
    <2>2. CASE c # ClientOf[r]
      BY <1>1, <2>2 DEF BurstInv, BucketsFit, OneAtATime, OnThread, TypeOK
    <2>3. QED
      BY <2>1, <2>2
  <1>5. BucketsFit'
    BY <1>2, <1>3, <1>4 DEF BucketsFit, OnThread
  <1>6. OneAtATime' /\ LooksLast'
    BY <1>2 DEF OneAtATime, LooksLast, OnThread
  <1>7. QED
    BY <1>3, <1>5, <1>6 DEF BurstInv

(* What an admission does to the sets: the request is in, with its time.   *)
LEMMA AdmitAdds ==
    ASSUME TypeOK, NEW r \in Requests, Admit(r)
    PROVE  LET c == ClientOf[r] IN
           /\ now' = now
           /\ \A d : d # c => Admitted(d)' = Admitted(d)
           /\ Admitted(c)' = Admitted(c) \cup {r} /\ r \notin Admitted(c)
           /\ \A s : From(c, s)' = From(c, s) \cup (IF s <= now[r] THEN {r} ELSE {})
           /\ \A t, s : ~(now[r] < s) => Between(c, t, s)' = Between(c, t, s)
  <1>1. at[r] = "looks" /\ at' = [at EXCEPT ![r] = "writes"] /\ now' = now
    BY DEF Admit
  <1>2. at'[r] = "writes" /\ \A q \in Requests \ {r} : at'[q] = at[q]
    BY <1>1 DEF TypeOK
  <1>3. \A d : d # ClientOf[r] => Admitted(d)' = Admitted(d)
    BY <1>1, <1>2 DEF Admitted
  <1>4. Admitted(ClientOf[r])' = Admitted(ClientOf[r]) \cup {r} /\ r \notin Admitted(ClientOf[r])
    BY <1>1, <1>2 DEF Admitted
  <1>5. \A s : From(ClientOf[r], s)'
                   = From(ClientOf[r], s) \cup (IF s <= now[r] THEN {r} ELSE {})
    BY <1>1, <1>4 DEF From
  <1>6. \A t, s : ~(now[r] < s) => Between(ClientOf[r], t, s)' = Between(ClientOf[r], t, s)
    BY <1>1, <1>4 DEF Between
  <1>7. QED
    BY <1>1, <1>3, <1>4, <1>5, <1>6

(* The bucket an admission is going to write back fits. *)
LEMMA PendingFits ==
    ASSUME TypeOK, LooksLast, NEW r \in Requests, Admit(r), Fits(bucket[ClientOf[r]], ClientOf[r])
    PROVE  /\ Fits(Pending(r), ClientOf[r])'
           /\ Pending(r)'.count \in 1..RateLimit /\ Pending(r)'.start \in 0..now[r]
  <1> USE LimiterAssumption
  <1> DEFINE c == ClientOf[r]
             b == bucket[c]
             o == Found(r)
             m == now[r]
             A == Admitted(c)
  <1>1. /\ c \in Clients /\ m \in Nat /\ b \in Bucket
        /\ b.count \in Nat /\ b.start \in Nat
        /\ \A q \in Requests : now[q] \in Nat
        /\ \A q \in A : q \in Requests /\ now[q] <= m
    BY DEF TypeOK, Bucket, LooksLast, Admit, Admitted
  <1>2. PICK n \in 1..RateLimit, s \in 0..m : n = o.count + 1 /\ s = o.start
    <2>1. b.count # 0 => b.start <= m
      BY <1>1 DEF Fits
    <2>2. o.count \in Nat /\ o.start \in Nat /\ o.start <= m
      BY <1>1, <2>1 DEF Found, OpenBucket
    <2>3. o.count < RateLimit
      BY DEF Admit
    <2>4. o.count + 1 \in 1..RateLimit /\ o.start \in 0..m
      BY <1>1, <2>2, <2>3
    <2>5. QED
      BY <2>4
  <1>3. Pending(r)'.count = n /\ Pending(r)'.start = s
    BY <1>2 DEF Admit, TypeOK, Pending
  <1>4. /\ now' = now
        /\ Admitted(c)' = A \cup {r} /\ r \notin A
        /\ From(c, s)' = From(c, s) \cup {r}
        /\ \A t : Between(c, t, s)' = Between(c, t, s)
    BY <1>1, <1>2, AdmitAdds
  <1>5. A \subseteq Requests /\ r \notin A
    BY <1>4 DEF Admitted
  <1>6. SUFFICES /\ \A q \in A : now[q] <= s + Window
                 /\ m <= s + Window
                 /\ s = m \/ \E q \in A : now[q] = s
                 /\ Cardinality(From(c, s)) <= n - 1
                 /\ \A t \in Nat : s <= t + Window =>
                       Cardinality(Between(c, t, s)) <= RateLimit - 1
    <2>1. \A q \in Admitted(c)' : now'[q] <= s + Window
      BY <1>4, <1>5, <1>6
    <2>2. \E q \in Admitted(c)' : now'[q] = s
      BY <1>4, <1>5, <1>6
    <2>3. Cardinality(From(c, s)') <= n
      <3>1. From(c, s) \subseteq Admitted(c) /\ r \notin From(c, s)
        BY <1>5 DEF From
      <3>2. IsFiniteSet(From(c, s)) /\ Cardinality(From(c, s)) \in Nat
        BY <3>1, AdmittedFinite
      <3>3. Cardinality(From(c, s)') = Cardinality(From(c, s)) + 1
        BY <1>4, <3>1, <3>2, FS_AddElement
      <3>4. QED
        BY <1>2, <1>6, <3>2, <3>3
    <2>4. \A t \in Nat : s <= t + Window => Cardinality(Between(c, t, s)') <= RateLimit - 1
      BY <1>4, <1>6
    <2>5. Fits(Pending(r), c)'
      BY <1>2, <1>3, <2>1, <2>2, <2>3, <2>4 DEF Fits
    <2>6. QED
      BY <1>2, <1>3, <2>5
  <1>7. CASE b.count = 0 \/ m > b.start + Window
    <2>1. n = 1 /\ s = m
      BY <1>2, <1>7 DEF Found, OpenBucket
    <2>2. A # {} => b.count # 0 /\ b.start + Window < m
      BY <1>1, <1>7 DEF Fits
    <2>3. \A q \in A : now[q] < m
      BY <1>1, <1>5, <2>2 DEF Fits
    <2>4. From(c, s) = {}
      BY <1>1, <1>5, <2>1, <2>3 DEF From
    <2>5. ASSUME NEW t \in Nat, s <= t + Window
          PROVE  Cardinality(Between(c, t, s)) <= RateLimit - 1
      <3>1. CASE A = {}
        <4>1. Between(c, t, s) = {}
          BY <3>1 DEF Between
        <4>2. QED
          BY <4>1, FS_EmptySet
      <3>2. CASE A # {}
        <4> DEFINE F == From(c, b.start)
                   B == Between(c, t, s)
        <4>1. b.start + Window < m /\ b.count <= RateLimit /\ Cardinality(F) <= b.count
          BY <2>2, <3>2 DEF Fits
        <4>2. PICK first \in A : now[first] = b.start
          BY <2>2, <3>2 DEF Fits
        <4>3. b.start < t
          BY <1>1, <2>1, <2>5, <4>1
        <4>4. B \subseteq F /\ first \in F /\ first \notin B
          BY <1>1, <1>5, <4>2, <4>3 DEF From, Between
        <4>5. IsFiniteSet(F) /\ Cardinality(F) \in Nat /\ IsFiniteSet(B) /\ Cardinality(B) \in Nat
          <5>1. F \subseteq Admitted(c) /\ B \subseteq Admitted(c)
            BY DEF From, Between
          <5>2. QED
            BY <5>1, AdmittedFinite
        <4> HIDE DEF F, B
        <4>6. Cardinality(B \cup {first}) = Cardinality(B) + 1
          BY <4>4, <4>5, FS_AddElement
        <4>7. Cardinality(B \cup {first}) <= Cardinality(F)
          BY <4>4, <4>5, FS_Subset
        <4>8. Cardinality(B) + 1 <= RateLimit
          BY <1>1, <4>1, <4>5, <4>6, <4>7
        <4>9. QED
          BY <4>5, <4>8 DEF B
      <3>3. QED
        BY <3>1, <3>2
    <2>6. Cardinality(From(c, s)) = 0
      BY <2>4, FS_EmptySet
    <2>7. \A q \in A : now[q] <= s + Window
      BY <1>1, <1>5, <2>1
    <2>8. m <= s + Window
      BY <1>1, <2>1
    <2>9. QED
      BY <2>1, <2>5, <2>6, <2>7, <2>8
  <1>8. CASE ~(b.count = 0 \/ m > b.start + Window)
    <2>1. n = b.count + 1 /\ s = b.start
      BY <1>2, <1>8 DEF Found, OpenBucket
    <2>2. /\ \A q \in A : now[q] <= s + Window
          /\ \E q \in A : now[q] = s
          /\ Cardinality(From(c, s)) <= n - 1
          /\ \A t \in Nat : s <= t + Window => Cardinality(Between(c, t, s)) <= RateLimit - 1
      BY <1>1, <1>8, <2>1 DEF Fits
    <2>3. m <= s + Window
      BY <1>1, <1>8, <2>1
    <2>4. QED
      BY <2>2, <2>3
  <1>9. QED
    BY <1>7, <1>8

(* So no span of a window's length gets more than what was left before the *)
(* bucket's window, and the whole of that window.                          *)
LEMMA AdmitKeepsSpans ==
    ASSUME TypeOK, LooksLast, NEW r \in Requests, Admit(r), SpansBounded,
           Fits(bucket[ClientOf[r]], ClientOf[r])
    PROVE  SpansBounded'
  <1> USE LimiterAssumption
  <1> DEFINE c == ClientOf[r]
  <1>1. /\ now[r] \in Nat
        /\ \A q \in Requests : now[q] \in Nat
        /\ \A q \in Admitted(c) : now[q] <= now[r]
    BY DEF TypeOK, LooksLast, Admit
  <1>2. /\ now' = now
        /\ \A d : d # c => Admitted(d)' = Admitted(d)
        /\ Admitted(c)' = Admitted(c) \cup {r} /\ r \notin Admitted(c)
    BY AdmitAdds
  <1>3. PICK n \in 1..RateLimit, s \in 0..now[r] : Pending(r)'.count = n /\ Pending(r)'.start = s
    BY PendingFits
  <1>4. /\ Cardinality(From(c, s)') <= n
        /\ \A t \in Nat : s <= t + Window => Cardinality(Between(c, t, s)') <= RateLimit - 1
    <2>1. Fits(Pending(r), c)'
      BY PendingFits
    <2>2. QED
      BY <1>3, <2>1 DEF Fits
  <1>5. \A q \in Admitted(c)' : q \in Requests /\ now[q] \in Nat /\ now[q] <= now[r]
    BY <1>1, <1>2 DEF Admitted
  <1> SUFFICES ASSUME NEW d \in Clients, NEW t \in Nat
               PROVE  Cardinality(Inside(d, t)') <= 2 * RateLimit - 1
    BY DEF SpansBounded
  <1>6. CASE d # c \/ ~(t <= now[r] /\ now[r] <= t + Window)
    <2>1. \A q \in Admitted(d) : q # r /\ q \in Requests
      BY <1>2 DEF Admitted, Admit
    <2>2. Inside(d, t)' = Inside(d, t)
      BY <1>1, <1>2, <1>6, <2>1 DEF Inside
    <2>3. QED
      BY <2>2 DEF SpansBounded
  <1>7. CASE d = c /\ t <= now[r] /\ now[r] <= t + Window
    <2> DEFINE I == Inside(d, t)'
               B == Between(c, t, s)'
               F == From(c, s)'
    <2>1. I \subseteq B \cup F
      <3> SUFFICES ASSUME NEW q \in I PROVE q \in B \cup F
        OBVIOUS
      <3>1. q \in Admitted(c)' /\ t <= now[q]
        BY <1>2, <1>7 DEF Inside
      <3>2. now[q] \in Nat /\ s \in Nat
        BY <1>5, <3>1
      <3>3. CASE s <= now[q]
        BY <1>2, <3>1, <3>3 DEF From
      <3>4. CASE now[q] < s
        BY <1>2, <3>1, <3>4 DEF Between
      <3>5. QED
        BY <3>2, <3>3, <3>4
    <2>2. I \in SUBSET Requests /\ B \in SUBSET Requests /\ F \in SUBSET Requests
      BY DEF Inside, Between, From, Admitted
    <2>3. s <= t + Window
      BY <1>1, <1>3, <1>7
    <2>4. Cardinality(F) <= n /\ Cardinality(B) <= RateLimit - 1
      BY <1>4, <2>3
    <2> HIDE DEF I, B, F
    <2>5. /\ IsFiniteSet(I) /\ IsFiniteSet(B) /\ IsFiniteSet(F)
          /\ Cardinality(I) \in Nat /\ Cardinality(B) \in Nat /\ Cardinality(F) \in Nat
      BY <2>2, FS_Subset, FS_CardinalityType
    <2>6. /\ IsFiniteSet(B \cup F)
          /\ Cardinality(B \cup F) = Cardinality(B) + Cardinality(F) - Cardinality(B \cap F)
      BY <2>5, FS_Union
    <2>7. Cardinality(B \cap F) \in Nat
      <3>1. B \cap F \in SUBSET B
        OBVIOUS
      <3>2. QED
        BY <2>5, <3>1, FS_Subset, FS_CardinalityType
    <2>8. Cardinality(I) <= Cardinality(B \cup F)
      BY <2>1, <2>6, FS_Subset
    <2>9. Cardinality(I) <= 2 * RateLimit - 1
      BY <1>3, <2>4, <2>5, <2>6, <2>7, <2>8
    <2>10. QED
      BY <2>9 DEF I
  <1>8. QED
    BY <1>6, <1>7

LEMMA AdmitKeepsBurst ==
    ASSUME TypeOK, BurstInv, threads = 1, NEW r \in Requests, Admit(r)
    PROVE  BurstInv'
  <1>1. /\ at[r] = "looks" /\ at' = [at EXCEPT ![r] = "writes"]
        /\ seen' = [seen EXCEPT ![r] = Found(r)]
        /\ UNCHANGED <<threads, bucket>>
        /\ ClientOf[r] \in Clients
    BY LimiterAssumption DEF Admit
  <1>2. \A q \in Requests : q # r => at[q] \notin OnThread
    BY <1>1 DEF BurstInv, OneAtATime, OnThread
  <1>3. \A d \in Clients : Fits(bucket[d], d)
    BY <1>1, <1>2 DEF BurstInv, BucketsFit, OnThread
  <1>4. Fits(Pending(r), ClientOf[r])' /\ SpansBounded'
    BY <1>1, <1>3, PendingFits, AdmitKeepsSpans DEF BurstInv
  <1>5. at'[r] = "writes" /\ \A q \in Requests : q # r => at'[q] \notin OnThread
    BY <1>1, <1>2 DEF TypeOK
  <1>6. ASSUME NEW d \in Clients, d # ClientOf[r]
        PROVE  Fits(bucket[d], d)'
    <2>1. Admitted(d)' = Admitted(d) /\ bucket'[d] = bucket[d]
      BY <1>1, <1>6, AdmitAdds
    <2>2. \A q \in Admitted(d) : now'[q] = now[q]
      <3>1. \A q \in Admitted(d) : q \in Requests \ {r}
        BY <1>6 DEF Admitted
      <3>2. QED
        BY <3>1, AdmitAdds
    <2>3. \A s, t : From(d, s)' = From(d, s) /\ Between(d, t, s)' = Between(d, t, s)
      BY <2>1, <2>2 DEF From, Between
    <2>4. QED
      BY <1>3, <2>1, <2>2, <2>3 DEF Fits
  <1>7. BucketsFit'
    BY <1>4, <1>5, <1>6 DEF BucketsFit, OnThread
  <1>8. OneAtATime' /\ LooksLast'
    BY <1>5 DEF OneAtATime, LooksLast, OnThread
  <1>9. QED
    BY <1>4, <1>7, <1>8 DEF BurstInv

LEMMA NextBurst == TypeOK /\ TimesInv /\ BurstInv /\ [Next]_vars => BurstInv'
  <1> SUFFICES ASSUME TypeOK, TimesInv, BurstInv, [Next]_vars PROVE BurstInv'
    OBVIOUS
  <1>1. threads' = threads
    BY DEF Next, Tick, Enable, Ask, Forbid, Allow, ReadClock, Refuse, Admit, WriteBucket, vars
  <1>2. CASE threads = 1
    BY <1>2, OthersKeepBurst, WriteKeepsBurst, AdmitKeepsBurst DEF Next
  <1>3. CASE threads # 1
    BY <1>1, <1>3 DEF BurstInv
  <1>4. QED
    BY <1>2, <1>3

(* With one thread, no span of a window's length holds twice the limit of  *)
(* requests that read the clock in it.                                     *)
THEOREM BurstsAreBounded == Spec => []BurstBounded
  <1>1. Init => BurstInv
    <2> SUFFICES ASSUME Init PROVE BurstInv
      OBVIOUS
    <2>1. \A c : Admitted(c) = {}
      BY DEF Init, Admitted
    <2>2. \A c, t : Inside(c, t) = {}
      BY <2>1 DEF Inside
    <2>3. SpansBounded
      BY <2>2, FS_EmptySet, LimiterAssumption DEF SpansBounded
    <2>4. OneAtATime /\ LooksLast /\ BucketsFit
      BY <2>1 DEF Init, OneAtATime, OnThread, LooksLast, BucketsFit, Fits, NoBucket
    <2>5. QED
      BY <2>3, <2>4 DEF BurstInv
  <1>2. Inv /\ [Next]_vars /\ BurstInv => BurstInv'
    BY NextBurst DEF Inv
  <1>3. TypeOK /\ BurstInv => BurstBounded
    <2> SUFFICES ASSUME TypeOK, SpansBounded, NEW c \in Clients, NEW t \in 1..clock
                 PROVE  Cardinality({q \in Admitted(c) : now[q] \in t..(t + Window)}) < 2 * RateLimit
      BY DEF BurstInv, BurstBounded
    <2> DEFINE span == {q \in Admitted(c) : now[q] \in t..(t + Window)}
    <2>1. t \in Nat /\ t + Window \in Nat /\ \A q \in Requests : now[q] \in Nat
      BY LimiterAssumption DEF TypeOK
    <2>2. span = Inside(c, t)
      BY <2>1 DEF Inside, Admitted
    <2>3. Inside(c, t) \subseteq Admitted(c)
      BY DEF Inside
    <2>4. Cardinality(Inside(c, t)) \in Nat
      BY <2>3, AdmittedFinite
    <2>5. Cardinality(Inside(c, t)) <= 2 * RateLimit - 1
      BY <2>1 DEF SpansBounded
    <2> HIDE DEF span
    <2>6. Cardinality(span) < 2 * RateLimit
      BY <2>2, <2>4, <2>5, LimiterAssumption
    <2>7. QED
      BY <2>6 DEF span
  <1>4. Inv => TypeOK
    BY DEF Inv
  <1>5. QED
    BY <1>1, <1>2, <1>3, <1>4, Invariant, PTL DEF Spec
=============================================================================
