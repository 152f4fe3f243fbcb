----------------------------- MODULE PagesProofs -----------------------------
(***************************************************************************)
(* Machine-checked theorems about Gallery, for any requests, jobs, slots,  *)
(* cache lifetime and duration of a request: the pages that are served are *)
(* recent.                                                                 *)
(***************************************************************************)
EXTENDS Gallery, FiniteSetTheorems, SequenceTheorems, TLAPS

-----------------------------------------------------------------------------
(* Slots, queries and pages. *)

(* The queries of a page are queries of slots, and each slot is asked for  *)
(* its recent jobs.                                                        *)
LEMMA QueriesAreAsked ==
    /\ Queries \in Seq(Query) /\ Queries # <<>>
    /\ \A s \in Slots : \E i \in DOMAIN Queries : Queries[i] = <<s, "recent">>
  <1> DEFINE n == Len(SlotList)
  <1>1. n \in Nat /\ n # 0 /\ DOMAIN SlotList = 1..n
    BY PagesAssumption, LenProperties, EmptySeq
  <1>2. \A i \in 1..(2 * n) : (i + 1) \div 2 \in 1..n /\ i % 2 \in {0, 1}
    BY <1>1, SMT
  <1>3. \A i \in 1..(2 * n) : SlotList[(i + 1) \div 2] \in Slots
    BY <1>1, <1>2 DEF Slots
  <1>4. Queries \in [1..(2 * n) -> Query]
    BY <1>1, <1>3 DEF Queries, Query
  <1>5. Queries \in Seq(Query) /\ Queries # <<>>
    <2>1. 2 * n \in Nat /\ 1 \in 1..(2 * n)
      BY <1>1, SMT
    <2>2. QED
      BY <1>4, <2>1, SeqDef, EmptySeq
  <1>6. ASSUME NEW s \in Slots PROVE \E i \in DOMAIN Queries : Queries[i] = <<s, "recent">>
    <2>1. PICK k \in 1..n : s = SlotList[k]
      BY <1>1 DEF Slots
    <2>2. 2 * k \in 1..(2 * n) /\ (2 * k + 1) \div 2 = k /\ (2 * k) % 2 = 0
      BY <1>1, <2>1, SMT
    <2>3. Queries[2 * k] = <<s, "recent">>
      BY <2>1, <2>2 DEF Queries
    <2>4. QED
      BY <1>4, <2>2, <2>3
  <1>7. QED
    BY <1>5, <1>6

(* Page q is page p with x for that part of slot s, and nothing else new. *)
Differ(p, q, s, part, x) ==
    /\ q \in Page
    /\ q[s][part] = x
    /\ \A t \in Slots : \A other \in {"latest", "recent"} :
          t # s \/ other # part => q[t][other] = p[t][other]

LEMMA PartOfPage ==
    ASSUME NEW p \in Page, NEW s \in Slots, NEW x \in SUBSET Jobs,
           NEW part \in {"latest", "recent"}
    PROVE  Differ(p, [p EXCEPT ![s][part] = x], s, part, x)
  <1> DEFINE Parts == [latest : SUBSET Jobs, recent : SUBSET Jobs]
             new == [p[s] EXCEPT ![part] = x]
             q == [p EXCEPT ![s] = new]
  <1>1. p[s] \in Parts
    BY DEF Page
  <1>2. CASE part = "latest"
    <2>1. new \in Parts /\ new.latest = x /\ new.recent = p[s].recent
      BY <1>1, <1>2
    <2>2. q \in Page
      BY <2>1 DEF Page
    <2>3. QED
      BY <1>2, <2>1, <2>2 DEF Page, Differ
  <1>3. CASE part = "recent"
    <2>1. new \in Parts /\ new.recent = x /\ new.latest = p[s].latest
      BY <1>1, <1>3
    <2>2. q \in Page
      BY <2>1 DEF Page
    <2>3. QED
      BY <1>3, <2>1, <2>2 DEF Page, Differ
  <1>4. QED
    BY <1>2, <1>3

LEMMA EmptyPageIsPage == EmptyPage \in Page
  BY DEF EmptyPage, Page

-----------------------------------------------------------------------------
(* Types. *)

LEMMA InitTyped == PageInit => PageTypeOK
  BY PagesAssumption, EmptySeq DEF PageInit, PageTypeOK, Time

LEMMA ClockMovesTo == PageTypeOK /\ ticks <= MaxTicks => ticks + 1 \in 1..(MaxTicks + 1)
  BY PagesAssumption DEF PageTypeOK

LEMMA TickKeepsTypes == PageTypeOK /\ PageTick => PageTypeOK'
  <1> SUFFICES ASSUME PageTypeOK, PageTick PROVE PageTypeOK'
    OBVIOUS
  <1>1. ticks' \in 1..(MaxTicks + 1)
    BY ClockMovesTo DEF PageTick
  <1>2. page' \in [Visits -> Page \cup {NoPage}]
    BY DEF PageTick, PageTypeOK
  <1>3. QED
    BY <1>1, <1>2 DEF PageTick, jobVars, cacheVars, PageTypeOK

LEMMA JobStepKeepsTypes == PageTypeOK /\ JobStep => PageTypeOK'
  <1> SUFFICES ASSUME PageTypeOK, NEW j \in Jobs,
                      FinishDone(j) \/ FinishFailed(j) \/ FailAgain(j) \/ Redecide(j) \/ Withdraw(j)
               PROVE  PageTypeOK'
    BY DEF JobStep
  <1>1. ticks \in Time /\ last + 1 \in Nat
    BY PagesAssumption DEF PageTypeOK, Time
  <1>2. completed' \in [Jobs -> Nat] /\ last' \in Nat
    BY <1>1 DEF FinishDone, FinishFailed, FailAgain, Redecide, Withdraw, Complete, PageTypeOK
  <1>3. done' \subseteq Jobs /\ settled' \subseteq Jobs /\ files' \subseteq Jobs /\ since' \in [Jobs -> Time]
    BY <1>1 DEF FinishDone, FinishFailed, FailAgain, Redecide, Withdraw, PageTypeOK
  <1>4. UNCHANGED <<ticks, data, stamp, pc, arrived, left, rows, page>>
    BY DEF FinishDone, FinishFailed, FailAgain, Redecide, Withdraw, cacheVars, requestVars, buildVars
  <1>5. QED
    BY <1>2, <1>3, <1>4 DEF PageTypeOK

(* A query still to be made is one of a slot, and its answer is of jobs. *)
LEMMA QueryFacts ==
    ASSUME PageTypeOK, NEW r \in Visits, left[r] # <<>>
    PROVE  /\ Head(left[r]) \in Query
           /\ Head(left[r])[1] \in Slots /\ Head(left[r])[2] \in {"latest", "recent"}
           /\ Tail(left[r]) \in Seq(Query)
           /\ Len(left[r]) \in Nat /\ Len(left[r]) # 0
           /\ Len(Tail(left[r])) = Len(left[r]) - 1
           /\ \A i \in DOMAIN left[r] :
                 left[r][i] = Head(left[r]) \/ \E k \in DOMAIN Tail(left[r]) : Tail(left[r])[k] = left[r][i]
  <1> DEFINE l == left[r]
  <1>1. l \in Seq(Query) /\ l # <<>>
    BY DEF PageTypeOK
  <1> HIDE DEF l
  <1>2. Head(l) \in Query /\ Tail(l) \in Seq(Query) /\ Len(Tail(l)) = Len(l) - 1
    BY <1>1, HeadTailProperties
  <1>3. Len(l) \in Nat /\ Len(l) # 0 /\ DOMAIN l = 1..Len(l)
    BY <1>1, LenProperties, EmptySeq
  <1>4. Head(l)[1] \in Slots /\ Head(l)[2] \in {"latest", "recent"}
    BY <1>2 DEF Query
  <1>5. ASSUME NEW i \in DOMAIN l, l[i] # Head(l)
        PROVE  \E k \in DOMAIN Tail(l) : Tail(l)[k] = l[i]
    <2>1. i \in 2..Len(l)
      BY <1>1, <1>3, <1>5, HeadTailProperties
    <2>2. i - 1 \in 1..Len(Tail(l)) /\ DOMAIN Tail(l) = 1..Len(Tail(l))
      BY <1>2, <1>3, <2>1, LenProperties
    <2>3. Tail(l)[i - 1] = l[i]
      BY <1>1, <2>1, <2>2, <1>2
    <2>4. QED
      BY <2>2, <2>3
  <1>6. QED
    BY <1>1, <1>2, <1>3, <1>4, <1>5 DEF l

(* A page is asked for what is missing in it, part by part. *)
LEMMA HandleKeepsTypes ==
    ASSUME PageTypeOK, NEW r \in Visits, Handle(r),
           pc[r] \in {"query", "check"} => left[r] # <<>>,
           pc[r] \in {"query", "check", "store", "stamp"} => page[r] \in Page
    PROVE  PageTypeOK'
  <1> DEFINE Places == {"idle"} \cup Busy \cup {"served"}
  <1>1. ticks \in Time
    BY PagesAssumption DEF PageTypeOK, Time
  <1>2. pc' \in [Visits -> Places] /\ arrived' \in [Visits -> Time]
    <2>1. \E place \in Places : pc' = [pc EXCEPT ![r] = place]
      BY DEF Handle, Begin, Hit, Take, Miss, ListRecent, CheckFiles, Store, Stamp, Busy
    <2>2. arrived' = arrived \/ \E t \in Time : arrived' = [arrived EXCEPT ![r] = t]
      <3>1. 0 \in Time
        BY PagesAssumption DEF Time, PageTypeOK
      <3>2. QED
        BY <1>1, <3>1
           DEF Handle, Begin, Hit, Take, Miss, ListRecent, CheckFiles, Store, Stamp
    <2>3. QED
      BY <2>1, <2>2 DEF PageTypeOK
  <1>3. data' \in Page \cup {NoPage} /\ stamp' \in Time
    BY <1>1 DEF Handle, Begin, Hit, Take, Miss, ListRecent, CheckFiles, Store, Stamp,
                cacheVars, PageTypeOK
  <1>4. left' \in [Visits -> Seq(Query)]
    <2>1. CASE Miss(r)
      BY <2>1, QueriesAreAsked DEF Miss, PageTypeOK
    <2>2. CASE CheckFiles(r)
      BY <2>2, QueryFacts DEF CheckFiles, PageTypeOK
    <2>3. CASE left' = left
      BY <2>3 DEF PageTypeOK
    <2>4. QED
      BY <2>1, <2>2, <2>3 DEF Handle, Begin, Hit, Take, ListRecent, Store, Stamp, buildVars
  <1>5. rows' \in [Visits -> SUBSET Jobs]
    <2>1. CASE ListRecent(r)
      BY <2>1 DEF ListRecent, Newest, PageTypeOK
    <2>2. CASE CheckFiles(r)
      BY <2>2 DEF CheckFiles, PageTypeOK
    <2>3. CASE rows' = rows
      BY <2>3 DEF PageTypeOK
    <2>4. QED
      BY <2>1, <2>2, <2>3 DEF Handle, Begin, Hit, Take, Miss, Store, Stamp, buildVars
  <1>6. page' \in [Visits -> Page \cup {NoPage}]
    <2>1. CASE CheckFiles(r)
      <3> DEFINE s == Head(left[r])[1]
                 part == Head(left[r])[2]
                 x == rows[r] \cap files
                 new == [page[r] EXCEPT ![s][part] = x]
      <3>1. page[r] \in Page /\ s \in Slots /\ part \in {"latest", "recent"} /\ x \in SUBSET Jobs
        BY <2>1, QueryFacts DEF CheckFiles, PageTypeOK
      <3>2. new \in Page
        <4> HIDE DEF s, part, x
        <4>1. QED
          BY <3>1, PartOfPage DEF Differ
      <3>3. page' = [page EXCEPT ![r] = new]
        BY <2>1 DEF CheckFiles
      <3> HIDE DEF new
      <3>4. QED
        BY <3>2, <3>3 DEF PageTypeOK
    <2>2. CASE page' = page
      BY <2>2 DEF PageTypeOK
    <2>3. CASE Take(r) \/ Miss(r)
      BY <2>3, EmptyPageIsPage DEF Take, Miss, PageTypeOK
    <2>4. QED
      BY <2>1, <2>2, <2>3 DEF Handle, Begin, Hit, ListRecent, Store, Stamp, buildVars
  <1>7. UNCHANGED <<ticks, jobVars>>
    BY DEF Handle, Begin, Hit, Take, Miss, ListRecent, CheckFiles, Store, Stamp
  <1>8. QED
    BY <1>2, <1>3, <1>4, <1>5, <1>6, <1>7 DEF jobVars, PageTypeOK

-----------------------------------------------------------------------------
(* Jobs.  A page is right about a job or the job has changed meanwhile.    *)

Among(j) == Available(j) /\ j \in Newest(SlotOf[j], RecentLimit)

ShowsOnly(p, j) ==
    \A s \in Slots : j \in p[s].latest \cup p[s].recent => Available(j)

Right(p, j) == ShowsOnly(p, j) /\ (Among(j) => j \in p[SlotOf[j]].recent)

JobsInv ==
    /\ files \subseteq done
    /\ \A j \in Jobs :
          /\ since[j] <= ticks
          /\ completed[j] <= last
          /\ j \in done => Finished(j)

(* A job that has not changed is there as before, and not among the newest *)
(* unless it was: those that finished after it stay, others follow.        *)
Kept(j) ==
    /\ since'[j] = since[j]
    /\ Available(j)' <=> Available(j)
    /\ Among(j)' => Among(j)

LEMMA NewerStay ==
    ASSUME PageTypeOK, PageTypeOK', NEW j \in Jobs, completed'[j] = completed[j],
           \A k \in Jobs : completed[k] <= completed'[k]
    PROVE  Among(j)' /\ Available(j) => Among(j)
  <1> SUFFICES ASSUME Among(j)', Available(j) PROVE Among(j)
    OBVIOUS
  <1> DEFINE older == NewerThan(j)
             newer == NewerThan(j)'
  <1>1. Finished(j) /\ newer \subseteq Jobs /\ Cardinality(newer) < RecentLimit
    BY DEF Among, Newest, NewerThan, Finished
  <1>2. older \subseteq newer
    BY DEF NewerThan, PageTypeOK
  <1>3. IsFiniteSet(newer)
    BY PagesAssumption, <1>1, FS_Subset DEF PageTypeOK
  <1>4. Cardinality(older) <= Cardinality(newer) /\ Cardinality(older) \in Nat
        /\ Cardinality(newer) \in Nat
    <2> HIDE DEF older, newer
    <2>1. QED
      BY <1>2, <1>3, FS_Subset, FS_CardinalityType
  <1>5. RecentLimit \in Nat
    BY PagesAssumption DEF PageTypeOK
  <1>6. Cardinality(older) < RecentLimit
    <2> HIDE DEF older, newer
    <2>1. QED
      BY <1>1, <1>4, <1>5, SMT
  <1>7. QED
    BY <1>1, <1>6 DEF Among, Newest

(* A step of a job sets its history to the present, unless it has only     *)
(* failed, or failed once more: then nobody has been able to see it.       *)
LEMMA JobStepChanges ==
    ASSUME PageTypeOK, PageTypeOK', JobsInv, JobStep
    PROVE  /\ JobsInv'
           /\ \A j \in Jobs : Kept(j) \/ since'[j] = ticks
           /\ UNCHANGED <<ticks, data, stamp, pc, arrived, left, rows, page>>
  <1>1. PICK j \in Jobs : FinishDone(j) \/ FinishFailed(j) \/ FailAgain(j) \/ Redecide(j) \/ Withdraw(j)
    BY DEF JobStep
  <1>2. UNCHANGED <<ticks, data, stamp, pc, arrived, left, rows, page>>
    BY <1>1 DEF FinishDone, FinishFailed, FailAgain, Redecide, Withdraw, cacheVars, requestVars, buildVars
  <1>3. /\ \A k \in Jobs : completed[k] <= completed'[k]
        /\ \A k \in Jobs : k # j => completed'[k] = completed[k]
        /\ completed'[j] \in {completed[j], last'} /\ last <= last'
        /\ completed[j] # 0 => completed'[j] # 0
    <2>1. /\ completed \in [Jobs -> Nat] /\ last \in Nat
          /\ \A k \in Jobs : completed[k] \in Nat /\ completed[k] <= last
      BY DEF JobsInv, PageTypeOK
    <2>2. CASE Complete(j)
      BY <2>1, <2>2 DEF Complete
    <2>3. CASE UNCHANGED <<completed, last>>
      BY <2>1, <2>3
    <2>4. QED
      BY <1>1, <2>2, <2>3 DEF FinishDone, FinishFailed, FailAgain, Redecide, Withdraw
  <1>4. /\ \A k \in Jobs : k # j => since'[k] = since[k]
        /\ since'[j] \in {since[j], ticks}
    BY <1>1 DEF FinishDone, FinishFailed, FailAgain, Redecide, Withdraw, PageTypeOK
  <1>5. /\ \A k \in Jobs : k # j => (k \in files' <=> k \in files) /\ (k \in done' <=> k \in done)
        /\ files' \subseteq done'
    BY <1>1 DEF FinishDone, FinishFailed, FailAgain, Redecide, Withdraw, JobsInv
  <1>6. j \in done' => completed'[j] # 0
    <2>1. CASE FinishDone(j)
      BY <2>1 DEF FinishDone, Complete, PageTypeOK
    <2>2. CASE ~FinishDone(j)
      BY <1>1, <1>3, <2>2 DEF FinishFailed, FailAgain, Redecide, Withdraw, JobsInv, Finished
    <2>3. QED
      BY <2>1, <2>2
  <1>7. JobsInv'
    BY <1>2, <1>3, <1>4, <1>5, <1>6 DEF JobsInv, Finished, PageTypeOK, Time
  <1>8. ASSUME NEW k \in Jobs PROVE Kept(k) \/ since'[k] = ticks
    <2>1. CASE k # j
      <3>1. Available(k)' <=> Available(k)
        BY <1>5, <2>1 DEF Available
      <3>2. Among(k)' => Among(k)
        BY <1>3, <2>1, <3>1, NewerStay DEF Among
      <3>3. QED
        BY <1>4, <2>1, <3>1, <3>2 DEF Kept
    <2>2. CASE k = j /\ (FinishFailed(j) \/ FailAgain(j))
      BY <2>2 DEF FinishFailed, FailAgain, Kept, Available, Among, JobsInv
    <2>3. CASE k = j /\ ~FinishFailed(j) /\ ~FailAgain(j)
      BY <1>1, <2>3 DEF FinishDone, Redecide, Withdraw, PageTypeOK
    <2>4. QED
      BY <2>1, <2>2, <2>3
  <1>9. QED
    BY <1>2, <1>7, <1>8

LEMMA OthersKeepJobs ==
    ASSUME PageTypeOK, JobsInv, UNCHANGED jobVars, ticks' \in {ticks, ticks + 1}
    PROVE  JobsInv' /\ \A j \in Jobs : Kept(j)
  <1>1. JobsInv'
    BY PagesAssumption DEF JobsInv, Finished, jobVars, PageTypeOK, Time
  <1>2. \A j \in Jobs : Kept(j)
    BY DEF Kept, Available, Among, Newest, NewerThan, Finished, jobVars
  <1>3. QED
    BY <1>1, <1>2

-----------------------------------------------------------------------------
(* Why pages are recent.  What is right at a time stays right about the    *)
(* jobs that have not changed since; so it is enough to know from when the *)
(* page is that a request builds, that the cache holds, or that a request  *)
(* is about to take from it.                                               *)

(* Page p is right about whatever had last changed more than k before t. *)
RightBefore(p, t, k) == \A j \in Jobs : since[j] + k < t => Right(p, j)

TimesInv ==
    /\ stamp <= ticks
    /\ \A r \in Visits :
          pc[r] \in Busy => arrived[r] <= ticks /\ ticks <= arrived[r] + Slack

(* A page under construction shows nothing that is gone, and misses only   *)
(* what has still to be asked for.                                         *)
AskedFor(l, j) == \E i \in DOMAIN l : l[i] = <<SlotOf[j], "recent">>

Built(r) ==
    \A j \in Jobs : since[j] < arrived[r] =>
        /\ ShowsOnly(page[r], j)
        /\ Among(j) => j \in page[r][SlotOf[j]].recent \/ AskedFor(left[r], j)

Found(r) ==
    \A j \in Jobs :
        since[j] < arrived[r] /\ Among(j) /\ Head(left[r]) = <<SlotOf[j], "recent">>
            => j \in rows[r]

BuildOK(r) ==
    /\ pc[r] \in {"query", "check", "store", "stamp"} => page[r] \in Page
    /\ pc[r] \in {"query", "check"} => left[r] # <<>> /\ Built(r)
    /\ pc[r] = "check" => Found(r)
    /\ pc[r] \in {"store", "stamp"} => RightBefore(page[r], arrived[r], 0)

(* A page in the cache is as old as the request that built it, a stamp may *)
(* be another request's, and a reader has tested it some time ago.         *)
CacheOK(r) ==
    /\ pc[r] = "stamp" => RightBefore(data, arrived[r], Slack)
    /\ pc[r] = "take" => RightBefore(data, arrived[r], Ttl + 2 * Slack)
    /\ pc[r] = "served" /\ page[r] # NoPage => RightBefore(page[r], ticks, Staleness)

StoredOK == RightBefore(data, stamp, 2 * Slack)

PagesInv ==
    /\ PageTypeOK
    /\ JobsInv
    /\ TimesInv
    /\ StoredOK
    /\ \A r \in Visits : BuildOK(r) /\ CacheOK(r)

LEMMA InitPages == PageInit => PagesInv
  <1> SUFFICES ASSUME PageInit PROVE PagesInv
    OBVIOUS
  <1>1. PageTypeOK
    BY InitTyped
  <1>2. JobsInv
    BY DEF JobsInv, PageInit
  <1>3. TimesInv
    BY DEF TimesInv, PageInit, Busy
  <1>4. StoredOK
    BY PagesAssumption DEF StoredOK, RightBefore, PageInit
  <1>5. \A r \in Visits : BuildOK(r) /\ CacheOK(r)
    BY DEF BuildOK, CacheOK, PageInit
  <1>6. QED
    BY <1>1, <1>2, <1>3, <1>4, <1>5 DEF PagesInv

(* Numbers among which the proof compares. *)
LEMMA Numbers ==
    ASSUME PageTypeOK
    PROVE  /\ Slack \in Nat /\ Slack # 0 /\ Ttl \in Nat /\ ticks \in Nat /\ stamp \in Nat
           /\ \A r \in Visits : arrived[r] \in Nat
           /\ \A j \in Jobs : since[j] \in Nat
  BY PagesAssumption DEF PageTypeOK, Time

(* What jobs do, and what time does. *)
Changes == \A j \in Jobs : Kept(j) \/ since'[j] = ticks

LEMMA RightStays ==
    ASSUME PageTypeOK, Changes, NEW p, NEW t \in Nat, NEW k \in Nat, t <= ticks,
           RightBefore(p, t, k)
    PROVE  \A j \in Jobs :
              since'[j] + k < t =>
                  /\ \A s \in Slots : j \in p[s].latest \cup p[s].recent => Available(j)'
                  /\ Among(j)' => j \in p[SlotOf[j]].recent
  BY Numbers DEF Changes, RightBefore, Right, ShowsOnly, Kept

LEMMA BuildStays ==
    ASSUME PageTypeOK, TimesInv, Changes, NEW r \in Visits, BuildOK(r),
           pc'[r] = pc[r], arrived'[r] = arrived[r], left'[r] = left[r], rows'[r] = rows[r],
           pc[r] \in Busy => page'[r] = page[r]
    PROVE  BuildOK(r)'
  <1> SUFFICES ASSUME pc[r] \in {"query", "check", "store", "stamp"} PROVE BuildOK(r)'
    BY DEF BuildOK
  <1>1. page'[r] = page[r] /\ arrived[r] <= ticks /\ arrived[r] \in Nat
    BY Numbers DEF TimesInv, Busy
  <1>2. \A j \in Jobs : since'[j] < arrived[r] => Kept(j)
    BY <1>1, Numbers DEF Changes
  <1>3. Built(r) => Built(r)'
    BY <1>1, <1>2 DEF Built, Kept, ShowsOnly
  <1>4. Found(r) => Found(r)'
    BY <1>2 DEF Found, Kept
  <1>5. RightBefore(page[r], arrived[r], 0) => RightBefore(page[r], arrived[r], 0)'
    <2>1. \A j \in Jobs : since'[j] + 0 < arrived[r] => Kept(j) /\ since[j] + 0 < arrived[r]
      BY <1>1, <1>2, Numbers DEF Kept, Changes
    <2>2. QED
      BY <1>1, <2>1 DEF RightBefore, Right, ShowsOnly, Kept
  <1>6. QED
    BY <1>1, <1>3, <1>4, <1>5 DEF BuildOK

(* What is in the cache stays there, and what was served is not touched. *)
LEMMA CacheStays ==
    ASSUME PageTypeOK, TimesInv, Changes, NEW r \in Visits, CacheOK(r),
           UNCHANGED <<ticks, data>>,
           pc'[r] = pc[r], arrived'[r] = arrived[r], page'[r] = page[r]
    PROVE  CacheOK(r)'
  <1>1. ASSUME pc[r] = "stamp" PROVE RightBefore(data, arrived[r], Slack)'
    <2>1. arrived[r] <= ticks
      BY <1>1 DEF TimesInv, Busy
    <2>2. PICK p : p = data
      OBVIOUS
    <2>3. PICK t \in Nat : t = arrived[r] /\ t <= ticks
      BY <2>1, Numbers
    <2>4. RightBefore(p, t, Slack)
      BY <1>1, <2>2, <2>3 DEF CacheOK
    <2>5. \A j \in Jobs :
              since'[j] + Slack < t =>
                  /\ \A s \in Slots : j \in p[s].latest \cup p[s].recent => Available(j)'
                  /\ Among(j)' => j \in p[SlotOf[j]].recent
      BY <2>3, <2>4, Numbers, RightStays
    <2>6. QED
      BY <2>2, <2>3, <2>5 DEF RightBefore, Right, ShowsOnly
  <1>2. ASSUME pc[r] = "take" PROVE RightBefore(data, arrived[r], Ttl + 2 * Slack)'
    <2>1. arrived[r] <= ticks
      BY <1>2 DEF TimesInv, Busy
    <2>2. PICK p : p = data
      OBVIOUS
    <2>3. PICK t \in Nat : t = arrived[r] /\ t <= ticks
      BY <2>1, Numbers
    <2>4. PICK k \in Nat : k = Ttl + 2 * Slack
      BY Numbers
    <2>5. RightBefore(p, t, k)
      BY <1>2, <2>2, <2>3, <2>4 DEF CacheOK
    <2>6. \A j \in Jobs :
              since'[j] + k < t =>
                  /\ \A s \in Slots : j \in p[s].latest \cup p[s].recent => Available(j)'
                  /\ Among(j)' => j \in p[SlotOf[j]].recent
      BY <2>3, <2>5, RightStays
    <2>7. QED
      BY <2>2, <2>3, <2>4, <2>6 DEF RightBefore, Right, ShowsOnly
  <1>3. ASSUME pc[r] = "served", page[r] # NoPage
        PROVE  RightBefore(page[r], ticks, Staleness)'
    <2>1. PICK p : p = page[r]
      OBVIOUS
    <2>2. PICK t \in Nat : t = ticks
      BY Numbers
    <2>3. PICK k \in Nat : k = Staleness
      BY Numbers DEF Staleness
    <2>4. RightBefore(p, t, k)
      BY <1>3, <2>1, <2>2, <2>3 DEF CacheOK
    <2>5. \A j \in Jobs :
              since'[j] + k < t =>
                  /\ \A s \in Slots : j \in p[s].latest \cup p[s].recent => Available(j)'
                  /\ Among(j)' => j \in p[SlotOf[j]].recent
      BY <2>2, <2>4, RightStays
    <2>6. QED
      BY <2>1, <2>2, <2>3, <2>5 DEF RightBefore, Right, ShowsOnly
  <1>4. QED
    BY <1>1, <1>2, <1>3 DEF CacheOK

LEMMA StoredStays ==
    ASSUME PageTypeOK, TimesInv, StoredOK, Changes, UNCHANGED <<data, stamp>>
    PROVE  StoredOK'
  <1>1. PICK p : p = data
    OBVIOUS
  <1>2. PICK t \in Nat : t = stamp /\ t <= ticks
    BY Numbers DEF TimesInv
  <1>3. PICK k \in Nat : k = 2 * Slack
    BY Numbers
  <1>4. RightBefore(p, t, k)
    BY <1>1, <1>2, <1>3 DEF StoredOK
  <1>5. \A j \in Jobs :
            since'[j] + k < t =>
                /\ \A s \in Slots : j \in p[s].latest \cup p[s].recent => Available(j)'
                /\ Among(j)' => j \in p[SlotOf[j]].recent
    BY <1>2, <1>4, RightStays
  <1>6. QED
    BY <1>1, <1>2, <1>3, <1>5 DEF StoredOK, RightBefore, Right, ShowsOnly

(* The jobs take a step, or nobody does. *)
LEMMA JobStepKeepsPages ==
    ASSUME PagesInv, JobStep \/ UNCHANGED pageVars
    PROVE  PagesInv'
  <1>1. PageTypeOK' /\ JobsInv' /\ Changes /\ UNCHANGED <<ticks, data, stamp, pc, arrived, left, rows, page>>
    <2>1. CASE JobStep
      BY <2>1, JobStepKeepsTypes, JobStepChanges DEF PagesInv, Changes
    <2>2. CASE UNCHANGED pageVars
      BY <2>2, OthersKeepJobs DEF PagesInv, Changes, pageVars, jobVars, cacheVars,
                                  requestVars, buildVars, PageTypeOK
    <2>3. QED
      BY <2>1, <2>2
  <1>2. TimesInv'
    BY <1>1 DEF PagesInv, TimesInv
  <1>3. StoredOK'
    BY <1>1, StoredStays DEF PagesInv
  <1>4. \A r \in Visits : BuildOK(r)' /\ CacheOK(r)'
    BY <1>1, BuildStays, CacheStays DEF PagesInv
  <1>5. QED
    BY <1>1, <1>2, <1>3, <1>4 DEF PagesInv, PageTypeOK

(* Time goes on: nobody is answered before who was answered is forgotten. *)
LEMMA TickKeepsPages ==
    ASSUME PagesInv, PageTick
    PROVE  PagesInv'
  <1>1. PageTypeOK' /\ JobsInv' /\ \A j \in Jobs : Kept(j)
    BY TickKeepsTypes, OthersKeepJobs DEF PagesInv, PageTick
  <1>2. UNCHANGED <<data, stamp, pc, arrived, left, rows>> /\ ticks' = ticks + 1
        /\ \A r \in Visits : page'[r] = IF pc[r] = "served" THEN NoPage ELSE page[r]
    BY DEF PageTick, cacheVars
  <1>3. TimesInv'
    <2>1. ASSUME NEW r \in Visits, pc[r] \in Busy
          PROVE  arrived[r] <= ticks + 1 /\ ticks + 1 <= arrived[r] + Slack
      <3>1. arrived[r] <= ticks /\ ticks - arrived[r] < Slack
        BY <2>1 DEF PageTick, PagesInv, TimesInv
      <3>2. QED
        BY <1>1, <3>1, Numbers DEF PagesInv
    <2>2. stamp <= ticks + 1
      BY <1>1, Numbers DEF PagesInv, TimesInv
    <2>3. QED
      BY <1>2, <2>1, <2>2 DEF TimesInv
  <1>4. StoredOK'
    BY <1>1, <1>2, StoredStays DEF PagesInv, Changes
  <1>5. ASSUME NEW r \in Visits PROVE BuildOK(r)'
    <2>1. pc[r] \in Busy => page'[r] = page[r]
      BY <1>2 DEF Busy
    <2>2. QED
      BY <1>1, <1>2, <2>1, BuildStays DEF PagesInv, Changes
  <1>6. ASSUME NEW r \in Visits PROVE CacheOK(r)'
    <2>1. \A j \in Jobs : /\ since'[j] = since[j]
                          /\ Right(data, j) => Right(data, j)'
      BY <1>1, <1>2 DEF Kept, Right, ShowsOnly
    <2>2. pc[r] = "served" => page'[r] = NoPage
      BY <1>2
    <2>3. CacheOK(r)
      BY DEF PagesInv
    <2>4. QED
      BY <1>2, <2>1, <2>2, <2>3 DEF CacheOK, RightBefore
  <1>7. QED
    BY <1>1, <1>3, <1>4, <1>5, <1>6 DEF PagesInv, PageTypeOK

-----------------------------------------------------------------------------
(* One step of a request: what becomes of the page it builds.              *)

LEMMA MissBuilds ==
    ASSUME PagesInv, NEW r \in Visits, Miss(r)
    PROVE  BuildOK(r)'
  <1>1. pc'[r] = "query" /\ left'[r] = Queries /\ page'[r] = EmptyPage
    BY DEF Miss, PagesInv, PageTypeOK
  <1>2. EmptyPage \in Page /\ Queries # <<>>
    BY EmptyPageIsPage, QueriesAreAsked DEF PagesInv, PageTypeOK
  <1>3. ASSUME NEW j \in Jobs
        PROVE  /\ \A s \in Slots : j \notin EmptyPage[s].latest \cup EmptyPage[s].recent
               /\ \E i \in DOMAIN Queries : Queries[i] = <<SlotOf[j], "recent">>
    BY PagesAssumption, QueriesAreAsked DEF EmptyPage, PagesInv, PageTypeOK
  <1>4. Built(r)'
    BY <1>1, <1>3 DEF Built, ShowsOnly, AskedFor
  <1>5. QED
    BY <1>1, <1>2, <1>4 DEF BuildOK

LEMMA ListRecentBuilds ==
    ASSUME PagesInv, NEW r \in Visits, ListRecent(r)
    PROVE  BuildOK(r)'
  <1>1. pc[r] = "query" /\ pc'[r] = "check" /\ BuildOK(r)
        /\ UNCHANGED <<jobVars, arrived, left, page>>
    BY DEF ListRecent, PagesInv, PageTypeOK
  <1>2. \A j \in Jobs : (Available(j)' <=> Available(j)) /\ (Among(j)' <=> Among(j))
    BY <1>1 DEF Available, Among, Newest, NewerThan, Finished, jobVars
  <1>3. Built(r)'
    BY <1>1, <1>2 DEF BuildOK, Built, ShowsOnly, jobVars
  <1>4. ASSUME NEW j \in Jobs, Among(j), Head(left[r]) = <<SlotOf[j], "recent">>
        PROVE  j \in rows'[r]
    <2>1. Head(left[r])[1] = SlotOf[j] /\ Head(left[r])[2] = "recent"
      BY <1>4
    <2>2. rows'[r] = Newest(SlotOf[j], RecentLimit) \cap done
      BY <2>1 DEF ListRecent, PagesInv, PageTypeOK
    <2>3. QED
      BY <1>4, <2>2 DEF Among, Available
  <1>5. Found(r)'
    BY <1>1, <1>2, <1>4 DEF Found
  <1>6. QED
    BY <1>1, <1>3, <1>5 DEF BuildOK

LEMMA CheckFilesBuilds ==
    ASSUME PagesInv, NEW r \in Visits, CheckFiles(r)
    PROVE  BuildOK(r)'
  <1> DEFINE s == Head(left[r])[1]
             part == Head(left[r])[2]
             x == rows[r] \cap files
             new == [page[r] EXCEPT ![s][part] = x]
  <1>1. /\ pc[r] = "check" /\ UNCHANGED <<jobVars, arrived>>
        /\ page' = [page EXCEPT ![r] = new]
        /\ left'[r] = Tail(left[r])
        /\ pc'[r] = IF Len(left[r]) = 1 THEN "store" ELSE "query"
    BY DEF CheckFiles, PagesInv, PageTypeOK
  <1>2. PageTypeOK /\ JobsInv /\ page[r] \in Page /\ left[r] # <<>> /\ Built(r) /\ Found(r)
    BY <1>1 DEF PagesInv, BuildOK
  <1>3. Head(left[r]) \in Query /\ s \in Slots /\ part \in {"latest", "recent"}
        /\ x \in SUBSET Jobs
    BY <1>2, QueryFacts DEF PageTypeOK
  <1>4. /\ new \in Page /\ new[s][part] = x
        /\ \A t \in Slots : \A other \in {"latest", "recent"} :
              t # s \/ other # part => new[t][other] = page[r][t][other]
    <2>1. Differ(page[r], new, s, part, x)
      <3> HIDE DEF s, part, x
      <3>1. QED
        BY <1>2, <1>3, PartOfPage
    <2> HIDE DEF new, s, part, x
    <2>2. QED
      BY <2>1 DEF Differ
  <1>5. page'[r] = new
    <2> HIDE DEF new
    <2>1. QED
      BY <1>1, <1>2 DEF PageTypeOK
  <1>6. \A j \in Jobs : (Available(j)' <=> Available(j)) /\ (Among(j)' <=> Among(j))
                        /\ since'[j] = since[j]
    BY <1>1 DEF Available, Among, Newest, NewerThan, Finished, jobVars
  <1>7. ASSUME NEW j \in Jobs, since[j] < arrived[r], NEW t \in Slots,
               j \in new[t].latest \cup new[t].recent
        PROVE  Available(j)
    <2>1. PICK other \in {"latest", "recent"} : j \in new[t][other]
      BY <1>7
    <2>2. CASE t = s /\ other = part
      <3>1. j \in files /\ files \subseteq done
        BY <1>2, <1>4, <2>1, <2>2 DEF JobsInv
      <3>2. QED
        BY <3>1 DEF Available
    <2>3. CASE ~(t = s /\ other = part)
      <3>1. j \in page[r][t][other]
        BY <1>4, <2>1, <2>3
      <3>2. j \in page[r][t].latest \cup page[r][t].recent
        BY <3>1
      <3>3. QED
        BY <1>2, <1>7, <3>2 DEF Built, ShowsOnly
    <2>4. QED
      BY <2>2, <2>3
  <1>8. ASSUME NEW j \in Jobs, since[j] < arrived[r], Among(j)
        PROVE  j \in new[SlotOf[j]].recent \/ AskedFor(Tail(left[r]), j)
    <2>1. SlotOf[j] \in Slots /\ Available(j)
      BY PagesAssumption, <1>2, <1>8 DEF Among, PageTypeOK
    <2>2. CASE Head(left[r]) = <<SlotOf[j], "recent">>
      <3>1. j \in rows[r] /\ s = SlotOf[j] /\ part = "recent"
        BY <1>2, <1>8, <2>2 DEF Found
      <3>2. QED
        BY <1>4, <2>1, <3>1 DEF Available
    <2>3. CASE Head(left[r]) # <<SlotOf[j], "recent">>
      <3>1. Head(left[r]) = <<s, part>>
        BY <1>3 DEF Query
      <3>2. new[SlotOf[j]].recent = page[r][SlotOf[j]].recent
        <4>1. SlotOf[j] # s \/ "recent" # part
          BY <2>3, <3>1
        <4>2. QED
          BY <1>4, <2>1, <4>1
      <3>3. AskedFor(left[r], j) => AskedFor(Tail(left[r]), j)
        BY <1>2, <2>3, QueryFacts DEF AskedFor
      <3>4. QED
        BY <1>2, <1>8, <3>2, <3>3 DEF Built
    <2>4. QED
      BY <2>2, <2>3
  <1> HIDE DEF new, x, s, part
  <1>9. Built(r)'
    BY <1>1, <1>5, <1>6, <1>7, <1>8 DEF Built, ShowsOnly, AskedFor
  <1>10. CASE Len(left[r]) = 1
    <2>1. DOMAIN Tail(left[r]) = {}
      BY <1>2, <1>10, QueryFacts, LenProperties
    <2>2. \A j \in Jobs : ~ AskedFor(Tail(left[r]), j)
      BY <2>1 DEF AskedFor
    <2>3. \A j \in Jobs : since[j] + 0 < arrived[r] => since[j] < arrived[r]
      BY <1>2, Numbers
    <2>4. RightBefore(page[r], arrived[r], 0)'
      BY <1>1, <1>5, <1>6, <1>7, <1>8, <2>2, <2>3 DEF RightBefore, Right, ShowsOnly
    <2>5. QED
      BY <1>1, <1>4, <1>5, <1>10, <2>4 DEF BuildOK
  <1>11. CASE Len(left[r]) # 1
    <2>1. Tail(left[r]) # <<>>
      <3>1. Len(Tail(left[r])) # 0
        BY <1>2, <1>11, QueryFacts
      <3>2. Len(<<>>) = 0
        OBVIOUS
      <3>3. QED
        BY <3>1, <3>2
    <2>2. QED
      BY <1>1, <1>4, <1>5, <1>9, <1>11, <2>1 DEF BuildOK
  <1>12. QED
    BY <1>10, <1>11

(* One step of a request: the page it builds, the cache, and its answer. *)
LEMMA OwnBuild ==
    ASSUME PagesInv, NEW r \in Visits, Handle(r)
    PROVE  BuildOK(r)'
  <1>1. CASE Miss(r) \/ ListRecent(r) \/ CheckFiles(r)
    BY <1>1, MissBuilds, ListRecentBuilds, CheckFilesBuilds
  <1>2. CASE Begin(r) \/ Hit(r) \/ Take(r) \/ Stamp(r)
    <2>1. pc'[r] \in {"lookup", "take", "served"}
      BY <1>2 DEF Begin, Hit, Take, Stamp, PagesInv, PageTypeOK
    <2>2. QED
      BY <2>1 DEF BuildOK
  <1>3. CASE Store(r)
    <2>1. pc[r] = "store" /\ pc'[r] = "stamp" /\ page' = page /\ arrived' = arrived
          /\ UNCHANGED jobVars
      BY <1>3 DEF Store, buildVars, PagesInv, PageTypeOK
    <2>2. RightBefore(page[r], arrived[r], 0)'
      BY <2>1 DEF PagesInv, BuildOK, RightBefore, Right, ShowsOnly, Among, Available,
                  Newest, NewerThan, Finished, jobVars
    <2>3. QED
      BY <2>1, <2>2 DEF PagesInv, BuildOK
  <1>4. QED
    BY <1>1, <1>2, <1>3 DEF Handle

(* What a request leaves in the cache serves all who have read the clock   *)
(* in its time: it has not been at work for more than Slack.               *)
LEMMA StoreRenews ==
    ASSUME PagesInv, NEW r \in Visits, Store(r),
           NEW t \in Nat, NEW k \in Nat, t <= ticks, Slack <= k
    PROVE  RightBefore(page[r], t, k)
  <1>1. RightBefore(page[r], arrived[r], 0) /\ ticks <= arrived[r] + Slack
    BY DEF PagesInv, BuildOK, TimesInv, Store, Busy
  <1>2. ASSUME NEW j \in Jobs, since[j] + k < t PROVE since[j] + 0 < arrived[r]
    BY <1>1, <1>2, Numbers DEF PagesInv
  <1>3. QED
    BY <1>1, <1>2 DEF RightBefore

LEMMA HandleTimes ==
    ASSUME PagesInv, NEW r \in Visits, Handle(r)
    PROVE  /\ TimesInv'
           /\ UNCHANGED <<ticks, jobVars>>
           /\ \A q \in Visits \ {r} : /\ pc'[q] = pc[q] /\ arrived'[q] = arrived[q]
                                        /\ left'[q] = left[q] /\ rows'[q] = rows[q]
                                        /\ page'[q] = page[q]
           /\ Store(r) \/ data' = data
           /\ Stamp(r) \/ stamp' = stamp
  <1>1. UNCHANGED <<ticks, jobVars>>
    BY DEF Handle, Begin, Hit, Take, Miss, ListRecent, CheckFiles, Store, Stamp
  <1>2. \A q \in Visits \ {r} : pc'[q] = pc[q] /\ arrived'[q] = arrived[q]
    BY DEF Handle, Begin, Hit, Take, Miss, ListRecent, CheckFiles, Store, Stamp, PagesInv,
           PageTypeOK
  <1>3. \A q \in Visits \ {r} : left'[q] = left[q] /\ rows'[q] = rows[q] /\ page'[q] = page[q]
    BY DEF Handle, Begin, Hit, Take, Miss, ListRecent, CheckFiles, Store, Stamp, buildVars,
           PagesInv, PageTypeOK
  <1>4. (Store(r) \/ data' = data) /\ (Stamp(r) \/ stamp' = stamp)
    BY DEF Handle, Begin, Hit, Take, Miss, ListRecent, CheckFiles, Store, Stamp, cacheVars
  <1>5. stamp' <= ticks'
    BY <1>1, <1>4, Numbers DEF Stamp, PagesInv, TimesInv
  <1>6. pc'[r] \in Busy => arrived'[r] <= ticks /\ ticks <= arrived'[r] + Slack
    <2>1. CASE Begin(r)
      BY <2>1, Numbers DEF Begin, PagesInv, PageTypeOK
    <2>2. CASE ~Begin(r)
      <3>1. pc'[r] \in Busy => pc[r] \in Busy /\ arrived'[r] = arrived[r]
        BY <2>2 DEF Handle, Hit, Take, Miss, ListRecent, CheckFiles, Store, Stamp, Busy,
                    PagesInv, PageTypeOK
      <3>2. QED
        BY <3>1 DEF PagesInv, TimesInv
    <2>3. QED
      BY <2>1, <2>2
  <1>7. TimesInv'
    BY <1>1, <1>2, <1>5, <1>6 DEF PagesInv, TimesInv
  <1>8. QED
    BY <1>1, <1>2, <1>3, <1>4, <1>7

(* What was right is right after a step that leaves the jobs alone. *)
LEMMA RightAgain ==
    ASSUME UNCHANGED jobVars
    PROVE  /\ \A j \in Jobs : since'[j] = since[j] /\ (Available(j)' <=> Available(j))
           /\ \A j \in Jobs : Among(j)' <=> Among(j)
  BY DEF Among, Available, Newest, NewerThan, Finished, jobVars

LEMMA OwnCache ==
    ASSUME PagesInv, NEW r \in Visits, Handle(r)
    PROVE  CacheOK(r)'
  <1>1. PageTypeOK /\ TimesInv /\ BuildOK(r) /\ CacheOK(r) /\ StoredOK /\ UNCHANGED <<ticks, jobVars>>
    BY HandleTimes DEF PagesInv
  <1>2. CASE Hit(r)
    <2>1. /\ pc'[r] = "take" /\ data' = data /\ arrived' = arrived
          /\ ticks - stamp <= Ttl /\ stamp <= ticks /\ arrived[r] <= ticks
      BY <1>1, <1>2 DEF Hit, Fresh, cacheVars, TimesInv, Busy, PageTypeOK
    <2>2. ASSUME NEW j \in Jobs, since[j] + (Ttl + 2 * Slack) < arrived[r]
          PROVE  Right(data, j)
      <3>1. since[j] + 2 * Slack < stamp
        BY <1>1, <2>1, <2>2, Numbers
      <3>2. QED
        BY <1>1, <3>1 DEF StoredOK, RightBefore
    <2>3. QED
      BY <1>1, <2>1, <2>2, RightAgain DEF CacheOK, RightBefore, Right, ShowsOnly
  <1>3. CASE Take(r)
    <2>1. /\ pc[r] = "take" /\ pc'[r] = "served" /\ page'[r] = data
          /\ ticks <= arrived[r] + Slack
      BY <1>1, <1>3 DEF Take, TimesInv, Busy, PageTypeOK
    <2>2. ASSUME NEW j \in Jobs, since[j] + Staleness < ticks PROVE Right(data, j)
      <3>1. since[j] + (Ttl + 2 * Slack) < arrived[r]
        BY <1>1, <2>1, <2>2, Numbers DEF Staleness
      <3>2. QED
        BY <1>1, <2>1, <3>1 DEF CacheOK, RightBefore
    <2>3. QED
      BY <1>1, <2>1, <2>2, RightAgain DEF CacheOK, RightBefore, Right, ShowsOnly
  <1>4. CASE Store(r)
    <2>1. pc'[r] = "stamp" /\ data' = page[r] /\ arrived' = arrived /\ arrived[r] <= ticks
      BY <1>1, <1>4 DEF Store, TimesInv, Busy, PageTypeOK
    <2>2. RightBefore(page[r], arrived[r], Slack)
      BY <1>1, <1>4, <2>1, Numbers, StoreRenews
    <2>3. QED
      BY <1>1, <2>1, <2>2, RightAgain DEF CacheOK, RightBefore, Right, ShowsOnly
  <1>5. CASE Stamp(r)
    <2>1. /\ pc[r] = "stamp" /\ pc'[r] = "served" /\ page' = page
          /\ ticks <= arrived[r] + Slack
      BY <1>1, <1>5 DEF Stamp, buildVars, TimesInv, Busy, PageTypeOK
    <2>2. ASSUME NEW j \in Jobs, since[j] + Staleness < ticks PROVE Right(page[r], j)
      <3>1. since[j] + 0 < arrived[r]
        BY <1>1, <2>1, <2>2, Numbers DEF Staleness
      <3>2. QED
        BY <1>1, <2>1, <3>1 DEF BuildOK, RightBefore
    <2>3. QED
      BY <1>1, <2>1, <2>2, RightAgain DEF CacheOK, RightBefore, Right, ShowsOnly
  <1>6. CASE Begin(r) \/ Miss(r) \/ ListRecent(r) \/ CheckFiles(r)
    <2>1. pc'[r] \notin {"stamp", "take", "served"}
      BY <1>6 DEF Begin, Miss, ListRecent, CheckFiles, PagesInv, PageTypeOK
    <2>2. QED
      BY <2>1 DEF CacheOK
  <1>7. QED
    BY <1>2, <1>3, <1>4, <1>5, <1>6 DEF Handle

LEMMA HandleKeepsPages ==
    ASSUME PagesInv, NEW r \in Visits, Handle(r)
    PROVE  PagesInv'
  <1>1. PageTypeOK /\ TimesInv /\ UNCHANGED <<ticks, jobVars>> /\ TimesInv'
    BY HandleTimes DEF PagesInv
  <1>2. PageTypeOK'
    BY HandleKeepsTypes DEF PagesInv, BuildOK
  <1>3. JobsInv' /\ Changes
    BY <1>1, OthersKeepJobs DEF PagesInv, Changes
  <1>4. StoredOK'
    <2>1. CASE Store(r)
      <3>1. data' = page[r] /\ stamp' = stamp /\ stamp <= ticks
        BY <1>1, <2>1 DEF Store, TimesInv
      <3>2. RightBefore(page[r], stamp, 2 * Slack)
        BY <1>1, <2>1, <3>1, Numbers, StoreRenews
      <3>3. QED
        BY <1>1, <3>1, <3>2, RightAgain DEF StoredOK, RightBefore, Right, ShowsOnly
    <2>2. CASE Stamp(r)
      <3>1. pc[r] = "stamp" /\ data' = data /\ stamp' = ticks /\ ticks <= arrived[r] + Slack
        BY <1>1, <2>2 DEF Stamp, TimesInv, Busy
      <3>2. ASSUME NEW j \in Jobs, since[j] + 2 * Slack < ticks PROVE Right(data, j)
        <4>1. since[j] + Slack < arrived[r]
          BY <1>1, <3>1, <3>2, Numbers
        <4>2. QED
          BY <3>1, <4>1 DEF PagesInv, CacheOK, RightBefore
      <3>3. QED
        BY <1>1, <3>1, <3>2, RightAgain DEF StoredOK, RightBefore, Right, ShowsOnly
    <2>3. CASE UNCHANGED <<data, stamp>>
      BY <1>3, <2>3, StoredStays DEF PagesInv
    <2>4. QED
      BY <2>1, <2>2, <2>3, HandleTimes
  <1>5. ASSUME NEW q \in Visits, q # r PROVE BuildOK(q)' /\ CacheOK(q)'
    <2>1. /\ pc'[q] = pc[q] /\ arrived'[q] = arrived[q] /\ left'[q] = left[q]
          /\ rows'[q] = rows[q] /\ page'[q] = page[q] /\ ticks' = ticks
          /\ BuildOK(q) /\ CacheOK(q)
      BY <1>5, HandleTimes DEF PagesInv
    <2>2. BuildOK(q)'
      BY <1>1, <1>3, <2>1, BuildStays
    <2>3. CASE Store(r)
      <3>1. data' = page[r]
        BY <2>3 DEF Store
      <3>2. pc[q] \in {"stamp", "take"} => arrived[q] <= ticks
        BY <1>1 DEF TimesInv, Busy
      <3>3. pc[q] = "stamp" => RightBefore(page[r], arrived[q], Slack)
        BY <1>1, <2>3, <3>2, Numbers, StoreRenews
      <3>4. pc[q] = "take" => RightBefore(page[r], arrived[q], Ttl + 2 * Slack)
        <4>1. Ttl + 2 * Slack \in Nat /\ Slack <= Ttl + 2 * Slack
          BY <1>1, Numbers
        <4>2. QED
          BY <1>1, <2>3, <3>2, <4>1, Numbers, StoreRenews
      <3>5. QED
        BY <1>1, <2>1, <2>2, <3>1, <3>3, <3>4, RightAgain
           DEF CacheOK, RightBefore, Right, ShowsOnly, Staleness
    <2>4. CASE data' = data
      BY <1>1, <1>3, <2>1, <2>2, <2>4, CacheStays
    <2>5. QED
      BY <2>3, <2>4, HandleTimes
  <1>6. BuildOK(r)' /\ CacheOK(r)'
    BY OwnBuild, OwnCache
  <1>7. QED
    BY <1>1, <1>2, <1>3, <1>4, <1>5, <1>6 DEF PagesInv, PageTypeOK

LEMMA PagesHold == PageSpec => []PagesInv
  <1>1. PagesInv /\ [PageNext]_pageVars => PagesInv'
    BY TickKeepsPages, JobStepKeepsPages, HandleKeepsPages DEF PageNext
  <1>2. QED
    BY <1>1, InitPages, PTL DEF PageSpec

(* Every variable of Gallery keeps its type: the queries a request has     *)
(* still to make are there when it makes one, and what it builds is a page. *)
THEOREM TypeCorrect == PageSpec => []PageTypeOK
  <1>1. PagesInv => PageTypeOK
    BY DEF PagesInv, PageTypeOK
  <1>2. QED
    BY <1>1, PagesHold, PTL

(* A page is at most one cache lifetime and three request times old when   *)
(* it is served, however requests, jobs and the cron script interleave:    *)
(* nothing that has been gone for longer is shown, and nothing recent that *)
(* has been there for longer is missing.                                   *)
THEOREM PagesStayRecent == PageSpec => []PagesAreRecent
  <1>1. PagesInv => PagesAreRecent
    <2> SUFFICES ASSUME PagesInv, NEW r \in Visits, NEW j \in Jobs, Answering(r),
                        ticks > since[j] + Staleness
                 PROVE  Right(page[r], j)
      BY DEF PagesAreRecent, Right, ShowsOnly, Among
    <2>1. since[j] + Staleness < ticks
      BY Numbers DEF PagesInv, Staleness
    <2>2. QED
      BY <2>1 DEF PagesInv, CacheOK, RightBefore, Answering
  <1>2. QED
    BY <1>1, PagesHold, PTL
=============================================================================
