------------------------------ MODULE Gallery ------------------------------
(***************************************************************************)
(* GET /pub/gallery behind the share switch and the limiter, which are     *)
(* GalleryAccess: the cache and the building of a page.  The               *)
(* handler is a plain function, so requests run on threads of the pool and *)
(* interleave with each other, with ingest handlers that finish jobs and   *)
(* with the cron script that deletes files.                                *)
(*                                                                         *)
(* A page is what a reader can tell apart: for each slot the job shown as  *)
(* latest, if any, and the jobs shown as recent.  Rows without             *)
(* completed_at sort last and are never shown, so of a row's time only its *)
(* place in the order of completed_at is kept.                             *)
(***************************************************************************)
EXTENDS Naturals, Sequences, FiniteSets

CONSTANTS
    Visits,       \* calls of GET /pub/gallery the limiter lets through
    Jobs,
    SlotOf,       \* the slot of a job
    SlotList,     \* list_slots(): the slots in the order of their ids
    NoPage,       \* GalleryCache._data is None
    Ttl,          \* GalleryCache.ttl_seconds, in ticks
    RecentLimit,  \* how many rows list_recent_by_slot returns
    Slack,        \* bound on the ticks a request takes to be answered
    PageThreads,  \* bound on the threads handling requests at a time
    MaxTicks      \* bound on the clock

Slots == {SlotList[i] : i \in DOMAIN SlotList}

ASSUME PagesAssumption ==
    /\ IsFiniteSet(Jobs)
    /\ SlotList \in Seq(Slots) /\ SlotList # <<>>
    /\ SlotOf \in [Jobs -> Slots]
    /\ {Ttl, RecentLimit, Slack, PageThreads} \subseteq Nat \ {0}
    /\ MaxTicks \in Nat

VARIABLES
    ticks,     \* the clock
    completed, \* completed_at: a job's place in the order of completion, 0 for None
    last,      \* the latest such place
    done,      \* the jobs whose status is done
    settled,   \* the jobs that were failed by the handler's last resort
    files,     \* the jobs whose result_path exists
    since,     \* history: when a job became available or ceased to be
    data,      \* GalleryCache._data
    stamp,     \* GalleryCache._stored_at, 0 for None
    pc,        \* where each request is
    arrived,   \* when a request being handled arrived
    left,      \* the queries a request has still to make
    rows,      \* the done rows its last query returned
    page       \* the page it builds; its answer, until the clock moves on

jobVars == <<completed, last, done, settled, files, since>>
cacheVars == <<data, stamp>>
buildVars == <<left, rows, page>>
requestVars == <<pc, arrived, buildVars>>
pageVars == <<ticks, jobVars, cacheVars, requestVars>>

Time == 0..(MaxTicks + 1)
Page == [Slots -> [latest : SUBSET Jobs, recent : SUBSET Jobs]]
EmptyPage == [s \in Slots |-> [latest |-> {}, recent |-> {}]]
Query == Slots \X {"latest", "recent"}

Busy == {"lookup", "take", "query", "check", "store", "stamp"}

PageTypeOK ==
    /\ ticks \in 1..(MaxTicks + 1)
    /\ completed \in [Jobs -> Nat]
    /\ last \in Nat
    /\ done \subseteq Jobs
    /\ settled \subseteq Jobs
    /\ files \subseteq Jobs
    /\ since \in [Jobs -> Time]
    /\ data \in Page \cup {NoPage}
    /\ stamp \in Time
    /\ pc \in [Visits -> {"idle"} \cup Busy \cup {"served"}]
    /\ arrived \in [Visits -> Time]
    /\ left \in [Visits -> Seq(Query)]
    /\ rows \in [Visits -> SUBSET Jobs]
    /\ page \in [Visits -> Page \cup {NoPage}]

PageInit ==
    /\ ticks = 1
    /\ completed = [j \in Jobs |-> 0] /\ last = 0
    /\ done = {} /\ settled = {} /\ files = {}
    /\ since = [j \in Jobs |-> 0]
    /\ data = NoPage /\ stamp = 0
    /\ pc = [r \in Visits |-> "idle"]
    /\ arrived = [r \in Visits |-> 0]
    /\ left = [r \in Visits |-> <<>>]
    /\ rows = [r \in Visits |-> {}]
    /\ page = [r \in Visits |-> NoPage]

-----------------------------------------------------------------------------
(* Time, ingest handlers and the cron script.                              *)

PageTick ==
    /\ ticks <= MaxTicks
    /\ \A r \in Visits : pc[r] \in Busy => ticks - arrived[r] < Slack
    /\ ticks' = ticks + 1
    /\ page' = [r \in Visits |-> IF pc[r] = "served" THEN NoPage ELSE page[r]]
    /\ UNCHANGED <<jobVars, cacheVars, pc, arrived, left, rows>>

Finished(j) == completed[j] # 0

(* completed_at is set to the present time. *)
Complete(j) ==
    /\ completed' = [completed EXCEPT ![j] = last + 1]
    /\ last' = last + 1

(* A job is done: its payload is on disk before its row says so.  To a     *)
(* reader of the rows an uploaded template is such a job, too.             *)
FinishDone(j) ==
    /\ ~Finished(j)
    /\ Complete(j)
    /\ done' = done \cup {j}
    /\ files' = files \cup {j}
    /\ since' = [since EXCEPT ![j] = ticks]
    /\ UNCHANGED <<ticks, settled, cacheVars, requestVars>>

FinishFailed(j) ==
    /\ ~Finished(j)
    /\ Complete(j)
    /\ UNCHANGED <<ticks, done, settled, files, since, cacheVars, requestVars>>

(* The handler's last resort fails a job that has failed already (what its *)
(* first failure had to clean up could not be): completed_at is set again, *)
(* and the job moves to the front of its slot's newest.                    *)
FailAgain(j) ==
    /\ Finished(j)
    /\ j \notin done \cup settled
    /\ Complete(j)
    /\ settled' = settled \cup {j}
    /\ UNCHANGED <<ticks, done, files, since, cacheVars, requestVars>>

(* It fails a job that was done: the result directory is removed, too.     *)
Redecide(j) ==
    /\ j \in done \cap files
    /\ Complete(j)
    /\ done' = done \ {j}
    /\ settled' = settled \cup {j}
    /\ files' = files \ {j}
    /\ since' = [since EXCEPT ![j] = ticks]
    /\ UNCHANGED <<ticks, cacheVars, requestVars>>

(* The file goes; the row stays done and keeps its path. *)
Withdraw(j) ==
    /\ j \in files
    /\ files' = files \ {j}
    /\ since' = [since EXCEPT ![j] = ticks]
    /\ UNCHANGED <<ticks, completed, last, done, settled, cacheVars, requestVars>>

-----------------------------------------------------------------------------
(* The cache.                                                              *)

Begin(r) ==
    /\ pc[r] = "idle"
    /\ Cardinality({q \in Visits : pc[q] \in Busy}) < PageThreads
    /\ pc' = [pc EXCEPT ![r] = "lookup"]
    /\ arrived' = [arrived EXCEPT ![r] = ticks]
    /\ UNCHANGED <<ticks, jobVars, cacheVars, buildVars>>

Fresh == data # NoPage /\ stamp # 0 /\ ticks - stamp <= Ttl

Hit(r) ==
    /\ pc[r] = "lookup"
    /\ Fresh
    /\ pc' = [pc EXCEPT ![r] = "take"]
    /\ UNCHANGED <<ticks, jobVars, cacheVars, arrived, buildVars>>

(* get() returns _data as it is by now. *)
Take(r) ==
    /\ pc[r] = "take"
    /\ page' = [page EXCEPT ![r] = data]
    /\ pc' = [pc EXCEPT ![r] = "served"]
    /\ arrived' = [arrived EXCEPT ![r] = 0]
    /\ UNCHANGED <<ticks, jobVars, cacheVars, left, rows>>

(* For each slot first the newest row, then the newest RecentLimit rows. *)
Queries == [i \in 1..(2 * Len(SlotList)) |->
               <<SlotList[(i + 1) \div 2], IF i % 2 = 1 THEN "latest" ELSE "recent">>]

Miss(r) ==
    /\ pc[r] = "lookup"
    /\ ~Fresh
    /\ left' = [left EXCEPT ![r] = Queries]
    /\ page' = [page EXCEPT ![r] = EmptyPage]
    /\ pc' = [pc EXCEPT ![r] = "query"]
    /\ UNCHANGED <<ticks, jobVars, cacheVars, arrived, rows>>

Store(r) ==
    /\ pc[r] = "store"
    /\ data' = page[r]
    /\ pc' = [pc EXCEPT ![r] = "stamp"]
    /\ UNCHANGED <<ticks, jobVars, stamp, arrived, buildVars>>

Stamp(r) ==
    /\ pc[r] = "stamp"
    /\ stamp' = ticks
    /\ pc' = [pc EXCEPT ![r] = "served"]
    /\ arrived' = [arrived EXCEPT ![r] = 0]
    /\ UNCHANGED <<ticks, jobVars, data, buildVars>>

-----------------------------------------------------------------------------
(* The page: a query for rows, then a look at their files, one by one.     *)

(* list_recent_by_slot: the newest n finished jobs of a slot. *)
NewerThan(j) == {k \in Jobs : SlotOf[k] = SlotOf[j] /\ completed[k] > completed[j]}

Newest(s, n) ==
    {j \in Jobs : SlotOf[j] = s /\ Finished(j) /\ Cardinality(NewerThan(j)) < n}

ListRecent(r) ==
    LET query == Head(left[r])
        limit == IF query[2] = "latest" THEN 1 ELSE RecentLimit
    IN  /\ pc[r] = "query"
        /\ rows' = [rows EXCEPT ![r] = Newest(query[1], limit) \cap done]
        /\ pc' = [pc EXCEPT ![r] = "check"]
        /\ UNCHANGED <<ticks, jobVars, cacheVars, arrived, left, page>>

(* Mistake: every done row is shown, whether its file exists or not. *)
ShowEveryRow(r) ==
    LET query == Head(left[r])
    IN  /\ pc[r] = "check"
        /\ page' = [page EXCEPT ![r][query[1]][query[2]] = rows[r]]
        /\ rows' = [rows EXCEPT ![r] = {}]
        /\ left' = [left EXCEPT ![r] = Tail(@)]
        /\ pc' = [pc EXCEPT ![r] = IF Len(left[r]) = 1 THEN "store" ELSE "query"]
        /\ UNCHANGED <<ticks, jobVars, cacheVars, arrived>>

CheckFiles(r) ==
    LET query == Head(left[r])
    IN  /\ pc[r] = "check"
        /\ page' = [page EXCEPT ![r][query[1]][query[2]] = rows[r] \cap files]
        /\ rows' = [rows EXCEPT ![r] = {}]
        /\ left' = [left EXCEPT ![r] = Tail(@)]
        /\ pc' = [pc EXCEPT ![r] = IF Len(left[r]) = 1 THEN "store" ELSE "query"]
        /\ UNCHANGED <<ticks, jobVars, cacheVars, arrived>>

JobStep ==
    \E j \in Jobs :
        FinishDone(j) \/ FinishFailed(j) \/ FailAgain(j) \/ Redecide(j) \/ Withdraw(j)

Handle(r) ==
    \/ Begin(r) \/ Hit(r) \/ Take(r) \/ Miss(r)
    \/ ListRecent(r) \/ CheckFiles(r)
    \/ Store(r) \/ Stamp(r)

PageNext ==
    \/ PageTick
    \/ JobStep
    \/ \E r \in Visits : Handle(r)

PageSpec == PageInit /\ [][PageNext]_pageVars

-----------------------------------------------------------------------------
(* How old a page may be when it is served: it waited in the cache for its *)
(* lifetime, it was built and stored by a request that took its time, and  *)
(* a slower one overwrote or stamped it meanwhile.                         *)
Staleness == Ttl + 3 * Slack

Available(j) == j \in done \cap files

Answering(r) == pc[r] = "served" /\ page[r] # NoPage

(* A job whose result is gone, or which was decided again, is on no page   *)
(* served later than that; and one that has been available for longer, and *)
(* is among the newest RecentLimit finished ones of its slot, is on every  *)
(* page.                                                                   *)
PagesAreRecent ==
    \A r \in Visits, j \in Jobs :
        Answering(r) /\ ticks > since[j] + Staleness =>
            /\ \A s \in Slots :
                  j \in page[r][s].latest \cup page[r][s].recent => Available(j)
            /\ Available(j) /\ j \in Newest(SlotOf[j], RecentLimit) =>
                  j \in page[r][SlotOf[j]].recent
=============================================================================
