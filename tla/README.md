# PhotoChanger: specifications and proofs

TLA+ modules for the PhotoChanger server (FastAPI, asyncio, SQLAlchemy): what an
ingest request does to rows, files and locks, how the cleanup script ages what it
leaves, how a provider call spends its deadline and reads its answers, how a slot's
configuration is edited while jobs read it, how logins are throttled and tokens end,
how global settings reach the running process, what the public gallery shows and to
whom, and what the statistics count. TLC checks the modules on small instances; TLAPS
proves every safety property that a passing run checks, invariants, action properties and
refinements, for every value of the constants, with the assumptions section 6 names;
liveness stays with TLC. Names such as
`ingest/ingest_api.py` are below `src/app/`; documents and scripts are named by their
path in the repository.

Contents: 1 the system, 2 modules, 3 runs, 4 bounds, 5 fairness, 6 proofs,
7 disagreements found, 8 what is not modelled, 9 plan.

## 1. The system

One application process serves HTTP on one asyncio event loop. `async def`
endpoints are coroutines of that loop and interleave only at an `await`; plain
`def` endpoints (login, settings, slots, statistics, public pages) run on a pool of
threads and interleave anywhere they call something. A second process,
`scripts/cleanup_media.py`, is started by cron every fifteen minutes and works on
the same database and the same media directory. There is no queue and no worker:
an ingest request is answered by the coroutine that does all of its work.

| Component | State it keeps | Operations | What makes it correct | Module |
|---|---|---|---|---|
| Ingest path (`ingest/ingest_api.py`, `ingest_service.py`; `slots/slots_api.py` for the test run) | one `asyncio.Lock` per slot in a dictionary; the job context of each request | `submit_ingest`, `run_test_slot`, `prepare_job`, `validate_upload`, `process`, `record_success`, `record_failure` | one ingest request of a slot at a time; the lock always comes back; a job is decided once; reply, row and files agree | `Ingest`, `JobLifecycle`, `JobRecords` |
| Slots and templates (`slots/`, `media/template_media_api.py`) | `slot.settings_json`, `slot.version`, binding rows, template files | `update_slot`, template upload; read twice by each job | bindings are what the settings name; edits add up; what is bound can be read; a job's settings were saved together | `SlotConfig`, `SlotSaves` |
| Upload validation (`ingest/validation.py`) | none (reads a spooled upload) | content type, size cap, checksum | a file over the cap is refused, whatever is read is given on whole | steps of `Ingest` |
| Job history and media rows (`repositories/`) | tables `job_history`, `media_object` | `create_pending`, `set_result`, `set_failure`, `register_*`, `mark_cleaned`, expiry listings | each row follows its file's life and its job's | `Ingest`, `MediaLifecycle`, `JobRecords` |
| Result and temp files (`media/`, `scripts/cleanup_media.py`) | `media/results/{slot}/{job}`, `media/temp/...` | write, copy, delete by handler and by cron | nothing is deleted early, what is deleted is recorded, what is due is deleted | `Ingest`, `MediaLifecycle` |
| Public results and media links (`public/`, `media/public_media_service.py`) | none (row, then file) | `GET /public/results/{job}`, `GET /media/{id}` | 404, then the file, then 410, never back | `JobLifecycle`, `MediaLifecycle` |
| Provider drivers (`providers/`) | none between calls | four drivers under `asyncio.wait_for` | bounded requests, justified timeouts, an image that was sent is used, every call ends | `ProviderCall` |
| Admin authentication (`auth/`) | `_failed_logins`: failure count and block per username, in memory; the credentials read at start-up; signed tokens | `authenticate`, `validate_token`, `require_admin_user`, restart | ten wrong guesses block for fifteen minutes; nobody is blocked without cause; access ends with the record | `AuthThrottle`, `Lockout` |
| Global settings (`settings/`) | table `settings`; copies in `IngestService`, `AppConfig`, `os.environ`, `_snapshot` | `load`, `update`, restart | replies and process show what is stored, no key is lost | `SettingsRuntime` |
| Public gallery (`public/public_gallery_*.py`) | share switch, a counter per address, a cached page | `POST /api/gallery/share`, `GET /pub/gallery` | nobody is refused unduly, bursts are bounded, pages are recent | `GalleryAccess`, `Gallery` |
| Statistics (`stats/`) | none (counts over `job_history`) | overview, per slot, `/metrics` | the numbers of one answer fit together, counters fall only by verdicts taken back, buckets are cumulative | `JobStats`, `Metrics` |
| Start-up, configuration, schema (`main.py`, `dependencies.py`, `db/`) | what a start loads and forgets | wiring, environment parsing, seeding | a start puts the process in step with what is stored | restarts in `SettingsRuntime`, `AuthThrottle`; seeding in `SlotConfig` |
| Migrations, browser pages (`alembic/`, `frontend/`) | | | | not modelled |

How they meet: the ingest handler calls the slot repository (twice for one job), the
job and media repositories, the two file stores and one driver. Drivers read
`media_object` rows and files by way of public links, environment variables that
the settings service writes, and template files that slots bind. The cron script
shares rows and files with all of them. Settings change
`IngestService.sync_response_seconds` and the ingest password in the middle of jobs. The
gallery and the statistics only read, statement by statement, while all of the above goes
on: on threads of their own, or, for `/metrics`, on the event loop.

What is hard here, and where: a lock tested before an `await` and taken after it; a
job decided by a sequence of commits and file operations that can each fail or be
the last one before the process dies; two processes cleaning the same rows in
opposite orders with deletions that fail silently; two deadlines computed from one
setting at two moments; a counter and its block changed by threads that looked it
up earlier; a JSON value, a rate limiter's bucket, a cached page read and written back
by several threads; reports put together from many statements while rows change.
`PROJECT.json` lists these hazards with their lines and the properties that guard
each one.

## 2. The modules

**`JobLifecycle`** is the abstract specification: a job is opened, decided once,
and its public link goes from 404 to the result, in the very step that decides
"done", and from there only to 410. It knows neither handlers nor files.

**`JobRecords`** is what a reader of `job_history` may rely on when operations fail and
processes die, where `JobLifecycle` no longer holds: a row is created pending (or done, for
an uploaded template), decided once, and its verdict is at most taken back, once, by
`internal_error`. `Ingest` implements it, with the cron script and without, and the writers
of rows that `JobStats` assumes do nothing it forbids. That they may do all that the writers
of `Ingest` do is read off the code: no run shows that direction.

**`Ingest`** models `POST /api/ingest/{slot_id}` and the admin test run.
`loop` is the coroutine that runs: between two awaits nobody else takes a step
(`Continue`), at an await the loop is free (`Await`). Every commit and every file
operation is a step, because the process can die there. `owner` and `waiters` are
`asyncio.Lock` with its FIFO: a released lock is free until the first waiter has
been resumed, so `Enter` requires an empty queue, as `acquire()` does. `status`,
`reason`, `dir`, `resRow`, `tmp` and `tmpRow` are the job's row, its result
directory, its media row, and the temp copy with its row. `at` names the next
statement; the actions carry the names of the calls (`CreatePending`,
`EnsureResultDir`, ..., `RemoveTemp`). `StoreFault` lets any commit or file
operation raise: inside `process()` an ingest request records `internal_error`,
anywhere else, and in a test run everywhere, the framework answers 500. Deletions
swallow their errors (`Remains`). `Crash` loses handlers and locks and keeps rows
and files. A test run takes no lock and has no catch-all.

**`MediaLifecycle`** extends `Ingest` with the cron script as a second process: one
run takes `now`, lists expired results, deletes and marks them one by one, then
does the same for temp files, and may die anywhere. Expiry is an action of the
environment. The handler marks a temp row before it deletes the file, the script
deletes first: both orders are steps.

**`ProviderCall`** opens up the action `ProviderEnds` of `Ingest`: one driver call
with a clock, the deadline of `prepare_job`, the later one of `wait_for`, the
retries of the Gemini drivers and GPT Image, Gemini's `NO_IMAGE` pauses, Turbotext's
queue, polls and download, and an administrator who changes the limit meanwhile. An
answer is an HTTP code, the status of its error object and up to two things among its
candidates: an image, inline data that does not decode, text, `NO_IMAGE`. `GeminiReads`
and `GptReads` are the order in which the drivers look for them; `handed` records whether the
provider has handed an image over.

**`AuthThrottle`** models `authenticate` for one username on a pool of threads. The
counter is an object reached through a dictionary; a thread keeps its reference
after the dictionary has dropped the object. An accepted attempt holds a token until
`TokenTtl` has passed. `Restart` loses the attempts under way and the dictionary, and
reads the credentials again, in which an operator may have disabled the admin.
**`Lockout`** is the throttle without threads, dictionary and objects: an attempt is judged in
one step, by the time at which it was made and what was judged before it.

**`SettingsRuntime`** models `load` and `update` on overlapping threads: the read
before the write, `bulk_upsert` with the merge of `provider_keys`, the read-back, the
assignments of `_apply_runtime`, and the API keys put into `os.environ` in the order
of the stored JSON object. A value is named after the call that wrote it. `Restart`
cuts calls off between their commit and their application, forgets the environment and
loads the table over the configured defaults.

**`GalleryAccess`** models the share switch and the limiter of the public gallery. Both read the
clock before what they compare it with, and a thread can be switched out in between: `Ask`
takes the time for the switch, which `Allow` or `Forbid` looks at; `ReadClock` takes the time for
the limiter, which then reads the bucket of the address and refuses or admits by it (`Found`,
`Refuse`, `Admit`) and writes it back (`WriteBucket`), without a lock. So a bucket may be younger
than the time it is judged by. **`Gallery`** models what comes after: `Fresh` and `Take` are the two reads of
the cache, a page is built by two queries for each slot (`ListRecent`), each followed by a
look at the files of its rows (`CheckFiles`), and stored in two assignments (`Store`,
`Stamp`), while jobs finish, lose their files, and are failed once more by the ingest
handler's last resort (`Redecide` a done job, `FailAgain` a failed one that `settled` says it
has not met yet), which moves them to the front of the newest. Of
`completed_at` a job keeps its place in the order of completion (`completed`, 0 for None),
which is what `list_recent_by_slot` sorts by (`Newest`). The two modules share no variable: a request that passes the first
is one that the second may admit at any time.

**`JobStats`** models the statistics over `job_history`. A report is a sequence of
SELECTs (`Overview`, `SlotStats`), each a step that sees what is committed by then.
`SetFailure` may replace any verdict by `internal_error`, as the last resort of the handler
does; the history `undone` keeps what a report under way may have counted before.
`SlotTotals` is what a scrape exports as counters.

**`Metrics`** adds the rest of `GET /metrics`, which runs on the event loop, where all writers of
job rows run too: none of them acts during a scrape, but time passes, reports go on, and
`PUT /api/slots/{id}` may commit a provider on a thread of the pool (`UpdateSlot`). A scrape
takes the clock for its window (`Collect`) and makes two SELECTs. `SelectTotals` and
`SelectDurations` each read the provider of every slot. Samples are the durations of the
rows that ended in the window and not before they began (`Measured`, `Durations`); they are
found only if both SELECTs read the same provider (`Samples`), and counted by the index of
`_format_histogram` that moves over samples and buckets together (`Histogram`).

**`SlotConfig`** models one slot between the admin page that edits it and the jobs
that read it. An update is one READ COMMITTED transaction: `ReadRow`, then `FlushRow`
(the session's autoflush sends the pending UPDATE, and so takes the row lock, before it
executes the next statement), `DeleteBindings`, `Commit`. `MergeMedia` and
`MergeSettings` are the merges of `template_media.py` and `dict.update`. An upload is
three steps, and a media object can be sent in an update only after its upload was
answered, because the page knows its id from that reply. A job reads the slot in
`prepare_job` and again in `validate_upload`. Values are named after the update that
wrote them, so "which save is this from" is a comparison. **`SlotSaves`** is what all this
comes to: a sequence of complete saves. Each is one update worked into an earlier save
(`MadeFrom`), not necessarily the last, and changes the bindings in the same step; a job takes
settings and templates of the last save at once, its provider perhaps of an earlier one, and is
not refused for want of a template.

The `MC` modules define the instances. `MCIngest` lets a test run take the place of the
third ingest request, never both. `MCGallery` explores in each behaviour one half of the
gallery and leaves the other alone, `MCStats` either reports or scrapes. The theorems are in `MediaProofs` (about `Ingest` and
`MediaLifecycle`), `SlotConfigProofs`, `AuthProofs`, `ProviderProofs`, `GalleryProofs` (about
`GalleryAccess`), `PagesProofs` (about `Gallery`), `SettingsProofs` and `StatsProofs` (about `JobStats` and
`Metrics`).

Definitions that begin with "Mistake:" are not part of any specification. Each is an
action as a plausible bug would have it (a dropped guard, a forgotten release, an
off-by-one); exchanging it for the action it varies makes the property it was
written for fail, which shows that the property depends on the code.

## 3. The runs

Passing:

| Run | Instance | Shows |
|---|---|---|
| `ingest` | three ingest requests, or two and a test run, one slot, one failing operation, one crash | they exclude each other (`SlotExclusion`), the lock is owned only by a handler that is inside (`OwnerIsInside`), 200 means stored and tracked (`OkMeansStored`), an answer leaves its row pending only if it is a bare 500 (`PendingMeansBare500`), an error reply leaves no served result (`ErrorReplyNotServed`), everybody is answered or cut off (`EveryRequestAnswered`), while nothing has failed reply, row and files agree (`ReplyMatchesRow`, `NothingLeftBehind`), and whatever fails the rows implement `JobRecords` (`ImplementsRecords`) |
| `media` | an ingest request, a test run and the cron script, two dying cron runs | nothing is deleted early, a cleaned row has no file, a deletion is recorded in the end although the run that made it died, links expire, and the two processes together implement `JobLifecycle` |
| `provider` | one call of each driver, all retry settings, all pairs of things an answer may hold, a limit changed once | requests are bounded whatever a slot configures, a timeout is reported only when time is up, an image that was handed over is neither asked for again nor reported as an error (`ImageIsUsed`), a pause is cut only after the limit was lowered, every call ends |
| `slots` | three updates, two at a time, two uploads, one job, one failing operation | bindings are always what the settings name (`BindingsMatchSettings`), updates that do not overlap add up and bind each kind once (`UpdatesAddUp`), whatever is bound can be read although an upload may fail between its steps (`BoundTemplatesResolve`), a job's settings and templates are of one save and no older than its provider's (`JobNeverGoesBack`), and all of it together implements `SlotSaves` (`ImplementsSaves`) |
| `auth` | five attempts, one or two threads, limit 2, one restart | with one thread no window of the block's length holds more than the limit of wrong guesses, and the limit again for a restart in it (`GuessRateBounded`); with two a block still needs the full number of failures (`NoSpuriousBlock`); once a start has left the record out, all access ends within a token's lifetime (`AccessEndsWithRecord`); and as long as there is one thread every step is one of `Lockout` (`OneThreadIsAtomic`) |
| `settings` | three updates and a GET, two threads, one failing transaction, one restart | a reply shows its own update or a later one, a restart or a call that runs alone brings process and table in step again, also after a crash between a commit and its application, no key is lost while calls do not overlap |
| `gallery` | four requests of one client at the limiter, one or two threads; three requests for a page over two jobs | nobody is refused before the limit has been used up, counted up to the refusal (`NoSpuriousRefusal`), with one thread no window holds twice the limit (`BurstBounded`), and every page is at most one cache lifetime and three request times old (`PagesAreRecent`) |
| `stats` | two jobs, two slots, one report or any number of scrapes with saves of both slots | slots add up to at least the system's numbers, for failures unless a verdict was taken back meanwhile (`ReportsAddUp`), every verdict counted belongs to a job that is accounted for (`VerdictsAreAccountedFor`), each bucket of a scrape holds the durations up to its bound, or the slot was saved between the two SELECTs and its histogram is empty (`BucketsAreCumulative`), from scrape to scrape the counter of jobs never falls and those of verdicts fall by no more than the verdicts taken back (`CountersFallOnlyByCorrection`), the assumed writers do nothing `JobRecords` forbids (`RowsFollowRecords`) |

Type invariants are theorems of every module; the run `settings` checks one, too.

Violated, each by what the code does (section 7): `ingest_final`,
`media_crash`, `media_stuck`, `auth_race`.

`PagesAreRecent` needs three request times, not one: a page was built by a request that took
its time, then waited between its two assignments for another to write its own page or
stamp, and a reader waits between testing the cache and taking from it. With two the
property is false.

`ErrorReplyNotServed` is about one failing operation: two failures in a row (the
registration of the result and then `record_failure` itself) do leave a served
result behind an error reply, and it excludes test runs, which have no handler that
would take "done" back.

## 4. Bounds

- Requests: exclusion needs an owner, a waiter, and a newcomer that meets a lock
  released but not yet taken: three ingest requests. The test run is the only
  handler that passes without the lock; beside two ingest requests it meets a lock that is
  owned and one that is waited for. One slot is enough, since slots share nothing but the
  loop; the theorems cover every number of both.
- Faults and crashes: one of each, at any step, so that a failure meets every state a
  handler can be in. `ErrorReplyNotServed` is about that one failure (above); the theorems
  about `OkMeansStored`, `PendingMeansBare500` and `OwnerIsInside` hold for any number.
- Slots: three updates, so that two overlap and a third meets what they left; one job
  whose two reads fall anywhere among them; two kinds, and payloads that set nothing and
  clear the templates, name one kind, both, or one kind twice. Updates are interchangeable
  (symmetry; the run states no liveness).
- Cron deaths: two, so that the run after a dead run may die as well.
- Provider: durations are scaled. The shorter limit (2) leaves no room for all pauses,
  the longer (6) leaves room for all of them; backoffs are none or longer than the
  shorter limit; `max_attempts` is below, inside and above the clamp; `MaxClock`
  (9) lies beyond every deadline, so the bound never hides a timeout.
  Two things in an answer are enough to put every pair into either order.
- Authentication: limit 2, block 2 and token lifetime 2 stand for 10, 15 minutes and the
  configured lifetime; five attempts give two blocks and an attempt after them, or a
  block on each side of a restart. The clock stops at 4, after the first block has ended
  and the lifetime of any token issued before a restart at 2 is over.
- Settings: three updates whose keys overlap in all ways (two set the same variable,
  one sets and another clears the same key), two threads, one failing transaction, one
  restart.
- Limiter: limit and window 2, four requests: enough to fill one window and the next
  one. Two threads, so that one may write an older bucket over a newer one, or judge a bucket
  that the other wrote after it read the clock. The clock runs to 5: a window, and what follows it.
- Pages: two jobs of one slot, `RecentLimit` 2, cache lifetime 1, a request takes at most 1,
  clock to 6; `Staleness` is then 4, so that a page that is too old can be served. Three
  requests: one that builds, one that overtakes it, one that reads.
- Statistics: one report over two slots, one of which has no jobs; two jobs meet every
  pair of verdicts, before, inside and after the window of 1; durations below, at and above
  the bounds 0 and 1; `FailureLimit` 2 is reached when both jobs fail. Two providers suffice for
  two SELECTs that read the same or different ones; of the slots that are saved one has samples
  to lose and one has none. The clock runs to 4 for reports and to 3 for scrapes, where a job
  can still be in the window or before it and last 0, 1 or 2.

## 5. Fairness

- `Ingest`: weak fairness of each handler's next step. The event loop resumes every
  ready coroutine; an upload ends or its connection does; `wait_for` bounds the
  provider (`CallEnds` in `ProviderCall` is that assumption, checked). Nobody has to
  send a request, nothing has to fail, and no crash is promised or excluded.
- `MediaLifecycle`: in addition time passes for each expiry, and the script's steps
  happen: cron starts it again and again. Its deaths are not fair and are bounded.
- `ProviderCall`: the clock, due pauses and due timeouts. Providers are under no
  fairness at all: the call ends although nothing is ever answered.
- `AuthThrottle`, `SettingsRuntime`, `SlotConfig`, `GalleryAccess`, `Gallery`, `JobStats` and
  `Metrics` state safety only: each of their calls ends by itself after a fixed number of steps.

## 6. Proofs

`MediaProofs` has two parts. The first is about `Spec` of `Ingest` and proves, for every set of requests and slots, every assignment of
requests to slots, every set of test runs and every bound on faults and crashes
(assumption `IngestAssumption`, which only types the constants):

| Theorem | Statement |
|---|---|
| `TypeCorrect` | `Spec => []TypeOK` |
| `OkStored` | `Spec => []OkMeansStored` |
| `PendingConfessed` | `Spec => []PendingMeansBare500` |
| `RepliesMatch` | `Spec => []ReplyMatchesRow` |
| `NothingLeft` | `Spec => []NothingLeftBehind` |
| `ErrorsAreNotServed` | `Spec => []ErrorReplyNotServed`, assuming `MaxFaults <= 1` |
| `LockGivenBack` | `Spec => []OwnerIsInside` |
| `Exclusion` | `Spec => []SlotExclusion` |
| `Refinement` | `Spec => ImplementsLifecycle`, assuming `MaxFaults = 0` |
| `FinalWithoutFaults` | `Spec => VerdictIsFinal`, assuming `MaxFaults = 0` |
| `RecordsRefined` | `Spec => ImplementsRecords` |

`Refinement` and `FinalWithoutFaults` need their condition: run `ingest_final` shows the failure that breaks both.
`ErrorsAreNotServed` needs its own: section 3 names the two failures that break it.
Crashes are allowed in all of them.

*The job invariant.* `OkMeansStored` is not inductive: the reply is sent several
steps after the facts it speaks of were established. `JobInv` is `TypeOK` with
`RecordOK`, which says for each place of a handler what its outcome, row, directory
and media row already are: before `prepare_job` there is no row, with outcome "ok" at
`register_result` the row is done and the payload stored, and so on. Type
correctness is part of the same induction, since `SetFailure` writes
`outcome` into `reason` and is well typed only because the outcome at that place is a
failure. The step is proved action by action for the handler that moves
(`OwnRecord`); `OthersUntouched` shows that the records of the others do not change.

*The tale.* `ReplyMatchesRow` and `NothingLeftBehind` speak of an answered request while
no operation has failed. `Untold` and `Told` say what, without faults, each place of a
handler has done so far to row, directory, temp copy and temp row; a reply is then the
last sentence of it. `FaultsStay` shows that the condition is never regained once lost, so that the
induction may assume it after the step and use it before.

*Taken back.* `ErrorReplyNotServed` holds because a done job reaches `set_failure` only after
an operation has failed; if that was the only one that may, `set_failure` itself succeeds and
the reply finds a failed row (`TakenBack`).

*The lock invariant.* `SlotExclusion` follows from `HolderOwns`: an ingest handler inside
the region owns the lock of its slot. That is inductive only together with
`OwnerIsInside` (an owner that had left could be replaced). `LockInv` is both; four
lemmas name the ways in which a step touches lock or region, and each action is one
of them. `waiters` plays no part: exclusion does not depend on the order of the queue.

*The refinement.* Initial states map to initial states; `CreatePending` is `Open`,
`SetResult` and `SetFailure` are `Decide`, every other step is a stutter. What makes
`SetResult` an abstract `Decide` is the fact from `RecordOK` that the payload is
already on disk.

*The records.* `RecordsRefined` needs no condition: `SetResult` and `SetFailure` of a pending
row are `Decide`, a second `SetFailure` is `TakeBack`. That there is no third write, and
that the second is always `internal_error`, is what `Written` says of each place of a
handler: at `set_failure` the row is pending, or it is a provider's verdict and the outcome
is `internal_error`; after it the row is what the outcome says.

Its second part is about `MediaSpec`, the handlers and the cron script together:

| Theorem | Statement |
|---|---|
| `MediaTypeCorrect` | `MediaSpec => []MediaTypeOK` |
| `NothingIsDeletedEarly` | `MediaSpec => []NothingDeletedEarly` |
| `NoFileOutlivesItsRow` | `MediaSpec => []CleanedMeansGone`, assuming `MaxFaults = 0` and `MaxCrashes = 0` |
| `MediaRefinement` | `MediaSpec => ImplementsLifecycle`, assuming `MaxFaults = 0` |
| `MediaRecordsRefined` | `MediaSpec => ImplementsRecords` |

The first two and the last hold for any number of faults, crashes and cron deaths. `JobInv` is not an
invariant here, since the script takes away what it speaks of. `Course` and `Lease` keep of
it what is true until the result or the lease has expired, and results expire only after
their handler is over; `CronOK` says that a run works only on what had expired when it was
listed. `NoFileOutlivesItsRow` needs `Gone`: between the deletion and the mark of a cron run
nobody puts the file back. Its condition is needed: a deletion that fails (`media_stuck`) leaves
a file behind a cleaned row, and so does a crash of the server between the handler's
mark and its deletion. In the refinement the removal of a result by the script is the
abstract step that takes the link from the result to 410, and `DoneKeepsDir` shows that
no handler touches the directory of a done job.

`SlotConfigProofs` proves, for every set of updates, payloads, uploads and jobs and every
bound (`SlotAssumption`), `TypeCorrect`, `Bindings == Spec => []BindingsMatchSettings`,
`TemplatesResolve == Spec => []BoundTemplatesResolve`, `JobsDoNotGoBack ==
Spec => []JobNeverGoesBack`, `NothingIsLost == Spec => []UpdatesAddUp` and `SavesRefined ==
Spec => ImplementsSaves`.

*Bindings.* The commit replaces what the update's DELETE has *seen*, so the invariant needs
two more parts: `SeenIsCommitted` (what an update in its last step has seen is what is
committed now) and, to keep that, `LockHeld` (an update that has flushed owns the row lock,
so no other one commits meanwhile). Without the flush before the DELETE the second part is
false, and so is the theorem: the mutant of `FlushRow` shows it.

*Templates and jobs.* A template can be sent only after its upload was answered, and by then
its row is committed (`AnsweredHaveRows`); merges only move templates about
(`MergeFacts`), so whatever any payload, row, view or job configuration holds has a row
(`KnownTemplates`). `JobsFollowSaves` says which save each of a job's two reads is from;
`RowIsLastSaved` ties the row to that history.

*Nothing is lost* is about updates that do not overlap (`OneAtATime`) and is the longest of
these proofs, since it is about what the merge computes. `MergeOfKind` says, for any list of entries,
which object a merged kind ends with; `Objects` says the same of the history of
payloads, the last entry named for the kind and not cleared since. `SettingsAddUp`
and `TemplatesAddUp` equate row and history at every commit.

*Saves.* `Commit` is the abstract `Save`, the registration of an upload's row is
`Register`, the second read of a job is `Take`; all else stutters. The invariants above say
of one state most of what a save has to be. Two facts are added (`SavesInv`): what an update has
read is some save (`ViewsAreSaved`), which is where the earlier save it is worked into comes from,
and an update whose save is there has committed (`AuthorsAreDone`), so it is saved once.
`MergeInPlace` shows that a merge leaves each kind in its place.

`AuthProofs` proves, for any number of attempts, threads and restarts and any durations
(`AuthAssumption`), `TypeCorrect`, `BlocksAreEarned == Spec => []NoSpuriousBlock`,
`RecordRemoved == Spec => []AccessEndsWithRecord`, `GuessesAreThrottled ==
Spec => []GuessRateBounded` and `LoginsAreAtomic == Spec => OneThreadIsAtomic`. The second needs that an object is held by
nobody before the attempt that made it has counted (`ObjectsInv`); then the object in the
dictionary has never counted more failures than there were wrong guesses since the last success
(`CountInv`), although threads still write to objects that a success has dropped. The
third rests on `RecordInv`: whoever was accepted was so before the restart that left the
record out. The last two are about one thread. `GuessRateBounded` says nothing of the counter and is
not inductive; `CountedInv` adds it: a window that has not ended holds, beyond what
restarts account for, no more guesses than the counter shows, unless a block lies in it. The
run `auth_race` shows what becomes of this with two threads. For `LoginsAreAtomic` the
count and block of the object in the dictionary are the abstract ones, and an attempt is
judged in the step that ends it. `LatestInv` (an attempt under way was made after every
one that has been answered) makes that step a judgement in the order of times;
the object an attempt has looked up is the one in the dictionary still, because nobody else ran.

`ProviderProofs` proves, for all limits, retry settings and bounds (`CallAssumption`),
`TypeCorrect`, `RequestsStayBounded == Spec => []RequestsBounded`, `TimeoutsAreJustified ==
Spec => []TimeoutIsJustified`, `ImagesAreUsed == Spec => []ImageIsUsed` and
`PausesAreNotCut == Spec => PauseIsNotCut`. The budget
`SpentInv` says how many requests each round of the two nested loops has sent at most
(`noImage * tries + attempt`); `Rounds` is the arithmetic. `AnswerInv` says where a call
can be once an image was handed over; `ImageIsRead` shows for every answer that an image
whose data come first is what each driver reads. A pause is begun only when it ends before the
job's own deadline (`PauseFits`), so that only the deadline of `wait_for`, when it was computed
from a limit lowered in between, can cut it.

`GalleryProofs` proves, for any clients, requests, threads and limits (`LimiterAssumption`),
`TypeCorrect`, `RefusalsAreEarned == Spec => []NoSpuriousRefusal` and `BurstsAreBounded ==
Spec => []BurstBounded`. `CountInv` is the reason of the second: a bucket, also one that a
thread is about to write back, never counts more requests than were admitted since its start.
It counts them by the time of their admission and says nothing of when the reader of a bucket
took its own time: a refusal needs only that the bucket it found had not ended by that time.
A lost increment or an old bucket written over a new one only lowers the count. The third is
about one thread, where nobody acts between a request's reading of the clock and its writing
of the bucket (`OneAtATime`) and the count is also never too low (`BucketsFit`): every span that
reaches into the present window missed the first request of the one before. That is where
the one request comes from by which `2 * RateLimit` is not reached.

`PagesProofs` proves, for any finite set of jobs, any requests, threads, lifetimes and limits
(`PagesAssumption`), `TypeCorrect` and `PagesStayRecent == PageSpec => []PagesAreRecent`. A page
under construction shows nothing that was gone when its request arrived, and misses nothing that was there
then except what it has still to ask for (`Built`). A job that has not changed stays
where it was among the newest: those that finished after it stay, others only follow
(`NewerStay`). The rest is the bookkeeping of how old a page is in each place (`StoredOK`,
`CacheOK`): a request's time when it is stored, another when a stamp of another request is put
on it, a third while a reader has tested it and not taken it.

`SettingsProofs` proves, for any calls, fields, providers and variables
(`SettingsAssumption`), `TypeCorrect`, `ReplyIsOwn == Spec => []ReplyShowsOwnUpdate`,
`AloneLeavesInStep == Spec => []AloneMeansInStep` and `NoKeyIsLost == Spec => []KeysKept`.
The first of these holds for overlapping calls: of every committed update the table shows each
field it set, or what a later one set it to (`TableShowsWrites`). The others follow a
call that overlaps nobody from its first read to its end: what it read is what the table
still holds (`ReadsAreCurrent`), and while it exports keys one by one, every key is in use or
still ahead in the order of names (`ExportsCatchUp`, which needs that the order names every key, `KeysAreNamed`).

`StatsProofs` proves for any slots and reports and any finite set of jobs (`StatsAssumption`)
`TypeCorrect`, `CountersFall == Spec => CountersFallOnlyByCorrection`, `VerdictsHaveJobs ==
Spec => []VerdictsAreAccountedFor`, `ReportsAgree == Spec => []ReportsAddUp`,
and `RowsRecorded == Spec => RowsFollowRecords`, and for any providers and rising bounds
(`MetricsAssumption`) `MetricsTypeCorrect` and `BucketsAddUp == MetricsSpec =>
[]BucketsAreCumulative`. `ReportsAsBefore == MetricsSpec => Spec` carries the former over to a
system in which scrapes are made and slots saved.
A verdict may be taken back after a statement has counted it, so the set a statement counted
does not only grow. What does is the set of jobs that show the verdict or, by `undone`, have
shown it (`Lasting`; `Settled` for successes), and what was counted is at most that
(`AtMost`), which is enough for `VerdictsAreAccountedFor` whatever is taken back. While nothing was taken back `Lasting` is
what the statement would count now, which is the condition in `ReportsAddUp`. `OverviewAddsUp` compares the
total with what the slots have shown or would show now (`Shown`); `SlotsPartition` and
`DisjointFit` turn sums over slots into cardinalities of unions. For the histogram,
`OrderExists` shows that the durations can be sorted, and `HistogramCounts` that the index
which `_format_histogram` moves over them stands, at each bound, behind just those that are
not longer. `ScrapeInv` says that the two SELECTs read different providers only of slots saved
between them; `BucketsOfNone` is the histogram of such a slot.

The listed theorems state every invariant, action property and refinement that a passing
run checks.

*Assumptions.* Most only type the constants. The others, and the code behind them:
providers are finitely many (`env_map` is a literal); so are jobs and requests, the rows of a table and
the calls of one process; payloads are lists of entries, as the request model
has it, and updates and jobs are different things; slots are listed once each (by primary key) and there is
at least one (the seed writes them and nothing deletes a slot); `BUCKETS` is a
literal in ascending order. TLC evaluates all of them on the instances.

*Recursion.* `Merges`, `Sums` and the index of the histogram are recursive functions. That they are
what their equations say (`MergesExist`, `SumsExist`, `IndexesExist`), and what follows from it by
induction, is proved from least elements of sets of numbers (`LeastNumber`,
`PositionsByStep`), which needs no operator as a parameter.

*Only model-checked.* Liveness: `EveryRequestAnswered`, `CallEnds`, `DeletionIsRecorded` and
`PublicLinkExpires`, since fairness and `ENABLED` are outside the prover's reach. The four
violated properties of section 7 are shown by counterexample.

## 7. Disagreements found

1. `ingest_final`: a store operation that fails after `set_result` has committed
   "done" makes the generic handler of `ingest_api.py:199` record `internal_error`: the
   row goes from done to failed. `spec/docs/domain-model.md:22` forbids a second decision.
2. `media_crash`: a process killed between `set_result` and `register_result` leaves a
   result that no cron run lists; its link works for ever
   (`docs/runbooks/cron_cleanup.md:8`: 168 hours).
3. `media_stuck`: a temp file whose deletion failed is marked cleaned and not tried
   again, against the comment at `temp_media_store.py:139`.
4. `auth_race`: a wrong guess admitted before the block and counted after it lifts the
   block (`spec/docs/nfr.md:19`).
Seen while modelling and not made into a run:

- What raises outside `process()` (`ingest_api.py:140`), and any unexpected exception of a
  test run, is a bare 500; row and files stay, where `docs/ARCHITECTURE.md:137` describes
  an update of the row and a removal. Among the causes is `validation.py:61`, where the
  read error path seeks in an upload it has closed. `PendingMeansBare500` shows that
  nothing else leaves a row undecided.
- Turbotext's driver gives up after 20 polls two seconds apart, before the default
  deadline of 48 seconds, and answers 502 where
  `spec/docs/providers/turbotet/turbotext.md:275` asks to poll while the window is open.
- Concurrent updates of provider keys lose one of them.
- `spec/docs/use-cases.md:33` promises 409 for a stale version; `update_slot` compares
  nothing and the last write wins, which is what `spec/docs/domain-model.md:7` says.
- A PUT with an empty list of templates clears them, a test run with an empty list keeps
  them (`Updated`, `Templates`).
- A job's provider comes from its first read of the slot, its settings and size limit from
  the second: an update between the two gives a configuration that was never saved.
- A template upload is recorded as a `done` job of its slot, so it can appear among the
  slot's recent results and behind a public link, where `spec/docs/use-cases.md:88` says
  that templates are not published. It counts in the statistics like a result.
- The two Gemini drivers share an environment variable (`settings_service.py:156`), and the name
  that comes later in the stored JSON object wins: an update of the other one's key is
  stored and shown and not used.
- A gallery window starts at its first request, so a client can make 59 requests within
  a minute around its edge, where `docs/PRD.md:92` and `spec/docs/use-cases.md:112`
  say 30. `BurstBounded` shows that it is not 60; with several threads it can be more.
- `ingest_success_total`, and likewise the totals of timeouts and provider errors, are declared
  counters in `spec/contracts/schemas/metrics.yaml` and fall when a verdict is taken back
  (`ingest_final`). `CountersFallOnlyByCorrection` shows by how much. `ingest_duration_seconds`
  is exported as a histogram and counts the last minutes only.
- The exporter groups samples by slot and provider and looks them up under the provider its
  other SELECT has read (`metrics_exporter.py:71`, `:79`, `:171`). A save that changes the
  provider between the two gives one scrape in which all buckets, `_sum` and `_count` of the slot
  are 0 although it has recent jobs. `BucketsAreCumulative` shows that nothing else is lost.
- The exported series carry the slot's present provider; `job_history` has none. After a change
  of provider the slot's whole history continues under the new label and the old series ends,
  so `CountersFallOnlyByCorrection` is about a slot and not about one label.
- `success_rate` and `timeout_rate` divide verdicts in the window by starts in the window and
  may exceed 1; `VerdictsAreAccountedFor` says exactly by which jobs.
- `spec/docs/glossary.md:9` equates the lease of temp files with the response window. The
  lease, like the gauge of the exporter, is computed at start-up and does not follow the
  setting.
- `spec/docs/providers/turbotet/turbotext.md:285` and `:289` ask for repeated queue
  requests and downloads; the driver makes one of each.
- `recent_results` of `GET /api/slots/{slot_id}` lists done rows without looking at their
  files, unlike the gallery.

## 8. Abstractions, and what is not modelled

- Uploads, images and prompts are not data: what decides the next step (too large,
  wrong type, no image) is a choice. In `Ingest` the same holds for slots, which
  are active, unknown or disabled by choice at each of the two reads.
- `SlotConfig`: plain fields of a slot are one value, its author; role and optional flag of
  a template entry are left out, so every template is required (an update can write no
  other); a test run's overrides are applied to its templates, the only ones a property
  speaks of; a list put into `settings.template_media` by hand is left out. The
  slot row and its bindings are read by two statements, and a reply that falls between
  them can show rows of two versions; nothing but the page reads the bindings.
  Nothing deletes a template file, nor its row within the ten years it is given.
- A partial deletion of a directory counts as a failed one. A commit that succeeds and whose
  acknowledgement is lost is left out. A client that disconnects does not cancel the
  handler and is not modelled.
- `request.form()` may give up the loop or not: both happen, depending on the size of
  the body.
- More than one application process (each with its own locks and counters) is not the
  documented deployment and is not modelled.
- The row and the file of a public link are read in one step; a reader that has opened
  the file before it is deleted is served and is right.
- Settings: names outside `env_map`, the legacy password hash and the rotation stamps are left
  out. Authentication: signing and decoding of tokens are a library's pure functions;
  usernames share nothing, so there is one.
- Providers: the contents of requests, and what an image is beyond decoding or not.
- Gallery: what a page says of a slot apart from its jobs. `Slack` bounds how long a request
  takes; a request that takes longer serves a page that is older by as much.
- Statistics: `jobs_total`, `last_success_at`, `last_error_reason`, the disk usage and the
  `is_active` flag, single values that are compared with nothing; the text format. The clock of
  the models does not go back, so the skip of durations below 0 (`Measured`) never finds any. Database
  statements see what is committed when they start (READ COMMITTED).
- A temp file copied before its row is committed, with a crash between the two, is an
  orphan that nothing in the repository looks for; no component promises otherwise.
- Start-up is modelled by what it does to state that lives on (`Restart` of `SettingsRuntime` and
  of `AuthThrottle`). Two starts at once on an empty database, of the server and of the cron
  script, may seed the same slots; one of them then fails on the primary key and its seed, one
  transaction, with it. This, migrations, which are run by hand before a release, and
  browser pages are left out; whatever a page sends, the handlers check.

## 9. Plan

What could be added, in this order:

1. `TempLease`: `MediaLifecycle`'s temp row with the clock of `ProviderCall`: does the
   lease cover the call that fetches the upload by link. Proof: it does, or by how much
   it falls short.
2. `UploadValidation`: the chunked read against the cap, with a reference definition and the
   proof that the two agree for every sequence of chunks.
