# Verification of ddcs-app

TLA+ models of the DDCS application: how participants of a study donate their
TikTok data, what is made of a donation, how the metadata of the videos in it is
collected and by whom, and what is shown of it. TLC checks the models on small
instances; TLAPS proves the main safety results for all values of the constants.

Paths are relative to `src/`; `service.py`, `tasks.py`, `models.py` and `api.py`
without a directory are those of `ddcs/metadata/scraper/`. Run
`tlc -config X.cfg M` and `tlapm M.tla` in this directory. `PROJECT.json` lists which
configuration belongs to which module, the source lines of every definition, the
hazards with the properties about them, and for every property a mistake in the
code that it catches.

## 1. The system

Participants donate an export of their TikTok data, by uploading the file or by
letting TikTok hand it over (data portability). The application stores donations,
collects metadata of the videos in them (from TikTok's Research API, and by scraping
video pages, itself or through external scrapers), has videos classified by an
external service (Zuse), serves the result to another system by priority, and shows
participants a report. Django serves requests, each in a transaction
(`ATOMIC_REQUESTS`); Celery workers run tasks, queued by requests, by other tasks or
by a schedule, acknowledged late and so delivered again when a worker is lost; Redis
is broker, cache and lock server; PostgreSQL holds the data.

| Component | State | Operations | Hard because | Module |
|---|---|---|---|---|
| Scrape queue, external scraper API | `ScrapeTarget` rows: status, attempts, checks, who claimed it until when | enqueue, claim, report, work off a batch | several scrapers compete; leases run out; results come late or twice; the built-in scraper saves rows it read an hour ago | `ScrapeQueue`, `ClaimOrder` |
| Scraper task | Redis lock, cool-down in the cache, messages | scheduled, chained and manual runs, "Resume scraping now" | check, lock, release and registration are separate steps; workers are killed | `ScrapeTask` |
| TikTok page client | cookies, pace, refusals | ask for a page, once more in a new session, captions | flags that one item leaves to the next | `PageScraper` |
| Donation counts | counts per video, ranking of the queue | count a donation, recount, purge, import links | read-raise-write without locks, retries, repeated commands | `DonationCounts`, `LinkImport` |
| Research API sync | `SyncAttempt`, query trackers, lock | daily sync, smaller retries, back-fill, reaper | time limits, rate limits, swallowed errors, an expiring lock | `ResearchSync`, `Coverage` |
| Videos, prioritised API | what is known of a video, `updated_at` | the statements of a query, every other writer, polls | statements committed one by one; writers that take the time early | `VideoFeed` |
| Monitored items | `monitor_api`, priority | the command that applies a file | stopped in the middle, next to others | `MonitoredItems` |
| Participant flow, data portability | step, connection, data requests, tabs, the browser's cache | connect, poll, download, submit, upload | two tabs, late answers, stale saves, reloads | `Participation` |
| Donation data | DDM project, stored records | set-up, extraction, reading back, registering | spellings that have to agree in four places; a set-up without a transaction | `DonatedData` |
| Zuse sync | lock, classifications | sync a day, continue, chain of days | continuations with new arguments, retries within a chain | `ClassificationSync` |
| Report | `Statistics` row | compute once, show, filter | the same history cut up by several functions, a comparison computed twice | `WatchMetrics`, `Report` |
| Dashboard, public figures | cached snapshots | recompute, serve | several queries without a common snapshot | `Figures` |

How they interact: a submission (`datadonation/views.py`) stores a donation and
queues `process_donation`, which reads it back, registers and counts its videos,
enqueues them, and makes the report. The scraper task claims from the same queue as
external scrapers do over HTTP; a claim drops what the Research API has delivered
meanwhile. Scraper, Research API, donations and imports write the same video rows,
which the prioritised API serves by `updated_at` and the dashboard counts. The
dashboard's button ends the cool-down and queues a run. There are few locks: the
scraper's and the back-fill's and the classification's in Redis, row locks in a claim
and in the OAuth callback. Everywhere else something is read and later written.

## 2. The models

**Conventions.** Time is kept as what is left of it (a lease, a back-off, a time
limit is a number of ticks that a clock counts down), so that no run has to bound the
clock. Bounds are constants named `...Limit` or `Copies`; the time limits
(`RunLimit` of the queue, `TimeLimit`, `DailySoft` and so on) are the code's own. A
definition named `...Mistaken` (and `LeaseFreeForAll`, `LapsesEarly`,
`AdvancedFromNext`) is the one after it with a plausible mistake, is used by no
specification, and serves to show that a property can fail. Variables that only record
history are named in the header of the module or next to their declaration.

**Scenes.** Models that share no variable can be checked side by side in one run: in
`MCVideos`, `MCFlows`, `MCData` and `MCScraper` the variable `scene` says which of
them a behaviour belongs to; the others stay as they are. Such a run is the union of
its models, not their product. Fairness is that of the modules, restated within the
scene.

### ScrapeQueue, ClaimOrder

One variable per field of a row (`status`, `attempts`, `checks` =
`unavailable_checks`, `claimedBy`, `lease` = time until `claimed_until`, `wait` = rest of
the back-off), `covered` (the Research API has the video), `stored` (rows of
`VideoInfosScraped`). The built-in run has its batch, what is to do, the failures held
back (`failure_streak`), the consecutive blocks, and its copies of the counters as read
(`memAttempts`, `memChecks`). External scrapers have what they were asked, the lease they
know of (`told`), and the results under way (`mail`).

* `Claim` and `StartRun` are `_claim_due_targets` taking any claimable targets, which
  covers every order; `ClaimOrder` models the order: the four reads of a claim are steps,
  each passes over what others have leased or locked, and the picks are merged and cut off
  twice. `offered` follows the rows that were free when a claim began, less those others
  have locked since; `undisturbed`, that none became free. `Group`, `QueuePlace`,
  `InOrder` state the order of `docs/8_scraper.md` independently of the reads.
* `Submit` puts a result into `mail` in `Copies` copies; `Arrives` takes them one by
  one, in any order; a copy may get lost. `Record...` are the outcomes of
  `record_external_result`, saved through `MarkRows` (`_mark`).
* `PageServed`, `PageBlocked`, `PageFails`, `StopStarting`, `CloseRun` are the loop of
  `scrape_batch`; `Interrupt` is the soft time limit, an exception that is not caught
  in the loop, or the loss of the worker.

Results of one HTTP request commit together; the model commits each on its own, which
has more interleavings.

### ScrapeTask, PageScraper

A worker of `ScrapeTask` goes through the steps of `scrape_pending_videos`; others take
theirs in between, and `Kill` may strike at any, leaving the lock and perhaps putting
the message back. `aborts`, `pause`, `memory` are the cache entry. `Resume` is the
dashboard's button. The batch is one step with any result.

`PageScraper` is the client one level below: `_scrape_with_fresh_session_on_block`,
`_pace`, the session's cookies and the counted refusals, what a page leads to (data
script or not, how far the path to the item goes, the status codes), which caption is
chosen, and what a refused caption does. The request for the cookies is not paced after
`_pace`: that the docstring speaks of the "minimum time between starts of two page
requests" is true of the attempts at items, which `RequestsPaced` is about, and of the
interval less its jitter.

### DonationCounts, LinkImport

Every writer of counts (a donor's task, the recount) first reads the counts of a
donation's videos and later writes the raised ones, first for the infos, then for the
queue; `fresh` and `raised` are what it has in memory. The three kinds of interaction
are one count; interaction times are in `VideoFeed`. The command resets both tables chunk
by chunk, counts the donations it finds and purges; a scraper saves rows of the queue
whole. `quiet` and `alone` record whether somebody else wrote during the run.

`LinkImport` is `import_video_links`: which cells lead to a video, then per chunk the
rows, the Datapods mark, the reads and the writes of `enqueue_donated_videos`, each
committed by itself, next to a donation that is counted and the Research API. `crossed`
are the videos where one of the two wrote between the other's read and write.

### ResearchSync, Coverage

Workers take messages: daily runs (per kind, with the retry that halves the batch) and the
back-fill. A run lists gaps, queries a batch, and books the outcome, with an error
possible at each; a run that swallows its soft time limit (`_guarded_bookkeeping`) is
`deaf` and works on until the hard one. The soft limit may also strike after the success
of a batch was recorded, and outside the guard: there it ends the run. The lock expires
after `LockTimeout` = soft limit and a minute (`research_api/tasks.py` 637), `Release` may
fail, a crash brings the message back, the reaper closes trackers older than `StaleAge`.
Items are monitored throughout. Winding up after a soft limit that was not swallowed is
taken to last less than that minute.

`Coverage` is the abstract specification: runs list open gaps, ask for listed ones, close
what was answered, and what is closed stays closed. `ResearchSync` implements it under
the mapping `closed <- synced`, `listed <- todo`, `asked <- asked` (as pairs with
the run's date), `forced <-` the task's own argument.

### VideoFeed, MonitoredItems

`VideoFeed` has all that is served of a video and all that write it: the statements of
one Research API query (committed one by one; out of quota it starts again with the next
credentials), donations, purge, scraper, import (which compute `updated_at` and commit
later), the keywords' links, and a consumer that polls with `updated_since`, page by
page. Time is counted in polls. The consumer must look back by as much as a write may
last (`Overlap`): with less it misses changes. Hashtags and keywords never move
`updated_at` and are not compared. `interrupted` and `overwritten` record the two ways a
change gets lost: a query cut short between its statements, two donations that set each
other back.

`MonitoredItems` compares a file with the database into a plan, a set of statements each
with its place, and then executes one after the other (first those that create, then
those that enable, update, disable, each in the order of the file), while the Research
API registers users; it breaks off when a row it wants to create exists by then.

### Participation

One participant with two tabs. A request that calls TikTok, or stores a donation, is a
call: it reads, waits, and writes at the end, whether or not the tab still waits. The
others are one step. `tabs` is what each tab shows and has in its hands, `cache` the
browser's copy of `tiktok_data.zip` (tiktok-download.js keeps an answer for two hours,
a redirect to a page included, 121-132). `requests` are the rows, `remote` their state at
TikTok. Ghosts: `stale` are requests saved by a call that had read another status,
`revived` those that became active again that way. `tasks`, `stored`, `handled`,
`blank` follow the message behind a submission. Faults (errors, expiries, reloads) are
bounded together. DDM's views are external.

Seen in the model, and not counted as findings: a late poll may make a request active
again and may save step 2 over 3; with step 2 and no connection in the session the
start page redirects to itself; the DLUL views at step 1 ask for a URL without a name;
the uploader's `onFormSubmitSuccess` (tiktok-download.js 249) is never called.

### ClassificationSync

Messages are (job, day, cap); runners take the lock, fetch chunk by chunk, respawn a
continuation when time is up, and go on with the chain of a back-fill. The videos of a
day are counted. A run may be out of time after any chunk, and the soft limit may strike
in any; a crash brings the message back (`repeated`), what the run has published stays.
The lock may be gone or may fail to be released when a run ends; then it ends by itself.
`batch_size` is not handed to a continuation, which changes sizes only.

### DonatedData

The set-up command writes blueprints, rules and variants row by row, and the project
takes donations from its first row on; an export is extracted by the rules there are
(DDM, external), stored per blueprint and variant, read back by the services (variants,
keys in two spellings, date formats, the number in a link), and registered by
`process_donation`: rows for watched and liked videos, the scan of all video lists with
times and the watch window, the queue. A command that died leaves an incomplete project:
run again it stops at "already exists". `written` is the place of its last write: the
blueprint, and the rule of it. What may be uploaded is a constant, `Exports`, any
sequences of rows for the proofs; `MCDonatedData` has the samples TLC uses, one of them
for uploads before the set-up is complete (`EarlyExports`).

### WatchMetrics, Report

`WatchMetrics` computes what `reports/behaviour_metrics.py` computes of a watch history
(sessions, skips, active hours, nights, weekends, the busiest hour, likes, political share)
and the comparison with the reference rows, with exact fractions. `Report` has the parties
and top videos of `metrics/user_metrics.py`, the type of `user_types.py`, the row that is
computed once, by the task or by the first visit, the catalogue of videos it is made
from, and the page with its filters.

What the code filters out of a list leaves the other records at their positions, so a
function on some positions stands for the shorter list. Lists that the code sorts are
ranked by counting: the n-th is the one that n - 1 come before (`Ranked`, for times in
`InOrder`, for top videos by `AheadInTop`). Rows of the comparison are at their metric's
place in the profile. None of it is recursive, so that it can be proved about.

The docstring (behaviour_metrics.py 314) calls a gap of exactly 90 seconds the end of a
session; for the watch time of a day it is (333), for the sessions it is not (471), and
the time of a video includes it (454); `ReportAddsUp` says how the sums differ. Donors with
engagement but no history get comparison rows although `has_watch_history` is false. An
early task leaves an empty row that is never computed again.

### Figures

Each query of the dashboard's snapshot, of the post counts behind the public plots, and of
the figures per party is a step; others write in between. `truth` and `during` record the
value at the start and what was written since. Who recomputes: the hourly task, which
deletes the key that says one is pending; page visits, which set it; a forced refresh,
which deletes the entry and adds a new one, so that an older value may win. Totals and
`with_api_info` come from two queries, so their difference can go below zero by what was
written meanwhile. Existing rows never get their author from the Research API
(research_api/service.py 294-305), so the counts per account leave out videos that a
donation registered first.

## 3. What is checked

| Run | Instance | Shows |
|---|---|---|
| `queue_results` | 1 target, 2 accounts, 2 attempts, 2 checks, every result sent twice | `MemoryIsCurrent`: no save of the built-in scraper overwrites a change; `ScrapedOnce`; `ChecksBounded`; `SettledStays` |
| `scraper` | task: 2 workers, a lock left behind, 2 aborts; queue: 1 target, 2 patient accounts | `OneRunAtATime`, `EscalationKept`, `ScrapingResumes`; `LeaseExclusive`, `WorkedOff` |
| `videos` | claims over 3 of 6 sample rows; 2 donors, 1 retry or 2 recounts; 2 queries, 2 writers, 2 polls; 3 runs over 3 files; 2 imports of 2 lists | `ClaimsDisjoint`, `FollowsOrder`; `RecountExact`, `ProcessedIsQueued`; `NothingMissed`, `QueriesComplete`; `AppliedMatches`; `ImportSound` |
| `research_sync` | 1 user and 3 keywords, one of them poison, 2 workers, a forced daily run and its retry, back-fills; the backlog starts at the threshold (3) and falls below it | `OverlapOnlyIfDeaf`, `ReaperSparesRuns`, `NothingPassedOver`, `PromiseKept` (the refinement), `HealthyGapsClose` |
| `flows` | 2 tabs, 2 data requests, 1 fault; a back-fill of 2 days next to a sync of one, 1 fault | `OneActiveRequest`, `QuestionnaireAfterDonation`, `SubmitAccepted`, `ParticipantDonates`; `DaysAccounted`, `CapKept`, `JobsEnd` |
| `data` | batch of 3 targets; 2 page items; exports of 2 rows; histories of 3 records; 2 videos and 2 writes | `BlockedRunSpares`; `RequestsPaced`; `NothingLost`, `ContentSpared`; `ReportAddsUp`, `FilterNeutral`; `FiguresHonest` |
| `queue_resent`, `task_pause`, `counts_scraper`, `early_task`, `later_kept`, `unreadable_link` | | violations, see below |

`TypeOK` and `EveryTypeOK` are the type invariants of the modules of a run. `EveryTypeOK`
puts those of several modules together and has no theorem of its own: each part is
proved for its module. `MonitoredItems` has none of its own: `ItemsInv` contains it.

**Why the bounds are enough.** No action of the queue relates two targets except the
batch: one target with all its competitors, and three with one run, show what there is;
two accounts and the built-in scraper are the three parties a stale result needs (one
reports late, one holds the target, one is to come). Two attempts and two checks make the
last one differ from the one before. Three rows let each of two claims pick and still
leave one to order; the sample rows lie on either side of every threshold. Two workers are
the one that holds a lock and the one that wants it; two aborts make a pause that doubles.
One video is enough for counts and for what is served, since rows do not influence each
other; two recounts let an interrupted one precede a complete one; two imports let a
stopped one precede a complete one or a complete one be repeated. For keywords, the code's
numbers (batches of 5, single ones below a backlog of 21) are 2 and 3 in `research_sync`,
and both sides of the threshold occur: three keywords are a batch with the poison one and
one without, and when the latter has closed its gap, two are asked for one by one. Users,
of whom one is enough for the daily run, are never asked for with keywords. Two tabs are
the late answer and the one who has moved on. Two days are a chain; three videos with
chunks of one and a cap of two make continuations of which the last is cut off. Exports of
two rows put a good record next to a bad one in every list and spelling; the sample events
lie on both sides of midnight, of a weekend, of the start of the window, and of a session
break, with and without video, account and date (histories of two records have only those
that count, those of three have all); likes come with histories of at most one record,
since a report uses only the number and the videos of the likes. With two writes one can
come before and one during the queries.

**Fairness.** `WorkedOff` assumes that time passes, that a run's loop ends and the run is
closed, that runs take every claimable target again and again, and that TikTok serves a
page it is asked for again and again. Runs are scheduled hourly
(`config/settings/base.py` 379-383); nothing is assumed of clients or against
interruptions. The last two are not the code's to grant: five videos that always fail at
the head of the queue would abort every run (a hazard without a property).
`ScrapingResumes` assumes that the schedule fires, messages are taken, workers go on or
are killed, and that not every run is killed before it has asked for the lock.
`HealthyGapsClose` assumes that workers go on, that time passes, that daily tasks are
taken, that back-fills are scheduled and taken while the lock is free again and again, and
is about behaviours in which nothing goes wrong any more. It has a premise,
`PoisonSpares`: too few poison items to spoil every batch of a backlog that is not small.
With the code's numbers these are at most four keywords (five can be spread over the five
batches of a backlog of 21, which then never shrinks) and no user, since user queries have
no smaller batch to fall back to (research_api/tasks.py 549-581). Beyond that, healthy
neighbours of poison items may stay open for good: with the threshold at 2 in place of 3
and the premise dropped, TLC finds the loop.
`ParticipantDonates` assumes that a participant with a page that leads on follows it,
that calls are answered, and that TikTok prepares the export; `JobsEnd` that runners go on
and a lock that nobody holds lapses. What goes wrong is bounded there.

**Deadlock** is checked except in runs whose models are meant to stop when a bound is
used up (`MCVideos`, `MCData`, `MCDonationCounts`, `MCDonatedData`).

**What the code does not keep of what is written about it**

* `queue_resent`: `already_done` is documented as the answer to a result sent twice, with
  nothing changed (`docs/8_scraper.md` 613). A failure reported twice uses up two attempts.
* `task_pause`: "During the pause, scheduled runs are skipped" (307). A run that passed
  the check before the abort is registered scrapes in the pause.
* `counts_scraper`: the scraper may keep running during a recount, which brings the
  counts back in line (139-150). A target read before the reset is saved with its old
  count, which the recount then raises.
* `early_task`: the processing follows the upload (`docs/3_datadonation.md` 41-43, which
  calls it synchronous in 130). The task is queued before the request's transaction
  ends; a quick worker finds nothing and is done.
* `later_kept`: the later interaction is kept (`metadata/donations/service.py` 197). Two
  donations recorded at a time set it back.
* `unreadable_link`: records without a video ID are ignored (86). One watched or liked
  record without one makes `process_donation` fail at every retry: nothing is registered,
  counted or reported. The recount repairs the counts only.

Without a run of their own: `docs/7_research_api_sync.md` 63 has the back-fill stop at its
soft limit, which `_guarded_bookkeeping` may swallow (`OverlapOnlyIfDeaf` says what
follows); with `max_videos`, at most that many videos are synced over all continuations
(`metadata/tasks.py` 70-72), but a continuation after the soft limit is not told of what
the chunk it struck in has stored by then (`CapKept` leaves that out); a link import
leaves the ranking as it is (import_video_links.py 27) unless a donation is counted
between its read and its write (`RankingKept`); a dashboard refresh is queued "unless one
is already queued or running", which the hourly run makes untrue by deleting the key;
likes and views are summed over one row per delivery (dashboard_export.py 112,
research_api/service.py 324); `docs/3_datadonation.md` 105 counts three blueprints, there
are twelve.

## 4. What is proved

Nothing is assumed but the named assumptions on constants: sizes and limits are natural
numbers, sets are finite where they are counted, the built-in scraper's lease outlives a
run (`RunLimit < InternalLease`, `tasks.py` 23, `service.py` 263), the lock outlives a run
(`tasks.py` 74), the cache entry the longest pause (`service.py` 216), soft limits come
before hard ones and a tracker is stale only after the longest run
(`ResearchSync!TimesAssumption`), TikTok hands out more requests than things go wrong,
row IDs are natural numbers, a file is a sequence of lines, an export is a sequence of
rows and not empty, pages may queue a dashboard refresh, and the database the dashboard
starts from has no video donated for the window that was not donated. A donation is
lists of records with times, videos and accounts, a reference row has a number for every
metric, hour and weekday (`ReportAssumption`, `ReferenceAssumption`); neither says
anything of their order, of how many there are or of what the numbers are. Two theorems on
the import, `ListsImported` and `ImportTyped`, have a hypothesis of their own: `Understood`,
that a list of links stands for what its cells lead to, which `MCVideos` evaluates for its
lists.

* `ScraperProofs`, for any targets, accounts, limits and copies: types,
  `MemoryIsCurrent`, `ScrapedOnce`, `ChecksBounded`, `BlockedRunSpares`, `SettledStays`,
  `LeaseExclusive`. The inductive invariant adds that a run has time left whenever its
  batch is leased (`RunInv`), that a video not queued has no history (`UnqueuedInv`),
  and what the streak of failures held back may contain (`StreakInv`).
  `MemoryIsCurrent` is the key: a target of the batch has a running lease and no
  account, so nobody else can claim it or report on it. `LeaseExclusive`, for patient
  clients, rests on an invariant that ties what a client was told to the row's lease.
  For the task, of any number of workers: types; `OneRunAtATime` from `LockInv` (a scraping
  worker owns the lock, and the lock outlasts what is left of its run); `EscalationKept`.
  For the page client: `RequestsPaced` from `PaceInv` (what has passed since the last
  attempt and what is still to be waited for make up the shortest interval) and
  `AttemptInv`, which ties the attempt to the session.
* `ClaimOrderProofs`, for any rows, limits and claims: types; `ClaimsDisjoint` from
  `ClaimInv` (what a claim has read so far was free of leases and locks and is locked by
  it until it commits); `FollowsOrder` from `OrderInv` (a claim during which no row became
  free has picked what comes first, in the groups it has read, of the rows that were
  free when it began and that no other claim has locked since; what others lock is none
  of the rows it has picked, so the first ones stay the first). A row that becomes free in
  between, by a lease that runs out or by a claim that ends with rows locked it did not
  pick, may belong before those already picked: such claims are exempt.
  The cut-offs rest on lemmas about sorting, which is done by counting: the place of a row
  is the number of rows before it.
* `DonationCountsProofs`, for any donors, videos, retries and recounts:
  `ProcessedIsQueued` from `QueueInv` (what a task is about to create and what it found
  make up all its donation shows, and rows of the queue are never deleted); `RecountExact`
  from `RecountInv` (as long as nobody else wrote since the reset, the counts of a video
  are the donations scanned that show it, plus what the one being scanned has already
  added). For the import: `ImportSound` from `ImportInv` (what a run has finished is in
  the catalogue and in the queue, and what it has read is still so except for the crossed
  videos); its types from `BoundInv` (what a run or the donation has read of a video, or
  is to write back, is never more than was counted of it, and a donation under way has
  room left to count).
* `VideoFeedProofs`, for any videos, keywords, polls and writers: types; `QueriesComplete`
  from `QueryInv` (what a query has seen it has stored once, and linked to the keywords that
  were monitored all the time); `NothingMissed` from `LateEnough` and `AllAnnounced` (a
  write under way began after the time the next poll looks back to, and what changed since
  that time the poll will see). For the monitored items: `AppliedMatches` from `ItemsInv`
  (what differs from the file is still in the plan).
* `ResearchSyncProofs`, for any items, dates, workers and limits: types (`TypeInv`);
  `OverlapOnlyIfDeaf` from `LockInv` (a back-fill that would still stop holds the lock,
  and `expiry + age` of it is the timeout); `ReaperSparesRuns`; `NothingPassedOver` from
  `PathInv` (every pair before the run's place is closed or was tried, and what is
  missing of the present one is still on its list); `PromiseKept`, the refinement of
  `Coverage`, step by step.
* `ParticipationProofs`, for any tabs, requests, calls and faults: types;
  `QuestionnaireAfterDonation`; `OneActiveRequest` from `OneInv` (one callback at a time,
  and only while no request is active that was not revived: what a late poll or download
  saves as active again is exempt, and does make two active); `SubmitAccepted` from
  `TakeoutInv` (while no status was written over, a takeout in the browser comes with a
  request marked as downloaded). For the donated data, of any exports: `NothingLost` from
  `DataInv` (what DDM has stored of a file reads back as the rows of the file, and what
  the task makes of it is what it makes of those rows). The lemmas follow the code: a
  clean record depends only on the keys that a blueprint's rules keep, not on the name or
  the pattern they were stored under (`CleanOf`); every spelling of every list keeps a
  date and, where videos are linked, a link (`KeysOfBlueprint`); the list read is that of
  the first variant that took it (`PreferredOf`); and the scan of such lists finds each
  video with its dates (`RegisteredAsSeen`). `ContentSpared` holds of every upload, even
  to an incomplete project, since the rules made so far keep no more than all of them.
  `DataTyped` from `PlaceInv` (the command is at one of its writes, and stops at the
  last).
* `ClassificationSyncProofs`, for any days, jobs, runners and loads: types and the lock;
  `DaysAccounted` from `ChainInv` (a message or run that is not over is on a day of the
  job with all before it ended); `CapKept` from `CapInv` (a job whose message never came
  back has one message or run at a time, and what it has stored and what that one may
  still store do not exceed the cap; chunks the soft limit struck in are not counted, and
  jobs with a message delivered again are exempt). For the figures, of any videos and
  writes: `FiguresHonest` from `FiguresInv`. Each figure is a first part less parts of it
  that were read later and exclude each other; a part that is yet to be read is counted as
  it is now; and a write moves a count by one at most, so a published figure is off by no
  more than was written while it was computed. `FiguresTyped`: a killed refresh is queued
  again, yet the refreshes queued and running are never more than pages may queue and
  workers there are.
* `ReportProofs`, for any donations of any length and in any order, any reference rows,
  parties and catalogues: types, `ReportAddsUp` and `FilterNeutral`, from
  `ReportInvariant`: every stored row is sound (its figures add up, and every page
  made of it is neutral), whichever of the actions stored it. That `Compute` makes a
  sound row is the bulk of the proof. A sum over a finite set, which the community modules
  define by a fold that takes the elements in an unspecified order, depends neither on
  that order nor on a grouping (`SumAdds`, `SumGroups`), by induction over finite sets, with
  the statement given as a set; ranking by counting sorts (`RankedSorts`). From these: the
  videos by party, by day and by session are the same watches in different groups; the
  gaps within a session add up to its length (`GapsTelescope`); each gap belongs to one
  video and to the day of the earlier watch; the quartiles of a sorted population are in
  order. `FilterNeutral` rests on `EveryoneLoaded`: rows of the file that are not loaded
  have no value in any metric, so no filter means the population of the stored comparison.

Only model-checked: the liveness properties, since fairness and ENABLED are beyond the
prover here. Every invariant and every action property of the passing runs is proved, the
parts of `EveryTypeOK` one by one.

## 5. Not modelled, and the plan

* Encryption and extraction of donations, the participant's steps: DDM's; modelled from
  how they are used. Token refresh is part of the calls that fail; the OAuth state and
  signatures are left out.
* Texts of captions, parsing and cleaning of answers, word clouds, plots, the synthetic
  preview of a report, the order of ties and of display. The weekday row of a comparison
  has no figures (behaviour_metrics.py 855-876): `ReportAddsUp` says nothing of it.
* Writers between the queries of one computation, but for the dashboard and the post
  counts: `Report!Compute` reads the catalogue of videos at once (three queries,
  user_metrics.py 301-346), `Figures!ShowParties` likes and monitored statistics at once,
  and `Figures!AskPosts` deletes and reads the daily cache at once.
* The dashboard's live figures (sync coverage, suspicious days, the queue), the widening
  of date ranges, the Bundesland filter and the donation statistics of the website.
* The mail with the study's link, logs, admin, content pages, login, configuration: no
  state that anything concurrent touches.

Done in this order: the scrape queue and its proofs; task, counts, order of the queue;
`ResearchSync` with its refinement; `Participation`; `VideoFeed` and `MonitoredItems`;
`ClassificationSync`; the data models; `LinkImport`. Left, the most useful first:

1. `Figures`: the live sync coverage, with the suspicious days it derives.
2. The composition of `ScrapeQueue` and `ScrapeTask`: what a batch does decides what the
   task registers.
3. A second participant on one TikTok account in `Participation`.
