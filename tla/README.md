# common-trails: formal models

common-trails (CHEMINS COMMUNS) collects GPS traces that riders upload, keeps
them per user, and publishes the consented ones as a community heatmap. The
modules here model the parts of the back end in which several executions,
requests or retries meet over one table or one bucket. TLC checks them on small
instances, TLAPS proves the main invariants for every value of the constants.

All paths are relative to the repository. `PROJECT.json` lists the runs, the
lines each definition translates, the hazards and the findings.

## 1. The system

| component | state | operations | interacts with |
|---|---|---|---|
| **Archive pipeline** (`api/imports.py`, `api/admin.py`, `services/archive_intake.py`, `jobs/ingest_pending_archives.py`) | `pending_archives` (status, attempts, updated_at), the uploads bucket | init / reuse, upload, `/complete`, admin requeue; drain: reap, sweep, claim, open, ingest members, finish, mail | calls the ingest per member; pings the heatmap build |
| **Activity store and provenance** (`services/ingest.py`, `services/provenance.py`, `api/integrations_strava.py`, `api/internal_strava_webhook.py`, `cli/backfill_display_coords.py`, `services/activity_deletion.py`) | `activities` (source, contribute_heatmap, geometry, geometry_source, file_hash, display_coords) | single upload, promotion, bulk sync, GPS upgrade, blob backfill, deletion | written by archive drain, uploads, Strava import and webhook; read by the build |
| **Community map publication** (`jobs/build_pmtiles.py`) | published bucket: pinned snapshots, pointer `heatmap-display.json`, mutable copy, temporary objects | export, upload, pointer compare-and-set, mutable copy, prune | reads `activities`; read by the web map through the pointer |
| **Rebuild triggers** (`services/run_jobs.py`, `services/activity_deletion.py`, `services/activity_sport.py`, the drain's pinger) | a debounce window per web process, the pinger's window and deferral, all in memory | request, debounce, ping, deferred ping, weekly schedule | asked by uploads, deletions, sport changes, merges, the drain; starts publication |
| **Strava import job** (`jobs/import_strava.py`, `jobs/resync_strava.py`, `api/integrations_strava.py`, `api/internal_strava_health.py`) | `import_jobs` rows (status, created_at, updated_at) | `/import_all`, `/resync`, start and fallback, zombie clean-up, queue, claim, phases, daily check | writes the activity store, uses the tokens |
| **Strava tokens** (`api/integrations_strava.py`, `jobs/resync_strava.py`) | `integration_accounts` row (tokens, failure count), an advisory lock | refresh with rotation, use, failure count and notice, OAuth callback, disconnect, deauthorize | every Strava caller |
| **Strava webhook intake** (`api/integrations_strava_webhook.py`, `services/cloud_tasks.py`, `api/internal_strava_webhook.py`, `jobs/resync_strava.py`) | named tasks in Cloud Tasks | deliver, queue, work off with retries; resync of a window, started by hand | Strava; the activity store |
| **Account merge** (`services/account_merge.py`) | rows of two users | match, drop, hand over, delete the user, in one transaction | activity store, imports under way, publication |
| **Legacy matched heat path** (`services/ingest.py`, `services/activity_deletion.py`, `services/activity_sport.py`, `jobs/rebuild_heat_agg.py`, `api/internal_ingest.py`) | `heat_edge_contributors`, `heat_edges`, `heat_edges_agg` | heat task, purge, recount, trigger, refresh, backfill | activity store; read by tiles and builds when `HEATMAP_DISPLAY_SOURCE` is `matched`, its default (production sets `raw`) |
| Per-member queue (`pending_archive_files`) | queue rows | claim, drain, finish | ingest |
| Archive admission | counts over `pending_archives` | quota checks, signed URL | archive pipeline |
| Magic links | single-use ledger | issue, consume | sessions |
| Rendering, parsing, routing, exports, UI, deployment | none shared, or request-at-a-time CRUD | - | - |

What is hard here:

* nothing keeps two drains, two builds, two imports or two ingests of one user
  from running at once; leases, compare-and-sets, rows read for a sign of life
  and duplicate queries stand in for locks;
* a Cloud Run execution may be killed at any instruction, and its e-mails,
  deletes and UPDATEs are separate calls that fail one by one;
* handlers read a row, talk to storage or to Strava, and write the row back
  later; Strava changes its own state with each answer, lost or not;
* events of Strava get lost, come twice, and are worked off in any order;
* what is published must follow consent and privacy: promotion, upgrade, cached
  blobs, old snapshots and late ingests can each bring back a trace that should
  not be there;
* in the matched path the statements of ingests, purges and refreshes of one
  edge interleave under READ COMMITTED, each with its own snapshot;
* a change of the corpus reaches the map only if somebody asks for a build, and
  the memory of who has asked is in processes that are restarted.

What makes each part correct: a drain owns its archives, every archive settles,
`done` means complete (pipeline); only consented uploads are eligible, and a
ride is counted once (store); the pointer only advances, always leads to an
existing snapshot, and that snapshot is as fresh as it claims (publication); a
stale map has a known reason and does not stay stale (triggers); imports of one
member follow each other and none is RUNNING for ever (imports); concurrent
refreshes keep a live token and count only real rejections (tokens); deletes
win, private rides stay out, public ones arrive unless an event was lost
(webhook); no ride is lost
between two accounts (merge); an edge counts each ride and each rider once, and
its aggregate follows (matched heat).

## 2. Plan

Done, in this order: `ArchivePipeline`, `ActivityProvenance`, `HeatmapPublish`,
`StravaImport`, `StravaToken`, `StravaWebhook`, `RebuildTriggers`,
`AccountMerge`, `HeatEdge`, and the abstract specifications of the first three,
`ArchiveLifecycle`, `ConsentLedger` and `CommunityMap`. All are checked and have
theorems, and the three refinements are proved.

What would come next, by weight:

1. `MemberQueue`: `_claim_batch` without reclaim; a killed job strands members.
2. `ArchiveAdmission`: the quota check and the insert as two transactions.
3. Composition of pipeline and store: the member ingest of the one is the upload
   of the other. Today each states what it needs of the other as an action.
4. The K gate of `raw_trace_display` against a reference definition.

## 3. Modules

`MC*.tla` modules add symmetry sets. `*Proofs.tla` modules hold the theorems.

| module | models | proofs |
|---|---|---|
| `ArchivePipeline` | archive rows, handlers, drain | `ArchivePipelineProofs` |
| `ArchiveLifecycle` | abstract: what becomes of an archive that is handed in | there |
| `ActivityProvenance` | the writers of one ride's rows | `ActivityProvenanceProofs` |
| `ConsentLedger` | abstract: what the public map may show of a row, and for how long | there |
| `HeatmapPublish` | the builds and the bucket | `HeatmapPublishProofs` |
| `CommunityMap` | abstract: what a visitor of the map is promised | there |
| `StravaImport` | import rows and executions | `StravaImportProofs` |
| `StravaToken` | one member's tokens and their users | `StravaTokenProofs` |
| `StravaWebhook` | from Strava's events to stored rides | `StravaWebhookProofs` |
| `RebuildTriggers` | who asks for a build, and what nobody asked for | `RebuildTriggersProofs` |
| `AccountMerge` | the merge transaction among other sessions | `TransactionProofs` |
| `HeatEdge` | one edge of the matched heat map, statement by statement | there |

How they fit: the drain of `ArchivePipeline` is the pinger's drain of
`RebuildTriggers`, whose `Export` and `Publish` are the whole of a build of
`HeatmapPublish` ("a build shows every change committed before its export" and
"the pointer only moves forward" are what `MapReflectsItsStart` and
`PointerNeverGoesBack` establish there). What an import, a webhook or an upload
writes into a row is `ActivityProvenance`'s; `StravaImport` and `StravaWebhook`
say when it is written.

Operators marked *seeded fault* are not part of a model. Each is a plausible
mistake in the definition that follows it (a dropped guard, an off-by-one, a
wrong order), used to show that the property it is paired with in
`PROJECT.json` can fail.

### ArchivePipeline

One row per archive; `status`, `attempts` and `lost` (members counted as failed) are the columns,
`age` is the time since `updated_at`. The age is tracked only for the two
statuses an age guard reads (`awaiting_upload`, `processing`) and saturates one
tick past the largest threshold. Browser calls `NewArchive`, `ReuseArchive`,
`Upload`; handlers are split where the code leaves its transaction:
`CompleteRead` / `CompleteCommit` / `RejectCommit` / `RejectDelete`,
`RequeueRead` / `RequeueCommit`, and `RequestLost` when the web instance dies
in between. A drain execution is `ReapStuck`, `SweepAbandoned`, `FreeObject`,
`Claim`, then per archive `OpenArchive`, `IngestMember`, one of `FinishDone`,
`FinishFailed`, `FinishLost` (its UPDATE failed) or `ConfigReset`, and
`MailTerminal`. `Kill` ends an execution between any two of these.

* Time: a request begins and ends within one tick (requests time out in
  minutes, ticks are hours), so `Tick` waits for requests to end. An execution
  that has run `KillAfter` ticks is killed before time goes on.
* `KillAfter <= StuckAfter` is the assumption everything about leases rests on:
  `--task-timeout=3600` (`docs/strava/archive-signed-upload.md:78`) against
  `_STUCK_PROCESSING_HOURS = 3`. No drain refreshes `updated_at`.
* `attempts` saturates at the limit, above which no guard tells values apart.
* `MaxActs` bounds the client's and the admin's interventions; `Faults` names
  the failures of a run: kills, failed UPDATEs, dying web instances, a deploy
  that loses the bucket name.
* History variables: `disturbed` (a handler rewrote the row while a drain held
  it), `blamed` (an execution died working on it), `startMails`, `rejected`,
  `moved`.
* Left out: the e-mail to the owner of a reaped row, and the rebuild ping, which
  is `RebuildTriggers`'.
* `ArchiveLifecycle` is the abstract specification: an archive is taken by a
  drain that nobody else relies on, announced once, stored member by member, and
  settled, put back or dropped; the owner and the admin may step in, and then it
  is contested until the drains that hold it have let go. `Lifecycle` maps the
  status to what the owner is told, the executions whose batch still has the
  archive to its holders, and `disturbed` to contested. Ages, attempts, requests
  in flight, storage and mails disappear: a claim of several rows is one `Take`,
  the UPDATE of the reaper or of the sweep one `GiveUp`, a kill one `Drop` of
  what was left of the batch. What remains to be shown is that a row that is old,
  or tried too often, is one no live execution relies on. The property
  `KeepsItsPromise` is `Lifecycle!Spec`.

### ActivityProvenance

One user and one ride, which arrives as files and through the Strava API. A row
carries the columns that decide what is published. `UploadCheck` is the
duplicate queries of `ingest_activity`, `UploadInsert` / `UploadPromote` its
write in a later step; `SyncPreload` and `SyncFlush` are the bulk path;
`UpgradeFetch` / `UpgradeApply` the GPS upgrade; `BackfillRead` /
`BackfillWrite` the display-coordinates backfill, with `NewParameters` the
change of fingerprint that makes blobs stale; `Delete` the owner's deletion.

* A promotion goes through the ORM, which writes only columns that differ from
  what was loaded: `UploadPromote` keeps the loaded flag in the pending write.
* `OldRide` puts the ride before the preload's five-year cut-off; `SameClock`
  says whether Strava's wall-clock start, stored as if it were UTC, equals the
  start in the file (it does in UTC only).
* Two races are known to break publication and are set apart by history
  variables: `overtaken` (a GPS upgrade overwrote a promoted row) and
  `contested` (two promotions of one row). `PublishedUnderConsent` excludes
  these rows; `provenance_gps_race` shows the first.
* A promotion whose row disappears between query and load writes nothing; that
  is `UploadFails`.
* Left out: name, sport, photos, cells, the legacy heat tables.
* `ConsentLedger` is the abstract specification: a row shows nothing or one
  recording its owner agreed to, is published once, shows the very same until it
  is withdrawn, and never comes back; rows two writers fought over are in
  dispute. `Ledger` maps the geometry a build would draw (`Drawn` of an eligible
  row) to what is shown, and `overtaken` and `contested` to the dispute. Blobs,
  stamps and fingerprints, Strava rows, pending writes and batches disappear: a
  backfill that writes late, a deploy that makes blobs stale and a sync change
  nothing that shows. The property `KeepsTheLedger` is `Ledger!Spec`; unlike
  `PublishedUnderConsent` it speaks of steps, so that replacing one consented
  recording by another, or a late write to a deleted row, violates it.

### HeatmapPublish

Any number of overlapping executions of `build-pmtiles`. `Start` takes
`snapshot_started_at`, `Count` and `Draw` are the two passes of
`export_raw_geojson` over the consented traces, `UploadSnapshot` the immutable object named by hour and content, `Locate`, `ReadPointer`,
`WritePointer`, `LastLook` are `_publish_pointer_cas` with its retry and with
lost responses; `UploadCopy`, `Compare`, `ReplaceMutable` the mutable copy;
`RereadPointer`, `ListOld`, `DeleteOld`, `EndPrune` the prune; `Abort` an
exception or a death. `Contribute` and `Erase` change the database meanwhile.

* The passes are two SELECTs of one READ COMMITTED transaction, each with a
  snapshot of its own (`raw_trace_display.py:1295`, `1328`), and what others
  commit between them is in one and not in the other. A build carries what it
  `counted` and the `content` it draws. The K gate between the passes lets
  everything through at the deployed `HEATMAP_MIN_USERS=1`
  (`scripts/deploy-prod.sh:547`) and is left out; what the counts decide is the
  grade of each line.
* A snapshot's bytes are its two reads: two different pairs of reads are taken to
  give different bytes, and with them different names. `Abort` forgets all but
  the start and the reads.
* The clock counts build starts: two events are told apart only by the builds
  that began between them, which is all the code's comparisons
  (`created < started`, `theirs >= ours`) can see.
* A deletion deletes the generation that was listed, as the storage client does.
* `UnreadableReads` lets the download of the pointer's body fail. The passing
  run and the theorems assume it does not: the code then takes the pointer for
  an older one and overwrites it (section 6).
* One clock for all machines: skew between executions and storage is left out.
  Secondaries (geojsonl, per-sport files, raster tiles, `stats.json`) are
  last-writer-wins by design and left out. Losing the compare-and-set twice leaves an older pointer, which the code
  logs and accepts: `FinishedIsCovered` says nothing of a build that ended so.
* Every build's steps are bounded and nothing restarts one, so liveness belongs
  to the triggers (`RebuildTriggers`).
* `CommunityMap` is the abstract specification: a visitor sees the two reads of
  one rebuild, the counts first, each of the whole corpus and after the rebuild
  began, and they are replaced only by those of one that began later. That both
  reads are of one moment is not promised, because the code does not see to it
  (`DrawnIsCounted`, section 6). `Map` in `HeatmapPublish` maps the pointer's
  snapshot to what is shown, the database to the corpus and each build's reads to
  its own; bucket, compare-and-set, retries and prune disappear. The property
  `ShowsWholeReads` is `Map!Spec`: every step of a build is a step of the promise
  or changes nothing a visitor sees.

### StravaImport

One member's `import_jobs` rows. A row carries its status and the ticks since
`created_at` and `updated_at`; an ORM write stamps the latter (`Touch`,
`Settle`), raw SQL does not (`SettleRaw`), and the zombie rules depend on the
difference. An execution is a row and a path: `cloud` (the Cloud Run job),
`process` (background task of the web process when the start failed, or its
answer was lost: `Dispatch`), `resync` (the resync job). `Check` / `ImportAll` are
the two transactions of `/import_all`; `CloudStart`, `Queue`, `Pass`,
`QueueTimeout`, `Claim`, `Authorize` the queue; `Page` to `Finish` the phases,
`Fail` the outer handler, `Die` a death anywhere; `Sweep` the daily check.

* `ZombieAge`, `StaleAge`, `SweepAge`, `QueueWait` stand for the delays of the
  code; nothing is assumed of their order, nor of how long an execution takes.
* `seen` is the status an execution's session has loaded: a `Claim` of a row last
  seen RUNNING is no UPDATE and stamps nothing. `Pass` reloads it after a wait
  (`db.expire_all`).
* `misjudged` records the rows taken for dead or started twice.
* `MaxPages` bounds pages and batches. Rate limits are pauses: nothing is written.
* Left out: the progress cursor, the counts, the notifications.

### StravaToken

`acct` is the `integration_accounts` row, `strava` the current refresh token and
the first one since the last revoke, `lock` the holder of
`pg_try_advisory_xact_lock`. `Enter`, `Lock`, `Busy`, `PostAccepted`,
`PostRejected`, `PostTransient`, `Save`, `Record`, `Tell` are
`refresh_strava_token` and `record_refresh_failure`, split at every await and
commit; a caller keeps what its session has loaded. `Use` is a worker or an
import, `Fetch` / `Finish` the resync job (`Resyncs`). `Exchange` / `Store` are the OAuth
callback, which takes no lock; `Disconnect`, `Revoke`, `Deauthorize`, `Expire`.

* A post that Strava accepts kills the token before it, also when the answer is
  lost (`PostAccepted`) or the process dies before the write (`Die`).
* A refresh that comes to nothing ends a worker's session, and the lock with it
  (`End`). The resync goes on to the next member in the same transaction and keeps
  the lock until its next commit (`Quit`, `Leave`).
* `slips` names the two ways to a dead token: a lost answer, and a callback that
  overlaps a refresh. `rejected` and `notices` count for the properties.
* `MaxTokens` and `MaxRejections` bound the tokens and the rejections.

### StravaWebhook

`ride` is each ride on Strava, `sent` the events Strava still tries to deliver,
`named` and `tasks` Cloud Tasks. `Deliver` is the public handler: queued,
"failed" and unknown athlete are all answered 200. A name that was used is taken
for the same event (`Queue`). `Receive`, `DeleteActivity`, `Fetch`, `Ingest`,
`Retry` are the worker, whose fetch and write are two steps; `ResyncBegin`,
`ResyncPage`, `ResyncBreak`, `ResyncIngest`, `ResyncFail`, `ResyncEnd`,
`ResyncDie` the resync, which pages through a window while the list changes
under it (`Age` moves the window). No schedule starts it: the weekly one was
deleted (`scripts/deploy-prod.sh:133`, `623`), and an admin may start it by hand
(`POST /resync`, `admin.py:911`) or never.

* `resync.owed`: rides that were public since the resync began, emptied when the
  list shrinks under its pages, breaks off or is cut after `MaxPages`.
* `forgotten` holds the events that were lost on their way: given up by Strava,
  not queued, or dropped for want of an account or a token. A repeated delivery of
  an event that was queued is not one. `raced` holds rides whose delete was worked
  off while an ingest held them. They are the excuses of `DeletedOnStravaIsGone`.
* `since` is the time of the event that last made a ride public. `RidesArrive`
  excuses a ride only by an event lost from then on; an update lost while it was
  private excuses nothing.
* A row promoted to an upload keeps its Strava id and is deleted like any other;
  the module does not tell the two apart.
* `MaxEvents` bounds what happens on Strava.

### RebuildTriggers

Changes of the public traces are numbered as they are committed. `web` has one
request and one debounce window per process; `drain` is the drain with its
`_ArchiveRebuildPinger` (`TickMember`, `ArchiveFinished`, `BatchEnd`, and `Ping`
for `_ping`). `TriggerDebounced` opens the window before the trigger is tried, as
the code does; `TriggerDirect` is a deletion or a merge, which has no window.
`Restart` and `Kill` lose what is only in memory. `RemoveByWebhook` and a last
file that never comes (`UploadFile`) ask for nothing. `Weekly` is the schedule of
`scripts/deploy-prod.sh`.

* `excused` records, change by change, why nobody is going to ask for it.
* `MaxRequests` bounds the builds accepted and not yet started, `MaxChanges` the
  changes; windows count ticks up to their length.

### AccountMerge

`merge_synthetic_account` in one transaction, statement by statement: `Begin`
reads the pairs of the join, `Pair` works them off in any order, `Reassign` hands
over what is left or meets the UNIQUE constraint, `Commit` makes it visible,
`Rollback` undoes it. Other sessions import (`Import`), delete (`Remove`) and
confirm the address of the synthetic account (`Claim`) between any two.

* Start time and distance are one coordinate on `0..Last`; two rides match when
  theirs differ by at most `Window`, so that matching is not transitive. Rides
  without a date match nothing but their Strava id.
* A row's `use` is `personal` (from Strava), `withheld` (a manual upload without
  `contribute_heatmap`) or `shared`. The choice of the copy to keep looks at the
  source alone (`Community`, `account_merge.py:136-137`, `174-180`); what the map
  draws also needs the flag (`Feeds`, `activity_sport.py:46`). `EveryRideKeepsACopy`
  promises what the code sees to: a manual upload is never dropped for a ride that
  is not one. Whether the copy that stays feeds the map is another matter
  (`EligibleCopyKept`, section 6).
* `missed`: rides imported after the UPDATE of the hand-over has read, before or
  after the commit. `late`: all rides imported since the merge began.
* A promotion or a change of the flag during the merge is left out.
* The initial states are all pairs of accounts in which neither has a ride twice.
* An import waits for row locks and for what the survivor is about to own, and is
  refused what is there (`Locked`, `Waits`, `New`).

### HeatEdge

One edge under PostgreSQL's READ COMMITTED, one session per heat task, purge or
refresh. A session's record is what its open transaction has read, written and
locked; `contrib`, `edge` and `agg` are the committed rows. `HeatTask`,
`Contribute`, `UpsertEdge`, `CommitHeat` are `process_heat_compute` and
`_update_heat_edges` (the inline ingest and the drain make the same calls, the
drain with a refresh that waits for the end of the batch); `Delete` and
`ChangeSport` start a purge, `Recount`, `Rewrite`, `Prune`, `Drop` are
`_recompute_touched_heat_edges` with the trigger of migration 0046, and
`CommitPurge` its commit with `Onwards` what the caller does next; `BeginRefresh`,
`ClearAgg`, `SelectEdges`, `InsertAgg`, `RefreshFails` are `_maintain_heat_agg` and
`recompute_heat_agg_for_ways`, `Backfill` the full rebuild of the aggregate.
`DeleteByWebhook` removes the ride and purges nothing. `Abort` is a deadlock or a
lost connection, which is also what ends every wait.

* A statement that waits for a row writes the row's new version, with the values
  it had computed from its own snapshot: `Recount` / `Rewrite`, `Prune` / `Drop`,
  `BeginRefresh` / `ClearAgg` and `SelectEdges` / `InsertAgg` are snapshot and write
  of one statement each. A row that was deleted meanwhile would be skipped
  (`seen`); `PurgesFindTheirEdge` proves that a purge never meets this.
* History: `raced` (the last purge that wrote the counts had company), `belated` and
  `unpurged` (contributions written after the purge had looked, or left by a
  delete event), `lapses` (a refresh failed, or was overtaken).
* `MaxChanges` bounds the changes of sport. Counts need no bound: rides and
  sessions are few.
* The way has one edge, so that the MAX over its edges is the edge's count.
* Left out: direction and slope, the merge of near edges, grid edges (no
  aggregate), two changes of sport of one ride at once, `rebuild_heatmap`, the
  rewrite of the hash in an account merge.

## 4. Runs

| run | instance | question |
|---|---|---|
| `archive_one` | 1 archive, 2 drains, 1 request, 2 members, all contents and faults, 5 interventions | exclusion, start e-mail and meaning of `done` under every interleaving; the refinement of `ArchiveLifecycle` |
| `archive_live` | 2 archives, 1 drain, all contents and faults, fairness | every archive settles, abandoned slots are freed |
| `provenance_race` | 2 ids, 3 files (one undated), 2 uploads, sync, upgrade, backfill, 2 parameter sets | consent and duplicates under every interleaving; the refinement of `ConsentLedger` |
| `publish_two` | 2 builds, 2 traces, 2 hours, 2 changes, deaths | pointer, snapshot, freshness, mutable copy, erasure; the refinement of `CommunityMap` |
| `strava_import` | 2 rows, 3 paths each, a doubled start, deaths and hangs, fairness | overlaps only by misjudgement; what is reported stands; every row leaves RUNNING |
| `strava_token` | a worker and the resync, 3 tokens, threshold 2, deaths, fairness | live tokens, earned failure counts, every call ends |
| `strava_webhook` | 2 rides, 2 workers, pages of one ride, 2 events on Strava, fairness | deletes, privacy, arrival unless an event was lost |
| `rebuild_triggers` | 1 web process, 2 archives, 2 changes, 2 pending builds, fairness | reasons of a stale map, worth of an accepted request, truth of the e-mails, catching up |
| `account_merge` | 3 rides in every relation over 3 coordinates and one Strava id | no ride lost, no orphan, no unexplained refusal |
| `heat_edge` | 3 rides of 2 riders, 2 sessions, 1 change of sport | exact counts, no contributor without its edge, an aggregate that follows, no heat without a ride |
| `archive_freed_failed`, `provenance_gps_race` | smallest that shows it | one disagreement each, section 6 |

Why the bounds are enough to be interesting: two drains suffice for any race
over a lease, since exclusion speaks of two holders; two attempts let a row be
claimed, lost, reclaimed and reaped; five interventions are upload, complete, a
second complete, a requeue and one more. Three files give a dated pair (one
ride, two recordings) and one the ride matching cannot see. Two builds reach
every answer of the compare-and-set that one competitor can cause. In
`strava_import` the delays are ordered as in the code (zombie before stale before
sweep) and the queue wait is longer than the zombie delay, so that a waiting row
is taken for dead. Three tokens let a callback and two refreshes follow each
other, and a revoke fall between any two. Two rides and pages of one make every
change of Strava's list happen between two pages. Two changes and windows of one
and two ticks let each window swallow what the other does not. Three rides are
the least in which one ride matches two, and in which a copy that was kept for
one pair can be dropped for another, and the least in which a purge recounts an
edge that keeps a contributor while another is added. What goes beyond the bounds is the business
of the theorems.

Deadlock is checked in the archive, provenance and heat runs. The others switch it
off, because what they bound runs out: builds, rows, tokens, events, changes.

**Fairness.**

* `archive_live`: time, requests, operators and the drain's own steps are weakly
  fair: Cloud Run executes a live job, a request ends, the misconfiguration is
  noticed. The job is scheduled daily, and reap, sweep and claim are strongly
  fair: an execution may be killed before it claims, but not every one of them.
  Nothing is assumed of kills during the work: a poison archive settles through
  the reaper. Interventions are finite (`MaxActs`), without which a client that
  calls `/complete` for ever keeps its row open.
* `strava_import`: only the clock and the daily check. Executions may hang or die
  as they like.
* `strava_token`: a caller's steps are weakly fair: a live process goes on, and
  Strava answers or the request times out. The lock itself is not fair; that a
  call ends although others take it is the point of the second and last try.
* `strava_webhook`: Strava gets an answer for an event or gives up; an attempt of
  a task ends, if only with its timeout (WF per worker); Cloud Tasks runs a task
  again until it is answered 200, and not every attempt at the tasks of one ride
  fails (SF of `Receive`, `Fetch` and `Ingest` per ride). The queue's limit of
  attempts is not in the repository; a task that runs out of them is a lost event
  the model does not have. Nothing is assumed of the resync, which may never
  start, nor of the events, all of which may be lost.
* `rebuild_triggers`: the weekly schedule comes round, an accepted build starts,
  and not every build dies.

## 5. Proofs

Each holds for every number of archives, executions, rows, files, builds,
traces, imports, callers, rides, workers and changes, and for all delays and
limits its module's assumptions admit.

* `ArchivePipelineProofs`: `TypeCorrect`; `DrainsExclude` and `LeasesHold` from
  `Lease` - an archive in a live batch is `processing`, its age is at most the
  execution's running time, and no other execution holds it, unless it was
  disturbed. The age of the row is bounded by the age of the holder, the holder
  by `KillAfter`, and that by `StuckAfter`: neither reclaim nor reaper can take
  a held row. `StartMailsOnce` from `FirstClaim`, which ties the start e-mail to
  the one claim that took `attempts` from 0 to 1. `DoneIsCovered` from
  `Covered`: of every archive being drained, members are to do, bad or stored.
  `Implements` is the refinement (`Spec => Lifecycle!Spec`), from `RefineInv`:
  type correctness, these three, and `Called`, which says that a handler in
  flight speaks of a row that exists. The hard steps are the claim and the
  reaper: `FreeToTake` shows that a row that either may have is held by nobody
  or was disturbed. `PromiseMeansOneHolder` proves from the actions of
  `ArchiveLifecycle` alone what the promise is worth: one holder at a time, and a
  row that is as the holder left it.
* `ActivityProvenanceProofs`: `InvHolds` and from it `PublicationIsConsented`,
  `TwinsWereConcurrent`, `UpgradeKeepsOff`. The strengthening speaks of what is
  in flight: pending inserts and promotions, rows a GPS upgrade has selected,
  the blob the backfill is about to write. `Implements` is the refinement
  (`Spec => Ledger!Spec`). `Inv` is too weak for it: that a blob was consented to
  does not make it the blob of this row. `BlobIsGeometry` adds that on a row no
  race has touched the blob, and the one about to be written, is the row's own
  geometry, whatever its stamp; then `ShowsGeometry` makes what is drawn
  independent of blobs and parameters, and each step is an `Agree`, an `Add`, a
  `Publish`, a `Withdraw` or a `Dispute` (of no row, for most).
  `LedgerMeansAgreed` proves from the actions of `ConsentLedger` alone that
  undisputed rows show what was agreed to, and rows that are gone nothing.
* `HeatmapPublishProofs`: `PointerMonotone`, `PointedExists`, `MapReflects`,
  `FinishedCovered`, `MutableFollows`, `ErasedOnlyByOverlap` and `Implements`,
  all assuming that a pointer that exists can be read. The invariant
  `PublishInv` says that generations only grow and a build about to write over
  the current generation is newer than the pointer (`WritesForward`); that its
  snapshot is in the bucket unless a newer build has published and pruned it
  (`SnapshotsHeld`); and that a pruner's victims are older than the pruner while
  the pointer is not (`DoomedAreOlder`, `FinishedIsCovered`). The last two
  together keep any prune off the pointed snapshot, and the second makes sure a
  write never points at nothing. `PruneInv` adds that the name of a snapshot
  tells the corpus at its build's start and that a prune that missed nothing
  covers every older object. `Implements` is the refinement
  (`Spec => Map!Spec`): with `CaptureInv`, a build that publishes has made both
  reads and drawn something, so that each step of a build is a `Begin`, a `Count`,
  a `Draw`, a `Show` or a stutter of `CommunityMap`. That both reads are of one
  state of the corpus is neither proved nor true.
* `StravaImportProofs`: `RowSpeaks`, `Serialised`, `Reported`, `NoneLeftBehind`.
  `SoleInv` (a row nobody misjudged has one execution) makes the row's status
  speak for its execution; then a second execution that passes the queue has seen
  the first one's row, or taken it for dead. `AnsweredInv` strengthens
  `RunningHasExecution`: a background task that only polishes answers for no row,
  since its end leaves the status as it finds it. `Reported` is the action
  property `ReportStands`, from `ReportInv`: whoever still works on a settled row
  polishes what it completed, so the unconditional COMPLETED that ends a Cloud Run
  import never covers a FAILED.
* `StravaTokenProofs`: `StoredLives` and `PostedLives` from `Locked` (who posts or
  saves holds the lock), `RefreshCurrent` (and has read, or has got, the current
  token of the present row) and `CallbackAlone` (a callback that slipped nowhere
  meets no refresh). `CountsAreEarned` from `Counted`, which bounds what every
  session has loaded by the rejections, one less while its own is unwritten: stale
  counts can lose an increment and never invent one.
* `StravaWebhookProofs`: `NothingSlips` from `OwedIsAhead` - what the resync owes
  it has, or has ranked behind the pages it has read. A ride created meanwhile is
  last and moves no rank (`CreatedInOrder`, `RanksStay`), and a page that is not
  full is the last (`ShortPageIsLast`), because ranks have no gap
  (`RanksHaveNoGap`, by the least element of a set of naturals). `DeletedIsGone`
  from `DeleteFollows`: a deleted ride that is here still has a delete event
  queued, or with Strava under a name Cloud Tasks has not had. `PrivateOut` from
  `HeldWasPublic`.
* `RebuildTriggersProofs`: `AcceptedIsCarried`, `StaleForAReason`, `OwnersToldTruth`, from
  `RequestsCarry` (an accepted request becomes a build that shows what had been
  committed, or is seen to die), `SomebodyHolds` (a change no request covers is
  with a web request, the open archive or the pinger) and `PingerHolds`.
* `TransactionProofs`, about the two modules whose sessions are transactions of
  the database. Of `AccountMerge`: `RidesKept` from `Justified` - a dropped ride has a copy
  that is consumed and so never dropped, or is personal and was dropped for a
  manual upload - and `RowsKept`; whether the copy feeds the map is not claimed; `RefusalsExplained` from `Processed` and
  `ConsumedFor`: every match was worked off or passed over for a ride already
  paired; `OrphansLate` from `NothingLeft`: what the deleted user still owns was
  imported after the hand-over had read, before the commit or after it. Of `HeatEdge`: `CountsExact`,
  `NoOrphanContributors` and `PurgesFindTheirEdge` from `EdgeInv`, which says of
  every open transaction at which statement it holds which rows (`Shape`), that
  what it has read of rows it holds is still so (`Current`), and what a purge that
  is alone will write (`Exact`): the counts of the contributors it leaves, by
  cardinality lemmas (`CountedOneMore`). Contributor rows held by a purge keep
  its edge from being deleted, since whoever deletes an edge must first delete
  them. `AggregateFollowsEdge` from `AggInv`: a refresh that is about to insert
  counts that are no longer the edge's either notices, or somebody is to refresh
  after it. `HeatHasItsRide` from `RideInv`: a purge holds its ride's contribution,
  or it came after the purge had looked.

Each of these components also has `TypeCorrect`, on which the other theorems of
its module rest (`MergeTypeCorrect` and `EdgeTypeCorrect` in
`TransactionProofs`), so that no run needs to repeat `TypeOK`.

Only model-checked: the liveness properties (`EveryArchiveSettles`,
`EveryImportSettles`, `EveryCallEnds`, `RidesArrive`, `EveryChangeIsShown`),
since temporal properties under fairness are beyond the prover. Every other
property of a passing run is proved.

## 6. What the code does not keep

Listed in `PROJECT.json` with a run each:

* the sweep commits `failed` and deletes the object afterwards, under a
  `/complete` answered 202 in between (`archive_freed_failed`);
* a GPS upgrade in flight overwrites a promoted row's uploaded geometry
  (`provenance_gps_race`).

The modules state some more, which TLC refutes too on instances of the same size
but which have no run of their own:

| statement | what happens |
|---|---|
| `ReapedWasBlamed` | a batch's attempts are charged at the claim, so a poison archive exhausts its batch peers, which are failed as "likely too large" |
| `OneMailPerTransition`, `RejectedNeverRedrained` | a repeated `/complete` compares no status |
| `NoDuplicateFile` | two uploads of one file in flight |
| `ConsentedUploadServed` | a ride uploaded as personal, then again with consent, is dropped |
| `PromotionAdoptsIntent` | two promotions of one row |
| `PreloadFindsUpload` | with `OldRide = TRUE` or `SameClock = FALSE` |
| `NewerPointerStays` | with `UnreadableReads`, an unreadable pointer counts as an older one and is overwritten |
| `DrawnIsCounted` | a ride contributed between the two queries of a build is drawn and not counted, one erased there counted and not drawn, although `raw_trace_display.py:893` says that the second pass "lines up with" the counts of the first, and line 1051 that every cell drawn has a user "by construction" |
| `ErasedLeavesMap` | erasing the last trace leaves the map as it is |
| `ErasedLeavesSnapshots`, `ErasedLeavesTemporaries` | the snapshot of an overlapping older build stays until the next build, as a comment in the code admits; the temporary copy of a killed build is never pruned |
| `OneImportAtATime` | two imports of one member overlap after a row was taken for dead |
| `OnlyLossKillsToken` | the callback takes no lock, so a refresh can overwrite its token |
| `ToldOnce` | two callers that load the same count both reach the threshold |
| `HiddenIsGone` | the update event of a ride that was made private is dropped as private, and so is the ride in the resync, so that what was stored while it was public stays, although `internal_strava_webhook.py:182` says an update "honors a new privacy flag" |
| `PassCountIsContributorCount` | a purge recounts an edge in its own snapshot while another ride commits to it; `pass_count` is then not the number of contributors (`activity_deletion.py:11` says it is "by construction"), and the other session may have counted the departing rider into `user_count` |
| `RefreshIsConcurrencySafe` | the refresh of a way without an aggregate row locks nothing: of two such refreshes the one that read first may write last, although `rebuild_heat_agg.py:18` calls it "concurrency-safe" |
| `WebhookDeleteCascades` | a delete event of Strava leaves the ride's contributions behind: the trigger the handler counts on (`internal_strava_webhook.py:224`) is on `heat_edges` |
| `DroppedHasTwin` | windows do not chain: the copy kept for one pair is dropped for the next, so a dropped ride may have only the twin of its twin |
| `EligibleCopyKept` | a consented ride of the absorbed account is dropped for the survivor's manual upload that was withheld from the map: two community sources tie, although `account_merge.py:126` says that the community-eligible copy is kept |
| `NeverAbsorbsClaimed` | the address is confirmed between the check and the commit |

Exposures noted while reading and stated by no property:

* Archive pipeline: the UPDATE that ends an archive fails and the row waits for
  the stale window; the quota counts in one session and inserts in another; a
  member claimed by a job that dies stays `processing` for good, since
  `_claim_batch` selects `pending` only.
* Store: the preload's cut-off compares the ride's date, not the upload's;
  Strava's wall-clock start is stored as if it were UTC; the advisory lock of the
  bulk path gives up after a while and goes on without; a promotion whose row was
  deleted before the load writes nothing and reports success; a delete event of
  Strava removes a row the member has also uploaded.
* Publication: a read of the pointer that fails looks like no pointer; a build
  killed between the temporary upload and its delete leaves the object.
* Imports: the 90-minute guard of `/import_all` gives up rows that are at work.
* Tokens: the row is loaded before the lock and read again under it; a refresh
  that fails for the moment ends a webhook task with 200, although
  `internal_strava_webhook.py:288` says that Cloud Tasks retries.
* Webhook: a lost event is made up for only by a resync that somebody starts by
  hand. Its scheduler is deleted (`scripts/deploy-prod.sh:133`, `623`;
  `integrations_strava.py:941` and `internal_strava_webhook.py:411` call it gone
  too), while `docs/prod-deploy.md:73-86` and `scripts/deploy-prod.sh:172` call it
  weekly and load-bearing. The list is cut after `MAX_PAGES_PER_USER`; `cloud_tasks.py:411` says
  that the handler re-raises on "failed", and it answers 200.
* Triggers: every trigger is best-effort; a ping refused inside the batch waits
  for the next tick. `services/run_jobs.py:33` and `api/imports.py:444` say there
  is no scheduled rebuild, and `scripts/deploy-prod.sh` schedules a weekly one.
* Merge: the account is checked before the transaction's locks; the comment at
  `services/account_merge.py:300` calls the hand-over safe "now that colliding
  dups are gone", which `RefusedOnlyForTwins` qualifies.
* Matched heat: a ride deleted or given another sport while its trace is being
  matched gets contributions that nobody purges (`belated` in `NoHeatWithoutARide`);
  the comment at `jobs/rebuild_heatmap.py:81` says that every rerun doubles the
  counts, which the contributors' flag has ended.
* A Strava ride its member deletes here comes back with the next resync, which
  knows no tombstones; `StravaWebhook` has it (`DeleteByMember`).

## 7. Not modelled

The lines the map covers are a small share of the repository, because most of it
is not what these modules are about: parsing of GPX and FIT, numerical geometry
and rendering, routing profiles and elevation, request-at-a-time CRUD of the
social features, statistics and personal views, exports, the web front end,
deployment, and one-off command-line repairs. Their correctness is in values, not in orders of steps,
and the repository tests it as such.

Stateful and left for later (section 2): the per-member queue, archive admission,
and, smaller, magic links (one conditional UPDATE over a single-use ledger) and
notifications. Within the
modelled components, section 3 and the notes in `PROJECT.json` say what is left
out, which is why each of them is listed as partly modelled.
