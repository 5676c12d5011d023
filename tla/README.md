# A TLA+ model of Ryokan

Ryokan is a self-hosted anime PVR written in Rust (axum, tokio, SQLite): it
finds releases, hands them to a download client, imports the finished files
into a library and keeps the library in step with AniList. This directory
holds TLA+ modules of its concurrent core, TLC configurations that check them
on small instances and TLAPS proofs of their safety properties. Paths below
are relative to the repository.

Nearly everything interesting in this program has the same shape. A handler or
a background loop reads rows, then awaits (a download client, a file copy, an
HTTP call), then writes by row id. SQLite makes each statement atomic and a few
statements carry their own guard (`WHERE state = 'pending'`, `INSERT ... WHERE
NOT EXISTS`); hardly anything else is serialised, and the request handlers
share no lock with the loops. So the unit of interleaving in every module is
one SQL statement or one client call, and what a handler read stays in its
local record until it is used.

## Inventory

| Component | State | Operations | What is hard, and what makes it correct |
|---|---|---|---|
| Interactive file picker: `handlers/grab.rs`, `models/pending_grabs.rs`, `services/grab_sweep.rs`, `static/js/grab_picker.js` | `pending_grabs` rows; the torrent in the client | preview, metadata task, heartbeat, selection, confirm, cancel, sweep | two tabs, an add that outlasts the TTL, a sweep that works from a copy. One live preview per release; nothing deleted that the picker did not add; a closed modal is committed and its row goes |
| Grabbed torrents: `models/grabbed_torrents` | one row per grab: pending, imported, failed, removed, replaced | `record_grab`, `mark_*`, `stamp_*` | unguarded updates by id over a state machine; the unique index on live hashes |
| Post-processing: `services/post_processing` | `POST_PROC_LOCK`; a snapshot of pending rows and client listings | `run_once`, import, `escalate_if_stalled`, `advance_state_without_import` | minutes between snapshot and write; cancel in between |
| Client cleanup: `post_processing/client_cleanup.rs` | `client_removed_at` | `remove_after_import`, `sweep_finished_seeds_now` | deletes by hash on the strength of an old snapshot |
| Misgrab guardrails: `services/misgrab`, `handlers/library/misgrabs.rs` | verdict and action per grab, `MISGRAB_LOCK` | verify (grab-time task, import, sweep), remediate, restore, dismiss | three judges with their own aliases; remediation over two systems against Restore. The first verdict stands; a restored release is never flagged again; what was removed is blocklisted |
| Redownload: `services/redownload.rs` | recent failures | after a failed download | the loop breaker's bound |
| Episode handlers: `handlers/library/episodes` | tags, files, pending grabs | cancel, delete, mark failed | destructive calls beside a running import |
| Grab entry points: search, RSS, upgrade, autobrr | none of their own | add to client, then `record_grab`, then (some of them) `set_indexer_attribution` | the add is not undone when the record is refused; the seed-rule flag comes in a statement of its own |
| Scheduled tasks: the loops of `main.rs`, `handlers/system`, `models/scheduled_tasks.rs` | a row per task (status, last run); a lock per task; the loop's timers | tick, Run now, panic, restart, recovery at boot | two writers of one row, eleven programs that mark and lock in different orders, an interval that survives a restart only in the row. A row that says running has a run behind it; runs keep their period and keep coming |
| AniList rate limiter: `services/anilist/rate_limit.rs`, under every client of AniList; metadata sweep: `services/metadata_sync.rs` | the turn, the last request, AniList's latest numbers, the cooldown; what the sweep put off | throttle, read an answer, cool down; refresh every series, retry, wait | callers queue, sleep, leave and learn new numbers meanwhile; a cooldown that others keep starting anew. Requests keep their spacing; a refused sweep sends no more and still ends with every series accounted for |
| Indexer cooldown | retry-after per indexer | report 429 | several searches at once |
| Recycle bin: `services/recycle`, `handlers/system/recycle.rs` | an entry directory with a manifest per recycle | recycle, restore, Delete now, Empty, purge | renames and copies of a minute under deletes that take no lock, an import and a temp-file sweep; a crash between move and manifest. No video is lost unasked; what was recycled stays listed; a restore replaces nothing |
| Backup and restore: `services/backup`, `handlers/system/backup.rs`, boot in `main.rs` | the pending directory, the `.pre-restore` files, the backup folder, `BACKUP_LOCK` | upload, stage, cancel, apply at boot, folder backups, pruning | three files swapped one rename at a time, a crash or a failing call at each. Key, database and `-wal` stay together; the previous database survives; a restore is applied once |
| External list sync: `services/external_sync`, `models/external_accounts.rs`, `models/sync_exclusions.rs` | cursor and last full sync of the account; exclusions; each series' mode, pin and account; `EXTERNAL_SYNC_LOCK` | tick, Sync now, merge, removals, stamp; link, unlink, pin, add, remove | network calls between reads and writes, a list that comes page by page (MAL), a mode and its episode rows written apart, and no handler takes the lock. Nothing slips behind the cursor; a delta does not read as removals; pins and exclusions win |
| OAuth state, sessions, API keys | tokens with expiry | issue, consume | single use |
| Manual import: `services/manual_import` | sessions with expiry, `IMPORT_LOCK` | preview, apply | another lock than the tick's; the preview decides what the apply does much later |
| Search, scoring, custom formats, naming, providers, UI | none, or caches | pure functions, HTTP | string work, no concurrency |

`PROJECT.json` lists them all with their status, and under `hazards` the places
where the code is hard to test.

## Plan

1. `PendingGrabs` with the abstract `PreviewLease`: the file picker. Built.
2. `GrabLifecycle` with the abstract `GrabLedger`: `record_grab`, the
   post-processing tick, the finished-seed sweep, and the requests that cancel,
   delete or fail an episode. Built and proved.
3. `Misgrab`: verdicts, remediation, restore and dismiss. Built and proved.
4. `StagedRestore` and `RecycleBin`: the restore at boot, and the bin under
   everything that moves a video, the file swap of an upgrade included. Built
   and proved.
5. `ListSync`: cursor, merge and removals against a list that changes. Built
   and proved.
6. `Redownload`: the bound on automatic re-grabs, on top of `Misgrab`.
7. `TaskRuns`: the scheduled tasks and their rows. Built and proved.
8. `AniListPace`: the pace of requests to AniList and the metadata sweep. Built
   and proved. `Cooldown`: the indexers' retry-after.
9. Pure operators: upgrade policy and source order as total preorders.

Each module takes its bounds as constants with named assumptions, has one
action per statement or client call and uses no RECURSIVE operator, so it can
be proved about as well as checked.

## Modules

| Module | What it is |
|---|---|
| `PendingGrabs` | the picker: table, handlers, metadata task, sweep, client |
| `PreviewLease` | what a preview promises: an exclusive, one-time lease on a release |
| `MCPendingGrabs` | instances for TLC |
| `PendingGrabsProofs` | types, the safety properties with their inductive invariants, `PendingGrabs` implements `PreviewLease` |
| `GrabLifecycle` | the grabs of one episode: handlers, table, client, tick, sweep, requests |
| `GrabLedger` | what the table promises: rows open once per live release and close for good |
| `MCGrabLifecycle` | instances for TLC |
| `GrabLifecycleProofs` | types; one live row per release; `GrabLifecycle` implements `GrabLedger`; the episode's one owner, the seed rules, the files of a partial import |
| `Misgrab` | verdicts on grabs: three judges, remediation, Restore, Dismiss |
| `MCMisgrab` | one instance for TLC of `Misgrab` and of `AniListPace` |
| `MisgrabProofs` | types; a verdict stands, a restored release is left alone, a removed one is blocked |
| `StagedRestore` | an uploaded restore, from the upload to the boot that applies it |
| `StagedRestoreProofs` | types; a boot is all or nothing and can be undone; an upload is applied once |
| `RecycleBin` | one episode's files under deletes, imports, sweeps, restores and purges |
| `MCDisk` | one instance for TLC of the two modules about files |
| `RecycleBinProofs` | types; no video is lost, what was recycled stays listed, imports keep their files; `MCDisk` is both its parts |
| `ListSync` | the watch-list sync, the library that follows it and the user |
| `MCListSync` | its instance for TLC |
| `ListSyncProofs` | types; a sync respects pins and exclusions; nothing slips behind the cursor |
| `TaskRuns` | the scheduled loops, Run now, the rows they write, panics and restarts |
| `TaskRunsProofs` | types; rows stay honest; automatic runs keep their distance |
| `MCLoops` | one instance for TLC of the picker and the scheduled tasks |
| `AniListPace` | requests to AniList: throttle, cooldown, metadata sweep |
| `AniListPaceProofs` | types, the pace of the requests, the end of the sweep |

### `PendingGrabs`

| Variable | Code |
|---|---|
| `rows` | the `pending_grabs` table; `stale` says that `heartbeat_at` is older than `HEARTBEAT_TTL_SECS`, `posted` is `wanted_indices_json` (`{}` is NULL) |
| `open` | the previews some browser shows |
| `preview` | the await each `grab_preview` call has reached |
| `meta` | the task it spawned, waiting in `wait_for_files` |
| `req` | `grab_confirm` and `grab_cancel` calls, with what they read of the row |
| `sweep` | `sweep_once`: the rows `list_expired` returned, and the one at hand |
| `torrent` | the client's torrent of each hash: absent, held (paused, or running with nothing wanted), running; which files are wanted; who added it |
| `grab`, `blocked` | the hashes with a pending grab row, and those blocklisted |

`torrent.origin` is not program state. It records who added the torrent, so
that a property can say whose torrent was deleted; no guard reads it.

The actions follow the handlers await by await: `Preflight`, `Reserve`,
`AnswerAdd`, `FinishAdd`, `CheckTakenOver`, `TakeBack` for a preview;
`ConfirmStart` to `RequestDrop` for confirm; `CancelStart`, `CancelDelete`,
`RequestDrop` for cancel; `SweepList`, `SweepPick` and one action per call for
the sweep. `Faults` selects what may go wrong.

What it leaves out: database errors; refused requests, which change nothing;
a file list that is an empty array; the client a preview is routed to (one
client); the order in which the sweep takes its rows (any order here); time,
of which only the expiry of a heartbeat is kept. A client's add is one step,
although qBittorrent's adapter asks `has_torrent` first.

### `GrabLifecycle`

All its grabs are of one episode of one series, which is where grabs meet: an
import replaces the earlier grabs of its episode, and the requests look grabs
up by episode.

| Variable | Code |
|---|---|
| `grabs` | `grabbed_torrents`: `state`; `done` is `imported_at`, `mode` `import_mode`, `gone` `client_removed_at`, `aged` a `grabbed_at` over a minute old, `seen` `completed_seen_at` and whether the stall limit has passed since, `ruled` `respect_seed_rules` |
| `handler` | the await a grab handler has reached: added to the client, recorded, its row stamped with the indexer's seed rules, tagged; and the row id `record_grab` gave it |
| `item`, `source` | the download client: the state of each hash's item, and whether its files are on disk |
| `library` | the release whose file the episode has |
| `owed` | no program state: the releases with a file that could not be imported, for `PartialNeverSwept` to speak of; no guard reads it |
| `tag` | the episode's row in `episode_quality_tags`: release and state |
| `tick` | `run_once`: its snapshot of pending rows, the listing it took, the row at hand and the await reached, the old grabs an upgrade replaces (`olds`), the one whose torrent it deletes (`old`) and those to mark after the file loop (`flush`) |
| `loop`, `due` | the once-a-minute loop of `main.rs`, which runs the tick and then the sweep; the sweep's own interval |
| `sweep` | `sweep_finished_seeds_now`: work list, listing, row at hand, vanished items |
| `req` | `cancel_pending_episode`, `delete_episode_file`, `mark_episode_failed`, with what they have read |
| `grace` | `IMPORT_STALL_BOOT_GRACE_SECS` |

`GrabAdd` to `TagGrabbed` are the handler. `EntryPoints` says which handlers there
are: "search" is the automatic search and autobrr's webhook, which stamp the row
(`StampRules`: `auto_search.rs:757`, `autobrr.rs:512`), "interactive" every
other, which never does (`search/grab.rs:205` and `:486`, the RSS sync, the
upgrade search, a confirmed preview). A release is protected by the flag on a
row, not by being in `Ruled`: `Spared` is what `respects_seed_rules` finds in
the table, and each caller looks first and deletes in a later step. `TickStart` to `TickFinishTag` the
tick, one action per statement or client call; `SweepStart` to `SweepEnd` the
sweep; `CancelStart` to `CancelClear` the requests. The row a tick or a request
works on is the row it read: every `UPDATE ... WHERE id = ?` writes it whatever
has become of it, except `mark_imported`, which asks for a pending row
(`MarkImported`), and `mark_completed_no_import`, which the unique index
refuses while another live row names the release (`TickFinish`).

`GrabLedger` has two steps. `Open` needs a release no live row names; `Close`
takes a live row out for good. It is written without any of the seven
actors, so that the refinement says what the table's readers may rely on.

What it leaves out: several clients; rows without a hash, which are matched by
name; misgrab verdicts; database errors the code ignores with `let _ =`; pinned
tags; requests on a range of episodes or a season; a release that two indexers
have; the flag Restore copies to its new row (`misgrabs.rs:250`). Placing a file is one step,
which succeeds or fails: the staging beside the old file, the recycling and
what a crash leaves between them are in `RecycleBin`. In move mode a restart
between placing the file and `mark_imported` leaves a pending grab whose source
is gone, and nothing to import (`post_processing/mod.rs:3538`); the code states
no promise for it. Rows are visited in any order, where the code orders them by
`grabbed_at`.

### `Misgrab`

| Variable | Code |
|---|---|
| `row` | `grabbed_torrents`: `state`, hash and series, `verdict` (`verification`), `action` (`misgrab_action`) |
| `item` | the hashes the download client holds |
| `grabber` | automatic grabs between the client's add and `record_grab` |
| `judge` | the task each grab spawned: waiting for the file list, then holding the verdict it will stamp |
| `tick` | the import of one row: the check before it and the verdict at hand |
| `sweep` | `sweep_once`: its two lists, the row at hand and the call reached |
| `req` | `restore_misgrab` and `dismiss_misgrab` |
| `restored`, `cancelled`, `misread` | no program state: hashes a restore was answered for, hashes of cancelled grabs, whitelisted hashes that a judge took for not whitelisted because its read failed |

What it leaves out: what makes a file list a misgrab (a verdict is either of
two; verified and unverifiable fare alike and are "cleared"); the setting
`misgrab_auto_remove`, which is any of its values when it is read; the search
that follows a removal, which is one of the grabs that can happen anyway, and
its loop breaker; `reviewed_at`, which only hides a row; minimum ages and
grace times, which have passed or not; tags, notifications, the removal of a
series, and rows that failed for another reason.

### `StagedRestore`

A file is known by whose it is: the installation's own, an upload's, one that
SQLite or the key loader made afresh, or torn.

| Variable | Code |
|---|---|
| `dbFile`, `wal`, `keyFile`, `aside` | the database, its `-wal` (`-shm` goes along), the key, and the `.pre-restore-<stamp>` files |
| `pendingOf`, `pendingParts` | the pending directory: its upload and what is left in it |
| `archives` | the backup folder |
| `phase`, `keyReplaced`, `outcome` | how far the boot, that is `apply_pending_restore`, has come, and how it ended |
| `upload`, `lock`, `folder`, `cancelling` | the requests: uploads, `BACKUP_LOCK`, the folder backup with its pruning, a cancel |
| `keyElsewhere` | the key's path is on another filesystem, so that it is copied and not renamed |
| `before`, `placed`, `cancelled`, `deleted`, `cutCancel`, `splitAside` | history, for the properties |

What it leaves out: what an archive holds beyond its parts, and its
validation, which is either answer; artwork, which is replaced or warned about;
work directories swept at boot.

### `RecycleBin`

| Variable | Code |
|---|---|
| `waiting` | videos ready to be imported |
| `lib`, `seriesDir` | the series folder: the episode's video, a companion, the hidden name of a staged upgrade |
| `entry` | the bin's entry directories: files, manifest, age |
| `job` | requests and tasks under way: delete, remove series, import tick, manual import, temp-file sweep, restore, Delete now, Empty, purge |
| `plan` | what the behaviour may contain; the bin is on the library's filesystem, on another, or off |
| `owed`, `recycled`, `purged`, `halfGone`, `overtaken` | history, for the properties |

`recycled` pairs a video with the entry a finished recycle put it in. A video
may be in two places, in the middle of a move between filesystems or after a
crash in one, and a staged upgrade that is given up is `waiting` again.

What it leaves out: other episodes and more companions; imports that copy or
link; half-written copies (`.ryokan-tmp`); what a manual import's preview said,
which is either answer. Each kind of fault happens once at most, and entries
age only while nothing is under way.

### `ListSync`

| Variable | Code |
|---|---|
| `account`, `weekly` | the row of `external_accounts`: its id, whether it has a cursor (`list_last_synced_at`), whether `list_full_resync_at` is a week ago |
| `list`, `fresh` | each account's list at the provider, and the titles whose `updated_at` is not before the cursor |
| `lib`, `excluded` | `series` (there or not, mode, pin, account it was synced from), with the mode its episode rows were last derived from (`rows`); `external_sync_exclusions` |
| `adding`, `leaving` | add and remove requests between their two writes |
| `deriving` | `recompute_series_monitoring` in a handler, or the task of an add: still to read the mode, or the mode it read |
| `sync` | the sync under way: entries, the pages so far (`seen`, and `shifted` by an edit between two of them), details, loaded exclusions, what it read of the row at hand, its own recompute (`of`, `mode`) |
| `owes`, `unread`, `torn`, and `settled`, `stay`, `barred` in `sync` | history, for the properties |

One status that is imported and one that is not stand for all. AniList answers
for a list in one request (`anilist/mod.rs:248`, `SyncFetch`); a MAL list is
drained page by page (`SyncPage`, `SyncDrained`), here an entry at a time and in
any order, so that an edit between two pages may make the rest of the walk miss
any title or see one twice. A paging URL that is not trusted and an entry without
an id are the fault "page". `apply_monitor_mode` is three steps: the mode
(`MergeMode`, `RemovalApply`), then the recompute's read and its transaction
(`SyncDerive`, `SyncRows`), each of which may fail, meet a restart, or interleave
with a handler's (`DeriveRead`, `DeriveWrite`). The episode rows of a series are
known by the mode they were derived from. `series::upsert`
is one step (a UNIQUE clash with a concurrent add is a failed entry). Where the
row of a series is gone, `update_monitor_mode` matches nothing and the recompute
after it fails; those two are one step. What it leaves out: the tokens themselves
and the auth flag, scores, custom lists, artwork; other writers of the episode
rows, which repair or derive them anew (`ensure_series_monitoring_rows` of the RSS
tick and the pages, the metadata refresh, a manual import); MAL entries that AniList
splits in several series; a second link of the linked account, which changes
only its tokens; a provider clock that differs from the local one; entries that
the provider never has details for.

### `TaskRuns`

A loop and a Run now handler are programs over seven statements: look at the
lock, write `mark_started`, take the lock or give up, await it, work, release it,
write `mark_finished`. `LoopProgram` and `RequestProgram` give the order each of
the eleven tasks has them in; the actions execute them.

| Variable | Code |
|---|---|
| `taskPlan` | no program state: the task of the behaviour and how many clicks, panics and switches it may meet |
| `process`, `uptime` | the process: down, booted with its rows recovered, or running |
| `row`, `age` | `last_status` (`ended` stands for ok, warn and error) and the time since `last_finished_at` |
| `lock` | `RSS_SYNC_LOCK`, `METADATA_SWEEP_LOCK` (for the refresh and the rebuild) and the others |
| `pc` | where each loop and each handler is in its program |
| `spawned` | the future `supervise` runs has not panicked |
| `wait`, `pend` | what is left of a sleep, or to the next tick of an interval, and ticks not yet taken |
| `counter`, `errors` | `minutes_since_last`, `consecutive_errors` |
| `enabled` | the switches and the linked account |
| `since`, `lost` | history, for the properties |

What it leaves out: what the tasks work on (the other modules have some of it);
failing reads of the settings and failing writes of the row, which the code
ignores; `supervise`'s backoff, an unspecified delay; the backup schedule, whose
loop finds the newest archive old enough or not. The cadences are one constant;
the hour of the backup folder and the minute of the ticks are not told apart from
it where no property needs them.

### `AniListPace`

Time is part of this module, in units of a spacing: it stands still while a
step is due, and an instant is known by the time to it or since it.

| Variable | Code |
|---|---|
| `turn`, `nap` | the queue of `TURN`, and the sleep of the caller that has it |
| `at` | the await each caller has reached: its turn, its sleep, the answer's headers, its body, MAL |
| `last` | the time since `LAST_AL_REQUEST` |
| `limits` | `RATE_LIMIT_STATE`; `low` says that `remaining` is at most `REMAINING_HEADROOM_THRESHOLD` |
| `cooldown` | the time to `ANILIST_COOLDOWN_UNTIL` |
| `refresh` | `run_metadata_sweep`: its phase, the series left in the pass, those put off and those counted, the rounds and the waiting so far |
| `hot` | no program state: the sweep sent a request during this cooldown |

`TakeTurn` and `Send` are `throttle_before_anilist_request`, `ReadHeaders` and
`ReadBody` what a client does with the answer, `ArmCooldown` the cooldown it may
start. The other callers are searches, details, lists and airing times; they
differ in whether they look at the cooldown and in what they take for a refusal,
so here each may do either. What the sweep's own walk of relations asks
(`hydrate_relation_tree`, with its own wait for the cooldown) is among them, so
`SweepBacksOff` is about the requests for the series' own details. What it
leaves out: the caches; why a series failed; `Retry-After` against
`X-RateLimit-Reset`; the log of recent requests.

## Runs

Deadlock is not checked: when every preview is over, or every grab decided and
the loop off, nothing is left to do.

| Run | Bound | Shows |
|---|---|---|
| `PickerRaces` | two previews of one release, one cancel at a time, one file, every fault | one live preview per release, an errored preview has no file list, earlier torrents survive, refinement of the lease |
| `LoopsSettle` | picker: two previews, one cancel at a time; tasks: each with its loop, one or two Run now clicks, one panic or one switch, restarts without end | a torrent whose row went during the add is taken back or taken over; types of the tasks; a row that says running has a run behind it, and the airing row is honest; a restart neither brings a run forward nor puts it off for ever |
| `PickerCommits` | one preview, one confirm that also unblocks the release, two files, dropped requests, lost metadata, a suspended browser | walking away grabs exactly what was ticked; a confirm dropped half way still ends in a recorded grab; the row of a closed modal goes |
| `GrabRaces` | two automatic grabs, two releases, both under seed rules, one delete or failed mark at a time, no sweep | the table implements the ledger under every interleaving; nothing decides to delete a torrent that seeds once its row is stamped |
| `GrabUpgrades` | two grabs of either kind of entry point, two releases, both under seed rules, the sweep, files that cannot be placed, restarts (also before the stamp) | an upgrade leaves no second imported grab behind; neither it nor the sweep takes a torrent with a stamped row while it seeds |
| `GrabPartial` | a batch and a usenet job, move mode, file, item and client errors, flags that cannot be read or written, boot | the state is well-formed; cleanup and sweep leave a partial import's files alone |
| `GrabSettles` | two grabs of one release, late files, outside removal | a pending grab is decided; an imported grab leaves the sweep's work list |
| `GrabOff` | two grabs of one release, a cancel, forced runs, an item removed outside, post-processing off | a complete download stops being polled |
| `PartialSweptAfterRestart` | one grab of a batch, a restart | violated: see Known divergences |
| `MisgrabSweep` | misgrabs: two rows of one release, two series, one request at a time; five plans of operations and faults. AniList: a sweep of two series, one other caller, a limit above the documented one, a cooldown above its cap, two retry rounds | types; a verdict stands; a restored release is never flagged again, unless the whitelist could not be read; a removed misgrab is blocklisted; every misgrab is dealt with. Types and the cap of a cooldown; requests keep their spacing and the sweep backs off; it ends with every series accounted for |
| `DiskFaults` | restore: two uploads, one with a key, five budgets; bin: three videos, two jobs, two entries, eighteen mixes of requests and faults | key, database and `-wal` stay together, a restore can be undone (the previous database and the escape hatch survive), is applied once and resumes; no video is lost unasked and what was recycled stays listed, sweeps disturb no import |
| `ListSync` | one or two titles, two accounts, a MAL list of two pages, up to three acts and one fault; seven plans | types; nothing slips behind the cursor; pins and exclusions that stood all along are kept; the library follows the list in the end |

Two previews are enough for every interference in this code: the handlers of a
preview touch other previews only through the test for a live row of the same
hash and through the torrent, and both are symmetric in the others. One hash is
enough because nothing relates two hashes. One file is enough where only the
existence of a selection matters; `PickerCommits` needs one that is kept and one
that is skipped. One request at a time still races with the sweep, the metadata
tasks and both previews.

`WalkawayCommits` and `ConfirmCommits` do not speak of a row that a sweep in
progress has already copied: the code acts on the copy (Known divergences). A row copied while its add was still running is even dropped without a
commit, although its modal has since shown the file list.

Two grabs and two releases are the least with an upgrade, a duplicate and a
re-grab: with one release the second grab is the duplicate or, after the first
was imported, reactivates its row; with two it is the upgrade. The faults and
the switches are spread over the runs by the property they can break; the two
runs of `SeedRulesKept`, `GrabRaces` and `GrabUpgrades`, split the actors,
because together they exceed what TLC can search in minutes, and so do cancel
and confirm over the picker's runs: for all of them at once the safety
properties are proved. A grab id is used once, so a run ends; the tick, the
sweep and their loop repeat without bound. The liveness runs have no client that
refuses every call: against one nothing is ever listed, imported or removed.

`MisgrabSweep`, `DiskFaults` and `ListSync` start from a plan: which operations
and faults a behaviour may contain, and how many of them. A hazard of these
parts takes two or three operations and one or two faults, so each plan
combines the few that meet; the bin's last mixes, and one plan of `ListSync`,
have all of them, a few at a time. A fault in the recovery from a fault is in
the budgets with two. One hash, one episode and
one upload with a key beside one without are enough because the code relates
no two of them. `StagedRestore` and `RecycleBin` share no state; `MCDisk` gives
a behaviour to one of them. Two entries make the bin refuse a third, which
keeps one recycle and one restore under way together; two titles in `ListSync`
are one of each kind (known to anibridge or not) and an edit behind the entry
being merged, one title has room for more acts.

In `LoopsSettle` a behaviour belongs to the picker or to one task, with the
rebuild beside the refresh because they share a lock; no other two tasks share
anything, and the two modules share no state. Putting them in one run costs
nothing: each is a search of its own. A plan says which task it is and how many
clicks, panics and switches meet it: those that touch the same code. A period of
two minutes told in halves has room for a rounded age, a settling delay shorter
than an uptime and an uptime shorter than the period. Two clicks are one under
the loop and one after it, or a refresh and a rebuild at once. Restarts are not
counted, so a behaviour may restart for ever.

In `MisgrabSweep` a behaviour belongs to the misgrabs or to AniList, which share no
state. The padded minute is six units there and the documented limit three,
so that a spacing is two, the limit AniList claims would make it none, and the
longest cooldown outlasts a poll, the budget and a spacing. Two series are one that is refused and
one that must be spared; one caller beside the sweep is enough to queue, to
leave while it sleeps, and to start the cooldown anew for ever. The proofs
speak of any number.

### Known divergences

One is a run. `PartialSweptAfterRestart`: a partial import is recorded by two
statements, and after a restart between them the sweep takes the torrent with
the files nobody imported. A forced run brings the same about without a
restart, as the loop goes on to the sweep while that run is between the two
(`GrabPartial` with `Forced`), so `PartialNeverSwept` holds only without either.

The others were found by TLC on the same modules; the table gives the formula,
to be added to the module as `[][...]_vars` (or as an invariant, marked so) and
run on the constants named; a formula that is only a name is defined in its
module.

| What the code does, against what it says | Formula | Constants |
|---|---|---|
| `sweep_once` revisits a row that was confirmed after it was copied; `grab.rs:864` "the sweep should never revisit this preview_id" | `\A p \in Previews : SweepPick(p) => rows[p].exists` | `PickerCommits` |
| the cancel of an errored preview deletes the torrent under the next preview of its release; `grab.rs:311` "nukes the torrent out from under Tab 2's still-open modal" names the case joined previews avoid | `CancelSparesOtherPreviews` | `LoopsSettle` with `metadata` among the faults |
| the sweep drops an errored row and leaves its torrent; `pending_grabs.rs:28` counts this fallback among the paths that delete it | `SweepDrop /\ ~Swept.listed /\ Swept.weAdded => torrent[HashOf[sweep.cur]].origin # sweep.cur` | `PickerCommits` |
| a late add is taken back under a preview reserved since the check; `grab.rs:402` "unless another preview has picked the hash up since" | `\A p \in Previews : TakeBack(p) => LiveRows(HashOf[p]) = {}` | `LoopsSettle` |
| a modal closed with nothing ticked has its torrent deleted; `pending_grabs.rs:24` "we NEVER delete the underlying torrent on walkaway" | `SweepCancel => UNCHANGED torrent` | `PickerCommits` |
| `mark_completed_no_import` makes a cancelled grab imported; `grabbed_torrents/mod.rs:484` "Only a `pending` grab becomes `imported`" | `\A g \in Grabs : grabs'[g].state = "imported" => grabs[g].state \in {"pending", "imported"}` | `GrabOff` |
| an import cancelled under way ends failed, which blocklists the release; `episodes/mod.rs:730` "mark the grab as removed" | `\A g \in Grabs : grabs[g].state = "removed" => grabs'[g].state = "removed"` | `GrabRaces` with a cancel |
| cancelling an upgrade in flight also removes the imported grab and its torrent, because its tag looks like the drift case of `episodes/mod.rs:776` | `\A r \in Requests : RequestAt(r, "recheck") /\ req'[r].found # req[r].found => \A g \in InState("pending") : grabs[g].hash # tag.of` | `GrabRaces` with a cancel |
| a release grabbed again under the sweep is stamped as gone; `grabbed_torrents/mod.rs:424` "`record_grab`'s reactivation clears it again" | `\A g \in InState("pending") : ~ grabs[g].gone` (invariant) | `GrabSettles` |
| the sweep deletes the download of a release grabbed again since it read the row; `client_cleanup.rs:19` has it work on imported grabs | `\A h \in Hashes : sweep' # sweep /\ h \in source \ source' => \A g \in InState("pending") : grabs[g].hash # h` | `GrabSettles` |
| an old grab that is grabbed again under its upgrade's import is marked replaced and never imported; `grabbed_torrents/mod.rs:877` "a previously-imported grab" | `\A g \in InState("pending") : grabs'[g].state # "replaced"` | `GrabRaces` with three grabs and no request |
| a misgrab judged by one actor is imported by a run that verified it before, or by another alias; `post_processing/mod.rs:1488`, `docs/configuration.md:114` | `MisgrabNeverImported` | `MisgrabSweep` |
| a cancel or a clean-up at boot that stops half way leaves a pending directory without its manifest, which shows no Cancel button and refuses the next upload; `docs/system.md:58` | `StagedCanBeCancelled` (invariant) | `DiskFaults` |
| with the key on another filesystem, or after a second failure, a refused boot has changed files; `backup/mod.rs:1115` "`Err` therefore always means 'nothing changed'" | `ErrMeansNothingChanged` (invariant) | `DiskFaults` |
| a recycle to another filesystem unlinks what an import has placed since the copy; `docs/configuration.md:108` "Ryokan copies, verifies the size, then deletes" | `DeletesWhatItCopied` | `DiskFaults` |
| a recycle that could not write its manifest and cannot move back answers an error with the original gone; `recycle/mod.rs:266` "the original stays in place" | `OriginalLeftInPlace` | `DiskFaults` |
| a leftover of an interrupted upgrade is overwritten by the next; `post_processing/mod.rs:705` lists it with the old files and retires it | `LeftoverIsRetired` | `DiskFaults` |
| a cleared pin waits for the next edit or the weekly full sync, as a delta drops the unchanged entry; `library/crud/mod.rs:589` "next sync tick will apply the AL/MAL-derived monitor_mode" | `SyncStamp /\ account.id = sync.account => \A t \in owes : sync.stay[t] = "free" /\ list[account.id][t] # "absent" => lib[t].mode = ModeFor(list[account.id][t])` | `ListSync` |
| a manual backup runs in its request, so a client that leaves leaves the row running; `handlers/system/mod.rs:25` has handlers detached "so `mark_finished` always fires", `handlers/system/backup.rs:306` does "the scheduled-task bookkeeping the supervised loop also does" | `BackupRowLive` (invariant) | `LoopsSettle` |
| the classify loop marks its row before it has the lock, so the Run now it waits for ends the row of the run to come; `main.rs:2400` has the click block "instead of interleaving and flipping the row's status" | `ClassifyRowHonest` (invariant) | `LoopsSettle` |
| after a restart the loops that count minutes run a minute early, as an interval ticks at once; `main.rs:1669` "we should wait 7 more minutes, not 0". Ticks missed in a long run are made up at once too, so it fails without a restart (`MinUptime = 40`) | `CountedRunsSpaced` | `LoopsSettle` |
| a shorter cooldown replaces a longer one; `rate_limit.rs:80` "Monotonically-set" | `CooldownOnlyGrows` | `MisgrabSweep` with `Delays = {1, 5}` |
| an answer to a request sent before the refusal fills the snapshot again during the cooldown; `rate_limit.rs:520` "Clearing state forces a probe-style first request" | `CooldownClearsSnapshot` (invariant) | `MisgrabSweep` |

Others need no formula; they are seen in the traces of the properties above
when an excuse is taken out, or in the code the model translates:

- The seed-rule flag (`grabbed_torrents/mod.rs:684`: the flag is stamped "after the
  grab has been added", and "the delete-path skip" keys off it; `redownload.rs:98`
  "Torrents under seed rules stay"). It is on a row, and put there late or never.
  A restart or an error between `record_grab` and `set_indexer_attribution` leaves
  a release under seed rules unflagged for good. The interactive grabs, the RSS
  sync, the upgrade search and a confirmed preview never stamp. A delete that
  looked before the stamp goes on after it (`Exposed`). A database error in
  `respects_seed_rules` is a no. A release that is grabbed again and stamped
  anew loses the flag when the indexer's row cannot be read, or the other indexer
  has no rules. In each case an upgrade, a deleted episode, a failed mark or the error
  cleanup takes a torrent that still has to seed. `SeedRulesKept` starts where
  a row is stamped and no earlier decision is under way; with `h \in Ruled`
  for `Protected(h)` TLC finds such behaviours on `GrabRaces` and `GrabUpgrades`.
- `Misgrab`: a read of the whitelist that fails counts as "not whitelisted"
  (`grabbed_torrents/mod.rs:1618`), so a restored release is judged and flagged
  again, against "never flagged again" there; `NeverFlaggedAgain` excuses a
  release whose whitelist was misread.
- `Misgrab`: a Restore that comes after a sweep listed the row is deleted and
  failed by it; a row that is reactivated keeps the verdict given for another
  series; after an error between the delete and the record the sweep acts
  again by hash and may hit another series' row; a misgrab that was cancelled
  or imported and then dismissed is not on the blocklist, as the answer says it
  is; a Restore whose row moved to another series whitelists nothing and still
  succeeds.
- `RecycleBin`: the tick and a manual import hold different locks; the rollback
  of a delete renames over what an import placed; a failed manifest with a
  failed move back destroys the file; Empty takes the entry of a recycle under
  way; a crash inside a restore leaves an entry that always answers
  `ConflictAtTarget`; one between move and manifest leaves an entry no page
  lists, purged later; a restored leftover goes back under its hidden name.
- `ListSync`: a pin set between a sync's read and its write is overwritten and
  then kept at the sync's mode (`series.rs:733` has the sync skip it); an entry
  that failed is behind the cursor all the same (`mod.rs:265`); an exclusion
  recorded after the sync loaded the table, or not read for a database error,
  does not keep the series out (`docs/external-accounts.md:35`), and after a
  restart before its mode is set it keeps the default one until the next full
  sync; a title that
  is allowed again waits for the full sync, against "The next sync may add the
  series again".
- `ListSync`, pages: MAL pages by offset, so an entry that is removed or moved
  between two requests shifts another past the one asked for next. The sync takes
  that title for absent: a full one sets its mode to "none", a delta passes its
  edit by, and the cursor is behind it either way. A paging URL of another host
  ends the list without an error and an entry without a node is skipped
  (`mal.rs:244`, `:198`), where the page limit is an error because "external sync
  reads a missing entry as a removal" (`mal.rs:53`). The next full sync that reads
  the title mends it (`owes`, `EditsReachLibrary`).
- `ListSync`, episode rows: when the recompute of `apply_monitor_mode` fails or is
  cut off after the mode is written, or two changes of a mode overlap, the rows are
  those of another mode. Later syncs compare the modes only (`merge.rs:392`,
  `removals.rs:53`) and never mend them, against "stale until the next sync tick"
  (`library/crud/mod.rs:545`): a series whose mode is "none" goes on being
  monitored. Such a title is `torn`, and excused until a recompute of it runs alone.

- `AniListPace`: a request that waits for its turn when the cooldown starts is
  sent into it (`anilist/mod.rs:1133` and every other client look before they
  queue); `remaining` that AniList never named counts as none left.

Most have one cause, the one the hazards name: a statement by row id, or a
delete by hash, acts on what was read several awaits ago. `LedgerRefinement`
survives it because no late write of an import makes a closed row live: the
ones without a guard (`mark_failed`, `mark_removed`, `mark_replaced`) close.
With post-processing off it does not hold, as the row on `mark_completed_no_import` says.

### Fairness

For `GrabLifecycle`, weak fairness of the loop, of the tick and the sweep it
has begun (the loop in `main.rs` is supervised and ticks every 60 s; the client
calls have timeouts), of the handlers, of time, of downloads, which end, and of
seeding rules, which are met in the end. Faults, requests and forced runs are
free to happen or not. `FinishedSeedsSettle` would fail for an indexer whose
seeding rule is never met: that is the one assumption about people.

For `PendingGrabs`, weak fairness of each preview handler and its metadata task, of each request
handler, of the clock and of the sweep. Handlers are futures on the tokio
runtime and their client calls have timeouts; the sweep is a `supervise`d loop
on a 60 s interval (`main.rs`) that is started again after a panic. Nobody has
to open, close, confirm or cancel anything.

For `Misgrab`, weak fairness of the sweep alone, a supervised loop of the same
kind (`main.rs:2649`). For `StagedRestore`, of a boot that has begun or is due:
nobody promises a request. `RecycleBin` states no liveness. For `ListSync`, of
the loop that starts a sync (`main.rs:2704`; its backoff after errors is
bounded by a day or the cadence), of the sync's steps, of requests between
their two writes, and of weeks that pass; nobody has to edit, pin or link
anything, and faults and acts are finitely many.

For `TaskRuns`, of time, of the boot, of the loops and their restart by
`supervise`, and of each loop's and each handler's statements: a run ends. That
is an assumption about the work (its calls have timeouts; the upgrade search has
one of 30 minutes in its loop). Restarts are not bounded: `AutoRunsKeepComing`
(`LoopsKeepRunning` in the run) holds although the process stops for ever again,
as long as it
lives longer than the classify sweep's settling delay (`main.rs:2376`).

`AniListPace` states no fairness: that a sweep ends is a bound on its rounds and
waits, which `SweepAccounts` checks as an invariant.

## Proofs

For any finite or infinite set of previews of `PendingGrabs`, requests, hashes and files and any
faults, from `ConstantsAssumption` alone:

- `TypeCorrect`: the state is well-formed.
- `OneLivePreviewCorrect`, `ErroredHasNoFilesCorrect`: neither property is
  inductive. The invariant `RowInv` adds `AwaitsMetadata`: a preview whose
  handler is still running has no metadata task, and until the task answers
  the row has neither list nor error. Without it a late write could set both.
- `EarlierTorrentsSurviveCorrect`: from `EarlierInv`, which follows the
  permission to delete through every place it is copied to: the row's
  `we_added`, the sweep's copy of the row, the late add, the cancel in flight.
- `LeaseCorrect`: every step is a step of `PreviewLease` or a stutter under the
  mapping of `Holder` and `Spent`. It uses `OneLivePreview`, without which the
  holder is not determined.

For any grabs, releases, requests, faults and switches of `GrabLifecycle`:

- `TypeCorrect`. `TypeInv` adds to `TypeOK` that the rows a tick or a request
  holds were recorded when it read them; without that an unguarded update could
  write a row that does not exist, with no release in it.
- `OneLiveRowCorrect`: two live rows never name one release, post-processing on
  or off. Every step is shown to be of one of four kinds: it keeps every row's
  place in the ledger, closes one row, opens one under a release without a live
  row, or finishes one that is still the only live row of its release
  (`StepKinds`). `LedgerInv` adds that a handler before its insert has no row.
- `LedgerCorrect`: with post-processing on, the same kinds are the steps of
  `GrabLedger`, the last being impossible (`ImportsOnly`). `FailByName` closes
  at most one row because of `OneLiveRow`.
- `EpisodeOwned` (`EpisodeHasOneOwner`): from `OwnerInv`, which follows a
  replacement from the lookup of the old grabs on: at the swap the run holds
  every owner, then each owner is one it has still to deal with or to close,
  and when it marks its own row there is none. An episode without a file has no
  owner, so the run that finds none has nothing to close. That only the mark
  makes an owner (`OwnersLeave`) is what restarts and re-grabs amount to. It
  assumes `FileStays`: post-processing on, as the run without it closes
  nothing, and no request that deletes the episode's file.
  `delete_episode_file` unlinks the file before it looks for the row, so a grab
  imported in between finds no file to replace and becomes a second owner, as
  TLC shows on `GrabUpgrades` with a delete; the delete then removes both.
- `SeedRulesRespected` (`SeedRulesKept`): once a row of a torrent carries the flag
  and nothing decided earlier is still to delete it (`Protected`), that remains so,
  and nobody takes the torrent out while it seeds its files. That it remains so
  needs `SeedInv`: a flag is the seed rules of its row's release (`FlagsTrue`),
  because a handler only stamps a row of the release it added (`RowsHeld`), so a
  re-grab's stamp confirms the flag. `DecidedNext` shows that no
  new deletion of a protected torrent is decided upon by an upgrade, a request or the
  cleanup. The sweep does not ask for the flag; it acts on a listing that may be
  old. `ProtectedMoves` shows that a protected torrent that has stopped seeding
  stays so, or errs, until the sweep itself takes it out, so what the listing says
  of it is still true when the delete is sent (`SweepNext`). It
  assumes `SeedSetting`: no grab is cancelled and nothing is removed in the
  client itself, either of which lets a torrent be added again under the sweep;
  files are linked or copied; and flags can be read and written (no "flag" among
  the faults). Where files are moved a torrent does not seed
  what the library took, and a row that is grabbed again keeps its old mode.
- `PartialKept` (`PartialNeverSwept`): from `PartialInv`. A row that the sweep
  could take owes the library nothing, except between the two writes that
  record a partial import (`OwedInv`), and the loop is not in the sweep then
  (`Alone`). That a release does not come to owe files while an imported row
  names it takes `FreshInv`: what a run still has to go through are different
  releases, none imported and none the one at hand, although rows are closed
  and recorded again under it. It assumes `SoloSetting`: post-processing on, no
  restart and no forced run (Known divergences).

For any grabs, releases, series, requests, plans and faults of `Misgrab`, from
`MisgrabAssumptions` alone:

- `MisgrabTypes`: the state is well-formed and a release has one live row at
  most. `TypeInv` adds that unrecorded rows are blank, that a grab under way
  owns its row, and that every actor's row is recorded.
- `VerdictsStand`: of the ways a step may write the table (`Statements`) only
  the stamp and the whitelist touch a verdict; the stamp asks for a row without
  one.
- `RestoredNeverFlagged`: from `RestoredStand`: a restored release has a
  whitelisted row, which later judges see unless their read of it fails (`misread`,
  which the property excuses), and no judge that looked before
  holds "misgrab" for a row without a verdict. The second half is why Restore
  whitelists all rows of the release a second time at its end.
- `RemovedMisgrabsBlocked`: from `RemovalsEnd`: an answer is recorded only for
  a row that has ended, and only a cancel ends one without failing it.

For any callers, limits, cooldowns and lengths of time of `AniListPace`, from
`PaceAssumptions` alone (its spacing for a limit of 0 is no longer than the
documented limit's, and the time told apart covers the longest spacing):

- `PaceTypes`: the state is well-formed and a cooldown keeps to its cap, for any
  answer.
- `PaceHolds`: neither half of `RequestsPaced` is inductive. `NapperHolds` says
  that who sleeps is first in the queue, so one sleeps at most, which survives
  callers that leave anywhere in it (`WithoutOne`); `NapSpaces` that the sleep
  left and the time since the last request make up the spacing, whatever the
  headers said meanwhile; `HotStaysOut` that a sweep that sent one request into
  a cooldown is not in the queue until it is over, and `SeriesAtHand` that it
  has a series left to settle while it waits for an answer.
- `SweepEnds`: every series is accounted for and a sweep ends within its rounds
  and its budget of waiting, whatever the others do to the cooldown. `SweepInv`
  adds that no series is at hand between two passes (`NoneAtHand`), that a
  retry is a round that was left (`RoundLeft`), and that a poll begins within
  the budget, so that what is left of it ends a poll beyond at most
  (`PollWithinBudget`). The property alone would let the next poll exceed it.

For any uploads, stamps, numbers of crashes and failures of `StagedRestore`, from
`RestoreAssumptions` alone:

- `RestoreTyped`: the state is well-formed.
- `RestoreAllOrNothing` (`BootIsAllOrNothing`) and `RestoreUndone`
  (`RestoreCanBeUndone`): from `RestoreInv`, which says for each phase of the
  boot where the key (`KeySwap`), the database (`DbSwap`) and the `-wal`
  (`WalSwap`) are, and what this boot has moved aside. The properties speak of
  the ends of a boot, and a crash may come between any two of its calls, so
  `PairKept` carries them across: whatever a boot begins with, key and database
  match or the rest of the swap that makes them match is still pending.
  `WalOfItsDb` says whose commits a `-wal` holds, `KeyThere` that a boot
  without a crash before it has a key to put back, `HatchKept` and
  `BackupNumbered` that pruning spares the archive of an upload on its way in.
- `NothingRestoredTwice` (`RestoredOnce`, the safety half of
  `RestoredExactlyOnce`): from `OnceStaged`, an upload is staged once, leaves by
  its database being placed or by its cancel, and is not pending with its
  database after either.

For any jobs, videos, entries and plans of `RecycleBin`, any overlap of them and
any crashes, from `BinAssumptions` alone:

- `BinTypeCorrect`: the state is well-formed. `BinTyped` adds what a job can be
  (`JobShape`: of which operation it does which steps, and which files it still
  has to move or has moved), what an entry can be (`EntryShape`), and that an
  entry is of its job's kind.
- `RecycledStaysListed` (`RecycledIsListed`): from `BinOrder`. The locks keep
  out whom they should (`LocksExclude`), no two jobs are at one entry
  (`EntriesAreOwned`), and `AtEntry` says what the entry holds at each step: a
  recycle's has no manifest, so nothing counts as recycled there while it is
  undone; a restore's is empty when the list is done, so dropping it drops
  nothing.
- `ImportsUndisturbed` (`ImportsKeepTheirFiles`): from `FreePaths`, which
  carries the restore's check that its path is free to the move that needs it,
  across whatever runs in between.
- `NothingIsLost` (`NoVideoIsLost`): `VideoIsSomewhere` is not inductive. A
  video that is in the bin only because a copy has not been taken back yet is
  still somewhere and gone one step later. `OwedIsKept` therefore does not
  count what is in an entry whose job may be about to drop it (`Dropping`: a
  rollback that has nothing left to move back, a move between filesystems
  between its copy and its unlink, in either direction). Each step accounts for
  what it takes (`Keeps`). Like the property it speaks of at most one failing
  call: a failed manifest and a failed move back lose the file (Known
  divergences). `AtEntry` says that a rollback with something to move back has
  had its one failure, the manifest.
- `DiskIsBoth`, `DiskTypeCorrect` (`DiskTypeOK`): `DiskSpec`, which the run
  checks, implements both `RestoreSpec` and `BinSpec`, so what is proved of
  either holds of it.

For any group of tasks, period, uptime, clicks, panics and switches of
`TaskRuns`, from `TaskRunsAssumptions` alone (`MaxErrors` is at most 5, as
`consecutive_errors.min(5)` caps the exponent of the backoff):

- `TasksTyped`: the state is well-formed.
- `RowsStayHonest` (`RowsAreHonest`): that a row which says running has a run
  behind it is not inductive without `StepsInProgram` (a statement is one of
  the task's program) and `IdleUnlessUp` (nobody is in a program while the
  process is down). The exact claim for the airing row needs `AiringLocked`:
  its loop and its handler mark and finish under one lock. The classify row and
  the backup row have no such lock, and the claim fails for them (Known
  divergences).
- `AutoRunsApart` (`AutoRunsSpaced`): two automatic runs of a loop that sleeps
  are a period apart through restarts, panics and Run now. `SpacingInv` adds,
  per task, that a row that does not say running finished after the last
  automatic start, so that sleeping what the row leaves is enough; that a
  sleeper's sleep ends a period after that start; and that a loop which is
  about to mark its row has slept that long. The lemma on whole minutes
  (`SleepCovers`) is where rounding an age down might have cut a sleep short.
  It does not hold of the loops that count minutes (`CountedRunsSpaced`).

For any titles, accounts and plans of `ListSync`, from `SyncAssumptions` alone:

- `ListSyncTyped`: the state is well-formed. `TypeInv` adds `SyncsAnAccount`: a
  sync is of an account that was linked, and of the linked one while that has a
  cursor; without it a series could be stamped with an account that is not there.
- `PinsRespected`: a sync leaves the mode of a series alone that was pinned all
  the time it ran. `PinsStand` says where such a series can be in a sync: it is
  still pinned, it is no entry that gets created or a mode, what was read of its
  row says pinned, and it is on no list of removals.
- `UserRespected` (`SyncRespectsUser`) adds excluded titles, by `BarsStand`: one
  that was out and excluded all along was read as excluded and is not the entry
  at hand. It assumes `Readable`, that the plan has no failing read of the
  exclusions: with one, the code imports them (Known divergences).
- `NothingSlipsBehind` (`SyncedFollows`): the library follows every entry that a
  delta sync will not look at again. `SyncedFollows` speaks of the time between
  syncs; `FollowInv` says for every title how a sync keeps it while one runs. An
  edit is ahead of the cursor, and one made during a sync ahead of the next
  (`EditSeen`); what the sync read, on MAL page by page (`FetchRead`), is what the
  list says, unless it was edited since or a page missed it, and then it is owed a
  full sync (`EntryRead`); a title is still due, or was taken up and agrees with the
  list, or is owed a full sync (`Accounted`), which is what makes a stamp at the
  end right; and what is behind the cursor agrees already (`BehindAgrees`). `RowsInv` adds the
  episode rows: of a title that is not `torn`, they are those of its mode or a
  recompute that will make them so is under way. It
  assumes `OneTrouble`, a plan without a failing read of the exclusions or
  without a restart. With both, a forced full sync that reads no exclusions
  inserts a series the user had removed, a restart comes before its mode is set,
  and every delta sync after it skips the entry. TLC finds that behaviour when a
  plan has both faults; each plan of the run has at most one fault.

Every invariant and every action property that a passing run checks is stated by
a theorem, some under an assumption on the plan or the settings that is named
with it. Only model-checked are the liveness properties
(`InterruptedRestoreResumes`, `AutoRunsKeepComing` and the others), for want of
ENABLED in the prover.

## Not modelled

Everything under `components` with status `not_modelled`. Parsing, naming,
scoring, HTTP clients, pages and settings are data transformations or single
statements, without the interleavings this project is about; they are most of
the code's lines. The others are in the plan.
