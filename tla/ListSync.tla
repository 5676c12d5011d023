------------------------------ MODULE ListSync ------------------------------
(* The watch-list sync (services/external_sync): a linked AniList or           *)
(* MyAnimeList account, its list, and the library that follows it.  A sync     *)
(* reads the list, drops what is older than its cursor, fetches details for    *)
(* new series and merges entry by entry; a full one then looks for what has    *)
(* left the list.  It holds EXTERNAL_SYNC_LOCK, which no handler takes: each   *)
(* statement and each call to the provider is a step, and the user pins,       *)
(* removes, adds, excludes, edits the list and switches accounts in between.   *)
(*                                                                             *)
(* Of the statuses and the modes they ask for, one of each kind is kept: one   *)
(* that is imported and one that is not.  The episode rows of a series are     *)
(* the mode they were derived from; scores, custom lists, artwork and the      *)
(* tokens of an account are left out.                                          *)
EXTENDS Naturals

CONSTANTS
  Titles,
  Fallback,     \* titles a MAL list has and anibridge does not know
  MaxAccounts,  \* bound of the model: how often an account is linked
  SyncPlans,    \* bounds of the model: what a behaviour may contain, see SyncPlan
  NoTitle

SyncOps == {"edit", "pin", "add", "remove", "allow", "link", "now"}

SyncPlan == [mal : BOOLEAN, titles : SUBSET Titles, ops : SUBSET SyncOps, acts : Nat,
             faults : SUBSET {"fetch", "page", "write", "load", "restart"}, atMost : Nat]

ASSUME SyncAssumptions ==
  /\ Fallback \subseteq Titles /\ NoTitle \notin Titles
  /\ MaxAccounts \in Nat \ {0}
  /\ SyncPlans \subseteq SyncPlan

VARIABLES
  syncPlan,
  account,    \* the row of external_accounts: id 0 when there is none; last is AUTOINCREMENT's
  weekly,     \* list_full_resync_at is a week ago
  list,       \* the list of each account, at the provider
  fresh,      \* its titles with updated_at at or after the account's cursor
  lib,        \* the series table
  excluded,   \* external_sync_exclusions
  adding, leaving,   \* add and remove requests between their two writes
  deriving,   \* a handler's recompute of a series' episode rows: to be read, or the mode it read
  sync,       \* the sync under way
  acts, syncFaults,      \* counters
  \* history, read by properties only
  owes,       \* titles whose state asks for more than a delta sync will look at
  unread,     \* titles edited since the last full sync began
  torn        \* titles with a mode whose recompute failed, was cut off or met another one

accountVars == <<account, weekly, list, fresh>>
requestVars == <<excluded, adding, leaving, deriving>>
userVars == <<accountVars, lib, requestVars>>
boundVars == <<syncPlan, acts, syncFaults>>
pastVars == <<owes, unread, torn>>
syncVars == <<userVars, sync, boundVars, pastVars>>

------------------------------------------------------------------------------
(* Helpers *)

Statuses == {"watching", "dropped"}
Listings == Statuses \cup {"absent"}
Modes == {"all", "none", "future"}
Accounts == 1..MaxAccounts

\* the lists an account can have
Entries == {e \in [Titles -> Listings] : \A t \in Titles \ syncPlan.titles : e[t] = "absent"}

\* monitor_mode_for, and import_status with only Watching ticked
ModeFor(status) == IF status = "watching" THEN "all" ELSE "none"
Imported == {"watching"}

NoSeries == [in |-> FALSE, mode |-> "none", rows |-> "missing", pinned |-> FALSE, from |-> 0]

\* what series::upsert inserts: default_monitor_mode, no account, no episode rows
NewSeries == [NoSeries EXCEPT !.in = TRUE, !.mode = "future"]

FallbackOf(mal) == IF mal THEN Fallback ELSE {}

\* Mutant of FullDue: the weekly backstop is forgotten
FullOnlyFirst == ~account.cursor

\* should_full_resync
FullDue == ~account.cursor \/ weekly

\* drop_entries_before_cursor
Kept(full, t) == full \/ t \in fresh[sync.account]

NoRead == [pinned |-> FALSE, mode |-> "none", new |-> FALSE]

IdleSync ==
  [pc |-> "idle", account |-> 0, full |-> FALSE,
   pass |-> 1,         \* of the merge
   entries |-> [t \in Titles |-> "absent"],
   seen |-> {}, shifted |-> FALSE,    \* of the pages: titles read; an edit came between two
   details |-> {},     \* titles with an AnimeDetail
   out |-> {},         \* the exclusions as loaded
   todo |-> {},        \* entries, then removals, still to do
   cur |-> NoTitle, row |-> NoRead,   \* the entry at hand and what was read of its row
   of |-> NoTitle, mode |-> "read",   \* the series of a recompute, the mode it read if it has
   lost |-> {},        \* titles whose row has gone since it was read
   edited |-> {},      \* titles with updated_at at or after tick_started_at
   settled |-> {},     \* history: titles this sync has looked at, untouched since
   stay |-> [t \in Titles |-> "changed"],   \* history: pinned or free all along
   barred |-> {}]      \* history: titles out of the library and excluded all along

SyncFault(f) ==
  f \in syncPlan.faults /\ syncFaults < syncPlan.atMost /\ syncFaults' = syncFaults + 1
Act(o) == o \in syncPlan.ops /\ acts < syncPlan.acts /\ acts' = acts + 1

\* the sync ends without a stamp
Fails == sync' = IdleSync

\* the entry at hand is done
NextEntry == sync' = [sync EXCEPT !.pc = "merge", !.cur = NoTitle, !.row = NoRead]
\* its merge fails
EntryFails ==
  /\ sync' = [sync EXCEPT !.pc = "merge", !.cur = NoTitle, !.row = NoRead,
                          !.settled = @ \ {sync.cur}]
  /\ owes' = owes \cup {sync.cur}

\* the row that was read under title t is still the one in the table
RowStands(t) == lib[t].in /\ t \notin sync.lost

\* a sync's recompute of title t's episode rows is under way
Recomputing(t) == sync.of = t /\ RowStands(t)

\* the modes that recomputes of title t have read and not yet written rows from
Held(t) == (Modes \cap {deriving[t]})
             \cup (IF Recomputing(t) THEN Modes \cap {sync.mode} ELSE {})
\* update_monitor_mode: a recompute under way will write the rows of another mode
ModeTears(t, mode) == torn' = IF Held(t) \subseteq {mode} THEN torn ELSE torn \cup {t}
\* replace_series_states, from a mode that was read before
RowsMend(t, mode) == torn' = IF Held(t) \cup {mode} = {lib[t].mode} THEN torn \ {t} ELSE torn

------------------------------------------------------------------------------
(* A sync: tick_once_inner, sync_anilist, sync_mal *)

SyncStart(force) ==
  /\ sync.pc = "idle"
  /\ account.id # 0
  /\ sync' = [IdleSync EXCEPT
       !.pc = "fetch", !.account = account.id, !.full = force \/ FullDue,
       !.stay = [t \in Titles |-> IF lib[t].pinned THEN "pinned" ELSE "free"],
       !.barred = {t \in excluded : ~lib[t].in}]
  /\ UNCHANGED <<userVars, boundVars, pastVars>>

\* the loop of main.rs; tick_once waits for the lock, tick_once_or_busy does not
SyncTick == SyncStart(FALSE)
SyncNow == "now" \in syncPlan.ops /\ SyncStart(TRUE)

\* what the cursor filter leaves of title t's entry
EntryOf(t) == IF Kept(sync.full, t) THEN list[sync.account][t] ELSE "absent"

\* fetch_media_list_collection, one request; or a request of either provider that fails
SyncFetch ==
  /\ sync.pc = "fetch"
  /\ \/ /\ ~syncPlan.mal
        /\ sync' = [sync EXCEPT !.pc = "details", !.entries = [t \in Titles |-> EntryOf(t)]]
        /\ UNCHANGED syncFaults
     \/ SyncFault("fetch") /\ Fails
  /\ UNCHANGED <<userVars, syncPlan, acts, pastVars>>

\* fetch_animelist: a page, here one entry, in an order nobody promises; an entry that an
\* edit has moved can come twice
SyncPage(t) ==
  /\ sync.pc = "fetch" /\ syncPlan.mal
  /\ list[sync.account][t] # "absent"
  /\ t \notin sync.seen \/ sync.shifted
  /\ sync' = [sync EXCEPT !.seen = @ \cup {t}, !.entries[t] = EntryOf(t)]
  /\ UNCHANGED <<userVars, boundVars, pastVars>>

Undrained == {t \in Titles : list[sync.account][t] # "absent" /\ t \notin sync.seen}

\* no page is left.  An edit since the first one may have shifted entries past the offset that
\* was asked for next; and a paging URL of another host ends the list, a malformed entry is skipped
SyncDrained ==
  /\ sync.pc = "fetch" /\ syncPlan.mal
  /\ \/ (Undrained = {} \/ sync.shifted) /\ UNCHANGED syncFaults
     \/ Undrained # {} /\ SyncFault("page")
  /\ sync' = [sync EXCEPT !.pc = "details", !.seen = {}, !.shifted = FALSE]
  /\ owes' = owes \cup {t \in Undrained : Kept(sync.full, t)}
  /\ UNCHANGED <<userVars, syncPlan, acts, unread, torn>>

\* MAL refuses the token between two pages: it is refreshed and the list drained anew, once
SyncRefreshToken ==
  /\ sync.pc = "fetch" /\ syncPlan.mal
  /\ SyncFault("fetch")
  /\ sync' = [sync EXCEPT !.seen = {}, !.shifted = FALSE, !.entries = IdleSync.entries]
  /\ UNCHANGED <<userVars, syncPlan, acts, pastVars>>

\* ids_needing_detail_fetch and the one batch request, which may answer for fewer titles
SyncDetails ==
  /\ sync.pc = "details"
  /\ LET new == {t \in Titles \ FallbackOf(syncPlan.mal) :
                   sync.entries[t] \in Imported /\ ~lib[t].in}
     IN \/ sync' = [sync EXCEPT !.pc = "load", !.details = new] /\ UNCHANGED syncFaults
        \/ /\ SyncFault("fetch")
           /\ \/ Fails
              \/ new # {} /\ sync' = [sync EXCEPT !.pc = "load"]
  /\ UNCHANGED <<userVars, syncPlan, acts, pastVars>>

\* merge_into_library and, for a MAL list, merge_jikan_fallback_entries: each loads the
\* exclusions, and takes an error for an empty table
SyncLoad ==
  /\ sync.pc = "load"
  /\ LET mine == IF sync.pass = 1 THEN Titles \ FallbackOf(syncPlan.mal) ELSE Fallback
         todo == {t \in mine : sync.entries[t] # "absent"}
     IN \/ /\ sync' = [sync EXCEPT !.pc = "merge", !.out = excluded, !.todo = todo]
           /\ UNCHANGED syncFaults
        \/ /\ SyncFault("load")
           /\ sync' = [sync EXCEPT !.pc = "merge", !.out = {}, !.todo = todo]
  /\ UNCHANGED <<userVars, syncPlan, acts, pastVars>>

\* an exclusion counts for a title that is not in the library
MergeEntry(t) ==
  /\ sync.pc = "merge" /\ sync.of = NoTitle /\ t \in sync.todo
  /\ \/ /\ t \in sync.out /\ ~lib[t].in
        /\ sync' = [sync EXCEPT !.todo = @ \ {t}, !.settled = @ \cup ({t} \cap excluded)]
     \/ /\ t \notin sync.out \/ lib[t].in
        /\ sync' = [sync EXCEPT !.todo = @ \ {t}, !.pc = "read", !.cur = t,
                                !.settled = @ \cup {t}]
  /\ UNCHANGED <<userVars, boundVars, pastVars>>

\* existing_rows
MergeRead ==
  /\ sync.pc = "read"
  /\ LET t == sync.cur
         wanted == sync.entries[t] \in Imported
         known == t \in sync.details \cup FallbackOf(syncPlan.mal)
     IN \/ /\ lib[t].in
           /\ sync' = [sync EXCEPT
                !.pc = "stamp", !.lost = @ \ {t}, !.settled = @ \cup {t},
                !.row = [pinned |-> lib[t].pinned, mode |-> lib[t].mode, new |-> FALSE]]
           /\ UNCHANGED owes
        \/ ~lib[t].in /\ ~wanted /\ NextEntry /\ UNCHANGED owes
        \/ ~lib[t].in /\ wanted /\ ~known /\ EntryFails
        \/ ~lib[t].in /\ wanted /\ known /\ sync' = [sync EXCEPT !.pc = "create"] /\ UNCHANGED owes
  /\ UNCHANGED <<userVars, boundVars, unread, torn>>

\* Jikan's detail, where there is none yet, and series::upsert, which finds a row that was
\* added meanwhile
MergeCreate ==
  /\ sync.pc = "create"
  /\ LET t == sync.cur
     IN \/ /\ lib' = IF lib[t].in THEN lib ELSE [lib EXCEPT ![t] = NewSeries]
           /\ sync' = [sync EXCEPT !.pc = "stamp", !.lost = @ \ {t}, !.settled = @ \cup {t},
                                   !.row = [NoRead EXCEPT !.new = TRUE]]
           /\ UNCHANGED <<syncFaults, owes>>
        \/ t \in FallbackOf(syncPlan.mal) /\ SyncFault("fetch") /\ EntryFails /\ UNCHANGED lib
        \/ SyncFault("write") /\ EntryFails /\ UNCHANGED lib
  /\ UNCHANGED <<accountVars, requestVars, syncPlan, acts, unread, torn>>

\* Mutant of MergeStamp: a pin is not looked at
MergeStampPinned ==
  /\ sync.pc = "stamp"
  /\ LET t == sync.cur
     IN /\ lib' = IF RowStands(t) /\ account.id = sync.account
                  THEN [lib EXCEPT ![t].from = sync.account] ELSE lib
        /\ sync' = [sync EXCEPT !.pc = "mode"]
  /\ UNCHANGED <<accountVars, requestVars, boundVars, pastVars>>

\* Mutant of MergeStamp: the account is not looked up
MergeStampUnlinked ==
  /\ sync.pc = "stamp"
  /\ LET t == sync.cur
         target == ModeFor(sync.entries[t])
     IN /\ lib' = IF RowStands(t) THEN [lib EXCEPT ![t].from = sync.account] ELSE lib
        /\ IF sync.row.new \/ (~sync.row.pinned /\ sync.row.mode # target)
           THEN sync' = [sync EXCEPT !.pc = "mode"]
           ELSE NextEntry
  /\ UNCHANGED <<accountVars, requestVars, boundVars, pastVars>>

\* stamp_synced_from_if_set, whose foreign key refuses an account that was unlinked
MergeStamp ==
  /\ sync.pc = "stamp"
  /\ LET t == sync.cur
         target == ModeFor(sync.entries[t])
     IN /\ lib' = IF RowStands(t) /\ account.id = sync.account
                  THEN [lib EXCEPT ![t].from = sync.account] ELSE lib
        /\ IF sync.row.new \/ (~sync.row.pinned /\ sync.row.mode # target)
           THEN sync' = [sync EXCEPT !.pc = "mode"]
           ELSE NextEntry
  /\ UNCHANGED <<accountVars, requestVars, boundVars, pastVars>>

\* apply_monitor_mode, by row id: update_monitor_mode, which finds a row that is gone no error:
\* the recompute after it does ...
MergeMode ==
  /\ sync.pc = "mode"
  /\ LET t == sync.cur
         target == ModeFor(sync.entries[t])
     IN \/ /\ RowStands(t)
           /\ lib' = [lib EXCEPT ![t].mode = target]
           /\ ModeTears(t, target)
           /\ sync' = [sync EXCEPT !.pc = "merge", !.cur = NoTitle, !.row = NoRead, !.of = t]
           /\ UNCHANGED <<owes, syncFaults>>
        \/ ~RowStands(t) /\ EntryFails /\ UNCHANGED <<lib, torn, syncFaults>>
        \/ SyncFault("write") /\ EntryFails /\ UNCHANGED <<lib, torn>>
  /\ UNCHANGED <<accountVars, requestVars, syncPlan, acts, unread>>

\* ... and recompute_series_monitoring fails, when the mode is written: the entry is counted as
\* failed; in detect_removals the sync ends
DeriveFails ==
  \/ /\ sync.pc = "merge"
     /\ sync' = [sync EXCEPT !.of = NoTitle, !.mode = "read", !.settled = @ \ {sync.of}]
     /\ owes' = owes \cup {sync.of}
  \/ sync.pc = "removing" /\ Fails /\ UNCHANGED owes

\* recompute_series_monitoring reads the row, and with it the mode ...
SyncDerive ==
  /\ sync.of # NoTitle /\ sync.mode = "read"
  /\ LET t == sync.of
     IN \/ /\ RowStands(t)
           /\ sync' = [sync EXCEPT !.mode = lib[t].mode]
           /\ UNCHANGED <<owes, torn, syncFaults>>
        \/ ~RowStands(t) /\ DeriveFails /\ UNCHANGED <<torn, syncFaults>>
        \/ RowStands(t) /\ SyncFault("write") /\ DeriveFails /\ torn' = torn \cup {t}
  /\ UNCHANGED <<userVars, syncPlan, acts, unread>>

\* ... and replaces the episode rows in one transaction
SyncRows ==
  /\ sync.of # NoTitle /\ sync.mode # "read"
  /\ LET t == sync.of
     IN \/ /\ RowStands(t)
           /\ lib' = [lib EXCEPT ![t].rows = sync.mode]
           /\ RowsMend(t, sync.mode)
           /\ sync' = [sync EXCEPT !.of = NoTitle, !.mode = "read"]
           /\ UNCHANGED <<owes, syncFaults>>
        \/ ~RowStands(t) /\ DeriveFails /\ UNCHANGED <<lib, torn, syncFaults>>
        \/ /\ RowStands(t) /\ SyncFault("write") /\ DeriveFails
           /\ torn' = torn \cup {t} /\ UNCHANGED lib
  /\ UNCHANGED <<accountVars, requestVars, syncPlan, acts, unread>>

\* the entries are done: the second pass, the removals or the end
MergeDone ==
  /\ sync.pc = "merge" /\ sync.of = NoTitle /\ sync.todo = {}
  /\ sync' = IF syncPlan.mal /\ sync.pass = 1 THEN [sync EXCEPT !.pc = "load", !.pass = 2]
             ELSE [sync EXCEPT !.pc = IF sync.full THEN "removals" ELSE "cursor"]
  /\ UNCHANGED <<userVars, boundVars, pastVars>>

\* list_synced_from
SyncRemovals ==
  /\ sync.pc = "removals"
  /\ sync' = [sync EXCEPT
       !.pc = "removing", !.lost = {},
       !.settled = @ \cup {t \in Titles : /\ sync.entries[t] = "absent"
                                          /\ list[sync.account][t] = "absent"},
       !.todo = {t \in Titles : /\ lib[t].in /\ lib[t].from = sync.account
                                /\ sync.entries[t] = "absent"
                                /\ lib[t].mode # "none" /\ ~lib[t].pinned}]
  /\ UNCHANGED <<userVars, boundVars, pastVars>>

\* detect_removals, by the snapshot of the series: the mode; the rows as in MergeMode
RemovalApply(t) ==
  /\ sync.pc = "removing" /\ sync.of = NoTitle /\ t \in sync.todo
  /\ \/ /\ RowStands(t)
        /\ lib' = [lib EXCEPT ![t].mode = "none"]
        /\ ModeTears(t, "none")
        /\ sync' = [sync EXCEPT !.todo = @ \ {t}, !.of = t]
        /\ UNCHANGED syncFaults
     \/ ~RowStands(t) /\ Fails /\ UNCHANGED <<lib, torn, syncFaults>>
     \/ SyncFault("write") /\ Fails /\ UNCHANGED <<lib, torn>>
  /\ UNCHANGED <<accountVars, requestVars, syncPlan, acts, owes, unread>>

RemovalsDone ==
  /\ sync.pc = "removing" /\ sync.of = NoTitle /\ sync.todo = {}
  /\ sync' = [sync EXCEPT !.pc = "cursor"]
  /\ UNCHANGED <<userVars, boundVars, pastVars>>

\* Mutant of SyncStamp: the cursor is the time of the stamp, not of the start
SyncStampNow ==
  /\ sync.pc = "cursor"
  /\ \/ /\ account.id = sync.account
        /\ account' = [account EXCEPT !.cursor = TRUE]
        /\ weekly' = (weekly /\ ~sync.full)
        /\ fresh' = [fresh EXCEPT ![sync.account] = {}]
        /\ owes' = owes \ sync.settled
        /\ unread' = IF sync.full THEN sync.edited ELSE unread
        /\ UNCHANGED syncFaults
     \/ /\ account.id # sync.account
        /\ UNCHANGED <<account, weekly, fresh, owes, unread, syncFaults>>
     \/ SyncFault("write") /\ UNCHANGED <<account, weekly, fresh, owes, unread>>
  /\ sync' = IdleSync
  /\ UNCHANGED <<list, lib, requestVars, syncPlan, acts, torn>>

\* stamp_list_synced: the row of an account that was unlinked is not there
SyncStamp ==
  /\ sync.pc = "cursor"
  /\ \/ /\ account.id = sync.account
        /\ account' = [account EXCEPT !.cursor = TRUE]
        /\ weekly' = (weekly /\ ~sync.full)
        /\ fresh' = [fresh EXCEPT ![sync.account] = sync.edited]
        /\ owes' = owes \ sync.settled
        /\ unread' = IF sync.full THEN sync.edited ELSE unread
        /\ UNCHANGED syncFaults
     \/ /\ account.id # sync.account
        /\ UNCHANGED <<account, weekly, fresh, owes, unread, syncFaults>>
     \/ SyncFault("write") /\ UNCHANGED <<account, weekly, fresh, owes, unread>>
  /\ sync' = IdleSync
  /\ UNCHANGED <<list, lib, requestVars, syncPlan, acts, torn>>

------------------------------------------------------------------------------
(* The user, the provider and time *)

\* what a user's change of title t means for the sync under way
Touched(t) ==
  sync' = [sync EXCEPT !.settled = @ \ {t}, !.stay[t] = "changed"]

\* an entry of the list is added, moved or removed
Edit(t, status) ==
  /\ account.id # 0 /\ list[account.id][t] # status
  /\ Act("edit")
  /\ list' = [list EXCEPT ![account.id][t] = status]
  /\ fresh' = [fresh EXCEPT ![account.id] = @ \cup {t}]
  /\ unread' = unread \cup {t}
  /\ sync' = IF sync.pc # "idle"
             THEN [sync EXCEPT !.edited = @ \cup {t}, !.shifted = @ \/ sync.seen # {}] ELSE sync
  /\ UNCHANGED <<account, weekly, lib, requestVars, syncPlan, syncFaults, owes, torn>>

WeekPasses ==
  /\ account.cursor /\ ~weekly
  /\ weekly' = TRUE
  /\ UNCHANGED <<account, list, fresh, lib, requestVars, sync, boundVars, pastVars>>

\* set_monitoring with a mode: the mode and the pin in one statement, then the episode rows
Pin(t, mode) ==
  /\ lib[t].in /\ deriving[t] = "no"
  /\ Act("pin")
  /\ lib' = [lib EXCEPT ![t].mode = mode, ![t].pinned = TRUE]
  /\ ModeTears(t, mode)
  /\ deriving' = [deriving EXCEPT ![t] = "read"]
  /\ sync' = IF lib[t].pinned THEN sync ELSE [sync EXCEPT !.stay[t] = "changed"]
  /\ UNCHANGED <<accountVars, excluded, adding, leaving, syncPlan, syncFaults, owes, unread>>

\* set_monitoring with "sync": the mode stays
Unpin(t) ==
  /\ lib[t].in /\ lib[t].pinned /\ deriving[t] = "no"
  /\ Act("pin")
  /\ lib' = [lib EXCEPT ![t].pinned = FALSE]
  /\ deriving' = [deriving EXCEPT ![t] = "read"]
  /\ owes' = owes \cup {t}
  /\ Touched(t)
  /\ UNCHANGED <<accountVars, excluded, adding, leaving, syncPlan, syncFaults, unread, torn>>

\* the handler's recompute_series_monitoring
DeriveRead(t) ==
  /\ deriving[t] = "read"
  /\ deriving' = [deriving EXCEPT ![t] = lib[t].mode]
  /\ UNCHANGED <<accountVars, lib, excluded, adding, leaving, sync, boundVars, pastVars>>

DeriveWrite(t) ==
  /\ deriving[t] # "no"
  /\ deriving' = [deriving EXCEPT ![t] = "no"]
  /\ \/ /\ deriving[t] # "read"
        /\ lib' = [lib EXCEPT ![t].rows = deriving[t]]
        /\ RowsMend(t, deriving[t])
        /\ UNCHANGED syncFaults
     \/ SyncFault("write") /\ torn' = torn \cup {t} /\ UNCHANGED lib
  /\ UNCHANGED <<accountVars, excluded, adding, leaving, sync, syncPlan, acts, owes, unread>>

\* add_series: the upsert, then the exclusion
AddSeries(t) ==
  /\ t \notin adding
  /\ Act("add")
  /\ lib' = IF lib[t].in THEN lib ELSE [lib EXCEPT ![t] = NewSeries]
  /\ adding' = adding \cup {t}
  /\ owes' = owes \cup {t}
  /\ sync' = [sync EXCEPT !.settled = @ \ {t}, !.barred = @ \ {t}]
  /\ UNCHANGED <<accountVars, excluded, leaving, deriving, syncPlan, syncFaults, unread, torn>>

\* and the task it spawns, which recomputes the episode rows if it could refresh the metadata
DropExclusion(t) ==
  /\ t \in adding
  /\ adding' = adding \ {t}
  /\ excluded' = IF lib[t].in THEN excluded \ {t} ELSE excluded
  /\ \/ UNCHANGED deriving
     \/ /\ lib[t].in /\ deriving[t] = "no"
        /\ deriving' = [deriving EXCEPT ![t] = "read"]
  /\ sync' = IF lib[t].in THEN [sync EXCEPT !.barred = @ \ {t}] ELSE sync
  /\ UNCHANGED <<accountVars, lib, leaving, boundVars, pastVars>>

\* remove_series, with or without "keep it off my sync": the row, then the exclusion
RemoveSeries(t, keepOff) ==
  /\ lib[t].in
  /\ Act("remove")
  /\ lib' = [lib EXCEPT ![t] = NoSeries]
  /\ deriving' = [deriving EXCEPT ![t] = "no"]
  /\ torn' = torn \ {t}
  /\ leaving' = IF keepOff THEN leaving \cup {t} ELSE leaving
  /\ owes' = owes \cup {t}
  /\ sync' = IF sync.pc # "idle"
             THEN [sync EXCEPT !.settled = @ \ {t}, !.stay[t] = "changed", !.lost = @ \cup {t}]
             ELSE sync
  /\ UNCHANGED <<accountVars, excluded, adding, syncPlan, syncFaults, unread>>

RecordExclusion(t) ==
  /\ t \in leaving
  /\ leaving' = leaving \ {t}
  /\ excluded' = excluded \cup {t}
  /\ UNCHANGED <<accountVars, lib, adding, deriving, sync, boundVars, pastVars>>

\* sync_exclusion_delete
AllowAgain(t) ==
  /\ t \in excluded
  /\ Act("allow")
  /\ excluded' = excluded \ {t}
  /\ owes' = owes \cup {t}
  /\ sync' = [sync EXCEPT !.settled = @ \ {t}, !.barred = @ \ {t}]
  /\ UNCHANGED <<accountVars, lib, adding, leaving, deriving, syncPlan, syncFaults, unread, torn>>

\* external_accounts::link of an account that is not linked yet
Link(entries) ==
  /\ account.id = 0 /\ account.last < MaxAccounts
  /\ Act("link")
  /\ account' = [id |-> account.last + 1, last |-> account.last + 1, cursor |-> FALSE]
  /\ list' = [list EXCEPT ![account.last + 1] = entries]
  /\ UNCHANGED <<weekly, fresh, lib, requestVars, sync, syncPlan, syncFaults, pastVars>>

\* external_accounts::unlink, one transaction; the foreign key clears the series' account
Unlink ==
  /\ account.id # 0
  /\ Act("link")
  /\ account' = [account EXCEPT !.id = 0, !.cursor = FALSE]
  /\ weekly' = FALSE
  /\ lib' = [t \in Titles |-> IF lib[t].from = account.id THEN [lib[t] EXCEPT !.from = 0]
                              ELSE lib[t]]
  /\ UNCHANGED <<list, fresh, requestVars, sync, syncPlan, syncFaults, pastVars>>

SyncRestart ==
  /\ sync.pc # "idle" \/ adding # {} \/ leaving # {} \/ \E t \in Titles : deriving[t] # "no"
  /\ SyncFault("restart")
  /\ sync' = IdleSync
  /\ adding' = {} /\ leaving' = {} /\ deriving' = [t \in Titles |-> "no"]
  /\ torn' = torn \cup {t \in Titles : deriving[t] # "no" \/ Recomputing(t)}
  /\ UNCHANGED <<accountVars, lib, excluded, syncPlan, acts, owes, unread>>

------------------------------------------------------------------------------
(* Specification *)

\* an account has just been linked, and the library is empty
SyncInit ==
  /\ syncPlan \in SyncPlans
  /\ account = [id |-> 1, last |-> 1, cursor |-> FALSE]
  /\ weekly = FALSE
  /\ \E entries \in Entries :
       list = [a \in Accounts |-> IF a = 1 THEN entries ELSE [t \in Titles |-> "absent"]]
  /\ fresh = [a \in Accounts |-> {}]
  /\ lib = [t \in Titles |-> NoSeries]
  /\ excluded = {} /\ adding = {} /\ leaving = {} /\ deriving = [t \in Titles |-> "no"]
  /\ sync = IdleSync
  /\ acts = 0 /\ syncFaults = 0
  /\ owes = {} /\ unread = {} /\ torn = {}

SyncStep ==
  \/ SyncFetch \/ SyncDrained \/ SyncRefreshToken \/ SyncDetails \/ SyncLoad
  \/ MergeRead \/ MergeCreate \/ MergeStamp \/ MergeMode \/ SyncDerive \/ SyncRows \/ MergeDone
  \/ SyncRemovals \/ RemovalsDone \/ SyncStamp
  \/ \E t \in Titles : SyncPage(t) \/ MergeEntry(t) \/ RemovalApply(t)

UserStep ==
  \/ \E t \in syncPlan.titles :
       \/ \E status \in Listings : Edit(t, status)
       \/ \E mode \in Modes : Pin(t, mode)
       \/ Unpin(t) \/ AddSeries(t) \/ AllowAgain(t)
       \/ \E keepOff \in BOOLEAN : RemoveSeries(t, keepOff)
  \/ \E entries \in Entries : Link(entries)
  \/ Unlink

RequestStep ==
  \E t \in Titles : DropExclusion(t) \/ RecordExclusion(t) \/ DeriveRead(t) \/ DeriveWrite(t)

SyncNext == SyncTick \/ SyncNow \/ SyncStep \/ UserStep \/ RequestStep \/ WeekPasses \/ SyncRestart

\* a supervised loop, requests that run to their end, and time
SyncFairness == /\ WF_syncVars(SyncTick) /\ WF_syncVars(SyncStep)
                /\ WF_syncVars(RequestStep) /\ WF_syncVars(WeekPasses)

SyncSpec == SyncInit /\ [][SyncNext]_syncVars /\ SyncFairness

------------------------------------------------------------------------------
(* Properties *)

\* The rows, the sync under way and the counters are well-formed; a series names the linked
\* account or none (ON DELETE SET NULL).
SyncTypeOK ==
  /\ syncPlan \in SyncPlans
  /\ account \in [id : Accounts \cup {0}, last : Accounts, cursor : BOOLEAN]
  /\ account.id \in {0, account.last}
  /\ weekly \in BOOLEAN
  /\ list \in [Accounts -> [Titles -> Listings]]
  /\ fresh \in [Accounts -> SUBSET Titles]
  /\ lib \in [Titles -> [in : BOOLEAN, mode : Modes, rows : Modes \cup {"missing"},
                         pinned : BOOLEAN, from : {0, account.id}]]
  /\ excluded \subseteq Titles /\ adding \subseteq Titles /\ leaving \subseteq Titles
  /\ deriving \in [Titles -> Modes \cup {"no", "read"}]
  /\ \A t \in Titles : deriving[t] # "no" => lib[t].in
  /\ sync \in [pc : {"idle", "fetch", "details", "load", "merge", "read", "create", "stamp",
                     "mode", "removals", "removing", "cursor"},
               account : Accounts \cup {0}, full : BOOLEAN, pass : 1..2,
               seen : SUBSET Titles, shifted : BOOLEAN,
               entries : [Titles -> Listings], details : SUBSET Titles, out : SUBSET Titles,
               todo : SUBSET Titles, cur : Titles \cup {NoTitle},
               row : [pinned : BOOLEAN, mode : Modes, new : BOOLEAN],
               of : Titles \cup {NoTitle}, mode : Modes \cup {"read"},
               lost : SUBSET Titles, edited : SUBSET Titles, settled : SUBSET Titles,
               stay : [Titles -> {"pinned", "free", "changed"}], barred : SUBSET Titles]
  /\ sync.pc \in {"read", "create", "stamp", "mode"} <=> sync.cur # NoTitle
  /\ sync.of # NoTitle => sync.pc \in {"merge", "removing"}
  /\ acts \in 0..syncPlan.acts /\ syncFaults \in 0..syncPlan.atMost
  /\ owes \subseteq Titles /\ unread \subseteq Titles /\ torn \subseteq Titles

\* what the list asks of title t, which no later sync has to look at
Follows(t) ==
  LET status == list[account.id][t]
  IN /\ status \in Imported /\ t \notin excluded \cup leaving => lib[t].in
     /\ lib[t].in /\ ~lib[t].pinned =>
          /\ status # "absent" => lib[t].mode = ModeFor(status)
          /\ status = "absent" /\ lib[t].from = account.id => lib[t].mode = "none"
     /\ lib[t].in /\ deriving[t] = "no" /\ t \notin torn => lib[t].rows \in {lib[t].mode, "missing"}

\* Once the cursor is set and no sync is under way, the library follows every entry that a
\* delta sync will not look at again (mod.rs: "only stamp on success ... or the entries it
\* skipped fetching would be lost forever"), whatever was edited, added, removed, unlinked or
\* failed in between: an edit during the sync is never behind the cursor, a delta never reads
\* as a removal, and a sync of an account that was unlinked moves no other account's cursor.
\* Excused: a title whose merge failed, whose pin was cleared, which was added, removed or
\* allowed again by hand, or which MAL's pages missed (owes); what left the list since the last
\* full sync; and the episode rows of a title whose recompute failed, was cut off or met another
\* one, which no sync repairs (torn).
SyncedFollows ==
  sync.pc = "idle" /\ account.cursor =>
    \A t \in Titles \ (owes \cup fresh[account.id]) :
      (list[account.id][t] = "absent" /\ t \in unread) \/ Follows(t)

\* A sync does not touch the mode of a series that was pinned all the time it ran, and does not
\* bring back a title that was out of the library and excluded all the time.
SyncRespectsUser ==
  [][SyncStep => \A t \in Titles :
       /\ sync.stay[t] = "pinned" => lib'[t].mode = lib[t].mode
       /\ t \in sync.barred /\ ~lib[t].in => ~lib'[t].in]_syncVars

\* What the list says reaches the library in the end, whatever failed or was missed on the way,
\* because a week passes and a full sync succeeds: every title is imported, and its mode follows
\* its status, or is "none" after it left the list.  Its episode rows follow the mode unless a
\* recompute of them failed, was cut off or met another one.  (The acts of the user are bounded,
\* so "again and again" is "from some point on".)
EditsReachLibrary == []<>(account.id = 0 \/ \A t \in Titles : Follows(t))
==============================================================================
