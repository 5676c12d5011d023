---------------------------- MODULE GrabLifecycle -----------------------------
(***************************************************************************)
(* The life of a grab, for the episode of one series that several releases *)
(* cover: the handler that adds the release, records it in                 *)
(* grabbed_torrents and stamps the row with its indexer's seed rules, the  *)
(* post-processing tick that imports it, the finished-seed sweep that      *)
(* takes it out of the download client, and the requests that cancel it,   *)
(* delete its episode or mark it failed.                                   *)
(*                                                                         *)
(* The tick holds POST_PROC_LOCK and nothing else does, so every statement *)
(* on the database and every call to the client is an action of its own.   *)
(* Placing a file in the library is one action here: its staging, its      *)
(* recycling and the crashes between them are not part of this module.     *)
(***************************************************************************)
CONSTANTS
  Grabs,          \* grab requests; each one records at most the row of its id
  Hashes,         \* the releases of the episode: info hashes and nzo ids
  Batches,        \* the releases with other files than the episode's
  Usenet,         \* the jobs of a usenet client, whose ids are never reused
  Ruled,          \* the releases whose indexer has seed rules
  EntryPoints,    \* the grab handlers in use, see EntryPointKinds
  Mode,           \* post_processing_mode: "link" (hardlink or copy) or "move"
  PostProcessing, \* post-processing is enabled and has a media root
  RemoveCompleted, RemoveFailed, \* the client's two removal switches
  BootGrace,      \* the process has just started at the beginning
  Forced,          \* somebody posts /api/tasks/post-processing
  Requests,       \* requests on the episode that may be in flight at once
  Ops,            \* what they are: {"cancel", "delete", "fail"}
  Faults,         \* what may go wrong, see FaultKinds
  NoGrab, NoHash

FaultKinds ==
  {"rpc",      \* a call to the client is answered with an error
   "errored",  \* the client reports a download in an error state
   "late",     \* a complete download's files are not visible yet
   "file",     \* a file cannot be placed in the library
   "outside",  \* somebody removes the item in the client itself
   "flag",     \* a seed-rule flag cannot be looked up, or not be written
   "restart"}  \* the process restarts

EntryPointKinds ==
  {"search",      \* the automatic search and autobrr's webhook: they stamp the row
   "interactive"} \* a pick among search results, RSS and upgrades: they do not

ASSUME ConstantsAssumption ==
  /\ Batches \subseteq Hashes /\ Usenet \subseteq Hashes /\ Ruled \subseteq Hashes
  /\ Mode \in {"link", "move"}
  /\ {PostProcessing, RemoveCompleted, RemoveFailed, BootGrace, Forced} \subseteq BOOLEAN
  /\ Ops \subseteq {"cancel", "delete", "fail"}
  /\ Faults \subseteq FaultKinds /\ EntryPoints \subseteq EntryPointKinds
  /\ NoGrab \notin Grabs /\ NoHash \notin Hashes

VARIABLES
  grabs,   \* the grabbed_torrents table
  handler, \* the grab handlers in flight
  item,    \* the download client's list
  source,  \* the hashes whose files are in the download folder
  library, \* the release whose file the episode has, or NoHash
  owed,    \* history: releases with a file that failed to be imported
  tag,     \* the episode's row of episode_quality_tags
  tick,    \* the post-processing run in flight (POST_PROC_LOCK)
  loop,    \* where the once-a-minute loop is
  due,     \* FINISHED_SEED_SWEEP_INTERVAL has passed since the last sweep
  sweep,   \* the finished-seed sweep in flight (SEED_SWEEP_LOCK)
  req,     \* the requests in flight
  grace    \* less than IMPORT_STALL_BOOT_GRACE_SECS since the process started

vars == <<grabs, handler, item, source, library, owed, tag, tick, loop, due,
          sweep, req, grace>>

-------------------------------------------------------------------------------
(* State *)

\* done is imported_at, gone is client_removed_at, aged says that grabbed_at
\* is over a minute old, seen follows completed_seen_at up to the stall limit,
\* ruled is respect_seed_rules.
Row == [hash : Hashes \cup {NoHash},
        state : {"none", "pending", "imported", "failed", "removed", "replaced"},
        done : BOOLEAN, mode : {"", "link", "move", "partial"},
        gone : BOOLEAN, aged : BOOLEAN, seen : {"no", "yes", "stalled"},
        ruled : BOOLEAN]

NoRow == [hash |-> NoHash, state |-> "none", done |-> FALSE, mode |-> "",
          gone |-> FALSE, aged |-> FALSE, seen |-> "no", ruled |-> FALSE]

\* row is the id record_grab returned.
Handler == [pc : {"idle", "added", "dup", "recorded", "stamped", "ended", "lost"},
            hash : Hashes \cup {NoHash}, row : Grabs \cup {NoGrab}]

NoHandler == [pc |-> "idle", hash |-> NoHash, row |-> NoGrab]

ItemState == {"absent", "downloading", "complete", "seeded", "errored"}

Tag == [of : Hashes \cup {NoHash}, state : {"", "grabbed", "completed", "failed"}]

NoTag == [of |-> NoHash, state |-> ""]

NoListing == [h \in Hashes |-> "absent"]

TickPc == {"idle", "list", "pick", "remove", "untag", "fail", "failtag", "drop", "discard",
           "seen", "import", "olds", "swap", "old", "oldgo", "mark", "mode", "free", "freed",
           "stall", "giveup", "giveuptag", "allfailed", "finish", "finishtag"}

Tick == [pc : TickPc, by : {"none", "loop", "force"}, todo : SUBSET Grabs,
         listing : [Hashes -> ItemState], cur : Grabs \cup {NoGrab},
         full : BOOLEAN, landed : BOOLEAN, olds : SUBSET Grabs, flush : SUBSET Grabs,
         old : Grabs \cup {NoGrab}]

NoTick == [pc |-> "idle", by |-> "none", todo |-> {}, listing |-> NoListing,
           cur |-> NoGrab, full |-> FALSE, landed |-> FALSE, olds |-> {}, flush |-> {},
           old |-> NoGrab]

Sweep == [pc : {"idle", "list", "pick", "delete", "stamp"}, todo : SUBSET Grabs,
          listing : [Hashes -> ItemState], cur : Grabs \cup {NoGrab},
          gone : SUBSET Grabs]

NoSweep == [pc |-> "idle", todo |-> {}, listing |-> NoListing, cur |-> NoGrab,
            gone |-> {}]

RequestPc == {"idle", "drift", "stuck", "recheck", "untag", "byname", "find", "each",
              "delete", "mark", "cleartags", "ended"}

Request == [pc : RequestPc, op : Ops \cup {"none"}, hash : Hashes \cup {NoHash},
            found : SUBSET Grabs, stuck : SUBSET Grabs, cur : Grabs \cup {NoGrab}]

NoRequest == [pc |-> "idle", op |-> "none", hash |-> NoHash, found |-> {},
              stuck |-> {}, cur |-> NoGrab]

EndedRequest == [NoRequest EXCEPT !.pc = "ended"]

TypeOK ==
  /\ grabs \in [Grabs -> Row]
  /\ \A g \in Grabs : grabs[g].state # "none" => grabs[g].hash \in Hashes
  /\ handler \in [Grabs -> Handler]
  /\ \A g \in Grabs : handler[g].pc # "idle" => handler[g].hash \in Hashes
  /\ item \in [Hashes -> ItemState]
  /\ source \subseteq Hashes
  /\ library \in Hashes \cup {NoHash}
  /\ owed \subseteq Hashes
  /\ tag \in Tag
  /\ tick \in Tick
  /\ tick.pc \notin {"idle", "list", "pick"} => tick.cur \in Grabs
  /\ tick.pc = "oldgo" => tick.old \in Grabs
  /\ loop \in {"idle", "tick", "sweep"}
  /\ due \in BOOLEAN
  /\ sweep \in Sweep
  /\ sweep.pc \in {"delete", "stamp"} => sweep.cur \in Grabs
  /\ req \in [Requests -> Request]
  /\ \A r \in Requests : req[r].pc \in {"delete", "mark"} => req[r].cur \in Grabs
  /\ grace \in BOOLEAN

\* An empty library beside a client that may already hold some releases.
Init ==
  /\ grabs = [g \in Grabs |-> NoRow]
  /\ handler = [g \in Grabs |-> NoHandler]
  /\ item \in [Hashes -> {"absent", "complete"}]
  /\ \A h \in Usenet : item[h] = "absent"
  /\ source = {h \in Hashes : item[h] = "complete"}
  /\ library = NoHash
  /\ owed = {}
  /\ tag = NoTag
  /\ tick = NoTick
  /\ loop = "idle"
  /\ due = TRUE
  /\ sweep = NoSweep
  /\ req = [r \in Requests |-> NoRequest]
  /\ grace = BootGrace

-------------------------------------------------------------------------------
(* The table and the client *)

InState(s) == {g \in Grabs : grabs[g].state = s}

LiveGrabs == InState("pending") \cup InState("imported")

\* UPDATE grabbed_torrents SET state = s WHERE id = g: whatever the row's state.
SetState(g, s) == grabs' = [grabs EXCEPT ![g].state = s]

\* client.delete(hash, true) answered Ok: the item and its data are gone.
Deleted(h) ==
  /\ item' = [item EXCEPT ![h] = "absent"]
  /\ source' = source \ {h}

\* client.delete answered with an error.
DeleteFails ==
  /\ "rpc" \in Faults
  /\ UNCHANGED <<item, source>>

\* list_scoped, kept for the rows that are still to be looked up in it.
Listing(todo) ==
  [h \in Hashes |-> IF \E g \in todo : grabs[g].hash = h THEN item[h] ELSE "absent"]

Unlisted(listing, g) == [listing EXCEPT ![grabs[g].hash] = "absent"]

\* A row of the release carries respect_seed_rules.
Flagged(h) == \E g \in Grabs : grabs[g].hash = h /\ grabs[g].ruled

\* A change that breaks it: the rows that are closed are not asked.
SparedByLiveRows(h) == {\E g \in LiveGrabs : grabs[g].hash = h /\ grabs[g].ruled}

\* What respects_seed_rules may answer: a database error is "no".
Spared(h) == {Flagged(h)} \cup (IF "flag" \in Faults THEN {FALSE} ELSE {})

ClientVars == <<item, source>>
OthersOfTick == <<handler, owed, due, sweep, req, grace>>

-------------------------------------------------------------------------------
(* The grab handler: add the release, record it, tag the episode *)

\* add_torrent answers AlreadyPresent for a torrent the client holds; a
\* usenet client makes a new job of every add.
GrabAdd(g, h) ==
  /\ handler[g].pc = "idle"
  /\ h \in Usenet => \A other \in Grabs : handler[other].hash # h
  /\ handler' = [handler EXCEPT ![g] = [NoHandler EXCEPT !.pc = "added", !.hash = h]]
  /\ item' = [item EXCEPT ![h] = IF @ = "absent" THEN "downloading" ELSE @]
  /\ UNCHANGED <<grabs, source, library, owed, tag, tick, loop, due, sweep, req, grace>>

\* A change that breaks it: the id the client answered with is not recorded.
RecordNameless(g) ==
  /\ handler[g].pc = "added"
  /\ handler' = [handler EXCEPT ![g].pc = "recorded", ![g].row = g]
  /\ grabs' = [grabs EXCEPT ![g] = [NoRow EXCEPT !.state = "pending"]]
  /\ UNCHANGED <<item, source, library, owed, tag, tick, loop, due, sweep, req, grace>>

\* INSERT OR IGNORE against the unique index over the live rows of a hash.
RecordInsert(g) ==
  /\ handler[g].pc = "added"
  /\ IF \E other \in LiveGrabs : grabs[other].hash = handler[g].hash
     THEN /\ handler' = [handler EXCEPT ![g].pc = "dup"]
          /\ UNCHANGED grabs
     ELSE /\ handler' = [handler EXCEPT ![g].pc = "recorded", ![g].row = g]
          /\ grabs' = [grabs EXCEPT ![g] =
                         [NoRow EXCEPT !.hash = handler[g].hash, !.state = "pending"]]
  /\ UNCHANGED <<item, source, library, owed, tag, tick, loop, due, sweep, req, grace>>

\* The dedup hit: an imported row is reactivated, any other is left alone.
RecordReactivate(g) ==
  /\ handler[g].pc = "dup"
  /\ LET again == {other \in InState("imported") : grabs[other].hash = handler[g].hash}
     IN /\ \E row \in IF again = {} THEN {NoGrab} ELSE again :
             handler' = [handler EXCEPT ![g].pc = "recorded", ![g].row = row]
        /\ grabs' = [other \in Grabs |->
                       IF other \in again
                       THEN [grabs[other] EXCEPT !.state = "pending", !.done = FALSE,
                               !.gone = FALSE, !.aged = FALSE, !.seen = "no"]
                       ELSE grabs[other]]
  /\ UNCHANGED <<item, source, library, owed, tag, tick, loop, due, sweep, req, grace>>

\* apply_indexer_seed_rules, false as well when the indexer's row cannot be
\* read, and set_indexer_attribution, an UPDATE by id whose failure is dropped.
StampRules(g) ==
  /\ handler[g].pc = "recorded" /\ handler[g].row # NoGrab
  /\ "search" \in EntryPoints
  /\ handler' = [handler EXCEPT ![g].pc = "stamped"]
  /\ LET row == handler[g].row
     IN \/ grabs' = [grabs EXCEPT ![row].ruled = (handler[g].hash \in Ruled)]
        \/ /\ "flag" \in Faults
           /\ grabs' = [grabs EXCEPT ![row].ruled = FALSE] \/ UNCHANGED grabs
  /\ UNCHANGED <<item, source, library, owed, tag, tick, loop, due, sweep, req, grace>>

\* episode_tags::record_grab, also after a grab that recorded no row.
TagGrabbed(g) ==
  /\ \/ handler[g].pc = "stamped"
     \/ handler[g].pc = "recorded" /\ (handler[g].row = NoGrab \/ "interactive" \in EntryPoints)
  /\ handler' = [handler EXCEPT ![g].pc = "ended", ![g].row = NoGrab]
  /\ tag' = [of |-> handler[g].hash, state |-> "grabbed"]
  /\ UNCHANGED <<grabs, item, source, library, owed, tick, loop, due, sweep, req, grace>>

-------------------------------------------------------------------------------
(* run_once *)

CurHash == grabs[tick.cur].hash

NextRow == [tick EXCEPT !.pc = "pick", !.cur = NoGrab, !.full = FALSE,
                        !.landed = FALSE, !.olds = {}, !.flush = {}]

At(pc) == tick.pc = pc

Goto(pc) == tick' = [tick EXCEPT !.pc = pc]

\* The run ends and releases POST_PROC_LOCK; the loop goes on to the sweep.
EndRun ==
  /\ tick' = NoTick
  /\ loop' = IF tick.by = "loop" THEN "sweep" ELSE loop

\* The run takes the lock and reads the pending rows.
TickStart(by) ==
  /\ IF by = "loop" THEN loop = "idle" ELSE Forced
  /\ At("idle")
  /\ IF InState("pending") = {}
     THEN /\ loop' = IF by = "loop" THEN "sweep" ELSE loop
          /\ UNCHANGED tick
     ELSE /\ loop' = IF by = "loop" THEN "tick" ELSE loop
          /\ tick' = [NoTick EXCEPT !.pc = "list", !.by = by, !.todo = InState("pending")]
  /\ UNCHANGED <<grabs, library, tag, ClientVars, OthersOfTick>>

\* The lock is taken by a forced run: the loop skips its own.
TickSkipped ==
  /\ loop = "idle" /\ ~ At("idle")
  /\ loop' = "sweep"
  /\ UNCHANGED <<grabs, library, tag, tick, ClientVars, OthersOfTick>>

\* list_scoped.  A client that cannot be listed ends the run.
TickList ==
  /\ At("list")
  /\ \/ /\ tick' = [tick EXCEPT !.pc = "pick", !.listing = Listing(tick.todo)]
        /\ UNCHANGED loop
     \/ /\ "rpc" \in Faults
        /\ EndRun
  /\ UNCHANGED <<grabs, library, tag, ClientVars, OthersOfTick>>

TickEnd ==
  /\ At("pick") /\ tick.todo = {}
  /\ EndRun
  /\ UNCHANGED <<grabs, library, tag, ClientVars, OthersOfTick>>

\* A change that breaks it: a row whose item is not in the client is left alone.
VerdictForgiving(g) ==
  LET listed == tick.listing[grabs[g].hash]
  IN IF listed = "absent" THEN "pick"
     ELSE IF listed = "errored" THEN IF grace THEN "pick" ELSE "fail"
     ELSE IF listed = "downloading" THEN "pick" ELSE "seen"

\* A change that breaks it: a torrent that has stopped seeding is not complete.
VerdictSeeding(g) == IF tick.listing[grabs[g].hash] = "complete" THEN "finish" ELSE "pick"

\* What the run does with a row, from the listing it took at its start.
Verdict(g) ==
  LET listed == tick.listing[grabs[g].hash]
      complete == listed \in {"complete", "seeded"}
  IN IF ~ PostProcessing THEN IF complete THEN "finish" ELSE "pick"
     ELSE IF listed = "absent" THEN IF grabs[g].aged THEN "remove" ELSE "pick"
     ELSE IF listed = "errored" THEN IF grace THEN "pick" ELSE "fail"
     ELSE IF complete THEN "seen" ELSE "pick"

TickPick(g) ==
  /\ At("pick") /\ g \in tick.todo
  /\ tick' = [tick EXCEPT !.todo = @ \ {g}, !.listing = Unlisted(@, g), !.pc = Verdict(g),
                          !.cur = IF Verdict(g) = "pick" THEN NoGrab ELSE g]
  /\ UNCHANGED <<grabs, library, tag, loop, ClientVars, OthersOfTick>>

\* The item is not in the client: mark_removed, then clear_tags_for_removal.
TickRemove ==
  /\ At("remove")
  /\ SetState(tick.cur, "removed")
  /\ Goto("untag")
  /\ UNCHANGED <<library, tag, loop, ClientVars, OthersOfTick>>

TickUntag ==
  /\ At("untag")
  /\ tag' = NoTag
  /\ tick' = NextRow
  /\ UNCHANGED <<grabs, library, loop, ClientVars, OthersOfTick>>

\* The client reports an error, or the import stalled: the grab fails with a
\* reason, then the tag this release wrote, then the item may go.
TickFail ==
  /\ At("fail") \/ At("giveup")
  /\ SetState(tick.cur, "failed")
  /\ Goto(IF At("fail") THEN "failtag" ELSE "giveuptag")
  /\ UNCHANGED <<library, tag, loop, ClientVars, OthersOfTick>>

TickFailTag ==
  /\ At("failtag") \/ At("giveuptag")
  /\ tag' = IF tag = [of |-> CurHash, state |-> "grabbed"]
            THEN [tag EXCEPT !.state = "failed"] ELSE tag
  /\ IF At("failtag") THEN Goto("drop") ELSE tick' = NextRow
  /\ UNCHANGED <<grabs, library, loop, ClientVars, OthersOfTick>>

\* remove_failed_from_client: the switch and the seed rules, then the delete.
TickDrop ==
  /\ At("drop")
  /\ \E spared \in Spared(CurHash) :
       IF ~ RemoveFailed \/ (spared /\ CurHash \notin Usenet)
       THEN tick' = NextRow ELSE Goto("discard")
  /\ UNCHANGED <<grabs, library, tag, loop, ClientVars, OthersOfTick>>

TickDiscard ==
  /\ At("discard")
  /\ Deleted(CurHash) \/ DeleteFails
  /\ tick' = NextRow
  /\ UNCHANGED <<grabs, library, tag, loop, OthersOfTick>>

\* stamp_completed_seen.
TickSeen ==
  /\ At("seen")
  /\ grabs' = [grabs EXCEPT ![tick.cur].seen = IF @ = "no" THEN "yes" ELSE @]
  /\ Goto("import")
  /\ UNCHANGED <<library, tag, loop, ClientVars, OthersOfTick>>

\* import_torrent up to the placing of the files.  full: every wanted file can
\* be placed; landed: the episode's own file can.
TickImport ==
  /\ At("import")
  /\ LET h == CurHash IN
     \/ /\ item[h] = "absent" \/ h \notin source \/ {"rpc", "file"} \cap Faults # {}
        /\ Goto("allfailed")
        /\ UNCHANGED <<source, library, owed>>
     \/ /\ h \notin source \/ "late" \in Faults
        /\ Goto("stall")
        /\ UNCHANGED <<source, library, owed>>
     \/ \E full \in BOOLEAN, landed \in BOOLEAN :
          /\ h \in source /\ item[h] # "absent"
          /\ full => landed
          /\ ~ full => h \in Batches /\ "file" \in Faults
          /\ source' = IF full /\ Mode = "move" THEN source \ {h} ELSE source
          /\ owed' = IF full THEN owed \ {h} ELSE owed \cup {h}
          /\ IF landed /\ library # NoHash
             THEN /\ tick' = [tick EXCEPT !.pc = "olds", !.full = full, !.landed = TRUE]
                  /\ UNCHANGED library
             ELSE /\ tick' = [tick EXCEPT !.pc = "old", !.full = full, !.landed = landed]
                  /\ library' = IF landed THEN h ELSE library
  /\ UNCHANGED <<grabs, handler, item, tag, loop, due, sweep, req, grace>>

\* The episode has a file: the new one is staged beside it, and the imported
\* grabs of the episode are looked up.
TickOlds ==
  /\ At("olds")
  /\ tick' = [tick EXCEPT !.pc = "swap", !.olds = InState("imported")]
  /\ UNCHANGED <<grabs, library, tag, loop, ClientVars, OthersOfTick>>

\* The old file is recycled and the staged one renamed into place; when the
\* old one cannot be recycled the staging is undone and the episode fails.
TickSwap ==
  /\ At("swap")
  /\ \/ /\ library' = CurHash
        /\ Goto("old")
        /\ UNCHANGED <<source, owed>>
     \/ /\ "file" \in Faults
        /\ source' = IF tick.full /\ Mode = "move" THEN source \cup {CurHash} ELSE source
        /\ IF CurHash \in Batches
           THEN /\ tick' = [tick EXCEPT !.pc = "old", !.full = FALSE,
                                        !.landed = FALSE, !.olds = {}]
                /\ owed' = owed \cup {CurHash}
           ELSE /\ Goto("allfailed")
                /\ UNCHANGED owed
        /\ UNCHANGED library
  /\ UNCHANGED <<grabs, handler, item, tag, loop, due, sweep, req, grace>>

\* A change that breaks it: a torrent under seed rules is skipped altogether.
TickOldSkipping(g) ==
  /\ At("old") /\ g \in tick.olds
  /\ \E spared \in Spared(grabs[g].hash) :
       tick' = IF spared THEN [tick EXCEPT !.olds = @ \ {g}]
               ELSE [tick EXCEPT !.olds = @ \ {g}, !.flush = @ \cup {g}, !.pc = "oldgo", !.old = g]
  /\ UNCHANGED <<grabs, library, tag, loop, ClientVars, OthersOfTick>>

\* The torrent of a replaced grab, unless it is under seed rules, ...
TickOld(g) ==
  /\ At("old") /\ g \in tick.olds
  /\ \E spared \in Spared(grabs[g].hash) :
       LET rest == [tick EXCEPT !.olds = @ \ {g}, !.flush = @ \cup {g}]
       IN tick' = IF spared THEN rest ELSE [rest EXCEPT !.pc = "oldgo", !.old = g]
  /\ UNCHANGED <<grabs, library, tag, loop, ClientVars, OthersOfTick>>

\* ... leaves the client, whatever the answer.
TickOldGone ==
  /\ At("oldgo")
  /\ Deleted(grabs[tick.old].hash) \/ DeleteFails
  /\ tick' = [tick EXCEPT !.pc = "old", !.old = NoGrab]
  /\ UNCHANGED <<grabs, library, tag, loop, OthersOfTick>>

\* The flush after the file loop: mark_replaced.
TickFlush(g) ==
  /\ At("old") /\ tick.olds = {} /\ g \in tick.flush
  /\ SetState(g, "replaced")
  /\ tick' = [tick EXCEPT !.flush = @ \ {g}]
  /\ UNCHANGED <<library, tag, loop, ClientVars, OthersOfTick>>

\* episode_tags::mark_completed promotes the tag of whichever release.
Completed == IF tag.state = "grabbed" THEN [tag EXCEPT !.state = "completed"] ELSE tag

TickTag ==
  /\ At("old") /\ tick.olds = {} /\ tick.flush = {}
  /\ tag' = IF tick.landed THEN Completed ELSE tag
  /\ Goto("mark")
  /\ UNCHANGED <<grabs, library, loop, ClientVars, OthersOfTick>>

\* A change that breaks it: the UPDATE without its state condition.
MarkImportedAlways(g) ==
  grabs' = [grabs EXCEPT ![g].state = "imported", ![g].done = TRUE]

\* mark_imported: only a pending row becomes imported.
MarkImported(g) ==
  grabs' = [grabs EXCEPT ![g] = IF @.state = "pending"
                                THEN [@ EXCEPT !.state = "imported", !.done = TRUE] ELSE @]

TickMark ==
  /\ At("mark")
  /\ MarkImported(tick.cur)
  /\ Goto("mode")
  /\ UNCHANGED <<library, tag, loop, ClientVars, OthersOfTick>>

\* A change that breaks it: a partial import is stamped with the mode as well.
TickModeAlways ==
  /\ At("mode")
  /\ grabs' = [grabs EXCEPT ![tick.cur].mode = Mode]
  /\ IF tick.full THEN Goto("free") ELSE tick' = NextRow
  /\ UNCHANGED <<library, tag, loop, ClientVars, OthersOfTick>>

\* stamp_import_mode.
TickMode ==
  /\ At("mode")
  /\ grabs' = [grabs EXCEPT ![tick.cur].mode = IF tick.full THEN Mode ELSE "partial"]
  /\ IF tick.full THEN Goto("free") ELSE tick' = NextRow
  /\ UNCHANGED <<library, tag, loop, ClientVars, OthersOfTick>>

\* remove_after_import: a job, or a torrent whose file was moved away.
FreedByImport(h) == RemoveCompleted /\ (h \in Usenet \/ Mode = "move")

TickFree ==
  /\ At("free")
  /\ \/ /\ FreedByImport(CurHash)
        /\ Deleted(CurHash)
        /\ Goto("freed")
     \/ /\ FreedByImport(CurHash)
        /\ DeleteFails
        /\ tick' = NextRow
     \/ /\ ~ FreedByImport(CurHash)
        /\ tick' = NextRow
        /\ UNCHANGED ClientVars
  /\ UNCHANGED <<grabs, library, tag, loop, OthersOfTick>>

\* stamp_client_removed.
TickFreed ==
  /\ At("freed")
  /\ grabs' = [grabs EXCEPT ![tick.cur].gone = TRUE]
  /\ tick' = NextRow
  /\ UNCHANGED <<library, tag, loop, ClientVars, OthersOfTick>>

\* escalate_if_stalled.
TickStall ==
  /\ At("stall")
  /\ IF ~ grace /\ grabs[tick.cur].seen = "stalled" THEN Goto("giveup") ELSE tick' = NextRow
  /\ UNCHANGED <<grabs, library, tag, loop, ClientVars, OthersOfTick>>

\* No file could be placed, or the client's file list could not be had.
TickAllFailed ==
  /\ At("allfailed")
  /\ SetState(tick.cur, "failed")
  /\ tick' = NextRow
  /\ UNCHANGED <<library, tag, loop, ClientVars, OthersOfTick>>

\* Post-processing off: mark_completed_no_import, unless the unique index
\* refuses the row, then the tag.
TickFinish ==
  /\ At("finish")
  /\ IF \E other \in LiveGrabs \ {tick.cur} : grabs[other].hash = CurHash
     THEN UNCHANGED grabs ELSE SetState(tick.cur, "imported")
  /\ Goto("finishtag")
  /\ UNCHANGED <<library, tag, loop, ClientVars, OthersOfTick>>

TickFinishTag ==
  /\ At("finishtag")
  /\ tag' = Completed
  /\ tick' = NextRow
  /\ UNCHANGED <<grabs, library, loop, ClientVars, OthersOfTick>>

TickStep ==
  \/ TickList \/ TickEnd \/ TickRemove \/ TickUntag \/ TickFail \/ TickFailTag
  \/ TickDrop \/ TickDiscard \/ TickOldGone \/ TickSeen \/ TickImport
  \/ TickOlds \/ TickSwap \/ TickTag \/ TickMark
  \/ TickMode \/ TickFree \/ TickFreed \/ TickStall \/ TickAllFailed \/ TickFinish
  \/ TickFinishTag
  \/ \E g \in Grabs : TickPick(g) \/ TickOld(g) \/ TickFlush(g)

-------------------------------------------------------------------------------
(* sweep_finished_seeds *)

OthersOfSweep == <<handler, library, owed, tag, tick, req, grace>>

NextSwept == [sweep EXCEPT !.pc = "pick", !.cur = NoGrab]

\* list_imported_in_client.
WorkList == {g \in InState("imported") :
               grabs[g].done /\ grabs[g].mode # "partial" /\ ~ grabs[g].gone}

\* The loop reaches the sweep: throttled, switched off, or nothing to do.
SweepStart ==
  /\ loop = "sweep" /\ sweep.pc = "idle"
  /\ due' = FALSE
  /\ IF due /\ PostProcessing /\ RemoveCompleted /\ WorkList # {}
     THEN /\ sweep' = [NoSweep EXCEPT !.pc = "list", !.todo = WorkList]
          /\ UNCHANGED loop
     ELSE /\ loop' = "idle"
          /\ UNCHANGED sweep
  /\ UNCHANGED <<grabs, ClientVars, OthersOfSweep>>

\* The client is listed once per pass; every row waits when it cannot be.
SweepList ==
  /\ sweep.pc = "list"
  /\ \/ /\ sweep' = [sweep EXCEPT !.pc = "pick", !.listing = Listing(sweep.todo)]
        /\ UNCHANGED loop
     \/ /\ "rpc" \in Faults
        /\ sweep' = NoSweep
        /\ loop' = "idle"
  /\ UNCHANGED <<grabs, due, ClientVars, OthersOfSweep>>

\* source_gone_after_move: the mode is read from the row, which may have
\* changed since the pass began.
SourceGone(g) ==
  /\ grabs[g].mode = "move" \/ (grabs[g].mode = "" /\ Mode = "move")
  /\ grabs[g].hash \notin source

\* A change that breaks it: a torrent goes as soon as it is complete.
FinishedListed(g) ==
  SourceGone(g) \/ sweep.listing[grabs[g].hash] \in {"complete", "seeded"}

\* Whether the item is removed.
Finished(g) ==
  LET h == grabs[g].hash IN
  IF h \in Usenet THEN sweep.listing[h] \in {"complete", "seeded"}
  ELSE SourceGone(g) \/ sweep.listing[h] = "seeded"

SweepPick(g) ==
  /\ sweep.pc = "pick" /\ g \in sweep.todo
  /\ LET rest == [sweep EXCEPT !.todo = @ \ {g}, !.listing = Unlisted(@, g)] IN
     sweep' = IF sweep.listing[grabs[g].hash] = "absent"
              THEN [rest EXCEPT !.gone = @ \cup {g}]
              ELSE IF Finished(g) THEN [rest EXCEPT !.pc = "delete", !.cur = g]
              ELSE rest
  /\ UNCHANGED <<grabs, loop, due, ClientVars, OthersOfSweep>>

\* remove_from_client: the delete, then stamp_client_removed.
SweepDelete ==
  /\ sweep.pc = "delete"
  /\ \/ /\ Deleted(grabs[sweep.cur].hash)
        /\ sweep' = [sweep EXCEPT !.pc = "stamp"]
     \/ /\ DeleteFails
        /\ sweep' = NextSwept
  /\ UNCHANGED <<grabs, loop, due, OthersOfSweep>>

SweepStamp ==
  /\ sweep.pc = "stamp"
  /\ grabs' = [grabs EXCEPT ![sweep.cur].gone = TRUE]
  /\ sweep' = NextSwept
  /\ UNCHANGED <<loop, due, ClientVars, OthersOfSweep>>

\* A change that breaks it: the rows whose item vanished are not stamped.
SweepEndUnstamped ==
  /\ sweep.pc = "pick" /\ sweep.todo = {}
  /\ sweep' = NoSweep
  /\ loop' = "idle"
  /\ UNCHANGED <<grabs, due, ClientVars, OthersOfSweep>>

\* stamp_client_removed_many over the rows whose item was already gone.
SweepEnd ==
  /\ sweep.pc = "pick" /\ sweep.todo = {}
  /\ grabs' = [g \in Grabs |-> IF g \in sweep.gone THEN [grabs[g] EXCEPT !.gone = TRUE]
                               ELSE grabs[g]]
  /\ sweep' = NoSweep
  /\ loop' = "idle"
  /\ UNCHANGED <<due, ClientVars, OthersOfSweep>>

SweepStep ==
  \/ SweepList \/ SweepDelete \/ SweepStamp \/ SweepEnd
  \/ \E g \in Grabs : SweepPick(g)

-------------------------------------------------------------------------------
(* Requests on the episode *)

OthersOfRequest == <<handler, owed, tick, loop, due, sweep, grace>>

RequestAt(r, pc) == req[r].pc = pc

\* cancel_pending_episode: the pending rows, then the tag, then, when the tag
\* says grabbed, the imported rows as well, unless the tag has changed since.
CancelStart(r) ==
  /\ "cancel" \in Ops /\ RequestAt(r, "idle")
  /\ req' = [req EXCEPT ![r] = [NoRequest EXCEPT !.pc = "drift", !.op = "cancel",
                                                 !.found = InState("pending")]]
  /\ UNCHANGED <<grabs, library, tag, ClientVars, OthersOfRequest>>

CancelDrift(r) ==
  /\ RequestAt(r, "drift")
  /\ req' = [req EXCEPT ![r] = IF tag.state = "grabbed" THEN [@ EXCEPT !.pc = "stuck"]
                               ELSE IF @.found = {} THEN EndedRequest
                               ELSE [@ EXCEPT !.pc = "each"]]
  /\ UNCHANGED <<grabs, library, tag, ClientVars, OthersOfRequest>>

CancelStuck(r) ==
  /\ RequestAt(r, "stuck")
  /\ req' = [req EXCEPT ![r].stuck = InState("imported"), ![r].pc = "recheck"]
  /\ UNCHANGED <<grabs, library, tag, ClientVars, OthersOfRequest>>

CancelRecheck(r) ==
  /\ RequestAt(r, "recheck")
  /\ req' = [req EXCEPT ![r].pc = "each", ![r].stuck = {},
                        ![r].found = IF tag.state = "grabbed" THEN @ \cup req[r].stuck ELSE @]
  /\ UNCHANGED <<grabs, library, tag, ClientVars, OthersOfRequest>>

\* delete_episode_file: the file first, then the tag, then the imported rows.
DeleteStart(r) ==
  /\ "delete" \in Ops /\ RequestAt(r, "idle")
  /\ library # NoHash
  /\ library' = NoHash
  /\ req' = [req EXCEPT ![r] = [NoRequest EXCEPT !.pc = "untag", !.op = "delete"]]
  /\ UNCHANGED <<grabs, tag, ClientVars, OthersOfRequest>>

DeleteUntag(r) ==
  /\ RequestAt(r, "untag")
  /\ tag' = NoTag
  /\ req' = [req EXCEPT ![r].pc = "find"]
  /\ UNCHANGED <<grabs, library, ClientVars, OthersOfRequest>>

\* mark_episode_failed for a release of the grab history: mark_grab_failed
\* fails the tag of whichever release, mark_failed_by_name the live rows when
\* the form asks to blocklist it.
FailStart(r, h) ==
  /\ "fail" \in Ops /\ RequestAt(r, "idle")
  /\ \E g \in Grabs : handler[g].pc = "ended" /\ handler[g].hash = h
  /\ tag' = IF tag = NoTag THEN tag ELSE [tag EXCEPT !.state = "failed"]
  /\ \/ req' = [req EXCEPT ![r] = [NoRequest EXCEPT !.pc = "byname", !.op = "fail",
                                                    !.hash = h]]
     \/ req' = [req EXCEPT ![r] = [NoRequest EXCEPT !.pc = "find", !.op = "fail"]]
  /\ UNCHANGED <<grabs, library, ClientVars, OthersOfRequest>>

FailByName(r) ==
  /\ RequestAt(r, "byname")
  /\ grabs' = [g \in Grabs |-> IF g \in LiveGrabs /\ grabs[g].hash = req[r].hash
                               THEN [grabs[g] EXCEPT !.state = "failed"] ELSE grabs[g]]
  /\ req' = [req EXCEPT ![r].pc = "find", ![r].hash = NoHash]
  /\ UNCHANGED <<library, tag, ClientVars, OthersOfRequest>>

\* find_imported_for_episode.
RequestFind(r) ==
  /\ RequestAt(r, "find")
  /\ req' = [req EXCEPT ![r].pc = "each", ![r].found = InState("imported")]
  /\ UNCHANGED <<grabs, library, tag, ClientVars, OthersOfRequest>>

\* What a request does next with one of its rows: a deleted episode leaves
\* batches alone, and what is under seed rules is not deleted.
Fate(op, g, spared) ==
  IF op = "delete" /\ grabs[g].hash \in Batches THEN "each"
  ELSE IF op = "cancel" \/ ~ spared THEN "delete"
  ELSE IF op = "fail" THEN "each" ELSE "mark"

RequestEach(r, g) ==
  /\ RequestAt(r, "each") /\ g \in req[r].found
  /\ \E spared \in Spared(grabs[g].hash) :
       LET fate == Fate(req[r].op, g, spared)
       IN req' = [req EXCEPT ![r].found = @ \ {g}, ![r].pc = fate,
                             ![r].cur = IF fate = "each" THEN NoGrab ELSE g]
  /\ UNCHANGED <<grabs, library, tag, ClientVars, OthersOfRequest>>

\* The item goes, or the client errs; the row is dealt with either way.
\* Deleting an episode also unlinks the source files stamped at import.
RequestDelete(r) ==
  /\ RequestAt(r, "delete")
  /\ LET h == grabs[req[r].cur].hash IN
     \/ Deleted(h)
     \/ /\ "rpc" \in Faults
        /\ source' = IF req[r].op = "delete" THEN source \ {h} ELSE source
        /\ UNCHANGED item
  /\ req' = [req EXCEPT ![r] = IF @.op = "fail" THEN [@ EXCEPT !.pc = "each", !.cur = NoGrab]
                               ELSE [@ EXCEPT !.pc = "mark"]]
  /\ UNCHANGED <<grabs, library, tag, OthersOfRequest>>

\* mark_removed.
RequestMark(r) ==
  /\ RequestAt(r, "mark")
  /\ SetState(req[r].cur, "removed")
  /\ req' = [req EXCEPT ![r].pc = "each", ![r].cur = NoGrab]
  /\ UNCHANGED <<library, tag, ClientVars, OthersOfRequest>>

RequestEnd(r) ==
  /\ RequestAt(r, "each") /\ req[r].found = {}
  /\ req' = [req EXCEPT ![r] = IF @.op = "cancel" THEN [@ EXCEPT !.pc = "cleartags"]
                               ELSE EndedRequest]
  /\ UNCHANGED <<grabs, library, tag, ClientVars, OthersOfRequest>>

\* clear_tags_for_removal.
CancelClear(r) ==
  /\ RequestAt(r, "cleartags")
  /\ tag' = NoTag
  /\ req' = [req EXCEPT ![r] = EndedRequest]
  /\ UNCHANGED <<grabs, library, ClientVars, OthersOfRequest>>

RequestStep(r) ==
  \/ CancelStart(r) \/ CancelDrift(r) \/ CancelStuck(r) \/ CancelRecheck(r)
  \/ DeleteStart(r) \/ DeleteUntag(r) \/ FailByName(r) \/ RequestFind(r)
  \/ RequestDelete(r) \/ RequestMark(r) \/ RequestEnd(r) \/ CancelClear(r)
  \/ \E h \in Hashes : FailStart(r, h)
  \/ \E g \in Grabs : RequestEach(r, g)

-------------------------------------------------------------------------------
(* The client, the clock and the process *)

Rest == <<grabs, handler, library, owed, tag, tick, loop, sweep, req>>

Download(h) ==
  /\ item[h] = "downloading"
  /\ item' = [item EXCEPT ![h] = "complete"]
  /\ source' = source \cup {h}
  /\ UNCHANGED <<Rest, due, grace>>

\* The client's own ratio, seed-time or inactivity rule is met.
SeedingDone(h) ==
  /\ item[h] = "complete" /\ h \notin Usenet
  /\ item' = [item EXCEPT ![h] = "seeded"]
  /\ UNCHANGED <<Rest, source, due, grace>>

ClientError(h) ==
  /\ "errored" \in Faults
  /\ item[h] \notin {"absent", "errored"}
  /\ item' = [item EXCEPT ![h] = "errored"]
  /\ UNCHANGED <<Rest, source, due, grace>>

RemovedOutside(h) ==
  /\ "outside" \in Faults
  /\ item[h] # "absent"
  /\ item' = [item EXCEPT ![h] = "absent"]
  /\ source' \in {source, source \ {h}}
  /\ UNCHANGED <<Rest, due, grace>>

\* A minute passes since the grab; the stall limit since it was seen complete.
Ages(g) ==
  /\ grabs[g].state = "pending" \/ g \in tick.todo \cup {tick.cur}
  /\ \/ ~ grabs[g].aged /\ grabs' = [grabs EXCEPT ![g].aged = TRUE]
     \/ grabs[g].seen = "yes" /\ grabs' = [grabs EXCEPT ![g].seen = "stalled"]
  /\ UNCHANGED <<handler, library, owed, tag, tick, loop, sweep, req, ClientVars,
                 due, grace>>

\* The sweep's interval passes; with the sweep switched off nothing asks.
SweepDue ==
  /\ ~ due /\ RemoveCompleted
  /\ due' = TRUE
  /\ UNCHANGED <<Rest, ClientVars, grace>>

GraceEnds ==
  /\ grace
  /\ grace' = FALSE
  /\ UNCHANGED <<Rest, ClientVars, due>>

\* Whatever was in flight is dropped; the table, the files and the client stay.
Restart ==
  /\ "restart" \in Faults
  /\ tick' = NoTick
  /\ loop' = "idle"
  /\ sweep' = NoSweep
  /\ handler' = [g \in Grabs |-> IF handler[g].pc \in {"idle", "ended"} THEN handler[g]
                                 ELSE [handler[g] EXCEPT !.pc = "lost", !.row = NoGrab]]
  /\ req' = [r \in Requests |-> IF RequestAt(r, "idle") THEN req[r] ELSE EndedRequest]
  /\ due' = TRUE
  /\ grace' = TRUE
  /\ UNCHANGED <<grabs, library, owed, tag, ClientVars>>

Handling(g) == RecordInsert(g) \/ RecordReactivate(g) \/ StampRules(g) \/ TagGrabbed(g)

Loop == TickStart("loop") \/ TickSkipped \/ SweepStart

Environment ==
  \/ SweepDue \/ GraceEnds \/ Restart
  \/ \E h \in Hashes : Download(h) \/ SeedingDone(h) \/ ClientError(h) \/ RemovedOutside(h)
  \/ \E g \in Grabs : Ages(g)

Next ==
  \/ \E g \in Grabs : Handling(g) \/ \E h \in Hashes : GrabAdd(g, h)
  \/ Loop \/ TickStart("force") \/ TickStep \/ SweepStep
  \/ \E r \in Requests : RequestStep(r)
  \/ Environment

Spec == Init /\ [][Next]_vars

\* The handlers and the loop run on, time passes, downloads end and seeding
\* rules are met.  Nobody has to grab, request or force anything.
Fairness ==
  /\ WF_vars(Loop) /\ WF_vars(TickStep) /\ WF_vars(SweepStep)
  /\ WF_vars(SweepDue) /\ WF_vars(GraceEnds)
  /\ \A g \in Grabs : WF_vars(Handling(g)) /\ WF_vars(Ages(g))
  /\ \A h \in Hashes : WF_vars(Download(h)) /\ WF_vars(SeedingDone(h))

FairSpec == Spec /\ Fairness

-------------------------------------------------------------------------------
(* What the code promises *)

\* Whatever the handlers, the tick, the sweep and the requests do to the table
\* and in whatever order, a row is live or closed, live rows name different
\* releases, and no late write of an import or of a re-grab brings a closed
\* row back.  Holds with post-processing on.
Ledger == INSTANCE GrabLedger WITH
            live <- {<<g, grabs[g].hash>> : g \in LiveGrabs},
            closed <- InState("failed") \cup InState("removed") \cup InState("replaced")

LedgerRefinement == Ledger!Spec

\* The episode has one owner: an upgrade leaves no second imported grab behind,
\* also when the old grab is re-grabbed under the import, its torrent stays in
\* the client, or the process restarts in it.  Batches own other episodes as well, and a
\* batch that failed on this episode is imported without its file.
EpisodeHasOneOwner ==
  \A g1, g2 \in InState("imported") :
    {grabs[g1].hash, grabs[g2].hash} \cap Batches = {} => g1 = g2

\* The cleanup after an import and the finished-seed sweep never delete a
\* download that still holds files the library did not get.
PartialNeverSwept ==
  [][\A h \in owed :
       (At("free") /\ tick' # tick) \/ sweep' # sweep => h \notin source \ source']_vars

\* A deletion of the release's item is on its way that was decided upon before
\* its row was stamped, or, by the sweep, before it was added anew.
Exposed(h) ==
  \/ At("discard") /\ CurHash = h
  \/ At("oldgo") /\ grabs[tick.old].hash = h
  \/ \E r \in Requests : RequestAt(r, "delete") /\ grabs[req[r].cur].hash = h
  \/ /\ sweep.listing[h] = "seeded" \/ (sweep.pc = "delete" /\ grabs[sweep.cur].hash = h)
     /\ item[h] \notin {"seeded", "errored"}

\* Once a row of a torrent is stamped with respect_seed_rules and no deletion
\* from before is still on its way, nothing decides to delete the torrent while
\* it seeds its files, for good: no upgrade, deleted episode, failed mark or
\* finished import, whichever row of it is closed or recorded again.  Whoever
\* cancels its grab does.
Protected(h) == Flagged(h) /\ ~ Exposed(h)

SeedRulesKept ==
  [][\A h \in Hashes \ Usenet : Protected(h) =>
       /\ Protected(h)'
       /\ ~ (item[h] = "complete" /\ h \in source /\ item'[h] = "absent")]_vars

\* Every grab is decided: imported, failed, or found removed from the client,
\* however long its files stay invisible and whatever else has its release.
PendingSettles ==
  \A g \in Grabs : grabs[g].state = "pending" ~> grabs[g].state # "pending"

\* With post-processing off, every grab whose download is complete stops being
\* polled, or its download is taken out of the client.
CompleteSettles ==
  \A g \in Grabs :
    grabs[g].state = "pending" /\ item[grabs[g].hash] \in {"complete", "seeded"}
    ~> grabs[g].state # "pending" \/ item[grabs[g].hash] = "absent"

\* A grab that was imported leaves the sweep's work list: its item is removed
\* when it has finished seeding, or found gone, unless it errs and stays so.
FinishedSeedsSettle ==
  \A g \in Grabs :
    g \in WorkList ~> g \notin WorkList \/ item[grabs[g].hash] = "errored"
===============================================================================
