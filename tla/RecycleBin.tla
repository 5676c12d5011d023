------------------------------ MODULE RecycleBin ------------------------------
(* The recycle bin (services/recycle) under everything that moves files of a   *)
(* series folder: the delete and remove-series handlers, the import tick, a    *)
(* manual import, the temp-file sweep, Restore, Delete now, Empty and the      *)
(* hourly purge.  One episode is modelled: its video, the files that travel    *)
(* with it, and the hidden name an upgrade is staged at.                       *)
(*                                                                             *)
(* A file is the video it belongs to; imports move (the mode in which a file   *)
(* has no second copy).  Each rename, copy, unlink and manifest write is a     *)
(* step, because the handlers hold no lock against each other: recycle runs on *)
(* a blocking thread and takes a minute when the bin is on another filesystem. *)
EXTENDS Naturals, Sequences, FiniteSets

CONSTANTS
  Jobs,        \* requests and background tasks that can be under way
  Videos,      \* what downloads and folders to import bring
  Entries,     \* entry directories of the bin, numbered
  BinBudgets,  \* bounds of the model and what a behaviour may contain
  NoVideo

Ops == {"delete", "series", "tick", "manual", "sweep", "restore", "deleteNow",
        "empty", "purge"}

\* "mkdir" the bin is not writable, "move" a rename or copy fails, "unlink" the
\* source of a copy cannot be removed, "manifest" it cannot be written, "undo" a
\* move back fails, "place" the import's own file operation fails
BinFaults == {"mkdir", "move", "unlink", "manifest", "undo", "place"}

BinBudget == [ops : SUBSET Ops, bin : {"same", "cross", "off"},
              requests : Nat, faults : SUBSET BinFaults, crashes : Nat]

ASSUME BinAssumptions ==
  /\ Videos # {} /\ NoVideo \notin Videos
  /\ Entries \subseteq Nat \ {0}
  /\ BinBudgets \subseteq BinBudget

VARIABLES
  plan,       \* the budget of this behaviour
  waiting,    \* videos outside the library, ready to import
  lib,        \* what each path of the series folder holds
  seriesDir,  \* the series folder exists
  entry,      \* the bin
  job,        \* what each job is doing
  requests, binFaults, binCrashes,   \* counters, and the faults there were
  owed,       \* videos that have been the episode's file
  recycled,   \* what finished recycles put in which entry, until it is back or destroyed
  purged,     \* videos destroyed because somebody asked for that
  halfGone,   \* videos of a folder that was copied and could not be removed whole
  overtaken   \* videos destroyed by a step that met what another job had put there

libVars == <<waiting, lib, seriesDir>>
historyVars == <<owed, recycled, purged, halfGone, overtaken>>
binBounds == <<plan, requests, binCrashes>>
binVars == <<libVars, entry, job, binBounds, binFaults, historyVars>>

------------------------------------------------------------------------------
(* Helpers *)

Path == {"video", "extra", "staged"}
Empty == [p \in Path |-> NoVideo]

\* tree: a recycled series folder is in it; listed: the names in its manifest
Closed == [open |-> FALSE, aged |-> FALSE, kind |-> "episode", tree |-> FALSE,
           files |-> Empty, listed |-> {}]

IdleJob == [op |-> "none", pc |-> "idle", kind |-> "episode", at |-> 0,
            todo |-> <<>>, moved |-> <<>>, video |-> NoVideo, replacing |-> FALSE]

At(j) == entry[job[j].at]
In(f) == {f[p] : p \in {"video", "staged"}} \ {NoVideo}
InBin == UNION {In(entry[e].files) : e \in Entries}

\* create_dir on a random id: never one in use, never one somebody still names
NewEntry == {e \in Entries : ~entry[e].open /\ \A j \in Jobs : job[j].at # e}
FirstNew == CHOOSE e \in NewEntry : TRUE

\* POST_PROC_LOCK and IMPORT_LOCK
PostProcHeld == \E j \in Jobs : job[j].op \in {"tick", "sweep", "restore"}
ImportHeld == \E j \in Jobs : job[j].op \in {"manual", "sweep", "restore"}

\* videos give way to what the paths of the series folder now hold, or ought to
Overtakes(now) == overtaken' = overtaken \cup (In(lib) \ In(now))

\* each kind of fault happens once at most
Fault(f) == f \in plan.faults \ binFaults /\ binFaults' = binFaults \cup {f}

Ask(o) == o \in plan.ops /\ requests < plan.requests /\ requests' = requests + 1

Begin(j, o, first) ==
  /\ job[j] = IdleJob
  /\ Ask(o)
  /\ job' = [job EXCEPT ![j] = first]

Goto(j, pc) == job' = [job EXCEPT ![j].pc = pc]
Finish(j) == job' = [job EXCEPT ![j] = IdleJob]

\* companions first, main file last
EpisodeFiles(f) == IF f["extra"] = NoVideo THEN <<"video">> ELSE <<"extra", "video">>

\* where a caller goes on with recycle's answer
After(j, ok) ==
  LET back == [job[j] EXCEPT !.at = 0, !.todo = <<>>, !.moved = <<>>]
  IN job' = [job EXCEPT ![j] =
       CASE job[j].op = "tick" -> [back EXCEPT !.pc = IF ok THEN "swap" ELSE "unstage"]
         [] job[j].op = "manual" /\ ok -> [back EXCEPT !.pc = "check"]
         [] OTHER -> IdleJob]

------------------------------------------------------------------------------
(* Callers of recycle *)

DeleteEpisode(j) ==
  /\ Begin(j, "delete", [IdleJob EXCEPT !.op = "delete", !.pc = "recycle"])
  /\ UNCHANGED <<libVars, entry, plan, binFaults, binCrashes, historyVars>>

RemoveSeries(j) ==
  /\ Begin(j, "series", [IdleJob EXCEPT !.op = "series", !.pc = "recycle", !.kind = "folder"])
  /\ UNCHANGED <<libVars, entry, plan, binFaults, binCrashes, historyVars>>

\* Mutant of SweepStart: the locks of the imports are not taken
SweepStartUnlocked(j) ==
  /\ lib["staged"] # NoVideo
  /\ Begin(j, "sweep", [IdleJob EXCEPT !.op = "sweep", !.pc = "recycle", !.kind = "staged"])
  /\ UNCHANGED <<libVars, entry, plan, binFaults, binCrashes, historyVars>>

\* an upgrade's leftover reads as old as its download, so age excludes none; the
\* eligibility found by the walk is checked again under both locks
SweepStart(j) ==
  /\ ~PostProcHeld /\ ~ImportHeld
  /\ lib["staged"] # NoVideo
  /\ Begin(j, "sweep", [IdleJob EXCEPT !.op = "sweep", !.pc = "recycle", !.kind = "staged"])
  /\ UNCHANGED <<libVars, entry, plan, binFaults, binCrashes, historyVars>>

\* the tick lists the episode's files once; a leftover at the staging name is
\* not a video file to it
TickStart(j) ==
  /\ ~PostProcHeld
  /\ \E v \in waiting :
       Begin(j, "tick", [IdleJob EXCEPT !.op = "tick", !.pc = "place", !.video = v,
                                        !.replacing = lib["video"] # NoVideo])
  /\ UNCHANGED <<libVars, entry, plan, binFaults, binCrashes, historyVars>>

\* do_file_op replaces what it finds at its destination
TickPlace(j) ==
  /\ job[j].op = "tick" /\ job[j].pc = "place"
  /\ \/ /\ job[j].video \in waiting
        /\ waiting' = waiting \ {job[j].video}
        /\ seriesDir' = TRUE
        /\ \/ /\ job[j].replacing
              /\ lib' = [lib EXCEPT !["staged"] = job[j].video]
              /\ Goto(j, "recycle")
              /\ UNCHANGED owed
           \/ /\ ~job[j].replacing
              /\ lib' = [lib EXCEPT !["video"] = job[j].video]
              /\ owed' = owed \cup {job[j].video}
              /\ Goto(j, "nfo")
        /\ Overtakes(lib')
        /\ UNCHANGED binFaults
     \/ /\ \/ Fault("place")
           \/ job[j].video \notin waiting /\ UNCHANGED binFaults
        /\ Finish(j)
        /\ UNCHANGED <<libVars, owed, overtaken>>
  /\ UNCHANGED <<entry, binBounds, recycled, purged, halfGone>>

Swap(j) ==
  /\ job[j].pc = "swap"
  /\ \/ /\ lib["staged"] # NoVideo
        /\ lib' = [lib EXCEPT !["video"] = lib["staged"], !["staged"] = NoVideo]
        /\ owed' = owed \cup {lib["staged"]}
        /\ Overtakes(lib')
        /\ Goto(j, "nfo")
     \/ /\ lib["staged"] = NoVideo
        /\ Finish(j)
        /\ UNCHANGED <<lib, owed, overtaken>>
  /\ UNCHANGED <<waiting, seriesDir, entry, binBounds, binFaults, recycled, purged, halfGone>>

\* the episode's NFO, when the import got that far and its folder is still there
Nfo(j) ==
  /\ job[j].pc = "nfo"
  /\ \/ seriesDir /\ lib' = [lib EXCEPT !["extra"] = job[j].video]
     \/ UNCHANGED lib
  /\ Finish(j)
  /\ UNCHANGED <<waiting, seriesDir, entry, binBounds, binFaults, historyVars>>

\* a recycle that was refused must not become an overwrite
Unstage(j) ==
  /\ job[j].pc = "unstage"
  /\ \/ /\ lib["staged"] # NoVideo
        /\ waiting' = waiting \cup {lib["staged"]}
        /\ lib' = [lib EXCEPT !["staged"] = NoVideo]
        /\ UNCHANGED binFaults
     \/ /\ lib["staged"] = NoVideo
        /\ UNCHANGED <<waiting, lib, binFaults>>
     \/ /\ Fault("undo")
        /\ UNCHANGED <<waiting, lib>>
  /\ Finish(j)
  /\ UNCHANGED <<seriesDir, entry, binBounds, historyVars>>

\* "Replace" is what the preview said, however long ago that was
ManualStart(j) ==
  /\ ~ImportHeld
  /\ \E v \in waiting, replacing \in BOOLEAN :
       Begin(j, "manual", [IdleJob EXCEPT !.op = "manual", !.video = v, !.replacing = replacing,
                             !.pc = IF replacing /\ lib["video"] # NoVideo
                                    THEN "recycle" ELSE "check"])
  /\ UNCHANGED <<libVars, entry, plan, binFaults, binCrashes, historyVars>>

ManualCheck(j) ==
  /\ job[j].pc = "check"
  /\ \/ /\ job[j].replacing \/ lib["video"] = NoVideo
        /\ Goto(j, "put")
     \/ /\ ~job[j].replacing /\ lib["video"] # NoVideo
        /\ Finish(j)
  /\ UNCHANGED <<libVars, entry, binBounds, binFaults, historyVars>>

ManualPut(j) ==
  /\ job[j].pc = "put"
  /\ \/ /\ job[j].video \in waiting
        /\ waiting' = waiting \ {job[j].video}
        /\ seriesDir' = TRUE
        /\ lib' = [lib EXCEPT !["video"] = job[j].video]
        /\ owed' = owed \cup {job[j].video}
        /\ Overtakes(lib')
        /\ Goto(j, "nfo")
        /\ UNCHANGED binFaults
     \/ /\ \/ Fault("place")
           \/ job[j].video \notin waiting /\ UNCHANGED binFaults
        /\ Finish(j)
        /\ UNCHANGED <<libVars, owed, overtaken>>
  /\ UNCHANGED <<entry, binBounds, recycled, purged, halfGone>>

------------------------------------------------------------------------------
(* recycle_blocking *)

Present(kind) ==
  CASE kind = "episode" -> lib["video"] # NoVideo
    [] kind = "staged" -> lib["staged"] # NoVideo
    [] kind = "folder" -> seriesDir

\* stat, the disabled bin's permanent_delete, the checks of the bin and the
\* entry directory with its list of companions
RecycleOpen(j) ==
  /\ job[j].pc = "recycle"
  /\ LET kind == job[j].kind IN
     \/ /\ ~Present(kind)
        /\ After(j, TRUE)
        /\ UNCHANGED <<lib, seriesDir, entry, binFaults, purged>>
     \/ /\ Present(kind) /\ plan.bin = "off"
        /\ LET going == CASE kind = "episode" -> {"video", "extra"}
                          [] kind = "staged" -> {"staged"}
                          [] kind = "folder" -> Path
           IN /\ lib' = [p \in Path |-> IF p \in going THEN NoVideo ELSE lib[p]]
              /\ purged' = purged \cup (In(lib) \ In(lib'))
        /\ seriesDir' = (seriesDir /\ kind # "folder")
        /\ After(j, TRUE)
        /\ UNCHANGED <<entry, binFaults>>
     \/ /\ Present(kind) /\ plan.bin # "off"
        /\ Fault("mkdir")
        /\ After(j, FALSE)
        /\ UNCHANGED <<lib, seriesDir, entry, purged>>
     \/ /\ Present(kind) /\ plan.bin # "off" /\ NewEntry # {}
        /\ entry' = [entry EXCEPT ![FirstNew] = [Closed EXCEPT !.open = TRUE, !.kind = kind]]
        /\ job' = [job EXCEPT ![j].pc = "move", ![j].at = FirstNew,
                    ![j].todo = CASE kind = "episode" -> EpisodeFiles(lib)
                                  [] kind = "staged" -> <<"staged">>
                                  [] kind = "folder" -> <<>>]
        /\ UNCHANGED <<lib, seriesDir, binFaults, purged>>
  /\ UNCHANGED <<waiting, binBounds, owed, recycled, halfGone, overtaken>>

\* the head of todo is done
MovedOne(j) ==
  job' = [job EXCEPT ![j].moved = Append(@, Head(job[j].todo)), ![j].todo = Tail(@),
                     ![j].pc = IF Len(job[j].todo) = 1 THEN "manifest" ELSE "move"]

\* move_path of one file: a rename, or a copy that is renamed into place whole
RecycleMove(j) ==
  /\ job[j].pc = "move" /\ job[j].kind # "folder"
  /\ LET p == Head(job[j].todo) IN
     \/ /\ lib[p] # NoVideo /\ At(j).open
        /\ entry' = [entry EXCEPT ![job[j].at].files[p] = lib[p]]
        /\ \/ /\ plan.bin = "same"
              /\ lib' = [lib EXCEPT ![p] = NoVideo]
              /\ MovedOne(j)
           \/ /\ plan.bin = "cross"
              /\ Goto(j, "unlink")
              /\ UNCHANGED lib
        /\ UNCHANGED binFaults
     \/ /\ lib[p] = NoVideo \/ ~At(j).open
        /\ Goto(j, "rollback")
        /\ UNCHANGED <<lib, entry, binFaults>>
     \/ /\ Fault("move")
        /\ Goto(j, "rollback")
        /\ UNCHANGED <<lib, entry>>
  /\ UNCHANGED <<waiting, seriesDir, binBounds, historyVars>>

\* remove_file(src): whatever the path holds by now
RecycleUnlink(j) ==
  /\ job[j].pc = "unlink"
  /\ LET p == Head(job[j].todo) IN
     \/ /\ lib[p] # NoVideo
        /\ lib' = [lib EXCEPT ![p] = NoVideo]
        /\ Overtakes([lib' EXCEPT ![p] = At(j).files[p]])
        /\ MovedOne(j)
        /\ UNCHANGED binFaults
     \/ /\ lib[p] = NoVideo
        /\ Goto(j, "rollback")
        /\ UNCHANGED <<lib, binFaults, overtaken>>
     \/ /\ Fault("unlink")
        /\ Goto(j, "rollback")
        /\ UNCHANGED <<lib, overtaken>>
  /\ UNCHANGED <<waiting, seriesDir, entry, binBounds, owed, recycled, purged, halfGone>>

\* move_path of the series folder
RecycleTree(j) ==
  /\ job[j].pc = "move" /\ job[j].kind = "folder"
  /\ \/ /\ seriesDir /\ At(j).open
        /\ entry' = [entry EXCEPT ![job[j].at].files = lib, ![job[j].at].tree = TRUE]
        /\ \/ /\ plan.bin = "same"
              /\ lib' = Empty
              /\ seriesDir' = FALSE
              /\ job' = [job EXCEPT ![j].pc = "manifest", ![j].moved = <<"folder">>]
           \/ /\ plan.bin = "cross"
              /\ Goto(j, "prune")
              /\ UNCHANGED <<lib, seriesDir>>
        /\ UNCHANGED binFaults
     \/ /\ ~seriesDir \/ ~At(j).open
        /\ Goto(j, "rollback")
        /\ UNCHANGED <<lib, seriesDir, entry, binFaults>>
     \/ /\ Fault("move")
        /\ Goto(j, "rollback")
        /\ UNCHANGED <<lib, seriesDir, entry>>
  /\ UNCHANGED <<waiting, binBounds, historyVars>>

\* remove_dir_all(src), file by file: it can stop halfway
PruneTree(j) ==
  /\ job[j].pc = "prune"
  /\ \/ /\ \E p \in Path : /\ lib[p] # NoVideo
                           /\ lib' = [lib EXCEPT ![p] = NoVideo]
                           /\ Overtakes([lib' EXCEPT ![p] = At(j).files[p]])
        /\ UNCHANGED <<seriesDir, job, binFaults, halfGone>>
     \/ /\ lib = Empty
        /\ seriesDir' = FALSE
        /\ job' = [job EXCEPT ![j].pc = "manifest", ![j].moved = <<"folder">>]
        /\ UNCHANGED <<lib, binFaults, halfGone, overtaken>>
     \/ /\ Fault("unlink")
        /\ halfGone' = halfGone \cup (In(At(j).files) \ In(lib))
        /\ Goto(j, "rollback")
        /\ UNCHANGED <<lib, seriesDir, overtaken>>
  /\ UNCHANGED <<waiting, entry, binBounds, owed, recycled, purged>>

WriteManifest(j) ==
  /\ job[j].pc = "manifest"
  /\ \/ /\ At(j).open
        /\ entry' = [entry EXCEPT ![job[j].at].listed = {job[j].moved[i] : i \in DOMAIN job[j].moved}]
        /\ recycled' = recycled \cup {job[j].at} \X In(At(j).files)
        /\ After(j, TRUE)
        /\ UNCHANGED binFaults
     \/ /\ ~At(j).open
        /\ Goto(j, "rollback")
        /\ UNCHANGED <<entry, recycled, binFaults>>
     \/ /\ Fault("manifest")
        /\ Goto(j, "rollback")
        /\ UNCHANGED <<entry, recycled>>
  /\ UNCHANGED <<libVars, binBounds, owed, purged, halfGone, overtaken>>

\* rollback moves back what it can, newest first, ignoring every failure; a
\* rename replaces the file it meets, and fails over a folder that is not empty
MovesBack(p, e) ==
  IF p = "folder"
  THEN /\ ~seriesDir /\ entry[e].tree
       /\ lib' = entry[e].files
       /\ seriesDir' = TRUE
       /\ entry' = [entry EXCEPT ![e].files = Empty, ![e].tree = FALSE]
  ELSE /\ seriesDir /\ entry[e].files[p] # NoVideo
       /\ lib' = [lib EXCEPT ![p] = entry[e].files[p]]
       /\ entry' = [entry EXCEPT ![e].files[p] = NoVideo]
       /\ UNCHANGED seriesDir

CanMoveBack(p, e) ==
  IF p = "folder" THEN ~seriesDir /\ entry[e].tree
                  ELSE seriesDir /\ entry[e].files[p] # NoVideo

Rollback(j) ==
  /\ job[j].pc = "rollback" /\ job[j].moved # <<>>
  /\ LET p == job[j].moved[Len(job[j].moved)] IN
     \/ /\ MovesBack(p, job[j].at)
        /\ Overtakes(lib')
        /\ UNCHANGED binFaults
     \/ /\ ~CanMoveBack(p, job[j].at)
        /\ overtaken' = overtaken \cup (In(At(j).files) \ In(lib))
        /\ UNCHANGED <<lib, seriesDir, entry, binFaults>>
     \/ /\ Fault("undo")
        /\ UNCHANGED <<lib, seriesDir, entry, overtaken>>
  /\ job' = [job EXCEPT ![j].moved = SubSeq(@, 1, Len(@) - 1)]
  /\ UNCHANGED <<waiting, binBounds, owed, recycled, purged, halfGone>>

\* Mutant of DropEntry: the entry goes before the files are moved back
DropEntryFirst(j) ==
  /\ job[j].pc = "rollback"
  /\ entry' = [entry EXCEPT ![job[j].at] = Closed]
  /\ After(j, FALSE)
  /\ UNCHANGED <<libVars, binBounds, binFaults, historyVars>>

\* remove_dir_all(entry_dir), whatever is left in it
DropEntry(j) ==
  /\ job[j].pc = "rollback" /\ job[j].moved = <<>>
  /\ entry' = [entry EXCEPT ![job[j].at] = Closed]
  /\ After(j, FALSE)
  /\ UNCHANGED <<libVars, binBounds, binFaults, historyVars>>

------------------------------------------------------------------------------
(* Restore *)

\* find_entry sees entries with a manifest only; both locks are tried, not awaited
RestoreEntry(j, e) ==
  /\ entry[e].listed # {}
  /\ ~PostProcHeld /\ ~ImportHeld
  /\ Begin(j, "restore", [IdleJob EXCEPT !.op = "restore", !.pc = "fit", !.at = e,
                                         !.kind = entry[e].kind])
  /\ UNCHANGED <<libVars, entry, plan, binFaults, binCrashes, historyVars>>

\* the manifest's names, main file last; earlier restores may have taken some
ManifestFiles(names) ==
  (IF "extra" \in names THEN <<"extra">> ELSE <<>>) \o
  (IF names \ {"extra"} = {} THEN <<>> ELSE <<CHOOSE p \in names : p # "extra">>)

\* OriginalLocationMissing and ConflictAtTarget, before anything moves
RestoreCheck(j) ==
  /\ job[j].pc = "fit"
  /\ LET names == ManifestFiles(At(j).listed)
         taken == IF job[j].kind = "folder" THEN seriesDir
                  ELSE ~seriesDir \/ \E i \in DOMAIN names : lib[names[i]] # NoVideo
     IN \/ ~taken /\ job' = [job EXCEPT ![j].pc = "back", ![j].todo = names]
        \/ taken /\ Finish(j)
  /\ UNCHANGED <<libVars, entry, binBounds, binFaults, historyVars>>

RestoredOne(j) ==
  job' = [job EXCEPT ![j].moved = Append(@, Head(job[j].todo)), ![j].todo = Tail(@),
                     ![j].pc = "back"]

\* move_path out of the entry: the rename, or the copy whose source goes next
RestoreMove(j) ==
  /\ job[j].pc = "back" /\ job[j].todo # <<>>
  /\ LET p == Head(job[j].todo) IN
     \/ /\ \/ /\ plan.bin = "same"
              /\ MovesBack(p, job[j].at)
              /\ RestoredOne(j)
           \/ /\ plan.bin = "cross" /\ CanMoveBack(p, job[j].at)
              /\ lib' = IF p = "folder" THEN At(j).files
                                        ELSE [lib EXCEPT ![p] = At(j).files[p]]
              /\ seriesDir' = TRUE
              /\ Goto(j, "backUnlink")
              /\ UNCHANGED entry
        /\ recycled' = recycled \ ({job[j].at} \X In(lib'))
        /\ Overtakes(lib')
        /\ UNCHANGED binFaults
     \/ /\ ~CanMoveBack(p, job[j].at)
        /\ Goto(j, "undo")
        /\ UNCHANGED <<lib, seriesDir, entry, binFaults, recycled, overtaken>>
     \/ /\ Fault("move")
        /\ Goto(j, "undo")
        /\ UNCHANGED <<lib, seriesDir, entry, recycled, overtaken>>
  /\ UNCHANGED <<waiting, binBounds, owed, purged, halfGone>>

RestoreUnlink(j) ==
  /\ job[j].pc = "backUnlink"
  /\ LET p == Head(job[j].todo)
         there == IF p = "folder" THEN At(j).tree ELSE At(j).files[p] # NoVideo
     IN \/ /\ there
           /\ entry' = [entry EXCEPT
                ![job[j].at].files = IF p = "folder" THEN Empty ELSE [@ EXCEPT ![p] = NoVideo],
                ![job[j].at].tree = FALSE]
           /\ RestoredOne(j)
           /\ UNCHANGED binFaults
        \/ /\ ~there
           /\ Goto(j, "undo")
           /\ UNCHANGED <<entry, binFaults>>
        \/ /\ Fault("unlink")
           /\ Goto(j, "undo")
           /\ UNCHANGED entry
  /\ UNCHANGED <<libVars, binBounds, historyVars>>

\* Mutant of RestoreUndo: a restore that failed does not put back what it restored
RestoreUndoForgets(j) ==
  /\ job[j].pc = "undo"
  /\ entry' = [entry EXCEPT ![job[j].at] = Closed]
  /\ Finish(j)
  /\ UNCHANGED <<libVars, binBounds, binFaults, historyVars>>

\* restored files go back into the entry, failures ignored
RestoreUndo(j) ==
  /\ job[j].pc = "undo"
  /\ \/ /\ job[j].moved = <<>>
        /\ Finish(j)
        /\ UNCHANGED <<lib, entry, binFaults>>
     \/ /\ job[j].moved # <<>>
        /\ LET p == job[j].moved[Len(job[j].moved)] IN
           \/ /\ lib[p] # NoVideo /\ At(j).open
              /\ entry' = [entry EXCEPT ![job[j].at].files[p] = lib[p]]
              /\ lib' = [lib EXCEPT ![p] = NoVideo]
              /\ UNCHANGED binFaults
           \/ /\ lib[p] = NoVideo \/ ~At(j).open
              /\ UNCHANGED <<lib, entry, binFaults>>
           \/ /\ Fault("undo")
              /\ UNCHANGED <<lib, entry>>
        /\ job' = [job EXCEPT ![j].moved = SubSeq(@, 1, Len(@) - 1)]
  /\ UNCHANGED <<waiting, seriesDir, binBounds, historyVars>>

RestoreEnd(j) ==
  /\ job[j].pc = "back" /\ job[j].todo = <<>>
  /\ entry' = [entry EXCEPT ![job[j].at] = Closed]
  /\ Finish(j)
  /\ UNCHANGED <<libVars, binBounds, binFaults, historyVars>>

------------------------------------------------------------------------------
(* What destroys entries, and the environment *)

Destroy(es) ==
  /\ entry' = [e \in Entries |-> IF e \in es THEN Closed ELSE entry[e]]
  /\ purged' = purged \cup ((UNION {In(entry[e].files) : e \in es}) \ In(lib))
  /\ recycled' = {r \in recycled : r[1] \notin es}

DeleteNow(e) ==
  /\ entry[e].listed # {}
  /\ Ask("deleteNow")
  /\ Destroy({e})
  /\ UNCHANGED <<libVars, job, plan, binFaults, binCrashes, owed, halfGone, overtaken>>

EmptyBin ==
  /\ Ask("empty")
  /\ Destroy({e \in Entries : entry[e].open})
  /\ UNCHANGED <<libVars, job, plan, binFaults, binCrashes, owed, halfGone, overtaken>>

\* the hourly cleanup drops whole date buckets, with or without manifests
PurgeOld ==
  /\ Ask("purge")
  /\ Destroy({e \in Entries : entry[e].open /\ entry[e].aged})
  /\ UNCHANGED <<libVars, job, plan, binFaults, binCrashes, owed, halfGone, overtaken>>

\* recycle_bin_age_days pass; no request is under way that long
AgeOut ==
  /\ "purge" \in plan.ops
  /\ \A j \in Jobs : job[j] = IdleJob
  /\ \E e \in Entries : entry[e].open /\ ~entry[e].aged
  /\ entry' = [e \in Entries |-> [entry[e] EXCEPT !.aged = entry[e].open]]
  /\ UNCHANGED <<libVars, job, binBounds, binFaults, historyVars>>

\* a half-written .ryokan-tmp copy is junk the sweep or the purge removes
BinCrash ==
  /\ binCrashes < plan.crashes
  /\ \E j \in Jobs : job[j] # IdleJob
  /\ binCrashes' = binCrashes + 1
  /\ job' = [j \in Jobs |-> IdleJob]
  /\ UNCHANGED <<libVars, entry, plan, requests, binFaults, historyVars>>

------------------------------------------------------------------------------
BinInit ==
  /\ plan \in BinBudgets
  /\ LET v == CHOOSE v \in Videos : TRUE
     IN /\ lib = [Empty EXCEPT !["video"] = v, !["extra"] = v]
        /\ owed = {v}
        /\ waiting = Videos \ {v}
  /\ seriesDir = TRUE
  /\ entry = [e \in Entries |-> Closed]
  /\ job = [j \in Jobs |-> IdleJob]
  /\ requests = 0 /\ binFaults = {} /\ binCrashes = 0
  /\ recycled = {} /\ purged = {} /\ halfGone = {} /\ overtaken = {}

Caller(j) == \/ DeleteEpisode(j) \/ RemoveSeries(j) \/ SweepStart(j)
             \/ TickStart(j) \/ TickPlace(j) \/ Swap(j) \/ Nfo(j) \/ Unstage(j)
             \/ ManualStart(j) \/ ManualCheck(j) \/ ManualPut(j)

Recycle(j) == \/ RecycleOpen(j) \/ RecycleMove(j) \/ RecycleUnlink(j)
              \/ RecycleTree(j) \/ PruneTree(j)
              \/ WriteManifest(j) \/ Rollback(j) \/ DropEntry(j)

RestoreStep(j) == \/ \E e \in Entries : RestoreEntry(j, e)
                  \/ RestoreCheck(j) \/ RestoreMove(j) \/ RestoreUnlink(j)
                  \/ RestoreUndo(j) \/ RestoreEnd(j)

BinNext ==
  \/ \E j \in Jobs : Caller(j) \/ Recycle(j) \/ RestoreStep(j)
  \/ \E e \in Entries : DeleteNow(e)
  \/ EmptyBin \/ PurgeOld \/ AgeOut \/ BinCrash

BinSpec == BinInit /\ [][BinNext]_binVars

------------------------------------------------------------------------------
(* Properties *)

Files == Videos \cup {NoVideo}
JobSteps == {"idle", "recycle", "move", "unlink", "prune", "manifest", "rollback",
             "place", "swap", "nfo", "unstage", "check", "put",
             "fit", "back", "backUnlink", "undo"}
Kinds == {"episode", "staged", "folder"}

\* Types of the folder, the bin and the jobs; an entry holds nothing once its directory is gone.
BinTypeOK ==
  /\ plan \in BinBudgets
  /\ waiting \subseteq Videos
  /\ lib \in [Path -> Files]
  /\ seriesDir \in BOOLEAN
  /\ entry \in [Entries -> [open : BOOLEAN, aged : BOOLEAN, kind : Kinds,
                            tree : BOOLEAN,
                            files : [Path -> Files], listed : SUBSET (Path \cup {"folder"})]]
  /\ \A e \in Entries : ~entry[e].open => entry[e] = Closed
  /\ \A j \in Jobs : /\ job[j].op \in Ops \cup {"none"} /\ job[j].pc \in JobSteps
                     /\ job[j].kind \in Kinds /\ job[j].video \in Files
                     /\ job[j].at \in Entries \cup {0}
                     /\ \A i \in DOMAIN job[j].todo : job[j].todo[i] \in Path \cup {"folder"}
                     /\ \A i \in DOMAIN job[j].moved : job[j].moved[i] \in Path \cup {"folder"}
  /\ requests \in Nat /\ binFaults \subseteq BinFaults /\ binCrashes \in Nat
  /\ owed \subseteq Videos /\ recycled \subseteq Entries \X Videos /\ purged \subseteq Videos
  /\ halfGone \subseteq Videos /\ overtaken \subseteq Videos

\* A video that was the episode's file is in the folder, in the bin or back outside the
\* library until a request destroys it: no recycle, restore or upgrade loses one that a call
\* failed in, or that was interrupted.  Two ways out are known and named: a job overtook
\* another (see DeletesWhatItCopied), a folder could not be removed whole (OriginalLeftInPlace).
VideoIsSomewhere ==
  Cardinality(binFaults) <= 1 =>
    owed \subseteq waiting \cup In(lib) \cup InBin \cup purged \cup halfGone \cup overtaken

\* What a finished recycle put in the bin stays in its entry, where Restore can see it,
\* through crashes and failed restores, until it is back in the folder or destroyed on request.
RecycledIsListed ==
  \A r \in recycled : entry[r[1]].listed # {} /\ r[2] \in In(entry[r[1]].files)

\* No video is lost unnoticed: it exists, and what is only in the bin can be restored.
NoVideoIsLost == VideoIsSomewhere /\ RecycledIsListed

\* While an import has an upgrade staged only the removal of its series takes it away:
\* the temp-file sweep never takes a live one for a leftover, and no restore replaces it.
StagingUndisturbed ==
  [][\A j \in Jobs :
       /\ job[j].op = "tick" /\ job[j].replacing /\ job[j].pc \notin {"place", "nfo"}
       /\ lib["staged"] # NoVideo
       => \/ lib'["staged"] = lib["staged"]
          \/ job'[j] # job[j]
          \/ \E k \in Jobs : job[k].op = "series"]_binVars

\* A restore replaces no video: between its check and its moves nobody places one, but a
\* delete that takes its file back because the manifest could not be written.
RestoreReplacesNoVideo ==
  [][\A j \in Jobs : /\ job[j].op = "restore" /\ job'[j] # job[j]
                     /\ lib["video"] # NoVideo /\ "manifest" \notin binFaults
                     => lib'["video"] \in {lib["video"], NoVideo}]_binVars

\* The locks of the imports keep the jobs that move videos apart: what an import has
\* staged and what a restore finds placed is not replaced under them.
ImportsKeepTheirFiles == StagingUndisturbed /\ RestoreReplacesNoVideo

\* recycle answers an error only with the video still in the folder ("the original is
\* left in place"), when nothing else was going on.
OriginalLeftInPlace ==
  [][\A j \in Jobs : /\ job[j].pc = "rollback" /\ job'[j] = IdleJob
                     /\ requests = 1
                     => lib'["video"] # NoVideo]_binVars

\* "Ryokan copies, verifies the size, then deletes": what a recycle deletes after its copy
\* is what it copied.
DeletesWhatItCopied ==
  [][\A j \in Jobs : /\ job[j].pc = "unlink" /\ job'[j].pc # "unlink"
                     /\ lib' # lib
                     => lib[Head(job[j].todo)] = At(j).files[Head(job[j].todo)]]_binVars

\* "The next upgrade of the same slot lists it with the old files and retires it": a leftover
\* of an interrupted upgrade is never overwritten by the next one.
LeftoverIsRetired ==
  [][\A j \in Jobs : job[j].pc = "place" /\ lib["staged"] # NoVideo
       => lib'["staged"] = lib["staged"]]_binVars
=============================================================================
