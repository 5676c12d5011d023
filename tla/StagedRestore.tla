---------------------------- MODULE StagedRestore ----------------------------
(* Backup and restore (services/backup/mod.rs, handlers/system/backup.rs, and  *)
(* the part of main.rs that runs before the database pool opens).              *)
(*                                                                             *)
(* An uploaded archive is unpacked, checked, and, once a backup of the running *)
(* state is safe in the backup folder, renamed to the pending directory.  The  *)
(* next boot swaps its key and its database into place, one rename at a time,  *)
(* before anything is opened.  The directory on disk is all that survives a    *)
(* crash, so every step below that changes it is an action of its own.         *)
(*                                                                             *)
(* A file is known by whose it is: Own is the installation's own database (or *)
(* key) at the start, an upload names the one it brought, Fresh is what SQLite *)
(* or the key loader makes when it finds nothing, Torn a half-copied file.     *)
EXTENDS Naturals, FiniteSets

CONSTANTS
  Uploads,       \* restore uploads; each is sent once
  WithKey,       \* those whose archive carries the encryption key
  Keep,          \* config.backup_retention_count
  Budgets,       \* bounds of the model: how often what may happen, see Budget
  NoOwner, Own, Fresh, Torn

\* A behaviour has one of the budgets from its start
Budget == [boots : Nat, crashes : Nat, faults : Nat, runs : Nat, cancels : Nat,
           deletes : Nat]

ASSUME RestoreAssumptions ==
  /\ WithKey \subseteq Uploads
  /\ Keep \in Nat \ {0}
  /\ Budgets \subseteq Budget
  /\ Own # Fresh /\ Torn \notin {Own, Fresh} /\ NoOwner \notin {Own, Fresh, Torn}
  /\ {NoOwner, Own, Fresh, Torn} \cap Uploads = {}

VARIABLES
  budget,
  keyElsewhere,  \* RYOKAN_KEY_FILE_PATH is on another filesystem than the database
  \* on disk
  dbFile,        \* whose database is at the live path
  wal,           \* whose -wal holds commits beside it (-shm goes along, unmodelled)
  keyFile,       \* whose key is at the key path
  aside,         \* the ".pre-restore-<stamp>" files: records [kind, of, stamp]
  pendingOf,     \* the upload the pending directory came from, NoOwner: no directory
  pendingParts,  \* what is left in it
  archives,      \* backup folder: <<"scheduled", n>> and <<"pre", upload>>
  \* the process
  phase,         \* what the boot is about to do; "up" while it serves
  keyReplaced,   \* apply_pending_restore's local
  outcome,       \* how apply_pending_restore ended in this boot
  upload,        \* stage of each upload's request
  lock,          \* holder of BACKUP_LOCK
  folder,        \* the folder run: "idle", "writing", "pruning"
  cancelling,    \* the upload whose directory cancel_pending_restore is removing
  \* counters and history
  boots, crashes, faults, runs, cancels,
  before,        \* the disk as apply_pending_restore found it
  placed,        \* uploads whose database was placed by a boot
  cancelled,     \* uploads whose cancel was answered with success
  deleted,       \* archives the user deleted
  cutCancel,     \* a cancel ended before the directory was gone
  splitAside     \* a crash left a -wal at the live path without its database

diskVars == <<dbFile, wal, keyFile, aside, pendingOf, pendingParts>>
bootVars == <<phase, keyReplaced, outcome, before, placed>>
requestVars == <<upload, lock, folder, cancelling, archives, runs, cancels,
                 cancelled, deleted>>
faultVars == <<budget, keyElsewhere, crashes, faults, cutCancel, splitAside>>
restoreVars == <<diskVars, bootVars, requestVars, faultVars, boots>>

\* what a request that changes no file leaves alone
still == <<diskVars, bootVars, faultVars, boots>>

\* what no step of a boot between its start and the pool touches
quiet == <<requestVars, boots, before, crashes, cutCancel, splitAside, keyElsewhere, budget>>

------------------------------------------------------------------------------
(* Helpers *)

Parts == {"manifest", "db", "key", "art"}

\* what extract_archive leaves in the staging directory of u
PartsOf(u) == {"manifest", "db", "art"} \cup (IF u \in WithKey THEN {"key"} ELSE {})

Stamp == boots                        \* one boot, one suffix

AsideNow(kind) == {a \in aside : a.kind = kind /\ a.stamp = Stamp}

Disk == <<dbFile, wal, keyFile, pendingParts>>

\* the secrets in database d can be read with key k; an archive without a key
\* is sanitized or tells the user to link the accounts again
Reads(d, k) == d \in {Own} \cup WithKey => k = d

Scheduled == {a \in archives : a[1] = "scheduled"}

\* list_backups, newest first, skip(keep): a name's number is its timestamp
BeyondNewest(keep) ==
  {a \in Scheduled : Cardinality({b \in Scheduled : b[2] > a[2]}) >= keep}

\* one filesystem call of the boot fails
CallFails == faults < budget.faults /\ faults' = faults + 1

------------------------------------------------------------------------------
(* Boot: apply_pending_restore, then the pool *)

BootStart ==
  /\ phase = "down"
  /\ boots < budget.boots
  /\ boots' = boots + 1
  /\ phase' = "checking"
  /\ keyReplaced' = FALSE
  /\ outcome' = "none"
  /\ before' = Disk
  /\ UNCHANGED <<diskVars, requestVars, faultVars, placed>>

\* Mutant of CheckStaged: a directory that an interrupted boot took parts from is refused
CheckStagedWhole ==
  /\ phase = "checking"
  /\ \/ /\ pendingOf = NoOwner
        /\ phase' = "opening"
        /\ UNCHANGED outcome
     \/ /\ pendingOf # NoOwner
        /\ pendingParts # PartsOf(pendingOf)
        /\ phase' = "opening"
        /\ outcome' = "err"
     \/ /\ pendingOf # NoOwner
        /\ pendingParts = PartsOf(pendingOf)
        /\ phase' = IF "key" \in pendingParts THEN "keyAside" ELSE "dbAside"
        /\ UNCHANGED outcome
  /\ UNCHANGED <<diskVars, keyReplaced, placed, quiet, faults>>

\* read_manifest and check_database_file before anything moves
CheckStaged ==
  /\ phase = "checking"
  /\ \/ /\ pendingOf = NoOwner
        /\ phase' = "opening"
        /\ UNCHANGED outcome
     \/ /\ pendingOf # NoOwner
        /\ ~ {"manifest", "db"} \subseteq pendingParts
        /\ phase' = "opening"
        /\ outcome' = "err"
     \/ /\ pendingOf # NoOwner
        /\ {"manifest", "db"} \subseteq pendingParts
        /\ phase' = IF "key" \in pendingParts THEN "keyAside" ELSE "dbAside"
        /\ UNCHANGED outcome
  /\ UNCHANGED <<diskVars, keyReplaced, placed, quiet, faults>>

KeyAside ==
  /\ phase = "keyAside"
  /\ \/ /\ keyFile = NoOwner
        /\ phase' = "keyPlace"
        /\ UNCHANGED <<keyFile, aside, faults, outcome>>
     \/ /\ keyFile # NoOwner
        /\ aside' = aside \cup {[kind |-> "key", of |-> keyFile, stamp |-> Stamp]}
        /\ keyFile' = NoOwner
        /\ phase' = "keyPlace"
        /\ UNCHANGED <<faults, outcome>>
     \/ /\ keyFile # NoOwner
        /\ CallFails
        /\ phase' = "opening"
        /\ outcome' = "err"
        /\ UNCHANGED <<keyFile, aside>>
  /\ UNCHANGED <<dbFile, wal, pendingOf, pendingParts, keyReplaced, placed, quiet>>

\* move_file(staged_key, key_path): a rename, or across filesystems a copy that
\* begins with a truncated file
KeyPlace ==
  /\ phase = "keyPlace"
  /\ \/ /\ ~keyElsewhere
        /\ keyFile' = pendingOf
        /\ pendingParts' = pendingParts \ {"key"}
        /\ keyReplaced' = TRUE
        /\ phase' = "dbAside"
        /\ UNCHANGED faults
     \/ /\ keyElsewhere
        /\ keyFile' = Torn
        /\ phase' = "keyCopy"
        /\ UNCHANGED <<pendingParts, keyReplaced, faults>>
     \/ /\ ~keyElsewhere
        /\ CallFails
        /\ keyFile' \in {keyFile, Torn}
        /\ phase' = "keyBack"
        /\ UNCHANGED <<pendingParts, keyReplaced>>
  /\ UNCHANGED <<dbFile, wal, aside, pendingOf, outcome, placed, quiet>>

KeyCopy ==
  /\ phase = "keyCopy"
  /\ \/ /\ keyFile' = pendingOf
        /\ phase' = "keyUnlink"
        /\ UNCHANGED faults
     \/ /\ CallFails
        /\ phase' = "keyBack"
        /\ UNCHANGED keyFile
  /\ UNCHANGED <<dbFile, wal, aside, pendingOf, pendingParts, keyReplaced, outcome,
                 placed, quiet>>

KeyUnlink ==
  /\ phase = "keyUnlink"
  /\ \/ /\ pendingParts' = pendingParts \ {"key"}
        /\ keyReplaced' = TRUE
        /\ phase' = "dbAside"
        /\ UNCHANGED faults
     \/ /\ CallFails
        /\ phase' = "keyBack"
        /\ UNCHANGED <<pendingParts, keyReplaced>>
  /\ UNCHANGED <<dbFile, wal, keyFile, aside, pendingOf, outcome, placed, quiet>>

\* `let _ = fs::rename(&key_aside, &key_path)`, then the Err is returned
KeyBack ==
  /\ phase = "keyBack"
  /\ phase' = "opening"
  /\ outcome' = "err"
  /\ \/ \E a \in AsideNow("key") :
          /\ keyFile' = a.of
          /\ aside' = aside \ {a}
          /\ UNCHANGED faults
     \/ /\ AsideNow("key") = {}
        /\ UNCHANGED <<keyFile, aside, faults>>
     \/ /\ AsideNow("key") # {}
        /\ CallFails
        /\ UNCHANGED <<keyFile, aside>>
  /\ UNCHANGED <<dbFile, wal, pendingOf, pendingParts, keyReplaced, placed, quiet>>

DbAside ==
  /\ phase = "dbAside"
  /\ \/ /\ dbFile = NoOwner
        /\ phase' = "walAside"
        /\ UNCHANGED <<dbFile, aside, faults>>
     \/ /\ dbFile # NoOwner
        /\ aside' = aside \cup {[kind |-> "db", of |-> dbFile, stamp |-> Stamp]}
        /\ dbFile' = NoOwner
        /\ phase' = "walAside"
        /\ UNCHANGED faults
     \/ /\ dbFile # NoOwner
        /\ CallFails
        /\ phase' = "undoKeyOut"
        /\ UNCHANGED <<dbFile, aside>>
  /\ UNCHANGED <<wal, keyFile, pendingOf, pendingParts, keyReplaced, outcome, placed,
                 quiet>>

WalAside ==
  /\ phase = "walAside"
  /\ \/ /\ wal = NoOwner
        /\ phase' = "dbPlace"
        /\ UNCHANGED <<wal, aside, faults>>
     \/ /\ wal # NoOwner
        /\ aside' = aside \cup {[kind |-> "wal", of |-> wal, stamp |-> Stamp]}
        /\ wal' = NoOwner
        /\ phase' = "dbPlace"
        /\ UNCHANGED faults
     \/ /\ wal # NoOwner
        /\ CallFails
        /\ phase' = "undoWal"
        /\ UNCHANGED <<wal, aside>>
  /\ UNCHANGED <<dbFile, keyFile, pendingOf, pendingParts, keyReplaced, outcome, placed,
                 quiet>>

\* Mutant of DbPlace: the database is copied out of the pending directory
DbPlaceCopies ==
  /\ phase = "dbPlace"
  /\ dbFile' = pendingOf
  /\ placed' = placed \cup {pendingOf}
  /\ phase' = "art"
  /\ UNCHANGED <<wal, keyFile, aside, pendingOf, pendingParts, keyReplaced, outcome, quiet,
                 faults>>

\* The pending directory is on the database's filesystem, so a rename; when even
\* that fails, the copy move_file falls back to may leave a torn file
DbPlace ==
  /\ phase = "dbPlace"
  /\ \/ /\ dbFile' = pendingOf
        /\ pendingParts' = pendingParts \ {"db"}
        /\ placed' = placed \cup {pendingOf}
        /\ phase' = "art"
        /\ UNCHANGED faults
     \/ /\ CallFails
        /\ phase' = "undoWal"
        /\ UNCHANGED <<dbFile, pendingParts, placed>>
  /\ UNCHANGED <<wal, keyFile, aside, pendingOf, keyReplaced, outcome, quiet>>

\* Mutant of UndoWal: only the database is put back
UndoWalSkipped ==
  /\ phase = "undoWal"
  /\ phase' = "undoDb"
  /\ UNCHANGED <<diskVars, keyReplaced, outcome, placed, quiet, faults>>

\* moved_aside.iter().rev(): the -wal first, then the database, errors ignored
UndoWal ==
  /\ phase = "undoWal"
  /\ phase' = "undoDb"
  /\ \/ \E a \in AsideNow("wal") :
          /\ wal' = a.of
          /\ aside' = aside \ {a}
          /\ UNCHANGED faults
     \/ /\ AsideNow("wal") = {}
        /\ UNCHANGED <<wal, aside, faults>>
     \/ /\ AsideNow("wal") # {}
        /\ CallFails
        /\ UNCHANGED <<wal, aside>>
  /\ UNCHANGED <<dbFile, keyFile, pendingOf, pendingParts, keyReplaced, outcome, placed,
                 quiet>>

UndoDb ==
  /\ phase = "undoDb"
  /\ phase' = "undoKeyOut"
  /\ \/ \E a \in AsideNow("db") :
          /\ dbFile' = a.of
          /\ aside' = aside \ {a}
          /\ UNCHANGED faults
     \/ /\ AsideNow("db") = {}
        /\ UNCHANGED <<dbFile, aside, faults>>
     \/ /\ AsideNow("db") # {}
        /\ CallFails
        /\ UNCHANGED <<dbFile, aside>>
  /\ UNCHANGED <<wal, keyFile, pendingOf, pendingParts, keyReplaced, outcome, placed,
                 quiet>>

\* Mutant of UndoKeyOut: the key is not put back when the database cannot be placed
UndoKeyOutSkipped ==
  /\ phase = "undoKeyOut"
  /\ phase' = "opening"
  /\ outcome' = "err"
  /\ UNCHANGED <<diskVars, keyReplaced, placed, quiet, faults>>

\* undo_key, first rename: the restored key back into the pending directory.  A
\* plain rename, so it cannot cross filesystems
UndoKeyOut ==
  /\ phase = "undoKeyOut"
  /\ \/ /\ ~keyReplaced
        /\ phase' = "opening"
        /\ outcome' = "err"
        /\ UNCHANGED <<keyFile, pendingParts, faults>>
     \/ /\ keyReplaced
        /\ ~keyElsewhere
        /\ keyFile' = NoOwner
        /\ pendingParts' = pendingParts \cup {"key"}
        /\ phase' = "keyBack"
        /\ UNCHANGED <<outcome, faults>>
     \/ /\ keyReplaced
        /\ \/ keyElsewhere /\ UNCHANGED faults
           \/ ~keyElsewhere /\ CallFails
        /\ phase' = "keyBack"
        /\ UNCHANGED <<keyFile, pendingParts, outcome>>
  /\ UNCHANGED <<dbFile, wal, aside, pendingOf, keyReplaced, placed, quiet>>

\* the artwork cache is replaced or a warning is kept; some of it may stay behind
Artwork ==
  /\ phase = "art"
  /\ pendingParts' \in {pendingParts, pendingParts \ {"art"}}
  /\ phase' = "clearing"
  /\ outcome' = "applied"
  /\ UNCHANGED <<dbFile, wal, keyFile, aside, pendingOf, keyReplaced, placed, quiet,
                 faults>>

\* remove_dir_all(pending): entry by entry, then the directory
ClearPending ==
  /\ phase = "clearing"
  /\ \/ \E p \in pendingParts :
          /\ pendingParts' = pendingParts \ {p}
          /\ UNCHANGED <<pendingOf, phase, faults>>
     \/ /\ pendingParts = {}
        /\ pendingOf' = NoOwner
        /\ phase' = "opening"
        /\ UNCHANGED <<pendingParts, faults>>
     \/ /\ CallFails
        /\ phase' = "opening"
        /\ UNCHANGED <<pendingOf, pendingParts>>
  /\ UNCHANGED <<dbFile, wal, keyFile, aside, keyReplaced, outcome, placed, quiet>>

\* The pool opens (SQLite creates a missing database and then drops a stale -wal;
\* from here commits go to the -wal) and warm_key loads or makes the key.  A key
\* file of the wrong length, like a database that does not open, is a panic
OpenPool ==
  /\ phase = "opening"
  /\ dbFile' = IF dbFile = NoOwner THEN Fresh ELSE dbFile
  /\ wal' = IF dbFile = Torn THEN wal ELSE dbFile'
  /\ keyFile' = IF keyFile = NoOwner /\ dbFile # Torn THEN Fresh ELSE keyFile
  /\ phase' = IF Torn \in {keyFile, dbFile} THEN "down" ELSE "up"
  /\ UNCHANGED <<aside, pendingOf, pendingParts, keyReplaced, outcome, placed, quiet,
                 faults>>

------------------------------------------------------------------------------
(* Requests while the application serves *)

Serving == phase = "up"

Busy(u) == upload[u] \in {"received", "unpacked", "backing", "saved", "renaming"}

\* api_restore_upload: refused while a restore is staged, else the body is stored
UploadStart(u) ==
  /\ Serving
  /\ upload[u] = "idle"
  /\ upload' = [upload EXCEPT ![u] = IF pendingOf = NoOwner THEN "received" ELSE "refused"]
  /\ UNCHANGED <<still, lock, folder, cancelling, archives, runs, cancels,
                 cancelled, deleted>>

\* stage_restore_inner asks again, then stage_into unpacks and checks the archive
Unpack(u) ==
  /\ Serving
  /\ upload[u] = "received"
  /\ \/ pendingOf # NoOwner /\ upload' = [upload EXCEPT ![u] = "refused"]
     \/ pendingOf = NoOwner /\ upload' = [upload EXCEPT ![u] = "unpacked"]
     \/ pendingOf = NoOwner /\ upload' = [upload EXCEPT ![u] = "invalid"]
  /\ UNCHANGED <<still, lock, folder, cancelling, archives, runs, cancels,
                 cancelled, deleted>>

\* create_backup for the pre-restore archive: BACKUP_LOCK.try_lock
SaveCurrent(u) ==
  /\ Serving
  /\ upload[u] = "unpacked"
  /\ IF lock = NoOwner
       THEN lock' = u /\ upload' = [upload EXCEPT ![u] = "backing"]
       ELSE UNCHANGED lock /\ upload' = [upload EXCEPT ![u] = "failed"]
  /\ UNCHANGED <<still, folder, cancelling, archives, runs, cancels, cancelled,
                 deleted>>

\* Mutant of Saved: an upload goes on without its pre-restore archive
SavedAnyway(u) ==
  /\ Serving
  /\ upload[u] = "backing"
  /\ lock' = NoOwner
  /\ archives' \in {archives, archives \cup {<<"pre", u>>}}
  /\ upload' = [upload EXCEPT ![u] = "saved"]
  /\ UNCHANGED <<still, folder, cancelling, runs, cancels, cancelled, deleted>>

\* the archive is renamed into the folder, or the backup failed and so does the upload
Saved(u) ==
  /\ Serving
  /\ upload[u] = "backing"
  /\ lock' = NoOwner
  /\ \/ /\ archives' = archives \cup {<<"pre", u>>}
        /\ upload' = [upload EXCEPT ![u] = "saved"]
     \/ /\ UNCHANGED archives
        /\ upload' = [upload EXCEPT ![u] = "failed"]
  /\ UNCHANGED <<still, folder, cancelling, runs, cancels, cancelled, deleted>>

Recheck(u) ==
  /\ Serving
  /\ upload[u] = "saved"
  /\ upload' = [upload EXCEPT ![u] = IF pendingOf = NoOwner THEN "renaming" ELSE "refused"]
  /\ UNCHANGED <<still, lock, folder, cancelling, archives, runs, cancels,
                 cancelled, deleted>>

\* fs::rename(staging, pending): succeeds onto nothing and onto an empty directory
Stage(u) ==
  /\ Serving
  /\ upload[u] = "renaming"
  /\ \/ /\ pendingOf = NoOwner \/ pendingParts = {}
        /\ pendingOf' = u
        /\ pendingParts' = PartsOf(u)
        /\ upload' = [upload EXCEPT ![u] = "staged"]
     \/ /\ pendingOf # NoOwner
        /\ pendingParts # {}
        /\ upload' = [upload EXCEPT ![u] = "failed"]
        /\ UNCHANGED <<pendingOf, pendingParts>>
  /\ UNCHANGED <<dbFile, wal, keyFile, aside, bootVars, faultVars, boots, lock, folder,
                 cancelling, archives, runs, cancels, cancelled, deleted>>

\* cancel_pending_restore: remove_dir_all takes the entries in directory order,
\* which is no order at all
CancelStart ==
  /\ Serving
  /\ cancelling = NoOwner
  /\ cancels < budget.cancels
  /\ pendingOf # NoOwner
  /\ cancels' = cancels + 1
  /\ cancelling' = pendingOf
  /\ UNCHANGED <<still, upload, lock, folder, archives, runs, cancelled,
                 deleted>>

CancelEntry(p) ==
  /\ Serving
  /\ cancelling # NoOwner
  /\ pendingOf = cancelling
  /\ p \in pendingParts
  /\ pendingParts' = pendingParts \ {p}
  /\ UNCHANGED <<dbFile, wal, keyFile, aside, pendingOf, bootVars, faultVars, boots,
                 requestVars>>

\* Mutant of CancelEnd: success is answered while entries are left
CancelEndEarly ==
  /\ Serving
  /\ cancelling # NoOwner
  /\ cancelling' = NoOwner
  /\ pendingOf' = IF pendingOf = cancelling THEN NoOwner ELSE pendingOf
  /\ cancelled' = cancelled \cup {cancelling}
  /\ UNCHANGED <<dbFile, wal, keyFile, aside, pendingParts, bootVars, faultVars, boots,
                 upload, lock, folder, archives, runs, cancels, deleted>>

CancelEnd ==
  /\ Serving
  /\ cancelling # NoOwner
  /\ cancelling' = NoOwner
  /\ \/ /\ pendingOf = cancelling
        /\ pendingParts = {}
        /\ pendingOf' = NoOwner
        /\ cancelled' = cancelled \cup {cancelling}
        /\ UNCHANGED <<faults, cutCancel>>
     \/ /\ pendingOf # cancelling     \* another upload took the emptied directory's place
        /\ UNCHANGED <<pendingOf, cancelled, faults, cutCancel>>
     \/ /\ pendingOf = cancelling     \* an entry could not be removed
        /\ CallFails
        /\ cutCancel' = TRUE
        /\ UNCHANGED <<pendingOf, cancelled>>
  /\ UNCHANGED <<dbFile, wal, keyFile, aside, pendingParts, bootVars, boots, crashes,
                 splitAside, keyElsewhere, budget, upload, lock, folder, archives, runs, cancels,
                 deleted>>

\* run_to_folder, from the daily loop or the button: a backup under the lock ...
FolderStart ==
  /\ Serving
  /\ folder = "idle"
  /\ lock = NoOwner
  /\ runs < budget.runs
  /\ runs' = runs + 1
  /\ lock' = "folder"
  /\ folder' = "writing"
  /\ UNCHANGED <<still, upload, cancelling, archives, cancels, cancelled,
                 deleted>>

\* ... then prune_backups, after the lock is released
FolderWritten ==
  /\ Serving
  /\ folder = "writing"
  /\ lock' = NoOwner
  /\ \/ /\ archives' = archives \cup {<<"scheduled", runs>>}
        /\ folder' = "pruning"
     \/ /\ UNCHANGED archives
        /\ folder' = "idle"
  /\ UNCHANGED <<still, upload, cancelling, runs, cancels, cancelled, deleted>>

Prune ==
  /\ Serving
  /\ folder = "pruning"
  /\ \E gone \in SUBSET BeyondNewest(Keep) :   \* a failing removal ends the loop
       archives' = archives \ gone
  /\ folder' = "idle"
  /\ UNCHANGED <<still, upload, lock, cancelling, runs, cancels, cancelled, deleted>>

\* backup_file_delete: the user may remove any archive, the escape hatch included
DeleteArchive(a) ==
  /\ Serving
  /\ Cardinality(deleted) < budget.deletes
  /\ a \in archives
  /\ archives' = archives \ {a}
  /\ deleted' = deleted \cup {a}
  /\ UNCHANGED <<still, upload, lock, folder, cancelling, runs, cancels,
                 cancelled>>

------------------------------------------------------------------------------
(* The process ends *)

\* what a process keeps in memory is gone; a request in flight is never answered
ForgetRequests ==
  /\ upload' = [u \in Uploads |-> IF Busy(u) THEN "failed" ELSE upload[u]]
  /\ lock' = NoOwner
  /\ folder' = "idle"
  /\ cancelling' = NoOwner
  /\ UNCHANGED <<archives, runs, cancels, cancelled, deleted>>

\* The process is stopped while no cancel runs.  main installs no shutdown handler
\* and never closes the pool, so the -wal stays as after a crash
Shutdown ==
  /\ Serving
  /\ cancelling = NoOwner
  /\ phase' = "down"
  /\ ForgetRequests
  /\ UNCHANGED <<diskVars, faultVars, boots, keyReplaced, outcome, before, placed>>

Die ==
  /\ phase # "down"
  /\ crashes < budget.crashes
  /\ crashes' = crashes + 1
  /\ phase' = "down"
  /\ cutCancel' = (cutCancel \/ cancelling # NoOwner)
  /\ splitAside' = (splitAside \/ (dbFile = NoOwner /\ wal # NoOwner))
  /\ ForgetRequests
  /\ UNCHANGED <<diskVars, boots, faults, keyElsewhere, budget, keyReplaced, outcome, before, placed>>

------------------------------------------------------------------------------

RestoreInit ==
  /\ budget \in Budgets
  /\ keyElsewhere \in BOOLEAN
  /\ dbFile = Own
  /\ wal = Own
  /\ keyFile = Own
  /\ aside = {}
  /\ pendingOf = NoOwner
  /\ pendingParts = {}
  /\ archives = {}
  /\ phase = "up"                      \* after an ordinary boot
  /\ keyReplaced = FALSE
  /\ outcome = "none"
  /\ upload = [u \in Uploads |-> "idle"]
  /\ lock = NoOwner
  /\ folder = "idle"
  /\ cancelling = NoOwner
  /\ boots = 0
  /\ crashes = 0
  /\ faults = 0
  /\ runs = 0
  /\ cancels = 0
  /\ before = Disk
  /\ placed = {}
  /\ cancelled = {}
  /\ deleted = {}
  /\ cutCancel = FALSE
  /\ splitAside = FALSE

Boot ==
  \/ BootStart \/ CheckStaged \/ KeyAside \/ KeyPlace \/ KeyCopy \/ KeyUnlink \/ KeyBack
  \/ DbAside \/ WalAside \/ DbPlace \/ UndoWal \/ UndoDb \/ UndoKeyOut
  \/ Artwork \/ ClearPending \/ OpenPool

CancelStaged == CancelStart \/ CancelEnd \/ \E p \in Parts : CancelEntry(p)

FolderRun == FolderStart \/ FolderWritten \/ Prune

UploadStep(u) ==
  UploadStart(u) \/ Unpack(u) \/ SaveCurrent(u) \/ Saved(u) \/ Recheck(u) \/ Stage(u)

RestoreNext ==
  \/ Boot
  \/ CancelStaged
  \/ FolderRun
  \/ \E u \in Uploads : UploadStep(u)
  \/ \E a \in archives : DeleteArchive(a)
  \/ Shutdown
  \/ Die

\* A boot runs to its end on its own; nobody promises another boot, or a request
RestoreFairness == WF_restoreVars(Boot)

RestoreSpec == RestoreInit /\ [][RestoreNext]_restoreVars /\ RestoreFairness

------------------------------------------------------------------------------
(* Properties *)

Stages == {"idle", "received", "unpacked", "backing", "saved", "renaming", "staged",
           "refused", "invalid", "failed"}

Phases == {"down", "checking", "keyAside", "keyPlace", "keyCopy", "keyUnlink", "keyBack",
           "dbAside", "walAside", "dbPlace", "undoWal", "undoDb", "undoKeyOut", "art",
           "clearing", "opening", "up"}

Owners == Uploads \cup {Own, Fresh, Torn}

Archives == ({"scheduled"} \X (1..budget.runs)) \cup ({"pre"} \X Uploads)

\* Types of the variables, the files on disk by their owner.
RestoreTypeOK ==
  /\ budget \in Budgets
  /\ keyElsewhere \in BOOLEAN
  /\ {dbFile, wal, keyFile} \subseteq Owners \cup {NoOwner}
  /\ aside \subseteq [kind : {"db", "wal", "key"}, of : Owners, stamp : 1..budget.boots]
  /\ pendingOf \in Uploads \cup {NoOwner}
  /\ pendingParts \subseteq Parts
  /\ pendingOf = NoOwner => pendingParts = {}
  /\ archives \subseteq Archives
  /\ deleted \subseteq Archives
  /\ phase \in Phases
  /\ keyReplaced \in BOOLEAN
  /\ outcome \in {"none", "applied", "err"}
  /\ upload \in [Uploads -> Stages]
  /\ lock \in Uploads \cup {"folder", NoOwner}
  /\ folder \in {"idle", "writing", "pruning"}
  /\ cancelling \in Uploads \cup {NoOwner}
  /\ {boots, crashes, faults, runs, cancels} \subseteq Nat
  /\ boots <= budget.boots
  /\ runs <= budget.runs
  /\ placed \subseteq Uploads
  /\ cancelled \subseteq Uploads
  /\ cutCancel \in BOOLEAN
  /\ splitAside \in BOOLEAN

\* What one boot has to withstand: any number of crashes, or one failing call on an
\* installation that never crashed.  An undo that fails too, or a failure in the
\* boot after a crash, can leave the new key beside the old database.
Withstood == faults = 0 \/ (crashes = 0 /\ faults = 1 /\ ~keyElsewhere)

\* The application never serves a database with a key that does not read it: key
\* and database are swapped in two steps (mod.rs:1131 and 1181), and an interrupted
\* swap is finished by the next boot or was undone by this one.
PairMatches == Serving /\ Withstood /\ ~cutCancel => Reads(dbFile, keyFile)

\* The comment of apply_pending_restore (mod.rs:1115): an Err means that nothing
\* changed.  With the key on the database's filesystem a single failing call keeps
\* the promise, whichever call it is.
ErrMeansNothingChanged == outcome = "err" /\ phase = "opening" => Disk = before

RefusedBootChangesNothing == Withstood => ErrMeansNothingChanged

\* A boot swaps the key and the database both or, told by its Err, neither, whichever
\* of its calls fails and however often it is cut off and begun again.
BootIsAllOrNothing == PairMatches /\ RefusedBootChangesNothing

\* The database that was live is never overwritten or dropped: whatever fails and
\* whenever the process dies, it is at its path or under a .pre-restore name.
PreviousDbIsSomewhere ==
  dbFile = Own \/ \E a \in aside : a.kind = "db" /\ a.of = Own

\* A -wal kept aside belongs to the database kept under the same suffix, so the
\* previous database can be opened with its last commits, unless the process died
\* with only one of the two moved.
WalStaysWithItsDb ==
  faults <= 1 /\ ~splitAside =>
    \A w \in aside : w.kind = "wal" =>
      [kind |-> "db", of |-> w.of, stamp |-> w.stamp] \in aside

\* The database that was live can be had back by hand after any boot, with the -wal
\* that holds its last commits.
PreviousDbSurvives == PreviousDbIsSomewhere /\ WalStaysWithItsDb

\* Every restore that reached the pending directory has its pre-restore archive in
\* the backup folder, through retention pruning too, unless the user deleted it.
EscapeHatch ==
  \A u \in Uploads :
    upload[u] = "staged" => <<"pre", u>> \in archives \cup deleted

\* A restore can be undone by hand: from what a boot moved aside, with its last commits, and
\* from the archive that was written before the upload was staged.
RestoreCanBeUndone == PreviousDbSurvives /\ EscapeHatch

\* No boot places a restore that was cancelled, or one that was placed before: a
\* repeated restore would throw away everything done since.
RestoredOnce ==
  [][phase = "dbPlace" /\ phase' = "art" => dbFile' \notin placed \cup cancelled]_restoreVars

\* A boot that finds a manifest and a database, the rest of an interrupted swap or a
\* whole upload, ends with that upload's database in use once nothing fails any more.
InterruptedRestoreResumes ==
  \A u \in Uploads :
    (/\ phase = "checking" /\ pendingOf = u
     /\ {"manifest", "db"} \subseteq pendingParts
     /\ keyFile = Torn => "key" \in pendingParts
     /\ faults = budget.faults /\ crashes = budget.crashes)
      ~> (Serving /\ dbFile = u)

\* An upload that was staged is restored once and no more, across any crashes.
RestoredExactlyOnce == RestoredOnce /\ InterruptedRestoreResumes

\* docs/system.md:58: until the restart the tab shows the staged backup with a Cancel
\* button.  The button needs a readable manifest (pending_restore), an upload is
\* refused for the directory alone.
StagedCanBeCancelled ==
  Serving /\ pendingOf # NoOwner /\ cancelling = NoOwner => "manifest" \in pendingParts
==============================================================================
