------------------------ MODULE StagedRestoreProofs -------------------------
(* What a restore promises, for any uploads and any number of boots, crashes,  *)
(* failing calls, backups, cancels and deletions: a boot swaps key and database *)
(* together or not at all, and what was live before can be had back.            *)
EXTENDS StagedRestore, TLAPS

------------------------------------------------------------------------------
(* The inductive invariant *)

\* how the disk was when apply_pending_restore began
PastDb == before[1]
PastWal == before[2]
PastKey == before[3]
PastParts == before[4]

Owned == Owners \cup {NoOwner}

\* phases between a readable pending directory and the database in its place
Swapping == {"keyAside", "keyPlace", "keyCopy", "keyUnlink", "dbAside", "walAside", "dbPlace"}
Undoing == {"keyBack", "undoWal", "undoDb", "undoKeyOut"}

\* phases whose boot may have a key, or a database, that is neither in place nor put back
KeyUnderWay == {"keyPlace", "keyCopy", "keyUnlink"}
DbUnderWay == {"walAside", "dbPlace", "undoWal", "undoDb"}

\* this boot moved the file aside, if there was one
Moved(kind, owner) ==
  AsideNow(kind) = IF owner = NoOwner THEN {} ELSE {[kind |-> kind, of |-> owner, stamp |-> Stamp]}

\* what a boot has found and done by the phase it is in
BootProgress ==
  /\ phase \in Swapping \cup Undoing =>
       pendingOf # NoOwner /\ {"manifest", "db"} \subseteq pendingParts
  /\ phase \in {"keyAside"} \cup KeyUnderWay => "key" \in pendingParts
  /\ phase = "keyUnlink" => keyFile = pendingOf
  /\ phase \in Undoing => faults > 0
  /\ outcome = "err" => phase \in {"opening", "up", "down"}
  /\ phase \notin {"down", "up"} => boots > 0

FilesOnDisk ==
  /\ before \in Owned \X Owned \X Owned \X SUBSET Parts
  /\ \A a \in aside : a.stamp <= boots
  /\ dbFile # Torn /\ PastDb # Torn

\* the refusal is told with the disk as it was; the undo of one failing call succeeds
Refusing == phase = "opening" /\ outcome = "err"
KeyUndone == faults = 0 \/ (faults = 1 /\ ~keyElsewhere /\ PastKey # NoOwner)

\* where the key is, phase by phase
KeySwap ==
  /\ phase \in {"checking", "keyAside"} =>
       keyFile = PastKey /\ pendingParts = PastParts /\ AsideNow("key") = {} /\ ~keyReplaced
  /\ phase \in KeyUnderWay => Moved("key", PastKey) /\ pendingParts = PastParts /\ ~keyReplaced
  /\ phase \in {"keyCopy", "keyUnlink"} => keyElsewhere
  /\ phase \in DbUnderWay \cup {"dbAside", "undoKeyOut"} =>
       IF keyReplaced
         THEN Moved("key", PastKey) /\ PastParts = pendingParts \cup {"key"}
         ELSE keyFile = PastKey /\ pendingParts = PastParts
  /\ phase = "keyBack" /\ faults <= 1 /\ ~keyElsewhere =>
       Moved("key", PastKey) /\ pendingParts = PastParts
  /\ Refusing /\ KeyUndone => keyFile = PastKey /\ pendingParts = PastParts

\* where the database is
DbSwap ==
  /\ phase \in {"checking", "keyAside", "dbAside"} \cup KeyUnderWay =>
       dbFile = PastDb /\ AsideNow("db") = {}
  /\ phase \in DbUnderWay => dbFile = NoOwner /\ Moved("db", PastDb)
  /\ (phase \in {"undoKeyOut", "keyBack"} \/ Refusing) /\ faults <= 1 => dbFile = PastDb

\* where its -wal is
WalSwap ==
  /\ phase \in {"checking", "keyAside", "dbAside", "walAside"} \cup KeyUnderWay =>
       wal = PastWal /\ AsideNow("wal") = {}
  /\ phase = "dbPlace" => wal = NoOwner /\ Moved("wal", PastWal)
  /\ phase = "undoWal" =>
       \/ wal = PastWal /\ AsideNow("wal") = {}
       \/ wal = NoOwner /\ Moved("wal", PastWal)
  /\ phase = "undoDb" /\ faults <= 1 => wal = PastWal /\ AsideNow("wal") = {}
  /\ (phase \in {"undoKeyOut", "keyBack"} \/ Refusing) /\ faults <= 1 => wal = PastWal

\* a -wal is that of the database it lies beside, or of the one moved aside before it
WalOfItsDb ==
  faults <= 1 /\ ~splitAside =>
    /\ phase \notin DbUnderWay => wal \in {NoOwner, dbFile}
    /\ PastWal \in {NoOwner, PastDb}

\* the next boot would find the restore complete enough to apply it
Live == pendingOf # NoOwner /\ {"manifest", "db"} \subseteq pendingParts

\* and the database it places would find its key, already in place or still to come
KeyReady(k, parts) == "key" \in parts \/ pendingOf \notin WithKey \/ k = pendingOf

\* Key and database match, or the swap that will make them match is still to be finished
PairKept ==
  Withstood /\ ~cutCancel =>
    /\ Serving => Reads(dbFile, keyFile)
                  /\ (Live /\ cancelling # pendingOf => KeyReady(keyFile, pendingParts))
    /\ phase \in {"down", "checking"} =>
         /\ Live => KeyReady(keyFile, pendingParts)
         /\ ~Live \/ crashes = 0 => Reads(dbFile, keyFile)
    /\ phase \in {"dbAside", "walAside", "dbPlace"} =>
         pendingOf \notin WithKey \/ keyFile = pendingOf
    /\ phase \in {"art", "clearing"} => Reads(dbFile, keyFile) /\ "db" \notin pendingParts
    /\ phase = "opening" => Reads(dbFile, keyFile)
                            /\ (Live => KeyReady(keyFile, pendingParts))
    /\ crashes = 0 => Reads(PastDb, PastKey)
    /\ phase \in Swapping \cup Undoing /\ crashes = 0 => KeyReady(PastKey, PastParts)

\* without a crash a boot finds a key file
KeyThere ==
  crashes = 0 =>
    /\ phase \in {"up", "down", "checking"} => keyFile # NoOwner
    /\ PastKey # NoOwner

\* an upload is staged with its archive written
HatchKept ==
  \A u \in Uploads :
    upload[u] \in {"saved", "renaming", "staged"} => <<"pre", u>> \in archives \cup deleted

\* the number of a backup to the folder is taken when it starts
BackupNumbered == folder = "writing" => runs > 0

RestoreInv ==
  /\ RestoreTypeOK /\ FilesOnDisk /\ BootProgress
  /\ KeySwap /\ DbSwap /\ WalSwap
  /\ WalOfItsDb /\ PairKept /\ KeyThere
  /\ PreviousDbSurvives /\ HatchKept /\ BackupNumbered

------------------------------------------------------------------------------
(* Data *)

LEMMA OwnersDiffer ==
  /\ Own # Fresh /\ Torn \notin {Own, Fresh} /\ NoOwner \notin {Own, Fresh, Torn}
  /\ \A u \in Uploads : u \notin {NoOwner, Own, Fresh, Torn}
  /\ WithKey \subseteq Uploads
  BY RestoreAssumptions

LEMMA TypedState ==
  ASSUME RestoreTypeOK, FilesOnDisk
  PROVE  /\ {boots, crashes, faults} \subseteq Nat
         /\ pendingOf \in Uploads \cup {NoOwner} /\ pendingParts \subseteq Parts
         /\ pendingOf = NoOwner => pendingParts = {}
         /\ {dbFile, wal, keyFile} \subseteq Owned
         /\ before = <<PastDb, PastWal, PastKey, PastParts>>
         /\ {PastDb, PastWal, PastKey} \subseteq Owned /\ PastParts \subseteq Parts
         /\ \A a \in aside : a = [kind |-> a.kind, of |-> a.of, stamp |-> a.stamp]
  BY DEF RestoreTypeOK, FilesOnDisk, Owned, PastDb, PastWal, PastKey, PastParts

\* A file that comes back from under its .pre-restore name is the one this boot moved there.
LEMMA TakenBack ==
  ASSUME NEW kind, NEW owner, NEW a \in AsideNow(kind), Moved(kind, owner),
         aside' = aside \ {a}, UNCHANGED boots
  PROVE  /\ a.of = owner /\ owner # NoOwner
         /\ a = [kind |-> kind, of |-> owner, stamp |-> Stamp]
         /\ AsideNow(kind)' = {}
         /\ \A other : other # kind => AsideNow(other)' = AsideNow(other)
  BY DEF AsideNow, Moved, Stamp

\* Nothing was moved aside under the stamp of a boot that only begins.
LEMMA NothingAsideYet ==
  ASSUME RestoreTypeOK, FilesOnDisk, BootStart, NEW kind
  PROVE  AsideNow(kind)' = {}
  BY TypedState DEF FilesOnDisk, BootStart, AsideNow, Stamp, diskVars

------------------------------------------------------------------------------
(* The requests, and the end of the process *)

Requests ==
  CancelStaged \/ FolderRun \/ (\E u \in Uploads : UploadStep(u))
    \/ (\E a \in archives : DeleteArchive(a))

\* Requests are answered while the application serves, and touch the pending directory at most.
LEMMA RequestsApart ==
  ASSUME Requests
  PROVE  /\ phase = "up"
         /\ UNCHANGED <<dbFile, wal, keyFile, aside, bootVars, boots, crashes, splitAside,
                        keyElsewhere, budget>>
         /\ \/ UNCHANGED <<faults, cutCancel>>
            \/ faults' = faults + 1 /\ cutCancel'
  <1>1. CASE CancelStaged
    BY <1>1
    DEF CancelStaged, CancelStart, CancelEntry, CancelEnd, Serving, CallFails, still, diskVars,
        bootVars, faultVars, requestVars
  <1>2. CASE FolderRun
    BY <1>2 DEF FolderRun, FolderStart, FolderWritten, Prune, Serving, still, diskVars, faultVars
  <1>3. ASSUME NEW u \in Uploads, UploadStep(u)
        PROVE  /\ phase = "up"
               /\ UNCHANGED <<dbFile, wal, keyFile, aside, bootVars, faultVars, boots>>
    BY <1>3
    DEF UploadStep, UploadStart, Unpack, SaveCurrent, Saved, Recheck, Stage, Serving, still,
        diskVars
  <1>4. ASSUME NEW a \in archives, DeleteArchive(a)
        PROVE  phase = "up" /\ UNCHANGED still
    BY <1>4 DEF DeleteArchive, Serving
  <1>5. QED
    BY <1>1, <1>2, <1>3, <1>4 DEF Requests, still, diskVars, faultVars

Ends == Shutdown \/ Die

LEMMA EndKeepsDisk ==
  ASSUME Ends
  PROVE  /\ phase' = "down"
         /\ UNCHANGED <<diskVars, boots, faults, keyElsewhere, budget, keyReplaced, outcome,
                        before, placed>>
         /\ (phase = "up" /\ UNCHANGED crashes) \/ crashes' = crashes + 1
         /\ ~cutCancel' => ~cutCancel /\ cancelling = NoOwner
         /\ ~splitAside' => ~splitAside /\ (phase = "up" \/ dbFile # NoOwner \/ wal = NoOwner)
  <1>1. CASE Shutdown
    BY <1>1, Zenon DEF Shutdown, ForgetRequests, Serving, faultVars
  <1>2. CASE Die
    <2>1. /\ cutCancel' = (cutCancel \/ cancelling # NoOwner)
          /\ splitAside' = (splitAside \/ (dbFile = NoOwner /\ wal # NoOwner))
      BY <1>2 DEF Die
    <2>2. /\ ~cutCancel' => ~cutCancel /\ cancelling = NoOwner
          /\ ~splitAside' => ~splitAside /\ (dbFile # NoOwner \/ wal = NoOwner)
      BY <2>1, Zenon
    <2>3. QED
      BY <1>2, <2>2, Zenon DEF Die, ForgetRequests
  <1>3. QED
    BY <1>1, <1>2 DEF Ends

------------------------------------------------------------------------------
(* One swap of a boot, phase by phase *)

\* The key is where the boot's progress says, and back in its place when the boot gives up.
LEMMA KeySwapKept ==
  ASSUME RestoreInv, [RestoreNext]_restoreVars
  PROVE  KeySwap'
  <1> USE DEF KeySwap, KeyUndone, Refusing, BootProgress, Moved, AsideNow, Stamp, CallFails,
              Swapping, Undoing, KeyUnderWay, DbUnderWay, PastDb, PastWal, PastKey, PastParts,
              quiet, diskVars
  <1>1. /\ RestoreTypeOK /\ BootProgress /\ KeySwap
        /\ boots \in Nat /\ faults \in Nat
    BY TypedState DEF RestoreInv
  <1>2. CASE BootStart
    BY <1>2, NothingAsideYet, TypedState DEF RestoreInv, BootStart, Disk
  <1>3. CASE CheckStaged
    BY <1>1, <1>3 DEF CheckStaged
  <1>4. CASE KeyAside
    BY <1>1, <1>4 DEF KeyAside
  <1>5. CASE KeyPlace
    BY <1>1, <1>5 DEF KeyPlace
  <1>6. CASE KeyCopy
    BY <1>1, <1>6 DEF KeyCopy
  <1>7. CASE KeyUnlink
    BY <1>1, <1>7 DEF KeyUnlink
  <1>8. CASE KeyBack
    <2>1. CASE AsideNow("key") # {} /\ CallFails
      BY <1>1, <1>8, <2>1 DEF KeyBack, CallFails
    <2>2. CASE AsideNow("key") = {} /\ UNCHANGED <<keyFile, aside, faults>>
      <3>1. SUFFICES ASSUME KeyUndone
                     PROVE  FALSE
        BY <1>8, <2>2 DEF KeyBack
      <3>2. Moved("key", PastKey) /\ PastKey # NoOwner
        BY <1>1, <1>8, <3>1 DEF KeyBack
      <3> HIDE DEF AsideNow
      <3>3. QED
        BY <2>2, <3>2
    <2>3. ASSUME NEW a \in AsideNow("key"), keyFile' = a.of, aside' = aside \ {a},
                 UNCHANGED faults
          PROVE  KeySwap'
      <3>1. SUFFICES ASSUME KeyUndone
                     PROVE  keyFile' = PastKey /\ pendingParts = PastParts
        BY <1>8, <2>3 DEF KeyBack
      <3>2. Moved("key", PastKey) /\ pendingParts = PastParts
        BY <1>1, <1>8, <3>1 DEF KeyBack
      <3>3. a.of = PastKey
        BY <1>8, <2>3, <3>2, TakenBack DEF KeyBack
      <3>4. QED
        BY <2>3, <3>2, <3>3
    <2>4. QED
      BY <1>8, <2>1, <2>2, <2>3 DEF KeyBack
  <1>9. CASE DbAside
    BY <1>1, <1>9 DEF DbAside
  <1>10. CASE WalAside
    BY <1>1, <1>10 DEF WalAside
  <1>11. CASE DbPlace
    BY <1>1, <1>11 DEF DbPlace
  <1>12. CASE UndoWal
    BY <1>1, <1>12 DEF UndoWal
  <1>13. CASE UndoDb
    BY <1>1, <1>13 DEF UndoDb
  <1>14. CASE UndoKeyOut
    <2>1. CASE ~keyReplaced
      BY <1>1, <1>14, <2>1 DEF UndoKeyOut
    <2>2. CASE keyReplaced /\ ~keyElsewhere /\ pendingParts' = pendingParts \cup {"key"}
      BY <1>1, <1>14, <2>2 DEF UndoKeyOut
    <2>3. CASE keyElsewhere \/ CallFails
      BY <1>1, <1>14, <2>3 DEF UndoKeyOut, CallFails
    <2>4. QED
      BY <1>14, <2>1, <2>2, <2>3 DEF UndoKeyOut
  <1>15. CASE Artwork
    BY <1>1, <1>15 DEF Artwork
  <1>16. CASE ClearPending
    BY <1>1, <1>16 DEF ClearPending
  <1>17. CASE OpenPool
    BY <1>1, <1>17 DEF OpenPool
  <1>18. CASE Requests
    BY <1>1, <1>18, RequestsApart DEF bootVars
  <1>19. CASE Ends
    BY <1>1, <1>19, EndKeepsDisk
  <1>20. CASE UNCHANGED restoreVars
    BY <1>1, <1>20, OwnersDiffer DEF restoreVars, bootVars, requestVars, faultVars
  <1>21. QED
    BY <1>2, <1>3, <1>4, <1>5, <1>6, <1>7, <1>8, <1>9, <1>10, <1>11, <1>12, <1>13, <1>14,
       <1>15, <1>16, <1>17, <1>18, <1>19, <1>20
    DEF RestoreNext, Boot, Requests, Ends

\* So is the database.
LEMMA DbSwapKept ==
  ASSUME RestoreInv, [RestoreNext]_restoreVars
  PROVE  DbSwap'
  <1> USE DEF DbSwap, Refusing, BootProgress, Moved, AsideNow, Stamp, CallFails, Swapping,
              Undoing, KeyUnderWay, DbUnderWay, PastDb, PastWal, PastKey, PastParts, quiet,
              diskVars
  <1>1. /\ RestoreTypeOK /\ FilesOnDisk /\ BootProgress /\ DbSwap
        /\ boots \in Nat /\ faults \in Nat
    BY TypedState DEF RestoreInv
  <1>2. CASE BootStart
    BY <1>2, NothingAsideYet, TypedState DEF RestoreInv, BootStart, Disk
  <1>3. CASE CheckStaged
    BY <1>1, <1>3 DEF CheckStaged
  <1>4. CASE KeyAside
    BY <1>1, <1>4 DEF KeyAside
  <1>5. CASE KeyPlace
    BY <1>1, <1>5 DEF KeyPlace
  <1>6. CASE KeyCopy
    BY <1>1, <1>6 DEF KeyCopy
  <1>7. CASE KeyUnlink
    BY <1>1, <1>7 DEF KeyUnlink
  <1>8. CASE KeyBack
    BY <1>1, <1>8 DEF KeyBack
  <1>9. CASE DbAside
    BY <1>1, <1>9 DEF DbAside
  <1>10. CASE WalAside
    BY <1>1, <1>10 DEF WalAside
  <1>11. CASE DbPlace
    BY <1>1, <1>11 DEF DbPlace
  <1>12. CASE UndoWal
    BY <1>1, <1>12 DEF UndoWal
  <1>13. CASE UndoDb
    <2>1. CASE AsideNow("db") # {} /\ CallFails
      BY <1>1, <1>13, <2>1 DEF UndoDb
    <2>2. CASE AsideNow("db") = {} /\ UNCHANGED <<dbFile, aside, faults>>
      <3>1. PastDb = NoOwner
        <4> HIDE DEF AsideNow
        <4>1. QED
          BY <1>1, <1>13, <2>2 DEF UndoDb
      <3>2. QED
        BY <1>1, <1>13, <2>2, <3>1 DEF UndoDb
    <2>3. ASSUME NEW a \in AsideNow("db"), dbFile' = a.of, aside' = aside \ {a}
          PROVE  DbSwap'
      <3>1. Moved("db", PastDb)
        BY <1>1, <1>13 DEF UndoDb
      <3>2. a.of = PastDb
        BY <1>13, <2>3, <3>1, TakenBack DEF UndoDb
      <3>3. QED
        BY <1>1, <1>13, <2>3, <3>2 DEF UndoDb
    <2>4. QED
      BY <1>13, <2>1, <2>2, <2>3 DEF UndoDb
  <1>14. CASE UndoKeyOut
    BY <1>1, <1>14 DEF UndoKeyOut
  <1>15. CASE Artwork
    BY <1>1, <1>15 DEF Artwork
  <1>16. CASE ClearPending
    BY <1>1, <1>16 DEF ClearPending
  <1>17. CASE OpenPool
    BY <1>1, <1>17 DEF OpenPool
  <1>18. CASE Requests
    BY <1>1, <1>18, RequestsApart DEF bootVars
  <1>19. CASE Ends
    BY <1>1, <1>19, EndKeepsDisk
  <1>20. CASE UNCHANGED restoreVars
    BY <1>1, <1>20, OwnersDiffer DEF restoreVars, bootVars, requestVars, faultVars
  <1>21. QED
    BY <1>2, <1>3, <1>4, <1>5, <1>6, <1>7, <1>8, <1>9, <1>10, <1>11, <1>12, <1>13, <1>14,
       <1>15, <1>16, <1>17, <1>18, <1>19, <1>20
    DEF RestoreNext, Boot, Requests, Ends

\* And its -wal.
LEMMA WalSwapKept ==
  ASSUME RestoreInv, [RestoreNext]_restoreVars
  PROVE  WalSwap'
  <1> USE DEF WalSwap, Refusing, BootProgress, Moved, AsideNow, Stamp, CallFails, Swapping,
              Undoing, KeyUnderWay, DbUnderWay, PastDb, PastWal, PastKey, PastParts, quiet,
              diskVars
  <1>1. /\ RestoreTypeOK /\ FilesOnDisk /\ BootProgress /\ WalSwap
        /\ boots \in Nat /\ faults \in Nat
    BY TypedState DEF RestoreInv
  <1>2. CASE BootStart
    BY <1>2, NothingAsideYet, TypedState DEF RestoreInv, BootStart, Disk
  <1>3. CASE CheckStaged
    BY <1>1, <1>3 DEF CheckStaged
  <1>4. CASE KeyAside
    BY <1>1, <1>4 DEF KeyAside
  <1>5. CASE KeyPlace
    BY <1>1, <1>5 DEF KeyPlace
  <1>6. CASE KeyCopy
    BY <1>1, <1>6 DEF KeyCopy
  <1>7. CASE KeyUnlink
    BY <1>1, <1>7 DEF KeyUnlink
  <1>8. CASE KeyBack
    BY <1>1, <1>8 DEF KeyBack
  <1>9. CASE DbAside
    BY <1>1, <1>9 DEF DbAside
  <1>10. CASE WalAside
    BY <1>1, <1>10 DEF WalAside
  <1>11. CASE DbPlace
    BY <1>1, <1>11 DEF DbPlace
  <1>12. CASE UndoWal
    <2>1. CASE AsideNow("wal") # {} /\ CallFails
      BY <1>1, <1>12, <2>1 DEF UndoWal
    <2>2. CASE AsideNow("wal") = {} /\ UNCHANGED <<wal, aside, faults>>
      <3>1. wal = PastWal
        <4> HIDE DEF AsideNow
        <4>1. QED
          BY <1>1, <1>12, <2>2 DEF UndoWal
      <3>2. QED
        BY <1>1, <1>12, <2>2, <3>1 DEF UndoWal
    <2>3. ASSUME NEW a \in AsideNow("wal"), wal' = a.of, aside' = aside \ {a}
          PROVE  WalSwap'
      <3>1. Moved("wal", PastWal)
        BY <1>1, <1>12, <2>3 DEF UndoWal
      <3>2. a.of = PastWal /\ AsideNow("wal")' = {}
        BY <1>12, <2>3, <3>1, TakenBack DEF UndoWal
      <3>3. QED
        BY <1>1, <1>12, <2>3, <3>2 DEF UndoWal
    <2>4. QED
      BY <1>12, <2>1, <2>2, <2>3 DEF UndoWal
  <1>13. CASE UndoDb
    BY <1>1, <1>13 DEF UndoDb
  <1>14. CASE UndoKeyOut
    BY <1>1, <1>14 DEF UndoKeyOut
  <1>15. CASE Artwork
    BY <1>1, <1>15 DEF Artwork
  <1>16. CASE ClearPending
    BY <1>1, <1>16 DEF ClearPending
  <1>17. CASE OpenPool
    BY <1>1, <1>17 DEF OpenPool
  <1>18. CASE Requests
    BY <1>1, <1>18, RequestsApart DEF bootVars
  <1>19. CASE Ends
    BY <1>1, <1>19, EndKeepsDisk
  <1>20. CASE UNCHANGED restoreVars
    BY <1>1, <1>20, OwnersDiffer DEF restoreVars, bootVars, requestVars, faultVars
  <1>21. QED
    BY <1>2, <1>3, <1>4, <1>5, <1>6, <1>7, <1>8, <1>9, <1>10, <1>11, <1>12, <1>13, <1>14,
       <1>15, <1>16, <1>17, <1>18, <1>19, <1>20
    DEF RestoreNext, Boot, Requests, Ends

\* A -wal never comes beside another database, unless two calls failed or a crash split them.
LEMMA WalOfItsDbKept ==
  ASSUME RestoreInv, [RestoreNext]_restoreVars
  PROVE  WalOfItsDb'
  <1> USE DEF WalOfItsDb, DbSwap, WalSwap, BootProgress, Moved, CallFails, Swapping, Undoing,
              KeyUnderWay, DbUnderWay, PastDb, PastWal, PastKey, PastParts, quiet, diskVars
  <1>1. /\ RestoreTypeOK /\ FilesOnDisk /\ BootProgress /\ DbSwap /\ WalSwap /\ WalOfItsDb
        /\ boots \in Nat /\ faults \in Nat
    BY TypedState DEF RestoreInv
  <1>2. CASE BootStart
    BY <1>1, <1>2, TypedState DEF BootStart, Disk, faultVars
  <1>3. CASE CheckStaged
    BY <1>1, <1>3 DEF CheckStaged
  <1>4. CASE KeyAside
    BY <1>1, <1>4 DEF KeyAside
  <1>5. CASE KeyPlace
    BY <1>1, <1>5 DEF KeyPlace
  <1>6. CASE KeyCopy
    BY <1>1, <1>6 DEF KeyCopy
  <1>7. CASE KeyUnlink
    BY <1>1, <1>7 DEF KeyUnlink
  <1>8. CASE KeyBack
    BY <1>1, <1>8 DEF KeyBack
  <1>9. CASE DbAside
    BY <1>1, <1>9 DEF DbAside
  <1>10. CASE WalAside
    BY <1>1, <1>10 DEF WalAside
  <1>11. CASE DbPlace
    BY <1>1, <1>11 DEF DbPlace
  <1>12. CASE UndoWal
    BY <1>1, <1>12 DEF UndoWal
  <1>13. CASE UndoDb
    <2>1. CASE CallFails
      BY <1>1, <1>13, <2>1 DEF UndoDb
    <2>2. CASE AsideNow("db") = {} /\ UNCHANGED <<dbFile, faults>>
      <3>1. PastDb = NoOwner
        BY <1>1, <1>13, <2>2 DEF UndoDb
      <3>2. QED
        BY <1>1, <1>13, <2>2, <3>1 DEF UndoDb
    <2>3. ASSUME NEW a \in AsideNow("db"), dbFile' = a.of, aside' = aside \ {a}, UNCHANGED faults
          PROVE  WalOfItsDb'
      <3>1. a.of = PastDb
        BY <1>1, <1>13, <2>3, TakenBack DEF UndoDb
      <3>2. QED
        BY <1>1, <1>13, <2>3, <3>1 DEF UndoDb
    <2>4. QED
      BY <1>13, <2>1, <2>2, <2>3 DEF UndoDb
  <1>14. CASE UndoKeyOut
    BY <1>1, <1>14 DEF UndoKeyOut
  <1>15. CASE Artwork
    BY <1>1, <1>15 DEF Artwork
  <1>16. CASE ClearPending
    BY <1>1, <1>16 DEF ClearPending
  <1>17. CASE OpenPool
    BY <1>1, <1>17 DEF OpenPool
  <1>18. CASE Requests
    BY <1>1, <1>18, RequestsApart DEF bootVars
  <1>19. CASE Ends
    BY <1>1, <1>19, EndKeepsDisk
  <1>20. CASE UNCHANGED restoreVars
    BY <1>1, <1>20, OwnersDiffer DEF restoreVars, bootVars, requestVars, faultVars
  <1>21. QED
    BY <1>2, <1>3, <1>4, <1>5, <1>6, <1>7, <1>8, <1>9, <1>10, <1>11, <1>12, <1>13, <1>14,
       <1>15, <1>16, <1>17, <1>18, <1>19, <1>20
    DEF RestoreNext, Boot, Requests, Ends

------------------------------------------------------------------------------
(* Key and database *)

\* A boot finds a key where the one before it, or the installation, left one.
LEMMA KeyThereKept ==
  ASSUME RestoreInv, [RestoreNext]_restoreVars
  PROVE  KeyThere'
  <1> USE DEF KeyThere, KeySwap, BootProgress, Swapping, Undoing, KeyUnderWay, DbUnderWay,
              PastDb, PastWal, PastKey, PastParts, quiet, diskVars
  <1>1. /\ RestoreTypeOK /\ FilesOnDisk /\ BootProgress /\ KeySwap /\ KeyThere
        /\ crashes \in Nat /\ PastKey \in Owned
    BY TypedState DEF RestoreInv
  <1>2. CASE BootStart
    BY <1>1, <1>2, TypedState DEF BootStart, Disk, faultVars
  <1>3. CASE CheckStaged
    BY <1>1, <1>3 DEF CheckStaged
  <1>4. CASE KeyAside
    BY <1>1, <1>4 DEF KeyAside
  <1>5. CASE KeyPlace
    BY <1>1, <1>5 DEF KeyPlace
  <1>6. CASE KeyCopy
    BY <1>1, <1>6 DEF KeyCopy
  <1>7. CASE KeyUnlink
    BY <1>1, <1>7 DEF KeyUnlink
  <1>8. CASE KeyBack
    BY <1>1, <1>8 DEF KeyBack
  <1>9. CASE DbAside
    BY <1>1, <1>9 DEF DbAside
  <1>10. CASE WalAside
    BY <1>1, <1>10 DEF WalAside
  <1>11. CASE DbPlace
    BY <1>1, <1>11 DEF DbPlace
  <1>12. CASE UndoWal
    BY <1>1, <1>12 DEF UndoWal
  <1>13. CASE UndoDb
    BY <1>1, <1>13 DEF UndoDb
  <1>14. CASE UndoKeyOut
    BY <1>1, <1>14 DEF UndoKeyOut
  <1>15. CASE Artwork
    BY <1>1, <1>15 DEF Artwork
  <1>16. CASE ClearPending
    BY <1>1, <1>16 DEF ClearPending
  <1>17. CASE OpenPool
    BY <1>1, <1>17, OwnersDiffer DEF OpenPool, FilesOnDisk
  <1>18. CASE Requests
    BY <1>1, <1>18, RequestsApart DEF bootVars
  <1>19. CASE Ends
    BY <1>1, <1>19, EndKeepsDisk
  <1>20. CASE UNCHANGED restoreVars
    BY <1>1, <1>20, OwnersDiffer DEF restoreVars, bootVars, requestVars, faultVars
  <1>21. QED
    BY <1>2, <1>3, <1>4, <1>5, <1>6, <1>7, <1>8, <1>9, <1>10, <1>11, <1>12, <1>13, <1>14,
       <1>15, <1>16, <1>17, <1>18, <1>19, <1>20
    DEF RestoreNext, Boot, Requests, Ends

\* Key and database are swapped in two steps: whoever boots next finishes the swap, and who
\* cannot go on has undone it.
LEMMA PairKeptKept ==
  ASSUME RestoreInv, [RestoreNext]_restoreVars
  PROVE  PairKept'
  <1> USE DEF PairKept, KeySwap, DbSwap, KeyThere, BootProgress, KeyUndone, Reads, Live,
              KeyReady, Withstood, Serving, CallFails, Swapping, Undoing, KeyUnderWay,
              DbUnderWay, PastDb, PastWal, PastKey, PastParts, quiet, diskVars
  <1>1. /\ RestoreTypeOK /\ FilesOnDisk /\ BootProgress /\ KeySwap /\ DbSwap /\ PairKept
        /\ KeyThere /\ crashes \in Nat /\ faults \in Nat
        /\ pendingOf \in Uploads \cup {NoOwner}
    BY TypedState DEF RestoreInv
  <1>2. CASE BootStart
    BY <1>1, <1>2, TypedState DEF BootStart, Disk, faultVars
  <1>3. CASE CheckStaged
    BY <1>1, <1>3 DEF CheckStaged
  <1>4. CASE KeyAside
    BY <1>1, <1>4 DEF KeyAside
  <1>5. CASE KeyPlace
    BY <1>1, <1>5 DEF KeyPlace
  <1>6. CASE KeyCopy
    BY <1>1, <1>6 DEF KeyCopy
  <1>7. CASE KeyUnlink
    BY <1>1, <1>7 DEF KeyUnlink
  <1>8. CASE KeyBack
    <2>1. SUFFICES ASSUME Withstood', ~cutCancel
                   PROVE  /\ Reads(dbFile', keyFile')
                          /\ Live' => KeyReady(keyFile', pendingParts')
      BY <1>1, <1>8 DEF KeyBack
    <2>2. /\ faults = 1 /\ faults' = faults /\ crashes = 0 /\ ~keyElsewhere
          /\ PastKey # NoOwner
      BY <1>1, <1>8, <2>1 DEF KeyBack
    <2>3. /\ Moved("key", PastKey) /\ pendingParts = PastParts /\ dbFile = PastDb
      BY <1>1, <1>8, <2>2 DEF KeyBack
    <2>4. keyFile' = PastKey
      <3>1. AsideNow("key") # {}
        BY <2>2, <2>3 DEF Moved
      <3>2. PICK a \in AsideNow("key") : keyFile' = a.of /\ aside' = aside \ {a}
        BY <1>8, <2>2, <3>1 DEF KeyBack
      <3>3. QED
        BY <1>8, <2>3, <3>2, TakenBack DEF KeyBack
    <2>5. QED
      BY <1>1, <1>8, <2>1, <2>2, <2>3, <2>4 DEF KeyBack
  <1>9. CASE DbAside
    BY <1>1, <1>9 DEF DbAside
  <1>10. CASE WalAside
    BY <1>1, <1>10 DEF WalAside
  <1>11. CASE DbPlace
    <2>1. CASE dbFile' = pendingOf /\ pendingParts' = pendingParts \ {"db"} /\ phase' = "art"
               /\ UNCHANGED faults
      <3>1. pendingOf \in Uploads
        BY <1>1, <1>11 DEF DbPlace
      <3>2. QED
        BY <1>1, <1>11, <2>1, <3>1, OwnersDiffer DEF DbPlace
    <2>2. CASE CallFails /\ UNCHANGED <<dbFile, pendingParts>> /\ phase' = "undoWal"
      BY <1>1, <1>11, <2>2 DEF DbPlace
    <2>3. QED
      BY <1>11, <2>1, <2>2 DEF DbPlace
  <1>12. CASE UndoWal
    BY <1>1, <1>12 DEF UndoWal
  <1>13. CASE UndoDb
    BY <1>1, <1>13 DEF UndoDb
  <1>14. CASE UndoKeyOut
    BY <1>1, <1>14 DEF UndoKeyOut
  <1>15. CASE Artwork
    BY <1>1, <1>15 DEF Artwork
  <1>16. CASE ClearPending
    BY <1>1, <1>16 DEF ClearPending
  <1>17. CASE OpenPool
    BY <1>1, <1>17, OwnersDiffer DEF OpenPool, FilesOnDisk
  <1>18. CASE Requests
    <2>1. /\ phase = "up" /\ phase' = "up" /\ UNCHANGED <<dbFile, keyFile, crashes, keyElsewhere>>
          /\ PastDb' = PastDb /\ PastKey' = PastKey
          /\ UNCHANGED <<faults, cutCancel>> \/ cutCancel'
      BY <1>1, <1>18, RequestsApart DEF bootVars
    <2>2. SUFFICES ASSUME UNCHANGED faults, ~cutCancel
                   PROVE  Live' /\ cancelling' # pendingOf' =>
                            \/ KeyReady(keyFile, pendingParts)' 
                            \/ Live /\ cancelling # pendingOf /\ UNCHANGED <<pendingOf, pendingParts>>
      BY <1>1, <2>1
    <2>3. CASE CancelStaged
      BY <1>1, <2>2, <2>3 DEF CancelStaged, CancelStart, CancelEntry, CancelEnd, still, requestVars
    <2>4. CASE FolderRun \/ \E a \in archives : DeleteArchive(a)
      BY <2>4 DEF FolderRun, FolderStart, FolderWritten, Prune, DeleteArchive, still
    <2>5. ASSUME NEW u \in Uploads, UploadStep(u)
          PROVE  \/ UNCHANGED <<pendingOf, pendingParts, cancelling>>
                 \/ pendingOf' = u /\ pendingParts' = PartsOf(u)
      BY <2>5
      DEF UploadStep, UploadStart, Unpack, SaveCurrent, Saved, Recheck, Stage, still
    <2>6. QED
      BY <1>18, <2>2, <2>3, <2>4, <2>5 DEF Requests, PartsOf
  <1>19. CASE Ends
    <2>1. /\ phase' = "down" /\ PastDb' = PastDb /\ PastKey' = PastKey
          /\ UNCHANGED <<dbFile, keyFile, pendingOf, pendingParts, faults, keyElsewhere>>
          /\ ~cutCancel' => ~cutCancel /\ cancelling = NoOwner
      BY <1>19, EndKeepsDisk
    <2>0. ~keyElsewhere' => ~keyElsewhere
      BY <2>1, Zenon
    <2>2. CASE phase = "up" /\ UNCHANGED crashes
      BY <1>1, <2>0, <2>1, <2>2
    <2>3. CASE crashes' = crashes + 1
      <3>1. SUFFICES ASSUME faults = 0, ~cutCancel, cancelling = NoOwner
                     PROVE  /\ Live => KeyReady(keyFile, pendingParts)
                            /\ ~Live => Reads(dbFile, keyFile)
        BY <1>1, <2>1, <2>3
      <3>2. phase \in Phases /\ phase \notin Undoing
        BY <1>1, <3>1 DEF RestoreTypeOK
      <3>3. CASE phase \in Swapping
        BY <1>1, <3>1, <3>3
      <3>4. CASE phase \in {"art", "clearing", "opening", "up", "down", "checking"}
        BY <1>1, <3>1, <3>4
      <3>5. QED
        BY <3>2, <3>3, <3>4 DEF Phases
    <2>4. QED
      BY <1>19, <2>2, <2>3, EndKeepsDisk
  <1>20. CASE UNCHANGED restoreVars
    BY <1>1, <1>20, OwnersDiffer DEF restoreVars, bootVars, requestVars, faultVars
  <1>21. QED
    BY <1>2, <1>3, <1>4, <1>5, <1>6, <1>7, <1>8, <1>9, <1>10, <1>11, <1>12, <1>13, <1>14,
       <1>15, <1>16, <1>17, <1>18, <1>19, <1>20
    DEF RestoreNext, Boot, Requests, Ends

------------------------------------------------------------------------------
(* What is kept aside *)

\* Faults and broken-off swaps are only ever counted up; apart from the two steps named, none
\* adds a -wal to the files aside or takes a database from them.
LEMMA AsideSteps ==
  ASSUME RestoreInv, [RestoreNext]_restoreVars
  PROVE  /\ faults' <= 1 /\ ~splitAside' => faults <= 1 /\ ~splitAside
         /\ \/ WalAside \/ UndoDb
            \/ /\ \A w \in aside' : w.kind = "wal" => w \in aside
               /\ \A d \in aside : d.kind = "db" => d \in aside'
         /\ DbAside \/ DbPlace \/ UndoDb \/ OpenPool \/ UNCHANGED dbFile
  <1> USE DEF quiet, diskVars, CallFails, AsideNow
  <1>1. faults \in Nat
    BY TypedState DEF RestoreInv
  <1>2. CASE BootStart
    BY <1>1, <1>2 DEF BootStart, faultVars
  <1>3. CASE CheckStaged
    BY <1>1, <1>3 DEF CheckStaged
  <1>4. CASE KeyAside
    BY <1>1, <1>4 DEF KeyAside
  <1>5. CASE KeyPlace
    BY <1>1, <1>5 DEF KeyPlace
  <1>6. CASE KeyCopy
    BY <1>1, <1>6 DEF KeyCopy
  <1>7. CASE KeyUnlink
    BY <1>1, <1>7 DEF KeyUnlink
  <1>8. CASE KeyBack
    BY <1>1, <1>8 DEF KeyBack
  <1>9. CASE DbAside
    BY <1>1, <1>9 DEF DbAside
  <1>10. CASE WalAside
    BY <1>1, <1>10 DEF WalAside
  <1>11. CASE DbPlace
    BY <1>1, <1>11 DEF DbPlace
  <1>12. CASE UndoWal
    BY <1>1, <1>12 DEF UndoWal
  <1>13. CASE UndoDb
    BY <1>1, <1>13 DEF UndoDb
  <1>14. CASE UndoKeyOut
    BY <1>1, <1>14 DEF UndoKeyOut
  <1>15. CASE Artwork
    BY <1>1, <1>15 DEF Artwork
  <1>16. CASE ClearPending
    BY <1>1, <1>16 DEF ClearPending
  <1>17. CASE OpenPool
    BY <1>1, <1>17 DEF OpenPool
  <1>18. CASE Requests
    BY <1>1, <1>18, RequestsApart
  <1>19. CASE Ends
    BY <1>1, <1>19, EndKeepsDisk
  <1>20. CASE UNCHANGED restoreVars
    BY <1>1, <1>20 DEF restoreVars, faultVars
  <1>21. QED
    BY <1>2, <1>3, <1>4, <1>5, <1>6, <1>7, <1>8, <1>9, <1>10, <1>11, <1>12, <1>13, <1>14,
       <1>15, <1>16, <1>17, <1>18, <1>19, <1>20
    DEF RestoreNext, Boot, Requests, Ends

\* The previous database is never overwritten: what is placed is placed where nothing is.
LEMMA PreviousDbKept ==
  ASSUME RestoreInv, [RestoreNext]_restoreVars
  PROVE  PreviousDbIsSomewhere'
  <1>1. /\ PreviousDbIsSomewhere /\ DbSwap /\ Own # NoOwner
    BY OwnersDiffer DEF RestoreInv, PreviousDbSurvives
  <1>2. CASE DbAside
    <2>1. CASE UNCHANGED <<dbFile, aside>>
      BY <1>1, <2>1 DEF PreviousDbIsSomewhere
    <2>2. CASE aside' = aside \cup {[kind |-> "db", of |-> dbFile, stamp |-> Stamp]}
      <3> DEFINE kept == [kind |-> "db", of |-> dbFile, stamp |-> Stamp]
      <3>1. kept \in aside' /\ kept.kind = "db" /\ kept.of = dbFile
        BY <2>2
      <3>2. QED
        BY <1>1, <2>2, <3>1 DEF PreviousDbIsSomewhere
    <2>3. QED
      BY <1>2, <2>1, <2>2 DEF DbAside
  <1>3. CASE DbPlace
    BY <1>1, <1>3 DEF DbPlace, PreviousDbIsSomewhere, DbSwap, DbUnderWay
  <1>4. CASE UndoDb
    <2>1. dbFile = NoOwner
      BY <1>1, <1>4 DEF UndoDb, DbSwap, DbUnderWay
    <2>2. PICK d \in aside : d.kind = "db" /\ d.of = Own
      BY <1>1, <2>1 DEF PreviousDbIsSomewhere
    <2>3. \/ UNCHANGED aside
          \/ \E a \in aside : dbFile' = a.of /\ aside' = aside \ {a}
      BY <1>4 DEF UndoDb, AsideNow
    <2>4. QED
      BY <2>2, <2>3 DEF PreviousDbIsSomewhere
  <1>5. CASE OpenPool
    BY <1>1, <1>5 DEF OpenPool, PreviousDbIsSomewhere
  <1>6. CASE WalAside
    BY <1>1, <1>6 DEF WalAside, PreviousDbIsSomewhere
  <1>7. QED
    BY <1>1, <1>2, <1>3, <1>4, <1>5, <1>6, AsideSteps DEF PreviousDbIsSomewhere

\* A -wal is moved aside after its database and comes back before it.
LEMMA WalStaysKept ==
  ASSUME RestoreInv, [RestoreNext]_restoreVars
  PROVE  WalStaysWithItsDb'
  <1>1. /\ WalStaysWithItsDb /\ DbSwap /\ WalSwap /\ WalOfItsDb /\ BootProgress
        /\ faults \in Nat
    BY TypedState DEF RestoreInv, PreviousDbSurvives
  <1>2. SUFFICES ASSUME faults' <= 1, ~splitAside', NEW w \in aside', w.kind = "wal"
                 PROVE  [kind |-> "db", of |-> w.of, stamp |-> w.stamp] \in aside'
    BY DEF WalStaysWithItsDb
  <1>3. faults <= 1 /\ ~splitAside
    BY <1>2, AsideSteps
  <1>4. w \in aside => [kind |-> "db", of |-> w.of, stamp |-> w.stamp] \in aside
    BY <1>1, <1>2, <1>3 DEF WalStaysWithItsDb
  <1>5. CASE WalAside
    <2>1. aside \subseteq aside'
      BY <1>5 DEF WalAside
    <2>2. CASE w \in aside
      BY <1>4, <2>1, <2>2
    <2>3. CASE w \notin aside
      <3>1. wal # NoOwner /\ w = [kind |-> "wal", of |-> wal, stamp |-> Stamp]
        BY <1>2, <1>5, <2>3 DEF WalAside
      <3>2. wal = PastDb /\ PastDb # NoOwner /\ Moved("db", PastDb)
        BY <1>1, <1>3, <1>5, <3>1 DEF WalAside, WalSwap, WalOfItsDb, DbSwap, DbUnderWay
      <3>3. [kind |-> "db", of |-> wal, stamp |-> Stamp] \in aside
        BY <3>2 DEF Moved, AsideNow
      <3>4. QED
        BY <2>1, <3>1, <3>3
    <2>4. QED
      BY <2>2, <2>3
  <1>6. CASE UndoDb
    <2>1. w \in aside
      BY <1>2, <1>6 DEF UndoDb
    <2>2. CASE UNCHANGED aside
      BY <1>4, <2>1, <2>2
    <2>3. ASSUME NEW a \in AsideNow("db"), aside' = aside \ {a}
          PROVE  [kind |-> "db", of |-> w.of, stamp |-> w.stamp] \in aside'
      <3>1. AsideNow("wal") = {}
        BY <1>1, <1>3, <1>6 DEF UndoDb, WalSwap
      <3>2. w.stamp # Stamp /\ a.stamp = Stamp
        BY <1>2, <2>1, <2>3, <3>1 DEF AsideNow
      <3>3. [kind |-> "db", of |-> w.of, stamp |-> w.stamp].stamp # a.stamp
        BY <3>2
      <3>4. QED
        BY <1>4, <2>1, <2>3, <3>3
    <2>4. QED
      BY <1>6, <2>2, <2>3 DEF UndoDb
  <1>7. QED
    BY <1>2, <1>4, <1>5, <1>6, AsideSteps

\* An archive is written before the stage that needs it, and only its user removes it.
LEMMA HatchStays ==
  ASSUME RestoreInv, [RestoreNext]_restoreVars
  PROVE  HatchKept'
  <1>1. HatchKept /\ upload \in [Uploads -> Stages]
    BY DEF RestoreInv, RestoreTypeOK
  <1>2. ASSUME UNCHANGED upload, \A u \in Uploads : <<"pre", u>> \in archives \cup deleted =>
                                                   <<"pre", u>> \in archives' \cup deleted'
        PROVE  HatchKept'
    BY <1>1, <1>2 DEF HatchKept
  <1>3. CASE CancelStaged
    BY <1>2, <1>3 DEF CancelStaged, CancelStart, CancelEntry, CancelEnd, still, requestVars
  <1>4. CASE FolderStart \/ FolderWritten
    BY <1>2, <1>4 DEF FolderStart, FolderWritten
  <1>5. CASE Prune
    <2>1. PICK gone \in SUBSET BeyondNewest(Keep) : archives' = archives \ gone
      BY <1>5 DEF Prune
    <2>2. \A u \in Uploads : <<"pre", u>> \notin gone
      BY <2>1 DEF BeyondNewest, Scheduled
    <2>3. QED
      BY <1>2, <1>5, <2>1, <2>2 DEF Prune
  <1>6. ASSUME NEW a \in archives, DeleteArchive(a)
        PROVE  HatchKept'
    BY <1>2, <1>6 DEF DeleteArchive
  <1>7. ASSUME NEW u \in Uploads, UploadStep(u)
        PROVE  HatchKept'
    <2>1. archives \subseteq archives' /\ UNCHANGED deleted
      BY <1>7
      DEF UploadStep, UploadStart, Unpack, SaveCurrent, Saved, Recheck, Stage
    <2>2. \A v \in Uploads \ {u} : upload'[v] = upload[v]
      BY <1>1, <1>7
      DEF UploadStep, UploadStart, Unpack, SaveCurrent, Saved, Recheck, Stage
    <2>3. upload'[u] \in {"saved", "renaming", "staged"} =>
            upload[u] \in {"saved", "renaming"} \/ <<"pre", u>> \in archives'
      BY <1>1, <1>7
      DEF UploadStep, UploadStart, Unpack, SaveCurrent, Saved, Recheck, Stage
    <2>4. QED
      BY <1>1, <2>1, <2>2, <2>3 DEF HatchKept
  <1>8. CASE Ends
    <2>1. /\ upload' = [u \in Uploads |-> IF Busy(u) THEN "failed" ELSE upload[u]]
          /\ UNCHANGED <<archives, deleted>>
      BY <1>8 DEF Ends, Shutdown, Die, ForgetRequests
    <2>2. QED
      BY <1>1, <2>1 DEF HatchKept
  <1>9. CASE Boot \/ UNCHANGED restoreVars
    <2>1. UNCHANGED requestVars
      BY <1>9
      DEF Boot, BootStart, CheckStaged, KeyAside, KeyPlace, KeyCopy, KeyUnlink, KeyBack, DbAside,
          WalAside, DbPlace, UndoWal, UndoDb, UndoKeyOut, Artwork, ClearPending, OpenPool, quiet,
          restoreVars
    <2>2. QED
      BY <1>2, <2>1 DEF requestVars
  <1>10. QED
    BY <1>3, <1>4, <1>5, <1>6, <1>7, <1>8, <1>9 DEF RestoreNext, FolderRun, Ends

------------------------------------------------------------------------------
(* Types, and how far a boot is *)

\* A boot that swaps has a manifest and a database before it, and undoes only what failed.
LEMMA ProgressKept ==
  ASSUME RestoreInv, [RestoreNext]_restoreVars
  PROVE  BootProgress'
  <1> USE DEF BootProgress, KeySwap, CallFails, Swapping, Undoing, KeyUnderWay, DbUnderWay,
              PastDb, PastWal, PastKey, PastParts, quiet, diskVars
  <1>1. /\ RestoreTypeOK /\ FilesOnDisk /\ BootProgress /\ KeySwap
        /\ boots \in Nat /\ faults \in Nat
    BY TypedState DEF RestoreInv
  <1>2. CASE BootStart
    BY <1>1, <1>2 DEF BootStart
  <1>3. CASE CheckStaged
    BY <1>1, <1>3 DEF CheckStaged
  <1>4. CASE KeyAside
    BY <1>1, <1>4 DEF KeyAside
  <1>5. CASE KeyPlace
    BY <1>1, <1>5 DEF KeyPlace
  <1>6. CASE KeyCopy
    BY <1>1, <1>6 DEF KeyCopy
  <1>7. CASE KeyUnlink
    BY <1>1, <1>7 DEF KeyUnlink
  <1>8. CASE KeyBack
    BY <1>1, <1>8 DEF KeyBack
  <1>9. CASE DbAside
    BY <1>1, <1>9 DEF DbAside
  <1>10. CASE WalAside
    BY <1>1, <1>10 DEF WalAside
  <1>11. CASE DbPlace
    BY <1>1, <1>11 DEF DbPlace
  <1>12. CASE UndoWal
    BY <1>1, <1>12 DEF UndoWal
  <1>13. CASE UndoDb
    BY <1>1, <1>13 DEF UndoDb
  <1>14. CASE UndoKeyOut
    BY <1>1, <1>14 DEF UndoKeyOut
  <1>15. CASE Artwork
    BY <1>1, <1>15 DEF Artwork
  <1>16. CASE ClearPending
    BY <1>1, <1>16 DEF ClearPending
  <1>17. CASE OpenPool
    BY <1>1, <1>17 DEF OpenPool
  <1>18. CASE Requests
    BY <1>1, <1>18, RequestsApart DEF bootVars
  <1>19. CASE Ends
    BY <1>1, <1>19, EndKeepsDisk
  <1>20. CASE UNCHANGED restoreVars
    BY <1>1, <1>20, OwnersDiffer DEF restoreVars, bootVars, requestVars, faultVars
  <1>21. QED
    BY <1>2, <1>3, <1>4, <1>5, <1>6, <1>7, <1>8, <1>9, <1>10, <1>11, <1>12, <1>13, <1>14,
       <1>15, <1>16, <1>17, <1>18, <1>19, <1>20
    DEF RestoreNext, Boot, Requests, Ends

\* No file is aside under the stamp of a boot to come, and no database is half a copy.
LEMMA FilesKept ==
  ASSUME RestoreInv, [RestoreNext]_restoreVars
  PROVE  FilesOnDisk'
  <1> USE DEF FilesOnDisk, BootProgress, CallFails, Stamp, Swapping, Undoing, KeyUnderWay,
              DbUnderWay, PastDb, PastWal, PastKey, PastParts, quiet, diskVars
  <1>1. /\ RestoreTypeOK /\ FilesOnDisk /\ BootProgress /\ DbSwap
        /\ boots \in Nat /\ faults \in Nat /\ {dbFile, wal, keyFile} \subseteq Owned
        /\ pendingOf \in Uploads \cup {NoOwner} /\ pendingParts \subseteq Parts
    BY TypedState DEF RestoreInv
  <1>2. CASE BootStart
    <2>1. before' = <<dbFile, wal, keyFile, pendingParts>> /\ boots' = boots + 1
          /\ UNCHANGED <<dbFile, aside>>
      BY <1>2 DEF BootStart, Disk
    <2>2. before' \in Owned \X Owned \X Owned \X SUBSET Parts /\ before'[1] = dbFile
      BY <1>1, <2>1
    <2>3. \A a \in aside' : a.stamp <= boots'
      <3>1. \A a \in aside : a.stamp \in Nat
        BY <1>1 DEF RestoreTypeOK
      <3>2. QED
        BY <1>1, <2>1, <3>1
    <2>4. QED
      BY <1>1, <2>1, <2>2, <2>3
  <1>3. CASE CheckStaged
    BY <1>1, <1>3 DEF CheckStaged
  <1>4. CASE KeyAside
    BY <1>1, <1>4 DEF KeyAside
  <1>5. CASE KeyPlace
    BY <1>1, <1>5 DEF KeyPlace
  <1>6. CASE KeyCopy
    BY <1>1, <1>6 DEF KeyCopy
  <1>7. CASE KeyUnlink
    BY <1>1, <1>7 DEF KeyUnlink
  <1>8. CASE KeyBack
    <2>1. aside' \subseteq aside
      BY <1>8 DEF KeyBack
    <2>2. QED
      BY <1>1, <1>8, <2>1 DEF KeyBack
  <1>9. CASE DbAside
    BY <1>1, <1>9, OwnersDiffer DEF DbAside
  <1>10. CASE WalAside
    BY <1>1, <1>10 DEF WalAside
  <1>11. CASE DbPlace
    BY <1>1, <1>11, OwnersDiffer DEF DbPlace
  <1>12. CASE UndoWal
    <2>1. aside' \subseteq aside
      BY <1>12 DEF UndoWal
    <2>2. QED
      BY <1>1, <1>12, <2>1 DEF UndoWal
  <1>13. CASE UndoDb
    <2>1. aside' \subseteq aside
      BY <1>13 DEF UndoDb
    <2>2. dbFile' # Torn
      <3>1. CASE UNCHANGED dbFile
        BY <1>1, <3>1
      <3>2. ASSUME NEW a \in AsideNow("db"), dbFile' = a.of, aside' = aside \ {a}
            PROVE  dbFile' # Torn
        <4>1. Moved("db", PastDb)
          BY <1>1, <1>13 DEF UndoDb, DbSwap
        <4>2. QED
          BY <1>1, <1>13, <3>2, <4>1, TakenBack DEF UndoDb
      <3>3. QED
        BY <1>13, <3>1, <3>2 DEF UndoDb
    <2>3. QED
      BY <1>1, <1>13, <2>1, <2>2 DEF UndoDb
  <1>14. CASE UndoKeyOut
    BY <1>1, <1>14 DEF UndoKeyOut
  <1>15. CASE Artwork
    BY <1>1, <1>15 DEF Artwork
  <1>16. CASE ClearPending
    BY <1>1, <1>16 DEF ClearPending
  <1>17. CASE OpenPool
    BY <1>1, <1>17, OwnersDiffer DEF OpenPool
  <1>18. CASE Requests
    BY <1>1, <1>18, RequestsApart DEF bootVars
  <1>19. CASE Ends
    BY <1>1, <1>19, EndKeepsDisk
  <1>20. CASE UNCHANGED restoreVars
    BY <1>1, <1>20, OwnersDiffer DEF restoreVars, bootVars, requestVars, faultVars
  <1>21. QED
    BY <1>2, <1>3, <1>4, <1>5, <1>6, <1>7, <1>8, <1>9, <1>10, <1>11, <1>12, <1>13, <1>14,
       <1>15, <1>16, <1>17, <1>18, <1>19, <1>20
    DEF RestoreNext, Boot, Requests, Ends

LEMMA FilesTyped ==
  ASSUME RestoreInv, [RestoreNext]_restoreVars
  PROVE  /\ {dbFile', wal', keyFile'} \subseteq Owners \cup {NoOwner}
         /\ aside' \subseteq [kind : {"db", "wal", "key"}, of : Owners, stamp : 1..budget.boots]
  <1> USE DEF quiet, diskVars, AsideNow, Stamp
  <1>1. /\ {dbFile, wal, keyFile} \subseteq Owners \cup {NoOwner}
        /\ aside \subseteq [kind : {"db", "wal", "key"}, of : Owners, stamp : 1..budget.boots]
        /\ pendingOf \in Uploads \cup {NoOwner} /\ Uploads \cup {Fresh, Torn} \subseteq Owners
        /\ phase \notin {"down", "up"} => boots \in 1..budget.boots
    <2>1. budget.boots \in Nat
      BY RestoreAssumptions DEF RestoreInv, RestoreTypeOK, Budget
    <2>2. QED
      BY <2>1 DEF RestoreInv, RestoreTypeOK, BootProgress, Owners
  <1>2. CASE BootStart
    BY <1>1, <1>2 DEF BootStart, faultVars
  <1>3. CASE CheckStaged
    BY <1>1, <1>3 DEF CheckStaged
  <1>4. CASE KeyAside
    BY <1>1, <1>4 DEF KeyAside
  <1>5. CASE KeyPlace
    BY <1>1, <1>5 DEF KeyPlace
  <1>6. CASE KeyCopy
    BY <1>1, <1>6 DEF KeyCopy
  <1>7. CASE KeyUnlink
    BY <1>1, <1>7 DEF KeyUnlink
  <1>8. CASE KeyBack
    <2>1. \/ UNCHANGED <<keyFile, aside>>
          \/ \E a \in aside : keyFile' = a.of /\ aside' = aside \ {a}
      BY <1>8 DEF KeyBack
    <2>2. QED
      BY <1>1, <1>8, <2>1 DEF KeyBack
  <1>9. CASE DbAside
    BY <1>1, <1>9 DEF DbAside
  <1>10. CASE WalAside
    BY <1>1, <1>10 DEF WalAside
  <1>11. CASE DbPlace
    BY <1>1, <1>11 DEF DbPlace
  <1>12. CASE UndoWal
    <2>1. \/ UNCHANGED <<wal, aside>>
          \/ \E a \in aside : wal' = a.of /\ aside' = aside \ {a}
      BY <1>12 DEF UndoWal
    <2>2. QED
      BY <1>1, <1>12, <2>1 DEF UndoWal
  <1>13. CASE UndoDb
    <2>1. \/ UNCHANGED <<dbFile, aside>>
          \/ \E a \in aside : dbFile' = a.of /\ aside' = aside \ {a}
      BY <1>13 DEF UndoDb
    <2>2. QED
      BY <1>1, <1>13, <2>1 DEF UndoDb
  <1>14. CASE UndoKeyOut
    BY <1>1, <1>14 DEF UndoKeyOut
  <1>15. CASE Artwork
    BY <1>1, <1>15 DEF Artwork
  <1>16. CASE ClearPending
    BY <1>1, <1>16 DEF ClearPending
  <1>17. CASE OpenPool
    BY <1>1, <1>17 DEF OpenPool
  <1>18. CASE Requests
    BY <1>1, <1>18, RequestsApart
  <1>19. CASE Ends
    BY <1>1, <1>19, EndKeepsDisk
  <1>20. CASE UNCHANGED restoreVars
    BY <1>1, <1>20 DEF restoreVars, bootVars, faultVars
  <1>21. QED
    BY <1>2, <1>3, <1>4, <1>5, <1>6, <1>7, <1>8, <1>9, <1>10, <1>11, <1>12, <1>13, <1>14,
       <1>15, <1>16, <1>17, <1>18, <1>19, <1>20
    DEF RestoreNext, Boot, Requests, Ends

LEMMA BootTyped ==
  ASSUME RestoreInv, [RestoreNext]_restoreVars
  PROVE  /\ budget' \in Budgets /\ phase' \in Phases
         /\ outcome' \in {"none", "applied", "err"}
         /\ {boots', crashes', faults'} \subseteq Nat /\ boots' <= budget'.boots
         /\ placed' \subseteq Uploads
  <1> USE DEF quiet, diskVars, CallFails, Phases
  <1>1. /\ budget \in Budgets /\ phase \in Phases
        /\ outcome \in {"none", "applied", "err"}
        /\ {boots, crashes, faults} \subseteq Nat /\ boots <= budget.boots
        /\ placed \subseteq Uploads /\ pendingOf \in Uploads \cup {NoOwner}
        /\ phase = "dbPlace" => pendingOf # NoOwner
        /\ budget.boots \in Nat
    BY RestoreAssumptions
    DEF RestoreInv, RestoreTypeOK, BootProgress, Swapping, Undoing, Budget
  <1>2. CASE BootStart
    BY <1>1, <1>2 DEF BootStart, faultVars
  <1>3. CASE CheckStaged
    BY <1>1, <1>3 DEF CheckStaged
  <1>4. CASE KeyAside
    BY <1>1, <1>4 DEF KeyAside
  <1>5. CASE KeyPlace
    BY <1>1, <1>5 DEF KeyPlace
  <1>6. CASE KeyCopy
    BY <1>1, <1>6 DEF KeyCopy
  <1>7. CASE KeyUnlink
    BY <1>1, <1>7 DEF KeyUnlink
  <1>8. CASE KeyBack
    BY <1>1, <1>8 DEF KeyBack
  <1>9. CASE DbAside
    BY <1>1, <1>9 DEF DbAside
  <1>10. CASE WalAside
    BY <1>1, <1>10 DEF WalAside
  <1>11. CASE DbPlace
    BY <1>1, <1>11 DEF DbPlace
  <1>12. CASE UndoWal
    BY <1>1, <1>12 DEF UndoWal
  <1>13. CASE UndoDb
    BY <1>1, <1>13 DEF UndoDb
  <1>14. CASE UndoKeyOut
    BY <1>1, <1>14 DEF UndoKeyOut
  <1>15. CASE Artwork
    BY <1>1, <1>15 DEF Artwork
  <1>16. CASE ClearPending
    BY <1>1, <1>16 DEF ClearPending
  <1>17. CASE OpenPool
    BY <1>1, <1>17 DEF OpenPool
  <1>18. CASE Requests
    <2>1. UNCHANGED <<budget, phase, outcome, boots, crashes, placed>>
      BY <1>18, RequestsApart DEF bootVars
    <2>2. faults' \in Nat
      BY <1>1, <1>18, RequestsApart
    <2>3. QED
      BY <1>1, <2>1, <2>2
  <1>19. CASE Ends
    BY <1>1, <1>19, EndKeepsDisk
  <1>20. CASE UNCHANGED restoreVars
    BY <1>1, <1>20 DEF restoreVars, bootVars, faultVars
  <1>21. QED
    BY <1>2, <1>3, <1>4, <1>5, <1>6, <1>7, <1>8, <1>9, <1>10, <1>11, <1>12, <1>13, <1>14,
       <1>15, <1>16, <1>17, <1>18, <1>19, <1>20
    DEF RestoreNext, Boot, Requests, Ends

LEMMA FlagsTyped ==
  ASSUME RestoreInv, [RestoreNext]_restoreVars
  PROVE  {keyElsewhere', keyReplaced', cutCancel', splitAside'} \subseteq BOOLEAN
  <1> USE DEF quiet, diskVars, CallFails
  <1>1. /\ keyElsewhere \in BOOLEAN /\ keyReplaced \in BOOLEAN
        /\ cutCancel \in BOOLEAN /\ splitAside \in BOOLEAN
    BY DEF RestoreInv, RestoreTypeOK
  <1>2. CASE BootStart
    BY <1>1, <1>2, Zenon DEF BootStart, faultVars
  <1>3. CASE CheckStaged
    BY <1>1, <1>3, Zenon DEF CheckStaged
  <1>4. CASE KeyAside
    BY <1>1, <1>4, Zenon DEF KeyAside
  <1>5. CASE KeyPlace
    BY <1>1, <1>5, Zenon DEF KeyPlace
  <1>6. CASE KeyCopy
    BY <1>1, <1>6, Zenon DEF KeyCopy
  <1>7. CASE KeyUnlink
    BY <1>1, <1>7, Zenon DEF KeyUnlink
  <1>8. CASE KeyBack
    BY <1>1, <1>8, Zenon DEF KeyBack
  <1>9. CASE DbAside
    BY <1>1, <1>9, Zenon DEF DbAside
  <1>10. CASE WalAside
    BY <1>1, <1>10, Zenon DEF WalAside
  <1>11. CASE DbPlace
    BY <1>1, <1>11, Zenon DEF DbPlace
  <1>12. CASE UndoWal
    BY <1>1, <1>12, Zenon DEF UndoWal
  <1>13. CASE UndoDb
    BY <1>1, <1>13, Zenon DEF UndoDb
  <1>14. CASE UndoKeyOut
    BY <1>1, <1>14, Zenon DEF UndoKeyOut
  <1>15. CASE Artwork
    BY <1>1, <1>15, Zenon DEF Artwork
  <1>16. CASE ClearPending
    BY <1>1, <1>16, Zenon DEF ClearPending
  <1>17. CASE OpenPool
    BY <1>1, <1>17, Zenon DEF OpenPool
  <1>18. CASE Requests
    <2>1. UNCHANGED <<keyElsewhere, keyReplaced, splitAside>>
      BY <1>18, RequestsApart DEF bootVars
    <2>2. UNCHANGED cutCancel \/ cutCancel' = TRUE
      <3>1. CASE CancelStaged
        BY <3>1, Zenon
        DEF CancelStaged, CancelStart, CancelEntry, CancelEnd, still, faultVars
      <3>2. CASE FolderRun \/ \E a \in archives : DeleteArchive(a)
        BY <3>2, Zenon
        DEF FolderRun, FolderStart, FolderWritten, Prune, DeleteArchive, still, faultVars
      <3>3. CASE \E u \in Uploads : UploadStep(u)
        BY <3>3, Zenon
        DEF UploadStep, UploadStart, Unpack, SaveCurrent, Saved, Recheck, Stage, still, faultVars
      <3>4. QED
        BY <1>18, <3>1, <3>2, <3>3, Zenon DEF Requests
    <2>3. QED
      BY <1>1, <2>1, <2>2, Zenon
  <1>19. CASE Ends
    <2>1. CASE Shutdown
      BY <1>1, <2>1, Zenon DEF Shutdown, faultVars
    <2>2. CASE Die
      <3>1. /\ UNCHANGED <<keyElsewhere, keyReplaced>>
            /\ cutCancel' = (cutCancel \/ cancelling # NoOwner)
            /\ splitAside' = (splitAside \/ (dbFile = NoOwner /\ wal # NoOwner))
        BY <2>2 DEF Die
      <3>2. cutCancel' \in BOOLEAN
        BY <3>1, Zenon
      <3>3. splitAside' \in BOOLEAN
        BY <3>1, Zenon
      <3>4. QED
        BY <1>1, <3>1, <3>2, <3>3, Zenon
    <2>3. QED
      BY <1>19, <2>1, <2>2 DEF Ends
  <1>20. CASE UNCHANGED restoreVars
    BY <1>1, <1>20, Zenon DEF restoreVars, bootVars, faultVars
  <1>21. QED
    BY <1>2, <1>3, <1>4, <1>5, <1>6, <1>7, <1>8, <1>9, <1>10, <1>11, <1>12, <1>13, <1>14,
       <1>15, <1>16, <1>17, <1>18, <1>19, <1>20
    DEF RestoreNext, Boot, Requests, Ends

LEMMA PendingTyped ==
  ASSUME RestoreInv, [RestoreNext]_restoreVars
  PROVE  /\ pendingOf' \in Uploads \cup {NoOwner} /\ pendingParts' \subseteq Parts
         /\ pendingOf' = NoOwner => pendingParts' = {}
  <1>1. /\ pendingOf \in Uploads \cup {NoOwner} /\ pendingParts \subseteq Parts
        /\ pendingOf = NoOwner => pendingParts = {}
        /\ phase = "undoKeyOut" => pendingOf # NoOwner
    BY DEF RestoreInv, RestoreTypeOK, BootProgress, Undoing
  <1>2. CASE Boot \/ UNCHANGED restoreVars
    <2>1. UNCHANGED pendingOf \/ (pendingParts = {} /\ pendingOf' = NoOwner)
      BY <1>2
      DEF Boot, BootStart, CheckStaged, KeyAside, KeyPlace, KeyCopy, KeyUnlink, KeyBack, DbAside,
          WalAside, DbPlace, UndoWal, UndoDb, UndoKeyOut, Artwork, ClearPending, OpenPool,
          restoreVars, diskVars
    <2>2. \/ pendingParts' \subseteq pendingParts
          \/ UndoKeyOut /\ UNCHANGED pendingOf /\ pendingParts' = pendingParts \cup {"key"}
      BY <1>2
      DEF Boot, BootStart, CheckStaged, KeyAside, KeyPlace, KeyCopy, KeyUnlink, KeyBack, DbAside,
          WalAside, DbPlace, UndoWal, UndoDb, UndoKeyOut, Artwork, ClearPending, OpenPool,
          restoreVars, diskVars
    <2>3. QED
      BY <1>1, <2>1, <2>2 DEF UndoKeyOut, Parts
  <1>3. CASE CancelStaged
    BY <1>1, <1>3 DEF CancelStaged, CancelStart, CancelEntry, CancelEnd, still, diskVars
  <1>4. CASE FolderRun \/ \E a \in archives : DeleteArchive(a)
    BY <1>1, <1>4 DEF FolderRun, FolderStart, FolderWritten, Prune, DeleteArchive, still, diskVars
  <1>5. ASSUME NEW u \in Uploads, UploadStep(u)
        PROVE  \/ UNCHANGED <<pendingOf, pendingParts>>
               \/ pendingOf' = u /\ pendingParts' = PartsOf(u)
    BY <1>5
    DEF UploadStep, UploadStart, Unpack, SaveCurrent, Saved, Recheck, Stage, still, diskVars
  <1>6. CASE Ends
    BY <1>1, <1>6, EndKeepsDisk DEF diskVars
  <1>7. QED
    BY <1>1, <1>2, <1>3, <1>4, <1>5, <1>6, OwnersDiffer DEF RestoreNext, Ends, PartsOf, Parts

\* what the requests of a user have come to
RequestsTyped ==
  /\ archives \subseteq Archives /\ deleted \subseteq Archives
  /\ upload \in [Uploads -> Stages]
  /\ lock \in Uploads \cup {"folder", NoOwner}
  /\ folder \in {"idle", "writing", "pruning"}
  /\ cancelling \in Uploads \cup {NoOwner}
  /\ {runs, cancels} \subseteq Nat /\ runs <= budget.runs
  /\ cancelled \subseteq Uploads
  /\ BackupNumbered

LEMMA RequestsTypedKept ==
  ASSUME RestoreInv, [RestoreNext]_restoreVars
  PROVE  RequestsTyped'
  <1> USE DEF BackupNumbered
  <1>1. /\ RequestsTyped /\ budget.runs \in Nat
        /\ pendingOf \in Uploads \cup {NoOwner}
    BY RestoreAssumptions DEF RestoreInv, RestoreTypeOK, RequestsTyped, BootProgress, Budget
  <1>2. ASSUME UNCHANGED <<requestVars, budget>>
        PROVE  RequestsTyped'
    BY <1>1, <1>2 DEF RequestsTyped, requestVars, Archives
  <1>3. CASE Boot \/ UNCHANGED restoreVars
    <2>1. UNCHANGED <<requestVars, budget>>
      BY <1>3
      DEF Boot, BootStart, CheckStaged, KeyAside, KeyPlace, KeyCopy, KeyUnlink, KeyBack, DbAside,
          WalAside, DbPlace, UndoWal, UndoDb, UndoKeyOut, Artwork, ClearPending, OpenPool, quiet,
          restoreVars, faultVars
    <2>2. QED
      BY <1>2, <2>1
  <1>4. CASE CancelStaged
    BY <1>1, <1>4, RequestsApart
    DEF CancelStaged, CancelStart, CancelEntry, CancelEnd, still, requestVars, RequestsTyped,
        faultVars, Archives, Requests
  <1>5. CASE FolderRun
    <2>1. UNCHANGED budget
      BY <1>5, RequestsApart DEF Requests
    <2>2. CASE FolderStart
      BY <1>1, <2>1, <2>2 DEF FolderStart, RequestsTyped, Archives
    <2>3. CASE FolderWritten
      <3>1. runs \in 1..budget.runs
        BY <1>1, <2>3 DEF FolderWritten, RequestsTyped
      <3>2. <<"scheduled", runs>> \in Archives
        BY <3>1 DEF Archives
      <3>3. QED
        BY <1>1, <2>1, <2>3, <3>2 DEF FolderWritten, RequestsTyped, Archives
    <2>4. CASE Prune
      BY <1>1, <2>1, <2>4 DEF Prune, RequestsTyped, Archives
    <2>5. QED
      BY <1>5, <2>2, <2>3, <2>4 DEF FolderRun
  <1>6. ASSUME NEW a \in archives, DeleteArchive(a)
        PROVE  RequestsTyped'
    BY <1>1, <1>6 DEF DeleteArchive, RequestsTyped, Archives, still, faultVars
  <1>7. ASSUME NEW u \in Uploads, UploadStep(u)
        PROVE  RequestsTyped'
    <2>1. UNCHANGED <<budget, deleted, folder, cancelling, runs, cancels, cancelled>>
      BY <1>7
      DEF UploadStep, UploadStart, Unpack, SaveCurrent, Saved, Recheck, Stage, still, faultVars
    <2>2. archives' \in {archives, archives \cup {<<"pre", u>>}} /\ lock' \in {lock, u, NoOwner}
      BY <1>7
      DEF UploadStep, UploadStart, Unpack, SaveCurrent, Saved, Recheck, Stage
    <2>3. \E stage \in Stages : upload' = [upload EXCEPT ![u] = stage]
      BY <1>7
      DEF UploadStep, UploadStart, Unpack, SaveCurrent, Saved, Recheck, Stage, Stages
    <2>4. <<"pre", u>> \in Archives
      BY DEF Archives
    <2>5. QED
      BY <1>1, <2>1, <2>2, <2>3, <2>4 DEF RequestsTyped, Archives
  <1>8. CASE Ends
    <2>1. /\ upload' = [u \in Uploads |-> IF Busy(u) THEN "failed" ELSE upload[u]]
          /\ lock' = NoOwner /\ folder' = "idle" /\ cancelling' = NoOwner
          /\ UNCHANGED <<archives, runs, cancels, cancelled, deleted, budget>>
      BY <1>8, EndKeepsDisk DEF Ends, Shutdown, Die, ForgetRequests
    <2>2. QED
      BY <1>1, <2>1 DEF RequestsTyped, Archives, Stages
  <1>9. QED
    BY <1>3, <1>4, <1>5, <1>6, <1>7, <1>8 DEF RestoreNext, Ends

LEMMA TypesKept ==
  ASSUME RestoreInv, [RestoreNext]_restoreVars
  PROVE  RestoreTypeOK'
  <1>1. RequestsTyped'
    BY RequestsTypedKept
  <1>2. UNCHANGED budget
    BY RequestsApart, EndKeepsDisk
    DEF RestoreNext, Boot, BootStart, CheckStaged, KeyAside, KeyPlace, KeyCopy, KeyUnlink, KeyBack,
        DbAside, WalAside, DbPlace, UndoWal, UndoDb, UndoKeyOut, Artwork, ClearPending, OpenPool,
        quiet, restoreVars, faultVars, Requests, Ends
  <1>3. QED
    BY <1>1, <1>2, FilesTyped, BootTyped, FlagsTyped, PendingTyped
    DEF RestoreTypeOK, RequestsTyped

------------------------------------------------------------------------------
(* The theorems *)

LEMMA RestoreBegins == RestoreInit => RestoreInv
  <1> SUFFICES ASSUME RestoreInit PROVE RestoreInv
    OBVIOUS
  <1> USE OwnersDiffer DEF RestoreInit
  <1>1. RestoreTypeOK
    <2>1. /\ budget.boots \in Nat /\ budget.runs \in Nat
          /\ keyElsewhere \in BOOLEAN /\ keyReplaced \in BOOLEAN
          /\ cutCancel \in BOOLEAN /\ splitAside \in BOOLEAN
      BY RestoreAssumptions DEF Budget
    <2>2. {dbFile, wal, keyFile} \subseteq Owners
      BY DEF Owners
    <2>3. phase \in Phases /\ upload \in [Uploads -> Stages]
      BY DEF Phases, Stages
    <2>4. QED
      BY <2>1, <2>2, <2>3 DEF RestoreTypeOK
  <1>2. /\ PastDb = Own /\ PastWal = Own /\ PastKey = Own /\ PastParts = {}
        /\ before \in Owned \X Owned \X Owned \X SUBSET Parts
    BY DEF Disk, PastDb, PastWal, PastKey, PastParts, Owned, Owners
  <1>3. FilesOnDisk /\ BootProgress /\ HatchKept /\ BackupNumbered
    BY <1>2 DEF FilesOnDisk, BootProgress, HatchKept, BackupNumbered, Swapping, Undoing, KeyUnderWay
  <1>4. KeySwap /\ DbSwap /\ WalSwap /\ WalOfItsDb
    BY <1>2
    DEF KeySwap, DbSwap, WalSwap, WalOfItsDb, Refusing, KeyUnderWay, DbUnderWay, Swapping, Undoing
  <1>5. PairKept /\ KeyThere
    BY <1>2 DEF PairKept, KeyThere, Reads, Live, Serving, Swapping, Undoing
  <1>6. PreviousDbSurvives
    BY DEF PreviousDbSurvives, PreviousDbIsSomewhere, WalStaysWithItsDb
  <1>7. QED
    BY <1>1, <1>3, <1>4, <1>5, <1>6 DEF RestoreInv

LEMMA RestoreStays == RestoreInv /\ [RestoreNext]_restoreVars => RestoreInv'
  <1> SUFFICES ASSUME RestoreInv, [RestoreNext]_restoreVars PROVE RestoreInv'
    OBVIOUS
  <1>1. RestoreTypeOK' /\ FilesOnDisk' /\ BootProgress' /\ BackupNumbered'
    BY TypesKept, FilesKept, ProgressKept, RequestsTypedKept DEF RequestsTyped
  <1>2. KeySwap' /\ DbSwap' /\ WalSwap' /\ WalOfItsDb'
    BY KeySwapKept, DbSwapKept, WalSwapKept, WalOfItsDbKept
  <1>3. PairKept' /\ KeyThere'
    BY PairKeptKept, KeyThereKept
  <1>4. PreviousDbSurvives' /\ HatchKept'
    BY PreviousDbKept, WalStaysKept, HatchStays DEF PreviousDbSurvives
  <1>5. QED
    BY <1>1, <1>2, <1>3, <1>4 DEF RestoreInv

LEMMA RestoreAlways == RestoreSpec => []RestoreInv
  BY RestoreBegins, RestoreStays, PTL DEF RestoreSpec

\* What the boots, the requests and the disk are made of, whatever fails: no step leaves a file
\* with an owner nobody is, or an upload in a stage of its own.
THEOREM RestoreTyped == RestoreSpec => []RestoreTypeOK
  <1>1. RestoreInv => RestoreTypeOK
    BY DEF RestoreInv
  <1>2. QED
    BY <1>1, RestoreAlways, PTL

\* A boot swaps key and database together or, told by its Err, neither, for any number of
\* crashes or for one failing call on an installation that never crashed.
THEOREM RestoreAllOrNothing == RestoreSpec => []BootIsAllOrNothing
  <1>1. ASSUME RestoreInv
        PROVE  BootIsAllOrNothing
    <2>1. PairMatches
      BY <1>1 DEF RestoreInv, PairKept, PairMatches
    <2>2. SUFFICES ASSUME Withstood, Refusing
                   PROVE  Disk = before
      BY <2>1 DEF BootIsAllOrNothing, RefusedBootChangesNothing, ErrMeansNothingChanged, Refusing
    <2>3. KeyUndone /\ faults <= 1
      BY <1>1, <2>2 DEF RestoreInv, KeyThere, KeyUndone, Withstood
    <2>4. keyFile = PastKey /\ pendingParts = PastParts /\ dbFile = PastDb /\ wal = PastWal
      BY <1>1, <2>2, <2>3 DEF RestoreInv, KeySwap, DbSwap, WalSwap
    <2>5. before = <<PastDb, PastWal, PastKey, PastParts>>
      BY <1>1, TypedState DEF RestoreInv
    <2>6. QED
      BY <2>4, <2>5 DEF Disk
  <1>2. QED
    BY <1>1, RestoreAlways, PTL

\* What a restore replaced can be had back: the database that was live, with its last commits,
\* and the archive that was written before the upload was staged.
THEOREM RestoreUndone == RestoreSpec => []RestoreCanBeUndone
  <1>1. RestoreInv => RestoreCanBeUndone
    BY DEF RestoreInv, HatchKept, RestoreCanBeUndone, EscapeHatch
  <1>2. QED
    BY <1>1, RestoreAlways, PTL

------------------------------------------------------------------------------
(* No restore twice *)

\* An upload reaches the pending directory once; it leaves it by its database being placed or
\* by its cancel.
OnceStaged ==
  /\ \A u \in placed \cup cancelled : upload[u] = "staged"
  /\ pendingOf # NoOwner => upload[pendingOf] = "staged"
  /\ cancelling # NoOwner => upload[cancelling] = "staged"
  /\ pendingOf \notin cancelled
  /\ pendingOf \in placed => "db" \notin pendingParts

LEMMA OnceStagedKept ==
  ASSUME RestoreInv, OnceStaged, [RestoreNext]_restoreVars
  PROVE  OnceStaged'
  <1>1. /\ OnceStaged /\ upload \in [Uploads -> Stages] /\ cancelling \in Uploads \cup {NoOwner}
        /\ placed \cup cancelled \subseteq Uploads /\ pendingOf \in Uploads \cup {NoOwner}
        /\ NoOwner \notin Uploads
        /\ phase = "dbPlace" => pendingOf # NoOwner
    BY OwnersDiffer DEF RestoreInv, RestoreTypeOK, BootProgress, Swapping
  <1>2. CASE Boot \/ UNCHANGED restoreVars
    <2>1. /\ UNCHANGED <<upload, cancelling, cancelled>> /\ pendingOf' \in {pendingOf, NoOwner}
          /\ "db" \in pendingParts' => "db" \in pendingParts
          /\ \/ UNCHANGED placed
             \/ /\ phase = "dbPlace" /\ placed' = placed \cup {pendingOf}
                /\ "db" \notin pendingParts'
      BY <1>2
      DEF Boot, BootStart, CheckStaged, KeyAside, KeyPlace, KeyCopy, KeyUnlink, KeyBack, DbAside,
          WalAside, DbPlace, UndoWal, UndoDb, UndoKeyOut, Artwork, ClearPending, OpenPool, quiet,
          restoreVars, diskVars, bootVars, requestVars
    <2>2. QED
      BY <1>1, <2>1 DEF OnceStaged
  <1>3. CASE CancelStaged
    BY <1>1, <1>3
    DEF CancelStaged, CancelStart, CancelEntry, CancelEnd, still, requestVars, bootVars, diskVars,
        OnceStaged
  <1>4. CASE FolderRun \/ \E a \in archives : DeleteArchive(a)
    BY <1>1, <1>4
    DEF FolderRun, FolderStart, FolderWritten, Prune, DeleteArchive, still, diskVars, bootVars,
        OnceStaged
  <1>5. ASSUME NEW u \in Uploads, UploadStep(u)
        PROVE  OnceStaged'
    <2>1. /\ UNCHANGED <<placed, cancelled, cancelling>> /\ upload[u] # "staged"
          /\ \A v \in Uploads \ {u} : upload'[v] = upload[v]
          /\ \/ UNCHANGED <<pendingOf, pendingParts>>
             \/ pendingOf' = u /\ upload'[u] = "staged"
      BY <1>1, <1>5
      DEF UploadStep, UploadStart, Unpack, SaveCurrent, Saved, Recheck, Stage, still, diskVars,
          bootVars
    <2>2. QED
      BY <1>1, <2>1 DEF OnceStaged
  <1>6. CASE Ends
    <2>1. /\ upload' = [u \in Uploads |-> IF Busy(u) THEN "failed" ELSE upload[u]]
          /\ cancelling' = NoOwner /\ UNCHANGED <<placed, cancelled, pendingOf, pendingParts>>
      BY <1>6 DEF Ends, Shutdown, Die, ForgetRequests, diskVars
    <2>2. \A u \in Uploads : upload[u] = "staged" => upload'[u] = "staged"
      BY <2>1 DEF Busy
    <2>3. QED
      BY <1>1, <2>1, <2>2 DEF OnceStaged
  <1>7. QED
    BY <1>2, <1>3, <1>4, <1>5, <1>6 DEF RestoreNext, Ends

\* No boot places a restore that was cancelled or placed before, across any crashes; that an
\* interrupted one is resumed is liveness and is left to the run.
THEOREM NothingRestoredTwice == RestoreSpec => RestoredOnce
  <1>1. RestoreInit => OnceStaged
    BY DEF RestoreInit, OnceStaged
  <1>2. ASSUME RestoreInv, OnceStaged, [RestoreNext]_restoreVars
        PROVE  phase = "dbPlace" /\ phase' = "art" => dbFile' \notin placed \cup cancelled
    <2>1. SUFFICES ASSUME phase = "dbPlace", phase' = "art"
                   PROVE  dbFile' \notin placed \cup cancelled
      OBVIOUS
    <2>2. phase # "up" /\ ~Ends
      BY <2>1, EndKeepsDisk
    <2>3. ~Requests
      BY <2>1, RequestsApart
    <2>4. DbPlace
      BY <1>2, <2>1, <2>2, <2>3
      DEF RestoreNext, Ends, Requests, Boot, BootStart, CheckStaged, KeyAside, KeyPlace, KeyCopy,
          KeyUnlink, KeyBack, DbAside, WalAside, UndoWal, UndoDb, UndoKeyOut, Artwork,
          ClearPending, OpenPool, restoreVars, bootVars
    <2>5. dbFile' = pendingOf
      BY <2>1, <2>4 DEF DbPlace
    <2>6. "db" \in pendingParts
      BY <1>2, <2>1 DEF RestoreInv, BootProgress, Swapping
    <2>7. QED
      BY <1>2, <2>5, <2>6 DEF OnceStaged
  <1>3. RestoreInv /\ OnceStaged /\ [RestoreNext]_restoreVars => OnceStaged'
    BY OnceStagedKept
  <1>4. QED
    BY <1>1, <1>2, <1>3, RestoreAlways, PTL DEF RestoreSpec, RestoredOnce

==============================================================================
