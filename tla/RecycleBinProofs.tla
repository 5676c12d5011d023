------------------------- MODULE RecycleBinProofs --------------------------
(* What the recycle bin promises, for any number of jobs, videos and entries,  *)
(* any mix of requests, and whatever fails or crashes.                          *)
EXTENDS MCDisk, StagedRestoreProofs, FiniteSetTheorems, SequenceTheorems

------------------------------------------------------------------------------
(* The inductive invariant *)

\* the operations that hold POST_PROC_LOCK, and those that hold IMPORT_LOCK
PostProcOps == {"tick", "sweep", "restore"}
ImportOps == {"manual", "sweep", "restore"}

\* the steps of a recycle that has its entry, and those of a restore
Recycling == {"move", "unlink", "prune", "manifest", "rollback"}
Restoring == {"fit", "back", "backUnlink", "undo"}

\* what each operation is about, and the steps it takes
KindOf(op) == CASE op = "series" -> "folder" [] op = "sweep" -> "staged" [] OTHER -> "episode"
StepsOf(op) ==
  CASE op = "none" -> {"idle"}
    [] op \in {"delete", "series", "sweep"} -> {"recycle"} \cup Recycling
    [] op = "tick" -> {"place", "recycle", "swap", "nfo", "unstage"} \cup Recycling
    [] op = "manual" -> {"recycle", "check", "put", "nfo"} \cup Recycling
    [] op = "restore" -> Restoring

\* the file a recycle or a restore is about; a companion goes before it
Main(kind) ==
  CASE kind = "episode" -> "video" [] kind = "staged" -> "staged" [] kind = "folder" -> "folder"
Lists(kind) == {<<>>, <<Main(kind)>>, <<"extra", Main(kind)>>}
NoMain == {<<>>, <<"extra">>}

\* the main file is still to come, and its companion has gone if it is not
Partway(jb) ==
  /\ jb.todo # <<>>
  /\ jb.moved = <<>> \/ (jb.moved = <<"extra">> /\ jb.todo = <<Main(jb.kind)>>)

\* The main file has moved when the manifest is written, and has not in a restore's undo.
JobShape(jb) ==
  /\ jb.op \in {"none", "delete", "series", "tick", "manual", "sweep", "restore"}
  /\ jb.pc \in StepsOf(jb.op)
  /\ jb.op # "restore" => jb.kind = KindOf(jb.op)
  /\ jb.op \in {"tick", "manual"} => jb.video \in Videos
  /\ IF jb.pc \in Recycling \cup Restoring THEN jb.at # 0
                                            ELSE jb.at = 0 /\ jb.todo = <<>> /\ jb.moved = <<>>
  /\ jb.todo \in Lists(jb.kind)
  /\ jb.kind = "folder" => jb.todo # <<"extra", "folder">> /\ jb.moved \in {<<>>, <<"folder">>}
  /\ jb.moved \in NoMain \cup Lists(jb.kind)
  /\ jb.pc \in {"move", "prune"} /\ jb.kind = "folder" => jb.todo = <<>> /\ jb.moved = <<>>
  /\ jb.pc = "move" /\ jb.kind # "folder" => Partway(jb)
  /\ jb.pc = "unlink" => jb.kind # "folder" /\ Partway(jb)
  /\ jb.pc = "prune" => jb.kind = "folder"
  /\ jb.pc = "manifest" => jb.moved \notin NoMain
  /\ jb.pc = "fit" => jb.todo = <<>> /\ jb.moved = <<>>
  /\ jb.pc = "back" /\ jb.todo # <<>> => Partway(jb)
  /\ jb.pc = "backUnlink" => Partway(jb)
  /\ jb.pc = "undo" => jb.moved \in NoMain

\* an entry holds one kind of file, and its manifest names it
EntryShape(en) ==
  /\ ~en.open => en = Closed
  /\ en.listed = {} \/ en.listed = {Main(en.kind)} \/ en.listed = {"extra", Main(en.kind)}
  /\ en.kind = "episode" => en.files["staged"] = NoVideo
  /\ en.kind = "staged" => en.files["video"] = NoVideo
  /\ en.kind = "folder" /\ ~en.tree => en.files = Empty
  /\ en.kind = "folder" => "extra" \notin en.listed
  /\ en.tree => en.kind = "folder"

EntryRecord == [open : BOOLEAN, aged : BOOLEAN, kind : Kinds, tree : BOOLEAN,
                files : [Path -> Files], listed : SUBSET (Path \cup {"folder"})]

TodoLists == UNION {Lists(k) : k \in Kinds}
JobRecord == [op : Ops \cup {"none"}, pc : JobSteps, kind : Kinds, at : Entries \cup {0},
              todo : TodoLists, moved : TodoLists \cup NoMain, video : Files,
              replacing : BOOLEAN]

FolderTyped == /\ waiting \subseteq Videos /\ lib \in [Path -> Files] /\ seriesDir \in BOOLEAN
               /\ ~seriesDir => lib = Empty
EntriesTyped == /\ entry \in [Entries -> EntryRecord]
                /\ \A e \in Entries : EntryShape(entry[e])
JobsTyped == /\ job \in [Jobs -> JobRecord]
             /\ \A j \in Jobs : JobShape(job[j])
BoundsTyped == /\ plan \in BinBudgets /\ requests \in Nat
               /\ binFaults \subseteq BinFaults /\ binCrashes \in Nat
HistoryTyped == /\ owed \subseteq Videos /\ recycled \subseteq Entries \X Videos
                /\ purged \subseteq Videos /\ halfGone \subseteq Videos /\ overtaken \subseteq Videos

\* the entry a job names is of its kind, unless it was destroyed meanwhile
KindsAgree ==
  \A j \in Jobs : job[j].pc \in Recycling \cup Restoring /\ entry[job[j].at].open
                 => entry[job[j].at].kind = job[j].kind

BinTyped == FolderTyped /\ EntriesTyped /\ JobsTyped /\ BoundsTyped /\ HistoryTyped /\ KindsAgree

------------------------------------------------------------------------------
(* Lemmas about the lists of a job and about what is in a folder *)

\* A main file is never the companion.
LEMMA MainFiles ==
  ASSUME NEW k \in Kinds
  PROVE  /\ Main(k) \in {"video", "staged", "folder"} /\ Main(k) # "extra"
         /\ k = "episode" <=> Main(k) = "video"
         /\ k = "staged" <=> Main(k) = "staged"
         /\ k = "folder" <=> Main(k) = "folder"
  BY DEF Main, Kinds

\* The two lists there are, taken from either end.
LEMMA TakeFirst ==
  ASSUME NEW m
  PROVE  /\ Head(<<m>>) = m /\ Tail(<<m>>) = <<>> /\ Len(<<m>>) = 1
         /\ Head(<<"extra", m>>) = "extra" /\ Tail(<<"extra", m>>) = <<m>>
         /\ Len(<<"extra", m>>) = 2
         /\ Append(<<>>, m) = <<m>> /\ Append(<<"extra">>, m) = <<"extra", m>>
<1> DEFINE S == {"extra", m}
<1>1. <<m>> \in Seq(S) /\ <<"extra", m>> \in Seq(S) /\ <<>> \in Seq(S) /\ <<"extra">> \in Seq(S)
  OBVIOUS
<1>2. Head(<<m>>) = m /\ Len(<<m>>) = 1 /\ Head(<<"extra", m>>) = "extra" /\ Len(<<"extra", m>>) = 2
  OBVIOUS
<1>3. Tail(<<m>>) = <<>>
  OBVIOUS
<1>4. Tail(<<"extra", m>>) = <<m>>
  <2>1. /\ Tail(<<"extra", m>>) \in Seq(S) /\ Len(Tail(<<"extra", m>>)) = 1
        /\ Tail(<<"extra", m>>)[1] = m
    BY <1>1, HeadTailProperties
  <2>2. QED
    BY <1>1, <2>1, SeqEqual
<1>5. Append(<<>>, m) = <<m>>
  OBVIOUS
<1>6. Append(<<"extra">>, m) = <<"extra", m>>
  <2> DEFINE a == Append(<<"extra">>, m)
  <2>1. a \in Seq(S)
    BY <1>1
  <2>2. Len(a) = 2 /\ a[1] = "extra" /\ a[2] = m
    OBVIOUS
  <2>3. Len(<<"extra", m>>) = 2 /\ <<"extra", m>>[1] = "extra" /\ <<"extra", m>>[2] = m
    OBVIOUS
  <2> HIDE DEF a
  <2>4. \A i \in 1 .. Len(a) : a[i] = <<"extra", m>>[i]
    BY <2>2, <2>3
  <2>5. QED
    BY <1>1, <2>1, <2>2, <2>3, <2>4, SeqEqual DEF a
<1>7. QED
  BY <1>2, <1>3, <1>4, <1>5, <1>6

LEMMA TakeLast ==
  ASSUME NEW m
  PROVE  /\ SubSeq(<<m>>, 1, Len(<<m>>) - 1) = <<>> /\ <<m>>[Len(<<m>>)] = m
         /\ SubSeq(<<"extra", m>>, 1, Len(<<"extra", m>>) - 1) = <<"extra">>
         /\ <<"extra", m>>[Len(<<"extra", m>>)] = m
<1> DEFINE S == {"extra", m}
           s == SubSeq(<<"extra", m>>, 1, 1)
<1>1. <<"extra">> \in Seq(S) /\ Len(<<"extra">>) = 1 /\ <<"extra">>[1] = "extra"
  OBVIOUS
<1>2. s \in Seq(S) /\ Len(s) = 1 /\ s[1] = "extra"
  <2>1. \A i \in 1 .. 1 : <<"extra", m>>[i] \in S
    OBVIOUS
  <2>2. /\ s \in Seq(S) /\ Len(s) = 1
        /\ \A i \in 1 .. 1 - 1 + 1 : s[i] = <<"extra", m>>[1 + i - 1]
    BY <2>1, SubSeqProperties
  <2>3. <<"extra", m>>[1] = "extra"
    OBVIOUS
  <2> HIDE DEF s
  <2>4. QED
    BY <2>2, <2>3
<1> HIDE DEF s
<1>3. s = <<"extra">>
  <2>1. \A i \in 1 .. Len(s) : s[i] = <<"extra">>[i]
    BY <1>1, <1>2
  <2>2. QED
    BY <1>1, <1>2, <2>1, SeqEqual
<1>4. SubSeq(<<m>>, 1, 0) = <<>>
  BY SubSeqEmpty
<1>5. Len(<<m>>) = 1 /\ Len(<<"extra", m>>) = 2
  OBVIOUS
<1>6. <<m>>[1] = m /\ <<"extra", m>>[2] = m
  OBVIOUS
<1>7. QED
  BY <1>3, <1>4, <1>5, <1>6 DEF s

LEMMA ListsDiffer ==
  ASSUME NEW m, m # "extra"
  PROVE  /\ <<m>> # <<>> /\ <<"extra", m>> # <<>> /\ <<m>> # <<"extra", m>> /\ <<"extra">> # <<>>
         /\ <<m>> # <<"extra">> /\ <<"extra">> # <<"extra", m>>
  OBVIOUS

LEMMA NamesOfLists ==
  ASSUME NEW m
  PROVE  /\ {<<m>>[i] : i \in DOMAIN <<m>>} = {m}
         /\ {<<"extra", m>>[i] : i \in DOMAIN <<"extra", m>>} = {"extra", m}
         /\ DOMAIN <<m>> = {1} /\ DOMAIN <<"extra", m>> = {1, 2}
         /\ <<m>>[1] = m /\ <<"extra", m>>[1] = "extra" /\ <<"extra", m>>[2] = m
  OBVIOUS

\* Restore reads back from a manifest the list that recycle wrote.
LEMMA ManifestIsRead ==
  ASSUME NEW m, m # "extra"
  PROVE  /\ ManifestFiles({}) = <<>> /\ ManifestFiles({m}) = <<m>>
         /\ ManifestFiles({"extra", m}) = <<"extra", m>>
<1>1. ManifestFiles({}) = <<>>
  BY DEF ManifestFiles
<1>2. (CHOOSE p \in {m} : p # "extra") = m
  OBVIOUS
<1>3. (CHOOSE p \in {"extra", m} : p # "extra") = m
  OBVIOUS
<1>4. <<>> \o <<m>> = <<m>> /\ <<"extra">> \o <<m>> = <<"extra", m>>
  <2>1. <<m>> \in Seq({"extra", m}) /\ <<"extra", m>> \in Seq({"extra", m}) /\ <<"extra">> \in Seq({"extra", m})
    OBVIOUS
  <2>2. <<>> \o <<m>> = <<m>>
    BY <2>1, ConcatEmptySeq
  <2> DEFINE c == <<"extra">> \o <<m>>
  <2>3. Len(<<"extra">>) = 1 /\ Len(<<m>>) = 1 /\ <<"extra">>[1] = "extra" /\ <<m>>[1] = m
    OBVIOUS
  <2>4. /\ c \in Seq({"extra", m}) /\ Len(c) = Len(<<"extra">>) + Len(<<m>>)
        /\ \A i \in 1 .. Len(<<"extra">>) + Len(<<m>>) :
              c[i] = IF i <= Len(<<"extra">>) THEN <<"extra">>[i] ELSE <<m>>[i - Len(<<"extra">>)]
    BY <2>1, ConcatProperties
  <2>5. Len(<<"extra", m>>) = 2 /\ <<"extra", m>>[1] = "extra" /\ <<"extra", m>>[2] = m
    OBVIOUS
  <2> HIDE DEF c
  <2>6. Len(c) = 2 /\ c[1] = "extra" /\ c[2] = m
    BY <2>3, <2>4
  <2>7. \A i \in 1 .. Len(c) : c[i] = <<"extra", m>>[i]
    BY <2>5, <2>6
  <2>8. c = <<"extra", m>>
    BY <2>1, <2>4, <2>5, <2>6, <2>7, SeqEqual
  <2>9. QED
    BY <2>2, <2>8 DEF c
<1>5. ManifestFiles({m}) = <<>> \o <<m>>
  BY <1>2 DEF ManifestFiles
<1>6. ManifestFiles({"extra", m}) = <<"extra">> \o <<m>>
  BY <1>3 DEF ManifestFiles
<1>7. QED
  BY <1>1, <1>4, <1>5, <1>6

LEMMA InIs ==
  ASSUME NEW f
  PROVE  In(f) = {f["video"], f["staged"]} \ {NoVideo}
  BY DEF In

LEMMA InTyped ==
  ASSUME NEW f \in [Path -> Files]
  PROVE  In(f) \subseteq Videos
  BY DEF In, Path, Files

LEMMA NothingIn == In(Empty) = {}
  BY DEF In, Empty, Path

LEMMA EmptyTyped == Empty \in [Path -> Files]
  BY DEF Empty, Files

LEMMA ClosedTyped == Closed \in EntryRecord /\ EntryShape(Closed) /\ ~Closed.open /\ Closed.listed = {}
                     /\ Closed.files = Empty /\ ~Closed.tree
  BY EmptyTyped DEF Closed, EntryRecord, EntryShape, Kinds, Empty, Path

LEMMA IdleTyped == IdleJob \in JobRecord /\ JobShape(IdleJob)
  BY BinAssumptions DEF IdleJob, JobRecord, JobSteps, Kinds, TodoLists, Lists, NoMain, Files, JobShape,
     StepsOf, KindOf, Recycling, Restoring

\* A new entry is one, and no job names it.
LEMMA NewEntryIsNew ==
  ASSUME NewEntry # {}
  PROVE  /\ FirstNew \in Entries /\ ~entry[FirstNew].open
         /\ \A j \in Jobs : job[j].at # FirstNew
  BY DEF FirstNew, NewEntry

LEMMA FaultsAreFinite == IsFiniteSet(BinFaults)
<1>1. BinFaults = {"mkdir"} \cup {"move"} \cup {"unlink"} \cup {"manifest"} \cup {"undo"} \cup {"place"}
  BY DEF BinFaults
<1>2. QED
  BY <1>1, FS_Singleton, FS_Union

\* At most one kind of fault, and fewer before.
LEMMA FewerFaults ==
  ASSUME BoundsTyped, BoundsTyped', binFaults \subseteq binFaults', Cardinality(binFaults') <= 1
  PROVE  Cardinality(binFaults) <= 1
<1>2. IsFiniteSet(binFaults')
  BY FaultsAreFinite, FS_Subset DEF BoundsTyped
<1>3. Cardinality(binFaults) <= Cardinality(binFaults')
  BY <1>2, FS_Subset
<1>4. Cardinality(binFaults) \in Nat /\ Cardinality(binFaults') \in Nat
  BY <1>2, FS_Subset, FS_CardinalityType
<1>5. QED
  BY <1>3, <1>4

------------------------------------------------------------------------------
(* Every step keeps the types and the shapes *)

LEMMA TypedImplies == BinTyped => BinTypeOK
<1> SUFFICES ASSUME BinTyped PROVE BinTypeOK
  OBVIOUS
<1>1. \A j \in Jobs : /\ job[j].op \in Ops \cup {"none"} /\ job[j].pc \in JobSteps
                      /\ job[j].kind \in Kinds /\ job[j].video \in Files
                      /\ job[j].at \in Entries \cup {0}
                      /\ job[j].todo \in TodoLists /\ job[j].moved \in TodoLists \cup NoMain
  BY DEF BinTyped, JobsTyped, JobRecord
<1>2. \A t \in TodoLists \cup NoMain : \A i \in DOMAIN t : t[i] \in Path \cup {"folder"}
  <2>1. ASSUME NEW k \in Kinds
        PROVE  \A t \in Lists(k) : \A i \in DOMAIN t : t[i] \in Path \cup {"folder"}
    <3> DEFINE m == Main(k)
    <3>1. m \in Path \cup {"folder"}
      BY MainFiles DEF Path
    <3> HIDE DEF m
    <3>2. \A t \in {<<>>, <<m>>, <<"extra", m>>} : \A i \in DOMAIN t : t[i] \in Path \cup {"folder"}
      BY <3>1, NamesOfLists DEF Path
    <3>3. QED
      BY <3>2 DEF Lists, m
  <2>2. \A t \in NoMain : \A i \in DOMAIN t : t[i] \in Path \cup {"folder"}
    BY DEF NoMain, Path
  <2>3. QED
    BY <2>1, <2>2 DEF TodoLists
<1>3. /\ plan \in BinBudgets /\ waiting \subseteq Videos /\ lib \in [Path -> Files]
      /\ seriesDir \in BOOLEAN /\ entry \in [Entries -> EntryRecord]
      /\ \A e \in Entries : ~entry[e].open => entry[e] = Closed
      /\ requests \in Nat /\ binFaults \subseteq BinFaults /\ binCrashes \in Nat
      /\ owed \subseteq Videos /\ recycled \subseteq Entries \X Videos /\ purged \subseteq Videos
      /\ halfGone \subseteq Videos /\ overtaken \subseteq Videos
  BY DEF BinTyped, FolderTyped, EntriesTyped, BoundsTyped, HistoryTyped, EntryShape
<1>4. QED
  BY <1>1, <1>2, <1>3 DEF BinTypeOK, EntryRecord

LEMMA ListsTyped ==
  /\ <<>> \in TodoLists /\ <<>> \in NoMain /\ <<"extra">> \in NoMain
  /\ \A k \in Kinds : /\ Lists(k) \subseteq TodoLists /\ <<>> \in Lists(k)
                      /\ <<Main(k)>> \in Lists(k) /\ <<"extra", Main(k)>> \in Lists(k)
<1>1. "episode" \in Kinds
  BY DEF Kinds
<1>2. QED
  BY <1>1 DEF TodoLists, Lists, NoMain

\* A step of one job leaves the others alone.
LEMMA OneJobMoves ==
  ASSUME JobsTyped, NEW j \in Jobs, NEW r \in JobRecord, JobShape(r), job' = [job EXCEPT ![j] = r]
  PROVE  JobsTyped' /\ job'[j] = r /\ \A k \in Jobs \ {j} : job'[k] = job[k]
  BY DEF JobsTyped

LEMMA OneEntryChanges ==
  ASSUME EntriesTyped, NEW e \in Entries, NEW r \in EntryRecord, EntryShape(r),
         entry' = [entry EXCEPT ![e] = r]
  PROVE  EntriesTyped' /\ entry'[e] = r /\ \A f \in Entries \ {e} : entry'[f] = entry[f]
  BY DEF EntriesTyped

\* Where recycle's caller goes on.
Onward(jb, ok) ==
  IF jb.op = "tick" THEN [jb EXCEPT !.at = 0, !.todo = <<>>, !.moved = <<>>,
                                    !.pc = IF ok THEN "swap" ELSE "unstage"]
  ELSE IF jb.op = "manual" /\ ok THEN [jb EXCEPT !.at = 0, !.todo = <<>>, !.moved = <<>>, !.pc = "check"]
  ELSE IdleJob

LEMMA AfterIsOnward ==
  ASSUME JobsTyped, NEW j \in Jobs, NEW ok \in BOOLEAN, job[j].pc \in {"recycle"} \cup Recycling, After(j, ok)
  PROVE  /\ Onward(job[j], ok) \in JobRecord /\ JobShape(Onward(job[j], ok))
         /\ job' = [job EXCEPT ![j] = Onward(job[j], ok)]
<1>1. job[j] \in JobRecord /\ JobShape(job[j])
  BY DEF JobsTyped
<1> DEFINE back(pc) == [job[j] EXCEPT !.at = 0, !.todo = <<>>, !.moved = <<>>, !.pc = pc]
<1>2. ASSUME NEW pc \in {"swap", "unstage", "check"}, pc \in StepsOf(job[j].op)
      PROVE  back(pc) \in JobRecord /\ JobShape(back(pc))
  <2>1. /\ back(pc).pc = pc /\ back(pc).at = 0 /\ back(pc).todo = <<>> /\ back(pc).moved = <<>>
        /\ back(pc).op = job[j].op /\ back(pc).kind = job[j].kind /\ back(pc).video = job[j].video
        /\ back(pc) \in JobRecord
    BY <1>1, <1>2, ListsTyped DEF JobRecord, JobSteps
  <2>2. pc \notin Recycling \cup Restoring
    BY DEF Recycling, Restoring
  <2> HIDE DEF back
  <2>3. job[j].kind \in Kinds
    BY <1>1 DEF JobRecord
  <2>4. JobShape(back(pc))
    <3>1. <<>> # <<"extra", "folder">>
      BY ListsDiffer
    <3>2. QED
      BY <1>1, <1>2, <2>1, <2>2, <2>3, <3>1, ListsTyped DEF JobShape
  <2>5. QED
    BY <2>1, <2>4
<1>3. Onward(job[j], ok) \in JobRecord /\ JobShape(Onward(job[j], ok))
  <2>1. CASE job[j].op = "tick"
    <3>1. Onward(job[j], ok) = IF ok THEN back("swap") ELSE back("unstage")
      BY <2>1 DEF Onward
    <3>2. "swap" \in StepsOf("tick") /\ "unstage" \in StepsOf("tick")
      BY DEF StepsOf
    <3>3. QED
      BY <1>2, <2>1, <3>1, <3>2
  <2>2. CASE job[j].op = "manual" /\ ok
    <3>1. Onward(job[j], ok) = back("check")
      BY <2>2 DEF Onward
    <3>2. "check" \in StepsOf("manual")
      BY DEF StepsOf
    <3>3. QED
      BY <1>2, <2>2, <3>1, <3>2
  <2>3. CASE job[j].op # "tick" /\ ~(job[j].op = "manual" /\ ok)
    BY <2>3, IdleTyped DEF Onward
  <2>4. QED
    BY <2>1, <2>2, <2>3
<1>4. job' = [job EXCEPT ![j] = Onward(job[j], ok)]
  BY <1>1 DEF After, Onward, JobsTyped
<1>5. QED
  BY <1>3, <1>4

LEMMA BoundsKept ==
  ASSUME BoundsTyped, plan' = plan, binCrashes' = binCrashes,
         \/ UNCHANGED <<requests, binFaults>>
         \/ (\E o \in Ops : Ask(o)) /\ UNCHANGED binFaults
         \/ (\E f \in BinFaults : Fault(f)) /\ UNCHANGED requests
  PROVE  BoundsTyped' /\ binFaults \subseteq binFaults'
  BY DEF BoundsTyped, Ask, Fault

\* A step of a job that is at no entry, and goes to none, moves videos at most.
LEMMA AwayFromBin ==
  ASSUME BinTyped, FolderTyped', BoundsTyped', HistoryTyped', UNCHANGED entry,
         NEW j \in Jobs, NEW r \in JobRecord, JobShape(r), job' = [job EXCEPT ![j] = r],
         r.pc \notin Recycling \cup Restoring
  PROVE  BinTyped'
<1>1. JobsTyped' /\ job'[j] = r /\ \A k \in Jobs \ {j} : job'[k] = job[k]
  BY OneJobMoves DEF BinTyped
<1>2. EntriesTyped'
  BY DEF BinTyped, EntriesTyped
<1>3. KindsAgree'
  BY <1>1 DEF BinTyped, KindsAgree
<1>4. QED
  BY <1>1, <1>2, <1>3 DEF BinTyped

\* the record a request or a tick starts with
FirstOf(r, o, pc) ==
  /\ r \in JobRecord /\ r.op = o /\ r.pc = pc /\ r.kind = KindOf(o)
  /\ r.at = 0 /\ r.todo = <<>> /\ r.moved = <<>>
  /\ o \in {"tick", "manual"} => r.video \in Videos

LEMMA FirstStep ==
  ASSUME NEW o \in {"delete", "series", "sweep", "tick", "manual"}, NEW pc \in StepsOf(o),
         pc \in {"recycle", "place", "check"}, NEW r, FirstOf(r, o, pc)
  PROVE  r \in JobRecord /\ JobShape(r) /\ r.pc \notin Recycling \cup Restoring
<1>1. r.kind \in Kinds /\ KindOf(o) \in Kinds
  BY DEF KindOf, Kinds, FirstOf
<1>2. pc \notin Recycling \cup Restoring
  BY DEF Recycling, Restoring
<1>3. <<>> # <<"extra", "folder">>
  BY ListsDiffer
<1>4. QED
  BY <1>1, <1>2, <1>3, ListsTyped DEF JobShape, FirstOf

LEMMA BeginsTyped ==
  ASSUME BinTyped, NEW j \in Jobs, UNCHANGED <<libVars, entry, plan, binFaults, binCrashes, historyVars>>,
         NEW o \in {"delete", "series", "sweep", "tick", "manual"}, NEW pc \in StepsOf(o),
         pc \in {"recycle", "place", "check"}, NEW r, FirstOf(r, o, pc), Begin(j, o, r)
  PROVE  BinTyped'
<1>1. r \in JobRecord /\ JobShape(r) /\ r.pc \notin Recycling \cup Restoring
  BY FirstStep
<1>2. job' = [job EXCEPT ![j] = r] /\ Ask(o) /\ o \in Ops
  BY DEF Begin, Ops
<1>3. BoundsTyped'
  BY <1>2, BoundsKept DEF BinTyped
<1>4. FolderTyped' /\ HistoryTyped'
  BY DEF BinTyped, FolderTyped, HistoryTyped, libVars, historyVars
<1>5. QED
  BY <1>1, <1>2, <1>3, <1>4, AwayFromBin

LEMMA BeginTyped ==
  ASSUME BinTyped, NEW j \in Jobs,
         \/ DeleteEpisode(j) \/ RemoveSeries(j) \/ SweepStart(j) \/ TickStart(j) \/ ManualStart(j)
  PROVE  BinTyped'
<1>1. NoVideo \in Files /\ \A v \in waiting : v \in Videos /\ v \in Files
  BY DEF Files, BinTyped, FolderTyped
<1>2. UNCHANGED <<libVars, entry, plan, binFaults, binCrashes, historyVars>>
  BY DEF DeleteEpisode, RemoveSeries, SweepStart, TickStart, ManualStart
<1>3. CASE DeleteEpisode(j)
  <2> DEFINE r == [IdleJob EXCEPT !.op = "delete", !.pc = "recycle"]
  <2>1. FirstOf(r, "delete", "recycle") /\ "recycle" \in StepsOf("delete")
    BY IdleTyped DEF FirstOf, IdleJob, JobRecord, Ops, JobSteps, KindOf, StepsOf
  <2>2. Begin(j, "delete", r)
    BY <1>3 DEF DeleteEpisode
  <2>3. QED
    BY <1>2, <2>1, <2>2, BeginsTyped
<1>4. CASE RemoveSeries(j)
  <2> DEFINE r == [IdleJob EXCEPT !.op = "series", !.pc = "recycle", !.kind = "folder"]
  <2>1. FirstOf(r, "series", "recycle") /\ "recycle" \in StepsOf("series")
    BY IdleTyped DEF FirstOf, IdleJob, JobRecord, Ops, JobSteps, KindOf, StepsOf, Kinds
  <2>2. Begin(j, "series", r)
    BY <1>4 DEF RemoveSeries
  <2>3. QED
    BY <1>2, <2>1, <2>2, BeginsTyped
<1>5. CASE SweepStart(j)
  <2> DEFINE r == [IdleJob EXCEPT !.op = "sweep", !.pc = "recycle", !.kind = "staged"]
  <2>1. FirstOf(r, "sweep", "recycle") /\ "recycle" \in StepsOf("sweep")
    BY IdleTyped DEF FirstOf, IdleJob, JobRecord, Ops, JobSteps, KindOf, StepsOf, Kinds
  <2>2. Begin(j, "sweep", r)
    BY <1>5 DEF SweepStart
  <2>3. QED
    BY <1>2, <2>1, <2>2, BeginsTyped
<1>6. CASE TickStart(j)
  <2> DEFINE b == lib["video"] # NoVideo
  <2>1. PICK v \in waiting :
          Begin(j, "tick", [IdleJob EXCEPT !.op = "tick", !.pc = "place", !.video = v, !.replacing = b])
    BY <1>6 DEF TickStart
  <2>2. b \in BOOLEAN
    OBVIOUS
  <2> HIDE DEF b
  <2> DEFINE r == [IdleJob EXCEPT !.op = "tick", !.pc = "place", !.video = v, !.replacing = b]
  <2>3. FirstOf(r, "tick", "place") /\ "place" \in StepsOf("tick")
    BY <1>1, <2>2, IdleTyped DEF FirstOf, IdleJob, JobRecord, Ops, JobSteps, KindOf, StepsOf
  <2>4. QED
    BY <1>2, <2>1, <2>3, BeginsTyped
<1>7. CASE ManualStart(j)
  <2>1. PICK v \in waiting, b \in BOOLEAN :
          Begin(j, "manual", [IdleJob EXCEPT !.op = "manual", !.video = v, !.replacing = b,
                   !.pc = IF b /\ lib["video"] # NoVideo THEN "recycle" ELSE "check"])
    BY <1>7 DEF ManualStart
  <2>2. PICK pc \in {"recycle", "check"} : pc = IF b /\ lib["video"] # NoVideo THEN "recycle" ELSE "check"
    OBVIOUS
  <2> DEFINE r == [IdleJob EXCEPT !.op = "manual", !.video = v, !.replacing = b, !.pc = pc]
  <2>3. FirstOf(r, "manual", pc) /\ pc \in StepsOf("manual")
    BY <1>1, <2>2, IdleTyped DEF FirstOf, IdleJob, JobRecord, Ops, JobSteps, KindOf, StepsOf
  <2>4. Begin(j, "manual", r)
    BY <2>1, <2>2
  <2>5. QED
    BY <1>2, <2>3, <2>4, BeginsTyped
<1>8. QED
  BY <1>3, <1>4, <1>5, <1>6, <1>7

LEMMA GoesAway ==
  ASSUME JobsTyped, NEW j \in Jobs, NEW pc \in JobSteps, pc \in StepsOf(job[j].op),
         job[j].pc \notin Recycling \cup Restoring, pc \notin Recycling \cup Restoring,
         Goto(j, pc)
  PROVE  \E r \in JobRecord : /\ JobShape(r) /\ r.pc \notin Recycling \cup Restoring
                              /\ job' = [job EXCEPT ![j] = r]
<1> DEFINE r == [job[j] EXCEPT !.pc = pc]
<1>1. job[j] \in JobRecord /\ JobShape(job[j])
  BY DEF JobsTyped
<1>2. /\ r \in JobRecord /\ r.pc = pc /\ r.op = job[j].op /\ r.kind = job[j].kind /\ r.at = job[j].at
      /\ r.todo = job[j].todo /\ r.moved = job[j].moved /\ r.video = job[j].video
  BY <1>1 DEF JobRecord
<1>3. job' = [job EXCEPT ![j] = r]
  BY <1>1 DEF Goto, JobsTyped
<1> HIDE DEF r
<1>4. JobShape(r)
  <2>1. pc \notin {"move", "unlink", "prune", "manifest", "rollback", "fit", "back", "backUnlink", "undo"}
    BY DEF Recycling, Restoring
  <2>2. QED
    BY <1>1, <1>2, <2>1 DEF JobShape
<1>5. QED
  BY <1>2, <1>3, <1>4

LEMMA FinishIsIdle ==
  ASSUME JobsTyped, NEW j \in Jobs, Finish(j)
  PROVE  \E r \in JobRecord : /\ JobShape(r) /\ r.pc \notin Recycling \cup Restoring
                              /\ job' = [job EXCEPT ![j] = r]
  BY IdleTyped DEF Finish, IdleJob, Recycling, Restoring

\* Which operation is at a step that only it takes.
LEMMA WhoIsAt ==
  ASSUME JobsTyped, NEW j \in Jobs
  PROVE  /\ job[j].pc \in {"place", "swap", "unstage"} => job[j].op = "tick"
         /\ job[j].pc \in {"check", "put"} => job[j].op = "manual"
         /\ job[j].pc = "nfo" => job[j].op \in {"tick", "manual"}
         /\ job[j].pc \in {"place", "swap", "unstage", "check", "put", "nfo", "recycle"} =>
              job[j].pc \notin Recycling \cup Restoring
         /\ job[j].pc \in Restoring <=> job[j].op = "restore"
         /\ job[j].pc \in {"recycle"} \cup Recycling =>
              job[j].op \in {"delete", "series", "tick", "manual", "sweep"}
<1>1. job[j] \in JobRecord /\ JobShape(job[j])
  BY DEF JobsTyped
<1>2. QED
  BY <1>1 DEF JobShape, StepsOf, Recycling, Restoring

LEMMA OvertakesTyped ==
  ASSUME FolderTyped, overtaken \subseteq Videos, NEW now, Overtakes(now)
  PROVE  overtaken' \subseteq Videos /\ overtaken \subseteq overtaken'
  BY InTyped DEF FolderTyped, Overtakes

LEMMA LibSet ==
  ASSUME FolderTyped, NEW p \in Path, NEW x \in Files, lib' = [lib EXCEPT ![p] = x]
  PROVE  /\ lib' \in [Path -> Files] /\ lib'[p] = x
         /\ \A q \in Path \ {p} : lib'[q] = lib[q]
         /\ x = NoVideo /\ lib = Empty => lib' = Empty
  BY DEF FolderTyped, Empty

LEMMA NotFoldered ==
  ASSUME FolderTyped, NEW p \in Path, lib[p] # NoVideo
  PROVE  seriesDir = TRUE /\ lib[p] \in Videos
  BY DEF FolderTyped, Empty, Files

LEMMA CallersTyped ==
  ASSUME BinTyped, NEW j \in Jobs,
         TickPlace(j) \/ Swap(j) \/ Nfo(j) \/ Unstage(j) \/ ManualCheck(j) \/ ManualPut(j)
  PROVE  BinTyped'
<1>1. job[j] \in JobRecord /\ JobShape(job[j]) /\ JobsTyped /\ FolderTyped /\ BoundsTyped /\ HistoryTyped
  BY DEF BinTyped, JobsTyped
<1>2. UNCHANGED <<entry, binBounds, recycled, purged, halfGone>>
  BY DEF TickPlace, Swap, Nfo, Unstage, ManualCheck, ManualPut, historyVars
<1>3. BoundsTyped'
  <2>1. UNCHANGED binFaults \/ \E f \in BinFaults : Fault(f)
    BY DEF TickPlace, Swap, Nfo, Unstage, ManualCheck, ManualPut, BinFaults
  <2>2. QED
    BY <1>1, <1>2, <2>1, BoundsKept DEF binBounds
<1>4. \E r \in JobRecord : /\ JobShape(r) /\ r.pc \notin Recycling \cup Restoring
                           /\ job' = [job EXCEPT ![j] = r]
  <2>1. /\ job[j].pc \notin Recycling \cup Restoring
        /\ \/ Finish(j)
           \/ job[j].op = "tick" /\ (Goto(j, "recycle") \/ Goto(j, "nfo"))
           \/ job[j].op = "manual" /\ (Goto(j, "put") \/ Goto(j, "nfo"))
    BY <1>1, WhoIsAt DEF TickPlace, Swap, Nfo, Unstage, ManualCheck, ManualPut
  <2>2. {"recycle", "nfo"} \subseteq StepsOf("tick") /\ {"put", "nfo"} \subseteq StepsOf("manual")
        /\ {"recycle", "nfo", "put"} \subseteq JobSteps
        /\ \A pc \in {"recycle", "nfo", "put"} : pc \notin Recycling \cup Restoring
    BY DEF StepsOf, JobSteps, Recycling, Restoring
  <2>3. QED
    BY <1>1, <2>1, <2>2, GoesAway, FinishIsIdle
<1>5. FolderTyped'
  <2>1. CASE UNCHANGED <<lib, waiting, seriesDir>>
    BY <1>1, <2>1 DEF FolderTyped
  <2>2. ASSUME NEW p \in Path, NEW x \in Files, lib' = [lib EXCEPT ![p] = x],
               waiting' \subseteq Videos, seriesDir' = TRUE
        PROVE  FolderTyped'
    BY <1>1, <2>2, LibSet DEF FolderTyped
  <2>3. "video" \in Path /\ "staged" \in Path /\ "extra" \in Path /\ NoVideo \in Files
    BY DEF Path, Files
  <2>4. job[j].video \in Files /\ \A p \in Path : lib[p] \in Files
    BY <1>1 DEF FolderTyped, JobRecord
  <2>5. CASE TickPlace(j) \/ ManualPut(j)
    <3>1. CASE UNCHANGED libVars
      BY <2>1, <3>1 DEF libVars
    <3>2. CASE /\ waiting' = waiting \ {job[j].video} /\ seriesDir' = TRUE
               /\ \E p \in Path : lib' = [lib EXCEPT ![p] = job[j].video]
      BY <1>1, <2>2, <2>4, <3>2 DEF FolderTyped
    <3>3. QED
      BY <2>3, <2>5, <3>1, <3>2 DEF TickPlace, ManualPut
  <2>6. CASE Swap(j)
    <3>1. CASE UNCHANGED lib
      BY <2>1, <2>6, <3>1 DEF Swap
    <3>2. CASE lib["staged"] # NoVideo /\ lib' = [lib EXCEPT !["video"] = lib["staged"], !["staged"] = NoVideo]
      <4>1. seriesDir' = TRUE /\ waiting' = waiting
        BY <1>1, <2>3, <2>6, <3>2, NotFoldered DEF Swap
      <4>2. lib' \in [Path -> Files]
        BY <1>1, <2>3, <2>4, <3>2 DEF FolderTyped
      <4>3. QED
        BY <1>1, <4>1, <4>2 DEF FolderTyped
    <3>3. QED
      BY <2>6, <3>1, <3>2 DEF Swap
  <2>7. CASE Nfo(j)
    <3>1. CASE UNCHANGED lib
      BY <2>1, <2>7, <3>1 DEF Nfo
    <3>2. CASE seriesDir /\ lib' = [lib EXCEPT !["extra"] = job[j].video]
      BY <1>1, <2>2, <2>3, <2>4, <2>7, <3>2 DEF Nfo, FolderTyped
    <3>3. QED
      BY <2>7, <3>1, <3>2 DEF Nfo
  <2>8. CASE Unstage(j)
    <3>1. CASE UNCHANGED <<waiting, lib>>
      BY <2>1, <2>8, <3>1 DEF Unstage
    <3>2. CASE /\ lib["staged"] # NoVideo /\ waiting' = waiting \cup {lib["staged"]}
               /\ lib' = [lib EXCEPT !["staged"] = NoVideo]
      <4>1. seriesDir' = TRUE /\ waiting' \subseteq Videos
        BY <1>1, <2>3, <2>8, <3>2, NotFoldered DEF Unstage, FolderTyped
      <4>2. QED
        BY <2>2, <2>3, <3>2, <4>1
    <3>3. QED
      BY <2>8, <3>1, <3>2 DEF Unstage
  <2>9. CASE ManualCheck(j)
    BY <2>1, <2>9 DEF ManualCheck, libVars
  <2>10. QED
    BY <2>5, <2>6, <2>7, <2>8, <2>9
<1>6. HistoryTyped'
  <2>1. overtaken' \subseteq Videos
    <3>1. UNCHANGED overtaken \/ Overtakes(lib')
      BY DEF TickPlace, Swap, Nfo, Unstage, ManualCheck, ManualPut, historyVars
    <3>2. QED
      BY <1>1, <3>1, OvertakesTyped DEF HistoryTyped
  <2>2. owed' \subseteq Videos
    <3>1. \/ UNCHANGED owed
          \/ job[j].op \in {"tick", "manual"} /\ owed' = owed \cup {job[j].video}
          \/ lib["staged"] # NoVideo /\ owed' = owed \cup {lib["staged"]}
      BY <1>1, WhoIsAt DEF TickPlace, Swap, Nfo, Unstage, ManualCheck, ManualPut, historyVars
    <3>2. job[j].op \in {"tick", "manual"} => job[j].video \in Videos
      BY <1>1 DEF JobShape
    <3>3. lib["staged"] # NoVideo => lib["staged"] \in Videos
      BY <1>1, NotFoldered DEF Path
    <3>4. QED
      BY <1>1, <3>1, <3>2, <3>3 DEF HistoryTyped
  <2>3. QED
    BY <1>1, <1>2, <2>1, <2>2 DEF HistoryTyped
<1>7. PICK r \in JobRecord : /\ JobShape(r) /\ r.pc \notin Recycling \cup Restoring
                             /\ job' = [job EXCEPT ![j] = r]
  BY <1>4
<1>8. QED
  BY <1>2, <1>3, <1>5, <1>6, <1>7, AwayFromBin

------------------------------------------------------------------------------
(* Recycle *)

\* A step of a job at an entry: no other job's entry changes its kind, or opens.
LEMMA AtAnEntry ==
  ASSUME BinTyped, FolderTyped', BoundsTyped', HistoryTyped', EntriesTyped',
         \A e \in Entries : entry'[e].open => entry[e].open /\ entry'[e].kind = entry[e].kind,
         NEW j \in Jobs, NEW r \in JobRecord, JobShape(r), job' = [job EXCEPT ![j] = r],
         r.pc \in Recycling \cup Restoring =>
           /\ job[j].pc \in Recycling \cup Restoring
           /\ r.at = job[j].at /\ r.kind = job[j].kind
  PROVE  BinTyped'
<1>1. JobsTyped' /\ job'[j] = r /\ \A k \in Jobs \ {j} : job'[k] = job[k]
  BY OneJobMoves DEF BinTyped
<1>2. \A k \in Jobs : job[k].pc \in Recycling \cup Restoring => job[k].at \in Entries
  BY DEF BinTyped, JobsTyped, JobRecord, JobShape
<1>3. KindsAgree'
  BY <1>1, <1>2 DEF BinTyped, KindsAgree
<1>4. QED
  BY <1>1, <1>3 DEF BinTyped

LEMMA ToRollback ==
  ASSUME JobsTyped, NEW j \in Jobs, job[j].pc \in Recycling, Goto(j, "rollback")
  PROVE  \E r \in JobRecord : /\ JobShape(r) /\ job' = [job EXCEPT ![j] = r]
                              /\ r.at = job[j].at /\ r.kind = job[j].kind
<1> DEFINE r == [job[j] EXCEPT !.pc = "rollback"]
<1>1. job[j] \in JobRecord /\ JobShape(job[j])
  BY DEF JobsTyped
<1>2. /\ r \in JobRecord /\ r.pc = "rollback" /\ r.op = job[j].op /\ r.kind = job[j].kind
      /\ r.at = job[j].at /\ r.todo = job[j].todo /\ r.moved = job[j].moved /\ r.video = job[j].video
  BY <1>1 DEF JobRecord, JobSteps
<1>3. job' = [job EXCEPT ![j] = r]
  BY <1>1 DEF Goto, JobsTyped
<1> HIDE DEF r
<1>4. "rollback" \in StepsOf(job[j].op) /\ "rollback" \in Recycling
  BY <1>1, WhoIsAt DEF StepsOf, Recycling
<1>5. JobShape(r)
  BY <1>1, <1>2, <1>4 DEF JobShape
<1>6. QED
  BY <1>2, <1>3, <1>5

\* What is still to come, and what has moved, halfway through.
LEMMA PartwayIs ==
  ASSUME NEW jb \in JobRecord, JobShape(jb), Partway(jb)
  PROVE  LET m == Main(jb.kind)
         IN /\ m # "extra" /\ (jb.kind # "folder" => m \in {"video", "staged"})
            /\ \/ jb.todo = <<m>> /\ jb.moved \in NoMain /\ Head(jb.todo) = m /\ Len(jb.todo) = 1
                  /\ Tail(jb.todo) = <<>>
                  /\ Append(jb.moved, m) \in {<<m>>, <<"extra", m>>}
                  /\ (jb.kind = "folder" => jb.moved = <<>> /\ Append(jb.moved, m) = <<m>>)
               \/ jb.todo = <<"extra", m>> /\ jb.moved = <<>> /\ Head(jb.todo) = "extra"
                  /\ Len(jb.todo) = 2 /\ Tail(jb.todo) = <<m>> /\ Append(jb.moved, "extra") = <<"extra">>
                  /\ jb.kind # "folder"
<1> DEFINE m == Main(jb.kind)
<1>1. jb.kind \in Kinds
  BY DEF JobRecord
<1>2. m # "extra" /\ (jb.kind # "folder" => m \in {"video", "staged"}) /\ (jb.kind = "folder" => m = "folder")
  BY <1>1, MainFiles DEF Kinds
<1>3. jb.todo = <<m>> \/ jb.todo = <<"extra", m>>
  BY DEF JobShape, Partway, Lists
<1>4. jb.moved \in NoMain /\ (jb.todo = <<"extra", m>> => jb.moved = <<>>)
      /\ (jb.kind = "folder" => jb.moved = <<>> /\ jb.todo = <<m>>)
  <2> HIDE DEF m
  <2>1. <<m>> # <<"extra", m>> /\ <<"extra">> # <<>> /\ <<"extra">> # <<"folder">>
    BY <1>2, ListsDiffer
  <2>2. jb.moved = <<>> \/ (jb.moved = <<"extra">> /\ jb.todo = <<m>>)
    BY DEF Partway, m
  <2>3. jb.kind = "folder" => jb.todo # <<"extra", "folder">> /\ jb.moved \in {<<>>, <<"folder">>}
    BY DEF JobShape
  <2>4. QED
    BY <1>2, <1>3, <2>1, <2>2, <2>3 DEF NoMain
<1>5. Append(<<>>, "extra") = <<"extra">>
  BY TakeFirst
<1> HIDE DEF m
<1>6. CASE jb.todo = <<m>>
  <2>1. Append(jb.moved, m) \in {<<m>>, <<"extra", m>>} /\ (jb.moved = <<>> => Append(jb.moved, m) = <<m>>)
    BY <1>4, TakeFirst DEF NoMain
  <2>2. QED
    BY <1>2, <1>4, <1>6, <2>1, TakeFirst DEF m
<1>7. CASE jb.todo = <<"extra", m>>
  <2>1. jb.kind # "folder"
    BY <1>2, <1>4, <1>7, ListsDiffer
  <2>2. QED
    BY <1>2, <1>4, <1>5, <1>7, <2>1, TakeFirst DEF m
<1>8. QED
  BY <1>3, <1>6, <1>7

LEMMA MovedOneShape ==
  ASSUME JobsTyped, NEW j \in Jobs, job[j].pc \in {"move", "unlink"}, job[j].kind # "folder", MovedOne(j)
  PROVE  \E r \in JobRecord : /\ JobShape(r) /\ job' = [job EXCEPT ![j] = r]
                              /\ r.at = job[j].at /\ r.kind = job[j].kind
<1> DEFINE jb == job[j]
           m == Main(jb.kind)
           r == [jb EXCEPT !.moved = Append(@, Head(jb.todo)), !.todo = Tail(@),
                           !.pc = IF Len(jb.todo) = 1 THEN "manifest" ELSE "move"]
<1>1. jb \in JobRecord /\ JobShape(jb) /\ jb.kind \in Kinds
  BY DEF JobsTyped, JobRecord
<1>2. Partway(jb)
  BY <1>1 DEF JobShape
<1>3. job' = [job EXCEPT ![j] = r]
  BY <1>1 DEF MovedOne, JobsTyped
<1>4. /\ r.pc = (IF Len(jb.todo) = 1 THEN "manifest" ELSE "move") /\ r.op = jb.op /\ r.kind = jb.kind
      /\ r.at = jb.at /\ r.todo = Tail(jb.todo) /\ r.moved = Append(jb.moved, Head(jb.todo))
      /\ r.video = jb.video
  BY <1>1 DEF JobRecord
<1>5. \/ jb.todo = <<m>> /\ r.pc = "manifest" /\ r.todo = <<>> /\ r.moved \in {<<m>>, <<"extra", m>>}
      \/ jb.todo = <<"extra", m>> /\ r.pc = "move" /\ r.todo = <<m>> /\ r.moved = <<"extra">>
  <2>1. \/ jb.todo = <<m>> /\ Head(jb.todo) = m /\ Len(jb.todo) = 1 /\ Tail(jb.todo) = <<>>
           /\ Append(jb.moved, m) \in {<<m>>, <<"extra", m>>}
        \/ jb.todo = <<"extra", m>> /\ Head(jb.todo) = "extra" /\ Len(jb.todo) = 2
           /\ Tail(jb.todo) = <<m>> /\ Append(jb.moved, "extra") = <<"extra">>
    BY <1>1, <1>2, PartwayIs
  <2> HIDE DEF r, m
  <2>2. CASE jb.todo = <<m>> /\ Head(jb.todo) = m /\ Len(jb.todo) = 1 /\ Tail(jb.todo) = <<>>
             /\ Append(jb.moved, m) \in {<<m>>, <<"extra", m>>}
    <3>1. r.pc = "manifest" /\ r.todo = <<>> /\ r.moved = Append(jb.moved, m)
      BY <1>4, <2>2
    <3>2. QED
      BY <2>2, <3>1
  <2>3. CASE jb.todo = <<"extra", m>> /\ Head(jb.todo) = "extra" /\ Len(jb.todo) = 2
             /\ Tail(jb.todo) = <<m>> /\ Append(jb.moved, "extra") = <<"extra">>
    <3>1. r.pc = "move" /\ r.todo = <<m>> /\ r.moved = Append(jb.moved, "extra")
      BY <1>4, <2>3
    <3>2. QED
      BY <2>3, <3>1
  <2>4. QED
    BY <2>1, <2>2, <2>3
<1>6. r.todo \in TodoLists /\ r.moved \in TodoLists \cup NoMain /\ r.pc \in JobSteps
  BY <1>1, <1>5, ListsTyped DEF Lists, JobSteps
<1>7. r \in JobRecord
  BY <1>1, <1>6 DEF JobRecord
<1>8. m # "extra"
  BY <1>1, MainFiles
<1> HIDE DEF r
<1>9. JobShape(r)
  <2>1. /\ "manifest" \in StepsOf(jb.op) /\ "move" \in StepsOf(jb.op)
        /\ {"manifest", "move", "unlink"} \subseteq Recycling
    BY <1>1, WhoIsAt DEF StepsOf, Recycling
  <2> HIDE DEF m
  <2>2. <<m>> \notin NoMain /\ <<"extra", m>> \notin NoMain /\ <<m>> # <<>> /\ <<"extra">> \in NoMain
    BY <1>8, ListsDiffer DEF NoMain
  <2>3. Lists(jb.kind) = {<<>>, <<m>>, <<"extra", m>>} /\ r.todo \in Lists(r.kind)
        /\ r.moved \in NoMain \cup Lists(r.kind)
    BY <1>4, <1>5, <2>2 DEF Lists, m
  <2>4. r.pc = "move" => Partway(r)
    BY <1>4, <1>5, <2>2 DEF Partway, m
  <2>5. r.pc = "manifest" => r.moved \notin NoMain
    BY <1>5, <2>2
  <2>6. r.pc \in {"manifest", "move"}
    BY <1>5
  <2>7. QED
    BY <1>1, <1>4, <2>1, <2>3, <2>4, <2>5, <2>6 DEF JobShape
<1>10. QED
  BY <1>3, <1>4, <1>7, <1>9

LEMMA FirstList ==
  ASSUME NEW k \in Kinds, NEW t,
         t = CASE k = "episode" -> EpisodeFiles(lib) [] k = "staged" -> <<"staged">> [] k = "folder" -> <<>>
  PROVE  /\ t \in Lists(k) /\ (k = "folder" => t = <<>>) /\ (k # "folder" => t # <<>>)
         /\ k = "staged" => t = <<"staged">>
<1>1. /\ <<>> # <<"staged">> /\ <<>> # <<"video">> /\ <<>> # <<"extra", "video">>
  BY ListsDiffer
<1>2. CASE k = "episode"
  <2>1. t = EpisodeFiles(lib) /\ Main(k) = "video"
    BY <1>2 DEF Main
  <2>2. t = <<"video">> \/ t = <<"extra", "video">>
    BY <2>1 DEF EpisodeFiles
  <2>3. QED
    BY <1>1, <1>2, <2>1, <2>2 DEF Lists
<1>3. CASE k = "staged"
  <2>1. t = <<"staged">> /\ Main(k) = "staged"
    BY <1>3 DEF Main
  <2>2. QED
    BY <1>1, <1>3, <2>1 DEF Lists
<1>4. CASE k = "folder"
  BY <1>4 DEF Lists
<1>5. QED
  BY <1>2, <1>3, <1>4 DEF Kinds

\* An entry is opened for a job that had none.
LEMMA OpensTyped ==
  ASSUME BinTyped, NEW j \in Jobs, job[j].pc = "recycle", NewEntry # {},
         entry' = [entry EXCEPT ![FirstNew] = [Closed EXCEPT !.open = TRUE, !.kind = job[j].kind]],
         job' = [job EXCEPT ![j].pc = "move", ![j].at = FirstNew,
                    ![j].todo = CASE job[j].kind = "episode" -> EpisodeFiles(lib)
                                  [] job[j].kind = "staged" -> <<"staged">>
                                  [] job[j].kind = "folder" -> <<>>]
  PROVE  /\ EntriesTyped' /\ JobsTyped' /\ KindsAgree'
         /\ job'[j].at = FirstNew /\ job'[j].pc = "move" /\ job'[j].moved = <<>> /\ job'[j].kind = job[j].kind
         /\ job'[j].op = job[j].op
         /\ \A k \in Jobs \ {j} : job'[k] = job[k]
         /\ entry'[FirstNew] = [Closed EXCEPT !.open = TRUE, !.kind = job[j].kind]
         /\ \A e \in Entries \ {FirstNew} : entry'[e] = entry[e]
<1> DEFINE k == job[j].kind
           t == CASE k = "episode" -> EpisodeFiles(lib) [] k = "staged" -> <<"staged">> [] k = "folder" -> <<>>
           r == [job[j] EXCEPT !.pc = "move", !.at = FirstNew, !.todo = t]
           en == [Closed EXCEPT !.open = TRUE, !.kind = k]
<1>1. job[j] \in JobRecord /\ JobShape(job[j]) /\ k \in Kinds /\ EntriesTyped /\ JobsTyped
  BY DEF JobsTyped, JobRecord, BinTyped
<1>2. FirstNew \in Entries /\ ~entry[FirstNew].open /\ \A i \in Jobs : job[i].at # FirstNew
  BY NewEntryIsNew
<1>3. en \in EntryRecord /\ EntryShape(en) /\ en.open /\ en.kind = k
  BY <1>1, ClosedTyped, NothingIn DEF EntryRecord, EntryShape, Closed, Empty, Path
<1>4. EntriesTyped' /\ entry'[FirstNew] = en /\ \A e \in Entries \ {FirstNew} : entry'[e] = entry[e]
  <2> HIDE DEF en
  <2>1. entry' = [entry EXCEPT ![FirstNew] = en]
    BY DEF en
  <2>2. QED
    BY <1>1, <1>2, <1>3, <2>1, OneEntryChanges
<1>5. t \in Lists(k) /\ (k = "folder" => t = <<>>) /\ (k # "folder" => t # <<>>)
  BY <1>1, FirstList
<1> HIDE DEF t, en
<1>6. /\ r \in JobRecord /\ r.pc = "move" /\ r.at = FirstNew /\ r.todo = t /\ r.moved = job[j].moved
      /\ r.op = job[j].op /\ r.kind = k /\ r.video = job[j].video
  BY <1>1, <1>2, <1>5, ListsTyped DEF JobRecord, JobSteps
<1>7. job' = [job EXCEPT ![j] = r]
  <2>1. job' = [job EXCEPT ![j].pc = "move", ![j].at = FirstNew, ![j].todo = t]
    BY DEF t
  <2>2. QED
    BY <1>1, <2>1 DEF JobsTyped
<1> HIDE DEF r
<1>8. job[j].moved = <<>>
  BY <1>1, WhoIsAt DEF JobShape
<1>9. JobShape(r)
  <2>1. "move" \in StepsOf(job[j].op) /\ "move" \in Recycling
    BY <1>1, WhoIsAt DEF StepsOf, Recycling
  <2>2. FirstNew # 0
    BY <1>2, BinAssumptions
  <2>3. <<>> # <<"extra", "folder">>
    BY ListsDiffer
  <2>4. r.kind # "folder" => Partway(r)
    BY <1>5, <1>6, <1>8 DEF Partway
  <2>5. r.moved \in NoMain \cup Lists(r.kind)
    BY <1>6, <1>8, ListsTyped
  <2>6. QED
    BY <1>1, <1>5, <1>6, <1>8, <2>1, <2>2, <2>3, <2>4, <2>5 DEF JobShape
<1>10. JobsTyped' /\ job'[j] = r /\ \A i \in Jobs \ {j} : job'[i] = job[i]
  BY <1>1, <1>6, <1>7, <1>9, OneJobMoves
<1>11. KindsAgree'
  <2>1. \A i \in Jobs : job[i].pc \in Recycling \cup Restoring => job[i].at \in Entries \ {FirstNew}
    BY <1>1, <1>2 DEF JobsTyped, JobRecord, JobShape
  <2>2. \A i \in Jobs \ {j} : job'[i].pc \in Recycling \cup Restoring /\ entry'[job'[i].at].open
                            => entry'[job'[i].at].kind = job'[i].kind
    <3> SUFFICES ASSUME NEW i \in Jobs \ {j}, job'[i].pc \in Recycling \cup Restoring,
                        entry'[job'[i].at].open
                 PROVE  entry'[job'[i].at].kind = job'[i].kind
      OBVIOUS
    <3>1. job'[i] = job[i] /\ job[i].at \in Entries \ {FirstNew}
      BY <1>10, <2>1
    <3>2. entry'[job[i].at] = entry[job[i].at]
      BY <1>4, <3>1
    <3>3. QED
      BY <3>1, <3>2 DEF KindsAgree, BinTyped
  <2>3. entry'[job'[j].at].kind = job'[j].kind
    BY <1>3, <1>4, <1>6, <1>10
  <2>4. QED
    BY <2>2, <2>3 DEF KindsAgree
<1>12. QED
  BY <1>4, <1>6, <1>8, <1>10, <1>11 DEF en

LEMMA RecycleOpenTyped ==
  ASSUME BinTyped, NEW j \in Jobs, RecycleOpen(j)
  PROVE  BinTyped'
<1>1. /\ job[j] \in JobRecord /\ JobShape(job[j]) /\ JobsTyped /\ FolderTyped /\ BoundsTyped /\ HistoryTyped
      /\ EntriesTyped /\ job[j].pc = "recycle"
  BY DEF BinTyped, JobsTyped, RecycleOpen
<1>2. UNCHANGED <<waiting, binBounds, owed, recycled, halfGone, overtaken>>
  BY DEF RecycleOpen
<1>3. BoundsTyped'
  <2>1. UNCHANGED binFaults \/ Fault("mkdir")
    BY DEF RecycleOpen
  <2>2. QED
    BY <1>1, <1>2, <2>1, BoundsKept DEF binBounds, BinFaults
<1>4. ASSUME UNCHANGED entry, FolderTyped', HistoryTyped', NEW ok \in BOOLEAN, After(j, ok)
      PROVE  BinTyped'
  <2> DEFINE r == Onward(job[j], ok)
  <2>1. r \in JobRecord /\ JobShape(r) /\ job' = [job EXCEPT ![j] = r]
    BY <1>1, <1>4, AfterIsOnward
  <2>2. r.pc \notin Recycling \cup Restoring
    BY <1>1 DEF Onward, IdleJob, JobRecord, Recycling, Restoring
  <2> HIDE DEF r
  <2>3. QED
    BY <1>3, <1>4, <2>1, <2>2, AwayFromBin
<1>5. CASE UNCHANGED <<lib, seriesDir, entry, purged>> /\ \E ok \in BOOLEAN : After(j, ok)
  <2>1. FolderTyped' /\ HistoryTyped'
    BY <1>1, <1>2, <1>5 DEF FolderTyped, HistoryTyped
  <2>2. QED
    BY <1>4, <1>5, <2>1
<1>6. CASE /\ \E going \in SUBSET Path : /\ lib' = [p \in Path |-> IF p \in going THEN NoVideo ELSE lib[p]]
                                         /\ job[j].kind = "folder" => going = Path
           /\ purged' = purged \cup (In(lib) \ In(lib'))
           /\ seriesDir' = (seriesDir /\ job[j].kind # "folder")
           /\ After(j, TRUE) /\ UNCHANGED entry
  <2>1. lib' \in [Path -> Files] /\ seriesDir' \in BOOLEAN
    BY <1>1, <1>6 DEF FolderTyped, Files
  <2>2. ~seriesDir' => lib' = Empty
    BY <1>1, <1>6 DEF FolderTyped, Empty
  <2>3. purged' \subseteq Videos
    BY <1>1, <1>6, InTyped DEF FolderTyped, HistoryTyped
  <2>4. FolderTyped' /\ HistoryTyped'
    BY <1>1, <1>2, <2>1, <2>2, <2>3 DEF FolderTyped, HistoryTyped
  <2>5. QED
    BY <1>4, <1>6, <2>4
<1>7. CASE /\ NewEntry # {} /\ UNCHANGED <<lib, seriesDir, purged>>
           /\ entry' = [entry EXCEPT ![FirstNew] = [Closed EXCEPT !.open = TRUE, !.kind = job[j].kind]]
           /\ job' = [job EXCEPT ![j].pc = "move", ![j].at = FirstNew,
                       ![j].todo = CASE job[j].kind = "episode" -> EpisodeFiles(lib)
                                     [] job[j].kind = "staged" -> <<"staged">>
                                     [] job[j].kind = "folder" -> <<>>]
  <2>1. FolderTyped' /\ HistoryTyped'
    BY <1>1, <1>2, <1>7 DEF FolderTyped, HistoryTyped
  <2>2. EntriesTyped' /\ JobsTyped' /\ KindsAgree'
    BY <1>1, <1>7, OpensTyped
  <2>3. QED
    BY <1>3, <2>1, <2>2 DEF BinTyped
<1>8. QED
  <2> DEFINE going == CASE job[j].kind = "episode" -> {"video", "extra"}
                        [] job[j].kind = "staged" -> {"staged"}
                        [] job[j].kind = "folder" -> Path
  <2>1. going \in SUBSET Path /\ (job[j].kind = "folder" => going = Path)
    BY <1>1 DEF JobRecord, Kinds, Path
  <2>2. CASE ~Present(job[j].kind) /\ After(j, TRUE) /\ UNCHANGED <<lib, seriesDir, entry, binFaults, purged>>
    BY <1>5, <2>2
  <2>3. CASE Fault("mkdir") /\ After(j, FALSE) /\ UNCHANGED <<lib, seriesDir, entry, purged>>
    BY <1>5, <2>3
  <2>4. CASE /\ lib' = [p \in Path |-> IF p \in going THEN NoVideo ELSE lib[p]]
             /\ purged' = purged \cup (In(lib) \ In(lib'))
             /\ seriesDir' = (seriesDir /\ job[j].kind # "folder")
             /\ After(j, TRUE) /\ UNCHANGED <<entry, binFaults>>
    <3> HIDE DEF going
    <3>1. QED
      BY <1>6, <2>1, <2>4
  <2>5. QED
    BY <1>7, <2>2, <2>3, <2>4 DEF RecycleOpen

\* A job at an entry.
LEMMA JobAtEntry ==
  ASSUME BinTyped, NEW j \in Jobs, job[j].pc \in Recycling \cup Restoring
  PROVE  /\ job[j].at \in Entries /\ At(j) = entry[job[j].at]
         /\ At(j) \in EntryRecord /\ EntryShape(At(j))
         /\ At(j).files \in [Path -> Files] /\ In(At(j).files) \subseteq Videos
         /\ At(j).open => At(j).kind = job[j].kind
         /\ job[j] \in JobRecord /\ JobShape(job[j]) /\ job[j].kind \in Kinds
<1>1. job[j] \in JobRecord /\ JobShape(job[j]) /\ job[j].kind \in Kinds
  BY DEF BinTyped, JobsTyped, JobRecord
<1>2. job[j].at \in Entries
  BY <1>1 DEF JobRecord, JobShape
<1>3. At(j) \in EntryRecord /\ EntryShape(At(j))
  BY <1>2 DEF BinTyped, EntriesTyped, At
<1>4. At(j).files \in [Path -> Files]
  BY <1>3 DEF EntryRecord
<1>5. QED
  BY <1>1, <1>2, <1>3, <1>4, InTyped DEF BinTyped, KindsAgree, At

\* One file of an entry changes, the kind's own or its companion.
LEMMA FilePut ==
  ASSUME EntriesTyped, NEW e \in Entries, NEW p \in Path, NEW x \in Files,
         p = "extra" \/ p = Main(entry[e].kind) \/ x = NoVideo,
         entry[e].kind # "folder" \/ entry[e].tree, entry[e].open,
         entry' = [entry EXCEPT ![e].files[p] = x]
  PROVE  /\ EntriesTyped' /\ entry'[e].files = [entry[e].files EXCEPT ![p] = x]
         /\ entry'[e].open = entry[e].open /\ entry'[e].kind = entry[e].kind
         /\ entry'[e].tree = entry[e].tree /\ entry'[e].listed = entry[e].listed
         /\ \A f \in Entries \ {e} : entry'[f] = entry[f]
<1> DEFINE en == [entry[e] EXCEPT !.files[p] = x]
<1>1. entry[e] \in EntryRecord /\ EntryShape(entry[e])
  BY DEF EntriesTyped
<1>2. /\ en.files = [entry[e].files EXCEPT ![p] = x] /\ en.open = entry[e].open
      /\ en.kind = entry[e].kind /\ en.tree = entry[e].tree /\ en.listed = entry[e].listed
      /\ en \in EntryRecord
  BY <1>1 DEF EntryRecord
<1>3. entry' = [entry EXCEPT ![e] = en]
  BY <1>1 DEF EntriesTyped
<1> HIDE DEF en
<1>4. entry[e].kind \in Kinds /\ entry[e].files \in [Path -> Files]
  BY <1>1 DEF EntryRecord
<1>5. EntryShape(en)
  <2>1. en.kind = "episode" => en.files["staged"] = NoVideo
    BY <1>1, <1>2, <1>4, MainFiles DEF EntryShape, Path
  <2>2. en.kind = "staged" => en.files["video"] = NoVideo
    BY <1>1, <1>2, <1>4, MainFiles DEF EntryShape, Path
  <2>3. QED
    BY <1>1, <1>2, <2>1, <2>2 DEF EntryShape
<1>6. QED
  BY <1>2, <1>3, <1>5, OneEntryChanges

\* what the first or the last name of a list is
LEMMA NextFile ==
  ASSUME NEW jb \in JobRecord, JobShape(jb), Partway(jb), jb.kind # "folder"
  PROVE  Head(jb.todo) \in Path /\ (Head(jb.todo) = "extra" \/ Head(jb.todo) = Main(jb.kind))
  BY PartwayIs DEF Path

LEMMA RecycleMoveTyped ==
  ASSUME BinTyped, NEW j \in Jobs, RecycleMove(j)
  PROVE  BinTyped'
<1> DEFINE e == job[j].at
           p == Head(job[j].todo)
<1>1. /\ JobsTyped /\ FolderTyped /\ BoundsTyped /\ HistoryTyped /\ EntriesTyped
      /\ job[j].pc = "move" /\ job[j].kind # "folder" /\ job[j].pc \in Recycling
  BY DEF BinTyped, RecycleMove, Recycling
<1>2. /\ e \in Entries /\ At(j) = entry[e] /\ (At(j).open => At(j).kind = job[j].kind)
      /\ job[j] \in JobRecord /\ JobShape(job[j]) /\ job[j].kind \in Kinds
  BY <1>1, JobAtEntry
<1>3. Partway(job[j])
  BY <1>1, <1>2 DEF JobShape
<1>4. p \in Path /\ (p = "extra" \/ p = Main(job[j].kind))
  BY <1>1, <1>2, <1>3, NextFile
<1>5. UNCHANGED <<waiting, seriesDir, binBounds, historyVars>>
  BY DEF RecycleMove
<1>6. BoundsTyped' /\ HistoryTyped'
  <2>1. UNCHANGED binFaults \/ Fault("move")
    BY DEF RecycleMove
  <2>2. QED
    BY <1>1, <1>5, <2>1, BoundsKept DEF binBounds, BinFaults, historyVars, HistoryTyped
<1>7. CASE Goto(j, "rollback") /\ UNCHANGED <<lib, entry>>
  <2>1. PICK r \in JobRecord : /\ JobShape(r) /\ job' = [job EXCEPT ![j] = r]
                               /\ r.at = job[j].at /\ r.kind = job[j].kind
    BY <1>1, <1>7, ToRollback
  <2>2. FolderTyped' /\ EntriesTyped'
    BY <1>1, <1>5, <1>7 DEF FolderTyped, EntriesTyped
  <2>3. QED
    BY <1>1, <1>6, <1>7, <2>1, <2>2, AtAnEntry
<1>8. CASE /\ lib[p] # NoVideo /\ At(j).open
           /\ entry' = [entry EXCEPT ![job[j].at].files[p] = lib[p]]
           /\ \/ lib' = [lib EXCEPT ![p] = NoVideo] /\ MovedOne(j)
              \/ Goto(j, "unlink") /\ UNCHANGED lib
  <2>1. /\ EntriesTyped'
        /\ \A f \in Entries : entry'[f].open => entry[f].open /\ entry'[f].kind = entry[f].kind
    <3>1. lib[p] \in Files
      BY <1>1, <1>4 DEF FolderTyped
    <3>2. entry[e].open /\ entry[e].kind # "folder" /\ (p = "extra" \/ p = Main(entry[e].kind))
      BY <1>1, <1>2, <1>4, <1>8
    <3>3. entry' = [entry EXCEPT ![e].files[p] = lib[p]]
      BY <1>8
    <3> HIDE DEF e, p
    <3>4. QED
      BY <1>1, <1>2, <1>4, <3>1, <3>2, <3>3, FilePut
  <2>2. FolderTyped'
    <3>1. NoVideo \in Files
      BY DEF Files
    <3> HIDE DEF p
    <3>2. QED
      BY <1>1, <1>4, <1>5, <1>8, <3>1, LibSet DEF FolderTyped
  <2>3. \E r \in JobRecord : /\ JobShape(r) /\ job' = [job EXCEPT ![j] = r]
                             /\ r.at = job[j].at /\ r.kind = job[j].kind
    <3>1. CASE MovedOne(j)
      BY <1>1, <3>1, MovedOneShape
    <3>2. CASE Goto(j, "unlink")
      <4> DEFINE r == [job[j] EXCEPT !.pc = "unlink"]
      <4>1. /\ r \in JobRecord /\ r.pc = "unlink" /\ r.op = job[j].op /\ r.kind = job[j].kind
            /\ r.at = job[j].at /\ r.todo = job[j].todo /\ r.moved = job[j].moved /\ r.video = job[j].video
        BY <1>2 DEF JobRecord, JobSteps
      <4>2. job' = [job EXCEPT ![j] = r]
        BY <1>1, <3>2 DEF Goto, JobsTyped
      <4> HIDE DEF r
      <4>3. "unlink" \in StepsOf(job[j].op) /\ "unlink" \in Recycling
        BY <1>1, WhoIsAt DEF StepsOf, Recycling
      <4>4. Partway(r)
        BY <1>3, <4>1 DEF Partway
      <4>5. JobShape(r)
        BY <1>1, <1>2, <4>1, <4>3, <4>4 DEF JobShape
      <4>6. QED
        BY <4>1, <4>2, <4>5
    <3>3. QED
      BY <1>8, <3>1, <3>2
  <2>4. QED
    BY <1>1, <1>6, <2>1, <2>2, <2>3, AtAnEntry
<1>9. QED
  BY <1>7, <1>8 DEF RecycleMove

LEMMA RecycleUnlinkTyped ==
  ASSUME BinTyped, NEW j \in Jobs, RecycleUnlink(j)
  PROVE  BinTyped'
<1> DEFINE p == Head(job[j].todo)
<1>1. /\ JobsTyped /\ FolderTyped /\ BoundsTyped /\ HistoryTyped /\ EntriesTyped
      /\ job[j].pc = "unlink" /\ job[j].pc \in Recycling
  BY DEF BinTyped, RecycleUnlink, Recycling
<1>2. job[j] \in JobRecord /\ JobShape(job[j]) /\ job[j].kind \in Kinds
  BY <1>1, JobAtEntry
<1>3. Partway(job[j]) /\ job[j].kind # "folder"
  BY <1>1, <1>2 DEF JobShape
<1>4. p \in Path
  BY <1>2, <1>3, NextFile
<1>5. UNCHANGED <<waiting, seriesDir, entry, binBounds, owed, recycled, purged, halfGone>>
  BY DEF RecycleUnlink
<1>6. BoundsTyped' /\ HistoryTyped' /\ EntriesTyped'
  <2>1. UNCHANGED binFaults \/ Fault("unlink")
    BY DEF RecycleUnlink
  <2>2. overtaken' \subseteq Videos
    <3>1. UNCHANGED overtaken \/ Overtakes([lib' EXCEPT ![p] = At(j).files[p]])
      BY DEF RecycleUnlink
    <3>2. QED
      BY <1>1, <3>1, OvertakesTyped DEF HistoryTyped
  <2>3. BoundsTyped'
    BY <1>1, <1>5, <2>1, BoundsKept DEF binBounds, BinFaults
  <2>4. QED
    BY <1>1, <1>5, <2>2, <2>3 DEF HistoryTyped, EntriesTyped
<1>7. FolderTyped'
  <2>1. NoVideo \in Files /\ (UNCHANGED lib \/ lib' = [lib EXCEPT ![p] = NoVideo])
    BY DEF Files, RecycleUnlink
  <2> HIDE DEF p
  <2>2. QED
    BY <1>1, <1>4, <1>5, <2>1, LibSet DEF FolderTyped
<1>8. \E r \in JobRecord : /\ JobShape(r) /\ job' = [job EXCEPT ![j] = r]
                           /\ r.at = job[j].at /\ r.kind = job[j].kind
  BY <1>1, <1>3, ToRollback, MovedOneShape DEF RecycleUnlink
<1>9. QED
  BY <1>1, <1>5, <1>6, <1>7, <1>8, AtAnEntry

\* The tree has moved: the job goes on to the manifest.
LEMMA TreeMovedShape ==
  ASSUME JobsTyped, NEW j \in Jobs, job[j].pc \in {"move", "prune"}, job[j].kind = "folder",
         job' = [job EXCEPT ![j].pc = "manifest", ![j].moved = <<"folder">>]
  PROVE  \E r \in JobRecord : /\ JobShape(r) /\ job' = [job EXCEPT ![j] = r]
                              /\ r.at = job[j].at /\ r.kind = job[j].kind
<1> DEFINE r == [job[j] EXCEPT !.pc = "manifest", !.moved = <<"folder">>]
<1>1. job[j] \in JobRecord /\ JobShape(job[j]) /\ "folder" \in Kinds /\ Main("folder") = "folder"
  BY DEF JobsTyped, Kinds, Main
<1>2. <<"folder">> \in Lists("folder") /\ <<"folder">> \in TodoLists
  BY <1>1, ListsTyped
<1>3. /\ r \in JobRecord /\ r.pc = "manifest" /\ r.op = job[j].op /\ r.kind = job[j].kind
      /\ r.at = job[j].at /\ r.todo = job[j].todo /\ r.moved = <<"folder">> /\ r.video = job[j].video
  BY <1>1, <1>2 DEF JobRecord, JobSteps
<1>4. job' = [job EXCEPT ![j] = r]
  BY <1>1 DEF JobsTyped
<1> HIDE DEF r
<1>5. "manifest" \in StepsOf(job[j].op) /\ {"manifest", "move", "prune"} \subseteq Recycling
  BY <1>1, WhoIsAt DEF StepsOf, Recycling
<1>6. <<"folder">> \notin NoMain
  BY ListsDiffer DEF NoMain
<1>7. JobShape(r)
  BY <1>1, <1>2, <1>3, <1>5, <1>6 DEF JobShape
<1>8. QED
  BY <1>3, <1>4, <1>7

LEMMA RecycleTreeTyped ==
  ASSUME BinTyped, NEW j \in Jobs, RecycleTree(j)
  PROVE  BinTyped'
<1> DEFINE e == job[j].at
<1>1. /\ JobsTyped /\ FolderTyped /\ BoundsTyped /\ HistoryTyped /\ EntriesTyped
      /\ job[j].pc = "move" /\ job[j].kind = "folder" /\ job[j].pc \in Recycling
  BY DEF BinTyped, RecycleTree, Recycling
<1>2. /\ e \in Entries /\ At(j) = entry[e] /\ (At(j).open => At(j).kind = job[j].kind)
      /\ job[j] \in JobRecord /\ JobShape(job[j]) /\ At(j) \in EntryRecord /\ EntryShape(At(j))
  BY <1>1, JobAtEntry
<1>3. UNCHANGED <<waiting, binBounds, historyVars>>
  BY DEF RecycleTree
<1>4. BoundsTyped' /\ HistoryTyped'
  <2>1. UNCHANGED binFaults \/ Fault("move")
    BY DEF RecycleTree
  <2>2. QED
    BY <1>1, <1>3, <2>1, BoundsKept DEF binBounds, BinFaults, historyVars, HistoryTyped
<1>5. CASE Goto(j, "rollback") /\ UNCHANGED <<lib, seriesDir, entry>>
  <2>1. PICK r \in JobRecord : /\ JobShape(r) /\ job' = [job EXCEPT ![j] = r]
                               /\ r.at = job[j].at /\ r.kind = job[j].kind
    BY <1>1, <1>5, ToRollback
  <2>2. FolderTyped' /\ EntriesTyped'
    BY <1>1, <1>3, <1>5 DEF FolderTyped, EntriesTyped
  <2>3. QED
    BY <1>1, <1>4, <1>5, <2>1, <2>2, AtAnEntry
<1>6. CASE /\ seriesDir /\ At(j).open
           /\ entry' = [entry EXCEPT ![e].files = lib, ![e].tree = TRUE]
           /\ \/ /\ lib' = Empty /\ seriesDir' = FALSE
                 /\ job' = [job EXCEPT ![j].pc = "manifest", ![j].moved = <<"folder">>]
              \/ Goto(j, "prune") /\ UNCHANGED <<lib, seriesDir>>
  <2>1. EntriesTyped' /\ \A f \in Entries : entry'[f].open => entry[f].open /\ entry'[f].kind = entry[f].kind
    <3> DEFINE en == [entry[e] EXCEPT !.files = lib, !.tree = TRUE]
    <3>1. /\ en \in EntryRecord /\ en.files = lib /\ en.tree = TRUE /\ en.open = TRUE /\ en.kind = "folder"
          /\ en.listed = entry[e].listed
      BY <1>1, <1>2, <1>6 DEF EntryRecord, FolderTyped
    <3>2. entry' = [entry EXCEPT ![e] = en]
      BY <1>1, <1>2, <1>6 DEF EntriesTyped
    <3> HIDE DEF en
    <3>3. EntryShape(en)
      <4>1. entry[e].kind = "folder" /\ EntryShape(entry[e]) /\ en.kind = entry[e].kind
        BY <1>1, <1>2, <1>6, <3>1
      <4>2. QED
        BY <3>1, <4>1 DEF EntryShape
    <3>4. EntriesTyped' /\ entry'[e] = en /\ \A f \in Entries \ {e} : entry'[f] = entry[f]
      BY <1>1, <1>2, <3>1, <3>2, <3>3, OneEntryChanges
    <3>5. entry[e].open /\ entry[e].kind = "folder"
      BY <1>1, <1>2, <1>6
    <3>6. QED
      BY <3>1, <3>4, <3>5
  <2>2. FolderTyped'
    BY <1>1, <1>3, <1>6, EmptyTyped DEF FolderTyped
  <2>3. \E r \in JobRecord : /\ JobShape(r) /\ job' = [job EXCEPT ![j] = r]
                             /\ r.at = job[j].at /\ r.kind = job[j].kind
    <3>1. CASE job' = [job EXCEPT ![j].pc = "manifest", ![j].moved = <<"folder">>]
      BY <1>1, <3>1, TreeMovedShape
    <3>2. CASE Goto(j, "prune")
      <4> DEFINE r == [job[j] EXCEPT !.pc = "prune"]
      <4>1. /\ r \in JobRecord /\ r.pc = "prune" /\ r.op = job[j].op /\ r.kind = job[j].kind
            /\ r.at = job[j].at /\ r.todo = job[j].todo /\ r.moved = job[j].moved /\ r.video = job[j].video
        BY <1>2 DEF JobRecord, JobSteps
      <4>2. job' = [job EXCEPT ![j] = r]
        BY <1>1, <3>2 DEF Goto, JobsTyped
      <4> HIDE DEF r
      <4>3. "prune" \in StepsOf(job[j].op) /\ "prune" \in Recycling
        BY <1>1, WhoIsAt DEF StepsOf, Recycling
      <4>4. JobShape(r)
        BY <1>1, <1>2, <4>1, <4>3 DEF JobShape
      <4>5. QED
        BY <4>1, <4>2, <4>4
    <3>3. QED
      BY <1>6, <3>1, <3>2
  <2>4. QED
    BY <1>1, <1>4, <2>1, <2>2, <2>3, AtAnEntry
<1>7. QED
  BY <1>5, <1>6 DEF RecycleTree

LEMMA PruneTreeTyped ==
  ASSUME BinTyped, NEW j \in Jobs, PruneTree(j)
  PROVE  BinTyped'
<1>1. /\ JobsTyped /\ FolderTyped /\ BoundsTyped /\ HistoryTyped /\ EntriesTyped
      /\ job[j].pc = "prune" /\ job[j].pc \in Recycling
  BY DEF BinTyped, PruneTree, Recycling
<1>2. job[j] \in JobRecord /\ JobShape(job[j]) /\ In(At(j).files) \subseteq Videos
  BY <1>1, JobAtEntry
<1>3. job[j].kind = "folder"
  BY <1>1, <1>2 DEF JobShape
<1>4. UNCHANGED <<waiting, entry, binBounds, owed, recycled, purged>>
  BY DEF PruneTree
<1>5. BoundsTyped' /\ HistoryTyped' /\ EntriesTyped'
  <2>1. UNCHANGED binFaults \/ Fault("unlink")
    BY DEF PruneTree
  <2>2. overtaken' \subseteq Videos
    <3>1. UNCHANGED overtaken \/ \E p \in Path : Overtakes([lib' EXCEPT ![p] = At(j).files[p]])
      BY DEF PruneTree
    <3>2. QED
      BY <1>1, <3>1, OvertakesTyped DEF HistoryTyped
  <2>3. BoundsTyped'
    BY <1>1, <1>4, <2>1, BoundsKept DEF binBounds, BinFaults
  <2>4. halfGone' \subseteq Videos
    BY <1>1, <1>2 DEF PruneTree, HistoryTyped
  <2>5. QED
    BY <1>1, <1>4, <2>2, <2>3, <2>4 DEF HistoryTyped, EntriesTyped
<1>6. CASE UNCHANGED <<seriesDir, job>> /\ \E p \in Path : lib' = [lib EXCEPT ![p] = NoVideo]
  <2>1. PICK p \in Path : lib' = [lib EXCEPT ![p] = NoVideo]
    BY <1>6
  <2>2. NoVideo \in Files
    BY DEF Files
  <2>3. FolderTyped'
    BY <1>1, <1>4, <1>6, <2>1, <2>2, LibSet DEF FolderTyped
  <2>4. JobsTyped' /\ KindsAgree'
    BY <1>1, <1>4, <1>6 DEF JobsTyped, KindsAgree, BinTyped
  <2>5. QED
    BY <1>5, <2>3, <2>4 DEF BinTyped
<1>7. CASE lib = Empty /\ lib' = lib /\ seriesDir' = FALSE
           /\ job' = [job EXCEPT ![j].pc = "manifest", ![j].moved = <<"folder">>]
  <2>1. FolderTyped'
    BY <1>1, <1>4, <1>7 DEF FolderTyped
  <2>2. QED
    BY <1>1, <1>3, <1>4, <1>5, <1>7, <2>1, TreeMovedShape, AtAnEntry
<1>8. CASE Goto(j, "rollback") /\ UNCHANGED <<lib, seriesDir>>
  <2>1. FolderTyped'
    BY <1>1, <1>4, <1>8 DEF FolderTyped
  <2>2. QED
    BY <1>1, <1>4, <1>5, <1>8, <2>1, ToRollback, AtAnEntry
<1>9. QED
  BY <1>6, <1>7, <1>8 DEF PruneTree

\* The names of what a job has moved.
LEMMA NamesMoved ==
  ASSUME NEW jb \in JobRecord, JobShape(jb), jb.moved \notin NoMain
  PROVE  LET m == Main(jb.kind)
             names == {jb.moved[i] : i \in DOMAIN jb.moved}
         IN /\ names = {m} \/ names = {"extra", m}
            /\ jb.kind = "folder" => "extra" \notin names
            /\ names \subseteq Path \cup {"folder"}
            /\ jb.moved = <<m>> \/ jb.moved = <<"extra", m>>
<1> DEFINE m == Main(jb.kind)
           names == {jb.moved[i] : i \in DOMAIN jb.moved}
<1>1. jb.kind \in Kinds /\ m # "extra" /\ m \in Path \cup {"folder"}
  BY MainFiles DEF JobRecord, Path
<1>2. jb.moved = <<m>> \/ jb.moved = <<"extra", m>>
  BY DEF JobShape, Lists, NoMain
<1>3. names = {m} \/ names = {"extra", m}
  <2> HIDE DEF m
  <2>1. CASE jb.moved = <<m>>
    BY <2>1, NamesOfLists
  <2>2. CASE jb.moved = <<"extra", m>>
    BY <2>2, NamesOfLists
  <2>3. QED
    BY <1>2, <2>1, <2>2
<1>4. ASSUME jb.kind = "folder" PROVE "extra" \notin names
  <2>1. jb.moved = <<"folder">>
    <3>1. jb.moved \in {<<>>, <<"folder">>}
      BY <1>4 DEF JobShape
    <3>2. QED
      BY <3>1 DEF NoMain
  <2>2. names = {"folder"}
    BY <2>1, NamesOfLists
  <2>3. QED
    BY <2>2
<1> HIDE DEF names
<1>5. names \subseteq Path \cup {"folder"}
  BY <1>1, <1>3 DEF Path
<1>6. QED
  BY <1>2, <1>3, <1>4, <1>5 DEF names

LEMMA WriteManifestTyped ==
  ASSUME BinTyped, NEW j \in Jobs, WriteManifest(j)
  PROVE  BinTyped'
<1> DEFINE e == job[j].at
           names == {job[j].moved[i] : i \in DOMAIN job[j].moved}
<1>1. /\ JobsTyped /\ FolderTyped /\ BoundsTyped /\ HistoryTyped /\ EntriesTyped
      /\ job[j].pc = "manifest" /\ job[j].pc \in Recycling
  BY DEF BinTyped, WriteManifest, Recycling
<1>2. /\ e \in Entries /\ At(j) = entry[e] /\ (At(j).open => At(j).kind = job[j].kind)
      /\ job[j] \in JobRecord /\ JobShape(job[j]) /\ At(j) \in EntryRecord /\ EntryShape(At(j))
      /\ In(At(j).files) \subseteq Videos
  BY <1>1, JobAtEntry
<1>3. UNCHANGED <<libVars, binBounds, owed, purged, halfGone, overtaken>>
  BY DEF WriteManifest
<1>4. BoundsTyped' /\ FolderTyped' /\ HistoryTyped'
  <2>1. UNCHANGED binFaults \/ Fault("manifest")
    BY DEF WriteManifest
  <2>2. recycled' \subseteq Entries \X Videos
    BY <1>1, <1>2 DEF WriteManifest, HistoryTyped
  <2>3. BoundsTyped'
    BY <1>1, <1>3, <2>1, BoundsKept DEF binBounds, BinFaults
  <2>4. QED
    BY <1>1, <1>3, <2>2, <2>3 DEF HistoryTyped, FolderTyped, libVars
<1>5. CASE Goto(j, "rollback") /\ UNCHANGED entry
  <2>1. EntriesTyped'
    BY <1>1, <1>5 DEF EntriesTyped
  <2>2. QED
    BY <1>1, <1>4, <1>5, <2>1, ToRollback, AtAnEntry
<1>6. CASE /\ At(j).open /\ After(j, TRUE)
           /\ entry' = [entry EXCEPT ![e].listed = names]
  <2> DEFINE r == Onward(job[j], TRUE)
             en == [entry[e] EXCEPT !.listed = names]
  <2>1. r \in JobRecord /\ JobShape(r) /\ job' = [job EXCEPT ![j] = r]
    BY <1>1, <1>6, AfterIsOnward
  <2>2. r.pc \notin Recycling \cup Restoring
    BY <1>2 DEF Onward, IdleJob, JobRecord, Recycling, Restoring
  <2>3. /\ names = {Main(job[j].kind)} \/ names = {"extra", Main(job[j].kind)}
        /\ (job[j].kind = "folder" => "extra" \notin names) /\ names \subseteq Path \cup {"folder"}
    <3>1. job[j].moved \notin NoMain
      BY <1>1, <1>2 DEF JobShape
    <3>2. QED
      BY <1>2, <3>1, NamesMoved
  <2> HIDE DEF r, names
  <2>4. /\ en \in EntryRecord /\ en.listed = names /\ en.files = entry[e].files /\ en.open
        /\ en.kind = entry[e].kind /\ en.tree = entry[e].tree
    BY <1>2, <1>6, <2>3 DEF EntryRecord
  <2>5. entry' = [entry EXCEPT ![e] = en]
    BY <1>1, <1>2, <1>6 DEF EntriesTyped
  <2> HIDE DEF en
  <2>6. EntryShape(en)
    BY <1>2, <1>6, <2>3, <2>4 DEF EntryShape
  <2>7. EntriesTyped' /\ entry'[e] = en /\ \A f \in Entries \ {e} : entry'[f] = entry[f]
    BY <1>1, <1>2, <2>4, <2>5, <2>6, OneEntryChanges
  <2>8. \A f \in Entries : entry'[f].open => entry[f].open /\ entry'[f].kind = entry[f].kind
    BY <1>2, <1>6, <2>4, <2>7
  <2>9. QED
    BY <1>1, <1>4, <2>1, <2>2, <2>7, <2>8, AtAnEntry
<1>7. QED
  BY <1>5, <1>6 DEF WriteManifest

\* The last name a job has moved, and the list without it.
LEMMA LastMoved ==
  ASSUME NEW jb \in JobRecord, JobShape(jb), jb.moved # <<>>
  PROVE  LET m == Main(jb.kind)
             p == jb.moved[Len(jb.moved)]
             rest == SubSeq(jb.moved, 1, Len(jb.moved) - 1)
         IN /\ \/ jb.moved = <<"extra">> /\ p = "extra" /\ rest = <<>>
               \/ jb.moved = <<m>> /\ p = m /\ rest = <<>>
               \/ jb.moved = <<"extra", m>> /\ p = m /\ rest = <<"extra">>
            /\ p = "extra" \/ p = m
            /\ jb.moved \in NoMain <=> p = "extra"
            /\ p = "folder" <=> jb.kind = "folder"
            /\ p # "folder" => p \in Path
            /\ rest \in NoMain /\ (jb.kind = "folder" => rest = <<>>)
<1> DEFINE m == Main(jb.kind)
           p == jb.moved[Len(jb.moved)]
           rest == SubSeq(jb.moved, 1, Len(jb.moved) - 1)
<1>1. /\ jb.kind \in Kinds /\ m # "extra" /\ m \in Path \cup {"folder"} /\ "extra" \in Path
      /\ m = "folder" <=> jb.kind = "folder"
  BY MainFiles DEF JobRecord, Path
<1>2. jb.moved \in {<<"extra">>, <<m>>, <<"extra", m>>}
  BY DEF JobShape, Lists, NoMain
<1>3. jb.kind = "folder" => jb.moved = <<"folder">>
  BY DEF JobShape
<1>4. /\ <<m>> \notin NoMain /\ <<"extra", m>> \notin NoMain /\ <<"extra">> \in NoMain /\ <<>> \in NoMain
      /\ <<"extra">> # <<"folder">> /\ <<"folder">> # <<"extra", "folder">>
  <2> HIDE DEF m
  <2>1. QED
    BY <1>1, ListsDiffer DEF NoMain
<1>5. \/ jb.moved = <<"extra">> /\ p = "extra" /\ rest = <<>>
      \/ jb.moved = <<m>> /\ p = m /\ rest = <<>>
      \/ jb.moved = <<"extra", m>> /\ p = m /\ rest = <<"extra">>
  <2> HIDE DEF m
  <2>1. CASE jb.moved = <<"extra">>
    BY <2>1, TakeLast
  <2>2. CASE jb.moved = <<m>>
    BY <2>2, TakeLast
  <2>3. CASE jb.moved = <<"extra", m>>
    BY <2>3, TakeLast
  <2>4. QED
    BY <1>2, <2>1, <2>2, <2>3
<1> HIDE DEF m, p, rest
<1>6. jb.moved \in NoMain <=> p = "extra"
  BY <1>1, <1>4, <1>5
<1>7. jb.kind = "folder" => p = "folder" /\ rest = <<>>
  BY <1>1, <1>3, <1>4, <1>5 DEF m
<1>8. QED
  BY <1>1, <1>4, <1>5, <1>6, <1>7 DEF m, p, rest

\* A file or the tree goes back into the series folder.
LEMMA BackTyped ==
  ASSUME FolderTyped, EntriesTyped, NEW e \in Entries, NEW p, UNCHANGED waiting,
         p = "extra" \/ p = Main(entry[e].kind), p = "extra" => entry[e].kind # "folder",
         MovesBack(p, e)
  PROVE  /\ FolderTyped' /\ EntriesTyped' /\ entry[e].open /\ seriesDir' = TRUE
         /\ entry'[e].open = entry[e].open /\ entry'[e].kind = entry[e].kind
         /\ entry'[e].listed = entry[e].listed
         /\ p = "folder" => /\ entry'[e].files = Empty /\ lib' = entry[e].files /\ lib = Empty
         /\ p # "folder" => /\ p \in Path /\ entry'[e].files = [entry[e].files EXCEPT ![p] = NoVideo]
                            /\ lib' = [lib EXCEPT ![p] = entry[e].files[p]]
         /\ \A f \in Entries \ {e} : entry'[f] = entry[f]
<1>1. /\ entry[e] \in EntryRecord /\ EntryShape(entry[e]) /\ entry[e].files \in [Path -> Files]
      /\ entry[e].kind \in Kinds
  BY DEF EntriesTyped, EntryRecord
<1>2. NoVideo \in Files
  BY DEF Files
<1>3. CASE p = "folder"
  <2> DEFINE en == [entry[e] EXCEPT !.files = Empty, !.tree = FALSE]
  <2>1. /\ ~seriesDir /\ entry[e].tree /\ lib' = entry[e].files /\ seriesDir' = TRUE
        /\ entry' = [entry EXCEPT ![e].files = Empty, ![e].tree = FALSE]
    BY <1>3 DEF MovesBack
  <2>2. entry[e].open /\ entry[e].kind = "folder" /\ lib = Empty
    BY <1>1, <2>1, ClosedTyped DEF EntryShape, FolderTyped
  <2>3. /\ en \in EntryRecord /\ en.files = Empty /\ en.tree = FALSE /\ en.open = entry[e].open
        /\ en.kind = entry[e].kind /\ en.listed = entry[e].listed
    BY <1>1, EmptyTyped DEF EntryRecord
  <2>4. entry' = [entry EXCEPT ![e] = en]
    BY <1>1, <2>1 DEF EntriesTyped
  <2> HIDE DEF en
  <2>5. EntryShape(en)
    BY <1>1, <2>2, <2>3 DEF EntryShape
  <2>6. EntriesTyped' /\ entry'[e] = en /\ \A f \in Entries \ {e} : entry'[f] = entry[f]
    BY <2>3, <2>4, <2>5, OneEntryChanges
  <2>7. FolderTyped'
    BY <1>1, <2>1 DEF FolderTyped
  <2>8. QED
    BY <1>3, <2>1, <2>2, <2>3, <2>6, <2>7
<1>4. CASE p # "folder"
  <2>1. /\ seriesDir /\ entry[e].files[p] # NoVideo /\ lib' = [lib EXCEPT ![p] = entry[e].files[p]]
        /\ entry' = [entry EXCEPT ![e].files[p] = NoVideo] /\ UNCHANGED seriesDir
    BY <1>4 DEF MovesBack
  <2>2. p \in Path /\ entry[e].kind # "folder"
    BY <1>1, <1>4, MainFiles DEF Path
  <2>3. entry[e].open
    BY <1>1, <2>1, <2>2, ClosedTyped DEF EntryShape, Empty
  <2>4. /\ EntriesTyped' /\ entry'[e].files = [entry[e].files EXCEPT ![p] = NoVideo]
        /\ entry'[e].open = entry[e].open /\ entry'[e].kind = entry[e].kind
        /\ entry'[e].listed = entry[e].listed
        /\ \A f \in Entries \ {e} : entry'[f] = entry[f]
    BY <1>2, <2>1, <2>2, <2>3, FilePut
  <2>5. FolderTyped'
    BY <1>1, <2>1, <2>2, LibSet DEF FolderTyped
  <2>6. seriesDir' = TRUE
    BY <2>1, <2>5 DEF FolderTyped
  <2>7. QED
    BY <1>4, <2>1, <2>2, <2>3, <2>4, <2>5, <2>6
<1>5. QED
  BY <1>3, <1>4

\* One file fewer to move back, whatever became of it.
LEMMA OneLess ==
  ASSUME JobsTyped, NEW j \in Jobs, job[j].pc \in {"rollback", "undo"}, job[j].moved # <<>>,
         job' = [job EXCEPT ![j].moved = SubSeq(@, 1, Len(@) - 1)]
  PROVE  \E r \in JobRecord : /\ JobShape(r) /\ job' = [job EXCEPT ![j] = r]
                              /\ r.at = job[j].at /\ r.kind = job[j].kind
<1> DEFINE rest == SubSeq(job[j].moved, 1, Len(job[j].moved) - 1)
           r == [job[j] EXCEPT !.moved = rest]
<1>1. job[j] \in JobRecord /\ JobShape(job[j])
  BY DEF JobsTyped
<1>2. rest \in NoMain /\ (job[j].kind = "folder" => rest = <<>>)
  BY <1>1, LastMoved
<1>3. job' = [job EXCEPT ![j] = r]
  BY <1>1 DEF JobsTyped
<1> HIDE DEF rest
<1>4. /\ r \in JobRecord /\ r.pc = job[j].pc /\ r.op = job[j].op /\ r.kind = job[j].kind
      /\ r.at = job[j].at /\ r.todo = job[j].todo /\ r.moved = rest /\ r.video = job[j].video
  BY <1>1, <1>2 DEF JobRecord
<1> HIDE DEF r
<1>5. r.pc \in Recycling \cup Restoring
  BY <1>4 DEF Recycling, Restoring
<1>6. JobShape(r)
  BY <1>1, <1>2, <1>4, <1>5 DEF JobShape
<1>7. QED
  BY <1>3, <1>4, <1>6

LEMMA RollbackTyped ==
  ASSUME BinTyped, NEW j \in Jobs, Rollback(j)
  PROVE  BinTyped'
<1> DEFINE e == job[j].at
           p == job[j].moved[Len(job[j].moved)]
<1>1. /\ JobsTyped /\ FolderTyped /\ BoundsTyped /\ HistoryTyped /\ EntriesTyped
      /\ job[j].pc = "rollback" /\ job[j].pc \in Recycling /\ job[j].moved # <<>>
  BY DEF BinTyped, Rollback, Recycling
<1>2. /\ e \in Entries /\ At(j) = entry[e] /\ (At(j).open => At(j).kind = job[j].kind)
      /\ job[j] \in JobRecord /\ JobShape(job[j]) /\ In(At(j).files) \subseteq Videos
      /\ At(j) \in EntryRecord /\ EntryShape(At(j))
  BY <1>1, JobAtEntry
<1>3. UNCHANGED <<waiting, binBounds, owed, recycled, purged, halfGone>>
  BY DEF Rollback
<1>4. \E r \in JobRecord : /\ JobShape(r) /\ job' = [job EXCEPT ![j] = r]
                           /\ r.at = job[j].at /\ r.kind = job[j].kind
  BY <1>1, OneLess DEF Rollback
<1>5. BoundsTyped' /\ HistoryTyped'
  <2>1. UNCHANGED binFaults \/ Fault("undo")
    BY DEF Rollback
  <2>2. overtaken' \subseteq Videos
    <3>1. UNCHANGED overtaken \/ Overtakes(lib') \/ overtaken' = overtaken \cup (In(At(j).files) \ In(lib))
      BY DEF Rollback
    <3>2. QED
      BY <1>1, <1>2, <3>1, OvertakesTyped DEF HistoryTyped
  <2>3. BoundsTyped'
    BY <1>1, <1>3, <2>1, BoundsKept DEF binBounds, BinFaults
  <2>4. QED
    BY <1>1, <1>3, <2>2, <2>3 DEF HistoryTyped
<1>6. FolderTyped' /\ EntriesTyped'
      /\ \A f \in Entries : entry'[f].open => entry[f].open /\ entry'[f].kind = entry[f].kind
  <2>1. CASE UNCHANGED <<lib, seriesDir, entry>>
    BY <1>1, <1>3, <2>1 DEF FolderTyped, EntriesTyped
  <2>2. CASE MovesBack(p, e)
    <3>1. /\ p = "extra" \/ p = Main(job[j].kind)
          /\ p = "folder" <=> job[j].kind = "folder"
      BY <1>1, <1>2, LastMoved
    <3> HIDE DEF p
    <3>2. entry[e].open
      <4>1. CASE ~entry[e].open
        <5>1. entry[e].files = Empty /\ ~entry[e].tree
          BY <1>2, <4>1, ClosedTyped DEF EntryShape
        <5>2. p = "folder" \/ p \in Path
          BY <1>2, <3>1, MainFiles DEF JobRecord, Path
        <5>3. QED
          BY <2>2, <5>1, <5>2 DEF MovesBack, Empty
      <4>2. QED
        BY <4>1
    <3>3. /\ p = "extra" \/ p = Main(entry[e].kind)
          /\ p = "extra" => entry[e].kind # "folder"
      BY <1>2, <3>1, <3>2
    <3>4. /\ FolderTyped' /\ EntriesTyped' /\ entry'[e].open = entry[e].open
          /\ entry'[e].kind = entry[e].kind /\ \A f \in Entries \ {e} : entry'[f] = entry[f]
      BY <1>1, <1>2, <1>3, <2>2, <3>3, BackTyped
    <3>5. QED
      BY <3>2, <3>4
  <2>3. QED
    BY <2>1, <2>2 DEF Rollback
<1>7. QED
  BY <1>1, <1>4, <1>5, <1>6, AtAnEntry

LEMMA DropEntryTyped ==
  ASSUME BinTyped, NEW j \in Jobs, DropEntry(j)
  PROVE  BinTyped'
<1>1. /\ JobsTyped /\ FolderTyped /\ BoundsTyped /\ HistoryTyped /\ EntriesTyped
      /\ job[j].pc = "rollback" /\ job[j].pc \in Recycling
  BY DEF BinTyped, DropEntry, Recycling
<1>2. job[j].at \in Entries /\ job[j] \in JobRecord
  BY <1>1, JobAtEntry
<1>3. BoundsTyped' /\ HistoryTyped' /\ FolderTyped'
  BY <1>1 DEF DropEntry, BoundsTyped, HistoryTyped, FolderTyped, binBounds, libVars, historyVars
<1>4. EntriesTyped' /\ entry'[job[j].at] = Closed /\ \A f \in Entries \ {job[j].at} : entry'[f] = entry[f]
  BY <1>1, <1>2, ClosedTyped, OneEntryChanges DEF DropEntry
<1>5. \A f \in Entries : entry'[f].open => entry[f].open /\ entry'[f].kind = entry[f].kind
  BY <1>4, ClosedTyped
<1> DEFINE r == Onward(job[j], FALSE)
<1>6. r \in JobRecord /\ JobShape(r) /\ job' = [job EXCEPT ![j] = r]
  BY <1>1, AfterIsOnward DEF DropEntry
<1>7. r.pc \notin Recycling \cup Restoring
  BY <1>2 DEF Onward, IdleJob, JobRecord, Recycling, Restoring
<1> HIDE DEF r
<1>8. QED
  BY <1>1, <1>3, <1>4, <1>5, <1>6, <1>7, AtAnEntry

------------------------------------------------------------------------------
(* Restore *)

LEMMA RestoreEntryTyped ==
  ASSUME BinTyped, NEW j \in Jobs, NEW e \in Entries, RestoreEntry(j, e)
  PROVE  BinTyped'
<1> DEFINE r == [IdleJob EXCEPT !.op = "restore", !.pc = "fit", !.at = e, !.kind = entry[e].kind]
<1>1. JobsTyped /\ FolderTyped /\ BoundsTyped /\ HistoryTyped /\ EntriesTyped
  BY DEF BinTyped
<1>2. Begin(j, "restore", r) /\ UNCHANGED <<libVars, entry, plan, binFaults, binCrashes, historyVars>>
  BY DEF RestoreEntry
<1>3. entry[e].kind \in Kinds
  BY <1>1 DEF EntriesTyped, EntryRecord
<1>4. /\ r \in JobRecord /\ r.op = "restore" /\ r.pc = "fit" /\ r.at = e /\ r.kind = entry[e].kind
      /\ r.todo = <<>> /\ r.moved = <<>>
  BY <1>3, IdleTyped DEF IdleJob, JobRecord, Ops, JobSteps
<1> HIDE DEF r
<1>5. JobShape(r)
  <2>1. "fit" \in StepsOf("restore") /\ "fit" \in Restoring /\ <<>> # <<"extra", "folder">> /\ e # 0
    BY BinAssumptions, ListsDiffer DEF StepsOf, Restoring
  <2>2. QED
    BY <1>3, <1>4, <2>1, ListsTyped DEF JobShape
<1>6. job' = [job EXCEPT ![j] = r] /\ Ask("restore")
  BY <1>2 DEF Begin
<1>7. JobsTyped' /\ job'[j] = r /\ \A k \in Jobs \ {j} : job'[k] = job[k]
  BY <1>1, <1>4, <1>5, <1>6, OneJobMoves
<1>8. BoundsTyped'
  BY <1>1, <1>2, <1>6, BoundsKept DEF Ops
<1>9. FolderTyped' /\ HistoryTyped' /\ EntriesTyped'
  BY <1>1, <1>2 DEF FolderTyped, HistoryTyped, EntriesTyped, libVars, historyVars
<1>10. KindsAgree'
  BY <1>2, <1>4, <1>7 DEF KindsAgree, BinTyped
<1>11. QED
  BY <1>7, <1>8, <1>9, <1>10 DEF BinTyped

\* What Restore reads from a manifest is a list of the entry's kind.
LEMMA ReadList ==
  ASSUME NEW en, EntryShape(en), en.kind \in Kinds
  PROVE  /\ ManifestFiles(en.listed) \in Lists(en.kind)
         /\ en.kind = "folder" => ManifestFiles(en.listed) # <<"extra", "folder">>
         /\ en.listed # {} => ManifestFiles(en.listed) # <<>>
<1> DEFINE m == Main(en.kind)
<1>1. m # "extra" /\ (en.kind = "folder" => m = "folder")
  BY MainFiles DEF Main
<1>2. en.listed = {} \/ en.listed = {m} \/ en.listed = {"extra", m}
  BY DEF EntryShape
<1>3. en.kind = "folder" => en.listed # {"extra", m}
  BY DEF EntryShape
<1> HIDE DEF m
<1>4. ManifestFiles({}) = <<>> /\ ManifestFiles({m}) = <<m>> /\ ManifestFiles({"extra", m}) = <<"extra", m>>
  BY <1>1, ManifestIsRead
<1>5. <<>> # <<"extra", "folder">> /\ <<m>> # <<"extra", "folder">> /\ <<m>> # <<>> /\ <<"extra", m>> # <<>>
  <2>1. <<m>> # <<"extra", "folder">>
    OBVIOUS
  <2>2. QED
    BY <1>1, <2>1, ListsDiffer
<1>6. QED
  BY <1>2, <1>3, <1>4, <1>5 DEF Lists, m

LEMMA RestoreCheckTyped ==
  ASSUME BinTyped, NEW j \in Jobs, RestoreCheck(j)
  PROVE  BinTyped'
<1> DEFINE names == ManifestFiles(At(j).listed)
           r == [job[j] EXCEPT !.pc = "back", !.todo = names]
<1>1. /\ JobsTyped /\ FolderTyped /\ BoundsTyped /\ HistoryTyped /\ EntriesTyped
      /\ job[j].pc = "fit" /\ job[j].pc \in Restoring
  BY DEF BinTyped, RestoreCheck, Restoring
<1>2. /\ job[j].at \in Entries /\ (At(j).open => At(j).kind = job[j].kind)
      /\ job[j] \in JobRecord /\ JobShape(job[j]) /\ At(j) \in EntryRecord /\ EntryShape(At(j))
      /\ job[j].kind \in Kinds
  BY <1>1, JobAtEntry
<1>3. BoundsTyped' /\ FolderTyped' /\ HistoryTyped' /\ EntriesTyped' /\ UNCHANGED entry
  BY <1>1 DEF RestoreCheck, BoundsTyped, FolderTyped, HistoryTyped, EntriesTyped, libVars, binBounds,
              historyVars
<1>4. CASE Finish(j)
  BY <1>1, <1>3, <1>4, FinishIsIdle, AtAnEntry
<1>5. CASE job' = [job EXCEPT ![j].pc = "back", ![j].todo = names]
  <2>1. /\ names \in Lists(job[j].kind) /\ names \in TodoLists
        /\ (job[j].kind = "folder" => names # <<"extra", "folder">>)
    <3>1. CASE At(j).open
      <4>1. names \in Lists(job[j].kind) /\ (job[j].kind = "folder" => names # <<"extra", "folder">>)
        BY <1>2, <3>1, ReadList
      <4>2. QED
        BY <1>2, <4>1, ListsTyped
    <3>2. CASE ~At(j).open
      <4>1. names = ManifestFiles({})
        BY <1>2, <3>2, ClosedTyped DEF EntryShape
      <4>2. ManifestFiles({}) = <<>>
        <5>1. "video" # "extra"
          OBVIOUS
        <5>2. QED
          BY <5>1, ManifestIsRead
      <4>3. <<>> # <<"extra", "folder">>
        BY ListsDiffer
      <4> HIDE DEF names
      <4>4. QED
        BY <1>2, <4>1, <4>2, <4>3, ListsTyped
    <3>3. QED
      BY <3>1, <3>2
  <2> HIDE DEF names
  <2>2. /\ r \in JobRecord /\ r.pc = "back" /\ r.op = job[j].op /\ r.kind = job[j].kind
        /\ r.at = job[j].at /\ r.todo = names /\ r.moved = job[j].moved /\ r.video = job[j].video
    BY <1>2, <2>1 DEF JobRecord, JobSteps
  <2>3. job' = [job EXCEPT ![j] = r]
    BY <1>1, <1>5 DEF JobsTyped
  <2> HIDE DEF r
  <2>4. job[j].moved = <<>> /\ job[j].op = "restore"
    BY <1>1, <1>2, WhoIsAt DEF JobShape
  <2>5. "back" \in StepsOf("restore") /\ "back" \in Restoring
    BY DEF StepsOf, Restoring
  <2>6. JobShape(r)
    BY <1>1, <1>2, <2>1, <2>2, <2>4, <2>5 DEF JobShape, Partway
  <2>7. QED
    BY <1>1, <1>3, <2>2, <2>3, <2>6, AtAnEntry
<1>6. QED
  BY <1>4, <1>5 DEF RestoreCheck

\* one more is back, or the restore gives up
LEMMA RestoreGoes ==
  ASSUME JobsTyped, NEW j \in Jobs, job[j].pc \in {"back", "backUnlink"}, Partway(job[j]),
         \/ RestoredOne(j)
         \/ Goto(j, "undo")
         \/ job[j].pc = "back" /\ Goto(j, "backUnlink")
  PROVE  \E r \in JobRecord : /\ JobShape(r) /\ job' = [job EXCEPT ![j] = r]
                              /\ r.at = job[j].at /\ r.kind = job[j].kind
<1> DEFINE jb == job[j]
           m == Main(jb.kind)
<1>1. jb \in JobRecord /\ JobShape(jb) /\ jb.kind \in Kinds /\ jb.op = "restore"
  <2>1. jb.pc \in Restoring
    BY DEF Restoring
  <2>2. QED
    BY <2>1, WhoIsAt DEF JobsTyped, JobRecord
<1>2. {"back", "backUnlink", "undo"} \subseteq StepsOf("restore") \cap Restoring
  BY DEF StepsOf, Restoring
<1>3. CASE RestoredOne(j)
  <2> DEFINE r == [jb EXCEPT !.moved = Append(@, Head(jb.todo)), !.todo = Tail(@), !.pc = "back"]
  <2>1. job' = [job EXCEPT ![j] = r]
    BY <1>1, <1>3 DEF RestoredOne, JobsTyped
  <2>2. /\ r.pc = "back" /\ r.op = jb.op /\ r.kind = jb.kind
        /\ r.at = jb.at /\ r.todo = Tail(jb.todo) /\ r.moved = Append(jb.moved, Head(jb.todo))
        /\ r.video = jb.video
    BY <1>1 DEF JobRecord
  <2>3. \/ jb.todo = <<m>> /\ Head(jb.todo) = m /\ Tail(jb.todo) = <<>>
           /\ Append(jb.moved, m) \in {<<m>>, <<"extra", m>>}
           /\ (jb.kind = "folder" => Append(jb.moved, m) = <<m>>)
        \/ jb.todo = <<"extra", m>> /\ Head(jb.todo) = "extra"
           /\ Tail(jb.todo) = <<m>> /\ Append(jb.moved, "extra") = <<"extra">> /\ jb.kind # "folder"
    BY <1>1, PartwayIs
  <2>4. \/ r.todo = <<>> /\ r.moved \in {<<m>>, <<"extra", m>>} /\ (jb.kind = "folder" => r.moved = <<m>>)
        \/ r.todo = <<m>> /\ r.moved = <<"extra">> /\ jb.kind # "folder"
    <3> HIDE DEF r, m
    <3>1. CASE Head(jb.todo) = m /\ Tail(jb.todo) = <<>> /\ Append(jb.moved, m) \in {<<m>>, <<"extra", m>>}
               /\ (jb.kind = "folder" => Append(jb.moved, m) = <<m>>)
      <4>1. r.todo = <<>> /\ r.moved = Append(jb.moved, m)
        BY <2>2, <3>1
      <4>2. QED
        BY <3>1, <4>1
    <3>2. CASE Head(jb.todo) = "extra" /\ Tail(jb.todo) = <<m>> /\ Append(jb.moved, "extra") = <<"extra">>
               /\ jb.kind # "folder"
      <4>1. r.todo = <<m>> /\ r.moved = <<"extra">>
        BY <2>2, <3>2
      <4>2. QED
        BY <3>2, <4>1
    <3>3. QED
      BY <2>3, <3>1, <3>2
  <2>5. r.todo \in TodoLists /\ r.moved \in TodoLists \cup NoMain
        /\ r.todo \in Lists(jb.kind) /\ r.moved \in NoMain \cup Lists(jb.kind)
    BY <1>1, <2>4, ListsTyped DEF Lists, JobSteps
  <2>6. r \in JobRecord
    BY <1>1, <2>2, <2>5 DEF JobRecord, JobSteps
  <2> HIDE DEF r
  <2>7. JobShape(r)
    <3>1. r.todo # <<>> => Partway(r)
      BY <2>2, <2>4 DEF Partway
    <3>2. jb.kind = "folder" => r.todo = <<>> /\ r.moved = <<"folder">>
      BY <2>4 DEF Main
    <3>3. <<>> # <<"extra", "folder">>
      BY ListsDiffer
    <3>4. jb.pc \in Recycling \cup Restoring
      BY DEF Restoring
    <3>5. QED
      BY <1>1, <1>2, <2>2, <2>5, <3>1, <3>2, <3>3, <3>4 DEF JobShape
  <2>8. QED
    BY <2>1, <2>2, <2>6, <2>7
<1>4. ASSUME NEW pc \in {"undo", "backUnlink"}, Goto(j, pc), pc = "backUnlink" => jb.pc = "back"
      PROVE  \E r \in JobRecord : /\ JobShape(r) /\ job' = [job EXCEPT ![j] = r]
                                  /\ r.at = job[j].at /\ r.kind = job[j].kind
  <2> DEFINE r == [jb EXCEPT !.pc = pc]
  <2>1. job' = [job EXCEPT ![j] = r]
    BY <1>1, <1>4 DEF Goto, JobsTyped
  <2>2. /\ r \in JobRecord /\ r.pc = pc /\ r.op = jb.op /\ r.kind = jb.kind
        /\ r.at = jb.at /\ r.todo = jb.todo /\ r.moved = jb.moved /\ r.video = jb.video
    BY <1>1 DEF JobRecord, JobSteps
  <2> HIDE DEF r
  <2>3. Partway(r) /\ r.moved \in NoMain
    BY <2>2 DEF Partway, NoMain
  <2>4. jb.pc \in Recycling \cup Restoring
    BY DEF Restoring
  <2>5. JobShape(r)
    BY <1>1, <1>2, <2>2, <2>3, <2>4 DEF JobShape
  <2>6. QED
    BY <2>1, <2>2, <2>5
<1>5. QED
  BY <1>3, <1>4

LEMMA RestoreMoveTyped ==
  ASSUME BinTyped, NEW j \in Jobs, RestoreMove(j)
  PROVE  BinTyped'
<1> DEFINE e == job[j].at
           p == Head(job[j].todo)
<1>1. /\ JobsTyped /\ FolderTyped /\ BoundsTyped /\ HistoryTyped /\ EntriesTyped
      /\ job[j].pc = "back" /\ job[j].pc \in Restoring /\ job[j].todo # <<>>
  BY DEF BinTyped, RestoreMove, Restoring
<1>2. /\ e \in Entries /\ At(j) = entry[e] /\ (At(j).open => At(j).kind = job[j].kind)
      /\ job[j] \in JobRecord /\ JobShape(job[j]) /\ job[j].kind \in Kinds
      /\ At(j) \in EntryRecord /\ EntryShape(At(j)) /\ At(j).files \in [Path -> Files]
  BY <1>1, JobAtEntry
<1>3. Partway(job[j])
  BY <1>1, <1>2 DEF JobShape
<1>4. /\ p = "extra" \/ p = Main(job[j].kind)
      /\ p = "folder" <=> job[j].kind = "folder"
      /\ p # "folder" => p \in Path
  <2>1. (p = "extra" /\ job[j].kind # "folder") \/ p = Main(job[j].kind)
    BY <1>2, <1>3, PartwayIs
  <2> HIDE DEF p
  <2>2. QED
    BY <1>2, <2>1, MainFiles DEF Path
<1>5. UNCHANGED <<waiting, binBounds, owed, purged, halfGone>>
  BY DEF RestoreMove
<1>6. BoundsTyped' /\ HistoryTyped'
  <2>1. UNCHANGED binFaults \/ Fault("move")
    BY DEF RestoreMove
  <2>2. overtaken' \subseteq Videos
    <3>1. UNCHANGED overtaken \/ Overtakes(lib')
      BY DEF RestoreMove
    <3>2. QED
      BY <1>1, <3>1, OvertakesTyped DEF HistoryTyped
  <2>3. recycled' \subseteq Entries \X Videos
    BY <1>1 DEF RestoreMove, HistoryTyped
  <2>4. BoundsTyped'
    BY <1>1, <1>5, <2>1, BoundsKept DEF binBounds, BinFaults
  <2>5. QED
    BY <1>1, <1>5, <2>2, <2>3, <2>4 DEF HistoryTyped
<1>7. \E r \in JobRecord : /\ JobShape(r) /\ job' = [job EXCEPT ![j] = r]
                           /\ r.at = job[j].at /\ r.kind = job[j].kind
  BY <1>1, <1>3, RestoreGoes DEF RestoreMove
<1>8. FolderTyped' /\ EntriesTyped'
      /\ \A f \in Entries : entry'[f].open => entry[f].open /\ entry'[f].kind = entry[f].kind
  <2> HIDE DEF p
  <2>1. CASE UNCHANGED <<lib, seriesDir, entry>>
    BY <1>1, <1>5, <2>1 DEF FolderTyped, EntriesTyped
  <2>2. CASE MovesBack(p, e)
    <3>1. entry[e].open
      <4>1. CASE ~entry[e].open
        <5>1. entry[e].files = Empty /\ ~entry[e].tree
          BY <1>2, <4>1, ClosedTyped DEF EntryShape
        <5>2. QED
          BY <1>4, <2>2, <5>1 DEF MovesBack, Empty
      <4>2. QED
        BY <4>1
    <3>2. /\ p = "extra" \/ p = Main(entry[e].kind)
          /\ p = "extra" => entry[e].kind # "folder"
      BY <1>2, <1>4, <3>1, MainFiles
    <3>3. /\ FolderTyped' /\ EntriesTyped' /\ entry'[e].open = entry[e].open
          /\ entry'[e].kind = entry[e].kind /\ \A f \in Entries \ {e} : entry'[f] = entry[f]
      BY <1>1, <1>2, <1>5, <2>2, <3>2, BackTyped
    <3>4. QED
      BY <3>1, <3>3
  <2>3. CASE /\ lib' = IF p = "folder" THEN At(j).files ELSE [lib EXCEPT ![p] = At(j).files[p]]
             /\ seriesDir' = TRUE /\ UNCHANGED entry
    <3>1. lib' \in [Path -> Files]
      BY <1>1, <1>2, <1>4, <2>3 DEF FolderTyped
    <3>2. QED
      BY <1>1, <1>5, <2>3, <3>1 DEF FolderTyped, EntriesTyped
  <2>4. QED
    BY <2>1, <2>2, <2>3 DEF RestoreMove, p
<1>9. QED
  BY <1>1, <1>6, <1>7, <1>8, AtAnEntry

\* What RestoreUnlink leaves of the entry.
LEMMA UnlinkedEntry ==
  ASSUME EntriesTyped, NEW e \in Entries, NEW p, entry[e].open,
         p = "extra" \/ p = Main(entry[e].kind), p = "folder" <=> entry[e].kind = "folder",
         entry' = [entry EXCEPT
                     ![e].files = IF p = "folder" THEN Empty ELSE [@ EXCEPT ![p] = NoVideo],
                     ![e].tree = FALSE]
  PROVE  /\ EntriesTyped' /\ entry'[e].open = entry[e].open /\ entry'[e].kind = entry[e].kind
         /\ entry'[e].listed = entry[e].listed
         /\ entry'[e].files = IF p = "folder" THEN Empty ELSE [entry[e].files EXCEPT ![p] = NoVideo]
         /\ \A f \in Entries \ {e} : entry'[f] = entry[f]
<1> DEFINE fs == IF p = "folder" THEN Empty ELSE [entry[e].files EXCEPT ![p] = NoVideo]
           en == [entry[e] EXCEPT !.files = fs, !.tree = FALSE]
<1>1. entry[e] \in EntryRecord /\ EntryShape(entry[e]) /\ entry[e].files \in [Path -> Files]
      /\ entry[e].kind \in Kinds
  BY DEF EntriesTyped, EntryRecord
<1>2. fs \in [Path -> Files]
  BY <1>1, EmptyTyped DEF Files
<1>3. fs["staged"] = NoVideo \/ fs["staged"] = entry[e].files["staged"] 
  BY <1>1 DEF Empty, Path
<1>4. fs["video"] = NoVideo \/ fs["video"] = entry[e].files["video"] 
  BY <1>1 DEF Empty, Path
<1>5. entry[e].kind = "folder" => fs = Empty
  OBVIOUS
<1>6. entry' = [entry EXCEPT ![e] = en]
  BY <1>1 DEF EntriesTyped
<1> HIDE DEF fs
<1>7. /\ en \in EntryRecord /\ en.files = fs /\ en.tree = FALSE /\ en.open = entry[e].open
      /\ en.kind = entry[e].kind /\ en.listed = entry[e].listed
  BY <1>1, <1>2 DEF EntryRecord
<1> HIDE DEF en
<1>8. EntryShape(en)
  BY <1>1, <1>3, <1>4, <1>5, <1>7 DEF EntryShape
<1>9. EntriesTyped' /\ entry'[e] = en /\ \A f \in Entries \ {e} : entry'[f] = entry[f]
  BY <1>6, <1>7, <1>8, OneEntryChanges
<1>10. QED
  BY <1>7, <1>9 DEF fs

LEMMA RestoreUnlinkTyped ==
  ASSUME BinTyped, NEW j \in Jobs, RestoreUnlink(j)
  PROVE  BinTyped'
<1> DEFINE e == job[j].at
           p == Head(job[j].todo)
<1>1. /\ JobsTyped /\ FolderTyped /\ BoundsTyped /\ HistoryTyped /\ EntriesTyped
      /\ job[j].pc = "backUnlink" /\ job[j].pc \in Restoring
  BY DEF BinTyped, RestoreUnlink, Restoring
<1>2. /\ e \in Entries /\ At(j) = entry[e] /\ (At(j).open => At(j).kind = job[j].kind)
      /\ job[j] \in JobRecord /\ JobShape(job[j]) /\ job[j].kind \in Kinds
      /\ At(j) \in EntryRecord /\ EntryShape(At(j))
  BY <1>1, JobAtEntry
<1>3. Partway(job[j])
  BY <1>1, <1>2 DEF JobShape
<1>4. /\ p = "extra" \/ p = Main(job[j].kind)
      /\ p = "folder" <=> job[j].kind = "folder"
      /\ p # "folder" => p \in Path
  <2>1. (p = "extra" /\ job[j].kind # "folder") \/ p = Main(job[j].kind)
    BY <1>2, <1>3, PartwayIs
  <2> HIDE DEF p
  <2>2. QED
    BY <1>2, <2>1, MainFiles DEF Path
<1>5. UNCHANGED <<libVars, binBounds, historyVars>>
  BY DEF RestoreUnlink
<1>6. BoundsTyped' /\ HistoryTyped' /\ FolderTyped'
  <2>1. UNCHANGED binFaults \/ Fault("unlink")
    BY DEF RestoreUnlink
  <2>2. BoundsTyped'
    BY <1>1, <1>5, <2>1, BoundsKept DEF binBounds, BinFaults
  <2>3. QED
    BY <1>1, <1>5, <2>2 DEF HistoryTyped, historyVars, FolderTyped, libVars
<1>7. \E r \in JobRecord : /\ JobShape(r) /\ job' = [job EXCEPT ![j] = r]
                           /\ r.at = job[j].at /\ r.kind = job[j].kind
  BY <1>1, <1>3, RestoreGoes DEF RestoreUnlink
<1>8. EntriesTyped'
      /\ \A f \in Entries : entry'[f].open => entry[f].open /\ entry'[f].kind = entry[f].kind
  <2> HIDE DEF p
  <2>1. CASE UNCHANGED entry
    BY <1>1, <2>1 DEF EntriesTyped
  <2>2. CASE /\ IF p = "folder" THEN At(j).tree ELSE At(j).files[p] # NoVideo
             /\ entry' = [entry EXCEPT
                  ![job[j].at].files = IF p = "folder" THEN Empty ELSE [@ EXCEPT ![p] = NoVideo],
                  ![job[j].at].tree = FALSE]
    <3>1. entry[e].open
      <4>1. CASE ~entry[e].open
        <5>1. entry[e].files = Empty /\ ~entry[e].tree
          BY <1>2, <4>1, ClosedTyped DEF EntryShape
        <5>2. QED
          BY <1>2, <1>4, <2>2, <5>1 DEF Empty
      <4>2. QED
        BY <4>1
    <3>2. /\ p = "extra" \/ p = Main(entry[e].kind)
          /\ p = "folder" <=> entry[e].kind = "folder"
      BY <1>2, <1>4, <3>1
    <3>3. /\ EntriesTyped' /\ entry'[e].open = entry[e].open
          /\ entry'[e].kind = entry[e].kind /\ \A f \in Entries \ {e} : entry'[f] = entry[f]
      BY <1>1, <1>2, <2>2, <3>1, <3>2, UnlinkedEntry
    <3>4. QED
      BY <3>1, <3>3
  <2>3. QED
    BY <2>1, <2>2 DEF RestoreUnlink, p
<1>9. QED
  BY <1>1, <1>6, <1>7, <1>8, AtAnEntry

LEMMA RestoreUndoTyped ==
  ASSUME BinTyped, NEW j \in Jobs, RestoreUndo(j)
  PROVE  BinTyped'
<1> DEFINE e == job[j].at
           p == job[j].moved[Len(job[j].moved)]
<1>1. /\ JobsTyped /\ FolderTyped /\ BoundsTyped /\ HistoryTyped /\ EntriesTyped
      /\ job[j].pc = "undo" /\ job[j].pc \in Restoring
  BY DEF BinTyped, RestoreUndo, Restoring
<1>2. /\ e \in Entries /\ At(j) = entry[e] /\ (At(j).open => At(j).kind = job[j].kind)
      /\ job[j] \in JobRecord /\ JobShape(job[j])
  BY <1>1, JobAtEntry
<1>3. UNCHANGED <<waiting, seriesDir, binBounds, historyVars>>
  BY DEF RestoreUndo
<1>4. BoundsTyped' /\ HistoryTyped'
  <2>1. UNCHANGED binFaults \/ Fault("undo")
    BY DEF RestoreUndo
  <2>2. QED
    BY <1>1, <1>3, <2>1, BoundsKept DEF binBounds, BinFaults, HistoryTyped, historyVars
<1>5. CASE Finish(j) /\ UNCHANGED <<lib, entry>>
  <2>1. FolderTyped' /\ EntriesTyped'
    BY <1>1, <1>3, <1>5 DEF FolderTyped, EntriesTyped
  <2>2. QED
    BY <1>1, <1>4, <1>5, <2>1, FinishIsIdle, AtAnEntry
<1>6. CASE /\ job[j].moved # <<>>
           /\ \/ /\ lib[p] # NoVideo /\ At(j).open
                 /\ entry' = [entry EXCEPT ![job[j].at].files[p] = lib[p]]
                 /\ lib' = [lib EXCEPT ![p] = NoVideo]
              \/ UNCHANGED <<lib, entry>>
           /\ job' = [job EXCEPT ![j].moved = SubSeq(@, 1, Len(@) - 1)]
  <2>1. p = "extra" /\ job[j].kind # "folder"
    <3>1. job[j].moved \in NoMain
      BY <1>1, <1>2 DEF JobShape
    <3>2. p = "extra" /\ (p = "folder" <=> job[j].kind = "folder")
      BY <1>2, <1>6, <3>1, LastMoved
    <3> HIDE DEF p
    <3>3. QED
      BY <3>2
  <2> HIDE DEF p
  <2>2. p \in Path /\ NoVideo \in Files
    BY <2>1 DEF Path, Files
  <2>3. \E r \in JobRecord : /\ JobShape(r) /\ job' = [job EXCEPT ![j] = r]
                             /\ r.at = job[j].at /\ r.kind = job[j].kind
    BY <1>1, <1>6, OneLess
  <2>4. FolderTyped'
    BY <1>1, <1>3, <1>6, <2>2, LibSet DEF FolderTyped
  <2>5. EntriesTyped' /\ \A f \in Entries : entry'[f].open => entry[f].open /\ entry'[f].kind = entry[f].kind
    <3>1. CASE UNCHANGED entry
      BY <1>1, <3>1 DEF EntriesTyped
    <3>2. CASE At(j).open /\ entry' = [entry EXCEPT ![job[j].at].files[p] = lib[p]]
      <4>1. entry[e].open /\ entry[e].kind # "folder" /\ lib[p] \in Files
        BY <1>1, <1>2, <2>1, <2>2, <3>2 DEF FolderTyped
      <4>2. /\ EntriesTyped' /\ entry'[e].open = entry[e].open
            /\ entry'[e].kind = entry[e].kind /\ \A f \in Entries \ {e} : entry'[f] = entry[f]
        BY <1>1, <1>2, <2>1, <2>2, <3>2, <4>1, FilePut
      <4>3. QED
        BY <4>1, <4>2
    <3>3. QED
      BY <1>6, <3>1, <3>2
  <2>6. QED
    BY <1>1, <1>4, <2>3, <2>4, <2>5, AtAnEntry
<1>7. QED
  BY <1>5, <1>6 DEF RestoreUndo

LEMMA RestoreEndTyped ==
  ASSUME BinTyped, NEW j \in Jobs, RestoreEnd(j)
  PROVE  BinTyped'
<1>1. /\ JobsTyped /\ FolderTyped /\ BoundsTyped /\ HistoryTyped /\ EntriesTyped
      /\ job[j].pc = "back" /\ job[j].pc \in Restoring
  BY DEF BinTyped, RestoreEnd, Restoring
<1>2. job[j].at \in Entries
  BY <1>1, JobAtEntry
<1>3. BoundsTyped' /\ HistoryTyped' /\ FolderTyped'
  BY <1>1 DEF RestoreEnd, BoundsTyped, HistoryTyped, FolderTyped, binBounds, libVars, historyVars
<1>4. EntriesTyped' /\ entry'[job[j].at] = Closed /\ \A f \in Entries \ {job[j].at} : entry'[f] = entry[f]
  BY <1>1, <1>2, ClosedTyped, OneEntryChanges DEF RestoreEnd
<1>5. \A f \in Entries : entry'[f].open => entry[f].open /\ entry'[f].kind = entry[f].kind
  BY <1>4, ClosedTyped
<1>6. QED
  BY <1>1, <1>3, <1>4, <1>5, FinishIsIdle, AtAnEntry DEF RestoreEnd

------------------------------------------------------------------------------
(* What destroys entries, a crash, and all of it *)

LEMMA DestroyTyped ==
  ASSUME BinTyped, NEW es \in SUBSET Entries, Destroy(es), NEW o \in Ops, Ask(o),
         UNCHANGED <<libVars, job, plan, binFaults, binCrashes, owed, halfGone, overtaken>>
  PROVE  /\ BinTyped'
         /\ \A e \in Entries : entry'[e] = IF e \in es THEN Closed ELSE entry[e]
<1>1. JobsTyped /\ FolderTyped /\ BoundsTyped /\ HistoryTyped /\ EntriesTyped
  BY DEF BinTyped
<1>2. entry' = [e \in Entries |-> IF e \in es THEN Closed ELSE entry[e]]
  BY DEF Destroy
<1>3. EntriesTyped'
  BY <1>1, <1>2, ClosedTyped DEF EntriesTyped
<1>4. HistoryTyped'
  <2>1. \A e \in Entries : In(entry[e].files) \subseteq Videos
    BY <1>1, InTyped DEF EntriesTyped, EntryRecord
  <2>2. UNION {In(entry[e].files) : e \in es} \subseteq Videos
    BY <2>1
  <2>3. purged' \subseteq Videos
    BY <1>1, <2>2 DEF Destroy, HistoryTyped
  <2>4. recycled' \subseteq recycled
    BY DEF Destroy
  <2>5. QED
    BY <1>1, <2>3, <2>4 DEF HistoryTyped
<1>5. BoundsTyped' /\ FolderTyped' /\ JobsTyped'
  BY <1>1, BoundsKept DEF FolderTyped, JobsTyped, libVars
<1>6. KindsAgree'
  <2>1. \A j \in Jobs : job[j].pc \in Recycling \cup Restoring => job[j].at \in Entries
    BY <1>1 DEF JobsTyped, JobRecord, JobShape
  <2>2. QED
    BY <1>2, <2>1, ClosedTyped DEF KindsAgree, BinTyped
<1>7. QED
  BY <1>2, <1>3, <1>4, <1>5, <1>6 DEF BinTyped

LEMMA EnvironmentTyped ==
  ASSUME BinTyped, (\E e \in Entries : DeleteNow(e)) \/ EmptyBin \/ PurgeOld \/ AgeOut \/ BinCrash
  PROVE  BinTyped'
<1>1. JobsTyped /\ FolderTyped /\ BoundsTyped /\ HistoryTyped /\ EntriesTyped
  BY DEF BinTyped
<1>2. CASE \E e \in Entries : DeleteNow(e)
  BY <1>2, DestroyTyped DEF DeleteNow, Ops
<1>3. CASE EmptyBin
  BY <1>3, DestroyTyped DEF EmptyBin, Ops
<1>4. CASE PurgeOld
  BY <1>4, DestroyTyped DEF PurgeOld, Ops
<1>5. CASE AgeOut
  <2>1. entry' = [e \in Entries |-> [entry[e] EXCEPT !.aged = entry[e].open]]
    BY <1>5 DEF AgeOut
  <2>2. ASSUME NEW e \in Entries
        PROVE  /\ entry'[e] \in EntryRecord /\ EntryShape(entry'[e])
               /\ entry'[e].open = entry[e].open /\ entry'[e].kind = entry[e].kind
    <3> DEFINE en == [entry[e] EXCEPT !.aged = entry[e].open]
    <3>1. entry[e] \in EntryRecord /\ EntryShape(entry[e])
      BY <1>1 DEF EntriesTyped
    <3>2. /\ en \in EntryRecord /\ en.open = entry[e].open /\ en.kind = entry[e].kind
          /\ en.tree = entry[e].tree /\ en.files = entry[e].files /\ en.listed = entry[e].listed
      BY <3>1 DEF EntryRecord
    <3>3. ~entry[e].open => en = Closed
      <4>1. CASE ~entry[e].open
        <5>1. entry[e] = Closed
          BY <3>1, <4>1 DEF EntryShape
        <5>2. Closed.aged = FALSE /\ Closed.open = FALSE
          BY DEF Closed
        <5>3. entry[e].open = entry[e].aged
          BY <5>1, <5>2
        <5>4. [entry[e] EXCEPT !.aged = entry[e].aged] = entry[e]
          BY <3>1 DEF EntryRecord
        <5>5. QED
          BY <5>1, <5>3, <5>4
      <4>2. QED
        BY <4>1
    <3> HIDE DEF en
    <3>4. EntryShape(en)
      BY <3>1, <3>2, <3>3 DEF EntryShape
    <3>5. entry'[e] = en
      BY <2>1 DEF en
    <3>6. QED
      BY <3>2, <3>4, <3>5
  <2>3. EntriesTyped'
    BY <2>1, <2>2 DEF EntriesTyped
  <2>4. \A j \in Jobs : job[j].pc \in Recycling \cup Restoring => job[j].at \in Entries
    BY <1>1 DEF JobsTyped, JobRecord, JobShape
  <2>5. UNCHANGED <<libVars, job, binBounds, binFaults, historyVars>>
    BY <1>5 DEF AgeOut
  <2>6. FolderTyped' /\ JobsTyped' /\ BoundsTyped' /\ HistoryTyped'
    BY <1>1, <2>5 DEF FolderTyped, JobsTyped, BoundsTyped, HistoryTyped, libVars, binBounds, historyVars
  <2>7. KindsAgree'
    BY <2>2, <2>4, <2>5 DEF KindsAgree, BinTyped
  <2>8. QED
    BY <2>3, <2>6, <2>7 DEF BinTyped
<1>6. CASE BinCrash
  <2>1. job' = [j \in Jobs |-> IdleJob] /\ UNCHANGED <<libVars, entry, plan, requests, binFaults, historyVars>>
        /\ binCrashes' = binCrashes + 1
    BY <1>6 DEF BinCrash
  <2>2. JobsTyped'
    BY <2>1, IdleTyped DEF JobsTyped
  <2>3. KindsAgree'
    BY <2>1 DEF KindsAgree, IdleJob, Recycling, Restoring
  <2>4. FolderTyped' /\ EntriesTyped' /\ BoundsTyped' /\ HistoryTyped'
    BY <1>1, <2>1 DEF FolderTyped, EntriesTyped, BoundsTyped, HistoryTyped, libVars, historyVars
  <2>5. QED
    BY <2>2, <2>3, <2>4 DEF BinTyped
<1>7. QED
  BY <1>2, <1>3, <1>4, <1>5, <1>6

LEMMA InitTyped == BinInit => BinTyped
<1> SUFFICES ASSUME BinInit PROVE BinTyped
  OBVIOUS
<1> DEFINE v == CHOOSE v \in Videos : TRUE
<1>1. v \in Videos
  BY BinAssumptions
<1> HIDE DEF v
<1>2. /\ lib = [Empty EXCEPT !["video"] = v, !["extra"] = v] /\ owed = {v} /\ waiting = Videos \ {v}
  BY DEF BinInit, v
<1>3. FolderTyped
  BY <1>1, <1>2, EmptyTyped DEF BinInit, FolderTyped, Files
<1>4. EntriesTyped
  BY ClosedTyped DEF BinInit, EntriesTyped
<1>5. JobsTyped /\ KindsAgree
  BY IdleTyped DEF BinInit, JobsTyped, KindsAgree, IdleJob, Recycling, Restoring
<1>6. BoundsTyped /\ HistoryTyped
  BY <1>1, <1>2 DEF BinInit, BoundsTyped, HistoryTyped
<1>7. QED
  BY <1>3, <1>4, <1>5, <1>6 DEF BinTyped

LEMMA StepTyped ==
  ASSUME BinTyped, [BinNext]_binVars
  PROVE  BinTyped'
<1>1. CASE UNCHANGED binVars
  BY <1>1 DEF binVars, libVars, binBounds, historyVars, BinTyped, FolderTyped, EntriesTyped, JobsTyped,
              BoundsTyped, HistoryTyped, KindsAgree
<1>2. ASSUME NEW j \in Jobs, Caller(j) PROVE BinTyped'
  BY <1>2, BeginTyped, CallersTyped DEF Caller
<1>3. ASSUME NEW j \in Jobs, Recycle(j) PROVE BinTyped'
  BY <1>3, RecycleOpenTyped, RecycleMoveTyped, RecycleUnlinkTyped, RecycleTreeTyped, PruneTreeTyped,
     WriteManifestTyped, RollbackTyped, DropEntryTyped DEF Recycle
<1>4. ASSUME NEW j \in Jobs, RestoreStep(j) PROVE BinTyped'
  BY <1>4, RestoreEntryTyped, RestoreCheckTyped, RestoreMoveTyped, RestoreUnlinkTyped,
     RestoreUndoTyped, RestoreEndTyped DEF RestoreStep
<1>5. QED
  BY <1>1, <1>2, <1>3, <1>4, EnvironmentTyped DEF BinNext

\* The folder, the bin and the jobs are well-formed.
THEOREM BinTypeCorrect == BinSpec => []BinTypeOK
<1>1. BinInit => BinTyped
  BY InitTyped
<1>2. BinTyped /\ [BinNext]_binVars => BinTyped'
  BY StepTyped
<1>3. QED
  BY <1>1, <1>2, TypedImplies, PTL DEF BinSpec

------------------------------------------------------------------------------
(* Who holds what: the locks, the entries, and what is at an entry *)

HeldIn(e) == In(entry[e].files)

\* the locks keep apart the operations that take them
LocksExclude ==
  \A j, k \in Jobs : j # k =>
    /\ ~(job[j].op \in PostProcOps /\ job[k].op \in PostProcOps)
    /\ ~(job[j].op \in ImportOps /\ job[k].op \in ImportOps)

\* no two jobs are at one entry
EntriesAreOwned ==
  \A j, k \in Jobs : j # k /\ job[j].at = job[k].at => job[j].at = 0

\* A recycle's entry has no manifest yet, a restore's has one unless it was destroyed.
\* What is to go in has not, and what is to come out is out when the list is done.
AtEntry(j) ==
  LET jb == job[j]
  IN /\ jb.pc \in Recycling => entry[jb.at].listed = {}
     /\ jb.pc \in Restoring /\ entry[jb.at].open => entry[jb.at].listed # {}
     /\ jb.pc = "move" \/ (jb.pc = "unlink" /\ Head(jb.todo) = "extra") => HeldIn(jb.at) = {}
     /\ jb.pc = "back" /\ jb.todo = <<>> => HeldIn(jb.at) = {}
     /\ jb.pc = "rollback" /\ jb.moved \notin NoMain /\ entry[jb.at].open => "manifest" \in binFaults
     /\ jb.pc = "backUnlink" /\ Head(jb.todo) # "extra" => \A r \in recycled : r[1] # jb.at

BinOrder ==
  LocksExclude /\ EntriesAreOwned /\ (\A j \in Jobs : AtEntry(j)) /\ RecycledIsListed

\* what a step of j leaves alone, and which jobs it may keep out
OthersStay(j) == \A k \in Jobs \ {j} : job'[k] = job[k]
Opens(o) == (o \in PostProcOps => ~PostProcHeld) /\ (o \in ImportOps => ~ImportHeld)
StepOf(j) ==
  /\ OthersStay(j)
  /\ job'[j].op \in {"none", job[j].op} \/ Opens(job'[j].op)
  /\ job'[j].at \in {0, job[j].at} \/ \A k \in Jobs : job[k].at # job'[j].at
  /\ \A e \in Entries : e # job[j].at /\ e # job'[j].at => entry'[e] = entry[e]
  /\ \A r \in recycled' : r \in recycled \/ r[1] = job[j].at
  /\ binFaults \subseteq binFaults'

\* the pairs at the entry of a step are listed after it
OwnPairs(j) ==
  \A r \in recycled' : r[1] \in {job[j].at, job'[j].at}
    => entry'[r[1]].listed # {} /\ r[2] \in In(entry'[r[1]].files)

LEMMA StepKeepsOrder ==
  ASSUME BinTyped, BinTyped', BinOrder, NEW j \in Jobs, StepOf(j), AtEntry(j)', OwnPairs(j)
  PROVE  BinOrder'
<1>1. OthersStay(j) /\ LocksExclude /\ EntriesAreOwned /\ RecycledIsListed
  BY DEF StepOf, BinOrder
<1>2. LocksExclude'
  <2>1. ASSUME NEW k \in Jobs \ {j}
        PROVE  /\ ~(job'[j].op \in PostProcOps /\ job'[k].op \in PostProcOps)
               /\ ~(job'[j].op \in ImportOps /\ job'[k].op \in ImportOps)
    <3>1. job'[k] = job[k]
      BY <1>1 DEF OthersStay
    <3>2. CASE job'[j].op \in {"none", job[j].op}
      BY <1>1, <3>1, <3>2 DEF LocksExclude, PostProcOps, ImportOps
    <3>3. CASE Opens(job'[j].op)
      BY <3>1, <3>3 DEF Opens, PostProcHeld, ImportHeld, PostProcOps, ImportOps
    <3>4. QED
      BY <3>2, <3>3 DEF StepOf
  <2>2. QED
    BY <1>1, <2>1 DEF LocksExclude, OthersStay
<1>3. EntriesAreOwned'
  <2>1. ASSUME NEW k \in Jobs \ {j}, job'[j].at = job'[k].at
        PROVE  job'[j].at = 0
    BY <1>1, <2>1 DEF OthersStay, StepOf, EntriesAreOwned
  <2>2. QED
    BY <1>1, <2>1 DEF EntriesAreOwned, OthersStay
<1>4. ASSUME NEW k \in Jobs \ {j}
      PROVE  AtEntry(k)'
  <2>1. job'[k] = job[k] /\ AtEntry(k)
    BY <1>1 DEF OthersStay, BinOrder
  <2>2. CASE job[k].pc \in Recycling \cup Restoring
    <3>1. job[k].at \in Entries /\ job[k].at # 0
      BY <2>2, JobAtEntry DEF JobShape
    <3>2. job[k].at # job[j].at /\ job[k].at # job'[j].at
      BY <1>1, <3>1 DEF EntriesAreOwned, StepOf
    <3>3. entry'[job[k].at] = entry[job[k].at]
      BY <3>1, <3>2 DEF StepOf
    <3>4. HeldIn(job[k].at)' = HeldIn(job[k].at)
      BY <2>1, <3>3 DEF HeldIn
    <3>5. \A r \in recycled' : r[1] = job[k].at => r \in recycled
      BY <3>2 DEF StepOf
    <3>6. binFaults \subseteq binFaults'
      BY DEF StepOf
    <3>7. QED
      BY <2>1, <3>3, <3>4, <3>5, <3>6 DEF AtEntry
  <2>3. CASE job[k].pc \notin Recycling \cup Restoring
    BY <2>1, <2>3 DEF AtEntry, Recycling, Restoring
  <2>4. QED
    BY <2>2, <2>3
<1>5. RecycledIsListed'
  <2> SUFFICES ASSUME NEW r \in recycled'
               PROVE  entry'[r[1]].listed # {} /\ r[2] \in In(entry'[r[1]].files)
    BY DEF RecycledIsListed
  <2>1. CASE r[1] \in {job[j].at, job'[j].at}
    BY <2>1 DEF OwnPairs
  <2>2. CASE r[1] \notin {job[j].at, job'[j].at}
    <3>1. r \in recycled /\ r[1] \in Entries
      BY <2>2 DEF StepOf, BinTyped, HistoryTyped
    <3>2. entry'[r[1]] = entry[r[1]]
      BY <2>2, <3>1 DEF StepOf
    <3>3. QED
      BY <1>1, <3>1, <3>2 DEF RecycledIsListed
  <2>3. QED
    BY <2>1, <2>2
<1>6. QED
  BY <1>2, <1>3, <1>4, <1>5 DEF BinOrder

\* A pair is at an entry with a manifest.
LEMMA NoPairsUnlisted ==
  ASSUME BinOrder, NEW e, entry[e].listed = {}
  PROVE  \A r \in recycled : r[1] # e
  BY DEF BinOrder, RecycledIsListed

------------------------------------------------------------------------------
(* What each way to go on makes of the job *)

LEMMA GotoIs ==
  ASSUME JobsTyped, NEW j \in Jobs, NEW pc, Goto(j, pc)
  PROVE  /\ OthersStay(j) /\ job'[j].pc = pc /\ job'[j].op = job[j].op /\ job'[j].kind = job[j].kind
         /\ job'[j].at = job[j].at /\ job'[j].todo = job[j].todo /\ job'[j].moved = job[j].moved
<1>1. job[j] \in JobRecord /\ job \in [Jobs -> JobRecord]
  BY DEF JobsTyped
<1>2. job' = [job EXCEPT ![j] = [job[j] EXCEPT !.pc = pc]]
  BY <1>1 DEF Goto
<1> DEFINE r == [job[j] EXCEPT !.pc = pc]
<1>3. /\ r.pc = pc /\ r.op = job[j].op /\ r.kind = job[j].kind /\ r.at = job[j].at
      /\ r.todo = job[j].todo /\ r.moved = job[j].moved
  BY <1>1 DEF JobRecord
<1> HIDE DEF r
<1>4. job'[j] = r /\ \A k \in Jobs \ {j} : job'[k] = job[k]
  BY <1>1, <1>2 DEF r
<1>5. QED
  BY <1>3, <1>4 DEF OthersStay

\* the job is at no entry
Gone(j) ==
  /\ OthersStay(j) /\ job'[j].at = 0 /\ job'[j].pc \notin Recycling \cup Restoring
  /\ job'[j].op \in {"none", job[j].op}

LEMMA FinishGoes ==
  ASSUME JobsTyped, NEW j \in Jobs, Finish(j)
  PROVE  Gone(j) /\ job'[j] = IdleJob
<1>1. job' = [job EXCEPT ![j] = IdleJob] /\ job \in [Jobs -> JobRecord]
  BY DEF Finish, JobsTyped
<1>2. job'[j] = IdleJob /\ \A k \in Jobs \ {j} : job'[k] = job[k]
  BY <1>1
<1>3. IdleJob.at = 0 /\ IdleJob.pc = "idle" /\ IdleJob.op = "none"
  BY DEF IdleJob
<1>4. QED
  BY <1>2, <1>3 DEF Gone, OthersStay, Recycling, Restoring

LEMMA AfterGoes ==
  ASSUME JobsTyped, NEW j \in Jobs, NEW ok \in BOOLEAN, job[j].pc \in {"recycle"} \cup Recycling, After(j, ok)
  PROVE  Gone(j)
<1> DEFINE r == Onward(job[j], ok)
<1>1. job' = [job EXCEPT ![j] = r] /\ job \in [Jobs -> JobRecord]
  BY AfterIsOnward DEF JobsTyped
<1>2. r.at = 0 /\ r.pc \notin Recycling \cup Restoring /\ r.op \in {"none", job[j].op}
  BY <1>1 DEF Onward, IdleJob, JobRecord, Recycling, Restoring
<1> HIDE DEF r
<1>3. job'[j] = r /\ \A k \in Jobs \ {j} : job'[k] = job[k]
  BY <1>1
<1>4. QED
  BY <1>2, <1>3 DEF Gone, OthersStay

\* One more has moved: the companion, with the main file to come, or the main file.
LEMMA OneMoreIs ==
  ASSUME JobsTyped, NEW j \in Jobs, Partway(job[j]),
         \/ MovedOne(j) /\ job[j].pc \in {"move", "unlink"} /\ job[j].kind # "folder"
         \/ RestoredOne(j)
  PROVE  /\ OthersStay(j) /\ job'[j].op = job[j].op /\ job'[j].kind = job[j].kind /\ job'[j].at = job[j].at
         /\ MovedOne(j) \/ job'[j].pc = "back"
         /\ \/ /\ Head(job[j].todo) = "extra" /\ job'[j].todo = <<Main(job[j].kind)>>
               /\ job'[j].moved \in NoMain /\ job[j].kind # "folder"
               /\ RestoredOne(j) \/ job'[j].pc = "move"
            \/ /\ Head(job[j].todo) = Main(job[j].kind) /\ job'[j].todo = <<>>
               /\ RestoredOne(j) \/ job'[j].pc = "manifest"
<1> DEFINE jb == job[j]
           m == Main(jb.kind)
<1>1. jb \in JobRecord /\ JobShape(jb) /\ job \in [Jobs -> JobRecord]
  BY DEF JobsTyped
<1>2. \/ Head(jb.todo) = m /\ Len(jb.todo) = 1 /\ Tail(jb.todo) = <<>>
      \/ Head(jb.todo) = "extra" /\ Len(jb.todo) = 2 /\ Tail(jb.todo) = <<m>>
         /\ Append(jb.moved, "extra") = <<"extra">> /\ jb.kind # "folder"
  BY <1>1, PartwayIs
<1> HIDE DEF m
<1>3. \A pc : LET r == [jb EXCEPT !.moved = Append(@, Head(jb.todo)), !.todo = Tail(@), !.pc = pc]
              IN /\ r.pc = pc /\ r.op = jb.op /\ r.kind = jb.kind /\ r.at = jb.at
                 /\ r.todo = Tail(jb.todo) /\ r.moved = Append(jb.moved, Head(jb.todo))
  BY <1>1 DEF JobRecord
<1>4. \A pc : job' = [job EXCEPT ![j].moved = Append(@, Head(jb.todo)), ![j].todo = Tail(@), ![j].pc = pc]
              => /\ OthersStay(j) /\ job'[j].op = jb.op /\ job'[j].kind = jb.kind /\ job'[j].at = jb.at
                 /\ job'[j].todo = Tail(jb.todo) /\ job'[j].moved = Append(jb.moved, Head(jb.todo))
                 /\ job'[j].pc = pc
  <2> SUFFICES ASSUME NEW pc, job' = [job EXCEPT ![j].moved = Append(@, Head(jb.todo)), ![j].todo = Tail(@), ![j].pc = pc]
               PROVE  /\ OthersStay(j) /\ job'[j].op = jb.op /\ job'[j].kind = jb.kind /\ job'[j].at = jb.at
                      /\ job'[j].todo = Tail(jb.todo) /\ job'[j].moved = Append(jb.moved, Head(jb.todo))
                      /\ job'[j].pc = pc
    OBVIOUS
  <2> DEFINE r == [jb EXCEPT !.moved = Append(@, Head(jb.todo)), !.todo = Tail(@), !.pc = pc]
  <2>1. job' = [job EXCEPT ![j] = r]
    BY <1>1
  <2>2. /\ r.pc = pc /\ r.op = jb.op /\ r.kind = jb.kind /\ r.at = jb.at
        /\ r.todo = Tail(jb.todo) /\ r.moved = Append(jb.moved, Head(jb.todo))
    BY <1>3
  <2> HIDE DEF r
  <2>3. job'[j] = r /\ \A k \in Jobs \ {j} : job'[k] = job[k]
    BY <1>1, <2>1
  <2>4. QED
    BY <2>2, <2>3 DEF OthersStay
<1>5. <<"extra">> \in NoMain
  BY ListsTyped
<1>6. CASE MovedOne(j)
  <2>1. job' = [job EXCEPT ![j].moved = Append(@, Head(jb.todo)), ![j].todo = Tail(@),
                           ![j].pc = IF Len(jb.todo) = 1 THEN "manifest" ELSE "move"]
    BY <1>6 DEF MovedOne
  <2>2. /\ OthersStay(j) /\ job'[j].op = jb.op /\ job'[j].kind = jb.kind /\ job'[j].at = jb.at
        /\ job'[j].todo = Tail(jb.todo) /\ job'[j].moved = Append(jb.moved, Head(jb.todo))
        /\ job'[j].pc = IF Len(jb.todo) = 1 THEN "manifest" ELSE "move"
    BY <1>4, <2>1
  <2>3. CASE Head(jb.todo) = m /\ Len(jb.todo) = 1 /\ Tail(jb.todo) = <<>>
    BY <1>6, <2>2, <2>3 DEF m
  <2>4. CASE Head(jb.todo) = "extra" /\ Len(jb.todo) = 2 /\ Tail(jb.todo) = <<m>>
             /\ Append(jb.moved, "extra") = <<"extra">> /\ jb.kind # "folder"
    <3>1. job'[j].moved = <<"extra">> /\ job'[j].todo = <<m>> /\ job'[j].pc = "move"
      BY <2>2, <2>4
    <3>2. QED
      BY <1>5, <1>6, <2>2, <2>4, <3>1 DEF m
  <2>5. QED
    BY <1>2, <2>3, <2>4
<1>7. CASE RestoredOne(j)
  <2>1. /\ OthersStay(j) /\ job'[j].op = jb.op /\ job'[j].kind = jb.kind /\ job'[j].at = jb.at
        /\ job'[j].todo = Tail(jb.todo) /\ job'[j].moved = Append(jb.moved, Head(jb.todo))
        /\ job'[j].pc = "back"
    BY <1>4, <1>7 DEF RestoredOne
  <2>2. QED
    BY <1>2, <1>5, <1>7, <2>1 DEF m
<1>8. QED
  BY <1>6, <1>7

LEMMA OneLessIs ==
  ASSUME JobsTyped, NEW j \in Jobs, job[j].moved # <<>>,
         job' = [job EXCEPT ![j].moved = SubSeq(@, 1, Len(@) - 1)]
  PROVE  /\ OthersStay(j) /\ job'[j].op = job[j].op /\ job'[j].kind = job[j].kind /\ job'[j].at = job[j].at
         /\ job'[j].pc = job[j].pc /\ job'[j].moved \in NoMain
<1>1. job[j] \in JobRecord /\ JobShape(job[j]) /\ job \in [Jobs -> JobRecord]
  BY DEF JobsTyped
<1> DEFINE rest == SubSeq(job[j].moved, 1, Len(job[j].moved) - 1)
           r == [job[j] EXCEPT !.moved = rest]
<1>2. rest \in NoMain
  BY <1>1, LastMoved
<1>3. job' = [job EXCEPT ![j] = r]
  BY <1>1
<1> HIDE DEF rest
<1>4. /\ r.pc = job[j].pc /\ r.op = job[j].op /\ r.kind = job[j].kind /\ r.at = job[j].at /\ r.moved = rest
  BY <1>1 DEF JobRecord
<1> HIDE DEF r
<1>5. job'[j] = r /\ \A k \in Jobs \ {j} : job'[k] = job[k]
  BY <1>1, <1>3
<1>6. QED
  BY <1>2, <1>4, <1>5 DEF OthersStay

------------------------------------------------------------------------------
(* Every step keeps them apart *)

\* A job that leaves its entry, or was at none.
LEMMA GoneKeeps ==
  ASSUME BinTyped, BinTyped', BinOrder, NEW j \in Jobs, OthersStay(j), job'[j].at = 0,
         job'[j].pc \notin Recycling \cup Restoring,
         job'[j].op \in {"none", job[j].op} \/ Opens(job'[j].op),
         \A e \in Entries : e # job[j].at => entry'[e] = entry[e],
         \A r \in recycled' : r \in recycled \/ r[1] = job[j].at,
         \A r \in recycled' : r[1] = job[j].at => entry'[r[1]].listed # {} /\ r[2] \in In(entry'[r[1]].files),
         binFaults \subseteq binFaults'
  PROVE  BinOrder'
<1>1. StepOf(j)
  BY DEF StepOf
<1>2. AtEntry(j)'
  BY DEF AtEntry, Recycling, Restoring
<1>3. \A r \in recycled' : r[1] # 0
  BY BinAssumptions DEF BinTyped, HistoryTyped
<1>4. OwnPairs(j)
  BY <1>3 DEF OwnPairs
<1>5. QED
  BY <1>1, <1>2, <1>4, StepKeepsOrder

LEMMA GoneUnchanged ==
  ASSUME BinTyped, BinTyped', BinOrder, NEW j \in Jobs, Gone(j), UNCHANGED <<entry, recycled>>,
         binFaults \subseteq binFaults'
  PROVE  BinOrder'
<1>1. \A r \in recycled' : entry'[r[1]].listed # {} /\ r[2] \in In(entry'[r[1]].files)
  BY DEF BinOrder, RecycledIsListed
<1>2. QED
  BY <1>1, GoneKeeps DEF Gone

\* A job that stays where it is.
LEMMA StaysKeeps ==
  ASSUME BinTyped, BinTyped', BinOrder, NEW j \in Jobs, OthersStay(j),
         job'[j].op = job[j].op, job'[j].at = job[j].at,
         \A e \in Entries : e # job[j].at => entry'[e] = entry[e],
         recycled' \subseteq recycled, binFaults \subseteq binFaults', AtEntry(j)',
         \/ entry[job[j].at].listed = {}
         \/ \A r \in recycled' : r[1] = job[j].at
              => entry'[job[j].at].listed # {} /\ r[2] \in In(entry'[job[j].at].files)
  PROVE  BinOrder'
<1>1. StepOf(j)
  BY DEF StepOf
<1>2. OwnPairs(j)
  <2>1. CASE entry[job[j].at].listed = {}
    BY <2>1, NoPairsUnlisted DEF OwnPairs
  <2>2. QED
    BY <2>1 DEF OwnPairs
<1>3. QED
  BY <1>1, <1>2, StepKeepsOrder

\* A request that begins away from the bin, with the locks it needs.
LEMMA BeginKeeps ==
  ASSUME BinTyped, BinTyped', BinOrder, NEW j \in Jobs, UNCHANGED <<entry, recycled, binFaults>>,
         NEW o, NEW r, Begin(j, o, r), r.at = 0, r.pc \in {"recycle", "place", "check"}, Opens(r.op)
  PROVE  BinOrder'
<1>1. job' = [job EXCEPT ![j] = r] /\ job \in [Jobs -> JobRecord]
  BY DEF Begin, BinTyped, JobsTyped
<1>2. job'[j] = r /\ OthersStay(j)
  BY <1>1 DEF OthersStay
<1>3. r.pc \notin Recycling \cup Restoring
  BY DEF Recycling, Restoring
<1>4. \A s \in recycled' : entry'[s[1]].listed # {} /\ s[2] \in In(entry'[s[1]].files)
  BY DEF BinOrder, RecycledIsListed
<1>5. QED
  BY <1>2, <1>3, <1>4, GoneKeeps

LEMMA BeginOrder ==
  ASSUME BinTyped, BinTyped', BinOrder, NEW j \in Jobs,
         \/ DeleteEpisode(j) \/ RemoveSeries(j) \/ SweepStart(j) \/ TickStart(j) \/ ManualStart(j)
  PROVE  BinOrder'
<1>1. UNCHANGED <<entry, recycled, binFaults>>
  BY DEF DeleteEpisode, RemoveSeries, SweepStart, TickStart, ManualStart, historyVars
<1>2. CASE DeleteEpisode(j)
  <2> DEFINE r == [IdleJob EXCEPT !.op = "delete", !.pc = "recycle"]
  <2>1. r.at = 0 /\ r.pc = "recycle" /\ r.op = "delete" /\ Opens("delete")
    BY DEF IdleJob, Opens, PostProcOps, ImportOps
  <2>2. Begin(j, "delete", r)
    BY <1>2 DEF DeleteEpisode
  <2> HIDE DEF r
  <2>3. QED
    BY <1>1, <2>1, <2>2, BeginKeeps
<1>3. CASE RemoveSeries(j)
  <2> DEFINE r == [IdleJob EXCEPT !.op = "series", !.pc = "recycle", !.kind = "folder"]
  <2>1. r.at = 0 /\ r.pc = "recycle" /\ r.op = "series" /\ Opens("series")
    BY DEF IdleJob, Opens, PostProcOps, ImportOps
  <2>2. Begin(j, "series", r)
    BY <1>3 DEF RemoveSeries
  <2> HIDE DEF r
  <2>3. QED
    BY <1>1, <2>1, <2>2, BeginKeeps
<1>4. CASE SweepStart(j)
  <2> DEFINE r == [IdleJob EXCEPT !.op = "sweep", !.pc = "recycle", !.kind = "staged"]
  <2>1. r.at = 0 /\ r.pc = "recycle" /\ r.op = "sweep" /\ Opens("sweep")
    BY <1>4 DEF IdleJob, Opens, SweepStart
  <2>2. Begin(j, "sweep", r)
    BY <1>4 DEF SweepStart
  <2> HIDE DEF r
  <2>3. QED
    BY <1>1, <2>1, <2>2, BeginKeeps
<1>5. CASE TickStart(j)
  <2> DEFINE b == lib["video"] # NoVideo
  <2>1. PICK v \in waiting :
          Begin(j, "tick", [IdleJob EXCEPT !.op = "tick", !.pc = "place", !.video = v, !.replacing = b])
    BY <1>5 DEF TickStart
  <2> HIDE DEF b
  <2> DEFINE r == [IdleJob EXCEPT !.op = "tick", !.pc = "place", !.video = v, !.replacing = b]
  <2>2. r.at = 0 /\ r.pc = "place" /\ r.op = "tick" /\ Opens("tick")
    BY <1>5 DEF IdleJob, Opens, TickStart, ImportOps
  <2>3. Begin(j, "tick", r)
    BY <2>1
  <2> HIDE DEF r
  <2>4. QED
    BY <1>1, <2>2, <2>3, BeginKeeps
<1>6. CASE ManualStart(j)
  <2>1. PICK v \in waiting, b \in BOOLEAN :
          Begin(j, "manual", [IdleJob EXCEPT !.op = "manual", !.video = v, !.replacing = b,
                   !.pc = IF b /\ lib["video"] # NoVideo THEN "recycle" ELSE "check"])
    BY <1>6 DEF ManualStart
  <2>2. PICK pc \in {"recycle", "check"} : pc = IF b /\ lib["video"] # NoVideo THEN "recycle" ELSE "check"
    OBVIOUS
  <2> DEFINE r == [IdleJob EXCEPT !.op = "manual", !.video = v, !.replacing = b, !.pc = pc]
  <2>3. r.at = 0 /\ r.pc = pc /\ r.op = "manual" /\ Opens("manual")
    BY <1>6 DEF IdleJob, Opens, ManualStart, PostProcOps
  <2>4. Begin(j, "manual", r)
    BY <2>1, <2>2
  <2> HIDE DEF r
  <2>5. QED
    BY <1>1, <2>2, <2>3, <2>4, BeginKeeps
<1>7. QED
  BY <1>2, <1>3, <1>4, <1>5, <1>6

LEMMA FaultsGrow ==
  ASSUME UNCHANGED binFaults \/ \E f \in BinFaults : Fault(f)
  PROVE  binFaults \subseteq binFaults'
  BY DEF Fault

LEMMA CallersOrder ==
  ASSUME BinTyped, BinTyped', BinOrder, NEW j \in Jobs,
         TickPlace(j) \/ Swap(j) \/ Nfo(j) \/ Unstage(j) \/ ManualCheck(j) \/ ManualPut(j)
  PROVE  BinOrder'
<1>1. job[j] \in JobRecord /\ JobShape(job[j]) /\ JobsTyped
  BY DEF BinTyped, JobsTyped
<1>2. UNCHANGED <<entry, recycled>>
  BY DEF TickPlace, Swap, Nfo, Unstage, ManualCheck, ManualPut, historyVars
<1>3. binFaults \subseteq binFaults'
  <2>1. UNCHANGED binFaults \/ \E f \in BinFaults : Fault(f)
    BY DEF TickPlace, Swap, Nfo, Unstage, ManualCheck, ManualPut, BinFaults
  <2>2. QED
    BY <2>1, FaultsGrow
<1>4. Gone(j)
  <2>1. /\ job[j].pc \notin Recycling \cup Restoring
        /\ Finish(j) \/ \E pc \in {"recycle", "nfo", "put"} : Goto(j, pc)
    BY <1>1, WhoIsAt DEF TickPlace, Swap, Nfo, Unstage, ManualCheck, ManualPut
  <2>2. job[j].at = 0
    BY <1>1, <2>1 DEF JobShape
  <2>3. \A pc \in {"recycle", "nfo", "put"} : pc \notin Recycling \cup Restoring
    BY DEF Recycling, Restoring
  <2>4. QED
    BY <1>1, <2>1, <2>2, <2>3, GotoIs, FinishGoes DEF Gone
<1>5. QED
  BY <1>2, <1>3, <1>4, GoneUnchanged

LEMMA RecycleOpenOrder ==
  ASSUME BinTyped, BinTyped', BinOrder, NEW j \in Jobs, RecycleOpen(j)
  PROVE  BinOrder'
<1>1. JobsTyped /\ EntriesTyped /\ job[j].pc = "recycle" /\ JobShape(job[j]) /\ UNCHANGED recycled
  BY DEF BinTyped, JobsTyped, RecycleOpen
<1>2. binFaults \subseteq binFaults'
  <2>1. UNCHANGED binFaults \/ Fault("mkdir")
    BY DEF RecycleOpen
  <2>2. QED
    BY <2>1, FaultsGrow DEF BinFaults
<1>3. CASE UNCHANGED entry /\ \E ok \in BOOLEAN : After(j, ok)
  BY <1>1, <1>2, <1>3, AfterGoes, GoneUnchanged
<1>4. CASE /\ NewEntry # {}
           /\ entry' = [entry EXCEPT ![FirstNew] = [Closed EXCEPT !.open = TRUE, !.kind = job[j].kind]]
           /\ job' = [job EXCEPT ![j].pc = "move", ![j].at = FirstNew,
                       ![j].todo = CASE job[j].kind = "episode" -> EpisodeFiles(lib)
                                     [] job[j].kind = "staged" -> <<"staged">>
                                     [] job[j].kind = "folder" -> <<>>]
  <2>1. /\ job'[j].at = FirstNew /\ job'[j].pc = "move" /\ job'[j].op = job[j].op /\ OthersStay(j)
        /\ entry'[FirstNew] = [Closed EXCEPT !.open = TRUE, !.kind = job[j].kind]
        /\ \A e \in Entries \ {FirstNew} : entry'[e] = entry[e]
    BY <1>1, <1>4, OpensTyped DEF OthersStay
  <2>2. FirstNew \in Entries /\ ~entry[FirstNew].open /\ \A k \in Jobs : job[k].at # FirstNew
    BY <1>4, NewEntryIsNew
  <2>3. entry[FirstNew].listed = {}
    BY <1>1, <2>2, ClosedTyped DEF EntriesTyped, EntryShape
  <2>4. entry'[FirstNew].listed = {} /\ In(entry'[FirstNew].files) = {}
    BY <2>1, NothingIn DEF Closed
  <2>5. AtEntry(j)'
    BY <2>1, <2>4 DEF AtEntry, HeldIn, Restoring
  <2>6. OwnPairs(j)
    <3>1. job[j].at = 0
      BY <1>1, WhoIsAt DEF JobShape
    <3>2. \A r \in recycled : r[1] # FirstNew
      BY <2>3, NoPairsUnlisted
    <3>3. \A r \in recycled : r[1] # 0
      BY BinAssumptions DEF BinTyped, HistoryTyped
    <3>4. QED
      BY <1>1, <2>1, <3>1, <3>2, <3>3 DEF OwnPairs
  <2>7. StepOf(j)
    BY <1>1, <1>2, <2>1, <2>2 DEF StepOf
  <2>8. QED
    BY <2>5, <2>6, <2>7, StepKeepsOrder
<1>5. QED
  BY <1>3, <1>4 DEF RecycleOpen

\* Giving up with the main file still to move.
LEMMA GivesUpOrder ==
  ASSUME BinTyped, BinTyped', BinOrder, NEW j \in Jobs, job[j].pc \in {"move", "unlink", "prune"},
         Goto(j, "rollback"), UNCHANGED <<entry, recycled>>, binFaults \subseteq binFaults'
  PROVE  BinOrder'
<1>1. JobsTyped /\ JobShape(job[j]) /\ AtEntry(j) /\ job[j].pc \in Recycling
  BY DEF BinTyped, JobsTyped, BinOrder, Recycling
<1>2. /\ OthersStay(j) /\ job'[j].pc = "rollback" /\ job'[j].op = job[j].op
      /\ job'[j].at = job[j].at /\ job'[j].moved = job[j].moved
  BY <1>1, GotoIs
<1>3. job[j].moved \in NoMain
  BY <1>1 DEF JobShape, Partway, NoMain
<1>4. entry[job[j].at].listed = {}
  BY <1>1 DEF AtEntry
<1>5. AtEntry(j)'
  BY <1>2, <1>3, <1>4 DEF AtEntry, Restoring
<1>6. QED
  BY <1>2, <1>4, <1>5, StaysKeeps

\* What an entry holds does not change with a companion.
LEMMA CompanionsDoNotCount ==
  ASSUME NEW f \in [Path -> Files], NEW x
  PROVE  In([f EXCEPT !["extra"] = x]) = In(f)
<1>1. [f EXCEPT !["extra"] = x]["video"] = f["video"] /\ [f EXCEPT !["extra"] = x]["staged"] = f["staged"]
  BY DEF Path
<1>2. QED
  BY <1>1, InIs

LEMMA RecycleMoveOrder ==
  ASSUME BinTyped, BinTyped', BinOrder, NEW j \in Jobs, RecycleMove(j)
  PROVE  BinOrder'
<1> DEFINE e == job[j].at
           p == Head(job[j].todo)
<1>1. /\ JobsTyped /\ FolderTyped /\ EntriesTyped /\ AtEntry(j)
      /\ job[j].pc = "move" /\ job[j].kind # "folder" /\ job[j].pc \in Recycling
  BY DEF BinTyped, RecycleMove, Recycling, BinOrder
<1>2. /\ e \in Entries /\ At(j) = entry[e] /\ At(j) \in EntryRecord
      /\ At(j).files \in [Path -> Files] /\ job[j] \in JobRecord /\ JobShape(job[j])
  BY <1>1, JobAtEntry
<1>3. Partway(job[j])
  BY <1>1, <1>2 DEF JobShape
<1>4. p \in Path
  BY <1>1, <1>2, <1>3, NextFile
<1>5. UNCHANGED recycled
  BY DEF RecycleMove, historyVars
<1>6. binFaults \subseteq binFaults'
  <2>1. UNCHANGED binFaults \/ Fault("move")
    BY DEF RecycleMove
  <2>2. QED
    BY <2>1, FaultsGrow DEF BinFaults
<1>7. entry[e].listed = {} /\ HeldIn(e) = {}
  BY <1>1 DEF AtEntry
<1>8. CASE Goto(j, "rollback") /\ UNCHANGED entry
  BY <1>1, <1>5, <1>6, <1>8, GivesUpOrder
<1>9. CASE /\ entry' = [entry EXCEPT ![job[j].at].files[p] = lib[p]]
           /\ MovedOne(j) \/ Goto(j, "unlink")
  <2>1. /\ entry'[e].listed = {} /\ entry'[e].files = [entry[e].files EXCEPT ![p] = lib[p]]
        /\ \A f \in Entries \ {e} : entry'[f] = entry[f]
    BY <1>1, <1>2, <1>7, <1>9 DEF EntriesTyped, EntryRecord
  <2>2. p = "extra" => In(entry'[e].files) = {}
    <3>1. CASE p = "extra"
      <4>1. In([entry[e].files EXCEPT !["extra"] = lib[p]]) = In(entry[e].files)
        BY <1>2, CompanionsDoNotCount
      <4>2. In(entry'[e].files) = {}
        BY <1>7, <2>1, <3>1, <4>1 DEF HeldIn
      <4>3. QED
        BY <4>2
    <3>2. QED
      BY <3>1
  <2>3. /\ OthersStay(j) /\ job'[j].op = job[j].op /\ job'[j].at = e
        /\ \/ job'[j].pc = "move" /\ p = "extra"
           \/ job'[j].pc = "manifest"
           \/ job'[j].pc = "unlink" /\ Head(job'[j].todo) = p
    <3>1. CASE MovedOne(j)
      <4>1. /\ OthersStay(j) /\ job'[j].op = job[j].op /\ job'[j].at = job[j].at
            /\ \/ Head(job[j].todo) = "extra" /\ (RestoredOne(j) \/ job'[j].pc = "move")
               \/ RestoredOne(j) \/ job'[j].pc = "manifest"
        BY <1>1, <1>3, <3>1, OneMoreIs
      <4>2. job'[j].pc \in {"move", "manifest"}
        BY <1>1, <3>1, <1>2 DEF MovedOne, JobsTyped, JobRecord
      <4>3. ~RestoredOne(j)
        <5>1. RestoredOne(j) => job'[j].pc = "back"
          BY <1>1, <1>2 DEF RestoredOne, JobsTyped, JobRecord
        <5>2. QED
          BY <4>2, <5>1
      <4>4. QED
        BY <4>1, <4>3
    <3>2. CASE Goto(j, "unlink")
      BY <1>1, <3>2, GotoIs
    <3>3. QED
      BY <1>9, <3>1, <3>2
  <2> HIDE DEF p, e
  <2>4. job'[j].pc \in Recycling /\ job'[j].pc \notin Restoring /\ job'[j].pc # "rollback"
        /\ job'[j].pc # "back" /\ job'[j].pc # "backUnlink"
    BY <2>3 DEF Recycling, Restoring
  <2>5. job'[j].pc = "move" \/ (job'[j].pc = "unlink" /\ Head(job'[j].todo) = "extra") => In(entry'[e].files) = {}
    BY <2>2, <2>3
  <2>6. AtEntry(j)'
    <3>1. HeldIn(job[j].at)' = In(entry'[e].files)
      BY <2>3 DEF HeldIn
    <3>2. QED
      BY <2>1, <2>3, <2>4, <2>5, <3>1 DEF AtEntry
  <2>7. \A f \in Entries : f # job[j].at => entry'[f] = entry[f]
    BY <2>1 DEF e
  <2>8. entry[job[j].at].listed = {} /\ recycled' \subseteq recycled /\ job'[j].at = job[j].at
    BY <1>5, <1>7, <2>3 DEF e
  <2>9. QED
    BY <1>6, <2>3, <2>6, <2>7, <2>8, StaysKeeps
<1>10. QED
  BY <1>8, <1>9 DEF RecycleMove

LEMMA RecycleUnlinkOrder ==
  ASSUME BinTyped, BinTyped', BinOrder, NEW j \in Jobs, RecycleUnlink(j)
  PROVE  BinOrder'
<1>1. /\ JobsTyped /\ AtEntry(j) /\ job[j].pc = "unlink" /\ job[j].pc \in Recycling
  BY DEF BinTyped, RecycleUnlink, Recycling, BinOrder
<1>2. job[j] \in JobRecord /\ JobShape(job[j]) /\ job \in [Jobs -> JobRecord]
  BY <1>1 DEF JobsTyped
<1>3. Partway(job[j]) /\ job[j].kind # "folder"
  BY <1>1, <1>2 DEF JobShape
<1>4. UNCHANGED <<entry, recycled>>
  BY DEF RecycleUnlink
<1>5. binFaults \subseteq binFaults'
  <2>1. UNCHANGED binFaults \/ Fault("unlink")
    BY DEF RecycleUnlink
  <2>2. QED
    BY <2>1, FaultsGrow DEF BinFaults
<1>6. CASE Goto(j, "rollback")
  BY <1>1, <1>4, <1>5, <1>6, GivesUpOrder
<1>7. CASE MovedOne(j)
  <2>1. job'[j].pc \in {"move", "manifest"}
    BY <1>2, <1>7 DEF MovedOne, JobRecord
  <2>2. ~RestoredOne(j)
    <3>1. RestoredOne(j) => job'[j].pc = "back"
      BY <1>2 DEF RestoredOne, JobRecord
    <3>2. QED
      BY <2>1, <3>1
  <2>3. /\ OthersStay(j) /\ job'[j].op = job[j].op /\ job'[j].at = job[j].at
        /\ \/ Head(job[j].todo) = "extra" /\ job'[j].pc = "move"
           \/ job'[j].pc = "manifest"
    BY <1>1, <1>3, <1>7, <2>2, OneMoreIs
  <2>4. entry[job[j].at].listed = {}
    BY <1>1 DEF AtEntry
  <2>5. job'[j].pc = "move" => HeldIn(job[j].at) = {}
    BY <1>1, <2>3 DEF AtEntry
  <2>6. HeldIn(job[j].at)' = HeldIn(job[j].at)
    BY <1>4, <2>3 DEF HeldIn
  <2>7. AtEntry(j)'
    BY <1>4, <2>3, <2>4, <2>5, <2>6 DEF AtEntry, Recycling, Restoring
  <2>8. QED
    BY <1>4, <1>5, <2>3, <2>4, <2>7, StaysKeeps
<1>8. QED
  BY <1>6, <1>7 DEF RecycleUnlink

\* where the recycle of a folder goes on
LEMMA FolderGone ==
  ASSUME JobsTyped, NEW j \in Jobs, job' = [job EXCEPT ![j].pc = "manifest", ![j].moved = <<"folder">>]
  PROVE  /\ OthersStay(j) /\ job'[j].op = job[j].op /\ job'[j].at = job[j].at /\ job'[j].pc = "manifest"
         /\ job'[j].kind = job[j].kind
<1> DEFINE r == [job[j] EXCEPT !.pc = "manifest", !.moved = <<"folder">>]
<1>1. job[j] \in JobRecord /\ job \in [Jobs -> JobRecord]
  BY DEF JobsTyped
<1>2. job' = [job EXCEPT ![j] = r]
  BY <1>1
<1>3. r.op = job[j].op /\ r.at = job[j].at /\ r.pc = "manifest" /\ r.kind = job[j].kind
  BY <1>1 DEF JobRecord
<1> HIDE DEF r
<1>4. job'[j] = r /\ \A k \in Jobs \ {j} : job'[k] = job[k]
  BY <1>1, <1>2
<1>5. QED
  BY <1>3, <1>4 DEF OthersStay

LEMMA RecycleTreeOrder ==
  ASSUME BinTyped, BinTyped', BinOrder, NEW j \in Jobs, RecycleTree(j)
  PROVE  BinOrder'
<1> DEFINE e == job[j].at
<1>1. /\ JobsTyped /\ EntriesTyped /\ AtEntry(j) /\ job[j].pc = "move" /\ job[j].pc \in Recycling
      /\ UNCHANGED recycled
  BY DEF BinTyped, RecycleTree, Recycling, BinOrder, historyVars
<1>2. e \in Entries /\ entry[e].listed = {} /\ entry[e] \in EntryRecord
  BY <1>1, JobAtEntry DEF AtEntry, EntriesTyped
<1>3. binFaults \subseteq binFaults'
  <2>1. UNCHANGED binFaults \/ Fault("move")
    BY DEF RecycleTree
  <2>2. QED
    BY <2>1, FaultsGrow DEF BinFaults
<1>4. CASE Goto(j, "rollback") /\ UNCHANGED entry
  BY <1>1, <1>3, <1>4, GivesUpOrder
<1>5. CASE /\ entry' = [entry EXCEPT ![job[j].at].files = lib, ![job[j].at].tree = TRUE]
           /\ \/ job' = [job EXCEPT ![j].pc = "manifest", ![j].moved = <<"folder">>]
              \/ Goto(j, "prune")
  <2>1. entry'[e].listed = {} /\ \A f \in Entries \ {e} : entry'[f] = entry[f]
    BY <1>1, <1>2, <1>5 DEF EntriesTyped, EntryRecord
  <2>2. OthersStay(j) /\ job'[j].op = job[j].op /\ job'[j].at = e /\ job'[j].pc \in {"manifest", "prune"}
    BY <1>1, <1>5, FolderGone, GotoIs
  <2> HIDE DEF e
  <2>3. AtEntry(j)'
    BY <2>1, <2>2 DEF AtEntry, Recycling, Restoring
  <2>4. QED
    BY <1>1, <1>2, <1>3, <2>1, <2>2, <2>3, StaysKeeps DEF e
<1>6. QED
  BY <1>4, <1>5 DEF RecycleTree

LEMMA PruneTreeOrder ==
  ASSUME BinTyped, BinTyped', BinOrder, NEW j \in Jobs, PruneTree(j)
  PROVE  BinOrder'
<1>1. /\ JobsTyped /\ AtEntry(j) /\ job[j].pc = "prune" /\ job[j].pc \in Recycling
      /\ UNCHANGED <<entry, recycled>>
  BY DEF BinTyped, PruneTree, Recycling, BinOrder
<1>2. entry[job[j].at].listed = {}
  BY <1>1 DEF AtEntry
<1>3. binFaults \subseteq binFaults'
  <2>1. UNCHANGED binFaults \/ Fault("unlink")
    BY DEF PruneTree
  <2>2. QED
    BY <2>1, FaultsGrow DEF BinFaults
<1>4. CASE Goto(j, "rollback")
  BY <1>1, <1>3, <1>4, GivesUpOrder
<1>5. CASE UNCHANGED job \/ job' = [job EXCEPT ![j].pc = "manifest", ![j].moved = <<"folder">>]
  <2>1. OthersStay(j) /\ job'[j].op = job[j].op /\ job'[j].at = job[j].at /\ job'[j].pc \in {"manifest", "prune"}
    BY <1>1, <1>5, FolderGone DEF OthersStay
  <2>2. AtEntry(j)'
    BY <1>1, <1>2, <2>1 DEF AtEntry, Recycling, Restoring
  <2>3. QED
    BY <1>1, <1>2, <1>3, <2>1, <2>2, StaysKeeps
<1>6. QED
  BY <1>4, <1>5 DEF PruneTree

LEMMA WriteManifestOrder ==
  ASSUME BinTyped, BinTyped', BinOrder, NEW j \in Jobs, WriteManifest(j)
  PROVE  BinOrder'
<1> DEFINE e == job[j].at
           names == {job[j].moved[i] : i \in DOMAIN job[j].moved}
<1>1. /\ JobsTyped /\ EntriesTyped /\ AtEntry(j) /\ job[j].pc = "manifest" /\ job[j].pc \in Recycling
  BY DEF BinTyped, WriteManifest, Recycling, BinOrder
<1>2. e \in Entries /\ entry[e].listed = {} /\ entry[e] \in EntryRecord /\ At(j) = entry[e]
      /\ job[j] \in JobRecord /\ JobShape(job[j])
  BY <1>1, JobAtEntry DEF AtEntry, EntriesTyped
<1>3. binFaults \subseteq binFaults'
  <2>1. UNCHANGED binFaults \/ Fault("manifest")
    BY DEF WriteManifest
  <2>2. QED
    BY <2>1, FaultsGrow DEF BinFaults
<1>4. CASE /\ Goto(j, "rollback") /\ UNCHANGED <<entry, recycled>>
           /\ ~At(j).open \/ Fault("manifest")
  <2>1. /\ OthersStay(j) /\ job'[j].pc = "rollback" /\ job'[j].op = job[j].op /\ job'[j].at = job[j].at
    BY <1>1, <1>4, GotoIs
  <2>2. ~entry[e].open \/ "manifest" \in binFaults'
    BY <1>2, <1>4 DEF Fault
  <2>3. AtEntry(j)'
    BY <1>2, <1>4, <2>1, <2>2 DEF AtEntry, Recycling, Restoring
  <2>4. QED
    BY <1>2, <1>3, <1>4, <2>1, <2>3, StaysKeeps
<1>5. CASE /\ entry' = [entry EXCEPT ![job[j].at].listed = names]
           /\ recycled' = recycled \cup {job[j].at} \X In(At(j).files)
           /\ After(j, TRUE)
  <2>1. names # {}
    <3>1. job[j].moved \in Lists(job[j].kind) /\ job[j].moved # <<>>
      BY <1>1, <1>2 DEF JobShape, NoMain
    <3> DEFINE m == Main(job[j].kind)
    <3>2. job[j].moved \in {<<m>>, <<"extra", m>>}
      BY <3>1 DEF Lists
    <3> HIDE DEF m
    <3>3. QED
      BY <3>2, NamesOfLists
  <2> HIDE DEF names
  <2>2. /\ entry'[e].listed = names /\ entry'[e].files = entry[e].files
        /\ \A f \in Entries \ {e} : entry'[f] = entry[f]
    BY <1>1, <1>2, <1>5 DEF EntriesTyped, EntryRecord
  <2>3. Gone(j)
    BY <1>1, <1>5, AfterGoes
  <2> HIDE DEF e
  <2>4. \A r \in recycled : r[1] # e
    BY <1>2, NoPairsUnlisted
  <2>5. \A r \in recycled' : r \in recycled \/ (r[1] = e /\ r[2] \in In(entry[e].files))
    BY <1>2, <1>5 DEF e
  <2>6. \A r \in recycled' : r[1] = e => entry'[r[1]].listed # {} /\ r[2] \in In(entry'[r[1]].files)
    BY <2>1, <2>2, <2>4, <2>5
  <2>7. \A f \in Entries : f # job[j].at => entry'[f] = entry[f]
    BY <2>2 DEF e
  <2>8. QED
    BY <1>3, <2>3, <2>5, <2>6, <2>7, GoneKeeps DEF Gone, e
<1>6. QED
  BY <1>4, <1>5 DEF WriteManifest

LEMMA RollbackOrder ==
  ASSUME BinTyped, BinTyped', BinOrder, NEW j \in Jobs, Rollback(j)
  PROVE  BinOrder'
<1> DEFINE e == job[j].at
           p == job[j].moved[Len(job[j].moved)]
<1>1. /\ JobsTyped /\ EntriesTyped /\ AtEntry(j) /\ job[j].pc = "rollback" /\ job[j].pc \in Recycling
      /\ UNCHANGED recycled /\ job[j].moved # <<>>
      /\ job' = [job EXCEPT ![j].moved = SubSeq(@, 1, Len(@) - 1)]
  BY DEF BinTyped, Rollback, Recycling, BinOrder
<1>2. e \in Entries /\ entry[e].listed = {} /\ entry[e] \in EntryRecord
  BY <1>1, JobAtEntry DEF AtEntry, EntriesTyped
<1>3. binFaults \subseteq binFaults'
  <2>1. UNCHANGED binFaults \/ Fault("undo")
    BY DEF Rollback
  <2>2. QED
    BY <2>1, FaultsGrow DEF BinFaults
<1>4. /\ OthersStay(j) /\ job'[j].op = job[j].op /\ job'[j].at = e /\ job'[j].pc = "rollback"
      /\ job'[j].moved \in NoMain
  BY <1>1, OneLessIs
<1>5. entry'[e].listed = {} /\ \A f \in Entries \ {e} : entry'[f] = entry[f]
  <2>1. UNCHANGED entry \/ MovesBack(p, e)
    BY DEF Rollback
  <2> HIDE DEF p
  <2>2. QED
    BY <1>1, <1>2, <2>1 DEF MovesBack, EntriesTyped, EntryRecord
<1> HIDE DEF e
<1>6. AtEntry(j)'
  BY <1>4, <1>5 DEF AtEntry, Recycling, Restoring
<1>7. \A f \in Entries : f # job[j].at => entry'[f] = entry[f]
  BY <1>5 DEF e
<1>8. entry[job[j].at].listed = {} /\ recycled' \subseteq recycled /\ job'[j].at = job[j].at
  BY <1>1, <1>2, <1>4 DEF e
<1>9. QED
  BY <1>3, <1>4, <1>6, <1>7, <1>8, StaysKeeps

LEMMA DropEntryOrder ==
  ASSUME BinTyped, BinTyped', BinOrder, NEW j \in Jobs, DropEntry(j)
  PROVE  BinOrder'
<1>1. /\ JobsTyped /\ EntriesTyped /\ AtEntry(j) /\ job[j].pc = "rollback" /\ job[j].pc \in Recycling
      /\ UNCHANGED <<recycled, binFaults>> /\ entry' = [entry EXCEPT ![job[j].at] = Closed]
      /\ After(j, FALSE)
  BY DEF BinTyped, DropEntry, Recycling, BinOrder, historyVars
<1>2. entry[job[j].at].listed = {}
  BY <1>1 DEF AtEntry
<1>3. Gone(j)
  BY <1>1, AfterGoes
<1>4. \A f \in Entries : f # job[j].at => entry'[f] = entry[f]
  BY <1>1 DEF EntriesTyped
<1>5. \A r \in recycled : r[1] # job[j].at
  BY <1>2, NoPairsUnlisted
<1>6. QED
  BY <1>1, <1>3, <1>4, <1>5, GoneKeeps DEF Gone

\* A restore that holds the locks finds nobody at an entry that is listed.
LEMMA NoJobAtListed ==
  ASSUME BinTyped, BinOrder, NEW e \in Entries, entry[e].listed # {}, ~PostProcHeld
  PROVE  \A k \in Jobs : job[k].at # e
<1> SUFFICES ASSUME NEW k \in Jobs, job[k].at = e PROVE FALSE
  OBVIOUS
<1>1. JobShape(job[k]) /\ e # 0 /\ AtEntry(k) /\ JobsTyped
  BY BinAssumptions DEF BinTyped, JobsTyped, BinOrder
<1>2. job[k].pc \in Recycling \cup Restoring
  BY <1>1 DEF JobShape
<1>3. job[k].pc \notin Recycling
  BY <1>1 DEF AtEntry
<1>4. job[k].op = "restore"
  BY <1>1, <1>2, <1>3, WhoIsAt
<1>5. QED
  BY <1>4 DEF PostProcHeld

LEMMA RestoreEntryOrder ==
  ASSUME BinTyped, BinTyped', BinOrder, NEW j \in Jobs, NEW e \in Entries, RestoreEntry(j, e)
  PROVE  BinOrder'
<1> DEFINE r == [IdleJob EXCEPT !.op = "restore", !.pc = "fit", !.at = e, !.kind = entry[e].kind]
<1>1. Begin(j, "restore", r) /\ UNCHANGED <<entry, recycled, binFaults>> /\ entry[e].listed # {}
      /\ ~PostProcHeld /\ ~ImportHeld
  BY DEF RestoreEntry, historyVars
<1>2. r.op = "restore" /\ r.pc = "fit" /\ r.at = e
  BY DEF IdleJob
<1>3. job' = [job EXCEPT ![j] = r] /\ job \in [Jobs -> JobRecord] /\ job[j] = IdleJob
  BY <1>1 DEF Begin, BinTyped, JobsTyped
<1> HIDE DEF r
<1>4. job'[j] = r /\ OthersStay(j)
  BY <1>3 DEF OthersStay
<1>5. \A k \in Jobs : job[k].at # e
  BY <1>1, NoJobAtListed
<1>6. AtEntry(j)'
  BY <1>1, <1>2, <1>4 DEF AtEntry, Recycling
<1>7. StepOf(j)
  BY <1>1, <1>2, <1>4, <1>5 DEF StepOf, Opens
<1>8. OwnPairs(j)
  BY <1>1 DEF OwnPairs, BinOrder, RecycledIsListed
<1>9. QED
  BY <1>6, <1>7, <1>8, StepKeepsOrder

\* An entry whose directory is gone holds nothing and lists nothing.
LEMMA GoneIsEmpty ==
  ASSUME EntriesTyped, NEW e \in Entries, ~entry[e].open
  PROVE  HeldIn(e) = {} /\ entry[e].listed = {} /\ entry[e].files = Empty /\ ~entry[e].tree
  BY ClosedTyped, NothingIn DEF EntriesTyped, EntryShape, HeldIn

\* The main file is all of an entry's video.
LEMMA MainIsAll ==
  ASSUME NEW en \in EntryRecord, EntryShape(en), en.kind # "folder"
  PROVE  LET m == Main(en.kind)
         IN /\ In(en.files) = {en.files[m]} \ {NoVideo}
            /\ In([en.files EXCEPT ![m] = NoVideo]) = {}
<1>1. en.kind \in Kinds /\ en.files \in [Path -> Files]
  BY DEF EntryRecord
<1>2. CASE en.kind = "episode"
  <2>1. Main(en.kind) = "video" /\ en.files["staged"] = NoVideo
    BY <1>2 DEF Main, EntryShape
  <2>2. [en.files EXCEPT !["video"] = NoVideo]["video"] = NoVideo
        /\ [en.files EXCEPT !["video"] = NoVideo]["staged"] = NoVideo
    BY <1>1, <2>1 DEF Path
  <2>3. QED
    BY <2>1, <2>2, InIs
<1>3. CASE en.kind = "staged"
  <2>1. Main(en.kind) = "staged" /\ en.files["video"] = NoVideo
    BY <1>3 DEF Main, EntryShape
  <2>2. [en.files EXCEPT !["staged"] = NoVideo]["video"] = NoVideo
        /\ [en.files EXCEPT !["staged"] = NoVideo]["staged"] = NoVideo
    BY <1>1, <2>1 DEF Path
  <2>3. QED
    BY <2>1, <2>2, InIs
<1>4. QED
  BY <1>1, <1>2, <1>3 DEF Kinds

LEMMA RestoreCheckOrder ==
  ASSUME BinTyped, BinTyped', BinOrder, NEW j \in Jobs, RestoreCheck(j)
  PROVE  BinOrder'
<1> DEFINE names == ManifestFiles(At(j).listed)
           r == [job[j] EXCEPT !.pc = "back", !.todo = names]
<1>1. /\ JobsTyped /\ EntriesTyped /\ AtEntry(j) /\ job[j].pc = "fit" /\ job[j].pc \in Restoring
      /\ UNCHANGED <<entry, recycled, binFaults>>
  BY DEF BinTyped, RestoreCheck, Restoring, BinOrder, historyVars
<1>2. /\ job[j].at \in Entries /\ At(j) = entry[job[j].at] /\ EntryShape(At(j)) /\ At(j) \in EntryRecord
      /\ job[j] \in JobRecord /\ job \in [Jobs -> JobRecord]
  BY <1>1, JobAtEntry DEF JobsTyped
<1>3. CASE Finish(j)
  BY <1>1, <1>3, FinishGoes, GoneUnchanged
<1>4. CASE job' = [job EXCEPT ![j].pc = "back", ![j].todo = names]
  <2>1. names = <<>> => HeldIn(job[j].at) = {}
    <3>1. CASE entry[job[j].at].open
      <4>1. At(j).listed # {}
        BY <1>1, <1>2, <3>1 DEF AtEntry
      <4>2. names # <<>>
        BY <1>2, <4>1, ReadList DEF EntryRecord
      <4>3. QED
        BY <4>2
    <3>2. CASE ~entry[job[j].at].open
      BY <1>1, <1>2, <3>2, GoneIsEmpty
    <3>3. QED
      BY <3>1, <3>2
  <2> HIDE DEF names
  <2>2. r.pc = "back" /\ r.op = job[j].op /\ r.at = job[j].at /\ r.todo = names
    BY <1>2 DEF JobRecord
  <2>3. job' = [job EXCEPT ![j] = r]
    BY <1>2, <1>4
  <2> HIDE DEF r
  <2>4. job'[j] = r /\ OthersStay(j)
    BY <1>2, <2>3 DEF OthersStay
  <2>5. HeldIn(job[j].at)' = HeldIn(job[j].at)
    BY <1>1, <2>2, <2>4 DEF HeldIn
  <2>6. AtEntry(j)'
    BY <1>1, <2>1, <2>2, <2>4, <2>5 DEF AtEntry, Recycling, Restoring
  <2>7. \A s \in recycled' : entry'[s[1]].listed # {} /\ s[2] \in In(entry'[s[1]].files)
    BY <1>1 DEF BinOrder, RecycledIsListed
  <2>8. QED
    BY <1>1, <2>2, <2>4, <2>6, <2>7, StaysKeeps
<1>5. QED
  BY <1>3, <1>4 DEF RestoreCheck

\* A restore that gives up keeps its entry.
LEMMA UndoOrder ==
  ASSUME BinTyped, BinTyped', BinOrder, NEW j \in Jobs, job[j].pc \in {"back", "backUnlink"},
         Goto(j, "undo"), UNCHANGED <<entry, recycled>>, binFaults \subseteq binFaults'
  PROVE  BinOrder'
<1>1. JobsTyped /\ AtEntry(j) /\ job[j].pc \in Restoring
  BY DEF BinTyped, BinOrder, Restoring
<1>2. /\ OthersStay(j) /\ job'[j].pc = "undo" /\ job'[j].op = job[j].op /\ job'[j].at = job[j].at
  BY <1>1, GotoIs
<1>3. AtEntry(j)'
  BY <1>1, <1>2 DEF AtEntry, Recycling, Restoring
<1>4. \A s \in recycled' : entry'[s[1]].listed # {} /\ s[2] \in In(entry'[s[1]].files)
  BY DEF BinOrder, RecycledIsListed
<1>5. QED
  BY <1>2, <1>3, <1>4, StaysKeeps

\* what the name at the head of a restore's list is
LEMMA RestoresName ==
  ASSUME BinTyped, NEW j \in Jobs, job[j].pc \in Restoring, Partway(job[j])
  PROVE  LET p == Head(job[j].todo)
         IN /\ p = "extra" \/ p = Main(job[j].kind)
            /\ p = "folder" <=> job[j].kind = "folder"
            /\ p # "folder" => p \in Path
<1> DEFINE p == Head(job[j].todo)
<1>1. job[j] \in JobRecord /\ JobShape(job[j]) /\ job[j].kind \in Kinds
  BY JobAtEntry
<1>2. (p = "extra" /\ job[j].kind # "folder") \/ p = Main(job[j].kind)
  BY <1>1, PartwayIs
<1> HIDE DEF p
<1>3. p = "extra" \/ p = Main(job[j].kind)
  BY <1>2
<1>4. p = "folder" <=> job[j].kind = "folder"
  BY <1>1, <1>2, MainFiles
<1>5. p # "folder" => p \in Path
  BY <1>1, <1>2, MainFiles DEF Path
<1>6. QED
  BY <1>3, <1>4, <1>5 DEF p

\* There is nothing to move back from an entry that is gone.
LEMMA MovesFromOpen ==
  ASSUME EntriesTyped, NEW e \in Entries, NEW p, p = "folder" \/ p \in Path,
         CanMoveBack(p, e)
  PROVE  entry[e].open
<1>1. CASE ~entry[e].open
  BY <1>1, GoneIsEmpty DEF CanMoveBack, Empty
<1>2. QED
  BY <1>1

\* The videos that go back with a file or a tree.
LEMMA BackInFolder ==
  ASSUME BinTyped, NEW e \in Entries, NEW p, entry[e].open, p = Main(entry[e].kind),
         lib' = IF p = "folder" THEN entry[e].files ELSE [lib EXCEPT ![p] = entry[e].files[p]]
  PROVE  HeldIn(e) \subseteq In(lib')
<1>1. /\ entry[e] \in EntryRecord /\ EntryShape(entry[e]) /\ entry[e].kind \in Kinds
      /\ lib \in [Path -> Files]
  BY DEF BinTyped, EntriesTyped, EntryRecord, FolderTyped
<1>2. CASE p = "folder"
  BY <1>2 DEF HeldIn
<1>3. CASE p # "folder"
  <2>1. p \in {"video", "staged"} /\ entry[e].kind # "folder"
    BY <1>1, <1>3, MainFiles
  <2>2. In(entry[e].files) = {entry[e].files[p]} \ {NoVideo}
    BY <1>1, <2>1, MainIsAll
  <2>3. lib'[p] = entry[e].files[p]
    BY <1>1, <1>3, <2>1 DEF Path
  <2>4. QED
    BY <2>1, <2>2, <2>3 DEF HeldIn, In
<1>4. QED
  BY <1>2, <1>3

LEMMA PairsGoBack ==
  ASSUME BinTyped, BinOrder, NEW e \in Entries, NEW p, entry[e].open, p = Main(entry[e].kind),
         lib' = IF p = "folder" THEN entry[e].files ELSE [lib EXCEPT ![p] = entry[e].files[p]],
         recycled' = recycled \ ({e} \X In(lib'))
  PROVE  \A r \in recycled' : r[1] # e
<1> SUFFICES ASSUME NEW r \in recycled', r[1] = e PROVE FALSE
  OBVIOUS
<1>1. HeldIn(e) \subseteq In(lib')
  BY BackInFolder
<1>2. r \in recycled /\ r = <<r[1], r[2]>>
  BY DEF BinTyped, HistoryTyped
<1>3. r[2] \in HeldIn(e)
  BY <1>2 DEF BinOrder, RecycledIsListed, HeldIn
<1>4. r \in {e} \X In(lib')
  BY <1>1, <1>2, <1>3
<1>5. QED
  BY <1>4

\* The restored file goes from its entry.
LEMMA OutOfEntry ==
  ASSUME BinTyped, BinTyped', BinOrder, NEW j \in Jobs, job[j].pc \in {"back", "backUnlink"},
         Partway(job[j]), RestoredOne(j), At(j).open, binFaults \subseteq binFaults',
         recycled' \subseteq recycled,
         \A f \in Entries \ {job[j].at} : entry'[f] = entry[f],
         entry'[job[j].at].open = entry[job[j].at].open, entry'[job[j].at].listed = entry[job[j].at].listed,
         LET p == Head(job[j].todo)
         IN /\ p = "folder" => entry'[job[j].at].files = Empty
            /\ p # "folder" => entry'[job[j].at].files = [entry[job[j].at].files EXCEPT ![p] = NoVideo]
            /\ p # "extra" => \A r \in recycled' : r[1] # job[j].at
  PROVE  BinOrder'
<1> DEFINE e == job[j].at
           p == Head(job[j].todo)
           m == Main(job[j].kind)
<1>1. /\ JobsTyped /\ EntriesTyped /\ AtEntry(j) /\ job[j].pc \in Restoring
  BY DEF BinTyped, BinOrder, Restoring
<1>2. /\ e \in Entries /\ At(j) = entry[e] /\ At(j) \in EntryRecord /\ EntryShape(At(j))
      /\ At(j).files \in [Path -> Files] /\ entry[e].kind = job[j].kind /\ job[j].kind \in Kinds
  BY <1>1, JobAtEntry
<1>3. /\ OthersStay(j) /\ job'[j].op = job[j].op /\ job'[j].at = e /\ job'[j].pc = "back"
      /\ \/ p = "extra" /\ job'[j].todo = <<m>>
         \/ p = m /\ job'[j].todo = <<>>
  <2>1. job'[j].pc = "back"
    BY <1>1 DEF RestoredOne, JobsTyped, JobRecord
  <2>2. QED
    BY <1>1, <2>1, OneMoreIs
<1>4. entry[e].listed # {}
  BY <1>1, <1>2 DEF AtEntry
<1>5. p = m => In(entry'[e].files) = {}
  <2>1. CASE p = "folder"
    BY <2>1, NothingIn
  <2>2. CASE p # "folder" /\ p = m
    <3>1. entry[e].kind # "folder"
      BY <1>2, <2>2, MainFiles
    <3>2. In([entry[e].files EXCEPT ![m] = NoVideo]) = {}
      BY <1>2, <3>1, MainIsAll
    <3>3. QED
      BY <2>2, <3>2
  <2>3. QED
    BY <2>1, <2>2
<1>6. p = "extra" => In(entry'[e].files) = In(entry[e].files)
  BY <1>2, CompanionsDoNotCount
<1>7. m # "extra"
  BY <1>2, MainFiles
<1>8. \A r \in recycled' : r[1] = e => r[2] \in In(entry'[e].files)
  BY <1>3, <1>6, <1>7 DEF BinOrder, RecycledIsListed
<1>9. entry'[e].listed = entry[e].listed
  OBVIOUS
<1> HIDE DEF p, m
<1>10. HeldIn(e)' = In(entry'[job'[j].at].files)
  BY DEF HeldIn
<1>11. job'[j].todo = <<>> => p = m
  <2>1. <<m>> # <<>>
    BY <1>7, ListsDiffer
  <2>2. QED
    BY <1>3, <2>1
<1> HIDE DEF e
<1>12. AtEntry(j)'
  <2>1. HeldIn(job[j].at)' = In(entry'[e].files)
    BY <1>3 DEF HeldIn
  <2>2. QED
    BY <1>3, <1>4, <1>5, <1>9, <1>11, <2>1 DEF AtEntry, Recycling, Restoring
<1>13. QED
  BY <1>3, <1>4, <1>8, <1>9, <1>12, StaysKeeps DEF e

LEMMA RestoreMoveOrder ==
  ASSUME BinTyped, BinTyped', BinOrder, NEW j \in Jobs, RestoreMove(j)
  PROVE  BinOrder'
<1> DEFINE e == job[j].at
           p == Head(job[j].todo)
<1>1. /\ JobsTyped /\ EntriesTyped /\ FolderTyped /\ AtEntry(j)
      /\ job[j].pc = "back" /\ job[j].pc \in Restoring /\ job[j].todo # <<>>
  BY DEF BinTyped, RestoreMove, Restoring, BinOrder
<1>2. /\ e \in Entries /\ At(j) = entry[e] /\ (At(j).open => At(j).kind = job[j].kind)
      /\ job[j] \in JobRecord /\ JobShape(job[j]) /\ job[j].kind \in Kinds
  BY <1>1, JobAtEntry
<1>3. Partway(job[j])
  BY <1>1, <1>2 DEF JobShape
<1>4. /\ p = "extra" \/ p = Main(job[j].kind)
      /\ p = "folder" <=> job[j].kind = "folder"
      /\ p # "folder" => p \in Path
  BY <1>1, <1>3, RestoresName
<1>5. binFaults \subseteq binFaults'
  <2>1. UNCHANGED binFaults \/ Fault("move")
    BY DEF RestoreMove
  <2>2. QED
    BY <2>1, FaultsGrow DEF BinFaults
<1>6. CASE Goto(j, "undo") /\ UNCHANGED <<entry, recycled>>
  BY <1>1, <1>5, <1>6, UndoOrder
<1> HIDE DEF p
<1>7. CASE MovesBack(p, e) /\ RestoredOne(j) /\ recycled' = recycled \ ({e} \X In(lib'))
  <2>1. CanMoveBack(p, e)
    BY <1>7 DEF MovesBack, CanMoveBack
  <2>2. entry[e].open
    BY <1>1, <1>2, <1>4, <2>1, MovesFromOpen
  <2>3. (p = "extra" \/ p = Main(entry[e].kind)) /\ (p = "extra" => entry[e].kind # "folder")
    BY <1>2, <1>4, <2>2, MainFiles
  <2>4. /\ entry'[e].open = entry[e].open /\ entry'[e].listed = entry[e].listed
        /\ p = "folder" => entry'[e].files = Empty /\ lib' = entry[e].files
        /\ p # "folder" => /\ entry'[e].files = [entry[e].files EXCEPT ![p] = NoVideo]
                           /\ lib' = [lib EXCEPT ![p] = entry[e].files[p]]
        /\ \A f \in Entries \ {e} : entry'[f] = entry[f]
    <3>1. UNCHANGED waiting
      BY DEF RestoreMove
    <3>2. QED
      BY <1>1, <1>2, <1>7, <2>3, <3>1, BackTyped
  <2>5. p # "extra" => \A r \in recycled' : r[1] # e
    BY <1>2, <1>7, <2>2, <2>3, <2>4, PairsGoBack
  <2> HIDE DEF e
  <2>6. QED
    BY <1>1, <1>2, <1>3, <1>5, <1>7, <2>2, <2>4, <2>5, OutOfEntry DEF e, p
<1>8. CASE /\ CanMoveBack(p, e) /\ Goto(j, "backUnlink") /\ UNCHANGED entry
           /\ lib' = IF p = "folder" THEN At(j).files ELSE [lib EXCEPT ![p] = At(j).files[p]]
           /\ recycled' = recycled \ ({e} \X In(lib'))
  <2>1. entry[e].open
    BY <1>1, <1>2, <1>4, <1>8, MovesFromOpen
  <2>2. p # "extra" => \A r \in recycled' : r[1] # e
    BY <1>2, <1>4, <1>8, <2>1, PairsGoBack
  <2>3. /\ OthersStay(j) /\ job'[j].pc = "backUnlink" /\ job'[j].op = job[j].op
        /\ job'[j].at = job[j].at /\ job'[j].todo = job[j].todo
    BY <1>1, <1>8, GotoIs
  <2>4. AtEntry(j)'
    BY <1>1, <1>8, <2>2, <2>3 DEF AtEntry, Recycling, Restoring, p, e
  <2>5. recycled' \subseteq recycled
    BY <1>8
  <2>6. \A s \in recycled' : entry'[s[1]].listed # {} /\ s[2] \in In(entry'[s[1]].files)
    BY <1>8, <2>5 DEF BinOrder, RecycledIsListed
  <2>7. QED
    BY <1>5, <1>8, <2>3, <2>4, <2>5, <2>6, StaysKeeps
<1>9. QED
  BY <1>6, <1>7, <1>8 DEF RestoreMove, p

LEMMA RestoreUnlinkOrder ==
  ASSUME BinTyped, BinTyped', BinOrder, NEW j \in Jobs, RestoreUnlink(j)
  PROVE  BinOrder'
<1> DEFINE e == job[j].at
           p == Head(job[j].todo)
<1>1. /\ JobsTyped /\ EntriesTyped /\ FolderTyped /\ AtEntry(j)
      /\ job[j].pc = "backUnlink" /\ job[j].pc \in Restoring /\ UNCHANGED recycled
  BY DEF BinTyped, RestoreUnlink, Restoring, BinOrder, historyVars
<1>2. /\ e \in Entries /\ At(j) = entry[e] /\ (At(j).open => At(j).kind = job[j].kind)
      /\ job[j] \in JobRecord /\ JobShape(job[j]) /\ job[j].kind \in Kinds
  BY <1>1, JobAtEntry
<1>3. Partway(job[j])
  BY <1>1, <1>2 DEF JobShape
<1>4. /\ p = "extra" \/ p = Main(job[j].kind)
      /\ p = "folder" <=> job[j].kind = "folder"
      /\ p # "folder" => p \in Path
  BY <1>1, <1>3, RestoresName
<1>5. binFaults \subseteq binFaults'
  <2>1. UNCHANGED binFaults \/ Fault("unlink")
    BY DEF RestoreUnlink
  <2>2. QED
    BY <2>1, FaultsGrow DEF BinFaults
<1>6. CASE Goto(j, "undo") /\ UNCHANGED <<entry, recycled>>
  BY <1>1, <1>5, <1>6, UndoOrder
<1> HIDE DEF p
<1>7. CASE /\ IF p = "folder" THEN At(j).tree ELSE At(j).files[p] # NoVideo
           /\ entry' = [entry EXCEPT
                ![job[j].at].files = IF p = "folder" THEN Empty ELSE [@ EXCEPT ![p] = NoVideo],
                ![job[j].at].tree = FALSE]
           /\ RestoredOne(j)
  <2>1. entry[e].open
    <3>1. CASE ~entry[e].open
      BY <1>1, <1>2, <1>4, <1>7, <3>1, GoneIsEmpty DEF Empty
    <3>2. QED
      BY <3>1
  <2>2. (p = "extra" \/ p = Main(entry[e].kind)) /\ (p = "folder" <=> entry[e].kind = "folder")
    BY <1>2, <1>4, <2>1
  <2>3. /\ entry'[e].open = entry[e].open /\ entry'[e].listed = entry[e].listed
        /\ entry'[e].files = IF p = "folder" THEN Empty ELSE [entry[e].files EXCEPT ![p] = NoVideo]
        /\ \A f \in Entries \ {e} : entry'[f] = entry[f]
    BY <1>1, <1>2, <1>7, <2>1, <2>2, UnlinkedEntry
  <2>4. p # "extra" => \A r \in recycled' : r[1] # e
    BY <1>1 DEF AtEntry, p
  <2> HIDE DEF e
  <2>5. QED
    BY <1>1, <1>2, <1>3, <1>5, <1>7, <2>1, <2>3, <2>4, OutOfEntry DEF e, p
<1>8. QED
  BY <1>1, <1>6, <1>7 DEF RestoreUnlink, p

\* A restore takes back nothing but companions: its main file is the last to move.
LEMMA UndoneIsCompanion ==
  ASSUME BinTyped, NEW j \in Jobs, job[j].pc = "undo", job[j].moved # <<>>
  PROVE  job[j].moved[Len(job[j].moved)] = "extra"
<1>1. job[j] \in JobRecord /\ JobShape(job[j])
  BY DEF BinTyped, JobsTyped
<1>2. job[j].moved \in NoMain
  BY <1>1 DEF JobShape
<1>3. QED
  BY <1>1, <1>2, LastMoved

LEMMA RestoreUndoOrder ==
  ASSUME BinTyped, BinTyped', BinOrder, NEW j \in Jobs, RestoreUndo(j)
  PROVE  BinOrder'
<1> DEFINE e == job[j].at
           p == job[j].moved[Len(job[j].moved)]
<1>1. /\ JobsTyped /\ EntriesTyped /\ AtEntry(j) /\ job[j].pc = "undo" /\ job[j].pc \in Restoring
      /\ UNCHANGED recycled
  BY DEF BinTyped, RestoreUndo, Restoring, BinOrder, historyVars
<1>2. /\ e \in Entries /\ At(j) = entry[e] /\ At(j) \in EntryRecord /\ At(j).files \in [Path -> Files]
  BY <1>1, JobAtEntry
<1>3. binFaults \subseteq binFaults'
  <2>1. UNCHANGED binFaults \/ Fault("undo")
    BY DEF RestoreUndo
  <2>2. QED
    BY <2>1, FaultsGrow DEF BinFaults
<1>4. CASE Finish(j) /\ UNCHANGED entry
  BY <1>1, <1>3, <1>4, FinishGoes, GoneUnchanged
<1>5. CASE /\ job[j].moved # <<>>
           /\ UNCHANGED entry \/ entry' = [entry EXCEPT ![job[j].at].files[p] = lib[p]]
           /\ job' = [job EXCEPT ![j].moved = SubSeq(@, 1, Len(@) - 1)]
  <2>1. p = "extra"
    BY <1>1, <1>5, UndoneIsCompanion
  <2>2. OthersStay(j) /\ job'[j].op = job[j].op /\ job'[j].at = job[j].at /\ job'[j].pc = "undo"
    BY <1>1, <1>5, OneLessIs
  <2>3. /\ entry'[e].listed = entry[e].listed /\ entry'[e].open = entry[e].open
        /\ In(entry'[e].files) = In(entry[e].files)
        /\ \A f \in Entries \ {e} : entry'[f] = entry[f]
    <3>1. CASE UNCHANGED entry
      BY <3>1
    <3>2. CASE entry' = [entry EXCEPT ![job[j].at].files[p] = lib[p]]
      <4>1. entry' = [entry EXCEPT ![e].files["extra"] = lib["extra"]]
        BY <2>1, <3>2
      <4>2. /\ entry'[e].listed = entry[e].listed /\ entry'[e].open = entry[e].open
            /\ entry'[e].files = [entry[e].files EXCEPT !["extra"] = lib["extra"]]
            /\ \A f \in Entries \ {e} : entry'[f] = entry[f]
        BY <1>1, <1>2, <4>1 DEF EntriesTyped, EntryRecord
      <4>3. QED
        BY <1>2, <4>2, CompanionsDoNotCount
    <3>3. QED
      BY <1>5, <3>1, <3>2
  <2> HIDE DEF p, e
  <2>4. AtEntry(j)'
    BY <1>1, <2>2, <2>3 DEF AtEntry, Recycling, Restoring, e
  <2>5. \A r \in recycled' : r[1] = job[j].at => entry'[e].listed # {} /\ r[2] \in In(entry'[e].files)
    BY <1>1, <2>3 DEF BinOrder, RecycledIsListed, e
  <2>6. QED
    BY <1>1, <1>3, <2>2, <2>3, <2>4, <2>5, StaysKeeps DEF e
<1>6. QED
  BY <1>4, <1>5 DEF RestoreUndo

LEMMA RestoreEndOrder ==
  ASSUME BinTyped, BinTyped', BinOrder, NEW j \in Jobs, RestoreEnd(j)
  PROVE  BinOrder'
<1>1. /\ JobsTyped /\ EntriesTyped /\ AtEntry(j) /\ job[j].pc = "back" /\ job[j].todo = <<>>
      /\ UNCHANGED <<recycled, binFaults>> /\ entry' = [entry EXCEPT ![job[j].at] = Closed]
      /\ Finish(j)
  BY DEF BinTyped, RestoreEnd, BinOrder, historyVars
<1>2. HeldIn(job[j].at) = {}
  BY <1>1 DEF AtEntry
<1>3. Gone(j)
  BY <1>1, FinishGoes
<1>4. \A f \in Entries : f # job[j].at => entry'[f] = entry[f]
  BY <1>1 DEF EntriesTyped
<1>5. \A r \in recycled : r[1] # job[j].at
  BY <1>2 DEF BinOrder, RecycledIsListed, HeldIn
<1>6. QED
  BY <1>1, <1>3, <1>4, <1>5, GoneKeeps DEF Gone

\* What somebody destroys, or ages, while the jobs stand still.
LEMMA DestroyOrder ==
  ASSUME BinTyped, BinTyped', BinOrder, NEW es \in SUBSET Entries, Destroy(es), UNCHANGED <<job, binFaults>>
  PROVE  BinOrder'
<1>1. \A e \in Entries : entry'[e] = IF e \in es THEN Closed ELSE entry[e]
  BY DEF Destroy
<1>2. recycled' = {r \in recycled : r[1] \notin es}
  BY DEF Destroy
<1>3. LocksExclude' /\ EntriesAreOwned'
  BY DEF BinOrder, LocksExclude, EntriesAreOwned
<1>4. ASSUME NEW k \in Jobs PROVE AtEntry(k)'
  <2>1. AtEntry(k) /\ job' = job
    BY DEF BinOrder
  <2>2. CASE job[k].pc \in Recycling \cup Restoring
    <3>1. job[k].at \in Entries
      BY <2>2, JobAtEntry
    <3>2. CASE job[k].at \in es
      <4>1. entry'[job[k].at] = Closed
        BY <1>1, <3>1, <3>2
      <4>2. /\ entry'[job[k].at].listed = {} /\ ~entry'[job[k].at].open
            /\ In(entry'[job[k].at].files) = {}
        BY <4>1, ClosedTyped, NothingIn
      <4>3. HeldIn(job[k].at)' = {}
        BY <2>1, <4>2 DEF HeldIn
      <4>4. \A r \in recycled' : r[1] # job[k].at
        BY <1>2, <3>2
      <4>5. QED
        BY <2>1, <4>2, <4>3, <4>4 DEF AtEntry
    <3>3. CASE job[k].at \notin es
      <4>1. entry'[job[k].at] = entry[job[k].at]
        BY <1>1, <3>1, <3>3
      <4>2. HeldIn(job[k].at)' = HeldIn(job[k].at)
        BY <2>1, <4>1 DEF HeldIn
      <4>3. QED
        BY <1>2, <2>1, <4>1, <4>2 DEF AtEntry
    <3>4. QED
      BY <3>2, <3>3
  <2>3. CASE job[k].pc \notin Recycling \cup Restoring
    BY <2>1, <2>3 DEF AtEntry, Recycling, Restoring
  <2>4. QED
    BY <2>2, <2>3
<1>5. RecycledIsListed'
  <2>1. \A r \in recycled' : r \in recycled /\ r[1] \in Entries /\ entry'[r[1]] = entry[r[1]]
    BY <1>1, <1>2 DEF BinTyped, HistoryTyped
  <2>2. QED
    BY <2>1 DEF BinOrder, RecycledIsListed
<1>6. QED
  BY <1>3, <1>4, <1>5 DEF BinOrder

LEMMA AgeOutOrder ==
  ASSUME BinTyped, BinTyped', BinOrder, AgeOut
  PROVE  BinOrder'
<1>1. /\ entry' = [e \in Entries |-> [entry[e] EXCEPT !.aged = entry[e].open]]
      /\ UNCHANGED <<job, recycled, binFaults>>
  BY DEF AgeOut, historyVars
<1>2. \A e \in Entries : /\ entry'[e].open = entry[e].open /\ entry'[e].listed = entry[e].listed
                         /\ entry'[e].files = entry[e].files
  BY <1>1 DEF BinTyped, EntriesTyped, EntryRecord
<1>3. LocksExclude' /\ EntriesAreOwned'
  BY <1>1 DEF BinOrder, LocksExclude, EntriesAreOwned
<1>4. ASSUME NEW k \in Jobs PROVE AtEntry(k)'
  <2>1. AtEntry(k)
    BY DEF BinOrder
  <2>2. CASE job[k].pc \in Recycling \cup Restoring
    <3>1. job[k].at \in Entries
      BY <2>2, JobAtEntry
    <3>2. HeldIn(job[k].at)' = HeldIn(job[k].at)
      BY <1>1, <1>2, <3>1 DEF HeldIn
    <3>3. QED
      BY <1>1, <1>2, <2>1, <3>1, <3>2 DEF AtEntry
  <2>3. CASE job[k].pc \notin Recycling \cup Restoring
    BY <1>1, <2>3 DEF AtEntry, Recycling, Restoring
  <2>4. QED
    BY <2>2, <2>3
<1>5. RecycledIsListed'
  <2>1. \A r \in recycled' : r \in recycled /\ r[1] \in Entries
    BY <1>1 DEF BinTyped, HistoryTyped
  <2>2. QED
    BY <1>2, <2>1 DEF BinOrder, RecycledIsListed
<1>6. QED
  BY <1>3, <1>4, <1>5 DEF BinOrder

\* After a crash there are no jobs.
LEMMA IdleOrder ==
  ASSUME job = [j \in Jobs |-> IdleJob], RecycledIsListed
  PROVE  BinOrder
<1>1. IdleJob.op = "none" /\ IdleJob.at = 0 /\ IdleJob.pc = "idle"
  BY DEF IdleJob
<1>2. \A j \in Jobs : job[j] = IdleJob
  OBVIOUS
<1>3. LocksExclude /\ EntriesAreOwned
  BY <1>1, <1>2 DEF LocksExclude, EntriesAreOwned, PostProcOps, ImportOps
<1>4. \A j \in Jobs : AtEntry(j)
  BY <1>1, <1>2 DEF AtEntry, Recycling, Restoring
<1>5. QED
  BY <1>3, <1>4 DEF BinOrder

LEMMA InitOrder == BinInit => BinOrder
<1> SUFFICES ASSUME BinInit PROVE BinOrder
  OBVIOUS
<1>1. job = [j \in Jobs |-> IdleJob] /\ recycled = {}
  BY DEF BinInit
<1>2. RecycledIsListed
  BY <1>1 DEF RecycledIsListed
<1>3. QED
  BY <1>1, <1>2, IdleOrder

LEMMA CrashOrder ==
  ASSUME BinOrder, BinCrash
  PROVE  BinOrder'
<1>1. job' = [j \in Jobs |-> IdleJob] /\ UNCHANGED <<entry, recycled>>
  BY DEF BinCrash, historyVars
<1>2. IdleJob.op = "none" /\ IdleJob.at = 0 /\ IdleJob.pc = "idle"
  BY DEF IdleJob
<1>3. \A j \in Jobs : job'[j] = IdleJob
  BY <1>1
<1>4. LocksExclude' /\ EntriesAreOwned'
  BY <1>2, <1>3 DEF LocksExclude, EntriesAreOwned, PostProcOps, ImportOps
<1>5. \A j \in Jobs : AtEntry(j)'
  BY <1>2, <1>3 DEF AtEntry, Recycling, Restoring
<1>6. RecycledIsListed'
  BY <1>1 DEF BinOrder, RecycledIsListed
<1>7. QED
  BY <1>4, <1>5, <1>6 DEF BinOrder

LEMMA EnvironmentOrder ==
  ASSUME BinTyped, BinTyped', BinOrder,
         (\E e \in Entries : DeleteNow(e)) \/ EmptyBin \/ PurgeOld \/ AgeOut \/ BinCrash
  PROVE  BinOrder'
<1>1. CASE \E e \in Entries : DeleteNow(e)
  BY <1>1, DestroyOrder DEF DeleteNow
<1>2. CASE EmptyBin
  BY <1>2, DestroyOrder DEF EmptyBin
<1>3. CASE PurgeOld
  BY <1>3, DestroyOrder DEF PurgeOld
<1>4. QED
  BY <1>1, <1>2, <1>3, AgeOutOrder, CrashOrder

LEMMA StepOrder ==
  ASSUME BinTyped, BinTyped', BinOrder, [BinNext]_binVars
  PROVE  BinOrder'
<1>1. CASE UNCHANGED binVars
  <2>1. UNCHANGED <<job, entry, recycled, binFaults>>
    BY <1>1 DEF binVars, historyVars
  <2>2. LocksExclude' /\ EntriesAreOwned' /\ RecycledIsListed'
    BY <2>1 DEF BinOrder, LocksExclude, EntriesAreOwned, RecycledIsListed
  <2>3. \A k \in Jobs : AtEntry(k)'
    BY <2>1 DEF BinOrder, AtEntry, HeldIn
  <2>4. QED
    BY <2>2, <2>3 DEF BinOrder
<1>2. ASSUME NEW j \in Jobs, Caller(j) PROVE BinOrder'
  BY <1>2, BeginOrder, CallersOrder DEF Caller
<1>3. ASSUME NEW j \in Jobs, Recycle(j) PROVE BinOrder'
  BY <1>3, RecycleOpenOrder, RecycleMoveOrder, RecycleUnlinkOrder, RecycleTreeOrder, PruneTreeOrder,
     WriteManifestOrder, RollbackOrder, DropEntryOrder DEF Recycle
<1>4. ASSUME NEW j \in Jobs, RestoreStep(j) PROVE BinOrder'
  BY <1>4, RestoreEntryOrder, RestoreCheckOrder, RestoreMoveOrder, RestoreUnlinkOrder,
     RestoreUndoOrder, RestoreEndOrder DEF RestoreStep
<1>5. QED
  BY <1>1, <1>2, <1>3, <1>4, EnvironmentOrder DEF BinNext

LEMMA BinOrdered == BinSpec => [](BinTyped /\ BinOrder)
<1>1. BinInit => BinTyped /\ BinOrder
  BY InitTyped, InitOrder
<1>2. BinTyped /\ BinOrder /\ [BinNext]_binVars => (BinTyped /\ BinOrder)'
  BY StepTyped, StepOrder
<1>3. QED
  BY <1>1, <1>2, PTL DEF BinSpec

\* What a finished recycle put in the bin stays in its entry, where Restore can see it, through
\* crashes and failing calls, until it is back in the folder or destroyed on request.
THEOREM RecycledStaysListed == BinSpec => []RecycledIsListed
<1>1. BinTyped /\ BinOrder => RecycledIsListed
  BY DEF BinOrder
<1>2. QED
  BY <1>1, BinOrdered, PTL

------------------------------------------------------------------------------
(* The imports keep their files *)

\* A recycle adds nothing to the folder, until it rolls back.
LEMMA OnlyRemoves ==
  ASSUME BinTyped, NEW j \in Jobs,
         \/ RecycleOpen(j) \/ RecycleMove(j) \/ RecycleUnlink(j) \/ RecycleTree(j) \/ PruneTree(j)
         \/ WriteManifest(j) \/ DropEntry(j)
  PROVE  \A p \in Path : lib'[p] \in {lib[p], NoVideo}
<1>1. lib \in [Path -> Files] /\ \A p \in Path : Empty[p] = NoVideo
  BY DEF BinTyped, FolderTyped, Empty
<1>2. CASE RecycleOpen(j)
  <2>1. UNCHANGED lib \/ \E going : lib' = [p \in Path |-> IF p \in going THEN NoVideo ELSE lib[p]]
    BY <1>2 DEF RecycleOpen
  <2>2. QED
    BY <1>1, <2>1
<1>3. CASE RecycleMove(j) \/ RecycleUnlink(j)
  <2>1. UNCHANGED lib \/ \E q : lib' = [lib EXCEPT ![q] = NoVideo]
    BY <1>3 DEF RecycleMove, RecycleUnlink
  <2>2. QED
    BY <1>1, <2>1
<1>4. CASE RecycleTree(j)
  BY <1>1, <1>4 DEF RecycleTree
<1>5. CASE PruneTree(j)
  BY <1>1, <1>5 DEF PruneTree
<1>6. CASE WriteManifest(j) \/ DropEntry(j)
  BY <1>6 DEF WriteManifest, DropEntry, libVars
<1>7. QED
  BY <1>2, <1>3, <1>4, <1>5, <1>6

\* A rollback brings a video back only after the manifest could not be written.
LEMMA RollsBackVideo ==
  ASSUME BinTyped, BinOrder, NEW j \in Jobs, Rollback(j), lib'["video"] # lib["video"]
  PROVE  "manifest" \in binFaults'
<1> DEFINE e == job[j].at
           p == job[j].moved[Len(job[j].moved)]
<1>1. /\ EntriesTyped /\ FolderTyped /\ AtEntry(j) /\ job[j].pc = "rollback" /\ job[j].pc \in Recycling
      /\ job[j].moved # <<>>
  BY DEF BinTyped, Rollback, Recycling, BinOrder
<1>2. e \in Entries /\ job[j] \in JobRecord /\ JobShape(job[j])
  BY <1>1, JobAtEntry
<1>3. MovesBack(p, e)
  BY DEF Rollback
<1>4. (p = "folder" \/ p \in Path) /\ (job[j].moved \in NoMain <=> p = "extra")
  BY <1>1, <1>2, LastMoved
<1> HIDE DEF p, e
<1>5. entry[e].open
  <2>1. CanMoveBack(p, e)
    BY <1>3 DEF MovesBack, CanMoveBack
  <2>2. QED
    BY <1>1, <1>2, <1>4, <2>1, MovesFromOpen
<1>6. p # "extra"
  BY <1>1, <1>3 DEF MovesBack, FolderTyped, Path
<1>7. "manifest" \in binFaults
  BY <1>1, <1>4, <1>5, <1>6 DEF AtEntry, e
<1>8. QED
  BY <1>7 DEF Rollback, Fault

\* Who can put a video at the episode's path.
LEMMA WhoPlaces ==
  ASSUME BinTyped, BinOrder, NEW j \in Jobs, Caller(j) \/ Recycle(j) \/ RestoreStep(j),
         lib'["video"] \notin {lib["video"], NoVideo}, "manifest" \notin binFaults'
  PROVE  job[j].op \in {"tick", "manual", "restore"}
<1>1. JobsTyped /\ lib \in [Path -> Files] /\ "video" \in Path
  BY DEF BinTyped, FolderTyped, Path
<1>2. CASE Caller(j)
  <2>1. TickPlace(j) \/ Swap(j) \/ Unstage(j) \/ ManualPut(j) \/ Nfo(j)
    BY <1>2 DEF Caller, DeleteEpisode, RemoveSeries, SweepStart, TickStart, ManualStart, ManualCheck, libVars
  <2>2. QED
    BY <1>1, <2>1, WhoIsAt DEF TickPlace, Swap, Unstage, ManualPut, Nfo
<1>3. CASE Recycle(j)
  <2>1. ~Rollback(j)
    BY RollsBackVideo
  <2>2. QED
    BY <1>1, <1>3, <2>1, OnlyRemoves DEF Recycle
<1>4. CASE RestoreStep(j)
  <2>1. ~\E e \in Entries : RestoreEntry(j, e)
    BY DEF RestoreEntry, libVars
  <2>2. job[j].pc \in Restoring
    BY <1>4, <2>1 DEF RestoreStep, RestoreCheck, RestoreMove, RestoreUnlink, RestoreUndo, RestoreEnd, Restoring
  <2>3. QED
    BY <1>1, <2>2, WhoIsAt
<1>5. QED
  BY <1>2, <1>3, <1>4

\* Where an episode's restore is between its check and its video, it has the path to itself.
FreePath(j) ==
  /\ job[j].op = "restore" /\ job[j].kind = "episode" /\ "manifest" \notin binFaults
  /\ (job[j].pc = "back" /\ job[j].todo # <<>>) \/ (job[j].pc = "backUnlink" /\ Head(job[j].todo) = "extra")
  => lib["video"] = NoVideo

FreePaths == \A j \in Jobs : FreePath(j)

LEMMA OthersKeepFree ==
  ASSUME BinTyped, BinOrder, FreePaths, NEW j \in Jobs, Caller(j) \/ Recycle(j) \/ RestoreStep(j),
         OthersStay(j), binFaults \subseteq binFaults', NEW k \in Jobs \ {j}
  PROVE  FreePath(k)'
<1> SUFFICES ASSUME job'[k].op = "restore", job'[k].kind = "episode", "manifest" \notin binFaults',
                    (job'[k].pc = "back" /\ job'[k].todo # <<>>)
                      \/ (job'[k].pc = "backUnlink" /\ Head(job'[k].todo) = "extra")
             PROVE  lib'["video"] = NoVideo
  BY DEF FreePath
<1>1. job'[k] = job[k]
  BY DEF OthersStay
<1>2. lib["video"] = NoVideo
  BY <1>1 DEF FreePaths, FreePath
<1>3. job[j].op \notin {"tick", "manual", "restore"}
  BY <1>1 DEF BinOrder, LocksExclude, PostProcOps, ImportOps
<1>4. lib'["video"] \in {lib["video"], NoVideo}
  BY <1>3, WhoPlaces
<1>5. QED
  BY <1>2, <1>4

\* A step of j leaves the others alone.
LEMMA StepLeavesOthers ==
  ASSUME BinTyped, NEW j \in Jobs, Caller(j) \/ Recycle(j) \/ RestoreStep(j)
  PROVE  OthersStay(j) /\ binFaults \subseteq binFaults'
<1>1. job \in [Jobs -> JobRecord]
  BY DEF BinTyped, JobsTyped
<1>2. UNCHANGED binFaults \/ \E f \in BinFaults : Fault(f)
  <2>1. {"mkdir", "move", "unlink", "manifest", "undo", "place"} \subseteq BinFaults
    BY DEF BinFaults
  <2>2. CASE Caller(j)
    BY <2>1, <2>2 DEF Caller, DeleteEpisode, RemoveSeries, SweepStart, TickStart, ManualStart,
       TickPlace, Swap, Nfo, Unstage, ManualCheck, ManualPut
  <2>3. CASE Recycle(j)
    BY <2>1, <2>3 DEF Recycle, RecycleOpen, RecycleMove, RecycleUnlink, RecycleTree, PruneTree,
       WriteManifest, Rollback, DropEntry
  <2>4. CASE RestoreStep(j)
    BY <2>1, <2>4 DEF RestoreStep, RestoreEntry, RestoreCheck, RestoreMove, RestoreUnlink, RestoreUndo, RestoreEnd
  <2>5. QED
    BY <2>2, <2>3, <2>4
<1>3. UNCHANGED job \/ \E r : job' = [job EXCEPT ![j] = r]
  <2>1. \A pc : Goto(j, pc) => job' = [job EXCEPT ![j] = [job[j] EXCEPT !.pc = pc]]
    BY <1>1 DEF Goto
  <2>2. \A ok : After(j, ok) => \E r : job' = [job EXCEPT ![j] = r]
    BY DEF After
  <2>3. Finish(j) => job' = [job EXCEPT ![j] = IdleJob]
    BY DEF Finish
  <2>4. \A o, r : Begin(j, o, r) => job' = [job EXCEPT ![j] = r]
    BY DEF Begin
  <2>5. MovedOne(j) \/ RestoredOne(j) => \E r : job' = [job EXCEPT ![j] = r]
    BY <1>1 DEF MovedOne, RestoredOne
  <2>6. \A t : job' = [job EXCEPT ![j].moved = t] => \E r : job' = [job EXCEPT ![j] = r]
    BY <1>1
  <2>7. job' = [job EXCEPT ![j].pc = "manifest", ![j].moved = <<"folder">>] => \E r : job' = [job EXCEPT ![j] = r]
    BY <1>1
  <2>8. \A t : job' = [job EXCEPT ![j].pc = "back", ![j].todo = t] => \E r : job' = [job EXCEPT ![j] = r]
    BY <1>1
  <2>9. \A e, t : job' = [job EXCEPT ![j].pc = "move", ![j].at = e, ![j].todo = t] => \E r : job' = [job EXCEPT ![j] = r]
    BY <1>1
  <2>10. CASE Caller(j)
    BY <2>1, <2>3, <2>4, <2>10 DEF Caller, DeleteEpisode, RemoveSeries, SweepStart, TickStart, ManualStart,
       TickPlace, Swap, Nfo, Unstage, ManualCheck, ManualPut
  <2>11. CASE RecycleOpen(j)
    BY <2>2, <2>9, <2>11 DEF RecycleOpen
  <2>12. CASE Rollback(j)
    <3>1. job' = [job EXCEPT ![j].moved = SubSeq(@, 1, Len(@) - 1)]
      BY <2>12 DEF Rollback
    <3>2. QED
      BY <1>1, <3>1
  <2>13. CASE Recycle(j)
    BY <2>1, <2>2, <2>5, <2>7, <2>11, <2>12, <2>13 DEF Recycle, RecycleMove, RecycleUnlink,
       RecycleTree, PruneTree, WriteManifest, DropEntry
  <2>14. CASE RestoreUndo(j)
    <3>1. Finish(j) \/ job' = [job EXCEPT ![j].moved = SubSeq(@, 1, Len(@) - 1)]
      BY <2>14 DEF RestoreUndo
    <3>2. QED
      BY <1>1, <2>3, <3>1
  <2>15. CASE RestoreStep(j)
    BY <2>1, <2>3, <2>4, <2>5, <2>8, <2>14, <2>15 DEF RestoreStep, RestoreEntry, RestoreCheck, RestoreMove,
       RestoreUnlink, RestoreEnd
  <2>16. QED
    BY <2>10, <2>13, <2>15
<1>4. OthersStay(j)
  BY <1>1, <1>3 DEF OthersStay
<1>5. QED
  BY <1>2, <1>4, FaultsGrow

LEMMA RecyclesOp ==
  ASSUME BinTyped, NEW j \in Jobs, Recycle(j)
  PROVE  job[j].op \notin {"none", "restore"} /\ job'[j].op \in {"none", job[j].op}
<1>1. JobsTyped /\ job[j] \in JobRecord /\ job \in [Jobs -> JobRecord]
  BY DEF BinTyped, JobsTyped
<1>2. job[j].pc \in {"recycle"} \cup Recycling
  BY DEF Recycle, RecycleOpen, RecycleMove, RecycleUnlink, RecycleTree, PruneTree, WriteManifest, Rollback,
         DropEntry, Recycling
<1>3. \A pc : Goto(j, pc) => job'[j].op = job[j].op
  BY <1>1, GotoIs
<1>4. \A ok \in BOOLEAN : After(j, ok) => job'[j].op \in {"none", job[j].op}
  BY <1>1, <1>2, AfterGoes DEF Gone
<1>5. MovedOne(j) => job'[j].op = job[j].op
  BY <1>1 DEF MovedOne, JobRecord
<1>6. job' = [job EXCEPT ![j].pc = "manifest", ![j].moved = <<"folder">>] => job'[j].op = job[j].op
  BY <1>1, FolderGone
<1>7. CASE RecycleOpen(j)
  <2>1. \A e, t : job' = [job EXCEPT ![j].pc = "move", ![j].at = e, ![j].todo = t] => job'[j].op = job[j].op
    BY <1>1 DEF JobRecord
  <2>2. \/ After(j, TRUE) \/ After(j, FALSE)
        \/ \E e, t : job' = [job EXCEPT ![j].pc = "move", ![j].at = e, ![j].todo = t]
    BY <1>7 DEF RecycleOpen
  <2>3. job'[j].op \in {"none", job[j].op}
    BY <1>4, <2>1, <2>2
  <2>4. QED
    BY <1>1, <1>2, <2>3, WhoIsAt
<1>8. CASE Rollback(j)
  BY <1>1, <1>2, <1>8, OneLessIs, WhoIsAt DEF Rollback
<1>9. CASE RecycleMove(j) \/ RecycleUnlink(j) \/ RecycleTree(j) \/ PruneTree(j) \/ WriteManifest(j) \/ DropEntry(j)
  BY <1>1, <1>2, <1>3, <1>4, <1>5, <1>6, <1>9, WhoIsAt DEF RecycleMove, RecycleUnlink, RecycleTree, PruneTree,
     WriteManifest, DropEntry
<1>10. QED
  BY <1>7, <1>8, <1>9 DEF Recycle

\* A job that begins is one of the callers' and has no entry yet.
LEMMA BeginGoes ==
  ASSUME job \in [Jobs -> JobRecord], NEW j \in Jobs,
         \/ DeleteEpisode(j) \/ RemoveSeries(j) \/ SweepStart(j) \/ TickStart(j) \/ ManualStart(j)
  PROVE  job'[j].op \in {"delete", "series", "sweep", "tick", "manual"} /\ job'[j].at = 0
<1>1. ASSUME NEW o, NEW r, Begin(j, o, r) PROVE job'[j] = r
  BY <1>1 DEF Begin
<1>2. CASE DeleteEpisode(j)
  BY <1>1, <1>2 DEF DeleteEpisode, IdleJob
<1>3. CASE RemoveSeries(j)
  BY <1>1, <1>3 DEF RemoveSeries, IdleJob
<1>4. CASE SweepStart(j)
  BY <1>1, <1>4 DEF SweepStart, IdleJob
<1>5. CASE TickStart(j)
  <2>1. PICK v \in waiting :
          Begin(j, "tick", [IdleJob EXCEPT !.op = "tick", !.pc = "place", !.video = v,
                                           !.replacing = lib["video"] # NoVideo])
    BY <1>5 DEF TickStart
  <2>2. QED
    BY <1>1, <2>1 DEF IdleJob
<1>6. CASE ManualStart(j)
  <2>1. PICK v \in waiting, replacing \in BOOLEAN :
          Begin(j, "manual", [IdleJob EXCEPT !.op = "manual", !.video = v, !.replacing = replacing,
                                !.pc = IF replacing /\ lib["video"] # NoVideo
                                       THEN "recycle" ELSE "check"])
    BY <1>6 DEF ManualStart
  <2>2. QED
    BY <1>1, <2>1 DEF IdleJob
<1>7. QED
  BY <1>2, <1>3, <1>4, <1>5, <1>6

LEMMA CallersOp ==
  ASSUME BinTyped, NEW j \in Jobs, Caller(j)
  PROVE  job[j].op # "restore" /\ job'[j].op # "restore"
<1>1. JobsTyped /\ job[j] \in JobRecord /\ job \in [Jobs -> JobRecord] /\ IdleJob.op = "none"
  BY DEF BinTyped, JobsTyped, IdleJob
<1>2. CASE TickPlace(j) \/ Swap(j) \/ Nfo(j) \/ Unstage(j) \/ ManualCheck(j) \/ ManualPut(j)
  <2>1. job[j].op # "restore"
    BY <1>1, <1>2, WhoIsAt DEF TickPlace, Swap, Nfo, Unstage, ManualCheck, ManualPut
  <2>2. Finish(j) \/ \E pc : Goto(j, pc)
    BY <1>2 DEF TickPlace, Swap, Nfo, Unstage, ManualCheck, ManualPut
  <2>3. QED
    BY <1>1, <2>1, <2>2, FinishGoes, GotoIs
<1>3. CASE DeleteEpisode(j) \/ RemoveSeries(j) \/ SweepStart(j) \/ TickStart(j) \/ ManualStart(j)
  <2>1. job[j] = IdleJob
    BY <1>3 DEF DeleteEpisode, RemoveSeries, SweepStart, TickStart, ManualStart, Begin
  <2>2. job'[j].op \in {"delete", "series", "sweep", "tick", "manual"}
    BY <1>1, <1>3, BeginGoes
  <2>3. QED
    BY <1>1, <2>1, <2>2
<1>4. QED
  BY <1>2, <1>3 DEF Caller

\* What a manifest of an episode's entry makes a restore look for.
LEMMA VideoIsNamed ==
  ASSUME NEW t \in Lists("episode"), t # <<>>
  PROVE  \E i \in DOMAIN t : t[i] = "video"
<1>1. Main("episode") = "video"
  BY DEF Main
<1>2. t = <<"video">> \/ t = <<"extra", "video">>
  BY <1>1 DEF Lists
<1>3. QED
  BY <1>2, NamesOfLists

LEMMA RestoreKeepsFree ==
  ASSUME BinTyped, BinOrder, FreePaths, NEW j \in Jobs, RestoreStep(j)
  PROVE  FreePath(j)'
<1> SUFFICES ASSUME job'[j].op = "restore", job'[j].kind = "episode", "manifest" \notin binFaults',
                    (job'[j].pc = "back" /\ job'[j].todo # <<>>)
                      \/ (job'[j].pc = "backUnlink" /\ Head(job'[j].todo) = "extra")
             PROVE  lib'["video"] = NoVideo
  BY DEF FreePath
<1>1. /\ JobsTyped /\ EntriesTyped /\ FolderTyped /\ job[j] \in JobRecord /\ JobShape(job[j])
      /\ job \in [Jobs -> JobRecord] /\ lib \in [Path -> Files] /\ "video" \in Path
  BY DEF BinTyped, JobsTyped, FolderTyped, Path
<1>2. "manifest" \notin binFaults
  BY StepLeavesOthers
<1>3. \A e \in Entries : ~RestoreEntry(j, e)
  <2>1. ASSUME NEW e \in Entries, RestoreEntry(j, e) PROVE job'[j].pc = "fit"
    BY <1>1, <2>1 DEF RestoreEntry, Begin, IdleJob
  <2>2. QED
    BY <2>1
<1>4. ~RestoreEnd(j)
  BY <1>1, FinishGoes DEF RestoreEnd, IdleJob
<1>5. ~RestoreUndo(j)
  <2>1. ASSUME RestoreUndo(j) PROVE job'[j].pc \in {"undo", "idle"}
    BY <1>1, <2>1, FinishGoes, OneLessIs DEF RestoreUndo, IdleJob
  <2>2. QED
    BY <2>1
<1>6. ~Goto(j, "undo") /\ ~Finish(j)
  BY <1>1, FinishGoes, GotoIs DEF IdleJob
<1>7. CASE RestoreCheck(j)
  <2> DEFINE names == ManifestFiles(At(j).listed)
  <2>1. /\ job' = [job EXCEPT ![j].pc = "back", ![j].todo = names] /\ UNCHANGED lib
        /\ ~IF job[j].kind = "folder" THEN seriesDir
            ELSE ~seriesDir \/ \E i \in DOMAIN names : lib[names[i]] # NoVideo
    BY <1>6, <1>7 DEF RestoreCheck, libVars
  <2>2. job[j].pc \in Restoring
    BY <1>7 DEF RestoreCheck, Restoring
  <2>3. EntryShape(At(j)) /\ At(j) \in EntryRecord /\ (At(j).open => At(j).kind = job[j].kind)
    BY <2>2, JobAtEntry
  <2> HIDE DEF names
  <2>4. job'[j].kind = job[j].kind /\ job'[j].todo = names /\ job'[j].pc = "back"
    BY <1>1, <2>1 DEF JobRecord
  <2>5. names \in Lists("episode")
    <3>1. At(j).open
      <4>1. CASE ~At(j).open
        <5>1. names = ManifestFiles({}) /\ "video" # "extra"
          BY <2>3, <4>1, ClosedTyped DEF EntryShape, names
        <5>2. names = <<>>
          BY <5>1, ManifestIsRead
        <5>3. QED
          BY <2>4, <5>2
      <4>2. QED
        BY <4>1
    <3>2. At(j).kind = "episode" /\ At(j).kind \in Kinds
      BY <2>3, <2>4, <3>1 DEF EntryRecord
    <3>3. QED
      BY <2>3, <3>2, ReadList DEF names
  <2>6. \E i \in DOMAIN names : names[i] = "video"
    BY <2>4, <2>5, VideoIsNamed
  <2>7. QED
    BY <2>1, <2>4, <2>6
<1>8. CASE RestoreMove(j) \/ RestoreUnlink(j)
  <2>1. job[j].pc \in {"back", "backUnlink"} /\ (job[j].pc = "back" => job[j].todo # <<>>)
    BY <1>8 DEF RestoreMove, RestoreUnlink
  <2>2. Partway(job[j]) /\ job[j].pc \in Restoring
    BY <1>1, <2>1 DEF JobShape, Restoring
  <2>3. job[j].op = "restore"
    BY <1>1, <2>2, WhoIsAt
  <2>4. RestoredOne(j) \/ (RestoreMove(j) /\ Goto(j, "backUnlink"))
    BY <1>6, <1>8 DEF RestoreMove, RestoreUnlink
  <2>5. Head(job[j].todo) = "extra" /\ job[j].kind = "episode"
    <3>1. CASE RestoredOne(j)
      <4>1. job'[j].pc = "back"
        BY <1>1, <3>1 DEF RestoredOne, JobRecord
      <4>2. job'[j].todo # <<>> /\ job'[j].pc # "backUnlink"
        BY <4>1
      <4>3. QED
        BY <1>1, <2>2, <3>1, <4>2, OneMoreIs
    <3>2. CASE RestoreMove(j) /\ Goto(j, "backUnlink")
      BY <1>1, <3>2, GotoIs
    <3>3. QED
      BY <2>4, <3>1, <3>2
  <2>6. lib["video"] = NoVideo
    BY <1>2, <2>1, <2>3, <2>5 DEF FreePaths, FreePath
  <2>7. CASE RestoreUnlink(j)
    BY <2>6, <2>7 DEF RestoreUnlink, libVars
  <2>8. CASE RestoreMove(j)
    <3>1. UNCHANGED lib \/ \E x : lib' = [lib EXCEPT !["extra"] = x]
      BY <2>5, <2>8 DEF RestoreMove, MovesBack
    <3>2. QED
      BY <1>1, <2>6, <3>1
  <2>9. QED
    BY <1>8, <2>7, <2>8
<1>9. QED
  BY <1>3, <1>4, <1>5, <1>7, <1>8 DEF RestoreStep

LEMMA InitFree == BinInit => FreePaths
  BY DEF BinInit, FreePaths, FreePath, IdleJob

LEMMA StepFree ==
  ASSUME BinTyped, BinOrder, FreePaths, [BinNext]_binVars
  PROVE  FreePaths'
<1>1. ASSUME NEW j \in Jobs, Caller(j) \/ Recycle(j) \/ RestoreStep(j) PROVE FreePaths'
  <2>1. FreePath(j)'
    <3>1. CASE Caller(j) \/ Recycle(j)
      BY <3>1, CallersOp, RecyclesOp DEF FreePath
    <3>2. QED
      BY <1>1, <3>1, RestoreKeepsFree
  <2>2. \A k \in Jobs \ {j} : FreePath(k)'
    BY <1>1, StepLeavesOthers, OthersKeepFree
  <2>3. QED
    BY <2>1, <2>2 DEF FreePaths
<1>2. CASE BinCrash
  <2>1. \A j \in Jobs : job'[j].op = "none"
    BY <1>2 DEF BinCrash, IdleJob
  <2>2. QED
    BY <2>1 DEF FreePaths, FreePath
<1>3. CASE UNCHANGED <<job, lib, binFaults>>
  BY <1>3 DEF FreePaths, FreePath
<1>4. QED
  BY <1>1, <1>2, <1>3 DEF BinNext, binVars, libVars, DeleteNow, EmptyBin, PurgeOld, AgeOut

LEMMA EnvironmentLeavesFolder ==
  ASSUME \/ UNCHANGED binVars
         \/ (\E e \in Entries : DeleteNow(e)) \/ EmptyBin \/ PurgeOld \/ AgeOut \/ BinCrash
  PROVE  UNCHANGED libVars
  BY DEF binVars, DeleteNow, EmptyBin, PurgeOld, AgeOut, BinCrash

\* A restore meets no video.
LEMMA StepReplacesNone ==
  ASSUME BinTyped, BinOrder, FreePaths, [BinNext]_binVars, NEW j \in Jobs,
         job[j].op = "restore", job'[j] # job[j], lib["video"] # NoVideo, "manifest" \notin binFaults
  PROVE  lib'["video"] \in {lib["video"], NoVideo}
<1>1. /\ JobsTyped /\ EntriesTyped /\ FolderTyped /\ job[j] \in JobRecord /\ JobShape(job[j])
      /\ lib \in [Path -> Files] /\ "video" \in Path
  BY DEF BinTyped, JobsTyped, FolderTyped, Path
<1>2. ASSUME NEW k \in Jobs, Caller(k) \/ Recycle(k) \/ RestoreStep(k)
      PROVE  lib'["video"] \in {lib["video"], NoVideo}
  <2>1. k = j
    BY <1>2, StepLeavesOthers DEF OthersStay
  <2>2. RestoreStep(j)
    BY <1>2, <2>1, CallersOp, RecyclesOp
  <2>3. CASE RestoreMove(j)
    <3> DEFINE p == Head(job[j].todo)
    <3>1. job[j].pc = "back" /\ job[j].todo # <<>> /\ job[j].pc \in Restoring
      BY <2>3 DEF RestoreMove, Restoring
    <3>2. Partway(job[j])
      BY <1>1, <3>1 DEF JobShape
    <3>3. p = "extra" \/ p = Main(job[j].kind)
      BY <3>1, <3>2, RestoresName
    <3>4. UNCHANGED lib \/ (p = "folder" /\ CanMoveBack(p, job[j].at)) \/ \E x : lib' = [lib EXCEPT ![p] = x]
      BY <2>3 DEF RestoreMove, MovesBack, CanMoveBack
    <3> HIDE DEF p
    <3>5. p # "folder" \/ ~CanMoveBack(p, job[j].at)
      BY <1>1 DEF CanMoveBack, FolderTyped, Empty
    <3>6. p # "video"
      <4>1. job[j].kind # "episode"
        BY <3>1 DEF FreePaths, FreePath
      <4>2. job[j].kind \in Kinds
        BY <1>1 DEF JobRecord
      <4>3. QED
        BY <3>3, <4>1, <4>2, MainFiles
    <3>7. QED
      BY <1>1, <3>4, <3>5, <3>6
  <2>4. CASE RestoreUndo(j)
    <3> DEFINE p == job[j].moved[Len(job[j].moved)]
    <3>1. UNCHANGED lib \/ (job[j].moved # <<>> /\ lib' = [lib EXCEPT ![p] = NoVideo])
      BY <2>4 DEF RestoreUndo
    <3>2. QED
      BY <1>1, <3>1
  <2>5. CASE RestoreCheck(j) \/ RestoreUnlink(j) \/ RestoreEnd(j) \/ \E e \in Entries : RestoreEntry(j, e)
    BY <2>5 DEF RestoreCheck, RestoreUnlink, RestoreEnd, RestoreEntry, libVars
  <2>6. QED
    BY <2>2, <2>3, <2>4, <2>5 DEF RestoreStep
<1>3. QED
  BY <1>2, EnvironmentLeavesFolder DEF BinNext, libVars

\* A recycle of the episode does not touch the hidden name.
LEMMA EpisodeLeavesStaged ==
  ASSUME BinTyped, NEW j \in Jobs, Recycle(j), job[j].kind = "episode"
  PROVE  lib'["staged"] = lib["staged"]
<1>1. /\ JobsTyped /\ job[j] \in JobRecord /\ JobShape(job[j]) /\ lib \in [Path -> Files] /\ "staged" \in Path
      /\ Main(job[j].kind) = "video"
  BY DEF BinTyped, JobsTyped, FolderTyped, Path, Main
<1>2. CASE RecycleOpen(j)
  <2>1. UNCHANGED lib \/ lib' = [p \in Path |-> IF p \in {"video", "extra"} THEN NoVideo ELSE lib[p]]
    BY <1>2 DEF RecycleOpen
  <2>2. QED
    BY <1>1, <2>1
<1>3. CASE RecycleMove(j) \/ RecycleUnlink(j)
  <2> DEFINE p == Head(job[j].todo)
  <2>1. UNCHANGED lib \/ lib' = [lib EXCEPT ![p] = NoVideo]
    BY <1>3 DEF RecycleMove, RecycleUnlink
  <2>2. Partway(job[j])
    BY <1>1, <1>3 DEF JobShape, RecycleMove, RecycleUnlink
  <2>3. p = "extra" \/ p = "video"
    BY <1>1, <2>2, NextFile
  <2> HIDE DEF p
  <2>4. QED
    BY <1>1, <2>1, <2>3
<1>4. CASE PruneTree(j)
  BY <1>1, <1>4 DEF JobShape, PruneTree
<1>5. CASE Rollback(j)
  <2> DEFINE p == job[j].moved[Len(job[j].moved)]
  <2>1. job[j].moved # <<>> /\ (UNCHANGED lib \/ MovesBack(p, job[j].at))
    BY <1>5 DEF Rollback
  <2>2. p = "extra" \/ p = "video"
    BY <1>1, <2>1, LastMoved
  <2> HIDE DEF p
  <2>3. UNCHANGED lib \/ \E x : lib' = [lib EXCEPT ![p] = x]
    BY <2>1, <2>2 DEF MovesBack
  <2>4. QED
    BY <1>1, <2>2, <2>3
<1>6. CASE WriteManifest(j) \/ DropEntry(j) \/ RecycleTree(j)
  BY <1>6 DEF WriteManifest, DropEntry, RecycleTree, libVars
<1>7. QED
  BY <1>2, <1>3, <1>4, <1>5, <1>6 DEF Recycle

\* A staged upgrade stays while its import is under way.
LEMMA StepLeavesStaged ==
  ASSUME BinTyped, BinOrder, [BinNext]_binVars, NEW j \in Jobs,
         job[j].op = "tick", job[j].pc \notin {"place", "nfo"}, lib["staged"] # NoVideo,
         job'[j] = job[j], \A k \in Jobs : job[k].op # "series"
  PROVE  lib'["staged"] = lib["staged"]
<1>1. /\ JobsTyped /\ lib \in [Path -> Files] /\ "staged" \in Path /\ \A k \in Jobs : JobShape(job[k])
      /\ IdleJob.op = "none"
  BY DEF BinTyped, JobsTyped, FolderTyped, Path, IdleJob
<1>2. ASSUME NEW k \in Jobs, k # j PROVE job[k].op \notin {"tick", "sweep", "restore"}
  BY <1>2 DEF BinOrder, LocksExclude, PostProcOps
<1>3. ASSUME NEW k \in Jobs, Recycle(k) PROVE lib'["staged"] = lib["staged"]
  <2>1. job[k].op \in {"tick", "delete", "manual"} /\ job[k].op # "restore"
    <3>1. job[k].op \in {"none", "delete", "series", "tick", "manual", "sweep", "restore"}
      BY <1>1 DEF JobShape
    <3>2. job[k].op \notin {"none", "restore"}
      BY <1>3, RecyclesOp
    <3>3. QED
      BY <1>2, <3>1, <3>2
  <2>2. job[k].kind = "episode"
    BY <1>1, <2>1 DEF JobShape, KindOf
  <2>3. QED
    BY <1>3, <2>2, EpisodeLeavesStaged
<1>4. ASSUME NEW k \in Jobs, Caller(k) PROVE lib'["staged"] = lib["staged"]
  <2>1. CASE TickPlace(k) \/ Swap(k) \/ Unstage(k)
    <3>1. k = j
      BY <1>1, <1>2, <2>1, WhoIsAt DEF TickPlace, Swap, Unstage
    <3>2. job[j].pc \in {"swap", "unstage"} /\ (Goto(j, "nfo") \/ Finish(j))
      BY <2>1, <3>1 DEF TickPlace, Swap, Unstage
    <3>3. job'[j].pc \in {"nfo", "idle"}
      BY <1>1, <3>2, GotoIs, FinishGoes DEF IdleJob
    <3>4. QED
      BY <3>2, <3>3
  <2>2. CASE Nfo(k) \/ ManualPut(k) \/ ManualCheck(k)
    <3>1. UNCHANGED lib \/ \E x : lib' = [lib EXCEPT !["extra"] = x] \/ lib' = [lib EXCEPT !["video"] = x]
      BY <2>2 DEF Nfo, ManualPut, ManualCheck, libVars
    <3>2. QED
      BY <1>1, <3>1
  <2>3. CASE DeleteEpisode(k) \/ RemoveSeries(k) \/ SweepStart(k) \/ TickStart(k) \/ ManualStart(k)
    BY <2>3 DEF DeleteEpisode, RemoveSeries, SweepStart, TickStart, ManualStart, libVars
  <2>4. QED
    BY <1>4, <2>1, <2>2, <2>3 DEF Caller
<1>5. ASSUME NEW k \in Jobs, RestoreStep(k) PROVE lib'["staged"] = lib["staged"]
  <2>1. CASE \E e \in Entries : RestoreEntry(k, e)
    BY <2>1 DEF RestoreEntry, libVars
  <2>2. CASE RestoreCheck(k) \/ RestoreMove(k) \/ RestoreUnlink(k) \/ RestoreUndo(k) \/ RestoreEnd(k)
    <3>1. job[k].pc \in Restoring
      BY <2>2 DEF RestoreCheck, RestoreMove, RestoreUnlink, RestoreUndo, RestoreEnd, Restoring
    <3>2. job[k].op = "restore"
      BY <1>1, <3>1, WhoIsAt
    <3>3. QED
      BY <1>2, <3>2
  <2>3. QED
    BY <1>5, <2>1, <2>2 DEF RestoreStep
<1>6. QED
  BY <1>3, <1>4, <1>5, EnvironmentLeavesFolder DEF BinNext, libVars

\* An upgrade an import has staged is taken away by nothing but the removal of its series, and
\* a restore replaces no video: POST_PROC_LOCK and IMPORT_LOCK keep the jobs that move videos
\* apart, and what a restore finds free stays free until its video is back.
THEOREM ImportsUndisturbed == BinSpec => ImportsKeepTheirFiles
<1> DEFINE All == BinTyped /\ BinOrder /\ FreePaths
           Staged == \A j \in Jobs :
                       /\ job[j].op = "tick" /\ job[j].replacing /\ job[j].pc \notin {"place", "nfo"}
                       /\ lib["staged"] # NoVideo
                       => \/ lib'["staged"] = lib["staged"]
                          \/ job'[j] # job[j]
                          \/ \E k \in Jobs : job[k].op = "series"
           Free == \A j \in Jobs : /\ job[j].op = "restore" /\ job'[j] # job[j]
                                   /\ lib["video"] # NoVideo /\ "manifest" \notin binFaults
                                   => lib'["video"] \in {lib["video"], NoVideo}
<1>1. BinInit => All
  BY InitTyped, InitOrder, InitFree
<1>2. All /\ [BinNext]_binVars => All'
  BY StepTyped, StepOrder, StepFree
<1>3. All /\ [BinNext]_binVars => [Staged]_binVars /\ [Free]_binVars
  <2> SUFFICES ASSUME All, [BinNext]_binVars PROVE Staged /\ Free
    OBVIOUS
  <2>1. Staged
    BY StepLeavesStaged
  <2>2. Free
    BY StepReplacesNone
  <2>3. QED
    BY <2>1, <2>2
<1> HIDE DEF All
<1>4. BinSpec => [][Staged]_binVars /\ [][Free]_binVars
  BY <1>1, <1>2, <1>3, PTL DEF BinSpec
<1>5. QED
  BY <1>4 DEF ImportsKeepTheirFiles, StagingUndisturbed, RestoreReplacesNoVideo

------------------------------------------------------------------------------
(* No video is lost *)

\* the job is about to remove, or drop with its entry, what the entry holds
Dropping(jb) ==
  \/ jb.pc = "rollback" /\ jb.moved \in NoMain
  \/ jb.pc \in {"unlink", "backUnlink"} /\ Head(jb.todo) # "extra"

Going(e) == \E j \in Jobs : job[j].at = e /\ Dropping(job[j])

\* the videos an entry holds for good, unless somebody restores or destroys it
Kept == {v \in Videos : \E e \in Entries : ~Going(e) /\ v \in HeldIn(e)}

Accounts == waiting \cup In(lib) \cup Kept \cup purged \cup halfGone \cup overtaken

\* Stronger than VideoIsSomewhere: a copy that is about to go does not count.
OwedIsKept == Cardinality(binFaults) <= 1 => owed \subseteq Accounts

LEMMA KeptIsInBin == OwedIsKept => VideoIsSomewhere
<1>1. Kept \subseteq InBin
  BY DEF Kept, InBin, HeldIn
<1>2. QED
  BY <1>1 DEF OwedIsKept, VideoIsSomewhere, Accounts

\* what a step of j has to account for
Keeps(j) ==
  /\ OthersStay(j)
  /\ \A f \in Entries : f # job[j].at /\ f # job'[j].at => entry'[f] = entry[f]
  /\ purged \subseteq purged' /\ halfGone \subseteq halfGone' /\ overtaken \subseteq overtaken'
  /\ waiting \subseteq Accounts' /\ In(lib) \subseteq Accounts'
  /\ \A f \in Entries : f = job[j].at /\ ~Dropping(job[j]) => HeldIn(f) \subseteq Accounts'
  /\ \A f \in Entries : f = job'[j].at /\ f # job[j].at => HeldIn(f) \subseteq Accounts'
  /\ owed' \subseteq owed \cup In(lib')

LEMMA KeepsOwed ==
  ASSUME owed \subseteq Accounts, NEW j \in Jobs, Keeps(j)
  PROVE  owed' \subseteq Accounts'
<1> SUFFICES ASSUME NEW v \in owed' PROVE v \in Accounts'
  OBVIOUS
<1>1. CASE v \in In(lib')
  BY <1>1 DEF Accounts
<1>2. CASE v \in waiting \cup In(lib)
  BY <1>2 DEF Keeps
<1>3. CASE v \in purged \cup halfGone \cup overtaken
  BY <1>3 DEF Keeps, Accounts
<1>4. CASE v \in Kept
  <2>1. PICK f \in Entries : ~Going(f) /\ v \in HeldIn(f)
    BY <1>4 DEF Kept
  <2>2. CASE f = job[j].at
    BY <2>1, <2>2 DEF Going, Keeps
  <2>3. CASE f # job[j].at /\ f = job'[j].at
    BY <2>1, <2>3 DEF Keeps
  <2>4. CASE f # job[j].at /\ f # job'[j].at
    <3>1. entry'[f] = entry[f]
      BY <2>4 DEF Keeps
    <3>2. v \in HeldIn(f)'
      BY <2>1, <3>1 DEF HeldIn
    <3>3. ~Going(f)'
      BY <2>1, <2>4 DEF Going, Keeps, OthersStay
    <3>4. v \in Videos
      BY <1>4 DEF Kept
    <3>5. v \in Kept'
      BY <3>2, <3>3, <3>4 DEF Kept
    <3>6. QED
      BY <3>5 DEF Accounts
  <2>5. QED
    BY <2>2, <2>3, <2>4
<1>5. v \in owed \/ v \in In(lib')
  BY DEF Keeps
<1>6. QED
  BY <1>1, <1>2, <1>3, <1>4, <1>5 DEF Accounts

\* What an entry holds after a step of the job that is, or was, at it.
LEMMA KeptNow ==
  ASSUME BinTyped', NEW j \in Jobs, OthersStay(j), NEW e \in Entries,
         \A k \in Jobs \ {j} : job[k].at # e, job'[j].at = e => ~Dropping(job'[j])
  PROVE  In(entry'[e].files) \subseteq Accounts'
<1>1. ~Going(e)'
  BY DEF Going, OthersStay
<1>2. entry'[e].files \in [Path -> Files]
  BY DEF BinTyped, EntriesTyped, EntryRecord
<1>3. In(entry'[e].files) \subseteq Videos
  BY <1>2, InTyped
<1>4. In(entry'[e].files) = HeldIn(e)'
  BY DEF HeldIn
<1>5. In(entry'[e].files) \subseteq Kept'
  BY <1>1, <1>3, <1>4 DEF Kept
<1>6. QED
  BY <1>5 DEF Accounts

\* No other job is at the entry of a job.
LEMMA AloneAt ==
  ASSUME BinTyped, BinOrder, NEW j \in Jobs, job[j].pc \in Recycling \cup Restoring
  PROVE  /\ job[j].at \in Entries /\ job[j].at # 0
         /\ \A k \in Jobs \ {j} : job[k].at # job[j].at
<1>1. job[j].at \in Entries /\ job[j].at # 0
  BY JobAtEntry, BinAssumptions
<1>2. QED
  BY <1>1 DEF BinOrder, EntriesAreOwned

\* The videos of a folder when one path changes.
LEMMA InSet ==
  ASSUME NEW f \in [Path -> Files], NEW p \in Path, NEW x
  PROVE  /\ In(f) \subseteq In([f EXCEPT ![p] = x]) \cup {f[p]}
         /\ p = "extra" => In([f EXCEPT ![p] = x]) = In(f)
         /\ p # "extra" /\ x # NoVideo => x \in In([f EXCEPT ![p] = x])
         /\ In([f EXCEPT ![p] = x]) \subseteq In(f) \cup {x}
<1>1. /\ In(f) = {f["video"], f["staged"]} \ {NoVideo}
      /\ In([f EXCEPT ![p] = x]) = {[f EXCEPT ![p] = x]["video"], [f EXCEPT ![p] = x]["staged"]} \ {NoVideo}
  BY InIs
<1>2. \A q \in Path : [f EXCEPT ![p] = x][q] = IF q = p THEN x ELSE f[q]
  OBVIOUS
<1>3. /\ [f EXCEPT ![p] = x]["video"] = IF p = "video" THEN x ELSE f["video"]
      /\ [f EXCEPT ![p] = x]["staged"] = IF p = "staged" THEN x ELSE f["staged"]
  BY <1>2 DEF Path
<1>4. QED
  BY <1>1, <1>3 DEF Path

\* A step that leaves the entries alone, at one or at none.
LEMMA KeepsInFolder ==
  ASSUME BinTyped, BinTyped', BinOrder, NEW j \in Jobs, OthersStay(j), UNCHANGED entry,
         job'[j].at \in {0, job[j].at} \/ \A k \in Jobs : job[k].at # job'[j].at,
         job'[j].at = 0 \/ ~Dropping(job'[j]),
         purged \subseteq purged', halfGone \subseteq halfGone', overtaken \subseteq overtaken',
         waiting \cup In(lib) \subseteq waiting' \cup In(lib') \cup purged' \cup overtaken',
         owed' \subseteq owed \cup In(lib')
  PROVE  Keeps(j)
<1>1. ASSUME NEW f \in Entries, f = job[j].at \/ f = job'[j].at
      PROVE  HeldIn(f) \subseteq Accounts'
  <2>1. f # 0
    BY BinAssumptions
  <2>2. \A k \in Jobs \ {j} : job[k].at # f
    BY <1>1, <2>1 DEF BinOrder, EntriesAreOwned
  <2>3. job'[j].at = f => ~Dropping(job'[j])
    BY <2>1
  <2>4. In(entry'[f].files) \subseteq Accounts'
    BY <2>2, <2>3, KeptNow
  <2>5. QED
    BY <2>4 DEF HeldIn
<1>2. waiting \subseteq Accounts' /\ In(lib) \subseteq Accounts'
  BY DEF Accounts
<1>3. QED
  BY <1>1, <1>2 DEF Keeps

\* where a video is that is not in an entry, or waiting
Outside == In(lib) \cup purged \cup halfGone \cup overtaken

\* A step of a job at its entry, when what it moves is outside, or in the entry to stay.
LEMMA KeepsAt ==
  ASSUME BinTyped, BinTyped', BinOrder, NEW j \in Jobs, job[j].pc \in Recycling \cup Restoring,
         OthersStay(j), NEW e \in Entries, e = job[j].at, job'[j].at \in {0, e},
         \A f \in Entries \ {e} : entry'[f] = entry[f],
         purged \subseteq purged', halfGone \subseteq halfGone', overtaken \subseteq overtaken',
         UNCHANGED <<waiting, owed>>,
         NEW K, K = {} \/ (K = In(entry'[e].files) /\ (job'[j].at = e => ~Dropping(job'[j]))),
         In(lib) \subseteq Outside' \cup K,
         Dropping(job[j]) \/ HeldIn(e) \subseteq Outside' \cup K
  PROVE  Keeps(j)
<1>1. \A k \in Jobs \ {j} : job[k].at # e
  BY AloneAt
<1>2. K \subseteq Accounts'
  BY <1>1, KeptNow
<1>3. Outside' \subseteq Accounts' /\ waiting \subseteq Accounts'
  BY DEF Outside, Accounts
<1>4. e # 0 /\ \A f \in Entries : f # 0
  BY BinAssumptions
<1>5. QED
  BY <1>2, <1>3, <1>4 DEF Keeps

LEMMA CallerGoes ==
  ASSUME BinTyped, NEW j \in Jobs, Caller(j)
  PROVE  job'[j].at = 0
<1>1. JobsTyped /\ JobShape(job[j]) /\ job \in [Jobs -> JobRecord] /\ IdleJob.at = 0
  BY DEF BinTyped, JobsTyped, IdleJob
<1>2. CASE TickPlace(j) \/ Swap(j) \/ Nfo(j) \/ Unstage(j) \/ ManualCheck(j) \/ ManualPut(j)
  <2>1. job[j].at = 0
    BY <1>1, <1>2, WhoIsAt DEF TickPlace, Swap, Nfo, Unstage, ManualCheck, ManualPut, JobShape
  <2>2. Finish(j) \/ \E pc : Goto(j, pc)
    BY <1>2 DEF TickPlace, Swap, Nfo, Unstage, ManualCheck, ManualPut
  <2>3. QED
    BY <1>1, <2>1, <2>2, FinishGoes, GotoIs
<1>3. CASE DeleteEpisode(j) \/ RemoveSeries(j) \/ SweepStart(j) \/ TickStart(j) \/ ManualStart(j)
  BY <1>1, <1>3, BeginGoes
<1>4. QED
  BY <1>2, <1>3 DEF Caller

LEMMA CallerKeeps ==
  ASSUME BinTyped, BinTyped', BinOrder, NEW j \in Jobs, Caller(j)
  PROVE  Keeps(j)
<1>1. JobsTyped /\ JobShape(job[j]) /\ FolderTyped /\ lib \in [Path -> Files] /\ NoVideo \notin Videos
      /\ "video" \in Path /\ "staged" \in Path /\ "extra" \in Path
  BY BinAssumptions DEF BinTyped, JobsTyped, FolderTyped, Path
<1>2. OthersStay(j) /\ job'[j].at = 0
  BY StepLeavesOthers, CallerGoes
<1>3. /\ UNCHANGED entry /\ purged \subseteq purged' /\ halfGone \subseteq halfGone'
      /\ overtaken \subseteq overtaken'
      /\ waiting \cup In(lib) \subseteq waiting' \cup In(lib') \cup purged' \cup overtaken'
      /\ owed' \subseteq owed \cup In(lib')
  <2>1. CASE DeleteEpisode(j) \/ RemoveSeries(j) \/ SweepStart(j) \/ TickStart(j) \/ ManualStart(j) \/ ManualCheck(j)
    <3>1. UNCHANGED <<waiting, lib, entry, owed, purged, halfGone, overtaken>>
      BY <2>1 DEF DeleteEpisode, RemoveSeries, SweepStart, TickStart, ManualStart, ManualCheck, libVars, historyVars
    <3>2. QED
      BY <3>1
  <2>2. CASE Nfo(j)
    <3>1. UNCHANGED <<waiting, entry, owed, purged, halfGone, overtaken>>
      BY <2>2 DEF Nfo, historyVars
    <3>2. UNCHANGED lib \/ lib' = [lib EXCEPT !["extra"] = job[j].video]
      BY <2>2 DEF Nfo
    <3>3. In(lib') = In(lib)
      BY <1>1, <3>2, CompanionsDoNotCount
    <3>4. QED
      BY <3>1, <3>3
  <2>3. CASE TickPlace(j) \/ ManualPut(j)
    <3>1. UNCHANGED <<entry, purged, halfGone>> /\ job[j].video \in Videos
      BY <1>1, <2>3, WhoIsAt DEF TickPlace, ManualPut, JobShape
    <3>2. CASE UNCHANGED <<waiting, lib, owed, overtaken>>
      BY <3>1, <3>2
    <3>3. CASE /\ waiting' = waiting \ {job[j].video} /\ owed' \subseteq owed \cup {job[j].video}
               /\ Overtakes(lib')
               /\ \E p \in {"video", "staged"} : lib' = [lib EXCEPT ![p] = job[j].video]
      <4>1. PICK p \in {"video", "staged"} : lib' = [lib EXCEPT ![p] = job[j].video]
        BY <3>3
      <4>2. p \in Path /\ p # "extra" /\ job[j].video # NoVideo
        BY <1>1, <3>1
      <4>3. job[j].video \in In(lib')
        BY <1>1, <4>1, <4>2, InSet
      <4>4. QED
        BY <3>1, <3>3, <4>3 DEF Overtakes
    <3>4. QED
      BY <2>3, <3>2, <3>3 DEF TickPlace, ManualPut, libVars
  <2>4. CASE Swap(j)
    <3>1. UNCHANGED <<waiting, entry, purged, halfGone>>
      BY <2>4 DEF Swap
    <3>2. CASE UNCHANGED <<lib, owed, overtaken>>
      BY <3>1, <3>2
    <3>3. CASE /\ lib["staged"] # NoVideo /\ owed' = owed \cup {lib["staged"]} /\ Overtakes(lib')
               /\ lib' = [lib EXCEPT !["video"] = lib["staged"], !["staged"] = NoVideo]
      <4>1. lib["staged"] \in In(lib')
        BY <1>1, <3>3, InIs
      <4>2. QED
        BY <3>1, <3>3, <4>1 DEF Overtakes
    <3>4. QED
      BY <2>4, <3>2, <3>3 DEF Swap
  <2>5. CASE Unstage(j)
    <3>1. UNCHANGED <<entry, owed, purged, halfGone, overtaken>>
      BY <2>5 DEF Unstage, historyVars
    <3>2. CASE UNCHANGED <<waiting, lib>>
      BY <3>1, <3>2
    <3>3. CASE waiting' = waiting \cup {lib["staged"]} /\ lib' = [lib EXCEPT !["staged"] = NoVideo]
      <4>1. In(lib) \subseteq In(lib') \cup {lib["staged"]}
        BY <1>1, <3>3, InSet
      <4>2. QED
        BY <3>1, <3>3, <4>1
    <3>4. QED
      BY <2>5, <3>2, <3>3 DEF Unstage
  <2>6. QED
    BY <2>1, <2>2, <2>3, <2>4, <2>5 DEF Caller
<1>4. QED
  BY <1>2, <1>3, KeepsInFolder

\* The faults of a step that keeps an open entry from being rolled back are two.
LEMMA OneFault ==
  ASSUME BoundsTyped', Cardinality(binFaults') <= 1, NEW f, NEW g, f \in binFaults', g \in binFaults'
  PROVE  f = g
<1>1. IsFiniteSet(binFaults')
  BY FaultsAreFinite, FS_Subset DEF BoundsTyped
<1>2. SUFFICES ASSUME f # g PROVE FALSE
  OBVIOUS
<1>3. Cardinality({f, g}) = 2
  <2>1. IsFiniteSet({f}) /\ Cardinality({f}) = 1
    BY FS_Singleton
  <2>2. g \notin {f} /\ {f, g} = {f} \cup {g}
    BY <1>2
  <2>3. Cardinality({f} \cup {g}) = Cardinality({f}) + 1
    BY <2>1, <2>2, FS_AddElement
  <2>4. QED
    BY <2>1, <2>2, <2>3
<1>4. Cardinality({f, g}) <= Cardinality(binFaults')
  BY <1>1, FS_Subset
<1>5. Cardinality(binFaults') \in Nat
  BY <1>1, FS_CardinalityType
<1>6. QED
  BY <1>3, <1>4, <1>5

LEMMA RecycleOpenKeeps ==
  ASSUME BinTyped, BinTyped', BinOrder, NEW j \in Jobs, RecycleOpen(j)
  PROVE  Keeps(j)
<1>1. /\ JobsTyped /\ EntriesTyped /\ job[j].pc = "recycle" /\ JobShape(job[j])
      /\ UNCHANGED <<waiting, owed, halfGone, overtaken>>
  BY DEF BinTyped, JobsTyped, RecycleOpen
<1>2. OthersStay(j)
  BY StepLeavesOthers DEF Recycle
<1>3. CASE UNCHANGED entry /\ \E ok \in BOOLEAN : After(j, ok)
  <2>1. job'[j].at = 0
    BY <1>1, <1>3, AfterGoes DEF Gone
  <2>2. UNCHANGED <<lib, purged>> \/ purged' = purged \cup (In(lib) \ In(lib'))
    BY DEF RecycleOpen
  <2>3. purged \subseteq purged' /\ In(lib) \subseteq In(lib') \cup purged'
    BY <2>2
  <2>4. QED
    BY <1>1, <1>2, <1>3, <2>1, <2>3, KeepsInFolder
<1>4. CASE /\ NewEntry # {} /\ UNCHANGED <<lib, purged>>
           /\ entry' = [entry EXCEPT ![FirstNew] = [Closed EXCEPT !.open = TRUE, !.kind = job[j].kind]]
           /\ job' = [job EXCEPT ![j].pc = "move", ![j].at = FirstNew,
                       ![j].todo = CASE job[j].kind = "episode" -> EpisodeFiles(lib)
                                     [] job[j].kind = "staged" -> <<"staged">>
                                     [] job[j].kind = "folder" -> <<>>]
  <2>1. /\ job'[j].at = FirstNew
        /\ \A e \in Entries \ {FirstNew} : entry'[e] = entry[e]
    BY <1>1, <1>4, OpensTyped
  <2>2. FirstNew \in Entries /\ ~entry[FirstNew].open
    BY <1>4, NewEntryIsNew
  <2>3. HeldIn(FirstNew) = {}
    BY <1>1, <2>2, GoneIsEmpty
  <2>4. job[j].at = 0
    BY <1>1, WhoIsAt DEF JobShape
  <2>5. \A f \in Entries : f # 0
    BY BinAssumptions
  <2>6. waiting \subseteq Accounts' /\ In(lib) \subseteq Accounts'
    BY <1>1, <1>4 DEF Accounts
  <2>7. QED
    BY <1>1, <1>2, <1>4, <2>1, <2>3, <2>4, <2>5, <2>6 DEF Keeps
<1>5. QED
  BY <1>1, <1>3, <1>4 DEF RecycleOpen

\* A recycle or a restore that gives up drops nothing that nobody else has.
LEMMA GivesUpKeeps ==
  ASSUME BinTyped, BinTyped', BinOrder, NEW j \in Jobs, job[j].pc \in Recycling \cup Restoring,
         OthersStay(j), job'[j].at = job[j].at, UNCHANGED <<waiting, owed, lib, entry>>,
         purged \subseteq purged', halfGone \subseteq halfGone', overtaken \subseteq overtaken',
         Dropping(job[j]) \/ HeldIn(job[j].at) \subseteq Outside'
  PROVE  Keeps(j)
<1>1. job[j].at \in Entries
  BY JobAtEntry
<1>2. In(lib) \subseteq Outside'
  BY DEF Outside
<1>3. QED
  BY <1>1, <1>2, KeepsAt

LEMMA RecycleMoveKeeps ==
  ASSUME BinTyped, BinTyped', BinOrder, NEW j \in Jobs, RecycleMove(j)
  PROVE  Keeps(j)
<1> DEFINE p == Head(job[j].todo)
<1>1. PICK e \in Entries : e = job[j].at
  BY JobAtEntry DEF RecycleMove, Recycling
<1>2. /\ JobsTyped /\ FolderTyped /\ EntriesTyped /\ AtEntry(j) /\ job[j].pc = "move" /\ job[j].kind # "folder"
      /\ job[j].pc \in Recycling /\ UNCHANGED <<waiting, owed, purged, halfGone, overtaken>>
  BY DEF BinTyped, RecycleMove, Recycling, BinOrder, historyVars
<1>3. /\ At(j) = entry[e] /\ At(j) \in EntryRecord /\ lib \in [Path -> Files]
      /\ At(j).files \in [Path -> Files] /\ job[j] \in JobRecord /\ JobShape(job[j])
  BY <1>1, <1>2, JobAtEntry DEF FolderTyped
<1>4. Partway(job[j]) /\ p \in Path
  BY <1>2, <1>3, NextFile DEF JobShape
<1>5. OthersStay(j)
  BY StepLeavesOthers DEF Recycle
<1>6. HeldIn(e) = {}
  BY <1>1, <1>2 DEF AtEntry
<1>7. CASE Goto(j, "rollback") /\ UNCHANGED <<lib, entry>>
  <2>1. job'[j].at = job[j].at
    BY <1>2, <1>7, GotoIs
  <2>2. HeldIn(job[j].at) \subseteq Outside'
    BY <1>1, <1>6
  <2>3. QED
    BY <1>2, <1>5, <1>7, <2>1, <2>2, GivesUpKeeps
<1>8. CASE entry' = [entry EXCEPT ![job[j].at].files[p] = lib[p]]
  <2>1. /\ entry'[e].files = [entry[e].files EXCEPT ![p] = lib[p]]
        /\ \A f \in Entries \ {e} : entry'[f] = entry[f]
    BY <1>1, <1>2, <1>3, <1>8 DEF EntriesTyped, EntryRecord
  <2>2. CASE Goto(j, "unlink") /\ UNCHANGED lib
    <3>1. job'[j].at = e
      BY <1>1, <1>2, <2>2, GotoIs
    <3>2. In(lib) \subseteq Outside' /\ HeldIn(e) \subseteq Outside'
      BY <1>6, <2>2 DEF Outside
    <3>3. QED
      BY <1>1, <1>2, <1>5, <2>1, <3>1, <3>2, KeepsAt
  <2>3. CASE MovedOne(j) /\ lib' = [lib EXCEPT ![p] = NoVideo] /\ lib[p] # NoVideo
    <3>1. job'[j].at = e /\ job'[j].pc \in {"move", "manifest"}
      <4>1. job'[j].pc \in {"move", "manifest"}
        BY <1>2, <1>3, <2>3 DEF MovedOne, JobsTyped, JobRecord
      <4>2. job'[j].at = job[j].at
        BY <1>2, <1>4, <2>3, OneMoreIs
      <4>3. QED
        BY <1>1, <4>1, <4>2
    <3>2. ~Dropping(job'[j])
      BY <3>1 DEF Dropping
    <3>3. In(lib) \subseteq In(lib') \cup In(entry'[e].files)
      <4> HIDE DEF p
      <4>1. CASE p = "extra"
        <5>1. In([lib EXCEPT !["extra"] = NoVideo]) = In(lib)
          BY <1>3, CompanionsDoNotCount
        <5>2. QED
          BY <2>3, <4>1, <5>1
      <4>2. CASE p # "extra"
        <5>1. In(lib) \subseteq In(lib') \cup {lib[p]}
          BY <1>3, <1>4, <2>3, InSet
        <5>2. lib[p] \in In([entry[e].files EXCEPT ![p] = lib[p]])
          BY <1>3, <1>4, <2>3, <4>2, InSet
        <5>3. QED
          BY <2>1, <5>1, <5>2
      <4>3. QED
        BY <4>1, <4>2
    <3>4. /\ In(lib) \subseteq Outside' \cup In(entry'[e].files)
          /\ HeldIn(e) \subseteq Outside' \cup In(entry'[e].files)
      BY <1>6, <3>3 DEF Outside
    <3>5. QED
      BY <1>1, <1>2, <1>5, <2>1, <3>1, <3>2, <3>4, KeepsAt
  <2>4. QED
    BY <1>8, <2>2, <2>3, <1>7 DEF RecycleMove
<1>9. QED
  BY <1>7, <1>8 DEF RecycleMove

\* What an unlink takes is in the folder still, in the copy, or overtaken.
LEMMA UnlinksCopied ==
  ASSUME lib \in [Path -> Files], NEW p \in Path, NEW f \in [Path -> Files],
         lib' = [lib EXCEPT ![p] = NoVideo], Overtakes([lib' EXCEPT ![p] = f[p]])
  PROVE  /\ In(lib) \subseteq In(lib') \cup overtaken' \cup In(f) /\ overtaken \subseteq overtaken'
         /\ p = "extra" => In(lib') = In(lib)
<1>1. overtaken' = overtaken \cup (In(lib) \ In([lib' EXCEPT ![p] = f[p]]))
  BY DEF Overtakes
<1>2. lib' \in [Path -> Files]
  BY DEF Files
<1>3. p = "extra" => In(lib') = In(lib)
  <2>1. In([lib EXCEPT !["extra"] = NoVideo]) = In(lib)
    BY CompanionsDoNotCount
  <2>2. QED
    BY <2>1
<1>4. p # "extra" => In([lib' EXCEPT ![p] = f[p]]) \subseteq In(lib') \cup In(f) \cup {NoVideo}
  <2>1. In([lib' EXCEPT ![p] = f[p]]) \subseteq In(lib') \cup {f[p]}
    BY <1>2, InSet
  <2>2. p # "extra" => f[p] \in In(f) \cup {NoVideo}
    BY InIs DEF Path
  <2>3. QED
    BY <2>1, <2>2
<1>5. NoVideo \notin In(lib)
  BY DEF In
<1>6. QED
  BY <1>1, <1>3, <1>4, <1>5

LEMMA RecycleUnlinkKeeps ==
  ASSUME BinTyped, BinTyped', BinOrder, NEW j \in Jobs, RecycleUnlink(j)
  PROVE  Keeps(j)
<1> DEFINE p == Head(job[j].todo)
<1>1. PICK e \in Entries : e = job[j].at
  BY JobAtEntry DEF RecycleUnlink, Recycling
<1>2. /\ JobsTyped /\ FolderTyped /\ AtEntry(j) /\ job[j].pc = "unlink" /\ job[j].pc \in Recycling
      /\ UNCHANGED <<waiting, owed, entry, purged, halfGone>>
  BY DEF BinTyped, RecycleUnlink, Recycling, BinOrder
<1>3. /\ At(j) = entry[e] /\ lib \in [Path -> Files] /\ At(j).files \in [Path -> Files]
      /\ job[j] \in JobRecord /\ JobShape(job[j]) /\ job \in [Jobs -> JobRecord]
  BY <1>1, <1>2, JobAtEntry DEF FolderTyped, JobsTyped
<1>4. Partway(job[j]) /\ p \in Path
  BY <1>2, <1>3, NextFile DEF JobShape
<1>5. OthersStay(j)
  BY StepLeavesOthers DEF Recycle
<1>6. p = "extra" => HeldIn(e) = {}
  BY <1>1, <1>2 DEF AtEntry
<1>7. p # "extra" => Dropping(job[j])
  BY <1>2 DEF Dropping
<1>8. CASE Goto(j, "rollback") /\ UNCHANGED <<lib, overtaken>>
  <2>1. job'[j].at = job[j].at
    BY <1>2, <1>8, GotoIs
  <2>2. Dropping(job[j]) \/ HeldIn(job[j].at) \subseteq Outside'
    BY <1>1, <1>6, <1>7
  <2>3. QED
    BY <1>2, <1>5, <1>8, <2>1, <2>2, GivesUpKeeps
<1>9. CASE /\ lib' = [lib EXCEPT ![p] = NoVideo] /\ Overtakes([lib' EXCEPT ![p] = At(j).files[p]])
           /\ MovedOne(j)
  <2>1. /\ job'[j].at = job[j].at
        /\ p = "extra" \/ job'[j].pc = "manifest"
    <3>1. job'[j].pc \in {"move", "manifest"}
      BY <1>3, <1>9 DEF MovedOne, JobRecord
    <3>2. ~RestoredOne(j)
      <4>1. RestoredOne(j) => job'[j].pc = "back"
        BY <1>3 DEF RestoredOne, JobRecord
      <4>2. QED
        BY <3>1, <4>1
    <3>3. job[j].kind # "folder"
      BY <1>2, <1>3 DEF JobShape
    <3>4. QED
      BY <1>2, <1>4, <1>9, <3>2, <3>3, OneMoreIs
  <2> HIDE DEF p
  <2>2. /\ In(lib) \subseteq In(lib') \cup overtaken' \cup In(At(j).files) /\ overtaken \subseteq overtaken'
        /\ p = "extra" => In(lib') = In(lib)
    BY <1>3, <1>4, <1>9, UnlinksCopied
  <2>3. CASE p = "extra"
    <3>1. In(lib) \subseteq Outside' /\ HeldIn(e) \subseteq Outside'
      BY <1>6, <2>2, <2>3 DEF Outside
    <3>2. QED
      BY <1>1, <1>2, <1>5, <2>1, <2>2, <3>1, KeepsAt
  <2>4. CASE p # "extra"
    <3>1. ~Dropping(job'[j])
      BY <2>1, <2>4 DEF Dropping
    <3>2. In(lib) \subseteq Outside' \cup In(entry'[e].files)
      BY <1>2, <1>3, <2>2 DEF Outside
    <3>3. Dropping(job[j])
      BY <1>7, <2>4
    <3>4. QED
      BY <1>1, <1>2, <1>5, <2>1, <2>2, <3>1, <3>2, <3>3, KeepsAt
  <2>5. QED
    BY <2>3, <2>4
<1>10. QED
  BY <1>8, <1>9 DEF RecycleUnlink

LEMMA RecycleTreeKeeps ==
  ASSUME BinTyped, BinTyped', BinOrder, NEW j \in Jobs, RecycleTree(j)
  PROVE  Keeps(j)
<1>1. PICK e \in Entries : e = job[j].at
  BY JobAtEntry DEF RecycleTree, Recycling
<1>2. /\ JobsTyped /\ EntriesTyped /\ AtEntry(j) /\ job[j].pc = "move" /\ job[j].pc \in Recycling
      /\ UNCHANGED <<waiting, owed, purged, halfGone, overtaken>>
  BY DEF BinTyped, RecycleTree, Recycling, BinOrder, historyVars
<1>3. OthersStay(j)
  BY StepLeavesOthers DEF Recycle
<1>4. HeldIn(e) = {} /\ entry[e] \in EntryRecord
  BY <1>1, <1>2 DEF AtEntry, EntriesTyped
<1>5. CASE Goto(j, "rollback") /\ UNCHANGED <<lib, entry>>
  <2>1. job'[j].at = job[j].at
    BY <1>2, <1>5, GotoIs
  <2>2. HeldIn(job[j].at) \subseteq Outside'
    BY <1>1, <1>4
  <2>3. QED
    BY <1>2, <1>3, <1>5, <2>1, <2>2, GivesUpKeeps
<1>6. CASE /\ entry' = [entry EXCEPT ![job[j].at].files = lib, ![job[j].at].tree = TRUE]
           /\ \/ job' = [job EXCEPT ![j].pc = "manifest", ![j].moved = <<"folder">>]
              \/ Goto(j, "prune")
  <2>1. entry'[e].files = lib /\ \A f \in Entries \ {e} : entry'[f] = entry[f]
    BY <1>1, <1>2, <1>4, <1>6 DEF EntriesTyped, EntryRecord
  <2>2. job'[j].at = e /\ job'[j].pc \in {"manifest", "prune"}
    BY <1>1, <1>2, <1>6, FolderGone, GotoIs
  <2>3. ~Dropping(job'[j])
    BY <2>2 DEF Dropping
  <2>4. /\ In(lib) \subseteq Outside' \cup In(entry'[e].files)
        /\ HeldIn(e) \subseteq Outside' \cup In(entry'[e].files)
    BY <1>4, <2>1
  <2>5. QED
    BY <1>1, <1>2, <1>3, <2>1, <2>2, <2>3, <2>4, KeepsAt
<1>7. QED
  BY <1>5, <1>6 DEF RecycleTree

LEMMA PruneTreeKeeps ==
  ASSUME BinTyped, BinTyped', BinOrder, NEW j \in Jobs, PruneTree(j)
  PROVE  Keeps(j)
<1>1. PICK e \in Entries : e = job[j].at
  BY JobAtEntry DEF PruneTree, Recycling
<1>2. /\ JobsTyped /\ FolderTyped /\ job[j].pc = "prune" /\ job[j].pc \in Recycling
      /\ UNCHANGED <<waiting, owed, entry, purged>>
  BY DEF BinTyped, PruneTree, Recycling
<1>3. /\ At(j) = entry[e] /\ lib \in [Path -> Files] /\ At(j).files \in [Path -> Files]
      /\ In(At(j).files) = HeldIn(e) /\ In(entry'[e].files) = HeldIn(e)
  BY <1>1, <1>2, JobAtEntry DEF FolderTyped, HeldIn
<1>4. OthersStay(j)
  BY StepLeavesOthers DEF Recycle
<1>5. CASE Goto(j, "rollback") /\ UNCHANGED <<lib, overtaken>>
           /\ halfGone' = halfGone \cup (In(At(j).files) \ In(lib))
  <2>1. job'[j].at = job[j].at
    BY <1>2, <1>5, GotoIs
  <2>2. HeldIn(job[j].at) \subseteq Outside'
    BY <1>1, <1>3, <1>5 DEF Outside
  <2>3. QED
    BY <1>2, <1>4, <1>5, <2>1, <2>2, GivesUpKeeps
<1>6. CASE /\ UNCHANGED halfGone
           /\ \/ /\ \E p \in Path : /\ lib' = [lib EXCEPT ![p] = NoVideo]
                                    /\ Overtakes([lib' EXCEPT ![p] = At(j).files[p]])
                 /\ UNCHANGED job
              \/ /\ UNCHANGED <<lib, overtaken>>
                 /\ job' = [job EXCEPT ![j].pc = "manifest", ![j].moved = <<"folder">>]
  <2>1. job'[j].at = e /\ job'[j].pc \in {"manifest", "prune"}
    BY <1>1, <1>2, <1>6, FolderGone
  <2>2. ~Dropping(job'[j])
    BY <2>1 DEF Dropping
  <2>3. In(lib) \subseteq In(lib') \cup overtaken' \cup In(At(j).files) /\ overtaken \subseteq overtaken'
    BY <1>3, <1>6, UnlinksCopied
  <2>4. /\ In(lib) \subseteq Outside' \cup In(entry'[e].files)
        /\ HeldIn(e) \subseteq Outside' \cup In(entry'[e].files)
    BY <1>3, <2>3 DEF Outside
  <2>5. QED
    BY <1>1, <1>2, <1>4, <1>6, <2>1, <2>2, <2>3, <2>4, KeepsAt
<1>7. QED
  BY <1>5, <1>6 DEF PruneTree

LEMMA WriteManifestKeeps ==
  ASSUME BinTyped, BinTyped', BinOrder, NEW j \in Jobs, WriteManifest(j)
  PROVE  Keeps(j)
<1>1. PICK e \in Entries : e = job[j].at
  BY JobAtEntry DEF WriteManifest, Recycling
<1>2. /\ JobsTyped /\ EntriesTyped /\ job[j].pc = "manifest" /\ job[j].pc \in Recycling
      /\ UNCHANGED <<waiting, lib, owed, purged, halfGone, overtaken>>
  BY DEF BinTyped, WriteManifest, Recycling, libVars
<1>3. entry[e] \in EntryRecord /\ JobShape(job[j])
  BY <1>2 DEF EntriesTyped, JobsTyped
<1>4. OthersStay(j)
  BY StepLeavesOthers DEF Recycle
<1>5. CASE Goto(j, "rollback") /\ UNCHANGED entry
  <2>1. job'[j].at = job[j].at /\ job'[j].pc = "rollback" /\ job'[j].moved = job[j].moved
    BY <1>2, <1>5, GotoIs
  <2>2. job[j].moved \notin NoMain
    BY <1>2, <1>3 DEF JobShape
  <2>3. ~Dropping(job'[j])
    BY <2>1, <2>2 DEF Dropping
  <2>4. QED
    BY <1>2, <1>4, <1>5, <2>1, <2>3, KeepsInFolder
<1>6. CASE /\ entry' = [entry EXCEPT ![job[j].at].listed = {job[j].moved[i] : i \in DOMAIN job[j].moved}]
           /\ After(j, TRUE)
  <2>1. entry'[e].files = entry[e].files /\ \A f \in Entries \ {e} : entry'[f] = entry[f]
    BY <1>1, <1>2, <1>3, <1>6 DEF EntriesTyped, EntryRecord
  <2>2. job'[j].at = 0
    BY <1>2, <1>6, AfterGoes DEF Gone
  <2>3. e # 0
    BY BinAssumptions
  <2>4. /\ In(lib) \subseteq Outside' \cup In(entry'[e].files)
        /\ HeldIn(e) \subseteq Outside' \cup In(entry'[e].files)
    BY <1>2, <2>1 DEF Outside, HeldIn
  <2>5. QED
    BY <1>1, <1>2, <1>4, <2>1, <2>2, <2>3, <2>4, KeepsAt
<1>7. QED
  BY <1>5, <1>6 DEF WriteManifest

LEMMA RollbackKeeps ==
  ASSUME BinTyped, BinTyped', BinOrder, NEW j \in Jobs, Rollback(j), Cardinality(binFaults') <= 1
  PROVE  Keeps(j)
<1> DEFINE p == job[j].moved[Len(job[j].moved)]
<1>1. PICK e \in Entries : e = job[j].at
  BY JobAtEntry DEF Rollback, Recycling
<1>2. /\ JobsTyped /\ EntriesTyped /\ FolderTyped /\ AtEntry(j) /\ job[j].pc = "rollback" /\ job[j].pc \in Recycling
      /\ UNCHANGED <<waiting, owed, purged, halfGone>> /\ job[j].moved # <<>>
      /\ job' = [job EXCEPT ![j].moved = SubSeq(@, 1, Len(@) - 1)]
  BY DEF BinTyped, Rollback, Recycling, BinOrder
<1>3. /\ At(j) = entry[e] /\ entry[e] \in EntryRecord /\ (entry[e].open => entry[e].kind = job[j].kind)
      /\ job[j] \in JobRecord /\ JobShape(job[j]) /\ job[j].kind \in Kinds /\ lib \in [Path -> Files]
  BY <1>1, <1>2, JobAtEntry DEF FolderTyped
<1>4. /\ p = "extra" \/ p = Main(job[j].kind)
      /\ job[j].moved \in NoMain <=> p = "extra"
      /\ p = "folder" <=> job[j].kind = "folder"
  BY <1>2, <1>3, LastMoved
<1>5. p = "folder" \/ p \in Path
  BY <1>3, <1>4, MainFiles DEF Path
<1>6. OthersStay(j) /\ job'[j].at = e
  BY <1>1, <1>2, OneLessIs
<1>7. \A f \in Entries \ {e} : entry'[f] = entry[f]
  <2>1. UNCHANGED entry \/ MovesBack(p, e)
    BY <1>1 DEF Rollback
  <2> HIDE DEF p
  <2>2. QED
    BY <1>2, <1>3, <2>1 DEF MovesBack, EntriesTyped, EntryRecord
<1>8. p = "extra" => Dropping(job[j])
  BY <1>2, <1>4 DEF Dropping
<1>9. CASE MovesBack(p, e) /\ Overtakes(lib')
  <2> HIDE DEF p
  <2>1. overtaken \subseteq overtaken' /\ In(lib) \subseteq Outside'
    BY <1>9 DEF Overtakes, Outside
  <2>2. Dropping(job[j]) \/ HeldIn(e) \subseteq Outside'
    <3>1. CASE p # "extra"
      <4>1. CanMoveBack(p, e)
        BY <1>9 DEF MovesBack, CanMoveBack
      <4>2. entry[e].open
        BY <1>2, <1>5, <4>1, MovesFromOpen
      <4>3. p = Main(entry[e].kind)
        BY <1>3, <1>4, <3>1, <4>2
      <4>4. lib' = IF p = "folder" THEN entry[e].files ELSE [lib EXCEPT ![p] = entry[e].files[p]]
        BY <1>9 DEF MovesBack
      <4>5. HeldIn(e) \subseteq In(lib')
        BY <4>2, <4>3, <4>4, BackInFolder
      <4>6. QED
        BY <4>5 DEF Outside
    <3>2. QED
      BY <1>8, <3>1
  <2>3. QED
    BY <1>1, <1>2, <1>6, <1>7, <2>1, <2>2, KeepsAt
<1>10. CASE UNCHANGED lib /\ overtaken' = overtaken \cup (In(At(j).files) \ In(lib))
  <2>1. In(lib) \subseteq Outside' /\ HeldIn(e) \subseteq Outside'
    BY <1>3, <1>10 DEF Outside, HeldIn
  <2>2. QED
    BY <1>1, <1>2, <1>6, <1>7, <1>10, <2>1, KeepsAt
<1>11. CASE Fault("undo") /\ UNCHANGED <<lib, entry, overtaken>>
  <2>1. In(lib) \subseteq Outside'
    BY <1>11 DEF Outside
  <2>2. Dropping(job[j]) \/ HeldIn(e) \subseteq Outside'
    <3>1. CASE entry[e].open /\ p # "extra"
      <4>1. "manifest" \in binFaults
        BY <1>1, <1>2, <1>4, <3>1 DEF AtEntry
      <4>2. "manifest" \in binFaults' /\ "undo" \in binFaults'
        BY <1>11, <4>1 DEF Fault
      <4>3. QED
        BY <4>2, OneFault DEF BinTyped
    <3>2. CASE ~entry[e].open
      BY <1>2, <3>2, GoneIsEmpty
    <3>3. QED
      BY <1>8, <3>1, <3>2
  <2>3. QED
    BY <1>1, <1>2, <1>6, <1>7, <1>11, <2>1, <2>2, KeepsAt
<1>12. QED
  BY <1>1, <1>9, <1>10, <1>11 DEF Rollback

LEMMA DropEntryKeeps ==
  ASSUME BinTyped, BinTyped', BinOrder, NEW j \in Jobs, DropEntry(j)
  PROVE  Keeps(j)
<1>1. PICK e \in Entries : e = job[j].at
  BY JobAtEntry DEF DropEntry, Recycling
<1>2. /\ JobsTyped /\ EntriesTyped /\ job[j].pc = "rollback" /\ job[j].pc \in Recycling /\ job[j].moved = <<>>
      /\ UNCHANGED <<waiting, lib, owed, purged, halfGone, overtaken>>
      /\ entry' = [entry EXCEPT ![job[j].at] = Closed] /\ After(j, FALSE)
  BY DEF BinTyped, DropEntry, Recycling, libVars, historyVars
<1>3. OthersStay(j)
  BY StepLeavesOthers DEF Recycle
<1>4. job'[j].at = 0
  BY <1>2, AfterGoes DEF Gone
<1>5. \A f \in Entries \ {e} : entry'[f] = entry[f]
  BY <1>1, <1>2 DEF EntriesTyped
<1>6. Dropping(job[j])
  BY <1>2 DEF Dropping, NoMain
<1>7. In(lib) \subseteq Outside'
  BY <1>2 DEF Outside
<1>8. QED
  BY <1>1, <1>2, <1>3, <1>4, <1>5, <1>6, <1>7, KeepsAt

LEMMA RecycleKeeps ==
  ASSUME BinTyped, BinTyped', BinOrder, NEW j \in Jobs, Recycle(j), Cardinality(binFaults') <= 1
  PROVE  Keeps(j)
  BY RecycleOpenKeeps, RecycleMoveKeeps, RecycleUnlinkKeeps, RecycleTreeKeeps, PruneTreeKeeps,
     WriteManifestKeeps, RollbackKeeps, DropEntryKeeps DEF Recycle

LEMMA RestoreEntryKeeps ==
  ASSUME BinTyped, BinTyped', BinOrder, NEW j \in Jobs, NEW e \in Entries, RestoreEntry(j, e)
  PROVE  Keeps(j)
<1> DEFINE r == [IdleJob EXCEPT !.op = "restore", !.pc = "fit", !.at = e, !.kind = entry[e].kind]
<1>1. /\ Begin(j, "restore", r) /\ entry[e].listed # {} /\ ~PostProcHeld
      /\ UNCHANGED <<waiting, lib, entry, owed, purged, halfGone, overtaken>>
  BY DEF RestoreEntry, libVars, historyVars
<1>2. r.pc = "fit" /\ r.at = e
  BY DEF IdleJob
<1>3. job' = [job EXCEPT ![j] = r] /\ job \in [Jobs -> JobRecord]
  BY <1>1 DEF Begin, BinTyped, JobsTyped
<1> HIDE DEF r
<1>4. job'[j].at = e /\ job'[j].pc = "fit" /\ OthersStay(j)
  BY <1>2, <1>3 DEF OthersStay
<1>5. \A k \in Jobs : job[k].at # e
  BY <1>1, NoJobAtListed
<1>6. ~Dropping(job'[j])
  BY <1>4 DEF Dropping
<1>7. QED
  BY <1>1, <1>4, <1>5, <1>6, KeepsInFolder

LEMMA RestoreCheckKeeps ==
  ASSUME BinTyped, BinTyped', BinOrder, NEW j \in Jobs, RestoreCheck(j)
  PROVE  Keeps(j)
<1>1. /\ JobsTyped /\ job[j].pc = "fit" /\ job \in [Jobs -> JobRecord] /\ job[j] \in JobRecord
      /\ UNCHANGED <<waiting, lib, entry, owed, purged, halfGone, overtaken>>
  BY DEF BinTyped, JobsTyped, RestoreCheck, libVars, historyVars
<1>2. OthersStay(j)
  BY StepLeavesOthers DEF RestoreStep
<1>3. CASE Finish(j)
  <2>1. job'[j].at = 0
    BY <1>1, <1>3, FinishGoes DEF Gone
  <2>2. QED
    BY <1>1, <1>2, <2>1, KeepsInFolder
<1>4. CASE \E names : job' = [job EXCEPT ![j].pc = "back", ![j].todo = names]
  <2>1. job'[j].at = job[j].at /\ job'[j].pc = "back"
    BY <1>1, <1>4 DEF JobRecord
  <2>2. ~Dropping(job'[j])
    BY <2>1 DEF Dropping
  <2>3. QED
    BY <1>1, <1>2, <2>1, <2>2, KeepsInFolder
<1>5. QED
  BY <1>3, <1>4 DEF RestoreCheck

\* A restore that gives up leaves in the entry what is in it.
LEMMA UndoKeeps ==
  ASSUME BinTyped, BinTyped', BinOrder, NEW j \in Jobs, OthersStay(j), Goto(j, "undo"),
         UNCHANGED <<waiting, lib, entry, owed, purged, halfGone, overtaken>>
  PROVE  Keeps(j)
<1>1. job'[j].at = job[j].at /\ job'[j].pc = "undo"
  BY GotoIs DEF BinTyped
<1>2. ~Dropping(job'[j])
  BY <1>1 DEF Dropping
<1>3. QED
  BY <1>1, <1>2, KeepsInFolder

LEMMA RestoreMoveKeeps ==
  ASSUME BinTyped, BinTyped', BinOrder, NEW j \in Jobs, RestoreMove(j)
  PROVE  Keeps(j)
<1> DEFINE p == Head(job[j].todo)
<1>1. PICK e \in Entries : e = job[j].at
  BY JobAtEntry DEF RestoreMove, Restoring
<1>2. /\ JobsTyped /\ EntriesTyped /\ FolderTyped
      /\ job[j].pc = "back" /\ job[j].pc \in Restoring /\ job[j].todo # <<>>
      /\ UNCHANGED <<waiting, owed, purged, halfGone>>
  BY DEF BinTyped, RestoreMove, Restoring
<1>3. /\ At(j) = entry[e] /\ (entry[e].open => entry[e].kind = job[j].kind)
      /\ job[j] \in JobRecord /\ JobShape(job[j]) /\ job[j].kind \in Kinds
      /\ lib \in [Path -> Files] /\ entry[e].files \in [Path -> Files]
  BY <1>1, <1>2, JobAtEntry DEF FolderTyped
<1>4. Partway(job[j])
  BY <1>2, <1>3 DEF JobShape
<1>5. /\ p = "extra" \/ p = Main(job[j].kind)
      /\ p = "folder" <=> job[j].kind = "folder"
      /\ p # "folder" => p \in Path
  BY <1>2, <1>4, RestoresName
<1>6. OthersStay(j)
  BY StepLeavesOthers DEF RestoreStep
<1>7. CASE Goto(j, "undo") /\ UNCHANGED <<lib, entry, overtaken>>
  BY <1>2, <1>6, <1>7, UndoKeeps
<1>8. ASSUME CanMoveBack(p, e), Overtakes(lib'),
             lib' = IF p = "folder" THEN entry[e].files ELSE [lib EXCEPT ![p] = entry[e].files[p]]
      PROVE  /\ entry[e].open /\ overtaken \subseteq overtaken' /\ In(lib) \subseteq Outside'
             /\ p # "extra" => HeldIn(e) \subseteq Outside'
  <2>1. overtaken \subseteq overtaken' /\ In(lib) \subseteq Outside'
    BY <1>8 DEF Overtakes, Outside
  <2>2. entry[e].open
    BY <1>2, <1>5, <1>8, MovesFromOpen
  <2>3. p # "extra" => p = Main(entry[e].kind)
    BY <1>3, <1>5, <2>2
  <2> HIDE DEF p
  <2>4. p # "extra" => HeldIn(e) \subseteq In(lib')
    BY <1>8, <2>2, <2>3, BackInFolder
  <2>5. QED
    BY <2>1, <2>2, <2>4 DEF Outside
<1>9. CASE MovesBack(p, e) /\ RestoredOne(j) /\ Overtakes(lib')
  <2>1. CanMoveBack(p, e) /\ lib' = IF p = "folder" THEN entry[e].files ELSE [lib EXCEPT ![p] = entry[e].files[p]]
    BY <1>9 DEF MovesBack, CanMoveBack
  <2>2. /\ entry[e].open /\ overtaken \subseteq overtaken' /\ In(lib) \subseteq Outside'
        /\ p # "extra" => HeldIn(e) \subseteq Outside'
    BY <1>8, <1>9, <2>1
  <2>3. (p = "extra" \/ p = Main(entry[e].kind)) /\ (p = "extra" => entry[e].kind # "folder")
    BY <1>3, <1>5, <2>2, MainFiles
  <2>4. job'[j].at = e /\ job'[j].pc = "back"
    <3>1. job'[j].pc = "back"
      BY <1>2, <1>9 DEF RestoredOne, JobsTyped, JobRecord
    <3>2. job'[j].at = job[j].at
      BY <1>2, <1>4, <1>9, OneMoreIs
    <3>3. QED
      BY <1>1, <3>1, <3>2
  <2> HIDE DEF p
  <2>5. /\ p # "folder" => entry'[e].files = [entry[e].files EXCEPT ![p] = NoVideo]
        /\ \A f \in Entries \ {e} : entry'[f] = entry[f]
    BY <1>2, <1>9, <2>3, BackTyped
  <2>6. CASE p # "extra"
    BY <1>1, <1>2, <1>6, <2>2, <2>4, <2>5, <2>6, KeepsAt
  <2>7. CASE p = "extra"
    <3>1. In(entry'[e].files) = In(entry[e].files)
      BY <1>3, <2>5, <2>7, CompanionsDoNotCount
    <3>2. ~Dropping(job'[j])
      BY <2>4 DEF Dropping
    <3>3. /\ In(lib) \subseteq Outside' \cup In(entry'[e].files)
          /\ HeldIn(e) \subseteq Outside' \cup In(entry'[e].files)
      BY <2>2, <3>1 DEF HeldIn
    <3>4. QED
      BY <1>1, <1>2, <1>6, <2>2, <2>4, <2>5, <3>2, <3>3, KeepsAt
  <2>8. QED
    BY <2>6, <2>7
<1>10. CASE /\ CanMoveBack(p, e) /\ Goto(j, "backUnlink") /\ UNCHANGED entry /\ Overtakes(lib')
            /\ lib' = IF p = "folder" THEN entry[e].files ELSE [lib EXCEPT ![p] = entry[e].files[p]]
  <2>1. /\ overtaken \subseteq overtaken' /\ In(lib) \subseteq Outside'
        /\ p # "extra" => HeldIn(e) \subseteq Outside'
    BY <1>8, <1>10
  <2>2. job'[j].at = e /\ job'[j].pc = "backUnlink" /\ job'[j].todo = job[j].todo
    BY <1>1, <1>2, <1>10, GotoIs
  <2>3. CASE p # "extra"
    BY <1>1, <1>2, <1>6, <1>10, <2>1, <2>2, <2>3, KeepsAt
  <2>4. CASE p = "extra"
    <3>1. ~Dropping(job'[j])
      BY <2>2, <2>4 DEF Dropping
    <3>2. /\ In(lib) \subseteq Outside' \cup In(entry'[e].files)
          /\ HeldIn(e) \subseteq Outside' \cup In(entry'[e].files)
      BY <1>10, <2>1 DEF HeldIn
    <3>3. QED
      BY <1>1, <1>2, <1>6, <1>10, <2>1, <2>2, <3>1, <3>2, KeepsAt
  <2>5. QED
    BY <2>3, <2>4
<1>11. QED
  BY <1>1, <1>3, <1>7, <1>9, <1>10 DEF RestoreMove

LEMMA RestoreUnlinkKeeps ==
  ASSUME BinTyped, BinTyped', BinOrder, NEW j \in Jobs, RestoreUnlink(j)
  PROVE  Keeps(j)
<1> DEFINE p == Head(job[j].todo)
<1>1. PICK e \in Entries : e = job[j].at
  BY JobAtEntry DEF RestoreUnlink, Restoring
<1>2. /\ JobsTyped /\ EntriesTyped /\ job[j].pc = "backUnlink" /\ job[j].pc \in Restoring
      /\ UNCHANGED <<waiting, lib, owed, purged, halfGone, overtaken>>
  BY DEF BinTyped, RestoreUnlink, Restoring, libVars, historyVars
<1>3. /\ At(j) = entry[e] /\ (entry[e].open => entry[e].kind = job[j].kind)
      /\ job[j] \in JobRecord /\ JobShape(job[j]) /\ job[j].kind \in Kinds
      /\ entry[e].files \in [Path -> Files]
  BY <1>1, <1>2, JobAtEntry
<1>4. Partway(job[j])
  BY <1>2, <1>3 DEF JobShape
<1>5. /\ p = "extra" \/ p = Main(job[j].kind)
      /\ p = "folder" <=> job[j].kind = "folder"
      /\ p # "folder" => p \in Path
  BY <1>2, <1>4, RestoresName
<1>6. OthersStay(j)
  BY StepLeavesOthers DEF RestoreStep
<1>7. CASE Goto(j, "undo") /\ UNCHANGED entry
  BY <1>2, <1>6, <1>7, UndoKeeps
<1>8. CASE /\ IF p = "folder" THEN At(j).tree ELSE At(j).files[p] # NoVideo
           /\ entry' = [entry EXCEPT
                ![job[j].at].files = IF p = "folder" THEN Empty ELSE [@ EXCEPT ![p] = NoVideo],
                ![job[j].at].tree = FALSE]
           /\ RestoredOne(j)
  <2> HIDE DEF p
  <2>1. entry[e].open
    <3>1. CASE ~entry[e].open
      BY <1>2, <1>3, <1>5, <1>8, <3>1, GoneIsEmpty DEF Empty
    <3>2. QED
      BY <3>1
  <2>2. (p = "extra" \/ p = Main(entry[e].kind)) /\ (p = "folder" <=> entry[e].kind = "folder")
    BY <1>3, <1>5, <2>1
  <2>3. /\ entry'[e].files = IF p = "folder" THEN Empty ELSE [entry[e].files EXCEPT ![p] = NoVideo]
        /\ \A f \in Entries \ {e} : entry'[f] = entry[f]
    <3>1. entry' = [entry EXCEPT
                      ![e].files = IF p = "folder" THEN Empty ELSE [@ EXCEPT ![p] = NoVideo],
                      ![e].tree = FALSE]
      BY <1>1, <1>8
    <3>2. QED
      BY <1>2, <2>1, <2>2, <3>1, UnlinkedEntry
  <2>4. job'[j].at = e /\ job'[j].pc = "back"
    <3>1. job'[j].pc = "back"
      BY <1>2, <1>8 DEF RestoredOne, JobsTyped, JobRecord
    <3>2. job'[j].at = job[j].at
      BY <1>2, <1>4, <1>8, OneMoreIs
    <3>3. QED
      BY <1>1, <3>1, <3>2
  <2>5. In(lib) \subseteq Outside'
    BY <1>2 DEF Outside
  <2>6. CASE p # "extra"
    <3>1. Dropping(job[j])
      BY <1>2, <2>6 DEF Dropping, p
    <3>2. QED
      BY <1>1, <1>2, <1>6, <2>3, <2>4, <2>5, <3>1, KeepsAt
  <2>7. CASE p = "extra"
    <3>1. In(entry'[e].files) = In(entry[e].files)
      BY <1>3, <2>3, <2>7, CompanionsDoNotCount
    <3>2. ~Dropping(job'[j])
      BY <2>4 DEF Dropping
    <3>3. /\ In(lib) \subseteq Outside' \cup In(entry'[e].files)
          /\ HeldIn(e) \subseteq Outside' \cup In(entry'[e].files)
      BY <2>5, <3>1 DEF HeldIn
    <3>4. QED
      BY <1>1, <1>2, <1>6, <2>3, <2>4, <3>2, <3>3, KeepsAt
  <2>8. QED
    BY <2>6, <2>7
<1>9. QED
  BY <1>7, <1>8 DEF RestoreUnlink

LEMMA RestoreUndoKeeps ==
  ASSUME BinTyped, BinTyped', BinOrder, NEW j \in Jobs, RestoreUndo(j)
  PROVE  Keeps(j)
<1>1. PICK e \in Entries : e = job[j].at
  BY JobAtEntry DEF RestoreUndo, Restoring
<1>2. /\ JobsTyped /\ EntriesTyped /\ FolderTyped /\ job[j].pc = "undo" /\ job[j].pc \in Restoring
      /\ UNCHANGED <<waiting, owed, purged, halfGone, overtaken>>
  BY DEF BinTyped, RestoreUndo, Restoring, historyVars
<1>3. entry[e] \in EntryRecord /\ entry[e].files \in [Path -> Files] /\ lib \in [Path -> Files]
  BY <1>2 DEF EntriesTyped, EntryRecord, FolderTyped
<1>4. OthersStay(j)
  BY StepLeavesOthers DEF RestoreStep
<1>5. CASE Finish(j) /\ UNCHANGED <<lib, entry>>
  <2>1. job'[j].at = 0
    BY <1>2, <1>5, FinishGoes DEF Gone
  <2>2. QED
    BY <1>2, <1>4, <1>5, <2>1, KeepsInFolder
<1>6. CASE /\ job[j].moved # <<>>
           /\ LET p == job[j].moved[Len(job[j].moved)] IN
              \/ UNCHANGED <<lib, entry>>
              \/ /\ entry' = [entry EXCEPT ![job[j].at].files[p] = lib[p]]
                 /\ lib' = [lib EXCEPT ![p] = NoVideo]
           /\ job' = [job EXCEPT ![j].moved = SubSeq(@, 1, Len(@) - 1)]
  <2>1. job[j].moved[Len(job[j].moved)] = "extra"
    BY <1>2, <1>6, UndoneIsCompanion
  <2>2. job'[j].at = e /\ job'[j].pc = "undo"
    BY <1>1, <1>2, <1>6, OneLessIs
  <2>3. ~Dropping(job'[j])
    BY <2>2 DEF Dropping
  <2>4. /\ In(entry'[e].files) = In(entry[e].files) /\ In(lib') = In(lib)
        /\ \A f \in Entries \ {e} : entry'[f] = entry[f]
    <3>1. CASE UNCHANGED <<lib, entry>>
      BY <3>1
    <3>2. CASE /\ entry' = [entry EXCEPT ![e].files["extra"] = lib["extra"]]
               /\ lib' = [lib EXCEPT !["extra"] = NoVideo]
      <4>1. /\ entry'[e].files = [entry[e].files EXCEPT !["extra"] = lib["extra"]]
            /\ \A f \in Entries \ {e} : entry'[f] = entry[f]
        BY <1>2, <1>3, <3>2 DEF EntriesTyped, EntryRecord
      <4>2. In(lib') = In(lib)
        BY <1>3, <3>2, CompanionsDoNotCount
      <4>3. QED
        BY <1>3, <4>1, <4>2, CompanionsDoNotCount
    <3>3. QED
      BY <1>1, <1>6, <2>1, <3>1, <3>2
  <2>5. /\ In(lib) \subseteq Outside' \cup In(entry'[e].files)
        /\ HeldIn(e) \subseteq Outside' \cup In(entry'[e].files)
    BY <2>4 DEF Outside, HeldIn
  <2>6. QED
    BY <1>1, <1>2, <1>4, <2>2, <2>3, <2>4, <2>5, KeepsAt
<1>7. QED
  BY <1>5, <1>6 DEF RestoreUndo

LEMMA RestoreEndKeeps ==
  ASSUME BinTyped, BinTyped', BinOrder, NEW j \in Jobs, RestoreEnd(j)
  PROVE  Keeps(j)
<1>1. PICK e \in Entries : e = job[j].at
  BY JobAtEntry DEF RestoreEnd, Restoring
<1>2. /\ JobsTyped /\ EntriesTyped /\ AtEntry(j) /\ job[j].pc = "back" /\ job[j].pc \in Restoring
      /\ job[j].todo = <<>> /\ Finish(j) /\ entry' = [entry EXCEPT ![job[j].at] = Closed]
      /\ UNCHANGED <<waiting, lib, owed, purged, halfGone, overtaken>>
  BY DEF BinTyped, RestoreEnd, Restoring, BinOrder, libVars, historyVars
<1>3. OthersStay(j) /\ job'[j].at = 0
  BY <1>2, FinishGoes DEF Gone
<1>4. \A f \in Entries \ {e} : entry'[f] = entry[f]
  BY <1>1, <1>2 DEF EntriesTyped
<1>5. In(lib) \subseteq Outside' /\ HeldIn(e) \subseteq Outside'
  BY <1>1, <1>2 DEF AtEntry, Outside
<1>6. QED
  BY <1>1, <1>2, <1>3, <1>4, <1>5, KeepsAt

LEMMA RestoreKeeps ==
  ASSUME BinTyped, BinTyped', BinOrder, NEW j \in Jobs, RestoreStep(j)
  PROVE  Keeps(j)
  BY RestoreEntryKeeps, RestoreCheckKeeps, RestoreMoveKeeps, RestoreUnlinkKeeps, RestoreUndoKeeps,
     RestoreEndKeeps DEF RestoreStep

\* Destroying an entry is what a video may go by.
LEMMA DestroyKeeps ==
  ASSUME owed \subseteq Accounts, NEW es \in SUBSET Entries, Destroy(es),
         UNCHANGED <<libVars, job, owed, halfGone, overtaken>>
  PROVE  owed' \subseteq Accounts'
<1> DEFINE gone == UNION {In(entry[e].files) : e \in es}
<1>1. /\ \A e \in Entries : entry'[e] = IF e \in es THEN Closed ELSE entry[e]
      /\ purged' = purged \cup (gone \ In(lib))
      /\ UNCHANGED <<waiting, lib>>
  BY DEF Destroy, libVars
<1>2. \A e \in es : HeldIn(e) \subseteq gone
  BY DEF HeldIn
<1> HIDE DEF gone
<1>3. Kept \subseteq Accounts'
  <2> SUFFICES ASSUME NEW v \in Kept PROVE v \in Accounts'
    OBVIOUS
  <2>1. PICK e \in Entries : ~Going(e) /\ v \in HeldIn(e)
    BY DEF Kept
  <2>2. CASE e \in es
    <3>1. v \in purged' \/ v \in In(lib')
      BY <1>1, <1>2, <2>1, <2>2
    <3>2. QED
      BY <3>1 DEF Accounts
  <2>3. CASE e \notin es
    <3>1. v \in HeldIn(e)' /\ ~Going(e)'
      BY <1>1, <2>1, <2>3 DEF HeldIn, Going
    <3>2. v \in Kept'
      BY <3>1 DEF Kept
    <3>3. QED
      BY <3>2 DEF Accounts
  <2>4. QED
    BY <2>2, <2>3
<1>4. waiting \cup In(lib) \cup purged \cup halfGone \cup overtaken \subseteq Accounts'
  BY <1>1 DEF Accounts
<1>5. QED
  BY <1>3, <1>4 DEF Accounts

LEMMA EnvironmentKeeps ==
  ASSUME BinTyped, owed \subseteq Accounts,
         (\E e \in Entries : DeleteNow(e)) \/ EmptyBin \/ PurgeOld \/ AgeOut \/ BinCrash
  PROVE  owed' \subseteq Accounts'
<1>1. CASE \E e \in Entries : DeleteNow(e)
  BY <1>1, DestroyKeeps DEF DeleteNow
<1>2. CASE EmptyBin
  BY <1>2, DestroyKeeps DEF EmptyBin
<1>3. CASE PurgeOld
  BY <1>3, DestroyKeeps DEF PurgeOld
<1>4. CASE AgeOut \/ BinCrash
  <2>1. UNCHANGED <<waiting, lib, owed, purged, halfGone, overtaken>>
    BY <1>4 DEF AgeOut, BinCrash, libVars, historyVars
  <2>2. \A e \in Entries : HeldIn(e)' = HeldIn(e)
    <3>1. \A e \in Entries : entry'[e].files = entry[e].files
      BY <1>4 DEF AgeOut, BinCrash, BinTyped, EntriesTyped, EntryRecord
    <3>2. QED
      BY <3>1 DEF HeldIn
  <2>3. \A e \in Entries : Going(e)' => Going(e)
    <3>1. CASE AgeOut
      BY <3>1 DEF AgeOut, Going
    <3>2. CASE BinCrash
      <4>1. \A j \in Jobs : job'[j] = IdleJob
        BY <3>2 DEF BinCrash
      <4>2. ~Dropping(IdleJob)
        BY DEF Dropping, IdleJob
      <4>3. QED
        BY <4>1, <4>2 DEF Going
    <3>3. QED
      BY <1>4, <3>1, <3>2
  <2>4. Kept \subseteq Kept'
    BY <2>2, <2>3 DEF Kept
  <2>5. QED
    BY <2>1, <2>4 DEF Accounts
<1>5. QED
  BY <1>1, <1>2, <1>3, <1>4

LEMMA StepKeepsOwed ==
  ASSUME BinTyped, BinTyped', BinOrder, OwedIsKept, [BinNext]_binVars
  PROVE  OwedIsKept'
<1> SUFFICES ASSUME Cardinality(binFaults') <= 1 PROVE owed' \subseteq Accounts'
  BY DEF OwedIsKept
<1>1. CASE UNCHANGED binVars
  <2>1. UNCHANGED <<waiting, lib, entry, job, binFaults, owed, purged, halfGone, overtaken>>
    BY <1>1 DEF binVars, libVars, historyVars
  <2>2. Kept' = Kept
    BY <2>1 DEF Kept, Going, HeldIn
  <2>3. QED
    BY <2>1, <2>2 DEF OwedIsKept, Accounts
<1>2. ASSUME NEW j \in Jobs, Caller(j) \/ Recycle(j) \/ RestoreStep(j)
      PROVE  owed' \subseteq Accounts'
  <2>1. Keeps(j)
    BY <1>2, CallerKeeps, RecycleKeeps, RestoreKeeps
  <2>2. binFaults \subseteq binFaults'
    BY <1>2, StepLeavesOthers
  <2>3. owed \subseteq Accounts
    BY <2>2, FewerFaults DEF OwedIsKept, BinTyped
  <2>4. QED
    BY <2>1, <2>3, KeepsOwed
<1>3. CASE (\E e \in Entries : DeleteNow(e)) \/ EmptyBin \/ PurgeOld \/ AgeOut \/ BinCrash
  <2>1. UNCHANGED binFaults
    BY <1>3 DEF DeleteNow, EmptyBin, PurgeOld, AgeOut, BinCrash
  <2>2. owed \subseteq Accounts
    BY <2>1 DEF OwedIsKept
  <2>3. QED
    BY <1>3, <2>2, EnvironmentKeeps
<1>4. QED
  BY <1>1, <1>2, <1>3 DEF BinNext

LEMMA InitKeepsOwed == BinInit => OwedIsKept
<1> SUFFICES ASSUME BinInit PROVE OwedIsKept
  OBVIOUS
<1> DEFINE v == CHOOSE v \in Videos : TRUE
<1>1. lib = [Empty EXCEPT !["video"] = v, !["extra"] = v] /\ owed = {v}
  BY DEF BinInit
<1>2. v \in Videos /\ v # NoVideo
  BY BinAssumptions
<1> HIDE DEF v
<1>3. lib["video"] = v
  BY <1>1 DEF Empty, Path
<1>4. v \in In(lib)
  BY <1>2, <1>3, InIs
<1>5. QED
  BY <1>1, <1>4 DEF OwedIsKept, Accounts

\* No video that was the episode's file is lost unnoticed, whatever fails in one call, is interrupted or
\* interleaves: it is in the folder, outside the library or in the bin, or destroyed on request, or by one
\* of the two ways out that are named; and a finished recycle's can be restored from where it lists it.
THEOREM NothingIsLost == BinSpec => []NoVideoIsLost
<1>1. BinInit => OwedIsKept
  BY InitKeepsOwed
<1>2. /\ BinTyped /\ BinTyped' /\ BinOrder /\ OwedIsKept /\ [BinNext]_binVars
      => OwedIsKept'
  BY StepKeepsOwed
<1>3. BinOrder /\ OwedIsKept => NoVideoIsLost
  BY KeptIsInBin DEF NoVideoIsLost, BinOrder
<1>4. QED
  BY <1>1, <1>2, <1>3, BinOrdered, PTL DEF BinSpec

------------------------------------------------------------------------------
(* The two parts side by side *)

\* What was proved of the staged restore and of the bin holds where both are: each is what it is
\* without the other.
THEOREM DiskIsBoth == DiskSpec => RestoreSpec /\ BinSpec
<1>1. DiskInit => RestoreInit /\ BinInit
  BY DEF DiskInit, Restores, Recycles
<1>2. [DiskNext]_<<part, restoreVars, binVars>> => [RestoreNext]_restoreVars /\ [BinNext]_binVars
  BY DEF DiskNext
<1>3. QED
  BY <1>1, <1>2, PTL DEF DiskSpec, RestoreSpec, BinSpec

\* Files, boots and requests of the restore, and entries, jobs and requests of the bin, have
\* their types in every state of both.
THEOREM DiskTypeCorrect == DiskSpec => []DiskTypeOK
<1>1. RestoreTypeOK /\ BinTypeOK => DiskTypeOK
  BY DEF DiskTypeOK
<1>2. QED
  BY <1>1, DiskIsBoth, RestoreTyped, BinTypeCorrect, PTL
=============================================================================
