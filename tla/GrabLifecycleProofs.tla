-------------------------- MODULE GrabLifecycleProofs --------------------------
(* For any grabs, releases, requests and settings, and whatever goes wrong: *)
(* the grab lifecycle's state is well-formed, it keeps one live row per     *)
(* release and, with post-processing on, implements GrabLedger.  And what   *)
(* it promises of the files: the episode has one owner, a torrent under the *)
(* seed rules seeds on, and a download that still holds files is kept.      *)
EXTENDS GrabLifecycle, TLAPS

\* The rows that were recorded.  No row is ever deleted.
Recorded == {g \in Grabs : grabs[g].state # "none"}

\* The parts of TypeOK, and with them that the rows a run or a request works
\* on were recorded when it read them.
RowsTyped ==
  /\ grabs \in [Grabs -> Row]
  /\ \A g \in Grabs : grabs[g].state # "none" => grabs[g].hash \in Hashes

HandlersTyped ==
  /\ handler \in [Grabs -> Handler]
  /\ \A g \in Grabs : handler[g].pc # "idle" => handler[g].hash \in Hashes

ClientTyped == item \in [Hashes -> ItemState] /\ source \subseteq Hashes

EpisodeTyped == library \in Hashes \cup {NoHash} /\ owed \subseteq Hashes /\ tag \in Tag

RunTyped ==
  /\ tick \in Tick
  /\ tick.pc \notin {"idle", "list", "pick"} => tick.cur \in Grabs
  /\ tick.todo \cup tick.olds \cup tick.flush \subseteq Recorded
  /\ tick.cur \in Recorded \cup {NoGrab}
  /\ tick.old \in Recorded \cup {NoGrab}
  /\ tick.pc = "oldgo" => tick.old \in Grabs

LoopTyped == loop \in {"idle", "tick", "sweep"} /\ due \in BOOLEAN /\ grace \in BOOLEAN

SweepTyped == sweep \in Sweep /\ (sweep.pc \in {"delete", "stamp"} => sweep.cur \in Grabs)

AskingTyped ==
  /\ req \in [Requests -> Request]
  /\ \A r \in Requests : /\ req[r].pc \in {"delete", "mark"} => req[r].cur \in Grabs
                         /\ req[r].found \cup req[r].stuck \subseteq Recorded
                         /\ req[r].cur \in Recorded \cup {NoGrab}

TypeInv ==
  /\ RowsTyped /\ HandlersTyped /\ ClientTyped /\ EpisodeTyped
  /\ RunTyped /\ LoopTyped /\ SweepTyped /\ AskingTyped

LEMMA TypeInvImplies == TypeInv => TypeOK
  BY DEF TypeInv, TypeOK, RowsTyped, HandlersTyped, ClientTyped, EpisodeTyped, RunTyped,
         LoopTyped, SweepTyped, AskingTyped

-------------------------------------------------------------------------------
(* Writes to the table *)

States == {"none", "pending", "imported", "failed", "removed", "replaced"}

LEMMA RowUpdates ==
  ASSUME NEW row \in Row
  PROVE  /\ \A s \in States : [row EXCEPT !.state = s] \in Row
         /\ \A b \in BOOLEAN : /\ [row EXCEPT !.done = b] \in Row
                               /\ [row EXCEPT !.gone = b] \in Row
                               /\ [row EXCEPT !.aged = b] \in Row
                               /\ [row EXCEPT !.ruled = b] \in Row
         /\ \A m \in {"", "link", "move", "partial"} : [row EXCEPT !.mode = m] \in Row
         /\ \A s \in {"no", "yes", "stalled"} : [row EXCEPT !.seen = s] \in Row
  BY DEF Row, States

\* A write to one row that keeps it recorded.
LEMMA RowWrite ==
  ASSUME RowsTyped, NEW g \in Grabs, NEW row \in Row, grabs' = [grabs EXCEPT ![g] = row],
         row.state # "none" => row.hash \in Hashes,
         grabs[g].state # "none" => row.state # "none"
  PROVE  RowsTyped' /\ Recorded \subseteq Recorded'
  BY DEF RowsTyped, Recorded

\* A write that only changes the state of rows, or stamps them.
LEMMA RowsWrite ==
  ASSUME RowsTyped, grabs' \in [Grabs -> Row],
         \A g \in Grabs : /\ grabs'[g].hash = grabs[g].hash
                          /\ grabs'[g].state # "none" <=> grabs[g].state # "none"
  PROVE  RowsTyped' /\ Recorded' = Recorded
  BY DEF RowsTyped, Recorded

\* A row stays recorded under what a run or a request holds.
LEMMA HeldOnly ==
  ASSUME Recorded \subseteq Recorded'
  PROVE  /\ RunTyped /\ UNCHANGED tick => RunTyped'
         /\ AskingTyped /\ UNCHANGED req => AskingTyped'
  BY DEF RunTyped, AskingTyped

LEMMA SameRows == UNCHANGED grabs => Recorded' = Recorded /\ (RowsTyped => RowsTyped')
  BY DEF Recorded, RowsTyped

LEMMA SameOthers ==
  /\ HandlersTyped /\ UNCHANGED handler => HandlersTyped'
  /\ ClientTyped /\ UNCHANGED <<item, source>> => ClientTyped'
  /\ EpisodeTyped /\ UNCHANGED <<library, owed, tag>> => EpisodeTyped'
  /\ LoopTyped /\ UNCHANGED <<loop, due, grace>> => LoopTyped'
  /\ SweepTyped /\ UNCHANGED sweep => SweepTyped'
  BY DEF HandlersTyped, ClientTyped, EpisodeTyped, LoopTyped, SweepTyped

-------------------------------------------------------------------------------
LEMMA TypeInit == Init => TypeInv
  <1> SUFFICES ASSUME Init PROVE TypeInv
    OBVIOUS
  <1> USE ConstantsAssumption DEF Init
  <1>1. RowsTyped
    BY DEF RowsTyped, Row, NoRow
  <1>2. HandlersTyped
    BY DEF HandlersTyped, Handler, NoHandler
  <1>3. ClientTyped /\ EpisodeTyped
    BY DEF ClientTyped, EpisodeTyped, ItemState, Tag, NoTag
  <1>4. RunTyped
    BY DEF RunTyped, Tick, TickPc, NoTick, NoListing, ItemState
  <1>5. LoopTyped /\ SweepTyped
    BY DEF LoopTyped, SweepTyped, Sweep, NoSweep, NoListing, ItemState
  <1>6. AskingTyped
    BY DEF AskingTyped, Request, RequestPc, NoRequest
  <1>7. QED
    BY <1>1, <1>2, <1>3, <1>4, <1>5, <1>6 DEF TypeInv

\* A stamp on a row: its state and release stay as they are.
LEMMA StampTyped ==
  ASSUME RowsTyped, NEW g \in Grabs, NEW row \in Row, grabs' = [grabs EXCEPT ![g] = row],
         row.hash = grabs[g].hash, row.state = "none" <=> grabs[g].state = "none"
  PROVE  RowsTyped' /\ Recorded' = Recorded
  <1>1. grabs' \in [Grabs -> Row]
    BY DEF RowsTyped
  <1>2. \A o \in Grabs : /\ grabs'[o].hash = grabs[o].hash
                         /\ grabs'[o].state # "none" <=> grabs[o].state # "none"
    BY DEF RowsTyped
  <1>3. QED
    BY <1>1, <1>2, RowsWrite

LEMMA HandlingTyped ==
  ASSUME TypeInv, NEW g \in Grabs, NEW h \in Hashes, Handling(g) \/ GrabAdd(g, h)
  PROVE  TypeInv'
  <1> USE DEF TypeInv
  <1>1. CASE GrabAdd(g, h)
    <2>1. HandlersTyped'
      BY <1>1 DEF GrabAdd, HandlersTyped, Handler, NoHandler
    <2>2. ClientTyped'
      BY <1>1 DEF GrabAdd, ClientTyped, ItemState
    <2>3. QED
      BY <1>1, <2>1, <2>2, SameRows, HeldOnly, SameOthers DEF GrabAdd
  <1>2. CASE RecordInsert(g)
    <2>1. HandlersTyped'
      BY <1>2 DEF RecordInsert, HandlersTyped, Handler
    <2>2. RowsTyped' /\ Recorded \subseteq Recorded'
      <3>1. CASE UNCHANGED grabs
        BY <3>1, SameRows
      <3> DEFINE row == [NoRow EXCEPT !.hash = handler[g].hash, !.state = "pending"]
      <3>2. CASE grabs' = [grabs EXCEPT ![g] = row]
        <4>1. handler[g].hash \in Hashes
          BY <1>2 DEF RecordInsert, HandlersTyped
        <4>2. row \in Row /\ row.hash \in Hashes /\ row.state # "none"
          BY <4>1 DEF Row, NoRow
        <4> HIDE DEF row
        <4>3. QED
          BY <3>2, <4>2, RowWrite
      <3>3. QED
        BY <1>2, <3>1, <3>2 DEF RecordInsert
    <2>3. QED
      BY <1>2, <2>1, <2>2, HeldOnly, SameOthers DEF RecordInsert
  <1>3. CASE RecordReactivate(g)
    <2>0. InState("imported") \subseteq Grabs
      BY DEF InState
    <2>1. HandlersTyped'
      <3>1. PICK row \in Grabs \cup {NoGrab} :
              handler' = [handler EXCEPT ![g].pc = "recorded", ![g].row = row]
        BY <1>3, <2>0 DEF RecordReactivate
      <3>2. handler[g].pc # "idle"
        BY <1>3 DEF RecordReactivate
      <3>3. QED
        BY <3>1, <3>2 DEF HandlersTyped, Handler
    <2>2. grabs' \in [Grabs -> Row]
      <3>1. ASSUME NEW row \in Row
            PROVE  [row EXCEPT !.state = "pending", !.done = FALSE, !.gone = FALSE,
                               !.aged = FALSE, !.seen = "no"] \in Row
        BY DEF Row
      <3>2. QED
        BY <1>3, <3>1, <2>0 DEF RecordReactivate, RowsTyped
    <2>3. \A other \in Grabs : /\ grabs'[other].hash = grabs[other].hash
                               /\ grabs'[other].state # "none" <=> grabs[other].state # "none"
      <3>1. \A o \in InState("imported") : grabs[o].state = "imported"
        BY DEF InState
      <3>2. QED
        BY ZenonT(40), <1>3, <2>0, <3>1 DEF RecordReactivate, RowsTyped, Row
    <2>4. RowsTyped' /\ Recorded' = Recorded
      BY <2>2, <2>3, RowsWrite
    <2>5. QED
      BY <1>3, <2>1, <2>4, HeldOnly, SameOthers DEF RecordReactivate
  <1>4. CASE TagGrabbed(g)
    <2>1. HandlersTyped'
      BY <1>4 DEF TagGrabbed, HandlersTyped, Handler
    <2>0. handler[g].hash \in Hashes
      BY <1>4 DEF TagGrabbed, HandlersTyped
    <2>2. EpisodeTyped'
      BY <1>4, <2>0 DEF TagGrabbed, EpisodeTyped, Tag
    <2>3. QED
      BY <1>4, <2>1, <2>2, SameRows, HeldOnly, SameOthers DEF TagGrabbed
  <1>5. CASE StampRules(g)
    <2>1. HandlersTyped'
      BY <1>5 DEF StampRules, HandlersTyped, Handler
    <2>2. RowsTyped' /\ Recorded' = Recorded
      <3> DEFINE row == handler[g].row
      <3>1. row \in Grabs /\ grabs[row] \in Row
        BY <1>5 DEF StampRules, HandlersTyped, Handler, RowsTyped
      <3>2. ASSUME NEW b \in BOOLEAN, NEW old \in Row
            PROVE  /\ [old EXCEPT !.ruled = b] \in Row
                   /\ [old EXCEPT !.ruled = b].hash = old.hash
                   /\ [old EXCEPT !.ruled = b].state = old.state
        BY DEF Row
      <3> DEFINE ruled == handler[g].hash \in Ruled
      <3>3. ruled \in BOOLEAN
        <4>1. ruled = TRUE \/ ruled = FALSE
          OBVIOUS
        <4> HIDE DEF ruled
        <4>2. QED
          BY <4>1
      <3>4. \/ UNCHANGED grabs
            \/ grabs' = [grabs EXCEPT ![row] = [grabs[row] EXCEPT !.ruled = ruled]]
            \/ grabs' = [grabs EXCEPT ![row] = [grabs[row] EXCEPT !.ruled = FALSE]]
        BY <1>5 DEF StampRules
      <3> HIDE DEF row, ruled
      <3>5. QED
        BY <3>1, <3>2, <3>3, <3>4, StampTyped, SameRows
    <2>3. QED
      BY <1>5, <2>1, <2>2, HeldOnly, SameOthers DEF StampRules
  <1>6. QED
    BY <1>1, <1>2, <1>3, <1>4, <1>5 DEF Handling

-------------------------------------------------------------------------------
(* The tick *)

LEMMA NoTickTyped == NoTick \in Tick /\ NoTick.pc = "idle"
  BY DEF Tick, TickPc, NoTick, NoListing, ItemState

\* The run stays on the row at hand, or turns to the next one.
LEMMA RunMoves ==
  ASSUME RunTyped, Recorded \subseteq Recorded'
  PROVE  /\ tick.cur \in Grabs => \A pc \in TickPc \ {"oldgo"} : Goto(pc) => RunTyped'
         /\ tick' = NextRow => RunTyped'
         /\ tick' = NoTick => RunTyped'
  <1> USE DEF RunTyped
  <1>1. \A pc \in TickPc \ {"oldgo"} : Goto(pc) /\ tick.cur \in Grabs => RunTyped'
    BY DEF Goto, Tick
  <1>2. tick' = NextRow => RunTyped'
    BY ZenonT(40) DEF NextRow, Tick, TickPc
  <1>3. tick' = NoTick => RunTyped'
    BY DEF NoTick, NoListing, Tick, TickPc, ItemState
  <1>4. QED
    BY <1>1, <1>2, <1>3

LEMMA EndRunTyped ==
  ASSUME RunTyped, LoopTyped, EndRun, UNCHANGED <<due, grace>>, Recorded \subseteq Recorded'
  PROVE  RunTyped' /\ LoopTyped'
  BY RunMoves DEF EndRun, LoopTyped

\* mark_removed, mark_failed, mark_replaced and mark_completed_no_import on a
\* recorded row.
LEMMA SetStateTyped ==
  ASSUME RowsTyped, NEW g \in Recorded, NEW s \in States \ {"none"}, SetState(g, s)
  PROVE  RowsTyped' /\ Recorded' = Recorded
  <1>1. grabs[g] \in Row /\ g \in Grabs
    BY DEF RowsTyped, Recorded
  <1>2. [grabs[g] EXCEPT !.state = s] \in Row
    BY <1>1, RowUpdates
  <1>3. grabs' = [grabs EXCEPT ![g] = [grabs[g] EXCEPT !.state = s]]
    BY DEF SetState
  <1>4. grabs' \in [Grabs -> Row]
    BY <1>1, <1>2, <1>3 DEF RowsTyped
  <1>5. \A o \in Grabs : /\ grabs'[o].hash = grabs[o].hash
                         /\ grabs'[o].state # "none" <=> grabs[o].state # "none"
    BY <1>1, <1>3 DEF RowsTyped, Recorded, States, Row
  <1>6. QED
    BY <1>4, <1>5, RowsWrite

LEMMA DeleteTyped ==
  ASSUME ClientTyped, NEW h, Deleted(h) \/ DeleteFails \/ UNCHANGED <<item, source>>
  PROVE  ClientTyped'
  BY DEF ClientTyped, Deleted, DeleteFails, ItemState

LEMMA ListingTyped ==
  ASSUME ClientTyped, NEW todo \in SUBSET Grabs
  PROVE  Listing(todo) \in [Hashes -> ItemState]
  BY DEF ClientTyped, Listing, ItemState

LEMMA UnlistedTyped ==
  ASSUME NEW g, NEW listing \in [Hashes -> ItemState]
  PROVE  Unlisted(listing, g) \in [Hashes -> ItemState]
  BY DEF Unlisted, ItemState

LEMMA TickStarts ==
  ASSUME TypeInv, NEW by \in {"loop", "force"},
         TickStart(by) \/ TickSkipped \/ TickList \/ TickEnd \/ \E g \in Grabs : TickPick(g)
  PROVE  TypeInv'
  <1> USE DEF TypeInv, OthersOfTick, ClientVars
  <1>1. RowsTyped' /\ Recorded' = Recorded /\ HandlersTyped' /\ ClientTyped' /\ EpisodeTyped'
        /\ SweepTyped' /\ AskingTyped' /\ UNCHANGED <<due, grace>>
    BY SameRows, SameOthers, HeldOnly DEF TickStart, TickSkipped, TickList, TickEnd, TickPick
  <1>2. ASSUME TickStart(by) PROVE RunTyped' /\ LoopTyped'
    <2>1. LoopTyped'
      BY <1>1, <1>2 DEF TickStart, LoopTyped
    <2>2. CASE UNCHANGED tick
      BY <1>1, <2>1, <2>2, HeldOnly
    <2>3. CASE tick' = [NoTick EXCEPT !.pc = "list", !.by = by, !.todo = InState("pending")]
      <3>1. InState("pending") \subseteq Recorded /\ InState("pending") \subseteq Grabs
        BY DEF InState, Recorded
      <3>2. tick' \in Tick /\ tick'.pc = "list" /\ tick'.todo = InState("pending")
            /\ tick'.cur = NoGrab /\ tick'.old = NoGrab /\ tick'.olds = {} /\ tick'.flush = {}
        BY <2>3, <3>1 DEF Tick, TickPc, NoTick, NoListing, ItemState
      <3>3. QED
        BY <1>1, <2>1, <3>1, <3>2 DEF RunTyped
    <2>4. QED
      BY <1>2, <2>2, <2>3, <2>1 DEF TickStart
  <1>3. ASSUME TickSkipped PROVE RunTyped' /\ LoopTyped'
    BY <1>1, <1>3, HeldOnly DEF TickSkipped, LoopTyped
  <1>4. ASSUME TickList PROVE RunTyped' /\ LoopTyped'
    <2>1. CASE EndRun
      BY <1>1, <2>1, EndRunTyped
    <2>2. CASE tick' = [tick EXCEPT !.pc = "pick", !.listing = Listing(tick.todo)] /\ UNCHANGED loop
      <3>1. Listing(tick.todo) \in [Hashes -> ItemState]
        BY ListingTyped DEF RunTyped, Tick
      <3>2. RunTyped'
        BY <1>1, <2>2, <3>1 DEF RunTyped, Tick, TickPc
      <3>3. QED
        BY <1>1, <2>2, <3>2 DEF LoopTyped
    <2>3. QED
      BY <1>4, <2>1, <2>2 DEF TickList
  <1>5. ASSUME TickEnd PROVE RunTyped' /\ LoopTyped'
    BY <1>1, <1>5, EndRunTyped DEF TickEnd
  <1>6. ASSUME NEW g \in Grabs, TickPick(g) PROVE RunTyped' /\ LoopTyped'
    <2>1. Unlisted(tick.listing, g) \in [Hashes -> ItemState]
      BY UnlistedTyped DEF RunTyped, Tick
    <2>2. Verdict(g) \in TickPc \ {"oldgo"}
      BY DEF Verdict, TickPc
    <2>3. g \in Recorded
      BY <1>6 DEF TickPick, RunTyped
    <2>4. RunTyped'
      BY <1>1, <1>6, <2>1, <2>2, <2>3 DEF TickPick, RunTyped, Tick
    <2>5. QED
      BY <1>1, <1>6, <2>4 DEF TickPick, LoopTyped
  <1>7. QED
    BY <1>1, <1>2, <1>3, <1>4, <1>5, <1>6

\* The steps on one row that write its state.
LEMMA TickDecides ==
  ASSUME TypeInv,
         TickRemove \/ TickFail \/ TickAllFailed \/ TickFinish \/ \E g \in Grabs : TickFlush(g)
  PROVE  TypeInv'
  <1> USE DEF TypeInv, OthersOfTick, ClientVars
  <1>1. HandlersTyped' /\ ClientTyped' /\ EpisodeTyped' /\ SweepTyped' /\ LoopTyped' /\ UNCHANGED req
    BY SameOthers DEF TickRemove, TickFail, TickAllFailed, TickFinish, TickFlush
  <1>2. ASSUME TickRemove \/ TickFail \/ TickAllFailed \/ TickFinish
        PROVE  tick.cur \in Recorded /\ tick.cur \in Grabs
    BY <1>2, ConstantsAssumption
    DEF TickRemove, TickFail, TickAllFailed, TickFinish, At, RunTyped
  <1>3. ASSUME TickRemove \/ TickFail \/ TickAllFailed \/ TickFinish
        PROVE  RowsTyped' /\ Recorded' = Recorded
    <2>1. UNCHANGED grabs \/ \E s \in States \ {"none"} : SetState(tick.cur, s)
      BY <1>3 DEF TickRemove, TickFail, TickAllFailed, TickFinish, States
    <2>2. QED
      BY <1>2, <1>3, <2>1, SetStateTyped, SameRows
  <1>4. ASSUME TickRemove \/ TickFail \/ TickAllFailed \/ TickFinish
        PROVE  RunTyped'
    <2>1. \/ \E pc \in TickPc \ {"oldgo"} : Goto(pc)
          \/ tick' = NextRow
      BY <1>4 DEF TickRemove, TickFail, TickAllFailed, TickFinish, TickPc
    <2>2. QED
      BY <2>1, <1>2, <1>3, <1>4, RunMoves
  <1>5. ASSUME NEW g \in Grabs, TickFlush(g)
        PROVE  RowsTyped' /\ Recorded' = Recorded /\ RunTyped'
    <2>1. g \in Recorded
      BY <1>5 DEF TickFlush, RunTyped
    <2>2. RowsTyped' /\ Recorded' = Recorded
      BY <1>5, <2>1, SetStateTyped DEF TickFlush, States
    <2>3. QED
      BY <1>5, <2>2 DEF TickFlush, RunTyped, Tick
  <1>6. QED
    BY <1>1, <1>3, <1>4, <1>5, HeldOnly

\* The steps that stamp the row at hand.
LEMMA TickStamps ==
  ASSUME TypeInv, TickSeen \/ TickMark \/ TickMode \/ TickFreed
  PROVE  TypeInv'
  <1> USE DEF TypeInv, OthersOfTick, ClientVars
  <1>1. HandlersTyped' /\ ClientTyped' /\ EpisodeTyped' /\ SweepTyped' /\ LoopTyped' /\ UNCHANGED req
    BY SameOthers DEF TickSeen, TickMark, TickMode, TickFreed
  <1>2. tick.cur \in Grabs /\ tick.full \in BOOLEAN
    BY DEF TickSeen, TickMark, TickMode, TickFreed, At, RunTyped, Tick
  <1> DEFINE row == grabs[tick.cur]
  <1>3. row \in Row
    BY <1>2 DEF RowsTyped
  <1>4. RowsTyped' /\ Recorded' = Recorded
    <2>1. CASE TickSeen
      <3> DEFINE new == [row EXCEPT !.seen = IF @ = "no" THEN "yes" ELSE @]
      <3>1. new \in Row /\ new.hash = row.hash /\ new.state = row.state
        BY <1>3 DEF Row
      <3>2. grabs' = [grabs EXCEPT ![tick.cur] = new]
        BY <2>1 DEF TickSeen
      <3> HIDE DEF new
      <3>3. QED
        BY <1>2, <3>1, <3>2, StampTyped
    <2>2. CASE TickMark
      <3> DEFINE new == IF row.state = "pending"
                        THEN [row EXCEPT !.state = "imported", !.done = TRUE] ELSE row
      <3>1. new \in Row /\ new.hash = row.hash /\ (new.state = "none" <=> row.state = "none")
        BY ZenonT(40), <1>3 DEF Row
      <3>2. grabs' = [grabs EXCEPT ![tick.cur] = new]
        BY <2>2 DEF TickMark, MarkImported
      <3> HIDE DEF new
      <3>3. QED
        BY <1>2, <3>1, <3>2, StampTyped
    <2>3. CASE TickMode
      <3> DEFINE new == [row EXCEPT !.mode = IF tick.full THEN Mode ELSE "partial"]
      <3>1. new \in Row /\ new.hash = row.hash /\ new.state = row.state
        BY <1>3, ConstantsAssumption DEF Row
      <3>2. grabs' = [grabs EXCEPT ![tick.cur] = new]
        BY <2>3 DEF TickMode
      <3> HIDE DEF new
      <3>3. QED
        BY <1>2, <3>1, <3>2, StampTyped
    <2>4. CASE TickFreed
      <3> DEFINE new == [row EXCEPT !.gone = TRUE]
      <3>1. new \in Row /\ new.hash = row.hash /\ new.state = row.state
        BY <1>3 DEF Row
      <3>2. grabs' = [grabs EXCEPT ![tick.cur] = new]
        BY <2>4 DEF TickFreed
      <3> HIDE DEF new
      <3>3. QED
        BY <1>2, <3>1, <3>2, StampTyped
    <2>5. QED
      BY <2>1, <2>2, <2>3, <2>4
  <1>5. RunTyped'
    <2>1. (\E pc \in TickPc \ {"oldgo"} : Goto(pc)) \/ tick' = NextRow
      BY DEF TickSeen, TickMark, TickMode, TickFreed, TickPc
    <2>2. QED
      BY <1>2, <1>4, <2>1, RunMoves
  <1>6. QED
    BY <1>1, <1>4, <1>5, HeldOnly

\* The steps that leave the table alone.
LEMMA TickWorks ==
  ASSUME TypeInv,
         \/ TickUntag \/ TickFailTag \/ TickDrop \/ TickDiscard \/ TickImport \/ TickOlds \/ TickSwap
         \/ TickTag \/ TickFree \/ TickStall \/ TickFinishTag \/ TickOldGone
         \/ \E g \in Grabs : TickOld(g)
  PROVE  TypeInv'
  <1> USE DEF TypeInv, OthersOfTick, ClientVars
  <1>1. /\ RowsTyped' /\ Recorded' = Recorded /\ HandlersTyped' /\ SweepTyped'
        /\ LoopTyped' /\ AskingTyped'
    BY SameRows, SameOthers, HeldOnly
    DEF TickUntag, TickFailTag, TickDrop, TickDiscard, TickImport, TickOlds, TickSwap, TickTag,
        TickFree, TickStall, TickFinishTag, TickOld, TickOldGone
  <1>3. ASSUME \/ TickUntag \/ TickFailTag \/ TickDrop \/ TickDiscard \/ TickTag \/ TickFree
               \/ TickStall \/ TickFinishTag
        PROVE  ClientTyped' /\ EpisodeTyped' /\ RunTyped'
    <2>0. Deleted(CurHash) \/ DeleteFails \/ UNCHANGED <<item, source>>
      BY <1>3
      DEF TickUntag, TickFailTag, TickDrop, TickDiscard, TickTag, TickFree, TickStall, TickFinishTag
    <2>1. ClientTyped'
      BY <2>0, DeleteTyped
    <2>2. EpisodeTyped'
      <3>1. /\ NoTag \in Tag /\ Completed \in Tag
            /\ [tag EXCEPT !.state = "failed"] \in Tag
        BY DEF EpisodeTyped, Tag, NoTag, Completed
      <3>2. tag' \in {tag, NoTag, Completed, [tag EXCEPT !.state = "failed"]}
        BY <1>3
        DEF TickUntag, TickFailTag, TickDrop, TickDiscard, TickTag, TickFree, TickStall, TickFinishTag
      <3>3. UNCHANGED <<library, owed>>
        BY <1>3
        DEF TickUntag, TickFailTag, TickDrop, TickDiscard, TickTag, TickFree, TickStall, TickFinishTag
      <3>4. QED
        BY <3>1, <3>2, <3>3 DEF EpisodeTyped
    <2>3. tick.cur \in Grabs
      BY <1>3 DEF TickUntag, TickFailTag, TickDrop, TickDiscard, TickTag, TickFree, TickStall, TickFinishTag,
                  At, RunTyped
    <2>4. (\E pc \in TickPc \ {"oldgo"} : Goto(pc)) \/ tick' = NextRow
      BY <1>3 DEF TickUntag, TickFailTag, TickDrop, TickDiscard, TickTag, TickFree, TickStall, TickFinishTag,
                  TickPc
    <2>5. QED
      BY <1>1, <2>1, <2>2, <2>3, <2>4, RunMoves
  <1>4. ASSUME TickImport PROVE ClientTyped' /\ EpisodeTyped' /\ RunTyped'
    <2>1. tick.cur \in Grabs /\ tick.cur \in Recorded /\ CurHash \in Hashes
      BY <1>4, ConstantsAssumption DEF TickImport, At, RunTyped, RowsTyped, Recorded, CurHash
    <2>2. ClientTyped' /\ EpisodeTyped'
      BY <1>4, <2>1 DEF TickImport, ClientTyped, EpisodeTyped
    <2>3. CASE \E pc \in TickPc \ {"oldgo"} : Goto(pc)
      BY <1>1, <2>1, <2>2, <2>3, RunMoves
    <2>4. CASE \E full, landed \in BOOLEAN, pc \in {"olds", "old"} :
                 tick' = [tick EXCEPT !.pc = pc, !.full = full, !.landed = landed]
      BY ZenonT(40), <1>1, <2>1, <2>2, <2>4 DEF RunTyped, Tick, TickPc
    <2>5. QED
      BY <1>4, <2>3, <2>4 DEF TickImport, TickPc
  <1>5. ASSUME TickOlds PROVE ClientTyped' /\ EpisodeTyped' /\ RunTyped'
    <2>1. InState("imported") \subseteq Recorded /\ InState("imported") \subseteq Grabs
      BY DEF InState, Recorded
    <2>2. RunTyped'
      BY <1>1, <1>5, <2>1 DEF TickOlds, RunTyped, Tick, TickPc, At
    <2>3. QED
      BY <1>5, <2>2, SameOthers DEF TickOlds, OthersOfTick
  <1>6. ASSUME TickSwap PROVE ClientTyped' /\ EpisodeTyped' /\ RunTyped'
    <2>1. tick.cur \in Grabs /\ tick.cur \in Recorded /\ CurHash \in Hashes
      BY <1>6, ConstantsAssumption DEF TickSwap, At, RunTyped, RowsTyped, Recorded, CurHash
    <2>2. ClientTyped' /\ EpisodeTyped'
      BY <1>6, <2>1 DEF TickSwap, ClientTyped, EpisodeTyped
    <2>3. CASE \E pc \in TickPc \ {"oldgo"} : Goto(pc)
      BY <1>1, <2>1, <2>2, <2>3, RunMoves
    <2>4. CASE tick' = [tick EXCEPT !.pc = "old", !.full = FALSE, !.landed = FALSE, !.olds = {}]
      BY <1>1, <2>1, <2>2, <2>4 DEF RunTyped, Tick, TickPc
    <2>5. QED
      BY <1>6, <2>3, <2>4 DEF TickSwap, TickPc
  <1>7. ASSUME NEW g \in Grabs, TickOld(g) PROVE ClientTyped' /\ EpisodeTyped' /\ RunTyped'
    <2>1. ClientTyped'
      BY <1>7, SameOthers DEF TickOld
    <2>2. RunTyped'
      <3> DEFINE rest == [tick EXCEPT !.olds = @ \ {g}, !.flush = @ \cup {g}]
      <3>1. g \in tick.olds /\ tick.pc = "old"
            /\ (tick' = rest \/ tick' = [rest EXCEPT !.pc = "oldgo", !.old = g])
        BY <1>7 DEF TickOld, At
      <3>2. tick' \in Tick
        <4>1. rest \in Tick
          BY <3>1 DEF RunTyped, Tick
        <4> HIDE DEF rest
        <4>2. [rest EXCEPT !.pc = "oldgo", !.old = g] \in Tick
          BY <4>1 DEF Tick, TickPc
        <4>3. QED
          BY <3>1, <4>1, <4>2
      <3>3. /\ tick'.todo = tick.todo /\ tick'.cur = tick.cur
            /\ tick'.olds = tick.olds \ {g} /\ tick'.flush = tick.flush \cup {g}
            /\ (tick'.pc = tick.pc /\ tick'.old = tick.old) \/ (tick'.pc = "oldgo" /\ tick'.old = g)
        BY <3>1 DEF RunTyped, Tick
      <3>4. QED
        BY <1>1, <3>1, <3>2, <3>3 DEF RunTyped
    <2>3. QED
      BY <1>7, <2>1, <2>2, SameOthers DEF TickOld
  <1>8. ASSUME TickOldGone PROVE ClientTyped' /\ EpisodeTyped' /\ RunTyped'
    <2>1. ClientTyped'
      BY <1>8, DeleteTyped DEF TickOldGone
    <2>2. RunTyped'
      BY <1>1, <1>8 DEF TickOldGone, RunTyped, Tick, TickPc, At
    <2>3. QED
      BY <1>8, <2>1, <2>2, SameOthers DEF TickOldGone
  <1>9. QED
    BY <1>1, <1>3, <1>4, <1>5, <1>6, <1>7, <1>8

LEMMA TickTyped ==
  ASSUME TypeInv, NEW by \in {"loop", "force"}, TickStart(by) \/ TickSkipped \/ TickStep
  PROVE  TypeInv'
  <1>1. CASE TickStart(by) \/ TickSkipped \/ TickList \/ TickEnd \/ \E g \in Grabs : TickPick(g)
    BY <1>1, TickStarts
  <1>2. CASE \/ TickRemove \/ TickFail \/ TickAllFailed \/ TickFinish
             \/ \E g \in Grabs : TickFlush(g)
    BY <1>2, TickDecides
  <1>3. CASE TickSeen \/ TickMark \/ TickMode \/ TickFreed
    BY <1>3, TickStamps
  <1>4. CASE \/ TickUntag \/ TickFailTag \/ TickDrop \/ TickDiscard \/ TickImport \/ TickOlds \/ TickSwap
             \/ TickTag \/ TickFree \/ TickStall \/ TickFinishTag \/ TickOldGone
             \/ \E g \in Grabs : TickOld(g)
    BY <1>4, TickWorks
  <1>5. QED
    BY <1>1, <1>2, <1>3, <1>4 DEF TickStep

-------------------------------------------------------------------------------
(* The sweep, the requests and the environment *)

LEMMA NoSweepTyped == NoSweep \in Sweep /\ NoSweep.pc = "idle"
  BY DEF Sweep, NoSweep, NoListing, ItemState

LEMMA SweepingTyped ==
  ASSUME TypeInv, SweepStart \/ SweepStep
  PROVE  TypeInv'
  <1> USE DEF TypeInv, OthersOfSweep, ClientVars
  <1>1. HandlersTyped' /\ EpisodeTyped' /\ UNCHANGED <<tick, req, grace>>
    BY SameOthers
    DEF SweepStart, SweepStep, SweepList, SweepDelete, SweepStamp, SweepEnd, SweepPick
  <1>2. ASSUME SweepStart \/ SweepList \/ SweepDelete \/ \E g \in Grabs : SweepPick(g)
        PROVE  RowsTyped' /\ Recorded' = Recorded
    BY <1>2, SameRows DEF SweepStart, SweepList, SweepDelete, SweepPick
  <1>3. ASSUME SweepStart PROVE ClientTyped' /\ SweepTyped' /\ LoopTyped'
    <2>1. WorkList \subseteq Grabs
      BY DEF WorkList, InState
    <2>2. SweepTyped'
      <3>1. NoSweep \in Sweep
        BY NoSweepTyped
      <3>2. [NoSweep EXCEPT !.pc = "list", !.todo = WorkList] \in Sweep
        BY <2>1, <3>1 DEF Sweep
      <3>3. CASE UNCHANGED sweep
        BY <3>3, SameOthers
      <3>4. CASE sweep' = [NoSweep EXCEPT !.pc = "list", !.todo = WorkList]
        BY <3>2, <3>4 DEF SweepTyped, NoSweep
      <3>5. QED
        BY <1>3, <3>3, <3>4 DEF SweepStart
    <2>3. QED
      BY <1>1, <1>3, <2>2, SameOthers DEF SweepStart, LoopTyped
  <1>4. ASSUME SweepList PROVE ClientTyped' /\ SweepTyped' /\ LoopTyped'
    <2>1. Listing(sweep.todo) \in [Hashes -> ItemState]
      BY ListingTyped DEF SweepTyped, Sweep
    <2>2. SweepTyped'
      <3>1. CASE sweep' = [sweep EXCEPT !.pc = "pick", !.listing = Listing(sweep.todo)]
        BY <2>1, <3>1 DEF SweepTyped, Sweep
      <3>2. CASE sweep' = NoSweep
        BY <3>2, NoSweepTyped DEF SweepTyped
      <3>3. QED
        BY <1>4, <3>1, <3>2 DEF SweepList
    <2>3. QED
      BY <1>1, <1>4, <2>2, SameOthers DEF SweepList, LoopTyped
  <1>5. ASSUME NEW g \in Grabs, SweepPick(g) PROVE ClientTyped' /\ SweepTyped' /\ LoopTyped'
    <2>1. Unlisted(sweep.listing, g) \in [Hashes -> ItemState]
      BY UnlistedTyped DEF SweepTyped, Sweep
    <2>2. SweepTyped'
      BY <1>5, <2>1 DEF SweepPick, SweepTyped, Sweep
    <2>3. QED
      BY <1>1, <1>5, <2>2, SameOthers DEF SweepPick
  <1>6. ASSUME SweepDelete PROVE ClientTyped' /\ SweepTyped' /\ LoopTyped'
    <2>1. Deleted(grabs[sweep.cur].hash) \/ DeleteFails
      BY <1>6 DEF SweepDelete
    <2>2. ClientTyped'
      BY <2>1, DeleteTyped
    <2>3. SweepTyped'
      BY <1>6 DEF SweepDelete, SweepTyped, Sweep, NextSwept
    <2>4. QED
      BY <1>1, <1>6, <2>2, <2>3, SameOthers DEF SweepDelete
  <1>7. ASSUME SweepStamp
        PROVE  RowsTyped' /\ Recorded' = Recorded /\ ClientTyped' /\ SweepTyped' /\ LoopTyped'
    <2>1. sweep.cur \in Grabs /\ grabs[sweep.cur] \in Row
      BY <1>7 DEF SweepStamp, SweepTyped, RowsTyped
    <2> DEFINE new == [grabs[sweep.cur] EXCEPT !.gone = TRUE]
    <2>2. /\ new \in Row /\ new.hash = grabs[sweep.cur].hash
          /\ new.state = grabs[sweep.cur].state
      BY <2>1 DEF Row
    <2>3. grabs' = [grabs EXCEPT ![sweep.cur] = new]
      BY <1>7 DEF SweepStamp
    <2> HIDE DEF new
    <2>4. RowsTyped' /\ Recorded' = Recorded
      BY <2>1, <2>2, <2>3, StampTyped
    <2>5. SweepTyped'
      BY <1>7 DEF SweepStamp, SweepTyped, Sweep, NextSwept
    <2>6. QED
      BY <1>1, <1>7, <2>4, <2>5, SameOthers DEF SweepStamp
  <1>8. ASSUME SweepEnd
        PROVE  RowsTyped' /\ Recorded' = Recorded /\ ClientTyped' /\ SweepTyped' /\ LoopTyped'
    <2>1. \A row \in Row : [row EXCEPT !.gone = TRUE] \in Row
      BY RowUpdates
    <2>2. grabs' \in [Grabs -> Row]
      BY <1>8, <2>1 DEF SweepEnd, RowsTyped
    <2>3. \A g \in Grabs : /\ grabs'[g].hash = grabs[g].hash
                           /\ grabs'[g].state # "none" <=> grabs[g].state # "none"
      BY <1>8 DEF SweepEnd, RowsTyped, Row
    <2>4. RowsTyped' /\ Recorded' = Recorded
      BY <2>2, <2>3, RowsWrite
    <2>5. SweepTyped'
      BY <1>8, NoSweepTyped DEF SweepEnd, SweepTyped
    <2>6. QED
      BY <1>1, <1>8, <2>4, <2>5, SameOthers DEF SweepEnd, LoopTyped
  <1>9. QED
    BY <1>1, <1>2, <1>3, <1>4, <1>5, <1>6, <1>7, <1>8, HeldOnly DEF SweepStep

\* The records a request moves through.
RequestHolds(q) ==
  /\ q \in Request
  /\ q.pc \in {"delete", "mark"} => q.cur \in Grabs
  /\ q.found \cup q.stuck \subseteq Recorded
  /\ q.cur \in Recorded \cup {NoGrab}

LEMMA RequestMoves ==
  ASSUME AskingTyped, NEW r \in Requests, NEW q, req' = [req EXCEPT ![r] = q],
         Recorded \subseteq Recorded', RequestHolds(q)
  PROVE  AskingTyped'
  BY DEF AskingTyped, RequestHolds

LEMMA NoRequestHolds == RequestHolds(NoRequest) /\ RequestHolds(EndedRequest)
  BY DEF RequestHolds, NoRequest, EndedRequest, Request, RequestPc

LEMMA RequestUpdates ==
  ASSUME AskingTyped, NEW r \in Requests
  PROVE  /\ RequestHolds(req[r])
         /\ \A pc \in RequestPc \ {"delete", "mark"} : RequestHolds([req[r] EXCEPT !.pc = pc])
  BY DEF AskingTyped, RequestHolds, Request

LEMMA NoTagTyped == NoTag \in Tag
  BY DEF Tag, NoTag

LEMMA CancelTyped ==
  ASSUME TypeInv, NEW r \in Requests,
         CancelStart(r) \/ CancelDrift(r) \/ CancelStuck(r) \/ CancelRecheck(r) \/ CancelClear(r)
  PROVE  TypeInv'
  <1> USE DEF TypeInv, OthersOfRequest, ClientVars
  <1>1. /\ RowsTyped' /\ Recorded' = Recorded /\ HandlersTyped' /\ ClientTyped' /\ RunTyped'
        /\ LoopTyped' /\ SweepTyped'
    BY SameRows, SameOthers, HeldOnly
    DEF CancelStart, CancelDrift, CancelStuck, CancelRecheck, CancelClear
  <1>2. EpisodeTyped'
    <2>1. tag' \in {tag, NoTag} /\ UNCHANGED <<library, owed>>
      BY DEF CancelStart, CancelDrift, CancelStuck, CancelRecheck, CancelClear
    <2>2. QED
      BY <2>1, NoTagTyped DEF EpisodeTyped
  <1>3. \A s : InState(s) \subseteq Grabs
    BY DEF InState
  <1>4. InState("pending") \subseteq Recorded /\ InState("imported") \subseteq Recorded
    BY DEF InState, Recorded
  <1>5. req[r] \in Request /\ req \in [Requests -> Request] /\ RequestHolds(req[r])
    BY RequestUpdates DEF AskingTyped
  <1>6. ASSUME CancelStart(r) PROVE AskingTyped'
    <2> DEFINE q == [NoRequest EXCEPT !.pc = "drift", !.op = "cancel", !.found = InState("pending")]
    <2>1. RequestHolds(q)
      BY <1>3, <1>4, <1>6 DEF CancelStart, RequestHolds, NoRequest, Request, RequestPc
    <2>2. req' = [req EXCEPT ![r] = q]
      BY <1>6 DEF CancelStart
    <2> HIDE DEF q
    <2>3. QED
      BY <1>1, <2>1, <2>2, RequestMoves
  <1>7. ASSUME CancelDrift(r) PROVE AskingTyped'
    <2>1. \E q : RequestHolds(q) /\ req' = [req EXCEPT ![r] = q]
      <3>1. \A pc \in {"stuck", "each"} : RequestHolds([req[r] EXCEPT !.pc = pc])
        BY RequestUpdates DEF RequestPc
      <3>2. \/ \E pc \in {"stuck", "each"} : req' = [req EXCEPT ![r] = [req[r] EXCEPT !.pc = pc]]
            \/ req' = [req EXCEPT ![r] = EndedRequest]
        BY <1>5, <1>7 DEF CancelDrift
      <3>3. QED
        BY <3>1, <3>2, NoRequestHolds
    <2>2. QED
      BY <1>1, <2>1, RequestMoves
  <1>8. ASSUME CancelStuck(r) PROVE AskingTyped'
    <2> DEFINE q == [req[r] EXCEPT !.stuck = InState("imported"), !.pc = "recheck"]
    <2>1. RequestHolds(q)
      BY <1>3, <1>4, <1>5 DEF RequestHolds, Request, RequestPc
    <2>2. req' = [req EXCEPT ![r] = q]
      BY <1>5, <1>8 DEF CancelStuck
    <2> HIDE DEF q
    <2>3. QED
      BY <1>1, <2>1, <2>2, RequestMoves
  <1>9. ASSUME CancelRecheck(r) PROVE AskingTyped'
    <2> DEFINE q == [req[r] EXCEPT !.pc = "each", !.stuck = {},
                       !.found = IF tag.state = "grabbed" THEN @ \cup req[r].stuck ELSE @]
    <2>1. RequestHolds(q)
      BY <1>5 DEF RequestHolds, Request, RequestPc
    <2>2. req' = [req EXCEPT ![r] = q]
      BY <1>5, <1>9 DEF CancelRecheck
    <2> HIDE DEF q
    <2>3. QED
      BY <1>1, <2>1, <2>2, RequestMoves
  <1>10. ASSUME CancelClear(r) PROVE AskingTyped'
    BY <1>1, <1>10, NoRequestHolds, RequestMoves DEF CancelClear
  <1>11. QED
    BY <1>1, <1>2, <1>6, <1>7, <1>8, <1>9, <1>10

\* The steps of a delete and of a failed mark that only write the file, the
\* tag and the table.
LEMMA DeleteFailTyped ==
  ASSUME TypeInv, NEW r \in Requests,
         DeleteStart(r) \/ DeleteUntag(r) \/ FailByName(r) \/ \E h \in Hashes : FailStart(r, h)
  PROVE  TypeInv'
  <1> USE DEF TypeInv, OthersOfRequest, ClientVars
  <1>1. /\ HandlersTyped' /\ ClientTyped' /\ LoopTyped' /\ SweepTyped' /\ UNCHANGED tick
    BY SameOthers DEF DeleteStart, DeleteUntag, FailByName, FailStart
  <1>2. RowsTyped' /\ Recorded' = Recorded
    <2>1. CASE UNCHANGED grabs
      BY <2>1, SameRows
    <2>2. CASE FailByName(r)
      <3>1. \A row \in Row : [row EXCEPT !.state = "failed"] \in Row
        BY RowUpdates DEF States
      <3>2. grabs' \in [Grabs -> Row]
        BY <2>2, <3>1 DEF FailByName, RowsTyped
      <3>3. \A g \in LiveGrabs : grabs[g].state # "none"
        BY DEF LiveGrabs, InState
      <3>4. \A g \in Grabs : /\ grabs'[g].hash = grabs[g].hash
                             /\ grabs'[g].state # "none" <=> grabs[g].state # "none"
        BY <2>2, <3>3 DEF FailByName, RowsTyped, Row
      <3>5. QED
        BY <3>2, <3>4, RowsWrite
    <2>3. QED
      BY <2>1, <2>2 DEF DeleteStart, DeleteUntag, FailStart
  <1>3. EpisodeTyped'
    <2>1. [tag EXCEPT !.state = "failed"] \in Tag
      BY DEF EpisodeTyped, Tag
    <2>2. /\ tag' \in {tag, NoTag, [tag EXCEPT !.state = "failed"]}
          /\ library' \in {library, NoHash} /\ UNCHANGED owed
      BY DEF DeleteStart, DeleteUntag, FailByName, FailStart
    <2>3. QED
      BY <2>1, <2>2, NoTagTyped DEF EpisodeTyped
  <1>4. AskingTyped'
    <2>1. ASSUME DeleteStart(r) PROVE AskingTyped'
      <3>1. RequestHolds([NoRequest EXCEPT !.pc = "untag", !.op = "delete"])
        BY <2>1 DEF DeleteStart, RequestHolds, NoRequest, Request, RequestPc
      <3>2. QED
        BY <1>2, <2>1, <3>1, RequestMoves DEF DeleteStart
    <2>2. ASSUME DeleteUntag(r) PROVE AskingTyped'
      <3>1. RequestHolds([req[r] EXCEPT !.pc = "find"])
        BY RequestUpdates DEF RequestPc
      <3>2. req' = [req EXCEPT ![r] = [req[r] EXCEPT !.pc = "find"]]
        BY <2>2 DEF DeleteUntag, AskingTyped
      <3>3. QED
        BY <1>2, <3>1, <3>2, RequestMoves
    <2>3. ASSUME NEW h \in Hashes, FailStart(r, h) PROVE AskingTyped'
      <3>1. /\ RequestHolds([NoRequest EXCEPT !.pc = "byname", !.op = "fail", !.hash = h])
            /\ RequestHolds([NoRequest EXCEPT !.pc = "find", !.op = "fail"])
        BY <2>3 DEF FailStart, RequestHolds, NoRequest, Request, RequestPc
      <3>2. QED
        BY <1>2, <2>3, <3>1, RequestMoves DEF FailStart
    <2>4. ASSUME FailByName(r) PROVE AskingTyped'
      <3>0. RequestHolds(req[r])
        BY RequestUpdates
      <3>1. RequestHolds([req[r] EXCEPT !.pc = "find", !.hash = NoHash])
        BY <3>0 DEF RequestHolds, Request, RequestPc
      <3>2. req' = [req EXCEPT ![r] = [req[r] EXCEPT !.pc = "find", !.hash = NoHash]]
        BY <2>4 DEF FailByName, AskingTyped
      <3>3. QED
        BY <1>2, <3>1, <3>2, RequestMoves
    <2>5. QED
      BY <2>1, <2>2, <2>3, <2>4
  <1>5. QED
    BY <1>1, <1>2, <1>3, <1>4, HeldOnly

\* The steps over the rows a request found.
LEMMA RequestRowsTyped ==
  ASSUME TypeInv, NEW r \in Requests,
         \/ RequestFind(r) \/ RequestDelete(r) \/ RequestMark(r) \/ RequestEnd(r)
         \/ \E g \in Grabs : RequestEach(r, g)
  PROVE  TypeInv'
  <1> USE DEF TypeInv, OthersOfRequest, ClientVars
  <1>1. HandlersTyped' /\ EpisodeTyped' /\ LoopTyped' /\ SweepTyped' /\ UNCHANGED tick
    BY SameOthers DEF RequestFind, RequestDelete, RequestMark, RequestEnd, RequestEach
  <1>2. req[r] \in Request /\ req \in [Requests -> Request] /\ RequestHolds(req[r])
    BY RequestUpdates DEF AskingTyped
  <1>3. ASSUME RequestFind(r) \/ RequestDelete(r) \/ RequestEnd(r) \/ \E g \in Grabs : RequestEach(r, g)
        PROVE  RowsTyped' /\ Recorded' = Recorded
    BY <1>3, SameRows DEF RequestFind, RequestDelete, RequestEnd, RequestEach
  <1>4. ASSUME RequestFind(r) PROVE ClientTyped' /\ AskingTyped'
    <2>1. InState("imported") \subseteq Grabs /\ InState("imported") \subseteq Recorded
      BY DEF InState, Recorded
    <2> DEFINE q == [req[r] EXCEPT !.pc = "each", !.found = InState("imported")]
    <2>2. RequestHolds(q)
      BY <1>2, <2>1 DEF RequestHolds, Request, RequestPc
    <2>3. req' = [req EXCEPT ![r] = q]
      BY <1>2, <1>4 DEF RequestFind
    <2> HIDE DEF q
    <2>4. QED
      BY <1>3, <1>4, <2>2, <2>3, RequestMoves, SameOthers DEF RequestFind
  <1>5. ASSUME RequestEnd(r) PROVE ClientTyped' /\ AskingTyped'
    <2>1. RequestHolds([req[r] EXCEPT !.pc = "cleartags"])
      BY RequestUpdates DEF RequestPc
    <2>2. \E q : RequestHolds(q) /\ req' = [req EXCEPT ![r] = q]
      BY <1>2, <1>5, <2>1, NoRequestHolds DEF RequestEnd
    <2>3. QED
      BY <1>3, <1>5, <2>2, RequestMoves, SameOthers DEF RequestEnd
  <1>6. ASSUME RequestMark(r)
        PROVE  RowsTyped' /\ Recorded' = Recorded /\ ClientTyped' /\ AskingTyped'
    <2>1. req[r].cur \in Recorded
      BY <1>6, ConstantsAssumption DEF RequestMark, RequestAt, AskingTyped
    <2>2. RowsTyped' /\ Recorded' = Recorded
      BY <1>6, <2>1, SetStateTyped DEF RequestMark, States
    <2>3. RequestHolds([req[r] EXCEPT !.pc = "each", !.cur = NoGrab])
      BY <1>2 DEF RequestHolds, Request, RequestPc
    <2>4. req' = [req EXCEPT ![r] = [req[r] EXCEPT !.pc = "each", !.cur = NoGrab]]
      BY <1>2, <1>6 DEF RequestMark
    <2>5. QED
      BY <1>6, <2>2, <2>3, <2>4, RequestMoves, SameOthers DEF RequestMark
  <1>7. ASSUME NEW g \in Grabs, RequestEach(r, g) PROVE ClientTyped' /\ AskingTyped'
    <2>1. g \in req[r].found
      BY <1>7 DEF RequestEach
    <2>2. PICK fate \in {"each", "delete", "mark"} :
            req' = [req EXCEPT ![r] = [req[r] EXCEPT !.found = @ \ {g}, !.pc = fate,
                                         !.cur = IF fate = "each" THEN NoGrab ELSE g]]
      BY ZenonT(40), <1>7, <1>2 DEF RequestEach, Fate
    <2> DEFINE q == [req[r] EXCEPT !.found = @ \ {g}, !.pc = fate,
                                   !.cur = IF fate = "each" THEN NoGrab ELSE g]
    <2>3. RequestHolds(q)
      BY <1>2, <2>1, <2>2 DEF RequestHolds, Request, RequestPc
    <2> HIDE DEF q
    <2>4. QED
      BY <1>3, <1>7, <2>2, <2>3, RequestMoves, SameOthers DEF RequestEach, q
  <1>8. ASSUME RequestDelete(r) PROVE ClientTyped' /\ AskingTyped'
    <2>1. ClientTyped'
      BY <1>8 DEF RequestDelete, ClientTyped, Deleted, ItemState
    <2>2. /\ RequestHolds([req[r] EXCEPT !.pc = "each", !.cur = NoGrab])
          /\ RequestHolds([req[r] EXCEPT !.pc = "mark"])
      BY <1>2, <1>8 DEF RequestHolds, Request, RequestPc, RequestDelete, RequestAt
    <2>3. \/ req' = [req EXCEPT ![r] = [req[r] EXCEPT !.pc = "each", !.cur = NoGrab]]
          \/ req' = [req EXCEPT ![r] = [req[r] EXCEPT !.pc = "mark"]]
      BY <1>2, <1>8 DEF RequestDelete
    <2>4. QED
      BY <1>3, <1>8, <2>1, <2>2, <2>3, RequestMoves
  <1>9. QED
    BY <1>1, <1>3, <1>4, <1>5, <1>6, <1>7, <1>8, HeldOnly

LEMMA EnvironmentTyped ==
  ASSUME TypeInv, Environment
  PROVE  TypeInv'
  <1> USE DEF TypeInv, Rest, ClientVars
  <1>1. ASSUME SweepDue \/ GraceEnds PROVE TypeInv'
    BY <1>1, SameRows, SameOthers, HeldOnly DEF SweepDue, GraceEnds, LoopTyped
  <1>2. ASSUME NEW h \in Hashes, Download(h) \/ SeedingDone(h) \/ ClientError(h) \/ RemovedOutside(h)
        PROVE  TypeInv'
    <2>1. ClientTyped'
      BY <1>2 DEF Download, SeedingDone, ClientError, RemovedOutside, ClientTyped, ItemState
    <2>2. QED
      BY <1>2, <2>1, SameRows, SameOthers, HeldOnly
      DEF Download, SeedingDone, ClientError, RemovedOutside
  <1>3. ASSUME NEW g \in Grabs, Ages(g) PROVE TypeInv'
    <2>1. grabs[g] \in Row
      BY DEF RowsTyped
    <2>2. \E row \in Row : /\ row.hash = grabs[g].hash /\ row.state = grabs[g].state
                           /\ grabs' = [grabs EXCEPT ![g] = row]
      <3> DEFINE aged == [grabs[g] EXCEPT !.aged = TRUE]
      <3> DEFINE stalled == [grabs[g] EXCEPT !.seen = "stalled"]
      <3>1. /\ aged \in Row /\ aged.hash = grabs[g].hash /\ aged.state = grabs[g].state
            /\ stalled \in Row /\ stalled.hash = grabs[g].hash /\ stalled.state = grabs[g].state
        BY <2>1 DEF Row
      <3>2. grabs' = [grabs EXCEPT ![g] = aged] \/ grabs' = [grabs EXCEPT ![g] = stalled]
        BY <1>3 DEF Ages
      <3> HIDE DEF aged, stalled
      <3>3. QED
        BY <3>1, <3>2
    <2>3. RowsTyped' /\ Recorded' = Recorded
      BY <2>2, StampTyped
    <2>4. QED
      BY <1>3, <2>3, SameOthers, HeldOnly DEF Ages
  <1>4. ASSUME Restart PROVE TypeInv'
    <2>1. RowsTyped' /\ Recorded' = Recorded /\ ClientTyped' /\ EpisodeTyped'
      BY <1>4, SameRows, SameOthers DEF Restart
    <2>2. RunTyped'
      BY <1>4, <2>1, RunMoves DEF Restart
    <2>3. LoopTyped' /\ SweepTyped'
      BY <1>4, NoSweepTyped DEF Restart, LoopTyped, SweepTyped
    <2>4. HandlersTyped'
      BY <1>4 DEF Restart, HandlersTyped, Handler
    <2>5. AskingTyped'
      <3>1. \A r \in Requests : RequestHolds(req[r]) /\ RequestHolds(EndedRequest)
        BY NoRequestHolds, RequestUpdates
      <3>2. \A r \in Requests : req'[r] \in {req[r], EndedRequest}
        BY <1>4 DEF Restart
      <3>3. req' \in [Requests -> Request]
        BY <1>4, <3>1 DEF Restart, RequestHolds
      <3>4. QED
        BY <2>1, <3>1, <3>2, <3>3 DEF AskingTyped, RequestHolds
    <2>6. QED
      BY <2>1, <2>2, <2>3, <2>4, <2>5
  <1>5. QED
    BY <1>1, <1>2, <1>3, <1>4 DEF Environment

LEMMA TypeNext == TypeInv /\ [Next]_vars => TypeInv'
  <1> SUFFICES ASSUME TypeInv, [Next]_vars PROVE TypeInv'
    OBVIOUS
  <1>1. CASE \E g \in Grabs : Handling(g) \/ \E h \in Hashes : GrabAdd(g, h)
    <2>1. ASSUME NEW g \in Grabs, Handling(g) PROVE TypeInv'
      <3>1. handler[g].hash \in Hashes
        BY <2>1 DEF Handling, RecordInsert, RecordReactivate, StampRules, TagGrabbed, TypeInv, HandlersTyped
      <3>2. QED
        BY <2>1, <3>1, HandlingTyped
    <2>2. QED
      BY <1>1, <2>1, HandlingTyped
  <1>2. CASE Loop \/ TickStart("force") \/ TickStep
    BY <1>2, TickTyped, SweepingTyped DEF Loop
  <1>3. CASE SweepStep
    BY <1>3, SweepingTyped
  <1>4. CASE \E r \in Requests : RequestStep(r)
    BY <1>4, CancelTyped, DeleteFailTyped, RequestRowsTyped DEF RequestStep
  <1>5. CASE Environment
    BY <1>5, EnvironmentTyped
  <1>6. CASE UNCHANGED vars
    BY <1>6, SameRows, SameOthers, HeldOnly DEF TypeInv, vars
  <1>7. QED
    BY <1>1, <1>2, <1>3, <1>4, <1>5, <1>6 DEF Next

THEOREM TypeInvariant == Spec => []TypeInv
  BY TypeInit, TypeNext, PTL DEF Spec

\* The table, the client, the run, the sweep and every request are well-formed,
\* and a row names a release as soon as it is recorded.
THEOREM TypeCorrect == Spec => []TypeOK
  BY TypeInvariant, TypeInvImplies, PTL

-------------------------------------------------------------------------------
(* What each actor leaves alone *)

LEMMA GrabApart ==
  ASSUME NEW g \in Grabs, Handling(g) \/ \E h \in Hashes : GrabAdd(g, h)
  PROVE  UNCHANGED <<source, library, owed, tick, loop, due, sweep, req, grace>>
  BY DEF Handling, RecordInsert, RecordReactivate, StampRules, TagGrabbed, GrabAdd

LEMMA RunApart ==
  ASSUME TickStep \/ (\E by \in {"loop", "force"} : TickStart(by)) \/ TickSkipped
  PROVE  UNCHANGED <<handler, due, sweep, req, grace>>
  BY DEF TickStep, TickStart, TickSkipped, TickList, TickEnd, TickPick, TickRemove, TickUntag,
         TickFail, TickFailTag, TickDrop, TickDiscard, TickSeen, TickImport, TickOlds, TickSwap,
         TickOld, TickOldGone, TickTag, TickMark, TickFlush, TickMode, TickFree, TickFreed,
         TickStall, TickAllFailed, TickFinish, TickFinishTag, OthersOfTick

LEMMA SweepApart ==
  ASSUME SweepStart \/ SweepStep
  PROVE  UNCHANGED <<handler, library, owed, tag, tick, req, grace>>
  BY DEF SweepStart, SweepStep, SweepList, SweepPick, SweepDelete, SweepStamp, SweepEnd,
         OthersOfSweep

LEMMA RequestApart ==
  ASSUME NEW r \in Requests, RequestStep(r)
  PROVE  UNCHANGED <<handler, owed, tick, loop, due, sweep, grace>>
  <1>1. CASE CancelStart(r) \/ CancelDrift(r) \/ CancelStuck(r) \/ CancelRecheck(r) \/ CancelClear(r)
    BY <1>1
    DEF CancelStart, CancelDrift, CancelStuck, CancelRecheck, CancelClear, OthersOfRequest
  <1>2. CASE DeleteStart(r) \/ DeleteUntag(r) \/ FailByName(r) \/ \E h \in Hashes : FailStart(r, h)
    BY <1>2 DEF DeleteStart, DeleteUntag, FailByName, FailStart, OthersOfRequest
  <1>3. CASE \/ RequestFind(r) \/ RequestDelete(r) \/ RequestMark(r) \/ RequestEnd(r)
             \/ \E g \in Grabs : RequestEach(r, g)
    BY <1>3 DEF RequestFind, RequestDelete, RequestMark, RequestEnd, RequestEach, OthersOfRequest
  <1>4. QED
    BY <1>1, <1>2, <1>3 DEF RequestStep

LEMMA WorldApart ==
  ASSUME Environment \/ UNCHANGED vars
  PROVE  /\ UNCHANGED <<library, owed>>
         /\ Restart \/ UNCHANGED <<handler, tick, loop, sweep>>
         /\ Restart => tick' = NoTick /\ sweep' = NoSweep
  BY DEF Environment, SweepDue, GraceEnds, Restart, Download, SeedingDone, ClientError,
         RemovedOutside, Ages, Rest, vars

-------------------------------------------------------------------------------
(* The ledger of live and closed rows *)

ClosedGrabs == InState("failed") \cup InState("removed") \cup InState("replaced")

\* What the unique index promises: no two live rows name one release.
OneLiveRow ==
  \A g, o \in LiveGrabs : grabs[g].hash = grabs[o].hash => g = o

\* A grab has no row before its insert, and an import never finishes a row
\* the way the run with post-processing off does.
UnrecordedYet == \A g \in Grabs : handler[g].pc \in {"idle", "added"} => grabs[g].state = "none"
ImportsOnly == PostProcessing => tick.pc \notin {"finish", "finishtag"}

LedgerInv == TypeInv /\ OneLiveRow /\ UnrecordedYet /\ ImportsOnly

\* A row keeps its place in the ledger, or is closed in this step.
Stays(g) ==
  /\ grabs'[g].hash = grabs[g].hash
  /\ (g \in LiveGrabs)' <=> g \in LiveGrabs
  /\ (g \in ClosedGrabs)' <=> g \in ClosedGrabs

Closes(g) ==
  /\ g \in Recorded /\ (g \in ClosedGrabs)' /\ (g \notin LiveGrabs)'
  /\ grabs'[g].hash = grabs[g].hash

Kept == \A g \in Grabs : Stays(g)
ClosesOne == \E g \in Grabs : Closes(g) /\ \A o \in Grabs \ {g} : Stays(o)

\* A row appears, of a release no live row names.
Opens(g) ==
  /\ g \notin Recorded /\ (g \in LiveGrabs)' /\ (g \notin ClosedGrabs)'
  /\ grabs'[g].hash \in Hashes /\ handler[g].pc = "added" /\ handler'[g].pc = "recorded"
  /\ \A o \in LiveGrabs : grabs[o].hash # grabs'[g].hash

OpensOne == \E g \in Grabs : Opens(g) /\ \A o \in Grabs \ {g} : Stays(o)

\* With post-processing off, a recorded row is written imported, whatever its
\* state, unless another live row has its release.
Finishes(g) ==
  /\ tick.pc = "finish" /\ g \in Recorded
  /\ (g \in LiveGrabs)' /\ grabs'[g].hash = grabs[g].hash
  /\ \A o \in LiveGrabs \ {g} : grabs[o].hash # grabs[g].hash

FinishesOne == \E g \in Grabs : Finishes(g) /\ \A o \in Grabs \ {g} : Stays(o)

-------------------------------------------------------------------------------
(* Every step is of one of a few kinds. *)

LEMMA Standing ==
  ASSUME RowsTyped
  PROVE  /\ LiveGrabs \subseteq Grabs /\ ClosedGrabs \subseteq Grabs
         /\ LiveGrabs \cap ClosedGrabs = {}
         /\ LiveGrabs \cup ClosedGrabs = Recorded
  BY DEF RowsTyped, Row, LiveGrabs, ClosedGrabs, InState, Recorded

LEMMA StayByState ==
  ASSUME \A g \in Grabs : grabs'[g].state = grabs[g].state /\ grabs'[g].hash = grabs[g].hash
  PROVE  Kept
  BY DEF Kept, Stays, LiveGrabs, ClosedGrabs, InState

LEMMA CloseOne ==
  ASSUME RowsTyped, NEW g \in Recorded, NEW s \in {"failed", "removed", "replaced"}, SetState(g, s)
  PROVE  ClosesOne
  <1>1. g \in Grabs
    BY DEF Recorded
  <1>2. \A o \in Grabs \ {g} : grabs'[o] = grabs[o]
    BY DEF SetState, RowsTyped
  <1>3. grabs'[g].state = s /\ grabs'[g].hash = grabs[g].hash
    BY <1>1 DEF SetState, RowsTyped, Row
  <1>4. Closes(g)
    BY <1>1, <1>3 DEF Closes, LiveGrabs, ClosedGrabs, InState
  <1>5. \A o \in Grabs \ {g} : Stays(o)
    BY <1>2 DEF Stays, LiveGrabs, ClosedGrabs, InState
  <1>6. QED
    BY <1>1, <1>4, <1>5 DEF ClosesOne

\* A stamp leaves the state and the release of its row alone.
LEMMA RowStamps ==
  ASSUME NEW row \in Row, NEW v
  PROVE  /\ [row EXCEPT !.mode = v].state = row.state /\ [row EXCEPT !.mode = v].hash = row.hash
         /\ [row EXCEPT !.gone = v].state = row.state /\ [row EXCEPT !.gone = v].hash = row.hash
         /\ [row EXCEPT !.aged = v].state = row.state /\ [row EXCEPT !.aged = v].hash = row.hash
         /\ [row EXCEPT !.seen = v].state = row.state /\ [row EXCEPT !.seen = v].hash = row.hash
         /\ [row EXCEPT !.ruled = v].state = row.state /\ [row EXCEPT !.ruled = v].hash = row.hash
  BY DEF Row

LEMMA StampOne ==
  ASSUME RowsTyped, NEW g \in Grabs, NEW row, grabs' = [grabs EXCEPT ![g] = row],
         row.state = grabs[g].state, row.hash = grabs[g].hash
  PROVE  Kept
  <1>1. \A o \in Grabs : grabs'[o].state = grabs[o].state /\ grabs'[o].hash = grabs[o].hash
    BY DEF RowsTyped
  <1>2. QED
    BY <1>1, StayByState

LEMMA TickKinds ==
  ASSUME TypeInv, NEW by \in {"loop", "force"}, TickStart(by) \/ TickSkipped \/ TickStep
  PROVE  Kept \/ ClosesOne \/ TickFinish
  <1> USE DEF TypeInv
  <1>1. CASE UNCHANGED grabs
    BY <1>1, StayByState
  <1>2. CASE TickRemove \/ TickFail \/ TickAllFailed
    <2>1. tick.cur \in Recorded
      BY <1>2, ConstantsAssumption DEF TickRemove, TickFail, TickAllFailed, At, RunTyped
    <2>2. \E s \in {"failed", "removed", "replaced"} : SetState(tick.cur, s)
      BY <1>2 DEF TickRemove, TickFail, TickAllFailed
    <2>3. QED
      BY <2>1, <2>2, CloseOne
  <1>3. CASE \E g \in Grabs : TickFlush(g)
    <2>1. \E g \in Recorded : SetState(g, "replaced")
      BY <1>3 DEF TickFlush, RunTyped
    <2>2. QED
      BY <2>1, CloseOne
  <1>4. CASE TickSeen \/ TickMode \/ TickFreed
    <2>1. tick.cur \in Grabs
      BY <1>4 DEF TickSeen, TickMode, TickFreed, At, RunTyped
    <2>2. grabs[tick.cur] \in Row
      BY <2>1 DEF RowsTyped
    <2> DEFINE row == grabs[tick.cur]
    <2>3. \E v : \/ grabs' = [grabs EXCEPT ![tick.cur] = [row EXCEPT !.seen = v]]
                \/ grabs' = [grabs EXCEPT ![tick.cur] = [row EXCEPT !.mode = v]]
                \/ grabs' = [grabs EXCEPT ![tick.cur] = [row EXCEPT !.gone = v]]
      BY <1>4 DEF TickSeen, TickMode, TickFreed
    <2>4. QED
      BY <2>1, <2>2, <2>3, RowStamps, StampOne
  <1>5. CASE TickMark
    <2>1. tick.cur \in Grabs
      BY <1>5 DEF TickMark, At, RunTyped
    <2>2. \A g \in Grabs :
            /\ grabs'[g].hash = grabs[g].hash
            /\ \/ grabs'[g].state = grabs[g].state
               \/ grabs[g].state = "pending" /\ grabs'[g].state = "imported"
      BY ZenonT(40), <1>5, <2>1 DEF TickMark, MarkImported, RowsTyped, Row
    <2>3. QED
      BY <2>2 DEF Kept, Stays, LiveGrabs, ClosedGrabs, InState
  <1>6. QED
    BY <1>1, <1>2, <1>3, <1>4, <1>5
    DEF TickStep, TickStart, TickSkipped, TickList, TickEnd, TickPick, TickUntag, TickFailTag,
        TickDrop, TickDiscard, TickImport, TickOlds, TickSwap, TickOld, TickOldGone, TickTag,
        TickFree, TickStall, TickFinishTag

LEMMA OtherKinds ==
  ASSUME TypeInv,
         \/ SweepStart \/ SweepStep \/ Environment \/ UNCHANGED vars
         \/ \E r \in Requests : RequestStep(r) /\ ~FailByName(r)
         \/ \E g \in Grabs : \/ RecordReactivate(g) \/ StampRules(g) \/ TagGrabbed(g)
                            \/ \E h \in Hashes : GrabAdd(g, h)
  PROVE  Kept \/ ClosesOne
  <1> USE DEF TypeInv
  <1>1. CASE UNCHANGED grabs
    BY <1>1, StayByState
  <1>2. CASE SweepStamp \/ SweepEnd
    <2>1. CASE SweepStamp
      <3>1. sweep.cur \in Grabs /\ grabs[sweep.cur] \in Row
        BY <2>1 DEF SweepStamp, SweepTyped, RowsTyped
      <3>2. grabs' = [grabs EXCEPT ![sweep.cur] = [grabs[sweep.cur] EXCEPT !.gone = TRUE]]
        BY <2>1 DEF SweepStamp
      <3>3. QED
        BY <3>1, <3>2, RowStamps, StampOne
    <2>2. CASE SweepEnd
      <3>1. ASSUME NEW g \in Grabs
            PROVE  grabs'[g].state = grabs[g].state /\ grabs'[g].hash = grabs[g].hash
        <4>1. grabs[g] \in Row
          BY DEF RowsTyped
        <4> DEFINE stamped == [grabs[g] EXCEPT !.gone = TRUE]
        <4>2. stamped.state = grabs[g].state /\ stamped.hash = grabs[g].hash
          BY <4>1, RowStamps
        <4>3. grabs'[g] = grabs[g] \/ grabs'[g] = stamped
          BY <2>2 DEF SweepEnd
        <4> HIDE DEF stamped
        <4>4. QED
          BY <4>2, <4>3
      <3>2. QED
        BY <3>1, StayByState
    <2>3. QED
      BY <1>2, <2>1, <2>2
  <1>3. CASE \E g \in Grabs : Ages(g)
    <2>1. PICK g \in Grabs : Ages(g)
      BY <1>3
    <2>2. grabs[g] \in Row
      BY DEF RowsTyped
    <2>3. \/ grabs' = [grabs EXCEPT ![g] = [grabs[g] EXCEPT !.aged = TRUE]]
          \/ grabs' = [grabs EXCEPT ![g] = [grabs[g] EXCEPT !.seen = "stalled"]]
      BY <2>1 DEF Ages
    <2>4. QED
      BY <2>2, <2>3, RowStamps, StampOne
  <1>4. CASE \E r \in Requests : RequestMark(r)
    <2>1. \E g \in Recorded : SetState(g, "removed")
      BY <1>4, ConstantsAssumption DEF RequestMark, RequestAt, AskingTyped
    <2>2. QED
      BY <2>1, CloseOne
  <1>5. CASE \E g \in Grabs : RecordReactivate(g)
    <2>1. PICK acting \in Grabs : RecordReactivate(acting)
      BY <1>5
    <2>2. ASSUME NEW g \in Grabs
          PROVE  /\ grabs'[g].hash = grabs[g].hash
                 /\ \/ grabs'[g].state = grabs[g].state
                    \/ grabs[g].state = "imported" /\ grabs'[g].state = "pending"
      <3>1. grabs[g] \in Row
        BY DEF RowsTyped
      <3> DEFINE new == [grabs[g] EXCEPT !.state = "pending", !.done = FALSE, !.gone = FALSE,
                                         !.aged = FALSE, !.seen = "no"]
      <3>2. new.state = "pending" /\ new.hash = grabs[g].hash
        BY <3>1 DEF Row
      <3>3. \/ grabs'[g] = grabs[g]
            \/ grabs[g].state = "imported" /\ grabs'[g] = new
        BY <2>1 DEF RecordReactivate, InState
      <3> HIDE DEF new
      <3>4. QED
        BY <3>2, <3>3
    <2>3. QED
      BY <2>2 DEF Kept, Stays, LiveGrabs, ClosedGrabs, InState
  <1>6. CASE SweepStart \/ SweepStep \/ Environment
    BY <1>1, <1>2, <1>3, <1>6
    DEF SweepStart, SweepStep, SweepList, SweepPick, SweepDelete, Environment, SweepDue,
        GraceEnds, Restart, Download, SeedingDone, ClientError, RemovedOutside, Rest
  <1>7. CASE \E r \in Requests : RequestStep(r) /\ ~FailByName(r)
    BY <1>1, <1>4, <1>7
    DEF RequestStep, CancelStart, CancelDrift, CancelStuck, CancelRecheck, DeleteStart,
        DeleteUntag, RequestFind, RequestEnd, CancelClear, FailStart, RequestEach, RequestDelete
  <1>8. CASE \E g \in Grabs : TagGrabbed(g) \/ \E h \in Hashes : GrabAdd(g, h)
    BY <1>1, <1>8 DEF TagGrabbed, GrabAdd
  <1>9. CASE \E g \in Grabs : StampRules(g)
    <2>1. PICK g \in Grabs : StampRules(g)
      BY <1>9
    <2> DEFINE row == handler[g].row
    <2>2. row \in Grabs /\ grabs[row] \in Row
      BY <2>1 DEF StampRules, HandlersTyped, Handler, RowsTyped
    <2>3. \/ UNCHANGED grabs
          \/ \E b : grabs' = [grabs EXCEPT ![row] = [grabs[row] EXCEPT !.ruled = b]]
      BY <2>1 DEF StampRules
    <2> HIDE DEF row
    <2>4. QED
      BY <1>1, <2>2, <2>3, RowStamps, StampOne
  <1>10. QED
    BY <1>1, <1>5, <1>6, <1>7, <1>8, <1>9 DEF vars

LEMMA InsertKind ==
  ASSUME LedgerInv, NEW g \in Grabs, RecordInsert(g)
  PROVE  Kept \/ OpensOne
  <1> USE DEF LedgerInv, TypeInv
  <1>1. CASE UNCHANGED grabs
    BY <1>1, StayByState
  <1>2. CASE \A o \in LiveGrabs : grabs[o].hash # handler[g].hash
    <2> DEFINE new == [NoRow EXCEPT !.hash = handler[g].hash, !.state = "pending"]
    <2>1. new.state = "pending" /\ new.hash = handler[g].hash
      BY DEF NoRow
    <2>2. grabs' = [grabs EXCEPT ![g] = new] 
          /\ handler' = [handler EXCEPT ![g].pc = "recorded", ![g].row = g]
      BY <1>2 DEF RecordInsert
    <2>3. handler[g].pc = "added" /\ handler[g].hash \in Hashes /\ g \notin Recorded
      BY DEF RecordInsert, HandlersTyped, UnrecordedYet, Recorded
    <2>4. handler'[g].pc = "recorded"
      BY <2>2 DEF HandlersTyped, Handler
    <2> HIDE DEF new
    <2>5. grabs'[g].state = "pending" /\ grabs'[g].hash = handler[g].hash
      BY <2>1, <2>2 DEF RowsTyped
    <2>6. \A o \in Grabs \ {g} : grabs'[o] = grabs[o]
      BY <2>2 DEF RowsTyped
    <2>7. Opens(g)
      BY <1>2, <2>3, <2>4, <2>5 DEF Opens, LiveGrabs, ClosedGrabs, InState
    <2>8. \A o \in Grabs \ {g} : Stays(o)
      BY <2>6 DEF Stays, LiveGrabs, ClosedGrabs, InState
    <2>9. QED
      BY <2>7, <2>8 DEF OpensOne
  <1>3. QED
    BY <1>1, <1>2 DEF RecordInsert

LEMMA FailKind ==
  ASSUME LedgerInv, NEW r \in Requests, FailByName(r)
  PROVE  Kept \/ ClosesOne
  <1> USE DEF LedgerInv, TypeInv
  <1> DEFINE named == {g \in LiveGrabs : grabs[g].hash = req[r].hash}
  <1>1. \A g \in Grabs \ named : grabs'[g] = grabs[g]
    BY DEF FailByName
  <1>2. ASSUME NEW g \in named
        PROVE  grabs'[g].state = "failed" /\ grabs'[g].hash = grabs[g].hash
    <2>1. g \in Grabs /\ grabs[g] \in Row
      BY Standing DEF RowsTyped
    <2>2. grabs'[g] = [grabs[g] EXCEPT !.state = "failed"]
      BY <2>1 DEF FailByName
    <2>3. QED
      BY <2>1, <2>2 DEF Row
  <1>3. \A g, o \in named : g = o
    BY DEF OneLiveRow
  <1>4. named \subseteq Recorded /\ named \subseteq Grabs
    BY Standing
  <1> HIDE DEF named
  <1>5. CASE named = {}
    BY <1>1, <1>5, StayByState
  <1>6. CASE named # {}
    <2>1. PICK g \in named : TRUE
      BY <1>6
    <2>2. Closes(g)
      BY <1>2, <1>4 DEF Closes, LiveGrabs, ClosedGrabs, InState
    <2>3. \A o \in Grabs \ {g} : Stays(o)
      BY <1>1, <1>3 DEF Stays, LiveGrabs, ClosedGrabs, InState
    <2>4. QED
      BY <1>4, <2>2, <2>3 DEF ClosesOne
  <1>7. QED
    BY <1>5, <1>6

LEMMA FinishKind ==
  ASSUME LedgerInv, TickFinish
  PROVE  Kept \/ FinishesOne
  <1> USE DEF LedgerInv, TypeInv
  <1>1. CASE UNCHANGED grabs
    BY <1>1, StayByState
  <1>2. CASE ~ UNCHANGED grabs
    <2>1. PICK g \in Grabs : tick.pc = "finish" /\ g = tick.cur /\ g \in Recorded
      BY ConstantsAssumption DEF TickFinish, At, RunTyped
    <2>2. SetState(g, "imported") /\ \A o \in LiveGrabs \ {g} : grabs[o].hash # grabs[g].hash
      BY <1>2, <2>1 DEF TickFinish, CurHash
    <2>3. grabs'[g].state = "imported" /\ grabs'[g].hash = grabs[g].hash
      <3>1. grabs[g] \in Row /\ grabs'[g] = [grabs[g] EXCEPT !.state = "imported"]
        BY <2>2 DEF SetState, RowsTyped
      <3>2. QED
        BY <3>1 DEF Row
    <2>4. \A o \in Grabs \ {g} : grabs'[o] = grabs[o]
      BY <2>2 DEF SetState, RowsTyped
    <2>5. Finishes(g)
      BY <2>1, <2>2, <2>3 DEF Finishes, LiveGrabs, InState
    <2>6. \A o \in Grabs \ {g} : Stays(o)
      BY <2>4 DEF Stays, LiveGrabs, ClosedGrabs, InState
    <2>7. QED
      BY <2>1, <2>5, <2>6 DEF FinishesOne
  <1>3. QED
    BY <1>1, <1>2

LEMMA StepKinds ==
  ASSUME LedgerInv, [Next]_vars
  PROVE  Kept \/ ClosesOne \/ OpensOne \/ FinishesOne
  <1>1. TypeInv
    BY DEF LedgerInv
  <1>2. CASE \E g \in Grabs : RecordInsert(g)
    BY <1>2, InsertKind
  <1>3. CASE \E r \in Requests : FailByName(r)
    BY <1>3, FailKind
  <1>4. CASE \E by \in {"loop", "force"} : TickStart(by) \/ TickSkipped \/ TickStep
    BY <1>1, <1>4, TickKinds, FinishKind
  <1>5. QED
    BY <1>1, <1>2, <1>3, <1>4, OtherKinds DEF Next, Handling, Loop

-------------------------------------------------------------------------------
(* The invariant *)

LEMMA LedgerInit ==
  ASSUME Init
  PROVE  LedgerInv
  <1>1. TypeInv
    BY TypeInit
  <1>2. LiveGrabs = {} /\ UnrecordedYet
    BY DEF Init, NoRow, LiveGrabs, InState, UnrecordedYet
  <1>3. ImportsOnly
    BY DEF Init, NoTick, ImportsOnly
  <1>4. QED
    BY <1>1, <1>2, <1>3 DEF LedgerInv, OneLiveRow

\* A row opens or is finished only under a release that no other live row has.
LEMMA OneLiveRowNext ==
  ASSUME LedgerInv, RowsTyped', Kept \/ ClosesOne \/ OpensOne \/ FinishesOne
  PROVE  OneLiveRow'
  <1>1. RowsTyped /\ OneLiveRow
    BY DEF LedgerInv, TypeInv
  <1>2. LiveGrabs \subseteq Grabs /\ LiveGrabs' \subseteq Grabs /\ LiveGrabs \cap ClosedGrabs = {}
    BY <1>1, Standing DEF LiveGrabs, InState
  <1>3. CASE Kept
    BY <1>1, <1>2, <1>3 DEF Kept, Stays, OneLiveRow
  <1>4. CASE ClosesOne
    BY <1>1, <1>2, <1>4 DEF ClosesOne, Closes, Stays, OneLiveRow
  <1>5. CASE OpensOne
    BY <1>1, <1>2, <1>5 DEF OpensOne, Opens, Stays, OneLiveRow
  <1>6. CASE FinishesOne
    BY <1>1, <1>2, <1>6 DEF FinishesOne, Finishes, Stays, OneLiveRow
  <1>7. QED
    BY <1>3, <1>4, <1>5, <1>6

\* No step takes a handler back to before its insert.
LEMMA HandlersAdvance ==
  ASSUME TypeInv, [Next]_vars
  PROVE  \A g \in Grabs : handler'[g].pc \in {"idle", "added"} => handler[g].pc \in {"idle", "added"}
  <1> USE DEF TypeInv
  <1>1. CASE UNCHANGED handler
    BY <1>1
  <1>2. CASE \E g \in Grabs : Handling(g) \/ \E h \in Hashes : GrabAdd(g, h)
    <2>1. PICK g \in Grabs : Handling(g) \/ \E h \in Hashes : GrabAdd(g, h)
      BY <1>2
    <2>2. \A o \in Grabs \ {g} : handler'[o] = handler[o]
      BY <2>1 DEF Handling, RecordInsert, RecordReactivate, StampRules, TagGrabbed, GrabAdd,
                  HandlersTyped
    <2>3. CASE \E h \in Hashes : GrabAdd(g, h)
      BY <2>2, <2>3 DEF GrabAdd
    <2>4. CASE Handling(g)
      <3>1. handler[g] \in Handler
        BY DEF HandlersTyped
      <3>2. CASE RecordInsert(g)
        BY <3>1, <3>2 DEF RecordInsert, Handler, HandlersTyped
      <3>3. CASE RecordReactivate(g)
        <4>1. PICK row : handler' = [handler EXCEPT ![g].pc = "recorded", ![g].row = row]
          BY <3>3 DEF RecordReactivate
        <4>2. handler'[g].pc = "recorded"
          BY <3>1, <4>1 DEF Handler, HandlersTyped
        <4>3. QED
          BY <2>2, <4>2
      <3>4. CASE StampRules(g) \/ TagGrabbed(g)
        <4>1. handler'[g].pc \in {"stamped", "ended"}
          BY <3>1, <3>4 DEF StampRules, TagGrabbed, Handler, HandlersTyped
        <4>2. QED
          BY <2>2, <4>1
      <3>5. QED
        BY <2>2, <2>4, <3>2, <3>3, <3>4 DEF Handling
    <2>5. QED
      BY <2>1, <2>3, <2>4
  <1>3. CASE Restart
    <2>1. ASSUME NEW g \in Grabs, handler[g].pc \notin {"idle", "added"}
          PROVE  handler'[g].pc \notin {"idle", "added"}
      <3>1. handler[g] \in Handler
        BY DEF HandlersTyped
      <3>2. handler'[g] = handler[g] \/ handler'[g] = [handler[g] EXCEPT !.pc = "lost", !.row = NoGrab]
        BY <1>3 DEF Restart
      <3>3. QED
        BY <2>1, <3>1, <3>2 DEF Handler
    <2>2. QED
      BY <2>1
  <1>4. QED
    BY <1>1, <1>2, <1>3, RunApart, SweepApart, RequestApart, WorldApart DEF Next, Loop

LEMMA UnrecordedNext ==
  ASSUME LedgerInv, TypeInv', [Next]_vars
  PROVE  UnrecordedYet'
  <1>1. Kept \/ ClosesOne \/ OpensOne \/ FinishesOne
    BY StepKinds
  <1>2. LiveGrabs \cup ClosedGrabs = Recorded /\ LiveGrabs' \cup ClosedGrabs' = Recorded'
    BY Standing DEF LedgerInv, TypeInv, RowsTyped, Row, LiveGrabs, ClosedGrabs, InState, Recorded
  <1>3. ASSUME NEW g \in Grabs, handler'[g].pc \in {"idle", "added"}
        PROVE  g \notin Recorded'
    <2>1. g \notin Recorded
      BY <1>3, HandlersAdvance DEF LedgerInv, UnrecordedYet, Recorded
    <2>2. Stays(g)
      BY <1>1, <1>3, <2>1
      DEF Kept, ClosesOne, Closes, OpensOne, Opens, FinishesOne, Finishes
    <2>3. QED
      BY <1>2, <2>1, <2>2 DEF Stays
  <1>4. QED
    BY <1>3 DEF UnrecordedYet, Recorded

LEMMA ImportsOnlyNext ==
  ASSUME TypeInv, ImportsOnly, [Next]_vars
  PROVE  ImportsOnly'
  <1> SUFFICES ASSUME PostProcessing, tick.pc \notin {"finish", "finishtag"}
               PROVE  tick'.pc \notin {"finish", "finishtag"}
    BY DEF ImportsOnly
  <1> USE DEF TypeInv
  <1>1. CASE UNCHANGED tick
    BY <1>1
  <1>2. tick \in Tick
    BY DEF RunTyped
  <1>3. CASE \E by \in {"loop", "force"} : TickStart(by) \/ TickSkipped
    BY <1>1, <1>3 DEF TickStart, TickSkipped, NoTick
  <1>4. CASE TickStep
    <2> USE DEF At, Goto, NextRow, Tick
    <2>1. CASE \E g \in Grabs : TickPick(g)
      <3>1. PICK g \in Grabs : TickPick(g)
        BY <2>1
      <3>2. Verdict(g) \notin {"finish", "finishtag"}
        BY DEF Verdict
      <3>3. tick'.pc = Verdict(g)
        BY <1>2, <3>1 DEF TickPick
      <3>4. QED
        BY <3>2, <3>3
    <2>2. CASE TickList \/ TickEnd
      BY <1>2, <2>2, NoTickTyped DEF TickList, TickEnd, EndRun
    <2>3. CASE TickRemove \/ TickUntag \/ TickFail \/ TickFailTag \/ TickDrop \/ TickDiscard
      BY <1>2, <2>3 DEF TickRemove, TickUntag, TickFail, TickFailTag, TickDrop, TickDiscard
    <2>4. CASE TickSeen \/ TickImport \/ TickOlds \/ TickSwap
      BY <1>2, <2>4 DEF TickSeen, TickImport, TickOlds, TickSwap
    <2>5. CASE TickTag \/ TickMark \/ TickMode \/ TickFree \/ TickFreed
      BY <1>2, <2>5 DEF TickTag, TickMark, TickMode, TickFree, TickFreed
    <2>6. CASE TickStall \/ TickAllFailed \/ TickFinish \/ TickFinishTag
      BY <1>2, <2>6 DEF TickStall, TickAllFailed, TickFinish, TickFinishTag
    <2>7. CASE TickOldGone \/ \E g \in Grabs : TickOld(g) \/ TickFlush(g)
      BY <1>2, <2>7 DEF TickOld, TickOldGone, TickFlush
    <2>8. QED
      BY <1>4, <2>1, <2>2, <2>3, <2>4, <2>5, <2>6, <2>7 DEF TickStep
  <1>5. QED
    BY <1>1, <1>3, <1>4, GrabApart, SweepApart, RequestApart, WorldApart, NoTickTyped DEF Next, Loop

LEMMA LedgerNext == LedgerInv /\ [Next]_vars => LedgerInv'
  <1> SUFFICES ASSUME LedgerInv, [Next]_vars PROVE LedgerInv'
    OBVIOUS
  <1>1. TypeInv'
    BY TypeNext DEF LedgerInv
  <1>2. OneLiveRow'
    BY <1>1, StepKinds, OneLiveRowNext DEF TypeInv
  <1>3. UnrecordedYet' /\ ImportsOnly'
    BY <1>1, UnrecordedNext, ImportsOnlyNext DEF LedgerInv
  <1>4. QED
    BY <1>1, <1>2, <1>3 DEF LedgerInv

THEOREM LedgerInvariant == Spec => []LedgerInv
  BY LedgerInit, LedgerNext, PTL DEF Spec

\* Two live rows never name one release, whatever the handlers, the tick, the
\* sweep and the requests do, with post-processing on or off: what the partial
\* unique index of grabbed_torrents and the checks before it keep.
THEOREM OneLiveRowCorrect == Spec => []OneLiveRow
  <1>1. LedgerInv => OneLiveRow
    BY DEF LedgerInv
  <1>2. QED
    BY <1>1, LedgerInvariant, PTL

-------------------------------------------------------------------------------
(* With post-processing on, every step is a step of the ledger or none. *)

Entries == {<<g, grabs[g].hash>> : g \in LiveGrabs}

LEMMA EntriesRows ==
  /\ Ledger!LiveRows = LiveGrabs
  /\ Ledger!LiveHashes = {grabs[g].hash : g \in LiveGrabs}
  <1>1. Ledger!LiveRows = {entry[1] : entry \in Entries}
    BY DEF Ledger!LiveRows, Entries
  <1>2. Ledger!LiveHashes = {entry[2] : entry \in Entries}
    BY DEF Ledger!LiveHashes, Entries
  <1>3. ASSUME NEW g \in LiveGrabs
        PROVE  \E entry \in Entries : entry[1] = g /\ entry[2] = grabs[g].hash
    <2>1. <<g, grabs[g].hash>> \in Entries
      BY DEF Entries
    <2>2. QED
      BY <2>1
  <1>4. ASSUME NEW entry \in Entries
        PROVE  entry[1] \in LiveGrabs /\ entry[2] = grabs[entry[1]].hash
    <2>1. PICK g \in LiveGrabs : entry = <<g, grabs[g].hash>>
      BY DEF Entries
    <2>2. entry[1] = g /\ entry[2] = grabs[g].hash
      BY <2>1
    <2>3. QED
      BY <2>2
  <1>5. QED
    BY <1>1, <1>2, <1>3, <1>4

LEMMA LedgerKept ==
  ASSUME RowsTyped, RowsTyped', Kept
  PROVE  Entries' = Entries /\ ClosedGrabs' = ClosedGrabs
  <1>1. /\ LiveGrabs \subseteq Grabs /\ LiveGrabs' \subseteq Grabs
        /\ ClosedGrabs \subseteq Grabs /\ ClosedGrabs' \subseteq Grabs
    BY DEF LiveGrabs, ClosedGrabs, InState
  <1>2. LiveGrabs' = LiveGrabs /\ ClosedGrabs' = ClosedGrabs
    BY <1>1 DEF Kept, Stays
  <1>3. \A g \in LiveGrabs : grabs'[g].hash = grabs[g].hash
    BY <1>1 DEF Kept, Stays
  <1>4. QED
    BY <1>2, <1>3 DEF Entries

LEMMA LedgerOpens ==
  ASSUME RowsTyped, RowsTyped', NEW g \in Grabs, Opens(g), \A o \in Grabs \ {g} : Stays(o)
  PROVE  /\ grabs'[g].hash \in Hashes
         /\ g \notin LiveGrabs \cup ClosedGrabs
         /\ \A o \in LiveGrabs : grabs[o].hash # grabs'[g].hash
         /\ Entries' = Entries \cup {<<g, grabs'[g].hash>>}
         /\ ClosedGrabs' = ClosedGrabs
  <1>1. /\ LiveGrabs \subseteq Grabs /\ LiveGrabs' \subseteq Grabs
        /\ ClosedGrabs \subseteq Grabs /\ ClosedGrabs' \subseteq Grabs
    BY DEF LiveGrabs, ClosedGrabs, InState
  <1>2. g \notin LiveGrabs \cup ClosedGrabs
    BY Standing DEF Opens
  <1>3. LiveGrabs' = LiveGrabs \cup {g} /\ ClosedGrabs' = ClosedGrabs
    <2>1. g \in LiveGrabs' /\ g \notin ClosedGrabs'
      BY DEF Opens
    <2>2. \A o \in Grabs \ {g} : (o \in LiveGrabs' <=> o \in LiveGrabs)
                               /\ (o \in ClosedGrabs' <=> o \in ClosedGrabs)
      BY DEF Stays
    <2>3. QED
      BY <1>1, <1>2, <2>1, <2>2
  <1>4. \A o \in LiveGrabs : grabs'[o].hash = grabs[o].hash
    BY <1>1, <1>2 DEF Stays
  <1>5. QED
    BY <1>2, <1>3, <1>4 DEF Entries, Opens

LEMMA LedgerCloses ==
  ASSUME RowsTyped, RowsTyped', OneLiveRow,
         NEW g \in Grabs, Closes(g), \A o \in Grabs \ {g} : Stays(o)
  PROVE  IF g \in LiveGrabs
         THEN /\ grabs[g].hash \in Hashes
              /\ Entries' = Entries \ {<<g, grabs[g].hash>>}
              /\ ClosedGrabs' = ClosedGrabs \cup {g}
         ELSE Entries' = Entries /\ ClosedGrabs' = ClosedGrabs
  <1>1. /\ LiveGrabs \subseteq Grabs /\ LiveGrabs' \subseteq Grabs
        /\ ClosedGrabs \subseteq Grabs /\ ClosedGrabs' \subseteq Grabs
    BY DEF LiveGrabs, ClosedGrabs, InState
  <1>2. \A o \in Grabs \ {g} : (o \in LiveGrabs' <=> o \in LiveGrabs)
                             /\ (o \in ClosedGrabs' <=> o \in ClosedGrabs)
                             /\ grabs'[o].hash = grabs[o].hash
    BY DEF Stays
  <1>3. g \notin LiveGrabs' /\ g \in ClosedGrabs' /\ g \in Recorded
    BY DEF Closes
  <1>4. LiveGrabs' = LiveGrabs \ {g} /\ ClosedGrabs' = ClosedGrabs \cup {g}
    BY <1>1, <1>2, <1>3
  <1>5. CASE g \in LiveGrabs
    <2>1. grabs[g].hash \in Hashes
      BY <1>3 DEF RowsTyped, Recorded
    <2>2. Entries' = Entries \ {<<g, grabs[g].hash>>}
      BY <1>1, <1>2, <1>4 DEF Entries
    <2>3. QED
      BY <1>4, <1>5, <2>1, <2>2
  <1>6. CASE g \notin LiveGrabs
    <2>1. g \in ClosedGrabs
      BY <1>3, <1>6, Standing
    <2>2. LiveGrabs' = LiveGrabs /\ ClosedGrabs' = ClosedGrabs
      BY <1>4, <1>6, <2>1
    <2>3. \A o \in LiveGrabs : grabs'[o].hash = grabs[o].hash
      BY <1>1, <1>2, <1>6
    <2>4. QED
      BY <1>6, <2>2, <2>3 DEF Entries
  <1>7. QED
    BY <1>5, <1>6

LEMMA LedgerStep ==
  ASSUME LedgerInv, LedgerInv', [Next]_vars, PostProcessing
  PROVE  [Ledger!Next]_<<Entries, ClosedGrabs>>
  <1>1. RowsTyped /\ RowsTyped' /\ OneLiveRow
    BY DEF LedgerInv, TypeInv
  <1>2. ~ FinishesOne
    BY DEF FinishesOne, Finishes, LedgerInv, ImportsOnly
  <1>3. CASE Kept
    BY <1>1, <1>3, LedgerKept
  <1>4. CASE OpensOne
    <2>1. PICK g \in Grabs : Opens(g) /\ \A o \in Grabs \ {g} : Stays(o)
      BY <1>4 DEF OpensOne
    <2>2. PICK h \in Hashes : h = grabs'[g].hash
      BY <2>1 DEF Opens
    <2>3. Ledger!Open(g, h)
      BY <1>1, <2>1, <2>2, LedgerOpens, EntriesRows DEF Ledger!Open, Entries, ClosedGrabs
    <2>4. Ledger!Next
      BY <2>3 DEF Ledger!Next
    <2>5. QED
      BY <2>4
  <1>5. CASE ClosesOne
    <2>1. PICK g \in Grabs : Closes(g) /\ \A o \in Grabs \ {g} : Stays(o)
      BY <1>5 DEF ClosesOne
    <2>2. CASE g \in LiveGrabs
      <3>1. <<g, grabs[g].hash>> \in Entries
        BY <2>2 DEF Entries
      <3>2. PICK h \in Hashes : h = grabs[g].hash
        BY <1>1, <2>1, <2>2, LedgerCloses
      <3>3. Ledger!Close(g, h)
        BY <1>1, <2>1, <2>2, <3>1, <3>2, LedgerCloses DEF Ledger!Close, Entries, ClosedGrabs
      <3>4. Ledger!Next
        BY <3>3 DEF Ledger!Next
      <3>5. QED
        BY <3>4
    <2>3. CASE g \notin LiveGrabs
      BY <1>1, <2>1, <2>3, LedgerCloses
    <2>4. QED
      BY <2>2, <2>3
  <1>6. QED
    BY <1>2, <1>3, <1>4, <1>5, StepKinds

\* The refinement the runs check, for any grabs, releases, requests and faults:
\* with post-processing on, the whole of the table's writers together only ever
\* open a row for a release no live row names and close a live row, for good.
\* PostProcessing is needed: with it off, mark_completed_no_import writes
\* imported over a row somebody closed meanwhile.
THEOREM LedgerCorrect ==
  ASSUME PostProcessing
  PROVE  Spec => LedgerRefinement
  <1>1. Init => Ledger!Init
    <2> SUFFICES ASSUME Init PROVE Ledger!Init
      OBVIOUS
    <2>1. \A s \in {"pending", "imported", "failed", "removed", "replaced"} : InState(s) = {}
      BY DEF Init, NoRow, InState
    <2>2. QED
      BY <2>1 DEF Ledger!Init, LiveGrabs
  <1>2. LedgerInv /\ LedgerInv' /\ [Next]_vars
        => [Ledger!Next]_<<{<<g, grabs[g].hash>> : g \in LiveGrabs},
                           InState("failed") \cup InState("removed") \cup InState("replaced")>>
    BY LedgerStep DEF Entries, ClosedGrabs
  <1>3. QED
    BY <1>1, <1>2, LedgerInvariant, PTL DEF Spec, LedgerRefinement, Ledger!Spec

-------------------------------------------------------------------------------
(* What a step does to the rows: nothing but the marks of an import makes an *)
(* imported row, or changes what it was imported as.                        *)

RowLeft(g) ==
  /\ g \in Recorded => grabs'[g].hash = grabs[g].hash
  /\ grabs'[g].mode \in {grabs[g].mode, ""}
  /\ grabs'[g].state = "imported" =>
       /\ g \in Recorded /\ grabs[g].state = "imported"
       /\ grabs'[g].mode = grabs[g].mode /\ grabs'[g].done = grabs[g].done

LEMMA RowSame ==
  ASSUME NEW g \in Grabs, grabs'[g] = grabs[g]
  PROVE  RowLeft(g)
  BY DEF RowLeft, Recorded

LEMMA StateRows ==
  ASSUME NEW row \in Row, NEW s
  PROVE  /\ [row EXCEPT !.state = s].state = s /\ [row EXCEPT !.state = s].hash = row.hash
         /\ [row EXCEPT !.state = s].mode = row.mode
  BY DEF Row

LEMMA StampRows ==
  ASSUME NEW row \in Row, NEW v
  PROVE  /\ [row EXCEPT !.gone = v].state = row.state /\ [row EXCEPT !.gone = v].hash = row.hash
         /\ [row EXCEPT !.gone = v].mode = row.mode /\ [row EXCEPT !.gone = v].done = row.done
         /\ [row EXCEPT !.aged = v].state = row.state /\ [row EXCEPT !.aged = v].hash = row.hash
         /\ [row EXCEPT !.aged = v].mode = row.mode /\ [row EXCEPT !.aged = v].done = row.done
         /\ [row EXCEPT !.seen = v].state = row.state /\ [row EXCEPT !.seen = v].hash = row.hash
         /\ [row EXCEPT !.seen = v].mode = row.mode /\ [row EXCEPT !.seen = v].done = row.done
         /\ [row EXCEPT !.ruled = v].state = row.state /\ [row EXCEPT !.ruled = v].hash = row.hash
         /\ [row EXCEPT !.ruled = v].mode = row.mode /\ [row EXCEPT !.ruled = v].done = row.done
  BY DEF Row

LEMMA OneClosed ==
  ASSUME RowsTyped, NEW o \in Grabs, NEW s \in {"failed", "removed", "replaced"}, SetState(o, s), NEW g \in Grabs
  PROVE  RowLeft(g)
  <1>1. CASE g # o
    BY <1>1, RowSame DEF SetState, RowsTyped
  <1>2. CASE g = o
    <2>1. grabs[g] \in Row /\ grabs'[g] = [grabs[g] EXCEPT !.state = s]
      BY <1>2 DEF SetState, RowsTyped
    <2>2. grabs'[g].state = s /\ grabs'[g].hash = grabs[g].hash /\ grabs'[g].mode = grabs[g].mode
      BY <2>1, StateRows
    <2>3. QED
      BY <2>2 DEF RowLeft
  <1>3. QED
    BY <1>1, <1>2

LEMMA OneStamped ==
  ASSUME RowsTyped, NEW o \in Grabs, NEW v, NEW g \in Grabs,
         \/ grabs' = [grabs EXCEPT ![o] = [grabs[o] EXCEPT !.gone = v]]
         \/ grabs' = [grabs EXCEPT ![o] = [grabs[o] EXCEPT !.aged = v]]
         \/ grabs' = [grabs EXCEPT ![o] = [grabs[o] EXCEPT !.seen = v]]
         \/ grabs' = [grabs EXCEPT ![o] = [grabs[o] EXCEPT !.ruled = v]]
  PROVE  RowLeft(g)
  <1>1. CASE g # o
    BY <1>1, RowSame DEF RowsTyped
  <1>2. CASE g = o
    <2>1. /\ grabs[g] \in Row
          /\ \/ grabs'[g] = [grabs[g] EXCEPT !.gone = v]
             \/ grabs'[g] = [grabs[g] EXCEPT !.aged = v]
             \/ grabs'[g] = [grabs[g] EXCEPT !.seen = v]
             \/ grabs'[g] = [grabs[g] EXCEPT !.ruled = v]
      BY <1>2 DEF RowsTyped
    <2>2. /\ grabs'[g].state = grabs[g].state /\ grabs'[g].hash = grabs[g].hash
          /\ grabs'[g].mode = grabs[g].mode /\ grabs'[g].done = grabs[g].done
      <3>1. CASE grabs'[g] = [grabs[g] EXCEPT !.gone = v]
        BY <2>1, <3>1, StampRows
      <3>2. CASE grabs'[g] = [grabs[g] EXCEPT !.aged = v]
        BY <2>1, <3>2, StampRows
      <3>3. CASE grabs'[g] = [grabs[g] EXCEPT !.seen = v]
        BY <2>1, <3>3, StampRows
      <3>4. CASE grabs'[g] = [grabs[g] EXCEPT !.ruled = v]
        BY <2>1, <3>4, StampRows
      <3>5. QED
        BY <2>1, <3>1, <3>2, <3>3, <3>4
    <2>3. QED
      BY <2>2 DEF RowLeft, Recorded
  <1>3. QED
    BY <1>1, <1>2

LEMMA RunLeaves ==
  ASSUME TypeInv, TickStep \/ (\E by \in {"loop", "force"} : TickStart(by)) \/ TickSkipped,
         ~TickMark, ~TickMode, ~TickFinish, NEW g \in Grabs
  PROVE  RowLeft(g)
  <1> USE DEF TypeInv
  <1>1. CASE UNCHANGED grabs
    BY <1>1, RowSame
  <1>2. CASE TickRemove \/ TickFail \/ TickAllFailed
    <2>1. tick.cur \in Grabs
      BY <1>2 DEF TickRemove, TickFail, TickAllFailed, At, RunTyped
    <2>2. \E s \in {"failed", "removed", "replaced"} : SetState(tick.cur, s)
      BY <1>2 DEF TickRemove, TickFail, TickAllFailed
    <2>3. QED
      BY <2>1, <2>2, OneClosed
  <1>3. CASE \E o \in Grabs : TickFlush(o)
    BY <1>3, OneClosed DEF TickFlush
  <1>4. CASE TickSeen \/ TickFreed
    <2>1. tick.cur \in Grabs
      BY <1>4 DEF TickSeen, TickFreed, At, RunTyped
    <2>2. \E v : \/ grabs' = [grabs EXCEPT ![tick.cur] = [grabs[tick.cur] EXCEPT !.seen = v]]
                \/ grabs' = [grabs EXCEPT ![tick.cur] = [grabs[tick.cur] EXCEPT !.gone = v]]
      BY <1>4 DEF TickSeen, TickFreed
    <2>3. QED
      BY <2>1, <2>2, OneStamped
  <1>5. QED
    BY <1>1, <1>2, <1>3, <1>4
    DEF TickStep, TickStart, TickSkipped, TickList, TickEnd, TickPick, TickUntag, TickFailTag,
        TickDrop, TickDiscard, TickImport, TickOlds, TickSwap, TickOld, TickOldGone, TickTag,
        TickFree, TickStall, TickFinishTag

LEMMA InsertLeaves ==
  ASSUME LedgerInv, NEW o \in Grabs, RecordInsert(o), NEW g \in Grabs
  PROVE  RowLeft(g)
  <1>1. CASE UNCHANGED grabs
    BY <1>1, RowSame
  <1>2. CASE grabs' = [grabs EXCEPT ![o] = [NoRow EXCEPT !.hash = handler[o].hash, !.state = "pending"]]
    <2>1. RowsTyped /\ o \notin Recorded
      BY DEF LedgerInv, TypeInv, RecordInsert, UnrecordedYet, Recorded
    <2>2. CASE g # o
      BY <1>2, <2>1, <2>2, RowSame DEF RowsTyped
    <2>3. CASE g = o
      <3>1. grabs'[g] = [NoRow EXCEPT !.hash = handler[o].hash, !.state = "pending"]
        BY <1>2, <2>1, <2>3 DEF RowsTyped
      <3>2. grabs'[g].state = "pending" /\ grabs'[g].mode = ""
        BY <3>1 DEF NoRow
      <3>3. QED
        BY <2>1, <2>3, <3>2 DEF RowLeft
    <2>4. QED
      BY <2>2, <2>3
  <1>3. QED
    BY <1>1, <1>2 DEF RecordInsert

LEMMA OthersLeave ==
  ASSUME TypeInv, NEW g \in Grabs,
         \/ SweepStart \/ SweepStep \/ Environment \/ UNCHANGED vars
         \/ \E r \in Requests : RequestStep(r)
         \/ \E o \in Grabs : \/ RecordReactivate(o) \/ StampRules(o) \/ TagGrabbed(o)
                            \/ \E h \in Hashes : GrabAdd(o, h)
  PROVE  RowLeft(g)
  <1> USE DEF TypeInv
  <1>0. grabs[g] \in Row
    BY DEF RowsTyped
  <1>1. CASE UNCHANGED grabs
    BY <1>1, RowSame
  <1>2. CASE SweepStamp
    <2>1. sweep.cur \in Grabs
      BY <1>2 DEF SweepStamp, SweepTyped
    <2>2. grabs' = [grabs EXCEPT ![sweep.cur] = [grabs[sweep.cur] EXCEPT !.gone = TRUE]]
      BY <1>2 DEF SweepStamp
    <2>3. QED
      BY <2>1, <2>2, OneStamped
  <1>3. CASE SweepEnd
    <2>1. grabs'[g] = grabs[g] \/ grabs'[g] = [grabs[g] EXCEPT !.gone = TRUE]
      BY <1>3 DEF SweepEnd
    <2>2. CASE grabs'[g] = [grabs[g] EXCEPT !.gone = TRUE]
      <3>1. /\ grabs'[g].state = grabs[g].state /\ grabs'[g].hash = grabs[g].hash
            /\ grabs'[g].mode = grabs[g].mode /\ grabs'[g].done = grabs[g].done
        BY <1>0, <2>2, StampRows
      <3>2. QED
        BY <3>1 DEF RowLeft, Recorded
    <2>3. QED
      BY <2>1, <2>2, RowSame
  <1>4. CASE \E o \in Grabs : Ages(o)
    <2>1. PICK o \in Grabs : Ages(o)
      BY <1>4
    <2>2. \E v : \/ grabs' = [grabs EXCEPT ![o] = [grabs[o] EXCEPT !.aged = v]]
                \/ grabs' = [grabs EXCEPT ![o] = [grabs[o] EXCEPT !.seen = v]]
      BY <2>1 DEF Ages
    <2>3. QED
      BY <2>2, OneStamped
  <1>5. CASE \E r \in Requests : RequestMark(r)
    <2>1. \E o \in Grabs : SetState(o, "removed")
      BY <1>5 DEF RequestMark, RequestAt, AskingTyped
    <2>2. QED
      BY <2>1, OneClosed
  <1>6. CASE \E r \in Requests : FailByName(r)
    <2>1. grabs'[g] = grabs[g] \/ grabs'[g] = [grabs[g] EXCEPT !.state = "failed"]
      BY <1>6 DEF FailByName
    <2>2. CASE grabs'[g] = [grabs[g] EXCEPT !.state = "failed"]
      <3>1. grabs'[g].state = "failed" /\ grabs'[g].hash = grabs[g].hash /\ grabs'[g].mode = grabs[g].mode
        BY <1>0, <2>2, StateRows
      <3>2. QED
        BY <3>1 DEF RowLeft
    <2>3. QED
      BY <2>1, <2>2, RowSame
  <1>7. CASE \E o \in Grabs : RecordReactivate(o)
    <2> DEFINE new == [grabs[g] EXCEPT !.state = "pending", !.done = FALSE, !.gone = FALSE,
                                       !.aged = FALSE, !.seen = "no"]
    <2>1. new.state = "pending" /\ new.hash = grabs[g].hash /\ new.mode = grabs[g].mode
      BY <1>0 DEF Row
    <2>2. grabs'[g] = grabs[g] \/ grabs'[g] = new
      BY <1>7 DEF RecordReactivate
    <2> HIDE DEF new
    <2>3. CASE grabs'[g] = new
      BY <2>1, <2>3 DEF RowLeft
    <2>4. QED
      BY <2>2, <2>3, RowSame
  <1>8. CASE SweepStart \/ SweepStep \/ Environment
    BY <1>1, <1>2, <1>3, <1>4, <1>8
    DEF SweepStart, SweepStep, SweepList, SweepPick, SweepDelete, Environment, SweepDue,
        GraceEnds, Restart, Download, SeedingDone, ClientError, RemovedOutside, Rest
  <1>9. CASE \E r \in Requests : RequestStep(r)
    BY <1>1, <1>5, <1>6, <1>9
    DEF RequestStep, CancelStart, CancelDrift, CancelStuck, CancelRecheck, DeleteStart,
        DeleteUntag, RequestFind, RequestEnd, CancelClear, FailStart, RequestEach, RequestDelete
  <1>10. CASE \E o \in Grabs : TagGrabbed(o) \/ \E h \in Hashes : GrabAdd(o, h)
    BY <1>1, <1>10 DEF TagGrabbed, GrabAdd
  <1>11. CASE \E o \in Grabs : StampRules(o)
    <2>1. PICK o \in Grabs : StampRules(o)
      BY <1>11
    <2> DEFINE row == handler[o].row
    <2>2. row \in Grabs
      BY <2>1 DEF StampRules, HandlersTyped, Handler
    <2>3. \/ UNCHANGED grabs
          \/ \E v : grabs' = [grabs EXCEPT ![row] = [grabs[row] EXCEPT !.ruled = v]]
      BY <2>1 DEF StampRules
    <2> HIDE DEF row
    <2>4. QED
      BY <1>1, <2>2, <2>3, OneStamped
  <1>12. QED
    BY <1>1, <1>7, <1>8, <1>9, <1>10, <1>11 DEF vars

LEMMA RowsLeft ==
  ASSUME LedgerInv, [Next]_vars, ~TickMark, ~TickMode, ~TickFinish, NEW g \in Grabs
  PROVE  RowLeft(g)
  <1>1. TypeInv
    BY DEF LedgerInv
  <1>2. QED
    BY <1>1, RunLeaves, InsertLeaves, OthersLeave DEF Next, Handling, Loop

\* The marks of an import write to the row at hand alone.
LEMMA MarkWrites ==
  ASSUME TypeInv, TickMark \/ TickMode, NEW g \in Grabs
  PROVE  /\ tick.cur \in Grabs /\ tick.cur \in Recorded /\ grabs'[g].hash = grabs[g].hash
         /\ g # tick.cur => grabs'[g] = grabs[g]
         /\ TickMark => /\ tick.pc = "mark" /\ grabs'[g].mode = grabs[g].mode
                        /\ grabs'[g].state = "imported" => grabs[g].state \in {"imported", "pending"}
                        /\ grabs[g].state # "pending" => grabs'[g] = grabs[g]
         /\ TickMode => /\ tick.pc = "mode" /\ grabs'[g].state = grabs[g].state
                        /\ grabs'[g].done = grabs[g].done
                        /\ grabs'[tick.cur].mode = IF tick.full THEN Mode ELSE "partial"
  <1> USE DEF TypeInv
  <1>1. tick.pc \in {"mark", "mode"}
    BY DEF TickMark, TickMode, At
  <1>2. tick.cur \in Grabs /\ tick.cur \in Recorded
    BY <1>1, ConstantsAssumption DEF RunTyped
  <1>3. g # tick.cur => grabs'[g] = grabs[g]
    BY DEF TickMark, TickMode, MarkImported, RowsTyped
  <1>4. grabs[g] \in Row /\ grabs[tick.cur] \in Row
    BY <1>2 DEF RowsTyped
  <1>5. ASSUME TickMark
        PROVE  /\ tick.pc = "mark" /\ grabs'[g].mode = grabs[g].mode /\ grabs'[g].hash = grabs[g].hash
               /\ grabs'[g].state = "imported" => grabs[g].state \in {"imported", "pending"}
               /\ grabs[g].state # "pending" => grabs'[g] = grabs[g]
    <2>1. tick.pc = "mark"
      BY <1>5 DEF TickMark, At
    <2>2. \/ grabs'[g] = grabs[g]
          \/ grabs[g].state = "pending" /\ grabs'[g] = [grabs[g] EXCEPT !.state = "imported", !.done = TRUE]
      BY <1>2, <1>5 DEF TickMark, MarkImported, RowsTyped
    <2>3. QED
      BY <1>4, <2>1, <2>2 DEF Row
  <1>6. ASSUME TickMode
        PROVE  /\ tick.pc = "mode" /\ grabs'[g].state = grabs[g].state /\ grabs'[g].hash = grabs[g].hash
               /\ grabs'[g].done = grabs[g].done
               /\ grabs'[tick.cur].mode = IF tick.full THEN Mode ELSE "partial"
    <2>1. tick.pc = "mode"
      BY <1>6 DEF TickMode, At
    <2>2. PICK m : m = (IF tick.full THEN Mode ELSE "partial")
      OBVIOUS
    <2>3. grabs' = [grabs EXCEPT ![tick.cur].mode = m]
      BY <1>6, <2>2 DEF TickMode
    <2>4. grabs'[tick.cur] = [grabs[tick.cur] EXCEPT !.mode = m]
      BY <1>2, <2>3 DEF RowsTyped
    <2>5. /\ grabs'[tick.cur].mode = m /\ grabs'[tick.cur].state = grabs[tick.cur].state
          /\ grabs'[tick.cur].hash = grabs[tick.cur].hash /\ grabs'[tick.cur].done = grabs[tick.cur].done
      BY <1>4, <2>4 DEF Row
    <2>6. QED
      BY <1>3, <2>1, <2>2, <2>5
  <1>7. QED
    BY <1>2, <1>3, <1>5, <1>6

\* What moves a run
LEMMA RunSteps ==
  ASSUME [Next]_vars
  PROVE  UNCHANGED tick \/ tick' = NoTick \/ TickStep \/ \E by \in {"loop", "force"} : TickStart(by)
  <1>1. CASE TickSkipped
    BY <1>1 DEF TickSkipped
  <1>2. QED
    BY <1>1, GrabApart, SweepApart, RequestApart, WorldApart DEF Next, Loop

LEMMA RunPhases ==
  ASSUME TypeInv, TickStep
  PROVE  /\ tick'.pc = "olds" => TickImport
         /\ tick'.pc = "swap" => TickOlds
         /\ tick'.pc = "old" => \/ TickImport \/ TickSwap \/ TickOldGone
                               \/ \E g \in Grabs : TickOld(g) \/ TickFlush(g)
         /\ tick'.pc = "oldgo" => \E g \in Grabs : TickOld(g)
         /\ tick'.pc = "mark" => TickTag
         /\ tick'.pc = "mode" => TickMark
         /\ tick'.pc = "free" => TickMode
  <1> DEFINE Late == {"olds", "swap", "old", "oldgo", "mark", "mode", "free"}
  <1> USE DEF At, Goto, NextRow, Tick
  <1>1. tick \in Tick
    BY DEF TypeInv, RunTyped
  <1>2. CASE \E g \in Grabs : TickPick(g)
    <2>1. PICK g \in Grabs : TickPick(g)
      BY <1>2
    <2>2. Verdict(g) \notin Late
      BY DEF Verdict
    <2>3. tick'.pc = Verdict(g)
      BY <1>1, <2>1 DEF TickPick
    <2>4. QED
      BY <2>2, <2>3
  <1>3. CASE TickList \/ TickEnd
    <2>1. tick'.pc \notin Late
      BY <1>1, <1>3, NoTickTyped DEF TickList, TickEnd, EndRun
    <2>2. QED
      BY <2>1
  <1>4. CASE TickRemove \/ TickUntag \/ TickFail \/ TickFailTag \/ TickDrop \/ TickDiscard \/ TickSeen
    <2>1. tick'.pc \notin Late
      BY ZenonT(40), <1>1, <1>4 DEF TickRemove, TickUntag, TickFail, TickFailTag, TickDrop, TickDiscard, TickSeen
    <2>2. QED
      BY <2>1
  <1>5. CASE TickImport
    <2>1. tick'.pc \notin {"swap", "oldgo", "mark", "mode", "free"}
      BY <1>1, <1>5 DEF TickImport
    <2>2. QED
      BY <1>5, <2>1
  <1>6. CASE TickOlds
    <2>1. tick'.pc = "swap"
      BY <1>1, <1>6 DEF TickOlds
    <2>2. QED
      BY <1>6, <2>1
  <1>7. CASE TickSwap
    <2>1. tick'.pc \in {"old", "allfailed"}
      BY <1>1, <1>7 DEF TickSwap
    <2>2. QED
      BY <1>7, <2>1
  <1>8. CASE TickTag \/ TickMark
    <2>1. tick'.pc = IF TickTag THEN "mark" ELSE "mode"
      BY <1>1, <1>8 DEF TickTag, TickMark
    <2>2. QED
      BY <1>8, <2>1
  <1>9. CASE TickMode
    <2>1. tick'.pc \in {"pick", "free"}
      BY <1>1, <1>9 DEF TickMode
    <2>2. QED
      BY <1>9, <2>1
  <1>10. CASE TickFree \/ TickFreed \/ TickStall \/ TickAllFailed \/ TickFinish \/ TickFinishTag
    <2>1. tick'.pc \notin Late
      BY <1>1, <1>10 DEF TickFree, TickFreed, TickStall, TickAllFailed, TickFinish, TickFinishTag
    <2>2. QED
      BY <2>1
  <1>11. CASE TickOldGone \/ \E g \in Grabs : TickFlush(g)
    <2>1. tick'.pc = "old"
      BY <1>1, <1>11 DEF TickOldGone, TickFlush
    <2>2. QED
      BY <1>11, <2>1
  <1>12. CASE \E g \in Grabs : TickOld(g)
    <2>1. tick'.pc \in {"old", "oldgo"}
      BY <1>1, <1>12 DEF TickOld
    <2>2. QED
      BY <1>12, <2>1
  <1>13. QED
    BY <1>2, <1>3, <1>4, <1>5, <1>6, <1>7, <1>8, <1>9, <1>10, <1>11, <1>12 DEF TickStep

LEMMA StartsAtList ==
  ASSUME NEW by, TickStart(by)
  PROVE  UNCHANGED tick \/ (tick'.pc = "list" /\ tick'.by = by /\ tick'.todo = InState("pending")
                            /\ tick'.cur = NoGrab /\ tick.pc = "idle")
  BY DEF TickStart, NoTick, At

\* While a run works on a row it keeps the row, and the row its release.
LEMMA CurKept ==
  ASSUME LedgerInv, [Next]_vars, tick.pc \notin {"idle", "list", "pick"}, tick'.cur = tick.cur
  PROVE  tick.cur \in Grabs /\ CurHash \in Hashes /\ CurHash' = CurHash
  <1>1. tick.cur \in Grabs /\ tick.cur \in Recorded /\ TypeInv
    BY ConstantsAssumption DEF LedgerInv, TypeInv, RunTyped
  <1>2. CurHash \in Hashes
    BY <1>1 DEF CurHash, TypeInv, RowsTyped, Recorded
  <1>3. grabs'[tick.cur].hash = grabs[tick.cur].hash
    <2>1. CASE TickMark \/ TickMode
      BY <1>1, <2>1, MarkWrites
    <2>2. CASE TickFinish
      <3>1. UNCHANGED grabs \/ grabs' = [grabs EXCEPT ![tick.cur].state = "imported"]
        BY <2>2 DEF TickFinish, SetState
      <3>2. grabs[tick.cur] \in Row
        BY <1>1 DEF TypeInv, RowsTyped
      <3>3. CASE UNCHANGED grabs
        BY <3>3
      <3>4. CASE grabs' = [grabs EXCEPT ![tick.cur].state = "imported"]
        <4>1. grabs'[tick.cur] = [grabs[tick.cur] EXCEPT !.state = "imported"]
          BY <1>1, <3>4 DEF TypeInv, RowsTyped
        <4>2. QED
          BY <3>2, <4>1, StateRows
      <3>5. QED
        BY <3>1, <3>3, <3>4
    <2>3. CASE ~TickMark /\ ~TickMode /\ ~TickFinish
      BY <1>1, <2>3, RowsLeft DEF RowLeft
    <2>4. QED
      BY <2>1, <2>2, <2>3
  <1>4. QED
    BY <1>1, <1>2, <1>3 DEF CurHash

-------------------------------------------------------------------------------
(* The owner of the episode *)

Owners == {g \in InState("imported") : grabs[g].hash \notin Batches}

\* The episode has one owner at most, and none without a file.  From the lookup of the old
\* grabs on, a run that replaces the file holds every owner, until it has closed them all.
OwnerInv ==
  /\ \A g, o \in Owners : g = o
  /\ library = NoHash => Owners = {}
  /\ At("swap") => Owners \subseteq tick.olds
  /\ (At("old") \/ At("oldgo")) /\ CurHash \notin Batches =>
       library # NoHash /\ Owners \subseteq tick.olds \cup tick.flush
  /\ At("mark") /\ CurHash \notin Batches => library # NoHash /\ Owners = {}

\* Post-processing is on and nobody deletes the episode's file.
FileStays == PostProcessing /\ "delete" \notin Ops

LEMMA OwnersLeave ==
  ASSUME LedgerInv, PostProcessing, [Next]_vars, ~TickMark
  PROVE  Owners' \subseteq Owners
  <1>1. ~TickFinish /\ TypeInv
    BY DEF LedgerInv, ImportsOnly, TickFinish, At
  <1>2. CASE TickMode
    BY <1>1, <1>2, MarkWrites DEF Owners, InState
  <1>3. CASE ~TickMode
    BY <1>1, <1>3, RowsLeft DEF RowLeft, Owners, InState
  <1>4. QED
    BY <1>2, <1>3

LEMMA LibraryStays ==
  ASSUME TypeInv, "delete" \notin Ops, [Next]_vars, library' = NoHash
  PROVE  library = NoHash
  <1>1. CASE UNCHANGED library
    BY <1>1
  <1>2. CASE TickImport \/ TickSwap
    <2>1. tick.cur \in Recorded /\ tick.cur \in Grabs
      BY <1>2, ConstantsAssumption DEF TypeInv, RunTyped, TickImport, TickSwap, At
    <2>2. CurHash # NoHash
      BY <2>1, ConstantsAssumption DEF CurHash, TypeInv, RowsTyped, Recorded
    <2>3. library' \in {library, CurHash}
      BY <1>2 DEF TickImport, TickSwap
    <2>4. QED
      BY <2>2, <2>3
  <1>3. CASE TickStep /\ ~TickImport /\ ~TickSwap
    BY <1>1, <1>3
    DEF TickStep, TickList, TickEnd, TickPick, TickRemove, TickUntag, TickFail, TickFailTag,
        TickDrop, TickDiscard, TickSeen, TickOlds, TickOld, TickOldGone, TickTag, TickMark,
        TickFlush, TickMode, TickFree, TickFreed, TickStall, TickAllFailed, TickFinish, TickFinishTag
  <1>4. CASE \E r \in Requests : RequestStep(r)
    BY <1>1, <1>4
    DEF RequestStep, CancelStart, CancelDrift, CancelStuck, CancelRecheck, DeleteStart,
        DeleteUntag, FailByName, RequestFind, RequestMark, RequestEnd, CancelClear, FailStart,
        RequestEach, RequestDelete
  <1>5. CASE Loop \/ TickStart("force")
    BY <1>1, <1>5, SweepApart DEF Loop, TickStart, TickSkipped
  <1>6. QED
    BY <1>1, <1>2, <1>3, <1>4, <1>5, GrabApart, SweepApart, WorldApart DEF Next

LEMMA OwnerBegins == Init => OwnerInv
  <1> SUFFICES ASSUME Init
               PROVE  OwnerInv
    OBVIOUS
  <1>1. \A g \in Grabs : grabs[g].state = "none"
    BY DEF Init, NoRow
  <1>2. Owners = {}
    BY <1>1 DEF Owners, InState
  <1>3. tick.pc = "idle"
    BY DEF Init, NoTick
  <1>4. QED
    BY <1>2, <1>3 DEF OwnerInv, At

LEMMA OwnerNext ==
  ASSUME LedgerInv, FileStays, OwnerInv, [Next]_vars
  PROVE  OwnerInv'
  <1> USE DEF FileStays
  <1>1. TypeInv /\ tick \in Tick
    BY DEF LedgerInv, TypeInv, RunTyped
  <1>2. CASE TickMark
    <2>1. tick.pc = "mark" /\ tick'.pc = "mode" /\ library' = library
      BY <1>1, <1>2 DEF TickMark, At, Goto, Tick
    <2>2. CASE CurHash \in Batches
      <3>1. Owners' \subseteq Owners
        <4> SUFFICES ASSUME NEW g \in Owners'
                     PROVE  g \in Owners
          OBVIOUS
        <4>1. g \in Grabs /\ grabs'[g].state = "imported" /\ grabs'[g].hash \notin Batches
          BY DEF Owners, InState
        <4>2. g # tick.cur
          BY <1>1, <1>2, <2>2, <4>1, MarkWrites DEF CurHash
        <4>3. QED
          BY <1>1, <1>2, <4>1, <4>2, MarkWrites DEF Owners, InState
      <3>2. QED
        BY <2>1, <3>1 DEF OwnerInv, At
    <2>3. CASE CurHash \notin Batches
      <3>1. library # NoHash /\ Owners = {}
        BY <2>1, <2>3 DEF OwnerInv, At
      <3>2. ASSUME NEW g \in Owners'
            PROVE  g = tick.cur
        <4>1. g \in Grabs /\ grabs'[g].state = "imported" /\ grabs'[g].hash \notin Batches
          BY <3>2 DEF Owners, InState
        <4>2. g # tick.cur => g \in Owners
          BY <1>1, <1>2, <4>1, MarkWrites DEF Owners, InState
        <4>3. QED
          BY <3>1, <4>2
      <3>3. QED
        BY <2>1, <3>1, <3>2 DEF OwnerInv, At
    <2>4. QED
      BY <2>2, <2>3
  <1>3. ASSUME ~TickMark
        PROVE  OwnerInv'
    <2>1. /\ Owners' \subseteq Owners /\ (library' = NoHash => library = NoHash)
          /\ \A g, o \in Owners : g = o /\ (library = NoHash => Owners = {})
      BY <1>1, <1>3, OwnersLeave, LibraryStays DEF OwnerInv
    <2>2. (\A g, o \in Owners' : g = o) /\ (library' = NoHash => Owners' = {})
      BY <2>1 DEF OwnerInv
    <2>3. ASSUME tick'.pc \notin {"swap", "old", "oldgo", "mark"}
          PROVE  OwnerInv'
      BY <2>2, <2>3 DEF OwnerInv, At
    <2>4. CASE UNCHANGED tick
      <3>1. tick.pc \in {"swap", "old", "oldgo", "mark"} => CurHash' = CurHash
        BY <2>4, CurKept
      <3>2. QED
        BY <2>1, <2>2, <2>4, <3>1 DEF OwnerInv, At
    <2>5. CASE tick' = NoTick \/ \E by \in {"loop", "force"} : TickStart(by)
      BY <2>3, <2>4, <2>5, NoTickTyped, StartsAtList
    <2>6. CASE TickStep /\ tick'.pc = "swap"
      <3>1. TickOlds
        BY <1>1, <2>6, RunPhases
      <3>2. tick'.olds = InState("imported")
        BY <1>1, <3>1 DEF TickOlds, Tick
      <3>3. Owners' \subseteq tick'.olds
        BY <2>1, <3>2 DEF Owners
      <3>4. QED
        BY <2>2, <2>6, <3>3 DEF OwnerInv, At
    <2>7. CASE TickStep /\ tick'.pc = "mark"
      <3>1. TickTag
        BY <1>1, <2>7, RunPhases
      <3>2. tick.pc = "old" /\ tick.olds = {} /\ tick.flush = {} /\ tick'.cur = tick.cur
        BY <1>1, <3>1 DEF TickTag, At, Goto, Tick
      <3>3. CurHash' = CurHash
        BY <3>2, CurKept
      <3>4. CurHash' \notin Batches => library' # NoHash /\ Owners' = {}
        BY <2>1, <3>2, <3>3 DEF OwnerInv, At
      <3>5. QED
        BY <2>2, <2>7, <3>4 DEF OwnerInv, At
    <2>8. CASE TickStep /\ tick'.pc \in {"old", "oldgo"}
      <3> SUFFICES ASSUME CurHash' \notin Batches
                   PROVE  library' # NoHash /\ Owners' \subseteq tick'.olds \cup tick'.flush
        BY <2>2, <2>8 DEF OwnerInv, At
      <3>1. CASE TickImport
        <4>1. PICK full \in BOOLEAN, landed \in BOOLEAN :
                /\ full => landed
                /\ ~full => CurHash \in Batches
                /\ ~(landed /\ library # NoHash)
                /\ library' = IF landed THEN CurHash ELSE library
                /\ tick' = [tick EXCEPT !.pc = "old", !.full = full, !.landed = landed]
          BY ZenonT(40), <1>1, <2>8, <3>1 DEF TickImport, Goto, Tick
        <4>2. tick.pc = "import" /\ tick'.cur = tick.cur
          BY <1>1, <3>1, <4>1 DEF TickImport, At, Tick
        <4>3. CurHash' = CurHash /\ CurHash \in Hashes
          BY <4>2, CurKept
        <4>4. landed /\ library = NoHash /\ library' = CurHash
          BY <4>1, <4>3
        <4>5. QED
          BY <2>1, <4>3, <4>4, ConstantsAssumption DEF OwnerInv
      <3>2. CASE TickSwap
        <4>1. tick.pc = "swap" /\ tick'.cur = tick.cur
          BY <1>1, <3>2 DEF TickSwap, At, Goto, Tick
        <4>2. CurHash' = CurHash /\ CurHash \in Hashes
          BY <4>1, CurKept
        <4>3. library' = CurHash /\ tick'.olds = tick.olds
          BY <1>1, <2>8, <3>2, <4>2 DEF TickSwap, Goto, Tick
        <4>4. QED
          BY <2>1, <4>1, <4>2, <4>3, ConstantsAssumption DEF OwnerInv, At
      <3>3. CASE \E g \in Grabs : TickOld(g)
        <4>1. PICK g \in Grabs : TickOld(g)
          BY <3>3
        <4>2. tick.pc = "old" /\ tick'.cur = tick.cur /\ tick'.olds \cup tick'.flush = tick.olds \cup tick.flush
          BY <1>1, <4>1 DEF TickOld, At, Tick
        <4>3. CurHash' = CurHash
          BY <4>2, CurKept
        <4>4. QED
          BY <2>1, <4>2, <4>3 DEF OwnerInv, At
      <3>4. CASE \E g \in Grabs : TickFlush(g)
        <4>1. PICK g \in Grabs : TickFlush(g)
          BY <3>4
        <4>2. /\ tick.pc = "old" /\ tick'.cur = tick.cur
              /\ tick'.olds = tick.olds /\ tick'.flush = tick.flush \ {g}
          BY <1>1, <4>1 DEF TickFlush, At, Tick
        <4>3. CurHash' = CurHash
          BY <4>2, CurKept
        <4>4. g \notin Owners'
          <5>1. grabs[g] \in Row /\ grabs'[g] = [grabs[g] EXCEPT !.state = "replaced"]
            BY <1>1, <4>1 DEF TickFlush, SetState, TypeInv, RowsTyped
          <5>2. grabs'[g].state = "replaced"
            BY <5>1, StateRows
          <5>3. QED
            BY <5>2 DEF Owners, InState
        <4>5. QED
          BY <2>1, <4>2, <4>3, <4>4 DEF OwnerInv, At
      <3>5. CASE TickOldGone
        <4>1. /\ tick.pc = "oldgo" /\ tick'.cur = tick.cur
              /\ tick'.olds = tick.olds /\ tick'.flush = tick.flush
          BY <1>1, <3>5 DEF TickOldGone, At, Tick
        <4>2. CurHash' = CurHash
          BY <4>1, CurKept
        <4>3. QED
          BY <2>1, <4>1, <4>2 DEF OwnerInv, At
      <3>6. QED
        BY <1>1, <2>8, <3>1, <3>2, <3>3, <3>4, <3>5, RunPhases
    <2>9. QED
      BY <2>3, <2>4, <2>5, <2>6, <2>7, <2>8, RunSteps
  <1>4. QED
    BY <1>2, <1>3

\* An episode that a release other than a batch was imported for has one owner, whatever
\* upgrades, re-grabs, failures and restarts come in between: the run that replaces its file
\* looks the imported grabs up before it swaps and closes every one of them before it marks
\* its own row.  It takes post-processing, as the run without it marks rows imported and
\* closes none, and that no request deletes the episode's file, as delete_episode_file unlinks
\* it before it looks for the row: a grab imported meanwhile finds nothing to replace.
THEOREM EpisodeOwned ==
  ASSUME FileStays
  PROVE  Spec => []EpisodeHasOneOwner
  <1>1. LedgerInv /\ OwnerInv /\ [Next]_vars => OwnerInv'
    BY OwnerNext
  <1>2. OwnerInv => EpisodeHasOneOwner
    BY DEF OwnerInv, Owners, EpisodeHasOneOwner
  <1>3. QED
    BY <1>1, <1>2, OwnerBegins, LedgerInvariant, PTL DEF Spec
-------------------------------------------------------------------------------
(* The sweep and the rows it works on *)

LEMMA RecordedStay ==
  ASSUME LedgerInv, [Next]_vars
  PROVE  Recorded \subseteq Recorded' /\ \A g \in Recorded : grabs'[g].hash = grabs[g].hash
  <1>1. /\ Recorded = LiveGrabs \cup ClosedGrabs
        /\ LiveGrabs' \cup ClosedGrabs' = Recorded'
    <2>1. RowsTyped /\ RowsTyped'
      BY LedgerNext DEF LedgerInv, TypeInv
    <2>2. QED
      BY <2>1, Standing DEF RowsTyped, Row, LiveGrabs, ClosedGrabs, InState, Recorded
  <1> SUFFICES ASSUME NEW g \in Recorded
               PROVE  g \in Recorded' /\ grabs'[g].hash = grabs[g].hash
    OBVIOUS
  <1>2. g \in Grabs
    BY DEF Recorded
  <1>3. Stays(g) \/ Closes(g) \/ Finishes(g)
    BY <1>2, StepKinds DEF Kept, ClosesOne, OpensOne, FinishesOne, Opens
  <1>4. QED
    BY <1>1, <1>3 DEF Stays, Closes, Finishes

\* What moves a sweep
LEMMA SweepSteps ==
  ASSUME [Next]_vars
  PROVE  UNCHANGED sweep \/ (Restart /\ sweep' = NoSweep) \/ SweepStart \/ SweepStep
  BY GrabApart, RunApart, RequestApart, WorldApart DEF Next, Loop

\* The sweep works on recorded rows, which keep their releases.
SweepHolds ==
  /\ sweep.todo \subseteq Recorded
  /\ sweep.pc \in {"delete", "stamp"} => sweep.cur \in Recorded

LEMMA SweepHoldsNext ==
  ASSUME LedgerInv, SweepHolds, [Next]_vars
  PROVE  SweepHolds'
  <1>1. Recorded \subseteq Recorded' /\ sweep \in Sweep
    BY RecordedStay DEF LedgerInv, TypeInv, SweepTyped
  <1>2. CASE UNCHANGED sweep
    BY <1>1, <1>2 DEF SweepHolds
  <1>3. CASE sweep' = NoSweep
    BY <1>3 DEF SweepHolds, NoSweep
  <1>4. CASE SweepStart /\ sweep' # sweep
    <2>1. WorkList \subseteq Recorded
      BY DEF WorkList, InState, Recorded
    <2>2. sweep'.pc = "list" /\ sweep'.todo = WorkList
      BY <1>4 DEF SweepStart, NoSweep
    <2>3. QED
      BY <1>1, <2>1, <2>2 DEF SweepHolds
  <1>5. CASE \E g \in Grabs : SweepPick(g)
    <2>1. PICK g \in Grabs : SweepPick(g)
      BY <1>5
    <2>2. g \in sweep.todo /\ sweep'.todo = sweep.todo \ {g}
      BY <1>1, <2>1 DEF SweepPick, Sweep
    <2>3. sweep'.pc \in {"delete", "stamp"} => sweep'.cur = g
      BY <1>1, <2>1 DEF SweepPick, Sweep
    <2>4. QED
      BY <1>1, <2>2, <2>3 DEF SweepHolds
  <1>6. CASE SweepDelete \/ SweepStamp
    <2>1. sweep.cur \in Recorded /\ sweep'.todo = sweep.todo
      BY <1>1, <1>6 DEF SweepHolds, SweepDelete, SweepStamp, NextSwept, Sweep
    <2>2. sweep'.pc = "pick" \/ sweep'.cur = sweep.cur
      BY <1>1, <1>6 DEF SweepDelete, SweepStamp, NextSwept, Sweep
    <2>3. QED
      BY <1>1, <2>1, <2>2 DEF SweepHolds
  <1>7. CASE SweepList /\ sweep' # NoSweep
    <2>1. sweep'.todo = sweep.todo /\ sweep'.pc = "pick"
      BY <1>1, <1>7 DEF SweepList, Sweep
    <2>2. QED
      BY <1>1, <2>1 DEF SweepHolds
  <1>8. CASE SweepEnd
    BY <1>3, <1>8 DEF SweepEnd
  <1>9. QED
    BY <1>2, <1>3, <1>4, <1>5, <1>6, <1>7, <1>8, SweepSteps DEF SweepStep

-------------------------------------------------------------------------------
(* A torrent under the seed rules *)

\* Files are linked or copied into the library, nobody cancels a grab, nobody removes
\* anything in the client itself, and the flags of the rows can be read and written.
SeedSetting ==
  Mode = "link" /\ "cancel" \notin Ops /\ {"outside", "flag"} \cap Faults = {}

\* A flag is the seed rules of the release its row was recorded for, ...
FlagsTrue == \A g \in Grabs : grabs[g].ruled => g \in Recorded /\ grabs[g].hash \in Ruled

\* ... as a handler stamps no row but one of the release it added.
RowsHeld ==
  \A g \in Grabs : handler[g].row # NoGrab =>
    handler[g].row \in Recorded /\ grabs[handler[g].row].hash = handler[g].hash

\* The listing a sweep took may be old, but what it says of a protected torrent stays true:
\* one that had stopped seeding does not seed again while it is in the client.
SeedsOut(h) == item[h] \in {"seeded", "errored"}

SeedInv ==
  /\ SweepHolds /\ FlagsTrue /\ RowsHeld
  /\ \A g \in Grabs : grabs[g].mode # "move"
  /\ sweep.pc = "delete" => sweep.listing[grabs[sweep.cur].hash] = "absent"

\* A write to one row by a statement that leaves its flag alone.
FieldWrite(o) ==
  \E v : \/ grabs' = [grabs EXCEPT ![o] = [grabs[o] EXCEPT !.state = v]]
         \/ grabs' = [grabs EXCEPT ![o] = [grabs[o] EXCEPT !.mode = v]]
         \/ grabs' = [grabs EXCEPT ![o] = [grabs[o] EXCEPT !.gone = v]]
         \/ grabs' = [grabs EXCEPT ![o] = [grabs[o] EXCEPT !.aged = v]]
         \/ grabs' = [grabs EXCEPT ![o] = [grabs[o] EXCEPT !.seen = v]]
         \/ grabs' = [grabs EXCEPT ![o] = [grabs[o] EXCEPT !.state = v, !.done = TRUE]]

LEMMA FieldWriteKeeps ==
  ASSUME RowsTyped, NEW o \in Grabs, FieldWrite(o), NEW g \in Grabs
  PROVE  grabs'[g].ruled = grabs[g].ruled
  <1>1. CASE g # o
    BY <1>1 DEF FieldWrite, RowsTyped
  <1>2. CASE g = o
    <2>1. grabs[o] \in Row
      BY DEF RowsTyped
    <2>2. \E v : \/ grabs'[o] = [grabs[o] EXCEPT !.state = v]
                 \/ grabs'[o] = [grabs[o] EXCEPT !.mode = v]
                 \/ grabs'[o] = [grabs[o] EXCEPT !.gone = v]
                 \/ grabs'[o] = [grabs[o] EXCEPT !.aged = v]
                 \/ grabs'[o] = [grabs[o] EXCEPT !.seen = v]
                 \/ grabs'[o] = [grabs[o] EXCEPT !.state = v, !.done = TRUE]
      BY DEF FieldWrite, RowsTyped
    <2>3. QED
      BY <1>2, <2>1, <2>2 DEF Row
  <1>3. QED
    BY <1>1, <1>2

\* Only the insert of a row and its stamp write its flag.
LEMMA FlagsLeft ==
  ASSUME LedgerInv, [Next]_vars, NEW g \in Grabs,
         \A o \in Grabs : ~RecordInsert(o) /\ ~StampRules(o)
  PROVE  grabs'[g].ruled = grabs[g].ruled
  <1>1. TypeInv /\ RowsTyped /\ grabs[g] \in Row
    BY DEF LedgerInv, TypeInv, RowsTyped
  <1>2. CASE UNCHANGED grabs
    BY <1>2
  <1>3. ASSUME NEW o \in Grabs, FieldWrite(o)
        PROVE  grabs'[g].ruled = grabs[g].ruled
    BY <1>1, <1>3, FieldWriteKeeps
  <1>4. CASE TickStep
    <2>1. CASE \/ TickRemove \/ TickFail \/ TickAllFailed \/ TickFinish
               \/ TickSeen \/ TickMode \/ TickFreed
      <3>1. tick.cur \in Grabs
        BY <1>1, <2>1 DEF TickRemove, TickFail, TickAllFailed, TickFinish, TickSeen, TickMode,
                          TickFreed, At, TypeInv, RunTyped
      <3>2. UNCHANGED grabs \/ FieldWrite(tick.cur)
        BY <2>1 DEF TickRemove, TickFail, TickAllFailed, TickFinish, TickSeen, TickMode,
                    TickFreed, SetState, FieldWrite
      <3>3. QED
        BY <1>2, <1>3, <3>1, <3>2
    <2>2. CASE TickMark
      <3>1. tick.cur \in Grabs
        BY <1>1, <2>2 DEF TickMark, At, TypeInv, RunTyped
      <3>2. UNCHANGED grabs \/ FieldWrite(tick.cur)
        BY <1>1, <2>2, <3>1 DEF TickMark, MarkImported, FieldWrite, RowsTyped
      <3>3. QED
        BY <1>2, <1>3, <3>1, <3>2
    <2>3. CASE \E o \in Grabs : TickFlush(o)
      BY <1>3, <2>3 DEF TickFlush, SetState, FieldWrite
    <2>4. QED
      BY <1>2, <1>4, <2>1, <2>2, <2>3
      DEF TickStep, TickList, TickEnd, TickPick, TickUntag, TickFailTag, TickDrop, TickDiscard,
          TickImport, TickOlds, TickSwap, TickOld, TickOldGone, TickTag, TickFree, TickStall,
          TickFinishTag
  <1>5. CASE Loop \/ TickStart("force") \/ SweepStep
    <2>1. CASE SweepStamp
      <3>1. sweep.cur \in Grabs
        BY <1>1, <2>1 DEF SweepStamp, TypeInv, SweepTyped
      <3>2. FieldWrite(sweep.cur)
        BY <2>1 DEF SweepStamp, FieldWrite
      <3>3. QED
        BY <1>3, <3>1, <3>2
    <2>2. CASE SweepEnd
      <3>1. grabs'[g] = grabs[g] \/ grabs'[g] = [grabs[g] EXCEPT !.gone = TRUE]
        BY <2>2 DEF SweepEnd
      <3>2. QED
        BY <1>1, <3>1 DEF Row
    <2>3. QED
      BY <1>2, <1>5, <2>1, <2>2
      DEF Loop, TickStart, TickSkipped, SweepStart, SweepStep, SweepList, SweepPick, SweepDelete
  <1>6. CASE \E r \in Requests : RequestStep(r)
    <2>1. CASE \E r \in Requests : RequestMark(r)
      <3>1. PICK r \in Requests : RequestMark(r)
        BY <2>1
      <3>2. req[r].cur \in Grabs
        BY <1>1, <3>1 DEF RequestMark, RequestAt, TypeInv, AskingTyped
      <3>3. FieldWrite(req[r].cur)
        BY <3>1 DEF RequestMark, SetState, FieldWrite
      <3>4. QED
        BY <1>3, <3>2, <3>3
    <2>2. CASE \E r \in Requests : FailByName(r)
      <3>1. grabs'[g] = grabs[g] \/ grabs'[g] = [grabs[g] EXCEPT !.state = "failed"]
        BY <2>2 DEF FailByName
      <3>2. QED
        BY <1>1, <3>1 DEF Row
    <2>3. QED
      BY <1>2, <1>6, <2>1, <2>2
      DEF RequestStep, CancelStart, CancelDrift, CancelStuck, CancelRecheck, DeleteStart,
          DeleteUntag, RequestFind, RequestEnd, CancelClear, FailStart, RequestEach, RequestDelete
  <1>7. CASE Environment \/ UNCHANGED vars
    <2>1. CASE \E o \in Grabs : Ages(o)
      BY <1>3, <2>1 DEF Ages, FieldWrite
    <2>2. QED
      BY <1>2, <1>7, <2>1
      DEF Environment, SweepDue, GraceEnds, Restart, Download, SeedingDone, ClientError,
          RemovedOutside, Rest, vars
  <1>8. CASE \E o \in Grabs : RecordReactivate(o) \/ TagGrabbed(o) \/ \E h \in Hashes : GrabAdd(o, h)
    <2>1. CASE \E o \in Grabs : RecordReactivate(o)
      <3>1. \/ grabs'[g] = grabs[g]
            \/ grabs'[g] = [grabs[g] EXCEPT !.state = "pending", !.done = FALSE, !.gone = FALSE,
                                            !.aged = FALSE, !.seen = "no"]
        BY <2>1 DEF RecordReactivate
      <3>2. QED
        BY <1>1, <3>1 DEF Row
    <2>2. QED
      BY <1>2, <1>8, <2>1 DEF TagGrabbed, GrabAdd
  <1>9. QED
    BY <1>4, <1>5, <1>6, <1>7, <1>8 DEF Next, Handling

\* What the insert and the stamp write.
LEMMA FlagWrites ==
  ASSUME LedgerInv, SeedSetting, FlagsTrue, RowsHeld, NEW o \in Grabs, NEW g \in Grabs,
         RecordInsert(o) \/ StampRules(o)
  PROVE  /\ grabs[g].ruled => grabs'[g].ruled
         /\ grabs'[g].ruled => g \in Recorded /\ grabs[g].hash \in Ruled
  <1>1. RowsTyped /\ handler \in [Grabs -> Handler] /\ grabs[g] \in Row
    BY DEF LedgerInv, TypeInv, RowsTyped, HandlersTyped
  <1>2. CASE RecordInsert(o)
    <2> DEFINE new == [NoRow EXCEPT !.hash = handler[o].hash, !.state = "pending"]
    <2>1. new.ruled = FALSE
      BY DEF NoRow
    <2>2. UNCHANGED grabs \/ grabs' = [grabs EXCEPT ![o] = new]
      BY <1>2 DEF RecordInsert
    <2>3. o \notin Recorded
      BY <1>2 DEF RecordInsert, LedgerInv, UnrecordedYet, Recorded
    <2> HIDE DEF new
    <2>4. grabs'[g] = grabs[g] \/ (g = o /\ grabs'[g] = new)
      BY <1>1, <2>2 DEF RowsTyped
    <2>5. QED
      BY <2>1, <2>3, <2>4 DEF FlagsTrue
  <1>3. CASE StampRules(o)
    <2> DEFINE row == handler[o].row
    <2>1. row \in Recorded /\ row \in Grabs /\ grabs[row].hash = handler[o].hash
      BY <1>3 DEF StampRules, RowsHeld, Recorded
    <2>2. grabs' = [grabs EXCEPT ![row] =
                      [grabs[row] EXCEPT !.ruled = (handler[o].hash \in Ruled)]]
      BY <1>3 DEF StampRules, SeedSetting
    <2>3. \A v : [grabs[g] EXCEPT !.ruled = v].ruled = v
      BY <1>1 DEF Row
    <2>4. \/ g # row /\ grabs'[g] = grabs[g]
          \/ g = row /\ grabs'[g] = [grabs[g] EXCEPT !.ruled = (handler[o].hash \in Ruled)]
      BY <1>1, <2>1, <2>2 DEF RowsTyped
    <2> HIDE DEF row
    <2>5. CASE g # row /\ grabs'[g] = grabs[g]
      BY <2>5 DEF FlagsTrue
    <2>6. CASE g = row /\ grabs'[g] = [grabs[g] EXCEPT !.ruled = (handler[o].hash \in Ruled)]
      <3>1. grabs'[g].ruled = (handler[o].hash \in Ruled)
        BY <2>3, <2>6
      <3>2. QED
        BY <2>1, <2>6, <3>1 DEF FlagsTrue
    <2>7. QED
      BY <2>4, <2>5, <2>6
  <1>4. QED
    BY <1>2, <1>3

LEMMA FlagsNext ==
  ASSUME LedgerInv, SeedSetting, FlagsTrue, RowsHeld, [Next]_vars
  PROVE  /\ FlagsTrue'
         /\ \A g \in Grabs : grabs[g].ruled => grabs'[g].ruled /\ grabs'[g].hash = grabs[g].hash
         /\ \A h \in Hashes : Flagged(h) => Flagged(h)'
  <1>1. ASSUME NEW g \in Grabs
        PROVE  /\ grabs[g].ruled => grabs'[g].ruled
               /\ grabs'[g].ruled => g \in Recorded /\ grabs[g].hash \in Ruled
    <2>1. CASE \E o \in Grabs : RecordInsert(o) \/ StampRules(o)
      BY <2>1, FlagWrites
    <2>2. CASE \A o \in Grabs : ~RecordInsert(o) /\ ~StampRules(o)
      BY <2>2, FlagsLeft DEF FlagsTrue
    <2>3. QED
      BY <2>1, <2>2
  <1>2. Recorded \subseteq Recorded' /\ \A g \in Recorded : grabs'[g].hash = grabs[g].hash
    BY RecordedStay
  <1>3. QED
    BY <1>1, <1>2 DEF FlagsTrue, Flagged

LEMMA RowsHeldNext ==
  ASSUME LedgerInv, RowsHeld, [Next]_vars
  PROVE  RowsHeld'
  <1>1. Recorded \subseteq Recorded' /\ \A g \in Recorded : grabs'[g].hash = grabs[g].hash
    BY RecordedStay
  <1>2. handler \in [Grabs -> Handler] /\ RowsTyped
    BY DEF LedgerInv, TypeInv, HandlersTyped
  <1> SUFFICES ASSUME NEW g \in Grabs, handler'[g].row # NoGrab
               PROVE  handler'[g].row \in Recorded' /\ grabs'[handler'[g].row].hash = handler'[g].hash
    BY DEF RowsHeld
  <1>3. CASE handler'[g].row = handler[g].row /\ handler'[g].hash = handler[g].hash
    BY <1>1, <1>3 DEF RowsHeld
  <1>4. CASE Restart
    <2>1. handler'[g] = handler[g] \/ handler'[g] = [handler[g] EXCEPT !.pc = "lost", !.row = NoGrab]
      BY <1>4 DEF Restart
    <2>2. QED
      BY <1>2, <1>3, <2>1 DEF Handler
  <1>5. CASE \E o \in Grabs : Handling(o) \/ \E h \in Hashes : GrabAdd(o, h)
    <2>1. PICK o \in Grabs : Handling(o) \/ \E h \in Hashes : GrabAdd(o, h)
      BY <1>5
    <2>2. CASE g # o
      <3>1. handler'[g] = handler[g]
        BY <1>2, <2>1, <2>2
        DEF Handling, RecordInsert, RecordReactivate, StampRules, TagGrabbed, GrabAdd
      <3>2. QED
        BY <1>3, <3>1
    <2>3. CASE g = o /\ (StampRules(o) \/ TagGrabbed(o) \/ \E h \in Hashes : GrabAdd(o, h))
      <3>1. handler[g] \in Handler
        BY <1>2
      <3>2. CASE StampRules(o)
        BY <1>2, <1>3, <2>3, <3>2 DEF StampRules, Handler
      <3>3. CASE TagGrabbed(o)
        BY <1>2, <2>3, <3>3 DEF TagGrabbed, Handler
      <3>4. CASE \E h \in Hashes : GrabAdd(o, h)
        BY ZenonT(40), <1>2, <2>3, <3>4 DEF GrabAdd, NoHandler
      <3>5. QED
        BY <2>3, <3>2, <3>3, <3>4
    <2>4. CASE g = o /\ RecordInsert(o)
      <3>1. CASE handler' = [handler EXCEPT ![g].pc = "dup"]
        BY <1>2, <1>3, <3>1 DEF Handler
      <3>2. CASE handler' # [handler EXCEPT ![g].pc = "dup"]
        <4> DEFINE new == [NoRow EXCEPT !.hash = handler[g].hash, !.state = "pending"]
        <4>1. new.state = "pending" /\ new.hash = handler[g].hash
          BY DEF NoRow
        <4>2. grabs' = [grabs EXCEPT ![g] = new]
              /\ handler' = [handler EXCEPT ![g].pc = "recorded", ![g].row = g]
          BY <2>4, <3>2 DEF RecordInsert
        <4>3. handler'[g].row = g /\ handler'[g].hash = handler[g].hash
          BY <1>2, <4>2 DEF Handler
        <4> HIDE DEF new
        <4>4. grabs'[g] = new
          BY <1>2, <4>2 DEF RowsTyped
        <4>5. QED
          BY <4>1, <4>3, <4>4 DEF Recorded
      <3>3. QED
        BY <3>1, <3>2
    <2>5. CASE g = o /\ RecordReactivate(o)
      <3>1. PICK row \in {NoGrab} \cup {other \in InState("imported") : grabs[other].hash = handler[g].hash} :
              handler' = [handler EXCEPT ![g].pc = "recorded", ![g].row = row]
        BY <2>5 DEF RecordReactivate
      <3>2. handler'[g].row = row /\ handler'[g].hash = handler[g].hash
        BY <1>2, <3>1 DEF Handler
      <3>3. row \in Recorded /\ grabs[row].hash = handler[g].hash
        BY <3>1, <3>2 DEF InState, Recorded
      <3>4. QED
        BY <1>1, <3>2, <3>3
    <2>6. QED
      BY <2>1, <2>2, <2>3, <2>4, <2>5 DEF Handling
  <1>6. CASE UNCHANGED handler
    BY <1>3, <1>6
  <1>7. QED
    BY <1>4, <1>5, <1>6, RunApart, SweepApart, RequestApart, WorldApart DEF Next, Loop

LEMMA SeedBegins == Init => SeedInv
  <1> SUFFICES ASSUME Init
               PROVE  SeedInv
    OBVIOUS
  <1>1. sweep.pc = "idle" /\ sweep.todo = {}
    BY DEF Init, NoSweep
  <1>2. \A g \in Grabs : grabs[g].mode = "" /\ grabs[g].ruled = FALSE /\ handler[g].row = NoGrab
    BY DEF Init, NoRow, NoHandler
  <1>3. QED
    BY <1>1, <1>2 DEF SeedInv, SweepHolds, FlagsTrue, RowsHeld

LEMMA ModeNext ==
  ASSUME LedgerInv, SeedSetting, [Next]_vars, NEW g \in Grabs, grabs[g].mode # "move"
  PROVE  grabs'[g].mode # "move"
  <1>1. TypeInv
    BY DEF LedgerInv
  <1>2. CASE TickMark
    BY <1>1, <1>2, MarkWrites
  <1>3. CASE TickMode
    BY <1>1, <1>3, MarkWrites DEF SeedSetting
  <1>4. CASE TickFinish
    <2>1. CASE grabs' = [grabs EXCEPT ![tick.cur].state = "imported"]
      <3>1. grabs[g] \in Row
        BY <1>1 DEF TypeInv, RowsTyped
      <3>2. CASE g = tick.cur
        <4>1. grabs'[g] = [grabs[g] EXCEPT !.state = "imported"]
          BY <1>1, <2>1, <3>2 DEF TypeInv, RowsTyped
        <4>2. QED
          BY <3>1, <4>1, StateRows
      <3>3. CASE g # tick.cur
        BY <1>1, <2>1, <3>3 DEF TypeInv, RowsTyped
      <3>4. QED
        BY <3>2, <3>3
    <2>2. QED
      BY <1>4, <2>1 DEF TickFinish, SetState
  <1>5. CASE ~TickMark /\ ~TickMode /\ ~TickFinish
    BY <1>5, RowsLeft DEF RowLeft
  <1>6. QED
    BY <1>2, <1>3, <1>4, <1>5

\* What a decision to delete leaves alone: nothing it decides now takes a torrent whose rows
\* carry the flag, and the sweep's listing is no excuse for one that seeds.
LEMMA RunSpares ==
  ASSUME LedgerInv, SeedSetting, NEW h \in Hashes \ Usenet, Protected(h), [Next]_vars,
         TickStep \/ (\E by \in {"loop", "force"} : TickStart(by)) \/ TickSkipped
  PROVE  /\ item'[h] = item[h] /\ UNCHANGED sweep
         /\ ~(At("discard") /\ CurHash = h)'
         /\ ~(At("oldgo") /\ grabs[tick.old].hash = h)'
  <1>1. TypeInv /\ tick \in Tick /\ item \in [Hashes -> ItemState]
    BY DEF LedgerInv, TypeInv, RunTyped, ClientTyped
  <1>2. Spared(h) = {TRUE}
    BY DEF Protected, SeedSetting, Spared
  <1>3. UNCHANGED sweep
    BY RunApart
  <1>4. item'[h] = item[h]
    <2>1. CASE UNCHANGED item
      BY <2>1
    <2>2. CASE TickDiscard
      <3>1. CurHash # h
        BY <2>2 DEF TickDiscard, Protected, Exposed
      <3>2. QED
        BY <1>1, <2>2, <3>1 DEF TickDiscard, Deleted, DeleteFails
    <2>3. CASE TickOldGone
      <3>1. grabs[tick.old].hash # h
        BY <2>3 DEF TickOldGone, Protected, Exposed
      <3>2. QED
        BY <1>1, <2>3, <3>1 DEF TickOldGone, Deleted, DeleteFails
    <2>4. CASE TickFree
      <3>1. CASE FreedByImport(CurHash) /\ Deleted(CurHash)
        BY <1>1, <3>1 DEF FreedByImport, SeedSetting, Deleted
      <3>2. QED
        BY <2>1, <2>4, <3>1 DEF TickFree, DeleteFails, ClientVars
    <2>5. QED
      BY <2>1, <2>2, <2>3, <2>4
      DEF TickStep, TickStart, TickSkipped, TickList, TickEnd, TickPick, TickRemove, TickUntag,
          TickFail, TickFailTag, TickDrop, TickSeen, TickImport, TickOlds, TickSwap, TickOld,
          TickTag, TickMark, TickFlush, TickMode, TickFreed, TickStall, TickAllFailed,
          TickFinish, TickFinishTag, ClientVars
  <1>5. tick'.pc = "discard" => TickDrop \/ UNCHANGED tick
    <2>1. CASE \E g \in Grabs : TickPick(g)
      BY <1>1, <2>1 DEF TickPick, Verdict, Tick
    <2>2. CASE TickList \/ TickEnd
      <3>1. tick'.pc = "pick" \/ tick' = NoTick
        BY <1>1, <2>2 DEF TickList, TickEnd, EndRun, Tick
      <3>2. QED
        BY <3>1, NoTickTyped
    <2>3. CASE TickSkipped \/ \E by \in {"loop", "force"} : TickStart(by)
      BY <2>3, StartsAtList DEF TickSkipped
    <2>4. CASE \/ TickRemove \/ TickUntag \/ TickFail \/ TickFailTag \/ TickDiscard \/ TickSeen
               \/ TickImport \/ TickOlds \/ TickSwap
      BY <1>1, <2>4
      DEF TickRemove, TickUntag, TickFail, TickFailTag, TickDiscard, TickSeen, TickImport,
          TickOlds, TickSwap, Goto, NextRow, Tick
    <2>5. CASE \/ TickTag \/ TickMark \/ TickMode \/ TickFree \/ TickFreed \/ TickStall
               \/ TickAllFailed \/ TickFinish \/ TickFinishTag
      BY <1>1, <2>5
      DEF TickTag, TickMark, TickMode, TickFree, TickFreed, TickStall, TickAllFailed, TickFinish,
          TickFinishTag, Goto, NextRow, Tick
    <2>6. CASE TickOldGone \/ \E g \in Grabs : TickOld(g) \/ TickFlush(g)
      BY <1>1, <2>6 DEF TickOldGone, TickOld, TickFlush, At, Tick
    <2>7. QED
      BY <2>1, <2>2, <2>3, <2>4, <2>5, <2>6 DEF TickStep
  <1>6. ~(At("discard") /\ CurHash = h)'
    <2> SUFFICES ASSUME tick'.pc = "discard", grabs'[tick'.cur].hash = h
                 PROVE  FALSE
      BY DEF At, CurHash
    <2>1. CASE UNCHANGED tick
      <3>1. CurHash' = CurHash
        BY <2>1, CurKept
      <3>2. QED
        BY <2>1, <3>1 DEF Protected, Exposed, At, CurHash
    <2>2. CASE TickDrop
      <3>1. tick.pc = "drop" /\ tick'.cur = tick.cur /\ grabs' = grabs
        BY <1>1, <2>2 DEF TickDrop, At, Goto, NextRow, Tick
      <3>2. CurHash = h
        BY <3>1 DEF CurHash
      <3>3. tick' = NextRow
        BY <1>2, <2>2, <3>2 DEF TickDrop
      <3>4. QED
        BY <1>1, <3>3 DEF NextRow, Tick
    <2>3. QED
      BY <1>5, <2>1, <2>2
  <1>7. ~(At("oldgo") /\ grabs[tick.old].hash = h)'
    <2> SUFFICES ASSUME tick'.pc = "oldgo", grabs'[tick'.old].hash = h
                 PROVE  FALSE
      BY DEF At
    <2>1. CASE UNCHANGED tick
      <3>1. tick.old \in Recorded
        BY <1>1, <2>1, ConstantsAssumption DEF TypeInv, RunTyped
      <3>2. grabs'[tick.old].hash = grabs[tick.old].hash
        BY <3>1, RecordedStay
      <3>3. QED
        BY <2>1, <3>2 DEF Protected, Exposed, At
    <2>2. CASE \E by \in {"loop", "force"} : TickStart(by)
      BY <2>1, <2>2, StartsAtList
    <2>3. CASE TickStep
      <3>1. PICK g \in Grabs : TickOld(g)
        BY <1>1, <2>3, RunPhases
      <3>2. grabs' = grabs /\ tick.pc = "old"
        BY <3>1 DEF TickOld, At
      <3>3. tick'.old = g
        BY <1>1, <3>1, <3>2 DEF TickOld, Tick
      <3>4. grabs[g].hash = h
        BY <3>2, <3>3
      <3>5. PICK spared \in Spared(grabs[g].hash) :
              tick' = IF spared THEN [tick EXCEPT !.olds = @ \ {g}, !.flush = @ \cup {g}]
                      ELSE [tick EXCEPT !.olds = @ \ {g}, !.flush = @ \cup {g}, !.pc = "oldgo",
                                        !.old = g]
        BY <3>1, Zenon DEF TickOld
      <3>6. tick' = [tick EXCEPT !.olds = @ \ {g}, !.flush = @ \cup {g}]
        <4>1. spared = TRUE
          BY <1>2, <3>4
        <4>2. QED
          BY <3>5, <4>1, Zenon
      <3>7. QED
        BY <1>1, <3>2, <3>6 DEF Tick
    <2>4. QED
      BY <2>1, <2>2, <2>3 DEF TickSkipped
  <1>8. QED
    BY <1>3, <1>4, <1>6, <1>7

LEMMA RequestSpares ==
  ASSUME LedgerInv, SeedSetting, NEW h \in Hashes \ Usenet, Protected(h), [Next]_vars,
         NEW r \in Requests, RequestStep(r)
  PROVE  /\ item'[h] = item[h] /\ UNCHANGED <<sweep, tick>>
         /\ \A q \in Requests : ~(RequestAt(q, "delete") /\ grabs[req[q].cur].hash = h)'
  <1>1. TypeInv /\ req \in [Requests -> Request] /\ item \in [Hashes -> ItemState]
    BY DEF LedgerInv, TypeInv, AskingTyped, ClientTyped
  <1>2. Spared(h) = {TRUE}
    BY DEF Protected, SeedSetting, Spared
  <1>3. UNCHANGED <<sweep, tick>>
    BY RequestApart
  <1>4. \A q \in Requests \ {r} : req'[q] = req[q]
    BY <1>1 DEF RequestStep, CancelStart, CancelDrift, CancelStuck, CancelRecheck, DeleteStart,
       DeleteUntag, FailByName, RequestFind, RequestDelete, RequestMark, RequestEnd, CancelClear,
       FailStart, RequestEach
  <1>5. item'[h] = item[h]
    <2>1. CASE UNCHANGED item
      BY <2>1
    <2>2. CASE RequestDelete(r)
      <3>1. grabs[req[r].cur].hash # h
        BY <2>2 DEF RequestDelete, Protected, Exposed
      <3>2. QED
        BY <1>1, <2>2, <3>1 DEF RequestDelete, Deleted
    <2>3. QED
      BY <2>1, <2>2
      DEF RequestStep, CancelStart, CancelDrift, CancelStuck, CancelRecheck, DeleteStart,
          DeleteUntag, FailByName, RequestFind, RequestMark, RequestEnd, CancelClear, FailStart,
          RequestEach, ClientVars
  <1>6. req'[r].pc = "delete" => req'[r] = req[r] \/ \E g \in Grabs : RequestEach(r, g)
    <2>1. req[r] \in Request
      BY <1>1
    <2>2. CASE CancelStart(r) \/ CancelDrift(r) \/ CancelStuck(r) \/ CancelRecheck(r) \/ CancelClear(r)
      <3>1. CASE CancelStart(r) \/ CancelClear(r)
        <4>1. req'[r].pc \in {"drift", "ended"}
          BY <1>1, <3>1 DEF CancelStart, CancelClear, NoRequest, EndedRequest
        <4>2. QED
          BY <4>1
      <3>2. CASE CancelDrift(r)
        <4>1. req'[r].pc \in {"stuck", "ended", "each"}
          BY <1>1, <2>1, <3>2 DEF CancelDrift, NoRequest, EndedRequest, Request
        <4>2. QED
          BY <4>1
      <3>3. CASE CancelStuck(r) \/ CancelRecheck(r)
        <4>1. req'[r].pc \in {"recheck", "each"}
          BY <1>1, <2>1, <3>3 DEF CancelStuck, CancelRecheck, Request
        <4>2. QED
          BY <4>1
      <3>4. QED
        BY <2>2, <3>1, <3>2, <3>3
    <2>3. CASE DeleteStart(r) \/ DeleteUntag(r) \/ FailByName(r) \/ \E k \in Hashes : FailStart(r, k)
      <3>1. CASE DeleteStart(r) \/ \E k \in Hashes : FailStart(r, k)
        <4>1. req'[r].pc \in {"untag", "byname", "find"}
          BY ZenonT(40), <1>1, <3>1 DEF DeleteStart, FailStart, NoRequest
        <4>2. QED
          BY <4>1
      <3>2. CASE DeleteUntag(r) \/ FailByName(r)
        <4>1. req'[r].pc = "find"
          BY <1>1, <2>1, <3>2 DEF DeleteUntag, FailByName, Request
        <4>2. QED
          BY <4>1
      <3>3. QED
        BY <2>3, <3>1, <3>2
    <2>4. CASE RequestFind(r) \/ RequestMark(r) \/ RequestEnd(r) \/ RequestDelete(r)
      BY ZenonT(40), <1>1, <2>1, <2>4
      DEF RequestFind, RequestMark, RequestEnd, RequestDelete, NoRequest, EndedRequest, Request
    <2>5. QED
      BY <2>2, <2>3, <2>4 DEF RequestStep
  <1>7. ASSUME NEW q \in Requests, req'[q] = req[q], req'[q].pc = "delete",
               grabs'[req'[q].cur].hash = h
        PROVE  FALSE
    <2>1. req[q].cur \in Recorded
      BY <1>1, <1>7, ConstantsAssumption DEF TypeInv, AskingTyped
    <2>2. grabs'[req[q].cur].hash = grabs[req[q].cur].hash
      BY <2>1, RecordedStay
    <2>3. QED
      BY <1>7, <2>2 DEF Protected, Exposed, RequestAt
  <1>8. ASSUME NEW g \in Grabs, RequestEach(r, g), req'[r].pc = "delete",
               grabs'[req'[r].cur].hash = h
        PROVE  FALSE
    <2>1. req[r] \in Request /\ req[r].op # "cancel" /\ grabs' = grabs
      BY <1>1, <1>8 DEF RequestEach, Request, SeedSetting
    <2>2. PICK spared \in Spared(grabs[g].hash) :
            req' = [req EXCEPT ![r] =
              [req[r] EXCEPT !.found = @ \ {g}, !.pc = Fate(req[r].op, g, spared),
                             !.cur = IF Fate(req[r].op, g, spared) = "each" THEN NoGrab ELSE g]]
      BY <1>1, <1>8 DEF RequestEach
    <2>3. Fate(req[r].op, g, spared) = "delete" /\ req'[r].cur = g
      BY <1>1, <1>8, <2>1, <2>2 DEF Request
    <2>4. spared = TRUE
      BY <1>2, <1>8, <2>1, <2>2, <2>3
    <2>5. QED
      BY <2>1, <2>3, <2>4 DEF Fate
  <1>9. \A q \in Requests : ~(RequestAt(q, "delete") /\ grabs[req[q].cur].hash = h)'
    BY <1>4, <1>6, <1>7, <1>8 DEF RequestAt
  <1>10. QED
    BY <1>3, <1>5, <1>9

\* The client's view of a protected torrent: only the sweep takes it out, and only once it
\* has stopped seeding.
LEMMA ProtectedMoves ==
  ASSUME LedgerInv, SeedSetting, NEW h \in Hashes \ Usenet, Protected(h), [Next]_vars,
         item'[h] # item[h]
  PROVE  \/ item[h] = "absent" /\ item'[h] = "downloading"
         \/ item[h] = "downloading" /\ item'[h] = "complete"
         \/ item[h] = "complete" /\ item'[h] = "seeded"
         \/ item'[h] = "errored"
         \/ SweepDelete /\ grabs[sweep.cur].hash = h
  <1>1. item \in [Hashes -> ItemState]
    BY DEF LedgerInv, TypeInv, ClientTyped
  <1>2. CASE \E g \in Grabs : Handling(g) \/ \E k \in Hashes : GrabAdd(g, k)
    BY <1>1, <1>2 DEF Handling, RecordInsert, RecordReactivate, StampRules, TagGrabbed, GrabAdd
  <1>3. CASE SweepStart \/ SweepStep
    BY <1>1, <1>3
    DEF SweepStart, SweepStep, SweepList, SweepPick, SweepDelete, SweepStamp, SweepEnd,
        ClientVars, Deleted, DeleteFails
  <1>4. CASE Environment \/ UNCHANGED vars
    <2>1. CASE \E k \in Hashes : Download(k) \/ SeedingDone(k) \/ ClientError(k)
      BY <1>1, <2>1 DEF Download, SeedingDone, ClientError
    <2>2. QED
      BY <1>4, <2>1
      DEF Environment, SweepDue, GraceEnds, Restart, RemovedOutside, Ages, Rest, vars,
          ClientVars, SeedSetting
  <1>5. QED
    BY <1>2, <1>3, <1>4, RunSpares, RequestSpares DEF Next, Loop

\* A deletion decided upon before, and not by the sweep, is not overtaken by one of now.
LEMMA DecidedNext ==
  ASSUME LedgerInv, SeedSetting, NEW h \in Hashes \ Usenet, Protected(h), [Next]_vars
  PROVE  /\ ~(At("discard") /\ CurHash = h)'
         /\ ~(At("oldgo") /\ grabs[tick.old].hash = h)'
         /\ \A r \in Requests : ~(RequestAt(r, "delete") /\ grabs[req[r].cur].hash = h)'
  <1>1. TypeInv /\ req \in [Requests -> Request]
    BY DEF LedgerInv, TypeInv, AskingTyped
  <1>2. ASSUME UNCHANGED tick
        PROVE  /\ ~(At("discard") /\ CurHash = h)'
               /\ ~(At("oldgo") /\ grabs[tick.old].hash = h)'
    <2>1. ASSUME tick.pc = "oldgo" PROVE grabs'[tick.old].hash = grabs[tick.old].hash
      <3>1. tick.old \in Recorded
        BY <1>1, <2>1, ConstantsAssumption DEF TypeInv, RunTyped
      <3>2. QED
        BY <3>1, RecordedStay
    <2>2. tick.pc = "discard" => CurHash' = CurHash
      BY <1>2, CurKept
    <2>3. QED
      BY <1>2, <2>1, <2>2 DEF Protected, Exposed, At
  <1>3. ASSUME UNCHANGED req
        PROVE  \A r \in Requests : ~(RequestAt(r, "delete") /\ grabs[req[r].cur].hash = h)'
    <2> SUFFICES ASSUME NEW r \in Requests, req[r].pc = "delete", grabs'[req[r].cur].hash = h
                 PROVE  FALSE
      BY <1>3 DEF RequestAt
    <2>1. req[r].cur \in Recorded
      BY <1>1, ConstantsAssumption DEF TypeInv, AskingTyped
    <2>2. grabs'[req[r].cur].hash = grabs[req[r].cur].hash
      BY <2>1, RecordedStay
    <2>3. QED
      BY <2>2 DEF Protected, Exposed, RequestAt
  <1>4. CASE Restart
    <2>1. tick'.pc = "idle"
      BY <1>4, NoTickTyped DEF Restart
    <2>2. \A r \in Requests : req'[r].pc # "delete"
      BY <1>1, <1>4 DEF Restart, EndedRequest, NoRequest, RequestAt
    <2>3. QED
      BY <2>1, <2>2 DEF At, RequestAt
  <1>5. CASE TickStep \/ (\E by \in {"loop", "force"} : TickStart(by)) \/ TickSkipped
    BY <1>3, <1>5, RunSpares, RunApart
  <1>6. CASE \E r \in Requests : RequestStep(r)
    BY <1>2, <1>6, RequestSpares
  <1>7. CASE UNCHANGED <<tick, req>>
    BY <1>2, <1>3, <1>7
  <1>8. CASE (Environment /\ ~Restart) \/ UNCHANGED vars
    BY <1>7, <1>8
    DEF Environment, SweepDue, GraceEnds, Download, SeedingDone, ClientError, RemovedOutside,
        Ages, Rest, vars
  <1>9. QED
    BY <1>4, <1>5, <1>6, <1>7, <1>8, GrabApart, SweepApart DEF Next, Loop

\* What the sweep listed, and what it is about to delete.
Listed(h) ==
  (sweep.listing[h] = "seeded" \/ (sweep.pc = "delete" /\ grabs[sweep.cur].hash = h)) => SeedsOut(h)

LEMMA SweepNext ==
  ASSUME LedgerInv, SeedSetting, SeedInv, [Next]_vars
  PROVE  /\ sweep'.pc = "delete" => sweep'.listing[grabs'[sweep'.cur].hash] = "absent"
         /\ \A h \in Hashes \ Usenet : Protected(h) => Listed(h)'
  <1>1. TypeInv /\ sweep \in Sweep
    BY DEF LedgerInv, TypeInv, SweepTyped
  <1>2. ASSUME NEW h \in Hashes \ Usenet, Protected(h)
        PROVE  Listed(h) /\ (SeedsOut(h) => SeedsOut(h)' \/ (SweepDelete /\ grabs[sweep.cur].hash = h))
    BY <1>2, ProtectedMoves DEF Listed, SeedsOut, Protected, Exposed
  <1>3. ASSUME sweep'.pc # "delete", \A h \in Hashes : sweep'.listing[h] # "seeded"
        PROVE  /\ sweep'.pc = "delete" => sweep'.listing[grabs'[sweep'.cur].hash] = "absent"
               /\ \A h \in Hashes \ Usenet : Protected(h) => Listed(h)'
    BY <1>3 DEF Listed
  <1>4. CASE UNCHANGED sweep
    <2>1. sweep.pc = "delete" => grabs'[sweep.cur].hash = grabs[sweep.cur].hash
      BY RecordedStay DEF SeedInv, SweepHolds
    <2>2. ~SweepDelete
      BY <1>1, <1>4 DEF SweepDelete, NextSwept, Sweep
    <2>3. QED
      BY <1>2, <1>4, <2>1, <2>2 DEF SeedInv, Listed
  <1>5. CASE sweep' = NoSweep \/ SweepEnd
    BY <1>3, <1>5 DEF SweepEnd, NoSweep, NoListing
  <1>6. CASE SweepStart
    BY <1>3, <1>4, <1>6 DEF SweepStart, NoSweep, NoListing
  <1>7. CASE SweepList
    <2>1. CASE sweep' = [sweep EXCEPT !.pc = "pick", !.listing = Listing(sweep.todo)]
      <3>1. sweep'.pc = "pick" /\ \A h \in Hashes : sweep'.listing[h] \in {item[h], "absent"}
        BY <1>1, <2>1 DEF Sweep, Listing
      <3>2. item' = item
        BY <1>7 DEF SweepList, ClientVars
      <3>3. QED
        BY <3>1, <3>2 DEF SeedsOut, Listed
    <2>2. QED
      BY <1>5, <1>7, <2>1 DEF SweepList
  <1>8. CASE SweepStamp
    <2>1. sweep'.pc = "pick" /\ sweep'.listing = sweep.listing
      BY <1>1, <1>8 DEF SweepStamp, NextSwept, Sweep
    <2>2. ~SweepDelete
      BY <1>8 DEF SweepStamp, SweepDelete
    <2>3. QED
      BY <1>2, <2>1, <2>2 DEF Listed
  <1>9. CASE SweepDelete
    <2>1. sweep'.pc # "delete" /\ sweep'.listing = sweep.listing /\ sweep.pc = "delete"
      BY <1>1, <1>9 DEF SweepDelete, NextSwept, Sweep
    <2>2. QED
      BY <1>2, <2>1 DEF SeedInv, Listed
  <1>10. CASE \E g \in Grabs : SweepPick(g)
    <2>1. PICK g \in Grabs : SweepPick(g)
      BY <1>10
    <2>2. sweep.pc = "pick" /\ item' = item /\ grabs' = grabs
      BY <2>1 DEF SweepPick, ClientVars
    <2>3. \A h \in Hashes : sweep'.listing[h] = IF grabs[g].hash = h THEN "absent" ELSE sweep.listing[h]
      BY <1>1, <2>1 DEF SweepPick, Sweep, Unlisted
    <2>4. sweep'.pc = "delete" => sweep'.cur = g /\ Finished(g) /\ grabs[g].hash \in Hashes
      <3>1. g \in Recorded
        BY <2>1 DEF SweepPick, SeedInv, SweepHolds
      <3>2. grabs[g].hash \in Hashes
        BY <1>1, <3>1 DEF TypeInv, RowsTyped, Recorded
      <3>3. QED
        BY <1>1, <2>1, <2>2, <3>2 DEF SweepPick, Sweep
    <2>5. ~SourceGone(g)
      BY DEF SourceGone, SeedInv, SeedSetting
    <2>6. sweep'.pc = "delete" => sweep'.listing[grabs'[sweep'.cur].hash] = "absent"
      BY <2>2, <2>3, <2>4
    <2>7. ASSUME NEW h \in Hashes \ Usenet, Protected(h)
          PROVE  Listed(h)'
      <3>1. sweep'.pc = "delete" /\ grabs[g].hash = h => sweep.listing[h] = "seeded"
        BY <2>4, <2>5 DEF Finished
      <3>2. SeedsOut(h)' <=> SeedsOut(h)
        BY <2>2 DEF SeedsOut
      <3>3. QED
        BY <1>2, <2>2, <2>3, <2>4, <2>7, <3>1, <3>2 DEF Listed
    <2>8. QED
      BY <2>6, <2>7
  <1>11. QED
    BY <1>4, <1>5, <1>6, <1>7, <1>8, <1>9, <1>10, SweepSteps DEF SweepStep

LEMMA SeedNext ==
  ASSUME LedgerInv, SeedSetting, SeedInv, [Next]_vars
  PROVE  SeedInv'
  <1>1. SweepHolds' /\ \A g \in Grabs : grabs'[g].mode # "move"
    BY SweepHoldsNext, ModeNext DEF SeedInv
  <1>2. FlagsTrue' /\ RowsHeld'
    BY FlagsNext, RowsHeldNext DEF SeedInv
  <1>3. QED
    BY <1>1, <1>2, SweepNext DEF SeedInv

\* Once a row of a torrent carries respect_seed_rules and no deletion from before the stamp is
\* on its way, no upgrade, no deleted episode, no failed mark and no import ever takes it out
\* of the client while it seeds its files, however its rows are closed, recorded anew and
\* stamped again, and the sweep does so only once it has stopped seeding, however old the
\* listing is that the sweep works from.  A cancelled grab is the exception, and so is a flag
\* that cannot be read or written when somebody asks.
THEOREM SeedRulesRespected ==
  ASSUME SeedSetting
  PROVE  Spec => SeedRulesKept
  <1>1. LedgerInv /\ SeedInv /\ [Next]_vars => SeedInv'
    BY SeedNext
  <1>2. ASSUME LedgerInv, SeedInv, [Next]_vars
        PROVE  [\A h \in Hashes \ Usenet : Protected(h) =>
                  /\ Protected(h)'
                  /\ ~ (item[h] = "complete" /\ h \in source /\ item'[h] = "absent")]_vars
    <2>1. ASSUME NEW h \in Hashes \ Usenet, Protected(h)
          PROVE  Protected(h)' /\ ~(item[h] = "complete" /\ item'[h] = "absent")
      <3>1. Flagged(h)'
        BY <1>2, <2>1, FlagsNext DEF Protected, SeedInv
      <3>2. ~Exposed(h)'
        <4>1. Listed(h)'
          BY <1>2, <2>1, SweepNext
        <4>2. QED
          BY <1>2, <2>1, <4>1, DecidedNext DEF Exposed, Listed, SeedsOut
      <3>3. ~(item[h] = "complete" /\ item'[h] = "absent")
        <4> SUFFICES ASSUME item[h] = "complete", item'[h] = "absent"
                     PROVE  FALSE
          OBVIOUS
        <4>1. ~(SweepDelete /\ grabs[sweep.cur].hash = h)
          BY <2>1 DEF SweepDelete, Protected, Exposed
        <4>2. QED
          BY <1>2, <2>1, <4>1, ProtectedMoves
      <3>4. QED
        BY <3>1, <3>2, <3>3 DEF Protected
    <2>2. QED
      BY <2>1
  <1>3. QED
    BY <1>1, <1>2, SeedBegins, LedgerInvariant, PTL DEF Spec, SeedRulesKept

-------------------------------------------------------------------------------
(* A partial import: what keeps the tick and the sweep apart *)

\* Post-processing is on, nobody forces a run, and the process does not restart.
SoloSetting == PostProcessing /\ ~Forced /\ "restart" \notin Faults

\* The loop is in the tick while a run is, and in the sweep while a sweep is.
Alone ==
  /\ sweep.pc # "idle" => loop = "sweep"
  /\ tick.pc # "idle" => loop = "tick" /\ tick.by = "loop"

\* How a run goes on
LEMMA RunKeeps ==
  ASSUME TypeInv, TickStep
  PROVE  \/ tick' = NoTick
         \/ \E g \in Grabs : TickPick(g)
         \/ tick'.pc = "pick" /\ tick'.by = tick.by /\ tick'.todo = tick.todo
            /\ tick'.cur \in {tick.cur, NoGrab}
         \/ tick'.by = tick.by /\ tick'.todo = tick.todo /\ tick'.cur = tick.cur
            /\ tick.pc \notin {"idle", "list", "pick"}
  <1> USE DEF At, Goto, NextRow, Tick
  <1>1. tick \in Tick
    BY DEF TypeInv, RunTyped
  <1>2. CASE TickList \/ TickEnd
    BY <1>1, <1>2 DEF TickList, TickEnd, EndRun
  <1>3. CASE TickRemove \/ TickUntag \/ TickFail \/ TickFailTag \/ TickDrop \/ TickDiscard
             \/ TickSeen
    BY <1>1, <1>3 DEF TickRemove, TickUntag, TickFail, TickFailTag, TickDrop, TickDiscard, TickSeen
  <1>4. CASE TickImport
    BY <1>1, <1>4 DEF TickImport
  <1>5. CASE TickOlds \/ TickSwap
    BY <1>1, <1>5 DEF TickOlds, TickSwap
  <1>6. CASE TickTag \/ TickMark \/ TickMode
    BY <1>1, <1>6 DEF TickTag, TickMark, TickMode
  <1>7. CASE TickFree \/ TickFreed \/ TickStall \/ TickAllFailed \/ TickFinish \/ TickFinishTag
    BY <1>1, <1>7 DEF TickFree, TickFreed, TickStall, TickAllFailed, TickFinish, TickFinishTag
  <1>8. CASE TickOldGone \/ \E g \in Grabs : TickOld(g) \/ TickFlush(g)
    BY ZenonT(40), <1>1, <1>8 DEF TickOldGone, TickOld, TickFlush
  <1>9. QED
    BY <1>2, <1>3, <1>4, <1>5, <1>6, <1>7, <1>8 DEF TickStep

LEMMA NoRestart ==
  ASSUME SoloSetting, [Next]_vars
  PROVE  \/ UNCHANGED tick
         \/ loop = "idle" /\ tick.pc = "idle" /\ TickStart("loop")
         \/ TickStep
  <1>1. ~Restart /\ ~TickStart("force")
    BY DEF SoloSetting, Restart, TickStart
  <1>2. TickSkipped => UNCHANGED tick
    BY DEF TickSkipped
  <1>3. TickStart("loop") => loop = "idle" /\ tick.pc = "idle"
    BY DEF TickStart, At
  <1>4. QED
    BY <1>1, <1>2, <1>3, GrabApart, SweepApart, RequestApart, WorldApart DEF Next, Loop

\* What moves the loop
LEMMA LoopSteps ==
  ASSUME SoloSetting, [Next]_vars
  PROVE  \/ UNCHANGED loop
         \/ TickStart("loop") \/ TickSkipped \/ SweepStart
         \/ (TickList \/ TickEnd) /\ EndRun
         \/ (SweepList \/ SweepEnd) /\ sweep' = NoSweep /\ UNCHANGED tick
  <1>1. ~Restart /\ ~TickStart("force")
    BY DEF SoloSetting, Restart, TickStart
  <1>2. CASE SweepStep
    BY <1>2, SweepApart
    DEF SweepStep, SweepList, SweepPick, SweepDelete, SweepStamp, SweepEnd
  <1>3. CASE TickStep
    BY <1>3
    DEF TickStep, TickList, TickEnd, TickPick, TickRemove, TickUntag, TickFail, TickFailTag,
        TickDrop, TickDiscard, TickSeen, TickImport, TickOlds, TickSwap, TickOld, TickOldGone,
        TickTag, TickMark, TickFlush, TickMode, TickFree, TickFreed, TickStall, TickAllFailed, TickFinish, TickFinishTag
  <1>4. QED
    BY <1>1, <1>2, <1>3, GrabApart, RequestApart, WorldApart DEF Next, Loop

LEMMA AloneNext ==
  ASSUME TypeInv, SoloSetting, Alone, [Next]_vars
  PROVE  Alone'
  <1>1. sweep \in Sweep /\ tick \in Tick
    BY DEF TypeInv, SweepTyped, RunTyped
  <1>2. sweep.pc # "idle" \/ sweep'.pc = "idle" \/ (SweepStart /\ loop = "sweep" /\ UNCHANGED loop)
    <2>1. CASE SweepStart
      BY <2>1 DEF SweepStart, NoSweep
    <2>2. CASE SweepStep
      BY <2>2 DEF SweepStep, SweepList, SweepPick, SweepDelete, SweepStamp, SweepEnd
    <2>3. QED
      BY <2>1, <2>2, SweepSteps, NoSweepTyped
  <1>3. CASE UNCHANGED loop
    <2>1. tick'.pc # "idle" => loop = "tick" /\ tick'.by = "loop"
      <3>1. CASE TickStart("loop")
        BY <1>3, <3>1 DEF TickStart, Alone, At
      <3>2. CASE TickStep /\ tick' # NoTick
        <4>1. tick.pc # "idle"
          BY <3>2
          DEF TickStep, TickList, TickEnd, TickPick, TickRemove, TickUntag, TickFail, TickFailTag,
              TickDrop, TickDiscard, TickSeen, TickImport, TickOlds, TickSwap, TickOld, TickOldGone,
              TickTag, TickMark, TickFlush, TickMode, TickFree, TickFreed, TickStall, TickAllFailed, TickFinish,
              TickFinishTag, At
        <4>2. tick'.by = tick.by
          <5>1. ASSUME NEW g \in Grabs, TickPick(g) PROVE tick'.by = tick.by
            BY <1>1, <5>1 DEF TickPick, Tick
          <5>2. QED
            BY <3>2, <5>1, RunKeeps
        <4>3. QED
          BY <4>1, <4>2 DEF Alone
      <3>3. QED
        BY <3>1, <3>2, NoRestart, NoTickTyped DEF Alone
    <2>2. sweep'.pc # "idle" => loop = "sweep"
      BY <1>2 DEF Alone
    <2>3. QED
      BY <1>3, <2>1, <2>2 DEF Alone
  <1>4. CASE TickStart("loop") /\ loop' # loop
    <2>1. sweep.pc = "idle" /\ UNCHANGED sweep
      BY <1>4 DEF TickStart, OthersOfTick, Alone
    <2>2. CASE UNCHANGED tick /\ tick.pc = "idle"
      BY <2>1, <2>2 DEF Alone
    <2>3. CASE loop' = "tick" /\ tick' = [NoTick EXCEPT !.pc = "list", !.by = "loop", !.todo = InState("pending")]
      <3>1. tick'.by = "loop"
        BY <2>3 DEF NoTick
      <3>2. QED
        BY <2>1, <2>3, <3>1 DEF Alone
    <2>4. QED
      BY <1>4, <2>2, <2>3 DEF TickStart, At
  <1>5. CASE TickSkipped
    BY <1>5 DEF TickSkipped, Alone, At
  <1>6. CASE SweepStart /\ loop' # loop
    <2>1. sweep'.pc = "idle" /\ tick'.pc = "idle"
      BY <1>6 DEF SweepStart, OthersOfSweep, Alone
    <2>2. QED
      BY <2>1 DEF Alone
  <1>7. CASE (TickList \/ TickEnd) /\ EndRun
    <2>1. sweep'.pc = "idle" /\ tick'.pc = "idle"
      BY <1>7, NoTickTyped DEF TickList, TickEnd, At, EndRun, OthersOfTick, Alone
    <2>2. QED
      BY <2>1 DEF Alone
  <1>8. CASE (SweepList \/ SweepEnd) /\ sweep' = NoSweep /\ UNCHANGED tick
    <2>1. loop = "sweep"
      BY <1>8 DEF SweepList, SweepEnd, Alone
    <2>2. sweep'.pc = "idle" /\ tick'.pc = "idle"
      BY <1>8, <2>1, NoSweepTyped DEF Alone
    <2>3. QED
      BY <2>2 DEF Alone
  <1>9. QED
    BY <1>3, <1>4, <1>5, <1>6, <1>7, <1>8, LoopSteps

\* An imported row was imported before, as it is now, or is marked in this step.
LEMMA ImportedRows ==
  ASSUME LedgerInv, PostProcessing, [Next]_vars, NEW g \in Grabs, grabs'[g].state = "imported",
         ~(TickMark /\ g = tick.cur)
  PROVE  /\ g \in Recorded /\ grabs[g].state = "imported"
         /\ grabs'[g].hash = grabs[g].hash /\ grabs'[g].done = grabs[g].done
         /\ ~(TickMode /\ g = tick.cur) => grabs'[g].mode = grabs[g].mode
  <1>1. ~TickFinish /\ TypeInv
    BY DEF LedgerInv, ImportsOnly, TickFinish, At
  <1>2. CASE TickMark \/ TickMode
    BY <1>1, <1>2, MarkWrites DEF Recorded
  <1>3. CASE ~TickMark /\ ~TickMode
    BY <1>1, <1>3, RowsLeft DEF RowLeft
  <1>4. QED
    BY <1>2, <1>3

\* Before its mark a run has not imported the release at hand.
Unmarked == {"remove", "untag", "fail", "failtag", "drop", "discard", "seen", "import", "olds", "swap",
             "old", "oldgo", "mark", "stall", "giveup", "giveuptag", "allfailed"}

LEMMA UnmarkedPhases ==
  ASSUME TypeInv, TickStep, tick'.pc \in Unmarked
  PROVE  \/ \E g \in Grabs : TickPick(g) /\ tick'.cur = g
         \/ tick.pc \in Unmarked /\ ~TickMark
  <1> USE DEF At, Goto, NextRow, Tick, Unmarked
  <1>1. tick \in Tick
    BY DEF TypeInv, RunTyped
  <1>2. CASE \E g \in Grabs : TickPick(g)
    <2>1. PICK g \in Grabs : TickPick(g)
      BY <1>2
    <2>2. tick'.cur = g
      BY <1>1, <2>1 DEF TickPick
    <2>3. QED
      BY <2>1, <2>2
  <1>3. CASE TickList \/ TickEnd
    <2>1. tick'.pc = "pick" \/ tick' = NoTick
      BY <1>1, <1>3 DEF TickList, TickEnd, EndRun
    <2>2. QED
      BY <2>1, NoTickTyped
  <1>4. CASE TickMark \/ TickMode
    <2>1. tick'.pc \in {"mode", "free", "pick"}
      BY <1>1, <1>4 DEF TickMark, TickMode
    <2>2. QED
      BY <2>1
  <1>5. CASE TickFree \/ TickFreed \/ TickFinish \/ TickFinishTag
    <2>1. tick'.pc \in {"freed", "pick", "finishtag"}
      BY <1>1, <1>5 DEF TickFree, TickFreed, TickFinish, TickFinishTag
    <2>2. QED
      BY <2>1
  <1>6. CASE TickRemove \/ TickUntag \/ TickFail \/ TickFailTag \/ TickDrop \/ TickDiscard
             \/ TickSeen \/ TickImport \/ TickOldGone \/ TickOlds \/ TickSwap \/ TickTag \/ TickStall \/ TickAllFailed
             \/ \E g \in Grabs : TickOld(g) \/ TickFlush(g)
    <2>1. tick.pc \in Unmarked \ {"mark"}
      BY <1>6
      DEF TickRemove, TickUntag, TickFail, TickFailTag, TickDrop, TickDiscard, TickSeen,
          TickImport, TickOldGone, TickOlds, TickSwap, TickTag, TickStall, TickAllFailed, TickOld, TickFlush
    <2>2. ~TickMark
      BY <2>1 DEF TickMark
    <2>3. QED
      BY <2>1, <2>2
  <1>7. QED
    BY <1>2, <1>3, <1>4, <1>5, <1>6 DEF TickStep

ImportedReleases == {grabs[g].hash : g \in InState("imported")}

\* The releases a run still has to go through are different ones, none of them imported, and
\* none the release at hand.
FreshInv ==
  /\ \A g \in tick.todo : grabs[g].hash \notin ImportedReleases /\ (tick.cur \in Grabs => grabs[g].hash # CurHash)
  /\ \A g, o \in tick.todo : grabs[g].hash = grabs[o].hash => g = o
  /\ tick.pc \in Unmarked => CurHash \notin ImportedReleases

LEMMA FreshNext ==
  ASSUME LedgerInv, SoloSetting, FreshInv, [Next]_vars
  PROVE  FreshInv'
  <1>1. TypeInv /\ tick \in Tick /\ tick.todo \subseteq Recorded /\ tick.cur \in Recorded \cup {NoGrab}
    BY DEF LedgerInv, TypeInv, RunTyped
  <1>2. \A g \in Recorded : g \in Grabs /\ g # NoGrab /\ grabs'[g].hash = grabs[g].hash
    BY RecordedStay, ConstantsAssumption DEF Recorded
  <1>3. ASSUME NEW h \in ImportedReleases', h \notin ImportedReleases
        PROVE  TickMark /\ h = CurHash /\ h = grabs'[tick.cur].hash
    <2>1. PICK g \in Grabs : grabs'[g].state = "imported" /\ grabs'[g].hash = h
      BY <1>3 DEF ImportedReleases, InState
    <2>2. TickMark /\ g = tick.cur
      BY <1>3, <2>1, ImportedRows DEF ImportedReleases, InState, SoloSetting
    <2>3. tick.cur \in Recorded
      BY <1>1, <2>1, <2>2, MarkWrites
    <2>4. QED
      BY <1>2, <2>1, <2>2, <2>3 DEF CurHash
  <1>4. ASSUME tick'.todo \subseteq tick.todo, tick'.cur \in {tick.cur, NoGrab}
        PROVE  /\ \A g \in tick'.todo : /\ grabs'[g].hash \notin ImportedReleases'
                                        /\ tick'.cur \in Grabs => grabs'[g].hash # CurHash'
               /\ \A g, o \in tick'.todo : grabs'[g].hash = grabs'[o].hash => g = o
    <2>1. \A g, o \in tick'.todo : grabs'[g].hash = grabs'[o].hash => g = o
      BY <1>1, <1>2, <1>4 DEF FreshInv
    <2>2. ASSUME NEW g \in tick'.todo
          PROVE  grabs'[g].hash \notin ImportedReleases' /\ (tick'.cur \in Grabs => grabs'[g].hash # CurHash')
      <3>1. g \in tick.todo /\ g \in Recorded /\ grabs'[g].hash = grabs[g].hash /\ grabs[g].hash \notin ImportedReleases
        BY <1>1, <1>2, <1>4, <2>2 DEF FreshInv
      <3>2. tick.cur \in Grabs => grabs[g].hash # CurHash
        BY <3>1 DEF FreshInv
      <3>3. TickMark => tick.cur \in Grabs
        BY <1>1, <3>1, MarkWrites DEF Recorded
      <3>4. grabs[g].hash \notin ImportedReleases'
        BY <1>3, <3>1, <3>2, <3>3
      <3>5. tick'.cur \in Grabs => tick'.cur = tick.cur /\ tick.cur \in Recorded
        BY <1>1, <1>4, ConstantsAssumption
      <3>6. tick'.cur \in Grabs => CurHash' = CurHash
        BY <1>2, <3>5 DEF CurHash
      <3>7. QED
        BY <3>1, <3>2, <3>4, <3>5, <3>6
    <2>3. QED
      BY <2>1, <2>2
  <1>5. ASSUME tick.pc \in Unmarked, tick'.cur = tick.cur, ~TickMark
        PROVE  CurHash' \notin ImportedReleases'
    <2>1. CurHash' = CurHash
      BY <1>5, CurKept DEF Unmarked
    <2>2. QED
      BY <1>3, <1>5, <2>1 DEF FreshInv
  <1>6. CASE UNCHANGED tick
    <2>1. tick.pc \in Unmarked => ~TickMark
      BY <1>1, <1>6 DEF TickMark, At, Goto, Tick
    <2>2. QED
      BY <1>4, <1>5, <1>6, <2>1 DEF FreshInv
  <1>7. CASE TickStart("loop") /\ tick' # tick
    <2>1. /\ tick'.pc = "list" /\ tick'.todo = InState("pending") /\ tick'.cur = NoGrab
          /\ tick'.cur \notin Grabs /\ grabs' = grabs
      BY <1>7, StartsAtList, ConstantsAssumption DEF TickStart
    <2>2. OneLiveRow /\ InState("pending") \subseteq LiveGrabs /\ InState("imported") \subseteq LiveGrabs
      BY DEF LedgerInv, LiveGrabs
    <2>3. \A g, o \in LiveGrabs : grabs[g].hash = grabs[o].hash => g = o
      BY <2>2 DEF OneLiveRow
    <2>4. \A g \in InState("pending") : grabs[g].hash \notin ImportedReleases
      BY <2>2, <2>3 DEF ImportedReleases, InState
    <2>5. \A g \in InState("pending") : grabs[g].hash \notin ImportedReleases'
      BY <2>1, <2>4 DEF ImportedReleases, InState
    <2>6. QED
      BY <2>1, <2>2, <2>3, <2>5 DEF FreshInv, Unmarked
  <1>8. CASE \E g \in Grabs : TickPick(g)
    <2>1. PICK g \in Grabs : TickPick(g)
      BY <1>8
    <2>2. /\ g \in tick.todo /\ tick'.todo = tick.todo \ {g} /\ tick'.cur \in {g, NoGrab}
          /\ grabs' = grabs /\ (tick'.pc \in Unmarked => tick'.cur = g)
      BY <1>1, <2>1 DEF TickPick, Tick, Unmarked
    <2>3. ImportedReleases' = ImportedReleases
      BY <2>2 DEF ImportedReleases, InState
    <2>4. tick'.cur \in Grabs => CurHash' = grabs[g].hash
      BY <2>2, ConstantsAssumption DEF CurHash
    <2>5. tick'.pc \in Unmarked => CurHash' \notin ImportedReleases'
      BY <2>2, <2>3, <2>4 DEF FreshInv
    <2>6. \A o \in tick'.todo : grabs[o].hash \notin ImportedReleases /\ (tick'.cur \in Grabs => grabs[o].hash # CurHash')
      BY <2>2, <2>4 DEF FreshInv
    <2>7. \A o, p \in tick'.todo : grabs[o].hash = grabs[p].hash => o = p
      BY <2>2 DEF FreshInv
    <2>8. QED
      BY <2>2, <2>3, <2>5, <2>6, <2>7 DEF FreshInv
  <1>9. CASE tick' = NoTick
    <2>1. tick'.todo = {} /\ tick'.pc = "idle"
      BY <1>9 DEF NoTick
    <2>2. QED
      BY <2>1 DEF FreshInv, Unmarked
  <1>10. CASE TickStep /\ tick' # NoTick /\ ~(\E g \in Grabs : TickPick(g))
    <2>1. tick'.todo = tick.todo /\ tick'.cur \in {tick.cur, NoGrab}
      BY <1>1, <1>10, RunKeeps
    <2>2. tick'.pc \in Unmarked => tick'.cur = tick.cur /\ tick.pc \in Unmarked /\ ~TickMark
      BY <1>1, <1>10, RunKeeps, UnmarkedPhases DEF Unmarked
    <2>3. QED
      BY <1>4, <1>5, <2>1, <2>2 DEF FreshInv
  <1>11. QED
    BY <1>6, <1>7, <1>8, <1>9, <1>10, NoRestart

-------------------------------------------------------------------------------
(* A partial import: what the history still owes *)

\* From the placing of the files to the cleanup
Importing == {"olds", "swap", "old", "oldgo", "mark", "mode", "free"}

FullOwesNothing == tick.pc \in Importing /\ tick.full => CurHash \notin owed

LEMMA OwedSteps ==
  ASSUME TypeInv, [Next]_vars, owed' # owed
  PROVE  /\ TickImport \/ TickSwap
         /\ tick.pc \in {"import", "swap"} /\ tick'.cur = tick.cur
         /\ owed' \subseteq owed \cup {CurHash} /\ UNCHANGED <<grabs, sweep, loop>>
  <1>1. TickImport \/ TickSwap
    <2>1. CASE TickStep \/ (\E by \in {"loop", "force"} : TickStart(by)) \/ TickSkipped
      BY <2>1
      DEF TickStep, TickStart, TickSkipped, TickList, TickEnd, TickPick, TickRemove, TickUntag,
          TickFail, TickFailTag, TickDrop, TickDiscard, TickSeen, TickOlds, TickOld, TickOldGone,
          TickTag, TickMark,
          TickFlush, TickMode, TickFree, TickFreed, TickStall, TickAllFailed, TickFinish,
          TickFinishTag, OthersOfTick
    <2>2. QED
      BY <2>1, GrabApart, SweepApart, RequestApart, WorldApart DEF Next, Loop
  <1>2. tick \in Tick
    BY DEF TypeInv, RunTyped
  <1>3. CASE TickImport
    BY <1>2, <1>3 DEF TickImport, At, Goto, Tick
  <1>4. CASE TickSwap
    BY <1>2, <1>4 DEF TickSwap, At, Goto, Tick
  <1>5. QED
    BY <1>1, <1>3, <1>4

\* A run that has placed every file has struck the release off, and only such a run cleans up.
LEMMA FullPhases ==
  ASSUME TypeInv, FullOwesNothing, TickStep, tick'.pc \in Importing
  PROVE  /\ tick.pc \notin {"idle", "list", "pick"} /\ tick'.cur = tick.cur
         /\ tick'.full => CurHash \notin owed'
         /\ tick'.pc = "free" => tick'.full
  <1> USE DEF At, Goto, NextRow, Tick, Importing
  <1>1. tick \in Tick
    BY DEF TypeInv, RunTyped
  <1>2. CASE \E g \in Grabs : TickPick(g)
    <2>1. PICK g \in Grabs : TickPick(g)
      BY <1>2
    <2>2. Verdict(g) \notin Importing
      BY DEF Verdict
    <2>3. tick'.pc = Verdict(g)
      BY <1>1, <2>1 DEF TickPick
    <2>4. QED
      BY <2>2, <2>3
  <1>3. CASE TickList \/ TickEnd
    <2>1. tick'.pc = "pick" \/ tick' = NoTick
      BY <1>1, <1>3 DEF TickList, TickEnd, EndRun
    <2>2. QED
      BY <2>1, NoTickTyped
  <1>4. CASE TickRemove \/ TickUntag \/ TickFail \/ TickFailTag \/ TickDrop \/ TickDiscard
             \/ TickSeen
    BY ZenonT(40), <1>1, <1>4 DEF TickRemove, TickUntag, TickFail, TickFailTag, TickDrop, TickDiscard, TickSeen
  <1>5. CASE TickFree \/ TickFreed \/ TickStall \/ TickAllFailed \/ TickFinish \/ TickFinishTag
    <2>1. tick'.pc \notin Importing
      BY <1>1, <1>5 DEF TickFree, TickFreed, TickStall, TickAllFailed, TickFinish, TickFinishTag
    <2>2. QED
      BY <2>1
  <1>6. CASE TickImport /\ tick'.pc # "allfailed" /\ tick'.pc # "stall"
    <2>1. PICK full \in BOOLEAN, landed \in BOOLEAN :
            /\ owed' = IF full THEN owed \ {CurHash} ELSE owed \cup {CurHash}
            /\ \/ tick' = [tick EXCEPT !.pc = "olds", !.full = full, !.landed = TRUE]
               \/ tick' = [tick EXCEPT !.pc = "old", !.full = full, !.landed = landed]
      BY <1>1, <1>6 DEF TickImport
    <2>2. tick'.full = full /\ tick'.cur = tick.cur /\ tick'.pc # "free"
      BY <1>1, <2>1
    <2>3. tick.pc = "import"
      BY <1>6 DEF TickImport
    <2>4. QED
      BY <2>1, <2>2, <2>3
  <1>7. CASE TickSwap /\ tick'.pc # "allfailed"
    <2>1. tick.pc = "swap" /\ tick'.cur = tick.cur /\ tick'.pc # "free"
      BY <1>1, <1>7 DEF TickSwap
    <2>2. ~tick'.full \/ (tick'.full = tick.full /\ owed' = owed)
      BY <1>1, <1>7 DEF TickSwap
    <2>3. QED
      BY <1>1, <2>1, <2>2 DEF FullOwesNothing
  <1>8. CASE TickMode
    <2>1. /\ tick.pc = "mode" /\ owed' = owed
          /\ tick'.pc # "pick" => tick' = [tick EXCEPT !.pc = "free"] /\ tick.full
      BY <1>1, <1>8 DEF TickMode, OthersOfTick
    <2>2. tick' = [tick EXCEPT !.pc = "free"] /\ tick.full
      BY <2>1
    <2>3. tick'.cur = tick.cur /\ tick'.full
      BY <1>1, <2>2
    <2>4. QED
      BY <2>1, <2>2, <2>3 DEF FullOwesNothing
  <1>9. CASE \/ TickOlds \/ TickTag \/ TickMark \/ TickOldGone
             \/ \E g \in Grabs : TickOld(g) \/ TickFlush(g)
    <2>1. tick.pc \in {"olds", "old", "oldgo", "mark"} /\ owed' = owed
      BY <1>9 DEF TickOlds, TickTag, TickMark, TickOldGone, TickOld, TickFlush, OthersOfTick
    <2>2. tick'.cur = tick.cur /\ tick'.full = tick.full /\ tick'.pc # "free"
      <3>1. CASE TickOlds \/ TickTag \/ TickMark \/ TickOldGone
        BY <1>1, <3>1 DEF TickOlds, TickTag, TickMark, TickOldGone
      <3>2. CASE \E g \in Grabs : TickOld(g) \/ TickFlush(g)
        <4>1. PICK g \in Grabs : TickOld(g) \/ TickFlush(g)
          BY <3>2
        <4>2. QED
          BY <1>1, <4>1 DEF TickOld, TickFlush
      <3>3. QED
        BY <1>9, <3>1, <3>2
    <2>3. QED
      BY <2>1, <2>2 DEF FullOwesNothing
  <1>10. QED
    BY <1>2, <1>3, <1>4, <1>5, <1>6, <1>7, <1>8, <1>9 DEF TickStep

\* A row that the sweep could take owes nothing, but for the moment between the two writes
\* that record a partial import; a sweep under way works on none that does.
OwedInv ==
  /\ FullOwesNothing
  /\ At("free") => tick.full
  /\ \A g \in InState("imported") :
       grabs[g].done /\ grabs[g].mode # "partial" /\ grabs[g].hash \in owed
       => At("mode") /\ tick.cur = g /\ ~tick.full
  /\ sweep.pc # "idle" => \A g \in sweep.todo : grabs[g].hash \notin owed
  /\ sweep.pc = "delete" => grabs[sweep.cur].hash \notin owed

LEMMA OwedRun ==
  ASSUME LedgerInv, SoloSetting, OwedInv, [Next]_vars
  PROVE  FullOwesNothing' /\ (At("free") => tick.full)'
  <1>1. TypeInv /\ tick \in Tick /\ FullOwesNothing
    BY DEF LedgerInv, TypeInv, RunTyped, OwedInv
  <1>2. CASE UNCHANGED tick
    <2>1. tick.pc \in Importing => CurHash' = CurHash
      BY <1>2, CurKept DEF Importing
    <2>2. owed' = owed
      <3> SUFFICES ASSUME owed' # owed
                   PROVE  FALSE
        OBVIOUS
      <3>1. TickImport \/ TickSwap
        BY <1>1, OwedSteps
      <3>2. CASE TickImport
        <4>1. tick.pc = "import" /\ tick'.pc \in {"olds", "old"}
          BY <1>1, <3>2 DEF TickImport, At, Goto, Tick
        <4>2. QED
          BY <1>2, <4>1
      <3>3. CASE TickSwap
        <4>1. tick.pc = "swap" /\ tick'.pc = "old"
          BY <1>1, <3>3 DEF TickSwap, At, Goto, Tick
        <4>2. QED
          BY <1>2, <4>1
      <3>4. QED
        BY <3>1, <3>2, <3>3
    <2>3. QED
      BY <1>1, <1>2, <2>1, <2>2 DEF FullOwesNothing, OwedInv, At
  <1>3. CASE TickStart("loop")
    BY <1>2, <1>3, StartsAtList DEF FullOwesNothing, Importing, At
  <1>4. CASE TickStep /\ tick'.pc \in Importing
    <2>1. /\ tick.pc \notin {"idle", "list", "pick"} /\ tick'.cur = tick.cur
          /\ tick'.full => CurHash \notin owed'
          /\ tick'.pc = "free" => tick'.full
      BY <1>1, <1>4, FullPhases
    <2>2. CurHash' = CurHash
      BY <2>1, CurKept
    <2>3. QED
      BY <2>1, <2>2 DEF FullOwesNothing, At
  <1>5. CASE tick'.pc \notin Importing
    BY <1>5 DEF FullOwesNothing, Importing, At
  <1>6. QED
    BY <1>2, <1>3, <1>4, <1>5, NoRestart

LEMMA OwedRows ==
  ASSUME LedgerInv, SoloSetting, FreshInv, OwedInv, [Next]_vars,
         NEW g \in Grabs, grabs'[g].state = "imported", grabs'[g].done,
         grabs'[g].mode # "partial", grabs'[g].hash \in owed'
  PROVE  tick'.pc = "mode" /\ tick'.cur = g /\ ~tick'.full
  <1>1. TypeInv /\ tick \in Tick
    BY DEF LedgerInv, TypeInv, RunTyped
  <1>2. CASE TickMark /\ g = tick.cur
    <2>1. tick.pc = "mark" /\ tick' = [tick EXCEPT !.pc = "mode"] /\ owed' = owed
      BY <1>2 DEF TickMark, At, Goto, OthersOfTick
    <2>2. tick'.pc = "mode" /\ tick'.cur = g /\ tick'.full = tick.full
      BY <1>1, <1>2, <2>1 DEF Tick
    <2>3. CurHash \in owed
      BY <1>1, <1>2, <2>1, MarkWrites DEF CurHash
    <2>4. QED
      BY <2>1, <2>2, <2>3 DEF OwedInv, FullOwesNothing, Importing
  <1>3. CASE ~(TickMark /\ g = tick.cur)
    <2>1. /\ g \in InState("imported") /\ grabs'[g].hash = grabs[g].hash /\ grabs[g].done
          /\ ~(TickMode /\ g = tick.cur) => grabs[g].mode # "partial"
      BY <1>3, ImportedRows DEF InState, SoloSetting
    <2>2. CASE TickMode /\ g = tick.cur
      <3>1. tick.full
        BY <1>1, <2>2, MarkWrites
      <3>2. tick.pc = "mode" /\ owed' = owed
        BY <2>2 DEF TickMode, At, OthersOfTick
      <3>3. CurHash \in owed
        BY <2>1, <2>2, <3>2 DEF CurHash
      <3>4. QED
        BY <3>1, <3>2, <3>3 DEF OwedInv, FullOwesNothing, Importing
    <2>3. CASE ~(TickMode /\ g = tick.cur) /\ grabs[g].hash \notin owed
      <3>1. /\ tick.pc \in {"import", "swap"} /\ grabs[g].hash = CurHash
        BY <1>1, <2>1, <2>3, OwedSteps
      <3>2. CurHash \in ImportedReleases
        BY <2>1, <3>1 DEF ImportedReleases
      <3>3. QED
        BY <3>1, <3>2 DEF FreshInv, Unmarked
    <2>4. CASE ~(TickMode /\ g = tick.cur) /\ grabs[g].hash \in owed
      <3>1. tick.pc = "mode" /\ tick.cur = g /\ ~tick.full
        BY <2>1, <2>4 DEF OwedInv, At
      <3>2. ~TickStep
        BY <2>4, <3>1
        DEF TickStep, TickList, TickEnd, TickPick, TickRemove, TickUntag, TickFail, TickFailTag,
            TickDrop, TickDiscard, TickSeen, TickImport, TickOlds, TickSwap, TickOld, TickOldGone,
            TickTag, TickMark, TickFlush, TickFree, TickFreed, TickStall, TickAllFailed, TickFinish, TickFinishTag, At
      <3>3. UNCHANGED tick
        BY <3>1, <3>2, NoRestart
      <3>4. QED
        BY <3>1, <3>3
    <2>5. QED
      BY <2>2, <2>3, <2>4
  <1>4. QED
    BY <1>2, <1>3

LEMMA OwedSweep ==
  ASSUME LedgerInv, SoloSetting, Alone, SweepHolds, OwedInv, [Next]_vars
  PROVE  /\ sweep'.pc # "idle" => \A g \in sweep'.todo : grabs'[g].hash \notin owed'
         /\ sweep'.pc = "delete" => grabs'[sweep'.cur].hash \notin owed'
  <1>1. TypeInv /\ sweep \in Sweep
    BY DEF LedgerInv, TypeInv, SweepTyped
  <1>2. sweep.pc # "idle" => owed' = owed
    BY <1>1, OwedSteps DEF Alone
  <1>3. \A g \in Recorded : grabs'[g].hash = grabs[g].hash
    BY RecordedStay
  <1>4. CASE sweep'.pc = "idle"
    BY <1>4
  <1>5. CASE UNCHANGED sweep
    BY <1>2, <1>3, <1>5 DEF OwedInv, SweepHolds
  <1>6. CASE SweepStart /\ sweep'.pc # "idle"
    <2>1. CASE UNCHANGED sweep
      BY <1>5, <2>1
    <2>2. CASE sweep' = [NoSweep EXCEPT !.pc = "list", !.todo = WorkList]
      <3>1. sweep'.pc = "list" /\ sweep'.todo = WorkList
        BY <2>2 DEF NoSweep
      <3>2. tick.pc # "mode" /\ owed' = owed /\ grabs' = grabs
        BY <1>6 DEF SweepStart, Alone, OthersOfSweep
      <3>3. \A g \in WorkList : grabs[g].hash \notin owed
        BY <3>2 DEF WorkList, OwedInv, At
      <3>4. QED
        BY <3>1, <3>2, <3>3
    <2>3. QED
      BY <1>6, <2>1, <2>2 DEF SweepStart
  <1>7. CASE \E g \in Grabs : SweepPick(g)
    <2>1. PICK g \in Grabs : SweepPick(g)
      BY <1>7
    <2>2. /\ sweep.pc = "pick" /\ g \in sweep.todo /\ sweep'.todo = sweep.todo \ {g} /\ grabs' = grabs
          /\ sweep'.pc = "delete" => sweep'.cur = g
      BY <1>1, <2>1 DEF SweepPick, Sweep
    <2>3. QED
      BY <1>2, <2>2 DEF OwedInv
  <1>8. CASE (SweepList /\ sweep' # NoSweep) \/ SweepDelete \/ SweepStamp
    <2>1. sweep.pc # "idle" /\ sweep'.pc # "delete" /\ sweep'.todo = sweep.todo
      BY <1>1, <1>8 DEF SweepList, SweepDelete, SweepStamp, NextSwept, Sweep
    <2>2. QED
      BY <1>2, <1>3, <2>1 DEF OwedInv, SweepHolds
  <1>9. QED
    BY <1>4, <1>5, <1>6, <1>7, <1>8, SweepSteps, NoSweepTyped DEF SweepStep, SweepEnd

PartialInv == Alone /\ SweepHolds /\ FreshInv /\ OwedInv

LEMMA PartialBegins == Init => PartialInv
  <1> SUFFICES ASSUME Init
               PROVE  PartialInv
    OBVIOUS
  <1>1. tick.pc = "idle" /\ tick.todo = {} /\ sweep.pc = "idle" /\ sweep.todo = {}
    BY DEF Init, NoTick, NoSweep
  <1>2. InState("imported") = {}
    BY DEF Init, NoRow, InState
  <1>3. QED
    BY <1>1, <1>2
    DEF PartialInv, Alone, SweepHolds, FreshInv, OwedInv, FullOwesNothing, Importing, Unmarked, At

LEMMA PartialNext ==
  ASSUME LedgerInv, SoloSetting, PartialInv, [Next]_vars
  PROVE  PartialInv'
  <1>1. Alone' /\ SweepHolds' /\ FreshInv'
    BY AloneNext, SweepHoldsNext, FreshNext DEF PartialInv, LedgerInv
  <1>2. OwedInv'
    <2>1. FullOwesNothing' /\ (At("free") => tick.full)'
      BY OwedRun DEF PartialInv
    <2>2. /\ sweep'.pc # "idle" => \A g \in sweep'.todo : grabs'[g].hash \notin owed'
          /\ sweep'.pc = "delete" => grabs'[sweep'.cur].hash \notin owed'
      BY OwedSweep DEF PartialInv
    <2>3. \A g \in InState("imported")' :
            grabs'[g].done /\ grabs'[g].mode # "partial" /\ grabs'[g].hash \in owed'
            => tick'.pc = "mode" /\ tick'.cur = g /\ ~tick'.full
      BY OwedRows DEF PartialInv, InState
    <2>4. QED
      BY <2>1, <2>2, <2>3 DEF OwedInv, At
  <1>3. QED
    BY <1>1, <1>2 DEF PartialInv

\* While the process lives, neither the cleanup after an import nor the finished-seed sweep
\* deletes a download with files the library did not get: a row is marked imported before it
\* is known to be partial, but the loop never runs the sweep between the two writes.  A
\* restart there does (PartialSweptAfterRestart), and so may a run that somebody forces.
THEOREM PartialKept ==
  ASSUME SoloSetting
  PROVE  Spec => PartialNeverSwept
  <1>1. LedgerInv /\ PartialInv /\ [Next]_vars => PartialInv'
    BY PartialNext
  <1>2. ASSUME LedgerInv, PartialInv, [Next]_vars
        PROVE  [\A h \in owed :
                  (At("free") /\ tick' # tick) \/ sweep' # sweep => h \notin source \ source']_vars
    <2>1. ASSUME At("free"), tick' # tick
          PROVE  source \ source' \subseteq {CurHash} /\ CurHash \notin owed
      <3>1. TickFree
        <4>1. TickStep
          BY <1>2, <2>1, NoRestart DEF At
        <4>2. QED
          BY <2>1, <4>1
          DEF TickStep, TickList, TickEnd, TickPick, TickRemove, TickUntag, TickFail, TickFailTag,
              TickDrop, TickDiscard, TickSeen, TickImport, TickOlds, TickSwap, TickOld, TickOldGone,
              TickTag, TickMark, TickFlush, TickMode, TickFreed, TickStall, TickAllFailed, TickFinish, TickFinishTag, At
      <3>2. source \ source' \subseteq {CurHash}
        BY <3>1 DEF TickFree, Deleted, DeleteFails, ClientVars
      <3>3. QED
        BY <1>2, <2>1, <3>2 DEF PartialInv, OwedInv, FullOwesNothing, Importing, At
    <2>2. ASSUME sweep' # sweep
          PROVE  source' = source \/ (source \ source' \subseteq {grabs[sweep.cur].hash}
                                      /\ grabs[sweep.cur].hash \notin owed)
      <3>1. CASE SweepStart \/ SweepStep
        <4>1. CASE SweepDelete
          BY <1>2, <4>1 DEF SweepDelete, Deleted, DeleteFails, PartialInv, OwedInv
        <4>2. CASE ~SweepDelete
          BY <3>1, <4>2
          DEF SweepStart, SweepStep, SweepList, SweepPick, SweepStamp, SweepEnd, ClientVars
        <4>3. QED
          BY <4>1, <4>2
      <3>2. QED
        BY <1>2, <2>2, <3>1, SweepSteps DEF Restart, SoloSetting
    <2>3. QED
      BY <2>1, <2>2
  <1>3. QED
    BY <1>1, <1>2, PartialBegins, LedgerInvariant, PTL DEF Spec, PartialNeverSwept

=============================================================================
