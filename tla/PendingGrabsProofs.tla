-------------------------- MODULE PendingGrabsProofs --------------------------
(***************************************************************************)
(* Theorems about the file picker, for any previews, hashes, requests and  *)
(* files, and whatever goes wrong: its types, its safety properties, and   *)
(* that it implements PreviewLease.  Each safety property rests on an      *)
(* inductive invariant that says what a handler still in flight may assume *)
(* about the row it will write or the torrent it will delete.              *)
(***************************************************************************)
EXTENDS PendingGrabs, TLAPS

-------------------------------------------------------------------------------
(* Rows and torrents stay well-formed under the helpers. *)

LEMMA RowsTyped == NoRow \in Row /\ NewRow \in Row
  BY DEF NoRow, NewRow, Row, Posted

LEMMA PostedTyped == \A row \in Row : Ticked(row) \in SUBSET Files
  BY DEF Row, Posted, Ticked

LEMMA CallTyped ==
  ASSUME TypeOK, NEW h \in Hashes, NEW t \in Torrent, Call(h, t)
  PROVE  torrent' \in [Hashes -> Torrent]
  BY DEF TypeOK, Call, CallOk, CallErr, Becomes

LEMMA TorrentsTyped ==
  ASSUME TypeOK, NEW h \in Hashes, NEW fs \in SUBSET Files
  PROVE  /\ NoTorrent \in Torrent
         /\ Skipping(h, fs) \in Torrent
         /\ Wanting(h, fs) \in Torrent
         /\ Resumed(h) \in Torrent
  BY DEF TypeOK, Torrent, NoTorrent, Skipping, Wanting, Resumed

LEMMA RequestTyped ==
  NoRequest \in Request
  BY DEF NoRequest, Request, RequestPc

LEMMA RowUpdates ==
  ASSUME NEW row \in Row, NEW b \in BOOLEAN, NEW s \in SUBSET Files
  PROVE  /\ [row EXCEPT !.listed = b] \in Row
         /\ [row EXCEPT !.errored = b] \in Row
         /\ [row EXCEPT !.stale = b] \in Row
         /\ [row EXCEPT !.posted = {s}] \in Row
         /\ [row EXCEPT !.weAdded = b] \in Row
  BY DEF Row, Posted

LEMMA RequestUpdates ==
  ASSUME NEW q \in Request, NEW pc \in RequestPc
  PROVE  /\ [q EXCEPT !.pc = pc] \in Request
         /\ [q EXCEPT !.pc = pc].pid = q.pid
  BY DEF Request

LEMMA BeginTyped ==
  ASSUME TypeOK, NEW r \in Requests, NEW pc \in RequestPc, NEW op \in Ops,
         NEW p \in Previews, NEW pick \in SUBSET Files, Begin(r, pc, op, p, pick)
  PROVE  /\ req' \in [Requests -> Request]
         /\ \A q \in Requests : req'[q].pc # "idle" => req'[q].pid \in Previews
  <1>1. rows[p].weAdded \in BOOLEAN
    BY DEF TypeOK, Row
  <1>2. [pc |-> pc, op |-> op, pid |-> p, weAdded |-> rows[p].weAdded, pick |-> pick] \in Request
    BY <1>1 DEF Request
  <1>3. QED
    BY <1>2 DEF TypeOK, Begin

LEMMA StepTyped ==
  ASSUME TypeOK, NEW r \in Requests, NEW pc \in RequestPc,
         req[r].pc # "idle", Step(r, pc)
  PROVE  /\ req' \in [Requests -> Request]
         /\ \A q \in Requests : req'[q].pc # "idle" => req'[q].pid \in Previews
  <1>1. req[r] \in Request
    BY DEF TypeOK
  <1>2. /\ [req[r] EXCEPT !.pc = pc] \in Request
        /\ [req[r] EXCEPT !.pc = pc].pid = req[r].pid
    BY <1>1, RequestUpdates
  <1>3. req' = [req EXCEPT ![r] = [req[r] EXCEPT !.pc = pc]]
    BY DEF Step
  <1>4. QED
    BY <1>1, <1>2, <1>3 DEF TypeOK

LEMMA SweepTyped ==
  ASSUME TypeOK, NEW pc \in SweepPc, sweep.pc \notin {"idle", "pick"}, SweepTo(pc)
  PROVE  /\ sweep' \in [pc : SweepPc, cur : Previews \cup {NoPreview}, todo : [Previews -> Row]]
         /\ sweep'.cur \in Previews
  BY DEF TypeOK, SweepTo

LEMMA TypeInit == Init => TypeOK
  <1> SUFFICES ASSUME Init PROVE TypeOK
    OBVIOUS
  <1> USE ConstantsAssumption, RowsTyped, RequestTyped
  <1>1. torrent \in [Hashes -> Torrent]
    BY DEF Init, Torrent, NoTorrent
  <1>2. sweep \in [pc : SweepPc, cur : Previews \cup {NoPreview}, todo : [Previews -> Row]]
    BY DEF Init, NoSweep, SweepPc
  <1>3. QED
    BY <1>1, <1>2 DEF Init, TypeOK, PreviewPc, NoSweep, NoRequest

LEMMA TypeStep == TypeOK /\ [Next]_vars => TypeOK'
  <1> SUFFICES ASSUME TypeOK, [Next]_vars PROVE TypeOK'
    OBVIOUS
  <1> USE ConstantsAssumption
  <1>1. ASSUME NEW p \in Previews, PreviewStep(p) PROVE TypeOK'
    <2>h. HashOf[p] \in Hashes
      OBVIOUS
    <2>1. CASE Reserve(p)
      BY <2>1, RowsTyped DEF TypeOK, Reserve, PreviewPc
    <2>2. CASE AnswerAdd(p)
      <3>1. AddedTorrent(p) \subseteq Torrent
        BY DEF AddedTorrent, Torrent
      <3>2. QED
        BY <2>2, <2>h, <3>1 DEF TypeOK, AnswerAdd, PreviewPc, Becomes
    <2>3. CASE DropFailedAdd(p)
      BY <2>3, RowsTyped DEF TypeOK, DropFailedAdd, PreviewPc, Drop
    <2>4. CASE FinishAdd(p)
      <3>1. [rows[p] EXCEPT !.weAdded = (preview[p] = "added")] \in Row
        BY RowUpdates DEF TypeOK
      <3>2. [[rows[p] EXCEPT !.weAdded = (preview[p] = "added")] EXCEPT !.stale = FALSE] \in Row
        BY <3>1, RowUpdates
      <3>3. rows' \in [Previews -> Row]
        BY <2>4, <3>2 DEF TypeOK, FinishAdd
      <3>4. QED
        BY <2>4, <3>3 DEF TypeOK, FinishAdd, PreviewPc
    <2>5. CASE CheckTakenOver(p)
      BY <2>5 DEF TypeOK, CheckTakenOver, PreviewPc
    <2>6. CASE TakeBack(p)
      BY <2>6, <2>h, CallTyped, TorrentsTyped DEF TypeOK, TakeBack, PreviewPc
    <2>7. CASE MetadataArrives(p)
      BY <2>7, RowUpdates DEF TypeOK, MetadataArrives, Update
    <2>8. CASE MetadataFails(p)
      BY <2>8, RowUpdates DEF TypeOK, MetadataFails, Update
    <2>9. QED
      BY <1>1, <2>1, <2>2, <2>3, <2>4, <2>5, <2>6, <2>7, <2>8 DEF PreviewStep
  <1>2. ASSUME NEW p \in Previews, ModalStep(p) \/ TtlElapses(p) PROVE TypeOK'
    <2>1. CASE Preflight(p)
      BY <2>1 DEF TypeOK, Preflight, PreviewPc
    <2>2. CASE JoinModal(p)
      BY <2>2 DEF TypeOK, JoinModal
    <2>3. CASE CloseModal(p)
      BY <2>3 DEF TypeOK, CloseModal
    <2>4. CASE Heartbeat(p)
      BY <2>4, RowUpdates DEF TypeOK, Heartbeat
    <2>5. CASE PostSelection(p)
      <3>1. PICK s \in SUBSET Files : rows' = [rows EXCEPT ![p].posted = {s}]
        BY <2>5 DEF PostSelection
      <3>2. [rows[p] EXCEPT !.posted = {s}] \in Row
        BY RowUpdates DEF TypeOK
      <3>3. QED
        BY <2>5, <3>1, <3>2 DEF TypeOK, PostSelection
    <2>6. CASE TtlElapses(p)
      BY <2>6, RowUpdates DEF TypeOK, TtlElapses
    <2>7. QED
      BY <1>2, <2>1, <2>2, <2>3, <2>4, <2>5, <2>6 DEF ModalStep
  <1>3. ASSUME NEW r \in Requests, RequestStart(r) PROVE TypeOK'
    <2>1. CASE ConfirmStart(r)
      <3>1. PICK op \in Ops, p \in Previews, pick \in SUBSET Files :
              Begin(r, IF pick = Files THEN "want" ELSE "unwant", op, p, pick)
        BY <2>1 DEF ConfirmStart
      <3>2. QED
        BY <2>1, <3>1, BeginTyped DEF TypeOK, ConfirmStart, RequestPc
    <2>2. CASE CancelStart(r)
      <3>1. PICK p \in Previews, pc \in {"delete", "drop"} : Begin(r, pc, "cancel", p, {})
        BY <2>2 DEF CancelStart
      <3>2. "cancel" \in Ops
        BY <2>2 DEF CancelStart
      <3>3. pc \in RequestPc /\ {} \in SUBSET Files
        BY DEF RequestPc
      <3>4. /\ req' \in [Requests -> Request]
            /\ \A q \in Requests : req'[q].pc # "idle" => req'[q].pid \in Previews
        BY <3>1, <3>2, <3>3, BeginTyped
      <3>5. QED
        BY <2>2, <3>4 DEF TypeOK, CancelStart
    <2>3. QED
      BY <1>3, <2>1, <2>2 DEF RequestStart
  <1>4. ASSUME NEW r \in Requests, RequestStep(r) PROVE TypeOK'
    <2>h. req[r].pc # "idle" => HashOf[req[r].pid] \in Hashes
      BY DEF TypeOK
    <2>r. req[r].pick \in SUBSET Files
      BY DEF TypeOK, Request
    <2>1. CASE ConfirmUnwant(r)
      BY <2>1, <2>h, <2>r, CallTyped, TorrentsTyped, StepTyped DEF TypeOK, ConfirmUnwant, RequestPc
    <2>2. CASE ConfirmWant(r)
      BY <2>2, <2>h, <2>r, CallTyped, TorrentsTyped, StepTyped DEF TypeOK, ConfirmWant, RequestPc
    <2>3. CASE ConfirmResume(r)
      BY <2>3, <2>h, CallTyped, TorrentsTyped, StepTyped DEF TypeOK, ConfirmResume, RequestPc
    <2>4. CASE ConfirmCommit(r)
      BY <2>4, <2>h, StepTyped DEF TypeOK, ConfirmCommit, Commit, RequestPc
    <2>5. CASE ConfirmUnblock(r)
      BY <2>5, StepTyped DEF TypeOK, ConfirmUnblock, RequestPc
    <2>6. CASE CancelDelete(r)
      BY <2>6, <2>h, CallTyped, TorrentsTyped, StepTyped DEF TypeOK, CancelDelete, RequestPc
    <2>7. CASE RequestDrop(r)
      BY <2>7, RowsTyped, RequestTyped DEF TypeOK, RequestDrop, Drop, NoRequest
    <2>8. QED
      BY <1>4, <2>1, <2>2, <2>3, <2>4, <2>5, <2>6, <2>7 DEF RequestStep
  <1>5. ASSUME SweepStep PROVE TypeOK'
    <2>h. sweep.pc \notin {"idle", "pick"}
            => HashOf[sweep.cur] \in Hashes /\ Ticked(Swept) \in SUBSET Files
      BY PostedTyped DEF TypeOK, Swept
    <2>1. CASE SweepList
      BY <2>1, RowsTyped DEF TypeOK, SweepList, SweepPc
    <2>2. ASSUME NEW p \in Previews, SweepPick(p) PROVE TypeOK'
      <3>1. SweepBranches(sweep.todo[p]) \subseteq SweepPc
        BY DEF SweepBranches, SweepPc
      <3>2. QED
        BY <2>2, <3>1 DEF TypeOK, SweepPick
    <2>3. CASE SweepCancel
      BY <2>3, <2>h, CallTyped, TorrentsTyped, SweepTyped DEF TypeOK, SweepCancel, SweepPc
    <2>4. CASE SweepUnwant
      BY <2>4, <2>h, CallTyped, TorrentsTyped, SweepTyped DEF TypeOK, SweepUnwant, SweepPc
    <2>5. CASE SweepWant
      BY <2>5, <2>h, CallTyped, TorrentsTyped, SweepTyped DEF TypeOK, SweepWant, SweepPc, Call
    <2>6. CASE SweepResume
      BY <2>6, <2>h, CallTyped, TorrentsTyped, SweepTyped DEF TypeOK, SweepResume, SweepPc, Call
    <2>7. CASE SweepCommit
      BY <2>7, <2>h, SweepTyped DEF TypeOK, SweepCommit, Commit, SweepPc
    <2>8. CASE SweepDrop
      BY <2>8, RowsTyped DEF TypeOK, SweepDrop, Drop, SweepPc
    <2>9. QED
      BY <1>5, <2>1, <2>2, <2>3, <2>4, <2>5, <2>6, <2>7, <2>8 DEF SweepStep
  <1>6. ASSUME Environment PROVE TypeOK'
    <2>1. CASE Restart
      BY <2>1, RowsTyped, RequestTyped
      DEF TypeOK, Restart, NoSweep, NoRequest, SweepPc, PreviewPc
    <2>2. ASSUME NEW h \in Hashes, OutsideAdd(h) PROVE TypeOK'
      BY <2>2 DEF TypeOK, OutsideAdd, Becomes, Torrent
    <2>3. ASSUME NEW h \in Hashes, OutsideRemove(h) PROVE TypeOK'
      BY <2>3 DEF TypeOK, OutsideRemove, Becomes, Torrent, NoTorrent
    <2>4. ASSUME NEW p \in Previews, PreviewDropped(p) PROVE TypeOK'
      BY <2>4 DEF TypeOK, PreviewDropped, PreviewPc
    <2>5. ASSUME NEW r \in Requests, RequestDropped(r) PROVE TypeOK'
      BY <2>5, RequestTyped DEF TypeOK, RequestDropped, NoRequest
    <2>6. QED
      BY <1>6, <2>1, <2>2, <2>3, <2>4, <2>5 DEF Environment
  <1>7. CASE UNCHANGED vars
    BY <1>7 DEF vars, TypeOK, Swept
  <1>8. QED
    BY <1>1, <1>2, <1>3, <1>4, <1>5, <1>6, <1>7 DEF Next

\* The state of the picker is well-formed in every reachable state: a
\* handler in flight always names the preview it acts on.
THEOREM TypeCorrect == Spec => []TypeOK
  BY TypeInit, TypeStep, PTL DEF Spec

-------------------------------------------------------------------------------
(* Rows *)

\* The metadata task of a preview starts after its add is over, and until it
\* answers the row has neither a file list nor an error.
AwaitsMetadata ==
  \A p \in Previews :
    /\ preview[p] # "ended" => meta[p] = "off"
    /\ preview[p] # "ended" \/ meta[p] = "waiting"
         => ~rows[p].listed /\ ~rows[p].errored

RowInv == TypeOK /\ OneLivePreview /\ AwaitsMetadata /\ ErroredHasNoFiles

\* The steps that leave the table, the preview handlers and their tasks alone.
RowsUntouched == UNCHANGED <<rows, preview, meta>>

LEMMA RowInvUntouched == RowInv /\ RowsUntouched /\ TypeOK' => RowInv'
  BY DEF RowInv, RowsUntouched, OneLivePreview, AwaitsMetadata, ErroredHasNoFiles, Live

LEMMA RowInvDrop ==
  ASSUME RowInv, TypeOK', NEW p \in Previews, Drop(p), UNCHANGED <<preview, meta>>
  PROVE  RowInv'
  BY DEF RowInv, TypeOK, OneLivePreview, AwaitsMetadata, ErroredHasNoFiles, Live, Drop, NoRow

LEMMA RowInvInit == Init => RowInv
  BY TypeInit DEF Init, RowInv, OneLivePreview, AwaitsMetadata, ErroredHasNoFiles, Live, NoRow

LEMMA RowInvStep == RowInv /\ [Next]_vars => RowInv'
  <1> SUFFICES ASSUME RowInv, [Next]_vars PROVE RowInv'
    OBVIOUS
  <1>t. TypeOK /\ TypeOK'
    BY TypeStep DEF RowInv
  <1>1. ASSUME NEW p \in Previews, PreviewStep(p) PROVE RowInv'
    <2>1. CASE Reserve(p)
      <3>1. CASE /\ LiveRows(HashOf[p]) = {}
                 /\ rows' = [rows EXCEPT ![p] = NewRow]
                 /\ preview' = [preview EXCEPT ![p] = "adding"]
        <4>1. OneLivePreview'
          BY <1>t, <3>1 DEF TypeOK, RowInv, OneLivePreview, LiveRows, Live
        <4>2. AwaitsMetadata' /\ ErroredHasNoFiles'
          BY <1>t, <2>1, <3>1
          DEF TypeOK, RowInv, AwaitsMetadata, ErroredHasNoFiles, Reserve, NewRow, NoRow
        <4>3. QED
          BY <1>t, <4>1, <4>2 DEF RowInv
      <3>2. CASE UNCHANGED rows /\ preview' = [preview EXCEPT ![p] = "ended"]
        BY <1>t, <2>1, <3>2
        DEF TypeOK, RowInv, AwaitsMetadata, ErroredHasNoFiles, OneLivePreview, Live, Reserve
      <3>3. QED
        BY <2>1, <3>1, <3>2 DEF Reserve
    <2>2. CASE AnswerAdd(p)
      <3>1. /\ UNCHANGED <<rows, meta>>
            /\ preview[p] = "adding"
            /\ \A q \in Previews \ {p} : preview'[q] = preview[q]
        BY <1>t, <2>2 DEF TypeOK, AnswerAdd
      <3>2. OneLivePreview' /\ ErroredHasNoFiles'
        BY <3>1 DEF RowInv, OneLivePreview, ErroredHasNoFiles, Live
      <3>3. AwaitsMetadata'
        BY <3>1 DEF RowInv, AwaitsMetadata
      <3>4. QED
        BY <1>t, <3>2, <3>3 DEF RowInv
    <2>3. CASE DropFailedAdd(p)
      BY <1>t, <2>3
      DEF TypeOK, RowInv, AwaitsMetadata, ErroredHasNoFiles, OneLivePreview, Live,
          DropFailedAdd, Drop, NoRow
    <2>4. CASE FinishAdd(p)
      <3>1. \A q \in Previews : /\ rows'[q].exists = rows[q].exists
                                /\ rows'[q].errored = rows[q].errored
                                /\ rows'[q].listed = rows[q].listed
        <4>1. CASE rows' = [rows EXCEPT ![p] = [@ EXCEPT !.weAdded = (preview[p] = "added"),
                                                         !.stale = FALSE]]
          BY <1>t, <4>1 DEF TypeOK, Row
        <4>2. CASE UNCHANGED rows
          BY <4>2
        <4>3. QED
          BY <2>4, <4>1, <4>2 DEF FinishAdd
      <3>2. OneLivePreview' /\ ErroredHasNoFiles'
        BY <3>1 DEF RowInv, OneLivePreview, ErroredHasNoFiles, Live
      <3>3. AwaitsMetadata'
        BY <1>t, <2>4, <3>1 DEF TypeOK, RowInv, AwaitsMetadata, FinishAdd
      <3>4. QED
        BY <1>t, <3>2, <3>3 DEF RowInv
    <2>5. CASE CheckTakenOver(p)
      BY <1>t, <2>5
      DEF TypeOK, RowInv, AwaitsMetadata, ErroredHasNoFiles, OneLivePreview, Live, CheckTakenOver
    <2>6. CASE TakeBack(p)
      BY <1>t, <2>6
      DEF TypeOK, RowInv, AwaitsMetadata, ErroredHasNoFiles, OneLivePreview, Live, TakeBack
    <2>7. CASE MetadataArrives(p) \/ MetadataFails(p)
      <3>1. \A q \in Previews \ {p} : rows'[q] = rows[q] /\ meta'[q] = meta[q]
        BY <1>t, <2>7 DEF TypeOK, MetadataArrives, MetadataFails, Update
      <3>2. ~(rows'[p].listed /\ rows'[p].errored) /\ (rows'[p].exists = rows[p].exists)
              /\ (rows[p].errored => rows'[p].errored)
        BY <1>t, <2>7 DEF TypeOK, Row, RowInv, AwaitsMetadata, MetadataArrives, MetadataFails, Update
      <3>3. preview'[p] = "ended" /\ meta'[p] = "off" /\ preview' = preview
        BY <1>t, <2>7 DEF TypeOK, RowInv, AwaitsMetadata, MetadataArrives, MetadataFails
      <3>4. QED
        BY <1>t, <3>1, <3>2, <3>3
        DEF RowInv, AwaitsMetadata, ErroredHasNoFiles, OneLivePreview, Live
    <2>8. QED
      BY <1>1, <2>1, <2>2, <2>3, <2>4, <2>5, <2>6, <2>7 DEF PreviewStep
  <1>2. ASSUME NEW p \in Previews, ModalStep(p) \/ TtlElapses(p) PROVE RowInv'
    <2>1. CASE Preflight(p)
      BY <1>t, <2>1
      DEF TypeOK, RowInv, AwaitsMetadata, ErroredHasNoFiles, OneLivePreview, Live, Preflight
    <2>2. CASE JoinModal(p) \/ CloseModal(p)
      BY <1>t, <2>2, RowInvUntouched DEF RowsUntouched, JoinModal, CloseModal
    <2>3. CASE Heartbeat(p) \/ PostSelection(p) \/ TtlElapses(p)
      <3>1. \A q \in Previews : /\ rows'[q].exists = rows[q].exists
                                /\ rows'[q].errored = rows[q].errored
                                /\ rows'[q].listed = rows[q].listed
        BY <1>t, <2>3 DEF TypeOK, Row, Heartbeat, PostSelection, TtlElapses
      <3>2. UNCHANGED <<preview, meta>>
        BY <2>3 DEF Heartbeat, PostSelection, TtlElapses
      <3>3. QED
        BY <1>t, <3>1, <3>2
        DEF RowInv, AwaitsMetadata, ErroredHasNoFiles, OneLivePreview, Live
    <2>4. QED
      BY <1>2, <2>1, <2>2, <2>3 DEF ModalStep
  <1>3. ASSUME NEW r \in Requests, RequestStart(r) \/ RequestStep(r) PROVE RowInv'
    <2>1. CASE RequestDrop(r)
      <3>1. req[r].pid \in Previews
        BY <1>t, <2>1 DEF TypeOK, RequestDrop
      <3>2. QED
        BY <1>t, <2>1, <3>1, RowInvDrop DEF RequestDrop
    <2>2. CASE ~RequestDrop(r)
      <3>1. RowsUntouched
        BY <1>3, <2>2
        DEF RowsUntouched, RequestStart, RequestStep, ConfirmStart, CancelStart, ConfirmUnwant,
            ConfirmWant, ConfirmResume, ConfirmCommit, ConfirmUnblock, CancelDelete
      <3>2. QED
        BY <1>t, <3>1, RowInvUntouched
    <2>3. QED
      BY <2>1, <2>2
  <1>4. ASSUME SweepStep PROVE RowInv'
    <2>1. CASE SweepDrop
      <3>1. sweep.cur \in Previews
        BY <1>t, <2>1 DEF TypeOK, SweepDrop
      <3>2. QED
        BY <1>t, <2>1, <3>1, RowInvDrop DEF SweepDrop
    <2>2. CASE ~SweepDrop
      <3>1. RowsUntouched
        BY <1>4, <2>2
        DEF RowsUntouched, SweepStep, SweepList, SweepPick, SweepCancel, SweepUnwant, SweepWant,
            SweepResume, SweepCommit
      <3>2. QED
        BY <1>t, <3>1, RowInvUntouched
    <2>3. QED
      BY <2>1, <2>2
  <1>5. ASSUME Environment PROVE RowInv'
    <2>1. CASE Restart
      BY <1>t, <2>1
      DEF TypeOK, RowInv, AwaitsMetadata, ErroredHasNoFiles, OneLivePreview, Live, Restart
    <2>2. ASSUME NEW p \in Previews, PreviewDropped(p) PROVE RowInv'
      BY <1>t, <2>2
      DEF TypeOK, RowInv, AwaitsMetadata, ErroredHasNoFiles, OneLivePreview, Live, PreviewDropped
    <2>3. CASE RowsUntouched
      BY <1>t, <2>3, RowInvUntouched
    <2>4. QED
      BY <1>5, <2>1, <2>2, <2>3
      DEF Environment, RequestDropped, OutsideAdd, OutsideRemove, RowsUntouched
  <1>6. CASE UNCHANGED vars
    BY <1>6, <1>t, RowInvUntouched DEF vars, RowsUntouched
  <1>7. QED
    BY <1>1, <1>2, <1>3, <1>4, <1>5, <1>6 DEF Next

\* At most one preview of a release is live: the INSERT of reserve is the
\* only statement that makes a row live, and no late write revives one.
THEOREM OneLivePreviewCorrect == Spec => []OneLivePreview
  BY RowInvInit, RowInvStep, PTL DEF Spec, RowInv

\* A preview with an error never shows a file list, so confirm need not look
\* at error_message: one metadata task per preview writes the one or the other.
THEOREM ErroredHasNoFilesCorrect == Spec => []ErroredHasNoFiles
  BY RowInvInit, RowInvStep, PTL DEF Spec, RowInv

-------------------------------------------------------------------------------
(* Torrents from before the picker *)

\* Nobody who may delete has one of them in hand: no row and no copy of a
\* row says its add created it, no late add is about to take it back, no
\* cancel is about to delete it.
EarlierInv ==
  /\ \A h \in Hashes : torrent[h].origin = Earlier => Present(h)
  /\ \A p \in Previews : torrent[HashOf[p]].origin = Earlier =>
       /\ ~rows[p].weAdded /\ ~sweep.todo[p].weAdded
       /\ preview[p] \notin {"added", "orphaned", "takeback"}
  /\ \A r \in Requests :
       req[r].pc = "delete" => torrent[HashOf[req[r].pid]].origin # Earlier
  /\ sweep.pc = "cancel" => torrent[HashOf[sweep.cur]].origin # Earlier

KeepsEarlier ==
  \A h \in Hashes : torrent[h].origin = Earlier => torrent'[h].origin = Earlier

NoNewEarlier ==
  \A h \in Hashes : torrent'[h].origin = Earlier
    => torrent[h].origin = Earlier /\ (Present(h) => Present(h)')

LEMMA TicksKeepOrigin ==
  ASSUME TypeOK, NEW h \in Hashes, NEW fs \in SUBSET Files,
         NEW t \in {Skipping(h, fs), Wanting(h, fs), Resumed(h)}, Call(h, t)
  PROVE  KeepsEarlier /\ NoNewEarlier
  <1>1. t.origin = torrent[h].origin /\ t.state \in {torrent[h].state, "running"}
    BY DEF TypeOK, Torrent, Skipping, Wanting, Resumed
  <1>2. QED
    BY <1>1 DEF TypeOK, Call, CallOk, CallErr, Becomes, KeepsEarlier, NoNewEarlier, Present

LEMMA DeletesKeepOrigin ==
  ASSUME TypeOK, NEW h \in Hashes, Call(h, NoTorrent), torrent[h].origin # Earlier
  PROVE  KeepsEarlier /\ NoNewEarlier
  BY ConstantsAssumption
  DEF TypeOK, Call, CallOk, CallErr, Becomes, KeepsEarlier, NoNewEarlier, NoTorrent, Present

LEMMA UntouchedKeepsOrigin == UNCHANGED torrent => KeepsEarlier /\ NoNewEarlier
  BY DEF KeepsEarlier, NoNewEarlier, Present

LEMMA EarlierStep ==
  ASSUME TypeOK, EarlierInv, [Next]_vars
  PROVE  /\ NoNewEarlier
         /\ KeepsEarlier \/ \E h \in Hashes : OutsideRemove(h)
  <1> USE ConstantsAssumption
  <1>1. ASSUME NEW p \in Previews, PreviewStep(p) PROVE KeepsEarlier /\ NoNewEarlier
    <2>1. CASE AnswerAdd(p)
      <3>1. CASE UNCHANGED torrent
        BY <3>1, UntouchedKeepsOrigin
      <3>2. CASE ~Present(HashOf[p]) /\ \E t \in AddedTorrent(p) : Becomes(HashOf[p], t)
        <4>1. PICK t \in AddedTorrent(p) : Becomes(HashOf[p], t)
          BY <3>2
        <4>2. t.origin = p /\ p # Earlier
          BY <4>1 DEF AddedTorrent
        <4>3. torrent[HashOf[p]].origin # Earlier
          BY <3>2 DEF EarlierInv
        <4>4. QED
          BY <4>1, <4>2, <4>3 DEF TypeOK, Becomes, KeepsEarlier, NoNewEarlier, Present
      <3>3. QED
        BY <2>1, <3>1, <3>2 DEF AnswerAdd
    <2>2. CASE TakeBack(p)
      <3>1. torrent[HashOf[p]].origin # Earlier
        BY <2>2 DEF EarlierInv, TakeBack
      <3>2. QED
        BY <2>2, <3>1, DeletesKeepOrigin DEF TakeBack
    <2>3. CASE ~AnswerAdd(p) /\ ~TakeBack(p)
      BY <1>1, <2>3, UntouchedKeepsOrigin
      DEF PreviewStep, Reserve, DropFailedAdd, FinishAdd, CheckTakenOver, MetadataArrives,
          MetadataFails
    <2>4. QED
      BY <2>1, <2>2, <2>3
  <1>2. ASSUME NEW p \in Previews, ModalStep(p) \/ TtlElapses(p)
        PROVE  KeepsEarlier /\ NoNewEarlier
    BY <1>2, UntouchedKeepsOrigin
    DEF ModalStep, Preflight, JoinModal, CloseModal, Heartbeat, PostSelection, TtlElapses
  <1>3. ASSUME NEW r \in Requests, RequestStart(r) \/ RequestStep(r)
        PROVE  KeepsEarlier /\ NoNewEarlier
    <2>1. CASE req[r].pc # "idle" /\ (ConfirmUnwant(r) \/ ConfirmWant(r) \/ ConfirmResume(r))
      <3>1. HashOf[req[r].pid] \in Hashes
        BY <2>1 DEF TypeOK
      <3>2. req[r].pick \in SUBSET Files
        BY DEF TypeOK, Request
      <3>3. QED
        BY <2>1, <3>1, <3>2, TicksKeepOrigin DEF ConfirmUnwant, ConfirmWant, ConfirmResume
    <2>2. CASE CancelDelete(r)
      <3>1. HashOf[req[r].pid] \in Hashes
        BY <2>2 DEF TypeOK, CancelDelete
      <3>2. QED
        BY <2>2, <3>1, DeletesKeepOrigin DEF EarlierInv, CancelDelete
    <2>3. CASE UNCHANGED torrent
      BY <2>3, UntouchedKeepsOrigin
    <2>4. QED
      BY <1>3, <2>1, <2>2, <2>3
      DEF RequestStart, RequestStep, ConfirmStart, CancelStart, ConfirmUnwant, ConfirmWant,
          ConfirmResume, ConfirmCommit, ConfirmUnblock, RequestDrop
  <1>4. ASSUME SweepStep PROVE KeepsEarlier /\ NoNewEarlier
    <2>1. CASE SweepUnwant \/ SweepWant \/ SweepResume
      <3>1. HashOf[sweep.cur] \in Hashes /\ Ticked(Swept) \in SUBSET Files
        BY <2>1, PostedTyped DEF TypeOK, Swept, SweepUnwant, SweepWant, SweepResume
      <3>2. QED
        BY <2>1, <3>1, TicksKeepOrigin DEF SweepUnwant, SweepWant, SweepResume, Call
    <2>2. CASE SweepCancel
      <3>1. HashOf[sweep.cur] \in Hashes
        BY <2>2 DEF TypeOK, SweepCancel
      <3>2. QED
        BY <2>2, <3>1, DeletesKeepOrigin DEF EarlierInv, SweepCancel
    <2>3. CASE UNCHANGED torrent
      BY <2>3, UntouchedKeepsOrigin
    <2>4. QED
      BY <1>4, <2>1, <2>2, <2>3
      DEF SweepStep, SweepList, SweepPick, SweepCommit, SweepDrop
  <1>5. CASE \/ Restart \/ UNCHANGED vars
             \/ \E p \in Previews : PreviewDropped(p)
             \/ \E r \in Requests : RequestDropped(r)
    BY <1>5, UntouchedKeepsOrigin DEF Restart, PreviewDropped, RequestDropped, vars
  <1>6. ASSUME NEW h \in Hashes, OutsideAdd(h) PROVE KeepsEarlier /\ NoNewEarlier
    <2>1. torrent[h].origin # Earlier
      BY <1>6 DEF EarlierInv, OutsideAdd
    <2>2. QED
      BY <1>6, <2>1 DEF TypeOK, OutsideAdd, Becomes, KeepsEarlier, NoNewEarlier, Present
  <1>7. ASSUME NEW h \in Hashes, OutsideRemove(h) PROVE NoNewEarlier
    BY <1>7 DEF TypeOK, OutsideRemove, Becomes, NoTorrent, NoNewEarlier, Present
  <1>8. QED
    BY <1>1, <1>2, <1>3, <1>4, <1>5, <1>6, <1>7 DEF Next, Environment

\* Steps that put no earlier torrent into a hand it was not in.
LEMMA EarlierUntouched ==
  ASSUME TypeOK, EarlierInv, NoNewEarlier,
         \A p \in Previews : rows'[p].weAdded => rows[p].weAdded,
         UNCHANGED <<preview, req, sweep>>
  PROVE  EarlierInv'
  BY ConstantsAssumption DEF TypeOK, EarlierInv, NoNewEarlier, Present

LEMMA EarlierInvInit == Init => EarlierInv
  BY ConstantsAssumption
  DEF Init, EarlierInv, NoRow, NoRequest, NoSweep, NoTorrent, Present

LEMMA EarlierInvStep ==
  ASSUME TypeOK, TypeOK', EarlierInv, [Next]_vars
  PROVE  EarlierInv'
  <1> USE ConstantsAssumption
  <1>n. NoNewEarlier
    BY EarlierStep
  <1>1. ASSUME NEW p \in Previews, PreviewStep(p) PROVE EarlierInv'
    <2>1. UNCHANGED <<req, sweep>> /\ \A q \in Previews \ {p} : preview'[q] = preview[q]
      BY <1>1
      DEF TypeOK, PreviewStep, Reserve, AnswerAdd, DropFailedAdd, FinishAdd, CheckTakenOver,
          TakeBack, MetadataArrives, MetadataFails
    <2>2. \A q \in Previews \ {p} : rows'[q] = rows[q]
      BY <1>1
      DEF TypeOK, PreviewStep, Reserve, AnswerAdd, DropFailedAdd, FinishAdd, CheckTakenOver,
          TakeBack, MetadataArrives, MetadataFails, Update, Drop
    <2>3. torrent'[HashOf[p]].origin = Earlier
            => ~rows'[p].weAdded /\ preview'[p] \notin {"added", "orphaned", "takeback"}
      <3>1. CASE Reserve(p)
        BY <1>n, <3>1 DEF TypeOK, EarlierInv, NoNewEarlier, Reserve, NewRow, NoRow
      <3>2. CASE AnswerAdd(p)
        <4>1. CASE preview' = [preview EXCEPT ![p] = "added"]
          <5>1. PICK t \in AddedTorrent(p) : Becomes(HashOf[p], t)
            BY <3>2, <4>1 DEF TypeOK, AnswerAdd
          <5>2. torrent'[HashOf[p]].origin = p
            BY <5>1 DEF TypeOK, Becomes, AddedTorrent
          <5>3. QED
            BY <5>2
        <4>2. CASE preview' # [preview EXCEPT ![p] = "added"]
          BY <1>n, <3>2, <4>2 DEF TypeOK, EarlierInv, NoNewEarlier, AnswerAdd
        <4>3. QED
          BY <4>1, <4>2
      <3>3. CASE DropFailedAdd(p)
        BY <1>n, <3>3 DEF TypeOK, EarlierInv, NoNewEarlier, DropFailedAdd, Drop, NoRow
      <3>4. CASE FinishAdd(p)
        <4>1. CASE rows[p].exists
          <5>1. rows'[p].weAdded = (preview[p] = "added")
            <6>1. rows' = [rows EXCEPT ![p] = [@ EXCEPT !.weAdded = (preview[p] = "added"),
                                                        !.stale = FALSE]]
              BY <3>4, <4>1 DEF FinishAdd
            <6>2. QED
              BY <6>1 DEF TypeOK, Row
          <5>2. preview'[p] = "ended"
            BY <3>4, <4>1 DEF TypeOK, FinishAdd
          <5>3. QED
            BY <1>n, <5>1, <5>2 DEF EarlierInv, NoNewEarlier
        <4>2. CASE ~rows[p].exists
          BY <1>n, <3>4, <4>2 DEF TypeOK, EarlierInv, NoNewEarlier, FinishAdd
        <4>3. QED
          BY <4>1, <4>2
      <3>5. CASE CheckTakenOver(p)
        BY <1>n, <3>5 DEF TypeOK, EarlierInv, NoNewEarlier, CheckTakenOver
      <3>6. CASE TakeBack(p)
        BY <1>n, <3>6 DEF TypeOK, EarlierInv, NoNewEarlier, TakeBack
      <3>7. CASE MetadataArrives(p) \/ MetadataFails(p)
        <4>1. rows'[p].weAdded = rows[p].weAdded /\ preview' = preview
          BY <3>7 DEF TypeOK, Row, MetadataArrives, MetadataFails, Update
        <4>2. QED
          BY <1>n, <4>1 DEF EarlierInv, NoNewEarlier
      <3>8. QED
        BY <1>1, <3>1, <3>2, <3>3, <3>4, <3>5, <3>6, <3>7 DEF PreviewStep
    <2>4. QED
      BY <1>n, <2>1, <2>2, <2>3 DEF TypeOK, EarlierInv, NoNewEarlier, Present
  <1>2. ASSUME NEW p \in Previews, ModalStep(p) \/ TtlElapses(p) PROVE EarlierInv'
    <2>1. CASE Preflight(p)
      BY <1>n, <2>1 DEF TypeOK, EarlierInv, NoNewEarlier, Preflight, Present
    <2>2. CASE ~Preflight(p)
      <3>1. UNCHANGED <<preview, req, sweep>>
        BY <1>2, <2>2
        DEF ModalStep, JoinModal, CloseModal, Heartbeat, PostSelection, TtlElapses
      <3>2. \A q \in Previews : rows'[q].weAdded = rows[q].weAdded
        <4>1. CASE Heartbeat(p) \/ PostSelection(p) \/ TtlElapses(p)
          BY <4>1 DEF TypeOK, Row, Heartbeat, PostSelection, TtlElapses
        <4>2. CASE JoinModal(p) \/ CloseModal(p)
          BY <4>2 DEF JoinModal, CloseModal
        <4>3. QED
          BY <1>2, <2>2, <4>1, <4>2 DEF ModalStep
      <3>3. QED
        BY <1>n, <3>1, <3>2, EarlierUntouched
    <2>3. QED
      BY <2>1, <2>2
  <1>3. ASSUME NEW r \in Requests, RequestStart(r) \/ RequestStep(r) PROVE EarlierInv'
    <2>1. UNCHANGED <<preview, sweep>> /\ \A q \in Requests \ {r} : req'[q] = req[q]
      BY <1>3
      DEF TypeOK, RequestStart, RequestStep, ConfirmStart, CancelStart, ConfirmUnwant,
          ConfirmWant, ConfirmResume, ConfirmCommit, ConfirmUnblock, CancelDelete, RequestDrop,
          Begin, Step
    <2>2. \A p \in Previews : rows'[p].weAdded => rows[p].weAdded
      BY <1>3
      DEF TypeOK, RequestStart, RequestStep, ConfirmStart, CancelStart, ConfirmUnwant,
          ConfirmWant, ConfirmResume, ConfirmCommit, ConfirmUnblock, CancelDelete, RequestDrop,
          Drop, NoRow
    <2>3. req'[r].pc = "delete" => torrent'[HashOf[req'[r].pid]].origin # Earlier
      <3>1. CASE CancelStart(r)
        <4>1. PICK p \in Previews, pc \in {"delete", "drop"} :
                (pc = "delete" => rows[p].weAdded) /\ Begin(r, pc, "cancel", p, {})
          BY <3>1 DEF CancelStart
        <4>2. req'[r].pc = pc /\ req'[r].pid = p
          BY <4>1 DEF TypeOK, Begin
        <4>3. QED
          BY <1>n, <4>1, <4>2 DEF EarlierInv, NoNewEarlier
      <3>2. CASE ~CancelStart(r)
        BY <1>3, <3>2
        DEF TypeOK, Request, RequestStart, RequestStep, ConfirmStart, ConfirmUnwant, ConfirmWant,
            ConfirmResume, ConfirmCommit, ConfirmUnblock, CancelDelete, RequestDrop, Begin, Step,
            NoRequest
      <3>3. QED
        BY <3>1, <3>2
    <2>4. \A q \in Requests : req'[q].pc = "delete" => HashOf[req'[q].pid] \in Hashes
      BY DEF TypeOK
    <2>5. \A q \in Requests :
            req'[q].pc = "delete" => torrent'[HashOf[req'[q].pid]].origin # Earlier
      <3>1. ASSUME NEW q \in Requests, q # r, req'[q].pc = "delete"
            PROVE  torrent'[HashOf[req'[q].pid]].origin # Earlier
        <4>1. req[q].pc = "delete" /\ req[q].pid = req'[q].pid
          BY <2>1, <3>1
        <4>2. torrent[HashOf[req'[q].pid]].origin # Earlier
          BY <4>1 DEF EarlierInv
        <4>3. QED
          BY <1>n, <2>4, <3>1, <4>2 DEF NoNewEarlier
      <3>2. QED
        BY <2>3, <3>1
    <2>6. \A h \in Hashes : torrent'[h].origin = Earlier => Present(h)'
      BY <1>n DEF EarlierInv, NoNewEarlier
    <2>7. \A p \in Previews : torrent'[HashOf[p]].origin = Earlier =>
            /\ ~rows'[p].weAdded /\ ~sweep'.todo[p].weAdded
            /\ preview'[p] \notin {"added", "orphaned", "takeback"}
      BY <1>n, <2>1, <2>2 DEF EarlierInv, NoNewEarlier
    <2>8. sweep'.pc = "cancel" => torrent'[HashOf[sweep'.cur]].origin # Earlier
      BY <1>n, <2>1 DEF TypeOK, EarlierInv, NoNewEarlier
    <2>9. QED
      BY <2>5, <2>6, <2>7, <2>8 DEF EarlierInv
  <1>4. ASSUME SweepStep PROVE EarlierInv'
    <2>1. UNCHANGED <<preview, req>>
      <3>1. CASE SweepDrop
        BY <3>1 DEF SweepDrop
      <3>2. CASE ~SweepDrop
        BY <1>4, <3>2
        DEF SweepStep, SweepList, SweepPick, SweepCancel, SweepUnwant, SweepWant, SweepResume,
            SweepCommit
      <3>3. QED
        BY <3>1, <3>2
    <2>2. \A p \in Previews : rows'[p].weAdded => rows[p].weAdded
      <3>1. CASE SweepDrop
        BY <3>1 DEF TypeOK, SweepDrop, Drop, NoRow
      <3>2. CASE UNCHANGED rows
        BY <3>2
      <3>3. QED
        BY <1>4, <3>1, <3>2
        DEF SweepStep, SweepList, SweepPick, SweepCancel, SweepUnwant, SweepWant, SweepResume,
            SweepCommit
    <2>3. \A p \in Previews :
            sweep'.todo[p].weAdded => sweep.todo[p].weAdded \/ rows[p].weAdded
      <3>1. CASE SweepDrop
        BY <3>1 DEF TypeOK, SweepDrop, NoRow
      <3>2. CASE SweepList
        BY <3>2 DEF TypeOK, SweepList, NoRow
      <3>3. CASE sweep'.todo = sweep.todo
        BY <3>3
      <3>4. QED
        BY <1>4, <3>1, <3>2, <3>3
        DEF TypeOK, SweepStep, SweepPick, SweepCancel, SweepUnwant, SweepWant, SweepResume,
            SweepCommit, SweepTo
    <2>4. sweep'.pc = "cancel" => torrent[HashOf[sweep'.cur]].origin # Earlier
      <3>1. ASSUME NEW p \in Previews, SweepPick(p), sweep'.pc = "cancel"
            PROVE  torrent[HashOf[sweep'.cur]].origin # Earlier
        <4>1. sweep'.cur = p /\ "cancel" \in SweepBranches(sweep.todo[p])
          BY <3>1 DEF TypeOK, SweepPick
        <4>2. sweep.todo[p].weAdded
          BY <4>1 DEF SweepBranches
        <4>3. QED
          BY <4>1, <4>2 DEF EarlierInv
      <3>2. CASE ~(\E p \in Previews : SweepPick(p))
        BY <1>4, <3>2
        DEF TypeOK, SweepStep, SweepList, SweepCancel, SweepUnwant, SweepWant, SweepResume,
            SweepCommit, SweepDrop, SweepTo
      <3>3. QED
        BY <3>1, <3>2
    <2>5. sweep'.pc = "cancel" => HashOf[sweep'.cur] \in Hashes
      BY DEF TypeOK
    <2>6. QED
      BY <1>n, <2>1, <2>2, <2>3, <2>4, <2>5 DEF TypeOK, EarlierInv, NoNewEarlier, Present
  <1>5. CASE Restart
    BY <1>n, <1>5
    DEF TypeOK, EarlierInv, NoNewEarlier, Present, Restart, NoRequest, NoSweep, NoRow
  <1>6. CASE (\E h \in Hashes : OutsideAdd(h) \/ OutsideRemove(h)) \/ UNCHANGED vars
    BY <1>n, <1>6, EarlierUntouched DEF OutsideAdd, OutsideRemove, vars
  <1>7. ASSUME NEW p \in Previews, PreviewDropped(p) PROVE EarlierInv'
    BY <1>n, <1>7 DEF TypeOK, EarlierInv, NoNewEarlier, Present, PreviewDropped
  <1>8. ASSUME NEW r \in Requests, RequestDropped(r) PROVE EarlierInv'
    BY <1>n, <1>8 DEF TypeOK, EarlierInv, NoNewEarlier, Present, RequestDropped, NoRequest
  <1>9. QED
    BY <1>1, <1>2, <1>3, <1>4, <1>5, <1>6, <1>7, <1>8 DEF Next, Environment

\* The picker deletes no torrent it did not add: cancel, the walkaway sweep
\* and the take-back of a late add only reach hashes whose add was answered
\* Added, whatever the order of add, sweep, cancel and restart.
THEOREM EarlierTorrentsSurviveCorrect == Spec => EarlierTorrentsSurvive
  <1>1. Init => TypeOK /\ EarlierInv
    BY TypeInit, EarlierInvInit
  <1>2. TypeOK /\ EarlierInv /\ [Next]_vars => (TypeOK /\ EarlierInv)'
    BY TypeStep, EarlierInvStep
  <1>3. TypeOK /\ EarlierInv /\ [Next]_vars
          => [\A h \in Hashes : torrent[h].origin = Earlier /\ torrent'[h].origin # Earlier
                => OutsideRemove(h)]_vars
    <2> SUFFICES ASSUME TypeOK, EarlierInv, [Next]_vars,
                        NEW h \in Hashes, torrent[h].origin = Earlier, torrent'[h].origin # Earlier
                 PROVE  OutsideRemove(h)
      OBVIOUS
    <2>1. PICK g \in Hashes : OutsideRemove(g)
      BY EarlierStep DEF KeepsEarlier
    <2>2. g = h
      BY <2>1 DEF TypeOK, OutsideRemove, Becomes
    <2>3. QED
      BY <2>1, <2>2
  <1>4. QED
    BY <1>1, <1>2, <1>3, PTL DEF Spec, EarlierTorrentsSurvive

-------------------------------------------------------------------------------
(* The lease: the picker implements PreviewLease *)

LeaseStep == [Lease!Next]_<<Holder, Spent>>

\* Nobody has asked and nobody holds: a stutter of the lease.
LEMMA LeaseStutter ==
  ASSUME \A p \in Previews : Live(p)' = Live(p), UNCHANGED Spent
  PROVE  UNCHANGED <<Holder, Spent>>
  <1>1. \A h \in Hashes : LiveRows(h)' = LiveRows(h)
    BY DEF LiveRows
  <1>2. QED
    BY <1>1 DEF Holder

LEMMA OneOfFew == OneOf({}) = NoPreview /\ \A p : OneOf({p}) = p
  BY DEF OneOf

LEMMA HolderIsLive ==
  ASSUME TypeOK, OneLivePreview, NEW p \in Previews, Live(p)
  PROVE  /\ LiveRows(HashOf[p]) = {p}
         /\ Holder[HashOf[p]] = p
  <1>1. LiveRows(HashOf[p]) = {p}
    BY DEF OneLivePreview, LiveRows
  <1>2. QED
    BY <1>1, OneOfFew, ConstantsAssumption DEF Holder

\* A row that goes, or gets an error, gives the release back.
LEMMA LeaseRelease ==
  ASSUME TypeOK, OneLivePreview, NEW p \in Previews, UNCHANGED Spent,
         \A q \in Previews \ {p} : Live(q)' = Live(q), ~Live(p)'
  PROVE  LeaseStep
  <1> USE ConstantsAssumption
  <1>1. CASE ~Live(p)
    BY <1>1, LeaseStutter DEF LeaseStep, Live
  <1>2. CASE Live(p)
    <2>1. LiveRows(HashOf[p]) = {p} /\ Holder[HashOf[p]] = p
      BY <1>2, HolderIsLive
    <2>2. LiveRows(HashOf[p])' = {}
      BY <2>1 DEF LiveRows
    <2>3. \A h \in Hashes \ {HashOf[p]} : LiveRows(h)' = LiveRows(h)
      BY DEF LiveRows
    <2>4. Holder' = [Holder EXCEPT ![HashOf[p]] = NoPreview]
      BY <2>2, <2>3, OneOfFew DEF Holder
    <2>5. Lease!Release(HashOf[p])
      BY <2>1, <2>4 DEF Lease!Release
    <2>6. QED
      BY <2>5 DEF LeaseStep, Lease!Next
  <1>3. QED
    BY <1>1, <1>2

LEMMA LeaseAcquire ==
  ASSUME TypeOK, TypeOK', OneLivePreview, OneLivePreview', NEW p \in Previews, Reserve(p)
  PROVE  LeaseStep
  <1> USE ConstantsAssumption
  <1> DEFINE h == HashOf[p]
  <1>1. p \notin Spent /\ Spent' = Spent \cup {p}
    BY DEF TypeOK, Reserve, Spent
  <1>2. CASE LiveRows(h) = {} /\ rows' = [rows EXCEPT ![p] = NewRow]
    <2>1. Live(p)' /\ \A q \in Previews \ {p} : Live(q)' = Live(q)
      BY <1>2 DEF TypeOK, Live, NewRow, NoRow
    <2>2. Holder[h] = NoPreview
      BY <1>2, OneOfFew DEF Holder
    <2>3. LiveRows(h)' = {p}
      BY <1>2, <2>1 DEF LiveRows
    <2>4. \A g \in Hashes \ {h} : LiveRows(g)' = LiveRows(g)
      BY <2>1 DEF LiveRows
    <2>5. Holder' = [Holder EXCEPT ![h] = p]
      BY <2>3, <2>4, OneOfFew DEF Holder
    <2>6. Lease!Acquire(p)
      BY <1>1, <2>2, <2>5 DEF Lease!Acquire, Holder
    <2>7. QED
      BY <2>6 DEF LeaseStep, Lease!Next
  <1>3. CASE LiveRows(h) # {} /\ UNCHANGED rows
    <2>1. PICK q \in Previews : Live(q) /\ HashOf[q] = h
      BY <1>3 DEF LiveRows
    <2>2. Holder[h] = q /\ q # NoPreview
      BY <2>1, HolderIsLive
    <2>3. Holder' = Holder
      BY <1>3 DEF Holder, LiveRows, Live
    <2>4. Lease!Acquire(p)
      BY <1>1, <2>2, <2>3 DEF Lease!Acquire, Holder
    <2>5. QED
      BY <2>4 DEF LeaseStep, Lease!Next
  <1>4. QED
    BY <1>2, <1>3 DEF Reserve

LEMMA LeaseInit == Init => Lease!Init
  <1> SUFFICES ASSUME Init PROVE Lease!Init
    OBVIOUS
  <1>1. \A h \in Hashes : LiveRows(h) = {}
    BY DEF Init, LiveRows, Live, NoRow
  <1>2. Holder = [h \in Hashes |-> NoPreview]
    BY <1>1, OneOfFew DEF Holder
  <1>3. QED
    BY <1>2 DEF Init, Lease!Init, Spent

LEMMA LeaseNext == RowInv /\ RowInv' /\ [Next]_vars => LeaseStep
  <1> SUFFICES ASSUME RowInv, RowInv', [Next]_vars PROVE LeaseStep
    OBVIOUS
  <1>t. TypeOK /\ TypeOK' /\ OneLivePreview /\ OneLivePreview'
    BY DEF RowInv
  <1>1. ASSUME NEW p \in Previews, PreviewStep(p) PROVE LeaseStep
    <2>1. CASE Reserve(p)
      BY <1>t, <2>1, LeaseAcquire
    <2>2. CASE ~Reserve(p)
      <3>1. UNCHANGED Spent
        BY <1>1, <1>t, <2>2
        DEF TypeOK, Spent, PreviewStep, AnswerAdd, DropFailedAdd, FinishAdd, CheckTakenOver,
            TakeBack, MetadataArrives, MetadataFails
      <3>2. \A q \in Previews \ {p} : Live(q)' = Live(q)
        BY <1>1, <1>t, <2>2
        DEF TypeOK, Live, PreviewStep, AnswerAdd, DropFailedAdd, FinishAdd, CheckTakenOver,
            TakeBack, MetadataArrives, MetadataFails, Drop, Update
      <3>3. Live(p)' => Live(p)
        <4>1. CASE DropFailedAdd(p)
          BY <1>t, <4>1 DEF TypeOK, DropFailedAdd, Drop, NoRow, Live
        <4>2. CASE FinishAdd(p)
          <5>1. CASE rows' = [rows EXCEPT ![p] = [@ EXCEPT !.weAdded = (preview[p] = "added"),
                                                          !.stale = FALSE]]
            BY <1>t, <5>1 DEF TypeOK, Row, Live
          <5>2. QED
            BY <4>2, <5>1 DEF FinishAdd, Live
        <4>3. CASE MetadataArrives(p)
          BY <1>t, <4>3 DEF TypeOK, Row, MetadataArrives, Update, Live
        <4>4. CASE MetadataFails(p)
          BY <1>t, <4>4 DEF TypeOK, Row, MetadataFails, Update, Live
        <4>5. CASE UNCHANGED rows
          BY <4>5 DEF Live
        <4>6. QED
          BY <1>1, <2>2, <4>1, <4>2, <4>3, <4>4, <4>5
          DEF PreviewStep, AnswerAdd, CheckTakenOver, TakeBack
      <3>4. CASE Live(p)' = Live(p)
        BY <3>1, <3>2, <3>4, LeaseStutter DEF LeaseStep
      <3>5. CASE ~Live(p)'
        BY <1>t, <3>1, <3>2, <3>5, LeaseRelease
      <3>6. QED
        BY <3>3, <3>4, <3>5 DEF Live
    <2>3. QED
      BY <2>1, <2>2
  <1>2. ASSUME NEW p \in Previews, ModalStep(p) \/ TtlElapses(p) PROVE LeaseStep
    <2>1. UNCHANGED Spent
      BY <1>2, <1>t
      DEF TypeOK, Spent, ModalStep, Preflight, JoinModal, CloseModal, Heartbeat, PostSelection,
          TtlElapses
    <2>2. \A q \in Previews : Live(q)' = Live(q)
      <3>1. CASE UNCHANGED rows
        BY <3>1 DEF Live
      <3>2. CASE Heartbeat(p) \/ PostSelection(p) \/ TtlElapses(p)
        <4>1. /\ rows'[p].exists = rows[p].exists /\ rows'[p].errored = rows[p].errored
              /\ \A q \in Previews \ {p} : rows'[q] = rows[q]
          BY <1>t, <3>2 DEF TypeOK, Row, Heartbeat, PostSelection, TtlElapses
        <4>2. QED
          BY <4>1 DEF Live
      <3>3. QED
        BY <1>2, <3>1, <3>2 DEF ModalStep, Preflight, JoinModal, CloseModal
    <2>3. QED
      BY <2>1, <2>2, LeaseStutter DEF LeaseStep
  <1>3. ASSUME NEW p \in Previews, Drop(p), UNCHANGED preview PROVE LeaseStep
    <2>1. ~Live(p)' /\ \A q \in Previews \ {p} : Live(q)' = Live(q)
      BY <1>3, <1>t DEF TypeOK, Live, Drop, NoRow
    <2>2. UNCHANGED Spent
      BY <1>3 DEF Spent
    <2>3. QED
      BY <1>t, <2>1, <2>2, LeaseRelease
  <1>4. CASE UNCHANGED <<rows, preview>>
    BY <1>4, LeaseStutter DEF LeaseStep, Live, Spent
  <1>5. ASSUME NEW r \in Requests, RequestStart(r) \/ RequestStep(r) PROVE LeaseStep
    <2>1. CASE RequestDrop(r)
      BY <1>3, <1>t, <2>1 DEF TypeOK, RequestDrop
    <2>2. QED
      BY <1>4, <1>5, <2>1
      DEF RequestStart, RequestStep, ConfirmStart, CancelStart, ConfirmUnwant, ConfirmWant,
          ConfirmResume, ConfirmCommit, ConfirmUnblock, CancelDelete
  <1>6. ASSUME SweepStep PROVE LeaseStep
    <2>1. CASE SweepDrop
      BY <1>3, <1>t, <2>1 DEF TypeOK, SweepDrop
    <2>2. QED
      BY <1>4, <1>6, <2>1
      DEF SweepStep, SweepList, SweepPick, SweepCancel, SweepUnwant, SweepWant, SweepResume,
          SweepCommit
  <1>7. CASE Restart
    <2>1. UNCHANGED Spent
      BY <1>7, <1>t DEF TypeOK, Restart, Spent
    <2>2. \A q \in Previews : Live(q)' = Live(q)
      BY <1>7 DEF Restart, Live
    <2>3. QED
      BY <2>1, <2>2, LeaseStutter DEF LeaseStep
  <1>8. CASE (\E h \in Hashes : OutsideAdd(h) \/ OutsideRemove(h)) \/ UNCHANGED vars
    BY <1>4, <1>8 DEF OutsideAdd, OutsideRemove, vars
  <1>9. ASSUME NEW p \in Previews, PreviewDropped(p) PROVE LeaseStep
    <2>1. UNCHANGED Spent
      BY <1>9, <1>t DEF TypeOK, PreviewDropped, Spent
    <2>2. QED
      BY <1>9, <2>1, LeaseStutter DEF LeaseStep, PreviewDropped, Live
  <1>10. ASSUME NEW r \in Requests, RequestDropped(r) PROVE LeaseStep
    BY <1>4, <1>10 DEF RequestDropped
  <1>11. QED
    BY <1>1, <1>2, <1>5, <1>6, <1>7, <1>8, <1>9, <1>10 DEF Next, Environment

\* A preview's row is an exclusive, one-time lease on its release: the
\* INSERT of reserve takes it, dropping the row or storing an error gives it
\* back, and nothing a handler, a task or the sweep does later restores it.
THEOREM LeaseCorrect == Spec => LeaseRefinement
  <1>1. RowInv /\ RowInv' /\ [Next]_vars => [Lease!Next]_Lease!vars
    BY LeaseNext DEF LeaseStep, Lease!vars
  <1>2. QED
    BY <1>1, LeaseInit, RowInvInit, RowInvStep, PTL DEF Spec, LeaseRefinement, Lease!Spec

===============================================================================
