----------------------------- MODULE PendingGrabs -----------------------------
(***************************************************************************)
(* The interactive file picker: the pending_grabs table, the handlers of   *)
(* /api/grab/*, the metadata task a preview spawns, and the walkaway sweep.*)
(*                                                                         *)
(* The handlers share no lock.  Each one reads a row, then acts on that    *)
(* copy over several awaits, so every database statement and every call to *)
(* the download client is an action of its own.                            *)
(***************************************************************************)
EXTENDS Naturals, FiniteSets

CONSTANTS
  Previews,   \* preview ids; each is generated once and never reused
  Hashes,     \* info hashes
  HashOf,     \* the release each preview is opened for
  Attributed, \* the previews posted with a series_id
  Blocklisted, \* the hashes blocklisted for the series at the start
  Requests,   \* confirm and cancel requests that may be in flight at once
  Ops,        \* the requests the users send: {"confirm", "unblock", "cancel"}
  Files,      \* the indices of a release's file list
  Faults,     \* what may go wrong, see FaultKinds
  NoPreview,  \* nobody
  Earlier,    \* whoever added a torrent before the first preview of its hash
  Outside     \* whoever adds one later without the picker

FaultKinds ==
  {"add",      \* the paused add is answered with an error
   "metadata", \* the file list does not arrive within METADATA_WAIT_SECS
   "rpc",      \* another call to the client fails, applied or not
   "client",   \* the client was removed or disabled since the preview
   "suspend",  \* an open modal stops its heartbeats for a TTL
   "disconnect", \* the browser goes away and its request is dropped
   "outside",  \* somebody adds or removes the torrent behind the picker
   "restart"}  \* the process restarts

ASSUME ConstantsAssumption ==
  /\ HashOf \in [Previews -> Hashes]
  /\ Attributed \subseteq Previews
  /\ Blocklisted \subseteq Hashes
  /\ Ops \subseteq {"confirm", "unblock", "cancel"}
  /\ Files # {}
  /\ Faults \subseteq FaultKinds
  /\ {NoPreview, Earlier, Outside} \cap Previews = {}
  /\ NoPreview # Earlier /\ Outside # Earlier /\ NoPreview # Outside

VARIABLES
  rows,    \* the pending_grabs table
  open,    \* the previews with a modal on some screen
  preview, \* where the handler of POST /api/grab/preview is, per preview
  meta,    \* the metadata task of each preview
  req,     \* the confirm and cancel handlers in flight
  sweep,   \* the walkaway sweep: its copy of the expired rows
  torrent, \* what the download client holds of each hash
  grab,    \* the hashes with a pending grabbed_torrents row
  blocked  \* the hashes blocklisted for the series

vars == <<rows, open, preview, meta, req, sweep, torrent, grab, blocked>>

-------------------------------------------------------------------------------
(* State *)

\* posted is {} until the modal posts a selection, then {selection}.
Posted == {{}} \cup {{s} : s \in SUBSET Files}

Row == [exists : BOOLEAN, listed : BOOLEAN, errored : BOOLEAN,
        weAdded : BOOLEAN, stale : BOOLEAN, posted : Posted]

NoRow == [exists |-> FALSE, listed |-> FALSE, errored |-> FALSE,
          weAdded |-> FALSE, stale |-> FALSE, posted |-> {}]

NewRow == [NoRow EXCEPT !.exists = TRUE]

Torrent == [state : {"absent", "held", "running"}, wanted : SUBSET Files,
            origin : Previews \cup {NoPreview, Earlier, Outside}]

NoTorrent == [state |-> "absent", wanted |-> {}, origin |-> NoPreview]

PreviewPc == {"idle", "reserving", "adding", "failed", "added", "present",
              "orphaned", "takeback", "ended"}

RequestPc == {"idle", "unwant", "want", "resume", "commit", "unblock",
              "delete", "drop"}

Request == [pc : RequestPc, op : Ops \cup {"none"},
            pid : Previews \cup {NoPreview}, weAdded : BOOLEAN,
            pick : SUBSET Files]

NoRequest == [pc |-> "idle", op |-> "none", pid |-> NoPreview,
              weAdded |-> FALSE, pick |-> {}]

SweepPc == {"idle", "pick", "cancel", "unwant", "want", "resume", "commit", "drop"}

NoSweep == [pc |-> "idle", cur |-> NoPreview, todo |-> [p \in Previews |-> NoRow]]

TypeOK ==
  /\ rows \in [Previews -> Row]
  /\ open \subseteq Previews
  /\ preview \in [Previews -> PreviewPc]
  /\ meta \in [Previews -> {"off", "waiting"}]
  /\ req \in [Requests -> Request]
  /\ \A r \in Requests : req[r].pc # "idle" => req[r].pid \in Previews
  /\ sweep \in [pc : SweepPc, cur : Previews \cup {NoPreview}, todo : [Previews -> Row]]
  /\ sweep.pc \notin {"idle", "pick"} => sweep.cur \in Previews
  /\ torrent \in [Hashes -> Torrent]
  /\ grab \subseteq Hashes
  /\ blocked \subseteq Hashes

\* The picker starts with an empty table beside a client that may already
\* hold any of the releases.
Init ==
  /\ rows = [p \in Previews |-> NoRow]
  /\ open = {}
  /\ preview = [p \in Previews |-> "idle"]
  /\ meta = [p \in Previews |-> "off"]
  /\ req = [r \in Requests |-> NoRequest]
  /\ sweep = NoSweep
  /\ torrent \in [Hashes -> {NoTorrent, [state |-> "running", wanted |-> Files,
                                         origin |-> Earlier]}]
  /\ grab = {}
  /\ blocked = Blocklisted

-------------------------------------------------------------------------------
(* Rows and client calls *)

\* A row other previews of the hash join: it exists and carries no error.
Live(p) == rows[p].exists /\ ~rows[p].errored

LiveRows(h) == {p \in Previews : HashOf[p] = h /\ Live(p)}

\* An UPDATE by preview_id writes nothing once the row is gone.
Update(p, row) == rows' = IF rows[p].exists THEN [rows EXCEPT ![p] = row] ELSE rows

Drop(p) == rows' = [rows EXCEPT ![p] = NoRow]

Present(h) == torrent[h].state # "absent"

Becomes(h, t) == torrent' = [torrent EXCEPT ![h] = t]

\* A call that would leave the torrent as t is answered Ok.  Some clients
\* answer Ok for a hash they do not hold, others with an error.
CallOk(h, t) == IF Present(h) THEN Becomes(h, t) ELSE UNCHANGED torrent

CallErr(h, t) ==
  \/ ~Present(h) /\ UNCHANGED torrent
  \/ "rpc" \in Faults /\ (UNCHANGED torrent \/ CallOk(h, t))

Call(h, t) == CallOk(h, t) \/ CallErr(h, t)

Skipping(h, fs) == [torrent[h] EXCEPT !.wanted = @ \ fs]
Wanting(h, fs)  == [torrent[h] EXCEPT !.wanted = @ \cup fs]
Resumed(h)      == [torrent[h] EXCEPT !.state = "running"]

\* commit_grab_and_expand: a preview without a series records nothing, and
\* record_grab leaves the pending row of the hash alone.
Commit(p) == grab' = IF p \in Attributed THEN grab \cup {HashOf[p]} ELSE grab

NewGrab(p) == p \in Attributed /\ HashOf[p] \notin grab

-------------------------------------------------------------------------------
(* POST /api/grab/preview *)

\* Joining a live preview of the hash changes nothing here: see JoinModal.
Preflight(p) ==
  /\ preview[p] = "idle"
  /\ LiveRows(HashOf[p]) = {}
  /\ preview' = [preview EXCEPT ![p] = "reserving"]
  /\ UNCHANGED <<rows, open, meta, req, sweep, torrent, grab, blocked>>

\* Mutant: the claim as a plain INSERT, trusting the pre-flight check.
ReserveBlindly(p) ==
  /\ preview[p] = "reserving"
  /\ rows' = [rows EXCEPT ![p] = NewRow]
  /\ preview' = [preview EXCEPT ![p] = "adding"]
  /\ UNCHANGED <<open, meta, req, sweep, torrent, grab, blocked>>

\* One INSERT ... WHERE NOT EXISTS; the loser joins or is told to retry.
Reserve(p) ==
  /\ preview[p] = "reserving"
  /\ \/ /\ LiveRows(HashOf[p]) = {}
        /\ rows' = [rows EXCEPT ![p] = NewRow]
        /\ preview' = [preview EXCEPT ![p] = "adding"]
     \/ /\ LiveRows(HashOf[p]) # {}
        /\ preview' = [preview EXCEPT ![p] = "ended"]
        /\ UNCHANGED rows
  /\ UNCHANGED <<open, meta, req, sweep, torrent, grab, blocked>>

\* A fresh torrent is held: paused, or on qBittorrent running with every
\* file skipped.  qBittorrent leaves it running with every file wanted when
\* its own wait for metadata times out.
AddedTorrent(p) ==
  {[state |-> "held", wanted |-> {}, origin |-> p]} \cup
  (IF "metadata" \in Faults
   THEN {[state |-> "running", wanted |-> Files, origin |-> p]} ELSE {})

\* Mutant: an add answered "already there" taken for one that added it.
AnswerPresentAsAdded(p) ==
  /\ preview[p] = "adding"
  /\ preview' = [preview EXCEPT ![p] = "added"]
  /\ IF Present(HashOf[p]) THEN UNCHANGED torrent
     ELSE \E t \in AddedTorrent(p) : Becomes(HashOf[p], t)
  /\ UNCHANGED <<rows, open, meta, req, sweep, grab, blocked>>

\* The client answers the paused add.
AnswerAdd(p) ==
  LET h == HashOf[p] IN
  /\ preview[p] = "adding"
  /\ \/ /\ Present(h)
        /\ preview' = [preview EXCEPT ![p] = "present"]
        /\ UNCHANGED torrent
     \/ /\ ~Present(h)
        /\ preview' = [preview EXCEPT ![p] = "added"]
        /\ \E t \in AddedTorrent(p) : Becomes(h, t)
     \/ /\ "add" \in Faults
        /\ preview' = [preview EXCEPT ![p] = "failed"]
        /\ \/ UNCHANGED torrent
           \/ ~Present(h) /\ \E t \in AddedTorrent(p) : Becomes(h, t)
  /\ UNCHANGED <<rows, open, meta, req, sweep, grab, blocked>>

DropFailedAdd(p) ==
  /\ preview[p] = "failed"
  /\ Drop(p)
  /\ preview' = [preview EXCEPT ![p] = "ended"]
  /\ UNCHANGED <<open, meta, req, sweep, torrent, grab, blocked>>

\* Mutant: the outcome of the add written as an upsert.
FinishAddUpserts(p) ==
  /\ preview[p] \in {"added", "present"}
  /\ rows' = [rows EXCEPT ![p] = [@ EXCEPT !.exists = TRUE, !.stale = FALSE,
                                        !.weAdded = (preview[p] = "added")]]
  /\ meta' = [meta EXCEPT ![p] = "waiting"]
  /\ preview' = [preview EXCEPT ![p] = "ended"]
  /\ UNCHANGED <<open, req, sweep, torrent, grab, blocked>>

\* Mutant: a row gone in the meantime is not noticed.
FinishAddForgets(p) ==
  /\ preview[p] \in {"added", "present"}
  /\ rows[p].exists => rows' = [rows EXCEPT ![p].stale = FALSE,
                                          ![p].weAdded = (preview[p] = "added")]
  /\ ~rows[p].exists => UNCHANGED rows
  /\ preview' = [preview EXCEPT ![p] = "ended"]
  /\ UNCHANGED <<open, meta, req, sweep, torrent, grab, blocked>>

\* finish_add, and the metadata task when the row is still there.
FinishAdd(p) ==
  /\ preview[p] \in {"added", "present"}
  /\ \/ /\ rows[p].exists
        /\ rows' = [rows EXCEPT ![p] = [@ EXCEPT !.weAdded = (preview[p] = "added"),
                                              !.stale = FALSE]]
        /\ meta' = [meta EXCEPT ![p] = "waiting"]
        /\ open' = open \cup {p}
        /\ preview' = [preview EXCEPT ![p] = "ended"]
     \/ /\ ~rows[p].exists
        /\ preview' = [preview EXCEPT ![p] = IF @ = "added" THEN "orphaned" ELSE "ended"]
        /\ UNCHANGED <<rows, meta, open>>
  /\ UNCHANGED <<req, sweep, torrent, grab, blocked>>

\* The row went while the add ran: has another preview taken the hash over?
CheckTakenOver(p) ==
  /\ preview[p] = "orphaned"
  /\ preview' = [preview EXCEPT ![p] = IF LiveRows(HashOf[p]) = {} THEN "takeback" ELSE "ended"]
  /\ UNCHANGED <<rows, open, meta, req, sweep, torrent, grab, blocked>>

TakeBack(p) ==
  /\ preview[p] = "takeback"
  /\ Call(HashOf[p], NoTorrent)
  /\ preview' = [preview EXCEPT ![p] = "ended"]
  /\ UNCHANGED <<rows, open, meta, req, sweep, grab, blocked>>

\* Mutant: the task goes on waiting after it has stored the file list.
MetadataArrivesGoesOn(p) ==
  /\ meta[p] = "waiting"
  /\ Present(HashOf[p])
  /\ Update(p, [rows[p] EXCEPT !.listed = TRUE])
  /\ UNCHANGED <<open, preview, meta, req, sweep, torrent, grab, blocked>>

\* wait_for_files answers, or gives up.
MetadataArrives(p) ==
  /\ meta[p] = "waiting"
  /\ Present(HashOf[p])
  /\ Update(p, [rows[p] EXCEPT !.listed = TRUE])
  /\ meta' = [meta EXCEPT ![p] = "off"]
  /\ UNCHANGED <<open, preview, req, sweep, torrent, grab, blocked>>

MetadataFails(p) ==
  /\ meta[p] = "waiting"
  /\ "metadata" \in Faults \/ ~Present(HashOf[p])
  /\ Update(p, [rows[p] EXCEPT !.errored = TRUE])
  /\ meta' = [meta EXCEPT ![p] = "off"]
  /\ UNCHANGED <<open, preview, req, sweep, torrent, grab, blocked>>

-------------------------------------------------------------------------------
(* The modal: join, heartbeat, selection, close *)

JoinModal(p) ==
  /\ Live(p) /\ p \notin open
  /\ open' = open \cup {p}
  /\ UNCHANGED <<rows, preview, meta, req, sweep, torrent, grab, blocked>>

CloseModal(p) ==
  /\ p \in open
  /\ open' = open \ {p}
  /\ UNCHANGED <<rows, preview, meta, req, sweep, torrent, grab, blocked>>

Heartbeat(p) ==
  /\ p \in open /\ rows[p].exists /\ rows[p].stale
  /\ rows' = [rows EXCEPT ![p].stale = FALSE]
  /\ UNCHANGED <<open, preview, meta, req, sweep, torrent, grab, blocked>>

\* HEARTBEAT_TTL_SECS pass without a heartbeat: the modal is closed, stopped
\* on an error, or suspended by the browser.
TtlElapses(p) ==
  /\ rows[p].exists /\ ~rows[p].stale
  /\ p \notin open \/ rows[p].errored \/ "suspend" \in Faults
  /\ rows' = [rows EXCEPT ![p].stale = TRUE]
  /\ UNCHANGED <<open, preview, meta, req, sweep, torrent, grab, blocked>>

\* The modal posts its ticks once it shows the file list; the last post may
\* be the one sent as the page goes away.
PostSelection(p) ==
  /\ p \in open /\ rows[p].exists /\ rows[p].listed
  /\ \E s \in SUBSET Files : rows' = [rows EXCEPT ![p].posted = {s}]
  /\ UNCHANGED <<open, preview, meta, req, sweep, torrent, grab, blocked>>

-------------------------------------------------------------------------------
(* POST /api/grab/confirm *)

Step(r, pc) == req' = [req EXCEPT ![r].pc = pc]

\* The handler keeps what it read of the row: here whether we added it.
Begin(r, pc, op, p, pick) ==
  req' = [req EXCEPT ![r] = [pc |-> pc, op |-> op, pid |-> p,
                             weAdded |-> rows[p].weAdded, pick |-> pick]]

\* Without a file list or a client the request is refused and changes nothing.
ConfirmStart(r) ==
  \E op \in Ops \ {"cancel"}, p \in Previews, pick \in SUBSET Files :
    /\ req[r].pc = "idle"
    /\ rows[p].exists /\ rows[p].listed
    /\ Begin(r, IF pick = Files THEN "want" ELSE "unwant", op, p, pick)
    /\ UNCHANGED <<rows, open, preview, meta, sweep, torrent, grab, blocked>>

ConfirmUnwant(r) ==
  LET h == HashOf[req[r].pid] IN
  /\ req[r].pc = "unwant"
  /\ Call(h, Skipping(h, Files \ req[r].pick))
  /\ Step(r, IF req[r].pick = {} THEN "resume" ELSE "want")
  /\ UNCHANGED <<rows, open, preview, meta, sweep, grab, blocked>>

ConfirmWant(r) ==
  LET h == HashOf[req[r].pid] IN
  /\ req[r].pc = "want"
  /\ Call(h, Wanting(h, req[r].pick))
  /\ Step(r, "resume")
  /\ UNCHANGED <<rows, open, preview, meta, sweep, grab, blocked>>

\* Mutant: the row is deleted before the grab is recorded.
ConfirmResumeDropsRow(r) ==
  /\ req[r].pc = "resume"
  /\ Call(HashOf[req[r].pid], Resumed(HashOf[req[r].pid]))
  /\ Drop(req[r].pid)
  /\ Step(r, "commit")
  /\ UNCHANGED <<open, preview, meta, sweep, grab, blocked>>

\* A failed resume is reported, and the grab is committed all the same.
ConfirmResume(r) ==
  LET h == HashOf[req[r].pid] IN
  /\ req[r].pc = "resume"
  /\ Call(h, Resumed(h))
  /\ Step(r, "commit")
  /\ UNCHANGED <<rows, open, preview, meta, sweep, grab, blocked>>

ConfirmCommit(r) ==
  LET p == req[r].pid IN
  /\ req[r].pc = "commit"
  /\ Commit(p)
  /\ Step(r, IF req[r].op = "unblock" /\ NewGrab(p) THEN "unblock" ELSE "drop")
  /\ UNCHANGED <<rows, open, preview, meta, sweep, torrent, blocked>>

ConfirmUnblock(r) ==
  /\ req[r].pc = "unblock"
  /\ blocked' = blocked \ {HashOf[req[r].pid]}
  /\ Step(r, "drop")
  /\ UNCHANGED <<rows, open, preview, meta, sweep, torrent, grab>>

-------------------------------------------------------------------------------
(* POST /api/grab/cancel *)

\* The torrent goes only when this preview's add created it; a client that
\* is gone is skipped.
CancelStart(r) ==
  \E p \in Previews :
    /\ req[r].pc = "idle" /\ "cancel" \in Ops
    /\ rows[p].exists
    /\ \E pc \in {"delete", "drop"} :
         /\ pc = "delete" => rows[p].weAdded
         /\ pc = "drop" => ~rows[p].weAdded \/ "client" \in Faults
         /\ Begin(r, pc, "cancel", p, {})
    /\ UNCHANGED <<rows, open, preview, meta, sweep, torrent, grab, blocked>>

CancelDelete(r) ==
  /\ req[r].pc = "delete"
  /\ Call(HashOf[req[r].pid], NoTorrent)
  /\ Step(r, "drop")
  /\ UNCHANGED <<rows, open, preview, meta, sweep, grab, blocked>>

\* The last statement of confirm and of cancel.
RequestDrop(r) ==
  /\ req[r].pc = "drop"
  /\ Drop(req[r].pid)
  /\ req' = [req EXCEPT ![r] = NoRequest]
  /\ UNCHANGED <<open, preview, meta, sweep, torrent, grab, blocked>>

-------------------------------------------------------------------------------
(* The walkaway sweep *)

Swept == sweep.todo[sweep.cur]

\* The last posted selection, every file when none was posted.
Ticked(row) == IF row.posted = {} THEN Files ELSE UNION row.posted

SweepTo(pc) == sweep' = [sweep EXCEPT !.pc = pc]

\* Mutant: the sweep's query leaves errored rows to the user.
SweepListSkipsErrored ==
  LET expired == {p \in Previews : rows[p].stale /\ ~rows[p].errored} IN
  /\ sweep.pc = "idle" /\ expired # {}
  /\ sweep' = [pc |-> "pick", cur |-> NoPreview,
               todo |-> [p \in Previews |-> IF p \in expired THEN rows[p] ELSE NoRow]]
  /\ UNCHANGED <<rows, open, preview, meta, req, torrent, grab, blocked>>

\* list_expired: one SELECT for the whole tick.
SweepList ==
  /\ sweep.pc = "idle"
  /\ \E p \in Previews : rows[p].exists /\ rows[p].stale
  /\ sweep' = [pc |-> "pick", cur |-> NoPreview,
               todo |-> [p \in Previews |-> IF rows[p].stale THEN rows[p] ELSE NoRow]]
  /\ UNCHANGED <<rows, open, preview, meta, req, torrent, grab, blocked>>

\* Where auto_commit_row goes with a row: past its early returns, or not.
SweepBranches(row) ==
  IF row.errored \/ ~row.listed THEN {"drop"}
  ELSE {IF Ticked(row) = Files THEN "want"
        ELSE IF Ticked(row) # {} THEN "unwant"
        ELSE IF row.weAdded THEN "cancel" ELSE "drop"}
       \cup (IF "client" \in Faults THEN {"drop"} ELSE {})

\* Mutant: the sweep sets out on a row without noting which.
SweepPickForgets(p) ==
  /\ sweep.pc = "pick" /\ sweep.todo[p].exists
  /\ \E pc \in SweepBranches(sweep.todo[p]) : sweep' = [sweep EXCEPT !.pc = pc]
  /\ UNCHANGED <<rows, open, preview, meta, req, torrent, grab, blocked>>

\* The copied rows are taken in any order.
SweepPick(p) ==
  /\ sweep.pc = "pick" /\ sweep.todo[p].exists
  /\ \E pc \in SweepBranches(sweep.todo[p]) :
       sweep' = [sweep EXCEPT !.pc = pc, !.cur = p]
  /\ UNCHANGED <<rows, open, preview, meta, req, torrent, grab, blocked>>

SweepCancel ==
  /\ sweep.pc = "cancel"
  /\ Call(HashOf[sweep.cur], NoTorrent)
  /\ SweepTo("drop")
  /\ UNCHANGED <<rows, open, preview, meta, req, grab, blocked>>

\* Mutant: the two sides of the partition swapped.
SweepUnwantInverted ==
  /\ sweep.pc = "unwant"
  /\ Call(HashOf[sweep.cur], Skipping(HashOf[sweep.cur], Ticked(Swept)))
  /\ SweepTo("want")
  /\ UNCHANGED <<rows, open, preview, meta, req, grab, blocked>>

SweepUnwant ==
  LET h == HashOf[sweep.cur] IN
  /\ sweep.pc = "unwant"
  /\ Call(h, Skipping(h, Files \ Ticked(Swept)))
  /\ SweepTo("want")
  /\ UNCHANGED <<rows, open, preview, meta, req, grab, blocked>>

SweepWant ==
  LET h == HashOf[sweep.cur]
      t == Wanting(h, Ticked(Swept)) IN
  /\ sweep.pc = "want"
  /\ \/ CallOk(h, t) /\ SweepTo("resume")
     \/ CallErr(h, t) /\ SweepTo("drop")
  /\ UNCHANGED <<rows, open, preview, meta, req, grab, blocked>>

SweepResume ==
  LET h == HashOf[sweep.cur] IN
  /\ sweep.pc = "resume"
  /\ \/ CallOk(h, Resumed(h)) /\ SweepTo("commit")
     \/ CallErr(h, Resumed(h)) /\ SweepTo("drop")
  /\ UNCHANGED <<rows, open, preview, meta, req, grab, blocked>>

SweepCommit ==
  /\ sweep.pc = "commit"
  /\ Commit(sweep.cur)
  /\ SweepTo("drop")
  /\ UNCHANGED <<rows, open, preview, meta, req, torrent, blocked>>

\* The row goes whatever became of the commit.
SweepDrop ==
  LET left == [sweep.todo EXCEPT ![sweep.cur] = NoRow] IN
  /\ sweep.pc = "drop"
  /\ Drop(sweep.cur)
  /\ sweep' = [pc |-> IF \E p \in Previews : left[p].exists THEN "pick" ELSE "idle",
               cur |-> NoPreview, todo |-> left]
  /\ UNCHANGED <<open, preview, meta, req, torrent, grab, blocked>>

-------------------------------------------------------------------------------
(* The environment *)

OutsideAdd(h) ==
  /\ "outside" \in Faults /\ ~Present(h)
  /\ Becomes(h, [state |-> "running", wanted |-> Files, origin |-> Outside])
  /\ UNCHANGED <<rows, open, preview, meta, req, sweep, grab, blocked>>

OutsideRemove(h) ==
  /\ "outside" \in Faults /\ Present(h)
  /\ Becomes(h, NoTorrent)
  /\ UNCHANGED <<rows, open, preview, meta, req, sweep, grab, blocked>>

\* The server drops the future of a request whose connection closed, at the
\* await it has reached.  Tasks already spawned go on.
PreviewDropped(p) ==
  /\ "disconnect" \in Faults /\ preview[p] \notin {"idle", "ended"}
  /\ preview' = [preview EXCEPT ![p] = IF @ = "reserving" THEN "idle" ELSE "ended"]
  /\ UNCHANGED <<rows, open, meta, req, sweep, torrent, grab, blocked>>

RequestDropped(r) ==
  /\ "disconnect" \in Faults /\ req[r].pc # "idle"
  /\ req' = [req EXCEPT ![r] = NoRequest]
  /\ UNCHANGED <<rows, open, preview, meta, sweep, torrent, grab, blocked>>

\* The table survives a restart; handlers, tasks and the sweep do not.
Restart ==
  /\ "restart" \in Faults
  /\ preview' = [p \in Previews |-> IF preview[p] \in {"idle", "reserving"} THEN "idle" ELSE "ended"]
  /\ meta' = [p \in Previews |-> "off"]
  /\ req' = [r \in Requests |-> NoRequest]
  /\ sweep' = NoSweep
  /\ UNCHANGED <<rows, open, torrent, grab, blocked>>

-------------------------------------------------------------------------------
PreviewStep(p) ==
  \/ Reserve(p) \/ AnswerAdd(p) \/ DropFailedAdd(p) \/ FinishAdd(p)
  \/ CheckTakenOver(p) \/ TakeBack(p) \/ MetadataArrives(p) \/ MetadataFails(p)

ModalStep(p) ==
  \/ Preflight(p) \/ JoinModal(p) \/ CloseModal(p) \/ Heartbeat(p) \/ PostSelection(p)

RequestStep(r) ==
  \/ ConfirmUnwant(r) \/ ConfirmWant(r) \/ ConfirmResume(r) \/ ConfirmCommit(r)
  \/ ConfirmUnblock(r) \/ CancelDelete(r) \/ RequestDrop(r)

RequestStart(r) == ConfirmStart(r) \/ CancelStart(r)

SweepStep ==
  \/ SweepList \/ (\E p \in Previews : SweepPick(p)) \/ SweepCancel \/ SweepUnwant
  \/ SweepWant \/ SweepResume \/ SweepCommit \/ SweepDrop

Environment ==
  \/ Restart
  \/ \E p \in Previews : PreviewDropped(p)
  \/ \E r \in Requests : RequestDropped(r)
  \/ \E h \in Hashes : OutsideAdd(h) \/ OutsideRemove(h)

Next ==
  \/ \E p \in Previews : PreviewStep(p) \/ ModalStep(p) \/ TtlElapses(p)
  \/ \E r \in Requests : RequestStart(r) \/ RequestStep(r)
  \/ SweepStep
  \/ Environment

Spec == Init /\ [][Next]_vars

\* Handlers run to completion, the clock advances, and the supervised sweep
\* loop ticks every minute.  Nobody has to open, close or confirm anything.
Fairness ==
  /\ \A p \in Previews : WF_vars(PreviewStep(p)) /\ WF_vars(TtlElapses(p))
  /\ \A r \in Requests : WF_vars(RequestStep(r))
  /\ WF_vars(SweepStep)

FairSpec == Spec /\ Fairness

-------------------------------------------------------------------------------
(* Properties *)

\* At most one preview of a release is live, however the preview handlers of
\* two tabs interleave with the add, the sweep and the metadata tasks.
OneLivePreview ==
  \A p, q \in Previews : Live(p) /\ Live(q) /\ HashOf[p] = HashOf[q] => p = q

\* Confirm does not look at error_message: it relies on an errored preview
\* never having a file list.
ErroredHasNoFiles == \A p \in Previews : ~(rows[p].listed /\ rows[p].errored)

\* A torrent that was in the client before the first preview of its hash is
\* never deleted by the picker: not by a cancel while the add is in flight,
\* not by the sweep, not by the take-back of a late add.
EarlierTorrentsSurvive ==
  [][\A h \in Hashes : torrent[h].origin = Earlier /\ torrent'[h].origin # Earlier
       => OutsideRemove(h)]_vars

\* Once a modal is closed its row does not stay: the sweep drops it, listed,
\* errored or still waiting for its add, so the release can be grabbed again.
ClosedPreviewsDrain ==
  \A p \in Previews : (rows[p].exists /\ p \notin open) ~> (~rows[p].exists \/ p \in open)

\* A preview whose row was swept or cancelled while its add ran does not
\* leave the torrent it created behind, unless a live preview took it over.
LateAddsSettle ==
  \A p \in Previews :
    (preview[p] = "added" /\ ~rows[p].exists)
      ~> (torrent[HashOf[p]].origin # p \/ LiveRows(HashOf[p]) # {})

\* A closed modal whose last post was a selection of ticked, not being confirmed
\* and not in the hands of a tick in progress.
WalkedAway(p, ticked) ==
  /\ Live(p) /\ rows[p].listed /\ rows[p].posted # {{}} /\ Ticked(rows[p]) = ticked
  /\ p \notin open /\ ~sweep.todo[p].exists
  /\ \A r \in Requests : req[r].pid # p

\* Walking away from a picker still grabs what was ticked last, and nothing
\* else: the torrent ends up running with exactly those files, attributed to the
\* series, unless somebody opens the preview again or confirms it.
WalkawayCommits ==
  \A p \in Attributed, ticked \in SUBSET Files :
    WalkedAway(p, ticked)
      ~> \/ /\ HashOf[p] \in grab
            /\ torrent[HashOf[p]].state = "running" /\ torrent[HashOf[p]].wanted = ticked
         \/ p \in open \/ \E r \in Requests : req[r].pid = p

\* A confirm past its checks ends with the grab recorded even when its
\* request is dropped half way: its row is still there for the sweep, unless
\* the modal stays open or unticks everything.
ConfirmCommits ==
  \A p \in Attributed :
    (/\ \E r \in Requests : req[r].pid = p /\ req[r].op \in {"confirm", "unblock"}
     /\ rows[p].exists /\ ~sweep.todo[p].exists)
      ~> (HashOf[p] \in grab \/ p \in open \/ rows[p].posted = {{}})

-------------------------------------------------------------------------------
(* What a comment claims and the code does not do *)

\* handlers/grab.rs on the preview's pre-flight check: a cancel must not
\* delete the torrent under another tab's preview of the release.
CancelSparesOtherPreviews ==
  [][\A r \in Requests : CancelDelete(r) =>
       LiveRows(HashOf[req[r].pid]) \subseteq {req[r].pid}]_vars

-------------------------------------------------------------------------------
(* The lease a preview holds on its release *)

OneOf(ps) == IF ps = {} THEN NoPreview ELSE CHOOSE p \in ps : TRUE

Holder == [h \in Hashes |-> OneOf(LiveRows(h))]

Spent == {p \in Previews : preview[p] \notin {"idle", "reserving"}}

Lease == INSTANCE PreviewLease WITH holder <- Holder, spent <- Spent

\* The handlers implement an exclusive, one-time lease of a preview on the
\* release: it passes through nobody's hands on its way to the next preview,
\* and no late write of the add or of the metadata task brings it back.
LeaseRefinement == Lease!Spec
===============================================================================
