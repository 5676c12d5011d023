------------------------------- MODULE Misgrab -------------------------------
(* The misgrab guardrails (services/misgrab, handlers/library/misgrabs.rs and  *)
(* the verdict columns of grabbed_torrents).  A grab is judged once by the     *)
(* file list of its download: by the task its handler spawned, by the import,  *)
(* or by the sweep, whoever is first.  The sweep remediates what was judged a  *)
(* misgrab; the user restores or dismisses it.                                 *)
(*                                                                             *)
(* Each SQL statement and each client call is a step.  A verdict is any of the *)
(* two: the judges see the same files and may hold different aliases, and what *)
(* is unverifiable fares like what is verified, here "cleared".  The           *)
(* search that follows a removal is one of the grabs that can happen anyway,   *)
(* reviewed_at only hides a row, and rows that failed for another reason than  *)
(* a misgrab are GrabLifecycle's.                                              *)
EXTENDS Naturals

CONSTANTS
  Grabs,        \* rows of grabbed_torrents, in the order of their ids
  Hashes, Series,
  Requests,     \* restore and dismiss requests
  Plans,        \* bounds of the model: what a behaviour may contain, see Plan
  NoGrab

\* the releases are plain torrents, torrents under respect_seed_rules, or usenet jobs
Plan == [ops : SUBSET {"import", "restore", "dismiss", "cancel"}, grabs : Nat,
         kind : {"plain", "ruled", "usenet"},
         faults : SUBSET {"client", "database", "restart"}, atMost : Nat]

ASSUME MisgrabAssumptions ==
  /\ Grabs \subseteq Nat
  /\ Hashes # {} /\ Series # {}
  /\ Plans \subseteq Plan
  /\ NoGrab \notin Grabs

VARIABLES
  plan,        \* the plan of this behaviour
  row,         \* grabbed_torrents
  item,        \* hashes the download client holds
  grabber,     \* automatic grabs under way, by the row they will insert
  judge,       \* the grab-time task of each row
  tick,        \* the import of one row
  sweep,       \* sweep_once
  req,         \* restore and dismiss handlers
  grabbed, faults,   \* counters
  \* history, read by properties only
  restored,    \* hashes a restore was answered for, having whitelisted a row
  cancelled,   \* hashes of grabs that were cancelled
  misread      \* whitelisted hashes a judge took for not whitelisted: its read failed

dbVars == <<row, item>>
actors == <<grabber, judge, tick, sweep, req>>
others == <<plan, grabbed, faults, restored, cancelled, misread>>
history == <<plan, grabbed, restored, cancelled, misread>>
record == <<plan, grabbed, restored, cancelled>>
misgrabVars == <<dbVars, actors, others>>

------------------------------------------------------------------------------
(* The table and its statements *)

Live == {"pending", "imported"}
States == Live \cup {"failed", "removed", "replaced", "none"}
Judged == {"cleared", "misgrab"}
Verdicts == Judged \cup {"whitelisted", "none"}
Actions == {"removed", "removed_no_delete", "flagged", "none"}

Row == [state : States, hash : Hashes, series : Series,
        verdict : Verdicts, action : Actions]

NoRow == [state |-> "none", hash |-> CHOOSE h \in Hashes : TRUE,
          series |-> CHOOSE s \in Series : TRUE, verdict |-> "none", action |-> "none"]

Recorded == {i \in Grabs : row[i].state # "none"}
OfHash(h) == {i \in Recorded : row[i].hash = h}
LiveOf(h) == {i \in OfHash(h) : row[i].state \in Live}

\* is_whitelisted_hash
Whitelisted(h) == \E i \in OfHash(h) : row[i].verdict = "whitelisted"

\* the rows of a hash that block it for series s: is_blocklisted_for, unblock_by_hash
Blocking(h, s) == {i \in OfHash(h) : row[i].state = "failed" /\ row[i].series = s}

\* Mutant of Stamped: the UPDATE has no IS NULL condition
StampedBlindly(i, verdict) == [row EXCEPT ![i].verdict = verdict]

\* stamp_verification: the first writer wins
Stamped(i, verdict) ==
  IF row[i].verdict = "none" THEN [row EXCEPT ![i].verdict = verdict] ELSE row

\* record_grab: the row a grab of h for s would get, and the table with it.  A pending
\* row is left alone; an imported one is reactivated and keeps its verdict
GrabRow(i, h) ==
  IF LiveOf(h) = {} THEN i
  ELSE LET j == CHOOSE j \in LiveOf(h) : TRUE
       IN IF row[j].state = "imported" THEN j ELSE NoGrab

\* Mutant of WithGrab: the row is inserted whatever the hash has
WithGrabAlways(i, h, s) ==
  [row EXCEPT ![i] = [NoRow EXCEPT !.state = "pending", !.hash = h, !.series = s]]

WithGrab(i, h, s) ==
  LET j == GrabRow(i, h)
  IN IF LiveOf(h) = {}
     THEN [row EXCEPT ![i] = [NoRow EXCEPT !.state = "pending", !.hash = h, !.series = s]]
     ELSE IF j # NoGrab THEN [row EXCEPT ![j].state = "pending", ![j].series = s] ELSE row

\* Mutant of FailedByHash: the statement leaves imported rows alone
PendingFailedByHash(h) ==
  [i \in Grabs |-> IF i \in OfHash(h) /\ row[i].state = "pending"
                   THEN [row[i] EXCEPT !.state = "failed"] ELSE row[i]]

\* mark_failed_by_hash_with_reason(hash, "misgrab")
FailedByHash(h) ==
  [i \in Grabs |-> IF i \in LiveOf(h) THEN [row[i] EXCEPT !.state = "failed"] ELSE row[i]]

\* Mutant of WhitelistedByHash: only what was judged is whitelisted
JudgedWhitelisted(h, s) ==
  [i \in Grabs |-> IF i \in OfHash(h) /\ row[i].verdict = "misgrab" /\ row[i].series = s
                   THEN [row[i] EXCEPT !.verdict = "whitelisted"] ELSE row[i]]

\* whitelist_by_hash: not another series' misgrab
WhitelistedByHash(h, s) ==
  [i \in Grabs |-> IF i \in OfHash(h) /\ (row[i].verdict # "misgrab" \/ row[i].series = s)
                   THEN [row[i] EXCEPT !.verdict = "whitelisted"]
                   ELSE row[i]]

\* unblock_by_hash
Unblocked(h, s) ==
  [i \in Grabs |-> IF i \in Blocking(h, s) THEN [row[i] EXCEPT !.state = "replaced"] ELSE row[i]]

Fault(f) == f \in plan.faults /\ faults < plan.atMost /\ faults' = faults + 1

\* what a judge concludes about a row it has read: is_whitelisted_hash takes an error for
\* "no", and an error of get_verification before it only means judging to no effect
Verdict(i, v) ==
  \/ /\ v \in IF Whitelisted(row[i].hash) THEN {"whitelisted"} ELSE Judged
     /\ UNCHANGED <<faults, misread>>
  \/ /\ Whitelisted(row[i].hash) /\ v \in Judged
     /\ Fault("database")
     /\ misread' = misread \cup {row[i].hash}

\* stamp_verification, whose error no judge reports
Stamp(i, verdict) ==
  \/ row' = Stamped(i, verdict) /\ UNCHANGED faults
  \/ Fault("database") /\ UNCHANGED row

------------------------------------------------------------------------------
(* Automatic grabs: search, RSS, autobrr *)

IdleGrab == [pc |-> "idle", hash |-> NoRow.hash, series |-> NoRow.series]

\* the id the next row will get; a row that a duplicate left unused is used later
FreeRow == {i \in Grabs : /\ row[i].state = "none" /\ grabber[i] = IdleGrab
                          /\ \A j \in Grabs : j < i => row[j].state # "none" \/ grabber[j] # IdleGrab}

\* the blocklist is read, long before the row is recorded, and the client has the release
GrabAdd(i, h, s) ==
  /\ i \in FreeRow /\ grabbed < plan.grabs
  /\ Blocking(h, s) = {}
  /\ grabbed' = grabbed + 1
  /\ item' = item \cup {h}
  /\ grabber' = [grabber EXCEPT ![i] = [pc |-> "record", hash |-> h, series |-> s]]
  /\ UNCHANGED <<row, judge, tick, sweep, req, plan, faults, restored, cancelled, misread>>

\* record_grab, and the task that waits for the file list
GrabRecord(i) ==
  /\ grabber[i].pc = "record"
  /\ LET h == grabber[i].hash
         s == grabber[i].series
     IN /\ row' = WithGrab(i, h, s)
        /\ judge' = IF GrabRow(i, h) = NoGrab \/ plan.kind = "usenet" THEN judge
                    ELSE [judge EXCEPT ![GrabRow(i, h)] = "waiting"]
  /\ grabber' = [grabber EXCEPT ![i] = IdleGrab]
  /\ UNCHANGED <<item, tick, sweep, req, others>>

\* expand_from_files: a stamped verdict is final, else judge ...
JudgeRead(i) ==
  /\ judge[i] = "waiting"
  /\ \/ /\ row[i].hash \in item /\ row[i].verdict = "none"
        /\ \E v \in Verdicts : Verdict(i, v) /\ judge' = [judge EXCEPT ![i] = v]
     \/ /\ judge' = [judge EXCEPT ![i] = "idle"]    \* stamped already, or no file list came
        /\ UNCHANGED <<faults, misread>>
  /\ UNCHANGED <<dbVars, grabber, tick, sweep, req, record>>

\* ... and stamp
JudgeStamp(i) ==
  /\ judge[i] \notin {"idle", "waiting"}
  /\ Stamp(i, judge[i])
  /\ judge' = [judge EXCEPT ![i] = "idle"]
  /\ UNCHANGED <<item, grabber, tick, sweep, req, history>>

------------------------------------------------------------------------------
(* The import of one row; the rest of the tick is GrabLifecycle's *)

IdleTick == [pc |-> "idle", cur |-> NoGrab, verdict |-> "none"]

\* get_all_pending leaves misgrabs out; minutes may pass before the row's turn
TickList(i) ==
  /\ tick = IdleTick
  /\ "import" \in plan.ops
  /\ row[i].state = "pending" /\ row[i].verdict # "misgrab"
  /\ tick' = [IdleTick EXCEPT !.pc = "verify", !.cur = i]
  /\ UNCHANGED <<dbVars, grabber, judge, sweep, req, others>>

\* import_torrent judges the files if nobody has
TickVerify ==
  /\ tick.pc = "verify"
  /\ LET i == tick.cur IN
     \/ /\ row[i].hash \notin item
        /\ tick' = IdleTick
        /\ UNCHANGED <<faults, misread>>
     \/ /\ row[i].hash \in item /\ row[i].verdict # "none"
        /\ tick' = [tick EXCEPT !.pc = "place"]
        /\ UNCHANGED <<faults, misread>>
     \/ /\ row[i].hash \in item /\ row[i].verdict = "none"
        /\ \E v \in Verdicts :
             Verdict(i, v) /\ tick' = [tick EXCEPT !.pc = "stamp", !.verdict = v]
  /\ UNCHANGED <<dbVars, grabber, judge, sweep, req, record>>

TickStamp ==
  /\ tick.pc = "stamp"
  /\ Stamp(tick.cur, tick.verdict)
  /\ tick' = IF tick.verdict = "misgrab" THEN IdleTick ELSE [tick EXCEPT !.pc = "place"]
  /\ UNCHANGED <<item, grabber, judge, sweep, req, history>>

\* place the files, mark_imported
TickImport ==
  /\ tick.pc = "place"
  /\ row' = IF row[tick.cur].state = "pending" THEN [row EXCEPT ![tick.cur].state = "imported"]
            ELSE row
  /\ tick' = IdleTick
  /\ UNCHANGED <<item, grabber, judge, sweep, req, others>>

------------------------------------------------------------------------------
(* sweep_once, one at a time under MISGRAB_LOCK *)

IdleSweep == [pc |-> "idle", todo |-> {}, cur |-> NoGrab, verdict |-> "none", action |-> "none"]

\* list_unverified_pending: those that are MIN_AGE_SECS old
SweepList ==
  /\ sweep = IdleSweep
  /\ \E old \in SUBSET {i \in Recorded : row[i].state = "pending" /\ row[i].verdict = "none"} :
       sweep' = [sweep EXCEPT !.pc = "verify", !.todo = old]
  /\ UNCHANGED <<dbVars, grabber, judge, tick, req, others>>

\* verify_pending_grab of one of them: a grab without a file list is left for the
\* next tick, or is unverifiable when its grace period is over
SweepVerify(i) ==
  /\ sweep.pc = "verify" /\ i \in sweep.todo
  /\ \/ /\ row[i].hash \in item /\ plan.kind # "usenet"
        /\ \E v \in Verdicts :
             Verdict(i, v) /\ sweep' = [sweep EXCEPT !.pc = "stamp", !.cur = i, !.verdict = v]
     \/ /\ \/ /\ row[i].hash \notin item \/ plan.kind = "usenet"
              /\ UNCHANGED faults
           \/ Fault("client")
        /\ \/ sweep' = [sweep EXCEPT !.pc = "stamp", !.cur = i, !.verdict = "cleared"]
           \/ sweep' = [sweep EXCEPT !.todo = @ \ {i}]
        /\ UNCHANGED misread
  /\ UNCHANGED <<dbVars, grabber, judge, tick, req, record>>

SweepStamp ==
  /\ sweep.pc = "stamp"
  /\ Stamp(sweep.cur, sweep.verdict)
  /\ sweep' = [sweep EXCEPT !.pc = "verify", !.todo = @ \ {sweep.cur}, !.cur = NoGrab,
                            !.verdict = "none"]
  /\ UNCHANGED <<item, grabber, judge, tick, req, history>>

\* Mutant of SweepListMisgrabs: only pending rows are listed
SweepListPendingMisgrabs ==
  /\ sweep.pc = "verify" /\ sweep.todo = {}
  /\ LET unhandled == {i \in Recorded : /\ row[i].verdict = "misgrab" /\ row[i].action = "none"
                                        /\ row[i].state = "pending"}
     IN sweep' = IF unhandled = {} THEN IdleSweep
                 ELSE [sweep EXCEPT !.pc = "act", !.todo = unhandled]
  /\ UNCHANGED <<dbVars, grabber, judge, tick, req, others>>

\* list_unhandled_misgrabs, whatever has become of the rows otherwise
SweepListMisgrabs ==
  /\ sweep.pc = "verify" /\ sweep.todo = {}
  /\ LET unhandled == {i \in Recorded : row[i].verdict = "misgrab" /\ row[i].action = "none"}
     IN sweep' = IF unhandled = {} THEN IdleSweep
                 ELSE [sweep EXCEPT !.pc = "act", !.todo = unhandled]
  /\ UNCHANGED <<dbVars, grabber, judge, tick, req, others>>

\* remediate one of them, from the snapshot.  misgrab_auto_remove is read here and only
\* here, and may be switched at any time: it says either
SweepAct(i) ==
  /\ sweep.pc = "act" /\ i \in sweep.todo
  /\ \/ sweep' = [sweep EXCEPT !.pc = "delete", !.cur = i]
     \/ sweep' = [sweep EXCEPT !.pc = "record", !.cur = i, !.action = "flagged"]
  /\ UNCHANGED <<dbVars, grabber, judge, tick, req, others>>

\* remove_and_blocklist, the client's half
Deletion(h, answer) ==
  \/ /\ plan.kind = "plain" /\ answer = "removed"
     /\ item' = item \ {h}
     /\ UNCHANGED faults
  \/ /\ plan.kind # "plain" /\ answer = "removed_no_delete"
     /\ UNCHANGED <<item, faults>>
  \/ /\ plan.kind = "plain" /\ answer = "removed_no_delete"
     /\ Fault("client")
     /\ UNCHANGED item

Answers == {"removed", "removed_no_delete"}

SweepDelete ==
  /\ sweep.pc = "delete"
  /\ \E answer \in Answers :
       /\ Deletion(row[sweep.cur].hash, answer)
       /\ sweep' = [sweep EXCEPT !.pc = "fail", !.action = answer]
  /\ UNCHANGED <<row, grabber, judge, tick, req, history>>

\* the next of the list, or the end of the tick
NextMisgrab ==
  IF sweep.todo = {sweep.cur} THEN IdleSweep
  ELSE [sweep EXCEPT !.pc = "act", !.todo = @ \ {sweep.cur}, !.cur = NoGrab, !.action = "none"]

\* an error leaves the action open: the next tick does it all again
SweepFail ==
  /\ sweep.pc = "fail"
  /\ \/ /\ row' = FailedByHash(row[sweep.cur].hash)
        /\ sweep' = [sweep EXCEPT !.pc = "record"]
        /\ UNCHANGED faults
     \/ /\ Fault("database")
        /\ sweep' = NextMisgrab
        /\ UNCHANGED row
  /\ UNCHANGED <<item, grabber, judge, tick, req, history>>

SweepRecord ==
  /\ sweep.pc = "record"
  /\ \/ /\ row' = [row EXCEPT ![sweep.cur].action = sweep.action]
        /\ UNCHANGED faults
     \/ /\ Fault("database")
        /\ UNCHANGED row
  /\ sweep' = NextMisgrab
  /\ UNCHANGED <<item, grabber, judge, tick, req, history>>

------------------------------------------------------------------------------
(* The Misgrabs tab *)

IdleReq == [pc |-> "idle", row |-> NoGrab, series |-> NoRow.series, new |-> NoGrab]

AskFor(r, i, pc) ==
  /\ req[r] = IdleReq
  /\ row[i].verdict = "misgrab"
  /\ req' = [req EXCEPT ![r] = [IdleReq EXCEPT !.pc = pc, !.row = i, !.series = row[i].series]]

\* restore_misgrab: what was not removed needs the whitelist only
RestoreStart(r, i) ==
  /\ "restore" \in plan.ops
  /\ AskFor(r, i, IF row[i].action \in Answers \/ row[i].state = "failed"
                  THEN "add" ELSE "whitelist")
  /\ UNCHANGED <<dbVars, grabber, judge, tick, sweep, others>>

RestoreWhitelist(r) ==
  /\ req[r].pc = "whitelist"
  /\ LET h == row[req[r].row].hash IN
     \/ /\ row' = WhitelistedByHash(h, req[r].series)
        /\ restored' = restored \cup {g \in {h} : Whitelisted(g)'}
        /\ UNCHANGED faults
     \/ /\ Fault("database")
        /\ UNCHANGED <<row, restored>>
  /\ req' = [req EXCEPT ![r] = IdleReq]
  /\ UNCHANGED <<item, grabber, judge, tick, sweep, plan, grabbed, cancelled, misread>>

\* a refused add leaves the row as it is, for another try
RestoreAdd(r) ==
  /\ req[r].pc = "add"
  /\ \/ /\ item' = item \cup {row[req[r].row].hash}
        /\ req' = [req EXCEPT ![r].pc = "record"]
        /\ UNCHANGED faults
     \/ /\ Fault("client")
        /\ req' = [req EXCEPT ![r] = IdleReq]
        /\ UNCHANGED item
  /\ UNCHANGED <<row, grabber, judge, tick, sweep, history>>

\* record_grab; the answer of a grab that is active already is the whitelist alone
RestoreRecord(r) ==
  /\ req[r].pc = "record"
  /\ LET h == row[req[r].row].hash
         s == req[r].series
     IN \E i \in Grabs :
          /\ LiveOf(h) # {} \/ i \in FreeRow
          /\ row' = WithGrab(i, h, s)
          /\ req' = IF GrabRow(i, h) = NoGrab THEN [req EXCEPT ![r].pc = "whitelist"]
                    ELSE [req EXCEPT ![r].pc = "stamp", ![r].new = GrabRow(i, h)]
  /\ UNCHANGED <<item, grabber, judge, tick, sweep, others>>

RestoreStamp(r) ==
  /\ req[r].pc = "stamp"
  /\ Stamp(req[r].new, "whitelisted")
  /\ req' = [req EXCEPT ![r].pc = "whitelistAll"]
  /\ UNCHANGED <<item, grabber, judge, tick, sweep, history>>

\* every row of the hash; an error is logged
RestoreWhitelistAll(r) ==
  /\ req[r].pc = "whitelistAll"
  /\ LET h == row[req[r].row].hash IN
     \/ /\ row' = WhitelistedByHash(h, req[r].series)
        /\ restored' = restored \cup {g \in {h} : Whitelisted(g)'}
        /\ UNCHANGED faults
     \/ /\ Fault("database")
        /\ UNCHANGED <<row, restored>>
  /\ req' = [req EXCEPT ![r].pc = "unblock"]
  /\ UNCHANGED <<item, grabber, judge, tick, sweep, plan, grabbed, cancelled, misread>>

RestoreUnblock(r) ==
  /\ req[r].pc = "unblock"
  /\ \/ row' = Unblocked(row[req[r].row].hash, req[r].series) /\ UNCHANGED faults
     \/ Fault("database") /\ UNCHANGED row
  /\ req' = [req EXCEPT ![r] = IdleReq]
  /\ UNCHANGED <<item, grabber, judge, tick, sweep, history>>

\* dismiss_misgrab: a held download is removed now; of any other the row is only hidden
DismissStart(r, i) ==
  /\ "dismiss" \in plan.ops
  /\ row[i].state = "pending"
  /\ AskFor(r, i, "delete")
  /\ UNCHANGED <<dbVars, grabber, judge, tick, sweep, others>>

DismissDelete(r) ==
  /\ req[r].pc = "delete"
  /\ \E answer \in Answers :
       /\ Deletion(row[req[r].row].hash, answer)
       /\ req' = [req EXCEPT ![r].pc = answer]
  /\ UNCHANGED <<row, grabber, judge, tick, sweep, history>>

\* remove_and_blocklist, the database's half
DismissFail(r) ==
  /\ req[r].pc \in Answers
  /\ \/ /\ row' = FailedByHash(row[req[r].row].hash)
        /\ req' = [req EXCEPT ![r].pc = IF @ = "removed" THEN "set" ELSE "setNoDelete"]
        /\ UNCHANGED faults
     \/ /\ Fault("database")
        /\ req' = [req EXCEPT ![r] = IdleReq]
        /\ UNCHANGED row
  /\ UNCHANGED <<item, grabber, judge, tick, sweep, history>>

DismissRecord(r) ==
  /\ req[r].pc \in {"set", "setNoDelete"}
  /\ \/ /\ row' = [row EXCEPT ![req[r].row].action =
                      IF req[r].pc = "set" THEN "removed" ELSE "removed_no_delete"]
        /\ UNCHANGED faults
     \/ Fault("database") /\ UNCHANGED row
  /\ req' = [req EXCEPT ![r] = IdleReq]
  /\ UNCHANGED <<item, grabber, judge, tick, sweep, history>>

------------------------------------------------------------------------------
(* The environment *)

\* cancel, as far as this table is concerned; see GrabLifecycle
CancelGrab(i) ==
  /\ "cancel" \in plan.ops /\ row[i].state = "pending"
  /\ item' = item \ {row[i].hash}
  /\ row' = [row EXCEPT ![i].state = "removed"]
  /\ cancelled' = cancelled \cup {row[i].hash}
  /\ UNCHANGED <<actors, plan, grabbed, faults, restored, misread>>

Restart ==
  /\ Fault("restart")
  /\ grabber' = [i \in Grabs |-> IdleGrab]
  /\ judge' = [i \in Grabs |-> "idle"]
  /\ tick' = IdleTick
  /\ sweep' = IdleSweep
  /\ req' = [r \in Requests |-> IdleReq]
  /\ UNCHANGED <<dbVars, history>>

MisgrabInit ==
  /\ row = [i \in Grabs |-> NoRow]
  /\ item = {}
  /\ grabber = [i \in Grabs |-> IdleGrab]
  /\ judge = [i \in Grabs |-> "idle"]
  /\ tick = IdleTick
  /\ sweep = IdleSweep
  /\ req = [r \in Requests |-> IdleReq]
  /\ plan \in Plans
  /\ grabbed = 0 /\ faults = 0
  /\ restored = {} /\ cancelled = {} /\ misread = {}

Grab(i) == \/ \E h \in Hashes, s \in Series : GrabAdd(i, h, s)
           \/ GrabRecord(i) \/ JudgeRead(i) \/ JudgeStamp(i)

ImportTick == (\E i \in Grabs : TickList(i)) \/ TickVerify \/ TickStamp \/ TickImport

Sweep == \/ SweepList \/ SweepStamp \/ SweepListMisgrabs
         \/ SweepDelete \/ SweepFail \/ SweepRecord
         \/ \E i \in Grabs : SweepVerify(i) \/ SweepAct(i)

Request(r) == \/ RestoreWhitelist(r) \/ RestoreAdd(r) \/ RestoreRecord(r) \/ RestoreStamp(r)
              \/ RestoreWhitelistAll(r) \/ RestoreUnblock(r)
              \/ DismissDelete(r) \/ DismissFail(r) \/ DismissRecord(r)
              \/ \E i \in Grabs : RestoreStart(r, i) \/ DismissStart(r, i)

MisgrabNext ==
  \/ \E i \in Grabs : Grab(i) \/ CancelGrab(i)
  \/ ImportTick \/ Sweep
  \/ \E r \in Requests : Request(r)
  \/ Restart

\* the supervised loop sweeps on and on; nobody promises anything else
MisgrabSpec == MisgrabInit /\ [][MisgrabNext]_misgrabVars /\ WF_misgrabVars(Sweep)

------------------------------------------------------------------------------
(* Properties *)

\* Types of the table and of the actors; a hash has at most one live row, and an actor's
\* row is recorded.
MisgrabTypeOK ==
  /\ row \in [Grabs -> Row]
  /\ \A h \in Hashes : \A i, j \in LiveOf(h) : i = j
  /\ item \subseteq Hashes
  /\ grabber \in [Grabs -> [pc : {"idle", "record"}, hash : Hashes, series : Series]]
  /\ judge \in [Grabs -> {"idle", "waiting", "whitelisted"} \cup Judged]
  /\ \A i \in Grabs : judge[i] # "idle" => i \in Recorded
  /\ tick \in [pc : {"idle", "verify", "stamp", "place"}, cur : Grabs \cup {NoGrab},
               verdict : Verdicts]
  /\ tick.pc # "idle" => tick.cur \in Recorded
  /\ sweep \in [pc : {"idle", "verify", "stamp", "act", "delete", "fail", "record"},
                todo : SUBSET Recorded, cur : Grabs \cup {NoGrab},
                verdict : Verdicts, action : Actions]
  /\ sweep.pc \notin {"idle", "verify", "act"} => sweep.cur \in sweep.todo
  /\ req \in [Requests -> [pc : {"idle", "whitelist", "add", "record", "stamp", "whitelistAll",
                                 "unblock", "delete", "removed", "removed_no_delete", "set",
                                 "setNoDelete"},
                           row : Grabs \cup {NoGrab}, series : Series, new : Grabs \cup {NoGrab}]]
  /\ \A r \in Requests : req[r].pc # "idle" => req[r].row \in Recorded
  /\ plan \in Plans
  /\ grabbed \in 0..plan.grabs /\ faults \in 0..plan.atMost
  /\ restored \subseteq Hashes /\ cancelled \subseteq Hashes /\ misread \subseteq Hashes

\* "The first writer wins and the verdict never flips on its own": three judges race, and
\* only a Restore changes a verdict.
VerdictStands ==
  [][\A i \in Grabs : row[i].verdict # "none" =>
       row'[i].verdict \in {row[i].verdict, "whitelisted"}]_misgrabVars

\* "Ryokan stops treating it as a misgrab for good": once a restore is answered no row of its
\* release is judged a misgrab, not by a judge that read the whitelist before, nor a row
\* that is grabbed later.  Excused is a release whose whitelist a judge failed to read: that
\* is "not whitelisted" to is_whitelisted_hash, and the restored release is flagged again.
NeverFlaggedAgain ==
  [][\A i \in Grabs : row[i].hash \in restored \ misread /\ row[i].verdict # "misgrab"
                      => row'[i].verdict # "misgrab"]_misgrabVars

\* A misgrab that was removed, by the sweep or by Dismiss, is on the blocklist of its series
\* as long as nobody restores it; see the README for the grabs that were cancelled.
RemovedIsBlocked ==
  \A i \in Recorded :
    /\ row[i].verdict = "misgrab" /\ row[i].action \in Answers
    /\ row[i].hash \notin cancelled
    /\ \A j \in OfHash(row[i].hash) : row[j].state # "replaced"
    => Blocking(row[i].hash, row[i].series) # {}

\* Every misgrab is acted on in the end, or restored: an error, a restart between two
\* statements or another actor's change of the row only delays it.
MisgrabHandled ==
  \A i \in Grabs :
    row[i].verdict = "misgrab" ~> row[i].action # "none" \/ row[i].verdict = "whitelisted"

\* "A misgrab is never imported" (post_processing/mod.rs:1488, docs/configuration.md:114).
MisgrabNeverImported ==
  [][\A i \in Grabs : row[i].state = "pending" /\ row[i].verdict = "misgrab"
                      => row'[i].state # "imported"]_misgrabVars
==============================================================================
