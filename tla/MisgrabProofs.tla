---------------------------- MODULE MisgrabProofs -----------------------------
(* What holds of the misgrab guardrails for any rows, releases, series and     *)
(* requests, and whatever goes wrong: the state is well-formed, verdicts       *)
(* stand, a restored release is never flagged again, and a misgrab that was    *)
(* removed is blocked.                                                         *)
EXTENDS Misgrab, TLAPS

\* The parts of the type invariant, strengthened: a row that was not recorded is blank,
\* and a grab under way has its row to itself.
RowsTyped ==
  /\ row \in [Grabs -> Row]
  /\ \A i \in Grabs : row[i].state = "none" => row[i] = NoRow
  /\ \A h \in Hashes : \A i, j \in LiveOf(h) : i = j

ClientTyped == item \subseteq Hashes

GrabbersTyped ==
  /\ grabber \in [Grabs -> [pc : {"idle", "record"}, hash : Hashes, series : Series]]
  /\ \A i \in Grabs : grabber[i].pc = "record" => row[i].state = "none"

JudgesTyped ==
  /\ judge \in [Grabs -> {"idle", "waiting", "whitelisted"} \cup Judged]
  /\ \A i \in Grabs : judge[i] # "idle" => i \in Recorded

TickTyped ==
  /\ tick \in [pc : {"idle", "verify", "stamp", "place"}, cur : Grabs \cup {NoGrab},
               verdict : Verdicts]
  /\ tick.pc # "idle" => tick.cur \in Recorded

SweepTyped ==
  /\ sweep \in [pc : {"idle", "verify", "stamp", "act", "delete", "fail", "record"},
                todo : SUBSET Recorded, cur : Grabs \cup {NoGrab},
                verdict : Verdicts, action : Actions]
  /\ sweep.pc \notin {"idle", "verify", "act"} => sweep.cur \in sweep.todo

Handler == [pc : {"idle", "whitelist", "add", "record", "stamp", "whitelistAll", "unblock",
                  "delete", "removed", "removed_no_delete", "set", "setNoDelete"},
            row : Grabs \cup {NoGrab}, series : Series, new : Grabs \cup {NoGrab}]

ReqTyped ==
  /\ req \in [Requests -> Handler]
  /\ \A r \in Requests : req[r].pc # "idle" => req[r].row \in Recorded
  /\ \A r \in Requests : req[r].pc = "stamp" => req[r].new \in Recorded

BoundsTyped ==
  /\ plan \in Plans
  /\ grabbed \in 0..plan.grabs /\ faults \in 0..plan.atMost

HistoryTyped == restored \subseteq Hashes /\ cancelled \subseteq Hashes /\ misread \subseteq Hashes

TypeInv == /\ RowsTyped /\ ClientTyped /\ GrabbersTyped /\ JudgesTyped /\ TickTyped
           /\ SweepTyped /\ ReqTyped /\ BoundsTyped /\ HistoryTyped

LEMMA TypeInvImplies == TypeInv => MisgrabTypeOK
  BY DEF TypeInv, MisgrabTypeOK, RowsTyped, ClientTyped, GrabbersTyped, JudgesTyped, TickTyped,
         SweepTyped, ReqTyped, Handler, BoundsTyped, HistoryTyped

LEMMA BlankRow == NoRow \in Row /\ NoRow.hash \in Hashes /\ NoRow.series \in Series
  BY MisgrabAssumptions DEF NoRow, Row, States, Live, Verdicts, Judged, Actions

-------------------------------------------------------------------------------
(* What the statements do to the table *)

\* A statement that changes recorded rows, and revives none.
Rewrites ==
  /\ row' \in [Grabs -> Row]
  /\ \A i \in Grabs : /\ row'[i].state = "none" <=> row[i].state = "none"
                      /\ row[i].state = "none" => row'[i] = row[i]
                      /\ row'[i].hash = row[i].hash
                      /\ row'[i].state \in Live => row[i].state \in Live

LEMMA RewriteKeeps ==
  ASSUME RowsTyped, Rewrites
  PROVE  RowsTyped' /\ Recorded' = Recorded
  <1>1. Recorded' = Recorded
    BY DEF Rewrites, Recorded
  <1>2. \A h \in Hashes : LiveOf(h)' \subseteq LiveOf(h)
    BY <1>1 DEF Rewrites, LiveOf, OfHash, Recorded
  <1>3. QED
    BY <1>1, <1>2 DEF Rewrites, RowsTyped

LEMMA SameTable == RowsTyped /\ UNCHANGED row => RowsTyped' /\ Recorded' = Recorded
  BY DEF RowsTyped, Recorded, LiveOf, OfHash

\* Writes of single fields.
LEMMA RowUpdates ==
  ASSUME NEW x \in Row
  PROVE  /\ \A s \in States : [x EXCEPT !.state = s] \in Row
         /\ \A v \in Verdicts : [x EXCEPT !.verdict = v] \in Row
         /\ \A a \in Actions : [x EXCEPT !.action = a] \in Row
         /\ \A s \in Series : [x EXCEPT !.state = "pending", !.series = s] \in Row
  BY DEF Row, States, Live

LEMMA StampRewrites ==
  ASSUME RowsTyped, NEW i \in Recorded, NEW v \in Verdicts, row' = Stamped(i, v)
  PROVE  Rewrites
  BY RowUpdates DEF Rewrites, Stamped, RowsTyped, Recorded, Row

LEMMA ActionRewrites ==
  ASSUME RowsTyped, NEW i \in Recorded, NEW a \in Actions, row' = [row EXCEPT ![i].action = a]
  PROVE  Rewrites
  BY RowUpdates DEF Rewrites, RowsTyped, Recorded, Row

LEMMA StateRewrites ==
  ASSUME RowsTyped, NEW i \in Recorded, NEW s \in States \ {"none"},
         s \in Live => row[i].state \in Live, row' = [row EXCEPT ![i].state = s]
  PROVE  Rewrites
  BY RowUpdates DEF Rewrites, RowsTyped, Recorded, Row

\* A statement that ends rows.
LEMMA EndRewrites ==
  ASSUME RowsTyped, NEW s \in {"failed", "replaced"}, NEW S \in SUBSET Recorded,
         row' = [i \in Grabs |-> IF i \in S THEN [row[i] EXCEPT !.state = s] ELSE row[i]]
  PROVE  Rewrites
  <1>1. s \in States /\ s \notin Live /\ s # "none"
    BY DEF States, Live
  <1>2. ASSUME NEW i \in Grabs
        PROVE  /\ row'[i] \in Row
               /\ row'[i].state = "none" <=> row[i].state = "none"
               /\ row[i].state = "none" => row'[i] = row[i]
               /\ row'[i].hash = row[i].hash
               /\ row'[i].state \in Live => row[i].state \in Live
    <2>1. row[i] \in Row
      BY DEF RowsTyped
    <2>2. CASE i \notin S
      BY <2>1, <2>2
    <2>3. CASE i \in S
      <3>1. row'[i] = [row[i] EXCEPT !.state = s]
        BY <2>3
      <3>2. row'[i] \in Row
        BY <1>1, <2>1, <3>1, RowUpdates
      <3>3. row'[i].state = s /\ row'[i].hash = row[i].hash
        BY <2>1, <3>1 DEF Row
      <3>4. row[i].state # "none"
        BY <2>3 DEF Recorded
      <3>5. QED
        BY <1>1, <3>2, <3>3, <3>4
    <2>4. QED
      BY <2>2, <2>3
  <1>3. row' = [i \in Grabs |-> row'[i]]
    OBVIOUS
  <1>4. QED
    BY <1>2, <1>3 DEF Rewrites

LEMMA FailRewrites ==
  ASSUME RowsTyped, NEW h, row' = FailedByHash(h)
  PROVE  Rewrites
  <1>1. LiveOf(h) \in SUBSET Recorded
    BY DEF LiveOf, OfHash
  <1>2. row' = [i \in Grabs |-> IF i \in LiveOf(h) THEN [row[i] EXCEPT !.state = "failed"]
                                ELSE row[i]]
    BY DEF FailedByHash
  <1>3. QED
    BY <1>1, <1>2, EndRewrites

LEMMA WhitelistRewrites ==
  ASSUME RowsTyped, NEW h, NEW s, row' = WhitelistedByHash(h, s)
  PROVE  Rewrites
  BY RowUpdates DEF Rewrites, RowsTyped, Recorded, WhitelistedByHash, OfHash, Row, Verdicts

LEMMA UnblockRewrites ==
  ASSUME RowsTyped, NEW h, NEW s, row' = Unblocked(h, s)
  PROVE  Rewrites
  <1>1. Blocking(h, s) \in SUBSET Recorded
    BY DEF Blocking, OfHash
  <1>2. row' = [i \in Grabs |-> IF i \in Blocking(h, s) THEN [row[i] EXCEPT !.state = "replaced"]
                                ELSE row[i]]
    BY DEF Unblocked
  <1>3. QED
    BY <1>1, <1>2, EndRewrites

\* record_grab inserts a blank row, or reactivates the imported one, or does nothing.
LEMMA RecordKeeps ==
  ASSUME RowsTyped, NEW i \in Grabs, NEW h \in Hashes, NEW s \in Series,
         LiveOf(h) = {} => row[i].state = "none", row' = WithGrab(i, h, s)
  PROVE  /\ RowsTyped'
         /\ Recorded \subseteq Recorded'
         /\ GrabRow(i, h) \in Recorded' \cup {NoGrab}
         /\ \A k \in Grabs : row[k].state = "none" /\ (k # i \/ LiveOf(h) # {}) => row'[k] = row[k]
         /\ \A k \in Recorded : /\ row'[k].hash = row[k].hash
                                /\ row'[k].verdict = row[k].verdict
                                /\ row'[k].action = row[k].action
                                /\ row'[k].state = row[k].state \/ row[k].state = "imported"
  <1> USE BlankRow
  <1>1. CASE LiveOf(h) = {}
    <2>1. row' = [row EXCEPT ![i] = [NoRow EXCEPT !.state = "pending", !.hash = h, !.series = s]]
      BY <1>1 DEF WithGrab
    <2>2. [NoRow EXCEPT !.state = "pending", !.hash = h, !.series = s] \in Row
      BY DEF Row, States, Live
    <2>3. GrabRow(i, h) = i
      BY <1>1 DEF GrabRow
    <2>4. Recorded' = Recorded \cup {i}
      BY <2>1, <2>2 DEF Recorded, RowsTyped, Row
    <2>5. /\ \A k \in Grabs \ {i} : row'[k] = row[k]
          /\ row'[i].hash = h
      BY <2>1, <2>2 DEF RowsTyped, Row, NoRow
    <2>6. \A g \in Hashes : LiveOf(g)' \subseteq IF g = h THEN {i} ELSE LiveOf(g)
      BY <1>1, <2>4, <2>5 DEF LiveOf, OfHash, RowsTyped, Recorded
    <2>7. row' \in [Grabs -> Row] /\ \A k \in Grabs : row'[k].state = "none" => row'[k] = NoRow
      BY <2>1, <2>2 DEF RowsTyped, Row
    <2>8. \A g \in Hashes : \A a, b \in LiveOf(g)' : a = b
      BY <2>6 DEF RowsTyped
    <2>9. RowsTyped'
      BY <2>7, <2>8 DEF RowsTyped
    <2>10. QED
      BY <1>1, <2>1, <2>3, <2>4, <2>9 DEF Recorded, RowsTyped
  <1>2. CASE LiveOf(h) # {} /\ GrabRow(i, h) # NoGrab
    <2> DEFINE j == GrabRow(i, h)
    <2>1. j \in LiveOf(h) /\ row[j].state = "imported"
      BY <1>2 DEF GrabRow
    <2>2. j \in Recorded /\ j \in Grabs
      BY <2>1 DEF LiveOf, OfHash, Recorded
    <2>3. row' = [row EXCEPT ![j].state = "pending", ![j].series = s]
      BY <1>2 DEF WithGrab
    <2>4. row'[j] = [row[j] EXCEPT !.state = "pending", !.series = s]
      BY <2>2, <2>3 DEF RowsTyped
    <2>5. row' = [row EXCEPT ![j] = [row[j] EXCEPT !.state = "pending", !.series = s]]
      BY <2>2, <2>3 DEF RowsTyped
    <2>6. row' \in [Grabs -> Row]
      <3>1. [row[j] EXCEPT !.state = "pending", !.series = s] \in Row
        BY <2>2, RowUpdates DEF RowsTyped
      <3>2. QED
        BY <2>2, <2>5, <3>1 DEF RowsTyped
    <2>7. Rewrites
      BY <2>1, <2>2, <2>5, <2>6 DEF Rewrites, RowsTyped, Row, Live
    <2>8. RowsTyped' /\ Recorded' = Recorded
      BY <2>7, RewriteKeeps
    <2>9. QED
      BY <2>1, <2>2, <2>5, <2>8 DEF Recorded, RowsTyped, Row
  <1>3. CASE LiveOf(h) # {} /\ GrabRow(i, h) = NoGrab
    <2>1. row' = row
      BY <1>3 DEF WithGrab
    <2>2. QED
      BY <1>3, <2>1, SameTable
  <1>4. QED
    BY <1>1, <1>2, <1>3

-------------------------------------------------------------------------------
(* Each actor keeps the types *)

\* What a step leaves alone keeps its type while rows are only added.
LEMMA Carry ==
  ASSUME TypeInv, RowsTyped', Recorded \subseteq Recorded'
  PROVE  /\ UNCHANGED item => ClientTyped'
         /\ UNCHANGED judge => JudgesTyped'
         /\ UNCHANGED tick => TickTyped'
         /\ UNCHANGED sweep => SweepTyped'
         /\ UNCHANGED req => ReqTyped'
         /\ UNCHANGED grabber /\ Recorded' = Recorded => GrabbersTyped'
         /\ UNCHANGED <<plan, grabbed, faults>> => BoundsTyped'
         /\ UNCHANGED <<restored, cancelled, misread>> => HistoryTyped'
  BY DEF TypeInv, ClientTyped, GrabbersTyped, JudgesTyped, TickTyped, SweepTyped, ReqTyped,
         BoundsTyped, HistoryTyped, Recorded

LEMMA CarrySame ==
  ASSUME TypeInv, UNCHANGED row
  PROVE  /\ RowsTyped' /\ Recorded' = Recorded
         /\ UNCHANGED item => ClientTyped'
         /\ UNCHANGED judge => JudgesTyped'
         /\ UNCHANGED tick => TickTyped'
         /\ UNCHANGED sweep => SweepTyped'
         /\ UNCHANGED req => ReqTyped'
         /\ UNCHANGED grabber => GrabbersTyped'
         /\ UNCHANGED <<plan, grabbed, faults>> => BoundsTyped'
         /\ UNCHANGED <<restored, cancelled, misread>> => HistoryTyped'
  BY SameTable, Carry DEF TypeInv

LEMMA CarryRewritten ==
  ASSUME TypeInv, Rewrites
  PROVE  /\ RowsTyped' /\ Recorded' = Recorded
         /\ UNCHANGED item => ClientTyped'
         /\ UNCHANGED judge => JudgesTyped'
         /\ UNCHANGED tick => TickTyped'
         /\ UNCHANGED sweep => SweepTyped'
         /\ UNCHANGED req => ReqTyped'
         /\ UNCHANGED grabber => GrabbersTyped'
         /\ UNCHANGED <<plan, grabbed, faults>> => BoundsTyped'
         /\ UNCHANGED <<restored, cancelled, misread>> => HistoryTyped'
  BY RewriteKeeps, Carry DEF TypeInv

LEMMA FaultBounds ==
  ASSUME TypeInv, UNCHANGED <<plan, grabbed>>, UNCHANGED faults \/ \E f : Fault(f)
  PROVE  BoundsTyped'
  <1>1. plan.atMost \in Nat /\ faults \in Nat
    BY MisgrabAssumptions DEF TypeInv, BoundsTyped, Plan
  <1>2. CASE UNCHANGED faults
    BY <1>2 DEF TypeInv, BoundsTyped
  <1>3. CASE \E f : Fault(f)
    BY <1>1, <1>3 DEF TypeInv, BoundsTyped, Fault
  <1>4. QED
    BY <1>2, <1>3

\* A judge's verdict, and what its reads leave behind.
LEMMA VerdictTypes ==
  ASSUME TypeInv, NEW i \in Recorded, NEW v, Verdict(i, v), UNCHANGED record
  PROVE  v \in Verdicts /\ BoundsTyped' /\ HistoryTyped'
  <1>1. row[i].hash \in Hashes
    BY DEF TypeInv, RowsTyped, Row, Recorded
  <1>2. v \in Verdicts
    BY DEF Verdict, Verdicts
  <1>3. BoundsTyped'
    BY FaultBounds DEF Verdict, record
  <1>4. HistoryTyped'
    BY <1>1 DEF Verdict, record, TypeInv, HistoryTyped
  <1>5. QED
    BY <1>2, <1>3, <1>4

\* A stamp is a rewrite, or fails.
LEMMA StampTypes ==
  ASSUME TypeInv, NEW i \in Recorded, NEW v \in Verdicts, Stamp(i, v), UNCHANGED <<plan, grabbed>>
  PROVE  (UNCHANGED row \/ Rewrites) /\ BoundsTyped'
  <1>1. UNCHANGED row \/ Rewrites
    BY StampRewrites DEF Stamp, TypeInv
  <1>2. BoundsTyped'
    BY FaultBounds DEF Stamp
  <1>3. QED
    BY <1>1, <1>2

LEMMA RowTypes ==
  ASSUME TypeInv, NEW i \in Grabs
  PROVE  /\ row[i] \in Row /\ row[i].hash \in Hashes /\ row[i].series \in Series
         /\ row[i].verdict \in Verdicts
  BY DEF TypeInv, RowsTyped, Row

LEMMA GrabAddTypes ==
  ASSUME TypeInv, NEW i \in Grabs, NEW h \in Hashes, NEW s \in Series, GrabAdd(i, h, s)
  PROVE  TypeInv'
  <1>1. GrabbersTyped'
    <2>1. row[i].state = "none" /\ grabber' = [grabber EXCEPT ![i] =
             [pc |-> "record", hash |-> h, series |-> s]] /\ UNCHANGED row
      BY DEF GrabAdd, FreeRow
    <2>2. QED
      BY <2>1 DEF TypeInv, GrabbersTyped
  <1>2. ClientTyped'
    BY DEF GrabAdd, TypeInv, ClientTyped
  <1>3. BoundsTyped'
    <2>1. plan.grabs \in Nat
      BY MisgrabAssumptions DEF TypeInv, BoundsTyped, Plan
    <2>2. QED
      BY <2>1 DEF GrabAdd, TypeInv, BoundsTyped
  <1>4. QED
    BY <1>1, <1>2, <1>3, CarrySame DEF GrabAdd, TypeInv

LEMMA GrabRecordTypes ==
  ASSUME TypeInv, NEW i \in Grabs, GrabRecord(i)
  PROVE  TypeInv'
  <1> DEFINE h == grabber[i].hash
             s == grabber[i].series
  <1>1. h \in Hashes /\ s \in Series /\ row[i].state = "none"
    BY DEF TypeInv, GrabbersTyped, GrabRecord
  <1>2. row' = WithGrab(i, h, s)
    BY DEF GrabRecord
  <1>3. /\ RowsTyped' /\ Recorded \subseteq Recorded'
        /\ GrabRow(i, h) \in Recorded' \cup {NoGrab}
        /\ \A k \in Grabs : row[k].state = "none" /\ k # i => row'[k] = row[k]
    BY <1>1, <1>2, RecordKeeps DEF TypeInv
  <1>4. GrabbersTyped'
    <2>1. grabber' = [grabber EXCEPT ![i] = IdleGrab]
      BY DEF GrabRecord
    <2>2. IdleGrab \in [pc : {"idle", "record"}, hash : Hashes, series : Series]
            /\ IdleGrab.pc # "record"
      BY BlankRow DEF IdleGrab
    <2>3. grabber' \in [Grabs -> [pc : {"idle", "record"}, hash : Hashes, series : Series]]
      BY <2>1, <2>2 DEF TypeInv, GrabbersTyped
    <2>4. ASSUME NEW k \in Grabs, grabber'[k].pc = "record"
          PROVE  row'[k].state = "none"
      <3>1. k # i
        BY <2>1, <2>2, <2>4 DEF TypeInv, GrabbersTyped
      <3>2. grabber'[k] = grabber[k]
        BY <2>1, <3>1 DEF TypeInv, GrabbersTyped
      <3>3. QED
        BY <1>3, <2>4, <3>1, <3>2 DEF TypeInv, GrabbersTyped
    <2>5. QED
      BY <2>3, <2>4 DEF GrabbersTyped
  <1>5. JudgesTyped'
    <2>1. CASE UNCHANGED judge
      BY <1>3, <2>1, Carry
    <2>2. CASE /\ GrabRow(i, h) # NoGrab
               /\ judge' = [judge EXCEPT ![GrabRow(i, h)] = "waiting"]
      BY <1>3, <2>2 DEF TypeInv, JudgesTyped, Recorded
    <2>3. QED
      BY <2>1, <2>2 DEF GrabRecord
  <1>6. QED
    BY <1>3, <1>4, <1>5, Carry DEF GrabRecord, others, TypeInv

LEMMA JudgeReadTypes ==
  ASSUME TypeInv, NEW i \in Grabs, JudgeRead(i)
  PROVE  TypeInv'
  <1>1. \E v \in {"idle", "whitelisted"} \cup Judged : judge' = [judge EXCEPT ![i] = v]
    BY DEF JudgeRead, Verdict
  <1>2. i \in Recorded /\ UNCHANGED row
    BY DEF JudgeRead, TypeInv, JudgesTyped, dbVars
  <1>3. Recorded' = Recorded
    BY <1>2, CarrySame
  <1>4. JudgesTyped'
    BY <1>1, <1>2, <1>3 DEF TypeInv, JudgesTyped
  <1>5. BoundsTyped' /\ HistoryTyped'
    <2>1. UNCHANGED record
      BY DEF JudgeRead
    <2>2. CASE \E v \in Verdicts : Verdict(i, v)
      BY <1>2, <2>1, <2>2, VerdictTypes
    <2>3. CASE UNCHANGED <<faults, misread>>
      BY <1>2, <2>1, <2>3, CarrySame DEF record
    <2>4. QED
      BY <2>2, <2>3 DEF JudgeRead
  <1>6. QED
    BY <1>2, <1>4, <1>5, CarrySame DEF JudgeRead, TypeInv, dbVars

LEMMA JudgeStampTypes ==
  ASSUME TypeInv, NEW i \in Grabs, JudgeStamp(i)
  PROVE  TypeInv' /\ (UNCHANGED row \/ Rewrites)
  <1>1. i \in Recorded /\ judge[i] \in Verdicts
    BY DEF JudgeStamp, TypeInv, JudgesTyped, Verdicts
  <1>2. (UNCHANGED row \/ Rewrites) /\ BoundsTyped'
    BY <1>1, StampTypes DEF JudgeStamp, history
  <1>3. JudgesTyped'
    BY <1>2, CarrySame, CarryRewritten DEF JudgeStamp, TypeInv, JudgesTyped
  <1>4. QED
    BY <1>2, <1>3, CarrySame, CarryRewritten DEF JudgeStamp, TypeInv, history

LEMMA IdleTickTyped == tick' = IdleTick => TickTyped'
  BY DEF IdleTick, TickTyped, Verdicts

LEMMA TickTypes ==
  ASSUME TypeInv, ImportTick
  PROVE  TypeInv' /\ (UNCHANGED row \/ Rewrites)
  <1>1. ASSUME NEW i \in Grabs, TickList(i)
        PROVE  TypeInv' /\ UNCHANGED row
    <2>1. i \in Recorded /\ UNCHANGED row
      BY <1>1 DEF TickList, Recorded, dbVars
    <2>2. tick' = [pc |-> "verify", cur |-> i, verdict |-> "none"]
      BY <1>1 DEF TickList, IdleTick
    <2>3. TickTyped'
      BY <2>1, <2>2, CarrySame DEF TickTyped, Verdicts
    <2>4. QED
      BY <1>1, <2>1, <2>3, CarrySame DEF TickList, TypeInv, dbVars, others
  <1>2. CASE TickVerify
    <2>1. tick.cur \in Recorded /\ UNCHANGED row
      BY <1>2 DEF TickVerify, TypeInv, TickTyped, dbVars
    <2>2. Recorded' = Recorded
      BY <2>1, CarrySame
    <2>3. TickTyped'
      <3>1. CASE tick' = IdleTick
        BY <3>1, IdleTickTyped
      <3>2. CASE tick' = [tick EXCEPT !.pc = "place"]
        BY <2>1, <2>2, <3>2 DEF TypeInv, TickTyped
      <3>3. ASSUME NEW v \in Verdicts, tick' = [tick EXCEPT !.pc = "stamp", !.verdict = v]
            PROVE  TickTyped'
        BY <2>1, <2>2, <3>3 DEF TypeInv, TickTyped
      <3>4. QED
        BY <1>2, <3>1, <3>2, <3>3 DEF TickVerify
    <2>4. BoundsTyped' /\ HistoryTyped'
      <3>1. UNCHANGED record
        BY <1>2 DEF TickVerify
      <3>2. CASE \E v \in Verdicts : Verdict(tick.cur, v)
        BY <2>1, <3>1, <3>2, VerdictTypes
      <3>3. CASE UNCHANGED <<faults, misread>>
        BY <2>1, <3>1, <3>3, CarrySame DEF record
      <3>4. QED
        BY <1>2, <3>2, <3>3 DEF TickVerify
    <2>5. QED
      BY <1>2, <2>1, <2>3, <2>4, CarrySame DEF TickVerify, TypeInv, dbVars
  <1>3. CASE TickStamp
    <2>1. tick.cur \in Recorded /\ tick.verdict \in Verdicts
      BY <1>3 DEF TickStamp, TypeInv, TickTyped
    <2>2. (UNCHANGED row \/ Rewrites) /\ BoundsTyped'
      BY <1>3, <2>1, StampTypes DEF TickStamp, history
    <2>3. TickTyped'
      <3>1. CASE tick' = IdleTick
        BY <3>1, IdleTickTyped
      <3>2. CASE tick' = [tick EXCEPT !.pc = "place"]
        BY <2>1, <2>2, <3>2, CarrySame, CarryRewritten DEF TypeInv, TickTyped
      <3>3. QED
        BY <1>3, <3>1, <3>2 DEF TickStamp
    <2>4. QED
      BY <1>3, <2>2, <2>3, CarrySame, CarryRewritten DEF TickStamp, TypeInv, history
  <1>4. CASE TickImport
    <2>1. tick.cur \in Recorded
      BY <1>4 DEF TickImport, TypeInv, TickTyped
    <2>2. UNCHANGED row \/ Rewrites
      <3>1. "imported" \in States \ {"none"} /\ "pending" \in Live
        BY DEF States, Live
      <3>2. QED
        BY <1>4, <2>1, <3>1, StateRewrites DEF TickImport, TypeInv
    <2>3. TickTyped'
      BY <1>4, IdleTickTyped DEF TickImport
    <2>4. QED
      BY <1>4, <2>2, <2>3, CarrySame, CarryRewritten DEF TickImport, TypeInv, others
  <1>5. QED
    BY <1>1, <1>2, <1>3, <1>4 DEF ImportTick

LEMMA IdleSweepTyped == sweep' = IdleSweep => SweepTyped'
  BY DEF IdleSweep, SweepTyped, Verdicts, Actions

LEMMA NextMisgrabTyped ==
  ASSUME TypeInv, Recorded' = Recorded, sweep' = NextMisgrab
  PROVE  SweepTyped'
  <1>1. CASE sweep' = IdleSweep
    BY <1>1, IdleSweepTyped
  <1>2. CASE sweep' = [sweep EXCEPT !.pc = "act", !.todo = @ \ {sweep.cur}, !.cur = NoGrab,
                                    !.action = "none"]
    BY <1>2 DEF TypeInv, SweepTyped, Actions
  <1>3. QED
    BY <1>1, <1>2 DEF NextMisgrab

\* The rows the sweep's statements are about.
LEMMA SweepRow ==
  ASSUME TypeInv
  PROVE  /\ sweep.todo \subseteq Recorded
         /\ sweep.pc \in {"stamp", "delete", "fail", "record"} =>
              sweep.cur \in sweep.todo /\ sweep.cur \in Recorded /\ sweep.cur \in Grabs
         /\ sweep.verdict \in Verdicts /\ sweep.action \in Actions
  BY DEF TypeInv, SweepTyped, Recorded

LEMMA SweepReadTypes ==
  ASSUME TypeInv, \/ SweepList \/ SweepListMisgrabs
                  \/ \E i \in Grabs : SweepVerify(i) \/ SweepAct(i)
  PROVE  TypeInv' /\ UNCHANGED row
  <1>1. ASSUME SweepList \/ SweepListMisgrabs
        PROVE  TypeInv' /\ UNCHANGED row
    <2>1. UNCHANGED row
      BY <1>1 DEF SweepList, SweepListMisgrabs, dbVars
    <2>2. SweepTyped'
      <3>1. Recorded' = Recorded
        BY <2>1, CarrySame
      <3>2. CASE SweepList
        <4>1. \E S \in SUBSET Recorded : sweep' = [IdleSweep EXCEPT !.pc = "verify", !.todo = S]
          BY <3>2 DEF SweepList
        <4>2. QED
          BY <3>1, <4>1 DEF IdleSweep, SweepTyped, Verdicts, Actions
      <3>3. CASE SweepListMisgrabs
        <4>1. \/ sweep' = IdleSweep
              \/ \E S \in SUBSET Recorded : sweep' = [sweep EXCEPT !.pc = "act", !.todo = S]
          BY <3>3 DEF SweepListMisgrabs
        <4>2. QED
          BY <3>1, <4>1, IdleSweepTyped DEF TypeInv, SweepTyped
      <3>4. QED
        BY <1>1, <3>2, <3>3
    <2>3. QED
      BY <1>1, <2>1, <2>2, CarrySame DEF SweepList, SweepListMisgrabs, TypeInv, dbVars, others
  <1>2. ASSUME NEW i \in Grabs, SweepVerify(i)
        PROVE  TypeInv' /\ UNCHANGED row
    <2>1. UNCHANGED row /\ i \in sweep.todo /\ sweep.pc = "verify"
      BY <1>2 DEF SweepVerify, dbVars
    <2>2. SweepTyped'
      <3>1. Recorded' = Recorded
        BY <2>1, CarrySame
      <3>2. ASSUME NEW v \in Verdicts,
                   sweep' = [sweep EXCEPT !.pc = "stamp", !.cur = i, !.verdict = v]
            PROVE  SweepTyped'
        BY <2>1, <3>1, <3>2 DEF TypeInv, SweepTyped
      <3>3. CASE sweep' = [sweep EXCEPT !.todo = @ \ {i}]
        BY <2>1, <3>1, <3>3 DEF TypeInv, SweepTyped
      <3>4. "cleared" \in Verdicts
        BY DEF Verdicts, Judged
      <3>5. QED
        BY <1>2, <3>2, <3>3, <3>4 DEF SweepVerify
    <2>3. BoundsTyped' /\ HistoryTyped'
      <3>1. UNCHANGED record /\ i \in Recorded
        BY <1>2, <2>1 DEF SweepVerify, TypeInv, SweepTyped
      <3>2. CASE \E v \in Verdicts : Verdict(i, v)
        BY <3>1, <3>2, VerdictTypes
      <3>3. CASE UNCHANGED misread /\ (UNCHANGED faults \/ Fault("client"))
        <4>1. BoundsTyped'
          BY <3>1, <3>3, FaultBounds DEF record
        <4>2. QED
          BY <2>1, <3>1, <3>3, <4>1, CarrySame DEF record
      <3>4. QED
        BY <1>2, <3>2, <3>3 DEF SweepVerify
    <2>4. QED
      BY <1>2, <2>1, <2>2, <2>3, CarrySame DEF SweepVerify, TypeInv, dbVars
  <1>3. ASSUME NEW i \in Grabs, SweepAct(i)
        PROVE  TypeInv' /\ UNCHANGED row
    <2>1. UNCHANGED row /\ i \in sweep.todo
      BY <1>3 DEF SweepAct, dbVars
    <2>2. \/ sweep' = [sweep EXCEPT !.pc = "delete", !.cur = i]
          \/ sweep' = [sweep EXCEPT !.pc = "record", !.cur = i, !.action = "flagged"]
      BY <1>3 DEF SweepAct
    <2>3. SweepTyped'
      BY <2>1, <2>2, CarrySame DEF TypeInv, SweepTyped, Actions
    <2>4. QED
      BY <1>3, <2>1, <2>3, CarrySame DEF SweepAct, TypeInv, dbVars, others
  <1>4. QED
    BY <1>1, <1>2, <1>3

LEMMA DeletionTypes ==
  ASSUME TypeInv, NEW h, NEW answer, Deletion(h, answer)
  PROVE  ClientTyped' /\ (UNCHANGED faults \/ \E f : Fault(f))
  BY DEF Deletion, TypeInv, ClientTyped

LEMMA SweepWriteTypes ==
  ASSUME TypeInv, SweepStamp \/ SweepDelete \/ SweepFail \/ SweepRecord
  PROVE  TypeInv' /\ (UNCHANGED row \/ Rewrites)
  <1>1. CASE SweepStamp
    <2>1. (UNCHANGED row \/ Rewrites) /\ BoundsTyped'
      BY <1>1, SweepRow, StampTypes DEF SweepStamp, history
    <2>2. SweepTyped'
      BY <1>1, <2>1, CarrySame, CarryRewritten DEF SweepStamp, TypeInv, SweepTyped, Verdicts
    <2>3. QED
      BY <1>1, <2>1, <2>2, CarrySame, CarryRewritten DEF SweepStamp, TypeInv, history
  <1>2. CASE SweepDelete
    <2>1. PICK answer \in Answers : /\ Deletion(row[sweep.cur].hash, answer)
                                    /\ sweep' = [sweep EXCEPT !.pc = "fail", !.action = answer]
      BY <1>2 DEF SweepDelete
    <2>2. ClientTyped' /\ BoundsTyped'
      BY <1>2, <2>1, DeletionTypes, FaultBounds DEF SweepDelete, history
    <2>3. UNCHANGED row
      BY <1>2 DEF SweepDelete
    <2>4. SweepTyped'
      BY <1>2, <2>1, <2>3, CarrySame DEF SweepDelete, TypeInv, SweepTyped, Answers, Actions
    <2>5. QED
      BY <1>2, <2>2, <2>3, <2>4, CarrySame DEF SweepDelete, TypeInv, history
  <1>3. CASE SweepFail
    <2>1. UNCHANGED row \/ Rewrites
      BY <1>3, FailRewrites DEF SweepFail, TypeInv
    <2>2. RowsTyped' /\ Recorded' = Recorded
      BY <2>1, CarrySame, CarryRewritten
    <2>3. SweepTyped'
      <3>1. CASE sweep' = [sweep EXCEPT !.pc = "record"]
        BY <1>3, <2>2, <3>1 DEF SweepFail, TypeInv, SweepTyped
      <3>2. CASE sweep' = NextMisgrab
        BY <2>2, <3>2, NextMisgrabTyped
      <3>3. QED
        BY <1>3, <3>1, <3>2 DEF SweepFail
    <2>4. BoundsTyped'
      BY <1>3, FaultBounds DEF SweepFail, history
    <2>5. QED
      BY <1>3, <2>1, <2>2, <2>3, <2>4, CarrySame, CarryRewritten DEF SweepFail, TypeInv, history
  <1>4. CASE SweepRecord
    <2>1. UNCHANGED row \/ Rewrites
      BY <1>4, SweepRow, ActionRewrites DEF SweepRecord, TypeInv
    <2>2. RowsTyped' /\ Recorded' = Recorded
      BY <2>1, CarrySame, CarryRewritten
    <2>3. SweepTyped'
      BY <1>4, <2>2, NextMisgrabTyped DEF SweepRecord
    <2>4. BoundsTyped'
      BY <1>4, FaultBounds DEF SweepRecord, history
    <2>5. QED
      BY <1>4, <2>1, <2>2, <2>3, <2>4, CarrySame, CarryRewritten DEF SweepRecord, TypeInv, history
  <1>5. QED
    BY <1>1, <1>2, <1>3, <1>4

LEMMA SweepTypes ==
  ASSUME TypeInv, Sweep
  PROVE  TypeInv' /\ (UNCHANGED row \/ Rewrites)
  BY SweepReadTypes, SweepWriteTypes DEF Sweep

LEMMA ReqUpdate ==
  ASSUME TypeInv, Recorded \subseteq Recorded', NEW r \in Requests, NEW x \in Handler,
         req' = [req EXCEPT ![r] = x],
         x.pc # "idle" => x.row \in Recorded', x.pc = "stamp" => x.new \in Recorded'
  PROVE  ReqTyped'
  BY DEF TypeInv, ReqTyped

LEMMA ReqEnds ==
  ASSUME TypeInv, Recorded \subseteq Recorded', NEW r \in Requests,
         req' = [req EXCEPT ![r] = IdleReq]
  PROVE  ReqTyped'
  BY ReqUpdate, BlankRow DEF IdleReq, Handler

LEMMA ReqMoves ==
  ASSUME TypeInv, Recorded \subseteq Recorded', NEW r \in Requests, req[r].pc # "idle",
         NEW pc \in {"whitelist", "record", "whitelistAll", "unblock", "removed",
                     "removed_no_delete", "set", "setNoDelete"},
         req' = [req EXCEPT ![r].pc = pc]
  PROVE  ReqTyped'
  <1>1. [req[r] EXCEPT !.pc = pc] \in Handler
    BY DEF TypeInv, ReqTyped, Handler
  <1>2. req' = [req EXCEPT ![r] = [req[r] EXCEPT !.pc = pc]]
    BY DEF TypeInv, ReqTyped
  <1>3. req[r].row \in Recorded'
    BY DEF TypeInv, ReqTyped
  <1>4. QED
    BY <1>1, <1>2, <1>3, ReqUpdate DEF TypeInv, ReqTyped, Handler

\* The rows of a request's statements.
LEMMA ReqRow ==
  ASSUME TypeInv, NEW r \in Requests, req[r].pc # "idle"
  PROVE  /\ req[r].row \in Recorded /\ req[r].row \in Grabs
         /\ row[req[r].row].hash \in Hashes /\ req[r].series \in Series
         /\ req[r].pc = "stamp" => req[r].new \in Recorded
  <1>1. req[r].row \in Recorded /\ req[r].row \in Grabs
    BY DEF TypeInv, ReqTyped, Recorded
  <1>2. QED
    BY <1>1, RowTypes DEF TypeInv, ReqTyped, Handler

LEMMA AskTypes ==
  ASSUME TypeInv, NEW r \in Requests, NEW i \in Grabs, RestoreStart(r, i) \/ DismissStart(r, i)
  PROVE  TypeInv' /\ UNCHANGED row
  <1>1. UNCHANGED row
    BY DEF RestoreStart, DismissStart, dbVars
  <1>2. PICK pc \in {"add", "whitelist", "delete"} : AskFor(r, i, pc)
    BY DEF RestoreStart, DismissStart
  <1>3. i \in Recorded
    BY <1>2 DEF AskFor, TypeInv, RowsTyped, NoRow, Recorded
  <1>4. ReqTyped'
    <2> DEFINE x == [IdleReq EXCEPT !.pc = pc, !.row = i, !.series = row[i].series]
    <2>1. x \in Handler /\ x.row = i /\ x.pc = pc
      BY RowTypes DEF IdleReq, Handler
    <2>2. QED
      BY <1>1, <1>2, <1>3, <2>1, CarrySame, ReqUpdate DEF AskFor
  <1>5. QED
    BY <1>1, <1>4, CarrySame DEF RestoreStart, DismissStart, TypeInv, dbVars, others

LEMMA WhitelistStepTypes ==
  ASSUME TypeInv, NEW r \in Requests, RestoreWhitelist(r) \/ RestoreWhitelistAll(r)
  PROVE  TypeInv' /\ (UNCHANGED row \/ Rewrites)
  <1>1. req[r].pc # "idle"
    BY DEF RestoreWhitelist, RestoreWhitelistAll
  <1>2. UNCHANGED row \/ Rewrites
    BY WhitelistRewrites DEF RestoreWhitelist, RestoreWhitelistAll, TypeInv
  <1>3. RowsTyped' /\ Recorded' = Recorded
    BY <1>2, CarrySame, CarryRewritten
  <1>4. BoundsTyped'
    BY FaultBounds DEF RestoreWhitelist, RestoreWhitelistAll
  <1>5. HistoryTyped'
    BY <1>1, ReqRow DEF RestoreWhitelist, RestoreWhitelistAll, TypeInv, HistoryTyped
  <1>6. ReqTyped'
    BY <1>1, <1>3, ReqEnds, ReqMoves DEF RestoreWhitelist, RestoreWhitelistAll
  <1>7. QED
    BY <1>2, <1>3, <1>4, <1>5, <1>6, CarrySame, CarryRewritten
       DEF RestoreWhitelist, RestoreWhitelistAll, TypeInv

LEMMA ClientStepTypes ==
  ASSUME TypeInv, NEW r \in Requests, RestoreAdd(r) \/ DismissDelete(r)
  PROVE  TypeInv' /\ UNCHANGED row
  <1>1. req[r].pc # "idle" /\ UNCHANGED row
    BY DEF RestoreAdd, DismissDelete
  <1>2. Recorded' = Recorded
    BY <1>1, CarrySame
  <1>3. CASE RestoreAdd(r)
    <2>1. ReqTyped'
      BY <1>1, <1>2, <1>3, ReqEnds, ReqMoves DEF RestoreAdd
    <2>2. ClientTyped'
      BY <1>1, <1>3, ReqRow DEF RestoreAdd, TypeInv, ClientTyped
    <2>3. BoundsTyped'
      BY <1>3, FaultBounds DEF RestoreAdd, history
    <2>4. QED
      BY <1>1, <1>3, <2>1, <2>2, <2>3, CarrySame DEF RestoreAdd, TypeInv, history
  <1>4. CASE DismissDelete(r)
    <2>1. PICK answer \in Answers : /\ Deletion(row[req[r].row].hash, answer)
                                    /\ req' = [req EXCEPT ![r].pc = answer]
      BY <1>4 DEF DismissDelete
    <2>2. ReqTyped'
      BY <1>1, <1>2, <2>1, ReqMoves DEF Answers
    <2>3. ClientTyped' /\ BoundsTyped'
      BY <1>4, <2>1, DeletionTypes, FaultBounds DEF DismissDelete, history
    <2>4. QED
      BY <1>1, <1>4, <2>2, <2>3, CarrySame DEF DismissDelete, TypeInv, history
  <1>5. QED
    BY <1>1, <1>3, <1>4

\* The grab a restore records: the id it gets is free.
LEMMA RestoreRecordTypes ==
  ASSUME TypeInv, NEW r \in Requests, RestoreRecord(r)
  PROVE  TypeInv'
  <1> DEFINE h == row[req[r].row].hash
             s == req[r].series
  <1>1. h \in Hashes /\ s \in Series /\ req[r].pc # "idle"
    BY ReqRow DEF RestoreRecord
  <1>2. PICK i \in Grabs :
          /\ LiveOf(h) # {} \/ i \in FreeRow
          /\ row' = WithGrab(i, h, s)
          /\ req' = IF GrabRow(i, h) = NoGrab THEN [req EXCEPT ![r].pc = "whitelist"]
                    ELSE [req EXCEPT ![r].pc = "stamp", ![r].new = GrabRow(i, h)]
    BY DEF RestoreRecord
  <1>3. LiveOf(h) = {} => row[i].state = "none" /\ grabber[i] = IdleGrab
    BY <1>2 DEF FreeRow
  <1>4. /\ RowsTyped' /\ Recorded \subseteq Recorded'
        /\ GrabRow(i, h) \in Recorded' \cup {NoGrab}
        /\ \A k \in Grabs : row[k].state = "none" /\ (k # i \/ LiveOf(h) # {}) => row'[k] = row[k]
    BY <1>1, <1>2, <1>3, RecordKeeps DEF TypeInv
  <1>5. UNCHANGED <<item, grabber, judge, tick, sweep, plan, grabbed, faults, restored, cancelled,
                   misread>>
    BY DEF RestoreRecord, others
  <1>6. GrabbersTyped'
    <2>1. ASSUME NEW k \in Grabs, grabber[k].pc = "record"
          PROVE  row'[k].state = "none"
      <3>1. row[k].state = "none"
        BY <2>1 DEF TypeInv, GrabbersTyped
      <3>2. k # i \/ LiveOf(h) # {}
        BY <1>3, <2>1 DEF IdleGrab
      <3>3. QED
        BY <1>4, <3>1, <3>2
    <2>2. QED
      BY <1>5, <2>1 DEF TypeInv, GrabbersTyped
  <1>7. ReqTyped'
    <2>1. CASE GrabRow(i, h) = NoGrab
      BY <1>1, <1>2, <1>4, <2>1, ReqMoves
    <2>2. CASE GrabRow(i, h) # NoGrab
      <3> DEFINE x == [req[r] EXCEPT !.pc = "stamp", !.new = GrabRow(i, h)]
      <3>1. GrabRow(i, h) \in Recorded' /\ GrabRow(i, h) \in Grabs
        BY <1>4, <2>2 DEF Recorded
      <3>2. x \in Handler /\ x.new = GrabRow(i, h) /\ x.row = req[r].row
        BY <3>1 DEF TypeInv, ReqTyped, Handler
      <3>3. req' = [req EXCEPT ![r] = x]
        BY <1>2, <2>2 DEF TypeInv, ReqTyped
      <3>4. x.row \in Recorded'
        BY <1>1, <1>4, <3>2, ReqRow
      <3>5. QED
        BY <1>4, <3>1, <3>2, <3>3, <3>4, ReqUpdate
    <2>3. QED
      BY <2>1, <2>2
  <1>8. QED
    BY <1>4, <1>5, <1>6, <1>7, Carry DEF TypeInv

LEMMA StatementStepTypes ==
  ASSUME TypeInv, NEW r \in Requests,
         RestoreStamp(r) \/ RestoreUnblock(r) \/ DismissFail(r) \/ DismissRecord(r)
  PROVE  TypeInv' /\ (UNCHANGED row \/ Rewrites)
  <1>1. req[r].pc # "idle"
    BY DEF RestoreStamp, RestoreUnblock, DismissFail, DismissRecord, Answers
  <1>2. UNCHANGED row \/ Rewrites
    <2>1. CASE RestoreStamp(r)
      BY <1>1, <2>1, ReqRow, StampRewrites DEF RestoreStamp, Stamp, TypeInv, Verdicts
    <2>2. CASE RestoreUnblock(r)
      BY <2>2, UnblockRewrites DEF RestoreUnblock, TypeInv
    <2>3. CASE DismissFail(r)
      BY <2>3, FailRewrites DEF DismissFail, TypeInv
    <2>4. CASE DismissRecord(r)
      BY <1>1, <2>4, ReqRow, ActionRewrites DEF DismissRecord, TypeInv, Actions
    <2>5. QED
      BY <2>1, <2>2, <2>3, <2>4
  <1>3. RowsTyped' /\ Recorded' = Recorded
    BY <1>2, CarrySame, CarryRewritten
  <1>4. BoundsTyped'
    BY FaultBounds DEF RestoreStamp, Stamp, RestoreUnblock, DismissFail, DismissRecord, history
  <1>5. ReqTyped'
    <2>1. CASE RestoreStamp(r) \/ RestoreUnblock(r) \/ DismissRecord(r)
      BY <1>1, <1>3, <2>1, ReqEnds, ReqMoves DEF RestoreStamp, RestoreUnblock, DismissRecord
    <2>2. CASE DismissFail(r)
      <3>1. \/ req' = [req EXCEPT ![r] = IdleReq]
            \/ \E pc \in {"set", "setNoDelete"} : req' = [req EXCEPT ![r].pc = pc]
        BY <2>2 DEF DismissFail, TypeInv, ReqTyped
      <3>2. QED
        BY <1>1, <1>3, <3>1, ReqEnds, ReqMoves
    <2>3. QED
      BY <2>1, <2>2
  <1>6. QED
    BY <1>2, <1>3, <1>4, <1>5, CarrySame, CarryRewritten
       DEF RestoreStamp, RestoreUnblock, DismissFail, DismissRecord, TypeInv, history

LEMMA CancelTypes ==
  ASSUME TypeInv, NEW i \in Grabs, CancelGrab(i)
  PROVE  TypeInv' /\ Rewrites
  <1>1. i \in Recorded /\ "removed" \in States \ {"none"} /\ "removed" \notin Live
    BY DEF CancelGrab, Recorded, States, Live
  <1>2. Rewrites
    BY <1>1, StateRewrites DEF CancelGrab, TypeInv
  <1>3. ClientTyped' /\ HistoryTyped'
    BY RowTypes DEF CancelGrab, TypeInv, ClientTyped, HistoryTyped
  <1>4. BoundsTyped'
    BY <1>2, CarryRewritten DEF CancelGrab
  <1>5. QED
    BY <1>2, <1>3, <1>4, CarryRewritten DEF CancelGrab, actors, TypeInv

LEMMA RestartTypes ==
  ASSUME TypeInv, Restart
  PROVE  TypeInv' /\ UNCHANGED row
  <1>1. UNCHANGED row
    BY DEF Restart, dbVars
  <1>2. GrabbersTyped' /\ JudgesTyped' /\ ReqTyped'
    BY <1>1, BlankRow DEF Restart, GrabbersTyped, JudgesTyped, ReqTyped, Handler, IdleGrab, IdleReq
  <1>3. TickTyped' /\ SweepTyped'
    BY IdleTickTyped, IdleSweepTyped DEF Restart
  <1>4. BoundsTyped'
    BY FaultBounds DEF Restart, history
  <1>5. QED
    BY <1>1, <1>2, <1>3, <1>4, CarrySame DEF Restart, TypeInv, dbVars, history

LEMMA InitTypes == MisgrabInit => TypeInv
  <1> SUFFICES ASSUME MisgrabInit PROVE TypeInv
    OBVIOUS
  <1>1. RowsTyped /\ ClientTyped /\ HistoryTyped
    BY BlankRow DEF MisgrabInit, RowsTyped, ClientTyped, HistoryTyped, LiveOf, OfHash, Recorded, NoRow
  <1>2. GrabbersTyped /\ JudgesTyped /\ ReqTyped
    BY BlankRow DEF MisgrabInit, GrabbersTyped, JudgesTyped, ReqTyped, Handler, IdleGrab, IdleReq
  <1>3. TickTyped /\ SweepTyped
    BY DEF MisgrabInit, TickTyped, SweepTyped, IdleTick, IdleSweep, Verdicts, Actions
  <1>4. BoundsTyped
    BY MisgrabAssumptions DEF MisgrabInit, BoundsTyped, Plan
  <1>5. QED
    BY <1>1, <1>2, <1>3, <1>4 DEF TypeInv

LEMMA StutterTypes == TypeInv /\ UNCHANGED misgrabVars => TypeInv'
  BY CarrySame DEF misgrabVars, dbVars, actors, others, TypeInv

LEMMA TypesPreserved == TypeInv /\ [MisgrabNext]_misgrabVars => TypeInv'
  <1> SUFFICES ASSUME TypeInv, [MisgrabNext]_misgrabVars PROVE TypeInv'
    OBVIOUS
  <1>1. ASSUME NEW i \in Grabs, Grab(i) \/ CancelGrab(i)
        PROVE  TypeInv'
    BY <1>1, GrabAddTypes, GrabRecordTypes, JudgeReadTypes, JudgeStampTypes, CancelTypes DEF Grab
  <1>2. CASE ImportTick \/ Sweep
    BY <1>2, TickTypes, SweepTypes
  <1>3. ASSUME NEW r \in Requests, Request(r)
        PROVE  TypeInv'
    BY <1>3, AskTypes, WhitelistStepTypes, ClientStepTypes, RestoreRecordTypes, StatementStepTypes
       DEF Request
  <1>4. CASE Restart
    BY <1>4, RestartTypes
  <1>5. CASE UNCHANGED misgrabVars
    BY <1>5, StutterTypes
  <1>6. QED
    BY <1>1, <1>2, <1>3, <1>4, <1>5 DEF MisgrabNext

\* Types of the table and of the actors; a hash has at most one live row, and an actor's
\* row is recorded.
THEOREM MisgrabTypes == MisgrabSpec => []MisgrabTypeOK
  <1>1. MisgrabSpec => []TypeInv
    BY InitTypes, TypesPreserved, PTL DEF MisgrabSpec
  <1>2. QED
    BY <1>1, TypeInvImplies, PTL

-------------------------------------------------------------------------------
(* What a step does to the table *)

\* record_grab with what its callers give it
Inserts == \E i \in Grabs, h \in Hashes, s \in Series :
             row' = WithGrab(i, h, s) /\ (LiveOf(h) = {} => row[i].state = "none")

\* The statements of the actors, by what they write.
Stamps == \/ \E i \in Grabs : JudgeStamp(i) /\ row' = Stamped(i, judge[i])
          \/ TickStamp /\ row' = Stamped(tick.cur, tick.verdict)
          \/ SweepStamp /\ row' = Stamped(sweep.cur, sweep.verdict)
          \/ \E i \in Recorded : row' = Stamped(i, "whitelisted")

Whitelists == \E h, s : row' = WhitelistedByHash(h, s)

Ends == \/ \E h : row' = FailedByHash(h)
        \/ \E h, s : row' = Unblocked(h, s)

Imports == \E i \in Grabs : row[i].state = "pending" /\ row' = [row EXCEPT ![i].state = "imported"]

Records == \E i \in Recorded : \/ SweepRecord /\ i = sweep.cur
                                    /\ row' = [row EXCEPT ![i].action = sweep.action]
                               \/ \E r \in Requests : DismissRecord(r) /\ i = req[r].row
                                    /\ row' = [row EXCEPT ![i].action =
                                         IF req[r].pc = "set" THEN "removed" ELSE "removed_no_delete"]

Statement == \/ UNCHANGED row \/ Inserts \/ Stamps \/ Whitelists \/ Ends \/ Imports \/ Records
             \/ \E i \in Grabs : CancelGrab(i)

LEMMA Statements ==
  ASSUME TypeInv, [MisgrabNext]_misgrabVars
  PROVE  Statement
  <1> USE DEF Statement
  <1>1. ASSUME NEW i \in Grabs, Grab(i) \/ CancelGrab(i)
        PROVE  Statement
    <2>1. CASE GrabRecord(i)
      BY <2>1 DEF GrabRecord, Inserts, TypeInv, GrabbersTyped
    <2>2. CASE JudgeStamp(i)
      BY <2>2 DEF JudgeStamp, Stamp, Stamps
    <2>3. CASE CancelGrab(i)
      BY <2>3
    <2>4. CASE JudgeRead(i) \/ \E h \in Hashes, s \in Series : GrabAdd(i, h, s)
      BY <2>4 DEF JudgeRead, GrabAdd, dbVars
    <2>5. QED
      BY <1>1, <2>1, <2>2, <2>3, <2>4 DEF Grab
  <1>2. CASE ImportTick
    <2>1. tick.pc = "place" => tick.cur \in Grabs
      BY DEF TypeInv, TickTyped, Recorded
    <2>2. TickImport => UNCHANGED row \/ Imports
      BY <2>1 DEF TickImport, Imports
    <2>3. (TickVerify \/ \E i \in Grabs : TickList(i)) => UNCHANGED row
      BY DEF TickVerify, TickList, dbVars
    <2>4. TickStamp => UNCHANGED row \/ Stamps
      BY DEF TickStamp, Stamp, Stamps
    <2>5. QED
      BY <1>2, <2>2, <2>3, <2>4 DEF ImportTick
  <1>3. CASE Sweep
    <2>1. SweepFail => UNCHANGED row \/ Ends
      BY DEF SweepFail, Ends
    <2>2. SweepRecord => UNCHANGED row \/ Records
      BY SweepRow DEF SweepRecord, Records
    <2>3. SweepDelete => UNCHANGED row
      BY DEF SweepDelete
    <2>4. (SweepList \/ SweepListMisgrabs \/ \E i \in Grabs : SweepVerify(i) \/ SweepAct(i))
            => UNCHANGED row
      BY SweepReadTypes
    <2>5. SweepStamp => UNCHANGED row \/ Stamps
      BY DEF SweepStamp, Stamp, Stamps
    <2>6. QED
      BY <1>3, <2>1, <2>2, <2>3, <2>4, <2>5 DEF Sweep
  <1>4. ASSUME NEW r \in Requests, Request(r)
        PROVE  Statement
    <2>1. CASE RestoreWhitelist(r) \/ RestoreWhitelistAll(r)
      BY <2>1 DEF RestoreWhitelist, RestoreWhitelistAll, Whitelists
    <2>2. CASE RestoreStamp(r)
      BY <2>2, ReqRow DEF RestoreStamp, Stamp, Stamps
    <2>3. CASE RestoreRecord(r)
      BY <2>3, ReqRow DEF RestoreRecord, Inserts, FreeRow
    <2>4. CASE RestoreUnblock(r) \/ DismissFail(r)
      BY <2>4 DEF RestoreUnblock, DismissFail, Ends
    <2>5. CASE DismissRecord(r)
      <3>1. req[r].row \in Recorded
        BY <2>5, ReqRow DEF DismissRecord
      <3>2. UNCHANGED row \/ row' = [row EXCEPT ![req[r].row].action =
                                       IF req[r].pc = "set" THEN "removed" ELSE "removed_no_delete"]
        BY <2>5 DEF DismissRecord
      <3>3. QED
        BY <2>5, <3>1, <3>2 DEF Records
    <2>6. CASE \/ RestoreAdd(r) \/ DismissDelete(r)
               \/ \E i \in Grabs : RestoreStart(r, i) \/ DismissStart(r, i)
      BY <2>6, AskTypes, ClientStepTypes
    <2>7. QED
      BY <1>4, <2>1, <2>2, <2>3, <2>4, <2>5, <2>6 DEF Request
  <1>5. CASE Restart \/ UNCHANGED misgrabVars
    BY <1>5 DEF Restart, misgrabVars, dbVars
  <1>6. QED
    BY <1>1, <1>2, <1>3, <1>4, <1>5 DEF MisgrabNext

LEMMA TableSteps ==
  ASSUME TypeInv, [MisgrabNext]_misgrabVars
  PROVE  UNCHANGED row \/ Rewrites \/ Inserts
  <1> RowsTyped
    BY DEF TypeInv
  <1>1. Stamps => Rewrites
    <2>1. \A i \in Grabs : JudgeStamp(i) /\ row' = Stamped(i, judge[i]) => Rewrites
      BY StampRewrites DEF JudgeStamp, TypeInv, JudgesTyped, Verdicts
    <2>2. TickStamp /\ row' = Stamped(tick.cur, tick.verdict) => Rewrites
      BY StampRewrites DEF TickStamp, TypeInv, TickTyped
    <2>3. SweepStamp /\ row' = Stamped(sweep.cur, sweep.verdict) => Rewrites
      BY SweepRow, StampRewrites DEF SweepStamp
    <2>4. QED
      BY <2>1, <2>2, <2>3, StampRewrites DEF Stamps, Verdicts
  <1>2. Whitelists \/ Ends => Rewrites
    BY WhitelistRewrites, FailRewrites, UnblockRewrites DEF Whitelists, Ends
  <1>3. Imports => Rewrites
    BY StateRewrites DEF Imports, Recorded, States, Live
  <1>4. Records => Rewrites
    <2>1. sweep.action \in Actions /\ "removed" \in Actions /\ "removed_no_delete" \in Actions
      BY SweepRow DEF Actions
    <2>2. QED
      BY <2>1, ActionRewrites DEF Records
  <1>5. (\E i \in Grabs : CancelGrab(i)) => Rewrites
    BY CancelTypes
  <1>6. QED
    BY <1>1, <1>2, <1>3, <1>4, <1>5, Statements DEF Statement

\* A row stays, keeps its hash, and is live again only if it was live.
LEMMA RowsStay ==
  ASSUME TypeInv, [MisgrabNext]_misgrabVars
  PROVE  \A i \in Recorded : /\ i \in Recorded'
                             /\ row'[i].hash = row[i].hash
                             /\ row[i].state \notin Live => row'[i].state \notin Live
  <1>1. CASE UNCHANGED row
    BY <1>1 DEF Recorded
  <1>2. CASE Rewrites
    BY <1>2 DEF Rewrites, Recorded
  <1>3. CASE Inserts
    BY <1>3, RecordKeeps DEF Inserts, TypeInv, Live
  <1>4. QED
    BY <1>1, <1>2, <1>3, TableSteps

LEMMA OfHashGrows ==
  ASSUME TypeInv, [MisgrabNext]_misgrabVars, NEW h
  PROVE  OfHash(h) \subseteq OfHash(h)'
  BY RowsStay DEF OfHash, Recorded

-------------------------------------------------------------------------------
(* Verdicts *)

VerdictsSame == \A i \in Grabs : row'[i].verdict = row[i].verdict

\* The statements that leave verdicts alone.
LEMMA VerdictUntouched ==
  ASSUME TypeInv,
         \/ UNCHANGED row \/ Inserts \/ Ends
         \/ \E i \in Grabs : \E a : row' = [row EXCEPT ![i].action = a]
         \/ \E i \in Grabs : \E s : row' = [row EXCEPT ![i].state = s]
  PROVE  VerdictsSame
  <1>1. RowsTyped
    BY DEF TypeInv
  <1>2. CASE UNCHANGED row
    BY <1>2 DEF VerdictsSame
  <1>3. CASE Inserts
    <2>1. PICK i \in Grabs, h \in Hashes, s \in Series :
            row' = WithGrab(i, h, s) /\ (LiveOf(h) = {} => row[i].state = "none")
      BY <1>3 DEF Inserts
    <2>2. \A k \in Recorded : row'[k].verdict = row[k].verdict
      BY <1>1, <2>1, RecordKeeps
    <2>3. \A k \in Grabs : row[k].state = "none" /\ (k # i \/ LiveOf(h) # {}) => row'[k] = row[k]
      BY <1>1, <2>1, RecordKeeps
    <2>4. CASE LiveOf(h) = {}
      <3>1. row'[i].verdict = "none" /\ row[i].verdict = "none"
        <4>1. row' = [row EXCEPT ![i] =
                        [NoRow EXCEPT !.state = "pending", !.hash = h, !.series = s]]
          BY <2>1, <2>4 DEF WithGrab
        <4>2. row[i] = NoRow
          BY <1>1, <2>1, <2>4 DEF RowsTyped
        <4>3. NoRow.verdict = "none"
          BY DEF NoRow
        <4>4. [NoRow EXCEPT !.state = "pending", !.hash = h, !.series = s].verdict = NoRow.verdict
          BY BlankRow DEF Row
        <4>5. QED
          BY <1>1, <4>1, <4>2, <4>3, <4>4 DEF RowsTyped
      <3>2. QED
        BY <2>2, <2>3, <3>1 DEF VerdictsSame, Recorded
    <2>5. CASE LiveOf(h) # {}
      BY <2>2, <2>3, <2>5 DEF VerdictsSame, Recorded
    <2>6. QED
      BY <2>4, <2>5
  <1>4. CASE \E h : row' = FailedByHash(h)
    BY <1>1, <1>4 DEF FailedByHash, RowsTyped, Row, VerdictsSame
  <1>5. CASE \E h, s : row' = Unblocked(h, s)
    BY <1>1, <1>5 DEF Unblocked, RowsTyped, Row, VerdictsSame
  <1>6. CASE \E i \in Grabs : \E a : row' = [row EXCEPT ![i].action = a]
    BY <1>1, <1>6 DEF RowsTyped, Row, VerdictsSame
  <1>7. CASE \E i \in Grabs : \E s : row' = [row EXCEPT ![i].state = s]
    BY <1>1, <1>7 DEF RowsTyped, Row, VerdictsSame
  <1>8. QED
    BY <1>2, <1>3, <1>4, <1>5, <1>6, <1>7 DEF Ends

LEMMA VerdictSteps ==
  ASSUME TypeInv, [MisgrabNext]_misgrabVars
  PROVE  VerdictsSame \/ Stamps \/ Whitelists
  <1>1. Records => \E i \in Grabs : \E a : row' = [row EXCEPT ![i].action = a]
    BY DEF Records, Recorded
  <1>2. Imports \/ (\E i \in Grabs : CancelGrab(i))
          => \E i \in Grabs : \E s : row' = [row EXCEPT ![i].state = s]
    BY DEF Imports, CancelGrab
  <1>3. QED
    BY <1>1, <1>2, Statements, VerdictUntouched DEF Statement

\* A verdict only ever becomes "whitelisted".
VerdictsKept == \A i \in Grabs : row[i].verdict # "none" =>
                  row'[i].verdict \in {row[i].verdict, "whitelisted"}

LEMMA StampEffect ==
  ASSUME TypeInv, NEW i \in Recorded, NEW v, row' = Stamped(i, v)
  PROVE  \A k \in Grabs : row'[k].verdict =
                            IF k = i /\ row[i].verdict = "none" THEN v ELSE row[k].verdict
  BY DEF TypeInv, RowsTyped, Row, Recorded, Stamped

\* Whose verdict a stamp writes.
LEMMA StampOf ==
  ASSUME TypeInv, Stamps
  PROVE  \E i \in Recorded, v \in Verdicts :
           /\ row' = Stamped(i, v)
           /\ \/ v = judge[i] \/ v = "whitelisted"
              \/ tick.pc = "stamp" /\ tick.cur = i /\ v = tick.verdict
              \/ sweep.pc = "stamp" /\ sweep.cur = i /\ v = sweep.verdict
  <1>1. ASSUME NEW i \in Grabs, JudgeStamp(i)
        PROVE  i \in Recorded /\ judge[i] \in Verdicts
    BY <1>1 DEF JudgeStamp, TypeInv, JudgesTyped, Verdicts
  <1>2. TickStamp => tick.cur \in Recorded /\ tick.verdict \in Verdicts /\ tick.pc = "stamp"
    BY DEF TickStamp, TypeInv, TickTyped
  <1>3. SweepStamp => sweep.cur \in Recorded /\ sweep.verdict \in Verdicts /\ sweep.pc = "stamp"
    BY SweepRow DEF SweepStamp
  <1>4. "whitelisted" \in Verdicts
    BY DEF Verdicts
  <1>5. QED
    BY <1>1, <1>2, <1>3, <1>4 DEF Stamps

LEMMA WhitelistEffect ==
  ASSUME TypeInv, NEW h, NEW s, row' = WhitelistedByHash(h, s)
  PROVE  \A k \in Grabs : /\ row'[k].verdict \in {row[k].verdict, "whitelisted"}
                          /\ k \in OfHash(h) /\ row[k].verdict # "misgrab"
                               => row'[k].verdict = "whitelisted"
  BY DEF TypeInv, RowsTyped, Row, WhitelistedByHash

LEMMA VerdictsKeptByStep ==
  ASSUME TypeInv, [MisgrabNext]_misgrabVars
  PROVE  VerdictsKept
  <1>1. CASE VerdictsSame
    BY <1>1 DEF VerdictsSame, VerdictsKept
  <1>2. CASE Stamps
    BY <1>2, StampOf, StampEffect DEF VerdictsKept
  <1>3. CASE Whitelists
    BY <1>3, WhitelistEffect DEF Whitelists, VerdictsKept
  <1>4. QED
    BY <1>1, <1>2, <1>3, VerdictSteps

\* "The first writer wins and the verdict never flips on its own": three judges race, and
\* only a Restore changes a verdict.
THEOREM VerdictsStand == MisgrabSpec => VerdictStands
  <1>1. MisgrabSpec => []TypeInv
    BY InitTypes, TypesPreserved, PTL DEF MisgrabSpec
  <1>2. TypeInv /\ [MisgrabNext]_misgrabVars
          => [\A i \in Grabs : row[i].verdict # "none" =>
                row'[i].verdict \in {row[i].verdict, "whitelisted"}]_misgrabVars
    BY VerdictsKeptByStep DEF VerdictsKept
  <1>3. QED
    BY <1>1, <1>2, PTL DEF MisgrabSpec, VerdictStands

-------------------------------------------------------------------------------
(* Restored releases *)

\* Nobody is about to judge row i a misgrab.
Spared(i) == /\ judge[i] # "misgrab"
             /\ ~(tick.pc = "stamp" /\ tick.cur = i /\ tick.verdict = "misgrab")
             /\ ~(sweep.pc = "stamp" /\ sweep.cur = i /\ sweep.verdict = "misgrab")

\* A restored release is whitelisted, and a verdict on it that was reached before that
\* is for a row that has one already, unless a judge failed to read the whitelist.
RestoredStand ==
  \A h \in restored :
    /\ Whitelisted(h)
    /\ h \notin misread => \A i \in OfHash(h) : row[i].verdict = "none" => Spared(i)

LEMMA MisreadGrows ==
  ASSUME [MisgrabNext]_misgrabVars
  PROVE  misread \subseteq misread'
  <1>1. ASSUME NEW i \in Grabs, Grab(i) \/ CancelGrab(i)
        PROVE  misread \subseteq misread'
    BY <1>1 DEF Grab, GrabAdd, GrabRecord, JudgeRead, Verdict, JudgeStamp, CancelGrab, others, history
  <1>2. ImportTick => misread \subseteq misread'
    BY DEF ImportTick, TickList, TickVerify, Verdict, TickStamp, TickImport, others, history
  <1>3. Sweep => misread \subseteq misread'
    BY DEF Sweep, SweepList, SweepVerify, Verdict, SweepStamp, SweepListMisgrabs, SweepAct,
           SweepDelete, SweepFail, SweepRecord, others, history
  <1>4. ASSUME NEW r \in Requests, Request(r)
        PROVE  misread \subseteq misread'
    BY <1>4 DEF Request, RestoreWhitelist, RestoreAdd, RestoreRecord, RestoreStamp,
                RestoreWhitelistAll, RestoreUnblock, DismissDelete, DismissFail, DismissRecord,
                RestoreStart, DismissStart, others, history
  <1>5. Restart \/ UNCHANGED misgrabVars => misread \subseteq misread'
    BY DEF Restart, history, misgrabVars, others
  <1>6. QED
    BY <1>1, <1>2, <1>3, <1>4, <1>5 DEF MisgrabNext

LEMMA ListMisgrabsPc ==
  ASSUME TypeInv, SweepListMisgrabs
  PROVE  sweep'.pc \in {"idle", "act"}
  <1> DEFINE unhandled == {i \in Recorded : row[i].verdict = "misgrab" /\ row[i].action = "none"}
  <1>1. CASE sweep' = IdleSweep
    BY <1>1 DEF IdleSweep
  <1>2. CASE sweep' = [sweep EXCEPT !.pc = "act", !.todo = unhandled]
    BY <1>2 DEF TypeInv, SweepTyped
  <1>3. QED
    BY <1>1, <1>2 DEF SweepListMisgrabs

LEMMA WhitelistedStays ==
  ASSUME TypeInv, [MisgrabNext]_misgrabVars, NEW h, Whitelisted(h)
  PROVE  Whitelisted(h)'
  <1>1. PICK i \in OfHash(h) : row[i].verdict = "whitelisted"
    BY DEF Whitelisted
  <1>2. i \in OfHash(h)' /\ i \in Grabs
    BY <1>1, OfHashGrows DEF OfHash, Recorded
  <1>3. row'[i].verdict = "whitelisted"
    BY <1>1, <1>2, VerdictsKeptByStep DEF VerdictsKept
  <1>4. QED
    BY <1>2, <1>3 DEF Whitelisted

\* A row whose release is whitelisted is judged a misgrab by a failing read only.
LEMMA SparedStays ==
  ASSUME TypeInv, [MisgrabNext]_misgrabVars, NEW i \in Grabs,
         row[i].verdict = "none" => Spared(i),
         row[i].state # "none" => Whitelisted(row[i].hash) /\ row[i].hash \notin misread'
  PROVE  row'[i].verdict = "none" => Spared(i)'
  <1> SUFFICES ASSUME row'[i].verdict = "none"
               PROVE  Spared(i)'
    OBVIOUS
  <1>1. row[i].verdict = "none"
    BY VerdictsKeptByStep DEF VerdictsKept
  <1>2. Spared(i)
    BY <1>1
  <1>3. row[i].state # "none" => \A v : Verdict(i, v) => v = "whitelisted"
    BY DEF Verdict
  <1>4. judge'[i] = judge[i] \/ judge'[i] # "misgrab"
    <2>1. ASSUME NEW k \in Grabs, Grab(k)
          PROVE  judge'[i] = judge[i] \/ judge'[i] # "misgrab"
      <3>1. CASE GrabRecord(k)
        BY <3>1 DEF GrabRecord, TypeInv, JudgesTyped
      <3>2. CASE JudgeStamp(k)
        BY <3>2 DEF JudgeStamp, TypeInv, JudgesTyped
      <3>3. CASE JudgeRead(k)
        <4>1. row[k].state # "none"
          BY <3>3 DEF JudgeRead, TypeInv, JudgesTyped, Recorded
        <4>2. CASE k = i
          BY <1>3, <3>3, <4>1, <4>2 DEF JudgeRead, TypeInv, JudgesTyped
        <4>3. CASE k # i
          BY <3>3, <4>3 DEF JudgeRead, TypeInv, JudgesTyped
        <4>4. QED
          BY <4>2, <4>3
      <3>4. CASE \E h \in Hashes, s \in Series : GrabAdd(k, h, s)
        BY <3>4 DEF GrabAdd
      <3>5. QED
        BY <2>1, <3>1, <3>2, <3>3, <3>4 DEF Grab
    <2>2. CASE Restart
      BY <2>2 DEF Restart
    <2>3. ASSUME NEW k \in Grabs, CancelGrab(k)
          PROVE  UNCHANGED judge
      BY <2>3 DEF CancelGrab, actors
    <2>4. CASE ImportTick
      BY <2>4 DEF ImportTick, TickList, TickVerify, TickStamp, TickImport
    <2>5. CASE Sweep
      BY <2>5 DEF Sweep, SweepList, SweepVerify, SweepStamp, SweepListMisgrabs, SweepAct,
                  SweepDelete, SweepFail, SweepRecord
    <2>6. ASSUME NEW r \in Requests, Request(r)
          PROVE  UNCHANGED judge
      BY <2>6 DEF Request, RestoreWhitelist, RestoreAdd, RestoreRecord, RestoreStamp,
                  RestoreWhitelistAll, RestoreUnblock, DismissDelete, DismissFail, DismissRecord,
                  RestoreStart, DismissStart
    <2>7. QED
      BY <2>1, <2>2, <2>3, <2>4, <2>5, <2>6 DEF MisgrabNext, misgrabVars, actors
  <1>5. ~(tick.pc = "stamp" /\ tick.cur = i /\ tick.verdict = "misgrab")'
    <2>1. CASE UNCHANGED tick
      BY <1>2, <2>1 DEF Spared
    <2>2. CASE tick' = IdleTick
      BY <2>2 DEF IdleTick
    <2>3. CASE ImportTick
      <3>1. CASE TickVerify
        <4>1. tick.cur = i => row[i].state # "none"
          BY <3>1 DEF TickVerify, TypeInv, TickTyped, Recorded
        <4>2. \/ tick' = IdleTick \/ tick' = [tick EXCEPT !.pc = "place"]
              \/ \E v \in Verdicts : /\ Verdict(tick.cur, v)
                                   /\ tick' = [tick EXCEPT !.pc = "stamp", !.verdict = v]
          BY <3>1 DEF TickVerify
        <4>3. CASE tick' = IdleTick \/ tick' = [tick EXCEPT !.pc = "place"]
          BY <4>3 DEF IdleTick, TypeInv, TickTyped
        <4>4. ASSUME NEW v \in Verdicts, Verdict(tick.cur, v),
                     tick' = [tick EXCEPT !.pc = "stamp", !.verdict = v]
              PROVE  ~(tick.pc = "stamp" /\ tick.cur = i /\ tick.verdict = "misgrab")'
          <5>1. tick'.cur = tick.cur /\ tick'.verdict = v
            BY <4>4 DEF TypeInv, TickTyped
          <5>2. tick.cur = i => v = "whitelisted"
            BY <1>3, <4>1, <4>4
          <5>3. QED
            BY <5>1, <5>2
        <4>5. QED
          BY <4>2, <4>3, <4>4
      <3>2. CASE \E k \in Grabs : TickList(k)
        BY <3>2 DEF TickList, IdleTick
      <3>3. CASE TickStamp \/ TickImport
        BY <3>3 DEF TickStamp, TickImport, IdleTick, TypeInv, TickTyped
      <3>4. QED
        BY <2>3, <3>1, <3>2, <3>3 DEF ImportTick
    <2>4. ASSUME NEW k \in Grabs, Grab(k) \/ CancelGrab(k)
          PROVE  UNCHANGED tick
      BY <2>4 DEF Grab, GrabAdd, GrabRecord, JudgeRead, JudgeStamp, CancelGrab, actors, others
    <2>5. Sweep => UNCHANGED tick
      BY DEF Sweep, SweepList, SweepVerify, SweepStamp, SweepListMisgrabs, SweepAct,
             SweepDelete, SweepFail, SweepRecord
    <2>6. ASSUME NEW r \in Requests, Request(r)
          PROVE  UNCHANGED tick
      BY <2>6 DEF Request, RestoreWhitelist, RestoreAdd, RestoreRecord, RestoreStamp,
                  RestoreWhitelistAll, RestoreUnblock, DismissDelete, DismissFail, DismissRecord,
                  RestoreStart, DismissStart
    <2>7. Restart => tick' = IdleTick
      BY DEF Restart
    <2>8. QED
      BY <2>1, <2>2, <2>3, <2>4, <2>5, <2>6, <2>7 DEF MisgrabNext, misgrabVars, actors
  <1>6. ~(sweep.pc = "stamp" /\ sweep.cur = i /\ sweep.verdict = "misgrab")'
    <2>1. CASE UNCHANGED sweep
      BY <1>2, <2>1 DEF Spared
    <2>2. CASE sweep'.pc # "stamp"
      BY <2>2
    <2>3. CASE Sweep
      <3>1. ASSUME NEW k \in Grabs, SweepVerify(k)
            PROVE  ~(sweep.pc = "stamp" /\ sweep.cur = i /\ sweep.verdict = "misgrab")'
        <4>1. k = i => row[i].state # "none"
          BY <3>1, SweepRow DEF SweepVerify, Recorded
        <4>2. \/ \E v \in Verdicts :
                   /\ Verdict(k, v)
                   /\ sweep' = [sweep EXCEPT !.pc = "stamp", !.cur = k, !.verdict = v]
              \/ sweep' = [sweep EXCEPT !.pc = "stamp", !.cur = k, !.verdict = "cleared"]
              \/ sweep' = [sweep EXCEPT !.todo = @ \ {k}] /\ sweep.pc = "verify"
          BY <3>1 DEF SweepVerify
        <4>3. CASE \/ sweep' = [sweep EXCEPT !.pc = "stamp", !.cur = k, !.verdict = "cleared"]
                   \/ sweep' = [sweep EXCEPT !.todo = @ \ {k}] /\ sweep.pc = "verify"
          BY <4>3 DEF TypeInv, SweepTyped
        <4>4. ASSUME NEW v \in Verdicts, Verdict(k, v),
                     sweep' = [sweep EXCEPT !.pc = "stamp", !.cur = k, !.verdict = v]
              PROVE  ~(sweep.pc = "stamp" /\ sweep.cur = i /\ sweep.verdict = "misgrab")'
          <5>1. sweep'.cur = k /\ sweep'.verdict = v
            BY <4>4 DEF TypeInv, SweepTyped
          <5>2. k = i => v = "whitelisted"
            BY <1>3, <4>1, <4>4
          <5>3. QED
            BY <5>1, <5>2
        <4>5. QED
          BY <4>2, <4>3, <4>4
      <3>2. CASE SweepList \/ SweepListMisgrabs \/ \E k \in Grabs : SweepAct(k)
        <4>1. CASE SweepList
          BY <4>1 DEF SweepList, IdleSweep
        <4>2. CASE SweepListMisgrabs
          BY <4>2, ListMisgrabsPc
        <4>3. CASE \E k \in Grabs : SweepAct(k)
          <5>1. PICK k \in Grabs : SweepAct(k)
            BY <4>3
          <5>2. sweep \in [pc : {"idle", "verify", "stamp", "act", "delete", "fail", "record"},
                           todo : SUBSET Recorded, cur : Grabs \cup {NoGrab},
                           verdict : Verdicts, action : Actions]
            BY DEF TypeInv, SweepTyped
          <5>3. \/ sweep' = [sweep EXCEPT !.pc = "delete", !.cur = k]
                \/ sweep' = [sweep EXCEPT !.pc = "record", !.cur = k, !.action = "flagged"]
            BY <5>1 DEF SweepAct
          <5>4. sweep'.pc # "stamp"
            <6>1. CASE sweep' = [sweep EXCEPT !.pc = "delete", !.cur = k]
              BY <5>2, <6>1
            <6>2. CASE sweep' = [sweep EXCEPT !.pc = "record", !.cur = k, !.action = "flagged"]
              BY <5>2, <6>2
            <6>3. QED
              BY <5>3, <6>1, <6>2
          <5>5. QED
            BY <5>4
        <4>4. QED
          BY <3>2, <4>1, <4>2, <4>3
      <3>3. CASE SweepStamp \/ SweepDelete
        BY <3>3 DEF SweepStamp, SweepDelete, TypeInv, SweepTyped
      <3>4. CASE SweepFail \/ SweepRecord
        <4>1. sweep' = NextMisgrab \/ sweep' = [sweep EXCEPT !.pc = "record"]
          BY <3>4 DEF SweepFail, SweepRecord
        <4>2. NextMisgrab.pc # "stamp"
          BY DEF NextMisgrab, IdleSweep, TypeInv, SweepTyped
        <4>3. QED
          BY <4>1, <4>2 DEF TypeInv, SweepTyped
      <3>5. QED
        BY <2>3, <3>1, <3>2, <3>3, <3>4 DEF Sweep
    <2>4. ASSUME NEW k \in Grabs, Grab(k) \/ CancelGrab(k)
          PROVE  UNCHANGED sweep
      BY <2>4 DEF Grab, GrabAdd, GrabRecord, JudgeRead, JudgeStamp, CancelGrab, actors, others
    <2>5. ImportTick => UNCHANGED sweep
      BY DEF ImportTick, TickList, TickVerify, TickStamp, TickImport
    <2>6. ASSUME NEW r \in Requests, Request(r)
          PROVE  UNCHANGED sweep
      BY <2>6 DEF Request, RestoreWhitelist, RestoreAdd, RestoreRecord, RestoreStamp,
                  RestoreWhitelistAll, RestoreUnblock, DismissDelete, DismissFail, DismissRecord,
                  RestoreStart, DismissStart
    <2>7. Restart => sweep'.pc # "stamp"
      BY DEF Restart, IdleSweep
    <2>8. QED
      BY <2>1, <2>2, <2>3, <2>4, <2>5, <2>6, <2>7 DEF MisgrabNext, misgrabVars, actors
  <1>7. QED
    BY <1>2, <1>4, <1>5, <1>6 DEF Spared

\* A restore is answered for a release that the statement whitelisted.
LEMMA RestoredGrows ==
  ASSUME TypeInv, [MisgrabNext]_misgrabVars
  PROVE  \/ restored' = restored
         \/ \E h, s : /\ row' = WhitelistedByHash(h, s)
                      /\ restored' = restored \cup {g \in {h} : Whitelisted(g)'}
  <1>1. ASSUME NEW r \in Requests, RestoreWhitelist(r) \/ RestoreWhitelistAll(r)
        PROVE  \/ restored' = restored
               \/ \E h, s : /\ row' = WhitelistedByHash(h, s)
                            /\ restored' = restored \cup {g \in {h} : Whitelisted(g)'}
    BY <1>1 DEF RestoreWhitelist, RestoreWhitelistAll
  <1>2. ASSUME NEW r \in Requests, Request(r), ~RestoreWhitelist(r), ~RestoreWhitelistAll(r)
        PROVE  restored' = restored
    BY <1>2 DEF Request, RestoreAdd, RestoreRecord, RestoreStamp, RestoreUnblock, DismissDelete,
                DismissFail, DismissRecord, RestoreStart, DismissStart, others, history
  <1>3. ASSUME NEW i \in Grabs, Grab(i) \/ CancelGrab(i)
        PROVE  restored' = restored
    BY <1>3 DEF Grab, GrabAdd, GrabRecord, JudgeRead, JudgeStamp, CancelGrab, others, history,
                record
  <1>4. ImportTick => restored' = restored
    BY DEF ImportTick, TickList, TickVerify, TickStamp, TickImport, others, history, record
  <1>5. Sweep => restored' = restored
    BY DEF Sweep, SweepList, SweepVerify, SweepStamp, SweepListMisgrabs, SweepAct,
           SweepDelete, SweepFail, SweepRecord, others, history, record
  <1>6. Restart \/ UNCHANGED misgrabVars => restored' = restored
    BY DEF Restart, history, misgrabVars, others
  <1>7. QED
    BY <1>1, <1>2, <1>3, <1>4, <1>5, <1>6 DEF MisgrabNext

\* A row that appears was nobody's business.
LEMMA BlankSpared ==
  ASSUME TypeInv, NEW i \in Grabs, row[i].state = "none"
  PROVE  Spared(i)
  BY SweepRow DEF TypeInv, JudgesTyped, TickTyped, SweepTyped, Recorded, Spared

LEMMA RestoredStandStep ==
  ASSUME TypeInv, RestoredStand, [MisgrabNext]_misgrabVars
  PROVE  RestoredStand'
  <1>1. ASSUME NEW h \in restored
        PROVE  /\ Whitelisted(h)'
               /\ h \notin misread' =>
                    \A i \in OfHash(h)' : row'[i].verdict = "none" => Spared(i)'
    <2>1. Whitelisted(h)'
      BY <1>1, WhitelistedStays DEF RestoredStand
    <2>2. ASSUME h \notin misread', NEW i \in OfHash(h)', row'[i].verdict = "none"
          PROVE  Spared(i)'
      <3>1. i \in Grabs /\ row'[i].hash = h
        BY <2>2 DEF OfHash, Recorded
      <3>2. CASE row[i].state = "none"
        BY <2>2, <3>1, <3>2, BlankSpared, SparedStays
      <3>3. CASE row[i].state # "none"
        <4>1. i \in Recorded /\ row[i].hash = h
          BY <3>1, <3>3, RowsStay DEF Recorded
        <4>2. Whitelisted(row[i].hash) /\ (row[i].verdict = "none" => Spared(i))
          BY <1>1, <2>2, <4>1, MisreadGrows DEF RestoredStand, OfHash
        <4>3. QED
          BY <2>2, <3>1, <4>1, <4>2, SparedStays
      <3>4. QED
        BY <3>2, <3>3
    <2>3. QED
      BY <2>1, <2>2
  <1>2. CASE restored' = restored
    BY <1>1, <1>2 DEF RestoredStand
  <1>3. ASSUME NEW h, NEW s, row' = WhitelistedByHash(h, s),
               restored' = restored \cup {g \in {h} : Whitelisted(g)'}
        PROVE  RestoredStand'
    <2>1. ASSUME NEW i \in OfHash(h)'
          PROVE  row'[i].verdict # "none"
      <3>1. Rewrites
        BY <1>3, WhitelistRewrites DEF TypeInv
      <3>2. i \in OfHash(h) /\ i \in Grabs
        BY <2>1, <3>1 DEF Rewrites, OfHash, Recorded
      <3>3. QED
        BY <1>3, <3>2, WhitelistEffect
    <2>2. QED
      BY <1>1, <1>3, <2>1 DEF RestoredStand
  <1>4. QED
    BY <1>2, <1>3, RestoredGrows

\* No step judges a row of a restored release a misgrab, but where the whitelist was misread.
LEMMA RestoredNotFlagged ==
  ASSUME TypeInv, RestoredStand, [MisgrabNext]_misgrabVars, NEW i \in Grabs,
         row[i].hash \in restored \ misread, row[i].verdict # "misgrab"
  PROVE  row'[i].verdict # "misgrab"
  <1>1. CASE VerdictsSame
    BY <1>1 DEF VerdictsSame
  <1>2. CASE Whitelists
    BY <1>2, WhitelistEffect DEF Whitelists
  <1>3. CASE Stamps
    <2>1. PICK k \in Recorded, v \in Verdicts :
            /\ row' = Stamped(k, v)
            /\ \/ v = judge[k] \/ v = "whitelisted"
               \/ tick.pc = "stamp" /\ tick.cur = k /\ v = tick.verdict
               \/ sweep.pc = "stamp" /\ sweep.cur = k /\ v = sweep.verdict
      BY <1>3, StampOf
    <2>2. row'[i].verdict = IF k = i /\ row[k].verdict = "none" THEN v ELSE row[i].verdict
      BY <2>1, StampEffect
    <2>3. CASE k = i /\ row[i].verdict = "none"
      <3>1. Spared(i)
        BY <2>3 DEF RestoredStand, OfHash
      <3>2. v # "misgrab"
        BY <2>1, <2>3, <3>1 DEF Spared
      <3>3. QED
        BY <2>2, <2>3, <3>2
    <2>4. CASE ~(k = i /\ row[i].verdict = "none")
      BY <2>2, <2>4
    <2>5. QED
      BY <2>3, <2>4
  <1>4. QED
    BY <1>1, <1>2, <1>3, VerdictSteps

\* "Ryokan stops treating it as a misgrab for good": once a restore is answered no row of its
\* release is judged a misgrab, but by a judge whose read of the whitelist failed.
THEOREM RestoredNeverFlagged == MisgrabSpec => NeverFlaggedAgain
  <1>1. MisgrabInit => RestoredStand
    BY DEF MisgrabInit, RestoredStand
  <1>2. MisgrabSpec => [](TypeInv /\ RestoredStand)
    BY <1>1, InitTypes, TypesPreserved, RestoredStandStep, PTL DEF MisgrabSpec
  <1>3. TypeInv /\ RestoredStand /\ [MisgrabNext]_misgrabVars
          => [\A i \in Grabs : row[i].hash \in restored \ misread /\ row[i].verdict # "misgrab"
                => row'[i].verdict # "misgrab"]_misgrabVars
    BY RestoredNotFlagged
  <1>4. QED
    BY <1>2, <1>3, PTL DEF MisgrabSpec, NeverFlaggedAgain

-------------------------------------------------------------------------------
(* Removed misgrabs *)

\* Once a row has ended it has ended.
Ended(i) == i \in Recorded /\ row[i].state \notin Live

\* ... in the next state; i is not primed
EndedNext(i) == i \in Recorded' /\ row'[i].state \notin Live

\* A removal is recorded for rows that have ended, and only a cancel says "removed".
RemovalsEnd ==
  /\ \A i \in Recorded : row[i].state = "removed" => row[i].hash \in cancelled
  /\ \A i \in Recorded : row[i].action \in Answers => Ended(i)
  /\ sweep.pc = "record" /\ sweep.action \in Answers => Ended(sweep.cur)
  /\ \A r \in Requests : req[r].pc \in {"set", "setNoDelete"} => Ended(req[r].row)

LEMMA RemovalsBlocked == TypeInv /\ RemovalsEnd => RemovedIsBlocked
  <1> SUFFICES ASSUME TypeInv, RemovalsEnd, NEW i \in Recorded,
                      row[i].action \in Answers, row[i].hash \notin cancelled,
                      \A j \in OfHash(row[i].hash) : row[j].state # "replaced"
               PROVE  Blocking(row[i].hash, row[i].series) # {}
    BY DEF RemovedIsBlocked
  <1>1. i \in OfHash(row[i].hash)
    BY DEF OfHash
  <1>2. row[i].state \in {"failed", "removed", "replaced"}
    BY DEF RemovalsEnd, Ended, TypeInv, RowsTyped, Row, States, Recorded
  <1>3. row[i].state = "failed"
    BY <1>1, <1>2 DEF RemovalsEnd
  <1>4. QED
    BY <1>1, <1>3 DEF Blocking

LEMMA CancelledGrows ==
  ASSUME TypeInv, [MisgrabNext]_misgrabVars
  PROVE  cancelled \subseteq cancelled'
  <1>1. ASSUME NEW i \in Grabs, Grab(i) \/ CancelGrab(i)
        PROVE  cancelled \subseteq cancelled'
    BY <1>1 DEF Grab, GrabAdd, GrabRecord, JudgeRead, JudgeStamp, CancelGrab, others, history,
                record
  <1>2. CASE ImportTick
    BY <1>2 DEF ImportTick, TickList, TickVerify, TickStamp, TickImport, others,
                history, record
  <1>3. CASE Sweep
    BY <1>3 DEF Sweep, SweepList, SweepVerify, SweepStamp, SweepListMisgrabs, SweepAct,
                SweepDelete, SweepFail, SweepRecord, others, history, record
  <1>4. ASSUME NEW r \in Requests, Request(r)
        PROVE  UNCHANGED cancelled
    BY <1>4 DEF Request, RestoreWhitelist, RestoreAdd, RestoreRecord, RestoreStamp,
                RestoreWhitelistAll, RestoreUnblock, DismissDelete, DismissFail, DismissRecord,
                RestoreStart, DismissStart, others, history
  <1>5. CASE Restart \/ UNCHANGED misgrabVars
    BY <1>5 DEF Restart, history, misgrabVars, others
  <1>6. QED
    BY <1>1, <1>2, <1>3, <1>4, <1>5 DEF MisgrabNext

LEMMA EndedStays ==
  ASSUME TypeInv, [MisgrabNext]_misgrabVars, NEW i, Ended(i)
  PROVE  EndedNext(i)
  BY RowsStay DEF Ended, EndedNext

\* A row that the failure of its hash has reached has ended.
LEMMA FailEnds ==
  ASSUME TypeInv, NEW i \in Recorded, row' = FailedByHash(row[i].hash)
  PROVE  EndedNext(i)
  <1>1. Rewrites
    BY FailRewrites DEF TypeInv
  <1>2. i \in Recorded' /\ i \in Grabs
    BY <1>1, CarryRewritten DEF Recorded
  <1>3. CASE row[i].state \in Live
    <2>1. i \in LiveOf(row[i].hash)
      BY <1>3 DEF LiveOf, OfHash
    <2>2. row'[i] = [row[i] EXCEPT !.state = "failed"]
      BY <1>2, <2>1 DEF FailedByHash
    <2>3. row'[i].state = "failed"
      BY <1>2, <2>2 DEF TypeInv, RowsTyped, Row
    <2>4. QED
      BY <1>2, <2>3 DEF EndedNext, Live
  <1>4. CASE row[i].state \notin Live
    BY <1>1, <1>2, <1>4 DEF Rewrites, EndedNext
  <1>5. QED
    BY <1>3, <1>4

\* Only a cancel writes "removed".
LEMMA RemovedByCancel ==
  ASSUME TypeInv, RemovalsEnd, [MisgrabNext]_misgrabVars, NEW i \in Recorded',
         row'[i].state = "removed"
  PROVE  row'[i].hash \in cancelled'
  <1>1. i \in Grabs
    BY DEF Recorded
  <1>2. CASE row[i].state = "removed"
    <2>1. i \in Recorded /\ row'[i].hash = row[i].hash
      BY <1>1, <1>2, RowsStay DEF Recorded
    <2>2. cancelled \subseteq cancelled'
      BY CancelledGrows
    <2>3. QED
      BY <1>2, <2>1, <2>2 DEF RemovalsEnd
  <1>3. CASE row[i].state # "removed"
    <2> RowsTyped
      BY DEF TypeInv
    <2>1. ~UNCHANGED row
      BY <1>3
    <2>2. ~Inserts
      <3>1. ASSUME Inserts
            PROVE  FALSE
        <4>1. PICK k \in Grabs, h \in Hashes, s \in Series :
                row' = WithGrab(k, h, s) /\ (LiveOf(h) = {} => row[k].state = "none")
          BY <3>1 DEF Inserts
        <4>2. row'[i].state \in {row[i].state, "pending"}
          <5>1. CASE LiveOf(h) = {}
            <6>1. [NoRow EXCEPT !.state = "pending", !.hash = h, !.series = s].state = "pending"
              BY BlankRow DEF Row
            <6>2. QED
              BY <1>1, <4>1, <5>1, <6>1 DEF WithGrab, RowsTyped
          <5>2. CASE LiveOf(h) # {} /\ GrabRow(k, h) # NoGrab
            BY <1>1, <4>1, <5>2 DEF WithGrab, RowsTyped, Row
          <5>3. CASE LiveOf(h) # {} /\ GrabRow(k, h) = NoGrab
            BY <4>1, <5>3 DEF WithGrab
          <5>4. QED
            BY <5>1, <5>2, <5>3
        <4>3. QED
          BY <1>3, <4>2
      <3>2. QED
        BY <3>1
    <2>3. ~Stamps
      BY <1>1, <1>3, StampOf DEF Stamped, RowsTyped, Row
    <2>4. ~Whitelists
      BY <1>1, <1>3 DEF Whitelists, WhitelistedByHash, RowsTyped, Row
    <2>5. ~Ends
      <3>1. \A h : row' # FailedByHash(h)
        BY <1>1, <1>3 DEF FailedByHash, RowsTyped, Row
      <3>2. \A h, s : row' # Unblocked(h, s)
        BY <1>1, <1>3 DEF Unblocked, RowsTyped, Row
      <3>3. QED
        BY <3>1, <3>2 DEF Ends
    <2>6. ~Imports /\ ~Records
      <3>1. ~Imports
        BY <1>1, <1>3 DEF Imports, RowsTyped, Row
      <3>2. ~Records
        BY <1>1, <1>3 DEF Records, Recorded, RowsTyped, Row
      <3>3. QED
        BY <3>1, <3>2
    <2>7. PICK k \in Grabs : CancelGrab(k)
      BY <2>1, <2>2, <2>3, <2>4, <2>5, <2>6, Statements DEF Statement
    <2>8. k = i
      BY <1>1, <1>3, <2>7 DEF CancelGrab, RowsTyped
    <2>9. row'[i].hash = row[i].hash /\ row[i].hash \in cancelled'
      BY <1>1, <2>7, <2>8 DEF CancelGrab, RowsTyped, Row
    <2>10. QED
      BY <2>9
  <1>4. QED
    BY <1>2, <1>3

\* An action other than the ones that are there is written for a row that has ended.
LEMMA AnswersEnd ==
  ASSUME TypeInv, RemovalsEnd, [MisgrabNext]_misgrabVars, NEW i \in Recorded',
         row'[i].action \in Answers
  PROVE  EndedNext(i)
  <1> RowsTyped /\ i \in Grabs
    BY DEF TypeInv, Recorded
  <1>1. CASE row[i].action \in Answers
    <2>1. i \in Recorded
      BY <1>1 DEF RowsTyped, NoRow, Recorded, Answers
    <2>2. QED
      BY <1>1, <2>1, EndedStays DEF RemovalsEnd
  <1>2. CASE row[i].action \notin Answers
    <2>1. Records
      <3>1. ~UNCHANGED row
        BY <1>2
      <3>2. ASSUME Inserts
            PROVE  FALSE
        <4>1. PICK k \in Grabs, h \in Hashes, s \in Series :
                row' = WithGrab(k, h, s) /\ (LiveOf(h) = {} => row[k].state = "none")
          BY <3>2 DEF Inserts
        <4>2. row'[i].action \in {row[i].action, "none"}
          <5>1. CASE LiveOf(h) = {}
            <6>1. [NoRow EXCEPT !.state = "pending", !.hash = h, !.series = s].action = NoRow.action
              BY BlankRow DEF Row
            <6>2. NoRow.action = "none"
              BY DEF NoRow
            <6>3. QED
              BY <4>1, <5>1, <6>1, <6>2 DEF WithGrab, RowsTyped
          <5>2. CASE LiveOf(h) # {} /\ GrabRow(k, h) # NoGrab
            BY <4>1, <5>2 DEF WithGrab, RowsTyped, Row
          <5>3. CASE LiveOf(h) # {} /\ GrabRow(k, h) = NoGrab
            BY <4>1, <5>3 DEF WithGrab
          <5>4. QED
            BY <5>1, <5>2, <5>3
        <4>3. QED
          BY <1>2, <4>2 DEF Answers
      <3>3. ~Stamps
        BY <1>2, StampOf DEF Stamped, RowsTyped, Row
      <3>4. ~Whitelists
        BY <1>2 DEF Whitelists, WhitelistedByHash, RowsTyped, Row
      <3>5. \A h : row' # FailedByHash(h)
        BY <1>2 DEF FailedByHash, RowsTyped, Row
      <3>6. \A h, s : row' # Unblocked(h, s)
        BY <1>2 DEF Unblocked, RowsTyped, Row
      <3>7. ~Imports /\ ~(\E k \in Grabs : CancelGrab(k))
        BY <1>2 DEF Imports, CancelGrab, RowsTyped, Row
      <3>8. QED
        BY <3>1, <3>2, <3>3, <3>4, <3>5, <3>6, <3>7, Statements DEF Statement, Ends
    <2>2. CASE SweepRecord /\ row' = [row EXCEPT ![sweep.cur].action = sweep.action]
      <3>1. i = sweep.cur
        BY <1>2, <2>2 DEF RowsTyped
      <3>2. sweep.pc = "record" /\ sweep.action \in Answers
        BY <2>2, <3>1 DEF SweepRecord, RowsTyped, Row
      <3>3. QED
        BY <3>1, <3>2, EndedStays DEF RemovalsEnd
    <2>3. ASSUME NEW r \in Requests, DismissRecord(r), NEW a,
                 row' = [row EXCEPT ![req[r].row].action = a]
          PROVE  EndedNext(i)
      <3>1. i = req[r].row
        BY <1>2, <2>3 DEF RowsTyped
      <3>2. QED
        BY <2>3, <3>1, EndedStays DEF DismissRecord, RemovalsEnd
    <2>4. QED
      BY <2>1, <2>2, <2>3 DEF Records
  <1>3. QED
    BY <1>1, <1>2

\* What the sweep and a request are about to record.
LEMMA SweepAnswersEnd ==
  ASSUME TypeInv, RemovalsEnd, [MisgrabNext]_misgrabVars,
         sweep'.pc = "record", sweep'.action \in Answers
  PROVE  EndedNext(sweep'.cur)
  <1>1. CASE UNCHANGED sweep
    <2>1. Ended(sweep.cur)
      BY <1>1 DEF RemovalsEnd
    <2>2. EndedNext(sweep.cur)
      BY <2>1, EndedStays
    <2>3. QED
      BY <1>1, <2>2
  <1>2. CASE Sweep
    <2> DEFINE Shape == [pc : {"idle", "verify", "stamp", "act", "delete", "fail", "record"},
                         todo : SUBSET Recorded, cur : Grabs \cup {NoGrab},
                         verdict : Verdicts, action : Actions]
    <2>1. sweep \in Shape
      BY DEF TypeInv, SweepTyped
    <2>2. CASE SweepFail
      <3>1. sweep' = [sweep EXCEPT !.pc = "record"] /\ row' = FailedByHash(row[sweep.cur].hash)
        <4>1. NextMisgrab.pc # "record"
          BY <2>1 DEF NextMisgrab, IdleSweep
        <4>2. QED
          BY <2>2, <4>1 DEF SweepFail
      <3>2. sweep'.cur = sweep.cur
        BY <2>1, <3>1
      <3>3. sweep.cur \in Recorded
        BY <2>2, SweepRow DEF SweepFail
      <3>4. EndedNext(sweep.cur)
        BY <3>1, <3>3, FailEnds
      <3>5. QED
        BY <3>2, <3>4
    <2>3. CASE SweepRecord
      BY <2>1, <2>3 DEF SweepRecord, NextMisgrab, IdleSweep
    <2>4. CASE SweepList
      BY <2>4 DEF SweepList, IdleSweep
    <2>5. CASE SweepListMisgrabs
      BY <2>5, ListMisgrabsPc
    <2>6. ASSUME NEW k \in Grabs, SweepVerify(k)
          PROVE  sweep'.pc # "record"
      <3>1. \/ \E v : sweep' = [sweep EXCEPT !.pc = "stamp", !.cur = k, !.verdict = v]
            \/ sweep' = [sweep EXCEPT !.todo = @ \ {k}] /\ sweep.pc = "verify"
        BY <2>6 DEF SweepVerify
      <3>2. QED
        BY <2>1, <3>1
    <2>7. ASSUME NEW k \in Grabs, SweepAct(k)
          PROVE  sweep'.pc # "record" \/ sweep'.action \notin Answers
      <3>1. \/ sweep' = [sweep EXCEPT !.pc = "delete", !.cur = k]
            \/ sweep' = [sweep EXCEPT !.pc = "record", !.cur = k, !.action = "flagged"]
        BY <2>7 DEF SweepAct
      <3>2. QED
        BY <2>1, <3>1 DEF Answers
    <2>8. CASE SweepStamp \/ SweepDelete
      BY <2>1, <2>8 DEF SweepStamp, SweepDelete
    <2>9. QED
      BY <1>2, <2>2, <2>3, <2>4, <2>5, <2>6, <2>7, <2>8 DEF Sweep
  <1>3. CASE sweep' = IdleSweep
    BY <1>3 DEF IdleSweep
  <1>4. Sweep \/ UNCHANGED sweep \/ sweep' = IdleSweep
    <2>1. ASSUME NEW k \in Grabs, Grab(k) \/ CancelGrab(k)
          PROVE  UNCHANGED sweep
      BY <2>1 DEF Grab, GrabAdd, GrabRecord, JudgeRead, JudgeStamp, CancelGrab, actors, others
    <2>2. ImportTick => UNCHANGED sweep
      BY DEF ImportTick, TickList, TickVerify, TickStamp, TickImport
    <2>3. ASSUME NEW r \in Requests, Request(r)
          PROVE  UNCHANGED sweep
      BY <2>3 DEF Request, RestoreWhitelist, RestoreAdd, RestoreRecord, RestoreStamp,
                  RestoreWhitelistAll, RestoreUnblock, DismissDelete, DismissFail, DismissRecord,
                  RestoreStart, DismissStart
    <2>4. QED
      BY <2>1, <2>2, <2>3 DEF MisgrabNext, Restart, misgrabVars, actors
  <1>5. QED
    BY <1>1, <1>2, <1>3, <1>4

LEMMA ReqAnswersEnd ==
  ASSUME TypeInv, RemovalsEnd, [MisgrabNext]_misgrabVars, NEW q \in Requests,
         req'[q].pc \in {"set", "setNoDelete"}
  PROVE  EndedNext(req'[q].row)
  <1> DEFINE Sets == {"set", "setNoDelete"}
  <1>0. req \in [Requests -> Handler]
    BY DEF TypeInv, ReqTyped
  <1>1. CASE req'[q] = req[q]
    <2>1. Ended(req[q].row)
      BY <1>1 DEF RemovalsEnd
    <2>2. EndedNext(req[q].row)
      BY <2>1, EndedStays
    <2>3. QED
      BY <1>1, <2>2
  <1>2. ASSUME NEW r \in Requests, Request(r), req'[q] # req[q]
        PROVE  EndedNext(req'[q].row)
    <2>1. CASE DismissFail(r)
      <3>1. /\ row' = FailedByHash(row[req[r].row].hash)
            /\ req' = [req EXCEPT ![r].pc = IF @ = "removed" THEN "set" ELSE "setNoDelete"]
            /\ r = q
        BY <1>0, <1>2, <2>1 DEF DismissFail, IdleReq
      <3>2. req[r].row \in Recorded
        BY <2>1, ReqRow DEF DismissFail, Answers
      <3>3. req'[q].row = req[r].row
        BY <1>0, <3>1 DEF Handler
      <3>4. EndedNext(req[r].row)
        BY <3>1, <3>2, FailEnds
      <3>5. QED
        BY <3>3, <3>4
    <2>2. CASE ~DismissFail(r)
      <3>1. \E x \in Handler : x.pc \notin Sets /\ req' = [req EXCEPT ![r] = x]
        <4>1. CASE req' = [req EXCEPT ![r] = IdleReq]
          BY <4>1, BlankRow DEF IdleReq, Handler
        <4>2. ASSUME NEW pc \in {"whitelist", "record", "whitelistAll", "unblock", "removed",
                                 "removed_no_delete"},
                     req' = [req EXCEPT ![r].pc = pc]
              PROVE  \E x \in Handler : x.pc \notin Sets /\ req' = [req EXCEPT ![r] = x]
          <5>1. [req[r] EXCEPT !.pc = pc] \in Handler /\ [req[r] EXCEPT !.pc = pc].pc \notin Sets
            BY <1>0 DEF Handler
          <5>2. req' = [req EXCEPT ![r] = [req[r] EXCEPT !.pc = pc]]
            BY <1>0, <4>2
          <5>3. QED
            BY <5>1, <5>2
        <4>3. ASSUME NEW i \in Grabs, NEW pc \in {"add", "whitelist", "delete"},
                     req' = [req EXCEPT ![r] = [IdleReq EXCEPT !.pc = pc, !.row = i,
                                                               !.series = row[i].series]]
              PROVE  \E x \in Handler : x.pc \notin Sets /\ req' = [req EXCEPT ![r] = x]
          BY <4>3, RowTypes DEF IdleReq, Handler
        <4>4. ASSUME RestoreRecord(r)
              PROVE  \E x \in Handler : x.pc \notin Sets /\ req' = [req EXCEPT ![r] = x]
          <5>1. PICK n \in Grabs \cup {NoGrab} :
                  \/ req' = [req EXCEPT ![r].pc = "whitelist"]
                  \/ req' = [req EXCEPT ![r].pc = "stamp", ![r].new = n]
            BY <4>4 DEF RestoreRecord, GrabRow, LiveOf, OfHash, Recorded
          <5>2. CASE req' = [req EXCEPT ![r].pc = "whitelist"]
            BY <4>2, <5>2
          <5>3. CASE req' = [req EXCEPT ![r].pc = "stamp", ![r].new = n]
            <6> DEFINE x == [req[r] EXCEPT !.pc = "stamp", !.new = n]
            <6>1. x \in Handler /\ x.pc \notin Sets
              BY <1>0 DEF Handler
            <6>2. req' = [req EXCEPT ![r] = x]
              BY <1>0, <5>3
            <6>3. QED
              BY <6>1, <6>2
          <5>4. QED
            BY <5>1, <5>2, <5>3
        <4>5. CASE RestoreWhitelist(r) \/ RestoreAdd(r) \/ RestoreStamp(r) \/ RestoreWhitelistAll(r)
                     \/ RestoreUnblock(r) \/ DismissRecord(r)
          BY <4>1, <4>2, <4>5 DEF RestoreWhitelist, RestoreAdd, RestoreStamp, RestoreWhitelistAll,
                                  RestoreUnblock, DismissRecord
        <4>6. CASE DismissDelete(r)
          BY <4>2, <4>6 DEF DismissDelete, Answers
        <4>7. CASE \E i \in Grabs : RestoreStart(r, i) \/ DismissStart(r, i)
          BY <4>3, <4>7 DEF RestoreStart, DismissStart, AskFor
        <4>8. QED
          BY <1>2, <2>2, <4>4, <4>5, <4>6, <4>7 DEF Request
      <3>2. QED
        BY <1>0, <1>2, <3>1
    <2>3. QED
      BY <2>1, <2>2
  <1>3. CASE Restart
    BY <1>3 DEF Restart, IdleReq
  <1>4. (\E r \in Requests : Request(r)) \/ Restart \/ req' = req
    <2>1. ASSUME NEW k \in Grabs, Grab(k) \/ CancelGrab(k)
          PROVE  UNCHANGED req
      BY <2>1 DEF Grab, GrabAdd, GrabRecord, JudgeRead, JudgeStamp, CancelGrab, actors, others
    <2>2. ImportTick => UNCHANGED req
      BY DEF ImportTick, TickList, TickVerify, TickStamp, TickImport
    <2>3. Sweep => UNCHANGED req
      BY DEF Sweep, SweepList, SweepVerify, SweepStamp, SweepListMisgrabs, SweepAct,
             SweepDelete, SweepFail, SweepRecord
    <2>4. QED
      BY <2>1, <2>2, <2>3 DEF MisgrabNext, misgrabVars, actors
  <1>5. QED
    BY <1>1, <1>2, <1>3, <1>4

LEMMA RemovalsEndStep ==
  ASSUME TypeInv, RemovalsEnd, [MisgrabNext]_misgrabVars
  PROVE  RemovalsEnd'
  BY RemovedByCancel, AnswersEnd, SweepAnswersEnd, ReqAnswersEnd DEF RemovalsEnd, Ended, EndedNext

\* A misgrab that was removed, by the sweep or by Dismiss, is on the blocklist of its series
\* as long as nobody restores it.
THEOREM RemovedMisgrabsBlocked == MisgrabSpec => []RemovedIsBlocked
  <1>1. MisgrabInit => RemovalsEnd
    BY DEF MisgrabInit, RemovalsEnd, Recorded, NoRow, IdleSweep, IdleReq
  <1>2. MisgrabSpec => [](TypeInv /\ RemovalsEnd)
    BY <1>1, InitTypes, TypesPreserved, RemovalsEndStep, PTL DEF MisgrabSpec
  <1>3. QED
    BY <1>2, RemovalsBlocked, PTL

===============================================================================
