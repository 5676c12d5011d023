--------------------------- MODULE ListSyncProofs ---------------------------
(* For any titles, accounts and plans: the state of ListSync is well-formed,    *)
(* a sync respects pins and exclusions, and nothing slips behind the cursor.    *)
EXTENDS ListSync, TLAPS

Steps == {"idle", "fetch", "details", "load", "merge", "read", "create", "stamp",
          "mode", "removals", "removing", "cursor"}

SyncState ==
  [pc : Steps, account : Accounts \cup {0}, full : BOOLEAN, pass : 1..2,
   seen : SUBSET Titles, shifted : BOOLEAN,
   entries : [Titles -> Listings], details : SUBSET Titles, out : SUBSET Titles,
   todo : SUBSET Titles, cur : Titles \cup {NoTitle},
   row : [pinned : BOOLEAN, mode : Modes, new : BOOLEAN],
   of : Titles \cup {NoTitle}, mode : Modes \cup {"read"},
   lost : SUBSET Titles, edited : SUBSET Titles, settled : SUBSET Titles,
   stay : [Titles -> {"pinned", "free", "changed"}], barred : SUBSET Titles]

Rows == Modes \cup {"missing"}
Series == [in : BOOLEAN, mode : Modes, rows : Rows, pinned : BOOLEAN, from : {0, account.id}]

AtEntry == {"read", "create", "stamp", "mode"}

\* a sync is of an account that was linked, and while there is a cursor of the linked one
SyncsAnAccount ==
  sync.pc # "idle" =>
    /\ sync.account \in Accounts /\ sync.account <= account.last
    /\ account.cursor => sync.account = account.id
    /\ ~sync.full /\ sync.account = account.id => account.cursor

\* SyncTypeOK by who writes which part
RowsTyped ==
  /\ account \in [id : Accounts \cup {0}, last : Accounts, cursor : BOOLEAN]
  /\ account.id \in {0, account.last}
  /\ account.cursor => account.id # 0
  /\ lib \in [Titles -> Series]

ListsTyped ==
  /\ weekly \in BOOLEAN
  /\ list \in [Accounts -> [Titles -> Listings]]
  /\ fresh \in [Accounts -> SUBSET Titles]
  /\ excluded \subseteq Titles /\ adding \subseteq Titles /\ leaving \subseteq Titles
  /\ owes \subseteq Titles /\ unread \subseteq Titles

DerivesTyped ==
  /\ deriving \in [Titles -> Modes \cup {"no", "read"}] /\ torn \subseteq Titles
  /\ \A t \in Titles : deriving[t] # "no" => lib[t].in

SyncTyped ==
  /\ sync \in SyncState /\ (sync.pc \in AtEntry <=> sync.cur # NoTitle)
  /\ sync.of # NoTitle => sync.pc \in {"merge", "removing"}

CountersTyped ==
  syncPlan \in SyncPlans /\ acts \in 0..syncPlan.acts /\ syncFaults \in 0..syncPlan.atMost

TypeInv == RowsTyped /\ ListsTyped /\ DerivesTyped /\ SyncTyped /\ CountersTyped /\ SyncsAnAccount

-------------------------------------------------------------------------------
(* Data *)

LEMMA Names ==
  /\ Fallback \subseteq Titles /\ NoTitle \notin Titles /\ MaxAccounts \in Nat \ {0}
  /\ 1 \in Accounts /\ 0 \notin Accounts
  /\ \A p \in SyncPlans : p \in SyncPlan
  /\ FallbackOf(syncPlan.mal) \subseteq Titles
  BY SyncAssumptions DEF Accounts, FallbackOf

LEMMA ModesKnown == \A s : ModeFor(s) \in Modes
  BY DEF ModeFor, Modes

Stays == [Titles -> {"pinned", "free", "changed"}]

LEMMA FieldsTyped ==
  \A s \in SyncState :
    /\ \A x \in SUBSET Titles : /\ [s EXCEPT !.settled = x] \in SyncState /\ [s EXCEPT !.barred = x] \in SyncState
                               /\ [s EXCEPT !.lost = x] \in SyncState /\ [s EXCEPT !.edited = x] \in SyncState
    /\ \A y \in Stays : [s EXCEPT !.stay = y] \in SyncState
    /\ \A z \in BOOLEAN : [s EXCEPT !.shifted = z] \in SyncState
  <1> TAKE s \in SyncState
  <1>1. \A x \in SUBSET Titles : /\ [s EXCEPT !.settled = x] \in SyncState /\ [s EXCEPT !.barred = x] \in SyncState
    BY DEF SyncState
  <1>2. \A x \in SUBSET Titles : /\ [s EXCEPT !.lost = x] \in SyncState /\ [s EXCEPT !.edited = x] \in SyncState
    BY DEF SyncState
  <1>3. \A y \in Stays : [s EXCEPT !.stay = y] \in SyncState
    BY DEF SyncState, Stays
  <1>4. \A z \in BOOLEAN : [s EXCEPT !.shifted = z] \in SyncState
    BY DEF SyncState
  <1>5. QED
    BY <1>1, <1>2, <1>3, <1>4

LEMMA IdleTyped == IdleSync \in SyncState
  BY DEF SyncState, Steps, IdleSync, NoRead, Listings, Statuses, Modes

LEMMA IdleFields ==
  /\ IdleSync.pc = "idle" /\ IdleSync.cur = NoTitle
  /\ IdleSync.stay = [t \in Titles |-> "changed"] /\ IdleSync.barred = {}
  /\ IdleSync.edited = {} /\ IdleSync.settled = {} /\ IdleSync.pass = 1
  /\ IdleSync.of = NoTitle /\ IdleSync.mode = "read" /\ IdleSync.seen = {}
  /\ IdleSync.entries = [t \in Titles |-> "absent"] /\ IdleSync.shifted = FALSE
  BY DEF IdleSync

\* every step that counts a fault or an act
LEMMA CountsUp ==
  ASSUME CountersTyped, NEW f, NEW o
  PROVE  /\ SyncFault(f) => syncFaults' \in 0..syncPlan.atMost
         /\ Act(o) => acts' \in 0..syncPlan.acts
  <1>1. syncPlan \in SyncPlan
    BY Names DEF CountersTyped
  <1>2. syncPlan.acts \in Nat /\ syncPlan.atMost \in Nat
    BY <1>1 DEF SyncPlan
  <1>3. acts \in 0..syncPlan.acts
    BY DEF CountersTyped
  <1>4. syncFaults \in 0..syncPlan.atMost
    BY DEF CountersTyped
  <1>5. SyncFault(f) => syncFaults' \in 0..syncPlan.atMost
    <2>1. SyncFault(f) => syncFaults < syncPlan.atMost /\ syncFaults' = syncFaults + 1
      BY DEF SyncFault
    <2>2. QED
      BY <1>2, <1>4, <2>1
  <1>6. Act(o) => acts' \in 0..syncPlan.acts
    <2>1. Act(o) => acts < syncPlan.acts /\ acts' = acts + 1
      BY DEF Act
    <2>2. QED
      BY <1>2, <1>3, <2>1
  <1>7. QED
    BY <1>5, <1>6

-------------------------------------------------------------------------------
(* Types *)

LEMMA RowsStayTyped ==
  ASSUME TypeInv, [SyncNext]_syncVars
  PROVE  RowsTyped'
  <1>1. RowsTyped /\ SyncTyped
    BY DEF TypeInv
  <1>2. ASSUME UNCHANGED account, \A t \in Titles : lib'[t] \in Series,
               lib' \in [Titles -> Series]
        PROVE  RowsTyped'
    BY <1>1, <1>2 DEF RowsTyped, Series
  <1>3. ASSUME UNCHANGED <<account, lib>>
        PROVE  RowsTyped'
    BY <1>1, <1>3 DEF RowsTyped, Series
  <1>4. sync.pc \in AtEntry => sync.cur \in Titles
    BY <1>1, Names DEF SyncTyped, SyncState
  <1>5. NewSeries \in Series /\ NoSeries \in Series
    BY DEF NewSeries, NoSeries, Series, Modes, Rows
  <1>6. ASSUME NEW t \in Titles, MergeEntry(t) \/ RemovalApply(t)
        PROVE  RowsTyped'
    <2>1. UNCHANGED account
      BY <1>6 DEF MergeEntry, RemovalApply, userVars, accountVars
    <2>2. UNCHANGED lib \/ lib' = [lib EXCEPT ![t].mode = "none"]
      BY <1>6 DEF MergeEntry, RemovalApply, userVars
    <2>3. lib' \in [Titles -> Series]
      BY <1>1, <2>2 DEF RowsTyped, Series, Modes
    <2>4. QED
      BY <1>2, <2>1, <2>3
  <1>7. CASE MergeCreate
    <2>1. UNCHANGED account /\ sync.cur \in Titles
      BY <1>4, <1>7 DEF MergeCreate, accountVars, AtEntry
    <2>2. UNCHANGED lib \/ lib' = [lib EXCEPT ![sync.cur] = NewSeries]
      BY <1>7 DEF MergeCreate
    <2>3. lib' \in [Titles -> Series]
      BY <1>1, <1>5, <2>1, <2>2 DEF RowsTyped
    <2>4. QED
      BY <1>2, <2>1, <2>3
  <1>8. CASE MergeStamp
    <2>1. UNCHANGED account /\ sync.cur \in Titles
      BY <1>4, <1>8 DEF MergeStamp, accountVars, AtEntry
    <2>2. UNCHANGED lib \/ lib' = [lib EXCEPT ![sync.cur].from = account.id]
      BY <1>8 DEF MergeStamp
    <2>3. lib' \in [Titles -> Series]
      BY <1>1, <2>1, <2>2 DEF RowsTyped, Series
    <2>4. QED
      BY <1>2, <2>1, <2>3
  <1>9. CASE MergeMode
    <2>1. UNCHANGED account /\ sync.cur \in Titles
      BY <1>4, <1>9 DEF MergeMode, accountVars, AtEntry
    <2>2. UNCHANGED lib \/ lib' = [lib EXCEPT ![sync.cur].mode = ModeFor(sync.entries[sync.cur])]
      BY <1>9 DEF MergeMode
    <2>3. lib' \in [Titles -> Series]
      BY <1>1, <2>1, <2>2, ModesKnown DEF RowsTyped, Series
    <2>4. QED
      BY <1>2, <2>1, <2>3
  <1>10. CASE SyncStamp
    <2>1. UNCHANGED lib /\ (UNCHANGED account \/ (account.id = sync.account /\ account' = [account EXCEPT !.cursor = TRUE]))
      BY <1>10 DEF SyncStamp
    <2>2. sync.pc # "idle" /\ sync.account # 0
      BY <1>10, Names DEF SyncStamp, TypeInv, SyncsAnAccount
    <2>3. QED
      BY <1>1, <2>1, <2>2 DEF RowsTyped, Series
  <1>11. ASSUME NEW t \in Titles, NEW mode \in Modes, Pin(t, mode)
         PROVE  RowsTyped'
    <2>1. UNCHANGED account /\ lib' = [lib EXCEPT ![t].mode = mode, ![t].pinned = TRUE]
      BY <1>11 DEF Pin, accountVars
    <2>2. lib' \in [Titles -> Series]
      BY <1>1, <2>1 DEF RowsTyped, Series
    <2>4. QED
      BY <1>2, <2>1, <2>2
  <1>12. ASSUME NEW t \in Titles, Unpin(t) \/ AddSeries(t) \/ AllowAgain(t)
                \/ \E keepOff \in BOOLEAN : RemoveSeries(t, keepOff)
         PROVE  RowsTyped'
    <2>1. UNCHANGED account
      BY <1>12 DEF Unpin, AddSeries, AllowAgain, RemoveSeries, accountVars
    <2>2. \/ UNCHANGED lib \/ lib' = [lib EXCEPT ![t].pinned = FALSE]
          \/ lib' = [lib EXCEPT ![t] = NewSeries] \/ lib' = [lib EXCEPT ![t] = NoSeries]
      BY <1>12 DEF Unpin, AddSeries, AllowAgain, RemoveSeries
    <2>3. lib' \in [Titles -> Series]
      <3>1. CASE lib' = [lib EXCEPT ![t].pinned = FALSE]
        BY <1>1, <3>1 DEF RowsTyped, Series
      <3>2. QED
        BY <1>1, <1>5, <2>2, <3>1 DEF RowsTyped
    <2>4. QED
      BY <1>2, <2>1, <2>3
  <1>13. ASSUME NEW entries, Link(entries)
         PROVE  RowsTyped'
    <2>1. /\ UNCHANGED lib /\ account.id = 0 /\ account.last < MaxAccounts
          /\ account' = [id |-> account.last + 1, last |-> account.last + 1, cursor |-> FALSE]
      BY <1>13 DEF Link
    <2>2. account.last \in Accounts
      BY <1>1 DEF RowsTyped
    <2>3. account.last + 1 \in Accounts
      BY <2>1, <2>2, Names DEF Accounts
    <2>4. lib \in [Titles -> [in : BOOLEAN, mode : Modes, rows : Rows, pinned : BOOLEAN, from : {0}]]
      BY <1>1, <2>1 DEF RowsTyped, Series
    <2>5. account'.id = account.last + 1 /\ account'.last = account.last + 1 /\ ~account'.cursor
      BY <2>1
    <2>6. lib' \in [Titles -> [in : BOOLEAN, mode : Modes, rows : Rows, pinned : BOOLEAN, from : {0, account'.id}]]
      BY <2>1, <2>4
    <2>7. account' \in [id : Accounts \cup {0}, last : Accounts, cursor : BOOLEAN]
      BY <2>1, <2>3
    <2>8. QED
      BY <2>5, <2>6, <2>7 DEF RowsTyped, Series
  <1>14. CASE Unlink
    <2>1. account' = [account EXCEPT !.id = 0, !.cursor = FALSE]
      BY <1>14 DEF Unlink
    <2>2. lib' = [t \in Titles |-> IF lib[t].from = account.id THEN [lib[t] EXCEPT !.from = 0] ELSE lib[t]]
      BY <1>14 DEF Unlink
    <2>3. account' \in [id : Accounts \cup {0}, last : Accounts, cursor : BOOLEAN] /\ account'.id = 0 /\ ~account'.cursor
      BY <1>1, <2>1 DEF RowsTyped
    <2>4. lib' \in [Titles -> [in : BOOLEAN, mode : Modes, rows : Rows, pinned : BOOLEAN, from : {0, account'.id}]]
      BY <1>1, <2>2, <2>3 DEF RowsTyped, Series
    <2>5. QED
      BY <2>3, <2>4 DEF RowsTyped, Series
  <1>15. CASE UNCHANGED <<account, lib>>
    BY <1>3, <1>15
  <1>20. ASSUME NEW t, NEW rows \in Rows, t \in Titles, UNCHANGED account, lib' = [lib EXCEPT ![t].rows = rows]
         PROVE  RowsTyped'
    <2>1. lib' \in [Titles -> Series]
      BY <1>1, <1>20 DEF RowsTyped, Series
    <2>2. QED
      BY <1>2, <1>20, <2>1
  <1>21. CASE SyncRows
    <2>1. UNCHANGED account /\ sync.of \in Titles /\ sync.mode \in Rows
      BY <1>1, <1>21 DEF SyncRows, accountVars, SyncTyped, SyncState, Rows
    <2>2. UNCHANGED lib \/ lib' = [lib EXCEPT ![sync.of].rows = sync.mode]
      BY <1>21 DEF SyncRows
    <2>3. QED
      BY <1>3, <1>20, <2>1, <2>2
  <1>22. ASSUME NEW t \in Titles, DeriveWrite(t)
         PROVE  RowsTyped'
    <2>1. UNCHANGED account
      BY <1>22 DEF DeriveWrite, accountVars
    <2>2. UNCHANGED lib \/ (lib' = [lib EXCEPT ![t].rows = deriving[t]] /\ deriving[t] # "read" /\ deriving[t] # "no")
      BY <1>22 DEF DeriveWrite
    <2>3. deriving[t] \in Modes \cup {"no", "read"}
      BY DEF TypeInv, DerivesTyped
    <2>4. CASE lib' = [lib EXCEPT ![t].rows = deriving[t]] /\ deriving[t] \in Rows
      BY <1>20, <2>1, <2>4
    <2>5. QED
      BY <1>3, <2>1, <2>2, <2>3, <2>4 DEF Rows
  <1>16. ASSUME NEW t \in Titles, DropExclusion(t) \/ RecordExclusion(t) \/ DeriveRead(t)
                \/ SyncPage(t) \/ \E status \in Listings : Edit(t, status)
         PROVE  UNCHANGED <<account, lib>>
    BY <1>16 DEF DropExclusion, RecordExclusion, DeriveRead, SyncPage, Edit, userVars, accountVars
  <1>17. SyncTick \/ SyncNow \/ SyncFetch \/ SyncDrained \/ SyncRefreshToken \/ SyncDerive \/ SyncDetails \/ SyncLoad \/ MergeRead \/ MergeDone
           \/ SyncRemovals \/ RemovalsDone \/ WeekPasses \/ SyncRestart \/ UNCHANGED syncVars
         => UNCHANGED <<account, lib>>
    BY DEF SyncTick, SyncNow, SyncStart, SyncFetch, SyncDrained, SyncRefreshToken, SyncDerive, SyncDetails,
      SyncLoad, MergeRead, MergeDone, SyncRemovals, RemovalsDone, WeekPasses, SyncRestart, syncVars, userVars, accountVars
  <1>18. syncPlan.titles \subseteq Titles
    BY Names DEF TypeInv, CountersTyped, SyncPlan
  <1>19. QED
    BY <1>6, <1>7, <1>8, <1>9, <1>10, <1>11, <1>12, <1>13, <1>14, <1>15, <1>16, <1>17, <1>18,
      <1>21, <1>22
    DEF SyncNext, SyncStep, UserStep, RequestStep

LEMMA ListsStayTyped ==
  ASSUME TypeInv, [SyncNext]_syncVars
  PROVE  ListsTyped'
  <1>1. RowsTyped /\ ListsTyped /\ SyncTyped
    BY DEF TypeInv
  <1>2. sync.cur \in Titles \cup {NoTitle} /\ sync.edited \in SUBSET Titles /\ sync.settled \in SUBSET Titles
    BY <1>1 DEF SyncTyped, SyncState
  <1>3. sync.pc \in AtEntry => sync.cur \in Titles
    BY <1>1, <1>2, Names DEF SyncTyped
  <1>4. syncPlan.titles \subseteq Titles
    BY Names DEF TypeInv, CountersTyped, SyncPlan
  <1>5. CASE MergeRead \/ MergeCreate \/ MergeMode
    <2>1. sync.cur \in Titles
      BY <1>3, <1>5 DEF MergeRead, MergeCreate, MergeMode, AtEntry
    <2>2. UNCHANGED <<weekly, list, fresh, excluded, adding, leaving, unread>>
      BY <1>5 DEF MergeRead, MergeCreate, MergeMode, accountVars, requestVars, userVars
    <2>3. UNCHANGED owes \/ owes' = owes \cup {sync.cur}
      BY <1>5 DEF MergeRead, MergeCreate, MergeMode, EntryFails
    <2>4. QED
      BY <1>1, <2>1, <2>2, <2>3 DEF ListsTyped
  <1>15. CASE SyncDrained \/ SyncDerive \/ SyncRows
    <2>1. sync.of \in Titles \cup {NoTitle}
      BY <1>1 DEF SyncTyped, SyncState
    <2>2. UNCHANGED <<weekly, list, fresh, excluded, adding, leaving, unread>>
      BY <1>15 DEF SyncDrained, SyncDerive, SyncRows, accountVars, requestVars, userVars
    <2>3. \/ UNCHANGED owes \/ owes' = owes \cup {t \in Undrained : Kept(sync.full, t)}
          \/ owes' = owes \cup {sync.of} /\ sync.of # NoTitle
      BY <1>15 DEF SyncDrained, SyncDerive, SyncRows, DeriveFails
    <2>4. {t \in Undrained : Kept(sync.full, t)} \subseteq Titles
      BY DEF Undrained
    <2>5. QED
      BY <1>1, <2>1, <2>2, <2>3, <2>4 DEF ListsTyped
  <1>6. CASE SyncStamp
    <2>1. sync.account \in Accounts
      BY <1>6 DEF TypeInv, SyncsAnAccount, SyncStamp
    <2>2. UNCHANGED <<list, excluded, adding, leaving>>
      BY <1>6 DEF SyncStamp, requestVars
    <2>3. /\ weekly' = weekly \/ weekly' = (weekly /\ ~sync.full)
          /\ fresh' = fresh \/ fresh' = [fresh EXCEPT ![sync.account] = sync.edited]
          /\ owes' = owes \/ owes' = owes \ sync.settled
          /\ unread' = unread \/ unread' = sync.edited
      BY <1>6 DEF SyncStamp
    <2>4. sync.full \in BOOLEAN
      BY <1>1 DEF SyncTyped, SyncState
    <2>5. weekly' \in BOOLEAN
      BY <1>1, <2>3, <2>4 DEF ListsTyped
    <2>6. fresh' \in [Accounts -> SUBSET Titles]
      BY <1>1, <1>2, <2>1, <2>3 DEF ListsTyped
    <2>7. owes' \subseteq Titles /\ unread' \subseteq Titles
      BY <1>1, <1>2, <2>3 DEF ListsTyped
    <2>8. QED
      BY <1>1, <2>2, <2>5, <2>6, <2>7 DEF ListsTyped
  <1>7. ASSUME NEW t \in Titles, NEW status \in Listings, Edit(t, status)
        PROVE  ListsTyped'
    <2>1. account.id \in Accounts
      BY <1>1, <1>7 DEF Edit, RowsTyped
    <2>2. list' \in [Accounts -> [Titles -> Listings]]
      BY <1>1, <1>7, <2>1 DEF Edit, ListsTyped
    <2>3. fresh' \in [Accounts -> SUBSET Titles]
      BY <1>1, <1>7, <2>1 DEF Edit, ListsTyped
    <2>4. UNCHANGED <<weekly, excluded, adding, leaving, owes>> /\ unread' = unread \cup {t}
      BY <1>7 DEF Edit, requestVars
    <2>5. QED
      BY <1>1, <2>2, <2>3, <2>4 DEF ListsTyped
  <1>8. ASSUME NEW t \in Titles,
               \/ DropExclusion(t) \/ RecordExclusion(t) \/ AddSeries(t) \/ AllowAgain(t) \/ Unpin(t)
               \/ DeriveRead(t) \/ DeriveWrite(t)
               \/ \E keepOff \in BOOLEAN : RemoveSeries(t, keepOff)
               \/ \E mode \in Modes : Pin(t, mode)
        PROVE  ListsTyped'
    <2>1. UNCHANGED <<weekly, list, fresh, unread>>
      BY <1>8 DEF DropExclusion, RecordExclusion, AddSeries, AllowAgain, Unpin, RemoveSeries, Pin, DeriveRead, DeriveWrite, accountVars, pastVars
    <2>2. /\ excluded' \subseteq excluded \cup {t} /\ adding' \subseteq adding \cup {t}
          /\ leaving' \subseteq leaving \cup {t} /\ owes' \subseteq owes \cup {t}
      BY <1>8 DEF DropExclusion, RecordExclusion, AddSeries, AllowAgain, Unpin, RemoveSeries, Pin, DeriveRead, DeriveWrite, requestVars, pastVars
    <2>3. QED
      BY <1>1, <2>1, <2>2 DEF ListsTyped
  <1>9. ASSUME NEW entries \in Entries, Link(entries)
        PROVE  ListsTyped'
    <2>1. account.last < MaxAccounts /\ account.last \in Accounts
      BY <1>1, <1>9 DEF Link, RowsTyped
    <2>2. account.last + 1 \in Accounts
      BY <2>1, Names DEF Accounts
    <2>3. entries \in [Titles -> Listings]
      BY DEF Entries
    <2>4. list' \in [Accounts -> [Titles -> Listings]]
      BY <1>1, <1>9, <2>2, <2>3 DEF Link, ListsTyped
    <2>5. QED
      BY <1>1, <1>9, <2>4 DEF Link, ListsTyped, requestVars, pastVars
  <1>10. CASE WeekPasses \/ Unlink \/ SyncRestart
    BY <1>1, <1>10 DEF WeekPasses, Unlink, SyncRestart, ListsTyped, requestVars, accountVars, pastVars
  <1>11. CASE UNCHANGED <<weekly, list, fresh, requestVars, owes, unread>>
    BY <1>1, <1>11 DEF ListsTyped, requestVars
  <1>12. SyncTick \/ SyncNow \/ SyncFetch \/ SyncRefreshToken \/ SyncDetails \/ SyncLoad \/ MergeStamp \/ MergeDone
           \/ SyncRemovals \/ RemovalsDone \/ UNCHANGED syncVars
         => UNCHANGED <<weekly, list, fresh, requestVars, owes, unread>>
    BY DEF SyncTick, SyncNow, SyncStart, SyncFetch, SyncRefreshToken, SyncDetails, SyncLoad, MergeStamp, MergeDone,
      SyncRemovals, RemovalsDone, syncVars, userVars, accountVars, pastVars
  <1>13. \A t \in Titles : SyncPage(t) \/ MergeEntry(t) \/ RemovalApply(t) => UNCHANGED <<weekly, list, fresh, requestVars, owes, unread>>
    BY DEF SyncPage, MergeEntry, RemovalApply, userVars, accountVars, pastVars
  <1>14. QED
    BY <1>4, <1>5, <1>6, <1>7, <1>8, <1>9, <1>10, <1>11, <1>12, <1>13, <1>15
    DEF SyncNext, SyncStep, UserStep, RequestStep

LEMMA DerivesStayTyped ==
  ASSUME TypeInv, [SyncNext]_syncVars
  PROVE  DerivesTyped'
  <1>1. RowsTyped /\ ListsTyped /\ SyncTyped /\ DerivesTyped
    BY DEF TypeInv
  <1>2. lib \in [Titles -> Series] /\ torn \subseteq Titles /\ deriving \in [Titles -> Modes \cup {"no", "read"}]
    BY <1>1 DEF RowsTyped, DerivesTyped
  <1>3. ASSUME UNCHANGED deriving, torn' \subseteq Titles, \A t \in Titles : lib[t].in => lib'[t].in
        PROVE  DerivesTyped'
    BY <1>1, <1>3 DEF DerivesTyped
  <1>4. ASSUME NEW t \in Titles, NEW d \in Modes \cup {"no", "read"}, deriving' = [deriving EXCEPT ![t] = d],
               torn' \subseteq Titles, \A u \in Titles : lib[u].in => lib'[u].in, d # "no" => lib'[t].in
        PROVE  DerivesTyped'
    BY <1>1, <1>2, <1>4 DEF DerivesTyped
  <1>5. ASSUME NEW t, NEW mode
        PROVE  /\ t \in Titles /\ (ModeTears(t, mode) \/ RowsMend(t, mode)) => torn' \subseteq Titles
    BY <1>2 DEF ModeTears, RowsMend
  <1>6. sync.of \in Titles \cup {NoTitle} /\ (sync.pc \in AtEntry => sync.cur \in Titles)
    BY <1>1, Names DEF SyncTyped, SyncState
  <1>7. ASSUME NEW t, NEW x, lib' = [lib EXCEPT ![t].mode = x] \/ lib' = [lib EXCEPT ![t].rows = x]
                              \/ lib' = [lib EXCEPT ![t].from = x] \/ lib' = [lib EXCEPT ![t].pinned = x]
        PROVE  \A u \in Titles : lib[u].in => lib'[u].in
    BY <1>2, <1>7 DEF Series
  <1>8. CASE MergeMode
    <2>1. UNCHANGED deriving /\ sync.cur \in Titles
      BY <1>6, <1>8 DEF MergeMode, requestVars, AtEntry
    <2>2. UNCHANGED torn \/ \E mode : ModeTears(sync.cur, mode)
      BY <1>8 DEF MergeMode
    <2>3. UNCHANGED lib \/ \E mode : lib' = [lib EXCEPT ![sync.cur].mode = mode]
      BY <1>8 DEF MergeMode
    <2>4. \A u \in Titles : lib[u].in => lib'[u].in
      BY <1>7, <2>3
    <2>5. torn' \subseteq Titles
      BY <1>2, <1>5, <2>1, <2>2
    <2>6. QED
      BY <1>3, <2>1, <2>4, <2>5
  <1>9. ASSUME NEW t \in Titles, RemovalApply(t)
        PROVE  DerivesTyped'
    <2>1. UNCHANGED deriving
      BY <1>9 DEF RemovalApply, requestVars
    <2>2. UNCHANGED torn \/ ModeTears(t, "none")
      BY <1>9 DEF RemovalApply
    <2>3. UNCHANGED lib \/ lib' = [lib EXCEPT ![t].mode = "none"]
      BY <1>9 DEF RemovalApply
    <2>4. \A u \in Titles : lib[u].in => lib'[u].in
      BY <1>7, <2>3
    <2>5. torn' \subseteq Titles
      BY <1>2, <1>5, <2>2
    <2>6. QED
      BY <1>3, <2>1, <2>4, <2>5
  <1>10. CASE SyncDerive \/ SyncRows
    <2>1. UNCHANGED deriving /\ sync.of \in Titles
      BY <1>6, <1>10 DEF SyncDerive, SyncRows, userVars, requestVars
    <2>2. UNCHANGED torn \/ torn' = torn \cup {sync.of} \/ RowsMend(sync.of, sync.mode)
      BY <1>10 DEF SyncDerive, SyncRows
    <2>3. UNCHANGED lib \/ lib' = [lib EXCEPT ![sync.of].rows = sync.mode]
      BY <1>10 DEF SyncDerive, SyncRows, userVars
    <2>4. \A u \in Titles : lib[u].in => lib'[u].in
      BY <1>7, <2>3
    <2>5. torn' \subseteq Titles
      BY <1>2, <1>5, <2>1, <2>2
    <2>6. QED
      BY <1>3, <2>1, <2>4, <2>5
  <1>11. CASE MergeCreate \/ MergeStamp
    <2>1. UNCHANGED <<deriving, torn>>
      BY <1>11 DEF MergeCreate, MergeStamp, requestVars, pastVars
    <2>2. UNCHANGED lib \/ lib' = [lib EXCEPT ![sync.cur] = NewSeries]
          \/ \E a : lib' = [lib EXCEPT ![sync.cur].from = a]
      BY <1>11 DEF MergeCreate, MergeStamp
    <2>3. NewSeries.in
      BY DEF NewSeries, NoSeries
    <2>4. CASE lib' = [lib EXCEPT ![sync.cur] = NewSeries]
      BY <1>2, <1>3, <2>1, <2>3, <2>4
    <2>5. QED
      BY <1>2, <1>3, <1>7, <2>1, <2>2, <2>4
  <1>12. ASSUME NEW t \in Titles, (\E mode \in Modes : Pin(t, mode)) \/ Unpin(t)
         PROVE  DerivesTyped'
    <2>1. lib[t].in /\ deriving' = [deriving EXCEPT ![t] = "read"]
      BY <1>12 DEF Pin, Unpin
    <2>2. UNCHANGED torn \/ \E mode : ModeTears(t, mode)
      BY <1>12 DEF Pin, Unpin
    <2>3. lib' = [lib EXCEPT ![t].pinned = FALSE]
          \/ \E mode \in Modes : lib' = [lib EXCEPT ![t].mode = mode, ![t].pinned = TRUE]
      BY <1>12 DEF Pin, Unpin
    <2>4. \A u \in Titles : lib[u].in => lib'[u].in
      <3>1. CASE lib' = [lib EXCEPT ![t].pinned = FALSE]
        BY <1>2, <3>1 DEF Series
      <3>2. ASSUME NEW mode \in Modes, lib' = [lib EXCEPT ![t].mode = mode, ![t].pinned = TRUE]
            PROVE  \A u \in Titles : lib[u].in => lib'[u].in
        BY <1>2, <3>2 DEF Series
      <3>3. QED
        BY <2>3, <3>1, <3>2
    <2>5. torn' \subseteq Titles
      BY <1>2, <1>5, <2>2
    <2>6. QED
      BY <1>4, <2>1, <2>4, <2>5
  <1>13. ASSUME NEW t \in Titles, DeriveRead(t) \/ DeriveWrite(t)
         PROVE  DerivesTyped'
    <2>1. lib[t].in
      BY <1>1, <1>13 DEF DeriveRead, DeriveWrite, DerivesTyped
    <2>2. PICK d \in {"no", lib[t].mode} : deriving' = [deriving EXCEPT ![t] = d]
      BY <1>13 DEF DeriveRead, DeriveWrite
    <2>3. UNCHANGED torn \/ torn' = torn \cup {t} \/ \E mode : RowsMend(t, mode)
      BY <1>13 DEF DeriveRead, DeriveWrite, pastVars
    <2>4. UNCHANGED lib \/ \E mode : lib' = [lib EXCEPT ![t].rows = mode]
      BY <1>13 DEF DeriveRead, DeriveWrite
    <2>5. \A u \in Titles : lib[u].in => lib'[u].in
      BY <1>7, <2>4
    <2>6. torn' \subseteq Titles
      BY <1>2, <1>5, <2>3
    <2>7. d \in Modes \cup {"no", "read"}
      BY <1>2, <2>2 DEF Series
    <2>8. QED
      BY <1>4, <2>1, <2>2, <2>5, <2>6, <2>7
  <1>14. ASSUME NEW t \in Titles, DropExclusion(t) \/ AddSeries(t)
         PROVE  DerivesTyped'
    <2>1. UNCHANGED torn
      BY <1>14 DEF DropExclusion, AddSeries, pastVars
    <2>2. UNCHANGED deriving \/ (UNCHANGED lib /\ lib[t].in /\ deriving' = [deriving EXCEPT ![t] = "read"])
      BY <1>14 DEF DropExclusion, AddSeries
    <2>3. UNCHANGED lib \/ lib' = [lib EXCEPT ![t] = NewSeries]
      BY <1>14 DEF DropExclusion, AddSeries
    <2>4. NewSeries.in
      BY DEF NewSeries, NoSeries
    <2>5. \A u \in Titles : lib[u].in => lib'[u].in
      BY <1>2, <2>3, <2>4
    <2>6. QED
      BY <1>2, <1>3, <1>4, <2>1, <2>2, <2>5
  <1>15. ASSUME NEW t \in Titles, NEW keepOff \in BOOLEAN, RemoveSeries(t, keepOff)
         PROVE  DerivesTyped'
    <2>1. lib' = [lib EXCEPT ![t] = NoSeries] /\ deriving' = [deriving EXCEPT ![t] = "no"] /\ torn' = torn \ {t}
      BY <1>15 DEF RemoveSeries
    <2>2. \A u \in Titles : deriving'[u] # "no" => u # t /\ lib'[u] = lib[u] /\ deriving'[u] = deriving[u]
      BY <1>2, <2>1
    <2>3. \A u \in Titles : deriving'[u] # "no" => lib'[u].in
      BY <1>1, <2>2 DEF DerivesTyped
    <2>4. QED
      BY <1>2, <2>1, <2>3 DEF DerivesTyped
  <1>16. CASE SyncRestart
    <2>1. deriving' = [t \in Titles |-> "no"] /\ torn' \subseteq torn \cup Titles
      BY <1>16 DEF SyncRestart
    <2>2. QED
      BY <1>2, <2>1 DEF DerivesTyped
  <1>17. CASE Unlink
    <2>1. UNCHANGED <<deriving, torn>>
          /\ lib' = [t \in Titles |-> IF lib[t].from = account.id THEN [lib[t] EXCEPT !.from = 0] ELSE lib[t]]
      BY <1>17 DEF Unlink, requestVars, pastVars
    <2>2. \A t \in Titles : lib'[t].in = lib[t].in
      BY <1>2, <2>1 DEF Series
    <2>3. QED
      BY <1>2, <1>3, <2>1, <2>2
  <1>18. ASSUME NEW t \in Titles,
                \/ SyncPage(t) \/ MergeEntry(t) \/ RecordExclusion(t) \/ AllowAgain(t)
                \/ \E status \in Listings : Edit(t, status)
         PROVE  UNCHANGED <<lib, deriving, torn>>
    BY <1>18 DEF SyncPage, MergeEntry, RecordExclusion, AllowAgain, Edit, userVars, requestVars, pastVars
  <1>19. SyncTick \/ SyncNow \/ SyncFetch \/ SyncDrained \/ SyncRefreshToken \/ SyncDetails \/ SyncLoad \/ MergeRead
           \/ MergeDone \/ SyncRemovals \/ RemovalsDone \/ SyncStamp \/ WeekPasses \/ (\E e : Link(e)) \/ UNCHANGED syncVars
         => UNCHANGED <<lib, deriving, torn>>
    BY DEF SyncTick, SyncNow, SyncStart, SyncFetch, SyncDrained, SyncRefreshToken, SyncDetails, SyncLoad, MergeRead,
      MergeDone, SyncRemovals, RemovalsDone, SyncStamp, WeekPasses, Link, syncVars, userVars, requestVars, pastVars
  <1>20. UNCHANGED <<lib, deriving, torn>> => DerivesTyped'
    BY <1>2, <1>3
  <1>21. syncPlan.titles \subseteq Titles
    BY Names DEF TypeInv, CountersTyped, SyncPlan
  <1>22. QED
    BY <1>8, <1>9, <1>10, <1>11, <1>12, <1>13, <1>14, <1>15, <1>16, <1>17, <1>18, <1>19, <1>20, <1>21
    DEF SyncNext, SyncStep, UserStep, RequestStep

LEMMA CountersStayTyped ==
  ASSUME TypeInv, [SyncNext]_syncVars
  PROVE  CountersTyped'
  <1>1. CountersTyped
    BY DEF TypeInv
  <1>2. UNCHANGED syncPlan
    BY DEF SyncNext, SyncStep, UserStep, RequestStep, SyncTick, SyncNow, SyncStart, SyncFetch, SyncPage,
      SyncDrained, SyncRefreshToken, SyncDerive, SyncRows, DeriveRead, DeriveWrite, SyncDetails,
      SyncLoad, MergeEntry, MergeRead, MergeCreate, MergeStamp, MergeMode, MergeDone, SyncRemovals,
      RemovalApply, RemovalsDone, SyncStamp, Edit, WeekPasses, Pin, Unpin, AddSeries, DropExclusion,
      RemoveSeries, RecordExclusion, AllowAgain, Link, Unlink, SyncRestart, syncVars, boundVars
  <1>3. UNCHANGED acts \/ \E o : Act(o)
    BY DEF SyncNext, SyncStep, UserStep, RequestStep, SyncTick, SyncNow, SyncStart, SyncFetch, SyncPage,
      SyncDrained, SyncRefreshToken, SyncDerive, SyncRows, DeriveRead, DeriveWrite, SyncDetails,
      SyncLoad, MergeEntry, MergeRead, MergeCreate, MergeStamp, MergeMode, MergeDone, SyncRemovals,
      RemovalApply, RemovalsDone, SyncStamp, Edit, WeekPasses, Pin, Unpin, AddSeries, DropExclusion,
      RemoveSeries, RecordExclusion, AllowAgain, Link, Unlink, SyncRestart, syncVars, boundVars
  <1>4. UNCHANGED syncFaults \/ \E f : SyncFault(f)
    BY DEF SyncNext, SyncStep, UserStep, RequestStep, SyncTick, SyncNow, SyncStart, SyncFetch, SyncPage,
      SyncDrained, SyncRefreshToken, SyncDerive, SyncRows, DeriveRead, DeriveWrite, SyncDetails,
      SyncLoad, MergeEntry, MergeRead, MergeCreate, MergeStamp, MergeMode, MergeDone, SyncRemovals,
      RemovalApply, RemovalsDone, SyncStamp, Edit, WeekPasses, Pin, Unpin, AddSeries, DropExclusion,
      RemoveSeries, RecordExclusion, AllowAgain, Link, Unlink, SyncRestart, syncVars, boundVars
  <1>5. QED
    BY <1>1, <1>2, <1>3, <1>4, CountsUp DEF CountersTyped

\* the two ways the merge of an entry ends
LEMMA EntryEnds ==
  ASSUME sync \in SyncState, NextEntry \/ EntryFails
  PROVE  /\ sync' \in SyncState /\ sync'.pc = "merge" /\ sync'.cur = NoTitle
         /\ sync'.account = sync.account /\ sync'.full = sync.full /\ sync'.pass = sync.pass
         /\ sync'.entries = sync.entries /\ sync'.out = sync.out /\ sync'.todo = sync.todo
         /\ sync'.lost = sync.lost /\ sync'.edited = sync.edited
         /\ sync'.stay = sync.stay /\ sync'.barred = sync.barred
         /\ sync'.of = sync.of /\ sync'.mode = sync.mode
         /\ NextEntry => sync'.settled = sync.settled
         /\ EntryFails => sync'.settled = sync.settled \ {sync.cur}
  <1>1. NoRead \in [pinned : BOOLEAN, mode : Modes, new : BOOLEAN]
    BY DEF NoRead, Modes
  <1>2. CASE NextEntry
    BY <1>1, <1>2 DEF NextEntry, EntryFails, SyncState, Steps
  <1>3. CASE EntryFails
    BY <1>1, <1>3 DEF NextEntry, EntryFails, SyncState, Steps
  <1>4. QED
    BY <1>2, <1>3

LEMMA SyncStaysTyped ==
  ASSUME TypeInv, [SyncNext]_syncVars
  PROVE  SyncTyped'
  <1>1. RowsTyped /\ ListsTyped /\ SyncTyped /\ sync \in SyncState
    BY DEF TypeInv, SyncTyped
  <1>2. sync.pc \in AtEntry => sync.cur \in Titles
    BY <1>1, Names DEF SyncTyped, SyncState
  <1>3. sync.pc \notin AtEntry => sync.cur = NoTitle
    BY <1>1 DEF SyncTyped
  <1>26. sync.pc \notin {"merge", "removing"} => sync.of = NoTitle
    BY <1>1 DEF SyncTyped
  <1>27. sync.of \in Titles \cup {NoTitle}
    BY <1>1 DEF SyncState
  <1>4. CASE SyncTick \/ SyncNow
    <2>1. sync.pc = "idle" /\ account.id \in Accounts
      BY <1>1, <1>4 DEF SyncTick, SyncNow, SyncStart, RowsTyped
    <2>2. PICK force \in BOOLEAN : sync' = [IdleSync EXCEPT
             !.pc = "fetch", !.account = account.id, !.full = force \/ FullDue,
             !.stay = [t \in Titles |-> IF lib[t].pinned THEN "pinned" ELSE "free"],
             !.barred = {t \in excluded : ~lib[t].in}]
      BY <1>4 DEF SyncTick, SyncNow, SyncStart
    <2>3. (force \/ FullDue) \in BOOLEAN
      BY <1>1 DEF FullDue, RowsTyped, ListsTyped
    <2>4. {t \in excluded : ~lib[t].in} \in SUBSET Titles
      BY <1>1 DEF ListsTyped
    <2>5. [t \in Titles |-> IF lib[t].pinned THEN "pinned" ELSE "free"] \in [Titles -> {"pinned", "free", "changed"}]
      OBVIOUS
    <2>6. PICK id \in Accounts, full \in BOOLEAN, barred \in SUBSET Titles,
               stay \in [Titles -> {"pinned", "free", "changed"}] :
            sync' = [IdleSync EXCEPT !.pc = "fetch", !.account = id, !.full = full, !.stay = stay, !.barred = barred]
      <3>1. PICK full \in BOOLEAN : full = (force \/ FullDue)
        BY <2>3
      <3>2. PICK barred \in SUBSET Titles : barred = {t \in excluded : ~lib[t].in}
        BY <2>4
      <3>3. PICK stay \in [Titles -> {"pinned", "free", "changed"}] :
              stay = [t \in Titles |-> IF lib[t].pinned THEN "pinned" ELSE "free"]
        BY <2>5
      <3>4. sync' = [IdleSync EXCEPT !.pc = "fetch", !.account = account.id, !.full = full, !.stay = stay,
                                     !.barred = barred]
        BY <2>2, <3>1, <3>2, <3>3
      <3>5. QED
        BY <2>1, <3>4
    <2>7. sync' \in SyncState /\ sync'.pc = "fetch" /\ sync'.cur = NoTitle /\ sync'.of = NoTitle
      <3>1. sync' \in SyncState
        <4>1. id \in Accounts \cup {0} /\ "fetch" \in Steps
          BY DEF Steps
        <4>2. QED
          BY <2>6, <4>1, IdleTyped DEF SyncState
      <3>2. sync'.pc = "fetch" /\ sync'.cur = IdleSync.cur /\ sync'.of = IdleSync.of
        BY <2>6, IdleTyped DEF SyncState
      <3>3. QED
        BY <3>1, <3>2, IdleFields
    <2>8. QED
      BY <2>7 DEF SyncTyped, AtEntry
  <1>5. CASE sync' = IdleSync
    BY <1>5, IdleTyped, IdleFields DEF SyncTyped, AtEntry
  <1>6. CASE SyncFetch
    <2>1. sync.pc = "fetch" /\ sync.cur = NoTitle /\ sync.account \in Accounts
      BY <1>3, <1>6 DEF SyncFetch, AtEntry, TypeInv, SyncsAnAccount
    <2>2. [t \in Titles |-> EntryOf(t)] \in [Titles -> Listings]
      BY <1>1, <2>1 DEF ListsTyped, Listings, EntryOf
    <2>3. CASE sync' = [sync EXCEPT !.pc = "details", !.entries = [t \in Titles |-> EntryOf(t)]]
      <3>1. sync' \in SyncState /\ sync'.pc = "details" /\ sync'.cur = NoTitle /\ sync'.of = NoTitle
        BY ZenonT(60), <1>1, <1>26, <2>1, <2>2, <2>3 DEF SyncState, Steps
      <3>2. QED
        BY <3>1 DEF SyncTyped, AtEntry
    <2>4. QED
      BY <1>5, <1>6, <2>3 DEF SyncFetch, Fails
  <1>28. CASE SyncDrained
    <2>1. sync.pc = "fetch" /\ sync' = [sync EXCEPT !.pc = "details", !.seen = {}, !.shifted = FALSE]
      BY <1>28 DEF SyncDrained
    <2>2. sync' \in SyncState /\ sync'.pc = "details" /\ sync'.cur = sync.cur /\ sync'.of = sync.of
      BY <1>1, <2>1 DEF SyncState, Steps
    <2>3. QED
      BY <1>3, <1>26, <2>1, <2>2 DEF SyncTyped, AtEntry
  <1>29. CASE SyncRefreshToken
    <2>1. sync.pc = "fetch" /\ sync' = [sync EXCEPT !.seen = {}, !.shifted = FALSE, !.entries = IdleSync.entries]
      BY <1>29 DEF SyncRefreshToken
    <2>2. IdleSync.entries \in [Titles -> Listings]
      BY IdleTyped DEF SyncState
    <2>3. sync' \in SyncState /\ sync'.pc = sync.pc /\ sync'.cur = sync.cur /\ sync'.of = sync.of
      BY <1>1, <2>1, <2>2 DEF SyncState
    <2>4. QED
      BY <1>1, <2>3 DEF SyncTyped
  <1>30. ASSUME NEW t \in Titles, SyncPage(t)
         PROVE  SyncTyped'
    <2>1. sync.pc = "fetch" /\ sync' = [sync EXCEPT !.seen = @ \cup {t}, !.entries[t] = EntryOf(t)]
          /\ sync.account \in Accounts
      BY <1>30 DEF SyncPage, TypeInv, SyncsAnAccount
    <2>2. EntryOf(t) \in Listings
      BY <1>1, <2>1 DEF ListsTyped, EntryOf, Listings
    <2>3. sync' \in SyncState /\ sync'.pc = sync.pc /\ sync'.cur = sync.cur /\ sync'.of = sync.of
      BY <1>1, <2>1, <2>2 DEF SyncState
    <2>4. QED
      BY <1>1, <2>3 DEF SyncTyped
  <1>31. CASE SyncDerive \/ SyncRows
    <2>1. sync.of \in Titles /\ sync.pc \in {"merge", "removing"}
      BY <1>1, <1>27, <1>31 DEF SyncDerive, SyncRows, SyncTyped
    <2>2. \/ sync' = IdleSync \/ sync' = [sync EXCEPT !.mode = lib[sync.of].mode]
          \/ sync' = [sync EXCEPT !.of = NoTitle, !.mode = "read"]
          \/ sync' = [sync EXCEPT !.of = NoTitle, !.mode = "read", !.settled = @ \ {sync.of}]
      BY <1>31 DEF SyncDerive, SyncRows, DeriveFails, Fails
    <2>3. lib[sync.of].mode \in Modes
      BY <1>1, <2>1 DEF RowsTyped, Series
    <2>4. CASE sync' = [sync EXCEPT !.mode = lib[sync.of].mode]
      <3>1. sync' \in SyncState /\ sync'.pc = sync.pc /\ sync'.cur = sync.cur /\ sync'.of = sync.of
        BY <1>1, <2>3, <2>4 DEF SyncState
      <3>2. QED
        BY <1>1, <3>1 DEF SyncTyped
    <2>5. CASE \/ sync' = [sync EXCEPT !.of = NoTitle, !.mode = "read"]
               \/ sync' = [sync EXCEPT !.of = NoTitle, !.mode = "read", !.settled = @ \ {sync.of}]
      <3>1. CASE sync' = [sync EXCEPT !.of = NoTitle, !.mode = "read"]
        <4>1. sync' \in SyncState /\ sync'.pc = sync.pc /\ sync'.cur = sync.cur /\ sync'.of = NoTitle
          BY <1>1, <3>1 DEF SyncState
        <4>2. QED
          BY <1>1, <4>1 DEF SyncTyped
      <3>2. CASE sync' = [sync EXCEPT !.of = NoTitle, !.mode = "read", !.settled = @ \ {sync.of}]
        <4>1. sync' \in SyncState /\ sync'.pc = sync.pc /\ sync'.cur = sync.cur /\ sync'.of = NoTitle
          BY <1>1, <3>2 DEF SyncState
        <4>2. QED
          BY <1>1, <4>1 DEF SyncTyped
      <3>3. QED
        BY <2>5, <3>1, <3>2
    <2>6. QED
      BY <1>5, <2>2, <2>4, <2>5
  <1>7. CASE SyncDetails
    <2>1. sync.pc = "details" /\ sync.cur = NoTitle
      BY <1>3, <1>7 DEF SyncDetails, AtEntry
    <2>2. \/ sync' = IdleSync
          \/ \E new \in SUBSET Titles : sync' = [sync EXCEPT !.pc = "load", !.details = new]
          \/ sync' = [sync EXCEPT !.pc = "load"]
      BY <1>7 DEF SyncDetails, Fails
    <2>3. ASSUME NEW new \in SUBSET Titles, sync' = [sync EXCEPT !.pc = "load", !.details = new]
          PROVE  SyncTyped'
      <3>1. sync' \in SyncState /\ sync'.pc = "load" /\ sync'.cur = NoTitle /\ sync'.of = NoTitle
        BY ZenonT(60), <1>1, <1>26, <2>1, <2>3 DEF SyncState, Steps
      <3>2. QED
        BY <3>1 DEF SyncTyped, AtEntry
    <2>4. CASE sync' = [sync EXCEPT !.pc = "load"]
      <3>1. sync' \in SyncState /\ sync'.pc = "load" /\ sync'.cur = NoTitle /\ sync'.of = NoTitle
        BY <1>1, <1>26, <2>1, <2>4 DEF SyncState, Steps
      <3>2. QED
        BY <3>1 DEF SyncTyped, AtEntry
    <2>5. QED
      BY <1>5, <2>2, <2>3, <2>4
  <1>8. CASE SyncLoad
    <2>1. sync.pc = "load" /\ sync.cur = NoTitle
      BY <1>3, <1>8 DEF SyncLoad, AtEntry
    <2>2. PICK out \in SUBSET Titles, todo \in SUBSET Titles : sync' = [sync EXCEPT !.pc = "merge", !.out = out, !.todo = todo]
      <3> DEFINE todo == {t \in IF sync.pass = 1 THEN Titles \ FallbackOf(syncPlan.mal) ELSE Fallback : sync.entries[t] # "absent"}
      <3>1. todo \in SUBSET Titles
        BY Names
      <3>2. excluded \in SUBSET Titles /\ {} \in SUBSET Titles
        BY <1>1 DEF ListsTyped
      <3>3. \E out \in {excluded, {}} : sync' = [sync EXCEPT !.pc = "merge", !.out = out, !.todo = todo]
        BY <1>8 DEF SyncLoad
      <3> HIDE DEF todo
      <3>4. QED
        BY <3>1, <3>2, <3>3
    <2>3. sync' \in SyncState /\ sync'.pc = "merge" /\ sync'.cur = NoTitle
      BY ZenonT(60), <1>1, <2>1, <2>2 DEF SyncState, Steps
    <2>4. QED
      BY <2>3 DEF SyncTyped, AtEntry
  <1>9. ASSUME NEW t \in Titles, MergeEntry(t)
        PROVE  SyncTyped'
    <2>4. sync.of = NoTitle
      BY <1>9 DEF MergeEntry
    <2>1. CASE sync' = [sync EXCEPT !.todo = @ \ {t}, !.settled = @ \cup ({t} \cap excluded)]
      <3>1. sync.pc = "merge" /\ sync.cur = NoTitle
        BY <1>3, <1>9 DEF MergeEntry, AtEntry
      <3>2. sync' \in SyncState /\ sync'.pc = "merge" /\ sync'.cur = NoTitle /\ sync'.of = NoTitle
        BY <1>1, <2>1, <2>4, <3>1 DEF SyncState
      <3>3. QED
        BY <3>2 DEF SyncTyped, AtEntry
    <2>2. CASE sync' = [sync EXCEPT !.todo = @ \ {t}, !.pc = "read", !.cur = t, !.settled = @ \cup {t}]
      <3>1. sync' \in SyncState /\ sync'.pc = "read" /\ sync'.cur = t /\ sync'.of = NoTitle
        BY ZenonT(60), <1>1, <2>2, <2>4 DEF SyncState, Steps
      <3>2. QED
        BY <3>1, Names DEF SyncTyped, AtEntry
    <2>3. QED
      BY <1>9, <2>1, <2>2 DEF MergeEntry
  <1>10. CASE NextEntry \/ EntryFails
    <2>1. sync' \in SyncState /\ sync'.pc = "merge" /\ sync'.cur = NoTitle
      BY <1>1, <1>10, EntryEnds
    <2>2. QED
      BY <2>1 DEF SyncTyped, AtEntry
  <1>11. CASE MergeRead
    <2>9. sync.of = NoTitle
      BY <1>26, <1>11 DEF MergeRead
    <2>1. sync.cur \in Titles /\ lib[sync.cur] \in Series
      BY <1>1, <1>2, <1>11 DEF MergeRead, AtEntry, RowsTyped
    <2>2. CASE sync' = [sync EXCEPT
                !.pc = "stamp", !.lost = @ \ {sync.cur}, !.settled = @ \cup {sync.cur},
                !.row = [pinned |-> lib[sync.cur].pinned, mode |-> lib[sync.cur].mode, new |-> FALSE]]
      <3>1. [pinned |-> lib[sync.cur].pinned, mode |-> lib[sync.cur].mode, new |-> FALSE]
              \in [pinned : BOOLEAN, mode : Modes, new : BOOLEAN]
        BY <2>1 DEF Series
      <3>2. sync' \in SyncState /\ sync'.pc = "stamp" /\ sync'.cur = sync.cur /\ sync'.of = NoTitle
        BY ZenonT(60), <1>1, <2>9, <2>1, <2>2, <3>1 DEF SyncState, Steps
      <3>3. QED
        BY <2>1, <3>2, Names DEF SyncTyped, AtEntry
    <2>3. CASE sync' = [sync EXCEPT !.pc = "create"]
      <3>1. sync' \in SyncState /\ sync'.pc = "create" /\ sync'.cur = sync.cur /\ sync'.of = NoTitle
        BY <1>1, <2>9, <2>3 DEF SyncState, Steps
      <3>2. QED
        BY <2>1, <3>1, Names DEF SyncTyped, AtEntry
    <2>4. QED
      BY <1>10, <1>11, <2>2, <2>3 DEF MergeRead
  <1>12. CASE MergeCreate
    <2>9. sync.of = NoTitle
      BY <1>26, <1>12 DEF MergeCreate
    <2>1. sync.cur \in Titles
      BY <1>2, <1>12 DEF MergeCreate, AtEntry
    <2>2. CASE sync' = [sync EXCEPT !.pc = "stamp", !.lost = @ \ {sync.cur}, !.settled = @ \cup {sync.cur},
                                   !.row = [NoRead EXCEPT !.new = TRUE]]
      <3>3. PICK row \in [pinned : BOOLEAN, mode : Modes, new : BOOLEAN] : row = [NoRead EXCEPT !.new = TRUE]
        BY DEF NoRead, Modes
      <3>4. sync' = [sync EXCEPT !.pc = "stamp", !.lost = @ \ {sync.cur}, !.settled = @ \cup {sync.cur}, !.row = row]
        BY <2>2, <3>3
      <3>1. sync' \in SyncState /\ sync'.pc = "stamp" /\ sync'.cur = sync.cur /\ sync'.of = NoTitle
        BY ZenonT(60), <1>1, <2>9, <2>1, <3>4 DEF SyncState, Steps
      <3>2. QED
        BY <2>1, <3>1, Names DEF SyncTyped, AtEntry
    <2>3. QED
      BY <1>10, <1>12, <2>2 DEF MergeCreate
  <1>13. CASE MergeStamp
    <2>9. sync.of = NoTitle
      BY <1>26, <1>13 DEF MergeStamp
    <2>1. sync.cur \in Titles
      BY <1>2, <1>13 DEF MergeStamp, AtEntry
    <2>2. CASE sync' = [sync EXCEPT !.pc = "mode"]
      <3>1. sync' \in SyncState /\ sync'.pc = "mode" /\ sync'.cur = sync.cur /\ sync'.of = NoTitle
        BY <1>1, <2>9, <2>2 DEF SyncState, Steps
      <3>2. QED
        BY <2>1, <3>1, Names DEF SyncTyped, AtEntry
    <2>3. QED
      BY <1>10, <1>13, <2>2 DEF MergeStamp
  <1>14. CASE MergeMode
    <2>1. sync.cur \in Titles
      BY <1>2, <1>14 DEF MergeMode, AtEntry
    <2>2. CASE sync' = [sync EXCEPT !.pc = "merge", !.cur = NoTitle, !.row = NoRead, !.of = sync.cur]
      <3>1. NoRead \in [pinned : BOOLEAN, mode : Modes, new : BOOLEAN]
        BY DEF NoRead, Modes
      <3>2. sync' \in SyncState /\ sync'.pc = "merge" /\ sync'.cur = NoTitle
        BY <1>1, <2>1, <2>2, <3>1 DEF SyncState, Steps
      <3>3. QED
        BY <3>2 DEF SyncTyped, AtEntry
    <2>3. QED
      BY <1>10, <1>14, <2>2 DEF MergeMode
  <1>15. CASE MergeDone \/ RemovalsDone
    <2>1. sync.cur = NoTitle /\ sync.of = NoTitle
      BY <1>3, <1>15 DEF MergeDone, RemovalsDone, AtEntry
    <2>2. \/ sync' = [sync EXCEPT !.pc = "load", !.pass = 2]
          \/ \E p \in {"removals", "cursor"} : sync' = [sync EXCEPT !.pc = p]
      BY <1>15 DEF MergeDone, RemovalsDone
    <2>3. CASE sync' = [sync EXCEPT !.pc = "load", !.pass = 2]
      <3>1. 2 \in 1 .. 2
        OBVIOUS
      <3>2. PICK n \in 1 .. 2 : sync' = [sync EXCEPT !.pc = "load", !.pass = n]
        BY <2>3, <3>1
      <3>3. sync' \in SyncState /\ sync'.pc = "load" /\ sync'.cur = NoTitle /\ sync'.of = NoTitle
        BY <1>1, <2>1, <3>2 DEF SyncState, Steps
      <3>4. QED
        BY <3>3 DEF SyncTyped, AtEntry
    <2>4. ASSUME NEW p \in {"removals", "cursor"}, sync' = [sync EXCEPT !.pc = p]
          PROVE  SyncTyped'
      <3>1. sync' \in SyncState /\ sync'.pc = p /\ sync'.cur = NoTitle /\ sync'.of = NoTitle
        BY <1>1, <2>1, <2>4 DEF SyncState, Steps
      <3>2. QED
        BY <3>1 DEF SyncTyped, AtEntry
    <2>5. QED
      BY <2>2, <2>3, <2>4
  <1>16. CASE SyncRemovals
    <2>1. sync.cur = NoTitle
      BY <1>3, <1>16 DEF SyncRemovals, AtEntry
    <2>2. PICK S \in SUBSET Titles, T \in SUBSET Titles :
             sync' = [sync EXCEPT !.pc = "removing", !.lost = {}, !.settled = @ \cup S, !.todo = T]
      BY <1>16 DEF SyncRemovals
    <2>3. sync' \in SyncState /\ sync'.pc = "removing" /\ sync'.cur = NoTitle
      BY ZenonT(60), <1>1, <2>1, <2>2 DEF SyncState, Steps
    <2>4. QED
      BY <2>3 DEF SyncTyped, AtEntry
  <1>17. ASSUME sync' \in SyncState, sync'.pc = sync.pc, sync'.cur = sync.cur, sync'.of = sync.of
         PROVE  SyncTyped'
    BY <1>1, <1>17 DEF SyncTyped
  <1>18. ASSUME NEW t \in Titles, RemovalApply(t)
         PROVE  SyncTyped'
    <2>1. sync.pc = "removing" /\ (sync' = IdleSync \/ sync' = [sync EXCEPT !.todo = @ \ {t}, !.of = t])
      BY <1>18 DEF RemovalApply, Fails
    <2>2. CASE sync' = [sync EXCEPT !.todo = @ \ {t}, !.of = t]
      <3>1. sync' \in SyncState /\ sync'.pc = "removing" /\ sync'.cur = sync.cur
        BY <1>1, <2>1, <2>2 DEF SyncState
      <3>2. QED
        BY <1>3, <2>1, <3>1 DEF SyncTyped, AtEntry
    <2>3. QED
      BY <1>5, <2>1, <2>2
  <1>19. ASSUME NEW t \in Titles,
                \/ DropExclusion(t) \/ RecordExclusion(t) \/ AddSeries(t) \/ AllowAgain(t) \/ Unpin(t)
                \/ DeriveRead(t) \/ DeriveWrite(t)
                \/ \E keepOff \in BOOLEAN : RemoveSeries(t, keepOff)
                \/ \E mode \in Modes : Pin(t, mode)
                \/ \E status \in Listings : Edit(t, status)
         PROVE  SyncTyped'
    <2>1. \/ sync' = sync \/ sync' = [sync EXCEPT !.barred = @ \ {t}]
          \/ sync' = [sync EXCEPT !.settled = @ \ {t}, !.barred = @ \ {t}]
          \/ sync' = [sync EXCEPT !.settled = @ \ {t}, !.stay[t] = "changed"]
          \/ sync' = [sync EXCEPT !.settled = @ \ {t}, !.stay[t] = "changed", !.lost = @ \cup {t}]
          \/ sync' = [sync EXCEPT !.stay[t] = "changed"]
          \/ sync' = [sync EXCEPT !.edited = @ \cup {t}, !.shifted = @ \/ sync.seen # {}]
      BY <1>19 DEF DeriveRead, DeriveWrite, DropExclusion, RecordExclusion, AddSeries, AllowAgain, Unpin, RemoveSeries, Pin, Edit, Touched
    <2>2. PICK stay \in Stays : stay = [sync.stay EXCEPT ![t] = "changed"]
      <3>1. sync.stay \in Stays
        BY <1>1 DEF SyncState, Stays
      <3>2. QED
        BY <3>1 DEF Stays
    <2>3. PICK settled \in SUBSET Titles, barred \in SUBSET Titles, lost \in SUBSET Titles, edited \in SUBSET Titles :
             /\ settled = sync.settled \ {t} /\ barred = sync.barred \ {t}
             /\ lost = sync.lost \cup {t} /\ edited = sync.edited \cup {t}
      BY <1>1 DEF SyncState
    <2>12. PICK shifted \in BOOLEAN : shifted = (sync.shifted \/ sync.seen # {})
      BY <1>1 DEF SyncState
    <2>4. /\ [sync EXCEPT !.settled = settled] \in SyncState /\ [sync EXCEPT !.barred = barred] \in SyncState
          /\ [sync EXCEPT !.stay = stay] \in SyncState /\ [sync EXCEPT !.edited = edited] \in SyncState
      BY <1>1, FieldsTyped
    <2>5. [[sync EXCEPT !.settled = settled] EXCEPT !.barred = barred] \in SyncState
      BY <2>4, FieldsTyped
    <2>6. [[sync EXCEPT !.settled = settled] EXCEPT !.stay = stay] \in SyncState
      BY <2>4, FieldsTyped
    <2>7. [[[sync EXCEPT !.settled = settled] EXCEPT !.stay = stay] EXCEPT !.lost = lost] \in SyncState
      BY <2>6, FieldsTyped
    <2>13. [[sync EXCEPT !.edited = edited] EXCEPT !.shifted = shifted] \in SyncState
      BY <2>4, FieldsTyped
    <2>8. \/ sync' = sync \/ sync' = [sync EXCEPT !.barred = barred]
          \/ sync' = [[sync EXCEPT !.settled = settled] EXCEPT !.barred = barred]
          \/ sync' = [[sync EXCEPT !.settled = settled] EXCEPT !.stay = stay]
          \/ sync' = [[[sync EXCEPT !.settled = settled] EXCEPT !.stay = stay] EXCEPT !.lost = lost]
          \/ sync' = [sync EXCEPT !.stay = stay] 
          \/ sync' = [[sync EXCEPT !.edited = edited] EXCEPT !.shifted = shifted]
      BY <2>1, <2>2, <2>3, <2>12
    <2>9. sync' \in SyncState
      BY <1>1, <2>4, <2>5, <2>6, <2>7, <2>8, <2>13
    <2>10. sync'.pc = sync.pc /\ sync'.cur = sync.cur /\ sync'.of = sync.of
      BY ZenonT(60), <1>1, <2>8 DEF SyncState
    <2>11. QED
      BY <1>17, <2>9, <2>10
  <1>20. ASSUME NEW entries, Link(entries)
         PROVE  UNCHANGED sync
    BY <1>20 DEF Link
  <1>21. Unlink \/ WeekPasses \/ UNCHANGED syncVars => UNCHANGED sync
    BY DEF Unlink, WeekPasses, syncVars
  <1>22. UNCHANGED sync => SyncTyped'
    BY <1>1 DEF SyncTyped
  <1>23. SyncStamp \/ SyncRestart => sync' = IdleSync
    BY DEF SyncStamp, SyncRestart
  <1>24. syncPlan.titles \subseteq Titles
    BY Names DEF TypeInv, CountersTyped, SyncPlan
  <1>25. QED
    BY <1>4, <1>5, <1>6, <1>7, <1>8, <1>9, <1>11, <1>12, <1>13, <1>14, <1>15, <1>16, <1>18, <1>19,
      <1>20, <1>21, <1>22, <1>23, <1>24, <1>28, <1>29, <1>30, <1>31
    DEF SyncNext, SyncStep, UserStep, RequestStep

-------------------------------------------------------------------------------
(* What each step does to the sync *)

LEMMA AtTitle == TypeInv /\ sync.pc \in AtEntry => sync.cur \in Titles
  BY Names DEF TypeInv, SyncTyped, SyncState

LEMMA Starts ==
  ASSUME TypeInv, SyncTick \/ SyncNow
  PROVE  /\ UNCHANGED <<userVars, boundVars, owes, unread>>
         /\ sync.pc = "idle" /\ account.id # 0
         /\ sync'.pc = "fetch" /\ sync'.account = account.id
         /\ ~sync'.full => account.cursor
         /\ sync'.edited = {} /\ sync'.settled = {} /\ sync'.pass = 1
         /\ sync'.seen = {} /\ sync'.entries = [t \in Titles |-> "absent"] /\ sync'.of = NoTitle
         /\ \A t \in Titles : sync'.stay[t] = (IF lib[t].pinned THEN "pinned" ELSE "free")
         /\ sync'.barred = {t \in excluded : ~lib[t].in}
  <1>1. PICK force \in BOOLEAN : SyncStart(force)
    BY DEF SyncTick, SyncNow
  <1>2. RowsTyped /\ ListsTyped
    BY DEF TypeInv
  <1>3. PICK full, stay, barred :
          /\ sync' = [IdleSync EXCEPT !.pc = "fetch", !.account = account.id, !.full = full, !.stay = stay,
                                      !.barred = barred]
          /\ full = (force \/ FullDue) /\ stay = [t \in Titles |-> IF lib[t].pinned THEN "pinned" ELSE "free"]
          /\ barred = {t \in excluded : ~lib[t].in}
    BY <1>1 DEF SyncStart, pastVars
  <1>4. /\ sync'.pc = "fetch" /\ sync'.account = account.id /\ sync'.full = full
        /\ sync'.stay = stay /\ sync'.barred = barred
        /\ sync'.edited = {} /\ sync'.settled = {} /\ sync'.pass = 1
        /\ sync'.seen = {} /\ sync'.entries = [t \in Titles |-> "absent"] /\ sync'.of = NoTitle
    BY <1>3, IdleTyped, IdleFields DEF SyncState
  <1>5. ~full => account.cursor
    BY <1>3 DEF FullDue
  <1>6. UNCHANGED <<userVars, boundVars, owes, unread>> /\ sync.pc = "idle" /\ account.id # 0
    BY <1>1 DEF SyncStart, pastVars
  <1>7. QED
    BY <1>3, <1>4, <1>5, <1>6

LEMMA Fetches ==
  ASSUME TypeInv, SyncFetch
  PROVE  /\ UNCHANGED <<userVars, syncPlan, acts, owes, unread>>
         /\ sync.pc = "fetch"
         /\ sync' # IdleSync =>
              /\ sync'.pc = "details" /\ sync'.account = sync.account /\ sync'.full = sync.full
              /\ sync'.edited = sync.edited /\ sync'.settled = sync.settled
              /\ sync'.stay = sync.stay /\ sync'.barred = sync.barred
              /\ \A t \in Titles : sync'.entries[t] =
                   IF sync.full \/ t \in fresh[sync.account] THEN list[sync.account][t] ELSE "absent"
  <1>1. sync \in SyncState
    BY DEF TypeInv, SyncTyped
  <1>2. sync.pc = "fetch" /\ UNCHANGED <<userVars, syncPlan, acts, owes, unread>>
    BY DEF SyncFetch, pastVars
  <1>3. ASSUME sync' # IdleSync
        PROVE  \E e : /\ sync' = [sync EXCEPT !.pc = "details", !.entries = e]
                      /\ e = [t \in Titles |-> EntryOf(t)]
    BY <1>3 DEF SyncFetch, Fails
  <1>4. ASSUME NEW e, sync' = [sync EXCEPT !.pc = "details", !.entries = e]
        PROVE  /\ sync'.pc = "details" /\ sync'.account = sync.account /\ sync'.full = sync.full
               /\ sync'.edited = sync.edited /\ sync'.settled = sync.settled
               /\ sync'.stay = sync.stay /\ sync'.barred = sync.barred /\ sync'.entries = e
    BY <1>1, <1>4 DEF SyncState
  <1>5. CASE sync' # IdleSync
    <2>1. PICK e : /\ sync' = [sync EXCEPT !.pc = "details", !.entries = e]
                   /\ e = [t \in Titles |-> EntryOf(t)]
      BY <1>3, <1>5
    <2>2. \A t \in Titles : e[t] = IF sync.full \/ t \in fresh[sync.account] THEN list[sync.account][t] ELSE "absent"
      BY <2>1 DEF EntryOf, Kept
    <2>3. QED
      <3>1. /\ sync'.pc = "details" /\ sync'.account = sync.account /\ sync'.full = sync.full
            /\ sync'.edited = sync.edited /\ sync'.settled = sync.settled
            /\ sync'.stay = sync.stay /\ sync'.barred = sync.barred /\ sync'.entries = e
        BY <1>4, <2>1
      <3>2. QED
        BY <1>2, <2>2, <3>1
  <1>6. QED
    BY <1>2, <1>5

\* a page of the list; or it is drained, with the pages that were missed; or drained anew
SameFetch ==
  /\ sync'.account = sync.account /\ sync'.full = sync.full /\ sync'.pass = sync.pass
  /\ sync'.edited = sync.edited /\ sync'.settled = sync.settled
  /\ sync'.stay = sync.stay /\ sync'.barred = sync.barred
  /\ sync'.of = sync.of /\ sync'.mode = sync.mode

LEMMA Pages ==
  ASSUME TypeInv, NEW t \in Titles, SyncPage(t)
  PROVE  /\ UNCHANGED <<userVars, boundVars, pastVars>> /\ SameFetch
         /\ sync.pc = "fetch" /\ sync'.pc = "fetch" /\ sync'.seen = sync.seen \cup {t}
         /\ sync'.entries = [sync.entries EXCEPT ![t] = EntryOf(t)]
  BY DEF TypeInv, SyncTyped, SyncState, SyncPage, SameFetch

LEMMA Drains ==
  ASSUME TypeInv, SyncDrained
  PROVE  /\ UNCHANGED <<userVars, syncPlan, acts, unread, torn>> /\ SameFetch
         /\ sync.pc = "fetch" /\ sync'.pc = "details" /\ sync'.entries = sync.entries
         /\ owes' = owes \cup {t \in Undrained : Kept(sync.full, t)}
  BY DEF TypeInv, SyncTyped, SyncState, SyncDrained, SameFetch

LEMMA Refreshes ==
  ASSUME TypeInv, SyncRefreshToken
  PROVE  /\ UNCHANGED <<userVars, syncPlan, acts, pastVars>> /\ SameFetch
         /\ sync.pc = "fetch" /\ sync'.pc = "fetch" /\ sync'.seen = {}
         /\ sync'.entries = [t \in Titles |-> "absent"]
  BY IdleFields DEF TypeInv, SyncTyped, SyncState, SyncRefreshToken, SameFetch

LEMMA AsksDetails ==
  ASSUME TypeInv, SyncDetails
  PROVE  /\ UNCHANGED <<userVars, syncPlan, acts, owes, unread>>
         /\ sync.pc = "details"
         /\ sync' # IdleSync =>
              /\ sync'.pc = "load" /\ sync'.account = sync.account /\ sync'.full = sync.full
              /\ sync'.pass = sync.pass /\ sync'.entries = sync.entries
              /\ sync'.edited = sync.edited /\ sync'.settled = sync.settled
              /\ sync'.stay = sync.stay /\ sync'.barred = sync.barred
  <1>1. sync \in SyncState
    BY DEF TypeInv, SyncTyped
  <1>2. sync.pc = "details" /\ UNCHANGED <<userVars, syncPlan, acts, owes, unread>>
    BY DEF SyncDetails, pastVars
  <1>3. ASSUME sync' # IdleSync
        PROVE  (\E new : sync' = [sync EXCEPT !.pc = "load", !.details = new]) \/ sync' = [sync EXCEPT !.pc = "load"]
    BY <1>3 DEF SyncDetails, Fails
  <1>4. ASSUME NEW new, sync' = [sync EXCEPT !.pc = "load", !.details = new]
        PROVE  /\ sync'.pc = "load" /\ sync'.account = sync.account /\ sync'.full = sync.full
               /\ sync'.pass = sync.pass /\ sync'.entries = sync.entries
               /\ sync'.edited = sync.edited /\ sync'.settled = sync.settled
               /\ sync'.stay = sync.stay /\ sync'.barred = sync.barred
    BY <1>1, <1>4 DEF SyncState
  <1>5. ASSUME sync' = [sync EXCEPT !.pc = "load"]
        PROVE  /\ sync'.pc = "load" /\ sync'.account = sync.account /\ sync'.full = sync.full
               /\ sync'.pass = sync.pass /\ sync'.entries = sync.entries
               /\ sync'.edited = sync.edited /\ sync'.settled = sync.settled
               /\ sync'.stay = sync.stay /\ sync'.barred = sync.barred
    BY <1>1, <1>5 DEF SyncState
  <1>6. QED
    BY <1>2, <1>3, <1>4, <1>5

Mine == IF sync.pass = 1 THEN Titles \ FallbackOf(syncPlan.mal) ELSE Fallback

LEMMA Loads ==
  ASSUME TypeInv, SyncLoad
  PROVE  /\ UNCHANGED <<userVars, syncPlan, acts, owes, unread>>
         /\ sync.pc = "load" /\ sync'.pc = "merge"
         /\ sync'.account = sync.account /\ sync'.full = sync.full /\ sync'.pass = sync.pass
         /\ sync'.entries = sync.entries /\ sync'.edited = sync.edited /\ sync'.settled = sync.settled
         /\ sync'.stay = sync.stay /\ sync'.barred = sync.barred
         /\ sync'.out = excluded \/ ("load" \in syncPlan.faults /\ sync'.out = {})
         /\ sync'.todo = {t \in Mine : sync.entries[t] # "absent"}
  <1>1. sync \in SyncState
    BY DEF TypeInv, SyncTyped
  <1> DEFINE todo == {t \in Mine : sync.entries[t] # "absent"}
  <1>2. PICK out : /\ sync' = [sync EXCEPT !.pc = "merge", !.out = out, !.todo = todo]
                   /\ out = excluded \/ ("load" \in syncPlan.faults /\ out = {})
    <2>1. CASE sync' = [sync EXCEPT !.pc = "merge", !.out = excluded, !.todo = todo]
      BY <2>1
    <2>2. CASE "load" \in syncPlan.faults /\ sync' = [sync EXCEPT !.pc = "merge", !.out = {}, !.todo = todo]
      BY <2>2
    <2>3. \/ sync' = [sync EXCEPT !.pc = "merge", !.out = excluded, !.todo = todo]
          \/ SyncFault("load") /\ sync' = [sync EXCEPT !.pc = "merge", !.out = {}, !.todo = todo]
      BY Zenon DEF SyncLoad, Mine
    <2>4. QED
      BY <2>1, <2>2, <2>3 DEF SyncFault
  <1> HIDE DEF todo
  <1>3. /\ sync'.pc = "merge"
        /\ sync'.account = sync.account /\ sync'.full = sync.full /\ sync'.pass = sync.pass
        /\ sync'.entries = sync.entries /\ sync'.edited = sync.edited /\ sync'.settled = sync.settled
        /\ sync'.stay = sync.stay /\ sync'.barred = sync.barred /\ sync'.out = out /\ sync'.todo = todo
    BY <1>1, <1>2 DEF SyncState
  <1>4. sync.pc = "load" /\ UNCHANGED <<userVars, syncPlan, acts, owes, unread>>
    BY DEF SyncLoad, pastVars
  <1>5. QED
    BY <1>2, <1>3, <1>4 DEF todo

\* what the merge never changes of its sync
SameMerge ==
  /\ sync'.account = sync.account /\ sync'.full = sync.full /\ sync'.pass = sync.pass
  /\ sync'.entries = sync.entries /\ sync'.out = sync.out /\ sync'.edited = sync.edited
  /\ sync'.stay = sync.stay /\ sync'.barred = sync.barred

LEMMA TakesEntry ==
  ASSUME TypeInv, NEW t \in Titles, MergeEntry(t)
  PROVE  /\ UNCHANGED <<userVars, boundVars, owes, unread>> /\ SameMerge
         /\ sync.pc = "merge" /\ t \in sync.todo /\ sync'.todo = sync.todo \ {t}
         /\ \/ /\ t \in sync.out /\ ~lib[t].in
               /\ sync'.pc = "merge" /\ sync'.cur = NoTitle
               /\ sync'.settled = sync.settled \cup ({t} \cap excluded)
            \/ /\ t \notin sync.out \/ lib[t].in
               /\ sync'.pc = "read" /\ sync'.cur = t /\ sync'.settled = sync.settled \cup {t}
  <1>1. sync \in SyncState /\ (sync.pc \in AtEntry <=> sync.cur # NoTitle)
    BY DEF TypeInv, SyncTyped
  <1>2. sync.pc = "merge" /\ t \in sync.todo /\ UNCHANGED <<userVars, boundVars, owes, unread>>
    BY DEF MergeEntry, pastVars
  <1>3. sync.cur = NoTitle
    BY <1>1, <1>2 DEF AtEntry
  <1>4. CASE /\ t \in sync.out /\ ~lib[t].in
             /\ sync' = [sync EXCEPT !.todo = @ \ {t}, !.settled = @ \cup ({t} \cap excluded)]
    <2>1. SameMerge /\ sync'.todo = sync.todo \ {t} /\ sync'.pc = "merge" /\ sync'.cur = NoTitle
          /\ sync'.settled = sync.settled \cup ({t} \cap excluded)
      BY <1>1, <1>2, <1>3, <1>4 DEF SyncState, SameMerge
    <2>2. QED
      BY <1>2, <1>4, <2>1
  <1>5. CASE /\ t \notin sync.out \/ lib[t].in
             /\ sync' = [sync EXCEPT !.todo = @ \ {t}, !.pc = "read", !.cur = t, !.settled = @ \cup {t}]
    <2>1. SameMerge /\ sync'.todo = sync.todo \ {t} /\ sync'.pc = "read" /\ sync'.cur = t
          /\ sync'.settled = sync.settled \cup {t}
      BY <1>1, <1>5 DEF SyncState, SameMerge
    <2>2. QED
      BY <1>2, <1>5, <2>1
  <1>6. QED
    BY <1>4, <1>5 DEF MergeEntry

\* the merge of the entry ends and owes nothing; or it fails, and owes its title
Ended == /\ sync'.pc = "merge" /\ sync'.cur = NoTitle
         /\ sync'.settled = sync.settled /\ UNCHANGED owes
Failed == /\ sync'.pc = "merge" /\ sync'.cur = NoTitle
          /\ sync'.settled = sync.settled \ {sync.cur} /\ owes' = owes \cup {sync.cur}

LEMMA EndsOrFails ==
  ASSUME TypeInv
  PROVE  /\ NextEntry => SameMerge /\ sync'.todo = sync.todo /\ sync'.pc = "merge" /\ sync'.cur = NoTitle
                         /\ sync'.settled = sync.settled
         /\ EntryFails => SameMerge /\ sync'.todo = sync.todo /\ Failed
  <1>1. sync \in SyncState
    BY DEF TypeInv, SyncTyped
  <1>2. CASE NextEntry
    BY <1>1, <1>2, EntryEnds DEF SameMerge, Failed, NextEntry, EntryFails
  <1>3. CASE EntryFails
    <2>1. owes' = owes \cup {sync.cur}
      BY <1>3 DEF EntryFails
    <2>2. SameMerge /\ sync'.todo = sync.todo /\ sync'.pc = "merge" /\ sync'.cur = NoTitle
          /\ sync'.settled = sync.settled \ {sync.cur}
      BY <1>1, <1>3, EntryEnds DEF SameMerge
    <2>3. CASE NextEntry
      BY <1>1, <2>1, <2>2, <2>3, EntryEnds DEF Failed
    <2>4. QED
      BY <2>1, <2>2, <1>2 DEF Failed
  <1>4. QED
    BY <1>2, <1>3

LEMMA Reads ==
  ASSUME TypeInv, MergeRead
  PROVE  /\ UNCHANGED <<userVars, boundVars, unread>> /\ SameMerge /\ sync'.todo = sync.todo
         /\ sync.pc = "read"
         /\ \/ /\ lib[sync.cur].in /\ UNCHANGED owes
               /\ sync'.pc = "stamp" /\ sync'.cur = sync.cur /\ sync'.settled = sync.settled \cup {sync.cur}
               /\ sync'.lost = sync.lost \ {sync.cur}
               /\ ~sync'.row.new /\ sync'.row.mode = lib[sync.cur].mode
               /\ sync'.row.pinned <=> lib[sync.cur].pinned
            \/ ~lib[sync.cur].in /\ sync.entries[sync.cur] \notin Imported /\ Ended
            \/ ~lib[sync.cur].in /\ Failed
            \/ /\ ~lib[sync.cur].in /\ sync.entries[sync.cur] \in Imported /\ UNCHANGED owes
               /\ sync'.pc = "create" /\ sync'.cur = sync.cur /\ sync'.settled = sync.settled
  <1>1. sync \in SyncState
    BY DEF TypeInv, SyncTyped
  <1>2. sync.pc = "read" /\ UNCHANGED <<userVars, boundVars, unread>>
    BY DEF MergeRead
  <1> DEFINE row == [pinned |-> lib[sync.cur].pinned, mode |-> lib[sync.cur].mode, new |-> FALSE]
  <1>3. CASE /\ lib[sync.cur].in /\ UNCHANGED owes
             /\ sync' = [sync EXCEPT !.pc = "stamp", !.lost = @ \ {sync.cur}, !.settled = @ \cup {sync.cur},
                                     !.row = row]
    <2>1. row.pinned = lib[sync.cur].pinned /\ row.mode = lib[sync.cur].mode /\ row.new = FALSE
      OBVIOUS
    <2> HIDE DEF row
    <2>2. SameMerge /\ sync'.todo = sync.todo /\ sync'.pc = "stamp" /\ sync'.cur = sync.cur
          /\ sync'.settled = sync.settled \cup {sync.cur} /\ sync'.lost = sync.lost \ {sync.cur}
          /\ sync'.row = row
      BY <1>1, <1>3 DEF SyncState, SameMerge
    <2>3. QED
      BY <1>2, <1>3, <2>1, <2>2
  <1>4. CASE ~lib[sync.cur].in /\ sync.entries[sync.cur] \notin Imported /\ NextEntry /\ UNCHANGED owes
    BY <1>2, <1>4, EndsOrFails DEF Ended
  <1>5. CASE ~lib[sync.cur].in /\ EntryFails
    BY <1>2, <1>5, EndsOrFails
  <1>6. CASE /\ ~lib[sync.cur].in /\ sync.entries[sync.cur] \in Imported /\ UNCHANGED owes
             /\ sync' = [sync EXCEPT !.pc = "create"]
    <2>1. SameMerge /\ sync'.todo = sync.todo /\ sync'.pc = "create" /\ sync'.cur = sync.cur
          /\ sync'.settled = sync.settled
      BY <1>1, <1>6 DEF SyncState, SameMerge
    <2>2. QED
      BY <1>2, <1>6, <2>1
  <1>7. QED
    BY <1>3, <1>4, <1>5, <1>6 DEF MergeRead

LEMMA Creates ==
  ASSUME TypeInv, MergeCreate
  PROVE  /\ UNCHANGED <<accountVars, requestVars, syncPlan, acts, unread>> /\ SameMerge
         /\ sync'.todo = sync.todo /\ sync.pc = "create"
         /\ \/ /\ lib' = IF lib[sync.cur].in THEN lib ELSE [lib EXCEPT ![sync.cur] = NewSeries]
               /\ UNCHANGED owes
               /\ sync'.pc = "stamp" /\ sync'.cur = sync.cur /\ sync'.settled = sync.settled \cup {sync.cur}
               /\ sync'.row.new /\ ~sync'.row.pinned
            \/ UNCHANGED lib /\ Failed
  <1>1. sync \in SyncState
    BY DEF TypeInv, SyncTyped
  <1>2. sync.pc = "create" /\ UNCHANGED <<accountVars, requestVars, syncPlan, acts, unread>>
    BY DEF MergeCreate
  <1> DEFINE row == [NoRead EXCEPT !.new = TRUE]
  <1>3. CASE /\ lib' = IF lib[sync.cur].in THEN lib ELSE [lib EXCEPT ![sync.cur] = NewSeries]
             /\ UNCHANGED owes
             /\ sync' = [sync EXCEPT !.pc = "stamp", !.lost = @ \ {sync.cur}, !.settled = @ \cup {sync.cur},
                                     !.row = row]
    <2>1. ~row.pinned /\ row.new
      BY DEF NoRead
    <2> HIDE DEF row
    <2>2. SameMerge /\ sync'.todo = sync.todo /\ sync'.pc = "stamp" /\ sync'.cur = sync.cur
          /\ sync'.settled = sync.settled \cup {sync.cur} /\ sync'.row = row
      BY <1>1, <1>3 DEF SyncState, SameMerge
    <2>3. QED
      BY <1>2, <1>3, <2>1, <2>2
  <1>4. CASE EntryFails /\ UNCHANGED lib
    BY <1>2, <1>4, EndsOrFails
  <1>5. QED
    BY <1>3, <1>4 DEF MergeCreate

LEMMA Stamps ==
  ASSUME TypeInv, MergeStamp
  PROVE  /\ UNCHANGED <<accountVars, requestVars, boundVars, owes, unread>> /\ SameMerge
         /\ sync'.todo = sync.todo /\ sync.pc = "stamp" /\ sync'.settled = sync.settled
         /\ lib' = IF RowStands(sync.cur) /\ account.id = sync.account
                   THEN [lib EXCEPT ![sync.cur].from = sync.account] ELSE lib
         /\ IF sync.row.new \/ (~sync.row.pinned /\ sync.row.mode # ModeFor(sync.entries[sync.cur]))
            THEN sync'.pc = "mode" /\ sync'.cur = sync.cur /\ (sync'.row.new <=> sync.row.new)
            ELSE sync'.pc = "merge" /\ sync'.cur = NoTitle
  <1>1. sync \in SyncState
    BY DEF TypeInv, SyncTyped
  <1> DEFINE C == sync.row.new \/ (~sync.row.pinned /\ sync.row.mode # ModeFor(sync.entries[sync.cur]))
  <1>2. /\ sync.pc = "stamp" /\ UNCHANGED <<accountVars, requestVars, boundVars, owes, unread>>
        /\ lib' = IF RowStands(sync.cur) /\ account.id = sync.account
                  THEN [lib EXCEPT ![sync.cur].from = sync.account] ELSE lib
        /\ IF C THEN sync' = [sync EXCEPT !.pc = "mode"] ELSE NextEntry
    BY DEF MergeStamp, pastVars
  <1> HIDE DEF C
  <1>3. CASE C
    <2>1. SameMerge /\ sync'.todo = sync.todo /\ sync'.pc = "mode" /\ sync'.cur = sync.cur
          /\ sync'.settled = sync.settled /\ sync'.row = sync.row
      BY <1>1, <1>2, <1>3 DEF SyncState, SameMerge
    <2>2. QED
      BY <1>2, <1>3, <2>1 DEF C
  <1>4. CASE ~C
    <2>1. SameMerge /\ sync'.todo = sync.todo /\ sync'.pc = "merge" /\ sync'.cur = NoTitle
          /\ sync'.settled = sync.settled
      BY <1>2, <1>4, EndsOrFails
    <2>2. QED
      BY <1>2, <1>4, <2>1 DEF C
  <1>5. QED
    BY <1>3, <1>4

LEMMA SetsMode ==
  ASSUME TypeInv, MergeMode
  PROVE  /\ UNCHANGED <<accountVars, requestVars, syncPlan, acts, unread>> /\ SameMerge
         /\ sync'.todo = sync.todo /\ sync.pc = "mode"
         /\ \/ /\ RowStands(sync.cur) /\ Ended
               /\ lib' = [lib EXCEPT ![sync.cur].mode = ModeFor(sync.entries[sync.cur])]
            \/ UNCHANGED lib /\ Failed
  <1>1. sync.pc = "mode" /\ UNCHANGED <<accountVars, requestVars, syncPlan, acts, unread>>
    BY DEF MergeMode
  <1>2. CASE /\ RowStands(sync.cur) /\ UNCHANGED owes
             /\ lib' = [lib EXCEPT ![sync.cur].mode = ModeFor(sync.entries[sync.cur])]
             /\ sync' = [sync EXCEPT !.pc = "merge", !.cur = NoTitle, !.row = NoRead, !.of = sync.cur]
    <2>1. SameMerge /\ sync'.todo = sync.todo /\ sync'.pc = "merge" /\ sync'.cur = NoTitle
          /\ sync'.settled = sync.settled
      BY <1>2 DEF TypeInv, SyncTyped, SyncState, SameMerge
    <2>2. QED
      BY <1>1, <1>2, <2>1 DEF Ended
  <1>3. CASE EntryFails /\ UNCHANGED lib
    BY <1>1, <1>3, EndsOrFails
  <1>4. QED
    BY <1>2, <1>3 DEF MergeMode

\* A recompute keeps the sync where it is; one that fails counts the entry as failed, and ends a
\* sync that is in its removals.  The rows of a series keep all but the episode rows.
SameRow(t) ==
  /\ lib'[t].in = lib[t].in /\ lib'[t].mode = lib[t].mode
  /\ lib'[t].pinned = lib[t].pinned /\ lib'[t].from = lib[t].from

LEMMA Derives ==
  ASSUME TypeInv, SyncDerive \/ SyncRows
  PROVE  /\ UNCHANGED <<accountVars, requestVars, syncPlan, acts, unread>>
         /\ sync.of \in Titles /\ sync.pc \in {"merge", "removing"}
         /\ \A t \in Titles : SameRow(t)
         /\ sync' # IdleSync =>
              /\ SameMerge /\ sync'.todo = sync.todo /\ sync'.pc = sync.pc /\ sync'.cur = sync.cur
              /\ \/ sync'.settled = sync.settled /\ UNCHANGED owes
                 \/ /\ sync.pc = "merge" /\ sync'.settled = sync.settled \ {sync.of}
                    /\ owes' = owes \cup {sync.of}
         /\ sync' = IdleSync => UNCHANGED owes /\ sync.pc = "removing"
  <1>1. sync \in SyncState /\ (sync.of # NoTitle => sync.pc \in {"merge", "removing"})
    BY DEF TypeInv, SyncTyped
  <1>2. sync.of # NoTitle /\ UNCHANGED <<accountVars, requestVars, syncPlan, acts, unread>>
    BY DEF SyncDerive, SyncRows, userVars
  <1>3. sync.of \in Titles /\ sync.pc \in {"merge", "removing"}
    BY <1>1, <1>2 DEF SyncState
  <1>4. \A t \in Titles : SameRow(t)
    <2>1. UNCHANGED lib \/ lib' = [lib EXCEPT ![sync.of].rows = sync.mode]
      BY DEF SyncDerive, SyncRows, userVars
    <2>2. lib \in [Titles -> Series]
      BY DEF TypeInv, RowsTyped
    <2>3. CASE lib' = [lib EXCEPT ![sync.of].rows = sync.mode]
      BY <2>2, <2>3 DEF Series, SameRow
    <2>4. CASE UNCHANGED lib
      BY <2>4 DEF SameRow
    <2>5. QED
      BY <2>1, <2>3, <2>4
  <1>5. \/ UNCHANGED owes /\ sync' = [sync EXCEPT !.mode = lib[sync.of].mode]
        \/ UNCHANGED owes /\ sync' = [sync EXCEPT !.of = NoTitle, !.mode = "read"]
        \/ DeriveFails
    BY DEF SyncDerive, SyncRows
  <1>6. ASSUME NEW m, UNCHANGED owes, sync' = [sync EXCEPT !.mode = m]
        PROVE  /\ SameMerge /\ sync'.todo = sync.todo /\ sync'.pc = sync.pc /\ sync'.cur = sync.cur
               /\ sync'.settled = sync.settled
    BY <1>1, <1>6 DEF SyncState, SameMerge
  <1>7. CASE UNCHANGED owes /\ sync' = [sync EXCEPT !.of = NoTitle, !.mode = "read"]
    <2>1. /\ SameMerge /\ sync'.todo = sync.todo /\ sync'.pc = sync.pc /\ sync'.cur = sync.cur
          /\ sync'.settled = sync.settled
      BY <1>1, <1>7 DEF SyncState, SameMerge
    <2>2. sync' # IdleSync
      BY <1>3, <2>1, IdleFields
    <2>3. QED
      BY <1>2, <1>3, <1>4, <1>7, <2>1, <2>2
  <1>8. CASE /\ sync.pc = "merge"
             /\ sync' = [sync EXCEPT !.of = NoTitle, !.mode = "read", !.settled = @ \ {sync.of}]
             /\ owes' = owes \cup {sync.of}
    <2>1. /\ SameMerge /\ sync'.todo = sync.todo /\ sync'.pc = sync.pc /\ sync'.cur = sync.cur
          /\ sync'.settled = sync.settled \ {sync.of}
      BY <1>1, <1>8 DEF SyncState, SameMerge
    <2>2. sync' # IdleSync
      BY <1>3, <2>1, IdleFields
    <2>3. QED
      BY <1>2, <1>3, <1>4, <1>8, <2>1, <2>2
  <1>9. CASE sync.pc = "removing" /\ sync' = IdleSync /\ UNCHANGED owes
    BY <1>2, <1>3, <1>4, <1>9
  <1>10. CASE UNCHANGED owes /\ sync' = [sync EXCEPT !.mode = lib[sync.of].mode]
    <2>1. /\ SameMerge /\ sync'.todo = sync.todo /\ sync'.pc = sync.pc /\ sync'.cur = sync.cur
          /\ sync'.settled = sync.settled
      BY <1>6, <1>10
    <2>2. sync' # IdleSync
      BY <1>3, <2>1, IdleFields
    <2>3. QED
      BY <1>2, <1>3, <1>4, <1>10, <2>1, <2>2
  <1>11. QED
    BY <1>5, <1>7, <1>8, <1>9, <1>10 DEF DeriveFails, Fails

\* what the sync keeps of its history when the entries are done
SameSync ==
  /\ sync'.account = sync.account /\ sync'.full = sync.full
  /\ sync'.entries = sync.entries /\ sync'.edited = sync.edited
  /\ sync'.stay = sync.stay /\ sync'.barred = sync.barred

LEMMA EntriesDone ==
  ASSUME TypeInv, MergeDone
  PROVE  /\ UNCHANGED <<userVars, boundVars, owes, unread>> /\ SameSync
         /\ sync.pc = "merge" /\ sync.todo = {} /\ sync'.settled = sync.settled
         /\ IF syncPlan.mal /\ sync.pass = 1 THEN sync'.pc = "load" /\ sync'.pass = 2
            ELSE sync'.pc = IF sync.full THEN "removals" ELSE "cursor"
  <1>1. sync \in SyncState
    BY DEF TypeInv, SyncTyped
  <1>2. sync.pc = "merge" /\ sync.todo = {} /\ UNCHANGED <<userVars, boundVars, owes, unread>>
    BY DEF MergeDone, pastVars
  <1>3. CASE syncPlan.mal /\ sync.pass = 1
    <2>1. sync' = [sync EXCEPT !.pc = "load", !.pass = 2]
      BY <1>3 DEF MergeDone
    <2>2. SameSync /\ sync'.settled = sync.settled /\ sync'.pc = "load" /\ sync'.pass = 2
      BY <1>1, <2>1 DEF SyncState, SameSync
    <2>3. QED
      BY <1>2, <1>3, <2>2
  <1>4. CASE ~(syncPlan.mal /\ sync.pass = 1)
    <2>1. PICK p : sync' = [sync EXCEPT !.pc = p] /\ p = IF sync.full THEN "removals" ELSE "cursor"
      BY <1>4 DEF MergeDone
    <2>2. SameSync /\ sync'.settled = sync.settled /\ sync'.pc = p
      BY <1>1, <2>1 DEF SyncState, SameSync
    <2>3. QED
      BY <1>2, <1>4, <2>1, <2>2
  <1>5. QED
    BY <1>3, <1>4

LEMMA ListsRemovals ==
  ASSUME TypeInv, SyncRemovals
  PROVE  /\ UNCHANGED <<userVars, boundVars, owes, unread>> /\ SameSync
         /\ sync.pc = "removals" /\ sync'.pc = "removing"
         /\ sync'.settled = sync.settled \cup {t \in Titles : /\ sync.entries[t] = "absent"
                                                            /\ list[sync.account][t] = "absent"}
         /\ sync'.todo = {t \in Titles : /\ lib[t].in /\ lib[t].from = sync.account
                                        /\ sync.entries[t] = "absent"
                                        /\ lib[t].mode # "none" /\ ~lib[t].pinned}
  <1>1. sync \in SyncState
    BY DEF TypeInv, SyncTyped
  <1> DEFINE gone == {t \in Titles : sync.entries[t] = "absent" /\ list[sync.account][t] = "absent"}
             todo == {t \in Titles : /\ lib[t].in /\ lib[t].from = sync.account
                                     /\ sync.entries[t] = "absent"
                                     /\ lib[t].mode # "none" /\ ~lib[t].pinned}
  <1>2. /\ sync.pc = "removals" /\ UNCHANGED <<userVars, boundVars, owes, unread>>
        /\ sync' = [sync EXCEPT !.pc = "removing", !.lost = {}, !.settled = @ \cup gone, !.todo = todo]
    BY DEF SyncRemovals, pastVars
  <1> HIDE DEF gone, todo
  <1>3. SameSync /\ sync'.pc = "removing" /\ sync'.settled = sync.settled \cup gone /\ sync'.todo = todo
    BY <1>1, <1>2 DEF SyncState, SameSync
  <1>4. QED
    BY <1>2, <1>3 DEF gone, todo

LEMMA RemovesOne ==
  ASSUME TypeInv, NEW t \in Titles, RemovalApply(t)
  PROVE  /\ UNCHANGED <<accountVars, requestVars, syncPlan, acts, owes, unread>>
         /\ sync.pc = "removing" /\ t \in sync.todo
         /\ \/ /\ RowStands(t) /\ lib' = [lib EXCEPT ![t].mode = "none"] /\ SameSync
               /\ sync'.pc = "removing" /\ sync'.settled = sync.settled /\ sync'.todo = sync.todo \ {t}
            \/ UNCHANGED lib /\ sync' = IdleSync
  <1>1. sync \in SyncState
    BY DEF TypeInv, SyncTyped
  <1>2. /\ sync.pc = "removing" /\ t \in sync.todo
        /\ UNCHANGED <<accountVars, requestVars, syncPlan, acts, owes, unread>>
    BY DEF RemovalApply
  <1>3. CASE RowStands(t) /\ lib' = [lib EXCEPT ![t].mode = "none"] /\ sync' = [sync EXCEPT !.todo = @ \ {t}, !.of = t]
    <2>1. SameSync /\ sync'.pc = sync.pc /\ sync'.settled = sync.settled /\ sync'.todo = sync.todo \ {t}
      BY <1>1, <1>3 DEF SyncState, SameSync
    <2>2. QED
      BY <1>2, <1>3, <2>1
  <1>4. CASE UNCHANGED lib /\ sync' = IdleSync
    BY <1>2, <1>4
  <1>5. QED
    BY <1>3, <1>4 DEF RemovalApply, Fails

LEMMA RemovalsEnd ==
  ASSUME TypeInv, RemovalsDone
  PROVE  /\ UNCHANGED <<userVars, boundVars, owes, unread>> /\ SameSync
         /\ sync.pc = "removing" /\ sync.todo = {} /\ sync'.pc = "cursor" /\ sync'.settled = sync.settled
  BY DEF TypeInv, SyncTyped, SyncState, RemovalsDone, SameSync, pastVars

\* what the user's steps never change of a sync
SamePlace ==
  /\ sync'.pc = sync.pc /\ sync'.cur = sync.cur /\ sync'.account = sync.account /\ sync'.full = sync.full
  /\ sync'.pass = sync.pass /\ sync'.entries = sync.entries /\ sync'.out = sync.out
  /\ sync'.todo = sync.todo /\ sync'.row = sync.row /\ sync'.seen = sync.seen
  /\ sync'.of = sync.of /\ sync'.mode = sync.mode

LEMMA Edits ==
  ASSUME TypeInv, NEW t \in Titles, NEW status \in Listings, Edit(t, status)
  PROVE  /\ UNCHANGED <<account, weekly, lib, requestVars, syncPlan, owes>> /\ SamePlace
         /\ account.id \in Accounts
         /\ list' = [list EXCEPT ![account.id][t] = status]
         /\ fresh' = [fresh EXCEPT ![account.id] = @ \cup {t}]
         /\ unread' = unread \cup {t}
         /\ sync.pc # "idle" => sync'.edited = sync.edited \cup {t}
         /\ sync'.settled = sync.settled /\ sync'.stay = sync.stay /\ sync'.barred = sync.barred
         /\ sync'.lost = sync.lost
  <1>1. sync \in SyncState /\ account.id \in Accounts
    BY DEF TypeInv, SyncTyped, RowsTyped, Edit
  <1>2. CASE sync.pc # "idle"
    <2>1. sync' = [sync EXCEPT !.edited = @ \cup {t}, !.shifted = @ \/ sync.seen # {}]
      BY <1>2 DEF Edit
    <2>2. SamePlace /\ sync'.edited = sync.edited \cup {t}
          /\ sync'.settled = sync.settled /\ sync'.stay = sync.stay /\ sync'.barred = sync.barred
          /\ sync'.lost = sync.lost
      BY <1>1, <2>1 DEF SyncState, SamePlace
    <2>3. QED
      BY <1>1, <2>2 DEF Edit
  <1>3. CASE sync.pc = "idle"
    BY <1>1, <1>3 DEF Edit, SamePlace
  <1>4. QED
    BY <1>2, <1>3

LEMMA Pins ==
  ASSUME TypeInv, NEW t \in Titles, NEW mode \in Modes, Pin(t, mode)
  PROVE  /\ UNCHANGED <<accountVars, excluded, adding, leaving, syncPlan, owes, unread>> /\ SamePlace
         /\ lib[t].in /\ lib' = [lib EXCEPT ![t].mode = mode, ![t].pinned = TRUE]
         /\ sync'.edited = sync.edited /\ sync'.settled = sync.settled /\ sync'.barred = sync.barred
         /\ sync'.lost = sync.lost
         /\ IF lib[t].pinned THEN sync'.stay = sync.stay
            ELSE sync'.stay = [sync.stay EXCEPT ![t] = "changed"]
  <1>1. sync \in SyncState
    BY DEF TypeInv, SyncTyped
  <1>2. CASE lib[t].pinned
    BY <1>2 DEF Pin, SamePlace
  <1>3. CASE ~lib[t].pinned
    <2>1. sync' = [sync EXCEPT !.stay[t] = "changed"]
      BY <1>3 DEF Pin
    <2>2. SamePlace /\ sync'.edited = sync.edited /\ sync'.settled = sync.settled
          /\ sync'.barred = sync.barred /\ sync'.lost = sync.lost
          /\ sync'.stay = [sync.stay EXCEPT ![t] = "changed"]
      BY <1>1, <2>1 DEF SyncState, SamePlace
    <2>3. QED
      BY <1>3, <2>2 DEF Pin
  <1>4. QED
    BY <1>2, <1>3

LEMMA Unpins ==
  ASSUME TypeInv, NEW t \in Titles, Unpin(t)
  PROVE  /\ UNCHANGED <<accountVars, excluded, adding, leaving, syncPlan, unread>> /\ SamePlace
         /\ lib[t].in /\ lib' = [lib EXCEPT ![t].pinned = FALSE] /\ owes' = owes \cup {t}
         /\ sync'.edited = sync.edited /\ sync'.settled = sync.settled \ {t} /\ sync'.barred = sync.barred
         /\ sync'.lost = sync.lost /\ sync'.stay = [sync.stay EXCEPT ![t] = "changed"]
  <1>1. sync \in SyncState
    BY DEF TypeInv, SyncTyped
  <1>2. sync' = [sync EXCEPT !.settled = @ \ {t}, !.stay[t] = "changed"]
    BY DEF Unpin, Touched
  <1>3. SamePlace /\ sync'.edited = sync.edited /\ sync'.settled = sync.settled \ {t}
        /\ sync'.barred = sync.barred /\ sync'.lost = sync.lost
        /\ sync'.stay = [sync.stay EXCEPT ![t] = "changed"]
    BY <1>1, <1>2 DEF SyncState, SamePlace
  <1>4. QED
    BY <1>3 DEF Unpin

LEMMA Adds ==
  ASSUME TypeInv, NEW t \in Titles, AddSeries(t)
  PROVE  /\ UNCHANGED <<accountVars, excluded, leaving, syncPlan, unread>> /\ SamePlace
         /\ lib' = IF lib[t].in THEN lib ELSE [lib EXCEPT ![t] = NewSeries]
         /\ owes' = owes \cup {t}
         /\ sync'.edited = sync.edited /\ sync'.settled = sync.settled \ {t}
         /\ sync'.barred = sync.barred \ {t}
         /\ sync'.lost = sync.lost /\ sync'.stay = sync.stay
  <1>1. sync \in SyncState
    BY DEF TypeInv, SyncTyped
  <1>2. sync' = [sync EXCEPT !.settled = @ \ {t}, !.barred = @ \ {t}]
    BY DEF AddSeries
  <1>3. SamePlace /\ sync'.edited = sync.edited /\ sync'.settled = sync.settled \ {t}
        /\ sync'.barred = sync.barred \ {t} /\ sync'.lost = sync.lost /\ sync'.stay = sync.stay
    BY <1>1, <1>2 DEF SyncState, SamePlace
  <1>4. QED
    BY <1>3 DEF AddSeries

LEMMA DropsExclusion ==
  ASSUME TypeInv, NEW t \in Titles, DropExclusion(t)
  PROVE  /\ UNCHANGED <<accountVars, lib, leaving, syncPlan, owes, unread>> /\ SamePlace
         /\ excluded' = IF lib[t].in THEN excluded \ {t} ELSE excluded
         /\ sync'.edited = sync.edited /\ sync'.settled = sync.settled
         /\ sync'.barred = IF lib[t].in THEN sync.barred \ {t} ELSE sync.barred
         /\ sync'.lost = sync.lost /\ sync'.stay = sync.stay
  <1>1. sync \in SyncState
    BY DEF TypeInv, SyncTyped
  <1>2. CASE lib[t].in
    <2>1. sync' = [sync EXCEPT !.barred = @ \ {t}]
      BY <1>2 DEF DropExclusion
    <2>2. SamePlace /\ sync'.edited = sync.edited /\ sync'.settled = sync.settled
          /\ sync'.barred = sync.barred \ {t} /\ sync'.lost = sync.lost /\ sync'.stay = sync.stay
      BY <1>1, <2>1 DEF SyncState, SamePlace
    <2>3. QED
      BY <1>2, <2>2 DEF DropExclusion, boundVars, pastVars
  <1>3. CASE ~lib[t].in
    BY <1>3 DEF DropExclusion, SamePlace, boundVars, pastVars
  <1>4. QED
    BY <1>2, <1>3

\* a handler's recompute
LEMMA HandlerDerives ==
  ASSUME TypeInv, NEW t \in Titles, DeriveRead(t) \/ DeriveWrite(t)
  PROVE  /\ UNCHANGED <<accountVars, excluded, adding, leaving, sync, syncPlan, owes, unread>>
         /\ SamePlace /\ SameRow(t) /\ \A u \in Titles \ {t} : lib'[u] = lib[u]
  <1>1. UNCHANGED <<accountVars, excluded, adding, leaving, sync, syncPlan, owes, unread>>
    BY DEF DeriveRead, DeriveWrite, boundVars, pastVars
  <1>2. UNCHANGED lib \/ lib' = [lib EXCEPT ![t].rows = deriving[t]]
    BY DEF DeriveRead, DeriveWrite
  <1>3. lib \in [Titles -> Series]
    BY DEF TypeInv, RowsTyped
  <1>4. SameRow(t) /\ \A u \in Titles \ {t} : lib'[u] = lib[u]
    <2>1. CASE lib' = [lib EXCEPT ![t].rows = deriving[t]]
      BY <1>3, <2>1 DEF Series, SameRow
    <2>2. QED
      BY <1>2, <2>1 DEF SameRow
  <1>5. QED
    BY <1>1, <1>4 DEF SamePlace

LEMMA RemovesSeries ==
  ASSUME TypeInv, NEW t \in Titles, NEW keepOff \in BOOLEAN, RemoveSeries(t, keepOff)
  PROVE  /\ UNCHANGED <<accountVars, excluded, adding, syncPlan, unread>> /\ SamePlace
         /\ lib[t].in /\ lib' = [lib EXCEPT ![t] = NoSeries] /\ owes' = owes \cup {t}
         /\ sync'.edited = sync.edited /\ sync'.barred = sync.barred
         /\ sync.pc # "idle" =>
              /\ sync'.settled = sync.settled \ {t} /\ sync'.lost = sync.lost \cup {t}
              /\ sync'.stay = [sync.stay EXCEPT ![t] = "changed"]
         /\ sync.pc = "idle" => UNCHANGED sync
  <1>1. sync \in SyncState
    BY DEF TypeInv, SyncTyped
  <1>2. CASE sync.pc # "idle"
    <2>1. sync' = [sync EXCEPT !.settled = @ \ {t}, !.stay[t] = "changed", !.lost = @ \cup {t}]
      BY <1>2 DEF RemoveSeries
    <2>2. SamePlace /\ sync'.edited = sync.edited /\ sync'.settled = sync.settled \ {t}
          /\ sync'.barred = sync.barred /\ sync'.lost = sync.lost \cup {t}
          /\ sync'.stay = [sync.stay EXCEPT ![t] = "changed"]
      BY <1>1, <2>1 DEF SyncState, SamePlace
    <2>3. QED
      BY <1>2, <2>2 DEF RemoveSeries
  <1>3. CASE sync.pc = "idle"
    BY <1>3 DEF RemoveSeries, SamePlace
  <1>4. QED
    BY <1>2, <1>3

LEMMA Allows ==
  ASSUME TypeInv, NEW t \in Titles, AllowAgain(t)
  PROVE  /\ UNCHANGED <<accountVars, lib, adding, leaving, syncPlan, unread>> /\ SamePlace
         /\ excluded' = excluded \ {t} /\ owes' = owes \cup {t}
         /\ sync'.edited = sync.edited /\ sync'.settled = sync.settled \ {t}
         /\ sync'.barred = sync.barred \ {t}
         /\ sync'.lost = sync.lost /\ sync'.stay = sync.stay
  <1>1. sync \in SyncState
    BY DEF TypeInv, SyncTyped
  <1>2. sync' = [sync EXCEPT !.settled = @ \ {t}, !.barred = @ \ {t}]
    BY DEF AllowAgain
  <1>3. SamePlace /\ sync'.edited = sync.edited /\ sync'.settled = sync.settled \ {t}
        /\ sync'.barred = sync.barred \ {t} /\ sync'.lost = sync.lost /\ sync'.stay = sync.stay
    BY <1>1, <1>2 DEF SyncState, SamePlace
  <1>4. QED
    BY <1>3 DEF AllowAgain

TitleStep(t) ==
  \/ DropExclusion(t) \/ RecordExclusion(t) \/ DeriveRead(t) \/ DeriveWrite(t) \/ AddSeries(t) \/ AllowAgain(t) \/ Unpin(t)
  \/ \E keepOff \in BOOLEAN : RemoveSeries(t, keepOff)
  \/ \E mode \in Modes : Pin(t, mode)
  \/ \E status \in Listings : Edit(t, status)

ListStep == (\E entries \in Entries : Link(entries)) \/ Unlink

Untouched(u) ==
  /\ UNCHANGED <<account, syncPlan>> /\ SamePlace
  /\ lib'[u] = lib[u] /\ sync'.stay[u] = sync.stay[u]
  /\ (u \in excluded' <=> u \in excluded) /\ (u \in owes' <=> u \in owes)
  /\ (u \in unread' <=> u \in unread)
  /\ (u \in sync'.settled <=> u \in sync.settled) /\ (u \in sync'.barred <=> u \in sync.barred)
  /\ (u \in sync'.lost <=> u \in sync.lost)
  /\ \A a \in Accounts : list'[a][u] = list[a][u] /\ (u \in fresh'[a] <=> u \in fresh[a])
  /\ sync.pc # "idle" => (u \in sync'.edited <=> u \in sync.edited)

\* A user's step about a title leaves the others as they are.
LEMMA OthersStay ==
  ASSUME TypeInv, NEW t \in Titles, TitleStep(t), NEW u \in Titles \ {t}
  PROVE  Untouched(u)
  <1>1. /\ lib \in [Titles -> Series] /\ list \in [Accounts -> [Titles -> Listings]]
        /\ fresh \in [Accounts -> SUBSET Titles]
        /\ sync \in SyncState /\ sync.stay \in [Titles -> {"pinned", "free", "changed"}]
    BY DEF TypeInv, RowsTyped, ListsTyped, SyncTyped, SyncState
  <1>2. CASE RecordExclusion(t)
    BY <1>2 DEF RecordExclusion, accountVars, boundVars, pastVars, SamePlace, Untouched
  <1>11. CASE DeriveRead(t) \/ DeriveWrite(t)
    BY <1>11, HandlerDerives DEF accountVars, Untouched
  <1>3. CASE DropExclusion(t)
    BY <1>3, DropsExclusion DEF accountVars, Untouched
  <1>4. CASE AddSeries(t)
    <2>1. /\ UNCHANGED <<account, syncPlan, list, fresh, excluded, unread>> /\ SamePlace
          /\ lib' = IF lib[t].in THEN lib ELSE [lib EXCEPT ![t] = NewSeries]
          /\ owes' = owes \cup {t} /\ sync'.edited = sync.edited
          /\ sync'.settled = sync.settled \ {t} /\ sync'.barred = sync.barred \ {t}
          /\ sync'.lost = sync.lost /\ sync'.stay = sync.stay
      BY <1>4, Adds DEF accountVars
    <2>2. QED
      BY <1>1, <2>1 DEF Untouched
  <1>5. CASE AllowAgain(t)
    <2>1. /\ UNCHANGED <<account, syncPlan, list, fresh, lib, unread>> /\ SamePlace
          /\ excluded' = excluded \ {t} /\ owes' = owes \cup {t} /\ sync'.edited = sync.edited
          /\ sync'.settled = sync.settled \ {t} /\ sync'.barred = sync.barred \ {t}
          /\ sync'.lost = sync.lost /\ sync'.stay = sync.stay
      BY <1>5, Allows DEF accountVars
    <2>2. QED
      BY <2>1 DEF Untouched
  <1>6. CASE Unpin(t)
    <2>1. /\ UNCHANGED <<account, syncPlan, list, fresh, excluded, unread>> /\ SamePlace
          /\ lib' = [lib EXCEPT ![t].pinned = FALSE] /\ owes' = owes \cup {t}
          /\ sync'.edited = sync.edited
          /\ sync'.settled = sync.settled \ {t} /\ sync'.barred = sync.barred
          /\ sync'.lost = sync.lost /\ sync'.stay = [sync.stay EXCEPT ![t] = "changed"]
      BY <1>6, Unpins DEF accountVars, requestVars
    <2>2. QED
      BY <1>1, <2>1 DEF Untouched
  <1>7. ASSUME NEW keepOff \in BOOLEAN, RemoveSeries(t, keepOff)
        PROVE  Untouched(u)
    <2>1. /\ UNCHANGED <<account, syncPlan, list, fresh, excluded, unread>> /\ SamePlace
          /\ lib' = [lib EXCEPT ![t] = NoSeries] /\ owes' = owes \cup {t}
          /\ sync'.edited = sync.edited /\ sync'.barred = sync.barred
          /\ \/ sync' = sync
             \/ /\ sync'.settled = sync.settled \ {t} /\ sync'.lost = sync.lost \cup {t}
                /\ sync'.stay = [sync.stay EXCEPT ![t] = "changed"]
      BY <1>7, RemovesSeries DEF accountVars
    <2>2. QED
      BY <1>1, <2>1 DEF Untouched
  <1>8. ASSUME NEW mode \in Modes, Pin(t, mode)
        PROVE  Untouched(u)
    <2>1. /\ UNCHANGED <<account, syncPlan, list, fresh, excluded, owes, unread>> /\ SamePlace
          /\ lib' = [lib EXCEPT ![t].mode = mode, ![t].pinned = TRUE]
          /\ sync'.edited = sync.edited /\ sync'.settled = sync.settled
          /\ sync'.barred = sync.barred /\ sync'.lost = sync.lost
          /\ sync'.stay = sync.stay \/ sync'.stay = [sync.stay EXCEPT ![t] = "changed"]
      BY <1>8, Pins DEF accountVars, requestVars
    <2>2. QED
      BY <1>1, <2>1 DEF Untouched
  <1>9. ASSUME NEW status \in Listings, Edit(t, status)
        PROVE  Untouched(u)
    <2>1. /\ UNCHANGED <<account, syncPlan, lib, excluded, owes>> /\ SamePlace
          /\ account.id \in Accounts /\ list' = [list EXCEPT ![account.id][t] = status]
          /\ fresh' = [fresh EXCEPT ![account.id] = @ \cup {t}] /\ unread' = unread \cup {t}
          /\ sync.pc # "idle" => sync'.edited = sync.edited \cup {t}
          /\ sync'.settled = sync.settled /\ sync'.stay = sync.stay /\ sync'.barred = sync.barred
          /\ sync'.lost = sync.lost
      BY <1>9, Edits DEF requestVars
    <2>2. \A a \in Accounts : list'[a][u] = list[a][u] /\ (u \in fresh'[a] <=> u \in fresh[a])
      BY <1>1, <2>1
    <2>3. QED
      BY <2>1, <2>2 DEF Untouched
  <1>10. QED
    BY <1>2, <1>3, <1>4, <1>5, <1>6, <1>7, <1>8, <1>9, <1>11 DEF TitleStep

LEMMA ListActs ==
  ASSUME TypeInv, ListStep
  PROVE  /\ UNCHANGED <<fresh, requestVars, sync, syncPlan, owes, unread>>
         /\ ~account'.cursor /\ account'.last \in Accounts /\ account'.last >= account.last
         /\ account'.id \in {0, account.last + 1}
         /\ \A t \in Titles : /\ lib'[t].in = lib[t].in /\ lib'[t].mode = lib[t].mode
                              /\ lib'[t].pinned = lib[t].pinned
         /\ \A a \in Accounts : a # account'.id => list'[a] = list[a]
         /\ account'.id # 0 => account'.last = account'.id
  <1>1. RowsTyped /\ ListsTyped
    BY DEF TypeInv
  <1>2. account.last \in Accounts /\ Accounts \subseteq Nat
    BY <1>1 DEF RowsTyped, Accounts
  <1>3. ASSUME NEW entries \in Entries, Link(entries)
        PROVE  /\ account' = [id |-> account.last + 1, last |-> account.last + 1, cursor |-> FALSE]
               /\ account.last < MaxAccounts /\ account.id = 0
               /\ UNCHANGED <<lib, fresh, requestVars, sync, syncPlan, owes, unread>>
               /\ list' = [list EXCEPT ![account.last + 1] = entries]
    BY <1>3 DEF Link, pastVars
  <1>4. CASE \E entries \in Entries : Link(entries)
    <2>1. account.last + 1 \in Accounts
      BY <1>2, <1>3, <1>4, Names DEF Accounts
    <2>2. /\ ~account'.cursor /\ account'.last = account.last + 1 /\ account'.id = account.last + 1
          /\ UNCHANGED <<lib, fresh, requestVars, sync, syncPlan, owes, unread>>
          /\ \E e : list' = [list EXCEPT ![account.last + 1] = e]
      BY <1>3, <1>4
    <2>3. \A a \in Accounts : a # account.last + 1 => list'[a] = list[a]
      <3>1. PICK e : list' = [list EXCEPT ![account.last + 1] = e]
        BY <2>2
      <3>2. list \in [Accounts -> [Titles -> Listings]]
        BY <1>1 DEF ListsTyped
      <3>3. QED
        BY <3>1, <3>2
    <2>4. account.last + 1 >= account.last
      <3>1. account.last \in Nat
        BY <1>2
      <3>2. QED
        BY <3>1
    <2>5. QED
      BY <2>1, <2>2, <2>3, <2>4
  <1>5. CASE Unlink
    <2>1. /\ account' = [account EXCEPT !.id = 0, !.cursor = FALSE]
          /\ UNCHANGED <<list, fresh, requestVars, sync, syncPlan, owes, unread>>
          /\ lib' = [t \in Titles |-> IF lib[t].from = account.id THEN [lib[t] EXCEPT !.from = 0]
                                      ELSE lib[t]]
      BY <1>5 DEF Unlink, pastVars
    <2>2. account'.id = 0 /\ account'.last = account.last /\ ~account'.cursor
      BY <1>1, <2>1 DEF RowsTyped
    <2>3. ASSUME NEW t \in Titles
          PROVE  lib'[t].in = lib[t].in /\ lib'[t].mode = lib[t].mode /\ lib'[t].pinned = lib[t].pinned
      <3>1. lib'[t] = lib[t] \/ lib'[t] = [lib[t] EXCEPT !.from = 0]
        BY <2>1
      <3>2. lib[t] \in Series
        BY <1>1 DEF RowsTyped
      <3>3. QED
        BY <3>1, <3>2 DEF Series
    <2>4. account.last >= account.last
      <3>1. account.last \in Nat
        BY <1>2
      <3>2. QED
        BY <3>1
    <2>5. QED
      BY <1>2, <2>1, <2>2, <2>3, <2>4
  <1>6. QED
    BY <1>4, <1>5 DEF ListStep

\* The steps, by what they are about.
LEMMA StepKinds ==
  ASSUME TypeInv, [SyncNext]_syncVars
  PROVE  \/ SyncTick \/ SyncNow \/ SyncStep \/ ListStep \/ WeekPasses \/ SyncRestart
         \/ UNCHANGED syncVars
         \/ \E t \in Titles : TitleStep(t)
  <1>1. syncPlan.titles \subseteq Titles
    BY Names DEF TypeInv, CountersTyped, SyncPlan
  <1>2. UserStep => ListStep \/ \E t \in Titles : TitleStep(t)
    BY <1>1 DEF UserStep, ListStep, TitleStep
  <1>3. RequestStep => \E t \in Titles : TitleStep(t)
    BY DEF RequestStep, TitleStep
  <1>4. QED
    BY <1>2, <1>3 DEF SyncNext

LEMMA AccountStays ==
  ASSUME TypeInv, [SyncNext]_syncVars
  PROVE  SyncsAnAccount'
  <1>1. SyncsAnAccount /\ RowsTyped /\ SyncTyped
    BY DEF TypeInv
  <1>2. account.last \in Nat /\ account.last # 0 /\ (account.id \in Accounts \/ account.id = 0)
    BY <1>1 DEF RowsTyped, Accounts
  <1>3. CASE sync' = IdleSync
    BY <1>3, IdleFields DEF SyncsAnAccount
  <1>4. ASSUME UNCHANGED account, sync'.account = sync.account, sync'.full = sync.full, sync.pc # "idle"
        PROVE  SyncsAnAccount'
    BY <1>1, <1>4 DEF SyncsAnAccount
  <1>5. CASE SyncTick \/ SyncNow
    <2>1. account.id \in Accounts /\ account.id <= account.last
      <3>1. account.id # 0 /\ account.id \in {0, account.last}
        BY <1>1, <1>5, Starts DEF RowsTyped
      <3>2. account.last <= account.last
        BY <1>2
      <3>3. QED
        BY <1>2, <3>1, <3>2
    <2>2. UNCHANGED account
      BY <1>5, Starts DEF userVars, accountVars
    <2>3. sync'.account = account.id /\ (~sync'.full => account.cursor)
      BY <1>5, Starts
    <2>4. QED
      BY <2>1, <2>2, <2>3 DEF SyncsAnAccount
  <1>6. CASE SyncFetch \/ SyncDetails
    <2>1. sync.pc # "idle" /\ UNCHANGED account
          /\ (sync' # IdleSync => sync'.account = sync.account /\ sync'.full = sync.full)
      BY <1>6, Fetches, AsksDetails DEF userVars, accountVars
    <2>2. QED
      BY <1>3, <1>4, <2>1
  <1>15. CASE SyncDrained \/ SyncRefreshToken \/ \E t \in Titles : SyncPage(t)
    <2>1. sync.pc # "idle" /\ UNCHANGED account /\ sync'.account = sync.account /\ sync'.full = sync.full
      BY <1>15, Pages, Drains, Refreshes DEF userVars, accountVars, SameFetch
    <2>2. QED
      BY <1>4, <2>1
  <1>16. CASE SyncDerive \/ SyncRows
    <2>1. sync.pc # "idle" /\ UNCHANGED account
          /\ (sync' # IdleSync => sync'.account = sync.account /\ sync'.full = sync.full)
      BY <1>16, Derives DEF accountVars, SameMerge
    <2>2. QED
      BY <1>3, <1>4, <2>1
  <1>7. CASE SyncLoad \/ MergeRead \/ MergeCreate \/ MergeStamp \/ MergeMode
    <2>1. CASE SyncLoad
      BY <1>4, <2>1, Loads DEF userVars, accountVars
    <2>2. CASE MergeRead
      BY <1>4, <2>2, Reads DEF userVars, accountVars, SameMerge
    <2>3. CASE MergeCreate
      BY <1>4, <2>3, Creates DEF accountVars, SameMerge
    <2>4. CASE MergeStamp
      BY <1>4, <2>4, Stamps DEF accountVars, SameMerge
    <2>5. CASE MergeMode
      BY <1>4, <2>5, SetsMode DEF accountVars, SameMerge
    <2>6. QED
      BY <1>7, <2>1, <2>2, <2>3, <2>4, <2>5
  <1>8. CASE MergeDone \/ SyncRemovals \/ RemovalsDone
    BY <1>4, <1>8, EntriesDone, ListsRemovals, RemovalsEnd DEF userVars, accountVars, SameSync
  <1>9. ASSUME NEW t \in Titles, MergeEntry(t) \/ RemovalApply(t)
        PROVE  SyncsAnAccount'
    <2>1. CASE MergeEntry(t)
      BY <1>4, <2>1, TakesEntry DEF userVars, accountVars, SameMerge
    <2>2. CASE RemovalApply(t)
      BY <1>3, <1>4, <2>2, RemovesOne DEF accountVars, SameSync
    <2>3. QED
      BY <1>9, <2>1, <2>2
  <1>10. ASSUME NEW t \in Titles, TitleStep(t)
         PROVE  SyncsAnAccount'
    <2>1. SamePlace /\ UNCHANGED account
      <3>1. ASSUME NEW keepOff \in BOOLEAN, RemoveSeries(t, keepOff)
            PROVE  SamePlace /\ UNCHANGED account
        BY <3>1, RemovesSeries DEF accountVars
      <3>2. ASSUME NEW mode \in Modes, Pin(t, mode)
            PROVE  SamePlace /\ UNCHANGED account
        BY <3>2, Pins DEF accountVars
      <3>3. ASSUME NEW status \in Listings, Edit(t, status)
            PROVE  SamePlace /\ UNCHANGED account
        BY <3>3, Edits
      <3>4. CASE DropExclusion(t)
        BY <3>4, DropsExclusion DEF accountVars
      <3>5. CASE RecordExclusion(t)
        BY <3>5 DEF RecordExclusion, accountVars, SamePlace
      <3>6. CASE AddSeries(t)
        BY <3>6, Adds DEF accountVars
      <3>7. CASE AllowAgain(t)
        BY <3>7, Allows DEF accountVars
      <3>8. CASE Unpin(t)
        BY <3>8, Unpins DEF accountVars
      <3>10. CASE DeriveRead(t) \/ DeriveWrite(t)
        BY <3>10, HandlerDerives DEF accountVars
      <3>9. QED
        BY <1>10, <3>1, <3>2, <3>3, <3>4, <3>5, <3>6, <3>7, <3>8, <3>10 DEF TitleStep
    <2>2. CASE sync.pc = "idle"
      BY <2>1, <2>2 DEF SyncsAnAccount, SamePlace
    <2>3. CASE sync.pc # "idle"
      BY <1>4, <2>1, <2>3 DEF SamePlace
    <2>4. QED
      BY <2>2, <2>3
  <1>11. CASE ListStep
    <2>1. /\ UNCHANGED sync /\ ~account'.cursor /\ account'.last >= account.last
          /\ account'.id \in {0, account.last + 1} /\ account'.last \in Nat
      BY <1>11, ListActs DEF Accounts
    <2>2. CASE sync.pc # "idle"
      <3>1. sync.account \in Accounts /\ sync.account \in Nat /\ sync.account <= account.last /\ sync.account # 0
        BY <1>1, <2>2 DEF SyncsAnAccount, Accounts
      <3>2. sync.account # account.last + 1 /\ sync.account <= account'.last
        BY <1>2, <2>1, <3>1
      <3>3. QED
        BY <2>1, <3>1, <3>2 DEF SyncsAnAccount
    <2>3. QED
      BY <2>1, <2>2 DEF SyncsAnAccount
  <1>12. CASE WeekPasses \/ UNCHANGED syncVars
    BY <1>1, <1>12 DEF WeekPasses, syncVars, userVars, accountVars, SyncsAnAccount
  <1>13. SyncStamp \/ SyncRestart => sync' = IdleSync
    BY DEF SyncStamp, SyncRestart
  <1>14. QED
    BY <1>3, <1>5, <1>6, <1>7, <1>8, <1>9, <1>10, <1>11, <1>12, <1>13, <1>15, <1>16, StepKinds DEF SyncStep

LEMMA TypesBegin == SyncInit => TypeInv
  <1> SUFFICES ASSUME SyncInit
               PROVE  TypeInv
    OBVIOUS
  <1>1. RowsTyped
    BY Names DEF SyncInit, RowsTyped, Series, Rows, NoSeries, Modes
  <1>2. ListsTyped
    <2>1. PICK entries \in Entries :
            list = [a \in Accounts |-> IF a = 1 THEN entries ELSE [t \in Titles |-> "absent"]]
      BY DEF SyncInit
    <2>2. entries \in [Titles -> Listings] /\ [t \in Titles |-> "absent"] \in [Titles -> Listings]
      BY DEF Entries, Listings
    <2>3. list \in [Accounts -> [Titles -> Listings]]
      BY <2>1, <2>2
    <2>4. QED
      BY <2>3 DEF SyncInit, ListsTyped
  <1>6. DerivesTyped
    BY DEF SyncInit, DerivesTyped
  <1>3. SyncTyped /\ SyncsAnAccount
    BY IdleTyped, IdleFields DEF SyncInit, SyncTyped, SyncsAnAccount, AtEntry
  <1>4. CountersTyped
    <2>1. syncPlan \in SyncPlans /\ syncPlan.acts \in Nat /\ syncPlan.atMost \in Nat
      BY Names DEF SyncInit, SyncPlan
    <2>2. \A n \in Nat : 0 \in 0 .. n
      OBVIOUS
    <2>3. QED
      BY <2>1, <2>2 DEF SyncInit, CountersTyped
  <1>5. QED
    BY <1>1, <1>2, <1>3, <1>4, <1>6 DEF TypeInv

LEMMA TypesStay == TypeInv /\ [SyncNext]_syncVars => TypeInv'
  BY RowsStayTyped, ListsStayTyped, DerivesStayTyped, SyncStaysTyped, CountersStayTyped, AccountStays DEF TypeInv

LEMMA TypesAlways == SyncSpec => []TypeInv
  BY TypesBegin, TypesStay, PTL DEF SyncSpec

\* The rows, the sync under way and the counters are well-formed, and a series names the
\* linked account or none.
THEOREM ListSyncTyped == SyncSpec => []SyncTypeOK
  <1>1. TypeInv => SyncTypeOK
    <2> SUFFICES ASSUME TypeInv
                 PROVE  SyncTypeOK
      OBVIOUS
    <2>1. RowsTyped /\ ListsTyped /\ DerivesTyped /\ SyncTyped /\ CountersTyped
      BY DEF TypeInv
    <2>2. QED
      BY <2>1, Zenon DEF RowsTyped, ListsTyped, DerivesTyped, SyncTyped, CountersTyped, SyncState, Steps, Series, Rows, AtEntry, SyncTypeOK
  <1>2. QED
    BY <1>1, TypesAlways, PTL

-------------------------------------------------------------------------------
(* Pins and exclusions *)

Merging == {"merge"} \cup AtEntry

\* A pinned series is in the library.  One that was pinned all along is still pinned, is no
\* entry that gets a mode, and is on no list of removals.
PinStands(t) ==
  /\ lib[t].pinned => lib[t].in
  /\ sync.pc # "idle" /\ sync.stay[t] = "pinned" =>
       /\ lib[t].pinned
       /\ sync.pc \in {"create", "mode"} => sync.cur # t
       /\ sync.pc = "stamp" /\ sync.cur = t => sync.row.pinned /\ ~sync.row.new
       /\ sync.pc = "removing" => t \notin sync.todo

\* A title that was out and excluded all along is so still, was read as excluded, and is not
\* the entry being merged.
BarStands(t) ==
  sync.pc # "idle" /\ t \in sync.barred =>
    /\ t \in excluded /\ ~lib[t].in
    /\ sync.pc \in Merging => t \in sync.out
    /\ sync.pc \in AtEntry => sync.cur # t

PinsStand == \A t \in Titles : PinStands(t)
BarsStand == \A t \in Titles : BarStands(t)
Readable == "load" \notin syncPlan.faults

LEMMA SyncKept ==
  ASSUME TypeInv, SyncStep
  PROVE  /\ sync'.pc # "idle" => sync'.stay = sync.stay /\ sync'.barred = sync.barred
         /\ sync.pc # "idle"
         /\ UNCHANGED excluded
  <1>1. CASE SyncFetch \/ SyncDetails
    BY <1>1, Fetches, AsksDetails, IdleFields DEF userVars, requestVars
  <1>14. CASE SyncDrained \/ SyncRefreshToken \/ \E t \in Titles : SyncPage(t)
    BY <1>14, Pages, Drains, Refreshes DEF userVars, requestVars, SameFetch
  <1>15. CASE SyncDerive \/ SyncRows
    BY <1>15, Derives, IdleFields DEF requestVars, SameMerge
  <1>2. CASE SyncLoad
    BY <1>2, Loads DEF userVars, requestVars
  <1>3. CASE MergeRead
    BY <1>3, Reads DEF userVars, requestVars, SameMerge
  <1>4. CASE MergeCreate
    BY <1>4, Creates DEF requestVars, SameMerge
  <1>5. CASE MergeStamp
    BY <1>5, Stamps DEF requestVars, SameMerge
  <1>6. CASE MergeMode
    BY <1>6, SetsMode DEF requestVars, SameMerge
  <1>7. CASE MergeDone
    BY <1>7, EntriesDone DEF userVars, requestVars, SameSync
  <1>8. CASE SyncRemovals
    BY <1>8, ListsRemovals DEF userVars, requestVars, SameSync
  <1>9. CASE RemovalsDone
    BY <1>9, RemovalsEnd DEF userVars, requestVars, SameSync
  <1>10. CASE SyncStamp
    BY <1>10, IdleFields DEF SyncStamp, requestVars
  <1>11. ASSUME NEW t \in Titles, MergeEntry(t)
         PROVE  /\ sync'.pc # "idle" => sync'.stay = sync.stay /\ sync'.barred = sync.barred
                /\ sync.pc # "idle" /\ UNCHANGED excluded
    BY <1>11, TakesEntry DEF userVars, requestVars, SameMerge
  <1>12. ASSUME NEW t \in Titles, RemovalApply(t)
         PROVE  /\ sync'.pc # "idle" => sync'.stay = sync.stay /\ sync'.barred = sync.barred
                /\ sync.pc # "idle" /\ UNCHANGED excluded
    BY <1>12, RemovesOne, IdleFields DEF requestVars, SameSync
  <1>13. QED
    BY <1>1, <1>2, <1>3, <1>4, <1>5, <1>6, <1>7, <1>8, <1>9, <1>10, <1>11, <1>12, <1>14, <1>15 DEF SyncStep

\* A sync's step sets the mode of at most one series, and brings back at most one.
LEMMA SyncWrites ==
  ASSUME TypeInv, SyncStep, NEW t \in Titles
  PROVE  /\ lib'[t].pinned = lib[t].pinned \/ (~lib[t].in /\ MergeCreate)
         /\ lib[t].in => lib'[t].in
         /\ ~lib[t].in /\ lib'[t].in => sync.pc = "create" /\ sync.cur = t /\ ~lib'[t].pinned
         /\ lib'[t].mode # lib[t].mode =>
              \/ sync.pc \in {"create", "mode"} /\ sync.cur = t
              \/ sync.pc = "removing" /\ t \in sync.todo
         /\ ~lib[t].in /\ ~lib'[t].in => lib'[t].pinned = lib[t].pinned
  <1>1. lib \in [Titles -> Series] /\ lib[t] \in Series
    BY DEF TypeInv, RowsTyped
  <1>2. CASE UNCHANGED lib
    BY <1>2
  <1>3. CASE MergeCreate
    <2>1. sync.pc = "create" /\ (UNCHANGED lib \/ (~lib[sync.cur].in /\ lib' = [lib EXCEPT ![sync.cur] = NewSeries]))
      BY <1>3, Creates
    <2>2. NewSeries.in /\ ~NewSeries.pinned
      BY DEF NewSeries, NoSeries
    <2>3. QED
      BY <1>1, <1>3, <2>1, <2>2
  <1>4. CASE MergeStamp
    <2>1. UNCHANGED lib \/ \E a : lib' = [lib EXCEPT ![sync.cur].from = a]
      BY <1>4, Stamps
    <2>2. lib'[t] = lib[t] \/ \E a : lib'[t] = [lib[t] EXCEPT !.from = a]
      BY <1>1, <2>1
    <2>3. lib'[t].in = lib[t].in /\ lib'[t].mode = lib[t].mode /\ lib'[t].pinned = lib[t].pinned
      BY <1>1, <2>2 DEF Series
    <2>4. QED
      BY <2>3
  <1>5. ASSUME NEW u \in Titles, NEW m, lib' = [lib EXCEPT ![u].mode = m],
               \/ sync.pc = "mode" /\ sync.cur = u
               \/ sync.pc = "removing" /\ u \in sync.todo
        PROVE  /\ lib'[t].in = lib[t].in /\ lib'[t].pinned = lib[t].pinned
               /\ lib'[t].mode # lib[t].mode =>
                    \/ sync.pc \in {"create", "mode"} /\ sync.cur = t
                    \/ sync.pc = "removing" /\ t \in sync.todo
    <2>1. CASE t # u
      BY <1>1, <1>5, <2>1
    <2>2. CASE t = u
      BY <1>1, <1>5, <2>2 DEF Series
    <2>3. QED
      BY <2>1, <2>2
  <1>6. CASE MergeMode
    <2>1. UNCHANGED lib \/ lib' = [lib EXCEPT ![sync.cur].mode = ModeFor(sync.entries[sync.cur])]
      BY <1>6, SetsMode
    <2>2. sync.pc = "mode" /\ sync.cur \in Titles
      BY <1>6, SetsMode, AtTitle DEF AtEntry
    <2>3. QED
      BY <1>2, <1>5, <2>1, <2>2
  <1>7. ASSUME NEW u \in Titles, RemovalApply(u)
        PROVE  UNCHANGED lib \/ (lib' = [lib EXCEPT ![u].mode = "none"] /\ sync.pc = "removing" /\ u \in sync.todo)
    BY <1>7, RemovesOne
  <1>8. CASE \E u \in Titles : RemovalApply(u)
    BY <1>2, <1>5, <1>7, <1>8
  <1>11. CASE SyncDerive \/ SyncRows
    BY <1>11, Derives DEF SameRow
  <1>9. CASE SyncFetch \/ SyncDrained \/ SyncRefreshToken \/ SyncDetails \/ SyncLoad \/ MergeRead \/ MergeDone
             \/ SyncRemovals \/ RemovalsDone \/ SyncStamp \/ \E u \in Titles : SyncPage(u) \/ MergeEntry(u)
    <2>1. UNCHANGED lib
      BY <1>9 DEF SyncFetch, SyncPage, SyncDrained, SyncRefreshToken, SyncDetails, SyncLoad, MergeRead, MergeDone, SyncRemovals, RemovalsDone, SyncStamp,
        MergeEntry, userVars
    <2>2. QED
      BY <1>2, <2>1
  <1>10. QED
    BY <1>3, <1>4, <1>6, <1>8, <1>9, <1>11 DEF SyncStep

LEMMA PinStandsInSync ==
  ASSUME TypeInv, SyncStep, NEW t \in Titles, PinStands(t)
  PROVE  PinStands(t)'
  <1> DEFINE Placed == /\ sync'.pc \in {"create", "mode"} => sync'.cur # t
                       /\ sync'.pc = "stamp" /\ sync'.cur = t => sync'.row.pinned /\ ~sync'.row.new
                       /\ sync'.pc = "removing" => t \notin sync'.todo
  <1>1. lib'[t].pinned => lib'[t].in
    BY SyncWrites DEF PinStands
  <1>2. CASE sync'.pc = "idle"
    BY <1>1, <1>2 DEF PinStands
  <1>3. ASSUME sync'.pc # "idle", sync'.stay[t] = "pinned"
        PROVE  lib'[t].pinned /\ Placed
    <2>1. sync.stay[t] = "pinned" /\ sync.pc # "idle"
      BY <1>3, SyncKept
    <2>2. /\ lib[t].pinned /\ lib[t].in
          /\ sync.pc \in {"create", "mode"} => sync.cur # t
          /\ sync.pc = "stamp" /\ sync.cur = t => sync.row.pinned /\ ~sync.row.new
          /\ sync.pc = "removing" => t \notin sync.todo
      BY <2>1 DEF PinStands
    <2>3. lib'[t].pinned
      BY <2>2, SyncWrites
    <2>4. sync'.pc \notin {"create", "mode", "stamp", "removing"} => Placed
      OBVIOUS
    <2>5. MergeRead => Placed
      <3> SUFFICES ASSUME MergeRead PROVE Placed
        OBVIOUS
      <3>1. \/ /\ lib[sync.cur].in /\ sync'.pc = "stamp" /\ sync'.cur = sync.cur /\ ~sync'.row.new
               /\ (sync'.row.pinned <=> lib[sync.cur].pinned)
            \/ Ended \/ Failed
            \/ ~lib[sync.cur].in /\ sync'.pc = "create" /\ sync'.cur = sync.cur
        BY Reads
      <3>2. CASE Ended \/ Failed
        BY <2>4, <3>2 DEF Ended, Failed
      <3>3. CASE lib[sync.cur].in /\ sync'.pc = "stamp" /\ sync'.cur = sync.cur /\ ~sync'.row.new
                 /\ (sync'.row.pinned <=> lib[sync.cur].pinned)
        BY <2>2, <3>3
      <3>4. CASE ~lib[sync.cur].in /\ sync'.pc = "create" /\ sync'.cur = sync.cur
        BY <2>2, <3>4
      <3>5. QED
        BY <3>1, <3>2, <3>3, <3>4
    <2>6. MergeCreate => Placed
      <3>1. MergeCreate => /\ sync.pc = "create"
                           /\ (sync'.pc = "stamp" /\ sync'.cur = sync.cur) \/ sync'.pc = "merge"
        BY Creates DEF Failed
      <3>2. QED
        BY <2>2, <3>1
    <2>7. MergeStamp => Placed
      <3> SUFFICES ASSUME MergeStamp PROVE Placed
        OBVIOUS
      <3>1. sync.pc = "stamp" /\ (sync'.pc = "merge" \/ (sync'.pc = "mode" /\ sync'.cur = sync.cur))
        BY Stamps
      <3>2. sync'.pc = "mode" => sync.row.new \/ ~sync.row.pinned
        BY Stamps
      <3>3. QED
        BY <2>2, <3>1, <3>2
    <2>8. SyncRemovals => Placed
      <3>1. SyncRemovals => sync'.pc = "removing" /\ (t \in sync'.todo => ~lib[t].pinned)
        BY ListsRemovals
      <3>2. QED
        BY <2>2, <3>1
    <2>9. (\E u \in Titles : RemovalApply(u)) => Placed
      <3> SUFFICES ASSUME NEW u \in Titles, RemovalApply(u)
                   PROVE  Placed
        OBVIOUS
      <3>1. sync.pc = "removing" /\ (sync'.pc = "idle" \/ (sync'.pc = "removing" /\ sync'.todo = sync.todo \ {u}))
        BY RemovesOne, IdleFields
      <3>2. QED
        BY <2>2, <3>1
    <2>10. (\E u \in Titles : MergeEntry(u)) => Placed
      <3>1. \A u \in Titles : MergeEntry(u) => sync'.pc \in {"merge", "read"}
        BY TakesEntry
      <3>2. QED
        BY <3>1
    <2>14. SyncDerive \/ SyncRows => Placed
      <3> SUFFICES ASSUME SyncDerive \/ SyncRows PROVE Placed
        OBVIOUS
      <3>1. \/ sync'.pc = "idle" \/ sync'.pc = "merge"
            \/ sync'.pc = "removing" /\ sync.pc = "removing" /\ sync'.todo = sync.todo
        BY Derives, IdleFields
      <3>2. QED
        BY <2>2, <3>1
    <2>15. SyncDrained \/ SyncRefreshToken \/ (\E u \in Titles : SyncPage(u)) => Placed
      BY <2>4, Pages, Drains, Refreshes
    <2>11. SyncFetch \/ SyncDetails \/ SyncLoad \/ MergeMode \/ MergeDone \/ RemovalsDone \/ SyncStamp
             => sync'.pc \notin {"create", "mode", "stamp", "removing"}
      <3>1. SyncStamp => sync'.pc = "idle"
        BY IdleFields DEF SyncStamp
      <3>2. QED
        BY <3>1, Fetches, AsksDetails, Loads, SetsMode, EntriesDone, RemovalsEnd, IdleFields DEF Ended, Failed
    <2>12. Placed
      <3> HIDE DEF Placed
      <3>1. QED
        BY <2>4, <2>5, <2>6, <2>7, <2>8, <2>9, <2>10, <2>11, <2>14, <2>15 DEF SyncStep
    <2>13. QED
      BY <2>3, <2>12
  <1>4. QED
    BY <1>1, <1>2, <1>3 DEF PinStands

LEMMA BarStandsInSync ==
  ASSUME TypeInv, SyncStep, Readable, NEW t \in Titles, BarStands(t)
  PROVE  BarStands(t)'
  <1> SUFFICES ASSUME sync'.pc # "idle", t \in sync'.barred
               PROVE  /\ t \in excluded' /\ ~lib'[t].in
                      /\ sync'.pc \in Merging => t \in sync'.out
                      /\ sync'.pc \in AtEntry => sync'.cur # t
    BY DEF BarStands
  <1>1. t \in sync.barred /\ sync.pc # "idle" /\ UNCHANGED excluded
    BY SyncKept
  <1>2. /\ t \in excluded /\ ~lib[t].in
        /\ sync.pc \in Merging => t \in sync.out
        /\ sync.pc \in AtEntry => sync.cur # t
    BY <1>1 DEF BarStands
  <1>3. ~lib'[t].in
    BY <1>2, SyncWrites DEF AtEntry
  <1>4. CASE sync'.pc \notin Merging
    BY <1>1, <1>2, <1>3, <1>4 DEF Merging
  <1>5. CASE SyncLoad
    <2>1. sync'.pc = "merge" /\ sync'.out = excluded
      BY <1>5, Loads DEF Readable
    <2>2. QED
      BY <1>1, <1>2, <1>3, <2>1 DEF AtEntry
  <1>6. ASSUME NEW u \in Titles, MergeEntry(u)
        PROVE  /\ sync'.pc \in Merging => t \in sync'.out
               /\ sync'.pc \in AtEntry => sync'.cur # t
    <2>1. sync'.out = sync.out /\ sync.pc = "merge"
          /\ (sync'.pc = "merge" \/ (sync'.cur = u /\ (u \notin sync.out \/ lib[u].in)))
      BY <1>6, TakesEntry DEF SameMerge
    <2>2. t \in sync.out
      BY <1>2, <2>1 DEF Merging
    <2>3. QED
      BY <1>2, <2>1, <2>2 DEF AtEntry
  <1>7. ASSUME sync'.out = sync.out, sync.pc \in AtEntry, sync'.cur = sync.cur \/ sync'.pc = "merge"
        PROVE  /\ sync'.pc \in Merging => t \in sync'.out
               /\ sync'.pc \in AtEntry => sync'.cur # t
    BY <1>2, <1>7 DEF Merging, AtEntry
  <1>8. CASE MergeRead
    <2>1. sync'.out = sync.out /\ sync.pc = "read" /\ (sync'.cur = sync.cur \/ sync'.pc = "merge")
      BY <1>8, Reads DEF SameMerge, Ended, Failed
    <2>2. QED
      BY <1>1, <1>2, <1>3, <1>7, <2>1 DEF AtEntry
  <1>9. CASE MergeCreate
    <2>1. sync'.out = sync.out /\ sync.pc = "create" /\ (sync'.cur = sync.cur \/ sync'.pc = "merge")
      BY <1>9, Creates DEF SameMerge, Failed
    <2>2. QED
      BY <1>1, <1>2, <1>3, <1>7, <2>1 DEF AtEntry
  <1>10. CASE MergeStamp
    <2>1. sync'.out = sync.out /\ sync.pc = "stamp" /\ (sync'.cur = sync.cur \/ sync'.pc = "merge")
      BY <1>10, Stamps DEF SameMerge
    <2>2. QED
      BY <1>1, <1>2, <1>3, <1>7, <2>1 DEF AtEntry
  <1>11. CASE MergeMode
    <2>1. sync'.out = sync.out /\ sync.pc = "mode" /\ sync'.pc = "merge"
      BY <1>11, SetsMode DEF SameMerge, Ended, Failed
    <2>2. QED
      BY <1>1, <1>2, <1>3, <1>7, <2>1 DEF AtEntry
  <1>15. ASSUME SyncDerive \/ SyncRows
         PROVE  /\ sync'.pc \in Merging => t \in sync'.out
                /\ sync'.pc \in AtEntry => sync'.cur # t
    <2>1. sync'.pc \notin AtEntry
          /\ (sync'.pc = "merge" => sync.pc = "merge" /\ sync'.out = sync.out)
      BY <1>15, Derives, IdleFields DEF AtEntry, SameMerge
    <2>2. QED
      BY <1>2, <2>1 DEF Merging
  <1>16. SyncDrained \/ SyncRefreshToken \/ (\E u \in Titles : SyncPage(u)) => sync'.pc \notin Merging
    BY Pages, Drains, Refreshes DEF Merging, AtEntry
  <1>12. SyncFetch \/ SyncDetails \/ MergeDone \/ SyncRemovals \/ RemovalsDone \/ SyncStamp
           => sync'.pc \notin Merging
    <2>1. SyncStamp => sync'.pc = "idle"
      BY IdleFields DEF SyncStamp
    <2>2. QED
      BY <2>1, Fetches, AsksDetails, EntriesDone, ListsRemovals, RemovalsEnd, IdleFields DEF Merging, AtEntry
  <1>13. ASSUME NEW u \in Titles, RemovalApply(u)
         PROVE  sync'.pc \notin Merging
    BY <1>13, RemovesOne, IdleFields DEF Merging, AtEntry
  <1>14. QED
    BY <1>1, <1>2, <1>3, <1>4, <1>5, <1>6, <1>8, <1>9, <1>10, <1>11, <1>12, <1>13, <1>15, <1>16 DEF SyncStep

LEMMA UserLeavesThem ==
  ASSUME TypeInv, NEW t \in Titles, TitleStep(t)
  PROVE  PinStands(t) => PinStands(t)'
  <1> SUFFICES ASSUME PinStands(t)
               PROVE  PinStands(t)'
    OBVIOUS
  <1>1. lib \in [Titles -> Series] /\ lib[t] \in Series /\ sync.stay \in [Titles -> {"pinned", "free", "changed"}]
    BY DEF TypeInv, RowsTyped, SyncTyped, SyncState
  <1>2. ASSUME SamePlace, sync'.stay[t] = sync.stay[t], lib'[t] = lib[t]
        PROVE  PinStands(t)'
    BY <1>2 DEF PinStands, SamePlace
  <1>3. ASSUME sync'.stay[t] = "changed", lib'[t].pinned => lib'[t].in
        PROVE  PinStands(t)'
    BY <1>3 DEF PinStands
  <1>4. CASE RecordExclusion(t)
    BY <1>2, <1>4 DEF RecordExclusion, SamePlace
  <1>13. CASE DeriveRead(t) \/ DeriveWrite(t)
    BY <1>13, HandlerDerives DEF PinStands, SamePlace, SameRow
  <1>5. CASE DropExclusion(t)
    <2>1. SamePlace /\ sync'.stay = sync.stay /\ lib' = lib
      BY <1>5, DropsExclusion
    <2>2. QED
      BY <1>2, <2>1
  <1>6. CASE AddSeries(t)
    <2>1. CASE lib[t].in
      <3>1. SamePlace /\ sync'.stay = sync.stay /\ lib' = lib
        BY <1>6, <2>1, Adds
      <3>2. QED
        BY <1>2, <3>1
    <2>2. CASE ~lib[t].in
      <3>1. SamePlace /\ sync'.stay = sync.stay /\ lib'[t] = NewSeries
        <4>1. SamePlace /\ sync'.stay = sync.stay /\ lib' = [lib EXCEPT ![t] = NewSeries]
          BY <1>6, <2>2, Adds
        <4>2. QED
          BY <1>1, <4>1
      <3>2. NewSeries.in
        BY DEF NewSeries, NoSeries
      <3>3. sync.pc # "idle" => sync.stay[t] # "pinned"
        BY <2>2 DEF PinStands
      <3>4. QED
        BY <3>1, <3>2, <3>3 DEF PinStands, SamePlace
    <2>3. QED
      BY <2>1, <2>2
  <1>7. CASE AllowAgain(t)
    <2>1. SamePlace /\ sync'.stay = sync.stay /\ lib' = lib
      BY <1>7, Allows
    <2>2. QED
      BY <1>2, <2>1
  <1>8. CASE Unpin(t)
    <2>1. sync'.stay[t] = "changed" /\ lib'[t] = [lib[t] EXCEPT !.pinned = FALSE]
      <3>1. sync'.stay = [sync.stay EXCEPT ![t] = "changed"] /\ lib' = [lib EXCEPT ![t].pinned = FALSE]
        BY <1>8, Unpins
      <3>2. QED
        BY <1>1, <3>1
    <2>2. ~lib'[t].pinned
      BY <1>1, <2>1 DEF Series
    <2>3. QED
      BY <1>3, <2>1, <2>2
  <1>9. ASSUME NEW keepOff \in BOOLEAN, RemoveSeries(t, keepOff)
        PROVE  PinStands(t)'
    <2>1. lib'[t] = NoSeries /\ SamePlace
      <3>1. lib' = [lib EXCEPT ![t] = NoSeries] /\ SamePlace
        BY <1>9, RemovesSeries
      <3>2. QED
        BY <1>1, <3>1
    <2>2. ~lib'[t].pinned
      BY <2>1 DEF NoSeries
    <2>3. CASE sync.pc # "idle"
      <3>1. sync'.stay[t] = "changed"
        <4>1. sync'.stay = [sync.stay EXCEPT ![t] = "changed"]
          BY <1>9, <2>3, RemovesSeries
        <4>2. QED
          BY <1>1, <4>1
      <3>2. QED
        BY <1>3, <2>2, <3>1
    <2>4. CASE sync.pc = "idle"
      BY <2>1, <2>2, <2>4 DEF PinStands, SamePlace
    <2>5. QED
      BY <2>3, <2>4
  <1>10. ASSUME NEW mode \in Modes, Pin(t, mode)
         PROVE  PinStands(t)'
    <2>1. /\ SamePlace /\ lib[t].in /\ lib'[t] = [lib[t] EXCEPT !.mode = mode, !.pinned = TRUE]
          /\ IF lib[t].pinned THEN sync'.stay[t] = sync.stay[t] ELSE sync'.stay[t] = "changed"
      <3>1. /\ SamePlace /\ lib[t].in /\ lib' = [lib EXCEPT ![t].mode = mode, ![t].pinned = TRUE]
            /\ IF lib[t].pinned THEN sync'.stay = sync.stay ELSE sync'.stay = [sync.stay EXCEPT ![t] = "changed"]
        BY <1>10, Pins
      <3>2. lib'[t] = [lib[t] EXCEPT !.mode = mode, !.pinned = TRUE]
        BY <1>1, <3>1
      <3>3. IF lib[t].pinned THEN sync'.stay[t] = sync.stay[t] ELSE sync'.stay[t] = "changed"
        BY <1>1, <3>1
      <3>4. QED
        BY <3>1, <3>2, <3>3
    <2>2. lib'[t].pinned /\ lib'[t].in
      BY <1>1, <2>1 DEF Series
    <2>3. CASE lib[t].pinned
      BY <2>1, <2>2, <2>3 DEF PinStands, SamePlace
    <2>4. CASE ~lib[t].pinned
      BY <1>3, <2>1, <2>2, <2>4
    <2>5. QED
      BY <2>3, <2>4
  <1>11. ASSUME NEW status \in Listings, Edit(t, status)
         PROVE  PinStands(t)'
    BY <1>2, <1>11, Edits
  <1>12. QED
    BY <1>4, <1>5, <1>6, <1>7, <1>8, <1>9, <1>10, <1>11, <1>13 DEF TitleStep

LEMMA UserLeavesBarred ==
  ASSUME TypeInv, NEW t \in Titles, TitleStep(t)
  PROVE  BarStands(t) => BarStands(t)'
  <1> SUFFICES ASSUME BarStands(t)
               PROVE  BarStands(t)'
    OBVIOUS
  <1>1. lib \in [Titles -> Series] /\ lib[t] \in Series
    BY DEF TypeInv, RowsTyped
  <1>2. ASSUME SamePlace, t \in sync'.barred => t \in sync.barred /\ t \in excluded', lib'[t].in => lib[t].in
        PROVE  BarStands(t)'
    BY <1>2 DEF BarStands, SamePlace
  <1>4. ASSUME SamePlace, sync.pc = "idle"
        PROVE  BarStands(t)'
    BY <1>4 DEF BarStands, SamePlace
  <1>5. ASSUME SamePlace, sync.pc # "idle", sync'.barred \subseteq sync.barred,
               t \in sync'.barred => t \in excluded', lib'[t].in => lib[t].in
        PROVE  BarStands(t)'
    BY <1>2, <1>5
  <1>6. t \in sync.barred /\ sync.pc # "idle" => t \in excluded
    BY DEF BarStands
  <1>7. CASE RecordExclusion(t)
    <2>1. SamePlace /\ sync'.barred = sync.barred /\ excluded' = excluded \cup {t} /\ lib' = lib
      BY <1>7 DEF RecordExclusion, SamePlace
    <2>2. QED
      BY <1>4, <1>5, <2>1
  <1>15. CASE DeriveRead(t) \/ DeriveWrite(t)
    BY <1>15, HandlerDerives DEF BarStands, SamePlace, SameRow
  <1>8. CASE DropExclusion(t)
    <2>1. SamePlace /\ sync'.barred \subseteq sync.barred /\ lib' = lib
          /\ (t \in sync'.barred => excluded' = excluded)
      BY <1>8, DropsExclusion
    <2>2. QED
      BY <1>4, <1>5, <1>6, <2>1
  <1>9. CASE AddSeries(t) \/ AllowAgain(t)
    <2>1. SamePlace /\ sync'.barred = sync.barred \ {t}
      BY <1>9, Adds, Allows
    <2>2. QED
      BY <2>1 DEF BarStands, SamePlace
  <1>10. CASE Unpin(t)
    <2>1. SamePlace /\ sync'.barred = sync.barred /\ UNCHANGED excluded /\ lib[t].in
      BY <1>10, Unpins DEF requestVars
    <2>2. sync.pc # "idle" => t \notin sync.barred
      BY <2>1 DEF BarStands
    <2>3. QED
      BY <2>1, <2>2 DEF BarStands, SamePlace
  <1>11. ASSUME NEW keepOff \in BOOLEAN, RemoveSeries(t, keepOff)
         PROVE  BarStands(t)'
    <2>1. SamePlace /\ sync'.barred = sync.barred /\ lib[t].in
      BY <1>11, RemovesSeries
    <2>2. sync.pc # "idle" => t \notin sync.barred
      BY <2>1 DEF BarStands
    <2>3. QED
      BY <2>1, <2>2 DEF BarStands, SamePlace
  <1>12. ASSUME NEW mode \in Modes, Pin(t, mode)
         PROVE  BarStands(t)'
    <2>1. SamePlace /\ sync'.barred = sync.barred /\ lib[t].in
      BY <1>12, Pins
    <2>2. sync.pc # "idle" => t \notin sync.barred
      BY <2>1 DEF BarStands
    <2>3. QED
      BY <2>1, <2>2 DEF BarStands, SamePlace
  <1>13. ASSUME NEW status \in Listings, Edit(t, status)
         PROVE  BarStands(t)'
    <2>1. SamePlace /\ sync'.barred = sync.barred /\ UNCHANGED <<excluded, lib>>
      BY <1>13, Edits DEF requestVars
    <2>2. QED
      BY <1>4, <1>5, <1>6, <2>1
  <1>14. QED
    BY <1>7, <1>8, <1>9, <1>10, <1>11, <1>12, <1>13, <1>15 DEF TitleStep

LEMMA PinsBegin == SyncInit => PinsStand /\ (Readable => BarsStand)
  BY IdleFields DEF SyncInit, PinsStand, PinStands, BarsStand, BarStands, NoSeries

\* A step that keeps a title's row, its marks and its place in the sync.
LEMMA PlaceKept ==
  ASSUME NEW t \in Titles, Untouched(t), PinStands(t)
  PROVE  PinStands(t)'
  BY DEF Untouched, SamePlace, PinStands

LEMMA BarKept ==
  ASSUME NEW t \in Titles, Untouched(t), BarStands(t)
  PROVE  BarStands(t)'
  BY DEF Untouched, SamePlace, BarStands

LEMMA PinsStay == TypeInv /\ PinsStand /\ [SyncNext]_syncVars => PinsStand'
  <1> SUFFICES ASSUME TypeInv, PinsStand, [SyncNext]_syncVars, NEW t \in Titles
               PROVE  PinStands(t)'
    BY DEF PinsStand
  <1>1. PinStands(t)
    BY DEF PinsStand
  <1>2. CASE SyncTick \/ SyncNow
    <2>1. lib' = lib /\ sync'.pc = "fetch" /\ sync'.stay[t] = (IF lib[t].pinned THEN "pinned" ELSE "free")
      BY <1>2, Starts DEF userVars
    <2>2. QED
      BY <1>1, <2>1 DEF PinStands
  <1>3. CASE SyncStep
    BY <1>1, <1>3, PinStandsInSync
  <1>4. CASE ListStep
    <2>1. lib'[t].in = lib[t].in /\ lib'[t].pinned = lib[t].pinned /\ sync' = sync
      BY <1>4, ListActs
    <2>2. QED
      BY <1>1, <2>1 DEF PinStands
  <1>5. CASE SyncRestart
    <2>1. lib' = lib /\ sync'.pc = "idle"
      BY <1>5, IdleFields DEF SyncRestart
    <2>2. QED
      BY <1>1, <2>1 DEF PinStands
  <1>6. CASE WeekPasses \/ UNCHANGED syncVars
    <2>1. lib' = lib /\ sync' = sync
      BY <1>6 DEF WeekPasses, syncVars, userVars
    <2>2. QED
      BY <1>1, <2>1 DEF PinStands
  <1>7. ASSUME NEW u \in Titles, TitleStep(u)
        PROVE  PinStands(t)'
    <2>1. CASE u = t
      BY <1>1, <1>7, <2>1, UserLeavesThem
    <2>2. CASE u # t
      <3>1. Untouched(t)
        BY <1>7, <2>2, OthersStay
      <3>2. QED
        BY <1>1, <3>1, PlaceKept
    <2>3. QED
      BY <2>1, <2>2
  <1>8. QED
    BY <1>2, <1>3, <1>4, <1>5, <1>6, <1>7, StepKinds

LEMMA BarsStay == TypeInv /\ Readable /\ BarsStand /\ [SyncNext]_syncVars => BarsStand'
  <1> SUFFICES ASSUME TypeInv, Readable, BarsStand, [SyncNext]_syncVars, NEW t \in Titles
               PROVE  BarStands(t)'
    BY DEF BarsStand
  <1>1. BarStands(t)
    BY DEF BarsStand
  <1>2. CASE SyncTick \/ SyncNow
    <2>1. /\ lib' = lib /\ excluded' = excluded /\ sync'.pc = "fetch"
          /\ t \in sync'.barred => t \in excluded /\ ~lib[t].in
      BY <1>2, Starts DEF userVars, requestVars
    <2>2. QED
      BY <2>1 DEF BarStands, Merging, AtEntry
  <1>3. CASE SyncStep
    BY <1>1, <1>3, BarStandsInSync
  <1>4. CASE ListStep
    <2>1. lib'[t].in = lib[t].in /\ sync' = sync /\ excluded' = excluded
      BY <1>4, ListActs DEF requestVars
    <2>2. QED
      BY <1>1, <2>1 DEF BarStands
  <1>5. CASE SyncRestart
    <2>1. sync'.pc = "idle"
      BY <1>5, IdleFields DEF SyncRestart
    <2>2. QED
      BY <2>1 DEF BarStands
  <1>6. CASE WeekPasses \/ UNCHANGED syncVars
    <2>1. lib' = lib /\ sync' = sync /\ excluded' = excluded
      BY <1>6 DEF WeekPasses, syncVars, userVars, requestVars
    <2>2. QED
      BY <1>1, <2>1 DEF BarStands
  <1>7. ASSUME NEW u \in Titles, TitleStep(u)
        PROVE  BarStands(t)'
    <2>1. CASE u = t
      BY <1>1, <1>7, <2>1, UserLeavesBarred
    <2>2. CASE u # t
      <3>1. Untouched(t)
        BY <1>7, <2>2, OthersStay
      <3>2. QED
        BY <1>1, <3>1, BarKept
    <2>3. QED
      BY <2>1, <2>2
  <1>8. QED
    BY <1>2, <1>3, <1>4, <1>5, <1>6, <1>7, StepKinds

LEMMA PinsHold == SyncSpec => []PinsStand
  <1>1. SyncInit => PinsStand
    BY PinsBegin
  <1>2. QED
    BY <1>1, PinsStay, TypesAlways, PTL DEF SyncSpec

\* A pinned series is neither the entry that gets a mode nor on the list of removals.
LEMMA PinnedModeStays ==
  TypeInv /\ PinsStand /\ SyncStep => \A t \in Titles : sync.stay[t] = "pinned" => lib'[t].mode = lib[t].mode
  <1> SUFFICES ASSUME TypeInv, PinsStand, SyncStep, NEW t \in Titles, sync.stay[t] = "pinned"
               PROVE  lib'[t].mode = lib[t].mode
    OBVIOUS
  <1>1. sync.pc # "idle"
    BY SyncKept
  <1>2. (sync.pc \in {"create", "mode"} => sync.cur # t) /\ (sync.pc = "removing" => t \notin sync.todo)
    BY <1>1 DEF PinsStand, PinStands
  <1>3. lib'[t].mode # lib[t].mode =>
          \/ sync.pc \in {"create", "mode"} /\ sync.cur = t
          \/ sync.pc = "removing" /\ t \in sync.todo
    BY SyncWrites
  <1>4. QED
    BY <1>2, <1>3

\* A sync never touches the mode of a series that was pinned all the time it ran, whatever
\* fails: merge_entry reads monitor_pinned before it derives a mode, and the removals skip it.
THEOREM PinsRespected ==
  SyncSpec => [][SyncStep => \A t \in Titles : sync.stay[t] = "pinned" => lib'[t].mode = lib[t].mode]_syncVars
  BY PinnedModeStays, PinsHold, TypesAlways, PTL

\* Where the exclusions can be read, a sync brings back no title that was out and excluded.
LEMMA BarredStayOut ==
  TypeInv /\ BarsStand /\ SyncStep => \A t \in Titles : t \in sync.barred /\ ~lib[t].in => ~lib'[t].in
  <1> SUFFICES ASSUME TypeInv, BarsStand, SyncStep, NEW t \in Titles, t \in sync.barred, ~lib[t].in, lib'[t].in
               PROVE  FALSE
    OBVIOUS
  <1>1. sync.pc # "idle"
    BY SyncKept
  <1>2. sync.pc \in AtEntry => sync.cur # t
    BY <1>1 DEF BarsStand, BarStands
  <1>3. sync.pc = "create" /\ sync.cur = t
    BY SyncWrites
  <1>4. QED
    BY <1>2, <1>3 DEF AtEntry

LEMMA PlanStays == [SyncNext]_syncVars => UNCHANGED syncPlan
  BY DEF SyncNext, SyncTick, SyncNow, SyncStart, SyncStep, SyncFetch, SyncDetails, SyncLoad, MergeEntry, MergeRead,
    MergeCreate, MergeStamp, MergeMode, MergeDone, SyncRemovals, RemovalApply, RemovalsDone, SyncStamp, UserStep, Edit,
    Pin, Unpin, AddSeries, AllowAgain, RemoveSeries, Link, Unlink, RequestStep, DropExclusion, RecordExclusion,
    SyncPage, SyncDrained, SyncRefreshToken, SyncDerive, SyncRows, DeriveRead, DeriveWrite,
    WeekPasses, SyncRestart, syncVars, boundVars

LEMMA UserKept ==
  TypeInv /\ PinsStand /\ BarsStand =>
    (SyncStep => \A t \in Titles : /\ sync.stay[t] = "pinned" => lib'[t].mode = lib[t].mode
                                   /\ t \in sync.barred /\ ~lib[t].in => ~lib'[t].in)
  BY PinnedModeStays, BarredStayOut

\* A sync does what the user asked of a series, pinned or excluded all the time it ran, as long
\* as the exclusions can be read: load_excluded_keys takes an error for an empty table.
THEOREM UserRespected == SyncSpec /\ Readable => SyncRespectsUser
  <1>1. SyncInit /\ Readable => BarsStand
    BY PinsBegin
  <1>2. Readable /\ [SyncNext]_syncVars => Readable'
    BY PlanStays DEF Readable
  <1>3. SyncSpec /\ Readable => []Readable
    BY <1>2, PTL DEF SyncSpec
  <1>4. SyncSpec /\ Readable => []BarsStand
    BY <1>1, <1>3, BarsStay, TypesAlways, PTL DEF SyncSpec
  <1>5. QED
    BY <1>4, UserKept, PinsHold, TypesAlways, PTL DEF SyncSpec, SyncRespectsUser

-------------------------------------------------------------------------------
(* The cursor *)

\* A sync of the linked account is under way.
Current == sync.pc # "idle" /\ sync.account = account.id

\* Nothing will make a delta sync look at the title.
Behind(t) == account.cursor /\ t \notin owes /\ t \notin fresh[account.id]

\* Follows, but for the exclusion a request has yet to write
Agrees(t) ==
  /\ list[account.id][t] \in Imported /\ t \notin excluded => lib[t].in
  /\ lib[t].in /\ ~lib[t].pinned =>
       IF list[account.id][t] # "absent" THEN lib[t].mode = ModeFor(list[account.id][t])
       ELSE lib[t].from = account.id => lib[t].mode = "none"

\* An edit is ahead of the cursor, and one made during a sync is ahead of the next.
EditSeen(t) ==
  /\ \A a \in Accounts : a > account.last => t \notin fresh[a]
  /\ account.id # 0 /\ t \in fresh[account.id] => t \in unread
  /\ Current /\ t \in sync.edited => t \in fresh[account.id]

\* what a sync is to read of a title
Expected(t) == IF sync.full \/ t \in fresh[account.id] THEN list[account.id][t] ELSE "absent"

\* What the pages of a list have shown of a title so far
FetchRead(t) ==
  sync.pc = "fetch" =>
    /\ t \notin sync.seen => sync.entries[t] = "absent"
    /\ Current /\ t \notin sync.edited /\ t \in sync.seen => sync.entries[t] = Expected(t)

\* What a sync read of a title is what the list says, unless it was edited since, or a page of
\* the list missed it.
EntryRead(t) ==
  Current /\ sync.pc # "fetch" /\ t \notin sync.edited =>
    sync.entries[t] = Expected(t) \/ (sync.entries[t] = "absent" /\ t \in owes)

Phases ==
  /\ sync.pc \in {"fetch", "details"} => sync.pass = 1
  /\ sync.pc \in {"removals", "removing"} => sync.full

\* Entries are merged that are there, and removals are of those that are not.
Listed(t) ==
  /\ sync.pc \in {"fetch", "details"} => t \notin sync.settled
  /\ sync.pc \in Merging /\ t \in sync.todo => sync.entries[t] # "absent"
  /\ sync.pc \in AtEntry /\ sync.cur = t => sync.entries[t] # "absent" /\ t \in sync.settled \cup owes
  /\ sync.pc = "removing" /\ t \in sync.todo => sync.entries[t] = "absent"

\* The row that was read is still as it was, unless it was pinned or is owed a full sync.
RowRead(t) ==
  sync.pc = "stamp" /\ sync.cur = t /\ ~sync.row.new /\ t \in sync.settled =>
    lib[t].in /\ (lib[t].pinned \/ (~sync.row.pinned /\ lib[t].mode = sync.row.mode))

OutRead(t) == sync.pc \in Merging /\ t \in sync.out /\ t \notin excluded => lib[t].in \/ t \in owes

\* The sync has inserted the series and not yet set its mode.
InHand(t) == sync.pc \in {"stamp", "mode"} /\ sync.row.new /\ sync.cur = t

\* Where the exclusions can be read, a sync inserts no series that a delta need not look at.
NoneInserted(t) ==
  Readable /\ Behind(t) =>
    /\ sync.pc \in Merging /\ ~lib[t].in /\ list[account.id][t] \in Imported => t \in sync.out
    /\ sync.pc = "read" /\ sync.cur = t => lib[t].in \/ t \notin sync.out
    /\ sync.pc = "create" => sync.cur # t
    /\ ~InHand(t)

\* What a sync has yet to take up
Due(t) ==
  \/ sync.pc = "details"
  \/ sync.pc = "load" /\ (sync.pass = 1 \/ t \in Fallback)
  \/ sync.pc \in Merging /\ (t \in sync.todo \/ (sync.pass = 1 /\ t \in FallbackOf(syncPlan.mal)))

Ending == {"removing", "cursor"}

\* The title is still due, or was settled and agrees with the list, or is owed a full sync.
TakenUp(t) ==
  IF sync.entries[t] # "absent"
  THEN /\ Due(t) \/ t \in sync.settled \cup owes
       /\ t \in sync.settled /\ sync.cur # t => Agrees(t)
  ELSE /\ sync.full /\ sync.pc \in Ending => t \in sync.settled \cup owes
       /\ t \in sync.settled => /\ sync.full /\ sync.pc \in Ending /\ list[account.id][t] = "absent"
                                /\ Agrees(t) \/ (sync.pc = "removing" /\ t \in sync.todo)

Accounted(t) == Current /\ sync.pc # "fetch" /\ t \notin sync.edited => TakenUp(t)

\* What is behind the cursor agrees with the list.
BehindAgrees(t) ==
  Behind(t) /\ ~InHand(t) => (list[account.id][t] = "absent" /\ t \in unread) \/ Agrees(t)

Following(t) ==
  /\ EditSeen(t) /\ FetchRead(t) /\ EntryRead(t) /\ Listed(t) /\ RowRead(t) /\ OutRead(t)
  /\ NoneInserted(t) /\ Accounted(t) /\ BehindAgrees(t)

FollowInv == Phases /\ \A t \in Titles : Following(t)

\* What a step outside the sync can mean for a title: it is owed a full sync, edited, pinned,
\* or only its exclusion changes.
ListKept(t) ==
  /\ \A a \in Accounts : list'[a][t] = list[a][t] /\ (t \in fresh'[a] <=> t \in fresh[a])
  /\ t \in unread' <=> t \in unread

MarksKept(t) ==
  /\ t \in sync'.settled <=> t \in sync.settled
  /\ sync.pc # "idle" => (t \in sync'.edited <=> t \in sync.edited)
  /\ t \in owes' <=> t \in owes

Owing(t) ==
  /\ ListKept(t) /\ t \in owes'
  /\ sync.pc # "idle" => t \notin sync'.settled /\ (t \in sync'.edited <=> t \in sync.edited)

Editing(t) ==
  /\ account.id \in Accounts /\ t \in fresh'[account.id] /\ t \in unread'
  /\ \A a \in Accounts : a # account.id => (t \in fresh'[a] <=> t \in fresh[a])
  /\ sync.pc # "idle" => t \in sync'.edited
  /\ t \in sync'.settled <=> t \in sync.settled
  /\ t \in owes' <=> t \in owes
  /\ lib'[t] = lib[t] /\ (t \in excluded' <=> t \in excluded)

Pinning(t) ==
  /\ ListKept(t) /\ MarksKept(t) /\ (t \in excluded' <=> t \in excluded)
  /\ lib[t].in /\ lib'[t].in /\ lib'[t].pinned

Marking(t) ==
  /\ ListKept(t) /\ MarksKept(t) /\ SameRow(t)
  /\ t \in excluded /\ t \notin excluded' => lib[t].in

Outside(t) ==
  /\ UNCHANGED <<account, syncPlan>> /\ SamePlace
  /\ Owing(t) \/ Editing(t) \/ Pinning(t) \/ Marking(t)

LEMMA ActsAre ==
  ASSUME TypeInv, NEW t \in Titles, TitleStep(t)
  PROVE  Outside(t)
  <1>1. /\ lib \in [Titles -> Series] /\ lib[t] \in Series
        /\ list \in [Accounts -> [Titles -> Listings]] /\ fresh \in [Accounts -> SUBSET Titles]
    BY DEF TypeInv, RowsTyped, ListsTyped
  <1>2. ASSUME UNCHANGED <<accountVars, unread>>
        PROVE  ListKept(t)
    BY <1>2 DEF ListKept, accountVars
  <1>3. CASE RecordExclusion(t)
    <2>1. UNCHANGED <<accountVars, lib, sync, syncPlan, owes, unread>> /\ excluded' = excluded \cup {t}
      BY <1>3 DEF RecordExclusion, boundVars, pastVars
    <2>2. QED
      BY <1>2, <2>1 DEF Outside, Marking, MarksKept, SamePlace, SameRow, accountVars
  <1>4. CASE DropExclusion(t)
    <2>1. /\ UNCHANGED <<accountVars, lib, syncPlan, owes, unread>> /\ SamePlace
          /\ t \in excluded' \/ t \notin excluded \/ lib[t].in
          /\ sync'.edited = sync.edited /\ sync'.settled = sync.settled
      BY <1>4, DropsExclusion
    <2>2. QED
      BY <1>2, <2>1 DEF Outside, Marking, MarksKept, SameRow, accountVars
  <1>5. ASSUME UNCHANGED <<accountVars, syncPlan, unread>>, SamePlace, owes' = owes \cup {t},
               sync.pc # "idle" => sync'.edited = sync.edited /\ sync'.settled = sync.settled \ {t}
        PROVE  Outside(t)
    BY <1>2, <1>5 DEF Outside, Owing, accountVars
  <1>6. CASE AddSeries(t)
    <2>1. /\ UNCHANGED <<accountVars, syncPlan, unread>> /\ SamePlace /\ owes' = owes \cup {t}
          /\ sync'.edited = sync.edited /\ sync'.settled = sync.settled \ {t}
      BY <1>6, Adds
    <2>2. QED
      BY <1>5, <2>1
  <1>7. CASE AllowAgain(t)
    <2>1. /\ UNCHANGED <<accountVars, syncPlan, unread>> /\ SamePlace /\ owes' = owes \cup {t}
          /\ sync'.edited = sync.edited /\ sync'.settled = sync.settled \ {t}
      BY <1>7, Allows
    <2>2. QED
      BY <1>5, <2>1
  <1>8. CASE Unpin(t)
    <2>1. /\ UNCHANGED <<accountVars, syncPlan, unread>> /\ SamePlace /\ owes' = owes \cup {t}
          /\ sync'.edited = sync.edited /\ sync'.settled = sync.settled \ {t}
      BY <1>8, Unpins
    <2>2. QED
      BY <1>5, <2>1
  <1>9. ASSUME NEW keepOff \in BOOLEAN, RemoveSeries(t, keepOff)
        PROVE  Outside(t)
    <2>1. /\ UNCHANGED <<accountVars, syncPlan, unread>> /\ SamePlace /\ owes' = owes \cup {t}
          /\ sync'.edited = sync.edited /\ (sync.pc # "idle" => sync'.settled = sync.settled \ {t})
      BY <1>9, RemovesSeries
    <2>2. QED
      BY <1>5, <2>1
  <1>10. ASSUME NEW mode \in Modes, Pin(t, mode)
         PROVE  Outside(t)
    <2>1. /\ UNCHANGED <<accountVars, excluded, syncPlan, owes, unread>> /\ SamePlace
          /\ lib[t].in /\ lib' = [lib EXCEPT ![t].mode = mode, ![t].pinned = TRUE]
          /\ sync'.edited = sync.edited /\ sync'.settled = sync.settled
      BY <1>10, Pins
    <2>2. lib'[t] = [lib[t] EXCEPT !.mode = mode, !.pinned = TRUE]
      BY <1>1, <2>1
    <2>3. lib'[t].in /\ lib'[t].pinned
      BY <1>1, <2>1, <2>2 DEF Series
    <2>4. QED
      BY <1>2, <2>1, <2>3 DEF Outside, Pinning, MarksKept, accountVars, requestVars
  <1>11. ASSUME NEW status \in Listings, Edit(t, status)
         PROVE  Outside(t)
    <2>1. /\ UNCHANGED <<account, lib, requestVars, syncPlan, owes>> /\ SamePlace /\ account.id \in Accounts
          /\ fresh' = [fresh EXCEPT ![account.id] = @ \cup {t}] /\ unread' = unread \cup {t}
          /\ sync.pc # "idle" => sync'.edited = sync.edited \cup {t}
          /\ sync'.settled = sync.settled
      BY <1>11, Edits
    <2>2. t \in fresh'[account.id] /\ \A a \in Accounts : a # account.id => fresh'[a] = fresh[a]
      BY <1>1, <2>1
    <2>3. QED
      BY <2>1, <2>2 DEF Outside, Editing, requestVars
  <1>12. CASE DeriveRead(t) \/ DeriveWrite(t)
    BY <1>2, <1>12, HandlerDerives DEF Outside, Marking, MarksKept, accountVars
  <1>13. QED
    BY <1>12, <1>3, <1>4, <1>6, <1>7, <1>8, <1>9, <1>10, <1>11 DEF TitleStep

LEMMA UntouchedIsOutside ==
  ASSUME NEW t \in Titles, Untouched(t)
  PROVE  Outside(t)
  <1>1. ListKept(t)
    BY DEF Untouched, ListKept
  <1>2. MarksKept(t)
    BY DEF Untouched, MarksKept
  <1>3. QED
    BY <1>1, <1>2 DEF Untouched, Outside, Marking, SameRow

\* The steps that are neither the sync's nor change the account or end the process
LEMMA OutsideSteps ==
  ASSUME TypeInv, NEW t \in Titles,
         WeekPasses \/ UNCHANGED syncVars \/ \E u \in Titles : TitleStep(u)
  PROVE  Outside(t)
  <1>1. CASE WeekPasses \/ UNCHANGED syncVars
    <2>1. UNCHANGED <<account, list, fresh, lib, excluded, sync, syncPlan, owes, unread>>
      BY <1>1 DEF WeekPasses, syncVars, userVars, accountVars, requestVars, boundVars, pastVars
    <2>2. QED
      BY <2>1 DEF Outside, Marking, ListKept, MarksKept, SamePlace, SameRow
  <1>2. ASSUME NEW u \in Titles, TitleStep(u)
        PROVE  Outside(t)
    <2>1. CASE u = t
      BY <1>2, <2>1, ActsAre
    <2>2. CASE u # t
      BY <1>2, <2>2, OthersStay, UntouchedIsOutside
    <2>3. QED
      BY <2>1, <2>2
  <1>3. QED
    BY <1>1, <1>2

\* A request of the sync's that leaves it at the fetch
Draining == SyncRefreshToken \/ \E u \in Titles : SyncPage(u)

LEMMA Drawing ==
  ASSUME TypeInv, Draining
  PROVE  /\ UNCHANGED <<userVars, syncPlan, owes, unread>> /\ SameFetch
         /\ sync.pc = "fetch" /\ sync'.pc = "fetch"
  BY Pages, Refreshes DEF Draining, boundVars, pastVars

\* What every step of a sync keeps, but for its last one
LEMMA SyncSame ==
  ASSUME TypeInv, SyncStep
  PROVE  /\ sync.pc # "idle" /\ UNCHANGED <<list, excluded, syncPlan>>
         /\ sync'.pc # "idle" =>
              /\ sync'.account = sync.account /\ sync'.full = sync.full /\ sync'.edited = sync.edited
              /\ sync.pc # "fetch" => sync'.entries = sync.entries
         /\ sync'.pc = "fetch" => Draining
         /\ ~SyncStamp => UNCHANGED <<account, fresh, unread>>
         /\ SyncStamp => sync'.pc = "idle"
  <1> DEFINE Goal == /\ sync.pc # "idle" /\ UNCHANGED <<list, excluded, syncPlan>>
                     /\ sync'.pc # "idle" =>
                          /\ sync'.account = sync.account /\ sync'.full = sync.full /\ sync'.edited = sync.edited
                          /\ sync.pc # "fetch" => sync'.entries = sync.entries
                     /\ sync'.pc = "fetch" => Draining
                     /\ ~SyncStamp => UNCHANGED <<account, fresh, unread>>
                     /\ SyncStamp => sync'.pc = "idle"
  <1>0. SyncStamp => sync'.pc = "idle" /\ sync.pc = "cursor" /\ UNCHANGED <<list, excluded, syncPlan>>
    BY IdleFields DEF SyncStamp, requestVars
  <1>1. CASE SyncStamp
    BY <1>0, <1>1
  <1>2. CASE SyncFetch
    BY <1>0, <1>2, Fetches, IdleFields DEF userVars, accountVars, requestVars
  <1>16. CASE SyncDrained
    BY <1>0, <1>16, Drains DEF userVars, accountVars, requestVars, SameFetch
  <1>17. CASE Draining
    BY <1>0, <1>17, Drawing DEF userVars, accountVars, requestVars, SameFetch
  <1>18. CASE SyncDerive \/ SyncRows
    BY <1>0, <1>18, Derives, IdleFields DEF accountVars, requestVars, SameMerge
  <1>3. CASE SyncDetails
    BY <1>0, <1>3, AsksDetails, IdleFields DEF userVars, accountVars, requestVars
  <1>4. CASE SyncLoad
    BY <1>0, <1>4, Loads DEF userVars, accountVars, requestVars
  <1>5. ASSUME SameMerge, UNCHANGED <<accountVars, requestVars, syncPlan, unread>>, sync.pc \in Merging,
               sync'.pc \in Merging
        PROVE  Goal
    BY <1>0, <1>5 DEF SameMerge, accountVars, requestVars, Merging, AtEntry
  <1>6. CASE MergeRead
    <2>1. SameMerge /\ UNCHANGED <<accountVars, requestVars, syncPlan, unread>> /\ sync.pc \in Merging
          /\ sync'.pc \in Merging
      BY <1>6, Reads DEF userVars, boundVars, Merging, AtEntry, Ended, Failed
    <2>2. QED
      BY <1>5, <2>1
  <1>7. CASE MergeCreate
    <2>1. SameMerge /\ UNCHANGED <<accountVars, requestVars, syncPlan, unread>> /\ sync.pc \in Merging
          /\ sync'.pc \in Merging
      BY <1>7, Creates DEF Merging, AtEntry, Failed
    <2>2. QED
      BY <1>5, <2>1
  <1>8. CASE MergeStamp
    <2>1. SameMerge /\ UNCHANGED <<accountVars, requestVars, syncPlan, unread>> /\ sync.pc \in Merging
          /\ sync'.pc \in Merging
      BY <1>8, Stamps DEF boundVars, Merging, AtEntry
    <2>2. QED
      BY <1>5, <2>1
  <1>9. CASE MergeMode
    <2>1. SameMerge /\ UNCHANGED <<accountVars, requestVars, syncPlan, unread>> /\ sync.pc \in Merging
          /\ sync'.pc \in Merging
      BY <1>9, SetsMode DEF Merging, AtEntry, Ended, Failed
    <2>2. QED
      BY <1>5, <2>1
  <1>10. ASSUME NEW u \in Titles, MergeEntry(u)
         PROVE  Goal
    <2>1. SameMerge /\ UNCHANGED <<accountVars, requestVars, syncPlan, unread>> /\ sync.pc \in Merging
          /\ sync'.pc \in Merging
      BY <1>10, TakesEntry DEF userVars, boundVars, Merging, AtEntry
    <2>2. QED
      BY <1>5, <2>1
  <1>11. CASE MergeDone
    BY <1>0, <1>11, EntriesDone DEF userVars, accountVars, requestVars, boundVars, SameSync
  <1>12. CASE SyncRemovals
    BY <1>0, <1>12, ListsRemovals DEF userVars, accountVars, requestVars, boundVars, SameSync
  <1>13. CASE RemovalsDone
    BY <1>0, <1>13, RemovalsEnd DEF userVars, accountVars, requestVars, boundVars, SameSync
  <1>14. ASSUME NEW u \in Titles, RemovalApply(u)
         PROVE  Goal
    BY <1>0, <1>14, RemovesOne, IdleFields DEF accountVars, requestVars, SameSync
  <1>15. QED
    BY <1>1, <1>2, <1>3, <1>4, <1>6, <1>7, <1>8, <1>9, <1>10, <1>11, <1>12, <1>13, <1>14, <1>16, <1>17, <1>18 DEF SyncStep, Draining

LEMMA StampsCursor ==
  ASSUME TypeInv, SyncStamp
  PROVE  /\ sync.pc = "cursor" /\ sync' = IdleSync /\ UNCHANGED <<list, lib, excluded, syncPlan>>
         /\ \/ UNCHANGED <<account, fresh, owes, unread>>
            \/ /\ Current /\ account'.cursor /\ account'.id = account.id /\ account'.last = account.last
               /\ fresh' = [fresh EXCEPT ![account.id] = sync.edited] /\ owes' = owes \ sync.settled
               /\ unread' = IF sync.full THEN sync.edited ELSE unread
  <1>1. sync.pc = "cursor" /\ sync' = IdleSync /\ UNCHANGED <<list, lib, excluded, syncPlan>>
    BY DEF SyncStamp, requestVars
  <1>2. CASE UNCHANGED <<account, fresh, owes, unread>>
    BY <1>1, <1>2
  <1>3. CASE /\ account.id = sync.account /\ account' = [account EXCEPT !.cursor = TRUE]
             /\ fresh' = [fresh EXCEPT ![sync.account] = sync.edited] /\ owes' = owes \ sync.settled
             /\ unread' = IF sync.full THEN sync.edited ELSE unread
    <2>1. account'.cursor /\ account'.id = account.id /\ account'.last = account.last
      BY <1>3 DEF TypeInv, RowsTyped
    <2>2. QED
      BY <1>1, <1>3, <2>1 DEF Current
  <1>4. QED
    BY <1>2, <1>3 DEF SyncStamp

LEMMA Restarts ==
  ASSUME SyncRestart
  PROVE  /\ sync'.pc = "idle" /\ UNCHANGED <<account, list, fresh, lib, excluded, syncPlan, owes, unread>>
         /\ "restart" \in syncPlan.faults
  BY IdleFields DEF SyncRestart, SyncFault, accountVars

\* No sync is of an account that has just been linked.
LEMMA NoneOfANew ==
  ASSUME TypeInv, ListStep
  PROVE  ~Current'
  <1>1. UNCHANGED sync /\ account'.id \in {0, account.last + 1}
    BY ListActs
  <1>2. account.last \in Nat /\ \A a \in Accounts : a \in Nat /\ a # 0
    BY Names DEF TypeInv, RowsTyped, Accounts
  <1> SUFFICES ASSUME sync.pc # "idle"
               PROVE  sync.account # account'.id
    BY <1>1 DEF Current
  <1>3. sync.account \in Accounts /\ sync.account <= account.last
    BY DEF TypeInv, SyncsAnAccount
  <1>4. sync.account \in Nat /\ sync.account # 0
    BY <1>2, <1>3
  <1>5. QED
    BY <1>1, <1>2, <1>3, <1>4

LEMMA EditSeenStays ==
  ASSUME TypeInv, [SyncNext]_syncVars, NEW t \in Titles, EditSeen(t)
  PROVE  EditSeen(t)'
  <1>1. /\ fresh \in [Accounts -> SUBSET Titles] /\ account.id \in {0, account.last} /\ account.last \in Accounts
        /\ 0 \notin Accounts /\ account.last \in Nat /\ \A a \in Accounts : a \in Nat
        /\ account.id # 0 => account.id \in Accounts /\ account.id = account.last
    BY Names DEF TypeInv, ListsTyped, RowsTyped, Accounts
  <1>2. CASE SyncTick \/ SyncNow
    <2>1. UNCHANGED <<account, fresh, unread>> /\ sync'.edited = {}
      BY <1>2, Starts DEF userVars, accountVars
    <2>2. QED
      BY <2>1 DEF EditSeen
  <1>3. CASE SyncStep /\ ~SyncStamp
    <2>1. UNCHANGED <<account, fresh, unread>>
          /\ (sync'.pc # "idle" => sync.pc # "idle" /\ sync'.account = sync.account /\ sync'.edited = sync.edited)
      BY <1>3, SyncSame
    <2>2. QED
      BY <2>1 DEF EditSeen, Current
  <1>4. CASE SyncStamp
    <2>1. sync'.pc = "idle"
      BY <1>4, StampsCursor, IdleFields
    <2>2. CASE UNCHANGED <<account, fresh, owes, unread>>
      BY <2>1, <2>2 DEF EditSeen, Current
    <2>3. CASE /\ Current /\ account'.id = account.id /\ account'.last = account.last
               /\ fresh' = [fresh EXCEPT ![account.id] = sync.edited]
               /\ unread' = IF sync.full THEN sync.edited ELSE unread
      <3>1. account.id \in Accounts /\ account.id = account.last
        BY <1>1, <2>3 DEF Current, TypeInv, SyncsAnAccount
      <3>2. fresh'[account.id] = sync.edited /\ \A a \in Accounts : a # account.id => fresh'[a] = fresh[a]
        BY <1>1, <2>3, <3>1
      <3>3. t \in sync.edited => t \in unread'
        BY <2>3, <3>1, <1>1 DEF EditSeen
      <3>4. \A a \in Accounts : a > account.last => t \notin fresh'[a]
        BY <1>1, <3>1, <3>2 DEF EditSeen
      <3>5. QED
        BY <2>1, <2>3, <3>1, <3>2, <3>3, <3>4 DEF EditSeen, Current
    <2>4. QED
      BY <1>4, <2>2, <2>3, StampsCursor
  <1>5. CASE ListStep
    <2>1. /\ UNCHANGED <<fresh, sync, unread>> /\ account'.last \in Accounts /\ account'.last >= account.last
          /\ account'.id \in {0, account.last + 1} /\ (account'.id # 0 => account'.last = account'.id)
      BY <1>5, ListActs
    <2>2. account'.last \in Nat
      BY <1>1, <2>1
    <2>3. ~Current'
      BY <1>5, NoneOfANew
    <2>4. \A a \in Accounts : a > account'.last => t \notin fresh'[a]
      <3> SUFFICES ASSUME NEW a \in Accounts, a > account'.last
                   PROVE  t \notin fresh[a]
        BY <2>1
      <3>1. a \in Nat
        BY <1>1
      <3>2. a > account.last
        BY <1>1, <2>1, <2>2, <3>1
      <3>3. QED
        BY <3>2 DEF EditSeen
    <2>5. account'.id # 0 => t \notin fresh'[account'.id]
      <3> SUFFICES ASSUME account'.id # 0
                   PROVE  t \notin fresh[account'.id]
        BY <2>1
      <3>1. account'.id \in Accounts /\ account'.id = account.last + 1
        BY <2>1
      <3>2. account'.id > account.last
        BY <1>1, <3>1
      <3>3. QED
        BY <3>1, <3>2 DEF EditSeen
    <2>6. QED
      BY <2>3, <2>4, <2>5 DEF EditSeen
  <1>6. CASE SyncRestart
    BY <1>6, Restarts DEF EditSeen, Current
  <1>7. CASE Outside(t)
    <2>1. account' = account /\ sync'.pc = sync.pc /\ sync'.account = sync.account
      BY <1>7 DEF Outside, SamePlace
    <2>2. CASE Editing(t)
      <3>1. /\ account.id \in Accounts /\ t \in fresh'[account.id] /\ t \in unread'
            /\ \A a \in Accounts : a # account.id => (t \in fresh'[a] <=> t \in fresh[a])
        BY <2>2 DEF Editing
      <3>2. account.id = account.last
        BY <1>1, <3>1
      <3>3. ASSUME NEW a \in Accounts, a > account.last
            PROVE  t \notin fresh'[a]
        <4>1. a # account.id
          BY <1>1, <3>2, <3>3
        <4>2. t \notin fresh[a]
          BY <3>3 DEF EditSeen
        <4>3. QED
          BY <3>1, <4>1, <4>2
      <3>4. QED
        BY <2>1, <3>1, <3>3 DEF EditSeen
    <2>3. ASSUME ListKept(t), sync.pc # "idle" => (t \in sync'.edited <=> t \in sync.edited)
          PROVE  EditSeen(t)'
      <3>1. \A a \in Accounts : t \in fresh'[a] <=> t \in fresh[a]
        BY <2>3 DEF ListKept
      <3>2. t \in unread' <=> t \in unread
        BY <2>3 DEF ListKept
      <3>3. \A a \in Accounts : a > account'.last => t \notin fresh'[a]
        BY <2>1, <3>1 DEF EditSeen
      <3>4. account'.id # 0 /\ t \in fresh'[account'.id] => t \in unread'
        BY <1>1, <2>1, <3>1, <3>2 DEF EditSeen
      <3>5. Current' /\ t \in sync'.edited => t \in fresh'[account'.id]
        <4> SUFFICES ASSUME Current', t \in sync'.edited
                     PROVE  t \in fresh'[account'.id]
          OBVIOUS
        <4>1. Current /\ t \in sync.edited
          BY <2>1, <2>3 DEF Current
        <4>2. account.id \in Accounts /\ t \in fresh[account.id]
          BY <4>1 DEF EditSeen, Current, TypeInv, SyncsAnAccount
        <4>3. QED
          BY <2>1, <3>1, <4>2
      <3>6. QED
        BY <3>3, <3>4, <3>5 DEF EditSeen
    <2>4. QED
      BY <1>7, <2>2, <2>3 DEF Outside, Owing, Pinning, Marking, MarksKept
  <1>8. QED
    BY <1>2, <1>3, <1>4, <1>5, <1>6, <1>7, StepKinds, OutsideSteps

LEMMA FetchOnly ==
  ASSUME TypeInv, SyncStep, sync.pc = "fetch"
  PROVE  SyncFetch \/ SyncDrained \/ Draining
  <1>1. ~(SyncDerive \/ SyncRows)
    BY Derives
  <1>2. ~(SyncDetails \/ SyncLoad \/ MergeRead \/ MergeCreate \/ MergeStamp \/ MergeMode)
    BY AsksDetails, Loads, Reads, Creates, Stamps, SetsMode
  <1>3. ~(MergeDone \/ SyncRemovals \/ RemovalsDone \/ SyncStamp)
    BY EntriesDone, ListsRemovals, RemovalsEnd, StampsCursor
  <1>4. \A u \in Titles : ~MergeEntry(u) /\ ~RemovalApply(u)
    BY TakesEntry, RemovesOne
  <1>5. QED
    BY <1>1, <1>2, <1>3, <1>4 DEF SyncStep, Draining

LEMMA ExpectedStays ==
  ASSUME NEW t \in Titles, account.id \in Accounts, ListKept(t), account' = account, sync'.full = sync.full
  PROVE  Expected(t)' = Expected(t)
  BY DEF ListKept, Expected

LEMMA FetchReadStays ==
  ASSUME TypeInv, [SyncNext]_syncVars, NEW t \in Titles, FetchRead(t), EditSeen(t)
  PROVE  FetchRead(t)'
  <1>1. SyncsAnAccount /\ sync \in SyncState
    BY DEF TypeInv, SyncTyped
  <1>2. CASE SyncTick \/ SyncNow
    BY <1>2, Starts DEF FetchRead
  <1>3. CASE SyncStep
    <2> SUFFICES ASSUME sync'.pc = "fetch"
                 PROVE  FetchRead(t)'
      BY DEF FetchRead
    <2>1. Draining
      BY <1>3, SyncSame
    <2>2. UNCHANGED <<account, list, fresh>> /\ sync.pc = "fetch" /\ SameFetch
      BY <2>1, Drawing DEF userVars, accountVars
    <2>3. Expected(t)' = Expected(t) /\ (Current' <=> Current)
      BY <2>2 DEF Expected, SameFetch, Current
    <2>4. CASE SyncRefreshToken
      BY <2>4, Refreshes DEF FetchRead
    <2>5. ASSUME NEW u \in Titles, SyncPage(u)
          PROVE  FetchRead(t)'
      <3>1. sync'.seen = sync.seen \cup {u} /\ sync'.entries = [sync.entries EXCEPT ![u] = EntryOf(u)]
        BY <2>5, Pages
      <3>2. sync.entries \in [Titles -> Listings]
        BY <1>1 DEF SyncState
      <3>3. CASE u # t
        BY <2>2, <2>3, <3>1, <3>2, <3>3 DEF FetchRead, SameFetch
      <3>4. CASE u = t
        <4>1. sync'.entries[t] = EntryOf(t) /\ t \in sync'.seen
          BY <3>1, <3>2, <3>4
        <4>2. Current => EntryOf(t) = Expected(t)
          BY DEF Current, EntryOf, Kept, Expected
        <4>3. QED
          BY <2>3, <4>1, <4>2 DEF FetchRead
      <3>5. QED
        BY <3>3, <3>4
    <2>6. QED
      BY <2>1, <2>4, <2>5 DEF Draining
  <1>4. CASE ListStep
    <2>1. UNCHANGED sync
      BY <1>4, ListActs
    <2>2. QED
      BY <1>4, <2>1, NoneOfANew DEF FetchRead
  <1>5. CASE SyncRestart
    BY <1>5, Restarts DEF FetchRead
  <1>6. CASE Outside(t)
    <2>1. account' = account /\ SamePlace
      BY <1>6 DEF Outside
    <2> SUFFICES ASSUME Current, sync.pc = "fetch", t \notin sync'.edited, t \in sync.seen
                 PROVE  sync.entries[t] = Expected(t)'
      BY <2>1 DEF FetchRead, SamePlace, Current
    <2>2. account.id \in Accounts
      BY <1>1 DEF Current, SyncsAnAccount
    <2>3. ListKept(t) /\ t \notin sync.edited
      BY <1>6 DEF Outside, Owing, Editing, Pinning, Marking, MarksKept
    <2>4. Expected(t)' = Expected(t)
      BY <2>1, <2>2, <2>3, ExpectedStays DEF SamePlace
    <2>5. QED
      BY <2>3, <2>4 DEF FetchRead
  <1>7. QED
    BY <1>2, <1>3, <1>4, <1>5, <1>6, StepKinds, OutsideSteps

LEMMA OwesGrow ==
  ASSUME TypeInv, SyncStep, ~SyncStamp
  PROVE  owes \subseteq owes'
  <1>1. CASE SyncFetch \/ SyncDetails \/ SyncLoad \/ MergeDone \/ SyncRemovals \/ RemovalsDone \/ MergeStamp
             \/ \E u \in Titles : MergeEntry(u) \/ RemovalApply(u)
    <2>1. UNCHANGED owes
      BY <1>1 DEF SyncFetch, SyncDetails, SyncLoad, MergeDone, SyncRemovals, RemovalsDone, MergeStamp, MergeEntry,
        RemovalApply, pastVars
    <2>2. QED
      BY <2>1
  <1>2. CASE MergeRead \/ MergeCreate \/ MergeMode
    <2>1. UNCHANGED owes \/ owes' = owes \cup {sync.cur}
      BY <1>2, Reads, Creates, SetsMode DEF Ended, Failed
    <2>2. QED
      BY <2>1
  <1>3. CASE SyncDrained \/ Draining
    BY <1>3, Drains, Drawing
  <1>4. CASE SyncDerive \/ SyncRows
    BY <1>4, Derives
  <1>5. QED
    BY <1>1, <1>2, <1>3, <1>4 DEF SyncStep, Draining

LEMMA EntryReadStays ==
  ASSUME TypeInv, [SyncNext]_syncVars, NEW t \in Titles, FetchRead(t), EntryRead(t), EditSeen(t)
  PROVE  EntryRead(t)'
  <1>1. SyncsAnAccount
    BY DEF TypeInv
  <1>2. CASE SyncTick \/ SyncNow
    BY <1>2, Starts DEF EntryRead
  <1>3. CASE SyncStep
    <2>1. CASE sync'.pc \in {"idle", "fetch"}
      BY <2>1 DEF EntryRead, Current
    <2>2. CASE sync'.pc # "idle" /\ sync.pc # "fetch"
      <3>1. /\ UNCHANGED <<account, list, fresh>> /\ sync.pc # "idle"
            /\ sync'.account = sync.account /\ sync'.full = sync.full /\ sync'.edited = sync.edited
            /\ sync'.entries = sync.entries /\ owes \subseteq owes'
        BY <1>3, <2>2, SyncSame, OwesGrow
      <3>2. Expected(t)' = Expected(t) /\ (Current' <=> Current)
        BY <2>2, <3>1 DEF Expected, Current
      <3>3. QED
        BY <2>2, <3>1, <3>2 DEF EntryRead
    <2>3. CASE sync'.pc \notin {"idle", "fetch"} /\ sync.pc = "fetch"
      <3> SUFFICES ASSUME Current', t \notin sync'.edited
                   PROVE  sync'.entries[t] = Expected(t)' \/ (sync'.entries[t] = "absent" /\ t \in owes')
        BY DEF EntryRead
      <3>1. SyncFetch \/ SyncDrained
        BY <1>3, <2>3, FetchOnly, Drawing
      <3>2. UNCHANGED <<account, list, fresh>> /\ sync'.account = sync.account /\ sync'.full = sync.full
            /\ sync'.edited = sync.edited
        BY <1>3, <2>3, <3>1, SyncSame, StampsCursor
      <3>3. Expected(t)' = Expected(t) /\ Current
        BY <2>3, <3>2 DEF Expected, Current
      <3>4. CASE SyncFetch
        BY <2>3, <3>3, <3>4, Fetches, IdleFields DEF Expected, Current
      <3>5. CASE SyncDrained
        <4>1. sync'.entries = sync.entries /\ owes' = owes \cup {u \in Undrained : Kept(sync.full, u)}
          BY <3>5, Drains
        <4>2. CASE t \in sync.seen
          BY <2>3, <3>2, <3>3, <4>1, <4>2 DEF FetchRead
        <4>3. CASE t \notin sync.seen
          <5>1. sync'.entries[t] = "absent"
            BY <2>3, <4>1, <4>3 DEF FetchRead
          <5>2. CASE t \in Undrained /\ Kept(sync.full, t)
            BY <4>1, <5>1, <5>2
          <5>3. CASE ~(t \in Undrained /\ Kept(sync.full, t))
            <6>1. Expected(t) = "absent"
              BY <3>3, <4>3, <5>3 DEF Undrained, Kept, Expected, Current
            <6>2. QED
              BY <3>3, <5>1, <6>1
          <5>4. QED
            BY <5>2, <5>3
        <4>4. QED
          BY <4>2, <4>3
      <3>6. QED
        BY <3>1, <3>4, <3>5
    <2>4. QED
      BY <2>1, <2>2, <2>3
  <1>4. CASE ListStep
    BY <1>4, NoneOfANew DEF EntryRead
  <1>5. CASE SyncRestart
    BY <1>5, Restarts DEF EntryRead, Current
  <1>6. CASE Outside(t)
    <2> SUFFICES ASSUME Current, sync.pc # "fetch", t \notin sync'.edited
                 PROVE  EntryRead(t)'
      BY <1>6 DEF Outside, SamePlace, EntryRead, Current
    <2>1. /\ account' = account /\ sync'.full = sync.full /\ sync'.entries = sync.entries
          /\ sync.pc # "idle" /\ account.id \in Accounts
      BY <1>1, <1>6 DEF Outside, SamePlace, Current, SyncsAnAccount
    <2>2. ListKept(t) /\ t \notin sync.edited /\ (t \in owes => t \in owes')
      BY <1>6, <2>1 DEF Outside, Owing, Editing, Pinning, Marking, MarksKept
    <2>3. Expected(t)' = Expected(t)
      BY <2>1, <2>2, ExpectedStays
    <2>4. QED
      BY <2>1, <2>2, <2>3 DEF EntryRead
  <1>7. QED
    BY <1>2, <1>3, <1>4, <1>5, <1>6, StepKinds, OutsideSteps

LEMMA PhasesStay == TypeInv /\ Phases /\ [SyncNext]_syncVars => Phases'
  <1> SUFFICES ASSUME TypeInv, Phases, [SyncNext]_syncVars
               PROVE  Phases'
    OBVIOUS
  <1>1. CASE SyncTick \/ SyncNow
    <2>1. sync'.pc = "fetch" /\ sync'.pass = 1
      BY <1>1, Starts
    <2>2. QED
      BY <2>1 DEF Phases
  <1>2. ASSUME UNCHANGED sync
        PROVE  Phases'
    BY <1>2 DEF Phases
  <1>3. CASE SyncFetch
    <2>1. sync \in SyncState
      BY DEF TypeInv, SyncTyped
    <2>2. sync' = IdleSync \/ \E e : sync' = [sync EXCEPT !.pc = "details", !.entries = e]
      BY <1>3 DEF SyncFetch, Fails
    <2>3. sync.pc = "fetch" /\ (sync'.pc = "idle" \/ (sync'.pc = "details" /\ sync'.pass = sync.pass))
      BY <1>3, <2>1, <2>2, IdleFields DEF SyncFetch, SyncState
    <2>4. QED
      BY <2>3 DEF Phases
  <1>13. CASE SyncDrained \/ Draining
    <2>1. sync'.pc \in {"fetch", "details"} /\ sync.pc = "fetch" /\ sync'.pass = sync.pass
      BY <1>13, Drains, Drawing DEF SameFetch
    <2>2. QED
      BY <2>1 DEF Phases
  <1>14. CASE SyncDerive \/ SyncRows
    <2>1. sync'.pc = "idle" \/ (sync'.pc \in {"merge", "removing"} /\ sync'.pc = sync.pc /\ sync'.full = sync.full)
      BY <1>14, Derives, IdleFields DEF SameMerge
    <2>2. QED
      BY <2>1 DEF Phases
  <1>4. CASE MergeDone
    <2>1. sync'.full = sync.full /\ sync'.pc \in {"load", "removals", "cursor"} /\ (sync'.pc = "removals" => sync.full)
      BY <1>4, EntriesDone DEF SameSync
    <2>2. QED
      BY <2>1 DEF Phases
  <1>5. CASE SyncRemovals
    <2>1. sync'.full = sync.full /\ sync.pc = "removals" /\ sync'.pc = "removing"
      BY <1>5, ListsRemovals DEF SameSync
    <2>2. QED
      BY <2>1 DEF Phases
  <1>6. ASSUME NEW u \in Titles, RemovalApply(u)
        PROVE  Phases'
    <2>1. sync.pc = "removing" /\ (sync'.pc = "idle" \/ (sync'.pc = "removing" /\ sync'.full = sync.full))
      BY <1>6, RemovesOne, IdleFields DEF SameSync
    <2>2. QED
      BY <2>1 DEF Phases
  <1>7. ASSUME sync'.pc \notin {"fetch", "details", "removals", "removing"}
        PROVE  Phases'
    BY <1>7 DEF Phases
  <1>8. CASE SyncDetails \/ SyncLoad \/ MergeRead \/ MergeCreate \/ MergeStamp \/ MergeMode \/ RemovalsDone \/ SyncStamp
             \/ \E u \in Titles : MergeEntry(u)
    <2>1. sync'.pc \notin {"fetch", "details", "removals", "removing"}
      BY <1>8, AsksDetails, Loads, Reads, Creates, Stamps, SetsMode, RemovalsEnd, StampsCursor, TakesEntry, IdleFields
        DEF Ended, Failed
    <2>2. QED
      BY <1>7, <2>1
  <1>9. CASE ListStep \/ WeekPasses \/ UNCHANGED syncVars
    BY <1>2, <1>9, ListActs DEF WeekPasses, syncVars
  <1>10. CASE SyncRestart
    BY <1>7, <1>10, Restarts
  <1>11. ASSUME NEW u \in Titles, TitleStep(u)
         PROVE  Phases'
    <2>1. sync'.pc = sync.pc /\ sync'.pass = sync.pass /\ sync'.full = sync.full
      BY <1>11, ActsAre DEF Outside, SamePlace
    <2>2. QED
      BY <2>1 DEF Phases
  <1>12. QED
    BY <1>13, <1>14, <1>1, <1>3, <1>4, <1>5, <1>6, <1>8, <1>9, <1>10, <1>11, StepKinds DEF SyncStep, Draining

LEMMA ListedStays ==
  ASSUME TypeInv, [SyncNext]_syncVars, NEW t \in Titles, Listed(t)
  PROVE  Listed(t)'
  <1>1. CASE SyncTick \/ SyncNow
    BY <1>1, Starts DEF Listed, Merging, AtEntry
  <1>2. ASSUME sync'.pc \notin {"fetch", "details", "removing"} \cup Merging
        PROVE  Listed(t)'
    BY <1>2 DEF Listed, Merging
  <1>3. CASE SyncFetch
    <2>1. sync.pc = "fetch" /\ (sync'.pc = "idle" \/ (sync'.pc = "details" /\ sync'.settled = sync.settled))
      BY <1>3, Fetches, IdleFields
    <2>2. QED
      BY <2>1 DEF Listed, Merging, AtEntry
  <1>17. CASE SyncDrained \/ Draining
    <2>1. sync.pc = "fetch" /\ sync'.pc \in {"fetch", "details"} /\ sync'.settled = sync.settled
      BY <1>17, Drains, Drawing DEF SameFetch
    <2>2. QED
      BY <2>1 DEF Listed, Merging, AtEntry
  <1>18. CASE SyncDerive \/ SyncRows
    <2>1. \/ sync'.pc = "idle"
          \/ /\ sync'.pc \in {"merge", "removing"} /\ sync'.pc = sync.pc
             /\ sync'.todo = sync.todo /\ sync'.entries = sync.entries
      BY <1>18, Derives, IdleFields DEF SameMerge
    <2>2. QED
      BY <2>1 DEF Listed, Merging, AtEntry
  <1>4. CASE SyncLoad
    <2>1. sync'.pc = "merge" /\ (t \in sync'.todo => sync'.entries[t] # "absent")
      BY <1>4, Loads
    <2>2. QED
      BY <2>1 DEF Listed, Merging, AtEntry
  <1>5. ASSUME NEW u \in Titles, MergeEntry(u)
        PROVE  Listed(t)'
    <2>1. /\ sync'.entries = sync.entries /\ sync.pc = "merge" /\ u \in sync.todo /\ sync'.todo = sync.todo \ {u}
          /\ sync'.pc = "merge" \/ (sync'.pc = "read" /\ sync'.cur = u /\ u \in sync'.settled)
      BY <1>5, TakesEntry DEF SameMerge
    <2>2. QED
      BY <2>1 DEF Listed, Merging, AtEntry
  <1>6. ASSUME sync'.entries = sync.entries, sync'.todo = sync.todo, sync.pc \in AtEntry,
               \/ sync'.pc = "merge"
               \/ /\ sync'.pc \in AtEntry /\ sync'.cur = sync.cur
                  /\ sync.cur \in sync.settled \cup owes => sync.cur \in sync'.settled \cup owes'
        PROVE  Listed(t)'
    BY <1>6 DEF Listed, Merging, AtEntry
  <1>7. CASE MergeRead
    <2>1. /\ sync'.entries = sync.entries /\ sync'.todo = sync.todo /\ sync.pc \in AtEntry
          /\ \/ sync'.pc = "merge"
             \/ /\ sync'.pc \in AtEntry /\ sync'.cur = sync.cur /\ UNCHANGED owes
                /\ sync'.settled = sync.settled \cup {sync.cur} \/ sync'.settled = sync.settled
      BY <1>7, Reads DEF SameMerge, AtEntry, Ended, Failed
    <2>2. QED
      BY <1>6, <2>1
  <1>8. CASE MergeCreate
    <2>1. /\ sync'.entries = sync.entries /\ sync'.todo = sync.todo /\ sync.pc \in AtEntry
          /\ \/ sync'.pc = "merge"
             \/ sync'.pc \in AtEntry /\ sync'.cur = sync.cur /\ sync'.settled = sync.settled \cup {sync.cur}
      BY <1>8, Creates DEF SameMerge, AtEntry, Failed
    <2>2. QED
      BY <1>6, <2>1
  <1>9. CASE MergeStamp
    <2>1. /\ sync'.entries = sync.entries /\ sync'.todo = sync.todo /\ sync.pc \in AtEntry
          /\ UNCHANGED owes /\ sync'.settled = sync.settled
          /\ sync'.pc = "merge" \/ (sync'.pc \in AtEntry /\ sync'.cur = sync.cur)
      BY <1>9, Stamps DEF SameMerge, AtEntry
    <2>2. QED
      BY <1>6, <2>1
  <1>10. CASE MergeMode
    <2>1. sync'.entries = sync.entries /\ sync'.todo = sync.todo /\ sync.pc \in AtEntry /\ sync'.pc = "merge"
      BY <1>10, SetsMode DEF SameMerge, AtEntry, Ended, Failed
    <2>2. QED
      BY <1>6, <2>1
  <1>11. CASE SyncRemovals
    <2>1. sync'.pc = "removing" /\ sync'.entries = sync.entries /\ (t \in sync'.todo => sync.entries[t] = "absent")
      BY <1>11, ListsRemovals DEF SameSync
    <2>2. QED
      BY <2>1 DEF Listed, Merging, AtEntry
  <1>12. ASSUME NEW u \in Titles, RemovalApply(u)
         PROVE  Listed(t)'
    <2>1. /\ sync.pc = "removing"
          /\ \/ sync'.pc = "idle"
             \/ sync'.pc = "removing" /\ sync'.entries = sync.entries /\ sync'.todo = sync.todo \ {u}
      BY <1>12, RemovesOne, IdleFields DEF SameSync
    <2>2. QED
      BY <2>1 DEF Listed, Merging, AtEntry
  <1>13. CASE SyncDetails \/ MergeDone \/ RemovalsDone \/ SyncStamp \/ SyncRestart
    <2>1. sync'.pc \in {"idle", "load", "removals", "cursor"}
      BY <1>13, AsksDetails, EntriesDone, RemovalsEnd, StampsCursor, Restarts, IdleFields
    <2>2. QED
      BY <1>2, <2>1 DEF Merging, AtEntry
  <1>14. CASE ListStep
    <2>1. UNCHANGED <<sync, owes>>
      BY <1>14, ListActs
    <2>2. QED
      BY <2>1 DEF Listed
  <1>15. CASE Outside(t)
    <2>1. /\ sync'.pc = sync.pc /\ sync'.cur = sync.cur /\ sync'.entries = sync.entries /\ sync'.todo = sync.todo
      BY <1>15 DEF Outside, SamePlace
    <2>2. sync.pc # "idle" => \/ t \in owes' /\ t \notin sync'.settled
                              \/ (t \in sync'.settled <=> t \in sync.settled) /\ (t \in owes' <=> t \in owes)
      BY <1>15 DEF Outside, Owing, Editing, Pinning, Marking, MarksKept
    <2>3. QED
      BY <2>1, <2>2 DEF Listed, Merging, AtEntry
  <1>16. QED
    BY <1>17, <1>18, <1>1, <1>3, <1>4, <1>5, <1>7, <1>8, <1>9, <1>10, <1>11, <1>12, <1>13, <1>14, <1>15, StepKinds, OutsideSteps
      DEF SyncStep, Draining

LEMMA RowReadStays ==
  ASSUME TypeInv, [SyncNext]_syncVars, NEW t \in Titles, RowRead(t)
  PROVE  RowRead(t)'
  <1>1. CASE SyncStep
    <2> SUFFICES ASSUME sync'.pc = "stamp", sync'.cur = t, ~sync'.row.new
                 PROVE  lib'[t].in /\ (lib'[t].pinned \/ (~sync'.row.pinned /\ lib'[t].mode = sync'.row.mode))
      BY DEF RowRead
    <2>1. MergeRead
      <3>1. ~MergeCreate
        BY Creates DEF Failed
      <3>2. ~(SyncFetch \/ SyncDetails \/ SyncLoad \/ MergeStamp \/ MergeMode \/ MergeDone \/ SyncRemovals
              \/ RemovalsDone \/ SyncStamp)
        BY Fetches, AsksDetails, Loads, Stamps, SetsMode, EntriesDone, ListsRemovals, RemovalsEnd, StampsCursor, IdleFields
          DEF Ended, Failed
      <3>3. \A u \in Titles : ~MergeEntry(u) /\ ~RemovalApply(u)
        BY TakesEntry, RemovesOne, IdleFields
      <3>5. ~(SyncDrained \/ Draining \/ SyncDerive \/ SyncRows)
        BY Drains, Drawing, Derives, IdleFields
      <3>4. QED
        BY <1>1, <3>1, <3>2, <3>3, <3>5 DEF SyncStep, Draining
    <2>2. /\ lib' = lib /\ lib[t].in /\ sync'.row.mode = lib[t].mode /\ (sync'.row.pinned <=> lib[t].pinned)
      BY <2>1, Reads DEF userVars, Ended, Failed
    <2>3. QED
      BY <2>2
  <1>2. CASE SyncTick \/ SyncNow \/ SyncRestart
    BY <1>2, Starts, Restarts DEF RowRead
  <1>3. CASE ListStep
    <2>1. UNCHANGED sync /\ lib'[t].in = lib[t].in /\ lib'[t].mode = lib[t].mode /\ lib'[t].pinned = lib[t].pinned
      BY <1>3, ListActs
    <2>2. QED
      BY <2>1 DEF RowRead
  <1>4. CASE Outside(t)
    <2> SUFFICES ASSUME sync.pc = "stamp", sync.cur = t, ~sync.row.new, t \in sync'.settled
                 PROVE  lib'[t].in /\ (lib'[t].pinned \/ (~sync.row.pinned /\ lib'[t].mode = sync.row.mode))
      BY <1>4 DEF RowRead, Outside, SamePlace
    <2>1. \/ SameRow(t) /\ t \in sync.settled
          \/ lib'[t].in /\ lib'[t].pinned
      BY <1>4 DEF Outside, Owing, Editing, Pinning, Marking, MarksKept, SameRow
    <2>2. QED
      BY <2>1 DEF RowRead, SameRow
  <1>5. QED
    BY <1>1, <1>2, <1>3, <1>4, StepKinds, OutsideSteps

LEMMA OutReadStays ==
  ASSUME TypeInv, [SyncNext]_syncVars, NEW t \in Titles, OutRead(t)
  PROVE  OutRead(t)'
  <1>1. CASE SyncStep
    <2> SUFFICES ASSUME sync'.pc \in Merging, t \in sync'.out, t \notin excluded'
                 PROVE  lib'[t].in \/ t \in owes'
      BY DEF OutRead
    <2>1. UNCHANGED excluded /\ (lib[t].in => lib'[t].in) /\ (t \in owes => t \in owes')
      BY <1>1, SyncSame, SyncWrites, OwesGrow DEF Merging, AtEntry
    <2>2. CASE SyncLoad
      <3>1. sync'.out = excluded \/ sync'.out = {}
        BY <2>2, Loads
      <3>2. QED
        BY <2>1, <3>1
    <2>3. CASE ~SyncLoad
      <3>1. sync.pc \in Merging /\ sync'.out = sync.out
        <4>1. ~(SyncFetch \/ SyncDetails \/ MergeDone \/ SyncRemovals \/ RemovalsDone \/ SyncStamp)
          BY Fetches, AsksDetails, EntriesDone, ListsRemovals, RemovalsEnd, StampsCursor, IdleFields
            DEF Merging, AtEntry
        <4>2. \A u \in Titles : ~RemovalApply(u)
          BY RemovesOne, IdleFields DEF Merging, AtEntry
        <4>5. ~(SyncDrained \/ Draining)
          BY Drains, Drawing DEF Merging, AtEntry
        <4>3. SyncDerive \/ SyncRows \/ MergeRead \/ MergeCreate \/ MergeStamp \/ MergeMode \/ \E u \in Titles : MergeEntry(u)
          BY <1>1, <2>3, <4>1, <4>2, <4>5 DEF SyncStep, Draining
        <4>4. QED
          BY <4>3, Derives, IdleFields, Reads, Creates, Stamps, SetsMode, TakesEntry DEF SameMerge, Merging, AtEntry
      <3>2. QED
        BY <2>1, <3>1 DEF OutRead
    <2>4. QED
      BY <2>2, <2>3
  <1>2. CASE SyncTick \/ SyncNow \/ SyncRestart
    BY <1>2, Starts, Restarts DEF OutRead, Merging, AtEntry
  <1>3. CASE ListStep
    <2>1. UNCHANGED <<sync, excluded, owes>> /\ lib'[t].in = lib[t].in
      BY <1>3, ListActs DEF requestVars
    <2>2. QED
      BY <2>1 DEF OutRead
  <1>4. CASE Outside(t)
    <2>1. sync'.pc = sync.pc /\ sync'.out = sync.out
      BY <1>4 DEF Outside, SamePlace
    <2>2. \/ t \in owes'
          \/ /\ lib[t].in => lib'[t].in
             /\ t \in owes' <=> t \in owes
             /\ t \in excluded /\ t \notin excluded' => lib[t].in
      BY <1>4 DEF Outside, Owing, Editing, Pinning, Marking, MarksKept, SameRow
    <2>3. QED
      BY <2>1, <2>2 DEF OutRead
  <1>5. QED
    BY <1>1, <1>2, <1>3, <1>4, StepKinds, OutsideSteps

\* Which step of a sync leads to the entry at hand
LEMMA LeadsTo ==
  ASSUME TypeInv, SyncStep
  PROVE  /\ sync'.pc = "read" => MergeEntry(sync'.cur) /\ sync'.cur \in Titles
         /\ sync'.pc = "create" => MergeRead
         /\ sync'.pc = "stamp" => MergeRead \/ MergeCreate
         /\ sync'.pc = "mode" => MergeStamp
         /\ sync'.pc \in Merging => SyncLoad \/ (sync.pc \in Merging /\ sync'.out = sync.out)
  <1>1. ~(SyncLoad /\ sync'.pc \in AtEntry)
    BY Loads DEF AtEntry
  <1>2. SyncFetch \/ SyncDetails \/ MergeDone \/ SyncRemovals \/ RemovalsDone \/ SyncStamp => sync'.pc \notin Merging
    BY Fetches, AsksDetails, EntriesDone, ListsRemovals, RemovalsEnd, StampsCursor, IdleFields DEF Merging, AtEntry
  <1>3. \A u \in Titles : RemovalApply(u) => sync'.pc \notin Merging
    BY RemovesOne, IdleFields DEF Merging, AtEntry
  <1>12. SyncDrained \/ Draining => sync'.pc \notin Merging
    BY Drains, Drawing DEF Merging, AtEntry
  <1>13. SyncDerive \/ SyncRows => sync'.pc \notin AtEntry
                                  /\ (sync'.pc = "merge" => sync.pc = "merge" /\ sync'.out = sync.out)
    BY Derives, IdleFields DEF AtEntry, SameMerge
  <1>4. ASSUME NEW u \in Titles, MergeEntry(u)
        PROVE  sync.pc \in Merging /\ sync'.out = sync.out /\ (sync'.pc = "merge" \/ (sync'.pc = "read" /\ sync'.cur = u))
    BY <1>4, TakesEntry DEF SameMerge, Merging
  <1>5. MergeRead => sync.pc \in Merging /\ sync'.out = sync.out /\ sync'.pc \in {"merge", "stamp", "create"}
    BY Reads DEF SameMerge, Merging, AtEntry, Ended, Failed
  <1>6. MergeCreate => sync.pc \in Merging /\ sync'.out = sync.out /\ sync'.pc \in {"merge", "stamp"}
    BY Creates DEF SameMerge, Merging, AtEntry, Failed
  <1>7. MergeStamp => sync.pc \in Merging /\ sync'.out = sync.out /\ sync'.pc \in {"merge", "mode"}
    BY Stamps DEF SameMerge, Merging, AtEntry
  <1>8. MergeMode => sync.pc \in Merging /\ sync'.out = sync.out /\ sync'.pc = "merge"
    BY SetsMode DEF SameMerge, Merging, AtEntry, Ended, Failed
  <1>9. CASE \E u \in Titles : MergeEntry(u)
    BY <1>4, <1>9 DEF Merging, AtEntry
  <1>10. CASE ~\E u \in Titles : MergeEntry(u)
    <2>1. sync'.pc # "read"
      BY <1>1, <1>2, <1>3, <1>5, <1>6, <1>7, <1>8, <1>10, <1>12, <1>13 DEF SyncStep, Draining, Merging, AtEntry
    <2>2. sync'.pc = "create" => MergeRead
      BY <1>1, <1>2, <1>3, <1>5, <1>6, <1>7, <1>8, <1>10, <1>12, <1>13 DEF SyncStep, Draining, Merging, AtEntry
    <2>3. sync'.pc = "stamp" => MergeRead \/ MergeCreate
      BY <1>1, <1>2, <1>3, <1>5, <1>6, <1>7, <1>8, <1>10, <1>12, <1>13 DEF SyncStep, Draining, Merging, AtEntry
    <2>4. sync'.pc = "mode" => MergeStamp
      BY <1>1, <1>2, <1>3, <1>5, <1>6, <1>7, <1>8, <1>10, <1>12, <1>13 DEF SyncStep, Draining, Merging, AtEntry
    <2>5. sync'.pc \in Merging => SyncLoad \/ (sync.pc \in Merging /\ sync'.out = sync.out)
      BY <1>2, <1>3, <1>5, <1>6, <1>7, <1>8, <1>10, <1>12, <1>13 DEF SyncStep, Draining, Merging, AtEntry
    <2>6. QED
      BY <2>1, <2>2, <2>3, <2>4, <2>5
  <1>11. QED
    BY <1>9, <1>10

\* The row of a title after the writes of a sync
LEMMA RowAfterCreate ==
  ASSUME TypeInv, MergeCreate, NEW t \in Titles
  PROVE  sync.cur # t => lib'[t] = lib[t]
  BY Creates DEF TypeInv, RowsTyped

LEMMA RowAfterStamp ==
  ASSUME TypeInv, MergeStamp, NEW t \in Titles
  PROVE  /\ sync.cur # t => lib'[t] = lib[t]
         /\ lib'[t].in = lib[t].in /\ lib'[t].mode = lib[t].mode /\ lib'[t].pinned = lib[t].pinned
  <1>1. lib \in [Titles -> Series] /\ lib[t] \in Series
    BY DEF TypeInv, RowsTyped
  <1>2. UNCHANGED lib \/ \E a : lib' = [lib EXCEPT ![sync.cur].from = a]
    BY Stamps
  <1>3. lib'[t] = lib[t] \/ (sync.cur = t /\ \E a : lib'[t] = [lib[t] EXCEPT !.from = a])
    BY <1>1, <1>2
  <1>4. QED
    BY <1>1, <1>3 DEF Series

LEMMA RowAfterMode ==
  ASSUME TypeInv, NEW u \in Titles, NEW m, lib' = [lib EXCEPT ![u].mode = m], NEW t \in Titles
  PROVE  /\ u # t => lib'[t] = lib[t]
         /\ lib'[t].in = lib[t].in /\ lib'[t].pinned = lib[t].pinned /\ lib'[t].from = lib[t].from
         /\ u = t => lib'[t].mode = m
  <1>1. lib \in [Titles -> Series] /\ lib[t] \in Series
    BY DEF TypeInv, RowsTyped
  <1>2. CASE u = t
    <2>1. lib'[t] = [lib[t] EXCEPT !.mode = m]
      BY <1>1, <1>2
    <2>2. QED
      BY <1>1, <1>2, <2>1 DEF Series
  <1>3. CASE u # t
    BY <1>1, <1>3
  <1>4. QED
    BY <1>2, <1>3

LEMMA AgreesKept ==
  ASSUME NEW t \in Titles, account'.id = account.id, list'[account.id][t] = list[account.id][t], SameRow(t),
         t \in excluded /\ t \notin excluded' => lib[t].in, Agrees(t)
  PROVE  Agrees(t)'
  BY DEF Agrees, SameRow

\* A title behind the cursor during a sync: the sync is of the linked account, and what it read
\* is what the list says.
LEMMA BehindInSync ==
  ASSUME TypeInv, NEW t \in Titles, EditSeen(t), EntryRead(t), Behind(t), sync.pc # "idle"
  PROVE  /\ Current /\ account.id \in Accounts /\ t \notin sync.edited
         /\ sync.pc # "fetch" =>
              sync.entries[t] = IF sync.full THEN list[account.id][t] ELSE "absent"
  <1>1. Current /\ account.id \in Accounts
    BY DEF TypeInv, SyncsAnAccount, Behind, Current
  <1>2. t \notin sync.edited
    BY <1>1 DEF EditSeen, Behind
  <1>3. QED
    BY <1>1, <1>2 DEF EntryRead, Expected, Behind

LEMMA BehindBefore ==
  ASSUME TypeInv, SyncStep, ~SyncStamp, NEW t \in Titles, Behind(t)'
  PROVE  Behind(t)
  BY SyncSame, OwesGrow DEF Behind

LEMMA NoneInsertedStays ==
  ASSUME TypeInv, [SyncNext]_syncVars, NEW t \in Titles,
         EditSeen(t), EntryRead(t), NoneInserted(t), BehindAgrees(t)
  PROVE  NoneInserted(t)'
  <1>1. ASSUME sync'.pc \notin Merging
        PROVE  NoneInserted(t)'
    BY <1>1 DEF NoneInserted, InHand, Merging, AtEntry
  <1>2. CASE SyncStep /\ sync'.pc \in Merging
    <2> SUFFICES ASSUME Readable', Behind(t)'
                 PROVE  /\ ~lib'[t].in /\ list'[account'.id][t] \in Imported => t \in sync'.out
                        /\ sync'.pc = "read" /\ sync'.cur = t => lib'[t].in \/ t \notin sync'.out
                        /\ sync'.pc = "create" => sync'.cur # t
                        /\ ~InHand(t)'
      BY DEF NoneInserted
    <2>1. /\ ~SyncStamp /\ UNCHANGED <<account, list, excluded, syncPlan>> /\ sync.pc # "idle"
      BY <1>2, SyncSame, StampsCursor, IdleFields DEF Merging, AtEntry
    <2>2. Readable /\ Behind(t)
      BY <1>2, <2>1, BehindBefore DEF Readable
    <2>3. lib[t].in => lib'[t].in
      BY <1>2, SyncWrites
    <2>4. ~lib'[t].in /\ list'[account'.id][t] \in Imported => t \in sync'.out
      <3> SUFFICES ASSUME ~lib'[t].in, list[account.id][t] \in Imported
                   PROVE  t \in sync'.out
        BY <2>1
      <3>1. CASE SyncLoad
        <4>1. sync'.out = excluded /\ sync.pc = "load"
          BY <2>2, <3>1, Loads DEF Readable
        <4>2. Agrees(t)
          BY <2>2, <4>1 DEF BehindAgrees, InHand, Imported
        <4>3. QED
          BY <2>3, <4>1, <4>2 DEF Agrees
      <3>2. CASE sync.pc \in Merging /\ sync'.out = sync.out
        BY <2>2, <2>3, <3>2 DEF NoneInserted
      <3>3. QED
        BY <1>2, <3>1, <3>2, LeadsTo
    <2>5. sync'.pc = "read" /\ sync'.cur = t => lib'[t].in \/ t \notin sync'.out
      <3> SUFFICES ASSUME sync'.pc = "read", sync'.cur = t
                   PROVE  lib'[t].in \/ t \notin sync'.out
        OBVIOUS
      <3>1. MergeEntry(t)
        BY <1>2, LeadsTo
      <3>2. sync'.out = sync.out /\ lib' = lib /\ (t \notin sync.out \/ lib[t].in)
        BY <3>1, TakesEntry DEF SameMerge, userVars
      <3>3. QED
        BY <3>2
    <2>6. sync'.pc = "create" => sync'.cur # t
      <3> SUFFICES ASSUME sync'.pc = "create", sync'.cur = t
                   PROVE  FALSE
        OBVIOUS
      <3>1. sync.pc = "read" /\ sync.cur = t /\ ~lib[t].in /\ sync.entries[t] \in Imported
        BY <1>2, LeadsTo, Reads DEF Ended, Failed
      <3>2. t \notin sync.out
        BY <2>2, <3>1 DEF NoneInserted
      <3>3. sync.entries[t] = IF sync.full THEN list[account.id][t] ELSE "absent"
        BY <2>1, <2>2, <3>1, BehindInSync
      <3>4. list[account.id][t] \in Imported
        BY <3>1, <3>3 DEF Imported
      <3>5. QED
        BY <2>2, <3>1, <3>2, <3>4 DEF NoneInserted, Merging, AtEntry
    <2>7. ~InHand(t)'
      <3> SUFFICES ASSUME sync'.pc \in {"stamp", "mode"}, sync'.row.new, sync'.cur = t
                   PROVE  FALSE
        BY DEF InHand
      <3>1. CASE sync'.pc = "stamp"
        <4>1. MergeCreate
          BY <1>2, <3>1, LeadsTo, Reads DEF Ended, Failed
        <4>2. sync.pc = "create" /\ sync.cur = t
          BY <3>1, <4>1, Creates DEF Failed
        <4>3. QED
          BY <2>2, <4>2 DEF NoneInserted
      <3>2. CASE sync'.pc = "mode"
        <4>1. sync.pc = "stamp" /\ sync.cur = t /\ sync.row.new
          BY <1>2, <3>2, LeadsTo, Stamps
        <4>2. QED
          BY <2>2, <4>1 DEF NoneInserted, InHand
      <3>3. QED
        BY <3>1, <3>2
    <2>8. QED
      BY <2>4, <2>5, <2>6, <2>7
  <1>3. CASE SyncTick \/ SyncNow \/ SyncRestart
    <2>1. sync'.pc \in {"fetch", "idle"}
      BY <1>3, Starts, Restarts
    <2>2. QED
      BY <1>1, <2>1 DEF Merging, AtEntry
  <1>4. CASE ListStep
    BY <1>4, ListActs DEF NoneInserted, Behind
  <1>5. CASE Outside(t)
    <2> SUFFICES ASSUME Readable', Behind(t)'
                 PROVE  NoneInserted(t)'
      BY DEF NoneInserted
    <2>1. UNCHANGED <<account, syncPlan>> /\ SamePlace /\ account.id \in Accounts
      BY <1>5, Names DEF Outside, Behind, TypeInv, RowsTyped
    <2>2. Pinning(t) \/ Marking(t)
      BY <1>5, <2>1 DEF Outside, Owing, Editing, Behind
    <2>3. /\ list'[account.id][t] = list[account.id][t] /\ (t \in fresh'[account.id] <=> t \in fresh[account.id])
          /\ t \in owes' <=> t \in owes
          /\ lib[t].in => lib'[t].in
      BY <2>1, <2>2 DEF Pinning, Marking, ListKept, MarksKept, SameRow
    <2>4. Readable /\ Behind(t)
      BY <2>1, <2>3 DEF Readable, Behind
    <2>5. InHand(t)' <=> InHand(t)
      BY <2>1 DEF SamePlace, InHand
    <2>6. QED
      BY <2>1, <2>3, <2>4, <2>5 DEF NoneInserted, SamePlace
  <1>6. QED
    BY <1>1, <1>2, <1>3, <1>4, <1>5, StepKinds, OutsideSteps

\* Exclusions that cannot be read and a restart do not come together.
OneTrouble == Readable \/ "restart" \notin syncPlan.faults

LEMMA BehindAgreesStays ==
  ASSUME TypeInv, OneTrouble, Phases, [SyncNext]_syncVars, NEW t \in Titles, Following(t)
  PROVE  BehindAgrees(t)'
  <1> USE DEF Following
  <1>1. ASSUME UNCHANGED <<account, list, fresh, lib, excluded, owes, unread>>, ~InHand(t) \/ ~Behind(t)
        PROVE  BehindAgrees(t)'
    <2>1. CASE Behind(t) /\ ~Agrees(t)
      BY <1>1, <2>1 DEF BehindAgrees
    <2>2. CASE Agrees(t)
      <3>1. Agrees(t)'
        BY <1>1, <2>2, AgreesKept DEF SameRow
      <3>2. QED
        BY <3>1 DEF BehindAgrees
    <2>3. CASE ~Behind(t)
      BY <1>1, <2>3 DEF BehindAgrees, Behind
    <2>4. QED
      BY <2>1, <2>2, <2>3
  <1>2. CASE SyncTick \/ SyncNow
    <2>1. UNCHANGED <<account, list, fresh, lib, excluded, owes, unread>> /\ sync.pc = "idle"
      BY <1>2, Starts DEF userVars, accountVars, requestVars
    <2>2. QED
      BY <1>1, <2>1 DEF InHand
  <1>3. CASE SyncRestart
    <2>1. UNCHANGED <<account, list, fresh, lib, excluded, owes, unread>> /\ Readable
      BY <1>3, Restarts DEF OneTrouble
    <2>2. QED
      BY <1>1, <2>1 DEF NoneInserted
  <1>4. CASE ListStep
    BY <1>4, ListActs DEF BehindAgrees, Behind
  <1>5. CASE Outside(t)
    <2> SUFFICES ASSUME Behind(t)', ~InHand(t)'
                 PROVE  (list'[account'.id][t] = "absent" /\ t \in unread') \/ Agrees(t)'
      BY DEF BehindAgrees
    <2>1. UNCHANGED account /\ SamePlace /\ account.id \in Accounts
      BY <1>5, Names DEF Outside, Behind, TypeInv, RowsTyped
    <2>2. Pinning(t) \/ Marking(t)
      BY <1>5, <2>1 DEF Outside, Owing, Editing, Behind
    <2>3. /\ list'[account.id][t] = list[account.id][t] /\ (t \in fresh'[account.id] <=> t \in fresh[account.id])
          /\ (t \in unread' <=> t \in unread) /\ (t \in owes' <=> t \in owes)
      BY <2>1, <2>2 DEF Pinning, Marking, ListKept, MarksKept
    <2>4. Behind(t) /\ ~InHand(t)
      BY <2>1, <2>3 DEF Behind, SamePlace, InHand
    <2>5. (list[account.id][t] = "absent" /\ t \in unread) \/ Agrees(t)
      BY <2>4 DEF BehindAgrees
    <2>6. CASE Agrees(t) /\ Marking(t)
      BY <2>1, <2>3, <2>6, AgreesKept DEF Marking
    <2>7. CASE Pinning(t)
      BY <2>7 DEF Pinning, Agrees
    <2>8. QED
      BY <2>1, <2>2, <2>3, <2>5, <2>6, <2>7
  <1>6. CASE SyncStep /\ ~SyncStamp
    <2> SUFFICES ASSUME Behind(t)', ~InHand(t)'
                 PROVE  (list'[account'.id][t] = "absent" /\ t \in unread') \/ Agrees(t)'
      BY DEF BehindAgrees
    <2>1. UNCHANGED <<account, list, excluded, fresh, unread>> /\ sync.pc # "idle" /\ Behind(t) /\ t \notin owes'
      BY <1>6, SyncSame, BehindBefore DEF Behind
    <2>2. /\ account.id \in Accounts
          /\ sync.pc # "fetch" => sync.entries[t] = IF sync.full THEN list[account.id][t] ELSE "absent"
      BY <2>1, BehindInSync
    <2>3. ASSUME SameRow(t), ~InHand(t)
          PROVE  (list[account.id][t] = "absent" /\ t \in unread) \/ Agrees(t)'
      <3>1. (list[account.id][t] = "absent" /\ t \in unread) \/ Agrees(t)
        BY <2>1, <2>3 DEF BehindAgrees
      <3>2. Agrees(t) => Agrees(t)'
        BY <2>1, <2>3, AgreesKept
      <3>3. QED
        BY <3>1, <3>2
    <2>4. CASE MergeCreate
      <3>1. sync.pc = "create" /\ (sync'.pc = "stamp" => sync'.cur = sync.cur /\ sync'.row.new)
            /\ (sync'.pc # "stamp" => UNCHANGED lib)
        BY <2>4, Creates DEF Failed
      <3>2. lib'[t] = lib[t]
        BY <2>4, <3>1, RowAfterCreate DEF InHand
      <3>3. QED
        BY <2>1, <2>3, <3>1, <3>2 DEF InHand, SameRow
    <2>5. CASE MergeStamp
      <3>1. ~(sync.cur = t /\ sync.row.new)
        BY <2>5, Stamps DEF InHand
      <3>2. CASE sync.cur # t
        BY <2>1, <2>3, <2>5, <3>2, RowAfterStamp DEF InHand, SameRow
      <3>3. CASE sync.cur = t
        <4>1. sync.pc = "stamp" /\ sync.entries[t] # "absent"
          BY <2>5, <3>3, Stamps DEF Listed, AtEntry
        <4>2. list[account.id][t] # "absent"
          BY <2>2, <4>1
        <4>3. Agrees(t)
          BY <2>1, <3>1, <3>3, <4>2 DEF BehindAgrees, InHand
        <4>4. lib'[t].in = lib[t].in /\ lib'[t].mode = lib[t].mode /\ lib'[t].pinned = lib[t].pinned
          BY <2>5, RowAfterStamp
        <4>5. QED
          BY <2>1, <4>2, <4>3, <4>4 DEF Agrees
      <3>4. QED
        BY <3>2, <3>3
    <2>6. CASE MergeMode
      <3>1. sync.pc = "mode" /\ sync.cur \in Titles
        BY <2>6, SetsMode, AtTitle DEF AtEntry
      <3>2. CASE UNCHANGED lib /\ Failed
        <4>1. sync.cur # t
          BY <2>1, <3>2 DEF Failed
        <4>2. QED
          BY <2>1, <2>3, <3>2, <4>1 DEF InHand, SameRow
      <3>3. CASE RowStands(sync.cur) /\ lib' = [lib EXCEPT ![sync.cur].mode = ModeFor(sync.entries[sync.cur])]
        <4>1. CASE sync.cur # t
          BY <2>1, <2>3, <3>1, <3>3, <4>1, RowAfterMode DEF InHand, SameRow
        <4>2. CASE sync.cur = t
          <5>1. sync.entries[t] # "absent"
            BY <3>1, <4>2 DEF Listed, AtEntry
          <5>2. list[account.id][t] = sync.entries[t]
            BY <2>2, <3>1, <5>1
          <5>3. lib'[t].in /\ lib'[t].mode = ModeFor(sync.entries[t])
            <6>1. lib[t].in /\ lib' = [lib EXCEPT ![t].mode = ModeFor(sync.entries[t])]
              BY <3>3, <4>2 DEF RowStands
            <6>2. QED
              BY <6>1, RowAfterMode
          <5>4. QED
            BY <2>1, <5>1, <5>2, <5>3 DEF Agrees
        <4>3. QED
          BY <4>1, <4>2
      <3>4. QED
        BY <2>6, <3>2, <3>3, SetsMode
    <2>7. ASSUME NEW u \in Titles, RemovalApply(u)
          PROVE  (list[account.id][t] = "absent" /\ t \in unread) \/ Agrees(t)'
      <3>1. sync.pc = "removing" /\ u \in sync.todo /\ ~InHand(t)
        BY <2>7, RemovesOne DEF InHand
      <3>2. CASE UNCHANGED lib
        BY <2>3, <3>1, <3>2 DEF SameRow
      <3>3. CASE lib' = [lib EXCEPT ![u].mode = "none"]
        <4>1. CASE u # t
          BY <2>3, <3>1, <3>3, <4>1, RowAfterMode DEF SameRow
        <4>2. CASE u = t
          <5>1. list[account.id][t] = "absent"
            BY <2>2, <3>1, <4>2 DEF Listed, Phases
          <5>2. lib'[t].mode = "none"
            BY <3>3, <4>2, RowAfterMode
          <5>3. QED
            BY <2>1, <5>1, <5>2 DEF Agrees, Imported
        <4>3. QED
          BY <4>1, <4>2
      <3>4. QED
        BY <2>7, <3>2, <3>3, RemovesOne
    <2>10. CASE SyncDrained \/ Draining \/ SyncDerive \/ SyncRows
      <3>1. SameRow(t) /\ ~InHand(t)
        <4>1. SyncDrained \/ Draining => UNCHANGED lib /\ sync.pc = "fetch"
          BY Drains, Drawing DEF userVars
        <4>2. SyncDerive \/ SyncRows => SameRow(t) /\ sync.pc \in {"merge", "removing"}
          BY Derives
        <4>3. SyncDrained \/ Draining => SameRow(t) /\ ~InHand(t)
          BY <4>1 DEF SameRow, InHand
        <4>4. SyncDerive \/ SyncRows => SameRow(t) /\ ~InHand(t)
          BY <4>2 DEF InHand
        <4>5. QED
          BY <2>10, <4>3, <4>4
      <3>2. QED
        BY <2>1, <2>3, <3>1
    <2>8. ASSUME \/ SyncFetch \/ SyncDetails \/ SyncLoad \/ MergeRead \/ MergeDone \/ SyncRemovals \/ RemovalsDone
                 \/ \E u \in Titles : MergeEntry(u)
          PROVE  (list[account.id][t] = "absent" /\ t \in unread) \/ Agrees(t)'
      <3>1. UNCHANGED lib /\ sync.pc \notin {"stamp", "mode"}
        BY <2>8 DEF SyncFetch, SyncDetails, SyncLoad, MergeRead, MergeDone, SyncRemovals, RemovalsDone, MergeEntry,
          userVars
      <3>2. QED
        BY <2>3, <3>1 DEF InHand, SameRow
    <2>9. QED
      BY <1>6, <2>1, <2>4, <2>5, <2>6, <2>7, <2>8, <2>10 DEF SyncStep, Draining
  <1>7. CASE SyncStamp
    <2>1. sync.pc = "cursor" /\ sync' = IdleSync /\ UNCHANGED <<list, lib, excluded>>
      BY <1>7, StampsCursor
    <2>2. CASE UNCHANGED <<account, fresh, owes, unread>>
      BY <2>1, <2>2, <1>1, <1>7 DEF InHand, SyncStamp
    <2>3. CASE /\ Current /\ account'.id = account.id
               /\ fresh' = [fresh EXCEPT ![account.id] = sync.edited] /\ owes' = owes \ sync.settled
               /\ unread' = IF sync.full THEN sync.edited ELSE unread
      <3> SUFFICES ASSUME Behind(t)'
                   PROVE  (list[account.id][t] = "absent" /\ t \in unread') \/ Agrees(t)'
        BY <2>1, <2>3 DEF BehindAgrees
      <3>1. account.id \in Accounts
        BY <2>3 DEF Current, TypeInv, SyncsAnAccount
      <3>2. fresh'[account.id] = sync.edited
        BY <2>3, <3>1 DEF TypeInv, ListsTyped
      <3>3. t \notin sync.edited /\ (t \in owes => t \in sync.settled)
        BY <2>3, <3>2 DEF Behind
      <3>4. sync.cur # t /\ ~Due(t) /\ ~InHand(t)
        BY <2>1, Names DEF TypeInv, SyncTyped, AtEntry, Due, Merging, InHand
      <3>5. Agrees(t) => Agrees(t)'
        BY <2>1, <2>3, AgreesKept DEF SameRow
      <3>6. CASE t \in sync.settled
        <4>1. Agrees(t)
          BY <2>1, <2>3, <3>3, <3>4, <3>6 DEF Accounted, TakenUp
        <4>2. QED
          BY <3>5, <4>1
      <3>7. CASE t \notin sync.settled
        <4>1. t \notin owes /\ sync.entries[t] = "absent" /\ ~sync.full
          BY <2>1, <2>3, <3>3, <3>4, <3>7 DEF Accounted, TakenUp, Ending
        <4>2. account.cursor /\ unread' = unread
          BY <2>3, <4>1 DEF TypeInv, SyncsAnAccount, Current
        <4>3. CASE t \in fresh[account.id]
          <5>1. list[account.id][t] = "absent"
            BY <2>1, <2>3, <3>3, <4>1, <4>3 DEF EntryRead, Expected
          <5>2. t \in unread
            BY <3>1, <4>2, <4>3, Names DEF EditSeen
          <5>3. QED
            BY <4>2, <5>1, <5>2
        <4>4. CASE t \notin fresh[account.id]
          BY <3>4, <3>5, <4>1, <4>2, <4>4 DEF BehindAgrees, Behind
        <4>5. QED
          BY <4>3, <4>4
      <3>8. QED
        BY <3>6, <3>7
    <2>4. QED
      BY <1>7, <2>2, <2>3, StampsCursor
  <1>8. QED
    BY <1>2, <1>3, <1>4, <1>5, <1>6, <1>7, StepKinds, OutsideSteps

LEMMA RowSet ==
  ASSUME TypeInv, NEW t \in Titles, lib[t].in, lib' = [lib EXCEPT ![t].mode = ModeFor(sync.entries[t])]
  PROVE  lib'[t].in /\ lib'[t].mode = ModeFor(sync.entries[t])
  BY RowAfterMode

\* What a step of the merge leaves of a title: taken up as before if it was listed, else untouched
MergeKeeps(t) ==
  IF sync.entries[t] # "absent"
  THEN /\ Due(t)' \/ t \in sync'.settled \cup owes'
       /\ t \in sync'.settled /\ sync'.cur # t => Agrees(t)'
  ELSE t \notin sync'.settled /\ sync'.pc \notin Ending

\* What a step of the merge takes up, and what it leaves
LEMMA MergeTakesUp ==
  ASSUME TypeInv, Phases, NEW t \in Titles, Following(t), Current, t \notin sync.edited,
         MergeRead \/ MergeCreate \/ MergeStamp \/ MergeMode \/ \E u \in Titles : MergeEntry(u)
  PROVE  MergeKeeps(t)
  <1> USE DEF Following, MergeKeeps
  <1>1. SyncStep /\ ~SyncStamp
    BY StampsCursor, TakesEntry, Reads, Creates, Stamps, SetsMode DEF SyncStep
  <1>2. UNCHANGED <<account, list, excluded, syncPlan>> /\ owes \subseteq owes'
    BY <1>1, SyncSame, OwesGrow
  <1>3. sync.pc \in Merging /\ sync'.pc \in Merging /\ sync'.pass = sync.pass
    BY TakesEntry, Reads, Creates, Stamps, SetsMode DEF SameMerge, Merging, AtEntry, Ended, Failed
  <1>4. sync'.pc \notin Ending /\ sync.pc \notin Ending /\ sync.pc # "fetch"
    BY <1>3 DEF Merging, AtEntry, Ending
  <1>5. IF sync.entries[t] # "absent"
        THEN /\ Due(t) \/ t \in sync.settled \cup owes
             /\ t \in sync.settled /\ sync.cur # t => Agrees(t)
        ELSE t \notin sync.settled
    BY <1>4 DEF Accounted, TakenUp
  <1>6. sync.entries[t] # "absent" => list[account.id][t] = sync.entries[t]
    BY <1>4 DEF EntryRead, Expected
  <1>7. lib'[t] = lib[t] /\ Agrees(t) => Agrees(t)'
    BY <1>2, AgreesKept DEF SameRow
  <1>8. sync.cur # NoTitle <=> sync.pc \in AtEntry
    BY DEF TypeInv, SyncTyped
  <1>9. sync.pc = "merge" => sync.cur # t
    BY <1>8, Names DEF AtEntry
  <1>10. ASSUME Due(t) => (t \in sync'.todo <=> t \in sync.todo)
         PROVE  Due(t) => Due(t)'
    BY <1>2, <1>3, <1>10 DEF Due, Merging, AtEntry
  <1>11. CASE \E u \in Titles : MergeEntry(u)
    <2>1. PICK u \in Titles : MergeEntry(u)
      BY <1>11
    <2>2. /\ UNCHANGED <<lib, owes>> /\ sync.pc = "merge" /\ u \in sync.todo /\ sync'.todo = sync.todo \ {u}
          /\ \/ /\ u \in sync.out /\ ~lib[u].in /\ sync'.settled = sync.settled \cup ({u} \cap excluded)
             \/ sync'.cur = u /\ sync'.settled = sync.settled \cup {u}
      BY <2>1, TakesEntry DEF userVars
    <2>3. CASE u # t
      <3>1. (t \in sync'.settled <=> t \in sync.settled) /\ (t \in sync'.todo <=> t \in sync.todo) /\ sync.cur # t
        BY <1>9, <2>2, <2>3
      <3>2. QED
        BY <1>2, <1>4, <1>5, <1>7, <1>10, <2>2, <3>1
    <2>4. CASE u = t
      <3>1. sync.entries[t] # "absent"
        BY <2>2, <2>4 DEF Listed, Merging
      <3>2. CASE sync'.cur = t /\ sync'.settled = sync.settled \cup {t}
        BY <3>1, <3>2
      <3>3. CASE t \in sync.out /\ ~lib[t].in /\ sync'.settled = sync.settled \cup ({t} \cap excluded)
        <4>1. CASE t \in excluded
          <5>1. Agrees(t)'
            BY <1>2, <2>2, <3>3, <4>1 DEF Agrees
          <5>2. QED
            BY <3>1, <3>3, <4>1, <5>1
        <4>2. CASE t \notin excluded
          <5>1. t \in owes /\ (t \in sync'.settled <=> t \in sync.settled)
            BY <2>2, <3>3, <4>2 DEF OutRead, Merging
          <5>2. QED
            BY <1>2, <1>5, <1>7, <1>9, <2>2, <3>1, <5>1
        <4>3. QED
          BY <4>1, <4>2
      <3>4. QED
        BY <2>2, <2>4, <3>2, <3>3
    <2>5. QED
      BY <2>3, <2>4
  \* the entry at hand
  <1>12. CASE sync.pc \in AtEntry /\ sync.cur = t
    <2>1. sync.entries[t] # "absent" /\ t \in sync.settled \cup owes
      BY <1>12 DEF Listed
    <2>2. list[account.id][t] = sync.entries[t]
      BY <1>6, <2>1
    <2>3. CASE MergeRead
      <3>1. CASE sync'.cur = t /\ sync'.settled \in {sync.settled, sync.settled \cup {t}}
        BY <1>2, <2>1, <3>1
      <3>2. CASE Failed
        BY <1>12, <2>1, <3>2 DEF Failed
      <3>3. CASE ~lib[t].in /\ sync.entries[t] \notin Imported /\ Ended
        <4>1. Agrees(t)'
          BY <1>2, <2>2, <2>3, <3>3, Reads DEF Agrees, userVars
        <4>2. QED
          BY <1>2, <2>1, <3>3, <4>1 DEF Ended
      <3>4. QED
        BY <1>12, <2>3, <3>1, <3>2, <3>3, Reads
    <2>4. CASE MergeCreate
      <3>1. CASE sync'.cur = t /\ sync'.settled = sync.settled \cup {t}
        BY <2>1, <3>1
      <3>2. CASE Failed
        BY <1>12, <2>1, <3>2 DEF Failed
      <3>3. QED
        BY <1>12, <2>4, <3>1, <3>2, Creates
    <2>5. CASE MergeStamp
      <3>1. sync'.settled = sync.settled /\ sync.pc = "stamp"
        BY <2>5, Stamps
      <3>2. CASE sync'.cur = t
        BY <1>2, <2>1, <3>1, <3>2
      <3>3. CASE sync'.cur # t
        <4>1. ~(sync.row.new \/ (~sync.row.pinned /\ sync.row.mode # ModeFor(sync.entries[t])))
          BY <1>12, <2>5, <3>3, Stamps
        <4>2. t \in sync.settled => lib[t].in /\ (lib[t].pinned \/ lib[t].mode = ModeFor(sync.entries[t]))
          BY <1>12, <3>1, <4>1 DEF RowRead
        <4>3. lib'[t].in = lib[t].in /\ lib'[t].mode = lib[t].mode /\ lib'[t].pinned = lib[t].pinned
          BY <2>5, RowAfterStamp
        <4>4. t \in sync.settled => Agrees(t)'
          BY <1>2, <2>1, <2>2, <4>2, <4>3 DEF Agrees
        <4>5. QED
          BY <1>2, <2>1, <3>1, <4>4
      <3>4. QED
        BY <3>2, <3>3
    <2>6. CASE MergeMode
      <3>1. CASE Failed
        BY <1>12, <2>1, <3>1 DEF Failed
      <3>2. CASE RowStands(t) /\ Ended /\ lib' = [lib EXCEPT ![t].mode = ModeFor(sync.entries[t])]
        <4>1. lib'[t].in /\ lib'[t].mode = ModeFor(sync.entries[t])
          BY <3>2, RowSet DEF RowStands
        <4>2. Agrees(t)'
          BY <1>2, <2>1, <2>2, <4>1 DEF Agrees
        <4>3. QED
          BY <1>2, <2>1, <3>2, <4>2 DEF Ended
      <3>3. QED
        BY <1>12, <2>6, <3>1, <3>2, SetsMode
    <2>7. QED
      BY <1>8, <1>9, <1>12, <2>3, <2>4, <2>5, <2>6, TakesEntry DEF AtEntry
  \* another one
  <1>13. CASE sync.pc \in AtEntry /\ sync.cur # t
    <2>1. ~\E u \in Titles : MergeEntry(u)
      BY <1>13, TakesEntry DEF AtEntry
    <2>2. lib'[t] = lib[t]
      <3>1. MergeRead => lib'[t] = lib[t]
        BY Reads DEF userVars
      <3>2. MergeMode => lib'[t] = lib[t]
        <4> SUFFICES ASSUME MergeMode
                     PROVE  lib'[t] = lib[t]
          OBVIOUS
        <4>1. sync.cur \in Titles
          BY <1>13, AtTitle
        <4>2. UNCHANGED lib \/ lib' = [lib EXCEPT ![sync.cur].mode = ModeFor(sync.entries[sync.cur])]
          BY SetsMode
        <4>3. QED
          BY <1>13, <4>1, <4>2, RowAfterMode
      <3>3. QED
        BY <1>13, <2>1, <3>1, <3>2, RowAfterCreate, RowAfterStamp
    <2>3. sync'.todo = sync.todo /\ (t \in sync'.settled <=> t \in sync.settled)
      BY <1>13, <2>1, Reads, Creates, Stamps, SetsMode DEF Ended, Failed
    <2>4. QED
      BY <1>2, <1>4, <1>5, <1>7, <1>10, <1>13, <2>2, <2>3
  <1>14. QED
    BY <1>3, <1>11, <1>12, <1>13, TakesEntry, Reads, Creates, Stamps, SetsMode DEF Merging, AtEntry

\* What was taken up during a sync that still runs
LEMMA AccountedInSync ==
  ASSUME TypeInv, Phases, SyncStep, sync'.pc # "idle", NEW t \in Titles, Following(t)
  PROVE  Accounted(t)'
  <1> USE DEF Following
  <1> SUFFICES ASSUME Current', t \notin sync'.edited, sync'.pc # "fetch"
               PROVE  TakenUp(t)'
    BY DEF Accounted
  <1>1. /\ ~SyncStamp /\ UNCHANGED <<account, list, excluded, syncPlan>> /\ sync.pc # "idle"
        /\ sync'.full = sync.full /\ Current /\ t \notin sync.edited
        /\ sync.pc # "fetch" => sync'.entries = sync.entries
    BY SyncSame DEF Current
  <1>2. owes \subseteq owes'
    BY <1>1, OwesGrow
  <1>3. sync.cur # NoTitle <=> sync.pc \in AtEntry
    BY DEF TypeInv, SyncTyped
  <1>4. sync.pc \notin AtEntry => sync.cur # t
    BY <1>3, Names
  <1>5. CASE SyncFetch \/ SyncDrained
    <2>1. sync.pc = "fetch" /\ sync'.pc = "details" /\ sync'.settled = sync.settled
      BY <1>5, Fetches, Drains, IdleFields DEF SameFetch
    <2>2. t \notin sync'.settled
      BY <2>1 DEF Listed
    <2>3. QED
      BY <2>1, <2>2 DEF Due, Ending, TakenUp
  <1>6. CASE sync.pc # "fetch"
    <2>1. IF sync.entries[t] # "absent"
          THEN /\ Due(t) \/ t \in sync.settled \cup owes
               /\ t \in sync.settled /\ sync.cur # t => Agrees(t)
          ELSE /\ sync.full /\ sync.pc \in Ending => t \in sync.settled \cup owes
               /\ t \in sync.settled => /\ sync.full /\ sync.pc \in Ending /\ list[account.id][t] = "absent"
                                        /\ Agrees(t) \/ (sync.pc = "removing" /\ t \in sync.todo)
      BY <1>1, <1>6 DEF Accounted, TakenUp
    <2>2. /\ sync.entries[t] # "absent" => list[account.id][t] = sync.entries[t]
          /\ sync.entries[t] = "absent" /\ sync.full => list[account.id][t] = "absent" \/ t \in owes
      BY <1>1, <1>6 DEF EntryRead, Expected
    <2>3. sync'.entries = sync.entries
      BY <1>1, <1>6
    <2>4. SameRow(t) /\ Agrees(t) => Agrees(t)'
      BY <1>1, AgreesKept
    \* a step that takes up nothing
    <2>5. ASSUME SameRow(t), sync'.settled = sync.settled, sync.pc \notin AtEntry,
                 Due(t) => Due(t)' \/ t \in owes', sync.pc \in Ending <=> sync'.pc \in Ending,
                 sync.pc # "removing"
          PROVE  TakenUp(t)'
      BY <1>1, <1>2, <1>4, <2>1, <2>3, <2>4, <2>5 DEF TakenUp
    <2>6. CASE SyncDetails
      <3>1. /\ UNCHANGED lib /\ sync.pc = "details" /\ sync'.pc = "load" /\ sync'.settled = sync.settled
            /\ sync'.pass = sync.pass
        BY <2>6, AsksDetails, IdleFields DEF userVars
      <3>2. Due(t)'
        BY <3>1 DEF Due, Phases
      <3>3. QED
        BY <2>3, <2>5, <3>1, <3>2 DEF AtEntry, Ending, SameRow
    <2>7. CASE SyncLoad
      <3>1. /\ UNCHANGED lib /\ sync.pc = "load" /\ sync'.pc = "merge" /\ sync'.settled = sync.settled
            /\ sync'.pass = sync.pass /\ sync'.todo = {x \in Mine : sync.entries[x] # "absent"}
        BY <2>7, Loads DEF userVars
      <3>2. CASE sync.entries[t] # "absent"
        <4>1. Due(t) => Due(t)'
          <5>1. Due(t) => t \in Mine \/ (sync.pass = 1 /\ t \in FallbackOf(syncPlan.mal))
            BY <3>1 DEF Due, Mine, Merging, AtEntry
          <5>2. t \in Mine => t \in sync'.todo
            BY <3>1, <3>2
          <5>3. sync'.pc \in Merging
            BY <3>1 DEF Merging
          <5>4. QED
            BY <1>1, <3>1, <5>1, <5>2, <5>3 DEF Due
        <4>2. QED
          BY <2>3, <2>5, <3>1, <4>1 DEF AtEntry, Ending, SameRow
      <3>3. CASE sync.entries[t] = "absent"
        <4>1. t \notin sync'.settled /\ sync'.pc \notin Ending
          BY <2>1, <3>1, <3>3 DEF Ending
        <4>2. QED
          BY <2>3, <3>3, <4>1 DEF TakenUp
      <3>4. QED
        BY <3>2, <3>3
    <2>8. CASE MergeDone
      <3>1. /\ UNCHANGED lib /\ sync.pc = "merge" /\ sync.todo = {} /\ sync'.settled = sync.settled
            /\ IF syncPlan.mal /\ sync.pass = 1 THEN sync'.pc = "load" /\ sync'.pass = 2
               ELSE sync'.pc = IF sync.full THEN "removals" ELSE "cursor"
        BY <2>8, EntriesDone DEF userVars
      <3>2. CASE sync.entries[t] # "absent"
        <4>1. Due(t) => syncPlan.mal /\ sync.pass = 1 /\ t \in Fallback
          BY <3>1 DEF Due, FallbackOf
        <4>2. Due(t) => Due(t)'
          BY <1>1, <3>1, <4>1 DEF Due
        <4>3. t \in sync.settled => Agrees(t)'
          BY <1>4, <2>1, <2>4, <3>1, <3>2 DEF AtEntry, SameRow
        <4>4. QED
          BY <1>2, <2>1, <2>3, <3>1, <3>2, <4>2, <4>3 DEF TakenUp
      <3>3. CASE sync.entries[t] = "absent"
        <4>1. t \notin sync'.settled
          BY <2>1, <3>1, <3>3 DEF Ending
        <4>2. sync.full => sync'.pc \notin Ending
          BY <3>1 DEF Ending
        <4>3. QED
          BY <1>1, <2>3, <3>3, <4>1, <4>2 DEF TakenUp
      <3>4. QED
        BY <3>2, <3>3
    <2>9. CASE SyncRemovals
      <3>1. /\ UNCHANGED lib /\ sync.pc = "removals" /\ sync'.pc = "removing" /\ sync.full
            /\ sync'.settled = sync.settled \cup {x \in Titles : /\ sync.entries[x] = "absent"
                                                               /\ list[sync.account][x] = "absent"}
            /\ sync'.todo = {x \in Titles : /\ lib[x].in /\ lib[x].from = sync.account /\ sync.entries[x] = "absent"
                                            /\ lib[x].mode # "none" /\ ~lib[x].pinned}
        BY <2>9, ListsRemovals DEF userVars, Phases
      <3>2. CASE sync.entries[t] # "absent"
        <4>1. ~Due(t) /\ sync.cur # t /\ (t \in sync'.settled <=> t \in sync.settled)
          BY <1>4, <3>1, <3>2 DEF Due, Merging, AtEntry
        <4>2. t \in sync'.settled \cup owes'
          BY <1>2, <2>1, <3>2, <4>1
        <4>3. t \in sync'.settled => Agrees(t)'
          BY <2>1, <2>4, <3>1, <3>2, <4>1 DEF SameRow
        <4>4. QED
          BY <2>3, <3>2, <4>2, <4>3 DEF TakenUp
      <3>3. CASE sync.entries[t] = "absent"
        <4>1. sync.account = account.id /\ t \notin sync.settled
          BY <1>1, <2>1, <3>1, <3>3 DEF Current, Ending
        <4>2. CASE list[account.id][t] = "absent"
          <5>1. t \in sync'.settled
            BY <3>1, <3>3, <4>1, <4>2
          <5>2. Agrees(t)' \/ t \in sync'.todo
            BY <1>1, <3>1, <3>3, <4>1, <4>2 DEF Agrees, Imported
          <5>3. QED
            BY <1>1, <2>3, <3>1, <3>3, <4>2, <5>1, <5>2 DEF Ending, TakenUp
        <4>3. CASE list[account.id][t] # "absent"
          <5>1. t \in owes' /\ t \notin sync'.settled
            BY <1>2, <2>2, <3>1, <3>3, <4>1, <4>3
          <5>2. QED
            BY <2>3, <3>3, <5>1 DEF TakenUp
        <4>4. QED
          BY <4>2, <4>3
      <3>4. QED
        BY <3>2, <3>3
    <2>10. CASE RemovalsDone
      <3>1. UNCHANGED lib /\ sync.pc = "removing" /\ sync.todo = {} /\ sync'.pc = "cursor" /\ sync'.settled = sync.settled
        BY <2>10, RemovalsEnd DEF userVars
      <3>2. ~Due(t) /\ sync.cur # t
        BY <1>4, <3>1 DEF Due, Merging, AtEntry
      <3>3. CASE sync.entries[t] # "absent"
        BY <1>2, <2>1, <2>3, <2>4, <3>1, <3>2, <3>3 DEF TakenUp, SameRow
      <3>4. CASE sync.entries[t] = "absent"
        BY <1>1, <1>2, <2>1, <2>3, <2>4, <3>1, <3>4 DEF Ending, TakenUp, SameRow
      <3>5. QED
        BY <3>3, <3>4
    <2>11. ASSUME NEW u \in Titles, RemovalApply(u)
           PROVE  TakenUp(t)'
      <3>1. /\ sync.pc = "removing" /\ u \in sync.todo /\ sync'.pc = "removing" /\ sync'.settled = sync.settled
            /\ sync'.todo = sync.todo \ {u} /\ lib' = [lib EXCEPT ![u].mode = "none"]
        BY <2>11, RemovesOne, IdleFields
      <3>2. ~Due(t) /\ sync.cur # t
        BY <1>4, <3>1 DEF Due, Merging, AtEntry
      <3>3. CASE u # t
        <4>1. lib'[t] = lib[t] /\ (t \in sync'.todo <=> t \in sync.todo)
          BY <3>1, <3>3, RowAfterMode
        <4>2. CASE sync.entries[t] # "absent"
          BY <1>2, <2>1, <2>3, <2>4, <3>1, <3>2, <4>1, <4>2 DEF TakenUp, SameRow
        <4>3. CASE sync.entries[t] = "absent"
          BY <1>1, <1>2, <2>1, <2>3, <2>4, <3>1, <4>1, <4>3 DEF TakenUp, Ending, SameRow
        <4>4. QED
          BY <4>2, <4>3
      <3>4. CASE u = t
        <4>1. sync.entries[t] = "absent"
          BY <3>1, <3>4 DEF Listed
        <4>2. lib'[t].mode = "none"
          <5>1. lib' = [lib EXCEPT ![t].mode = "none"]
            BY <3>1, <3>4
          <5>2. QED
            BY <5>1, RowAfterMode
        <4>3. list[account.id][t] = "absent" => Agrees(t)'
          BY <1>1, <4>2 DEF Agrees, Imported
        <4>4. t \in sync.settled => list[account.id][t] = "absent"
          BY <2>1, <4>1
        <4>5. QED
          BY <1>1, <1>2, <2>1, <2>3, <3>1, <4>1, <4>3, <4>4 DEF TakenUp, Ending, Phases
      <3>5. QED
        BY <3>3, <3>4
    <2>12. CASE MergeRead \/ MergeCreate \/ MergeStamp \/ MergeMode \/ \E u \in Titles : MergeEntry(u)
      <3>1. MergeKeeps(t)
        BY <1>1, <2>12, MergeTakesUp
      <3>2. QED
        BY <2>3, <3>1 DEF TakenUp, MergeKeeps
    \* a recompute of the sync's own
    <2>14. CASE SyncDerive \/ SyncRows
      <3>1. /\ SameRow(t) /\ sync'.pc = sync.pc /\ sync.pc \in {"merge", "removing"}
            /\ sync'.pass = sync.pass /\ sync'.todo = sync.todo /\ sync'.cur = sync.cur
            /\ \/ sync'.settled = sync.settled
               \/ sync'.settled = sync.settled \ {sync.of} /\ owes' = owes \cup {sync.of}
        BY <2>14, Derives, IdleFields DEF SameMerge
      <3>2. (t \in sync'.settled <=> t \in sync.settled) \/ (t \in owes' /\ t \notin sync'.settled)
        BY <3>1
      <3>3. CASE t \in owes' /\ t \notin sync'.settled
        BY <3>3 DEF TakenUp
      <3>4. CASE t \in sync'.settled <=> t \in sync.settled
        <4>1. Due(t)' <=> Due(t)
          BY <1>1, <3>1 DEF Due
        <4>2. QED
          BY <1>1, <1>2, <2>1, <2>3, <2>4, <3>1, <3>4, <4>1 DEF TakenUp, Ending
      <3>5. QED
        BY <3>2, <3>3, <3>4
    <2>13. QED
      BY <2>14, <1>6, FetchOnly, Drains, Drawing, <2>6, <2>7, <2>8, <2>9, <2>10, <2>11, <2>12, <1>1, <1>5 DEF SyncStep, Draining
  <1>7. QED
    BY <1>5, <1>6, FetchOnly, Drawing

LEMMA AccountedStays ==
  ASSUME TypeInv, Phases, [SyncNext]_syncVars, NEW t \in Titles, Following(t)
  PROVE  Accounted(t)'
  <1>1. CASE SyncStep
    BY <1>1, AccountedInSync DEF Accounted, Current
  <1>2. CASE SyncTick \/ SyncNow \/ SyncRestart
    BY <1>2, Starts, Restarts DEF Accounted, Current
  <1>3. CASE ListStep
    BY <1>3, NoneOfANew DEF Accounted
  <1>4. CASE Outside(t)
    <2> SUFFICES ASSUME Current', sync'.pc # "fetch", t \notin sync'.edited
                 PROVE  TakenUp(t)'
      BY DEF Accounted
    <2>1. UNCHANGED <<account, syncPlan>> /\ SamePlace /\ Current /\ account.id \in Accounts
      BY <1>4 DEF Outside, SamePlace, Current, TypeInv, SyncsAnAccount
    <2>2. CASE Owing(t)
      <3>1. t \in owes' /\ t \notin sync'.settled
        BY <2>1, <2>2 DEF Owing, Current
      <3>2. QED
        BY <3>1 DEF TakenUp
    <2>3. CASE Pinning(t) \/ Marking(t)
      <3>1. /\ list'[account.id][t] = list[account.id][t] /\ MarksKept(t)
        BY <2>1, <2>3 DEF Pinning, Marking, ListKept
      <3>2. (t \in owes' <=> t \in owes) /\ (t \in sync'.settled <=> t \in sync.settled) /\ t \notin sync.edited
        BY <2>1, <3>1 DEF MarksKept, Current
      <3>3. TakenUp(t)
        BY <2>1, <3>2 DEF Following, Accounted, SamePlace
      <3>4. Agrees(t) => Agrees(t)'
        <4>1. CASE Pinning(t)
          BY <4>1 DEF Pinning, Agrees
        <4>2. CASE Marking(t)
          BY <2>1, <3>1, <4>2, AgreesKept DEF Marking
        <4>3. QED
          BY <2>3, <4>1, <4>2
      <3>5. Due(t)' <=> Due(t)
        BY <2>1 DEF SamePlace, Due
      <3>6. QED
        <4>1. CASE sync.entries[t] # "absent"
          BY <2>1, <3>2, <3>3, <3>4, <3>5, <4>1 DEF TakenUp, SamePlace
        <4>2. CASE sync.entries[t] = "absent"
          BY <2>1, <3>1, <3>2, <3>3, <3>4, <4>2 DEF TakenUp, SamePlace
        <4>3. QED
          BY <4>1, <4>2
    <2>4. QED
      BY <1>4, <2>1, <2>2, <2>3 DEF Outside, Editing, Current
  <1>5. QED
    BY <1>1, <1>2, <1>3, <1>4, StepKinds, OutsideSteps

LEMMA FollowBegins == SyncInit => FollowInv
  <1> SUFFICES ASSUME SyncInit
               PROVE  FollowInv
    OBVIOUS
  <1>1. /\ sync = IdleSync /\ sync.pc = "idle" /\ sync.settled = {} /\ ~account.cursor
        /\ fresh = [a \in Accounts |-> {}] /\ account.id = 1 /\ 1 \in Accounts
    BY Names, IdleFields DEF SyncInit, Accounts
  <1>2. Phases
    BY <1>1 DEF Phases
  <1>3. ASSUME NEW t \in Titles
        PROVE  Following(t)
    <2>1. EditSeen(t) /\ FetchRead(t) /\ EntryRead(t)
      BY <1>1 DEF EditSeen, FetchRead, EntryRead, Current
    <2>2. Listed(t) /\ RowRead(t) /\ OutRead(t)
      BY <1>1 DEF Listed, RowRead, OutRead, Merging, AtEntry
    <2>3. NoneInserted(t) /\ Accounted(t) /\ BehindAgrees(t)
      BY <1>1 DEF NoneInserted, Accounted, BehindAgrees, Behind, Current
    <2>4. QED
      BY <2>1, <2>2, <2>3 DEF Following
  <1>4. QED
    BY <1>2, <1>3 DEF FollowInv

LEMMA FollowStays == TypeInv /\ OneTrouble /\ FollowInv /\ [SyncNext]_syncVars => FollowInv'
  <1> SUFFICES ASSUME TypeInv, OneTrouble, FollowInv, [SyncNext]_syncVars
               PROVE  FollowInv'
    OBVIOUS
  <1>1. Phases'
    BY PhasesStay DEF FollowInv
  <1>2. ASSUME NEW t \in Titles
        PROVE  Following(t)'
    <2>1. Phases /\ Following(t)
      BY DEF FollowInv
    <2>2. EditSeen(t) /\ FetchRead(t) /\ EntryRead(t) /\ Listed(t) /\ RowRead(t) /\ OutRead(t) /\ NoneInserted(t) /\ BehindAgrees(t)
      BY <2>1 DEF Following
    <2>3. EditSeen(t)' /\ FetchRead(t)' /\ EntryRead(t)' /\ Listed(t)' /\ RowRead(t)' /\ OutRead(t)'
      BY <2>2, EditSeenStays, FetchReadStays, EntryReadStays, ListedStays, RowReadStays, OutReadStays
    <2>4. NoneInserted(t)'
      BY <2>2, NoneInsertedStays
    <2>5. Accounted(t)' /\ BehindAgrees(t)'
      BY <2>1, AccountedStays, BehindAgreesStays
    <2>6. QED
      BY <2>3, <2>4, <2>5 DEF Following
  <1>3. QED
    BY <1>1, <1>2 DEF FollowInv

\* The row a sync recomputes is in the table, or has gone since.
OfStands ==
  /\ sync.of = NoTitle => sync.mode = "read"
  /\ sync.of # NoTitle => lib[sync.of].in \/ sync.of \in sync.lost

\* The episode rows of a series are those of its mode, or a recompute will make them so: every
\* mode that is held is the one in the table.
RowsFollow(t) ==
  lib[t].in /\ t \notin torn =>
    /\ Held(t) \subseteq {lib[t].mode}
    /\ lib[t].rows \in {lib[t].mode, "missing"} \/ deriving[t] # "no" \/ Recomputing(t)

RowsInv == OfStands /\ \A t \in Titles : RowsFollow(t)

LEMMA RowsKept ==
  ASSUME NEW t \in Titles, RowsFollow(t), SameRow(t), lib'[t].rows = lib[t].rows, deriving'[t] = deriving[t],
         t \in torn => t \in torn', Recomputing(t)' <=> Recomputing(t), sync'.mode = sync.mode
  PROVE  RowsFollow(t)'
  BY DEF RowsFollow, Held, SameRow

LEMMA ModeSet ==
  ASSUME TypeInv, RowsInv, sync.of = NoTitle, NEW u \in Titles, NEW m \in Modes, NEW t \in Titles,
         lib[u].in, lib' = [lib EXCEPT ![u].mode = m], ModeTears(u, m), UNCHANGED deriving,
         sync'.of = u, sync'.mode = "read", u \notin sync'.lost
  PROVE  RowsFollow(t)'
  <1>1. lib \in [Titles -> Series] /\ lib[t] \in Series /\ u # NoTitle /\ t # NoTitle
    BY Names DEF TypeInv, RowsTyped
  <1>2. "read" \notin Modes
    BY DEF Modes
  <1>3. CASE u # t
    <2>1. lib'[t] = lib[t] /\ (t \in torn => t \in torn')
      BY <1>1, <1>3 DEF ModeTears
    <2>2. ~Recomputing(t) /\ ~Recomputing(t)' /\ sync.mode = "read"
      BY <1>1, <1>3 DEF Recomputing, RowsInv, OfStands
    <2>3. QED
      BY <2>1, <2>2, RowsKept DEF RowsInv, SameRow
  <1>4. CASE u = t
    <2>1. lib'[t].mode = m /\ lib'[t].in
      BY <1>1, <1>4, RowAfterMode
    <2>2. Recomputing(t)'
      BY <1>4, <2>1 DEF Recomputing, RowStands
    <2>3. Held(t)' \subseteq Held(t)
      BY <1>2 DEF Held
    <2>4. t \notin torn' => Held(t) \subseteq {m}
      BY <1>4 DEF ModeTears
    <2>5. QED
      BY <2>1, <2>2, <2>3, <2>4 DEF RowsFollow
  <1>5. QED
    BY <1>3, <1>4

\* rows written from a mode that was held
LEMMA RowsWritten ==
  ASSUME TypeInv, NEW u \in Titles, NEW m \in Modes, NEW t \in Titles, RowsFollow(t),
         lib' = [lib EXCEPT ![u].rows = m], m \in Held(u), RowsMend(u, m),
         Held(t)' \subseteq Held(t), deriving'[t] = "no" => deriving[t] = "no" \/ t = u,
         Recomputing(t) => Recomputing(t)' \/ t = u
  PROVE  RowsFollow(t)'
  <1>1. lib \in [Titles -> Series] /\ lib[t] \in Series
    BY DEF TypeInv, RowsTyped
  <1>2. CASE u # t
    <2>1. lib'[t] = lib[t] /\ (t \notin torn' => t \notin torn)
      BY <1>1, <1>2 DEF RowsMend
    <2>2. QED
      BY <1>2, <2>1 DEF RowsFollow
  <1>3. CASE u = t
    <2>1. lib'[t].in = lib[t].in /\ lib'[t].mode = lib[t].mode /\ lib'[t].rows = m
      <3>1. lib'[t] = [lib[t] EXCEPT !.rows = m]
        BY <1>1, <1>3
      <3>2. QED
        BY <1>1, <3>1 DEF Series
    <2>2. t \notin torn' => t \notin torn \/ Held(t) \cup {m} = {lib[t].mode}
      BY <1>3 DEF RowsMend
    <2>3. lib[t].in /\ t \notin torn' => Held(t) \subseteq {lib[t].mode}
      BY <2>2 DEF RowsFollow
    <2>4. lib[t].in /\ t \notin torn' => m = lib[t].mode
      BY <1>3, <2>3
    <2>5. QED
      BY <2>1, <2>3, <2>4 DEF RowsFollow
  <1>4. QED
    BY <1>2, <1>3

\* The steps of a sync that are about no recompute
LEMMA NoneDerived ==
  ASSUME TypeInv, OfStands, SyncStep, ~MergeMode, ~SyncDerive, ~SyncRows, \A u \in Titles : ~RemovalApply(u)
  PROVE  /\ sync.of = NoTitle /\ sync'.of = NoTitle /\ sync.mode = "read" /\ sync'.mode = "read"
         /\ UNCHANGED <<deriving, torn>>
  <1>1. sync \in SyncState /\ (sync.of # NoTitle => sync.pc \in {"merge", "removing"})
    BY DEF TypeInv, SyncTyped
  <1> DEFINE Goal == /\ sync.of = NoTitle /\ sync'.of = sync.of /\ sync'.mode = sync.mode
                     /\ UNCHANGED <<deriving, torn>>
  <1>2. ASSUME sync.of = NoTitle, sync' = IdleSync, UNCHANGED <<deriving, torn>>
        PROVE  Goal
    <2>1. IdleSync.of = NoTitle /\ IdleSync.mode = "read"
      BY DEF IdleSync
    <2>2. QED
      BY <1>2, <2>1 DEF OfStands
  <1>3. CASE SyncFetch
    <2>1. sync.of = NoTitle /\ UNCHANGED <<deriving, torn>>
      BY <1>1, <1>3 DEF SyncFetch, userVars, requestVars, pastVars
    <2>2. sync' = IdleSync \/ \E e : sync' = [sync EXCEPT !.pc = "details", !.entries = e]
      BY <1>3 DEF SyncFetch, Fails
    <2>3. QED
      BY <1>1, <1>2, <2>1, <2>2 DEF SyncState, OfStands
  <1>4. CASE SyncDrained
    <2>1. sync.pc = "fetch" /\ UNCHANGED <<deriving, torn>> /\ sync'.of = sync.of /\ sync'.mode = sync.mode
      BY <1>4, Drains DEF userVars, requestVars, SameFetch
    <2>2. QED
      BY <1>1, <2>1 DEF OfStands
  <1>5. CASE SyncRefreshToken
    <2>1. sync.pc = "fetch" /\ UNCHANGED <<deriving, torn>> /\ sync'.of = sync.of /\ sync'.mode = sync.mode
      BY <1>5, Refreshes DEF userVars, requestVars, pastVars, SameFetch
    <2>2. QED
      BY <1>1, <2>1 DEF OfStands
  <1>6. ASSUME NEW u \in Titles, SyncPage(u)
        PROVE  Goal
    <2>1. sync.pc = "fetch" /\ UNCHANGED <<deriving, torn>> /\ sync'.of = sync.of /\ sync'.mode = sync.mode
      BY <1>6, Pages DEF userVars, requestVars, pastVars, SameFetch
    <2>2. QED
      BY <1>1, <2>1 DEF OfStands
  <1>7. CASE SyncDetails
    <2>1. sync.of = NoTitle /\ UNCHANGED <<deriving, torn>>
      BY <1>1, <1>7 DEF SyncDetails, userVars, requestVars, pastVars
    <2>2. \/ sync' = IdleSync \/ (\E new : sync' = [sync EXCEPT !.pc = "load", !.details = new])
          \/ sync' = [sync EXCEPT !.pc = "load"]
      BY <1>7 DEF SyncDetails, Fails
    <2>3. QED
      BY <1>1, <1>2, <2>1, <2>2 DEF SyncState, OfStands
  <1>8. CASE SyncLoad
    <2>1. sync.of = NoTitle /\ UNCHANGED <<deriving, torn>>
      BY <1>1, <1>8 DEF SyncLoad, userVars, requestVars, pastVars
    <2>2. \E o, d : sync' = [sync EXCEPT !.pc = "merge", !.out = o, !.todo = d]
      BY <1>8 DEF SyncLoad
    <2>3. QED
      BY <1>1, <2>1, <2>2 DEF SyncState, OfStands
  <1>9. ASSUME NEW u \in Titles, MergeEntry(u)
        PROVE  Goal
    <2>1. sync.of = NoTitle /\ UNCHANGED <<deriving, torn>>
      BY <1>9 DEF MergeEntry, userVars, requestVars, pastVars
    <2>2. \/ sync' = [sync EXCEPT !.todo = @ \ {u}, !.settled = @ \cup ({u} \cap excluded)]
          \/ sync' = [sync EXCEPT !.todo = @ \ {u}, !.pc = "read", !.cur = u, !.settled = @ \cup {u}]
      BY <1>9 DEF MergeEntry
    <2>3. QED
      BY <1>1, <2>1, <2>2 DEF SyncState, OfStands
  <1>10. CASE MergeRead
    <2>1. sync.of = NoTitle /\ UNCHANGED <<deriving, torn>>
      BY <1>1, <1>10 DEF MergeRead, userVars, requestVars
    <2>2. \/ NextEntry \/ EntryFails \/ sync' = [sync EXCEPT !.pc = "create"]
          \/ \E r : sync' = [sync EXCEPT !.pc = "stamp", !.lost = @ \ {sync.cur}, !.settled = @ \cup {sync.cur},
                                         !.row = r]
      BY <1>10 DEF MergeRead
    <2>3. QED
      BY <1>1, <2>1, <2>2, EntryEnds DEF SyncState, OfStands
  <1>11. CASE MergeCreate
    <2>1. sync.of = NoTitle /\ UNCHANGED <<deriving, torn>>
      BY <1>1, <1>11 DEF MergeCreate, requestVars
    <2>2. \/ EntryFails
          \/ \E r : sync' = [sync EXCEPT !.pc = "stamp", !.lost = @ \ {sync.cur}, !.settled = @ \cup {sync.cur},
                                         !.row = r]
      BY <1>11 DEF MergeCreate
    <2>3. QED
      BY <1>1, <2>1, <2>2, EntryEnds DEF SyncState, OfStands
  <1>12. CASE MergeStamp
    <2>1. sync.of = NoTitle /\ UNCHANGED <<deriving, torn>>
      BY <1>1, <1>12 DEF MergeStamp, requestVars, pastVars
    <2>2. NextEntry \/ sync' = [sync EXCEPT !.pc = "mode"]
      BY <1>12 DEF MergeStamp
    <2>3. QED
      BY <1>1, <2>1, <2>2, EntryEnds DEF SyncState, OfStands
  <1>13. CASE MergeDone \/ RemovalsDone
    <2>1. sync.of = NoTitle /\ UNCHANGED <<deriving, torn>>
      BY <1>13 DEF MergeDone, RemovalsDone, userVars, requestVars, pastVars
    <2>2. sync' = [sync EXCEPT !.pc = "load", !.pass = 2] \/ \E p : sync' = [sync EXCEPT !.pc = p]
      BY <1>13 DEF MergeDone, RemovalsDone
    <2>3. QED
      BY <1>1, <2>1, <2>2 DEF SyncState, OfStands
  <1>14. CASE SyncRemovals
    <2>1. sync.of = NoTitle /\ UNCHANGED <<deriving, torn>>
      BY <1>1, <1>14 DEF SyncRemovals, userVars, requestVars, pastVars
    <2>2. \E S, T : sync' = [sync EXCEPT !.pc = "removing", !.lost = {}, !.settled = @ \cup S, !.todo = T]
      BY <1>14 DEF SyncRemovals
    <2>3. QED
      BY <1>1, <2>1, <2>2 DEF SyncState, OfStands
  <1>15. CASE SyncStamp
    <2>1. sync.of = NoTitle /\ UNCHANGED <<deriving, torn>> /\ sync' = IdleSync
      BY <1>1, <1>15 DEF SyncStamp, requestVars
    <2>2. QED
      BY <1>2, <2>1 DEF OfStands
  <1>16. QED
    BY <1>3, <1>4, <1>5, <1>6, <1>7, <1>8, <1>9, <1>10, <1>11, <1>12, <1>13, <1>14, <1>15 DEF SyncStep, OfStands

\* the steps of a sync that touch no recompute, and its mode writes
LEMMA RowsInSync ==
  ASSUME TypeInv, RowsInv, SyncStep, ~SyncDerive, ~SyncRows
  PROVE  RowsInv'
  <1> USE DEF RowsInv
  <1>1. lib \in [Titles -> Series] /\ sync \in SyncState /\ (sync.pc \in AtEntry <=> sync.cur # NoTitle)
        /\ (sync.of # NoTitle => sync.pc \in {"merge", "removing"})
        /\ (\A t \in Titles : deriving[t] # "no" => lib[t].in) /\ NoTitle \notin Titles
    BY Names DEF TypeInv, RowsTyped, SyncTyped, DerivesTyped
  <1>2. ASSUME NEW u \in Titles, sync.of = NoTitle, RowStands(u), NEW m \in Modes,
               lib' = [lib EXCEPT ![u].mode = m], ModeTears(u, m), UNCHANGED deriving,
               sync'.of = u, sync'.mode = sync.mode, sync'.lost = sync.lost
        PROVE  RowsInv'
    <2>1. sync'.mode = "read" /\ u \notin sync'.lost /\ lib[u].in /\ lib'[u].in
      BY <1>2, RowAfterMode DEF OfStands, RowStands
    <2>2. \A t \in Titles : RowsFollow(t)'
      BY <1>2, <2>1, ModeSet
    <2>3. QED
      BY <1>1, <1>2, <2>1, <2>2 DEF OfStands
  <1>3. ASSUME sync.of = NoTitle, sync'.of = NoTitle, sync.mode = "read", sync'.mode = "read",
               UNCHANGED <<deriving, torn>>,
               \A t \in Titles : SameRow(t) /\ lib'[t].rows = lib[t].rows
        PROVE  RowsInv'
    <2>1. ASSUME NEW t \in Titles
          PROVE  RowsFollow(t)'
      <3>1. ~Recomputing(t) /\ ~Recomputing(t)'
        BY <1>1, <1>3 DEF Recomputing
      <3>2. QED
        BY <1>3, <3>1, RowsKept
    <2>2. QED
      BY <1>3, <2>1 DEF OfStands
  <1>4. CASE MergeMode
    <2>1. sync.pc = "mode" /\ sync.cur \in Titles /\ sync.of = NoTitle /\ UNCHANGED deriving
      BY <1>1, <1>4, AtTitle DEF MergeMode, AtEntry, requestVars
    <2>2. CASE /\ RowStands(sync.cur) /\ lib' = [lib EXCEPT ![sync.cur].mode = ModeFor(sync.entries[sync.cur])]
               /\ ModeTears(sync.cur, ModeFor(sync.entries[sync.cur]))
               /\ sync' = [sync EXCEPT !.pc = "merge", !.cur = NoTitle, !.row = NoRead, !.of = sync.cur]
      <3>1. sync'.of = sync.cur /\ sync'.mode = sync.mode /\ sync'.lost = sync.lost
        BY <1>1, <2>2 DEF SyncState
      <3>2. QED
        BY <1>2, <2>1, <2>2, <3>1, ModesKnown
    <2>3. CASE EntryFails /\ UNCHANGED <<lib, torn>>
      <3>1. sync'.of = NoTitle /\ sync'.mode = sync.mode
        BY <1>1, <2>1, <2>3, EntryEnds
      <3>2. QED
        BY <1>3, <2>1, <2>3, <3>1 DEF OfStands, SameRow
    <2>4. QED
      BY <1>4, <2>2, <2>3 DEF MergeMode
  <1>5. ASSUME NEW u \in Titles, RemovalApply(u)
        PROVE  RowsInv'
    <2>1. sync.of = NoTitle /\ UNCHANGED deriving
      BY <1>5 DEF RemovalApply, requestVars
    <2>2. CASE /\ RowStands(u) /\ lib' = [lib EXCEPT ![u].mode = "none"] /\ ModeTears(u, "none")
               /\ sync' = [sync EXCEPT !.todo = @ \ {u}, !.of = u]
      <3>1. sync'.of = u /\ sync'.mode = sync.mode /\ sync'.lost = sync.lost
        BY <1>1, <2>2 DEF SyncState
      <3>2. "none" \in Modes
        BY DEF Modes
      <3>3. QED
        BY <1>2, <2>1, <2>2, <3>1, <3>2
    <2>3. CASE sync' = IdleSync /\ UNCHANGED <<lib, torn>>
      <3>1. sync'.of = NoTitle /\ sync'.mode = "read"
        BY <2>3 DEF IdleSync
      <3>2. QED
        BY <1>3, <2>1, <2>3, <3>1 DEF OfStands, SameRow
    <2>4. QED
      BY <1>5, <2>2, <2>3 DEF RemovalApply, Fails
  <1>6. CASE ~MergeMode /\ \A u \in Titles : ~RemovalApply(u)
    <2>1. /\ sync.of = NoTitle /\ sync'.of = NoTitle /\ sync.mode = "read" /\ sync'.mode = "read"
          /\ UNCHANGED <<deriving, torn>>
      BY <1>6, NoneDerived
    <2>2. CASE UNCHANGED lib
      BY <1>3, <2>1, <2>2 DEF SameRow
    <2>3. CASE MergeStamp
      <3>2. ASSUME NEW t \in Titles
            PROVE  RowsFollow(t)'
        <4>1. lib'[t] = lib[t] \/ \E a : lib'[t] = [lib[t] EXCEPT !.from = a]
          <5>1. UNCHANGED lib \/ \E a : lib' = [lib EXCEPT ![sync.cur].from = a]
            BY <2>3, Stamps
          <5>2. QED
            BY <1>1, <5>1
        <4>2. lib[t] \in Series
          BY <1>1
        <4>3. lib'[t].in = lib[t].in /\ lib'[t].mode = lib[t].mode /\ lib'[t].rows = lib[t].rows
          BY <4>1, <4>2 DEF Series
        <4>4. ~Recomputing(t) /\ ~Recomputing(t)'
          BY <1>1, <2>1 DEF Recomputing
        <4>5. QED
          BY <2>1, <4>3, <4>4 DEF RowsFollow, Held
      <3>3. QED
        BY <2>1, <3>2 DEF OfStands
    <2>4. CASE MergeCreate
      <3>1. ASSUME NEW t \in Titles
            PROVE  RowsFollow(t)'
        <4>1. ~Recomputing(t) /\ ~Recomputing(t)'
          BY <1>1, <2>1 DEF Recomputing
        <4>2. CASE lib'[t] = lib[t]
          BY <2>1, <4>1, <4>2, RowsKept DEF SameRow
        <4>3. CASE lib'[t] = NewSeries /\ ~lib[t].in
          <5>1. NewSeries.rows = "missing"
            BY DEF NewSeries, NoSeries
          <5>2. deriving[t] = "no" /\ "no" \notin Modes
            BY <1>1, <4>3 DEF Modes
          <5>3. QED
            BY <2>1, <4>1, <4>3, <5>1, <5>2 DEF RowsFollow, Held
        <4>4. QED
          BY <1>1, <2>4, <4>2, <4>3, Creates
      <3>2. QED
        BY <2>1, <3>1 DEF OfStands
    <2>5. UNCHANGED lib \/ MergeStamp \/ MergeCreate
      <3>1. SyncFetch \/ SyncDrained \/ SyncRefreshToken \/ SyncDetails \/ SyncLoad => UNCHANGED lib
        BY DEF SyncFetch, SyncDrained, SyncRefreshToken, SyncDetails, SyncLoad, userVars
      <3>2. MergeRead \/ MergeDone \/ SyncRemovals \/ RemovalsDone \/ SyncStamp => UNCHANGED lib
        BY DEF MergeRead, MergeDone, SyncRemovals, RemovalsDone, SyncStamp, userVars
      <3>3. ASSUME NEW u \in Titles, SyncPage(u) \/ MergeEntry(u)
            PROVE  UNCHANGED lib
        BY <3>3 DEF SyncPage, MergeEntry, userVars
      <3>4. QED
        BY <1>6, <3>1, <3>2, <3>3 DEF SyncStep
    <2>6. QED
      BY <2>2, <2>3, <2>4, <2>5
  <1>7. QED
    BY <1>4, <1>5, <1>6

\* its recompute
LEMMA RowsDerived ==
  ASSUME TypeInv, RowsInv, SyncDerive \/ SyncRows
  PROVE  RowsInv'
  <1> USE DEF RowsInv
  <1>1. lib \in [Titles -> Series] /\ sync \in SyncState /\ NoTitle \notin Titles /\ sync.of \in Titles
        /\ UNCHANGED deriving
    BY Names, Derives DEF TypeInv, RowsTyped, SyncTyped, requestVars
  <1>2. "read" \notin Modes
    BY DEF Modes
  \* it ends
  <1>3. ASSUME DeriveFails, UNCHANGED lib, (UNCHANGED torn /\ ~RowStands(sync.of)) \/ torn' = torn \cup {sync.of}
        PROVE  RowsInv'
    <2>1. sync'.of = NoTitle /\ sync'.mode = "read"
      <3>1. IdleSync.of = NoTitle /\ IdleSync.mode = "read"
        BY DEF IdleSync
      <3>2. \/ sync' = IdleSync
            \/ sync' = [sync EXCEPT !.of = NoTitle, !.mode = "read", !.settled = @ \ {sync.of}]
        BY <1>3 DEF DeriveFails, Fails
      <3>3. QED
        BY <1>1, <3>1, <3>2 DEF SyncState
    <2>2. ASSUME NEW t \in Titles
          PROVE  RowsFollow(t)'
      <3>1. ~Recomputing(t)'
        BY <1>1, <2>1 DEF Recomputing
      <3>2. Held(t)' \subseteq Held(t)
        BY <1>1, <3>1 DEF Held
      <3>3. t \notin torn' => t \notin torn /\ ~Recomputing(t)
        BY <1>1, <1>3 DEF Recomputing
      <3>4. QED
        BY <1>1, <1>3, <3>2, <3>3 DEF RowsFollow
    <2>3. QED
      BY <2>1, <2>2 DEF OfStands
  <1>4. CASE SyncDerive
    <2>1. CASE RowStands(sync.of) /\ sync' = [sync EXCEPT !.mode = lib[sync.of].mode] /\ UNCHANGED <<lib, torn>>
      <3>1. sync'.of = sync.of /\ sync'.mode = lib[sync.of].mode /\ sync'.lost = sync.lost
        BY <1>1, <2>1 DEF SyncState
      <3>2. ASSUME NEW t \in Titles
            PROVE  RowsFollow(t)'
        <4>1. Recomputing(t)' <=> Recomputing(t)
          BY <2>1, <3>1 DEF Recomputing, RowStands
        <4>2. Held(t)' \subseteq Held(t) \cup {lib[t].mode}
          BY <1>1, <3>1, <4>1 DEF Held, Recomputing
        <4>3. QED
          BY <1>1, <2>1, <4>1, <4>2 DEF RowsFollow
      <3>3. QED
        BY <1>1, <2>1, <3>1, <3>2 DEF OfStands
    <2>2. UNCHANGED lib
      BY <1>4 DEF SyncDerive, userVars
    <2>3. QED
      BY <1>3, <1>4, <2>1, <2>2 DEF SyncDerive
  <1>5. CASE SyncRows
    <2>1. CASE /\ RowStands(sync.of) /\ lib' = [lib EXCEPT ![sync.of].rows = sync.mode] /\ RowsMend(sync.of, sync.mode)
               /\ sync' = [sync EXCEPT !.of = NoTitle, !.mode = "read"]
      <3>1. sync'.of = NoTitle /\ sync'.mode = "read" /\ sync.mode \in Modes
        BY <1>1, <1>5, <2>1 DEF SyncRows, SyncState
      <3>2. sync.mode \in Held(sync.of)
        BY <1>1, <2>1, <3>1 DEF Held, Recomputing
      <3>3. ASSUME NEW t \in Titles
            PROVE  RowsFollow(t)'
        <4>1. ~Recomputing(t)' /\ (Recomputing(t) => t = sync.of)
          BY <1>1, <3>1 DEF Recomputing
        <4>2. Held(t)' \subseteq Held(t)
          BY <1>1, <4>1 DEF Held
        <4>3. QED
          BY <1>1, <2>1, <3>1, <3>2, <4>1, <4>2, RowsWritten
      <3>4. QED
        BY <3>1, <3>3 DEF OfStands
    <2>2. QED
      BY <1>3, <1>5, <2>1 DEF SyncRows
  <1>6. QED
    BY <1>4, <1>5

\* A user's or a handler's step about one title leaves the recomputes of the others.
LEMMA OthersDerive ==
  ASSUME TypeInv, NEW u \in Titles, TitleStep(u), NEW t \in Titles \ {u}
  PROVE  deriving'[t] = deriving[t] /\ (t \in torn' <=> t \in torn)
  <1>1. deriving \in [Titles -> Modes \cup {"no", "read"}]
    BY DEF TypeInv, DerivesTyped
  <1>2. (\E d : deriving' = [deriving EXCEPT ![u] = d]) \/ UNCHANGED deriving
    BY DEF TitleStep, DropExclusion, RecordExclusion, DeriveRead, DeriveWrite, AddSeries, AllowAgain, Unpin,
      RemoveSeries, Pin, Edit, requestVars
  <1>3. torn' \in {torn, torn \cup {u}, torn \ {u}}
    BY DEF TitleStep, DropExclusion, RecordExclusion, DeriveRead, DeriveWrite, AddSeries, AllowAgain, Unpin,
      RemoveSeries, Pin, Edit, pastVars, ModeTears, RowsMend
  <1>4. QED
    BY <1>1, <1>2, <1>3

LEMMA RowsAround ==
  ASSUME TypeInv, RowsInv, NEW u \in Titles, TitleStep(u)
  PROVE  RowsInv'
  <1> USE DEF RowsInv
  <1>1. lib \in [Titles -> Series] /\ sync \in SyncState /\ NoTitle \notin Titles
        /\ deriving \in [Titles -> Modes \cup {"no", "read"}]
        /\ (\A t \in Titles : deriving[t] # "no" => lib[t].in)
        /\ (sync.of # NoTitle => sync.pc \in {"merge", "removing"} /\ sync.of \in Titles)
    BY Names DEF TypeInv, RowsTyped, SyncTyped, DerivesTyped, SyncState
  <1>2. "read" \notin Modes /\ "no" \notin Modes
    BY DEF Modes
  <1>3. SamePlace
    BY ActsAre DEF Outside
  <1>4. sync'.of = sync.of /\ sync'.mode = sync.mode
    BY <1>3 DEF SamePlace
  <1>5. ASSUME NEW t \in Titles \ {u}
        PROVE  RowsFollow(t)'
    <2>1. lib'[t] = lib[t] /\ (t \in sync'.lost <=> t \in sync.lost)
      BY OthersStay DEF Untouched
    <2>2. deriving'[t] = deriving[t] /\ (t \in torn' <=> t \in torn)
      BY OthersDerive
    <2>3. Recomputing(t)' <=> Recomputing(t)
      BY <1>4, <2>1 DEF Recomputing, RowStands
    <2>4. QED
      BY <1>4, <2>1, <2>2, <2>3, RowsKept DEF SameRow
  \* of the title itself, what a sync holds of it is no more than before
  <1>6. ASSUME sync'.lost = sync.lost \/ lib'[u].in = FALSE
        PROVE  Recomputing(u)' => sync'.lost = sync.lost /\ sync.of = u
    BY <1>4, <1>6 DEF Recomputing, RowStands
  <1>7. ASSUME lib'[u].in, u \in sync'.lost <=> u \in sync.lost, lib[u].in
        PROVE  Recomputing(u)' <=> Recomputing(u)
    BY <1>4, <1>7 DEF Recomputing, RowStands
  <1>8. CASE \E mode \in Modes : Pin(u, mode)
    <2>1. PICK mode \in Modes : Pin(u, mode)
      BY <1>8
    <2>2. lib[u].in /\ lib' = [lib EXCEPT ![u].mode = mode, ![u].pinned = TRUE] /\ sync'.lost = sync.lost
      BY <2>1, Pins
    <2>3. deriving'[u] = "read" /\ ModeTears(u, mode)
      BY <1>1, <2>1 DEF Pin
    <2>4. lib'[u].in /\ lib'[u].mode = mode
      <3>1. lib'[u] = [lib[u] EXCEPT !.mode = mode, !.pinned = TRUE]
        BY <1>1, <2>2
      <3>2. QED
        BY <1>1, <2>2, <3>1 DEF Series
    <2>5. Recomputing(u)' <=> Recomputing(u)
      BY <1>7, <2>2, <2>4
    <2>6. Held(u)' \subseteq Held(u)
      BY <1>2, <1>4, <2>3, <2>5 DEF Held
    <2>7. u \notin torn' => Held(u) \subseteq {mode}
      BY <2>3 DEF ModeTears
    <2>8. RowsFollow(u)'
      BY <2>3, <2>4, <2>6, <2>7 DEF RowsFollow
    <2>9. OfStands'
      BY <1>1, <1>4, <2>2, <2>4, <1>5, OthersStay DEF OfStands, Untouched
    <2>10. QED
      BY <1>5, <2>8, <2>9
  \* the title's row, mode and episode rows stay
  <1>9. ASSUME lib'[u].in, lib[u].in, lib'[u].mode = lib[u].mode, lib'[u].rows = lib[u].rows, sync'.lost = sync.lost,
               u \in torn => u \in torn',
               \/ deriving'[u] = deriving[u]
               \/ deriving'[u] = "read" /\ deriving[u] = "no"
               \/ deriving'[u] = lib[u].mode /\ deriving[u] = "read"
               \/ deriving'[u] = "no" /\ u \in torn'
        PROVE  RowsInv'
    <2>1. Recomputing(u)' <=> Recomputing(u)
      BY <1>7, <1>9
    <2>2. Held(u)' \subseteq Held(u) \cup {lib[u].mode}
      BY <1>2, <1>4, <1>9, <2>1 DEF Held
    <2>3. RowsFollow(u)'
      <3>1. lib[u].mode # "no" /\ RowsFollow(u)
        BY <1>1, <1>2 DEF Series
      <3>2. QED
        BY <1>9, <2>1, <2>2, <3>1 DEF RowsFollow
    <2>4. OfStands'
      BY <1>1, <1>4, <1>9, OthersStay DEF OfStands, Untouched
    <2>5. QED
      BY <1>5, <2>3, <2>4
  \* no row before
  <1>10. ASSUME ~lib[u].in, deriving'[u] = "no", ~lib'[u].in \/ lib'[u].rows = "missing",
                sync'.lost = sync.lost
         PROVE  RowsInv'
    <2>1. Recomputing(u)' = FALSE
      <3>1. sync.of = u => u \in sync.lost
        BY <1>1, <1>10 DEF OfStands
      <3>2. QED
        BY <1>4, <1>10, <3>1 DEF Recomputing, RowStands
    <2>2. Held(u)' = {}
      BY <1>2, <1>10, <2>1 DEF Held
    <2>3. RowsFollow(u)'
      BY <1>10, <2>2 DEF RowsFollow
    <2>4. OfStands'
      BY <1>1, <1>4, <1>10, OthersStay DEF OfStands, Untouched
    <2>5. QED
      BY <1>5, <2>3, <2>4
  <1>11. CASE Unpin(u)
    <2>1. lib[u].in /\ lib' = [lib EXCEPT ![u].pinned = FALSE] /\ sync'.lost = sync.lost
      BY <1>11, Unpins
    <2>2. deriving'[u] = "read" /\ deriving[u] = "no" /\ UNCHANGED torn
      BY <1>1, <1>11 DEF Unpin
    <2>3. lib'[u].in /\ lib'[u].mode = lib[u].mode /\ lib'[u].rows = lib[u].rows
      <3>1. lib'[u] = [lib[u] EXCEPT !.pinned = FALSE]
        BY <1>1, <2>1
      <3>2. QED
        BY <1>1, <2>1, <3>1 DEF Series
    <2>4. QED
      BY <1>9, <2>1, <2>2, <2>3
  <1>12. CASE DeriveRead(u)
    <2>1. UNCHANGED <<lib, sync, torn>> /\ deriving[u] = "read" /\ deriving'[u] = lib[u].mode
      BY <1>1, <1>12 DEF DeriveRead, pastVars
    <2>2. lib[u].in
      BY <1>1, <2>1
    <2>3. QED
      BY <1>9, <2>1, <2>2
  <1>13. CASE DeriveWrite(u)
    <2>1. UNCHANGED sync /\ deriving[u] # "no" /\ deriving'[u] = "no" /\ lib[u].in
      BY <1>1, <1>13 DEF DeriveWrite
    <2>2. CASE UNCHANGED lib /\ torn' = torn \cup {u}
      BY <1>9, <2>1, <2>2
    <2>3. CASE deriving[u] # "read" /\ lib' = [lib EXCEPT ![u].rows = deriving[u]] /\ RowsMend(u, deriving[u])
      <3>1. deriving[u] \in Modes /\ deriving[u] \in Held(u)
        BY <1>1, <2>1, <2>3 DEF Held
      <3>2. Recomputing(u)' <=> Recomputing(u)
        <4>1. lib'[u].in
          <5>1. lib'[u] = [lib[u] EXCEPT !.rows = deriving[u]]
            BY <1>1, <2>3
          <5>2. QED
            BY <1>1, <2>1, <5>1 DEF Series
        <4>2. QED
          BY <1>7, <2>1, <4>1
      <3>3. Held(u)' \subseteq Held(u)
        BY <1>2, <2>1, <3>2 DEF Held
      <3>4. RowsFollow(u)'
        BY <2>1, <2>3, <3>1, <3>2, <3>3, RowsWritten
      <3>5. OfStands'
        <4>1. \A t \in Titles : lib'[t].in = lib[t].in
          BY <1>13, HandlerDerives DEF SameRow
        <4>2. QED
          BY <1>1, <2>1, <4>1 DEF OfStands
      <3>6. QED
        BY <1>5, <3>4, <3>5
    <2>4. QED
      BY <1>13, <2>2, <2>3 DEF DeriveWrite
  <1>14. CASE DropExclusion(u)
    <2>1. UNCHANGED <<lib, torn>> /\ sync'.lost = sync.lost
          /\ (UNCHANGED deriving \/ (lib[u].in /\ deriving[u] = "no" /\ deriving'[u] = "read"))
      BY <1>1, <1>14, DropsExclusion DEF DropExclusion, pastVars
    <2>2. CASE lib[u].in
      BY <1>9, <2>1, <2>2
    <2>3. CASE ~lib[u].in
      <3>1. deriving[u] = "no"
        BY <1>1, <2>3
      <3>2. QED
        BY <1>10, <2>1, <2>3, <3>1
    <2>4. QED
      BY <2>2, <2>3
  <1>15. CASE AddSeries(u)
    <2>1. UNCHANGED <<deriving, torn>> /\ sync'.lost = sync.lost
          /\ lib' = IF lib[u].in THEN lib ELSE [lib EXCEPT ![u] = NewSeries]
      BY <1>15, Adds DEF AddSeries
    <2>2. CASE lib[u].in
      BY <1>9, <2>1, <2>2
    <2>3. CASE ~lib[u].in
      <3>1. deriving[u] = "no" /\ lib'[u] = NewSeries /\ NewSeries.rows = "missing"
        BY <1>1, <2>1, <2>3 DEF NewSeries, NoSeries
      <3>2. QED
        BY <1>10, <2>1, <2>3, <3>1
    <2>4. QED
      BY <2>2, <2>3
  <1>16. ASSUME NEW keepOff \in BOOLEAN, RemoveSeries(u, keepOff)
         PROVE  RowsInv'
    <2>1. lib' = [lib EXCEPT ![u] = NoSeries] /\ ~NoSeries.in
          /\ (sync.pc # "idle" => sync'.lost = sync.lost \cup {u})
      BY <1>16, RemovesSeries DEF NoSeries
    <2>2. ~lib'[u].in
      BY <1>1, <2>1
    <2>3. RowsFollow(u)'
      BY <2>2 DEF RowsFollow
    <2>4. OfStands'
      <3>1. sync.of # NoTitle => lib'[sync.of].in \/ sync.of \in sync'.lost
        BY <1>1, <2>1 DEF OfStands
      <3>2. QED
        BY <1>4, <3>1 DEF OfStands
    <2>5. QED
      BY <1>5, <2>3, <2>4
  <1>17. CASE RecordExclusion(u) \/ AllowAgain(u) \/ \E status \in Listings : Edit(u, status)
    <2>1. UNCHANGED <<lib, deriving, torn>> /\ sync'.lost = sync.lost
      <3>1. CASE RecordExclusion(u)
        BY <3>1 DEF RecordExclusion, pastVars
      <3>2. CASE AllowAgain(u)
        BY <3>2, Allows DEF AllowAgain
      <3>3. ASSUME NEW status \in Listings, Edit(u, status)
            PROVE  UNCHANGED <<lib, deriving, torn>> /\ sync'.lost = sync.lost
        BY <3>3, Edits DEF Edit, requestVars
      <3>4. QED
        BY <1>17, <3>1, <3>2, <3>3
    <2>2. CASE lib[u].in
      BY <1>9, <2>1, <2>2
    <2>3. CASE ~lib[u].in
      BY <1>1, <1>10, <2>1, <2>3
    <2>4. QED
      BY <2>2, <2>3
  <1>18. QED
    BY <1>8, <1>11, <1>12, <1>13, <1>14, <1>15, <1>16, <1>17 DEF TitleStep

LEMMA RowsStay == TypeInv /\ RowsInv /\ [SyncNext]_syncVars => RowsInv'
  <1> SUFFICES ASSUME TypeInv, RowsInv, [SyncNext]_syncVars
               PROVE  RowsInv'
    OBVIOUS
  <1> USE DEF RowsInv
  <1>1. NoTitle \notin Titles /\ (sync.of # NoTitle => sync.pc \in {"merge", "removing"} /\ sync.of \in Titles)
    BY Names DEF TypeInv, SyncTyped, SyncState
  <1>2. IdleSync.of = NoTitle /\ IdleSync.mode = "read"
    BY DEF IdleSync
  <1>3. CASE SyncTick \/ SyncNow
    <2>1. UNCHANGED <<lib, deriving, torn>> /\ sync.pc = "idle"
      BY <1>3 DEF SyncTick, SyncNow, SyncStart, userVars, requestVars, pastVars
    <2>2. sync'.of = NoTitle /\ sync'.mode = "read"
      <3>1. \E id, full, stay, barred :
              sync' = [IdleSync EXCEPT !.pc = "fetch", !.account = id, !.full = full, !.stay = stay, !.barred = barred]
        <4>1. CASE SyncTick
          BY <4>1 DEF SyncTick, SyncStart
        <4>2. CASE SyncNow
          BY <4>2 DEF SyncNow, SyncStart
        <4>3. QED
          BY <1>3, <4>1, <4>2
      <3>2. QED
        BY <1>2, <3>1, IdleTyped DEF SyncState
    <2>3. sync.of = NoTitle /\ sync.mode = "read"
      BY <1>1, <2>1 DEF OfStands
    <2>4. ASSUME NEW t \in Titles
          PROVE  RowsFollow(t)'
      BY <1>1, <2>1, <2>2, <2>3, RowsKept DEF Recomputing, SameRow
    <2>5. QED
      BY <2>2, <2>4 DEF OfStands
  <1>4. ASSUME UNCHANGED <<sync, deriving, torn>>,
               \A t \in Titles : /\ lib'[t].in = lib[t].in /\ lib'[t].mode = lib[t].mode
                                 /\ lib'[t].rows = lib[t].rows
        PROVE  RowsInv'
    <2>1. ASSUME NEW t \in Titles
          PROVE  RowsFollow(t)'
      <3>1. Held(t)' = Held(t) /\ (Recomputing(t)' <=> Recomputing(t))
        BY <1>4 DEF Held, Recomputing, RowStands
      <3>2. QED
        BY <1>4, <3>1 DEF RowsFollow
    <2>2. QED
      BY <1>1, <1>4, <2>1 DEF OfStands
  <1>5. CASE WeekPasses \/ UNCHANGED syncVars
    BY <1>4, <1>5 DEF WeekPasses, syncVars, userVars, requestVars, pastVars
  <1>6. CASE ListStep
    <2>1. UNCHANGED <<sync, deriving, torn>>
      BY <1>6 DEF ListStep, Link, Unlink, requestVars, pastVars
    <2>2. ASSUME NEW t \in Titles
          PROVE  lib'[t].in = lib[t].in /\ lib'[t].mode = lib[t].mode /\ lib'[t].rows = lib[t].rows
      <3>1. lib[t] \in Series
        BY DEF TypeInv, RowsTyped
      <3>2. lib'[t] = lib[t] \/ lib'[t] = [lib[t] EXCEPT !.from = 0]
        BY <1>6 DEF ListStep, Link, Unlink
      <3>3. QED
        BY <3>1, <3>2 DEF Series
    <2>3. QED
      BY <1>4, <2>1, <2>2
  <1>7. CASE SyncRestart
    <2>1. /\ sync' = IdleSync /\ UNCHANGED lib /\ deriving' = [t \in Titles |-> "no"]
          /\ torn' = torn \cup {t \in Titles : deriving[t] # "no" \/ Recomputing(t)}
      BY <1>7 DEF SyncRestart
    <2>2. ASSUME NEW t \in Titles
          PROVE  RowsFollow(t)'
      <3>1. Held(t)' = {} /\ (t \notin torn' => t \notin torn /\ deriving[t] = "no" /\ ~Recomputing(t))
        BY <1>1, <1>2, <2>1 DEF Held, Recomputing, Modes
      <3>2. QED
        BY <2>1, <3>1 DEF RowsFollow
    <2>3. QED
      BY <1>2, <2>1, <2>2 DEF OfStands
  <1>8. QED
    BY <1>3, <1>5, <1>6, <1>7, StepKinds, RowsInSync, RowsDerived, RowsAround

LEMMA RowsBegin == SyncInit => RowsInv
  <1> SUFFICES ASSUME SyncInit
               PROVE  RowsInv
    OBVIOUS
  <1>1. sync.of = NoTitle /\ sync.mode = "read"
    BY DEF SyncInit, IdleSync
  <1>2. \A t \in Titles : ~lib[t].in
    BY DEF SyncInit, NoSeries
  <1>3. QED
    BY <1>1, <1>2 DEF RowsInv, OfStands, RowsFollow

LEMMA FollowsBehind == TypeInv /\ FollowInv /\ RowsInv => SyncedFollows
  <1> SUFFICES ASSUME TypeInv, FollowInv, RowsInv, sync.pc = "idle", account.cursor,
                      NEW t \in Titles \ (owes \cup fresh[account.id])
               PROVE  (list[account.id][t] = "absent" /\ t \in unread) \/ Follows(t)
    BY DEF SyncedFollows
  <1>1. Behind(t) /\ ~InHand(t)
    BY DEF Behind, InHand
  <1>2. (list[account.id][t] = "absent" /\ t \in unread) \/ Agrees(t)
    BY <1>1 DEF FollowInv, Following, BehindAgrees
  <1>3. ~Recomputing(t)
    BY Names DEF TypeInv, SyncTyped, Recomputing
  <1>4. lib[t].in /\ deriving[t] = "no" /\ t \notin torn => lib[t].rows \in {lib[t].mode, "missing"}
    BY <1>3 DEF RowsInv, RowsFollow
  <1>5. Agrees(t) => Follows(t)
    BY <1>4 DEF Agrees, Follows
  <1>6. QED
    BY <1>2, <1>5

\* Between syncs the library follows the list in every entry that a delta sync will not look at
\* again: stamp_list_synced moves the cursor only when a sync has come to its end, and only to
\* where that sync began (mod.rs: "only stamp on success ... or the entries it skipped fetching
\* would be lost forever").  The excuses are those of SyncedFollows: an entry that a page of a
\* MAL list missed, a merge that failed, a user's own change, and the episode rows of a series
\* whose recompute failed, was cut off or met another one.  It takes that not both happen:
\* exclusions that cannot be read, with which a forced full sync inserts a series again, and a
\* restart before its mode is set.
THEOREM NothingSlipsBehind == SyncSpec /\ OneTrouble => []SyncedFollows
  <1>1. OneTrouble /\ [SyncNext]_syncVars => OneTrouble'
    BY PlanStays DEF OneTrouble, Readable
  <1>2. SyncSpec /\ OneTrouble => []OneTrouble
    BY <1>1, PTL DEF SyncSpec
  <1>3. SyncSpec /\ OneTrouble => []FollowInv
    BY <1>2, FollowBegins, FollowStays, TypesAlways, PTL DEF SyncSpec
  <1>4. SyncSpec => []RowsInv
    BY RowsBegin, RowsStay, TypesAlways, PTL DEF SyncSpec
  <1>5. QED
    BY <1>3, <1>4, FollowsBehind, TypesAlways, PTL
=============================================================================
