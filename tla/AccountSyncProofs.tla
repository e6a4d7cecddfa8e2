-------------------------- MODULE AccountSyncProofs -------------------------
(***************************************************************************)
(* Proofs about AccountSync, for every set of tokens and of workers and    *)
(* every value of the bounds.                                              *)
(***************************************************************************)
EXTENDS AccountSync, FiniteSetTheorems, TLAPS

-----------------------------------------------------------------------------
(* The table: what a page of rows makes of the slots and of the index.     *)

LEMMA SupportedModesType ==
    \A pool \in Pools : SupportedModes(pool) \in SUBSET Modes
  BY DEF SupportedModes, Modes, Pools

LEMMA SlotOfType ==
    ASSUME NEW row \in Row
    PROVE  SlotOf(row) \in Slot /\ SlotOf(row).status = row.status
  <1>1. SlotWindows(row) \in SUBSET Modes
    BY DEF SlotWindows, Row, Modes
  <1>. QED
    BY <1>1 DEF SlotOf, Slot, SlotStatuses, Row

LEMMA AppliedSlotType ==
    ASSUME NEW old \in Slot \cup {NoSlot}, NEW row \in Row
    PROVE  AppliedSlot(old, row) \in Slot \cup {NoSlot}
  <1>1. CASE row.deleted
    BY <1>1 DEF AppliedSlot, Slot, SlotStatuses
  <1>2. CASE ~row.deleted
    BY <1>2, SlotOfType DEF AppliedSlot
  <1>. QED
    BY <1>1, <1>2

LEMMA ReindexedType ==
    \A a, old, new, ts :
        Reindexed(a, old, new, ts) \in [Pools \X Modes -> SUBSET Tokens]
  BY DEF Reindexed

LEMMA AppliedSlotsType ==
    ASSUME NEW old \in [Tokens -> Slot \cup {NoSlot}], NEW pg \in Page
    PROVE  /\ AppliedSlots(old, pg) \in [Tokens -> Slot \cup {NoSlot}]
           /\ \A t \in Tokens \ Got(pg) : AppliedSlots(old, pg)[t] = old[t]
           /\ Got(pg) \in SUBSET Tokens
  <1>1. ASSUME NEW t \in Got(pg)
        PROVE  t \in Tokens /\ AppliedSlot(old[t], pg[t]) \in Slot \cup {NoSlot}
    <2>1. t \in Tokens /\ old[t] \in Slot \cup {NoSlot} /\ pg[t] \in Row
      BY DEF Got, Page
    <2>. QED
      BY <2>1, AppliedSlotType
  <1>. QED
    BY <1>1 DEF AppliedSlots, Got

\* A slot built from a row shows that row.
LEMMA SlotShowsRow ==
    ASSUME NEW old \in Slot \cup {NoSlot}, NEW row \in Row
    PROVE  LET slot == AppliedSlot(old, row)
           IN  (IF slot = NoSlot \/ slot.status = "deleted" THEN NoSlot ELSE slot)
                  = (IF row.deleted THEN NoSlot ELSE SlotOf(row))
  <1>1. CASE row.deleted
    BY <1>1 DEF AppliedSlot
  <1>2. CASE ~row.deleted
    <2>1. SlotOf(row) # NoSlot
      BY SlotOfType, TableAssumption
    <2>2. SlotOf(row).status # "deleted"
      BY SlotOfType DEF Row, Statuses
    <2>. QED
      BY <1>2, <2>1, <2>2 DEF AppliedSlot
  <1>. QED
    BY <1>1, <1>2

\* The effect of _remove_from_indexes and _add_to_indexes on a whole page:
\* an exact index of the old slots becomes an exact index of the new ones.
LEMMA ReindexExact ==
    ASSUME NEW a, NEW ts \in SUBSET Tokens,
           NEW old \in [Tokens -> Slot \cup {NoSlot}],
           NEW new \in [Tokens -> Slot \cup {NoSlot}],
           \A t \in Tokens \ ts : new[t] = old[t],
           \A k \in Pools \X Modes :
              a[k] = {t \in Tokens : k \in IndexKeys(old[t])},
           NEW k \in Pools \X Modes
    PROVE  Reindexed(a, old, new, ts)[k]
              = {t \in Tokens : k \in IndexKeys(new[t])}
  <1>1. ASSUME NEW t \in Tokens, k \in IndexKeys(old[t])
        PROVE  old[t] # NoSlot /\ old[t].pool = k[1]
    BY <1>1 DEF IndexKeys
  <1>2. Reindexed(a, old, new, ts)[k] =
            {t \in Tokens :
                \/ t \in ts /\ k \in IndexKeys(new[t])
                \/ /\ t \in a[k]
                   /\ t \in ts /\ old[t] # NoSlot => old[t].pool # k[1]}
    BY DEF Reindexed
  <1>. QED
    BY <1>1, <1>2

\* The same for a page of rows.
LEMMA PageIndexExact ==
    ASSUME NEW a, NEW old \in [Tokens -> Slot \cup {NoSlot}], NEW pg \in Page,
           \A k \in Pools \X Modes :
              a[k] = {t \in Tokens : k \in IndexKeys(old[t])}
    PROVE  \A k \in Pools \X Modes :
              Reindexed(a, old, AppliedSlots(old, pg), Got(pg))[k]
                 = {t \in Tokens : k \in IndexKeys(AppliedSlots(old, pg)[t])}
  BY AppliedSlotsType, ReindexExact

-----------------------------------------------------------------------------
(* The repository.                                                         *)

\* Rows are stamped with a positive revision the repository has reached.
RowsStamped ==
    \A t \in Tokens : rows[t] # NoRow => rows[t].rev \in 1 .. revision

\* What a committed write may do to the rows: leave one as it was, or put a
\* row there that carries a revision no reader can have seen before.
Stamped(r, rev) ==
    /\ rev > revision
    /\ r \in [Tokens -> Row \cup {NoRow}]
    /\ \A t \in Tokens :
          \/ r[t] = rows[t]
          \/ r[t] # NoRow /\ r[t].rev \in (revision + 1) .. rev

LEMMA UpsertedRowType ==
    ASSUME NEW old \in Row \cup {NoRow}, NEW pool \in UsedPools, NEW rev \in Nat
    PROVE  /\ UpsertedRow(old, pool, rev) \in Row
           /\ UpsertedRow(old, pool, rev).rev = rev
  <1>1. pool \in Pools /\ SupportedModes(pool) \in SUBSET Modes
    BY StoreAssumption, SupportedModesType
  <1>2. (IF old = NoRow THEN SupportedModes(pool)
                        ELSE old.windows \cup {"console"}) \in SUBSET Modes
    BY <1>1 DEF Row, Modes
  <1>. QED
    BY <1>1, <1>2 DEF UpsertedRow, Row, Statuses

LEMMA PatchedRowType ==
    ASSUME NEW old \in Row, NEW patch \in Patches, NEW rev \in Nat
    PROVE  /\ PatchedRow(old, patch, rev) \in Row
           /\ PatchedRow(old, patch, rev).rev = rev
  <1>1. /\ patch.pool \in Pools \cup {"keep"}
        /\ patch.status \in Statuses \cup {"keep"}
        /\ patch.windows \in SUBSET Modes
    BY StoreAssumption, SupportedModesType DEF Patches
  <1>. QED
    BY <1>1 DEF PatchedRow, Row

LEMMA DeletedRowType ==
    ASSUME NEW old \in Row, NEW rev \in Nat
    PROVE  /\ DeletedRow(old, rev) \in Row
           /\ DeletedRow(old, rev).rev = rev
  BY DEF DeletedRow, Row

\* Every kind of write stamps the rows it touches.
LEMMA WriteStamps ==
    ASSUME StoreTypeOK, StoreNext
    PROVE  revision' \in Nat /\ Stamped(rows', revision')
  <1> USE DEF StoreTypeOK, Stamped
  <1>0. NoRow \notin Row
    BY TypesAssumption
  <1>1. ASSUME NEW ts \in SUBSET Tokens, NEW pool \in [ts -> UsedPools],
               UpsertAccounts(ts, pool)
        PROVE  revision' \in Nat /\ Stamped(rows', revision')
    BY <1>0, <1>1, UpsertedRowType DEF UpsertAccounts
  <1>2. ASSUME NEW ts \in SUBSET Tokens, NEW patch \in Patches,
               PatchAccounts(ts, patch)
        PROVE  revision' \in Nat /\ Stamped(rows', revision')
    BY <1>0, <1>2, PatchedRowType DEF PatchAccounts
  <1>3. ASSUME NEW ts \in SUBSET Tokens, DeleteAccounts(ts)
        PROVE  revision' \in Nat /\ Stamped(rows', revision')
    BY <1>0, <1>3, DeletedRowType DEF DeleteAccounts
  <1>4. ASSUME NEW ts \in SUBSET Tokens, NEW pool \in UsedPools,
               ReplacePool(pool, ts)
        PROVE  revision' \in Nat /\ Stamped(rows', revision')
    <2> DEFINE cleared == [t \in Tokens |->
                             IF /\ rows[t] # NoRow
                                /\ ~rows[t].deleted
                                /\ rows[t].pool = pool
                             THEN DeletedRow(rows[t], revision + 1)
                             ELSE rows[t]]
    <2>1. \A t \in Tokens :
             /\ cleared[t] \in Row \cup {NoRow}
             /\ \/ cleared[t] = rows[t]
                \/ cleared[t] # NoRow /\ cleared[t].rev = revision + 1
      BY <1>0, DeletedRowType
    <2>2. /\ revision' = revision + 2
          /\ rows' = [t \in Tokens |->
                        IF t \in ts
                        THEN UpsertedRow(cleared[t], pool, revision + 2)
                        ELSE cleared[t]]
      BY <1>4 DEF ReplacePool
    <2> HIDE DEF cleared
    <2>3. ASSUME NEW t \in Tokens
          PROVE  /\ rows'[t] \in Row \cup {NoRow}
                 /\ \/ rows'[t] = rows[t]
                    \/ /\ rows'[t] # NoRow
                       /\ rows'[t].rev \in (revision + 1) .. (revision + 2)
      <3>1. CASE t \in ts
        <4>1. /\ UpsertedRow(cleared[t], pool, revision + 2) \in Row
              /\ UpsertedRow(cleared[t], pool, revision + 2).rev = revision + 2
          <5>1. cleared[t] \in Row \cup {NoRow} /\ revision + 2 \in Nat
            BY <2>1
          <5>. QED
            BY <5>1, UpsertedRowType
        <4>. QED
          BY <1>0, <2>2, <3>1, <4>1
      <3>2. CASE t \notin ts
        BY <2>1, <2>2, <3>2
      <3>. QED
        BY <3>1, <3>2
    <2>. QED
      BY <2>2, <2>3
  <1>. QED
    BY <1>1, <1>2, <1>3, <1>4 DEF StoreNext

-----------------------------------------------------------------------------
(* Type correctness.                                                       *)

LEMMA CountType ==
    \A S \in SUBSET Tokens : Cardinality(S) \in Nat
  BY TypesAssumption, FS_Subset, FS_CardinalityType

\* TypeOK is inductive on its own.
LEMMA TypeStep ==
    ASSUME TypeOK, [Next]_vars
    PROVE  TypeOK'
  <1> USE DEF TypeOK, Phases, Page
  <1>0. StoreTypeOK' \/ ~UNCHANGED storeVars
    BY DEF StoreTypeOK, storeVars
  <1>1. ASSUME Write
        PROVE  TypeOK'
    <2>1. StoreTypeOK'
      BY <1>1, WriteStamps DEF Write, Stamped, StoreTypeOK
    <2>. QED
      BY <1>1, <2>1 DEF Write, tableVars, scanVars
  <1>2. ASSUME NEW w \in Workers, BootRead(w)
        PROVE  TypeOK'
    BY <1>0, <1>2 DEF BootRead, tableVars, storeVars, StoreTypeOK
  <1>3. ASSUME NEW w \in Workers, BootLoad(w)
        PROVE  TypeOK'
    <2>1. \A t \in LiveIn(rows) : SlotOf(rows[t]) \in Slot
      BY SlotOfType DEF LiveIn, StoreTypeOK
    <2>2. slots' \in [Workers -> [Tokens -> Slot \cup {NoSlot}]]
      BY <1>3, <2>1 DEF BootLoad
    <2>3. avail' \in [Workers -> [Pools \X Modes -> SUBSET Tokens]]
      BY <1>3, ReindexedType DEF BootLoad
    <2>4. size' \in [Workers -> Nat]
      BY <1>3, CountType DEF BootLoad, LiveIn
    <2>5. seen' \in [Workers -> [Tokens -> Nat]]
      BY <1>3 DEF BootLoad, RowRev, StoreTypeOK, Row
    <2>. QED
      BY <1>0, <1>3, <2>2, <2>3, <2>4, <2>5 DEF BootLoad, scanVars
  <1>4. ASSUME NEW w \in Workers, ReadRevision(w)
        PROVE  TypeOK'
    BY <1>0, <1>4 DEF ReadRevision, tableVars, storeVars, StoreTypeOK
  <1>5. ASSUME NEW w \in Workers, ReadRows(w)
        PROVE  TypeOK'
    <2>1. page' \in [Workers -> [Tokens -> Row \cup {NoRow}]]
      BY <1>5 DEF ReadRows, StoreTypeOK
    <2>2. hasMore' \in [Workers -> BOOLEAN]
      BY <1>5 DEF ReadRows
    <2>. QED
      BY <1>0, <1>5, <2>1, <2>2 DEF ReadRows, tableVars
  <1>6. ASSUME NEW w \in Workers, ScanFails(w)
        PROVE  TypeOK'
    BY <1>0, <1>6 DEF ScanFails, tableVars, scanVars
  <1>7. ASSUME NEW w \in Workers, ApplyPage(w)
        PROVE  TypeOK'
    <2>1. slots' \in [Workers -> [Tokens -> Slot \cup {NoSlot}]]
      BY <1>7, AppliedSlotsType DEF ApplyPage
    <2>2. avail' \in [Workers -> [Pools \X Modes -> SUBSET Tokens]]
      BY <1>7, ReindexedType DEF ApplyPage
    <2>3. size' \in [Workers -> Nat]
      <3> DEFINE gone  == {t \in Got(page[w]) :
                            page[w][t].deleted /\ slots[w][t] # NoSlot}
                 fresh == {t \in Got(page[w]) :
                            ~page[w][t].deleted /\ slots[w][t] = NoSlot}
      <3>1. Cardinality(gone) \in Nat /\ Cardinality(fresh) \in Nat
        BY CountType DEF Got
      <3>2. size' = [size EXCEPT ![w] =
                       Resized(@, Cardinality(gone), Cardinality(fresh))]
        BY <1>7 DEF ApplyPage, Got
      <3> HIDE DEF gone, fresh
      <3>. QED
        BY <3>1, <3>2 DEF Resized
    <2>4. seen' \in [Workers -> [Tokens -> Nat]]
      BY <1>7 DEF ApplyPage, Got, Row
    <2>5. tableRev' \in [Workers -> Nat]
      BY <1>7 DEF ApplyPage, ReachedRevision
    <2>6. page' \in [Workers -> [Tokens -> Row \cup {NoRow}]]
      BY <1>7 DEF ApplyPage, NoPage
    <2>. QED
      BY <1>0, <1>7, <2>1, <2>2, <2>3, <2>4, <2>5, <2>6 DEF ApplyPage
  <1>8. ASSUME NEW w \in Workers, Crash(w)
        PROVE  TypeOK'
    BY <1>0, <1>8
       DEF Crash, NoSlots, NoAvail, NoPage, NothingSeen
  <1>9. ASSUME UNCHANGED vars
        PROVE  TypeOK'
    BY <1>0, <1>9 DEF vars, tableVars, scanVars
  <1>. QED
    BY <1>1, <1>2, <1>3, <1>4, <1>5, <1>6, <1>7, <1>8, <1>9 DEF Next

LEMMA TypeInit == Init => TypeOK
  BY DEF Init, TypeOK, StoreInit, StoreTypeOK, Phases, NoSlots, NoAvail,
         NoPage, Page, NothingSeen

\* The tables, the scans and the repository keep the shapes the code gives
\* them, whatever the number of accounts, workers, writes and crashes.
THEOREM TypeCorrect == Spec => []TypeOK
  BY TypeInit, TypeStep, PTL DEF Spec

-----------------------------------------------------------------------------
(* The availability index.                                                 *)

LEMMA IndexStep ==
    ASSUME TypeOK, IndexExact, [Next]_vars
    PROVE  IndexExact'
  <1>1. ASSUME UNCHANGED <<slots, avail>>
        PROVE  IndexExact'
    BY <1>1 DEF IndexExact
  <1>2. ASSUME NEW w \in Workers, BootLoad(w)
        PROVE  IndexExact'
    <2> DEFINE new == [t \in Tokens |-> IF t \in LiveIn(rows)
                                        THEN SlotOf(rows[t]) ELSE NoSlot]
    <2>1. /\ slots' = [slots EXCEPT ![w] = new]
          /\ avail' = [avail EXCEPT ![w] =
                         Reindexed(NoAvail, NoSlots, new, Tokens)]
      BY <1>2 DEF BootLoad
    <2>2. new \in [Tokens -> Slot \cup {NoSlot}]
      BY SlotOfType DEF LiveIn, TypeOK, StoreTypeOK
    <2> HIDE DEF new
    <2>3. \A k \in Pools \X Modes :
             NoAvail[k] = {t \in Tokens : k \in IndexKeys(NoSlots[t])}
      BY DEF NoAvail, NoSlots, IndexKeys
    <2>4. NoSlots \in [Tokens -> Slot \cup {NoSlot}]
      BY DEF NoSlots
    <2>5. \A k \in Pools \X Modes :
             Reindexed(NoAvail, NoSlots, new, Tokens)[k]
                = {t \in Tokens : k \in IndexKeys(new[t])}
      BY <2>2, <2>3, <2>4, ReindexExact
    <2>. QED
      BY <2>1, <2>5 DEF IndexExact, TypeOK
  <1>3. ASSUME NEW w \in Workers, ApplyPage(w)
        PROVE  IndexExact'
    <2> DEFINE new == AppliedSlots(slots[w], page[w])
    <2>1. /\ slots[w] \in [Tokens -> Slot \cup {NoSlot}]
          /\ page[w] \in Page
          /\ \A k \in Pools \X Modes :
                avail[w][k] = {t \in Tokens : k \in IndexKeys(slots[w][t])}
      BY DEF IndexExact, TypeOK
    <2>2. /\ slots' = [slots EXCEPT ![w] = new]
          /\ avail' = [avail EXCEPT ![w] =
                         Reindexed(avail[w], slots[w], new, Got(page[w]))]
      BY <1>3 DEF ApplyPage
    <2>3. \A k \in Pools \X Modes :
             Reindexed(avail[w], slots[w], new, Got(page[w]))[k]
                = {t \in Tokens : k \in IndexKeys(new[t])}
      BY <2>1, PageIndexExact
    <2> HIDE DEF new
    <2>. QED
      BY <2>2, <2>3 DEF IndexExact, TypeOK
  <1>4. ASSUME NEW w \in Workers, Crash(w)
        PROVE  IndexExact'
    BY <1>4 DEF Crash, IndexExact, TypeOK, NoSlots, NoAvail, IndexKeys
  <1>. QED
    BY <1>1, <1>2, <1>3, <1>4
       DEF Next, vars, tableVars, Write, BootRead, ReadRevision, ReadRows,
           ScanFails

\* Selection buckets always hold exactly the active slots with a window for
\* the mode, in every worker and whatever the pages contain.
THEOREM IndexAlwaysExact == Spec => []IndexExact
  <1>1. Init => TypeOK /\ IndexExact
    BY TypeInit DEF Init, IndexExact, NoSlots, NoAvail, IndexKeys
  <1>2. TypeOK /\ IndexExact /\ [Next]_vars => TypeOK' /\ IndexExact'
    BY TypeStep, IndexStep
  <1>. QED
    BY <1>1, <1>2, PTL DEF Spec

-----------------------------------------------------------------------------
(* Replication.  The invariant that carries the argument relates the three *)
(* revisions a worker holds (its table's, its scan's, each slot's) to the  *)
(* repository's.                                                           *)

\* No worker is ahead of the repository.
RevisionsReached ==
    \A w \in Workers : tableRev[w] <= revision /\ readRev[w] <= revision

\* Without a table nothing has been seen; with one, a token of which nothing
\* has been seen has no slot, and no slot is newer than its row.
SeenReached ==
    \A w \in Workers, t \in Tokens :
        /\ ~HasTable(w) => seen[w][t] = 0
        /\ seen[w][t] = 0 => slots[w][t] = NoSlot
        /\ seen[w][t] <= RowRev(rows[t])

\* The rows of a page not yet applied are versions between the slot's and the
\* repository's, the latter's own contents if the versions agree.
PageReached ==
    \A w \in Workers, t \in Tokens :
        phase[w] = "rows" /\ page[w][t] # NoRow =>
            /\ page[w][t].rev > 0
            /\ seen[w][t] <= page[w][t].rev
            /\ page[w][t].rev <= RowRev(rows[t])
            /\ page[w][t].rev = RowRev(rows[t]) => page[w][t] = rows[t]

\* A table has the current version of every row it claims to have.
CaughtUp ==
    \A w \in Workers, t \in Tokens :
        HasTable(w) /\ RowRev(rows[t]) <= tableRev[w]
            => seen[w][t] = RowRev(rows[t])

\* A page holds every row the table will claim to have once it is applied:
\* a row stamped at or below the revision the scan has read was committed
\* before it, so the second statement of the scan has returned it.
NothingMissed ==
    \A w \in Workers, t \in Tokens :
        phase[w] = "rows" /\ RowRev(rows[t]) \in (tableRev[w] + 1) .. readRev[w]
            => page[w][t] = rows[t]

\* Every scan fits in one page.
UnpagedScan == BatchLimit > Cardinality(Tokens)

IInv ==
    /\ TypeOK
    /\ RowsStamped
    /\ RevisionsReached
    /\ SeenReached
    /\ PageReached
    /\ SeenIsShown
    /\ UnpagedScan => CaughtUp /\ NothingMissed

LEMMA InitIInv == Init => IInv
  <1>. SUFFICES ASSUME Init PROVE IInv
    OBVIOUS
  <1>1. TypeOK
    BY TypeInit
  <1>2. /\ \A t \in Tokens : rows[t] = NoRow /\ RowRev(rows[t]) = 0
        /\ \A w \in Workers : /\ phase[w] = "down" /\ ~HasTable(w)
                              /\ tableRev[w] = 0 /\ readRev[w] = 0
                              /\ \A t \in Tokens : /\ seen[w][t] = 0
                                                   /\ slots[w][t] = NoSlot
        /\ revision = 0
    BY DEF Init, StoreInit, RowRev, HasTable, NothingSeen, NoSlots
  <1>3. RowsStamped /\ RevisionsReached /\ SeenReached
    BY <1>2 DEF RowsStamped, RevisionsReached, SeenReached
  <1>4. PageReached /\ SeenIsShown
    BY <1>2 DEF PageReached, SeenIsShown
  <1>5. CaughtUp /\ NothingMissed
    BY <1>2 DEF CaughtUp, NothingMissed
  <1>. QED
    BY <1>1, <1>3, <1>4, <1>5 DEF IInv

\* A write: rows move to revisions above all that tables and scans hold.
LEMMA WriteIInv ==
    ASSUME IInv, TypeOK', Write
    PROVE  IInv'
  <1> USE DEF IInv
  <1>1. /\ revision \in Nat /\ revision' \in Nat /\ revision' > revision
        /\ \A t \in Tokens :
              \/ rows'[t] = rows[t]
              \/ /\ rows'[t] # NoRow
                 /\ rows'[t].rev \in (revision + 1) .. revision'
    BY WriteStamps DEF Write, TypeOK, StoreTypeOK, Stamped
  <1>2. /\ UNCHANGED <<phase, slots, tableRev, seen, readRev, page>>
        /\ \A w \in Workers : HasTable(w)' = HasTable(w)
    BY DEF Write, tableVars, scanVars, HasTable
  <1>3. \A t \in Tokens :
           /\ RowRev(rows[t]) \in Nat /\ RowRev(rows[t]) <= revision
           /\ RowRev(rows'[t]) \in Nat
           /\ \/ rows'[t] = rows[t]
              \/ RowRev(rows'[t]) > revision
    BY <1>1 DEF RowRev, RowsStamped, TypeOK, StoreTypeOK, Row
  <1>4. \A w \in Workers : /\ tableRev[w] \in Nat /\ readRev[w] \in Nat
                           /\ tableRev[w] <= revision /\ readRev[w] <= revision
                           /\ \A t \in Tokens : seen[w][t] \in Nat
    BY DEF RevisionsReached, TypeOK
  <1>5. \A w \in Workers, t \in Tokens :
           page[w][t] # NoRow => page[w][t].rev \in Nat
    BY DEF TypeOK, Page, Row
  <1>6. RowsStamped'
    BY <1>1 DEF RowsStamped, TypeOK, StoreTypeOK, Row
  <1>7. RevisionsReached'
    BY <1>1, <1>2, <1>4 DEF RevisionsReached
  <1>8. SeenReached'
    BY <1>1, <1>2, <1>3, <1>4 DEF SeenReached
  <1>9. PageReached'
    BY <1>1, <1>2, <1>3, <1>4, <1>5 DEF PageReached
  <1>10. SeenIsShown'
    <2>. SUFFICES ASSUME NEW w \in Workers, NEW t \in Tokens,
                         HasTable(w), seen[w][t] = RowRev(rows'[t])
                  PROVE  TableView(w, t)' = StoreView(t)'
      BY <1>2 DEF SeenIsShown
    <2>1. rows'[t] = rows[t]
      BY <1>1, <1>3, <1>4 DEF SeenReached
    <2>2. TableView(w, t)' = TableView(w, t) /\ StoreView(t)' = StoreView(t)
      BY <1>2, <2>1 DEF TableView, StoreView, LiveIn
    <2>. QED
      BY <2>1, <2>2 DEF SeenIsShown
  <1>11. ASSUME UnpagedScan PROVE CaughtUp' /\ NothingMissed'
    <2>1. CaughtUp'
      BY <1>1, <1>2, <1>3, <1>4, <1>11 DEF CaughtUp
    <2>2. NothingMissed'
      BY <1>1, <1>2, <1>3, <1>4, <1>11 DEF NothingMissed
    <2>. QED
      BY <2>1, <2>2
  <1>. QED
    BY <1>6, <1>7, <1>8, <1>9, <1>10, <1>11 DEF UnpagedScan

\* The steps that only move a scan along, without touching a table.
LEMMA ScanIInv ==
    ASSUME IInv, TypeOK', NEW w \in Workers,
           BootRead(w) \/ ReadRevision(w) \/ ScanFails(w)
    PROVE  IInv'
  <1> USE DEF IInv
  <1>1. /\ UNCHANGED <<revision, rows, slots, tableRev, seen, page>>
        /\ \A v \in Workers : HasTable(v)' = HasTable(v)
        /\ \A v \in Workers : phase'[v] = "rows" => phase[v] = "rows" /\ v # w
        /\ \A v \in Workers \ {w} : readRev'[v] = readRev[v]
        /\ readRev'[w] \in {readRev[w], revision}
    BY DEF BootRead, ReadRevision, ScanFails, storeVars, tableVars, scanVars,
           HasTable, TypeOK
  <1>2. RowsStamped' /\ SeenReached'
    BY <1>1 DEF RowsStamped, SeenReached, RowRev
  <1>3. RevisionsReached'
    <2>1. revision \in Nat
      BY DEF TypeOK, StoreTypeOK
    <2>2. \A v \in Workers : /\ tableRev'[v] <= revision
                             /\ readRev'[v] = readRev[v] \/ readRev'[v] = revision
      BY <1>1 DEF RevisionsReached
    <2>. QED
      BY <1>1, <2>1, <2>2 DEF RevisionsReached
  <1>4. PageReached'
    BY <1>1 DEF PageReached, RowRev
  <1>5. SeenIsShown'
    BY <1>1 DEF SeenIsShown, TableView, StoreView, LiveIn, RowRev
  <1>6. ASSUME UnpagedScan PROVE CaughtUp' /\ NothingMissed'
    BY <1>1, <1>6 DEF CaughtUp, NothingMissed, RowRev
  <1>. QED
    BY <1>2, <1>3, <1>4, <1>5, <1>6 DEF UnpagedScan

LEMMA BootLoadIInv ==
    ASSUME IInv, TypeOK', NEW w \in Workers, BootLoad(w)
    PROVE  IInv'
  <1> USE DEF IInv
  <1>1. /\ UNCHANGED <<revision, rows, readRev, page>>
        /\ \A v \in Workers \ {w} :
              /\ HasTable(v)' = HasTable(v) /\ phase'[v] = phase[v]
              /\ tableRev'[v] = tableRev[v] /\ slots'[v] = slots[v]
              /\ seen'[v] = seen[v]
        /\ HasTable(w)' /\ phase'[w] = "idle" /\ tableRev'[w] = readRev[w]
        /\ \A t \in Tokens :
              /\ seen'[w][t] = RowRev(rows[t])
              /\ slots'[w][t] = IF t \in LiveIn(rows) THEN SlotOf(rows[t])
                                                      ELSE NoSlot
    BY DEF BootLoad, storeVars, scanVars, HasTable, TypeOK
  <1>2. \A t \in Tokens : /\ RowRev(rows[t]) \in Nat
                          /\ rows[t] # NoRow => RowRev(rows[t]) > 0
    BY DEF RowRev, RowsStamped, TypeOK, StoreTypeOK, Row
  <1>3. RowsStamped' /\ RevisionsReached'
    BY <1>1 DEF RowsStamped, RevisionsReached
  <1>4. SeenReached'
    BY <1>1, <1>2 DEF SeenReached, RowRev, LiveIn
  <1>5. PageReached'
    BY <1>1 DEF PageReached, RowRev
  <1>6. SeenIsShown'
    <2>1. ASSUME NEW t \in Tokens
          PROVE  TableView(w, t)' = StoreView(t)'
      <3>1. t \in LiveIn(rows) => /\ SlotOf(rows[t]) # NoSlot
                                  /\ SlotOf(rows[t]).status # "deleted"
        BY SlotOfType, TableAssumption
           DEF LiveIn, TypeOK, StoreTypeOK, Row, Statuses
      <3>. QED
        BY <1>1, <3>1 DEF TableView, StoreView, LiveIn
    <2>. QED
      BY <1>1, <2>1 DEF SeenIsShown, TableView, StoreView, LiveIn, RowRev
  <1>7. ASSUME UnpagedScan PROVE CaughtUp' /\ NothingMissed'
    <2>1. CaughtUp'
      BY <1>1, <1>7 DEF CaughtUp, RowRev
    <2>2. NothingMissed'
      BY <1>1, <1>7 DEF NothingMissed, RowRev
    <2>. QED
      BY <2>1, <2>2
  <1>. QED
    BY <1>3, <1>4, <1>5, <1>6, <1>7 DEF UnpagedScan

\* A scan that is not cut off by the limit returns every changed row.
LEMMA UnpagedPage ==
    ASSUME UnpagedScan, NEW w \in Workers, NEW ts \in Pages(w)
    PROVE  ts = Changed(w)
  <1>1. Cardinality(Changed(w)) <= Cardinality(Tokens)
    BY TypesAssumption, FS_Subset DEF Changed
  <1>2. /\ Cardinality(Tokens) \in Nat /\ Cardinality(ts) \in Nat
        /\ Cardinality(ts) <= Cardinality(Tokens)
    BY TypesAssumption, FS_Subset, FS_CardinalityType DEF Pages, Changed
  <1>3. Cardinality(ts) # BatchLimit
    BY <1>2, SyncAssumption DEF UnpagedScan
  <1>. QED
    BY <1>3 DEF Pages

LEMMA ReadRowsIInv ==
    ASSUME IInv, TypeOK', NEW w \in Workers, ReadRows(w)
    PROVE  IInv'
  <1> USE DEF IInv
  <1>1. PICK ts \in Pages(w) :
           page' = [page EXCEPT ![w] =
                      [t \in Tokens |-> IF t \in ts THEN rows[t] ELSE NoRow]]
    BY DEF ReadRows
  <1>2. /\ UNCHANGED <<revision, rows, slots, tableRev, seen, readRev>>
        /\ \A v \in Workers : HasTable(v)' = HasTable(v)
        /\ \A v \in Workers \ {w} : phase'[v] = phase[v] /\ page'[v] = page[v]
        /\ \A t \in Tokens :
              page'[w][t] = IF t \in ts THEN rows[t] ELSE NoRow
    BY <1>1 DEF ReadRows, storeVars, tableVars, HasTable, TypeOK
  <1>3. \A t \in ts : t \in Tokens /\ rows[t] # NoRow
    BY DEF Pages, Changed
  <1>4. RowsStamped' /\ RevisionsReached' /\ SeenReached'
    BY <1>2 DEF RowsStamped, RevisionsReached, SeenReached, RowRev
  <1>5. PageReached'
    <2>1. \A t \in Tokens : page'[w][t] # NoRow =>
             /\ page'[w][t] = rows[t]
             /\ rows[t].rev > 0 /\ RowRev(rows[t]) = rows[t].rev
             /\ rows[t].rev \in Nat /\ seen[w][t] <= rows[t].rev
      BY <1>2, <1>3 DEF SeenReached, RowRev, RowsStamped, TypeOK, StoreTypeOK
    <2>. QED
      BY <1>2, <2>1 DEF PageReached, RowRev
  <1>6. SeenIsShown'
    BY <1>2 DEF SeenIsShown, TableView, StoreView, LiveIn, RowRev
  <1>7. ASSUME UnpagedScan PROVE CaughtUp' /\ NothingMissed'
    <2>1. ts = Changed(w)
      BY <1>7, UnpagedPage
    <2>2. \A t \in Tokens :
             RowRev(rows[t]) \in (tableRev[w] + 1) .. readRev[w]
                => page'[w][t] = rows[t]
      <3>1. tableRev[w] \in Nat /\ readRev[w] \in Nat
        BY DEF TypeOK
      <3>2. \A t \in Tokens : rows[t] # NoRow => rows[t].rev \in Nat
        BY DEF TypeOK, StoreTypeOK, Row
      <3>. QED
        BY <1>2, <2>1, <3>1, <3>2 DEF Changed, RowRev
    <2>3. CaughtUp'
      BY <1>2, <1>7 DEF CaughtUp, RowRev
    <2>4. NothingMissed'
      BY <1>2, <1>7, <2>2 DEF NothingMissed, RowRev
    <2>. QED
      BY <2>3, <2>4
  <1>. QED
    BY <1>4, <1>5, <1>6, <1>7 DEF UnpagedScan

LEMMA ApplyPageIInv ==
    ASSUME IInv, TypeOK', NEW w \in Workers, ApplyPage(w)
    PROVE  IInv'
  <1> USE DEF IInv
  <1>1. /\ UNCHANGED <<revision, rows, readRev>>
        /\ phase[w] = "rows" /\ phase'[w] # "rows" /\ HasTable(w) /\ HasTable(w)'
        /\ \A v \in Workers \ {w} :
              /\ HasTable(v)' = HasTable(v) /\ phase'[v] = phase[v]
              /\ tableRev'[v] = tableRev[v] /\ slots'[v] = slots[v]
              /\ seen'[v] = seen[v] /\ page'[v] = page[v]
        /\ tableRev'[w] = IF readRev[w] > tableRev[w] THEN readRev[w]
                                                      ELSE tableRev[w]
        /\ slots'[w] = AppliedSlots(slots[w], page[w])
        /\ \A t \in Tokens :
              seen'[w][t] = IF t \in Got(page[w]) THEN page[w][t].rev ELSE seen[w][t]
    <2>1. /\ slots' = [slots EXCEPT ![w] = AppliedSlots(slots[w], page[w])]
          /\ phase[w] = "rows"
          /\ phase' = [phase EXCEPT ![w] = IF hasMore[w] THEN "scan" ELSE "idle"]
          /\ UNCHANGED <<revision, rows, readRev>>
          /\ tableRev' = [tableRev EXCEPT ![w] =
                            IF readRev[w] > @ THEN readRev[w] ELSE @]
          /\ page' = [page EXCEPT ![w] = NoPage]
          /\ seen' = [seen EXCEPT ![w] =
                        [t \in Tokens |-> IF t \in Got(page[w]) THEN page[w][t].rev
                                                         ELSE seen[w][t]]]
      BY DEF ApplyPage, ReachedRevision, storeVars, Got
    <2>2. /\ phase \in [Workers -> Phases]
          /\ page \in [Workers -> [Tokens -> Row \cup {NoRow}]]
          /\ slots \in [Workers -> [Tokens -> Slot \cup {NoSlot}]]
          /\ tableRev \in [Workers -> Nat]
          /\ seen \in [Workers -> [Tokens -> Nat]]
      BY DEF TypeOK, Page
    <2>. QED
      BY <2>1, <2>2 DEF HasTable
  <1>2. \A t \in Tokens :
           /\ tableRev[w] \in Nat /\ readRev[w] \in Nat
           /\ RowRev(rows[t]) \in Nat /\ seen[w][t] \in Nat
           /\ rows[t] # NoRow => RowRev(rows[t]) > 0
    BY DEF RowRev, RowsStamped, TypeOK, StoreTypeOK, Row
  <1>3. \A t \in Got(page[w]) :
           /\ page[w][t] \in Row /\ page[w][t].rev \in Nat
           /\ page[w][t].rev > 0
           /\ seen[w][t] <= page[w][t].rev
           /\ page[w][t].rev <= RowRev(rows[t])
           /\ page[w][t].rev = RowRev(rows[t]) => page[w][t] = rows[t]
    BY <1>1 DEF Got, PageReached, TypeOK, Page, Row
  <1>4. RowsStamped' /\ RevisionsReached'
    BY <1>1 DEF RowsStamped, RevisionsReached, TypeOK
  <1>5. SeenReached'
    BY <1>1, <1>2, <1>3 DEF SeenReached, AppliedSlots, Got, RowRev
  <1>6. PageReached'
    BY <1>1 DEF PageReached, RowRev
  <1>7. SeenIsShown'
    <2>1. ASSUME NEW t \in Tokens, seen'[w][t] = RowRev(rows[t])
          PROVE  TableView(w, t)' = StoreView(t)'
      <3>1. CASE t \in Got(page[w])
        <4>1. page[w][t] = rows[t] /\ rows[t] \in Row /\ rows[t] # NoRow
          BY <1>1, <1>3, <2>1, <3>1, TypesAssumption
        <4>2. slots'[w][t] = AppliedSlot(slots[w][t], rows[t])
          BY <1>1, <3>1, <4>1 DEF AppliedSlots
        <4>3. slots[w][t] \in Slot \cup {NoSlot}
          BY DEF TypeOK
        <4>. QED
          BY <1>1, <4>1, <4>2, <4>3, SlotShowsRow
             DEF TableView, StoreView, LiveIn
      <3>2. CASE t \notin Got(page[w])
        <4>1. slots'[w][t] = slots[w][t] /\ seen[w][t] = RowRev(rows[t])
          BY <1>1, <2>1, <3>2 DEF AppliedSlots, Got
        <4>. QED
          BY <1>1, <4>1 DEF SeenIsShown, TableView, StoreView, LiveIn
      <3>. QED
        BY <3>1, <3>2
    <2>. QED
      BY <1>1, <2>1 DEF SeenIsShown, TableView, StoreView, LiveIn, RowRev
  <1>8. ASSUME UnpagedScan PROVE CaughtUp' /\ NothingMissed'
    <2>1. ASSUME NEW t \in Tokens, RowRev(rows[t]) <= tableRev'[w]
          PROVE  seen'[w][t] = RowRev(rows[t])
      <3>1. CASE RowRev(rows[t]) <= tableRev[w]
        <4>1. seen[w][t] = RowRev(rows[t])
          BY <1>1, <1>8, <3>1 DEF CaughtUp
        <4>. QED
          BY <1>1, <1>2, <1>3, <4>1
      <3>2. CASE RowRev(rows[t]) > tableRev[w]
        <4>1. page[w][t] = rows[t]
          BY <1>1, <1>2, <1>8, <2>1, <3>2 DEF NothingMissed
        <4>2. rows[t] # NoRow
          BY <1>2, <3>2 DEF RowRev
        <4>. QED
          BY <1>1, <4>1, <4>2 DEF Got, RowRev
      <3>. QED
        BY <1>2, <3>1, <3>2
    <2>2. CaughtUp'
      BY <1>1, <1>8, <2>1 DEF CaughtUp, RowRev
    <2>3. NothingMissed'
      BY <1>1, <1>8 DEF NothingMissed, RowRev
    <2>. QED
      BY <2>2, <2>3
  <1>. QED
    BY <1>4, <1>5, <1>6, <1>7, <1>8 DEF UnpagedScan

LEMMA CrashIInv ==
    ASSUME IInv, TypeOK', NEW w \in Workers, Crash(w)
    PROVE  IInv'
  <1> USE DEF IInv
  <1>1. /\ UNCHANGED <<revision, rows>>
        /\ \A v \in Workers \ {w} :
              /\ HasTable(v)' = HasTable(v) /\ phase'[v] = phase[v]
              /\ tableRev'[v] = tableRev[v] /\ slots'[v] = slots[v]
              /\ seen'[v] = seen[v] /\ page'[v] = page[v]
              /\ readRev'[v] = readRev[v]
        /\ ~HasTable(w)' /\ phase'[w] # "rows"
        /\ tableRev'[w] = 0 /\ readRev'[w] = 0
        /\ \A t \in Tokens : seen'[w][t] = 0 /\ slots'[w][t] = NoSlot
    BY DEF Crash, storeVars, HasTable, TypeOK, NothingSeen, NoSlots
  <1>2. revision \in Nat /\ \A t \in Tokens : RowRev(rows[t]) \in Nat
    BY DEF RowRev, TypeOK, StoreTypeOK, Row
  <1>3. RowsStamped' /\ RevisionsReached'
    BY <1>1, <1>2 DEF RowsStamped, RevisionsReached
  <1>4. SeenReached'
    BY <1>1, <1>2 DEF SeenReached, RowRev
  <1>5. PageReached'
    BY <1>1 DEF PageReached, RowRev
  <1>6. SeenIsShown'
    BY <1>1 DEF SeenIsShown, TableView, StoreView, LiveIn, RowRev
  <1>7. ASSUME UnpagedScan PROVE CaughtUp' /\ NothingMissed'
    BY <1>1, <1>7 DEF CaughtUp, NothingMissed, RowRev
  <1>. QED
    BY <1>3, <1>4, <1>5, <1>6, <1>7 DEF UnpagedScan

LEMMA StepIInv ==
    ASSUME IInv, [Next]_vars
    PROVE  IInv'
  <1>1. TypeOK'
    BY TypeStep DEF IInv
  <1>2. ASSUME UNCHANGED vars PROVE IInv'
    BY <1>1, <1>2
       DEF vars, storeVars, tableVars, scanVars, IInv, RowsStamped,
           RevisionsReached, SeenReached, PageReached, SeenIsShown, CaughtUp,
           NothingMissed, HasTable, RowRev, TableView, StoreView, LiveIn,
           UnpagedScan
  <1>. QED
    BY <1>1, <1>2, WriteIInv, ScanIInv, BootLoadIInv, ReadRowsIInv,
       ApplyPageIInv, CrashIInv DEF Next

\* The invariant of replication.
THEOREM ReplicationInvariant == Spec => []IInv
  BY InitIInv, StepIInv, PTL DEF Spec

\* A slot built from a row's current version shows that row, in every worker,
\* after any deletion, re-add and pool move.
THEOREM SeenAlwaysShown == Spec => []SeenIsShown
  <1>1. IInv => SeenIsShown
    BY DEF IInv
  <1>. QED
    BY <1>1, ReplicationInvariant, PTL

\* No update is lost as long as a scan is never cut off by its limit, for any
\* interleaving of the writers with the two statements of the scan.
THEOREM SyncNeverSkips ==
    ASSUME UnpagedScan
    PROVE  Spec => []SyncedUpToRevision
  <1>1. IInv => SyncedUpToRevision
    BY DEF IInv, CaughtUp, SeenIsShown, SyncedUpToRevision
  <1>. QED
    BY <1>1, ReplicationInvariant, PTL

-----------------------------------------------------------------------------
(* Refinement.                                                             *)

LEMMA MirrorStep ==
    ASSUME IInv, IInv', [Next]_vars
    PROVE  [Mirror!MirrorNext]_(Mirror!mvars)
  <1> DEFINE version == [t \in Tokens |-> RowRev(rows[t])]
             running == {w \in Workers : HasTable(w)}
  <1>1. /\ \A t \in Tokens : RowRev(rows[t]) \in Nat /\ RowRev(rows[t])' \in Nat
        /\ \A t \in Tokens : RowRev(rows[t]) <= revision
        /\ revision \in Nat
        /\ seen' \in [Workers -> [Tokens -> Nat]]
        /\ seen \in [Workers -> [Tokens -> Nat]]
    BY DEF IInv, RowRev, RowsStamped, TypeOK, StoreTypeOK, Row
  <1>2. ASSUME Write
        PROVE  Mirror!Commit
    <2>1. \A t \in Tokens :
             rows'[t] # rows[t] => RowRev(rows'[t]) > revision
      BY <1>1, <1>2, WriteStamps
         DEF Write, Stamped, RowRev, IInv, TypeOK, StoreTypeOK
    <2>2. \A t \in Tokens, u \in Tokens :
             RowRev(rows[t])' # RowRev(rows[t])
                => RowRev(rows[t])' > RowRev(rows[u])
      BY <1>1, <2>1 DEF RowRev
    <2>3. seen' = seen /\ running' = running
      BY <1>2 DEF Write, tableVars, HasTable
    <2>. QED
      BY <1>1, <2>2, <2>3 DEF Mirror!Commit
  <1>3. ASSUME NEW w \in Workers,
               BootRead(w) \/ ReadRevision(w) \/ ReadRows(w) \/ ScanFails(w)
        PROVE  UNCHANGED Mirror!mvars
    <2>1. seen' = seen /\ rows' = rows
      BY <1>3 DEF BootRead, ReadRevision, ReadRows, ScanFails, storeVars,
                  tableVars
    <2>2. running' = running
      BY <1>3 DEF BootRead, ReadRevision, ReadRows, ScanFails, HasTable, IInv,
                  TypeOK
    <2>. QED
      BY <2>1, <2>2 DEF Mirror!mvars, RowRev
  <1>4. ASSUME NEW w \in Workers, BootLoad(w)
        PROVE  Mirror!Start(w)
    <2>1. w \notin running /\ running' = running \cup {w}
      BY <1>4 DEF BootLoad, HasTable, IInv, TypeOK
    <2>2. seen' = [seen EXCEPT ![w] = version] /\ version' = version
      BY <1>4 DEF BootLoad, storeVars, RowRev
    <2>. QED
      BY <2>1, <2>2 DEF Mirror!Start
  <1>5. ASSUME NEW w \in Workers, ApplyPage(w)
        PROVE  Mirror!CatchUp(w)
    <2>1. w \in running /\ running' = running
      BY <1>5 DEF ApplyPage, HasTable, IInv, TypeOK
    <2>2. version' = version
      BY <1>5 DEF ApplyPage, storeVars, RowRev
    <2>3. \A v \in Workers, t \in Tokens :
             /\ v # w => seen'[v][t] = seen[v][t]
             /\ seen'[w][t] = IF t \in Got(page[w]) THEN page[w][t].rev
                                             ELSE seen[w][t]
      BY <1>1, <1>5 DEF ApplyPage, Got
    <2>4. \A t \in Tokens : /\ seen[w][t] <= seen'[w][t]
                            /\ seen'[w][t] <= RowRev(rows[t])
      <3>1. phase[w] = "rows"
        BY <1>5 DEF ApplyPage
      <3>. QED
        BY <1>1, <2>3, <3>1 DEF IInv, SeenReached, PageReached, Got
    <2>. QED
      BY <1>1, <2>1, <2>2, <2>3, <2>4 DEF Mirror!CatchUp
  <1>6. ASSUME NEW w \in Workers, Crash(w)
        PROVE  Mirror!Stop(w) \/ UNCHANGED Mirror!mvars
    <2>1. /\ running' = running \ {w} /\ version' = version
          /\ seen' = [seen EXCEPT ![w] = [t \in Tokens |-> 0]]
      BY <1>6 DEF Crash, storeVars, HasTable, RowRev, NothingSeen, IInv, TypeOK
    <2>2. CASE HasTable(w)
      BY <2>1, <2>2 DEF Mirror!Stop
    <2>3. CASE ~HasTable(w)
      <3>1. seen[w] = [t \in Tokens |-> 0]
        BY <1>1, <2>3 DEF IInv, SeenReached
      <3>. QED
        BY <1>1, <2>1, <2>3, <3>1 DEF Mirror!mvars
    <2>. QED
      BY <2>2, <2>3
  <1>7. ASSUME UNCHANGED vars
        PROVE  UNCHANGED Mirror!mvars
    BY <1>7 DEF vars, storeVars, tableVars, Mirror!mvars, HasTable, RowRev
  <1>. QED
    BY <1>2, <1>3, <1>4, <1>5, <1>6, <1>7 DEF Next, Mirror!MirrorNext

\* The account plane implements the abstract mirror: whatever writers, scans
\* and crashes do, a worker's copy of an account is a version the repository
\* has reached, and it never falls back while the worker lives.
THEOREM ImplementsMirror == Spec => MirrorsRepository
  <1>1. Init => Mirror!MirrorInit
    BY DEF Init, StoreInit, HasTable, RowRev, NothingSeen, Mirror!MirrorInit
  <1>2. IInv /\ IInv' /\ [Next]_vars => [Mirror!MirrorNext]_(Mirror!mvars)
    BY MirrorStep
  <1>. QED
    BY <1>1, <1>2, ReplicationInvariant, PTL
       DEF Spec, MirrorsRepository, Mirror!MirrorSpec
=============================================================================
