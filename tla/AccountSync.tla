----------------------------- MODULE AccountSync ----------------------------
(***************************************************************************)
(* The in-memory account table of every worker process and the two ways it *)
(* is filled from the repository (app/dataplane/account/sync.py, table.py, *)
(* the sync loop of main.py): a full snapshot when the process starts, and *)
(* from then on a revision-based scan of what changed.                     *)
(*                                                                         *)
(* A scan is not one atomic step.  scan_changes runs in a thread and reads *)
(* the global revision and the rows in two statements; the page it returns *)
(* is applied later, on the event loop, in one step without an await.      *)
(* Writers of any process commit between those steps.                      *)
(***************************************************************************)
EXTENDS AccountStore, AccountTable

CONSTANTS Workers,      \* the worker processes
          BatchLimit,   \* batch_limit: rows returned by one scan
          MaxRestarts   \* bound: process crashes in a behaviour

ASSUME SyncAssumption ==
    /\ BatchLimit \in Nat \ {0}
    /\ MaxRestarts \in Nat

Phases == {"down", "boot", "idle", "scan", "rev", "rows"}

VARIABLES phase,     \* where each worker's bootstrap or sync loop stands
          slots,     \* the table: a slot per token it has met
          avail,     \* mode_available: (pool, mode) -> set of slots
          size,      \* AccountRuntimeTable.size
          tableRev,  \* AccountRuntimeTable.revision
          readRev,   \* the revision the running scan has read
          page,      \* the rows the running scan has read
          hasMore,   \* the has_more flag of that page
          restarts,  \* number of crashes so far
          seen       \* history: revision of the row each slot was built from

tableVars == <<slots, avail, size, tableRev, seen>>
scanVars  == <<readRev, page, hasMore>>
vars == <<storeVars, phase, tableVars, scanVars, restarts>>

NothingSeen == [t \in Tokens |-> 0]

TypeOK ==
    /\ StoreTypeOK
    /\ phase    \in [Workers -> Phases]
    /\ slots    \in [Workers -> [Tokens -> Slot \cup {NoSlot}]]
    /\ avail    \in [Workers -> [Pools \X Modes -> SUBSET Tokens]]
    /\ size     \in [Workers -> Nat]
    /\ tableRev \in [Workers -> Nat]
    /\ readRev  \in [Workers -> Nat]
    /\ page     \in [Workers -> Page]
    /\ hasMore  \in [Workers -> BOOLEAN]
    /\ restarts \in Nat
    /\ seen     \in [Workers -> [Tokens -> Nat]]

Init ==
    /\ StoreInit
    /\ phase    = [w \in Workers |-> "down"]
    /\ slots    = [w \in Workers |-> NoSlots]
    /\ avail    = [w \in Workers |-> NoAvail]
    /\ size     = [w \in Workers |-> 0]
    /\ tableRev = [w \in Workers |-> 0]
    /\ readRev  = [w \in Workers |-> 0]
    /\ page     = [w \in Workers |-> NoPage]
    /\ hasMore  = [w \in Workers |-> FALSE]
    /\ restarts = 0
    /\ seen     = [w \in Workers |-> NothingSeen]

-----------------------------------------------------------------------------
(* The steps of a worker.                                                  *)

\* table.size after a page: max(0, size - deleted) and one more per append.
Resized(n, gone, fresh) == (IF n > gone THEN n - gone ELSE 0) + fresh

\* runtime_snapshot, first statement: the global revision.
BootRead(w) ==
    /\ phase[w] = "down"
    /\ phase' = [phase EXCEPT ![w] = "boot"]
    /\ readRev' = [readRev EXCEPT ![w] = revision]
    /\ UNCHANGED <<storeVars, tableVars, page, hasMore, restarts>>

\* runtime_snapshot, second statement, and the table built from it.
BootLoad(w) ==
    /\ phase[w] = "boot"
    /\ LET new == [t \in Tokens |-> IF t \in LiveIn(rows)
                                    THEN SlotOf(rows[t]) ELSE NoSlot]
       IN  /\ slots' = [slots EXCEPT ![w] = new]
           /\ avail' = [avail EXCEPT ![w] =
                          Reindexed(NoAvail, NoSlots, new, Tokens)]
    /\ size' = [size EXCEPT ![w] = Cardinality(LiveIn(rows))]
    /\ tableRev' = [tableRev EXCEPT ![w] = readRev[w]]
    /\ seen' = [seen EXCEPT ![w] = [t \in Tokens |-> RowRev(rows[t])]]
    /\ phase' = [phase EXCEPT ![w] = "idle"]
    /\ UNCHANGED <<storeVars, scanVars, restarts>>

\* scan_changes, first statement: the global revision.  From "idle" the sync
\* loop (or an admin request) enters apply_changes; from "scan" it goes round
\* again.  _sync_lock keeps a second scan of the same table out.
ReadRevision(w) ==
    /\ phase[w] \in {"idle", "scan"}
    /\ phase' = [phase EXCEPT ![w] = "rev"]
    /\ readRev' = [readRev EXCEPT ![w] = revision]
    /\ UNCHANGED <<storeVars, tableVars, page, hasMore, restarts>>

\* Mutant: the scan selects only rows that are not deleted.
ChangedLive(w) == {t \in LiveIn(rows) : rows[t].rev > tableRev[w]}

\* The rows that a scan since the table's revision selects.
Changed(w) == {t \in Tokens : rows[t] # NoRow /\ rows[t].rev > tableRev[w]}

\* WHERE revision > since ORDER BY revision LIMIT limit: rows of one revision
\* come in any order.
Pages(w) ==
    {ts \in SUBSET Changed(w) :
        /\ Cardinality(ts) <= BatchLimit
        /\ ts = Changed(w) \/ Cardinality(ts) = BatchLimit
        /\ \A t \in ts, u \in Changed(w) \ ts : rows[t].rev <= rows[u].rev}

\* scan_changes, second statement: one page of changed rows.
ReadRows(w) ==
    /\ phase[w] = "rev"
    /\ \E ts \in Pages(w) :
          /\ page' = [page EXCEPT ![w] =
                        [t \in Tokens |-> IF t \in ts THEN rows[t] ELSE NoRow]]
          /\ hasMore' = [hasMore EXCEPT ![w] = (Cardinality(ts) = BatchLimit)]
    /\ phase' = [phase EXCEPT ![w] = "rows"]
    /\ UNCHANGED <<storeVars, tableVars, readRev, restarts>>

\* The scan raises; the sync loop logs it and sleeps.
ScanFails(w) ==
    /\ phase[w] = "rev"
    /\ phase' = [phase EXCEPT ![w] = "idle"]
    /\ UNCHANGED <<storeVars, tableVars, scanVars, restarts>>

\* Mutant: the table takes the revision current when the page is applied.
CurrentRevision(w) == revision

\* The revision the table has reached once the page is applied.
ReachedRevision(w) ==
    IF readRev[w] > tableRev[w] THEN readRev[w] ELSE tableRev[w]

\* The body of the apply_changes loop: deletions first, then the live rows,
\* then the table's revision.
ApplyPage(w) ==
    /\ phase[w] = "rows"
    /\ LET got   == Got(page[w])
           new   == AppliedSlots(slots[w], page[w])
           gone  == {t \in got : page[w][t].deleted /\ slots[w][t] # NoSlot}
           fresh == {t \in got : ~page[w][t].deleted /\ slots[w][t] = NoSlot}
       IN  /\ slots' = [slots EXCEPT ![w] = new]
           /\ avail' = [avail EXCEPT ![w] =
                          Reindexed(avail[w], slots[w], new, got)]
           /\ size' = [size EXCEPT ![w] =
                         Resized(@, Cardinality(gone), Cardinality(fresh))]
           /\ seen' = [seen EXCEPT ![w] =
                         [t \in Tokens |-> IF t \in got THEN page[w][t].rev
                                                        ELSE seen[w][t]]]
    /\ tableRev' = [tableRev EXCEPT ![w] = ReachedRevision(w)]
    /\ page' = [page EXCEPT ![w] = NoPage]
    /\ phase' = [phase EXCEPT ![w] = IF hasMore[w] THEN "scan" ELSE "idle"]
    /\ UNCHANGED <<storeVars, readRev, hasMore, restarts>>

\* The process dies; its table and any scan under way are gone.
Crash(w) ==
    /\ phase[w] # "down"
    /\ restarts < MaxRestarts
    /\ restarts' = restarts + 1
    /\ phase'    = [phase    EXCEPT ![w] = "down"]
    /\ slots'    = [slots    EXCEPT ![w] = NoSlots]
    /\ avail'    = [avail    EXCEPT ![w] = NoAvail]
    /\ size'     = [size     EXCEPT ![w] = 0]
    /\ tableRev' = [tableRev EXCEPT ![w] = 0]
    /\ readRev'  = [readRev  EXCEPT ![w] = 0]
    /\ page'     = [page     EXCEPT ![w] = NoPage]
    /\ hasMore'  = [hasMore  EXCEPT ![w] = FALSE]
    /\ seen'     = [seen     EXCEPT ![w] = NothingSeen]
    /\ UNCHANGED storeVars

Write == StoreNext /\ UNCHANGED <<phase, tableVars, scanVars, restarts>>

Next ==
    \/ Write
    \/ \E w \in Workers :
          \/ BootRead(w)
          \/ BootLoad(w)
          \/ ReadRevision(w)
          \/ ReadRows(w)
          \/ ScanFails(w)
          \/ ApplyPage(w)
          \/ Crash(w)

(***************************************************************************)
(* A process that starts boots, and its sync loop never ends: it sleeps,   *)
(* scans, survives an exception and goes on.  Strong fairness on ReadRows  *)
(* says that scans do not fail for ever.  Nothing forces a write or crash. *)
(***************************************************************************)
Fairness ==
    \A w \in Workers :
        /\ WF_vars(BootRead(w))
        /\ WF_vars(BootLoad(w))
        /\ WF_vars(ReadRevision(w))
        /\ SF_vars(ReadRows(w))
        /\ WF_vars(ApplyPage(w))

Spec     == Init /\ [][Next]_vars
FairSpec == Spec /\ Fairness

-----------------------------------------------------------------------------
(* Refinement: the tables are mirrors of the repository.                   *)

HasTable(w) == phase[w] \notin {"down", "boot"}

Mirror == INSTANCE AccountMirror
            WITH version <- [t \in Tokens |-> RowRev(rows[t])],
                 running <- {w \in Workers : HasTable(w)},
                 copy    <- seen

\* Every step of stores, scans and crashes is a step of AccountMirror or
\* leaves it alone: a worker's copy of an account is never newer than the
\* repository and never falls back to an older version, because scans of one
\* table are serial and a page is applied before the next is read.
MirrorsRepository == Mirror!MirrorSpec

-----------------------------------------------------------------------------
(* Properties.                                                             *)

\* What selection can see of a token in a worker's table, and what it should
\* see according to the repository.  Absent and deleted look the same.
TableView(w, t) ==
    IF slots[w][t] = NoSlot \/ slots[w][t].status = "deleted"
    THEN NoSlot ELSE slots[w][t]

StoreView(t) == IF t \in LiveIn(rows) THEN SlotOf(rows[t]) ELSE NoSlot

\* The availability index lists a slot under a pool and mode exactly when the
\* slot is active, in that pool and has a window for that mode, through every
\* update, pool move, deletion and re-add that a page can bring.
IndexExact ==
    \A w \in Workers, k \in Pools \X Modes :
        avail[w][k] = {t \in Tokens : k \in IndexKeys(slots[w][t])}

\* No update is lost: whatever a row says at a revision the table claims to
\* have reached, the table says too, although the revision and the rows are
\* read apart and writers commit in between.
SyncedUpToRevision ==
    \A w \in Workers, t \in Tokens :
        HasTable(w) /\ RowRev(rows[t]) <= tableRev[w]
            => TableView(w, t) = StoreView(t)

\* What a copy is a copy of: a slot built from the current version of a row
\* shows that row, so the versions of the refinement stand for contents.
SeenIsShown ==
    \A w \in Workers, t \in Tokens :
        HasTable(w) /\ seen[w][t] = RowRev(rows[t])
            => TableView(w, t) = StoreView(t)

\* Once writes stop, every worker's table comes to agree with the repository
\* and stays so (main.py: "Keeps each worker's in-memory table eventually
\* consistent with the repo").  Writes and crashes are bounded here.
Convergence ==
    <>[](\A w \in Workers, t \in Tokens :
            HasTable(w) /\ TableView(w, t) = StoreView(t))
=============================================================================
