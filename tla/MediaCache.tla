----------------------------- MODULE MediaCache -----------------------------
(***************************************************************************)
(* The local media cache (app/platform/storage/media_cache.py): the files  *)
(* of one media type, a SQLite index that orders them by creation, and a   *)
(* limit on their total size.                                              *)
(*                                                                         *)
(* Every operation that touches the index holds the guard of the media     *)
(* type, a thread lock and an advisory file lock, from its first read of   *)
(* the index to its commit.  What it does to the index is one transaction; *)
(* what it does to the directory takes effect file by file.  A process     *)
(* that dies in between loses the transaction and the locks and keeps the  *)
(* files as they are.  With a limit of 0 a save takes no lock and leaves   *)
(* no row.                                                                 *)
(*                                                                         *)
(* A file's bytes are its size; the names and the two time columns are     *)
(* abstracted to the order they induce.  flock is taken to work, and       *)
(* unlink not to fail on a file that exists.                               *)
(***************************************************************************)
EXTENDS Naturals, FiniteSets

CONSTANTS Names,   \* file names
          Bytes,   \* [Names -> Nat], the size of each file
          Ops,     \* the operations that may hold the guard
          NoOp     \* the guard is free

ASSUME CacheAssumption ==
    /\ IsFiniteSet(Names)
    /\ Bytes \in [Names -> Nat \ {0}]
    /\ NoOp \notin Ops

VARIABLES disk,     \* mtime of each file, 0 when there is none
          rows,     \* created_at of each committed row, 0 when there is none
          clock,    \* the last time stamp given out
          guard,    \* the operation inside _guard
          tx,       \* the rows as its transaction has them
          victims   \* the files it has still to unlink

cacheVars == <<disk, rows, clock, guard, tx, victims>>

NoRows        == [n \in Names |-> 0]
Files(stamps) == {n \in Names : stamps[n] > 0}
BytesOf(S)    == UNION {{n} \X (1 .. Bytes[n]) : n \in S}
Usage(S)      == Cardinality(BytesOf(S))

CacheTypeOK ==
    /\ disk \in [Names -> 0..clock] /\ rows \in [Names -> 0..clock]
    /\ tx \in [Names -> 0..clock]
    /\ clock \in Nat /\ guard \in Ops \cup {NoOp}
    /\ victims \subseteq Names

(***************************************************************************)
(* The rows the limit removes: nothing while the total is within it;       *)
(* otherwise the oldest first, sparing the newest row and the file being   *)
(* saved, until the total is down to the low watermark.                    *)
(***************************************************************************)
LowWatermark(limit) == (limit * 6) \div 10

Newest(stamps) ==
    {n \in Files(stamps) : \A m \in Files(stamps) : stamps[m] <= stamps[n]}

\* Mutant: only the newest row is spared.
ExcessUnprotected(stamps, saved, limit) ==
    LET movable  == Files(stamps) \ Newest(stamps)
        older(n) == {m \in movable : stamps[m] < stamps[n]}
    IN  IF limit = 0 \/ Usage(Files(stamps)) <= limit THEN {}
        ELSE {n \in movable :
                Usage(Files(stamps)) - Usage(older(n)) > LowWatermark(limit)}

Excess(stamps, saved, limit) ==
    LET spared   == saved \cup Newest(stamps)
        movable  == Files(stamps) \ spared
        older(n) == {m \in movable : stamps[m] < stamps[n]}
    IN  IF limit = 0 \/ Usage(Files(stamps)) <= limit THEN {}
        ELSE {n \in movable :
                Usage(Files(stamps)) - Usage(older(n)) > LowWatermark(limit)}

Without(stamps, S) == [n \in Names |-> IF n \in S THEN 0 ELSE stamps[n]]

\* An operation enters the guard with the rows it is going to commit and
\* the files it is going to unlink.
Enter(op, newRows, doomed) ==
    /\ guard = NoOp
    /\ guard' = op
    /\ tx' = Without(newRows, doomed)
    /\ victims' = doomed \cap Files(disk')
    /\ UNCHANGED rows

\* The row of a file already there keeps its created_at; without a row it
\* is given the file's mtime.
ExistingRow(n) == [rows EXCEPT ![n] = IF @ = 0 THEN disk[n] ELSE @]

SaveExisting(op, n, limit) ==
    /\ disk[n] > 0
    /\ UNCHANGED <<disk, clock>>
    /\ Enter(op, ExistingRow(n), Excess(ExistingRow(n), {n}, limit))

\* Mutant: a new file is entered without enforcing the limit.
SaveNewUnchecked(op, n, limit) ==
    /\ disk[n] = 0
    /\ clock' = clock + 1
    /\ disk' = [disk EXCEPT ![n] = clock + 1]
    /\ Enter(op, [rows EXCEPT ![n] = clock + 1], {})

SaveNew(op, n, limit) ==
    /\ disk[n] = 0
    /\ clock' = clock + 1
    /\ disk' = [disk EXCEPT ![n] = clock + 1]
    /\ LET added == [rows EXCEPT ![n] = clock + 1]
       IN  Enter(op, added, Excess(added, {n}, limit))

\* Mutant: rows of files that are gone survive a reconcile.
ReconcileAdding(op, limit) ==
    LET merged == [n \in Names |-> IF disk[n] > 0 THEN disk[n] ELSE rows[n]]
    IN  /\ UNCHANGED <<disk, clock>>
        /\ Enter(op, merged, Excess(merged, {}, limit))

\* reconcile: the rows are what the directory holds, by mtime.
Reconcile(op, limit) ==
    /\ UNCHANGED <<disk, clock>>
    /\ Enter(op, disk, Excess(disk, {}, limit))

\* delete(name) unlinks, then removes the row; clear does so for all.
Delete(op, n) ==
    /\ UNCHANGED <<disk, clock>>
    /\ Enter(op, rows, {n})

Clear(op) ==
    /\ UNCHANGED <<disk, clock>>
    /\ Enter(op, rows, Names)

Unlink(op) ==
    /\ guard = op
    /\ \E n \in victims :
          /\ \A m \in victims : disk[n] <= disk[m]
          /\ disk' = [disk EXCEPT ![n] = 0]
          /\ victims' = victims \ {n}
    /\ UNCHANGED <<rows, clock, guard, tx>>

Commit(op) ==
    /\ guard = op
    /\ victims = {}
    /\ rows' = tx
    /\ guard' = NoOp
    /\ tx' = NoRows
    /\ UNCHANGED <<disk, clock, victims>>

\* With no limit a save only writes the file, under no lock.
SaveUnlimited(n) ==
    /\ disk' = [disk EXCEPT ![n] = IF @ > 0 THEN @ ELSE clock + 1]
    /\ clock' = IF disk[n] > 0 THEN clock ELSE clock + 1
    /\ UNCHANGED <<rows, guard, tx, victims>>

\* Mutant: the lock is a lock file that outlives its process.
DroppedHeld(ops) ==
    /\ victims' = IF guard \in ops THEN {} ELSE victims
    /\ tx' = IF guard \in ops THEN NoRows ELSE tx
    /\ UNCHANGED <<disk, rows, clock, guard>>

\* The process that holds the guard dies.
Dropped(ops) ==
    /\ guard' = IF guard \in ops THEN NoOp ELSE guard
    /\ victims' = IF guard \in ops THEN {} ELSE victims
    /\ tx' = IF guard \in ops THEN NoRows ELSE tx
    /\ UNCHANGED <<disk, rows, clock>>
=============================================================================
