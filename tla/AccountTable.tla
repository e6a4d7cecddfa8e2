---------------------------- MODULE AccountTable ----------------------------
(***************************************************************************)
(* The in-memory account table of one worker process                       *)
(* (app/dataplane/account/table.py) and how a row of the repository is     *)
(* turned into a slot of it (sync.py).                                     *)
(*                                                                         *)
(* A slot index is given to a token once and never reused while the table  *)
(* lives, so slots are named by their tokens.  A slot keeps its pool, its  *)
(* status and the modes whose window column is positive: what the          *)
(* availability index is computed from.                                    *)
(***************************************************************************)
EXTENDS AccountTypes

CONSTANT NoSlot  \* the value of a token that has no slot

SlotStatuses == Statuses \cup {"deleted"}

Slot == [pool : Pools, status : SlotStatuses, windows : SUBSET Modes]

ASSUME TableAssumption == NoSlot \notin Slot

NoSlots == [t \in Tokens |-> NoSlot]
NoAvail == [k \in Pools \X Modes |-> {}]

\* _record_to_slot_args after normalize_quota_set: stored windows count only
\* for modes the pool supports; a basic account always has the fast window
\* and a missing console window falls back to the default one.
SlotWindows(row) ==
    (row.windows \cap SupportedModes(row.pool))
        \cup {"console"}
        \cup (IF row.pool = "basic" THEN {"fast"} ELSE {})

SlotOf(row) == [pool    |-> row.pool,
                status  |-> row.status,
                windows |-> SlotWindows(row)]

\* Mutant: a deleted row is skipped.
UnmarkedSlot(old, row) == IF row.deleted THEN old ELSE SlotOf(row)

\* The slot of a token after its row has been applied: a deleted row marks
\* an existing slot and leaves its columns alone, and makes no new slot.
AppliedSlot(old, row) ==
    IF ~row.deleted THEN SlotOf(row)
    ELSE IF old = NoSlot THEN NoSlot
    ELSE [pool |-> old.pool, status |-> "deleted", windows |-> old.windows]

\* A page of rows: what a scan returned, NoRow for the tokens it did not.
Page    == [Tokens -> Row \cup {NoRow}]
NoPage  == [t \in Tokens |-> NoRow]
Got(pg) == {t \in Tokens : pg[t] # NoRow}

\* All slots after a page has been applied.
AppliedSlots(old, pg) ==
    [t \in Tokens |-> IF pg[t] = NoRow THEN old[t]
                                       ELSE AppliedSlot(old[t], pg[t])]

\* The keys that _add_to_indexes(idx) files a slot under.
IndexKeys(slot) ==
    IF slot = NoSlot \/ slot.status # "active" THEN {}
    ELSE {slot.pool} \X slot.windows

\* Mutant: the pool column is written before the slot leaves its buckets.
LateUnindexed(a, old, new, ts) ==
    [k \in Pools \X Modes |->
        {t \in Tokens :
            \/ t \in ts /\ k \in IndexKeys(new[t])
            \/ /\ t \in a[k]
               /\ t \in ts /\ old[t] # NoSlot => new[t].pool # k[1]}]

\* mode_available after the slots of ts went from old to new: each is taken
\* out of the buckets of its old pool (_remove_from_indexes, which runs before
\* the pool column is written) and filed under its new keys.
Reindexed(a, old, new, ts) ==
    [k \in Pools \X Modes |->
        {t \in Tokens :
            \/ t \in ts /\ k \in IndexKeys(new[t])
            \/ /\ t \in a[k]
               /\ t \in ts /\ old[t] # NoSlot => old[t].pool # k[1]}]
=============================================================================
