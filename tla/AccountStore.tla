---------------------------- MODULE AccountStore ----------------------------
(***************************************************************************)
(* The account repository on its default backend, one SQLite database      *)
(* shared by every worker process (app/control/account/backends/local.py). *)
(*                                                                         *)
(* Each mutating call is one transaction: it bumps the global revision,    *)
(* stamps that revision on every row it writes, and commits.  Deletion is  *)
(* soft: the row stays, flagged and re-stamped, so that a worker scanning  *)
(* by revision learns of it.                                               *)
(*                                                                         *)
(* Of a row the module keeps what the runtime table is built from: the     *)
(* pool, the status, the set of modes whose stored quota window has a      *)
(* positive length, the soft-delete flag and the revision.  Usage counters *)
(* tags and timestamps are abstracted: a write that only touches them is   *)
(* the patch that keeps pool and status and writes no window.              *)
(***************************************************************************)
EXTENDS AccountTypes

CONSTANTS UsedPools,     \* the pools that upserts and patches name
          UsedStatuses,  \* the statuses that patches name
          MaxRevision    \* bound: no write begins at or above this revision

ASSUME StoreAssumption ==
    /\ UsedPools \subseteq Pools
    /\ UsedStatuses \subseteq Statuses
    /\ MaxRevision \in Nat

(***************************************************************************)
(* A patch: pool and status to set ("keep" is None), the modes whose quota *)
(* column it writes with a live window, and those it writes with an empty  *)
(* one.  The kinds are the ones the callers build: counters only, expiry,  *)
(* operator disable, clear_failures; a refresh that stores the windows of  *)
(* the pool it inferred; edit_token, which copies the status and the auto, *)
(* fast and expert windows of another row.                                 *)
(***************************************************************************)
Copied == {"auto", "fast", "expert"}

Patches ==
    {[pool |-> "keep", status |-> s, windows |-> {}, dead |-> {}] :
        s \in UsedStatuses \cup {"keep"}}
    \cup
    {[pool |-> p, status |-> "keep", windows |-> SupportedModes(p), dead |-> {}] :
        p \in UsedPools}
    \cup
    {[pool |-> "keep", status |-> s,
      windows |-> SupportedModes(p) \cap Copied,
      dead    |-> Copied \ SupportedModes(p)] :
        s \in UsedStatuses, p \in UsedPools}

VARIABLES revision,  \* account_meta.revision
          rows       \* the accounts table, by token

storeVars == <<revision, rows>>

StoreTypeOK ==
    /\ revision \in Nat
    /\ rows \in [Tokens -> Row \cup {NoRow}]

StoreInit ==
    /\ revision = 0
    /\ rows = [t \in Tokens |-> NoRow]

RowRev(row) == IF row = NoRow THEN 0 ELSE row.rev

\* The tokens with a row that is not soft-deleted.
LiveIn(r) == {t \in Tokens : r[t] # NoRow /\ ~r[t].deleted}

(***************************************************************************)
(* INSERT ... ON CONFLICT DO UPDATE of one item.  A new row gets the       *)
(* pool's default windows.  A conflicting row is made active and undeleted *)
(* in the item's pool but keeps its old quota columns, console excepted.   *)
(***************************************************************************)
UpsertedRow(old, pool, rev) ==
    [pool    |-> pool,
     status  |-> "active",
     windows |-> IF old = NoRow THEN SupportedModes(pool)
                                ELSE old.windows \cup {"console"},
     deleted |-> FALSE,
     rev     |-> rev]

\* UPDATE ... SET of one patch: the supplied fields and the new revision.
\* The soft-delete flag is neither read nor written.
PatchedRow(old, patch, rev) ==
    [old EXCEPT !.pool    = IF patch.pool = "keep" THEN @ ELSE patch.pool,
                !.status  = IF patch.status = "keep" THEN @ ELSE patch.status,
                !.windows = (@ \ patch.dead) \cup patch.windows,
                !.rev     = rev]

\* Mutant: the row is stamped with the revision read before the bump.
LateStampedRow(old, rev) == [old EXCEPT !.deleted = TRUE, !.rev = rev - 1]

\* UPDATE ... SET deleted_at, revision of one row.
DeletedRow(old, rev) == [old EXCEPT !.deleted = TRUE, !.rev = rev]

\* upsert_accounts(items), for the items (t, pool[t]) with t in ts.
UpsertAccounts(ts, pool) ==
    /\ revision < MaxRevision
    /\ revision' = revision + 1
    /\ rows' = [t \in Tokens |->
                  IF t \in ts THEN UpsertedRow(rows[t], pool[t], revision + 1)
                              ELSE rows[t]]

\* patch_accounts(patches) applying one patch to each of the tokens ts;
\* tokens without a row are skipped, the revision is bumped regardless.
PatchAccounts(ts, patch) ==
    /\ revision < MaxRevision
    /\ revision' = revision + 1
    /\ rows' = [t \in Tokens |->
                  IF t \in ts /\ rows[t] # NoRow
                  THEN PatchedRow(rows[t], patch, revision + 1)
                  ELSE rows[t]]

\* delete_accounts(tokens): only rows not yet deleted are stamped.
DeleteAccounts(ts) ==
    /\ revision < MaxRevision
    /\ revision' = revision + 1
    /\ rows' = [t \in Tokens |->
                  IF t \in ts /\ rows[t] # NoRow /\ ~rows[t].deleted
                  THEN DeletedRow(rows[t], revision + 1)
                  ELSE rows[t]]

\* replace_pool(pool, upserts): one transaction with two revisions, the
\* soft-delete of the whole pool and then the upserts into it.
ReplacePool(pool, ts) ==
    /\ revision < MaxRevision
    /\ revision' = revision + 2
    /\ LET cleared == [t \in Tokens |->
                         IF /\ rows[t] # NoRow
                            /\ ~rows[t].deleted
                            /\ rows[t].pool = pool
                         THEN DeletedRow(rows[t], revision + 1)
                         ELSE rows[t]]
       IN  rows' = [t \in Tokens |->
                      IF t \in ts
                      THEN UpsertedRow(cleared[t], pool, revision + 2)
                      ELSE cleared[t]]

StoreNext ==
    \/ \E ts \in (SUBSET Tokens) \ {{}} :
          \E pool \in [ts -> UsedPools] : UpsertAccounts(ts, pool)
    \/ \E ts \in (SUBSET Tokens) \ {{}}, patch \in Patches :
          PatchAccounts(ts, patch)
    \/ \E ts \in (SUBSET Tokens) \ {{}} : DeleteAccounts(ts)
    \/ \E ts \in SUBSET Tokens, pool \in UsedPools : ReplacePool(pool, ts)
=============================================================================
