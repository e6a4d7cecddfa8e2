---------------------------- MODULE AdminService ----------------------------
(***************************************************************************)
(* The administrator's account endpoints                                   *)
(* (app/products/web/admin/tokens.py) and a batch over the same accounts   *)
(* (app/products/web/admin/batch.py), on the repository of AccountStore.   *)
(*                                                                         *)
(* Each endpoint is a sequence of repository calls; between two of them    *)
(* another request, or an item of the batch, may write.  A worker that     *)
(* crashes forgets its requests and leaves the rows as they are.           *)
(*                                                                         *)
(* Tags, counters and timestamps are abstracted as in AccountStore.  The   *)
(* quota probe that follows an import is AccountRefresh's refresh_on_import *)
(* and is left out.                                                        *)
(***************************************************************************)
EXTENDS AccountStore, BatchTask

CONSTANTS Requests,    \* endpoint calls
          Endpoints,   \* [Requests -> SUBSET of the endpoints], what each may call
          FirstRows,   \* what the repository may hold at first
          NoRequest

ASSUME AdminAssumption ==
    /\ FirstRows \subseteq [Tokens -> Row \cup {NoRow}]
    /\ Endpoints \in [Requests -> SUBSET {"save", "toggle", "delete", "replace", "edit"}]
    /\ Items \subseteq Tokens
    /\ NoRequest \notin {"over", "save", "toggle", "edit"}

VARIABLES
    request   \* what each call is about and the call it makes next

vars == <<storeVars, batchVars, request>>

Idle == [kind |-> NoRequest]
Over == [kind |-> "over"]

Edit == [kind : {"edit"}, old : Tokens, new : Tokens, pool : UsedPools, record : Row,
         struck : BOOLEAN, step : {"check", "upsert", "patch", "delete"}]

Call ==
    {Idle, Over} \cup Edit
    \cup [kind : {"save"}, tokens : SUBSET Tokens, pool : UsedPools]
    \cup [kind : {"toggle"}, tokens : SUBSET Tokens, status : Statuses]

TypeOK ==
    /\ StoreTypeOK /\ BatchTypeOK
    /\ request \in [Requests -> Call]

Init ==
    /\ revision = 1 /\ rows \in FirstRows
    /\ BatchInit
    /\ request = [r \in Requests |-> Idle]

Becomes(r, what) == request' = [request EXCEPT ![r] = what]

Calls(r, endpoint) == request[r] = Idle /\ endpoint \in Endpoints[r]

Live(t) == rows[t] # NoRow /\ ~rows[t].deleted

-----------------------------------------------------------------------------
(***************************************************************************)
(* save_tokens and add_tokens: the rows that are live when they are read   *)
(* are left out of the upsert that follows.                                *)
(***************************************************************************)
SaveReads(r) ==
    /\ Calls(r, "save")
    /\ \E ts \in (SUBSET Tokens) \ {{}}, pool \in UsedPools :
          LET missing == {t \in ts : ~Live(t)}
          IN  Becomes(r, IF missing = {} THEN Over
                         ELSE [kind |-> "save", tokens |-> missing, pool |-> pool])
    /\ UNCHANGED <<storeVars, batchVars>>

SaveUpserts(r) ==
    /\ request[r].kind = "save"
    /\ UpsertAccounts(request[r].tokens, [t \in Tokens |-> request[r].pool])
    /\ Becomes(r, Over)
    /\ UNCHANGED batchVars

(***************************************************************************)
(* toggle_token_disabled and its batch: the tokens found are patched.      *)
(***************************************************************************)
ToggleReads(r) ==
    /\ Calls(r, "toggle")
    /\ \E ts \in (SUBSET Tokens) \ {{}}, status \in {"active", "disabled"} :
          LET found == {t \in ts : rows[t] # NoRow}
          IN  Becomes(r, IF found = {} THEN Over
                         ELSE [kind |-> "toggle", tokens |-> found, status |-> status])
    /\ UNCHANGED <<storeVars, batchVars>>

Keep == [pool |-> "keep", status |-> "keep", windows |-> {}, dead |-> {}]

TogglePatches(r) ==
    /\ request[r].kind = "toggle"
    /\ PatchAccounts(request[r].tokens, [Keep EXCEPT !.status = request[r].status])
    /\ Becomes(r, Over)
    /\ UNCHANGED batchVars

\* The request r goes on as next, and the edits under way whose new token is
\* among ts know that another request removed it.
Struck(ts, r, next) ==
    [q \in Requests |->
       IF q = r THEN next
       ELSE IF request[q].kind = "edit" /\ request[q].new \in ts
            THEN [request[q] EXCEPT !.struck = TRUE]
            ELSE request[q]]

\* delete_tokens.
DeleteTokens(r) ==
    /\ Calls(r, "delete")
    /\ \E ts \in (SUBSET Tokens) \ {{}} :
          /\ DeleteAccounts(ts)
          /\ request' = Struck(ts, r, Over)
    /\ UNCHANGED batchVars

\* replace_pool.
ReplacesPool(r) ==
    /\ Calls(r, "replace")
    /\ \E ts \in SUBSET Tokens, pool \in UsedPools :
          /\ ReplacePool(pool, ts)
          /\ request' = Struck({t \in Tokens \ ts : Live(t) /\ rows[t].pool = pool}, r,
                               Over)
    /\ UNCHANGED batchVars

(***************************************************************************)
(* edit_token: read the old row, look for the new token, upsert the new    *)
(* row, copy the old row's state into it, delete the old row.              *)
(***************************************************************************)
EditReads(r) ==
    /\ Calls(r, "edit")
    /\ \E old, new \in Tokens, pool \in UsedPools :
          Becomes(r, IF rows[old] = NoRow THEN Over
                     ELSE [kind |-> "edit", old |-> old, new |-> new, pool |-> pool,
                           record |-> rows[old], struck |-> FALSE,
                           step |-> IF old = new THEN "upsert" ELSE "check"])
    /\ UNCHANGED <<storeVars, batchVars>>

\* Mutant: the old row goes first.
DeletingFirst ==
    [check |-> "delete", delete |-> "upsert", upsert |-> "patch", patch |-> "over"]

EditOrder ==
    [check |-> "upsert", upsert |-> "patch", patch |-> "delete", delete |-> "over"]

Then(r) ==
    LET next == EditOrder[request[r].step]
    IN  IF next = "over" \/ request[r].old = request[r].new THEN Over
        ELSE [request[r] EXCEPT !.step = next]

AtStep(r, step) == request[r].kind = "edit" /\ request[r].step = step

EditChecks(r) ==
    /\ AtStep(r, "check")
    /\ Becomes(r, IF rows[request[r].new] = NoRow THEN Then(r) ELSE Over)
    /\ UNCHANGED <<storeVars, batchVars>>

EditUpserts(r) ==
    /\ AtStep(r, "upsert")
    /\ UpsertAccounts({request[r].new}, [t \in Tokens |-> request[r].pool])
    /\ Becomes(r, Then(r))
    /\ UNCHANGED batchVars

EditPatches(r) ==
    /\ AtStep(r, "patch")
    /\ LET record == request[r].record
       IN  PatchAccounts({request[r].new},
                         [Keep EXCEPT !.status  = record.status,
                                      !.windows = record.windows \cap Copied,
                                      !.dead    = Copied \ record.windows])
    /\ Becomes(r, Then(r))
    /\ UNCHANGED batchVars

EditDeletes(r) ==
    /\ AtStep(r, "delete")
    /\ DeleteAccounts({request[r].old})
    /\ request' = Struck({request[r].old}, r, Then(r))
    /\ UNCHANGED batchVars

-----------------------------------------------------------------------------
(***************************************************************************)
(* The handler of an item awaits its upstream calls and writes the row:    *)
(* _nsfw_one the tags; _refresh_one the quota windows of the pool it read  *)
(* and the pool it infers from them; _revive_one these and then "active";  *)
(* _cache_clear_one, _refresh_one and _revive_one "expired" when the       *)
(* upstream refuses the credentials.  No handler touches the soft-delete   *)
(* flag.  A handler writes at most twice; here it may write as often as    *)
(* MaxRevision allows.                                                     *)
(***************************************************************************)
Fetched ==
    {ms \in SUBSET (Modes \ {"console"}) :
        ms # {} /\ \E p \in UsedPools : ms \subseteq SupportedModes(p)}

StatusPatch(s) == [Keep EXCEPT !.status = s]
RefreshPatch(p, ms) == [Keep EXCEPT !.pool = p, !.windows = ms]

HandlerPatches ==
    {StatusPatch(s) : s \in {"keep", "active", "expired"}}
    \cup {RefreshPatch(p, ms) : p \in UsedPools, ms \in Fetched}

HandlerWrites(i) ==
    /\ item[i] = "running"
    /\ \E patch \in HandlerPatches : PatchAccounts({i}, patch)
    /\ UNCHANGED <<batchVars, request>>

\* The handler returns or fails, and the item is recorded.
HandlerEnds(i) ==
    /\ ItemEnds(i)
    /\ UNCHANGED <<storeVars, request>>

BatchSteps ==
    /\ \/ \E i \in Items : ItemEnters(i) \/ ItemAcquires(i)
       \/ BatchEnds \/ Expires \/ Cancel \/ Following
    /\ UNCHANGED <<storeVars, request>>

\* The worker that serves the call crashes; the batch runs in another.
Crash(r) ==
    /\ request[r] \notin {Idle, Over}
    /\ Becomes(r, Over)
    /\ UNCHANGED <<storeVars, batchVars>>

Next ==
    \/ \E r \in Requests :
          \/ SaveReads(r) \/ SaveUpserts(r) \/ ToggleReads(r) \/ TogglePatches(r)
          \/ DeleteTokens(r) \/ ReplacesPool(r)
          \/ EditReads(r) \/ EditChecks(r) \/ EditUpserts(r) \/ EditPatches(r)
          \/ EditDeletes(r) \/ Crash(r)
    \/ \E i \in Items : HandlerWrites(i) \/ HandlerEnds(i)
    \/ BatchSteps

Spec == Init /\ [][Next]_vars

Work ==
    \/ \E i \in Items : ItemEnters(i) \/ ItemAcquires(i)
    \/ BatchEnds

\* Every handler ends, its upstream calls being bounded in time; a stream is
\* scheduled as long as its client reads.
FairSpec ==
    /\ Spec
    /\ WF_vars(Work /\ UNCHANGED <<storeVars, request>>)
    /\ \A i \in Items : WF_vars(HandlerEnds(i))
    /\ \A s \in Streams :
          WF_vars(/\ AfterSnapshot(s) \/ Receive(s) \/ Ping(s) \/ AfterPing(s)
                  /\ UNCHANGED <<storeVars, request>>)

-----------------------------------------------------------------------------
(***************************************************************************)
(* An edit never loses the account: when it removes the old token the new  *)
(* one is there, unless another request has removed that one meanwhile;    *)
(* and a crash between its calls leaves at least one of the two            *)
(* (the order of the calls in edit_token).                                 *)
(***************************************************************************)
OwnStep(r) == request'[r] \notin {request[r], [request[r] EXCEPT !.struck = TRUE]}

Replacing(r, old, new) ==
    /\ request[r].kind = "edit" /\ ~request[r].struck
    /\ request[r].old = old /\ request[r].new = new

EditKeepsAccount ==
    [][\A r \in Requests, old, new \in Tokens :
         Replacing(r, old, new) /\ OwnStep(r) /\ Live(old)
            => Live(old)' \/ Live(new)']_vars
=============================================================================
