-------------------------- MODULE AccountDirectory --------------------------
(***************************************************************************)
(* One worker's account directory under load: requests reserve an account, *)
(* hold its slot while they call upstream, release it, report how the call *)
(* went and try again on another account                                   *)
(* (app/dataplane/account/__init__.py, selector.py, feedback.py;           *)
(* app/products/_account_selection.py; the retry loop of                   *)
(* app/products/openai/chat.py; the stream of images.py).                  *)
(*                                                                         *)
(* The process is one event loop.  The bodies guarded by the directory's   *)
(* lock contain no await, so the lock is never contended and a reservation *)
(* or the release and feedback at the end of an attempt is one step.  What *)
(* interleaves is everything else: other requests, pages of the sync loop, *)
(* a change of strategy, the passing of time.                              *)
(*                                                                         *)
(* Time is kept as two facts per account: whether its cooldown is running  *)
(* and whether the reset time of a quota window has passed.  Health, tags, *)
(* latency and the scores computed from them only choose among eligible    *)
(* accounts; here any eligible account may be chosen.                      *)
(***************************************************************************)
EXTENDS AccountTable, Sequences

CONSTANTS Requests,       \* the clients' requests, each one run over and over
          Kinds,          \* what they ask for: "chat", "image"
          Strategies,     \* the selection strategies that are configured
          RequestPools,   \* spec.pool_candidates(), in order of preference
          RequestModes,   \* mode_candidates(spec), in order of preference
          MaxInflight,    \* account.selection.max_inflight
          MaxQuota,       \* bound: total of a quota window
          RandomRetries,  \* _RANDOM_MAX_RETRIES
          MaxRetries,     \* retry.max_retries
          SyncRows,       \* the rows that the sync loop brings
          MaxLost,        \* bound: streams dropped before they start
          NoLease         \* the lease of a request that holds none

QuotaModes == {RequestModes[i] : i \in 1 .. Len(RequestModes)}

Lease == [token : Tokens, mode : QuotaModes \cup {"any"}]

FeedbackKinds == {"RATE_LIMITED", "UNAUTHORIZED", "FORBIDDEN", "SERVER_ERROR"}

ASSUME DirectoryAssumption ==
    /\ IsFiniteSet(Requests)
    /\ Kinds \subseteq {"chat", "image"}
    /\ Strategies \subseteq {"quota", "random", "fast"} /\ Strategies # {}
    /\ RequestPools \in Seq(Pools)
    /\ RequestModes \in Seq(Modes)
    /\ MaxInflight \in Nat
    /\ MaxQuota \in Nat
    /\ RandomRetries \in Nat /\ MaxRetries \in Nat
    /\ SyncRows \subseteq Row
    /\ MaxLost \in Nat
    /\ NoLease \notin Lease

VARIABLES strategy,  \* selector._STRATEGY_NAME
          slots,     \* the table: a slot per token it has met
          avail,     \* mode_available: (pool, mode) -> set of slots
          inflight,  \* inflight_by_idx
          cooling,   \* the accounts with cooling_until_s_by_idx > now
          quota,     \* the quota columns of the modes requests use
          due,       \* the (account, mode) whose reset time has passed
          stage,     \* where each request stands
          kind,      \* what it asks for
          left,      \* retries it has left: max_retries - attempt
          excluded,  \* the tokens it has failed on
          lease,     \* the account it holds
          lost       \* history: leases of streams dropped before their start

tableVars == <<slots, avail, inflight, cooling, quota, due>>
requestVars == <<stage, kind, left, excluded, lease>>
vars == <<strategy, tableVars, requestVars, lost>>

Stages == {"idle", "select", "refresh", "handoff", "run"}

TypeOK ==
    /\ strategy \in Strategies
    /\ slots    \in [Tokens -> Slot \cup {NoSlot}]
    /\ avail    \in [Pools \X Modes -> SUBSET Tokens]
    /\ inflight \in [Tokens -> Nat]
    /\ cooling  \in SUBSET Tokens
    /\ quota    \in [Tokens -> [QuotaModes -> 0 .. MaxQuota]]
    /\ due      \in SUBSET (Tokens \X QuotaModes)
    /\ stage    \in [Requests -> Stages]
    /\ kind     \in [Requests -> Kinds \cup {"none"}]
    /\ left     \in [Requests -> Nat]
    /\ excluded \in [Requests -> SUBSET Tokens]
    /\ lease    \in [Requests -> Lease \cup {NoLease}]
    /\ lost     \in [Tokens -> Nat]

Init ==
    /\ strategy \in Strategies
    /\ slots    = NoSlots
    /\ avail    = NoAvail
    /\ inflight = [t \in Tokens |-> 0]
    /\ cooling  = {}
    /\ quota    = [t \in Tokens |-> [m \in QuotaModes |-> 0]]
    /\ due      = {}
    /\ stage    = [r \in Requests |-> "idle"]
    /\ kind     = [r \in Requests |-> "none"]
    /\ left     = [r \in Requests |-> 0]
    /\ excluded = [r \in Requests |-> {}]
    /\ lease    = [r \in Requests |-> NoLease]
    /\ lost     = [t \in Tokens |-> 0]

-----------------------------------------------------------------------------
(* Selection.                                                              *)

\* _pool_union: the slots in any bucket of the pool.
PoolUnion(pool) == UNION {avail[<<pool, m>>] : m \in Modes}

\* Mutants: the cap is compared with <= ; the cooldown is not looked at.
CrowdedOK(t) == t \notin cooling /\ inflight[t] <= MaxInflight
WarmOK(t)    == inflight[t] < MaxInflight

\* The filter that "random" and "fast" share.
Unloaded(t) == t \notin cooling /\ inflight[t] < MaxInflight

\* _maybe_reset_windows acts on this slot: a basic account whose window for
\* the mode, of a positive total, has run out.
Renewable(t, pool, mode) ==
    /\ pool = "basic"
    /\ <<t, mode>> \in due
    /\ MaxQuota > 0

\* _quota_select and _quota_select_any, _fast_select and _fast_select_any,
\* _random_select: the eligible slots of one pool.
QuotaEligible(pool, mode) ==
    IF mode = "any" THEN PoolUnion(pool)
    ELSE {t \in avail[<<pool, mode>>] :
             quota[t][mode] > 0 \/ Renewable(t, pool, mode)}

FastEligible(pool, mode) ==
    {t \in IF mode = "any" THEN PoolUnion(pool) ELSE avail[<<pool, mode>>] :
        Unloaded(t)}

RandomEligible(pool) == {t \in PoolUnion(pool) : Unloaded(t)}

\* Mutant: the tokens already tried are only skipped under "quota".
EligibleAgain(r, pool, mode) ==
    CASE strategy = "fast"   -> FastEligible(pool, mode)
      [] strategy = "random" -> RandomEligible(pool)
      [] strategy = "quota"  -> QuotaEligible(pool, mode) \ excluded[r]

\* select and select_any: the working set for a request.
Eligible(r, pool, mode) ==
    (CASE strategy = "fast"   -> FastEligible(pool, mode)
       [] strategy = "random" -> RandomEligible(pool)
       [] strategy = "quota"  -> QuotaEligible(pool, mode)) \ excluded[r]

\* The order in which pools and modes are tried: for each mode each pool.
Attempts(modes) == (1 .. Len(modes)) \X (1 .. Len(RequestPools))

Before(a, b) ==
    \/ a[1] < b[1]
    \/ a[1] = b[1] /\ a[2] < b[2]

Found(r, modes) ==
    {a \in Attempts(modes) : Eligible(r, RequestPools[a[2]], modes[a[1]]) # {}}

\* The attempts that are made: up to the first that finds an account.
Tried(r, modes) ==
    LET found == Found(r, modes)
    IN  {a \in Attempts(modes) : ~\E b \in found : Before(b, a)}

\* The windows that the selection renews on its way to the attempt that finds
\* an account, or on its way to nothing; only "quota" looks at them.
Renewed(r, modes) ==
    IF strategy # "quota" THEN {}
    ELSE {window \in due :
            \E a \in Tried(r, modes) :
               /\ modes[a[1]] = window[2]
               /\ Renewable(window[1], RequestPools[a[2]], window[2])
               /\ window[1] \in avail[<<"basic", window[2]>>]}

RenewWindows(r, modes) ==
    LET renewed == Renewed(r, modes)
    IN  /\ quota' = [t \in Tokens |-> [m \in QuotaModes |->
                        IF <<t, m>> \in renewed THEN MaxQuota ELSE quota[t][m]]]
        /\ due' = due \ renewed

\* AccountDirectory.reserve over the candidate modes, and reserve_any: the
\* first pool and mode with an eligible account gets one of them.
Reserve(r, modes) ==
    /\ \E a \in Tried(r, modes) :
          \E t \in Eligible(r, RequestPools[a[2]], modes[a[1]]) :
             /\ inflight' = [inflight EXCEPT ![t] = @ + 1]
             /\ lease' = [lease EXCEPT ![r] =
                            [token |-> t, mode |-> modes[a[1]]]]
    /\ RenewWindows(r, modes)
    /\ UNCHANGED <<strategy, slots, avail, cooling, kind, left, excluded, lost>>

\* No pool has an eligible account in any of the modes.
NoAccount(r, modes) ==
    /\ Found(r, modes) = {}
    /\ RenewWindows(r, modes)
    /\ UNCHANGED <<strategy, slots, avail, inflight, cooling, lease, lost>>

\* A request ends; the locals of its handler are gone.
Ends(r) ==
    /\ stage'    = [stage    EXCEPT ![r] = "idle"]
    /\ kind'     = [kind     EXCEPT ![r] = "none"]
    /\ left'     = [left     EXCEPT ![r] = 0]
    /\ excluded' = [excluded EXCEPT ![r] = {}]

-----------------------------------------------------------------------------
(* The end of an attempt.                                                  *)

\* AccountDirectory.release: the counter never goes below zero.
Released(t) ==
    [inflight EXCEPT ![t] = IF @ > 0 THEN @ - 1 ELSE 0]

\* Mutant: only the bucket of the lease's mode is cleared.
HalfExpired(a, slot, t, mode) ==
    [a EXCEPT ![<<slot.pool, mode>>] = @ \ {t}]

\* apply_status_change to EXPIRED: the slot leaves every bucket of its pool.
\* mode is the lease's and plays no part.
Expired(a, slot, t, mode) ==
    [k \in Pools \X Modes |-> IF k[1] = slot.pool THEN a[k] \ {t} ELSE a[k]]

\* decrement_quota: max(0, n - 1).
Spent(n) == IF n > 0 THEN n - 1 ELSE 0

\* AccountDirectory.feedback for the account t and the mode of the lease.
\* The current strategy decides, not the one that made the reservation.
Feedback(t, mode, fk) ==
    /\ quota' =
         IF strategy = "random" \/ mode \notin QuotaModes THEN quota
         ELSE CASE fk = "SUCCESS" -> [quota EXCEPT ![t][mode] = Spent(@)]
                [] fk = "RATE_LIMITED" -> [quota EXCEPT ![t][mode] = 0]
                [] OTHER -> quota
    /\ cooling' = IF strategy = "random" /\ fk = "RATE_LIMITED"
                  THEN cooling \cup {t} ELSE cooling
    /\ IF fk = "UNAUTHORIZED" /\ slots[t].status # "expired"
       THEN /\ slots' = [slots EXCEPT ![t].status = "expired"]
            /\ avail' = Expired(avail, slots[t], t, mode)
       ELSE UNCHANGED <<slots, avail>>

\* The finally block of an attempt: release, then feedback.  The image stream
\* reports nothing but lost credentials and refusals.
EndAttempt(r, fk) ==
    LET t == lease[r].token
    IN  /\ inflight' = Released(t)
        /\ lease' = [lease EXCEPT ![r] = NoLease]
        /\ IF kind[r] = "image" /\ fk \notin {"UNAUTHORIZED", "FORBIDDEN"}
           THEN UNCHANGED <<slots, avail, quota, cooling>>
           ELSE Feedback(t, lease[r].mode, fk)
        /\ UNCHANGED <<strategy, due, lost>>

-----------------------------------------------------------------------------
(* The steps of a request.                                                 *)

\* selection_max_retries, read when the request begins.
SelectionMaxRetries == IF strategy = "random" THEN RandomRetries ELSE MaxRetries

Begin(r) ==
    /\ stage[r] = "idle"
    /\ \E k \in Kinds :
          /\ kind' = [kind EXCEPT ![r] = k]
          /\ left' = [left EXCEPT ![r] =
                        IF k = "chat" THEN SelectionMaxRetries ELSE 0]
    /\ stage' = [stage EXCEPT ![r] = "select"]
    /\ UNCHANGED <<strategy, tableVars, excluded, lease, lost>>

\* reserve_account, its first round: an account, or no account and under
\* "random" an error, under the other strategies an on-demand refresh.
SelectChat(r) ==
    /\ stage[r] = "select"
    /\ kind[r] = "chat"
    /\ \/ /\ Reserve(r, RequestModes)
          /\ stage' = [stage EXCEPT ![r] = "run"]
       \/ /\ NoAccount(r, RequestModes)
          /\ strategy = "random"
          /\ Ends(r)
       \/ /\ NoAccount(r, RequestModes)
          /\ strategy # "random"
          /\ stage' = [stage EXCEPT ![r] = "refresh"]
          /\ UNCHANGED <<kind, left, excluded>>

\* Mutant: the rounds of select and refresh go on until there is an account.
AnotherRound(r) ==
    /\ stage' = [stage EXCEPT ![r] = "select"]
    /\ UNCHANGED <<kind, left, excluded>>

\* reserve_account returns nothing and the handler raises RateLimitError.
GiveUp(r) == Ends(r)

\* reserve_account, after refresh_on_demand: the upstream is blocking, or a
\* second and last round.
RetrySelect(r) ==
    /\ stage[r] = "refresh"
    /\ \/ /\ Ends(r)
          /\ UNCHANGED <<strategy, tableVars, lease, lost>>
       \/ /\ Reserve(r, RequestModes)
          /\ stage' = [stage EXCEPT ![r] = "run"]
       \/ /\ NoAccount(r, RequestModes)
          /\ GiveUp(r)

\* The image handler reserves first and returns the stream to be run later.
SelectImage(r) ==
    /\ stage[r] = "select"
    /\ kind[r] = "image"
    /\ \/ /\ Reserve(r, <<"any">>)
          /\ stage' = [stage EXCEPT ![r] = "handoff"]
       \/ /\ NoAccount(r, <<"any">>)
          /\ Ends(r)

\* The server iterates the stream: its try block is entered.
StartStream(r) ==
    /\ stage[r] = "handoff"
    /\ stage' = [stage EXCEPT ![r] = "run"]
    /\ UNCHANGED <<strategy, tableVars, kind, left, excluded, lease, lost>>

\* The client is gone before the first iteration: a generator that was never
\* started runs no finally block.
DropStream(r) ==
    /\ stage[r] = "handoff"
    /\ lost[lease[r].token] < MaxLost
    /\ lost' = [lost EXCEPT ![lease[r].token] = @ + 1]
    /\ lease' = [lease EXCEPT ![r] = NoLease]
    /\ Ends(r)
    /\ UNCHANGED <<strategy, tableVars>>

Succeed(r) ==
    /\ stage[r] = "run"
    /\ EndAttempt(r, "SUCCESS")
    /\ Ends(r)

\* The upstream call fails.  A chat goes on to another account if the error
\* is one that _should_retry_upstream accepts and a retry is left; anything
\* else, a cancellation by the client among it, ends the request.
Fail(r) ==
    /\ stage[r] = "run"
    /\ \E fk \in FeedbackKinds : EndAttempt(r, fk)
    /\ \/ /\ kind[r] = "chat"
          /\ left[r] > 0
          /\ left' = [left EXCEPT ![r] = @ - 1]
          /\ excluded' = [excluded EXCEPT ![r] = @ \cup {lease[r].token}]
          /\ stage' = [stage EXCEPT ![r] = "select"]
          /\ UNCHANGED kind
       \/ Ends(r)

-----------------------------------------------------------------------------
(* What goes on around the requests.                                       *)

\* Mutant: a slot that is written again starts at zero.
FreshInflight(pg) == [t \in Tokens |-> IF pg[t] # NoRow THEN 0 ELSE inflight[t]]

\* Neither _append_slot nor _update_slot touches the count of an existing
\* slot; a new slot starts at zero, which is where a missing one stands.
SyncedInflight(pg) == inflight

\* The sync loop applies a page.  A live row rewrites the slot's quota and
\* reset columns, a deleted one only its status.
Sync(pg) ==
    LET new  == AppliedSlots(slots, pg)
        live == {t \in Got(pg) : ~pg[t].deleted}
    IN  /\ Got(pg) # {}
        /\ slots' = new
        /\ avail' = Reindexed(avail, slots, new, Got(pg))
        /\ inflight' = SyncedInflight(pg)
        /\ \E q \in 0 .. MaxQuota :
              quota' = [t \in Tokens |->
                          IF t \in live
                          THEN [m \in QuotaModes |->
                                  IF m \in new[t].windows THEN q ELSE 0]
                          ELSE quota[t]]
        /\ due' = due \ (live \X QuotaModes)
        /\ UNCHANGED <<strategy, cooling, requestVars, lost>>

\* reconcile_refresh_runtime after a configuration change.
SetStrategy(s) ==
    /\ strategy # s
    /\ strategy' = s
    /\ UNCHANGED <<tableVars, requestVars, lost>>

\* Time: a cooldown is over, a window's reset time is reached.
CoolingEnds(t) ==
    /\ t \in cooling
    /\ cooling' = cooling \ {t}
    /\ UNCHANGED <<strategy, slots, avail, inflight, quota, due, requestVars, lost>>

WindowElapses(t, m) ==
    /\ slots[t] # NoSlot
    /\ slots[t].pool = "basic" /\ m \in slots[t].windows
    /\ <<t, m>> \notin due
    /\ due' = due \cup {<<t, m>>}
    /\ UNCHANGED <<strategy, slots, avail, inflight, cooling, quota, requestVars, lost>>

Request(r) ==
    \/ Begin(r)
    \/ SelectChat(r)
    \/ RetrySelect(r)
    \/ SelectImage(r)
    \/ StartStream(r)
    \/ DropStream(r)
    \/ Succeed(r)
    \/ Fail(r)

Next ==
    \/ \E r \in Requests : Request(r)
    \/ \E pg \in [Tokens -> SyncRows \cup {NoRow}] : Sync(pg)
    \/ \E s \in Strategies : SetStrategy(s)
    \/ \E t \in Tokens : CoolingEnds(t)
    \/ \E t \in Tokens, m \in QuotaModes : WindowElapses(t, m)

(***************************************************************************)
(* The event loop runs every ready task, and an upstream call ends: by an  *)
(* answer, an error or its timeout.  A returned stream is iterated or      *)
(* dropped.  Nothing obliges a client to send another request.             *)
(***************************************************************************)
Fairness ==
    \A r \in Requests :
        /\ WF_vars(SelectChat(r) \/ RetrySelect(r) \/ SelectImage(r))
        /\ WF_vars(StartStream(r) \/ DropStream(r))
        /\ WF_vars(Succeed(r) \/ Fail(r))

Spec     == Init /\ [][Next]_vars
FairSpec == Spec /\ Fairness

-----------------------------------------------------------------------------
(* Properties.                                                             *)

HoldersOf(t) == {r \in Requests : lease[r] # NoLease /\ lease[r].token = t}

\* The load the selector scores and caps by is the true one: the count of a
\* slot is the number of requests that hold it and of leases lost with a
\* stream that never ran, through retries, pool moves, deletion and re-adding
\* of an account that is in use, and changes of strategy.
InflightConserved ==
    \A t \in Tokens : inflight[t] = Cardinality(HoldersOf(t)) + lost[t]

\* The buckets hold exactly the active slots, although both the sync loop and
\* the 401 of a request change a slot's status and the account may have moved
\* to another pool, or been deleted, since that request reserved it.
IndexExact ==
    \A k \in Pools \X Modes :
        avail[k] = {t \in Tokens : k \in IndexKeys(slots[t])}

\* max_inflight is the limit of requests that one account serves at a time;
\* the selection path skips an account that has reached it.
InflightCapped == \A t \in Tokens : inflight[t] <= MaxInflight

\* A request that switches accounts never comes back to one it failed on.
NeverTheSameAccount ==
    \A r \in Requests :
        lease[r] # NoLease => lease[r].token \notin excluded[r]

\* An account is only ever handed out while its slot is active, in a pool the
\* model allows and, unless "quota" is in force, not cooling down.
GrantsAreServable ==
    [][\A r \in Requests :
          lease[r] = NoLease /\ lease'[r] # NoLease =>
             LET t == lease'[r].token
             IN  /\ slots[t] # NoSlot /\ slots[t].status = "active"
                 /\ \E i \in 1 .. Len(RequestPools) :
                       slots[t].pool = RequestPools[i]
                 /\ strategy # "quota" => t \notin cooling]_vars

\* Whatever fails, however often it retries, a request comes to an end.
RequestsEnd == \A r \in Requests : stage[r] # "idle" ~> stage[r] = "idle"
=============================================================================
