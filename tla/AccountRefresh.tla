--------------------------- MODULE AccountRefresh ---------------------------
(***************************************************************************)
(* AccountRefreshService of one worker (app/control/account/refresh.py):   *)
(* the operations that read account rows, ask the usage API about them and *)
(* write back what they computed from the rows they had read, and the lock *)
(* and the times that throttle the ones a failing request triggers.        *)
(*                                                                         *)
(* A caller is a coroutine inside one operation of the service.  It can be *)
(* overtaken at every await: the repository's read, the wait for _od_lock, *)
(* the answers of the usage API.  Between an answer and the patch that     *)
(* stores it nothing is read, so a probe ends in one step.                 *)
(*                                                                         *)
(* Of a quota window the model keeps what is left, where the number comes  *)
(* from and whether it has a reset time that has passed.  No code path     *)
(* stores the status "cooling", so an account is manageable exactly while  *)
(* active.  Counters, timestamps and the ext dictionary of a row are left  *)
(* out, and so is what an operation returns to its caller.  An account     *)
(* that was never added is like a deleted one.                             *)
(***************************************************************************)
EXTENDS AccountTypes

CONSTANTS Callers,     \* the coroutines that run operations
          Nobody,      \* the holder of a lock that is free
          QuotaModes,  \* the modes considered
          UsedPools,   \* the pools of the accounts
          UsedLists,   \* the operations on lists considered
          MaxQuota,    \* the total of a window
          SampleSize,  \* account.refresh.on_demand_429_sample_size
          MinInterval, \* account.refresh.on_demand_min_interval_sec
          MaxTime,     \* bound: the clock stops here
          MaxOps,      \* bound: operations that begin
          MaxFaults,   \* bound: repository calls that fail
          MaxEdits     \* bound: writes of others, windows that elapse

\* "none" is the source of a window that an account does not have.
Sources == {"none", "default", "real", "estimated"}
Resets  == {"none", "ahead", "past"}
Window  == [rem : 0..MaxQuota, src : Sources, reset : Resets]
Account == [pool : Pools, status : Statuses, deleted : BOOLEAN,
            win : [QuotaModes -> Window]]

\* The operations: after a call (refresh_call_async), after a 429 of one
\* account (refresh_token_only), for a request that found no account
\* (refresh_on_demand), and those that go through a list of accounts.  An
\* import differs from a scheduled refresh in the list only.
ListOps == {"scheduled", "manual", "revive"}
Ops     == {"none", "call", "token", "demand"} \cup ListOps
Stages  == {"idle", "read", "lock", "list", "probe", "orphan"}

ASSUME RefreshAssumption ==
    /\ Nobody \notin Callers
    /\ NoRow \notin Account
    /\ QuotaModes \subseteq Modes
    /\ UsedPools \subseteq Pools
    /\ UsedLists \subseteq ListOps
    /\ {MaxQuota, SampleSize, MinInterval, MaxTime, MaxOps, MaxFaults, MaxEdits}
         \subseteq Nat

\* todo: the accounts to probe; clear: those whose failures a revival is
\* about to clear; rec: the rows as they were read.
Job == [op : Ops, stage : Stages, mode : QuotaModes \cup {"none"},
        todo : SUBSET Tokens, clear : SUBSET Tokens,
        rec : [Tokens -> Account \cup {NoRow}]]

Idle == [op |-> "none", stage |-> "idle", mode |-> "none", todo |-> {},
         clear |-> {}, rec |-> [t \in Tokens |-> NoRow]]

VARIABLES rows,      \* the accounts table, deleted rows included
          job,       \* what each caller is doing
          holder,    \* who holds _od_lock
          now,       \* time.monotonic()
          lastBulk,  \* _od_last
          lastToken, \* _od_last_token
          ops, faults, edits,
          bulkProbed, \* history: when refresh_on_demand last began to probe,
                      \* a run that was cut short excepted
          probed      \* history: the same of refresh_token_only, by account

throttleVars == <<lastBulk, lastToken, bulkProbed, probed>>
countVars    == <<ops, faults, edits>>
vars == <<rows, job, holder, now, throttleVars, countVars>>

TypeOK ==
    /\ rows \in [Tokens -> Account]
    /\ job \in [Callers -> Job]
    /\ holder \in Callers \cup {Nobody}
    /\ now \in Nat /\ lastBulk \in Nat
    /\ lastToken \in [Tokens -> Nat]
    /\ ops \in Nat /\ faults \in Nat /\ edits \in Nat
    /\ bulkProbed \subseteq Nat
    /\ probed \in [Tokens -> SUBSET Nat]

-----------------------------------------------------------------------------
(* Rows and windows.                                                       *)

\* The window of default_quota_set: none of the modes heavy and grok_4_3 if
\* the pool does not have them, an empty one of the others.
DefaultWindow(pool, m) ==
    [rem   |-> IF m \in SupportedModes(pool) THEN MaxQuota ELSE 0,
     src   |-> IF m \in SupportedModes(pool) \cup {"auto", "expert"}
               THEN "default" ELSE "none",
     reset |-> "none"]

\* A default window that replaces one whose reset time has passed.
Reset(pool, m) == [DefaultWindow(pool, m) EXCEPT !.reset = "ahead"]

\* A row that is added anew.
NewRow(pool) ==
    [pool |-> pool, status |-> "active", deleted |-> FALSE,
     win |-> [m \in QuotaModes |-> DefaultWindow(pool, m)]]

Manageable(row) == ~row.deleted /\ row.status = "active"
Expired(row)    == ~row.deleted /\ row.status = "expired"

\* A window that the usage API has answered.
Live(rem) == [rem |-> rem, src |-> "real", reset |-> "ahead"]

\* One unit less, as an estimate.
Charged(w) == [w EXCEPT !.rem = IF @ > 0 THEN @ - 1 ELSE 0, !.src = "estimated"]

\* The window a failed scheduled or import probe leaves, from the one read.
FallbackWindow(pool, m, read, current) ==
    IF read.src = "real" THEN Charged(read)
    ELSE IF read.reset = "past" /\ m \in SupportedModes(pool) THEN Reset(pool, m)
    ELSE current

\* infer_pool, of the modes that answered and the tier that auto.total shows.
Inferred(live, tier) == IF "auto" \in live THEN tier ELSE "basic"

(***************************************************************************)
(* The row after a probe: live windows for the modes that answered, the    *)
(* fallback for the others where the operation wants it, and the pool if   *)
(* the live windows tell another one than the row that was read.           *)
(***************************************************************************)
ProbedRow(row, read, fallback, live, rem, tier) ==
    [row EXCEPT
       !.win = [m \in QuotaModes |->
                  IF m \in live THEN Live(rem[m])
                  ELSE IF fallback
                       THEN FallbackWindow(read.pool, m, read.win[m], row.win[m])
                       ELSE row.win[m]],
       !.pool = IF live # {} /\ Inferred(live, tier) # read.pool
                THEN Inferred(live, tier) ELSE @]

\* What a call without a live window leaves of the window of its mode: its
\* first use starts the clock, unless the pool gives the window no length.
UsedWindow(pool, m, read, current) ==
    IF read.src = "none" THEN current
    ELSE IF read.reset # "past"
         THEN [Charged(read) EXCEPT
                 !.reset = IF m \in SupportedModes(pool) THEN "ahead" ELSE @]
    ELSE IF m \in SupportedModes(pool)
         THEN [Charged(Reset(pool, m)) EXCEPT !.src = "default"]
    ELSE current

\* The modes the usage API is asked about.
Asked(pool) == (SupportedModes(pool) \cap QuotaModes) \ {"console"}

\* mark_account_invalid_credentials and clear_failures.
Rejected(row) == [row EXCEPT !.status = "expired"]
Cleared(row)  == [row EXCEPT !.status = "active"]

-----------------------------------------------------------------------------
(* The start of an operation, up to its first await.                       *)

\* A call from last + MinInterval on is not throttled.
Throttled(last) == now < last + MinInterval

Begin(c, o, m, S) ==
    /\ job[c] = Idle
    /\ ops < MaxOps
    /\ ops' = ops + 1
    /\ job' = [job EXCEPT ![c] = [Idle EXCEPT !.op = o, !.mode = m, !.todo = S,
                 !.stage = IF o = "demand" THEN "lock" ELSE "read"]]
    /\ UNCHANGED <<rows, holder, now, throttleVars, faults, edits>>

\* refresh_call_async(token, mode_id).
StartCall(c, t, m) == Begin(c, "call", m, {t})

\* refresh_token_only(token); a throttled one returns at once.
StartToken(c, t) == ~Throttled(lastToken[t]) /\ Begin(c, "token", "none", {t})

\* refresh_on_demand; it returns at once while another holds the lock.
StartDemand(c) ==
    ~Throttled(lastBulk) /\ holder = Nobody /\ Begin(c, "demand", "none", {})

\* refresh_on_import, refresh_scheduled, refresh_tokens, revive_expired_tokens.
\* A scheduled refresh skips what was used or synced lately: S is any set.
StartList(c, o, S) == S # {} /\ Begin(c, o, "none", S)

-----------------------------------------------------------------------------
(* Reading the rows and taking the lock.                                   *)

\* The accounts an operation goes on with, of those it has read.
Kept(o, S) ==
    CASE o = "call"   -> {t \in S : ~rows[t].deleted}
      [] o = "revive" -> {t \in S : Expired(rows[t])}
      [] OTHER        -> {t \in S : Manageable(rows[t])}

\* The rows of S as an operation keeps them over its awaits.
Captured(S) == [t \in Tokens |-> IF t \in S THEN rows[t] ELSE NoRow]

\* get_accounts or runtime_snapshot comes back.
Read(c) ==
    LET j == job[c]
        S == Kept(j.op, j.todo)
    IN  /\ j.stage = "read"
        /\ job' = [job EXCEPT ![c] =
             IF S = {} THEN Idle
             ELSE [j EXCEPT !.stage = IF j.op = "token" THEN "lock" ELSE "probe",
                            !.todo = S, !.rec = Captured(S)]]
        /\ UNCHANGED <<rows, holder, now, throttleVars, countVars>>

\* Mutant: the throttle is not looked at again under the lock.
NotAgain(last) == FALSE

\* The second look, under the lock.
StillThrottled(last) == Throttled(last)

\* Mutant: the lock is per operation, not per service.
OwnLock(c) == \A d \in Callers \ {c} : holder = d => job[d].op # job[c].op

\* _od_lock can be granted to c.
LockFree(c) == holder = Nobody

\* _od_lock is granted.  A coroutine that finds it free takes it in this step.
TakeLock(c) ==
    LET j == job[c]
        throttled == IF j.op = "demand" THEN StillThrottled(lastBulk)
                     ELSE \E t \in j.todo : StillThrottled(lastToken[t])
    IN  /\ j.stage = "lock"
        /\ LockFree(c)
        /\ IF throttled
           THEN /\ job' = [job EXCEPT ![c] = Idle]
                /\ UNCHANGED <<holder, probed>>
           ELSE /\ holder' = c
                /\ job' = [job EXCEPT ![c].stage =
                             IF j.op = "demand" THEN "list" ELSE "probe"]
                /\ probed' = [t \in Tokens |-> IF t \in j.todo THEN {now} ELSE probed[t]]
        /\ UNCHANGED <<rows, now, lastBulk, lastToken, bulkProbed, countVars>>

\* async with self._od_lock is left.
Released(c) == IF holder = c THEN Nobody ELSE holder

\* refresh_on_demand has its snapshot and samples the available accounts.
List(c) ==
    LET available == {t \in Tokens : Manageable(rows[t])}
    IN  /\ job[c].stage = "list"
        /\ \/ /\ available = {}
              /\ job' = [job EXCEPT ![c] = Idle]
              /\ holder' = Released(c)
              /\ lastBulk' = now
              /\ UNCHANGED bulkProbed
           \/ \E S \in (SUBSET available) \ {{}} :
                /\ Cardinality(S) <= SampleSize
                /\ Cardinality(S) = SampleSize \/ S = available
                /\ job' = [job EXCEPT ![c].stage = "probe", ![c].todo = S,
                                      ![c].rec = Captured(S)]
                /\ bulkProbed' = {now}
                /\ UNCHANGED <<holder, lastBulk>>
        /\ UNCHANGED <<rows, now, lastToken, probed, countVars>>

-----------------------------------------------------------------------------
(* The probes.                                                             *)

\* Mutant: the time of a bulk refresh is set only if something was refreshed.
BulkTime(refreshed) == IF refreshed THEN now ELSE lastBulk

\* _od_last at the end of a bulk refresh.
BulkDone(refreshed) == now

(***************************************************************************)
(* Caller c is done with account t, and j is what is left of its job.  The *)
(* last one ends the operation; that of orphans has ended before.          *)
(***************************************************************************)
Proceed(c, t, j, refreshed) ==
    IF j.todo \cup j.clear # {}
    THEN /\ job' = [job EXCEPT ![c] = j]
         /\ UNCHANGED <<holder, throttleVars>>
    ELSE /\ job' = [job EXCEPT ![c] = Idle]
         /\ holder' = Released(c)
         /\ lastToken' = IF j.op = "token" THEN [lastToken EXCEPT ![t] = now] ELSE lastToken
         /\ lastBulk' = IF j.op = "demand" /\ j.stage = "probe"
                        THEN BulkDone(refreshed) ELSE lastBulk
         /\ UNCHANGED <<bulkProbed, probed>>

\* _refresh_one on t has its answers, some live windows or none, and stores
\* what follows; a revival goes on to clear the failures if there were any.
EndProbe(c, t, live, rem, tier) ==
    LET j == job[c]
        read == j.rec[t]
        done == [j EXCEPT !.todo = @ \ {t},
                          !.clear = IF j.op = "revive" /\ live # {} THEN @ \cup {t} ELSE @]
    IN  /\ j.stage \in {"probe", "orphan"} /\ j.op # "call"
        /\ t \in j.todo
        /\ live \subseteq Asked(read.pool)
        /\ rows' = [rows EXCEPT ![t] =
                      ProbedRow(@, read, j.op = "scheduled", live, rem, tier)]
        /\ Proceed(c, t, done, live # {})
        /\ UNCHANGED <<now, countVars>>

\* refresh_call_async has its answer, or none because the mode is local, the
\* pool does not support it or the API failed.
EndCall(c, t, live, rem) ==
    LET j == job[c]
        read == j.rec[t]
        m == j.mode
    IN  /\ j.stage = "probe" /\ j.op = "call"
        /\ t \in j.todo
        /\ live \subseteq Asked(read.pool) \cap {m}
        /\ rows' = [rows EXCEPT ![t].win[m] =
                      IF live # {} THEN Live(rem[m])
                      ELSE UsedWindow(read.pool, m, read.win[m], @)]
        /\ Proceed(c, t, [j EXCEPT !.todo = {}], FALSE)
        /\ UNCHANGED <<now, countVars>>

\* The usage API says that the credentials of t are invalid.
EndRejected(c, t) ==
    LET j == job[c] IN
    /\ j.stage \in {"probe", "orphan"}
    /\ t \in j.todo
    /\ Asked(j.rec[t].pool) \cap (IF j.op = "call" THEN {j.mode} ELSE QuotaModes) # {}
    /\ rows' = [rows EXCEPT ![t] = Rejected(@)]
    /\ Proceed(c, t, [j EXCEPT !.todo = @ \ {t}], FALSE)
    /\ UNCHANGED <<now, countVars>>

\* The patch with clear_failures that ends the revival of t.
ClearFailures(c, t) ==
    LET j == job[c] IN
    /\ t \in j.clear
    /\ rows' = [rows EXCEPT ![t] = Cleared(@)]
    /\ Proceed(c, t, [j EXCEPT !.clear = @ \ {t}], TRUE)
    /\ UNCHANGED <<now, countVars>>

-----------------------------------------------------------------------------
(* Repository calls that fail, and requests that are given up.             *)

\* A read fails, and the operation with it.
ReadFails(c) ==
    /\ job[c].stage \in {"read", "list"}
    /\ faults < MaxFaults
    /\ faults' = faults + 1
    /\ job' = [job EXCEPT ![c] = Idle]
    /\ holder' = Released(c)
    /\ UNCHANGED <<rows, now, throttleVars, ops, edits>>

\* Mutant: an operation that raises keeps the lock.
KeptLock(c) == holder

\* The lock after an operation has raised.
ReleasedOnRaise(c) == Released(c)

(***************************************************************************)
(* The patch for t fails.  The exception leaves the operation at once, and *)
(* run_batch does not cancel the other probes, which go on by themselves.  *)
(* The chunks an import or a scheduled refresh had not begun never begin.  *)
(***************************************************************************)
WriteFails(c, t) ==
    LET j    == job[c]
        rest == j.todo \ {t}
    IN  /\ j.stage \in {"probe", "orphan"}
        /\ t \in j.todo \cup j.clear
        /\ faults < MaxFaults
        /\ faults' = faults + 1
        /\ \E S \in SUBSET rest :
             /\ (j.op = "scheduled" /\ j.stage = "probe") \/ S = rest
             /\ job' = [job EXCEPT ![c] =
                          IF S \cup (j.clear \ {t}) = {} THEN Idle
                          ELSE [j EXCEPT !.stage = "orphan", !.todo = S,
                                         !.clear = @ \ {t}]]
        /\ holder' = ReleasedOnRaise(c)
        /\ probed' = IF j.op = "token" THEN [probed EXCEPT ![t] = {}] ELSE probed
        /\ bulkProbed' = IF j.op = "demand" /\ j.stage = "probe" THEN {} ELSE bulkProbed
        /\ UNCHANGED <<rows, now, lastBulk, lastToken, ops, edits>>

\* The client of a stream leaves while its request waits for a refresh on
\* demand: run_batch and its probes are cancelled.
Cancel(c) ==
    /\ job[c].op = "demand" /\ job[c].stage # "orphan"
    /\ job' = [job EXCEPT ![c] = Idle]
    /\ holder' = Released(c)
    /\ bulkProbed' = IF job[c].stage = "probe" THEN {} ELSE bulkProbed
    /\ UNCHANGED <<rows, now, lastBulk, lastToken, probed, countVars>>

-----------------------------------------------------------------------------
(* What goes on besides.                                                   *)

\* Another writer changes the row of t: an operator disables, restores or
\* deletes the account or adds it again, or a request finds it invalid.
Edited(row, pool) ==
    {[row EXCEPT !.status = s] : s \in Statuses}
    \cup {[row EXCEPT !.deleted = TRUE]}
    \cup {[NewRow(pool) EXCEPT !.win =
             [m \in QuotaModes |-> IF m = "console" THEN DefaultWindow(pool, m)
                                   ELSE row.win[m]]]}

Edit(t) ==
    /\ edits < MaxEdits
    /\ edits' = edits + 1
    /\ \E pool \in UsedPools : \E row \in Edited(rows[t], pool) :
         rows' = [rows EXCEPT ![t] = row]
    /\ UNCHANGED <<job, holder, now, throttleVars, ops, faults>>

\* The reset time of a stored window passes.
Elapse(t, m) ==
    /\ edits < MaxEdits
    /\ edits' = edits + 1
    /\ rows[t].win[m].reset = "ahead"
    /\ rows' = [rows EXCEPT ![t].win[m].reset = "past"]
    /\ UNCHANGED <<job, holder, now, throttleVars, ops, faults>>

Tick ==
    /\ now < MaxTime
    /\ now' = now + 1
    /\ UNCHANGED <<rows, job, holder, throttleVars, countVars>>

-----------------------------------------------------------------------------
\* The host may have been up for any time when the service starts.
Init ==
    /\ rows \in [Tokens -> {NewRow(p) : p \in UsedPools}]
    /\ job = [c \in Callers |-> Idle]
    /\ holder = Nobody
    /\ now \in 0..MinInterval
    /\ lastBulk = 0
    /\ lastToken = [t \in Tokens |-> 0]
    /\ ops = 0 /\ faults = 0 /\ edits = 0
    /\ bulkProbed = {}
    /\ probed = [t \in Tokens |-> {}]

Answers == [QuotaModes -> 0..MaxQuota]

ProbeEnds(c, t) ==
    \/ \E live \in SUBSET QuotaModes, rem \in Answers, tier \in UsedPools :
         EndProbe(c, t, live, rem, tier)
    \/ \E live \in SUBSET QuotaModes, rem \in Answers : EndCall(c, t, live, rem)
    \/ EndRejected(c, t)
    \/ ClearFailures(c, t)

Next ==
    \/ \E c \in Callers :
         \/ \E t \in Tokens :
              \/ \E m \in QuotaModes : StartCall(c, t, m)
              \/ StartToken(c, t)
              \/ ProbeEnds(c, t)
              \/ WriteFails(c, t)
         \/ \E o \in UsedLists, S \in SUBSET Tokens : StartList(c, o, S)
         \/ StartDemand(c)
         \/ Read(c)
         \/ TakeLock(c)
         \/ List(c)
         \/ ReadFails(c)
         \/ Cancel(c)
    \/ \E t \in Tokens : Edit(t) \/ \E m \in QuotaModes : Elapse(t, m)
    \/ Tick

(***************************************************************************)
(* The event loop goes on while an operation can: the repository answers,  *)
(* a request of the usage API has a timeout, a free lock is granted.       *)
(***************************************************************************)
Proceeds(c) ==
    Read(c) \/ TakeLock(c) \/ List(c) \/ \E t \in Tokens : ProbeEnds(c, t)

Fairness == WF_vars(\E c \in Callers : Proceeds(c))

Spec     == Init /\ [][Next]_vars
FairSpec == Spec /\ Fairness

-----------------------------------------------------------------------------
(* Properties.                                                             *)

\* refresh_token_only: however many requests fail on an account, it is probed
\* for that once per MinInterval after the first probe began, a probe that
\* raised excepted.  Requests that waited for the lock count.
TokenProbesSpaced ==
    [][\A c \in Callers : job[c].stage = "lock" /\ job'[c].stage = "probe" =>
         \A t \in job[c].todo : \A s \in probed[t] : now >= s + MinInterval]_vars

\* refresh_on_demand: it begins to probe once per MinInterval, a run that was
\* cut short by an exception or a client that left excepted.
BulkProbesSpaced ==
    [][\A c \in Callers : job[c].stage = "list" /\ job'[c].stage = "probe" =>
         \A s \in bulkProbed : now >= s + MinInterval]_vars

\* _od_lock covers a whole probe: no two on-demand refreshes, of one account
\* or of many, ask the usage API at a time, the leftovers of one that raised
\* excepted.
OneOnDemand ==
    \A c, d \in Callers :
        /\ job[c].op \in {"token", "demand"} /\ job[c].stage \in {"list", "probe"}
        /\ job[d].op \in {"token", "demand"} /\ job[d].stage \in {"list", "probe"}
        => c = d

\* Every operation ends and the lock is free again, whatever failed on the way.
OperationsEnd == []<>(holder = Nobody /\ \A c \in Callers : job[c] = Idle)
=============================================================================
