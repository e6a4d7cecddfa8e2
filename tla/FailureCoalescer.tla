-------------------------- MODULE FailureCoalescer --------------------------
(***************************************************************************)
(* How failed calls reach the failure counters of the accounts: the buffer *)
(* of one worker (_FailureCoalescer in app/control/account/refresh.py),    *)
(* its flush task, and the shutdown that cancels the task and drains the   *)
(* buffer (the end of lifespan in app/main.py).                            *)
(*                                                                         *)
(* The buffer merges failures of the same account and mode into one entry  *)
(* with a count.  An entry is modelled by the set of the failures merged   *)
(* into it, so that each failure can be followed to the counter that       *)
(* counts it.  What a rate limit does to the quota window is left out: it  *)
(* only decides whether a flush reads the repository before it writes.     *)
(***************************************************************************)
EXTENDS AccountTypes

CONSTANTS Failures,       \* the failed calls of a behaviour
          MaxWriteFaults, \* bound: repository writes that fail
          NoToken         \* the account of a failure that has not happened

ASSUME CoalescerAssumption ==
    /\ IsFiniteSet(Failures)
    /\ NoToken \notin Tokens
    /\ MaxWriteFaults \in Nat

\* Who runs _flush: the background task, or stop() once the task is gone.
Flushers == {"task", "stop"}

VARIABLES account,   \* the account each failure was on
          limited,   \* the failures that were rate limits (429)
          pending,   \* _pending: the failures in the buffer
          batch,     \* the failures each flush has taken from the buffer
          stage,     \* where each flusher stands
          known,     \* the accounts that have a row
          fails,     \* usage_fail_count of the accounts
          stored,    \* history: the failures that the counters count
          cleared,   \* history: failures whose counter was reset since
          dropped,   \* history: failures that will never be written
          writeFaults

bufferVars == <<account, limited, pending>>
flushVars  == <<batch, stage>>
rowVars    == <<known, fails, stored, cleared>>
coalescerVars == <<bufferVars, flushVars, rowVars, dropped, writeFaults>>

Recorded  == {f \in Failures : account[f] # NoToken}
On(S, t)  == {f \in S : account[f] = t}

FlushStages == {"sleep", "due", "read", "write", "orphan", "ended"}

CoalescerTypeOK ==
    /\ account \in [Failures -> Tokens \cup {NoToken}]
    /\ limited \subseteq Failures /\ pending \subseteq Failures
    /\ batch \in [Flushers -> SUBSET Failures]
    /\ stage \in [Flushers -> FlushStages]
    /\ known \subseteq Tokens
    /\ fails \in [Tokens -> Nat]
    /\ stored \subseteq Failures /\ cleared \subseteq Failures
    /\ dropped \subseteq Failures
    /\ writeFaults \in Nat

\* start() has been called; stop() has not.
CoalescerInit ==
    /\ account = [f \in Failures |-> NoToken]
    /\ limited = {} /\ pending = {}
    /\ batch = [a \in Flushers |-> {}]
    /\ stage = [a \in Flushers |-> "sleep"]
    /\ known \in SUBSET Tokens
    /\ fails = [t \in Tokens |-> 0]
    /\ stored = {} /\ cleared = {} /\ dropped = {}
    /\ writeFaults = 0

-----------------------------------------------------------------------------
(* The buffer.                                                             *)

\* enqueue(token, mode_id, exc), whether or not stop() has run.
Enqueue(f, t, is429) ==
    /\ f \notin Recorded
    /\ account' = [account EXCEPT ![f] = t]
    /\ limited' = IF is429 THEN limited \cup {f} ELSE limited
    /\ pending' = pending \cup {f}
    /\ UNCHANGED <<flushVars, rowVars, dropped, writeFaults>>

\* Mutant: the flush copies the buffer and empties it after the write.
StillPending == pending

\* self._pending = {}.
LeftPending == {}

\* The first part of _flush, under the lock.  The task sleeps again if there
\* is nothing to do, and stop() is done.
TakeBatch(a) ==
    /\ stage[a] = IF a = "task" THEN "sleep" ELSE "due"
    /\ IF pending = {}
       THEN /\ a = "stop"
            /\ stage' = [stage EXCEPT ![a] = "ended"]
            /\ UNCHANGED <<batch, pending>>
       ELSE /\ batch'   = [batch EXCEPT ![a] = pending]
            /\ pending' = LeftPending
            /\ stage'   = [stage EXCEPT ![a] =
                              IF pending \cap limited # {} THEN "read" ELSE "write"]
    /\ UNCHANGED <<account, limited, rowVars, dropped, writeFaults>>

\* get_accounts for the rate-limited accounts; it may fail, which is caught.
ReadQuota(a) ==
    /\ stage[a] = "read"
    /\ stage' = [stage EXCEPT ![a] = "write"]
    /\ UNCHANGED <<bufferVars, batch, rowVars, dropped, writeFaults>>

\* Mutant: the task returns after a flush.
OneFlush(a) == "ended"

\* Where a flusher goes when its flush is over; after the orphaned write of a
\* cancelled task nobody goes anywhere.
AfterFlush(a) == IF a = "task" /\ stage[a] = "write" THEN "sleep" ELSE "ended"

\* patch_accounts in one transaction: the deltas of the accounts that exist.
WriteBatch(a) ==
    /\ stage[a] \in {"write", "orphan"}
    /\ LET written == {f \in batch[a] : account[f] \in known}
       IN  /\ fails' = [t \in Tokens |-> fails[t] + Cardinality(On(written, t))]
           /\ stored' = stored \cup written
           /\ dropped' = dropped \cup (batch[a] \ written)
    /\ batch' = [batch EXCEPT ![a] = {}]
    /\ stage' = [stage EXCEPT ![a] = AfterFlush(a)]
    /\ UNCHANGED <<bufferVars, known, cleared, writeFaults>>

\* The write fails: logged, and the batch is gone.
FailWrite(a) ==
    /\ stage[a] \in {"write", "orphan"}
    /\ writeFaults < MaxWriteFaults
    /\ writeFaults' = writeFaults + 1
    /\ dropped' = dropped \cup batch[a]
    /\ batch' = [batch EXCEPT ![a] = {}]
    /\ stage' = [stage EXCEPT ![a] = AfterFlush(a)]
    /\ UNCHANGED <<bufferVars, rowVars>>

(***************************************************************************)
(* stop(): the task is cancelled wherever it awaits.  Asleep it ends.  In  *)
(* a flush the cancellation passes the handlers, which catch Exception,    *)
(* and the batch is a local of the task.  Cancelled in the write, it is    *)
(* too late if the thread that writes has begun.                           *)
(***************************************************************************)
Stop ==
    /\ stage["stop"] = "sleep"
    /\ \/ /\ stage["task"] = "write"
          /\ stage' = [task |-> "orphan", stop |-> "due"]
          /\ UNCHANGED <<batch, dropped>>
       \/ /\ stage' = [task |-> "ended", stop |-> "due"]
          /\ batch' = [batch EXCEPT !["task"] = {}]
          /\ dropped' = dropped \cup batch["task"]
    /\ UNCHANGED <<bufferVars, rowVars, writeFaults>>

-----------------------------------------------------------------------------
(* The repository's other writers.                                         *)

\* An account is added.
Add(t) ==
    /\ t \notin known
    /\ known' = known \cup {t}
    /\ UNCHANGED <<bufferVars, flushVars, fails, stored, cleared, dropped, writeFaults>>

\* usage_fail_count = 0.
ResetCount(t) == 0

\* clear_failures, by the revival of an account.
Clear(t) ==
    /\ t \in known
    /\ On(stored, t) # {}
    /\ fails' = [fails EXCEPT ![t] = ResetCount(t)]
    /\ stored' = stored \ On(stored, t)
    /\ cleared' = cleared \cup On(stored, t)
    /\ UNCHANGED <<bufferVars, flushVars, known, dropped, writeFaults>>

\* Another worker's flush.
OtherWorker(f, t) ==
    /\ f \notin Recorded
    /\ t \in known
    /\ account' = [account EXCEPT ![f] = t]
    /\ fails' = [fails EXCEPT ![t] = @ + 1]
    /\ stored' = stored \cup {f}
    /\ UNCHANGED <<limited, pending, flushVars, known, cleared, dropped, writeFaults>>

CoalescerNext ==
    \/ \E f \in Failures, t \in Tokens, is429 \in BOOLEAN : Enqueue(f, t, is429)
    \/ \E a \in Flushers : \/ TakeBatch(a)
                           \/ ReadQuota(a)
                           \/ WriteBatch(a)
                           \/ FailWrite(a)
    \/ Stop
    \/ \E t \in Tokens : Add(t) \/ Clear(t)
    \/ \E f \in Failures, t \in Tokens : OtherWorker(f, t)

(***************************************************************************)
(* The task wakes every flush interval, and a repository call comes back.  *)
(***************************************************************************)
CoalescerFairness ==
    \A a \in Flushers :
        /\ WF_coalescerVars(TakeBatch(a))
        /\ WF_coalescerVars(ReadQuota(a))
        /\ WF_coalescerVars(WriteBatch(a))

CoalescerSpec     == CoalescerInit /\ [][CoalescerNext]_coalescerVars
CoalescerFairSpec == CoalescerSpec /\ CoalescerFairness

-----------------------------------------------------------------------------
(* Properties.                                                             *)

\* Every recorded failure is in exactly one place: in the buffer, in a flush,
\* counted, counted before a reset, or dropped.
InOnePlace ==
    /\ Recorded = pending \cup batch["task"] \cup batch["stop"]
                  \cup stored \cup cleared \cup dropped
    /\ pending \cap (batch["task"] \cup batch["stop"] \cup stored
                    \cup cleared \cup dropped) = {}
    /\ batch["task"] \cap (batch["stop"] \cup stored \cup cleared \cup dropped) = {}
    /\ batch["stop"] \cap (stored \cup cleared \cup dropped) = {}
    /\ stored \cap (cleared \cup dropped) = {}
    /\ cleared \cap dropped = {}

\* No failure is counted twice or lost between the buffer and the counter:
\* usage_fail_count is the number of failures written since the last reset,
\* with other workers writing and the buffer filling in between.
FailuresConserved ==
    InOnePlace /\ \A t \in Tokens : fails[t] = Cardinality(On(stored, t))

\* What a call of enqueue has put into the buffer leaves it and is written or
\* dropped, for as long as the worker is not shut down.
EventuallyWritten ==
    [](stage["stop"] = "sleep") =>
        <>[](pending = {} /\ batch["task"] = {})
=============================================================================
