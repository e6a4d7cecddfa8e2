------------------------ MODULE AccountRefreshProofs ------------------------
(***************************************************************************)
(* Proofs about app/control/account/refresh.py, for any accounts, callers, *)
(* modes, failures, interval and failing writes.                           *)
(*                                                                         *)
(* The refresh service: the lock is held by exactly the one on-demand      *)
(* refresh that lists or probes, and every probe of one began no later     *)
(* than the time that throttles the next, unless it is still under way.    *)
(*                                                                         *)
(* The failure coalescer: a failure is in one place at a time and the      *)
(* counters count what was written.                                        *)
(***************************************************************************)
EXTENDS AccountRefresh, FailureCoalescer, FiniteSetTheorems, TLAPS

\* Job j is inside async with self._od_lock.
OnDemand(j) == j.op \in {"token", "demand"} /\ j.stage \in {"list", "probe"}

\* Job j probes t for refresh_token_only; job j probes for refresh_on_demand.
TokenProber(j, t) == j.op = "token" /\ j.stage = "probe" /\ t \in j.todo
BulkProber(j)     == j.op = "demand" /\ j.stage = "probe"

\* Which stages an operation goes through, and what it has to do there; it
\* has read the rows it goes on to write.
JobOK(j) ==
    /\ j.stage = "idle" <=> j.op = "none"
    /\ j.stage = "list" => j.op = "demand"
    /\ j.stage = "lock" => j.op \in {"token", "demand"}
    /\ j.op = "token" => /\ j.stage \in {"read", "lock", "probe"}
                         /\ j.clear = {}
                         /\ \E t \in Tokens : j.todo = {t}
    /\ j.op = "demand" => /\ j.stage # "read"
                          /\ j.stage \in {"lock", "list"} => j.todo = {}
    /\ j.op = "call" => j.mode \in QuotaModes
    /\ j.stage # "read" => \A t \in j.todo : j.rec[t] \in Account

JobsOK == \A c \in Callers : JobOK(job[c])

HolderOK == \A c \in Callers : OnDemand(job[c]) <=> holder = c

TokenTimes ==
    \A t \in Tokens : \A s \in probed[t] :
        /\ s <= now
        /\ s <= lastToken[t] \/ \E c \in Callers : TokenProber(job[c], t)

BulkTimes ==
    \A s \in bulkProbed :
        /\ s <= now
        /\ s <= lastBulk \/ \E c \in Callers : BulkProber(job[c])

IInv == TypeOK /\ JobsOK /\ HolderOK /\ TokenTimes /\ BulkTimes

-----------------------------------------------------------------------------
(* Values.                                                                 *)

\* The windows and rows that the service writes have their type.
LEMMA WindowTypes ==
    ASSUME NEW pool \in Pools, NEW m \in QuotaModes, NEW rem \in 0..MaxQuota,
           NEW read \in Window, NEW current \in Window
    PROVE  /\ DefaultWindow(pool, m) \in Window
           /\ Live(rem) \in Window
           /\ Charged(read) \in Window
           /\ FallbackWindow(pool, m, read, current) \in Window
           /\ UsedWindow(pool, m, read, current) \in Window
  <1>q. MaxQuota \in Nat
    BY RefreshAssumption
  <1>1. DefaultWindow(pool, m) \in Window /\ Reset(pool, m) \in Window
    BY <1>q DEF DefaultWindow, Reset, Window, Sources, Resets
  <1>2. Live(rem) \in Window
    BY <1>q DEF Live, Window, Sources, Resets
  <1>3. ASSUME NEW w \in Window PROVE Charged(w) \in Window
    <2> DEFINE r == IF w.rem > 0 THEN w.rem - 1 ELSE 0
    <2>1. r \in 0..MaxQuota
      BY <1>q DEF Window
    <2>2. Charged(w) = [w EXCEPT !.rem = r, !.src = "estimated"]
      BY DEF Charged
    <2> HIDE DEF r
    <2> QED BY <2>1, <2>2 DEF Window, Sources
  <1>4. FallbackWindow(pool, m, read, current) \in Window
    BY <1>1, <1>3 DEF FallbackWindow
  <1>5. UsedWindow(pool, m, read, current) \in Window
    <2>1. Charged(read) \in Window /\ Charged(Reset(pool, m)) \in Window
      BY <1>1, <1>3
    <2> QED BY <2>1 DEF UsedWindow, Window, Sources, Resets
  <1> QED BY <1>1, <1>2, <1>3, <1>4, <1>5

\* A row after a probe.
LEMMA ProbedRowType ==
    ASSUME NEW row \in Account, NEW read \in Account, NEW fallback \in BOOLEAN,
           NEW live \in SUBSET QuotaModes, NEW rem \in Answers,
           NEW tier \in UsedPools
    PROVE  ProbedRow(row, read, fallback, live, rem, tier) \in Account
  <1>1. read.pool \in Pools /\ row.pool \in Pools /\ tier \in Pools
    BY RefreshAssumption DEF Account
  <1>2. Inferred(live, tier) \in Pools
    BY <1>1 DEF Inferred, Pools
  <1> DEFINE win(m) == IF m \in live THEN Live(rem[m])
                       ELSE IF fallback
                            THEN FallbackWindow(read.pool, m, read.win[m], row.win[m])
                            ELSE row.win[m]
  <1>3. ASSUME NEW m \in QuotaModes PROVE win(m) \in Window
    <2>1. rem[m] \in 0..MaxQuota /\ read.win[m] \in Window /\ row.win[m] \in Window
      BY DEF Answers, Account
    <2> QED BY <1>1, <2>1, WindowTypes
  <1>4. [m \in QuotaModes |-> win(m)] \in [QuotaModes -> Window]
    BY <1>3
  <1> HIDE DEF win
  <1>5. ProbedRow(row, read, fallback, live, rem, tier) =
          [row EXCEPT !.win = [m \in QuotaModes |-> win(m)],
                      !.pool = IF live # {} /\ Inferred(live, tier) # read.pool
                               THEN Inferred(live, tier) ELSE @]
    BY DEF ProbedRow, win
  <1> QED BY <1>2, <1>4, <1>5 DEF Account

LEMMA IdleJob == Idle \in Job /\ JobOK(Idle) /\ ~OnDemand(Idle)
                 /\ Idle.op = "none" /\ Idle.stage = "idle"
  BY DEF Idle, Job, Ops, Stages, JobOK, OnDemand

-----------------------------------------------------------------------------
(* Changes of a job.                                                       *)

\* The jobs after one of them has changed.
LEMMA JobChanged ==
    ASSUME TypeOK, JobsOK, NEW c \in Callers, NEW j \in Job, JobOK(j),
           job' = [job EXCEPT ![c] = j]
    PROVE  /\ job' \in [Callers -> Job]
           /\ job'[c] = j
           /\ \A d \in Callers : d # c => job'[d] = job[d]
           /\ JobsOK'
  BY DEF TypeOK, JobsOK

\* A job that is as much inside the lock as before leaves the lock alone.
LEMMA LockKept ==
    ASSUME TypeOK, JobsOK, HolderOK, NEW c \in Callers, NEW j \in Job, JobOK(j),
           job' = [job EXCEPT ![c] = j], OnDemand(j) <=> OnDemand(job[c]),
           holder' = holder
    PROVE  HolderOK'
  BY JobChanged DEF HolderOK

\* A job that leaves it releases the lock.
LEMMA LockReleased ==
    ASSUME TypeOK, JobsOK, HolderOK, NEW c \in Callers, NEW j \in Job, JobOK(j),
           job' = [job EXCEPT ![c] = j], ~OnDemand(j), holder' = Released(c)
    PROVE  HolderOK' /\ holder' \in Callers \cup {Nobody}
  <1>1. Nobody \notin Callers
    BY RefreshAssumption
  <1> QED BY <1>1, JobChanged DEF HolderOK, Released, TypeOK

\* The times of single probes, while c goes on probing what it probes.
LEMMA TokenTimesKept ==
    ASSUME TypeOK, JobsOK, TokenTimes, NEW c \in Callers, NEW j \in Job, JobOK(j),
           job' = [job EXCEPT ![c] = j],
           \A t \in Tokens : TokenProber(job[c], t) => TokenProber(j, t),
           probed' = probed, lastToken' = lastToken, now' = now
    PROVE  TokenTimes'
  <1>1. ASSUME NEW t \in Tokens, NEW d \in Callers, TokenProber(job[d], t)
        PROVE  TokenProber(job'[d], t)
    BY <1>1, JobChanged
  <1> QED BY <1>1 DEF TokenTimes

\* The times of bulk probes, while c goes on with its own.
LEMMA BulkTimesKept ==
    ASSUME TypeOK, JobsOK, BulkTimes, NEW c \in Callers, NEW j \in Job, JobOK(j),
           job' = [job EXCEPT ![c] = j], BulkProber(job[c]) => BulkProber(j),
           bulkProbed' = bulkProbed, lastBulk' = lastBulk, now' = now
    PROVE  BulkTimes'
  <1>1. ASSUME NEW d \in Callers, BulkProber(job[d]) PROVE BulkProber(job'[d])
    BY <1>1, JobChanged
  <1> QED BY <1>1 DEF BulkTimes

-----------------------------------------------------------------------------
(* One lemma per action.                                                   *)

LEMMA InitOK == Init => IInv
  <1> SUFFICES ASSUME Init PROVE IInv
    OBVIOUS
  <1>0. MinInterval \in Nat /\ UsedPools \subseteq Pools
    BY RefreshAssumption
  <1>1. rows \in [Tokens -> Account]
    <2>1. ASSUME NEW p \in UsedPools PROVE NewRow(p) \in Account
      <3>1. p \in Pools
        BY <1>0
      <3>2. \A m \in QuotaModes : DefaultWindow(p, m) \in Window
        <4>1. MaxQuota \in Nat
          BY RefreshAssumption
        <4> QED BY <4>1 DEF DefaultWindow, Window, Sources, Resets
      <3> QED BY <3>1, <3>2 DEF NewRow, Account, Statuses
    <2> QED BY <2>1 DEF Init
  <1>2. job \in [Callers -> Job] /\ JobsOK /\ \A c \in Callers : ~OnDemand(job[c])
    BY IdleJob DEF Init, JobsOK
  <1>3. HolderOK
    BY <1>2, RefreshAssumption DEF HolderOK, Init
  <1> QED BY <1>0, <1>1, <1>2, <1>3 DEF Init, IInv, TypeOK, TokenTimes, BulkTimes

LEMMA BeginOK ==
    ASSUME IInv, NEW c \in Callers, NEW o \in Ops \ {"none"},
           NEW m \in QuotaModes \cup {"none"}, NEW S \in SUBSET Tokens,
           o = "token" => \E t \in Tokens : S = {t}, o = "demand" => S = {},
           o = "call" => m \in QuotaModes,
           Begin(c, o, m, S)
    PROVE  IInv'
  <1> DEFINE j == [Idle EXCEPT !.op = o, !.mode = m, !.todo = S,
                     !.stage = IF o = "demand" THEN "lock" ELSE "read"]
  <1>1. j \in Job /\ JobOK(j) /\ ~OnDemand(j)
    BY DEF Idle, Job, Stages, Ops, ListOps, JobOK, OnDemand
  <1>2. job' = [job EXCEPT ![c] = j]
    BY DEF Begin
  <1>3. job[c] = Idle
    BY DEF Begin
  <1>4. /\ ~OnDemand(job[c]) /\ ~BulkProber(job[c])
        /\ \A t \in Tokens : ~TokenProber(job[c], t)
    BY <1>3, IdleJob DEF BulkProber, TokenProber
  <1> HIDE DEF j
  <1>5. HolderOK'
    BY <1>1, <1>2, <1>4, LockKept DEF IInv, Begin
  <1>6. TokenTimes' /\ BulkTimes'
    BY <1>1, <1>2, <1>4, TokenTimesKept, BulkTimesKept DEF IInv, Begin, throttleVars
  <1>7. job' \in [Callers -> Job] /\ JobsOK'
    BY <1>1, <1>2, JobChanged DEF IInv
  <1> QED BY <1>5, <1>6, <1>7 DEF IInv, TypeOK, Begin, throttleVars

LEMMA ReadOK ==
    ASSUME IInv, NEW c \in Callers, Read(c)
    PROVE  IInv'
  <1> DEFINE S == Kept(job[c].op, job[c].todo)
             j == IF S = {} THEN Idle
                  ELSE [job[c] EXCEPT
                          !.stage = IF job[c].op = "token" THEN "lock" ELSE "probe",
                          !.todo = S, !.rec = Captured(S)]
  <1>1. job' = [job EXCEPT ![c] = j] /\ job[c].stage = "read"
    BY DEF Read
  <1>2. job[c] \in Job /\ JobOK(job[c]) /\ rows \in [Tokens -> Account]
    BY DEF IInv, TypeOK, JobsOK
  <1>3. S \subseteq job[c].todo
    BY DEF Kept
  <1>4. j \in Job /\ JobOK(j) /\ ~OnDemand(j)
    <2>1. CASE S = {}
      BY <2>1, IdleJob
    <2>2. CASE S # {}
      <3>1. Captured(S) \in [Tokens -> Account \cup {NoRow}]
            /\ \A t \in S \cap Tokens : Captured(S)[t] \in Account
        BY <1>2 DEF Captured
      <3> HIDE DEF S
      <3>2. S \in SUBSET Tokens
        BY <1>2, <1>3 DEF Job
      <3>3. j \in Job
        BY <1>2, <2>2, <3>1, <3>2 DEF Job, Stages
      <3>4. JobOK(j) /\ ~OnDemand(j)
        BY <1>1, <1>2, <1>3, <2>2, <3>1, <3>2 DEF JobOK, OnDemand, Job
      <3> QED BY <3>3, <3>4
    <2> QED BY <2>1, <2>2
  <1> HIDE DEF j
  <1>5. ~OnDemand(job[c]) /\ ~BulkProber(job[c]) /\ \A t \in Tokens : ~TokenProber(job[c], t)
    BY <1>1 DEF OnDemand, BulkProber, TokenProber
  <1>6. HolderOK'
    BY <1>1, <1>4, <1>5, LockKept DEF IInv, Read
  <1>7. TokenTimes' /\ BulkTimes'
    BY <1>1, <1>4, <1>5, TokenTimesKept, BulkTimesKept DEF IInv, Read, throttleVars
  <1>8. job' \in [Callers -> Job] /\ JobsOK'
    BY <1>1, <1>4, JobChanged DEF IInv
  <1> QED BY <1>6, <1>7, <1>8 DEF IInv, TypeOK, Read, throttleVars, countVars

\* While the lock is free nobody lists or probes on demand.
LEMMA FreeLock ==
    ASSUME IInv, holder = Nobody
    PROVE  \A c \in Callers : /\ ~OnDemand(job[c]) /\ ~BulkProber(job[c])
                              /\ \A t \in Tokens : ~TokenProber(job[c], t)
  BY RefreshAssumption DEF IInv, HolderOK, OnDemand, BulkProber, TokenProber

LEMMA TakeLockOK ==
    ASSUME IInv, NEW c \in Callers, TakeLock(c)
    PROVE  IInv'
  <1>1. job[c] \in Job /\ JobOK(job[c]) /\ job[c].stage = "lock" /\ holder = Nobody
    BY DEF IInv, TypeOK, JobsOK, TakeLock, LockFree
  <1>2. \A d \in Callers : /\ ~OnDemand(job[d]) /\ ~BulkProber(job[d])
                           /\ \A t \in Tokens : ~TokenProber(job[d], t)
    BY <1>1, FreeLock
  <1>3. CASE job' = [job EXCEPT ![c] = Idle] /\ UNCHANGED <<holder, probed>>
    <2>1. JobsOK' /\ job' \in [Callers -> Job]
      BY <1>3, IdleJob, JobChanged DEF IInv
    <2>2. HolderOK'
      BY <1>2, <1>3, IdleJob, LockKept DEF IInv
    <2>3. TokenTimes' /\ BulkTimes'
      BY <1>2, <1>3, IdleJob, TokenTimesKept, BulkTimesKept DEF IInv, TakeLock
    <2> QED BY <1>3, <2>1, <2>2, <2>3 DEF IInv, TypeOK, TakeLock, countVars
  <1>4. CASE /\ holder' = c
             /\ job' = [job EXCEPT ![c].stage =
                          IF job[c].op = "demand" THEN "list" ELSE "probe"]
             /\ probed' = [t \in Tokens |-> IF t \in job[c].todo THEN {now} ELSE probed[t]]
    <2> DEFINE j == [job[c] EXCEPT !.stage =
                       IF job[c].op = "demand" THEN "list" ELSE "probe"]
    <2>1. job' = [job EXCEPT ![c] = j]
      BY <1>4
    <2>2. j \in Job /\ JobOK(j) /\ j.op = job[c].op /\ j.todo = job[c].todo
          /\ j.stage = (IF job[c].op = "demand" THEN "list" ELSE "probe")
      BY <1>1 DEF Job, JobOK, Stages
    <2> HIDE DEF j
    <2>3. JobsOK' /\ job' \in [Callers -> Job] /\ job'[c] = j
          /\ \A d \in Callers : d # c => job'[d] = job[d]
      BY <2>1, <2>2, JobChanged DEF IInv
    <2>6. BulkTimes'
      BY <1>2, <2>1, <2>2, BulkTimesKept DEF IInv, TakeLock
    <2>7. probed' \in [Tokens -> SUBSET Nat]
      BY <1>4 DEF IInv, TypeOK
    <2>4. CASE job[c].op \in {"token", "demand"}
      <3>1. OnDemand(j)
        BY <2>2, <2>4 DEF OnDemand
      <3>2. HolderOK'
        BY <1>2, <1>4, <2>3, <3>1 DEF HolderOK
      <3>3. TokenTimes'
        <4> SUFFICES ASSUME NEW t \in Tokens, NEW s \in probed'[t]
                     PROVE  /\ s <= now'
                            /\ s <= lastToken'[t]
                               \/ \E d \in Callers : TokenProber(job'[d], t)
          BY DEF TokenTimes
        <4>1. now' = now /\ now \in Nat /\ lastToken' = lastToken
          BY DEF TakeLock, IInv, TypeOK
        <4>2. CASE t \in job[c].todo
          <5>1. s = now
            BY <1>4, <4>2
          <5>2. job[c].op = "token"
            BY <1>1, <2>4, <4>2 DEF JobOK
          <5>3. TokenProber(job'[c], t)
            BY <2>2, <2>3, <4>2, <5>2 DEF TokenProber
          <5> QED BY <4>1, <5>1, <5>3
        <4>3. CASE t \notin job[c].todo
          <5>1. s \in probed[t]
            BY <1>4, <4>3
          <5>2. s <= now /\ s <= lastToken[t]
            BY <1>2, <5>1 DEF IInv, TokenTimes
          <5> QED BY <4>1, <5>2
        <4> QED BY <4>2, <4>3
      <3> QED BY <1>4, <2>3, <2>6, <2>7, <3>2, <3>3
             DEF IInv, TypeOK, TakeLock, countVars
    <2> QED BY <1>1, <2>4 DEF JobOK
  <1> QED BY <1>3, <1>4 DEF TakeLock

LEMMA ListOK ==
    ASSUME IInv, NEW c \in Callers, List(c)
    PROVE  IInv'
  <1> DEFINE available == {t \in Tokens : Manageable(rows[t])}
  <1>1. /\ job[c] \in Job /\ JobOK(job[c]) /\ job[c].stage = "list"
        /\ job[c].op = "demand" /\ OnDemand(job[c]) /\ ~BulkProber(job[c])
        /\ \A t \in Tokens : ~TokenProber(job[c], t)
    BY DEF IInv, TypeOK, JobsOK, List, JobOK, OnDemand, BulkProber, TokenProber
  <1>2. holder = c /\ now \in Nat /\ now' = now
    BY <1>1 DEF IInv, HolderOK, TypeOK, List
  <1>3. CASE /\ job' = [job EXCEPT ![c] = Idle]
             /\ holder' = Released(c)
             /\ lastBulk' = now
             /\ UNCHANGED bulkProbed
    <2>1. JobsOK' /\ job' \in [Callers -> Job]
      BY <1>3, IdleJob, JobChanged DEF IInv
    <2>2. HolderOK' /\ holder' \in Callers \cup {Nobody}
      BY <1>3, IdleJob, LockReleased DEF IInv
    <2>3. TokenTimes'
      BY <1>1, <1>3, IdleJob, TokenTimesKept DEF IInv, List
    <2>4. BulkTimes'
      BY <1>2, <1>3 DEF IInv, BulkTimes
    <2> QED BY <1>2, <1>3, <2>1, <2>2, <2>3, <2>4 DEF IInv, TypeOK, List, countVars
  <1>4. ASSUME NEW S \in SUBSET available,
               job' = [job EXCEPT ![c].stage = "probe", ![c].todo = S,
                                  ![c].rec = Captured(S)],
               bulkProbed' = {now},
               UNCHANGED <<holder, lastBulk>>
        PROVE  IInv'
    <2> DEFINE j == [job[c] EXCEPT !.stage = "probe", !.todo = S, !.rec = Captured(S)]
    <2>1. job' = [job EXCEPT ![c] = j]
      BY <1>4
    <2>2. Captured(S) \in [Tokens -> Account \cup {NoRow}]
          /\ \A t \in S : Captured(S)[t] \in Account
      BY DEF Captured, IInv, TypeOK
    <2>3. j \in Job /\ JobOK(j) /\ OnDemand(j) /\ BulkProber(j)
      BY <1>1, <2>2 DEF Job, Stages, JobOK, OnDemand, BulkProber
    <2> HIDE DEF j
    <2>4. JobsOK' /\ job' \in [Callers -> Job] /\ job'[c] = j
      BY <2>1, <2>3, JobChanged DEF IInv
    <2>5. HolderOK'
      BY <1>1, <1>4, <2>1, <2>3, LockKept DEF IInv
    <2>6. TokenTimes'
      BY <1>1, <2>1, <2>3, TokenTimesKept DEF IInv, List
    <2>7. BulkTimes'
      BY <1>2, <1>4, <2>3, <2>4 DEF BulkTimes
    <2> QED BY <1>2, <1>4, <2>4, <2>5, <2>6, <2>7 DEF IInv, TypeOK, List, countVars
  <1> QED BY <1>3, <1>4 DEF List

\* What the end of a part of a job leaves intact: all but the rows.
LEMMA ProceedOK ==
    ASSUME IInv, NEW c \in Callers, NEW t \in Tokens, NEW j \in Job,
           NEW refreshed \in BOOLEAN,
           t \in job[c].todo \cup job[c].clear,
           j.op = job[c].op, j.stage = job[c].stage, j.todo \subseteq job[c].todo,
           j.mode = job[c].mode, j.rec = job[c].rec,
           j.op = "token" => j.todo \cup j.clear = {},
           Proceed(c, t, j, refreshed),
           rows' \in [Tokens -> Account], UNCHANGED <<now, countVars>>
    PROVE  IInv'
  <1>1. job[c] \in Job /\ JobOK(job[c]) /\ now \in Nat
    BY DEF IInv, TypeOK, JobsOK
  <1>2. CASE j.todo \cup j.clear # {}
    <2>1. job' = [job EXCEPT ![c] = j] /\ UNCHANGED <<holder, throttleVars>>
      BY <1>2 DEF Proceed
    <2>2. JobOK(j) /\ (OnDemand(j) <=> OnDemand(job[c]))
          /\ (BulkProber(job[c]) => BulkProber(j))
          /\ \A u \in Tokens : ~TokenProber(job[c], u)
      BY <1>1, <1>2 DEF JobOK, OnDemand, BulkProber, TokenProber
    <2>3. JobsOK' /\ job' \in [Callers -> Job]
      BY <2>1, <2>2, JobChanged DEF IInv
    <2>4. HolderOK'
      BY <2>1, <2>2, LockKept DEF IInv
    <2>5. TokenTimes' /\ BulkTimes'
      BY <2>1, <2>2, TokenTimesKept, BulkTimesKept DEF IInv, throttleVars
    <2> QED BY <2>1, <2>3, <2>4, <2>5 DEF IInv, TypeOK, throttleVars, countVars
  <1>3. CASE j.todo \cup j.clear = {}
    <2>1. /\ job' = [job EXCEPT ![c] = Idle]
          /\ holder' = Released(c)
          /\ lastToken' = IF j.op = "token" THEN [lastToken EXCEPT ![t] = now] ELSE lastToken
          /\ lastBulk' = IF j.op = "demand" /\ j.stage = "probe" THEN now ELSE lastBulk
          /\ UNCHANGED <<bulkProbed, probed>>
      BY <1>3 DEF Proceed, BulkDone
    <2>2. /\ JobsOK' /\ job' \in [Callers -> Job]
          /\ job'[c] = Idle
          /\ \A d \in Callers : d # c => job'[d] = job[d]
      BY <2>1, IdleJob, JobChanged DEF IInv
    <2>3. HolderOK' /\ holder' \in Callers \cup {Nobody}
      BY <2>1, IdleJob, LockReleased DEF IInv
    <2>4. lastToken' \in [Tokens -> Nat] /\ lastBulk' \in Nat
      BY <1>1, <2>1 DEF IInv, TypeOK
    <2>5. TokenTimes'
      <3> SUFFICES ASSUME NEW u \in Tokens, NEW s \in probed[u]
                   PROVE  /\ s <= now
                          /\ s <= lastToken'[u]
                             \/ \E d \in Callers : TokenProber(job'[d], u)
        BY <2>1 DEF TokenTimes
      <3>1. s <= now /\ (s <= lastToken[u] \/ \E d \in Callers : TokenProber(job[d], u))
        BY DEF IInv, TokenTimes
      <3>2. CASE j.op = "token" /\ u = t
        BY <2>1, <3>1, <3>2 DEF IInv, TypeOK
      <3>3. CASE ~(j.op = "token" /\ u = t)
        <4>1. lastToken'[u] = lastToken[u]
          BY <2>1, <3>3 DEF IInv, TypeOK
        <4>2. ~TokenProber(job[c], u)
          BY <1>1, <3>3 DEF JobOK, TokenProber
        <4> QED BY <2>2, <3>1, <4>1, <4>2
      <3> QED BY <3>2, <3>3
    <2>6. BulkTimes'
      <3>1. CASE BulkProber(job[c])
        BY <2>1, <3>1 DEF IInv, BulkTimes, BulkProber
      <3>2. CASE ~BulkProber(job[c])
        BY <2>1, <2>2, <3>2 DEF IInv, BulkTimes, BulkProber
      <3> QED BY <3>1, <3>2
    <2> QED BY <2>1, <2>2, <2>3, <2>4, <2>5, <2>6 DEF IInv, TypeOK, countVars
  <1> QED BY <1>2, <1>3

LEMMA ProbeEndsOK ==
    ASSUME IInv, NEW c \in Callers, NEW t \in Tokens, ProbeEnds(c, t)
    PROVE  IInv'
  <1>1. job[c] \in Job /\ JobOK(job[c]) /\ rows \in [Tokens -> Account]
    BY DEF IInv, TypeOK, JobsOK
  <1>3. ASSUME NEW live \in SUBSET QuotaModes, NEW rem \in Answers,
               NEW tier \in UsedPools, EndProbe(c, t, live, rem, tier)
        PROVE  IInv'
    <2> DEFINE done == [job[c] EXCEPT !.todo = @ \ {t},
                          !.clear = IF job[c].op = "revive" /\ live # {}
                                    THEN @ \cup {t} ELSE @]
    <2>1. Proceed(c, t, done, live # {}) /\ UNCHANGED <<now, countVars>>
          /\ t \in job[c].todo
          /\ rows' = [rows EXCEPT ![t] = ProbedRow(@, job[c].rec[t],
                        job[c].op = "scheduled", live, rem, tier)]
      BY <1>3 DEF EndProbe
    <2>2. done \in Job /\ done.op = job[c].op /\ done.stage = job[c].stage
          /\ done.todo \subseteq job[c].todo
          /\ done.mode = job[c].mode /\ done.rec = job[c].rec
          /\ (done.op = "token" => done.todo \cup done.clear = {})
      BY <1>1, <2>1 DEF Job, JobOK
    <2>3. job[c].rec[t] \in Account
      BY <1>1, <2>1, <1>3 DEF EndProbe, JobOK
    <2>4. rows' \in [Tokens -> Account]
      BY <1>1, <2>1, <2>3, ProbedRowType
    <2> HIDE DEF done
    <2> QED BY <2>1, <2>2, <2>4, ProceedOK
  <1>4. ASSUME NEW live \in SUBSET QuotaModes, NEW rem \in Answers,
               EndCall(c, t, live, rem)
        PROVE  IInv'
    <2> DEFINE done == [job[c] EXCEPT !.todo = {}]
    <2>1. Proceed(c, t, done, FALSE) /\ UNCHANGED <<now, countVars>>
          /\ t \in job[c].todo /\ job[c].op = "call" /\ live \subseteq {job[c].mode}
          /\ rows' = [rows EXCEPT ![t].win[job[c].mode] =
                        IF live # {} THEN Live(rem[job[c].mode])
                        ELSE UsedWindow(job[c].rec[t].pool, job[c].mode,
                                        job[c].rec[t].win[job[c].mode], @)]
      BY <1>4 DEF EndCall
    <2>2. done \in Job /\ done.op = job[c].op /\ done.stage = job[c].stage
          /\ done.todo \subseteq job[c].todo /\ done.op # "token"
          /\ done.mode = job[c].mode /\ done.rec = job[c].rec
      BY <1>1, <2>1 DEF Job
    <2>3. job[c].rec[t] \in Account /\ job[c].mode \in QuotaModes
      BY <1>1, <1>4, <2>1 DEF EndCall, JobOK
    <2>4. rows' \in [Tokens -> Account]
      <3> DEFINE m == job[c].mode
                 w == IF live # {} THEN Live(rem[m])
                      ELSE UsedWindow(job[c].rec[t].pool, m, job[c].rec[t].win[m],
                                      rows[t].win[m])
      <3>1. w \in Window
        <4>1. /\ job[c].rec[t].pool \in Pools /\ job[c].rec[t].win[m] \in Window
              /\ rows[t].win[m] \in Window /\ rem[m] \in 0..MaxQuota
          BY <1>1, <2>3 DEF Account, Answers
        <4> QED BY <2>3, <4>1, WindowTypes
      <3>2. rows' = [rows EXCEPT ![t].win[m] = w]
        BY <2>1
      <3> HIDE DEF w
      <3> QED BY <1>1, <2>3, <3>1, <3>2 DEF Account
    <2> HIDE DEF done
    <2> QED BY <2>1, <2>2, <2>4, ProceedOK
  <1>5. CASE EndRejected(c, t)
    <2> DEFINE done == [job[c] EXCEPT !.todo = @ \ {t}]
    <2>1. Proceed(c, t, done, FALSE) /\ UNCHANGED <<now, countVars>>
          /\ t \in job[c].todo /\ rows' = [rows EXCEPT ![t] = Rejected(@)]
      BY <1>5 DEF EndRejected
    <2>2. done \in Job /\ done.op = job[c].op /\ done.stage = job[c].stage
          /\ done.todo \subseteq job[c].todo
          /\ done.mode = job[c].mode /\ done.rec = job[c].rec
          /\ (done.op = "token" => done.todo \cup done.clear = {})
      BY <1>1, <2>1 DEF Job, JobOK
    <2>3. rows' \in [Tokens -> Account]
      BY <1>1, <2>1 DEF Rejected, Account, Statuses
    <2> HIDE DEF done
    <2> QED BY <2>1, <2>2, <2>3, ProceedOK
  <1>6. CASE ClearFailures(c, t)
    <2> DEFINE done == [job[c] EXCEPT !.clear = @ \ {t}]
    <2>1. Proceed(c, t, done, TRUE) /\ UNCHANGED <<now, countVars>>
          /\ t \in job[c].clear /\ rows' = [rows EXCEPT ![t] = Cleared(@)]
      BY <1>6 DEF ClearFailures
    <2>2. done \in Job /\ done.op = job[c].op /\ done.stage = job[c].stage
          /\ done.todo \subseteq job[c].todo /\ done.op # "token"
          /\ done.mode = job[c].mode /\ done.rec = job[c].rec
      BY <1>1, <2>1 DEF Job, JobOK
    <2>3. rows' \in [Tokens -> Account]
      BY <1>1, <2>1 DEF Cleared, Account, Statuses
    <2> HIDE DEF done
    <2> QED BY <2>1, <2>2, <2>3, ProceedOK
  <1> QED BY <1>3, <1>4, <1>5, <1>6 DEF ProbeEnds

\* A job that a caller gives up on, or whose read fails.
LEMMA GivenUpOK ==
    ASSUME IInv, NEW c \in Callers, ReadFails(c) \/ Cancel(c)
    PROVE  IInv'
  <1>1. JobOK(job[c]) /\ job' = [job EXCEPT ![c] = Idle] /\ holder' = Released(c)
        /\ UNCHANGED <<rows, now, lastBulk, lastToken, probed>>
        /\ ops' \in Nat /\ faults' \in Nat /\ edits' \in Nat
    BY DEF ReadFails, Cancel, throttleVars, countVars, IInv, TypeOK, JobsOK
  <1>2. \A t \in Tokens : ~TokenProber(job[c], t)
    BY DEF ReadFails, Cancel, TokenProber
  <1>3. JobsOK' /\ job' \in [Callers -> Job] /\ job'[c] = Idle
        /\ \A d \in Callers : d # c => job'[d] = job[d]
    BY <1>1, IdleJob, JobChanged DEF IInv
  <1>4. HolderOK' /\ holder' \in Callers \cup {Nobody}
    BY <1>1, IdleJob, LockReleased DEF IInv
  <1>5. TokenTimes'
    BY <1>1, <1>2, IdleJob, TokenTimesKept DEF IInv
  <1>6. bulkProbed' \subseteq Nat /\ BulkTimes'
    <2>1. CASE bulkProbed' = {}
      BY <2>1 DEF BulkTimes
    <2>2. CASE bulkProbed' # {}
      <3>1. bulkProbed' = bulkProbed /\ ~BulkProber(job[c])
        BY <2>2 DEF ReadFails, Cancel, throttleVars, BulkProber
      <3> QED BY <1>1, <3>1, IdleJob, BulkTimesKept DEF IInv, TypeOK
    <2> QED BY <2>1, <2>2
  <1> QED BY <1>1, <1>3, <1>4, <1>5, <1>6 DEF IInv, TypeOK

LEMMA WriteFailsOK ==
    ASSUME IInv, NEW c \in Callers, NEW t \in Tokens, WriteFails(c, t)
    PROVE  IInv'
  <1>1. /\ job[c] \in Job /\ JobOK(job[c]) /\ job[c].stage \in {"probe", "orphan"}
        /\ t \in job[c].todo \cup job[c].clear
        /\ holder' = Released(c)
        /\ UNCHANGED <<rows, now, lastBulk, lastToken, ops, edits>>
        /\ faults' \in Nat
        /\ probed' = IF job[c].op = "token" THEN [probed EXCEPT ![t] = {}] ELSE probed
        /\ bulkProbed' = IF BulkProber(job[c]) THEN {} ELSE bulkProbed
    BY DEF WriteFails, ReleasedOnRaise, BulkProber, IInv, TypeOK, JobsOK
  <1>2. PICK S \in SUBSET (job[c].todo \ {t}) :
          job' = [job EXCEPT ![c] =
                   IF S \cup (job[c].clear \ {t}) = {} THEN Idle
                   ELSE [job[c] EXCEPT !.stage = "orphan", !.todo = S,
                                       !.clear = @ \ {t}]]
    BY DEF WriteFails
  <1> DEFINE j == IF S \cup (job[c].clear \ {t}) = {} THEN Idle
                  ELSE [job[c] EXCEPT !.stage = "orphan", !.todo = S,
                                      !.clear = @ \ {t}]
  <1>3. j \in Job /\ JobOK(j) /\ ~OnDemand(j)
    <2>1. CASE S \cup (job[c].clear \ {t}) = {}
      BY <2>1, IdleJob
    <2>2. CASE S \cup (job[c].clear \ {t}) # {}
      <3>1. job[c].op # "token"
        BY <1>1, <2>2 DEF JobOK
      <3>2. j = [job[c] EXCEPT !.stage = "orphan", !.todo = S, !.clear = @ \ {t}]
        BY <2>2
      <3> HIDE DEF j
      <3> QED BY <1>1, <3>1, <3>2 DEF Job, Stages, JobOK, OnDemand
    <2> QED BY <2>1, <2>2
  <1>4. job' = [job EXCEPT ![c] = j]
    BY <1>2
  <1> HIDE DEF j
  <1>5. JobsOK' /\ job' \in [Callers -> Job] /\ job'[c] = j
        /\ \A d \in Callers : d # c => job'[d] = job[d]
    BY <1>3, <1>4, JobChanged DEF IInv
  <1>6. HolderOK' /\ holder' \in Callers \cup {Nobody}
    BY <1>1, <1>3, <1>4, LockReleased DEF IInv
  <1>7. TokenTimes' /\ probed' \in [Tokens -> SUBSET Nat]
    <2>1. ASSUME NEW u \in Tokens, NEW s \in probed'[u]
          PROVE  s \in probed[u] /\ ~TokenProber(job[c], u)
      BY <1>1, <2>1 DEF IInv, TypeOK, JobOK, TokenProber
    <2>2. TokenTimes'
      BY <1>1, <1>5, <2>1 DEF IInv, TokenTimes
    <2> QED BY <1>1, <2>2 DEF IInv, TypeOK
  <1>8. BulkTimes' /\ bulkProbed' \subseteq Nat
    BY <1>1, <1>5 DEF IInv, TypeOK, BulkTimes
  <1> QED BY <1>1, <1>5, <1>6, <1>7, <1>8 DEF IInv, TypeOK

\* Rows and clock change behind the service's back.
LEMMA OutsideOK ==
    ASSUME IInv,
           Tick \/ \E t \in Tokens : Edit(t) \/ \E m \in QuotaModes : Elapse(t, m)
    PROVE  IInv'
  <1>1. rows \in [Tokens -> Account] /\ now \in Nat
    BY DEF IInv, TypeOK
  <1>2. UNCHANGED <<job, holder, throttleVars>>
    BY DEF Tick, Edit, Elapse
  <1>3. now' \in Nat /\ now <= now' /\ ops' \in Nat /\ faults' \in Nat /\ edits' \in Nat
    BY <1>1 DEF Tick, Edit, Elapse, countVars, IInv, TypeOK
  <1>4. rows' \in [Tokens -> Account]
    <2>1. CASE Tick
      BY <1>1, <2>1 DEF Tick
    <2>2. ASSUME NEW t \in Tokens, Edit(t) PROVE rows' \in [Tokens -> Account]
      <3>1. PICK pool \in UsedPools : \E row \in Edited(rows[t], pool) :
              rows' = [rows EXCEPT ![t] = row]
        BY <2>2 DEF Edit
      <3>2. ASSUME NEW row \in Edited(rows[t], pool) PROVE row \in Account
        <4>1. pool \in Pools /\ rows[t] \in Account /\ MaxQuota \in Nat
          BY <1>1, RefreshAssumption
        <4>2. CASE \/ \E s \in Statuses : row = [rows[t] EXCEPT !.status = s]
                   \/ row = [rows[t] EXCEPT !.deleted = TRUE]
          BY <4>1, <4>2 DEF Account
        <4>3. CASE row = [NewRow(pool) EXCEPT !.win =
                     [m \in QuotaModes |-> IF m = "console" THEN DefaultWindow(pool, m)
                                           ELSE rows[t].win[m]]]
          <5> DEFINE w == [m \in QuotaModes |-> IF m = "console"
                             THEN DefaultWindow(pool, m) ELSE rows[t].win[m]]
          <5>1. \A m \in QuotaModes : DefaultWindow(pool, m) \in Window
                                      /\ rows[t].win[m] \in Window
            BY <4>1 DEF DefaultWindow, Window, Sources, Resets, Account
          <5>2. w \in [QuotaModes -> Window]
            BY <5>1
          <5>3. row = [pool |-> pool, status |-> "active", deleted |-> FALSE, win |-> w]
            BY <4>3 DEF NewRow
          <5> HIDE DEF w
          <5> QED BY <4>1, <5>2, <5>3 DEF Account, Statuses
        <4> QED BY <4>2, <4>3 DEF Edited
      <3> QED BY <1>1, <3>1, <3>2
    <2>3. ASSUME NEW t \in Tokens, NEW m \in QuotaModes, Elapse(t, m)
          PROVE  rows' \in [Tokens -> Account]
      <3> DEFINE w == [rows[t].win[m] EXCEPT !.reset = "past"]
      <3>1. rows[t].win[m] \in Window /\ rows[t] \in Account
        BY <1>1 DEF Account
      <3>2. w \in Window
        BY <3>1 DEF Window, Resets
      <3>3. rows' = [rows EXCEPT ![t] = [rows[t] EXCEPT !.win = [rows[t].win EXCEPT ![m] = w]]]
        BY <2>3 DEF Elapse
      <3>4. [rows[t].win EXCEPT ![m] = w] \in [QuotaModes -> Window]
        BY <3>1, <3>2 DEF Account
      <3> HIDE DEF w
      <3>5. [rows[t] EXCEPT !.win = [rows[t].win EXCEPT ![m] = w]] \in Account
        BY <3>1, <3>4 DEF Account
      <3> QED BY <1>1, <3>3, <3>5
    <2> QED BY <2>1, <2>2, <2>3
  <1>5. TokenTimes' /\ BulkTimes'
    BY <1>1, <1>2, <1>3 DEF IInv, TypeOK, TokenTimes, BulkTimes, throttleVars
  <1> QED BY <1>2, <1>3, <1>4, <1>5
         DEF IInv, TypeOK, JobsOK, HolderOK, throttleVars

LEMMA NextOK ==
    ASSUME IInv, [Next]_vars
    PROVE  IInv'
  <1>1. ASSUME NEW c \in Callers, NEW t \in Tokens, NEW m \in QuotaModes,
               StartCall(c, t, m)
        PROVE  IInv'
    BY <1>1, BeginOK DEF StartCall, Ops
  <1>2. ASSUME NEW c \in Callers, NEW t \in Tokens, StartToken(c, t) PROVE IInv'
    BY <1>2, BeginOK DEF StartToken, Ops
  <1>3. ASSUME NEW c \in Callers, StartDemand(c) PROVE IInv'
    BY <1>3, BeginOK DEF StartDemand, Ops
  <1>4. ASSUME NEW c \in Callers, NEW o \in UsedLists, NEW S \in SUBSET Tokens,
               StartList(c, o, S)
        PROVE  IInv'
    <2>1. o \in ListOps
      BY RefreshAssumption
    <2> QED BY <1>4, <2>1, BeginOK DEF StartList, Ops, ListOps
  <1>5. CASE UNCHANGED vars
    BY <1>5 DEF vars, throttleVars, countVars, IInv, TypeOK, JobsOK, HolderOK,
                TokenTimes, BulkTimes
  <1> QED BY <1>1, <1>2, <1>3, <1>4, <1>5, ReadOK, TakeLockOK, ListOK, ProbeEndsOK,
             GivenUpOK, WriteFailsOK, OutsideOK DEF Next

\* The steps in which a job begins to list or to probe.
LEMMA BeginsToProbe ==
    ASSUME IInv, Next, NEW c \in Callers,
           job'[c].stage \in {"list", "probe"}, job'[c].stage # job[c].stage
    PROVE  Read(c) \/ TakeLock(c) \/ List(c)
  <1>1. job \in [Callers -> Job]
    BY DEF IInv, TypeOK
  <1>2. ASSUME NEW d \in Callers, NEW o, NEW m, NEW S, Begin(d, o, m, S) PROVE FALSE
    <2>1. \E j : j.stage \in {"lock", "read"} /\ job' = [job EXCEPT ![d] = j]
      BY <1>2 DEF Begin, Idle
    <2> QED BY <1>1, <2>1
  <1>3. ASSUME NEW d \in Callers, NEW t \in Tokens, ProbeEnds(d, t) PROVE FALSE
    <2>1. ASSUME NEW j, NEW b, j.stage = job[d].stage, Proceed(d, t, j, b) PROVE FALSE
      <3>1. job' = [job EXCEPT ![d] = j] \/ job' = [job EXCEPT ![d] = Idle]
        BY <2>1 DEF Proceed
      <3> QED BY <1>1, <2>1, <3>1, IdleJob
    <2>2. job[d] \in Job
      BY <1>1
    <2>3. /\ \A t2, k : [job[d] EXCEPT !.todo = t2, !.clear = k].stage = job[d].stage
          /\ \A t2 : [job[d] EXCEPT !.todo = t2].stage = job[d].stage
          /\ \A k : [job[d] EXCEPT !.clear = k].stage = job[d].stage
      BY <2>2 DEF Job
    <2>4. CASE \E live \in SUBSET QuotaModes, rem \in Answers, tier \in UsedPools :
                 EndProbe(d, t, live, rem, tier)
      <3>1. PICK live \in SUBSET QuotaModes, rem \in Answers, tier \in UsedPools :
              EndProbe(d, t, live, rem, tier)
        BY <2>4
      <3>2. Proceed(d, t, [job[d] EXCEPT !.todo = @ \ {t},
                             !.clear = IF job[d].op = "revive" /\ live # {}
                                       THEN @ \cup {t} ELSE @], live # {})
        BY <3>1 DEF EndProbe
      <3> QED BY <2>1, <2>3, <3>2
    <2>5. CASE \E live \in SUBSET QuotaModes, rem \in Answers : EndCall(d, t, live, rem)
      BY <2>1, <2>3, <2>5 DEF EndCall
    <2>6. CASE EndRejected(d, t)
      BY <2>1, <2>3, <2>6 DEF EndRejected
    <2>7. CASE ClearFailures(d, t)
      <3>1. Proceed(d, t, [job[d] EXCEPT !.clear = @ \ {t}], TRUE)
        BY <2>7 DEF ClearFailures
      <3> QED BY <2>1, <2>3, <3>1
    <2> QED BY <1>3, <2>4, <2>5, <2>6, <2>7 DEF ProbeEnds
  <1>4. ASSUME NEW d \in Callers, NEW t \in Tokens, WriteFails(d, t) PROVE FALSE
    <2>1. job[d] \in Job
      BY <1>1
    <2>2. \E j : j.stage \in {"idle", "orphan"} /\ job' = [job EXCEPT ![d] = j]
      <3>1. PICK S \in SUBSET (job[d].todo \ {t}) :
              job' = [job EXCEPT ![d] =
                       IF S \cup (job[d].clear \ {t}) = {} THEN Idle
                       ELSE [job[d] EXCEPT !.stage = "orphan", !.todo = S,
                                           !.clear = @ \ {t}]]
        BY <1>4 DEF WriteFails
      <3> DEFINE j == IF S \cup (job[d].clear \ {t}) = {} THEN Idle
                      ELSE [job[d] EXCEPT !.stage = "orphan", !.todo = S,
                                          !.clear = @ \ {t}]
      <3>2. j.stage \in {"idle", "orphan"}
        BY <2>1, IdleJob DEF Job
      <3>3. job' = [job EXCEPT ![d] = j]
        BY <3>1
      <3> HIDE DEF j
      <3> QED BY <3>2, <3>3
    <2> QED BY <1>1, <2>2
  <1>5. ASSUME NEW d \in Callers, ReadFails(d) \/ Cancel(d) PROVE FALSE
    <2>1. job' = [job EXCEPT ![d] = Idle]
      BY <1>5 DEF ReadFails, Cancel
    <2> QED BY <1>1, <2>1, IdleJob
  <1>6. ASSUME NEW d \in Callers, d # c, Read(d) \/ TakeLock(d) \/ List(d) PROVE FALSE
    <2>1. \E j : job' = [job EXCEPT ![d] = j]
      BY <1>6 DEF Read, TakeLock, List
    <2> QED BY <1>1, <1>6, <2>1
  <1>7. CASE Tick \/ \E t \in Tokens : Edit(t) \/ \E m \in QuotaModes : Elapse(t, m)
    BY <1>7 DEF Tick, Edit, Elapse
  <1> QED BY <1>2, <1>3, <1>4, <1>5, <1>6, <1>7
         DEF Next, StartCall, StartToken, StartDemand, StartList

\* A bulk refresh that lists the accounts has found the interval over, and
\* while it holds the lock nobody else sets the time.
ListDue == \A c \in Callers : job[c].stage = "list" => now >= lastBulk + MinInterval

\* The time of the last bulk refresh is set by one that ends.
LEMMA BulkTimeSet ==
    ASSUME IInv, Next
    PROVE  \/ lastBulk' = lastBulk
           \/ \E d \in Callers : OnDemand(job[d]) /\ job'[d] = Idle
  <1>1. job \in [Callers -> Job]
    BY DEF IInv, TypeOK
  <1>2. ASSUME NEW d \in Callers, NEW t, NEW j, NEW b,
               j.op = job[d].op, j.stage = job[d].stage, Proceed(d, t, j, b),
               lastBulk' # lastBulk
        PROVE  OnDemand(job[d]) /\ job'[d] = Idle
    BY <1>1, <1>2 DEF Proceed, throttleVars, OnDemand
  <1>3. ASSUME NEW d \in Callers, NEW t \in Tokens, ProbeEnds(d, t), lastBulk' # lastBulk
        PROVE  OnDemand(job[d]) /\ job'[d] = Idle
    <2>1. job[d] \in Job
      BY <1>1
    <2>2. /\ \A t2, k : LET j == [job[d] EXCEPT !.todo = t2, !.clear = k]
                       IN  j.op = job[d].op /\ j.stage = job[d].stage
          /\ \A t2 : LET j == [job[d] EXCEPT !.todo = t2]
                     IN  j.op = job[d].op /\ j.stage = job[d].stage
          /\ \A k : LET j == [job[d] EXCEPT !.clear = k]
                    IN  j.op = job[d].op /\ j.stage = job[d].stage
      BY <2>1 DEF Job
    <2>3. CASE \E live \in SUBSET QuotaModes, rem \in Answers, tier \in UsedPools :
                 EndProbe(d, t, live, rem, tier)
      <3>1. PICK live \in SUBSET QuotaModes, rem \in Answers, tier \in UsedPools :
              EndProbe(d, t, live, rem, tier)
        BY <2>3
      <3>2. Proceed(d, t, [job[d] EXCEPT !.todo = @ \ {t},
                             !.clear = IF job[d].op = "revive" /\ live # {}
                                       THEN @ \cup {t} ELSE @], live # {})
        BY <3>1 DEF EndProbe
      <3> QED BY <1>2, <1>3, <2>2, <3>2
    <2>4. CASE \E live \in SUBSET QuotaModes, rem \in Answers : EndCall(d, t, live, rem)
      BY <1>2, <1>3, <2>2, <2>4 DEF EndCall
    <2>5. CASE EndRejected(d, t)
      BY <1>2, <1>3, <2>2, <2>5 DEF EndRejected
    <2>6. CASE ClearFailures(d, t)
      BY <1>2, <1>3, <2>2, <2>6 DEF ClearFailures
    <2> QED BY <1>3, <2>3, <2>4, <2>5, <2>6 DEF ProbeEnds
  <1>4. ASSUME NEW d \in Callers, List(d), lastBulk' # lastBulk
        PROVE  OnDemand(job[d]) /\ job'[d] = Idle
    <2>1. job[d].op = "demand"
      BY <1>4 DEF List, IInv, JobsOK, JobOK
    <2> QED BY <1>1, <1>4, <2>1 DEF List, OnDemand
  <1> QED BY <1>3, <1>4
         DEF Next, StartCall, StartToken, StartDemand, StartList, Begin, Read, TakeLock,
             WriteFails, ReadFails, Cancel, Tick, Edit, Elapse, throttleVars

LEMMA ListDueOK ==
    ASSUME IInv, ListDue, [Next]_vars
    PROVE  ListDue'
  <1>1. CASE UNCHANGED vars
    BY <1>1 DEF vars, throttleVars, ListDue
  <1>2. CASE Next
    <2> SUFFICES ASSUME NEW c \in Callers, job'[c].stage = "list"
                 PROVE  now' >= lastBulk' + MinInterval
      BY DEF ListDue
    <2>1. now' \in Nat /\ lastBulk \in Nat /\ MinInterval \in Nat /\ now \in Nat /\ now' >= now
      <3>1. now' = now \/ Tick
        <4>1. ASSUME NEW d \in Callers, NEW t \in Tokens, ProbeEnds(d, t)
              PROVE  now' = now
          BY <4>1 DEF ProbeEnds, EndProbe, EndCall, EndRejected, ClearFailures
        <4>2. ASSUME NEW d \in Callers, NEW t \in Tokens, WriteFails(d, t)
              PROVE  now' = now
          BY <4>2 DEF WriteFails
        <4> QED BY <1>2, <4>1, <4>2
               DEF Next, StartCall, StartToken, StartDemand, StartList, Begin, Read,
                   TakeLock, List, ReadFails, Cancel, Edit, Elapse
      <3> QED BY <3>1, RefreshAssumption DEF Tick, IInv, TypeOK
    <2>2. CASE job[c].stage = "list"
      <3>1. OnDemand(job[c])
        BY <2>2 DEF IInv, JobsOK, JobOK, OnDemand
      <3>2. ASSUME NEW d \in Callers, OnDemand(job[d]), job'[d] = Idle PROVE FALSE
        BY <3>1, <3>2, IdleJob DEF IInv, HolderOK
      <3>3. lastBulk' = lastBulk
        BY <1>2, <3>2, BulkTimeSet
      <3> QED BY <2>1, <2>2, <3>3 DEF ListDue
    <2>3. CASE job[c].stage # "list"
      <3>1. TakeLock(c)
        <4>1. ~List(c)
          BY <2>3 DEF List
        <4>2. ASSUME Read(c) PROVE FALSE
          <5>1. job[c] \in Job /\ \E j : /\ j.stage \in {"idle", "lock", "probe"}
                                          /\ job' = [job EXCEPT ![c] = j]
            BY <4>2, IdleJob DEF Read, IInv, TypeOK, Job
          <5> QED BY <5>1 DEF IInv, TypeOK
        <4> QED BY <1>2, <2>3, <4>1, <4>2, BeginsToProbe
      <3>2. job[c] \in Job /\ job \in [Callers -> Job]
        BY DEF IInv, TypeOK
      <3>3. job' # [job EXCEPT ![c] = Idle]
        BY <3>2, IdleJob
      <3>4. job'[c] = [job[c] EXCEPT !.stage = IF job[c].op = "demand" THEN "list" ELSE "probe"]
        BY <3>1, <3>2, <3>3 DEF TakeLock
      <3>5. job[c].op = "demand"
        BY <3>2, <3>4 DEF Job
      <3>6. ~(now < lastBulk + MinInterval) /\ now' = now /\ lastBulk' = lastBulk
        BY <3>1, <3>3, <3>5 DEF TakeLock, StillThrottled, Throttled
      <3> QED BY <2>1, <3>6
    <2> QED BY <2>2, <2>3
  <1> QED BY <1>1, <1>2

-----------------------------------------------------------------------------
(* Theorems.                                                               *)

\* The inductive invariant of the refresh service.
THEOREM RefreshInvariant == Spec => []IInv
  BY InitOK, NextOK, PTL DEF Spec

\* Rows, jobs, lock and times always have their types.
THEOREM TypeCorrect == Spec => []TypeOK
  <1>1. IInv => TypeOK
    BY DEF IInv
  <1> QED BY <1>1, RefreshInvariant, PTL

\* _od_lock covers the whole of an on-demand refresh: no two of them list or
\* probe at a time.
THEOREM OnDemandIsExclusive == Spec => []OneOnDemand
  <1>1. IInv => OneOnDemand
    BY DEF IInv, HolderOK, OnDemand, OneOnDemand
  <1> QED BY <1>1, RefreshInvariant, PTL

\* However many requests fail on an account and wait for the lock, it is
\* probed for them once per interval.
THEOREM TokenProbesAreSpaced == Spec => TokenProbesSpaced
  <1> DEFINE Spaced == \A c \in Callers :
               job[c].stage = "lock" /\ job'[c].stage = "probe" =>
                 \A t \in job[c].todo : \A s \in probed[t] : now >= s + MinInterval
  <1>1. IInv /\ [Next]_vars => [Spaced]_vars
    <2> SUFFICES ASSUME IInv, Next, NEW c \in Callers,
                        job[c].stage = "lock", job'[c].stage = "probe",
                        NEW t \in job[c].todo, NEW s \in probed[t]
                 PROVE  now >= s + MinInterval
      BY DEF vars
    <2>1. TakeLock(c)
      BY BeginsToProbe DEF Read, List
    <2>2. holder = Nobody /\ job[c] \in Job /\ JobOK(job[c])
          /\ t \in Tokens /\ now \in Nat /\ lastToken[t] \in Nat /\ MinInterval \in Nat
          /\ s \in Nat
      BY <2>1, RefreshAssumption DEF TakeLock, LockFree, IInv, TypeOK, JobsOK, Job
    <2>3. ~(now < lastToken[t] + MinInterval)
      <3>1. job'[c] = [job[c] EXCEPT !.stage = IF job[c].op = "demand" THEN "list" ELSE "probe"]
        BY <2>1, IdleJob DEF TakeLock, IInv, TypeOK
      <3>2. job[c].op # "demand"
        BY <2>2, <3>1 DEF Job
      <3>3. job' # [job EXCEPT ![c] = Idle]
        BY IdleJob DEF IInv, TypeOK
      <3> QED BY <2>1, <3>2, <3>3 DEF TakeLock, StillThrottled, Throttled
    <2>4. s <= lastToken[t]
      BY <2>2, FreeLock DEF IInv, TokenTimes
    <2> QED BY <2>2, <2>3, <2>4
  <1> QED BY <1>1, RefreshInvariant, PTL DEF Spec, TokenProbesSpaced

\* A bulk refresh begins to probe once per interval.
THEOREM BulkProbesAreSpaced == Spec => BulkProbesSpaced
  <1> DEFINE Spaced == \A c \in Callers :
               job[c].stage = "list" /\ job'[c].stage = "probe" =>
                 \A s \in bulkProbed : now >= s + MinInterval
  <1>1. Init => ListDue
    BY DEF Init, ListDue, Idle
  <1>2. IInv /\ ListDue /\ [Next]_vars => ListDue'
    BY ListDueOK
  <1>3. IInv /\ ListDue /\ [Next]_vars => [Spaced]_vars
    <2> SUFFICES ASSUME IInv, ListDue, NEW c \in Callers, job[c].stage = "list",
                        NEW s \in bulkProbed
                 PROVE  now >= s + MinInterval
      BY DEF vars
    <2>1. OnDemand(job[c]) /\ ~BulkProber(job[c])
      BY DEF IInv, JobsOK, JobOK, OnDemand, BulkProber
    <2>2. \A d \in Callers : ~BulkProber(job[d])
      BY <2>1 DEF IInv, HolderOK, OnDemand, BulkProber
    <2>3. s <= lastBulk /\ now >= lastBulk + MinInterval
      BY <2>2 DEF IInv, BulkTimes, ListDue
    <2>4. s \in Nat /\ now \in Nat /\ lastBulk \in Nat /\ MinInterval \in Nat
      BY RefreshAssumption DEF IInv, TypeOK
    <2> QED BY <2>3, <2>4
  <1> QED BY <1>1, <1>2, <1>3, RefreshInvariant, PTL DEF Spec, BulkProbesSpaced

-----------------------------------------------------------------------------
(* The failure coalescer.                                                  *)

\* A flusher holds a batch only inside a flush.
BatchInFlush ==
    /\ stage["task"] \in {"sleep", "ended", "due"} => batch["task"] = {}
    /\ stage["stop"] \in {"sleep", "ended", "due"} => batch["stop"] = {}

CoalescerInv ==
    /\ CoalescerTypeOK
    /\ BatchInFlush
    /\ InOnePlace
    /\ \A t \in Tokens : fails[t] = Cardinality(On(stored, t))

-----------------------------------------------------------------------------
(* Counting.                                                               *)

\* The failures of an account among given ones are finite.
LEMMA OnFinite ==
    ASSUME NEW S, S \subseteq Failures, NEW t
    PROVE  IsFiniteSet(On(S, t)) /\ Cardinality(On(S, t)) \in Nat
  <1>1. On(S, t) \subseteq Failures
    BY DEF On
  <1>2. IsFiniteSet(On(S, t))
    BY <1>1, CoalescerAssumption, FS_Subset
  <1>. QED  BY <1>2, FS_CardinalityType

\* What a write adds to a counter is what it adds to the stored failures.
LEMMA StoreCounts ==
    ASSUME NEW S, NEW W, S \subseteq Failures, W \subseteq Failures,
           S \cap W = {}, NEW t
    PROVE  Cardinality(On(S \cup W, t))
             = Cardinality(On(S, t)) + Cardinality(On(W, t))
  <1>1. On(S \cup W, t) = On(S, t) \cup On(W, t)
    BY DEF On
  <1>2. On(S, t) \cap On(W, t) = {}
    BY DEF On
  <1>3. Cardinality(On(S, t) \cap On(W, t)) = 0
    BY <1>2, FS_EmptySet
  <1>4. IsFiniteSet(On(S, t)) /\ IsFiniteSet(On(W, t))
    BY OnFinite
  <1>5. Cardinality(On(S, t) \cup On(W, t))
          = Cardinality(On(S, t)) + Cardinality(On(W, t))
              - Cardinality(On(S, t) \cap On(W, t))
    BY <1>4, FS_Union
  <1>6. Cardinality(On(S, t)) \in Nat /\ Cardinality(On(W, t)) \in Nat
    BY OnFinite
  <1>7. \A a, b, c, d : a \in Nat /\ b \in Nat /\ c = 0 /\ d = a + b - c => d = a + b
    OBVIOUS
  <1>8. Cardinality(On(S, t) \cup On(W, t))
          = Cardinality(On(S, t)) + Cardinality(On(W, t))
    BY <1>3, <1>5, <1>6, <1>7
  <1>. QED  BY <1>1, <1>8

-----------------------------------------------------------------------------
(* The steps.                                                              *)

\* A buffer that has just been started satisfies the invariant.
THEOREM InitHolds == CoalescerInit => CoalescerInv
  <1>. SUFFICES ASSUME CoalescerInit PROVE CoalescerInv
    OBVIOUS
  <1>1. CoalescerTypeOK /\ BatchInFlush
    BY DEF CoalescerInit, CoalescerTypeOK, BatchInFlush, Flushers, FlushStages
  <1>2. InOnePlace
    BY CoalescerAssumption DEF CoalescerInit, InOnePlace, Recorded, Flushers
  <1>3. \A t \in Tokens : On(stored, t) = {}
    BY DEF CoalescerInit, On
  <1>4. \A t \in Tokens : fails[t] = Cardinality(On(stored, t))
    BY <1>3, FS_EmptySet DEF CoalescerInit
  <1>. QED  BY <1>1, <1>2, <1>4 DEF CoalescerInv

\* A failure that goes into the buffer keeps the invariant.
THEOREM EnqueueKeeps ==
    ASSUME CoalescerInv, NEW f \in Failures, NEW t \in Tokens, NEW is429 \in BOOLEAN,
           Enqueue(f, t, is429)
    PROVE  CoalescerInv'
  <1>1. CoalescerTypeOK' /\ BatchInFlush'
    BY DEF CoalescerInv, CoalescerTypeOK, BatchInFlush, Enqueue, flushVars, rowVars
  <1>2. Recorded' = Recorded \cup {f} /\ f \notin Recorded
    BY CoalescerAssumption DEF CoalescerInv, CoalescerTypeOK, Enqueue, Recorded
  <1>3. InOnePlace'
    BY <1>2 DEF CoalescerInv, InOnePlace, Enqueue, flushVars, rowVars
  <1>4. \A x \in Tokens : On(stored, x)' = On(stored, x)
    BY <1>2 DEF CoalescerInv, CoalescerTypeOK, InOnePlace, Enqueue, On, rowVars
  <1>5. \A x \in Tokens : fails'[x] = Cardinality(On(stored, x)')
    BY <1>4 DEF CoalescerInv, Enqueue, rowVars
  <1>. QED  BY <1>1, <1>3, <1>5 DEF CoalescerInv

\* Taking a batch keeps the invariant: the batch was empty.
THEOREM TakeBatchKeeps ==
    ASSUME CoalescerInv, NEW a \in Flushers, TakeBatch(a)
    PROVE  CoalescerInv'
  <1>1. CoalescerTypeOK'
    BY DEF CoalescerInv, CoalescerTypeOK, TakeBatch, LeftPending, Flushers, FlushStages,
           rowVars
  <1>2. batch[a] = {}
    BY DEF CoalescerInv, CoalescerTypeOK, BatchInFlush, TakeBatch, Flushers
  <1>3. BatchInFlush'
    BY <1>2 DEF CoalescerInv, CoalescerTypeOK, BatchInFlush, TakeBatch, Flushers
  <1>4. Recorded' = Recorded /\ stored' = stored /\ cleared' = cleared
        /\ dropped' = dropped /\ account' = account /\ fails' = fails
    BY DEF TakeBatch, Recorded, rowVars
  <1>5. InOnePlace'
    <2>1. CASE pending = {}
      BY <1>4, <2>1 DEF CoalescerInv, InOnePlace, TakeBatch
    <2>2. CASE pending # {} /\ a = "task"
      BY <1>2, <1>4, <2>2 DEF CoalescerInv, CoalescerTypeOK, InOnePlace, TakeBatch,
                              LeftPending, Flushers
    <2>3. CASE pending # {} /\ a = "stop"
      BY <1>2, <1>4, <2>3 DEF CoalescerInv, CoalescerTypeOK, InOnePlace, TakeBatch,
                              LeftPending, Flushers
    <2>. QED  BY <2>1, <2>2, <2>3 DEF Flushers
  <1>6. \A x \in Tokens : fails'[x] = Cardinality(On(stored, x)')
    BY <1>4 DEF CoalescerInv, On
  <1>. QED  BY <1>1, <1>3, <1>5, <1>6 DEF CoalescerInv

\* Reading the quotas keeps the invariant.
THEOREM ReadQuotaKeeps ==
    ASSUME CoalescerInv, NEW a \in Flushers, ReadQuota(a)
    PROVE  CoalescerInv'
  BY DEF CoalescerInv, CoalescerTypeOK, BatchInFlush, InOnePlace, Recorded, On, ReadQuota,
         Flushers, FlushStages, bufferVars, rowVars

\* A write keeps the invariant: the batch moves to the counters, or away.
THEOREM WriteBatchKeeps ==
    ASSUME CoalescerInv, NEW a \in Flushers, WriteBatch(a)
    PROVE  CoalescerInv'
  <1> DEFINE written == {f \in batch[a] : account[f] \in known}
  <1>1. /\ written \subseteq batch[a] /\ batch[a] \subseteq Failures
        /\ stored \cap written = {} /\ stored \subseteq Failures
    BY DEF CoalescerInv, CoalescerTypeOK, InOnePlace, Flushers
  <1>2. /\ stored' = stored \cup written
        /\ dropped' = dropped \cup (batch[a] \ written)
        /\ fails' = [t \in Tokens |-> fails[t] + Cardinality(On(written, t))]
        /\ account' = account /\ pending' = pending /\ cleared' = cleared
        /\ batch' = [batch EXCEPT ![a] = {}]
    BY DEF WriteBatch, bufferVars
  <1>3. \A t \in Tokens : On(stored', t) = On(stored, t)'
    BY <1>2 DEF On
  <1>4. \A t \in Tokens : fails'[t] = Cardinality(On(stored, t)')
    <2>. SUFFICES ASSUME NEW t \in Tokens
                  PROVE  fails'[t] = Cardinality(On(stored, t)')
      OBVIOUS
    <2>1. fails'[t] = Cardinality(On(stored, t)) + Cardinality(On(written, t))
      BY <1>2 DEF CoalescerInv
    <2>2. Cardinality(On(stored \cup written, t))
            = Cardinality(On(stored, t)) + Cardinality(On(written, t))
      BY <1>1, StoreCounts
    <2>. QED  BY <1>2, <1>3, <2>1, <2>2
  <1>5. fails' \in [Tokens -> Nat]
    <2>1. \A t \in Tokens : fails[t] + Cardinality(On(written, t)) \in Nat
      <3>1. written \subseteq Failures
        BY <1>1
      <3>. QED  BY <3>1, OnFinite DEF CoalescerInv, CoalescerTypeOK
    <2>. QED  BY <1>2, <2>1
  <1>6. stage' \in [Flushers -> FlushStages] /\ batch' \in [Flushers -> SUBSET Failures]
    BY <1>2 DEF CoalescerInv, CoalescerTypeOK, WriteBatch, AfterFlush, Flushers, FlushStages
  <1>7. CoalescerTypeOK'
    BY <1>1, <1>2, <1>5, <1>6 DEF CoalescerInv, CoalescerTypeOK, WriteBatch, bufferVars
  <1>8. BatchInFlush'
    BY <1>2 DEF CoalescerInv, CoalescerTypeOK, BatchInFlush, WriteBatch, AfterFlush,
                Flushers
  <1>9. InOnePlace'
    <2>. HIDE DEF written
    <2>1. Recorded' = Recorded
      BY <1>2 DEF Recorded
    <2>2. CASE a = "task"
      BY <1>1, <1>2, <2>1, <2>2 DEF CoalescerInv, CoalescerTypeOK, InOnePlace, Flushers
    <2>3. CASE a = "stop"
      BY <1>1, <1>2, <2>1, <2>3 DEF CoalescerInv, CoalescerTypeOK, InOnePlace, Flushers
    <2>. QED  BY <2>2, <2>3 DEF Flushers
  <1>. QED  BY <1>4, <1>7, <1>8, <1>9 DEF CoalescerInv

\* A write that fails keeps the invariant: the batch is dropped.
THEOREM FailWriteKeeps ==
    ASSUME CoalescerInv, NEW a \in Flushers, FailWrite(a)
    PROVE  CoalescerInv'
  <1>1. /\ dropped' = dropped \cup batch[a] /\ batch' = [batch EXCEPT ![a] = {}]
        /\ account' = account /\ pending' = pending /\ cleared' = cleared
        /\ stored' = stored /\ fails' = fails
    BY DEF FailWrite, bufferVars, rowVars
  <1>2. CoalescerTypeOK'
    BY DEF CoalescerInv, CoalescerTypeOK, FailWrite, AfterFlush, Flushers, FlushStages,
           bufferVars, rowVars
  <1>3. BatchInFlush'
    BY <1>1 DEF CoalescerInv, CoalescerTypeOK, BatchInFlush, FailWrite, AfterFlush, Flushers
  <1>4. InOnePlace'
    <2>1. Recorded' = Recorded
      BY <1>1 DEF Recorded
    <2>2. CASE a = "task"
      BY <1>1, <2>1, <2>2 DEF CoalescerInv, CoalescerTypeOK, InOnePlace, Flushers
    <2>3. CASE a = "stop"
      BY <1>1, <2>1, <2>3 DEF CoalescerInv, CoalescerTypeOK, InOnePlace, Flushers
    <2>. QED  BY <2>2, <2>3 DEF Flushers
  <1>5. \A x \in Tokens : fails'[x] = Cardinality(On(stored, x)')
    BY <1>1 DEF CoalescerInv, On
  <1>. QED  BY <1>2, <1>3, <1>4, <1>5 DEF CoalescerInv

\* The cancellation keeps the invariant: the task's batch is dropped or is
\* still being written.
THEOREM StopKeeps ==
    ASSUME CoalescerInv, Stop
    PROVE  CoalescerInv'
  <1>1. /\ account' = account /\ pending' = pending /\ cleared' = cleared
        /\ stored' = stored /\ fails' = fails /\ Recorded' = Recorded
    BY DEF Stop, bufferVars, rowVars, Recorded
  <1>2. \/ batch' = batch /\ dropped' = dropped
        \/ /\ batch' = [batch EXCEPT !["task"] = {}]
           /\ dropped' = dropped \cup batch["task"]
    BY DEF Stop
  <1>3. CoalescerTypeOK'
    BY DEF CoalescerInv, CoalescerTypeOK, Stop, Flushers, FlushStages, bufferVars,
           rowVars, Recorded
  <1>4. BatchInFlush'
    BY DEF CoalescerInv, CoalescerTypeOK, BatchInFlush, Stop, Flushers
  <1>5. InOnePlace'
    BY <1>1, <1>2 DEF CoalescerInv, CoalescerTypeOK, InOnePlace, Flushers
  <1>6. \A x \in Tokens : fails'[x] = Cardinality(On(stored, x)')
    BY <1>1 DEF CoalescerInv, On
  <1>. QED  BY <1>3, <1>4, <1>5, <1>6 DEF CoalescerInv

\* The other writers keep the invariant: an account is added, a counter is
\* reset with the failures it counts, another worker counts one more.
THEOREM OthersKeep ==
    ASSUME CoalescerInv, \E t \in Tokens : Add(t) \/ Clear(t) \/ \E f \in Failures : OtherWorker(f, t)
    PROVE  CoalescerInv'
  <1>1. PICK t \in Tokens : Add(t) \/ Clear(t) \/ \E f \in Failures : OtherWorker(f, t)
    OBVIOUS
  <1>2. CASE Add(t)
    BY <1>2 DEF CoalescerInv, CoalescerTypeOK, BatchInFlush, InOnePlace, Recorded, On, Add,
                bufferVars, flushVars
  <1>3. CASE Clear(t)
    <2>1. /\ stored' = stored \ On(stored, t) /\ cleared' = cleared \cup On(stored, t)
          /\ fails' = [fails EXCEPT ![t] = 0] /\ account' = account
          /\ pending' = pending /\ batch' = batch /\ dropped' = dropped
          /\ stage' = stage /\ Recorded' = Recorded
      BY <1>3 DEF Clear, ResetCount, bufferVars, flushVars, Recorded
    <2>2. On(stored, t) \subseteq stored
      BY DEF On
    <2>3. CoalescerTypeOK' /\ BatchInFlush'
      BY <1>3, <2>1, <2>2 DEF CoalescerInv, CoalescerTypeOK, BatchInFlush, Clear,
                              bufferVars, flushVars
    <2>4. InOnePlace'
      <3>1. \A s : s = On(stored, t) => InOnePlace'
        BY <2>1, <2>2 DEF CoalescerInv, InOnePlace
      <3>. QED  BY <3>1
    <2>5. On(stored, t)' = {}
      BY <2>1 DEF On
    <2>6. \A x \in Tokens \ {t} : On(stored, x)' = On(stored, x)
      BY <2>1 DEF On
    <2>7. \A x \in Tokens : fails'[x] = Cardinality(On(stored, x)')
      BY <2>1, <2>5, <2>6, FS_EmptySet DEF CoalescerInv, CoalescerTypeOK
    <2>. QED  BY <2>3, <2>4, <2>7 DEF CoalescerInv
  <1>4. ASSUME NEW f \in Failures, OtherWorker(f, t) PROVE CoalescerInv'
    <2>1. /\ f \notin Recorded /\ account' = [account EXCEPT ![f] = t]
          /\ fails' = [fails EXCEPT ![t] = @ + 1] /\ stored' = stored \cup {f}
          /\ pending' = pending /\ batch' = batch /\ dropped' = dropped
          /\ stage' = stage /\ cleared' = cleared
      BY <1>4 DEF OtherWorker, flushVars
    <2>2. Recorded' = Recorded \cup {f}
      BY <2>1, CoalescerAssumption DEF CoalescerInv, CoalescerTypeOK, Recorded
    <2>3. f \notin stored /\ stored \subseteq Recorded /\ stored \subseteq Failures
      BY <2>1 DEF CoalescerInv, CoalescerTypeOK, InOnePlace
    <2>4. CoalescerTypeOK' /\ BatchInFlush'
      BY <1>4, <2>1 DEF CoalescerInv, CoalescerTypeOK, BatchInFlush, OtherWorker, flushVars
    <2>5. InOnePlace'
      BY <2>1, <2>2 DEF CoalescerInv, InOnePlace
    <2>6. \A x \in Tokens \ {t} : On(stored, x)' = On(stored, x)
      BY <2>1, <2>3 DEF CoalescerInv, CoalescerTypeOK, On
    <2>7. On(stored, t)' = On(stored, t) \cup {f} /\ f \notin On(stored, t)
      BY <2>1, <2>3 DEF CoalescerInv, CoalescerTypeOK, On
    <2>8. Cardinality(On(stored, t) \cup {f}) = Cardinality(On(stored, t)) + 1
      BY <2>3, <2>7, OnFinite, FS_AddElement
    <2>9. \A x \in Tokens : fails'[x] = Cardinality(On(stored, x)')
      BY <2>1, <2>6, <2>7, <2>8 DEF CoalescerInv, CoalescerTypeOK
    <2>. QED  BY <2>4, <2>5, <2>9 DEF CoalescerInv
  <1>. QED  BY <1>1, <1>2, <1>3, <1>4

\* Every step keeps the invariant.
THEOREM NextKeeps == CoalescerInv /\ [CoalescerNext]_coalescerVars => CoalescerInv'
  <1>. SUFFICES ASSUME CoalescerInv, [CoalescerNext]_coalescerVars PROVE CoalescerInv'
    OBVIOUS
  <1>1. CASE \E f \in Failures, t \in Tokens, is429 \in BOOLEAN : Enqueue(f, t, is429)
    BY <1>1, EnqueueKeeps
  <1>2. CASE \E a \in Flushers : TakeBatch(a) \/ ReadQuota(a) \/ WriteBatch(a) \/ FailWrite(a)
    BY <1>2, TakeBatchKeeps, ReadQuotaKeeps, WriteBatchKeeps, FailWriteKeeps
  <1>3. CASE Stop
    BY <1>3, StopKeeps
  <1>4. CASE (\E t \in Tokens : Add(t) \/ Clear(t))
             \/ \E f \in Failures, t \in Tokens : OtherWorker(f, t)
    BY <1>4, OthersKeep
  <1>5. CASE UNCHANGED coalescerVars
    BY <1>5 DEF coalescerVars, bufferVars, flushVars, rowVars, CoalescerInv,
                CoalescerTypeOK, BatchInFlush,
                InOnePlace, Recorded, On
  <1>. QED  BY <1>1, <1>2, <1>3, <1>4, <1>5 DEF CoalescerNext

\* The invariant of the coalescer holds in every reachable state.
THEOREM CoalescerInvariant == CoalescerSpec => []CoalescerInv
  BY InitHolds, NextKeeps, PTL DEF CoalescerSpec

-----------------------------------------------------------------------------
(* What follows from it.                                                   *)

\* Type correctness of the buffer, its flushes and the counters.
THEOREM CoalescerTypeCorrect == CoalescerSpec => []CoalescerTypeOK
  <1>1. CoalescerInv => CoalescerTypeOK
    BY DEF CoalescerInv
  <1>. QED  BY <1>1, CoalescerInvariant, PTL

\* Between enqueue and the counter no failure is lost without a trace and
\* none is counted twice (_flush, patch_accounts, stop).
THEOREM EveryFailureCounted == CoalescerSpec => []FailuresConserved
  <1>1. CoalescerInv => FailuresConserved
    BY DEF CoalescerInv, FailuresConserved
  <1>. QED  BY <1>1, CoalescerInvariant, PTL
=============================================================================
