----------------------- MODULE AccountDirectoryProofs -----------------------
(***************************************************************************)
(* What holds of AccountDirectory for any accounts, requests, models and   *)
(* limits.  The inductive invariant adds to the properties that a request  *)
(* holds a lease exactly in the stages between a reservation and the end   *)
(* of its attempt: without it a second reservation could overwrite a lease *)
(* and the count of its slot would never come down.                        *)
(***************************************************************************)
EXTENDS AccountDirectory, FiniteSetTheorems, TLAPS

-----------------------------------------------------------------------------
(* The table: what a page of rows makes of the slots and of the index, as   *)
(* AccountSyncProofs has it of a worker.                                    *)

LEMMA SlotOfType ==
    ASSUME NEW row \in Row
    PROVE  SlotOf(row) \in Slot /\ SlotOf(row).status = row.status
  <1>1. SlotWindows(row) \in SUBSET Modes
    BY DEF SlotWindows, Row, Modes
  <1>. QED
    BY <1>1 DEF SlotOf, Slot, SlotStatuses, Row

LEMMA AppliedSlotType ==
    ASSUME NEW old \in Slot \cup {NoSlot}, NEW row \in Row
    PROVE  AppliedSlot(old, row) \in Slot \cup {NoSlot}
  <1>1. CASE row.deleted
    BY <1>1 DEF AppliedSlot, Slot, SlotStatuses
  <1>2. CASE ~row.deleted
    BY <1>2, SlotOfType DEF AppliedSlot
  <1>. QED
    BY <1>1, <1>2

LEMMA ReindexedType ==
    \A a, old, new, ts :
        Reindexed(a, old, new, ts) \in [Pools \X Modes -> SUBSET Tokens]
  BY DEF Reindexed

LEMMA AppliedSlotsType ==
    ASSUME NEW old \in [Tokens -> Slot \cup {NoSlot}], NEW pg \in Page
    PROVE  /\ AppliedSlots(old, pg) \in [Tokens -> Slot \cup {NoSlot}]
           /\ \A t \in Tokens \ Got(pg) : AppliedSlots(old, pg)[t] = old[t]
           /\ Got(pg) \in SUBSET Tokens
  <1>1. ASSUME NEW t \in Got(pg)
        PROVE  t \in Tokens /\ AppliedSlot(old[t], pg[t]) \in Slot \cup {NoSlot}
    <2>1. t \in Tokens /\ old[t] \in Slot \cup {NoSlot} /\ pg[t] \in Row
      BY DEF Got, Page
    <2>. QED
      BY <2>1, AppliedSlotType
  <1>. QED
    BY <1>1 DEF AppliedSlots, Got

\* The effect of _remove_from_indexes and _add_to_indexes on a whole page:
\* an exact index of the old slots becomes an exact index of the new ones.
LEMMA ReindexExact ==
    ASSUME NEW a, NEW ts \in SUBSET Tokens,
           NEW old \in [Tokens -> Slot \cup {NoSlot}],
           NEW new \in [Tokens -> Slot \cup {NoSlot}],
           \A t \in Tokens \ ts : new[t] = old[t],
           \A k \in Pools \X Modes :
              a[k] = {t \in Tokens : k \in IndexKeys(old[t])},
           NEW k \in Pools \X Modes
    PROVE  Reindexed(a, old, new, ts)[k]
              = {t \in Tokens : k \in IndexKeys(new[t])}
  <1>1. ASSUME NEW t \in Tokens, k \in IndexKeys(old[t])
        PROVE  old[t] # NoSlot /\ old[t].pool = k[1]
    BY <1>1 DEF IndexKeys
  <1>2. Reindexed(a, old, new, ts)[k] =
            {t \in Tokens :
                \/ t \in ts /\ k \in IndexKeys(new[t])
                \/ /\ t \in a[k]
                   /\ t \in ts /\ old[t] # NoSlot => old[t].pool # k[1]}
    BY DEF Reindexed
  <1>. QED
    BY <1>1, <1>2

\* The same for a page of rows.
LEMMA PageIndexExact ==
    ASSUME NEW a, NEW old \in [Tokens -> Slot \cup {NoSlot}], NEW pg \in Page,
           \A k \in Pools \X Modes :
              a[k] = {t \in Tokens : k \in IndexKeys(old[t])}
    PROVE  \A k \in Pools \X Modes :
              Reindexed(a, old, AppliedSlots(old, pg), Got(pg))[k]
                 = {t \in Tokens : k \in IndexKeys(AppliedSlots(old, pg)[t])}
  BY AppliedSlotsType, ReindexExact

-----------------------------------------------------------------------------
(* The directory.                                                           *)

LeaseByStage ==
    \A r \in Requests : lease[r] # NoLease <=> stage[r] \in {"handoff", "run"}

\* A lease is only given for an account that has a slot; slots stay.
HeldSlots == \A r \in Requests : lease[r] # NoLease => slots[lease[r].token] # NoSlot

IInv ==
    /\ TypeOK
    /\ LeaseByStage
    /\ HeldSlots
    /\ IndexExact
    /\ InflightConserved
    /\ NeverTheSameAccount

LeaseModes == QuotaModes \cup {"any"}

LEMMA QuotaModesAreModes == QuotaModes \subseteq Modes
  BY DirectoryAssumption DEF QuotaModes

LEMMA CandidateModes ==
    /\ RequestModes \in Seq(LeaseModes)
    /\ <<"any">> \in Seq(LeaseModes)
  <1>1. RequestModes \in Seq(QuotaModes)
    BY DirectoryAssumption DEF QuotaModes
  <1>. QED
    BY <1>1 DEF LeaseModes

\* An index of active slots: what the buckets of a pool hold is active and in
\* that pool.
LEMMA PoolUnionServable ==
    ASSUME TypeOK, IndexExact, NEW pool \in Pools, NEW t \in PoolUnion(pool)
    PROVE  /\ t \in Tokens
           /\ slots[t] # NoSlot
           /\ slots[t].status = "active"
           /\ slots[t].pool = pool
  <1>1. PICK m \in Modes : t \in avail[<<pool, m>>]
    BY DEF PoolUnion
  <1>2. <<pool, m>> \in Pools \X Modes
    OBVIOUS
  <1>3. t \in Tokens /\ <<pool, m>> \in IndexKeys(slots[t])
    BY <1>1, <1>2 DEF IndexExact
  <1>. QED
    BY <1>3 DEF IndexKeys

LEMMA PoolUnionType ==
    ASSUME TypeOK, NEW pool \in Pools
    PROVE  PoolUnion(pool) \subseteq Tokens
  <1>1. ASSUME NEW m \in Modes
        PROVE  avail[<<pool, m>>] \subseteq Tokens
    <2>1. <<pool, m>> \in Pools \X Modes
      OBVIOUS
    <2>. QED
      BY <2>1 DEF TypeOK
  <1>. QED
    BY <1>1 DEF PoolUnion

LEMMA EligibleAccounts ==
    ASSUME TypeOK, NEW r \in Requests, NEW pool \in Pools,
           NEW mode \in LeaseModes, NEW t \in Eligible(r, pool, mode)
    PROVE  /\ t \in PoolUnion(pool)
           /\ t \notin excluded[r]
           /\ strategy # "quota" => Unloaded(t)
  <1>1. mode # "any" => mode \in Modes
    BY QuotaModesAreModes DEF LeaseModes
  <1>2. mode # "any" => avail[<<pool, mode>>] \subseteq PoolUnion(pool)
    BY <1>1 DEF PoolUnion
  <1>3. strategy \in {"quota", "random", "fast"}
    BY DirectoryAssumption DEF TypeOK
  <1>4. QuotaEligible(pool, mode) \subseteq PoolUnion(pool)
    BY <1>2 DEF QuotaEligible
  <1>5. FastEligible(pool, mode) \subseteq {u \in PoolUnion(pool) : Unloaded(u)}
    BY <1>2 DEF FastEligible
  <1>6. RandomEligible(pool) = {u \in PoolUnion(pool) : Unloaded(u)}
    BY DEF RandomEligible
  <1>. QED
    BY <1>3, <1>4, <1>5, <1>6 DEF Eligible

LEMMA RenewType ==
    ASSUME TypeOK, NEW r, NEW modes, RenewWindows(r, modes)
    PROVE  /\ quota' \in [Tokens -> [QuotaModes -> 0 .. MaxQuota]]
           /\ due' \in SUBSET (Tokens \X QuotaModes)
  <1>1. MaxQuota \in 0 .. MaxQuota
    BY DirectoryAssumption
  <1>. DEFINE Qty(t, m) ==
         IF <<t, m>> \in Renewed(r, modes) THEN MaxQuota ELSE quota[t][m]
  <1>2. ASSUME NEW t \in Tokens, NEW m \in QuotaModes
        PROVE  Qty(t, m) \in 0 .. MaxQuota
    BY <1>1 DEF TypeOK
  <1>3. quota' = [t \in Tokens |-> [m \in QuotaModes |-> Qty(t, m)]]
    BY DEF RenewWindows
  <1>. HIDE DEF Qty
  <1>4. quota' \in [Tokens -> [QuotaModes -> 0 .. MaxQuota]]
    BY <1>2, <1>3
  <1>. QED
    BY <1>4 DEF RenewWindows, TypeOK

\* The effect of a reservation: one account, eligible and not tried before.
LEMMA ReserveEffect ==
    ASSUME TypeOK, NEW r \in Requests, NEW modes \in Seq(LeaseModes),
           Reserve(r, modes)
    PROVE  /\ \E pool \in Pools, t \in Tokens, m \in LeaseModes :
                 /\ \E i \in 1 .. Len(RequestPools) : pool = RequestPools[i]
                 /\ t \in PoolUnion(pool)
                 /\ t \notin excluded[r]
                 /\ strategy # "quota" => Unloaded(t)
                 /\ inflight' = [inflight EXCEPT ![t] = @ + 1]
                 /\ lease' = [lease EXCEPT ![r] = [token |-> t, mode |-> m]]
           /\ quota' \in [Tokens -> [QuotaModes -> 0 .. MaxQuota]]
           /\ due' \in SUBSET (Tokens \X QuotaModes)
           /\ UNCHANGED <<strategy, slots, avail, cooling, kind, left, excluded,
                          lost>>
  <1>1. PICK a \in Tried(r, modes) :
          \E t \in Eligible(r, RequestPools[a[2]], modes[a[1]]) :
             /\ inflight' = [inflight EXCEPT ![t] = @ + 1]
             /\ lease' = [lease EXCEPT ![r] = [token |-> t, mode |-> modes[a[1]]]]
    BY DEF Reserve
  <1>2. PICK t \in Eligible(r, RequestPools[a[2]], modes[a[1]]) :
             /\ inflight' = [inflight EXCEPT ![t] = @ + 1]
             /\ lease' = [lease EXCEPT ![r] = [token |-> t, mode |-> modes[a[1]]]]
    BY <1>1
  <1>3. a \in (1 .. Len(modes)) \X (1 .. Len(RequestPools))
    BY DEF Tried, Attempts
  <1>4. /\ modes[a[1]] \in LeaseModes
        /\ a[2] \in 1 .. Len(RequestPools)
        /\ RequestPools[a[2]] \in Pools
    BY <1>3, DirectoryAssumption
  <1>5. /\ t \in PoolUnion(RequestPools[a[2]])
        /\ t \notin excluded[r]
        /\ strategy # "quota" => Unloaded(t)
    BY <1>4, EligibleAccounts
  <1>6. t \in Tokens
    BY <1>4, <1>5, PoolUnionType
  <1>7. RenewWindows(r, modes)
    BY DEF Reserve
  <1>. QED
    BY <1>2, <1>4, <1>5, <1>6, <1>7, RenewType DEF Reserve

LEMMA NoAccountEffect ==
    ASSUME TypeOK, NEW r, NEW modes, NoAccount(r, modes)
    PROVE  /\ quota' \in [Tokens -> [QuotaModes -> 0 .. MaxQuota]]
           /\ due' \in SUBSET (Tokens \X QuotaModes)
           /\ UNCHANGED <<strategy, slots, avail, inflight, cooling, lease, lost>>
  BY RenewType DEF NoAccount

LEMMA EndsType ==
    ASSUME TypeOK, NEW r \in Requests, Ends(r)
    PROVE  /\ stage' \in [Requests -> Stages]
           /\ kind' \in [Requests -> Kinds \cup {"none"}]
           /\ left' \in [Requests -> Nat]
           /\ excluded' \in [Requests -> SUBSET Tokens]
  BY DEF Ends, TypeOK, Stages

LEMMA ExpiredType ==
    ASSUME TypeOK, NEW slot, NEW t, NEW mode
    PROVE  Expired(avail, slot, t, mode) \in [Pools \X Modes -> SUBSET Tokens]
  BY DEF Expired, TypeOK

LEMMA ExpiredSlotType ==
    ASSUME NEW slot \in Slot
    PROVE  [slot EXCEPT !.status = "expired"] \in Slot
  BY DEF Slot, SlotStatuses, Statuses

LEMMA FeedbackType ==
    ASSUME TypeOK, NEW t \in Tokens, slots[t] # NoSlot, NEW mode \in LeaseModes,
           NEW fk, Feedback(t, mode, fk)
    PROVE  /\ quota' \in [Tokens -> [QuotaModes -> 0 .. MaxQuota]]
           /\ cooling' \in SUBSET Tokens
           /\ slots' \in [Tokens -> Slot \cup {NoSlot}]
           /\ avail' \in [Pools \X Modes -> SUBSET Tokens]
           /\ \A u \in Tokens : slots[u] # NoSlot => slots'[u] # NoSlot
  <1>1. quota' \in [Tokens -> [QuotaModes -> 0 .. MaxQuota]]
    <2>1. ASSUME NEW n \in 0 .. MaxQuota
          PROVE  Spent(n) \in 0 .. MaxQuota /\ 0 \in 0 .. MaxQuota
      BY DirectoryAssumption DEF Spent
    <2>2. CASE quota' = quota
      BY <2>2 DEF TypeOK
    <2>3. CASE mode \in QuotaModes /\ quota' = [quota EXCEPT ![t][mode] = Spent(@)]
      BY <2>1, <2>3 DEF TypeOK
    <2>4. CASE mode \in QuotaModes /\ quota' = [quota EXCEPT ![t][mode] = 0]
      BY <2>1, <2>4 DEF TypeOK
    <2>. QED
      BY <2>2, <2>3, <2>4 DEF Feedback
  <1>2. cooling' \in SUBSET Tokens
    BY DEF Feedback, TypeOK
  <1>3. CASE UNCHANGED <<slots, avail>>
    BY <1>1, <1>2, <1>3 DEF TypeOK
  <1>4. CASE /\ slots' = [slots EXCEPT ![t].status = "expired"]
             /\ avail' = Expired(avail, slots[t], t, mode)
    <2>1. [slots[t] EXCEPT !.status = "expired"] \in Slot
      BY ExpiredSlotType DEF TypeOK
    <2>2. slots' = [slots EXCEPT ![t] = [slots[t] EXCEPT !.status = "expired"]]
      BY <1>4
    <2>3. /\ slots' \in [Tokens -> Slot \cup {NoSlot}]
          /\ \A u \in Tokens : slots[u] # NoSlot => slots'[u] # NoSlot
      BY <2>1, <2>2, TableAssumption DEF TypeOK
    <2>. QED
      BY <1>1, <1>2, <1>4, <2>3, ExpiredType
  <1>. QED
    BY <1>3, <1>4 DEF Feedback
\* The 401 of a request takes the slot out of every bucket it can be in.
LEMMA FeedbackIndexExact ==
    ASSUME TypeOK, IndexExact, NEW t \in Tokens, slots[t] # NoSlot,
           NEW mode, NEW fk, Feedback(t, mode, fk)
    PROVE  IndexExact'
  <1>1. CASE UNCHANGED <<slots, avail>>
    BY <1>1 DEF IndexExact
  <1>2. CASE /\ slots' = [slots EXCEPT ![t].status = "expired"]
             /\ avail' = Expired(avail, slots[t], t, mode)
    <2>. DEFINE gone == [slots[t] EXCEPT !.status = "expired"]
    <2>1. slots' = [slots EXCEPT ![t] = gone]
      BY <1>2
    <2>2. gone \in Slot /\ gone.status = "expired"
      BY ExpiredSlotType DEF TypeOK, Slot
    <2>3. slots'[t] = gone
      BY <2>1 DEF TypeOK
    <2>4. IndexKeys(slots'[t]) = {}
      BY <2>2, <2>3, TableAssumption DEF IndexKeys
    <2>5. \A u \in Tokens \ {t} : slots'[u] = slots[u]
      BY <2>1 DEF TypeOK
    <2>. HIDE DEF gone
    <2>6. SUFFICES ASSUME NEW k \in Pools \X Modes
                   PROVE  avail'[k] = {u \in Tokens : k \in IndexKeys(slots'[u])}
      BY DEF IndexExact
    <2>7. avail'[k] = IF k[1] = slots[t].pool THEN avail[k] \ {t} ELSE avail[k]
      BY <1>2 DEF Expired
    <2>8. avail[k] = {u \in Tokens : k \in IndexKeys(slots[u])}
      BY DEF IndexExact
    <2>9. k \in IndexKeys(slots[t]) => k[1] = slots[t].pool
      BY DEF IndexKeys
    <2>. QED
      BY <2>4, <2>5, <2>7, <2>8, <2>9
  <1>. QED
    BY <1>1, <1>2 DEF Feedback

LEMMA HeldLease ==
    ASSUME IInv, NEW r \in Requests, stage[r] \in {"handoff", "run"}
    PROVE  /\ lease[r] # NoLease
           /\ lease[r] \in Lease
           /\ lease[r].token \in Tokens
           /\ lease[r].mode \in LeaseModes
           /\ slots[lease[r].token] # NoSlot
  <1>1. lease[r] # NoLease
    BY DEF IInv, LeaseByStage
  <1>2. lease[r] \in Lease
    BY <1>1 DEF IInv, TypeOK
  <1>. QED
    BY <1>1, <1>2 DEF IInv, HeldSlots, Lease, LeaseModes

\* The effect of the end of an attempt on everything but the request itself.
LEMMA EndAttemptEffect ==
    ASSUME IInv, NEW r \in Requests, stage[r] = "run", NEW fk, EndAttempt(r, fk)
    PROVE  /\ inflight' = Released(lease[r].token)
           /\ inflight' \in [Tokens -> Nat]
           /\ lease' = [lease EXCEPT ![r] = NoLease]
           /\ quota' \in [Tokens -> [QuotaModes -> 0 .. MaxQuota]]
           /\ cooling' \in SUBSET Tokens
           /\ slots' \in [Tokens -> Slot \cup {NoSlot}]
           /\ avail' \in [Pools \X Modes -> SUBSET Tokens]
           /\ \A u \in Tokens : slots[u] # NoSlot => slots'[u] # NoSlot
           /\ IndexExact'
           /\ UNCHANGED <<strategy, due, lost>>
  <1>. DEFINE t == lease[r].token
  <1>1. t \in Tokens /\ lease[r].mode \in LeaseModes /\ slots[t] # NoSlot
    BY HeldLease
  <1>2. /\ inflight' = Released(t)
        /\ lease' = [lease EXCEPT ![r] = NoLease]
        /\ UNCHANGED <<strategy, due, lost>>
    BY DEF EndAttempt
  <1>3. inflight' \in [Tokens -> Nat]
    BY <1>1, <1>2 DEF Released, IInv, TypeOK
  <1>4. CASE UNCHANGED <<slots, avail, quota, cooling>>
    BY <1>2, <1>3, <1>4 DEF IInv, TypeOK, IndexExact
  <1>5. CASE Feedback(t, lease[r].mode, fk)
    <2>1. TypeOK /\ IndexExact
      BY DEF IInv
    <2>2. IndexExact'
      BY <1>1, <1>5, <2>1, FeedbackIndexExact
    <2>. QED
      BY <1>1, <1>2, <1>3, <1>5, <2>1, <2>2, FeedbackType
  <1>. QED
    BY <1>4, <1>5 DEF EndAttempt
LEMMA ReserveType ==
    ASSUME IInv, NEW r \in Requests, NEW modes \in Seq(LeaseModes),
           Reserve(r, modes)
    PROVE  /\ inflight' \in [Tokens -> Nat]
           /\ lease' \in [Requests -> Lease \cup {NoLease}]
           /\ quota' \in [Tokens -> [QuotaModes -> 0 .. MaxQuota]]
           /\ due' \in SUBSET (Tokens \X QuotaModes)
  <1>1. TypeOK
    BY DEF IInv
  <1>2. PICK t \in Tokens, m \in LeaseModes :
          /\ inflight' = [inflight EXCEPT ![t] = @ + 1]
          /\ lease' = [lease EXCEPT ![r] = [token |-> t, mode |-> m]]
    BY <1>1, ReserveEffect
  <1>3. [token |-> t, mode |-> m] \in Lease
    BY DEF Lease, LeaseModes
  <1>. QED
    BY <1>1, <1>2, <1>3, ReserveEffect DEF TypeOK

\* A page of rows leaves every slot there is.
LEMMA SyncEffect ==
    ASSUME IInv, NEW pg \in [Tokens -> SyncRows \cup {NoRow}], Sync(pg)
    PROVE  /\ slots' \in [Tokens -> Slot \cup {NoSlot}]
           /\ avail' \in [Pools \X Modes -> SUBSET Tokens]
           /\ quota' \in [Tokens -> [QuotaModes -> 0 .. MaxQuota]]
           /\ due' \in SUBSET (Tokens \X QuotaModes)
           /\ \A u \in Tokens : slots[u] # NoSlot => slots'[u] # NoSlot
           /\ IndexExact'
           /\ UNCHANGED <<strategy, inflight, cooling, requestVars, lost>>
  <1>. DEFINE live == {t \in Got(pg) : ~pg[t].deleted}
  <1>1. pg \in Page
    BY DirectoryAssumption DEF Page
  <1>2. slots \in [Tokens -> Slot \cup {NoSlot}]
    BY DEF IInv, TypeOK
  <1>3. /\ slots' = AppliedSlots(slots, pg)
        /\ avail' = Reindexed(avail, slots, AppliedSlots(slots, pg), Got(pg))
        /\ due' = due \ (live \X QuotaModes)
        /\ UNCHANGED <<strategy, inflight, cooling, requestVars, lost>>
    BY DEF Sync, SyncedInflight
  <1>4. slots' \in [Tokens -> Slot \cup {NoSlot}]
    BY <1>1, <1>2, <1>3, AppliedSlotsType
  <1>5. avail' \in [Pools \X Modes -> SUBSET Tokens]
    BY <1>3, ReindexedType
  <1>6. IndexExact'
    <2>1. \A k \in Pools \X Modes : avail[k] = {t \in Tokens : k \in IndexKeys(slots[t])}
      BY DEF IInv, IndexExact
    <2>. QED
      BY <1>1, <1>2, <1>3, <2>1, PageIndexExact DEF IndexExact
  <1>7. ASSUME NEW u \in Tokens, slots[u] # NoSlot
        PROVE  slots'[u] # NoSlot
    <2>1. CASE pg[u] = NoRow
      BY <1>3, <1>7, <2>1 DEF AppliedSlots
    <2>2. CASE pg[u] # NoRow
      <3>1. pg[u] \in Row /\ slots'[u] = AppliedSlot(slots[u], pg[u])
        BY <1>1, <1>3, <2>2 DEF AppliedSlots, Page
      <3>2. slots[u] \in Slot
        BY <1>2, <1>7
      <3>3. AppliedSlot(slots[u], pg[u]) \in Slot
        BY <1>7, <3>1, <3>2, SlotOfType DEF AppliedSlot, Slot, SlotStatuses
      <3>. QED
        BY <3>1, <3>3, TableAssumption
    <2>. QED
      BY <2>1, <2>2
  <1>8. quota' \in [Tokens -> [QuotaModes -> 0 .. MaxQuota]]
    <2>1. PICK q \in 0 .. MaxQuota :
            quota' = [t \in Tokens |->
                        IF t \in live
                        THEN [m \in QuotaModes |->
                                IF m \in AppliedSlots(slots, pg)[t].windows
                                THEN q ELSE 0]
                        ELSE quota[t]]
      BY DEF Sync
    <2>2. 0 \in 0 .. MaxQuota
      BY DirectoryAssumption
    <2>3. quota \in [Tokens -> [QuotaModes -> 0 .. MaxQuota]]
      BY DEF IInv, TypeOK
    <2>. QED
      BY <2>1, <2>2, <2>3
  <1>. QED
    BY <1>3, <1>4, <1>5, <1>6, <1>7, <1>8 DEF IInv, TypeOK
-----------------------------------------------------------------------------
(* Type correctness.                                                       *)

LEMMA TypeStep ==
    ASSUME IInv, [Next]_vars
    PROVE  TypeOK'
  <1>. USE DEF tableVars, requestVars
  <1>0. TypeOK
    BY DEF IInv
  <1>1. ASSUME NEW r \in Requests, Begin(r)
        PROVE  TypeOK'
    <2>1. SelectionMaxRetries \in Nat /\ 0 \in Nat
      BY DirectoryAssumption DEF SelectionMaxRetries
    <2>. QED
      BY <1>0, <1>1, <2>1 DEF Begin, TypeOK, Stages
  <1>2. ASSUME NEW r \in Requests, NEW modes \in Seq(LeaseModes),
               Reserve(r, modes), NEW s \in Stages,
               stage' = [stage EXCEPT ![r] = s]
        PROVE  TypeOK'
    <2>1. UNCHANGED <<strategy, slots, avail, cooling, kind, left, excluded, lost>>
      BY <1>2 DEF Reserve
    <2>. QED
      BY <1>0, <1>2, <2>1, ReserveType DEF TypeOK
  <1>3. ASSUME NEW r \in Requests, NEW modes, NoAccount(r, modes), Ends(r)
        PROVE  TypeOK'
    BY <1>0, <1>3, NoAccountEffect, EndsType DEF TypeOK
  <1>4. ASSUME NEW r \in Requests, SelectChat(r)
        PROVE  TypeOK'
    <2>1. CASE Reserve(r, RequestModes) /\ stage' = [stage EXCEPT ![r] = "run"]
      BY <1>2, <2>1, CandidateModes DEF Stages
    <2>2. CASE NoAccount(r, RequestModes) /\ Ends(r)
      BY <1>3, <2>2
    <2>3. CASE /\ NoAccount(r, RequestModes)
               /\ stage' = [stage EXCEPT ![r] = "refresh"]
               /\ UNCHANGED <<kind, left, excluded>>
      BY <1>0, <2>3, NoAccountEffect DEF TypeOK, Stages
    <2>. QED
      BY <1>4, <2>1, <2>2, <2>3 DEF SelectChat
  <1>5. ASSUME NEW r \in Requests, RetrySelect(r)
        PROVE  TypeOK'
    <2>1. CASE Reserve(r, RequestModes) /\ stage' = [stage EXCEPT ![r] = "run"]
      BY <1>2, <2>1, CandidateModes DEF Stages
    <2>2. CASE NoAccount(r, RequestModes) /\ Ends(r)
      BY <1>3, <2>2
    <2>3. CASE Ends(r) /\ UNCHANGED <<strategy, tableVars, lease, lost>>
      BY <1>0, <2>3, EndsType DEF TypeOK
    <2>. QED
      BY <1>5, <2>1, <2>2, <2>3 DEF RetrySelect, GiveUp
  <1>6. ASSUME NEW r \in Requests, SelectImage(r)
        PROVE  TypeOK'
    <2>1. CASE Reserve(r, <<"any">>) /\ stage' = [stage EXCEPT ![r] = "handoff"]
      BY <1>2, <2>1, CandidateModes DEF Stages
    <2>2. CASE NoAccount(r, <<"any">>) /\ Ends(r)
      BY <1>3, <2>2
    <2>. QED
      BY <1>6, <2>1, <2>2 DEF SelectImage
  <1>7. ASSUME NEW r \in Requests, StartStream(r)
        PROVE  TypeOK'
    BY <1>0, <1>7 DEF StartStream, TypeOK, Stages
  <1>8. ASSUME NEW r \in Requests, DropStream(r)
        PROVE  TypeOK'
    <2>1. lease[r].token \in Tokens
      BY <1>8, HeldLease DEF DropStream
    <2>2. /\ lost' \in [Tokens -> Nat]
          /\ lease' \in [Requests -> Lease \cup {NoLease}]
          /\ UNCHANGED <<strategy, tableVars>>
      BY <1>0, <1>8, <2>1 DEF DropStream, TypeOK
    <2>. QED
      BY <1>0, <1>8, <2>2, EndsType DEF DropStream, TypeOK
  <1>9. ASSUME NEW r \in Requests, Succeed(r)
        PROVE  TypeOK'
    <2>1. stage[r] = "run" /\ EndAttempt(r, "SUCCESS") /\ Ends(r)
      BY <1>9 DEF Succeed
    <2>. QED
      BY <1>0, <2>1, EndAttemptEffect, EndsType DEF TypeOK
  <1>10. ASSUME NEW r \in Requests, Fail(r)
         PROVE  TypeOK'
    <2>1. PICK fk \in FeedbackKinds : stage[r] = "run" /\ EndAttempt(r, fk)
      BY <1>10 DEF Fail
    <2>2. lease[r].token \in Tokens
      BY <2>1, HeldLease
    <2>3. CASE Ends(r)
      BY <1>0, <2>1, <2>3, EndAttemptEffect, EndsType DEF TypeOK
    <2>4. CASE /\ left[r] > 0
               /\ left' = [left EXCEPT ![r] = @ - 1]
               /\ excluded' = [excluded EXCEPT ![r] = @ \cup {lease[r].token}]
               /\ stage' = [stage EXCEPT ![r] = "select"]
               /\ UNCHANGED kind
      <3>1. left' \in [Requests -> Nat]
        BY <1>0, <2>4 DEF TypeOK
      <3>2. excluded' \in [Requests -> SUBSET Tokens]
        BY <1>0, <2>2, <2>4 DEF TypeOK
      <3>3. stage' \in [Requests -> Stages]
        BY <1>0, <2>4 DEF TypeOK, Stages
      <3>. QED
        BY <1>0, <2>1, <2>4, <3>1, <3>2, <3>3, EndAttemptEffect DEF TypeOK
    <2>. QED
      BY <1>10, <2>3, <2>4 DEF Fail
  <1>11. ASSUME NEW pg \in [Tokens -> SyncRows \cup {NoRow}], Sync(pg)
         PROVE  TypeOK'
    BY <1>0, <1>11, SyncEffect DEF TypeOK
  <1>12. ASSUME NEW s \in Strategies, SetStrategy(s)
         PROVE  TypeOK'
    BY <1>0, <1>12 DEF SetStrategy, TypeOK
  <1>13. ASSUME NEW t \in Tokens, CoolingEnds(t)
         PROVE  TypeOK'
    BY <1>0, <1>13 DEF CoolingEnds, TypeOK
  <1>14. ASSUME NEW t \in Tokens, NEW m \in QuotaModes, WindowElapses(t, m)
         PROVE  TypeOK'
    BY <1>0, <1>14 DEF WindowElapses, TypeOK
  <1>15. CASE UNCHANGED vars
    BY <1>0, <1>15 DEF vars, TypeOK
  <1>. QED
    BY <1>1, <1>4, <1>5, <1>6, <1>7, <1>8, <1>9, <1>10, <1>11, <1>12, <1>13,
       <1>14, <1>15 DEF Next, Request
-----------------------------------------------------------------------------
(* The steps, seen by the leases: a reservation, the end of an attempt, a  *)
(* dropped stream, a page of rows, or a step that leaves leases alone.     *)

Holding == {"handoff", "run"}

Takes(r, modes) ==
    /\ stage[r] \notin Holding
    /\ Reserve(r, modes)
    /\ \E s \in Holding : stage' = [stage EXCEPT ![r] = s]

Returns(r, fk) ==
    /\ stage[r] = "run"
    /\ EndAttempt(r, fk)
    /\ \E s \in Stages \ Holding : stage' = [stage EXCEPT ![r] = s]
    /\ \E e \in SUBSET Tokens : excluded' = [excluded EXCEPT ![r] = e]

Quiet ==
    /\ UNCHANGED <<slots, avail, inflight, lease, lost>>
    /\ \A r \in Requests : stage'[r] \in Holding <=> stage[r] \in Holding
    /\ \A r \in Requests : excluded'[r] \subseteq excluded[r]

LEMMA StepShape ==
    ASSUME IInv, [Next]_vars
    PROVE  \/ \E r \in Requests, modes \in Seq(LeaseModes) : Takes(r, modes)
           \/ \E r \in Requests, fk \in FeedbackKinds \cup {"SUCCESS"} :
                 Returns(r, fk)
           \/ \E r \in Requests : DropStream(r)
           \/ \E pg \in [Tokens -> SyncRows \cup {NoRow}] : Sync(pg)
           \/ Quiet
  <1>. USE DEF tableVars, requestVars, Holding
  <1>0. TypeOK
    BY DEF IInv
  <1>1. ASSUME NEW r \in Requests, stage[r] \notin Holding, Ends(r),
               UNCHANGED <<slots, avail, inflight, lease, lost>>
        PROVE  Quiet
    BY <1>0, <1>1 DEF Quiet, Ends, TypeOK
  <1>2. ASSUME NEW r \in Requests, Begin(r)
        PROVE  Quiet
    BY <1>0, <1>2 DEF Quiet, Begin, TypeOK
  <1>3. ASSUME NEW r \in Requests, SelectChat(r)
        PROVE  (\E modes \in Seq(LeaseModes) : Takes(r, modes)) \/ Quiet
    <2>1. CASE Reserve(r, RequestModes) /\ stage' = [stage EXCEPT ![r] = "run"]
      BY <1>3, <2>1, CandidateModes DEF Takes, SelectChat
    <2>2. CASE NoAccount(r, RequestModes) /\ Ends(r)
      BY <1>1, <1>3, <2>2 DEF NoAccount, SelectChat
    <2>3. CASE /\ NoAccount(r, RequestModes)
               /\ stage' = [stage EXCEPT ![r] = "refresh"]
               /\ UNCHANGED <<kind, left, excluded>>
      BY <1>0, <1>3, <2>3 DEF Quiet, NoAccount, SelectChat, TypeOK
    <2>. QED
      BY <1>3, <2>1, <2>2, <2>3 DEF SelectChat
  <1>4. ASSUME NEW r \in Requests, RetrySelect(r)
        PROVE  (\E modes \in Seq(LeaseModes) : Takes(r, modes)) \/ Quiet
    <2>1. CASE Reserve(r, RequestModes) /\ stage' = [stage EXCEPT ![r] = "run"]
      BY <1>4, <2>1, CandidateModes DEF Takes, RetrySelect
    <2>2. CASE NoAccount(r, RequestModes) /\ Ends(r)
      BY <1>1, <1>4, <2>2 DEF NoAccount, RetrySelect
    <2>3. CASE Ends(r) /\ UNCHANGED <<strategy, tableVars, lease, lost>>
      BY <1>1, <1>4, <2>3 DEF RetrySelect
    <2>. QED
      BY <1>4, <2>1, <2>2, <2>3 DEF RetrySelect, GiveUp
  <1>5. ASSUME NEW r \in Requests, SelectImage(r)
        PROVE  (\E modes \in Seq(LeaseModes) : Takes(r, modes)) \/ Quiet
    <2>1. CASE Reserve(r, <<"any">>) /\ stage' = [stage EXCEPT ![r] = "handoff"]
      BY <1>5, <2>1, CandidateModes DEF Takes, SelectImage
    <2>2. CASE NoAccount(r, <<"any">>) /\ Ends(r)
      BY <1>1, <1>5, <2>2 DEF NoAccount, SelectImage
    <2>. QED
      BY <1>5, <2>1, <2>2 DEF SelectImage
  <1>6. ASSUME NEW r \in Requests, StartStream(r)
        PROVE  Quiet
    BY <1>0, <1>6 DEF Quiet, StartStream, TypeOK
  <1>7. ASSUME NEW r \in Requests, NEW fk, EndAttempt(r, fk), stage[r] = "run",
               Ends(r)
        PROVE  Returns(r, fk)
    BY <1>7 DEF Returns, Ends, Stages
  <1>8. ASSUME NEW r \in Requests, Fail(r)
        PROVE  \E fk \in FeedbackKinds : Returns(r, fk)
    <2>1. PICK fk \in FeedbackKinds : stage[r] = "run" /\ EndAttempt(r, fk)
      BY <1>8 DEF Fail
    <2>2. lease[r].token \in Tokens
      BY <2>1, HeldLease
    <2>3. CASE Ends(r)
      BY <1>7, <2>1, <2>3
    <2>4. CASE /\ excluded' = [excluded EXCEPT ![r] = @ \cup {lease[r].token}]
               /\ stage' = [stage EXCEPT ![r] = "select"]
      <3>1. excluded[r] \cup {lease[r].token} \in SUBSET Tokens
        BY <1>0, <2>2 DEF TypeOK
      <3>. QED
        BY <2>1, <2>4, <3>1 DEF Returns, Stages
    <2>. QED
      BY <1>8, <2>3, <2>4 DEF Fail
  <1>9. ASSUME \/ \E s \in Strategies : SetStrategy(s)
               \/ \E t \in Tokens : CoolingEnds(t)
               \/ \E t \in Tokens, m \in QuotaModes : WindowElapses(t, m)
               \/ UNCHANGED vars
        PROVE  Quiet
    <2>1. UNCHANGED <<slots, avail, inflight, requestVars, lost>>
      BY <1>9 DEF SetStrategy, CoolingEnds, WindowElapses, vars
    <2>. QED
      BY <2>1 DEF Quiet
  <1>. QED
    BY <1>2, <1>3, <1>4, <1>5, <1>6, <1>7, <1>8, <1>9 DEF Next, Request, Succeed
-----------------------------------------------------------------------------
(* The parts of the invariant, step by step.                               *)

LEMMA IndexStep ==
    ASSUME IInv, [Next]_vars
    PROVE  IndexExact'
  <1>1. CASE UNCHANGED <<slots, avail>>
    BY <1>1 DEF IInv, IndexExact
  <1>2. ASSUME NEW r \in Requests, NEW modes, Takes(r, modes)
        PROVE  UNCHANGED <<slots, avail>>
    BY <1>2 DEF Takes, Reserve
  <1>3. ASSUME NEW r \in Requests, NEW fk, Returns(r, fk)
        PROVE  IndexExact'
    BY <1>3, EndAttemptEffect DEF Returns
  <1>4. ASSUME NEW r \in Requests, DropStream(r)
        PROVE  UNCHANGED <<slots, avail>>
    BY <1>4 DEF DropStream, tableVars
  <1>5. ASSUME NEW pg \in [Tokens -> SyncRows \cup {NoRow}], Sync(pg)
        PROVE  IndexExact'
    BY <1>5, SyncEffect
  <1>. QED
    BY <1>1, <1>2, <1>3, <1>4, <1>5, StepShape DEF Quiet

LEMMA LeaseStep ==
    ASSUME IInv, [Next]_vars
    PROVE  LeaseByStage' /\ HeldSlots' /\ NeverTheSameAccount'
  <1>0. /\ stage \in [Requests -> Stages]
        /\ lease \in [Requests -> Lease \cup {NoLease}]
        /\ excluded \in [Requests -> SUBSET Tokens]
        /\ TypeOK /\ LeaseByStage /\ HeldSlots /\ NeverTheSameAccount
    BY DEF IInv, TypeOK
  <1>. USE <1>0 DEF LeaseByStage, HeldSlots, NeverTheSameAccount, Holding
  <1>1. ASSUME NEW r \in Requests, NEW modes \in Seq(LeaseModes), Takes(r, modes)
        PROVE  LeaseByStage' /\ HeldSlots' /\ NeverTheSameAccount'
    <2>1. Reserve(r, modes)
      BY <1>1 DEF Takes
    <2>2. PICK pool \in Pools, t \in Tokens, m \in LeaseModes :
             /\ t \in PoolUnion(pool)
             /\ t \notin excluded[r]
             /\ lease' = [lease EXCEPT ![r] = [token |-> t, mode |-> m]]
      BY <2>1, ReserveEffect
    <2>3. UNCHANGED <<slots, excluded>>
      BY <2>1 DEF Reserve
    <2>4. slots[t] # NoSlot
      BY <2>2, PoolUnionServable DEF IInv
    <2>5. [token |-> t, mode |-> m] \in Lease
      BY DEF Lease, LeaseModes
    <2>6. [token |-> t, mode |-> m] # NoLease
      BY <2>5, DirectoryAssumption
    <2>7. PICK s \in Holding : stage' = [stage EXCEPT ![r] = s]
      BY <1>1 DEF Takes
    <2>8. LeaseByStage'
      BY <2>2, <2>6, <2>7
    <2>9. HeldSlots' /\ NeverTheSameAccount'
      BY <2>2, <2>3, <2>4
    <2>. QED
      BY <2>8, <2>9
  <1>2. ASSUME NEW r \in Requests, NEW fk, Returns(r, fk)
        PROVE  LeaseByStage' /\ HeldSlots' /\ NeverTheSameAccount'
    <2>1. /\ lease' = [lease EXCEPT ![r] = NoLease]
          /\ \A u \in Tokens : slots[u] # NoSlot => slots'[u] # NoSlot
      BY <1>2, EndAttemptEffect DEF Returns
    <2>2. PICK s \in Stages \ Holding : stage' = [stage EXCEPT ![r] = s]
      BY <1>2 DEF Returns
    <2>3. PICK e : excluded' = [excluded EXCEPT ![r] = e]
      BY <1>2 DEF Returns
    <2>4. LeaseByStage'
      BY <2>1, <2>2
    <2>5. HeldSlots'
      BY <2>1 DEF Lease
    <2>6. NeverTheSameAccount'
      BY <2>1, <2>3
    <2>. QED
      BY <2>4, <2>5, <2>6
  <1>3. ASSUME NEW r \in Requests, DropStream(r)
        PROVE  LeaseByStage' /\ HeldSlots' /\ NeverTheSameAccount'
    <2>1. /\ lease' = [lease EXCEPT ![r] = NoLease]
          /\ stage' = [stage EXCEPT ![r] = "idle"]
          /\ excluded' = [excluded EXCEPT ![r] = {}]
          /\ UNCHANGED slots
      BY <1>3 DEF DropStream, Ends, tableVars
    <2>. QED
      BY <2>1
  <1>4. ASSUME NEW pg \in [Tokens -> SyncRows \cup {NoRow}], Sync(pg)
        PROVE  LeaseByStage' /\ HeldSlots' /\ NeverTheSameAccount'
    <2>1. /\ UNCHANGED <<stage, excluded, lease>>
          /\ \A u \in Tokens : slots[u] # NoSlot => slots'[u] # NoSlot
      BY <1>4, SyncEffect DEF requestVars
    <2>. QED
      BY <2>1 DEF Lease
  <1>5. CASE Quiet
    BY <1>5 DEF Quiet
  <1>. QED
    BY <1>1, <1>2, <1>3, <1>4, <1>5, StepShape

\* A lease more, a lease less: what it does to the number of holders.
LEMMA HoldersFinite ==
    \A t : IsFiniteSet(HoldersOf(t)) /\ Cardinality(HoldersOf(t)) \in Nat
  BY DirectoryAssumption, FS_Subset, FS_CardinalityType DEF HoldersOf

LEMMA HolderAdded ==
    ASSUME lease \in [Requests -> Lease \cup {NoLease}], NEW r \in Requests,
           lease[r] = NoLease, NEW l \in Lease, lease' = [lease EXCEPT ![r] = l],
           NEW t \in Tokens
    PROVE  Cardinality(HoldersOf(t)') =
             IF t = l.token THEN Cardinality(HoldersOf(t)) + 1
                            ELSE Cardinality(HoldersOf(t))
  <1>1. l # NoLease
    BY DirectoryAssumption
  <1>2. r \notin HoldersOf(t)
    BY DEF HoldersOf
  <1>3. HoldersOf(t)' = IF t = l.token THEN HoldersOf(t) \cup {r} ELSE HoldersOf(t)
    BY <1>1 DEF HoldersOf
  <1>. QED
    BY <1>2, <1>3, HoldersFinite, FS_AddElement

LEMMA HolderRemoved ==
    ASSUME lease \in [Requests -> Lease \cup {NoLease}], NEW r \in Requests,
           lease[r] # NoLease, lease' = [lease EXCEPT ![r] = NoLease],
           NEW t \in Tokens
    PROVE  Cardinality(HoldersOf(t)') =
             IF t = lease[r].token THEN Cardinality(HoldersOf(t)) - 1
                                   ELSE Cardinality(HoldersOf(t))
  <1>1. r \in HoldersOf(t) <=> t = lease[r].token
    BY DEF HoldersOf
  <1>2. HoldersOf(t)' = IF t = lease[r].token THEN HoldersOf(t) \ {r} ELSE HoldersOf(t)
    BY DEF HoldersOf
  <1>. QED
    BY <1>1, <1>2, HoldersFinite, FS_RemoveElement

LEMMA InflightStep ==
    ASSUME IInv, [Next]_vars
    PROVE  InflightConserved'
  <1>0. /\ lease \in [Requests -> Lease \cup {NoLease}]
        /\ inflight \in [Tokens -> Nat]
        /\ lost \in [Tokens -> Nat]
        /\ TypeOK
        /\ \A t \in Tokens : inflight[t] = Cardinality(HoldersOf(t)) + lost[t]
    BY DEF IInv, TypeOK, InflightConserved
  <1>1. ASSUME NEW r \in Requests, NEW modes \in Seq(LeaseModes), Takes(r, modes)
        PROVE  InflightConserved'
    <2>1. Reserve(r, modes) /\ lease[r] = NoLease /\ UNCHANGED lost
      BY <1>1 DEF Takes, Reserve, IInv, LeaseByStage, Holding
    <2>2. PICK t \in Tokens, m \in LeaseModes :
             /\ inflight' = [inflight EXCEPT ![t] = @ + 1]
             /\ lease' = [lease EXCEPT ![r] = [token |-> t, mode |-> m]]
      BY <1>0, <2>1, ReserveEffect
    <2>3. [token |-> t, mode |-> m] \in Lease
      BY DEF Lease, LeaseModes
    <2>4. ASSUME NEW u \in Tokens
          PROVE  Cardinality(HoldersOf(u)') =
                   IF u = t THEN Cardinality(HoldersOf(u)) + 1
                            ELSE Cardinality(HoldersOf(u))
      BY <1>0, <2>1, <2>2, <2>3, HolderAdded
    <2>5. ASSUME NEW u \in Tokens
          PROVE  inflight'[u] = IF u = t THEN inflight[u] + 1 ELSE inflight[u]
      BY <1>0, <2>2
    <2>6. ASSUME NEW u \in Tokens
          PROVE  inflight'[u] = Cardinality(HoldersOf(u)') + lost'[u]
      <3>1. /\ Cardinality(HoldersOf(u)) \in Nat
            /\ lost'[u] = lost[u] /\ lost[u] \in Nat
            /\ inflight[u] = Cardinality(HoldersOf(u)) + lost[u]
        BY <1>0, <2>1, HoldersFinite
      <3>. QED
        BY <3>1, <2>4, <2>5
    <2>. QED
      BY <2>6 DEF InflightConserved
  <1>2. ASSUME NEW r \in Requests, NEW fk, Returns(r, fk)
        PROVE  InflightConserved'
    <2>. DEFINE t == lease[r].token
    <2>1. /\ lease[r] # NoLease
          /\ t \in Tokens
          /\ inflight' = Released(t)
          /\ lease' = [lease EXCEPT ![r] = NoLease]
          /\ UNCHANGED lost
      BY <1>2, HeldLease, EndAttemptEffect DEF Returns
    <2>2. ASSUME NEW u \in Tokens
          PROVE  Cardinality(HoldersOf(u)') =
                   IF u = t THEN Cardinality(HoldersOf(u)) - 1
                            ELSE Cardinality(HoldersOf(u))
      BY <1>0, <2>1, HolderRemoved
    <2>3. r \in HoldersOf(t)
      BY <2>1 DEF HoldersOf
    <2>4. Cardinality(HoldersOf(t)) > 0
      <3>1. IsFiniteSet(HoldersOf(t)) /\ Cardinality(HoldersOf(t)) \in Nat
        BY HoldersFinite
      <3>2. Cardinality(HoldersOf(t)) # 0
        BY <2>3, <3>1, FS_EmptySet
      <3>. QED
        BY <3>1, <3>2
    <2>5. inflight[t] > 0
      BY <1>0, <2>1, <2>4, HoldersFinite
    <2>6. ASSUME NEW u \in Tokens
          PROVE  inflight'[u] = IF u = t THEN inflight[u] - 1 ELSE inflight[u]
      BY <1>0, <2>1, <2>5 DEF Released
    <2>. QED
      BY <1>0, <2>1, <2>2, <2>6, HoldersFinite DEF InflightConserved
  <1>3. ASSUME NEW r \in Requests, DropStream(r)
        PROVE  InflightConserved'
    <2>. DEFINE t == lease[r].token
    <2>1. /\ lease[r] # NoLease
          /\ t \in Tokens
          /\ lease' = [lease EXCEPT ![r] = NoLease]
          /\ lost' = [lost EXCEPT ![t] = @ + 1]
          /\ UNCHANGED inflight
      BY <1>3, HeldLease DEF DropStream, tableVars
    <2>2. ASSUME NEW u \in Tokens
          PROVE  Cardinality(HoldersOf(u)') =
                   IF u = t THEN Cardinality(HoldersOf(u)) - 1
                            ELSE Cardinality(HoldersOf(u))
      BY <1>0, <2>1, HolderRemoved
    <2>3. ASSUME NEW u \in Tokens
          PROVE  lost'[u] = IF u = t THEN lost[u] + 1 ELSE lost[u]
      BY <1>0, <2>1
    <2>. QED
      BY <1>0, <2>1, <2>2, <2>3, HoldersFinite DEF InflightConserved
  <1>4. CASE UNCHANGED <<inflight, lease, lost>>
    BY <1>0, <1>4 DEF InflightConserved, HoldersOf
  <1>5. ASSUME NEW pg \in [Tokens -> SyncRows \cup {NoRow}], Sync(pg)
        PROVE  UNCHANGED <<inflight, lease, lost>>
    BY <1>5, SyncEffect DEF requestVars
  <1>. QED
    BY <1>1, <1>2, <1>3, <1>4, <1>5, StepShape DEF Quiet
-----------------------------------------------------------------------------
(* The theorems.                                                           *)

LEMMA InitInv == Init => IInv
  <1>. SUFFICES ASSUME Init PROVE IInv
    OBVIOUS
  <1>1. TypeOK
    BY DirectoryAssumption DEF Init, TypeOK, NoSlots, NoAvail, Stages
  <1>2. IndexExact
    BY DEF Init, IndexExact, NoSlots, NoAvail, IndexKeys
  <1>3. ASSUME NEW t \in Tokens
        PROVE  inflight[t] = Cardinality(HoldersOf(t)) + lost[t]
    <2>1. HoldersOf(t) = {}
      BY DEF Init, HoldersOf
    <2>2. Cardinality(HoldersOf(t)) = 0
      BY <2>1, FS_EmptySet
    <2>3. inflight[t] = 0 /\ lost[t] = 0
      BY DEF Init
    <2>. QED
      BY <2>2, <2>3
  <1>4. InflightConserved
    BY <1>3 DEF InflightConserved
  <1>. QED
    BY <1>1, <1>2, <1>4
       DEF Init, IInv, LeaseByStage, HeldSlots, NeverTheSameAccount

\* Everything the requests, the sync loop and the clock do keeps the tables,
\* the leases and the counts of the slots in agreement, for any number of
\* accounts and requests.
THEOREM DirectoryInvariant == Spec => []IInv
  <1>1. Init => IInv
    BY InitInv
  <1>2. IInv /\ [Next]_vars => IInv'
    BY TypeStep, IndexStep, LeaseStep, InflightStep DEF IInv
  <1>. QED
    BY <1>1, <1>2, PTL DEF Spec

\* The directory's columns keep their types: no counter is negative and no
\* quota leaves its range.
THEOREM TypeCorrect == Spec => []TypeOK
  <1>1. IInv => TypeOK
    BY DEF IInv
  <1>. QED
    BY <1>1, DirectoryInvariant, PTL

\* The buckets hold exactly the active slots.
THEOREM IndexAlwaysExact == Spec => []IndexExact
  <1>1. IInv => IndexExact
    BY DEF IInv
  <1>. QED
    BY <1>1, DirectoryInvariant, PTL

\* No lease is counted twice or forgotten, but for the streams that were
\* dropped before they ran.
THEOREM InflightAlwaysConserved == Spec => []InflightConserved
  <1>1. IInv => InflightConserved
    BY DEF IInv
  <1>. QED
    BY <1>1, DirectoryInvariant, PTL

\* A request never comes back to an account it failed on.
THEOREM RetriesMoveOn == Spec => []NeverTheSameAccount
  <1>1. IInv => NeverTheSameAccount
    BY DEF IInv
  <1>. QED
    BY <1>1, DirectoryInvariant, PTL

\* Where only "random" and "fast" are configured no account ever serves more
\* than max_inflight requests.
THEOREM CapHolds ==
    ASSUME "quota" \notin Strategies
    PROVE  Spec => []InflightCapped
  <1>1. Init => InflightCapped
    BY DirectoryAssumption DEF Init, InflightCapped
  <1>2. IInv /\ InflightCapped /\ [Next]_vars => InflightCapped'
    <2>. SUFFICES ASSUME IInv, InflightCapped, [Next]_vars PROVE InflightCapped'
      OBVIOUS
    <2>0. inflight \in [Tokens -> Nat] /\ strategy # "quota" /\ TypeOK
      BY DEF IInv, TypeOK
    <2>1. CASE UNCHANGED inflight
      BY <2>1 DEF InflightCapped
    <2>2. ASSUME NEW r \in Requests, NEW modes \in Seq(LeaseModes), Takes(r, modes)
          PROVE  InflightCapped'
      <3>1. PICK t \in Tokens :
              Unloaded(t) /\ inflight' = [inflight EXCEPT ![t] = @ + 1]
        BY <2>0, <2>2, ReserveEffect DEF Takes
      <3>. QED
        BY <2>0, <3>1, DirectoryAssumption DEF InflightCapped, Unloaded
    <2>3. ASSUME NEW r \in Requests, NEW fk, Returns(r, fk)
          PROVE  InflightCapped'
      <3>1. inflight' = Released(lease[r].token)
        BY <2>3, EndAttemptEffect DEF Returns
      <3>. QED
        BY <2>0, <3>1, DirectoryAssumption DEF InflightCapped, Released
    <2>4. ASSUME NEW r \in Requests, DropStream(r)
          PROVE  UNCHANGED inflight
      BY <2>4 DEF DropStream, tableVars
    <2>5. ASSUME NEW pg \in [Tokens -> SyncRows \cup {NoRow}], Sync(pg)
          PROVE  UNCHANGED inflight
      BY <2>5, SyncEffect
    <2>. QED
      BY <2>1, <2>2, <2>3, <2>4, <2>5, StepShape DEF Quiet
  <1>. QED
    BY <1>1, <1>2, DirectoryInvariant, PTL DEF Spec

\* A reservation only ever hands out an active account of an allowed pool,
\* and under "random" and "fast" none that is cooling down.
THEOREM GrantsAlwaysServable == Spec => GrantsAreServable
  <1>. DEFINE Servable(t) ==
         /\ slots[t] # NoSlot /\ slots[t].status = "active"
         /\ \E i \in 1 .. Len(RequestPools) : slots[t].pool = RequestPools[i]
         /\ strategy # "quota" => t \notin cooling
  <1>1. ASSUME IInv, [Next]_vars, NEW r \in Requests,
               lease[r] = NoLease, lease'[r] # NoLease
        PROVE  Servable(lease'[r].token)
    <2>0. TypeOK /\ IndexExact /\ lease \in [Requests -> Lease \cup {NoLease}]
      BY <1>1 DEF IInv, TypeOK
    <2>1. ASSUME NEW q \in Requests, NEW modes \in Seq(LeaseModes), Takes(q, modes)
          PROVE  Servable(lease'[r].token)
      <3>0. Reserve(q, modes)
        BY <2>1 DEF Takes
      <3>1. PICK pool \in Pools, t \in Tokens, m \in LeaseModes :
              /\ \E i \in 1 .. Len(RequestPools) : pool = RequestPools[i]
              /\ t \in PoolUnion(pool)
              /\ strategy # "quota" => Unloaded(t)
              /\ inflight' = [inflight EXCEPT ![t] = @ + 1]
              /\ lease' = [lease EXCEPT ![q] = [token |-> t, mode |-> m]]
        <4>. HIDE DEF Servable
        <4>. QED
          BY <2>0, <3>0, ReserveEffect
      <3>2. q = r
        BY <1>1, <2>0, <3>1
      <3>3. lease'[r].token = t
        BY <2>0, <3>1, <3>2
      <3>4. Servable(t)
        BY <2>0, <3>1, PoolUnionServable DEF Unloaded
      <3>. QED
        BY <3>3, <3>4
    <2>2. ASSUME NEW q \in Requests, NEW fk, Returns(q, fk)
          PROVE  lease'[r] = NoLease
      BY <1>1, <2>0, <2>2, EndAttemptEffect DEF Returns
    <2>3. ASSUME NEW q \in Requests, DropStream(q)
          PROVE  lease'[r] = NoLease
      BY <1>1, <2>0, <2>3 DEF DropStream
    <2>4. ASSUME NEW pg \in [Tokens -> SyncRows \cup {NoRow}], Sync(pg)
          PROVE  lease'[r] = NoLease
      BY <1>1, <2>4, SyncEffect DEF requestVars
    <2>. QED
      BY <1>1, <2>1, <2>2, <2>3, <2>4, StepShape DEF Quiet
  <1>2. IInv /\ [Next]_vars
           => \A r \in Requests : lease[r] = NoLease /\ lease'[r] # NoLease
                                     => Servable(lease'[r].token)
    BY <1>1
  <1>. QED
    BY <1>2, DirectoryInvariant, PTL DEF Spec, GrantsAreServable
=============================================================================
