------------------------- MODULE AdminServiceProofs -------------------------
(***************************************************************************)
(* Proofs about AdminService and the BatchTask it extends, for every set   *)
(* of accounts, of requests, of batch items and of streams and every size  *)
(* of a queue.                                                             *)
(***************************************************************************)
EXTENDS AdminService, TLAPS

-----------------------------------------------------------------------------
(* What the repository's writes do to the accounts that are live.          *)

LEMMA ModesOfPool ==
    ASSUME NEW pool \in UsedPools
    PROVE  pool \in Pools /\ SupportedModes(pool) \in SUBSET Modes
  BY StoreAssumption DEF SupportedModes, Modes

\* An upsert leaves its tokens live and every other row alone.
LEMMA UpsertEffect ==
    ASSUME StoreTypeOK, NEW ts \in SUBSET Tokens, NEW pool \in [Tokens -> UsedPools],
           UpsertAccounts(ts, pool)
    PROVE  /\ StoreTypeOK'
           /\ \A t \in Tokens : Live(t) => Live(t)'
           /\ \A t \in ts : Live(t)'
  <1>1. \A t \in Tokens : UpsertedRow(rows[t], pool[t], revision + 1) \in Row
    <2>. SUFFICES ASSUME NEW t \in Tokens
                  PROVE  UpsertedRow(rows[t], pool[t], revision + 1) \in Row
      OBVIOUS
    <2>1. pool[t] \in Pools /\ SupportedModes(pool[t]) \in SUBSET Modes
      BY ModesOfPool
    <2>2. (IF rows[t] = NoRow THEN SupportedModes(pool[t])
                              ELSE rows[t].windows \cup {"console"}) \in SUBSET Modes
      BY <2>1 DEF StoreTypeOK, Row, Modes
    <2>. QED
      BY <2>1, <2>2 DEF UpsertedRow, Row, Statuses, StoreTypeOK
  <1>2. \A t \in Tokens : ~UpsertedRow(rows[t], pool[t], revision + 1).deleted
    BY DEF UpsertedRow
  <1>3. StoreTypeOK'
    BY <1>1 DEF UpsertAccounts, StoreTypeOK
  <1>. QED
    BY <1>1, <1>2, <1>3, TypesAssumption DEF UpsertAccounts, Live

LEMMA PatchedRowType ==
    ASSUME NEW old \in Row, NEW rev \in Nat, NEW patch,
           patch.pool \in Pools \cup {"keep"}, patch.status \in Statuses \cup {"keep"},
           patch.windows \in SUBSET Modes
    PROVE  /\ PatchedRow(old, patch, rev) \in Row
           /\ PatchedRow(old, patch, rev).deleted = old.deleted
  BY DEF PatchedRow, Row

\* A patch of an administrator's neither removes an account nor restores one.
LEMMA PatchEffect ==
    ASSUME StoreTypeOK, NEW ts \in SUBSET Tokens, NEW patch,
           patch.pool \in Pools \cup {"keep"}, patch.status \in Statuses \cup {"keep"},
           patch.windows \in SUBSET Modes,
           PatchAccounts(ts, patch)
    PROVE  /\ StoreTypeOK'
           /\ \A t \in Tokens : Live(t)' <=> Live(t)
  <1>1. \A t \in Tokens : rows[t] # NoRow =>
           /\ PatchedRow(rows[t], patch, revision + 1) \in Row
           /\ PatchedRow(rows[t], patch, revision + 1).deleted = rows[t].deleted
    BY PatchedRowType DEF StoreTypeOK
  <1>2. StoreTypeOK'
    BY <1>1 DEF PatchAccounts, StoreTypeOK
  <1>. QED
    BY <1>1, <1>2, TypesAssumption DEF PatchAccounts, Live

\* What the handlers of a batch write is well typed.
LEMMA HandlerPatchTypes ==
    ASSUME NEW patch \in HandlerPatches
    PROVE  /\ patch.pool \in Pools \cup {"keep"}
           /\ patch.status \in Statuses \cup {"keep"}
           /\ patch.windows \in SUBSET Modes
  <1>1. ASSUME NEW p \in UsedPools, NEW ms \in Fetched,
               patch = RefreshPatch(p, ms)
        PROVE  /\ patch.pool \in Pools \cup {"keep"}
               /\ patch.status \in Statuses \cup {"keep"}
               /\ patch.windows \in SUBSET Modes
    <2>1. /\ patch.pool = p /\ patch.status = "keep" /\ patch.windows = ms
      BY <1>1 DEF RefreshPatch, Keep
    <2>2. ms \in SUBSET Modes
      BY DEF Fetched
    <2>. QED
      BY <2>1, <2>2, StoreAssumption
  <1>2. ASSUME NEW s \in {"keep", "active", "expired"}, patch = StatusPatch(s)
        PROVE  /\ patch.pool \in Pools \cup {"keep"}
               /\ patch.status \in Statuses \cup {"keep"}
               /\ patch.windows \in SUBSET Modes
    BY <1>2 DEF StatusPatch, Keep, Statuses
  <1>3. \/ \E s \in {"keep", "active", "expired"} : patch = StatusPatch(s)
        \/ \E p \in UsedPools, ms \in Fetched : patch = RefreshPatch(p, ms)
    BY SMT DEF HandlerPatches
  <1>. QED
    BY <1>1, <1>2, <1>3

LEMMA DeletedRowType ==
    ASSUME NEW old \in Row, NEW rev \in Nat
    PROVE  DeletedRow(old, rev) \in Row
  BY DEF DeletedRow, Row

\* A deletion leaves the other rows alone.
LEMMA DeleteEffect ==
    ASSUME StoreTypeOK, NEW ts \in SUBSET Tokens, DeleteAccounts(ts)
    PROVE  /\ StoreTypeOK'
           /\ \A t \in Tokens \ ts : rows'[t] = rows[t]
  <1>1. \A t \in Tokens : rows[t] # NoRow => DeletedRow(rows[t], revision + 1) \in Row
    BY DeletedRowType DEF StoreTypeOK
  <1>2. revision' = revision + 1
        /\ rows' = [t \in Tokens |->
                      IF t \in ts /\ rows[t] # NoRow /\ ~rows[t].deleted
                      THEN DeletedRow(rows[t], revision + 1) ELSE rows[t]]
    BY DEF DeleteAccounts
  <1>. QED
    BY <1>1, <1>2 DEF StoreTypeOK

\* Replacing a pool removes the live accounts of the pool that are not in the
\* new list, and no other.
LEMMA ReplaceEffect ==
    ASSUME StoreTypeOK, NEW ts \in SUBSET Tokens, NEW pool \in UsedPools,
           ReplacePool(pool, ts)
    PROVE  /\ StoreTypeOK'
           /\ \A t \in Tokens :
                 /\ Live(t)
                 /\ t \notin {u \in Tokens \ ts : Live(u) /\ rows[u].pool = pool}
                 => Live(t)'
  <1> DEFINE cleared == [t \in Tokens |->
                           IF /\ rows[t] # NoRow
                              /\ ~rows[t].deleted
                              /\ rows[t].pool = pool
                           THEN DeletedRow(rows[t], revision + 1)
                           ELSE rows[t]]
             Up(t) == UpsertedRow(cleared[t], pool, revision + 2)
  <1>1. \A t \in Tokens : cleared[t] \in Row \cup {NoRow}
    BY DeletedRowType DEF StoreTypeOK
  <1>2. \A t \in Tokens : Up(t) \in Row /\ ~Up(t).deleted
    <2>. SUFFICES ASSUME NEW t \in Tokens PROVE Up(t) \in Row /\ ~Up(t).deleted
      OBVIOUS
    <2>1. (IF cleared[t] = NoRow THEN SupportedModes(pool)
                                 ELSE cleared[t].windows \cup {"console"}) \in SUBSET Modes
      <3>. HIDE DEF cleared
      <3>. QED
        BY <1>1, ModesOfPool DEF Row, Modes
    <2>2. revision + 2 \in Nat /\ pool \in Pools
      BY ModesOfPool DEF StoreTypeOK
    <2>. HIDE DEF cleared
    <2>. QED
      BY <2>1, <2>2 DEF UpsertedRow, Row, Statuses
  <1>3. /\ revision' = revision + 2
        /\ rows' = [t \in Tokens |-> IF t \in ts THEN Up(t) ELSE cleared[t]]
    BY DEF ReplacePool
  <1>4. StoreTypeOK'
    <2>. HIDE DEF cleared, Up
    <2>. QED
      BY <1>1, <1>2, <1>3 DEF StoreTypeOK
  <1>5. ASSUME NEW t \in Tokens, Live(t),
               t \notin {u \in Tokens \ ts : Live(u) /\ rows[u].pool = pool}
        PROVE  Live(t)'
    <2>1. CASE t \in ts
      <3>. HIDE DEF Up
      <3>. QED
        BY <1>2, <1>3, <2>1, TypesAssumption DEF Live
    <2>2. CASE t \notin ts
      BY <1>3, <1>5, <2>2 DEF Live
    <2>. QED
      BY <2>1, <2>2
  <1>. QED
    BY <1>4, <1>5

-----------------------------------------------------------------------------
(* The inductive invariant.                                                *)

\* A final event that waits in a queue, or that has been shown, is the one
\* that stands, and none is there before the batch has ended.
FinalKnown ==
    /\ final # NoEvent =>
          /\ final.processed = processed
          /\ \A i \in Items : item[i] \in {"recorded", "skipped"}
    /\ \A s \in Streams : \A k \in 1 .. Len(queue[s]) :
          queue[s][k].type # "progress" =>
             final # NoEvent /\ queue[s][k].processed = processed
    /\ \A s \in Streams :
          stream[s] = "over" => final # NoEvent /\ seen[s] = processed

\* Once an edit has inserted the new token it is live, unless it was struck.
NewIsLive ==
    \A r \in Requests :
       /\ request[r].kind = "edit" /\ ~request[r].struck
       /\ request[r].step \in {"patch", "delete"}
       => Live(request[r].new) /\ request[r].old # request[r].new

IInv == TypeOK /\ FinalKnown /\ NewIsLive

-----------------------------------------------------------------------------
(* The batch.                                                              *)

\* An event that is published is the last of a queue or is not in it.
LEMMA PublishEffect ==
    ASSUME BatchTypeOK, NEW e \in Events, Publish(e)
    PROVE  /\ queue' \in [Streams -> Seq(Events)]
           /\ \A s \in Streams : \A k \in 1 .. Len(queue'[s]) :
                 \/ k \in 1 .. Len(queue[s]) /\ queue'[s][k] = queue[s][k]
                 \/ queue'[s][k] = e
  <1>1. \A s \in Streams : queue'[s] \in {queue[s], Append(queue[s], e)}
    BY DEF Publish
  <1>2. queue' \in [Streams -> Seq(Events)]
    BY <1>1 DEF Publish, BatchTypeOK
  <1>3. ASSUME NEW s \in Streams, NEW k \in 1 .. Len(queue'[s])
        PROVE  \/ k \in 1 .. Len(queue[s]) /\ queue'[s][k] = queue[s][k]
               \/ queue'[s][k] = e
    <2>1. queue[s] \in Seq(Events)
      BY DEF BatchTypeOK
    <2>2. CASE queue'[s] = queue[s]
      BY <2>2, <1>3
    <2>3. CASE queue'[s] = Append(queue[s], e)
      <3>1. Len(queue'[s]) = Len(queue[s]) + 1 /\ Len(queue[s]) \in Nat
        BY <2>1, <2>3
      <3>. QED
        BY <2>1, <2>3, <3>1, <1>3
    <2>. QED
      BY <1>1, <2>2, <2>3
  <1>. QED
    BY <1>2, <1>3

\* An item that ends adds a progress event and ends before the batch does.
LEMMA ItemEndsKeeps ==
    ASSUME BatchTypeOK, FinalKnown, NEW i \in Items, ItemEnds(i)
    PROVE  BatchTypeOK' /\ FinalKnown'
  <1> DEFINE e == Event("progress", processed + 1)
  <1>1. final = NoEvent
    BY DEF FinalKnown, ItemEnds
  <1>2. e \in Events /\ e.type = "progress"
    BY DEF Event, Events, BatchTypeOK
  <1>3. Publish(e) /\ processed' = processed + 1
        /\ UNCHANGED <<cancelled, final, listed, stream, seen>>
    BY DEF ItemEnds
  <1>4. BatchTypeOK'
    <2>1. item' \in [Items -> {"new", "waiting", "running", "recorded", "skipped"}]
      BY DEF ItemEnds, ItemGoes, BatchTypeOK
    <2>. HIDE DEF e
    <2>. QED
      BY <2>1, <1>2, <1>3, PublishEffect DEF BatchTypeOK
  <1>5. FinalKnown'
    <2>. HIDE DEF e
    <2>. QED
      BY <1>1, <1>2, <1>3, PublishEffect DEF FinalKnown
  <1>. QED
    BY <1>4, <1>5

LEMMA BatchEndsKeeps ==
    ASSUME BatchTypeOK, FinalKnown, BatchEnds
    PROVE  BatchTypeOK' /\ FinalKnown'
  <1>1. /\ final' \in Events /\ final'.type \in {"done", "cancelled"}
        /\ final'.processed = processed /\ final' # NoEvent
    BY DEF BatchEnds, Event, Events, NoEvent, BatchTypeOK
  <1>2. /\ final = NoEvent /\ Publish(final')
        /\ \A i \in Items : item[i] \in {"recorded", "skipped"}
        /\ UNCHANGED <<item, processed, cancelled, listed, stream, seen>>
    BY DEF BatchEnds
  <1>3. BatchTypeOK'
    BY <1>1, <1>2, PublishEffect DEF BatchTypeOK
  <1>4. FinalKnown'
    BY <1>1, <1>2, PublishEffect DEF FinalKnown
  <1>. QED
    BY <1>3, <1>4

\* The stream shows an event and goes on or ends.
LEMMA FollowingKeeps ==
    ASSUME BatchTypeOK, FinalKnown, Following
    PROVE  BatchTypeOK' /\ FinalKnown'
  <1>. PICK s \in Streams : \/ Attach(s) \/ AfterSnapshot(s) \/ Receive(s) \/ Ping(s)
                           \/ AfterPing(s) \/ Leave(s)
    BY DEF Following
  <1>1. UNCHANGED <<item, processed, cancelled, final, listed>> =>
           (BatchTypeOK' <=> /\ stream' \in [Streams -> {"away", "snapshot", "waiting",
                                                       "pinged", "over", "left"}]
                             /\ queue' \in [Streams -> Seq(Events)]
                             /\ seen' \in [Streams -> Nat])
    BY DEF BatchTypeOK
  <1>2. CASE Attach(s)
    BY <1>1, <1>2 DEF Attach, BatchTypeOK, FinalKnown
  <1>3. ASSUME NEW from, LookForFinal(s, from), from # "over"
        PROVE  BatchTypeOK' /\ FinalKnown'
    <2>1. CASE final # NoEvent /\ Shows(s, final, "over") /\ Detached(s)
      <3>1. stream' = [stream EXCEPT ![s] = "over"] /\ queue' = [queue EXCEPT ![s] = <<>>]
            /\ seen' = [seen EXCEPT ![s] = processed]
            /\ UNCHANGED <<item, processed, cancelled, final, listed>>
        BY <1>3, <2>1 DEF LookForFinal, Shows, Detached, FinalKnown
      <3>2. BatchTypeOK'
        BY <1>1, <3>1 DEF BatchTypeOK
      <3>. QED
        BY <2>1, <3>1, <3>2 DEF FinalKnown, BatchTypeOK
    <2>2. CASE stream' = [stream EXCEPT ![s] = "waiting"] /\ UNCHANGED <<queue, seen>>
      <3>1. UNCHANGED <<item, processed, cancelled, final, listed>>
        BY <1>3 DEF LookForFinal
      <3>2. BatchTypeOK'
        BY <1>1, <2>2, <3>1 DEF BatchTypeOK
      <3>. QED
        BY <2>2, <3>1, <3>2 DEF FinalKnown, BatchTypeOK
    <2>. QED
      BY <1>3, <2>1, <2>2 DEF LookForFinal
  <1>4. CASE Receive(s)
    <2> DEFINE e == Head(queue[s])
    <2>1. /\ queue[s] \in Seq(Events) /\ Len(queue[s]) \in Nat
          /\ 1 \in 1 .. Len(queue[s]) /\ e = queue[s][1] /\ e \in Events
      BY <1>4 DEF Receive, BatchTypeOK
    <2>2. UNCHANGED <<item, processed, cancelled, final, listed>>
      BY <1>4 DEF Receive
    <2>3. CASE e.type = "progress"
      <3>1. stream' = [stream EXCEPT ![s] = "waiting"]
            /\ seen' = [seen EXCEPT ![s] = e.processed]
            /\ queue' = [queue EXCEPT ![s] = Tail(@)]
        BY <1>4, <2>3 DEF Receive, Shows
      <3>2. /\ Tail(queue[s]) \in Seq(Events)
            /\ \A k \in 1 .. Len(Tail(queue[s])) :
                  k + 1 \in 1 .. Len(queue[s]) /\ Tail(queue[s])[k] = queue[s][k + 1]
        BY <2>1
      <3>3. BatchTypeOK'
        BY <1>1, <2>1, <2>2, <3>1, <3>2 DEF BatchTypeOK, Events
      <3>. QED
        BY <2>2, <3>1, <3>2, <3>3 DEF FinalKnown, BatchTypeOK
    <2>4. CASE e.type # "progress"
      <3>1. stream' = [stream EXCEPT ![s] = "over"]
            /\ seen' = [seen EXCEPT ![s] = e.processed]
            /\ queue' = [queue EXCEPT ![s] = <<>>]
        BY <1>4, <2>4 DEF Receive, Shows, Detached
      <3>2. final # NoEvent /\ e.processed = processed
        BY <2>1, <2>4 DEF FinalKnown
      <3>3. BatchTypeOK'
        BY <1>1, <2>1, <2>2, <3>1 DEF BatchTypeOK, Events
      <3>. QED
        BY <2>2, <3>1, <3>2, <3>3 DEF FinalKnown, BatchTypeOK
    <2>. QED
      BY <2>3, <2>4
  <1>5. CASE Ping(s)
    BY <1>1, <1>5 DEF Ping, BatchTypeOK, FinalKnown
  <1>6. CASE Leave(s)
    <2>1. stream' = [stream EXCEPT ![s] = "left"] /\ queue' = [queue EXCEPT ![s] = <<>>]
          /\ UNCHANGED <<item, processed, cancelled, final, listed, seen>>
      BY <1>6 DEF Leave, Detached
    <2>2. BatchTypeOK'
      BY <1>1, <2>1 DEF BatchTypeOK
    <2>. QED
      BY <2>1, <2>2 DEF FinalKnown, BatchTypeOK
  <1>. QED
    BY <1>2, <1>3, <1>4, <1>5, <1>6 DEF AfterSnapshot, AfterPing

\* Every step of the batch, whoever takes it.
LEMMA BatchStepsKeep ==
    ASSUME BatchTypeOK, FinalKnown, BatchSteps
    PROVE  BatchTypeOK' /\ FinalKnown'
  <1>1. ASSUME NEW i \in Items, ItemEnters(i) \/ ItemAcquires(i)
        PROVE  BatchTypeOK' /\ FinalKnown'
    <2>1. PICK where \in {"waiting", "running", "skipped"} :
             item' = [item EXCEPT ![i] = where]
      BY <1>1 DEF ItemEnters, ItemAcquires, ItemGoes
    <2>2. /\ item[i] \in {"new", "waiting"}
          /\ UNCHANGED <<processed, cancelled, final, listed, stream, queue, seen>>
      BY <1>1 DEF ItemEnters, ItemAcquires
    <2>3. final = NoEvent
      BY <2>2 DEF FinalKnown
    <2>4. BatchTypeOK'
      BY <2>1, <2>2 DEF BatchTypeOK
    <2>. QED
      BY <2>2, <2>3, <2>4 DEF FinalKnown
  <1>2. CASE Expires \/ Cancel
    BY <1>2 DEF Expires, Cancel, BatchTypeOK, FinalKnown
  <1>. QED
    BY <1>1, <1>2, BatchEndsKeeps, FollowingKeeps DEF BatchSteps

-----------------------------------------------------------------------------
(* The requests.                                                           *)

LEMMA CallKinds ==
    /\ Idle \in Call /\ Over \in Call
    /\ Idle.kind # "edit" /\ Over.kind # "edit"
    /\ \A c \in Call : c.kind = "edit" <=> c \in Edit
    /\ \A c \in Edit : c \in Call /\ [c EXCEPT !.struck = TRUE] \in Edit
  <1>1. Idle.kind # "edit" /\ Over.kind # "edit" /\ Idle \in Call /\ Over \in Call
    BY AdminAssumption DEF Idle, Over, Call
  <1>2. \A c \in Edit : c.kind = "edit" /\ c \in Call
    BY DEF Edit, Call
  <1>3. \A c \in Call : c.kind = "edit" => c \in Edit
    BY <1>1 DEF Call
  <1>4. \A c \in Edit : [c EXCEPT !.struck = TRUE] \in Edit
    BY DEF Edit
  <1>. QED
    BY <1>1, <1>2, <1>3, <1>4

\* Striking keeps the types and whatever else is known of an edit.
LEMMA StruckEffect ==
    ASSUME TypeOK, NEW ts \in SUBSET Tokens, NEW r \in Requests, NEW next \in Call,
           request' = Struck(ts, r, next)
    PROVE  /\ request' \in [Requests -> Call]
           /\ request'[r] = next
           /\ \A q \in Requests \ {r} :
                 \/ request'[q] = request[q] /\ (request[q].kind = "edit" => request[q].new \notin ts)
                 \/ request[q] \in Edit /\ request'[q] = [request[q] EXCEPT !.struck = TRUE]
  <1>1. \A q \in Requests : request[q] \in Call
    BY DEF TypeOK
  <1>2. \A q \in Requests \ {r} :
           \/ request'[q] = request[q] /\ (request[q].kind = "edit" => request[q].new \notin ts)
           \/ request[q] \in Edit /\ request'[q] = [request[q] EXCEPT !.struck = TRUE]
    BY <1>1, CallKinds DEF Struck
  <1>3. request'[r] = next
    BY DEF Struck
  <1>4. \A q \in Requests : request'[q] \in Call
    BY <1>1, <1>2, <1>3, CallKinds
  <1>5. request' = [q \in Requests |-> request'[q]]
    BY DEF Struck
  <1>. QED
    BY <1>2, <1>3, <1>4, <1>5

\* An account is live after the step.
LiveNext(t) == rows'[t] # NoRow /\ ~rows'[t].deleted

\* What a step of request r leaves of the other requests' edits: an edit goes
\* on unchanged and its new token stays live if it was, or it is struck.
OthersStand(r) ==
    \A q \in Requests \ {r} :
       \/ /\ request'[q] = request[q]
          /\ request[q] \in Edit => (Live(request[q].new) => LiveNext(request[q].new))
       \/ request[q] \in Edit /\ request'[q] = [request[q] EXCEPT !.struck = TRUE]

\* What it makes of its own edit.
OwnStands(r) ==
    /\ request'[r] \in Edit /\ ~request'[r].struck
    /\ request'[r].step \in {"patch", "delete"}
    => LiveNext(request'[r].new) /\ request'[r].old # request'[r].new

OwnKeeps(r) ==
    /\ request[r] \in Edit /\ ~request[r].struck /\ Live(request[r].old)
    => LiveNext(request[r].old) \/ LiveNext(request[r].new)

Stands(r) ==
    /\ StoreTypeOK' /\ UNCHANGED batchVars
    /\ request' \in [Requests -> Call]
    /\ OthersStand(r) /\ OwnStands(r) /\ OwnKeeps(r)

\* The property of one step.
KeepsAccounts ==
    \A r \in Requests, old, new \in Tokens :
       Replacing(r, old, new) /\ OwnStep(r) /\ Live(old) => Live(old)' \/ Live(new)'

LEMMA StandsIsEnough ==
    ASSUME IInv, NEW r \in Requests, Stands(r)
    PROVE  IInv' /\ KeepsAccounts
  <1>1. TypeOK' /\ FinalKnown'
    BY DEF IInv, TypeOK, FinalKnown, BatchTypeOK, Stands, batchVars
  <1>2. NewIsLive'
    <2>. SUFFICES ASSUME NEW q \in Requests, request'[q].kind = "edit",
                         ~request'[q].struck, request'[q].step \in {"patch", "delete"}
                  PROVE  LiveNext(request'[q].new) /\ request'[q].old # request'[q].new
      BY DEF NewIsLive, Live, LiveNext
    <2>1. request'[q] \in Edit
      BY <1>1, CallKinds DEF TypeOK
    <2>2. CASE q = r
      BY <2>1, <2>2 DEF Stands, OwnStands
    <2>3. CASE q # r
      <3>1. ~(request[q] \in Edit /\ request'[q] = [request[q] EXCEPT !.struck = TRUE])
        BY DEF Edit
      <3>2. /\ request'[q] = request[q]
            /\ Live(request[q].new) => LiveNext(request[q].new)
        BY <2>1, <2>3, <3>1 DEF Stands, OthersStand
      <3>. QED
        BY <3>2 DEF IInv, NewIsLive
    <2>. QED
      BY <2>2, <2>3
  <1>3. KeepsAccounts
    <2>. SUFFICES ASSUME NEW q \in Requests, NEW old \in Tokens, NEW new \in Tokens,
                         Replacing(q, old, new), OwnStep(q), Live(old)
                  PROVE  Live(old)' \/ Live(new)'
      BY DEF KeepsAccounts
    <2>1. request[q] \in Edit
      BY CallKinds DEF IInv, TypeOK, Replacing
    <2>2. q = r
      BY <2>1 DEF OwnStep, Stands, OthersStand
    <2>. QED
      BY <2>1, <2>2 DEF Stands, OwnKeeps, Replacing, Live, LiveNext
  <1>. QED
    BY <1>1, <1>2, <1>3 DEF IInv

\* A request that writes nothing and is at an end or at its beginning.
LEMMA ReadStands ==
    ASSUME IInv, NEW r \in Requests, NEW next \in Call, Becomes(r, next),
           next \in Edit => next.step \in {"check", "upsert"},
           UNCHANGED <<storeVars, batchVars>>
    PROVE  Stands(r)
  <1>1. /\ request' \in [Requests -> Call] /\ request'[r] = next
        /\ \A q \in Requests \ {r} : request'[q] = request[q]
    BY DEF Becomes, IInv, TypeOK
  <1>2. StoreTypeOK' /\ UNCHANGED batchVars /\ rows' = rows
    BY DEF IInv, TypeOK, StoreTypeOK, storeVars
  <1>. QED
    BY <1>1, <1>2 DEF Stands, OthersStand, OwnStands, OwnKeeps, Live, LiveNext

\* A request that is no edit and writes rows without removing any.
LEMMA WriteStands ==
    ASSUME IInv, NEW r \in Requests, request[r] \notin Edit, Becomes(r, Over),
           StoreTypeOK', \A t \in Tokens : Live(t) => LiveNext(t), UNCHANGED batchVars
    PROVE  Stands(r)
  <1>1. /\ request' \in [Requests -> Call] /\ request'[r] = Over
        /\ \A q \in Requests \ {r} : request'[q] = request[q]
    BY CallKinds DEF Becomes, IInv, TypeOK
  <1>2. OthersStand(r)
    BY <1>1 DEF OthersStand, Edit
  <1>. QED
    BY <1>1, <1>2, CallKinds DEF Stands, OwnStands, OwnKeeps

\* A request that is no edit and removes the tokens ts.
LEMMA RemovalStands ==
    ASSUME IInv, NEW r \in Requests, request[r] \notin Edit, NEW ts \in SUBSET Tokens,
           request' = Struck(ts, r, Over),
           StoreTypeOK', \A t \in Tokens \ ts : Live(t) => LiveNext(t), UNCHANGED batchVars
    PROVE  Stands(r)
  <1>1. TypeOK /\ Over \in Call
    BY CallKinds DEF IInv
  <1>2. /\ request' \in [Requests -> Call] /\ request'[r] = Over
        /\ \A q \in Requests \ {r} :
              \/ request'[q] = request[q] /\ (request[q].kind = "edit" => request[q].new \notin ts)
              \/ request[q] \in Edit /\ request'[q] = [request[q] EXCEPT !.struck = TRUE]
    BY <1>1, StruckEffect
  <1>3. OthersStand(r)
    <2>. SUFFICES ASSUME NEW q \in Requests \ {r}, request'[q] = request[q],
                         request[q].kind = "edit" => request[q].new \notin ts,
                         request[q] \in Edit, Live(request[q].new)
                  PROVE  LiveNext(request[q].new)
      BY <1>2 DEF OthersStand
    <2>1. request[q].new \in Tokens \ ts
      BY DEF Edit
    <2>. QED
      BY <2>1
  <1>. QED
    BY <1>2, <1>3, CallKinds DEF Stands, OwnStands, OwnKeeps

-----------------------------------------------------------------------------
(* One step of each endpoint.                                              *)

LEMMA SaveStands ==
    ASSUME IInv, NEW r \in Requests, SaveReads(r) \/ SaveUpserts(r)
    PROVE  Stands(r)
  <1>1. CASE SaveReads(r)
    <2>1. PICK ts \in SUBSET Tokens, pool \in UsedPools :
             Becomes(r, IF {t \in ts : ~Live(t)} = {} THEN Over
                        ELSE [kind |-> "save", tokens |-> {t \in ts : ~Live(t)}, pool |-> pool])
      BY <1>1 DEF SaveReads
    <2>2. PICK next \in Call : next \notin Edit /\ Becomes(r, next)
      BY <2>1, CallKinds DEF Call, Edit
    <2>. QED
      BY <1>1, <2>2, ReadStands DEF SaveReads
  <1>2. CASE SaveUpserts(r)
    <2>1. request[r] \in [kind : {"save"}, tokens : SUBSET Tokens, pool : UsedPools]
      BY <1>2, AdminAssumption DEF SaveUpserts, IInv, TypeOK, Call, Edit, Idle, Over
    <2>2. StoreTypeOK' /\ \A t \in Tokens : Live(t) => LiveNext(t)
      <3>1. /\ request[r].tokens \in SUBSET Tokens
            /\ [t \in Tokens |-> request[r].pool] \in [Tokens -> UsedPools]
        BY <2>1
      <3>2. UpsertAccounts(request[r].tokens, [t \in Tokens |-> request[r].pool])
        BY <1>2 DEF SaveUpserts
      <3>. QED
        BY <3>1, <3>2, UpsertEffect DEF IInv, TypeOK, Live, LiveNext
    <2>3. request[r] \notin Edit
      BY <2>1 DEF Edit
    <2>. QED
      BY <1>2, <2>2, <2>3, WriteStands DEF SaveUpserts
  <1>. QED
    BY <1>1, <1>2

LEMMA ToggleStands ==
    ASSUME IInv, NEW r \in Requests, ToggleReads(r) \/ TogglePatches(r)
    PROVE  Stands(r)
  <1>1. CASE ToggleReads(r)
    <2>1. PICK ts \in SUBSET Tokens, status \in {"active", "disabled"} :
             Becomes(r, IF {t \in ts : rows[t] # NoRow} = {} THEN Over
                        ELSE [kind |-> "toggle", tokens |-> {t \in ts : rows[t] # NoRow},
                              status |-> status])
      BY <1>1 DEF ToggleReads
    <2>2. PICK next \in Call : next \notin Edit /\ Becomes(r, next)
      BY <2>1, CallKinds DEF Call, Edit, Statuses
    <2>. QED
      BY <1>1, <2>2, ReadStands DEF ToggleReads
  <1>2. CASE TogglePatches(r)
    <2>1. request[r] \in [kind : {"toggle"}, tokens : SUBSET Tokens, status : Statuses]
      BY <1>2, AdminAssumption DEF TogglePatches, IInv, TypeOK, Call, Edit, Idle, Over
    <2> DEFINE patch == [Keep EXCEPT !.status = request[r].status]
    <2>2. /\ patch.pool = "keep" /\ patch.status \in Statuses \cup {"keep"}
          /\ patch.windows \in SUBSET Modes
      BY <2>1 DEF Keep
    <2>3. request[r].tokens \in SUBSET Tokens /\ PatchAccounts(request[r].tokens, patch)
      BY <1>2, <2>1 DEF TogglePatches
    <2>4. StoreTypeOK' /\ \A t \in Tokens : Live(t) => LiveNext(t)
      <3>. HIDE DEF patch
      <3>. QED
        BY <2>2, <2>3, PatchEffect DEF IInv, TypeOK, Live, LiveNext
    <2>5. request[r] \notin Edit
      BY <2>1 DEF Edit
    <2>. QED
      BY <1>2, <2>4, <2>5, WriteStands DEF TogglePatches
  <1>. QED
    BY <1>1, <1>2

LEMMA DeleteStands ==
    ASSUME IInv, NEW r \in Requests, DeleteTokens(r)
    PROVE  Stands(r)
  <1>1. PICK ts \in SUBSET Tokens : DeleteAccounts(ts) /\ request' = Struck(ts, r, Over)
    BY DEF DeleteTokens
  <1>2. request[r] \notin Edit
    BY CallKinds DEF DeleteTokens, Calls, Edit
  <1>3. StoreTypeOK' /\ \A t \in Tokens \ ts : Live(t) => LiveNext(t)
    BY <1>1, DeleteEffect DEF IInv, TypeOK, Live, LiveNext
  <1>. QED
    BY <1>1, <1>2, <1>3, RemovalStands DEF DeleteTokens

LEMMA ReplaceStands ==
    ASSUME IInv, NEW r \in Requests, ReplacesPool(r)
    PROVE  Stands(r)
  <1>1. PICK ts \in SUBSET Tokens, pool \in UsedPools :
           /\ ReplacePool(pool, ts)
           /\ request' = Struck({t \in Tokens \ ts : Live(t) /\ rows[t].pool = pool}, r, Over)
    BY DEF ReplacesPool
  <1> DEFINE gone == {t \in Tokens \ ts : Live(t) /\ rows[t].pool = pool}
  <1>2. request[r] \notin Edit
    BY CallKinds DEF ReplacesPool, Calls, Edit
  <1>3. StoreTypeOK' /\ \A t \in Tokens \ gone : Live(t) => LiveNext(t)
    BY <1>1, ReplaceEffect DEF IInv, TypeOK, Live, LiveNext
  <1>. QED
    BY <1>1, <1>2, <1>3, RemovalStands DEF ReplacesPool

-----------------------------------------------------------------------------
(* The steps of an edit.                                                   *)

LEMMA EditReadStands ==
    ASSUME IInv, NEW r \in Requests, EditReads(r)
    PROVE  Stands(r)
  <1>1. PICK old \in Tokens, new \in Tokens, pool \in UsedPools :
           Becomes(r, IF rows[old] = NoRow THEN Over
                      ELSE [kind |-> "edit", old |-> old, new |-> new, pool |-> pool,
                            record |-> rows[old], struck |-> FALSE,
                            step |-> IF old = new THEN "upsert" ELSE "check"])
    BY DEF EditReads
  <1>2. PICK next \in Call : /\ next \in Edit => next.step \in {"check", "upsert"}
                            /\ Becomes(r, next)
    <2>1. CASE rows[old] = NoRow
      BY <1>1, <2>1, CallKinds DEF Edit
    <2>2. CASE rows[old] # NoRow
      <3>1. rows[old] \in Row
        BY <2>2 DEF IInv, TypeOK, StoreTypeOK
      <3>. QED
        BY <1>1, <2>2, <3>1, CallKinds DEF Edit
    <2>. QED
      BY <2>1, <2>2
  <1>. QED
    BY <1>2, ReadStands DEF EditReads

\* The step that an edit takes next.
LEMMA ThenType ==
    ASSUME IInv, NEW r \in Requests, request[r] \in Edit
    PROVE  /\ Then(r) \in Call
           /\ Then(r) \in Edit =>
                 /\ request[r].old # request[r].new /\ request[r].step # "delete"
                 /\ Then(r) = [request[r] EXCEPT !.step = EditOrder[request[r].step]]
  <1>1. request[r].step \in {"check", "upsert", "patch", "delete"}
    BY DEF Edit
  <1>2. EditOrder[request[r].step] \in {"upsert", "patch", "delete", "over"}
    BY <1>1 DEF EditOrder
  <1>3. request[r].step = "delete" => EditOrder[request[r].step] = "over"
    BY DEF EditOrder
  <1>4. EditOrder[request[r].step] # "over" =>
           [request[r] EXCEPT !.step = EditOrder[request[r].step]] \in Edit
    BY <1>2 DEF Edit
  <1>. QED
    BY <1>2, <1>3, <1>4, CallKinds DEF Then

LEMMA EditCheckStands ==
    ASSUME IInv, NEW r \in Requests, EditChecks(r)
    PROVE  Stands(r)
  <1>1. request[r] \in Edit /\ request[r].step = "check"
    BY CallKinds DEF EditChecks, AtStep, IInv, TypeOK
  <1>2. Then(r) \in Edit => Then(r).step = "upsert"
    BY <1>1, ThenType DEF EditOrder, Edit
  <1>. QED
    BY <1>1, <1>2, ThenType, ReadStands, CallKinds DEF EditChecks, Edit

LEMMA EditUpsertStands ==
    ASSUME IInv, NEW r \in Requests, EditUpserts(r)
    PROVE  Stands(r)
  <1>1. request[r] \in Edit /\ request[r].step = "upsert"
    BY CallKinds DEF EditUpserts, AtStep, IInv, TypeOK
  <1>2. /\ request[r].new \in Tokens /\ request[r].old \in Tokens
        /\ [t \in Tokens |-> request[r].pool] \in [Tokens -> UsedPools]
    BY <1>1 DEF Edit
  <1>3. StoreTypeOK' /\ LiveNext(request[r].new) /\ \A t \in Tokens : Live(t) => LiveNext(t)
    <2>1. UpsertAccounts({request[r].new}, [t \in Tokens |-> request[r].pool])
      BY DEF EditUpserts
    <2>. QED
      BY <1>2, <2>1, UpsertEffect DEF IInv, TypeOK, Live, LiveNext
  <1>4. /\ request' \in [Requests -> Call] /\ request'[r] = Then(r) /\ UNCHANGED batchVars
        /\ \A q \in Requests \ {r} : request'[q] = request[q]
    BY <1>1, ThenType DEF EditUpserts, Becomes, IInv, TypeOK
  <1>5. OthersStand(r)
    BY <1>3, <1>4 DEF OthersStand, Edit
  <1>6. OwnStands(r)
    BY <1>1, <1>3, <1>4, ThenType DEF OwnStands, Edit
  <1>. QED
    BY <1>2, <1>3, <1>4, <1>5, <1>6 DEF Stands, OwnKeeps

LEMMA EditPatchStands ==
    ASSUME IInv, NEW r \in Requests, EditPatches(r)
    PROVE  Stands(r)
  <1>1. request[r] \in Edit /\ request[r].step = "patch"
    BY CallKinds DEF EditPatches, AtStep, IInv, TypeOK
  <1> DEFINE record == request[r].record
             patch  == [Keep EXCEPT !.status  = record.status,
                                    !.windows = record.windows \cap Copied,
                                    !.dead    = Copied \ record.windows]
  <1>2. /\ request[r].new \in Tokens /\ request[r].old \in Tokens
        /\ patch.pool = "keep" /\ patch.status \in Statuses \cup {"keep"}
        /\ patch.windows \in SUBSET Modes
    BY <1>1 DEF Edit, Row, Keep
  <1>3. PatchAccounts({request[r].new}, patch)
    BY DEF EditPatches
  <1>4. StoreTypeOK' /\ \A t \in Tokens : LiveNext(t) <=> Live(t)
    <2>. HIDE DEF patch
    <2>. QED
      BY <1>2, <1>3, PatchEffect DEF IInv, TypeOK, Live, LiveNext
  <1>5. /\ request' \in [Requests -> Call] /\ request'[r] = Then(r) /\ UNCHANGED batchVars
        /\ \A q \in Requests \ {r} : request'[q] = request[q]
    BY <1>1, ThenType DEF EditPatches, Becomes, IInv, TypeOK
  <1>6. OthersStand(r)
    BY <1>4, <1>5 DEF OthersStand, Edit
  <1>7. request[r].kind = "edit" /\ ~request[r].struck => Live(request[r].new)
    BY <1>1 DEF IInv, NewIsLive
  <1>8. OwnStands(r)
    BY <1>1, <1>2, <1>4, <1>5, <1>7, ThenType DEF OwnStands, Edit
  <1>. QED
    BY <1>2, <1>4, <1>5, <1>6, <1>8 DEF Stands, OwnKeeps

LEMMA EditDeleteStands ==
    ASSUME IInv, NEW r \in Requests, EditDeletes(r)
    PROVE  Stands(r)
  <1>1. request[r] \in Edit /\ request[r].step = "delete"
    BY CallKinds DEF EditDeletes, AtStep, IInv, TypeOK
  <1>2. request[r].new \in Tokens /\ {request[r].old} \in SUBSET Tokens
    BY <1>1 DEF Edit
  <1>3. /\ DeleteAccounts({request[r].old}) /\ UNCHANGED batchVars
        /\ request' = Struck({request[r].old}, r, Then(r))
    BY DEF EditDeletes
  <1>4. StoreTypeOK' /\ \A t \in Tokens \ {request[r].old} : Live(t) => LiveNext(t)
    BY <1>2, <1>3, DeleteEffect DEF IInv, TypeOK, Live, LiveNext
  <1>5. /\ request' \in [Requests -> Call] /\ request'[r] = Then(r)
        /\ \A q \in Requests \ {r} :
              \/ /\ request'[q] = request[q]
                 /\ request[q].kind = "edit" => request[q].new \notin {request[r].old}
              \/ request[q] \in Edit /\ request'[q] = [request[q] EXCEPT !.struck = TRUE]
    BY <1>1, <1>2, <1>3, ThenType, StruckEffect DEF IInv
  <1>6. OthersStand(r)
    <2>. SUFFICES ASSUME NEW q \in Requests \ {r}, request'[q] = request[q],
                         request[q].kind = "edit" => request[q].new # request[r].old,
                         request[q] \in Edit, Live(request[q].new)
                  PROVE  LiveNext(request[q].new)
      BY <1>5 DEF OthersStand
    <2>1. request[q].new \in Tokens \ {request[r].old}
      BY DEF Edit
    <2>. QED
      BY <1>4, <2>1
  <1>7. OwnStands(r)
    BY <1>1, <1>5, ThenType DEF OwnStands
  <1>8. OwnKeeps(r)
    <2>. SUFFICES ASSUME ~request[r].struck
                  PROVE  LiveNext(request[r].new)
      BY DEF OwnKeeps
    <2>1. Live(request[r].new) /\ request[r].old # request[r].new
      BY <1>1 DEF IInv, NewIsLive, Edit
    <2>. QED
      BY <1>2, <1>4, <2>1
  <1>. QED
    BY <1>3, <1>4, <1>5, <1>6, <1>7, <1>8 DEF Stands

LEMMA CrashStands ==
    ASSUME IInv, NEW r \in Requests, Crash(r)
    PROVE  Stands(r)
  BY ReadStands, CallKinds DEF Crash, Edit

-----------------------------------------------------------------------------
(* The specification.                                                      *)

LEMMA InitHolds == Init => IInv
  <1>. SUFFICES ASSUME Init PROVE IInv
    OBVIOUS
  <1>1. StoreTypeOK
    BY AdminAssumption DEF Init, StoreTypeOK
  <1>2. BatchTypeOK
    <2>1. NoEvent \in Events /\ NoEvent.type # "progress"
      BY DEF NoEvent, Events
    <2>2. <<>> \in Seq(Events)
      OBVIOUS
    <2>. QED
      BY <2>1, <2>2 DEF Init, BatchInit, BatchTypeOK
  <1>3. request \in [Requests -> Call] /\ \A r \in Requests : request[r].kind # "edit"
    <2>1. request = [r \in Requests |-> Idle]
      BY DEF Init
    <2>. QED
      BY <2>1, CallKinds
  <1>4. FinalKnown
    BY DEF Init, BatchInit, FinalKnown
  <1>. QED
    BY <1>1, <1>2, <1>3, <1>4 DEF IInv, TypeOK, NewIsLive

\* A step of the batch's that leaves the requests alone and neither removes
\* an account nor restores one.
LEMMA BatchStands ==
    ASSUME IInv, StoreTypeOK', BatchTypeOK', FinalKnown', UNCHANGED request,
           \A t \in Tokens : LiveNext(t) <=> Live(t)
    PROVE  IInv' /\ KeepsAccounts
  <1>1. TypeOK'
    BY DEF IInv, TypeOK
  <1>2. NewIsLive'
    <2>. SUFFICES ASSUME NEW r \in Requests, request[r].kind = "edit", ~request[r].struck,
                         request[r].step \in {"patch", "delete"}
                  PROVE  LiveNext(request[r].new) /\ request[r].old # request[r].new
      BY DEF NewIsLive, Live, LiveNext
    <2>1. request[r].new \in Tokens
      BY CallKinds DEF IInv, TypeOK, Edit
    <2>. QED
      BY <2>1 DEF IInv, NewIsLive
  <1>3. KeepsAccounts
    BY DEF KeepsAccounts, OwnStep
  <1>. QED
    BY <1>1, <1>2, <1>3 DEF IInv

LEMMA StepKeeps ==
    ASSUME IInv, [Next]_vars
    PROVE  IInv' /\ KeepsAccounts
  <1>1. ASSUME NEW r \in Requests,
               \/ SaveReads(r) \/ SaveUpserts(r) \/ ToggleReads(r) \/ TogglePatches(r)
               \/ DeleteTokens(r) \/ ReplacesPool(r)
               \/ EditReads(r) \/ EditChecks(r) \/ EditUpserts(r) \/ EditPatches(r)
               \/ EditDeletes(r) \/ Crash(r)
        PROVE  IInv' /\ KeepsAccounts
    <2>1. Stands(r)
      BY <1>1, SaveStands, ToggleStands, DeleteStands, ReplaceStands, EditReadStands,
         EditCheckStands, EditUpsertStands, EditPatchStands, EditDeleteStands, CrashStands
    <2>. QED
      BY <2>1, StandsIsEnough
  <1>2. ASSUME NEW i \in Items, HandlerWrites(i) \/ HandlerEnds(i)
        PROVE  IInv' /\ KeepsAccounts
    <2>1. CASE HandlerWrites(i)
      <3>1. PICK patch \in HandlerPatches : PatchAccounts({i}, patch)
        BY <2>1 DEF HandlerWrites
      <3>2. /\ patch.pool \in Pools \cup {"keep"} /\ patch.status \in Statuses \cup {"keep"}
            /\ patch.windows \in SUBSET Modes /\ {i} \in SUBSET Tokens
        BY AdminAssumption, HandlerPatchTypes
      <3>3. StoreTypeOK' /\ \A t \in Tokens : LiveNext(t) <=> Live(t)
        BY <3>1, <3>2, PatchEffect DEF IInv, TypeOK, Live, LiveNext
      <3>4. BatchTypeOK' /\ FinalKnown' /\ UNCHANGED request
        BY <2>1 DEF HandlerWrites, batchVars, IInv, TypeOK, BatchTypeOK, FinalKnown
      <3>. QED
        BY <3>3, <3>4, BatchStands
    <2>2. CASE HandlerEnds(i)
      <3>1. BatchTypeOK' /\ FinalKnown' /\ UNCHANGED <<storeVars, request>>
        BY <2>2, ItemEndsKeeps DEF HandlerEnds, IInv, TypeOK
      <3>2. StoreTypeOK' /\ \A t \in Tokens : LiveNext(t) <=> Live(t)
        BY <3>1 DEF storeVars, IInv, TypeOK, StoreTypeOK, Live, LiveNext
      <3>. QED
        BY <3>1, <3>2, BatchStands
    <2>. QED
      BY <1>2, <2>1, <2>2
  <1>3. CASE BatchSteps
    <2>1. BatchTypeOK' /\ FinalKnown' /\ UNCHANGED <<storeVars, request>>
      BY <1>3, BatchStepsKeep DEF IInv, TypeOK, BatchSteps
    <2>2. StoreTypeOK' /\ \A t \in Tokens : LiveNext(t) <=> Live(t)
      BY <2>1 DEF storeVars, IInv, TypeOK, StoreTypeOK, Live, LiveNext
    <2>. QED
      BY <2>1, <2>2, BatchStands
  <1>4. CASE UNCHANGED vars
    <2>1. /\ StoreTypeOK' /\ BatchTypeOK' /\ FinalKnown' /\ UNCHANGED request
          /\ \A t \in Tokens : LiveNext(t) <=> Live(t)
      BY <1>4 DEF vars, storeVars, batchVars, IInv, TypeOK, StoreTypeOK, BatchTypeOK,
                  FinalKnown, Live, LiveNext
    <2>. QED
      BY <2>1, BatchStands
  <1>. QED
    BY <1>1, <1>2, <1>3, <1>4 DEF Next

\* The rows, the batch, its streams and the calls keep their types.
THEOREM TypeCorrect == Spec => []TypeOK
  <1>1. IInv /\ [Next]_vars => IInv'
    BY StepKeeps
  <1>2. IInv => TypeOK
    BY DEF IInv
  <1>. QED
    BY InitHolds, <1>1, <1>2, PTL DEF Spec

\* The final event is the last word, for any number of items, of slots and of
\* streams, any queue size and a cancellation at any moment.
THEOREM FinalCorrect == Spec => []FinalIsFinal
  <1>1. IInv /\ [Next]_vars => IInv'
    BY StepKeeps
  <1>2. IInv => FinalIsFinal
    BY DEF IInv, FinalKnown, FinalIsFinal
  <1>. QED
    BY InitHolds, <1>1, <1>2, PTL DEF Spec

\* No handler starts once the batch is cancelled.
THEOREM CancelledCorrect == Spec => NothingStartsCancelled
  <1>1. ASSUME IInv, [Next]_vars, NEW i \in Items, item[i] # "running", item'[i] = "running"
        PROVE  ~cancelled
    <2>1. CASE \E j \in Items : ItemEnters(j) \/ ItemAcquires(j)
      <3>. PICK j \in Items : ItemEnters(j) \/ ItemAcquires(j)
        BY <2>1
      <3>1. i = j
        BY <1>1 DEF ItemEnters, ItemAcquires, ItemGoes, IInv, TypeOK, BatchTypeOK
      <3>2. ~ItemEnters(j)
        BY <1>1, <3>1 DEF ItemEnters, ItemGoes, IInv, TypeOK, BatchTypeOK
      <3>3. item' = [item EXCEPT ![j] = IF cancelled THEN "skipped" ELSE "running"]
        BY <3>2 DEF ItemAcquires, ItemGoes
      <3>. QED
        BY <1>1, <3>1, <3>3 DEF IInv, TypeOK, BatchTypeOK
    <2>2. CASE \E j \in Items : ItemEnds(j)
      BY <1>1, <2>2 DEF ItemEnds, ItemGoes, IInv, TypeOK, BatchTypeOK
    <2>3. CASE UNCHANGED item
      BY <1>1, <2>3
    <2>4. Following => UNCHANGED item
      BY DEF Following, Attach, AfterSnapshot, Receive, Ping, AfterPing, Leave, LookForFinal
    <2>5. BatchSteps => \/ \E j \in Items : ItemEnters(j) \/ ItemAcquires(j)
                        \/ UNCHANGED item
      BY <2>4 DEF BatchSteps, BatchEnds, Expires, Cancel
    <2>6. (\E r \in Requests :
             \/ SaveReads(r) \/ SaveUpserts(r) \/ ToggleReads(r) \/ TogglePatches(r)
             \/ DeleteTokens(r) \/ ReplacesPool(r)
             \/ EditReads(r) \/ EditChecks(r) \/ EditUpserts(r) \/ EditPatches(r)
             \/ EditDeletes(r) \/ Crash(r)) => UNCHANGED item
      BY DEF SaveReads, SaveUpserts, ToggleReads, TogglePatches, DeleteTokens, ReplacesPool,
             EditReads, EditChecks, EditUpserts, EditPatches, EditDeletes, Crash, batchVars
    <2>7. (\E j \in Items : HandlerWrites(j) \/ HandlerEnds(j))
             => (\E j \in Items : ItemEnds(j)) \/ UNCHANGED item
      BY DEF HandlerWrites, HandlerEnds, batchVars
    <2>8. UNCHANGED vars => UNCHANGED item
      BY DEF vars, batchVars
    <2>. QED
      BY <1>1, <2>1, <2>2, <2>3, <2>5, <2>6, <2>7, <2>8 DEF Next
  <1>2. IInv /\ [Next]_vars =>
           [\A i \in Items : item[i] # "running" /\ item'[i] = "running" => ~cancelled]_batchVars
    BY <1>1
  <1>3. IInv /\ [Next]_vars => IInv'
    BY StepKeeps
  <1>. QED
    BY InitHolds, <1>2, <1>3, PTL DEF Spec, NothingStartsCancelled

\* An edit never loses the account, with any number of edits, deletions and
\* imports under way and workers that crash between two calls.
THEOREM EditCorrect == Spec => EditKeepsAccount
  <1>1. IInv /\ [Next]_vars => IInv'
    BY StepKeeps
  <1>2. IInv /\ [Next]_vars => [\A r \in Requests, old, new \in Tokens :
           Replacing(r, old, new) /\ OwnStep(r) /\ Live(old) => Live(old)' \/ Live(new)']_vars
    BY StepKeeps DEF KeepsAccounts
  <1>. QED
    BY InitHolds, <1>1, <1>2, PTL DEF Spec, EditKeepsAccount
=============================================================================
