-------------------------- MODULE VideoJobsProofs ---------------------------
(***************************************************************************)
(* Proofs about VideoJobs over MediaCache, for every set of requests, of   *)
(* workers and of files, every limit and any number of crashes.            *)
(***************************************************************************)
EXTENDS VideoJobs, FiniteSetTheorems, SequenceTheorems, TLAPS

-----------------------------------------------------------------------------
(* The accounts.                                                           *)

LEMMA UsersFinite ==
    ASSUME NEW w \in Workers
    PROVE  IsFiniteSet(Users(w)) /\ Cardinality(Users(w)) \in Nat
  <1>1. Users(w) \subseteq Requests
    BY DEF Users
  <1>. QED
    BY <1>1, VideoAssumption, FS_Subset, FS_CardinalityType

\* The stages and the counts are all that matters for the accounts.
StagesTyped ==
    /\ stage \in [Requests -> Stages]
    /\ load \in [Workers -> Nat]

\* A request that moves between two stages that both use the account, or
\* neither does.
LEMMA MoveKeepsAccounts ==
    ASSUME StagesTyped, AccountsReturned, NEW r \in Requests, NEW s \in Stages,
           MovesTo(r, s), stage[r] \in Holding(r) <=> s \in Holding(r), UNCHANGED load
    PROVE  StagesTyped' /\ AccountsReturned'
  <1>1. \A q \in Requests : stage'[q] \in Holding(q) <=> stage[q] \in Holding(q)
    BY DEF MovesTo, StagesTyped
  <1>2. \A w \in Workers : Users(w)' = Users(w)
    BY <1>1 DEF Users
  <1>. QED
    BY <1>2 DEF AccountsReturned, StagesTyped, MovesTo

LEMMA ReserveKeepsAccounts ==
    ASSUME StagesTyped, AccountsReturned, NEW r \in Requests, stage[r] = "reserve",
           MovesTo(r, "post"), load' = [load EXCEPT ![Home[r]] = @ + 1]
    PROVE  StagesTyped' /\ AccountsReturned'
  <1>1. Home[r] \in Workers
    BY VideoAssumption
  <1>2. StagesTyped'
    BY <1>1 DEF StagesTyped, MovesTo, Stages
  <1>3. ASSUME NEW w \in Workers, w # Home[r] PROVE Users(w)' = Users(w)
    BY <1>3 DEF Users, MovesTo, StagesTyped
  <1>4. r \notin Users(Home[r]) /\ Users(Home[r])' = Users(Home[r]) \cup {r}
    BY DEF Users, Holding, MovesTo, StagesTyped
  <1>5. Cardinality(Users(Home[r])') = Cardinality(Users(Home[r])) + 1
    BY <1>1, <1>4, UsersFinite, FS_AddElement
  <1>. QED
    BY <1>1, <1>2, <1>3, <1>5 DEF AccountsReturned, StagesTyped

LEMMA SettleKeepsAccounts ==
    ASSUME StagesTyped, AccountsReturned, NEW r \in Requests, stage[r] = "settle",
           NEW s \in Stages, s \notin Holding(r),
           MovesTo(r, s), load' = [load EXCEPT ![Home[r]] = @ - 1]
    PROVE  StagesTyped' /\ AccountsReturned'
  <1>1. Home[r] \in Workers
    BY VideoAssumption
  <1>2. r \in Users(Home[r]) /\ Users(Home[r])' = Users(Home[r]) \ {r}
    BY DEF Users, Holding, MovesTo, StagesTyped
  <1>3. Cardinality(Users(Home[r])') = Cardinality(Users(Home[r])) - 1
    BY <1>1, <1>2, UsersFinite, FS_RemoveElement
  <1>4. Cardinality(Users(Home[r])) > 0
    BY <1>1, <1>2, UsersFinite, FS_EmptySet
  <1>5. load[Home[r]] - 1 \in Nat /\ load[Home[r]] = Cardinality(Users(Home[r]))
    BY <1>1, <1>4, UsersFinite DEF AccountsReturned
  <1>6. StagesTyped'
    BY <1>1, <1>5 DEF StagesTyped, MovesTo
  <1>7. ASSUME NEW w \in Workers, w # Home[r] PROVE Users(w)' = Users(w)
    BY <1>7 DEF Users, MovesTo, StagesTyped
  <1>. QED
    BY <1>1, <1>3, <1>5, <1>6, <1>7 DEF AccountsReturned, StagesTyped

LEMMA CrashKeepsAccounts ==
    ASSUME StagesTyped, AccountsReturned, NEW w \in Workers, Crash(w)
    PROVE  StagesTyped' /\ AccountsReturned'
  <1>1. /\ load' = [load EXCEPT ![w] = 0]
        /\ stage' = [r \in Requests |-> IF Home[r] = w /\ stage[r] # "new" THEN "lost"
                                        ELSE stage[r]]
    BY DEF Crash
  <1>2. StagesTyped'
    BY <1>1 DEF StagesTyped, Stages
  <1>3. Users(w)' = {}
    BY <1>1 DEF Users, Holding
  <1>4. ASSUME NEW v \in Workers, v # w PROVE Users(v)' = Users(v)
    BY <1>1, <1>4 DEF Users
  <1>. QED
    BY <1>1, <1>2, <1>3, <1>4, FS_EmptySet DEF AccountsReturned, StagesTyped

\* The actions of a request that move it, and where they move it.
LEMMA RunKeepsAccounts ==
    ASSUME StagesTyped, AccountsReturned, NEW r \in Requests, Create(r) \/ Run(r)
    PROVE  StagesTyped' /\ AccountsReturned'
  <1> DEFINE Moves(s) == MovesTo(r, s) /\ (stage[r] \in Holding(r) <=> s \in Holding(r))
  <1>0. ASSUME NEW s \in Stages, Moves(s), UNCHANGED load
        PROVE  StagesTyped' /\ AccountsReturned'
    BY <1>0, MoveKeepsAccounts
  <1>1. CASE Create(r) \/ Start(r) \/ Complete(r)
    <2>1. PICK s \in {"start", "reserve", "done"} : Moves(s)
      BY <1>1 DEF Create, Start, Complete, Holding
    <2>. QED
      BY <1>0, <1>1, <2>1 DEF Create, Start, Complete, Stages
  <1>2. CASE Post(r) \/ EndSegment(r) \/ SegmentFails(r)
    <2>1. CASE stage' = stage /\ UNCHANGED load
      BY <2>1 DEF StagesTyped, AccountsReturned, Users
    <2>2. CASE \E s \in {"segment", "settle", "output"} : Moves(s) /\ UNCHANGED load
      BY <1>0, <2>2 DEF Stages
    <2>. QED
      BY <1>2, <2>1, <2>2 DEF Post, EndSegment, SegmentFails, Holding
  <1>3. CASE Output(r)
    <2>1. PICK s \in {"save", "settle"} : Moves(s)
      BY <1>3 DEF Output, Holding
    <2>. QED
      BY <1>0, <1>3, <2>1 DEF Output, Stages
  <1>4. CASE SaveUnguarded(r) \/ SaveGuarded(r) \/ SaveWrites(r) \/ SaveReturns(r)
    <2>1. PICK s \in {"saved", "settle", "guarded", "saving"} : Moves(s)
      BY <1>4 DEF SaveUnguarded, SaveGuarded, SaveWrites, SaveReturns, AfterSave, Holding
    <2>. QED
      BY <1>0, <1>4, <2>1 DEF SaveUnguarded, SaveGuarded, SaveWrites, SaveReturns, Stages
  <1>5. CASE SaveFails(r)
    <2>1. PICK s \in {"done", "settle"} : Moves(s)
      BY <1>5 DEF SaveFails, Failed, Holding
    <2>. QED
      BY <1>0, <1>5, <2>1 DEF SaveFails, Stages
  <1>6. CASE Reserve(r)
    <2>1. CASE Moves("done") /\ UNCHANGED load
      BY <1>0, <2>1 DEF Stages
    <2>2. CASE MovesTo(r, "post") /\ load' = [load EXCEPT ![Home[r]] = @ + 1]
      BY <1>6, <2>2, ReserveKeepsAccounts DEF Reserve
    <2>. QED
      BY <1>6, <2>1, <2>2 DEF Reserve, Failed, Holding
  <1>7. CASE Settle(r)
    <2>1. PICK s \in {"save", "done"} : s \notin Holding(r) /\ MovesTo(r, s)
      BY <1>7 DEF Settle, Failed, Holding
    <2>. QED
      BY <1>7, <2>1, SettleKeepsAccounts DEF Settle, Stages
  <1>. QED
    BY <1>1, <1>2, <1>3, <1>4, <1>5, <1>6, <1>7 DEF Run

\* The other actions but for a crash touch neither stages nor counts.
LEMMA OthersLeaveStages ==
    ASSUME \/ \E r \in Requests : Report(r) \/ Expire(r) \/ Show(r) \/ Reply(r) \/ Leave(r)
           \/ AdminEnters \/ Configure \/ AdminReconciles \/ AdminReturns \/ UnlinkNext
           \/ \E w \in Workers : LoadConfig(w) \/ StartReconcile(w) \/ Ready(w) \/ Restart(w)
           \/ UNCHANGED vars
    PROVE  UNCHANGED <<stage, load>>
  <1>1. ASSUME NEW r \in Requests, Report(r) \/ Expire(r) \/ Show(r) \/ Reply(r) \/ Leave(r)
        PROVE  UNCHANGED <<stage, load>>
    BY <1>1 DEF Report, Expire, Show, Reply, Leave, jobVars
  <1>2. ASSUME AdminEnters \/ Configure \/ AdminReconciles \/ AdminReturns \/ UnlinkNext
        PROVE  UNCHANGED <<stage, load>>
    BY <1>2 DEF AdminEnters, Configure, AdminReconciles, AdminReturns, UnlinkNext, jobVars
  <1>3. ASSUME NEW w \in Workers, LoadConfig(w) \/ StartReconcile(w) \/ Ready(w) \/ Restart(w)
        PROVE  UNCHANGED <<stage, load>>
    BY <1>3 DEF LoadConfig, StartReconcile, Ready, Restart, jobVars
  <1>4. UNCHANGED vars => UNCHANGED <<stage, load>>
    BY DEF vars
  <1>. QED
    BY <1>1, <1>2, <1>3, <1>4

\* A worker's in-flight count is the number of its requests that use the
\* account, after any number of failures, disconnects and crashes.
THEOREM AccountsCorrect == Spec => []AccountsReturned
  <1>1. Init => StagesTyped /\ AccountsReturned
    <2>. SUFFICES ASSUME Init PROVE StagesTyped /\ AccountsReturned
      OBVIOUS
    <2>1. StagesTyped
      BY DEF Init, StagesTyped, Stages
    <2>2. \A w \in Workers : Users(w) = {}
      BY DEF Init, Users, Holding
    <2>. QED
      BY <2>1, <2>2, FS_EmptySet DEF Init, AccountsReturned
  <1>2. StagesTyped /\ AccountsReturned /\ [Next]_vars => StagesTyped' /\ AccountsReturned'
    <2>. SUFFICES ASSUME StagesTyped, AccountsReturned, [Next]_vars
                  PROVE  StagesTyped' /\ AccountsReturned'
      OBVIOUS
    <2>1. UNCHANGED <<stage, load>> => StagesTyped' /\ AccountsReturned'
      BY DEF StagesTyped, AccountsReturned, Users
    <2>. QED
      BY <2>1, RunKeepsAccounts, CrashKeepsAccounts, OthersLeaveStages DEF Next
  <1>. QED
    BY <1>1, <1>2, PTL DEF Spec

-----------------------------------------------------------------------------
(* The streams.                                                            *)

\* What is shown and what waits in the queue make up what was reported.
Covered(r) ==
    /\ \A k \in 1 .. Len(queue[r]) : queue[r][k] + 1 <= reached[r]
    /\ shown[r] <= reached[r]
    /\ \/ shown[r] = reached[r]
       \/ \E k \in 1 .. Len(queue[r]) : queue[r][k] + 1 = reached[r]

Replies == {"none", "content", "error", "left", "lost"}

StreamInv ==
    /\ queue \in [Requests -> Seq(Nat)] /\ shown \in [Requests -> Nat]
    /\ reached \in [Requests -> Nat] /\ reply \in [Requests -> Replies]
    /\ \A r \in Requests :
          /\ r \in Jobs => queue[r] = <<>>
          /\ reply[r] = "content" => queue[r] = <<>>
          /\ reply[r] \in {"none", "content"} => Covered(r)

\* The progress of a segment is a number.
ProgressTyped == segment \in [Requests -> Nat \ {0}]

LEMMA ScaledIsNat ==
    ASSUME NEW k \in Nat \ {0}, NEW reading \in 0 .. 100, NEW of \in Nat \ {0}
    PROVE  Scaled(k, reading, of) \in Nat
  <1>1. (k - 1) * 100 + reading \in Nat
    OBVIOUS
  <1>. QED
    BY <1>1 DEF Scaled

LEMMA ReportKeepsStreams ==
    ASSUME StreamInv, ProgressTyped, NEW r \in Requests, Report(r)
    PROVE  StreamInv'
  <1>1. PICK reading \in Readings :
           LET p == Scaled(segment[r], reading, Segments[r])
           IN  IF r \in Jobs
               THEN UNCHANGED <<queue, reached>>
               ELSE /\ reply[r] = "none"
                    /\ queue' = [queue EXCEPT ![r] = Append(@, p)]
                    /\ reached' = [reached EXCEPT ![r] = Larger(@, p + 1)]
    BY DEF Report
  <1>2. UNCHANGED <<shown, reply>>
    BY DEF Report
  <1>3. CASE r \in Jobs
    BY <1>1, <1>2, <1>3 DEF StreamInv, Covered
  <1>4. CASE r \notin Jobs
    <2> DEFINE p == Scaled(segment[r], reading, Segments[r])
    <2>1. p \in Nat
      BY ScaledIsNat, VideoAssumption DEF ProgressTyped
    <2>2. /\ reply[r] = "none"
          /\ queue' = [queue EXCEPT ![r] = Append(@, p)]
          /\ reached' = [reached EXCEPT ![r] = IF @ > p + 1 THEN @ ELSE p + 1]
      BY <1>1, <1>4 DEF Larger
    <2>. HIDE DEF p
    <2> DEFINE q == queue[r]
    <2>3. /\ q \in Seq(Nat) /\ queue'[r] = Append(q, p) /\ Len(q) \in Nat
          /\ Len(Append(q, p)) = Len(q) + 1 /\ Append(q, p)[Len(q) + 1] = p
          /\ \A k \in 1 .. Len(q) : Append(q, p)[k] = q[k]
      BY <2>1, <2>2 DEF StreamInv
    <2>4. Covered(r)
      BY <2>2 DEF StreamInv
    <2>5. /\ reached'[r] = IF reached[r] > p + 1 THEN reached[r] ELSE p + 1
          /\ reached[r] \in Nat /\ shown'[r] = shown[r] /\ shown[r] \in Nat
      BY <1>2, <2>2 DEF StreamInv
    <2>6. Covered(r)'
      <3>. HIDE DEF q
      <3>1. \A k \in 1 .. Len(queue'[r]) : queue'[r][k] + 1 <= reached'[r]
        <4>1. SUFFICES ASSUME NEW k \in 1 .. Len(q) + 1
                       PROVE  Append(q, p)[k] + 1 <= reached'[r]
          BY <2>3
        <4>2. CASE k \in 1 .. Len(q)
          <5>1. q[k] \in Nat /\ q[k] + 1 <= reached[r] /\ Append(q, p)[k] = q[k]
            BY <2>3, <2>4, <4>2 DEF Covered, q
          <5>. QED
            BY <2>1, <2>5, <5>1
        <4>3. CASE k = Len(q) + 1
          BY <2>1, <2>3, <2>5, <4>3
        <4>. QED
          BY <2>3, <4>2, <4>3
      <3>2. shown'[r] <= reached'[r]
        BY <2>1, <2>4, <2>5 DEF Covered
      <3>3. \/ shown'[r] = reached'[r]
            \/ \E k \in 1 .. Len(queue'[r]) : queue'[r][k] + 1 = reached'[r]
        <4>1. CASE reached[r] > p + 1
          <5>1. reached'[r] = reached[r]
            BY <2>5, <4>1
          <5>2. CASE shown[r] = reached[r]
            BY <2>5, <5>1, <5>2
          <5>3. CASE \E k \in 1 .. Len(q) : q[k] + 1 = reached[r]
            BY <2>3, <5>1, <5>3
          <5>. QED
            BY <2>4, <5>2, <5>3 DEF Covered, q
        <4>2. CASE ~(reached[r] > p + 1)
          <5>1. reached'[r] = p + 1 /\ Len(q) + 1 \in 1 .. Len(queue'[r])
                /\ queue'[r][Len(q) + 1] = p
            BY <2>3, <2>5, <4>2
          <5>. QED
            BY <5>1
        <4>. QED
          BY <4>1, <4>2
      <3>. QED
        BY <3>1, <3>2, <3>3 DEF Covered
    <2>7. ASSUME NEW o \in Requests, o # r
          PROVE  queue'[o] = queue[o] /\ reached'[o] = reached[o]
      BY <2>2, <2>7 DEF StreamInv
    <2>8. queue' \in [Requests -> Seq(Nat)] /\ reached' \in [Requests -> Nat]
      BY <2>1, <2>2 DEF StreamInv
    <2>. QED
      BY <1>2, <1>4, <2>2, <2>6, <2>7, <2>8 DEF StreamInv, Covered
  <1>. QED
    BY <1>3, <1>4

LEMMA ShowKeepsStreams ==
    ASSUME StreamInv, NEW r \in Requests, Show(r)
    PROVE  StreamInv'
  <1> DEFINE q == queue[r]
  <1>1. /\ reply[r] = "none" /\ q # <<>> /\ UNCHANGED <<reached, reply>>
        /\ queue' = [queue EXCEPT ![r] = Tail(q)]
        /\ shown' = [shown EXCEPT ![r] = Larger(@, Head(q) + 1)]
    BY DEF Show
  <1>2. /\ q \in Seq(Nat) /\ Len(q) \in Nat /\ 1 \in 1 .. Len(q) /\ q[1] \in Nat
        /\ Head(q) = q[1] /\ Tail(q) \in Seq(Nat) /\ Len(Tail(q)) = Len(q) - 1
        /\ \A k \in 1 .. Len(Tail(q)) : Tail(q)[k] = q[k + 1]
    BY <1>1 DEF StreamInv
  <1>3. Covered(r) /\ shown[r] \in Nat /\ reached[r] \in Nat
    BY <1>1 DEF StreamInv
  <1>4. /\ queue'[r] = Tail(q) /\ reached'[r] = reached[r]
        /\ shown'[r] = IF shown[r] > q[1] + 1 THEN shown[r] ELSE q[1] + 1
    BY <1>1, <1>2 DEF StreamInv, Larger
  <1>5. Covered(r)'
    <2>. HIDE DEF q
    <2>1. \A k \in 1 .. Len(q) : q[k] + 1 <= reached[r]
      BY <1>3 DEF Covered, q
    <2>2. \A k \in 1 .. Len(queue'[r]) : queue'[r][k] + 1 <= reached'[r]
      BY <1>2, <1>4, <2>1
    <2>3. shown'[r] <= reached'[r]
      BY <1>2, <1>3, <1>4, <2>1 DEF Covered
    <2>4. \/ shown'[r] = reached'[r]
          \/ \E k \in 1 .. Len(queue'[r]) : queue'[r][k] + 1 = reached'[r]
      <3>1. CASE shown[r] = reached[r]
        BY <1>2, <1>3, <1>4, <2>1, <3>1
      <3>2. CASE q[1] + 1 = reached[r]
        BY <1>2, <1>3, <1>4, <3>2 DEF Covered
      <3>3. CASE \E k \in 2 .. Len(q) : q[k] + 1 = reached[r]
        <4>1. PICK k \in 2 .. Len(q) : q[k] + 1 = reached[r]
          BY <3>3
        <4>2. k - 1 \in 1 .. Len(queue'[r]) /\ queue'[r][k - 1] = q[k]
          BY <1>2, <1>4, <4>1
        <4>. QED
          BY <1>4, <4>1, <4>2
      <3>4. \A k \in 1 .. Len(q) : k = 1 \/ k \in 2 .. Len(q)
        BY <1>2
      <3>. QED
        BY <1>3, <3>1, <3>2, <3>3, <3>4 DEF Covered, q
    <2>. QED
      BY <2>2, <2>3, <2>4 DEF Covered
  <1>6. ASSUME NEW o \in Requests, o # r
        PROVE  queue'[o] = queue[o] /\ shown'[o] = shown[o]
    BY <1>1, <1>6 DEF StreamInv
  <1>7. queue' \in [Requests -> Seq(Nat)] /\ shown' \in [Requests -> Nat]
    BY <1>1, <1>2 DEF StreamInv, Larger
  <1>8. r \notin Jobs
    BY <1>1 DEF StreamInv
  <1>. QED
    BY <1>1, <1>5, <1>6, <1>7, <1>8 DEF StreamInv, Covered

LEMMA EndKeepsStreams ==
    ASSUME StreamInv, NEW r \in Requests, Reply(r) \/ Leave(r)
    PROVE  StreamInv'
  <1>1. CASE Reply(r)
    <2>1. /\ queue[r] = <<>> /\ reply[r] = "none" /\ UNCHANGED <<queue, shown, reached>>
          /\ \E what \in {"content", "error"} : reply' = [reply EXCEPT ![r] = what]
      BY <1>1 DEF Reply, Drained
    <2>2. reply' \in [Requests -> Replies]
      BY <2>1 DEF StreamInv, Replies
    <2>3. \A o \in Requests : o # r => reply'[o] = reply[o]
      BY <2>1 DEF StreamInv
    <2>4. Covered(r)' /\ queue'[r] = <<>>
      BY <2>1 DEF StreamInv, Covered
    <2>5. ASSUME NEW o \in Requests PROVE Covered(o)' <=> Covered(o)
      BY <2>1 DEF Covered
    <2>. QED
      BY <2>1, <2>2, <2>3, <2>4, <2>5 DEF StreamInv
  <1>2. CASE Leave(r)
    <2>1. /\ reply' = [reply EXCEPT ![r] = "left"] /\ queue' = [queue EXCEPT ![r] = <<>>]
          /\ shown' = [shown EXCEPT ![r] = 0] /\ reached' = [reached EXCEPT ![r] = 0]
      BY <1>2 DEF Leave
    <2>2. /\ queue' \in [Requests -> Seq(Nat)] /\ shown' \in [Requests -> Nat]
          /\ reached' \in [Requests -> Nat] /\ reply' \in [Requests -> Replies]
      BY <2>1 DEF StreamInv, Replies
    <2>3. queue'[r] = <<>> /\ reply'[r] = "left"
      BY <2>1 DEF StreamInv
    <2>4. ASSUME NEW o \in Requests, o # r
          PROVE  /\ queue'[o] = queue[o] /\ reply'[o] = reply[o]
                 /\ shown'[o] = shown[o] /\ reached'[o] = reached[o]
      BY <2>1, <2>4 DEF StreamInv
    <2>5. ASSUME NEW o \in Requests
          PROVE  /\ o \in Jobs => queue'[o] = <<>>
                 /\ reply'[o] = "content" => queue'[o] = <<>>
                 /\ reply'[o] \in {"none", "content"} => Covered(o)'
      BY <2>3, <2>4 DEF StreamInv, Covered
    <2>. QED
      BY <2>2, <2>5 DEF StreamInv
  <1>. QED
    BY <1>1, <1>2

LEMMA CrashKeepsStreams ==
    ASSUME StreamInv, NEW w \in Workers, Crash(w)
    PROVE  StreamInv'
  <1> DEFINE struck == {r \in Requests : Home[r] = w /\ stage[r] # "new"}
  <1>1. /\ queue' = [r \in Requests |-> IF r \in struck THEN <<>> ELSE queue[r]]
        /\ reply' = [r \in Requests |->
                       IF r \in struck \ Jobs /\ reply[r] = "none" THEN "lost"
                       ELSE reply[r]]
        /\ UNCHANGED <<shown, reached>>
    BY DEF Crash
  <1>. HIDE DEF struck
  <1>2. queue' \in [Requests -> Seq(Nat)] /\ reply' \in [Requests -> Replies]
    BY <1>1 DEF StreamInv, Replies
  <1>3. ASSUME NEW r \in Requests, reply'[r] \in {"none", "content"}
        PROVE  queue'[r] = queue[r] /\ reply'[r] = reply[r]
    BY <1>1, <1>3 DEF StreamInv
  <1>4. ASSUME NEW r \in Requests, r \in Jobs PROVE queue'[r] = <<>>
    BY <1>1, <1>4 DEF StreamInv
  <1>5. ASSUME NEW r \in Requests, reply'[r] \in {"none", "content"}
        PROVE  Covered(r)' /\ (reply'[r] = "content" => queue'[r] = <<>>)
    BY <1>1, <1>3, <1>5 DEF StreamInv, Covered
  <1>. QED
    BY <1>1, <1>2, <1>4, <1>5 DEF StreamInv

\* The segment a request generates is at least its first.
LEMMA SegmentsAdvance ==
    ASSUME ProgressTyped, [Next]_vars
    PROVE  ProgressTyped'
  <1>1. UNCHANGED segment \/ \E r \in Requests : segment' = [segment EXCEPT ![r] = @ + 1]
    <2>1. ASSUME NEW r \in Requests, Create(r) \/ Report(r) \/ Expire(r) \/ Show(r)
                                     \/ Reply(r) \/ Leave(r)
          PROVE  UNCHANGED segment
      BY <2>1 DEF Create, Report, Expire, Show, Reply, Leave, jobVars
    <2>2. ASSUME NEW r \in Requests, Run(r), ~EndSegment(r)
          PROVE  UNCHANGED segment
      BY <2>2 DEF Run, Start, Reserve, Post, SegmentFails, Output, Settle, SaveUnguarded,
                  SaveGuarded, SaveWrites, SaveFails, SaveReturns, Complete
    <2>3. ASSUME NEW r \in Requests, EndSegment(r)
          PROVE  UNCHANGED segment \/ segment' = [segment EXCEPT ![r] = @ + 1]
      BY <2>3 DEF EndSegment
    <2>4. ASSUME AdminEnters \/ Configure \/ AdminReconciles \/ AdminReturns \/ UnlinkNext
          PROVE  UNCHANGED segment
      BY <2>4 DEF AdminEnters, Configure, AdminReconciles, AdminReturns, UnlinkNext, jobVars
    <2>5. ASSUME NEW w \in Workers, LoadConfig(w) \/ StartReconcile(w) \/ Ready(w)
                                    \/ Crash(w) \/ Restart(w)
          PROVE  UNCHANGED segment
      BY <2>5 DEF LoadConfig, StartReconcile, Ready, Crash, Restart, jobVars
    <2>6. UNCHANGED vars => UNCHANGED segment
      BY DEF vars
    <2>. QED
      BY <2>1, <2>2, <2>3, <2>4, <2>5, <2>6 DEF Next
  <1>. QED
    BY <1>1 DEF ProgressTyped

\* The other actions leave the streams alone.
LEMMA OthersLeaveStreams ==
    ASSUME \/ \E r \in Requests : Create(r) \/ Run(r) \/ Expire(r)
           \/ AdminEnters \/ Configure \/ AdminReconciles \/ AdminReturns \/ UnlinkNext
           \/ \E w \in Workers : LoadConfig(w) \/ StartReconcile(w) \/ Ready(w) \/ Restart(w)
           \/ UNCHANGED vars
    PROVE  UNCHANGED streamVars
  <1>1. ASSUME NEW r \in Requests, Create(r) \/ Expire(r)
        PROVE  UNCHANGED streamVars
    BY <1>1 DEF Create, Expire
  <1>2. ASSUME NEW r \in Requests, Run(r)
        PROVE  UNCHANGED streamVars
    BY <1>2 DEF Run, Start, Reserve, Post, EndSegment, SegmentFails, Output, Settle,
                SaveUnguarded, SaveGuarded, SaveWrites, SaveFails, SaveReturns, Complete
  <1>3. ASSUME AdminEnters \/ Configure \/ AdminReconciles \/ AdminReturns \/ UnlinkNext
        PROVE  UNCHANGED streamVars
    BY <1>3 DEF AdminEnters, Configure, AdminReconciles, AdminReturns, UnlinkNext
  <1>4. ASSUME NEW w \in Workers, LoadConfig(w) \/ StartReconcile(w) \/ Ready(w) \/ Restart(w)
        PROVE  UNCHANGED streamVars
    BY <1>4 DEF LoadConfig, StartReconcile, Ready, Restart
  <1>5. UNCHANGED vars => UNCHANGED streamVars
    BY DEF vars, streamVars
  <1>. QED
    BY <1>1, <1>2, <1>3, <1>4, <1>5

\* A stream that delivers its video has shown all the progress reported to
\* it, for any number of segments and any readings of the upstream.
THEOREM StreamCorrect == Spec => []StreamComplete
  <1>1. Init => StreamInv /\ ProgressTyped
    BY DEF Init, StreamInv, ProgressTyped, Covered, Replies
  <1>2. StreamInv /\ ProgressTyped /\ [Next]_vars => StreamInv' /\ ProgressTyped'
    <2>. SUFFICES ASSUME StreamInv, ProgressTyped, [Next]_vars
                  PROVE  StreamInv'
      BY SegmentsAdvance
    <2>1. UNCHANGED streamVars => StreamInv'
      BY DEF StreamInv, Covered, streamVars
    <2>. QED
      BY <2>1, ReportKeepsStreams, ShowKeepsStreams, EndKeepsStreams, CrashKeepsStreams,
         OthersLeaveStreams DEF Next
  <1>3. StreamInv => StreamComplete
    BY DEF StreamInv, StreamComplete, Covered
  <1>. QED
    BY <1>1, <1>2, <1>3, PTL DEF Spec

-----------------------------------------------------------------------------
(* The file a guarded save was called for.                                 *)

DiskTyped == disk \in [Names -> Nat] /\ clock \in Nat

\* Inside its save a request holds the guard, and its file is there and is
\* not among those it has still to unlink.
SavingInv ==
    /\ DiskTyped
    /\ stage \in [Requests -> Stages]
    /\ \A r \in Requests : stage[r] = "saving" =>
          guard = r /\ disk[File[r]] > 0 /\ File[r] \notin victims

\* The eviction spares the file that is being saved.
LEMMA ExcessSpares ==
    ASSUME NEW stamps, NEW n, NEW l
    PROVE  n \notin Excess(stamps, {n}, l)
  BY DEF Excess

\* What no step but the end of a save and a crash does to the files: it
\* takes the ones due to be unlinked, or it is made while no request saves.
LeavesSaves ==
    /\ DiskTyped'
    /\ \/ guard \notin Requests
       \/ /\ guard' = guard /\ victims' \subseteq victims
          /\ \A n \in Names : disk[n] > 0 /\ n \notin victims => disk'[n] > 0

LEMMA EnterLeavesSaves ==
    ASSUME DiskTyped, NEW op, NEW newRows, NEW doomed, Enter(op, newRows, doomed),
           disk' = disk /\ clock' = clock
    PROVE  LeavesSaves
  BY CacheAssumption, VideoAssumption DEF Enter, LeavesSaves, DiskTyped

LEMMA IdleLeavesSaves ==
    ASSUME DiskTyped, UNCHANGED cacheVars
    PROVE  LeavesSaves
  BY DEF DiskTyped, LeavesSaves, cacheVars

LEMMA UnlinkLeavesSaves ==
    ASSUME DiskTyped, NEW op, Unlink(op)
    PROVE  LeavesSaves
  <1>1. PICK n \in victims : disk' = [disk EXCEPT ![n] = 0] /\ victims' = victims \ {n}
    BY DEF Unlink
  <1>2. UNCHANGED <<clock, guard>>
    BY DEF Unlink
  <1>3. disk' \in [Names -> Nat]
    BY <1>1 DEF DiskTyped
  <1>4. ASSUME NEW m \in Names, m \notin victims PROVE disk'[m] = disk[m]
    BY <1>1, <1>4 DEF DiskTyped
  <1>. QED
    BY <1>1, <1>2, <1>3, <1>4 DEF DiskTyped, LeavesSaves

LEMMA UnlimitedLeavesSaves ==
    ASSUME DiskTyped, NEW n \in Names, SaveUnlimited(n)
    PROVE  LeavesSaves
  BY DEF DiskTyped, LeavesSaves, SaveUnlimited

LEMMA CommitLeavesSaves ==
    ASSUME DiskTyped, NEW op, op \notin Requests, Commit(op)
    PROVE  LeavesSaves
  BY DEF DiskTyped, LeavesSaves, Commit

\* A step that leaves the saves alone and starts none keeps the invariant.
LEMMA QuietKeepsSaves ==
    ASSUME SavingInv, LeavesSaves, stage' \in [Requests -> Stages],
           \A r \in Requests : stage'[r] = "saving" => stage[r] = "saving"
    PROVE  SavingInv'
  <1>1. \A r \in Requests : File[r] \in Names
    BY VideoAssumption
  <1>. QED
    BY <1>1 DEF SavingInv, LeavesSaves

\* The steps of a request, but for the write and the end of its save.
LEMMA RunLeavesSaves ==
    ASSUME SavingInv, NEW r \in Requests, Create(r) \/ Run(r),
           ~SaveWrites(r), ~SaveReturns(r)
    PROVE  /\ LeavesSaves
           /\ stage' \in [Requests -> Stages]
           /\ \A o \in Requests : stage'[o] = "saving" => stage[o] = "saving"
  <1>1. UNCHANGED stage \/ \E s \in Stages \ {"saving"} : MovesTo(r, s)
    BY DEF Create, Run, Start, Reserve, Post, EndSegment, SegmentFails, Output, Settle,
           SaveUnguarded, SaveGuarded, SaveFails, Complete, Failed, AfterSave, Stages
  <1>2. UNCHANGED cacheVars \/ SaveUnlimited(File[r])
    BY DEF Create, Run, Start, Reserve, Post, EndSegment, SegmentFails, Output, Settle,
           SaveUnguarded, SaveGuarded, SaveFails, Complete
  <1>3. LeavesSaves
    BY <1>2, IdleLeavesSaves, UnlimitedLeavesSaves, VideoAssumption DEF SavingInv
  <1>. QED
    BY <1>1, <1>3 DEF MovesTo, SavingInv

\* The steps of everything else, but for a crash.
LEMMA OthersLeaveSaves ==
    ASSUME DiskTyped,
           \/ \E r \in Requests : Report(r) \/ Expire(r) \/ Show(r) \/ Reply(r) \/ Leave(r)
           \/ AdminEnters \/ Configure \/ AdminReconciles \/ AdminReturns \/ UnlinkNext
           \/ \E w \in Workers : LoadConfig(w) \/ StartReconcile(w) \/ Ready(w) \/ Restart(w)
           \/ UNCHANGED vars
    PROVE  LeavesSaves
  <1>1. ASSUME NEW r \in Requests, Report(r) \/ Expire(r) \/ Show(r) \/ Reply(r) \/ Leave(r)
        PROVE  LeavesSaves
    BY <1>1, IdleLeavesSaves DEF Report, Expire, Show, Reply, Leave
  <1>2. CASE AdminEnters
    BY <1>2, EnterLeavesSaves DEF AdminEnters, Delete, Clear
  <1>3. CASE Configure
    BY <1>3, IdleLeavesSaves DEF Configure
  <1>4. CASE AdminReconciles
    BY <1>4, EnterLeavesSaves DEF AdminReconciles, Reconcile
  <1>5. CASE AdminReturns
    BY <1>5, CommitLeavesSaves, VideoAssumption DEF AdminReturns
  <1>6. CASE UnlinkNext
    BY <1>6, UnlinkLeavesSaves DEF UnlinkNext
  <1>7. ASSUME NEW w \in Workers, LoadConfig(w) \/ Restart(w)
        PROVE  LeavesSaves
    BY <1>7, IdleLeavesSaves DEF LoadConfig, Restart
  <1>8. ASSUME NEW w \in Workers, StartReconcile(w)
        PROVE  LeavesSaves
    BY <1>8, EnterLeavesSaves DEF StartReconcile, Reconcile
  <1>9. ASSUME NEW w \in Workers, Ready(w)
        PROVE  LeavesSaves
    <2>1. w \notin Requests
      BY VideoAssumption
    <2>. QED
      BY <1>9, <2>1, IdleLeavesSaves, CommitLeavesSaves DEF Ready
  <1>10. CASE UNCHANGED vars
    BY <1>10, IdleLeavesSaves DEF vars, cacheVars
  <1>. QED
    BY <1>1, <1>2, <1>3, <1>4, <1>5, <1>6, <1>7, <1>8, <1>9, <1>10

LEMMA WriteKeepsSaves ==
    ASSUME SavingInv, NEW r \in Requests, SaveWrites(r)
    PROVE  SavingInv' /\ LeavesSaves
  <1>1. guard = NoOp /\ guard' = r /\ MovesTo(r, "saving")
    BY DEF SaveWrites, SaveExisting, SaveNew, Enter
  <1>2. r \in Ops /\ File[r] \in Names /\ NoOp \notin Requests
    BY CacheAssumption, VideoAssumption
  <1>3. disk'[File[r]] > 0 /\ DiskTyped'
    BY <1>2 DEF SaveWrites, SaveExisting, SaveNew, SavingInv, DiskTyped
  <1>4. File[r] \notin victims'
    BY ExcessSpares DEF SaveWrites, SaveExisting, SaveNew, Enter
  <1>5. ASSUME NEW o \in Requests, o # r PROVE stage'[o] # "saving"
    BY <1>1, <1>2, <1>5 DEF SavingInv, MovesTo
  <1>6. stage' \in [Requests -> Stages]
    BY <1>1 DEF SavingInv, MovesTo, Stages
  <1>. QED
    BY <1>1, <1>2, <1>3, <1>4, <1>5, <1>6 DEF SavingInv, LeavesSaves

LEMMA ReturnKeepsSaves ==
    ASSUME SavingInv, NEW r \in Requests, SaveReturns(r)
    PROVE  SavingInv' /\ UNCHANGED disk
  <1>1. /\ stage[r] = "saving" /\ guard = r /\ UNCHANGED <<disk, clock>>
        /\ \E s \in {"saved", "settle"} : MovesTo(r, s)
    BY DEF SaveReturns, Commit, AfterSave
  <1>2. ASSUME NEW o \in Requests PROVE stage'[o] # "saving"
    <2>1. CASE o = r
      BY <1>1, <2>1 DEF SavingInv, MovesTo
    <2>2. CASE o # r
      BY <1>1, <2>2 DEF SavingInv, MovesTo
    <2>. QED
      BY <2>1, <2>2
  <1>3. stage' \in [Requests -> Stages]
    BY <1>1 DEF SavingInv, MovesTo, Stages
  <1>. QED
    BY <1>1, <1>2, <1>3 DEF SavingInv, DiskTyped

LEMMA CrashKeepsSaves ==
    ASSUME SavingInv, NEW w \in Workers, Crash(w)
    PROVE  SavingInv' /\ UNCHANGED disk
  <1>1. /\ stage' = [r \in Requests |-> IF Home[r] = w /\ stage[r] # "new" THEN "lost"
                                        ELSE stage[r]]
        /\ Dropped(OpsOf(w))
    BY DEF Crash
  <1>2. ASSUME NEW r \in Requests, stage'[r] = "saving"
        PROVE  stage[r] = "saving" /\ r \notin OpsOf(w)
    <2>1. stage[r] = "saving" /\ Home[r] # w
      BY <1>1, <1>2
    <2>. QED
      BY <2>1, VideoAssumption DEF OpsOf
  <1>3. stage' \in [Requests -> Stages]
    BY <1>1 DEF SavingInv, Stages
  <1>. QED
    BY <1>1, <1>2, <1>3 DEF SavingInv, DiskTyped, Dropped

\* When a guarded save returns its file is there, whatever other workers
\* save, evict or delete and however often one of them crashes.
THEOREM SaveCorrect == Spec => SaveKept
  <1>1. Init => SavingInv
    BY FS_CardinalityType, CacheAssumption, VideoAssumption
       DEF Init, SavingInv, DiskTyped, Stages
  <1>2. SavingInv /\ [Next]_vars =>
           /\ SavingInv'
           /\ \A r \in Requests : stage[r] = "saving" => disk'[File[r]] > 0
    <2>. SUFFICES ASSUME SavingInv, [Next]_vars
                  PROVE  /\ SavingInv'
                         /\ LeavesSaves \/ UNCHANGED disk
      <3>1. \A r \in Requests : File[r] \in Names /\ r # NoOp
        BY CacheAssumption, VideoAssumption
      <3>. QED
        BY <3>1 DEF SavingInv, LeavesSaves
    <2>1. ASSUME NEW r \in Requests, Create(r) \/ Run(r)
          PROVE  SavingInv' /\ (LeavesSaves \/ UNCHANGED disk)
      BY <2>1, RunLeavesSaves, QuietKeepsSaves, WriteKeepsSaves, ReturnKeepsSaves
    <2>2. ASSUME NEW w \in Workers, Crash(w)
          PROVE  SavingInv' /\ UNCHANGED disk
      BY <2>2, CrashKeepsSaves
    <2>3. CASE LeavesSaves /\ UNCHANGED <<stage, load>>
      BY <2>3, QuietKeepsSaves DEF SavingInv
    <2>. QED
      BY <2>1, <2>2, <2>3, OthersLeaveSaves, OthersLeaveStages DEF Next, SavingInv
  <1>3. SavingInv /\ [Next]_vars =>
           [\A r \in Requests :
               stage[r] = "saving" /\ stage'[r] \notin {"saving", "lost"}
                  => disk'[File[r]] > 0]_vars
    BY <1>2
  <1>. QED
    BY <1>1, <1>2, <1>3, PTL DEF Spec, SaveKept

-----------------------------------------------------------------------------
(* The types.                                                              *)

\* A segment's progress scaled to the video is a percentage.
LEMMA ScaledIsPercent ==
    ASSUME NEW of \in Nat \ {0}, NEW k \in 1 .. of, NEW reading \in 0 .. 100
    PROVE  Scaled(k, reading, of) \in 0 .. 100
  <1> DEFINE n == (k - 1) * 100 + reading
  <1>1. n \in Nat /\ n <= 100 * of
    OBVIOUS
  <1>2. n \div of \in Nat /\ of * (n \div of) <= n
    BY <1>1
  <1>3. ASSUME n \div of >= 101 PROVE FALSE
    <2>1. of * (n \div of) >= of * 101
      BY <1>2, <1>3
    <2>. QED
      BY <1>1, <1>2, <2>1
  <1>. QED
    BY <1>2, <1>3 DEF Scaled

LEMMA EnterKeepsTypes ==
    ASSUME CacheTypeOK, clock' \in Nat, disk' \in [Names -> 0 .. clock'], clock <= clock',
           NEW op \in Ops, NEW newRows \in [Names -> 0 .. clock'], NEW doomed,
           Enter(op, newRows, doomed)
    PROVE  CacheTypeOK'
  <1>1. tx' \in [Names -> 0 .. clock']
    BY DEF Enter, Without
  <1>2. rows' \in [Names -> 0 .. clock']
    BY DEF Enter, CacheTypeOK
  <1>3. guard' \in Ops \cup {NoOp} /\ victims' \subseteq Names
    BY DEF Enter, Files
  <1>. QED
    BY <1>1, <1>2, <1>3 DEF CacheTypeOK

LEMMA FileKeepsTypes ==
    ASSUME CacheTypeOK, NEW op \in Ops, NEW n \in Names, NEW l,
           \/ SaveExisting(op, n, l) \/ SaveNew(op, n, l)
           \/ Delete(op, n) \/ SaveUnlimited(n)
    PROVE  CacheTypeOK'
  <1>1. CASE SaveExisting(op, n, l)
    <2>1. ExistingRow(n) \in [Names -> 0 .. clock]
      BY DEF ExistingRow, CacheTypeOK
    <2>. QED
      BY <1>1, <2>1, EnterKeepsTypes DEF SaveExisting, CacheTypeOK
  <1>2. CASE SaveNew(op, n, l)
    <2>1. clock' = clock + 1 /\ disk' \in [Names -> 0 .. clock']
      BY <1>2 DEF SaveNew, CacheTypeOK
    <2>2. [rows EXCEPT ![n] = clock + 1] \in [Names -> 0 .. clock']
      BY <2>1 DEF CacheTypeOK
    <2>3. clock' \in Nat /\ clock <= clock'
      BY <2>1 DEF CacheTypeOK
    <2>. QED
      BY <1>2, <2>1, <2>2, <2>3, EnterKeepsTypes DEF SaveNew
  <1>3. CASE Delete(op, n)
    BY <1>3, EnterKeepsTypes DEF Delete, CacheTypeOK
  <1>4. CASE SaveUnlimited(n)
    <2>1. clock' \in {clock, clock + 1} /\ disk' \in [Names -> 0 .. clock']
      BY <1>4 DEF SaveUnlimited, CacheTypeOK
    <2>. QED
      BY <1>4, <2>1 DEF SaveUnlimited, CacheTypeOK
  <1>. QED
    BY <1>1, <1>2, <1>3, <1>4

LEMMA CacheKeepsTypes ==
    ASSUME CacheTypeOK, NEW op \in Ops, NEW l, NEW ops,
           \/ Reconcile(op, l) \/ Clear(op) \/ Unlink(op) \/ Commit(op)
           \/ Dropped(ops) \/ UNCHANGED cacheVars
    PROVE  CacheTypeOK'
  <1>1. CASE Reconcile(op, l) \/ Clear(op)
    BY <1>1, EnterKeepsTypes DEF Reconcile, Clear, CacheTypeOK
  <1>2. CASE Unlink(op)
    BY <1>2 DEF Unlink, CacheTypeOK
  <1>3. CASE Commit(op) \/ Dropped(ops)
    BY <1>3 DEF Commit, Dropped, CacheTypeOK, NoRows
  <1>4. CASE UNCHANGED cacheVars
    BY <1>4 DEF cacheVars, CacheTypeOK
  <1>. QED
    BY <1>1, <1>2, <1>3, <1>4

LEMMA RunKeepsTypes ==
    ASSUME CacheTypeOK, ServiceTypeOK, JobTypeOK, StreamTypeOK, AccountsReturned, NEW r \in Requests, Create(r) \/ Run(r)
    PROVE  TypeOK'
  <1>1. Home[r] \in Workers /\ File[r] \in Names /\ r \in Ops
    BY VideoAssumption
  <1>2. CacheTypeOK'
    BY <1>1, FileKeepsTypes, CacheKeepsTypes
       DEF Create, Run, Start, Reserve, Post, EndSegment, SegmentFails, Output, Settle,
           SaveUnguarded, SaveGuarded, SaveWrites, SaveFails, SaveReturns, Complete
  <1>3. ServiceTypeOK'
    <2>1. /\ UNCHANGED <<up, crashes, limit, adminVars>>
          /\ lax' = lax \/ lax' \in BOOLEAN
      BY DEF Create, Run, Start, Reserve, Post, EndSegment, SegmentFails, Output, Settle,
             SaveUnguarded, SaveGuarded, SaveWrites, SaveFails, SaveReturns, Complete
    <2>2. \/ load' = load
          \/ load[Home[r]] < MaxInflight /\ load' = [load EXCEPT ![Home[r]] = @ + 1]
          \/ stage[r] = "settle" /\ load' = [load EXCEPT ![Home[r]] = @ - 1]
      BY DEF Create, Run, Start, Reserve, Post, EndSegment, SegmentFails, Output, Settle,
             SaveUnguarded, SaveGuarded, SaveWrites, SaveFails, SaveReturns, Complete
    <2>3. stage[r] = "settle" => load[Home[r]] > 0
      <3>1. SUFFICES ASSUME stage[r] = "settle" PROVE load[Home[r]] > 0
        OBVIOUS
      <3>2. r \in Users(Home[r])
        BY <3>1 DEF Users, Holding
      <3>. QED
        BY <1>1, <3>2, UsersFinite, FS_EmptySet DEF AccountsReturned
    <2>4. load' \in [Workers -> 0 .. MaxInflight]
      BY <1>1, <2>2, <2>3, VideoAssumption DEF ServiceTypeOK
    <2>. QED
      BY <2>1, <2>4 DEF ServiceTypeOK, adminVars
  <1>4. JobTypeOK'
    <2>1. UNCHANGED stage \/ \E s \in Stages : MovesTo(r, s)
      BY DEF Create, Run, Start, Reserve, Post, EndSegment, SegmentFails, Output, Settle,
             SaveUnguarded, SaveGuarded, SaveWrites, SaveFails, SaveReturns, Complete,
             Failed, AfterSave, Stages
    <2>2. \/ UNCHANGED segment
          \/ segment[r] < Segments[r] /\ segment' = [segment EXCEPT ![r] = @ + 1]
      BY DEF Create, Run, Start, Reserve, Post, EndSegment, SegmentFails, Output, Settle,
             SaveUnguarded, SaveGuarded, SaveWrites, SaveFails, SaveReturns, Complete
    <2>3. UNCHANGED ok \/ \E b \in BOOLEAN : ok' = [ok EXCEPT ![r] = b]
      BY DEF Create, Run, Start, Reserve, Post, EndSegment, SegmentFails, Output, Settle,
             SaveUnguarded, SaveGuarded, SaveWrites, SaveFails, SaveReturns, Complete, Failed
    <2>4. \/ UNCHANGED job
          \/ \E s \in {"queued", "in_progress", "completed", "failed"},
                p \in {0, 1, 100, job[r].progress} :
               job' = [job EXCEPT ![r] = [status |-> s, progress |-> p]]
      <3>1. CASE Create(r) \/ Start(r) \/ Complete(r)
        BY <3>1 DEF Create, Start, Complete, JobStatus
      <3>2. CASE Reserve(r) \/ Settle(r) \/ SaveFails(r)
        <4>1. UNCHANGED job \/ job' = JobStatus(r, "failed", job[r].progress)
          BY <3>2 DEF Reserve, Settle, SaveFails, Failed
        <4>. QED
          BY <4>1 DEF JobStatus
      <3>3. CASE Run(r) /\ ~(\/ Start(r) \/ Complete(r)
                             \/ Reserve(r) \/ Settle(r) \/ SaveFails(r))
        BY <3>3 DEF Run, Post, EndSegment, SegmentFails, Output,
                    SaveUnguarded, SaveGuarded, SaveWrites, SaveReturns
      <3>. QED
        BY <3>1, <3>2, <3>3
    <2>5. stage' \in [Requests -> Stages] /\ ok' \in [Requests -> BOOLEAN]
      BY <2>1, <2>3 DEF JobTypeOK, MovesTo
    <2>6. /\ segment' \in [Requests -> Nat \ {0}]
          /\ \A q \in Requests : segment'[q] <= Segments[q]
      BY <2>2, VideoAssumption DEF JobTypeOK
    <2>7. job' \in [Requests -> [status : {"none", "queued", "in_progress",
                                          "completed", "failed"},
                                 progress : 0..100]]
      <3>1. job[r].progress \in 0 .. 100
        BY DEF JobTypeOK
      <3>. QED
        BY <2>4, <3>1 DEF JobTypeOK
    <2>. QED
      BY <2>5, <2>6, <2>7 DEF JobTypeOK
  <1>5. StreamTypeOK'
    BY OthersLeaveStreams DEF StreamTypeOK, streamVars
  <1>. QED
    BY <1>2, <1>3, <1>4, <1>5 DEF TypeOK, ServiceTypeOK, JobTypeOK, StreamTypeOK

LEMMA StreamsKeepTypes ==
    ASSUME CacheTypeOK, ServiceTypeOK, JobTypeOK, StreamTypeOK, NEW r \in Requests,
           Report(r) \/ Expire(r) \/ Show(r) \/ Reply(r) \/ Leave(r)
    PROVE  TypeOK'
  <1>1. /\ UNCHANGED <<cacheVars, up, crashes, load, limit, lax, adminVars>>
        /\ UNCHANGED <<stage, segment, ok>>
    BY DEF Report, Expire, Show, Reply, Leave, jobVars
  <1>2. StreamTypeOK' /\ JobTypeOK'
    <2>1. CASE Report(r)
      <3>1. PICK reading \in Readings :
               LET p == Scaled(segment[r], reading, Segments[r])
               IN  IF r \in Jobs
                   THEN /\ job' = JobStatus(r, "in_progress", Larger(1, p))
                        /\ UNCHANGED <<queue, reached>>
                   ELSE /\ queue' = [queue EXCEPT ![r] = Append(@, p)]
                        /\ reached' = [reached EXCEPT ![r] = Larger(@, p + 1)]
                        /\ UNCHANGED job
        BY <2>1 DEF Report
      <3>2. UNCHANGED <<shown, reply>>
        BY <2>1 DEF Report
      <3> DEFINE p == Scaled(segment[r], reading, Segments[r])
      <3>3. p \in 0 .. 100
        <4>1. /\ Segments[r] \in Nat \ {0} /\ segment[r] \in 1 .. Segments[r]
              /\ reading \in 0 .. 100
          BY VideoAssumption DEF JobTypeOK
        <4>. QED
          BY <4>1, ScaledIsPercent
      <3>. HIDE DEF p
      <3>4. \/ UNCHANGED job
            \/ job' = [job EXCEPT ![r] = [status |-> "in_progress", progress |-> IF 1 > p THEN 1 ELSE p]]
        BY <3>1 DEF JobStatus, Larger, p
      <3>5. (IF 1 > p THEN 1 ELSE p) \in 0 .. 100
        BY <3>3
      <3>6. JobTypeOK'
        BY <1>1, <3>4, <3>5 DEF JobTypeOK
      <3>7. \/ UNCHANGED <<queue, reached>>
            \/ /\ queue' = [queue EXCEPT ![r] = Append(@, p)]
               /\ reached' = [reached EXCEPT ![r] = IF @ > p + 1 THEN @ ELSE p + 1]
        BY <3>1 DEF Larger, p
      <3>8. queue' \in [Requests -> Seq(0 .. 100)] /\ reached' \in [Requests -> 0 .. 101]
        <4>1. queue[r] \in Seq(0 .. 100) /\ Append(queue[r], p) \in Seq(0 .. 100)
          BY <3>3 DEF StreamTypeOK
        <4>2. p + 1 \in 0 .. 101
          BY <3>3
        <4>. QED
          BY <3>7, <4>1, <4>2 DEF StreamTypeOK
      <3>. QED
        BY <3>2, <3>6, <3>8 DEF StreamTypeOK
    <2>2. CASE Expire(r)
      <3>1. NoJob \in [status : {"none", "queued", "in_progress", "completed", "failed"},
                       progress : 0 .. 100]
        BY DEF NoJob
      <3>. QED
        BY <1>1, <2>2, <3>1 DEF Expire, StreamTypeOK, JobTypeOK, streamVars
    <2>3. CASE Show(r)
      <3>1. /\ queue[r] \in Seq(0 .. 100) /\ queue[r] # <<>>
            /\ queue' = [queue EXCEPT ![r] = Tail(@)]
            /\ shown' = [shown EXCEPT ![r] = IF @ > Head(queue[r]) + 1 THEN @ ELSE Head(queue[r]) + 1]
        BY <2>3 DEF Show, Larger, StreamTypeOK
      <3>2. Head(queue[r]) \in 0 .. 100 /\ Tail(queue[r]) \in Seq(0 .. 100)
        BY <3>1, HeadTailProperties
      <3>3. queue' \in [Requests -> Seq(0 .. 100)]
        BY <3>1, <3>2 DEF StreamTypeOK
      <3>4. shown' \in [Requests -> 0 .. 101]
        <4> DEFINE h == Head(queue[r])
        <4>0. h \in 0 .. 100
          BY <3>2
        <4>. HIDE DEF h
        <4>1. h + 1 \in 0 .. 101
          BY <4>0
        <4>2. shown \in [Requests -> 0 .. 101]
          BY DEF StreamTypeOK
        <4>3. CASE UNCHANGED shown
          BY <4>2, <4>3
        <4>4. CASE shown' = [shown EXCEPT ![r] = h + 1]
          BY <4>1, <4>2, <4>4
        <4>. QED
          BY <3>1, <4>2, <4>3, <4>4 DEF h
      <3>. QED
        BY <1>1, <2>3, <3>3, <3>4 DEF Show, StreamTypeOK, JobTypeOK, jobVars
    <2>4. CASE Reply(r) \/ Leave(r)
      <3>1. UNCHANGED job
        BY <2>4 DEF Reply, Leave, jobVars
      <3>2. \E what \in {"content", "error", "left"} : reply' = [reply EXCEPT ![r] = what]
        BY <2>4 DEF Reply, Leave
      <3>3. /\ queue' \in [Requests -> Seq(0 .. 100)]
            /\ shown' \in [Requests -> 0 .. 101] /\ reached' \in [Requests -> 0 .. 101]
        <4>1. /\ UNCHANGED queue \/ queue' = [queue EXCEPT ![r] = <<>>]
              /\ UNCHANGED shown \/ shown' = [shown EXCEPT ![r] = 0]
              /\ UNCHANGED reached \/ reached' = [reached EXCEPT ![r] = 0]
          BY <2>4 DEF Reply, Leave
        <4>0. <<>> \in Seq(0 .. 100)
          BY EmptySeq
        <4>2. queue \in [Requests -> Seq(0 .. 100)]
          BY DEF StreamTypeOK
        <4>3. shown \in [Requests -> 0 .. 101] /\ reached \in [Requests -> 0 .. 101]
          BY DEF StreamTypeOK
        <4>5. 0 \in 0 .. 101
          OBVIOUS
        <4>4. ASSUME NEW S, NEW f \in [Requests -> S], NEW v \in S
              PROVE  [f EXCEPT ![r] = v] \in [Requests -> S]
          OBVIOUS
        <4>. QED
          <5>1. [queue EXCEPT ![r] = <<>>] \in [Requests -> Seq(0 .. 100)]
            BY <4>0, <4>2, <4>4
          <5>2. [shown EXCEPT ![r] = 0] \in [Requests -> 0 .. 101]
            BY <4>3, <4>4, <4>5
          <5>3. [reached EXCEPT ![r] = 0] \in [Requests -> 0 .. 101]
            BY <4>3, <4>4, <4>5
          <5>. QED
            BY <4>1, <4>2, <4>3, <5>1, <5>2, <5>3
      <3>4. reply' \in [Requests -> {"none", "content", "error", "left", "lost"}]
        BY <3>2 DEF StreamTypeOK
      <3>. QED
        BY <1>1, <3>1, <3>3, <3>4 DEF StreamTypeOK, JobTypeOK
    <2>. QED
      BY <2>1, <2>2, <2>3, <2>4
  <1>. QED
    BY <1>1, <1>2 DEF TypeOK, CacheTypeOK, ServiceTypeOK, JobTypeOK, StreamTypeOK, cacheVars, adminVars

LEMMA AdminKeepsTypes ==
    ASSUME CacheTypeOK, ServiceTypeOK, JobTypeOK, StreamTypeOK,
           AdminEnters \/ Configure \/ AdminReconciles \/ AdminReturns \/ UnlinkNext
    PROVE  TypeOK'
  <1>1. Home[Admin] \in Workers /\ Admin \in Ops
    BY VideoAssumption
  <1>2. UNCHANGED <<jobVars, streamVars, up, crashes, load>>
    BY DEF AdminEnters, Configure, AdminReconciles, AdminReturns, UnlinkNext
  <1>3. \/ UNCHANGED cacheVars \/ Clear(Admin) \/ Commit(Admin)
        \/ Reconcile(Admin, limit[Home[Admin]])
        \/ (\E n \in Names : Delete(Admin, n)) \/ (\E op \in Ops : Unlink(op))
    BY DEF AdminEnters, Configure, AdminReconciles, AdminReturns, UnlinkNext
  <1>4. CacheTypeOK'
    BY <1>1, <1>3, FileKeepsTypes, CacheKeepsTypes
  <1>5. ASSUME Configure PROVE ServiceTypeOK'
    <2>1. PICK l \in Limits : /\ configured' = l /\ limit' = [limit EXCEPT ![Home[Admin]] = l]
                              /\ adminStep' \in {"idle", "reconcile"}
      BY <1>5 DEF Configure
    <2>2. adminOps' = adminOps + 1 /\ adminOps < MaxAdmin /\ lax' = TRUE
      BY <1>5 DEF Configure
    <2>. QED
      <3>1. limit' \in [Workers -> Limits] /\ configured' \in Limits
        BY <1>1, <2>1 DEF ServiceTypeOK
      <3>2. adminOps' \in 0 .. MaxAdmin
        <4>1. adminOps \in 0 .. MaxAdmin /\ MaxAdmin \in Nat
          BY VideoAssumption DEF ServiceTypeOK
        <4>. QED
          BY <2>2, <4>1
      <3>3. lax' \in BOOLEAN /\ adminStep' \in {"idle", "reconcile", "guarded"}
        BY <2>1, <2>2
      <3>4. /\ up' \in [Workers -> {"starting", "up", "down"}] /\ crashes' \in 0 .. MaxCrashes
            /\ load' \in [Workers -> 0 .. MaxInflight]
        BY <1>2 DEF ServiceTypeOK
      <3>. QED
        BY <3>1, <3>2, <3>3, <3>4 DEF ServiceTypeOK
  <1>6. ASSUME AdminEnters \/ AdminReconciles \/ AdminReturns \/ UnlinkNext
        PROVE  ServiceTypeOK'
    <2>1. UNCHANGED <<limit, configured>>
      BY <1>6 DEF AdminEnters, AdminReconciles, AdminReturns, UnlinkNext, adminVars
    <2>2. /\ lax' \in {lax, FALSE} /\ adminStep' \in {adminStep, "idle", "guarded"}
          /\ \/ adminOps' = adminOps
             \/ adminOps' = adminOps + 1 /\ adminOps < MaxAdmin
      BY <1>6 DEF AdminEnters, AdminReconciles, AdminReturns, UnlinkNext, adminVars
    <2>3. adminOps' \in 0 .. MaxAdmin
      BY <2>2, VideoAssumption DEF ServiceTypeOK
    <2>. QED
      BY <1>2, <2>1, <2>2, <2>3 DEF ServiceTypeOK
  <1>. QED
    BY <1>2, <1>4, <1>5, <1>6 DEF ServiceTypeOK, TypeOK, JobTypeOK, StreamTypeOK, jobVars, streamVars

LEMMA WorkersKeepTypes ==
    ASSUME CacheTypeOK, ServiceTypeOK, JobTypeOK, StreamTypeOK, NEW w \in Workers,
           LoadConfig(w) \/ StartReconcile(w) \/ Ready(w) \/ Crash(w) \/ Restart(w)
    PROVE  TypeOK'
  <1>1. w \in Ops
    BY VideoAssumption
  <1>2. CacheTypeOK'
    BY <1>1, CacheKeepsTypes DEF LoadConfig, StartReconcile, Ready, Crash, Restart
  <1>3. CASE LoadConfig(w) \/ StartReconcile(w) \/ Ready(w) \/ Restart(w)
    <2>1. UNCHANGED <<jobVars, streamVars, crashes, load, adminVars>>
      BY <1>3 DEF LoadConfig, StartReconcile, Ready, Restart
    <2>2. ServiceTypeOK'
      BY <1>3, <2>1 DEF LoadConfig, StartReconcile, Ready, Restart, ServiceTypeOK, adminVars
    <2>. QED
      BY <1>2, <2>1, <2>2 DEF TypeOK, ServiceTypeOK, JobTypeOK, StreamTypeOK, jobVars, streamVars
  <1>4. CASE Crash(w)
    <2>1. ServiceTypeOK'
      BY <1>4, VideoAssumption DEF Crash, ServiceTypeOK
    <2>2. stage' \in [Requests -> Stages]
      BY <1>4 DEF Crash, JobTypeOK, Stages
    <2>3. job' \in [Requests -> [status : {"none", "queued", "in_progress",
                                          "completed", "failed"},
                                 progress : 0..100]]
      BY <1>4 DEF Crash, JobTypeOK, NoJob
    <2>4. queue' \in [Requests -> Seq(0 .. 100)]
      BY <1>4 DEF Crash, StreamTypeOK
    <2>5. reply' \in [Requests -> {"none", "content", "error", "left", "lost"}]
      BY <1>4 DEF Crash, StreamTypeOK
    <2>6. UNCHANGED <<segment, ok, shown, reached>>
      BY <1>4 DEF Crash
    <2>. QED
      BY <1>2, <2>1, <2>2, <2>3, <2>4, <2>5, <2>6 DEF TypeOK, ServiceTypeOK, JobTypeOK, StreamTypeOK
  <1>. QED
    BY <1>3, <1>4

\* The types hold in every reachable state: no percentage over 100, no
\* in-flight count below zero or above the limit.
THEOREM TypeCorrect == Spec => []TypeOK
  <1>1. Init => TypeOK
    <2>. SUFFICES ASSUME Init PROVE TypeOK
      OBVIOUS
    <2>1. CacheTypeOK
      BY FS_CardinalityType, CacheAssumption, VideoAssumption DEF Init, CacheTypeOK, NoRows
    <2>2. ServiceTypeOK
      BY VideoAssumption DEF Init, ServiceTypeOK
    <2>3. JobTypeOK
      BY VideoAssumption DEF Init, JobTypeOK, Stages, NoJob
    <2>4. StreamTypeOK
      BY DEF Init, StreamTypeOK
    <2>. QED
      BY <2>1, <2>2, <2>3, <2>4 DEF TypeOK
  <1>2. TypeOK /\ AccountsReturned /\ [Next]_vars => TypeOK'
    <2>. SUFFICES ASSUME TypeOK, AccountsReturned, [Next]_vars
                  PROVE  TypeOK'
      OBVIOUS
    <2>1. CASE UNCHANGED vars
      BY <2>1 DEF TypeOK, CacheTypeOK, ServiceTypeOK, JobTypeOK, StreamTypeOK,
                  vars, cacheVars, adminVars
    <2>. QED
      BY <2>1, RunKeepsTypes, StreamsKeepTypes, AdminKeepsTypes, WorkersKeepTypes
         DEF Next, TypeOK
  <1>. QED
    BY <1>1, <1>2, AccountsCorrect, PTL DEF Spec

-----------------------------------------------------------------------------
(* What the cache holds: the index, the directory and the limit.           *)

\* No two files have the same time stamp.
Ordered(stamps) ==
    \A m, n \in Names : stamps[m] = stamps[n] /\ stamps[m] > 0 => m = n

\* A set of numbers that is not empty has a smallest one.
LEMMA SmallestNat ==
    ASSUME NEW T \in SUBSET Nat, T # {}
    PROVE  \E x \in T : \A y \in T : x <= y
  <1>1. PICK x \in T : \A y \in T : <<y, x>> \notin OpToRel(<, Nat)
    BY WFMin, NatLessThanWellFounded
  <1>2. ASSUME NEW y \in T PROVE x <= y
    <2>1. ~(y < x)
      BY <1>1, <1>2 DEF OpToRel
    <2>. QED
      BY <2>1
  <1>. QED
    BY <1>2

\* The bytes of a set of files can be counted, and those of the parts of a
\* set add up.
LEMMA UsageType ==
    ASSUME NEW S \in SUBSET Names
    PROVE  IsFiniteSet(BytesOf(S)) /\ Usage(S) \in Nat
  <1> DEFINE cells == [n \in S |-> {n} \X (1 .. Bytes[n])]
             all == {{n} \X (1 .. Bytes[n]) : n \in S}
  <1>1. IsFiniteSet(S)
    BY CacheAssumption, FS_Subset
  <1>2. cells \in Surjection(S, all)
    BY DEF Surjection
  <1>3. IsFiniteSet(all)
    BY <1>1, <1>2, FS_Surjection
  <1>4. ASSUME NEW n \in S PROVE IsFiniteSet({n} \X (1 .. Bytes[n]))
    <2>1. IsFiniteSet({n})
      BY FS_Singleton
    <2>2. IsFiniteSet(1 .. Bytes[n])
      <3>1. 1 \in Int /\ Bytes[n] \in Int
        BY CacheAssumption
      <3>. QED
        BY <3>1, FS_Interval
    <2>. QED
      BY <2>1, <2>2, FS_Product
  <1>5. IsFiniteSet(UNION all)
    BY <1>3, <1>4, FS_UNION
  <1>. QED
    BY <1>5, FS_CardinalityType DEF BytesOf, Usage

LEMMA UsageOfPart ==
    ASSUME NEW S \in SUBSET Names, NEW T \in SUBSET S
    PROVE  Usage(T) <= Usage(S)
  <1>1. BytesOf(T) \subseteq BytesOf(S)
    BY DEF BytesOf
  <1>. QED
    BY <1>1, UsageType, FS_Subset DEF Usage

LEMMA UsageOfRest ==
    ASSUME NEW S \in SUBSET Names, NEW T \in SUBSET S
    PROVE  Usage(S \ T) = Usage(S) - Usage(T)
  <1>1. BytesOf(T) \subseteq BytesOf(S) /\ BytesOf(S \ T) = BytesOf(S) \ BytesOf(T)
    BY DEF BytesOf
  <1>2. BytesOf(S) \cap BytesOf(T) = BytesOf(T)
    BY <1>1
  <1>3. Cardinality(BytesOf(S) \ BytesOf(T))
           = Cardinality(BytesOf(S)) - Cardinality(BytesOf(S) \cap BytesOf(T))
    BY UsageType, FS_Difference
  <1>. QED
    BY <1>1, <1>2, <1>3 DEF Usage

LEMMA AtMostTwo ==
    ASSUME NEW A, NEW B, \A x, y \in A : x = y, \A x, y \in B : x = y,
           NEW S \in SUBSET (A \cup B)
    PROVE  Cardinality(S) <= 2
  <1>1. ASSUME NEW C, \A x, y \in C : x = y
        PROVE  IsFiniteSet(C) /\ Cardinality(C) \in 0 .. 1
    <2>1. CASE C = {}
      BY <2>1, FS_EmptySet
    <2>2. ASSUME NEW x \in C PROVE C = {x}
      BY <1>1, <2>2
    <2>3. \A x : IsFiniteSet({x}) /\ Cardinality({x}) = 1
      BY FS_Singleton
    <2>. QED
      BY <2>1, <2>2, <2>3
  <1>2. /\ IsFiniteSet(A) /\ IsFiniteSet(B)
        /\ Cardinality(A) \in 0 .. 1 /\ Cardinality(B) \in 0 .. 1
    BY <1>1
  <1>3. /\ IsFiniteSet(A \cup B) /\ Cardinality(A \cap B) \in Nat
        /\ Cardinality(A \cup B) = Cardinality(A) + Cardinality(B) - Cardinality(A \cap B)
    BY <1>2, FS_Union, FS_Intersection, FS_CardinalityType
  <1>4. Cardinality(S) \in Nat /\ Cardinality(S) <= Cardinality(A \cup B)
    BY <1>3, FS_Subset, FS_CardinalityType
  <1>. QED
    BY <1>2, <1>3, <1>4

\* What the eviction leaves is within the limit, or is at most the newest
\* file and the one being saved: the oldest file it leaves of those it may
\* take was reached with the total down to the low watermark.
LEMMA ExcessBounds ==
    ASSUME NEW stamps \in [Names -> Nat], Ordered(stamps),
           NEW saved \in SUBSET Names, \A m, n \in saved : m = n,
           NEW l \in Nat \ {0}
    PROVE  LET kept == Files(stamps) \ Excess(stamps, saved, l)
           IN  Usage(kept) <= l \/ Cardinality(kept) <= 2
  <1> DEFINE listed   == Files(stamps)
             movable  == listed \ (saved \cup Newest(stamps))
             older(n) == {m \in movable : stamps[m] < stamps[n]}
             kept     == listed \ Excess(stamps, saved, l)
             left     == kept \cap movable
  <1>0. /\ listed \in SUBSET Names /\ kept \in SUBSET listed /\ kept \in SUBSET Names
        /\ Usage(listed) \in Nat /\ Usage(kept) \in Nat
    BY UsageType DEF Files
  <1>1. CASE Usage(listed) <= l
    <2>1. kept = listed
      BY <1>1 DEF Excess
    <2>. QED
      BY <1>1, <2>1
  <1>2. CASE ~(Usage(listed) <= l) /\ left = {}
    <2>1. kept \subseteq saved \cup Newest(stamps)
      BY <1>0, <1>2
    <2>2. \A m, n \in Newest(stamps) : m = n
      BY DEF Newest, Files, Ordered
    <2>3. Cardinality(kept) <= 2
      BY <2>1, <2>2, AtMostTwo
    <2>. QED
      BY <2>3
  <1>3. CASE ~(Usage(listed) <= l) /\ left # {}
    <2>1. PICK n \in left : \A m \in left : stamps[n] <= stamps[m]
      <3> DEFINE times == {stamps[m] : m \in left}
      <3>1. times \in SUBSET Nat /\ times # {}
        BY <1>0, <1>3
      <3>2. PICK t \in times : \A u \in times : t <= u
        BY <3>1, SmallestNat
      <3>. QED
        BY <3>2
    <2>2. older(n) \in SUBSET listed /\ Usage(older(n)) \in Nat
      BY <1>0, UsageType
    <2>3. Usage(listed) - Usage(older(n)) <= LowWatermark(l)
      <3>1. n \notin Excess(stamps, saved, l) /\ n \in movable
        BY <2>1
      <3>2. ~(Usage(listed) - Usage(older(n)) > LowWatermark(l))
        BY <1>3, <3>1 DEF Excess
      <3>3. LowWatermark(l) \in Nat
        BY DEF LowWatermark
      <3>. QED
        BY <1>0, <2>2, <3>2, <3>3
    <2>4. kept \subseteq listed \ older(n)
      <3>1. ASSUME NEW m \in kept, m \in older(n) PROVE FALSE
        <4>1. m \in left /\ stamps[m] < stamps[n] /\ m \in Names /\ n \in Names
          BY <1>0, <3>1, <2>1
        <4>2. stamps[m] \in Nat /\ stamps[n] \in Nat
          BY <4>1
        <4>. QED
          BY <2>1, <4>1, <4>2
      <3>. QED
        BY <1>0, <3>1
    <2>5. Usage(kept) <= Usage(listed \ older(n))
      BY <1>0, <2>4, UsageOfPart
    <2>6. Usage(listed \ older(n)) = Usage(listed) - Usage(older(n))
      BY <1>0, <2>2, UsageOfRest
    <2>7. LowWatermark(l) <= l /\ LowWatermark(l) \in Nat
      <3>1. (l * 6) \div 10 \in Nat /\ 10 * ((l * 6) \div 10) <= l * 6
        OBVIOUS
      <3>. QED
        BY <3>1 DEF LowWatermark
    <2>. QED
      BY <1>0, <2>2, <2>3, <2>5, <2>6, <2>7
  <1>. QED
    BY <1>1, <1>2, <1>3

\* A file keeps its time stamp, on disk and in the index, and no other file
\* ever has it.
Stamps(n) == {disk[n], rows[n], tx[n]}

StampInv == \A m, n \in Names : \A t \in Stamps(m) \cap Stamps(n) : t > 0 => m = n

LEMMA StampsKept ==
    ASSUME CacheTypeOK, StampInv, NEW k,
           \A n \in Names : Stamps(n)' \subseteq Stamps(n) \cup {0} \cup
                               (IF n = k THEN {clock + 1} ELSE {})
    PROVE  StampInv'
  <1>1. \A n \in Names : \A t \in Stamps(n) : t \in Nat /\ t # clock + 1
    BY DEF CacheTypeOK, Stamps
  <1>2. SUFFICES ASSUME NEW m \in Names, NEW n \in Names, NEW t,
                        t \in Stamps(m)', t \in Stamps(n)', t > 0
                 PROVE  m = n
    BY DEF StampInv
  <1>3. CASE t = clock + 1
    <2>1. clock \in Nat
      BY DEF CacheTypeOK
    <2>2. t \notin Stamps(m) /\ t \notin Stamps(n) /\ t # 0
      BY <1>1, <1>3, <2>1
    <2>3. m = k /\ n = k
      BY <1>2, <2>2
    <2>. QED
      BY <2>3
  <1>4. CASE t # clock + 1
    <2>1. t # 0
      BY <1>2
    <2>2. t \in Stamps(m) /\ t \in Stamps(n)
      BY <1>2, <1>4, <2>1
    <2>. QED
      BY <1>2, <2>2 DEF StampInv
  <1>. QED
    BY <1>3, <1>4

\* No step stamps a file with another's time.
LEMMA EnterKeepsStamps ==
    ASSUME CacheTypeOK, StampInv, NEW op, NEW n, NEW l,
           \/ SaveExisting(op, n, l) \/ SaveNew(op, n, l)
           \/ Delete(op, n) \/ Clear(op) \/ Reconcile(op, l)
    PROVE  StampInv'
  <1>1. CASE SaveNew(op, n, l)
    <2>1. /\ disk' = [disk EXCEPT ![n] = clock + 1] /\ rows' = rows
          /\ tx' = Without([rows EXCEPT ![n] = clock + 1],
                           Excess([rows EXCEPT ![n] = clock + 1], {n}, l))
      BY <1>1 DEF SaveNew, Enter
    <2>2. \A k \in Names : Stamps(k)' \subseteq Stamps(k) \cup {0} \cup
                              (IF k = n THEN {clock + 1} ELSE {})
      BY <2>1 DEF Stamps, Without, CacheTypeOK
    <2>. QED
      BY <2>2, StampsKept
  <1>2. CASE \/ SaveExisting(op, n, l) \/ Delete(op, n) \/ Clear(op) \/ Reconcile(op, l)
    <2>1. disk' = disk /\ rows' = rows
      BY <1>2 DEF SaveExisting, Delete, Clear, Reconcile, Enter
    <2>2. \A k \in Names : tx'[k] \in {0, disk[k], rows[k]}
      BY <1>2 DEF SaveExisting, ExistingRow, Delete, Clear, Reconcile, Enter, Without,
                  CacheTypeOK
    <2>3. \A k \in Names : Stamps(k)' \subseteq Stamps(k) \cup {0}
      BY <2>1, <2>2 DEF Stamps
    <2>. QED
      BY <2>3, StampsKept
  <1>. QED
    BY <1>1, <1>2

LEMMA OthersKeepStamps ==
    ASSUME CacheTypeOK, StampInv, NEW op, NEW ops, NEW n,
           \/ Unlink(op) \/ Commit(op) \/ SaveUnlimited(n) \/ Dropped(ops)
           \/ UNCHANGED cacheVars
    PROVE  StampInv'
  <1>1. CASE SaveUnlimited(n)
    <2>1. \A k \in Names : Stamps(k)' \subseteq Stamps(k) \cup {0} \cup
                              (IF k = n THEN {clock + 1} ELSE {})
      BY <1>1 DEF SaveUnlimited, Stamps, CacheTypeOK
    <2>. QED
      BY <2>1, StampsKept
  <1>2. CASE Unlink(op) \/ Commit(op) \/ Dropped(ops) \/ UNCHANGED cacheVars
    <2>1. \A k \in Names : Stamps(k)' \subseteq Stamps(k) \cup {0}
      BY <1>2 DEF Unlink, Commit, Dropped, cacheVars, NoRows, Stamps, CacheTypeOK
    <2>. QED
      BY <2>1, StampsKept
  <1>. QED
    BY <1>1, <1>2

Within(S) == Usage(S) <= configured \/ Cardinality(S) <= 2

\* With the guard free the index lists the files on disk, which are within
\* the limit; an operation inside it is about to commit the files that it
\* will not have unlinked, and these are.
CacheSound ==
    IF guard = NoOp
    THEN Files(rows) = Files(disk) /\ Within(Files(disk))
    ELSE /\ victims \subseteq Files(disk)
         /\ Files(tx) = Files(disk) \ victims
         /\ Within(Files(tx))

LEMMA EnterIsSound ==
    ASSUME CacheTypeOK', NEW op \in Ops, NEW newRows \in [Names -> Nat], NEW doomed,
           Enter(op, newRows, doomed), Files(newRows) = Files(disk'),
           Within(Files(newRows) \ doomed), UNCHANGED configured
    PROVE  CacheSound'
  <1>1. guard' = op /\ op # NoOp /\ victims' = doomed \cap Files(disk')
    BY CacheAssumption DEF Enter
  <1>2. Files(tx)' = Files(newRows) \ doomed
    BY DEF Enter, Without, Files
  <1>3. Files(disk)' = Files(disk')
    BY DEF Files
  <1>4. Files(tx)' = Files(disk)' \ victims'
    BY <1>1, <1>2, <1>3
  <1>5. Within(Files(tx))'
    BY <1>2 DEF Within
  <1>. QED
    BY <1>1, <1>3, <1>4, <1>5 DEF CacheSound

LEMMA SaveIsSound ==
    ASSUME CacheTypeOK, CacheTypeOK', StampInv, StampInv', CacheSound,
           NEW op \in Ops, NEW n \in Names,
           SaveExisting(op, n, configured) \/ SaveNew(op, n, configured),
           configured \in Nat \ {0}, UNCHANGED configured
    PROVE  CacheSound'
  <1> DEFINE old == ExistingRow(n)
             new == [rows EXCEPT ![n] = clock + 1]
  <1>1. Files(rows) = Files(disk)
    BY DEF SaveExisting, SaveNew, Enter, CacheSound
  <1>2. CASE SaveExisting(op, n, configured)
    <2>1. old \in [Names -> Nat] /\ Files(old) = Files(disk') /\ Ordered(old)
      <3>1. old \in [Names -> Nat]
        BY DEF ExistingRow, CacheTypeOK
      <3>2. disk' = disk /\ disk[n] > 0
        BY <1>2 DEF SaveExisting
      <3>3. Files(old) = Files(disk')
        BY <1>1, <3>1, <3>2 DEF Files, ExistingRow, CacheTypeOK
      <3>4. \A m \in Names : old[m] \in Stamps(m)
        BY DEF ExistingRow, Stamps, CacheTypeOK
      <3>. QED
        BY <3>1, <3>3, <3>4 DEF Ordered, StampInv
    <2>2. LET kept == Files(old) \ Excess(old, {n}, configured)
          IN  Usage(kept) <= configured \/ Cardinality(kept) <= 2
      BY <2>1, ExcessBounds
    <2>3. Enter(op, old, Excess(old, {n}, configured))
      BY <1>2 DEF SaveExisting
    <2>. QED
      BY <2>1, <2>2, <2>3, EnterIsSound DEF Within
  <1>3. CASE SaveNew(op, n, configured)
    <2>1. new \in [Names -> Nat] /\ Files(new) = Files(disk') /\ Ordered(new)
      <3>1. new \in [Names -> Nat] /\ clock \in Nat
        BY DEF CacheTypeOK
      <3>2. disk' = [disk EXCEPT ![n] = clock + 1]
        BY <1>3 DEF SaveNew
      <3>3. Files(new) = Files(disk')
        BY <1>1, <3>1, <3>2 DEF Files, CacheTypeOK
      <3>4. \A m \in Names : m # n => new[m] \in Stamps(m) /\ new[m] <= clock
        BY DEF Stamps, CacheTypeOK
      <3>5. new[n] = clock + 1
        BY DEF CacheTypeOK
      <3>. QED
        BY <3>1, <3>3, <3>4, <3>5 DEF Ordered, StampInv
    <2>2. LET kept == Files(new) \ Excess(new, {n}, configured)
          IN  Usage(kept) <= configured \/ Cardinality(kept) <= 2
      BY <2>1, ExcessBounds
    <2>3. Enter(op, new, Excess(new, {n}, configured))
      BY <1>3 DEF SaveNew
    <2>. QED
      BY <2>1, <2>2, <2>3, EnterIsSound DEF Within
  <1>. QED
    BY <1>2, <1>3

LEMMA ReconcileIsSound ==
    ASSUME CacheTypeOK, CacheTypeOK', StampInv, NEW op \in Ops,
           Reconcile(op, configured), configured \in Nat \ {0}, UNCHANGED configured
    PROVE  CacheSound'
  <1>1. disk \in [Names -> Nat] /\ Ordered(disk) /\ disk' = disk
    <2>1. disk \in [Names -> Nat] /\ disk' = disk
      BY DEF CacheTypeOK, Reconcile
    <2>2. \A m \in Names : disk[m] \in Stamps(m)
      BY DEF Stamps
    <2>3. Ordered(disk)
      BY <2>2 DEF Ordered, StampInv
    <2>. QED
      BY <2>1, <2>3
  <1>2. LET kept == Files(disk) \ Excess(disk, {}, configured)
        IN  Usage(kept) <= configured \/ Cardinality(kept) <= 2
    BY <1>1, ExcessBounds
  <1>3. Files(disk) = Files(disk')
    BY <1>1
  <1>4. Enter(op, disk, Excess(disk, {}, configured))
    BY DEF Reconcile
  <1>. QED
    BY <1>1, <1>2, <1>3, <1>4, EnterIsSound DEF Within

\* Fewer files are within the limit too.
LEMMA FewerAreWithin ==
    ASSUME configured \in Nat, NEW S \in SUBSET Names, NEW T \in SUBSET S, Within(S)
    PROVE  Within(T)
  <1>1. /\ Usage(T) <= Usage(S) /\ Usage(T) \in Nat /\ Usage(S) \in Nat
    BY UsageOfPart, UsageType
  <1>2. IsFiniteSet(S)
    BY CacheAssumption, FS_Subset
  <1>3. /\ Cardinality(T) <= Cardinality(S) /\ Cardinality(T) \in Nat
        /\ Cardinality(S) \in Nat
    BY <1>2, FS_Subset, FS_CardinalityType
  <1>. QED
    BY <1>1, <1>3 DEF Within

LEMMA RemovalIsSound ==
    ASSUME CacheTypeOK, CacheTypeOK', CacheSound, configured \in Nat,
           NEW op \in Ops, NEW n, Delete(op, n) \/ Clear(op), UNCHANGED configured
    PROVE  CacheSound'
  <1>1. PICK doomed \in {{n}, Names} : Enter(op, rows, doomed)
    BY DEF Delete, Clear
  <1>2. /\ guard = NoOp /\ disk' = disk /\ rows \in [Names -> Nat]
        /\ Files(rows) \in SUBSET Names
    BY DEF Delete, Clear, Enter, CacheTypeOK, Files
  <1>3. Files(rows) = Files(disk) /\ Within(Files(rows))
    BY <1>2 DEF CacheSound
  <1>4. Files(rows) = Files(disk')
    BY <1>2, <1>3
  <1>5. Within(Files(rows) \ doomed)
    BY <1>2, <1>3, FewerAreWithin
  <1>. QED
    BY <1>1, <1>2, <1>4, <1>5, EnterIsSound

LEMMA UnlinkIsSound ==
    ASSUME CacheTypeOK, CacheSound, NEW op \in Ops, Unlink(op), UNCHANGED configured
    PROVE  CacheSound'
  <1>1. PICK n \in victims : disk' = [disk EXCEPT ![n] = 0] /\ victims' = victims \ {n}
    BY DEF Unlink
  <1>2. UNCHANGED <<guard, tx>> /\ guard # NoOp
    BY CacheAssumption DEF Unlink
  <1>3. Files(disk)' = Files(disk) \ {n}
    BY <1>1 DEF Files, CacheTypeOK
  <1>4. Files(tx)' = Files(tx)
    BY <1>2 DEF Files
  <1>5. Within(Files(tx))'
    BY <1>2, <1>4 DEF CacheSound, Within
  <1>. QED
    BY <1>1, <1>2, <1>3, <1>4, <1>5 DEF CacheSound

LEMMA CommitIsSound ==
    ASSUME CacheSound, NEW op \in Ops, Commit(op), UNCHANGED configured
    PROVE  CacheSound'
  <1>1. guard # NoOp /\ victims = {} /\ rows' = tx /\ guard' = NoOp /\ disk' = disk
    BY CacheAssumption DEF Commit
  <1>2. Files(disk)' = Files(disk) /\ Files(rows)' = Files(tx)
    BY <1>1 DEF Files
  <1>3. Files(tx) = Files(disk) /\ Within(Files(disk))
    BY <1>1 DEF CacheSound
  <1>4. Within(Files(disk))'
    BY <1>2, <1>3 DEF Within
  <1>. QED
    BY <1>1, <1>2, <1>3, <1>4 DEF CacheSound

-----------------------------------------------------------------------------
(* The index and the directory, with the crashes of the workers.           *)

\* A worker inside the guard is a starting one that reconciles.
GuardInv == guard \in Workers => up[guard] = "starting" /\ limit[guard] > 0

\* The administrator reconciles under the limit just stored.
AdminInv == adminStep = "reconcile" => limit[Home[Admin]] = configured

\* A file was saved under another limit, there is none, or a worker is still
\* to reconcile.
Unsettled ==
    \/ lax \/ configured = 0
    \/ \E w \in Workers : \/ up[w] = "down"
                          \/ up[w] = "starting" /\ limit[w] > 0 /\ guard # w

DiskInv == GuardInv /\ StampInv /\ AdminInv /\ (Unsettled \/ CacheSound)

LEMMA OpsApart ==
    /\ \A r \in Requests : r \in Ops /\ r \notin Workers /\ r # NoOp /\ Home[r] \in Workers
                           /\ File[r] \in Names
    /\ \A w \in Workers : w \in Ops /\ w # NoOp
    /\ Admin \in Ops /\ Admin \notin Workers /\ Admin # NoOp /\ Home[Admin] \in Workers
  BY CacheAssumption, VideoAssumption

\* A worker that is still to reconcile is so until one enters the guard.
LEMMA UnsettledStays ==
    ASSUME UNCHANGED <<up, limit, configured>>, lax => lax', Unsettled,
           guard' \in Workers => guard' = guard
    PROVE  Unsettled'
  BY OpsApart DEF Unsettled

LEMMA IdleKeepsDisk ==
    ASSUME DiskInv, UNCHANGED <<cacheVars, up, limit, lax, configured, adminStep>>
    PROVE  DiskInv'
  BY DEF DiskInv, GuardInv, StampInv, Stamps, AdminInv, Unsettled, CacheSound, Within,
         Files, Usage, BytesOf, cacheVars

\* A request's write: under the configured limit, or it unsettles the cache.
LEMMA WriteKeepsDisk ==
    ASSUME TypeOK, TypeOK', DiskInv, NEW r \in Requests, SaveWrites(r)
    PROVE  DiskInv'
  <1>1. /\ UNCHANGED <<up, limit, configured, adminStep>>
        /\ lax' = (lax \/ limit[Home[r]] # configured)
    BY DEF SaveWrites, adminVars
  <1>2. SaveExisting(r, File[r], limit[Home[r]]) \/ SaveNew(r, File[r], limit[Home[r]])
    BY DEF SaveWrites
  <1>3. guard' = r /\ CacheTypeOK /\ CacheTypeOK'
    BY <1>2 DEF SaveExisting, SaveNew, Enter, TypeOK
  <1>4. StampInv'
    BY <1>2, <1>3, OpsApart, EnterKeepsStamps DEF DiskInv
  <1>5. GuardInv' /\ AdminInv'
    BY <1>1, <1>3, OpsApart DEF DiskInv, GuardInv, AdminInv
  <1>6. ASSUME ~Unsettled' PROVE CacheSound'
    <2>1. limit[Home[r]] = configured /\ configured # 0 /\ ~Unsettled
      BY <1>1, <1>3, <1>6, OpsApart, UnsettledStays DEF Unsettled
    <2>2. configured \in Nat \ {0}
      BY <2>1, VideoAssumption DEF TypeOK, ServiceTypeOK
    <2>. QED
      BY <1>1, <1>2, <1>3, <1>4, <2>1, <2>2, OpsApart, SaveIsSound DEF DiskInv
  <1>. QED
    BY <1>4, <1>5, <1>6 DEF DiskInv

LEMMA RunKeepsDisk ==
    ASSUME TypeOK, TypeOK', DiskInv, NEW r \in Requests, Create(r) \/ Run(r)
    PROVE  DiskInv'
  <1>1. CASE SaveWrites(r)
    BY <1>1, WriteKeepsDisk
  <1>2. CASE SaveReturns(r)
    <2>1. Commit(r) /\ UNCHANGED <<up, limit, lax, configured, adminStep>>
      BY <1>2 DEF SaveReturns, adminVars
    <2>2. guard' = NoOp
      BY <2>1 DEF Commit
    <2>3. StampInv'
      BY <2>1, OpsApart, OthersKeepStamps DEF DiskInv, TypeOK
    <2>4. GuardInv' /\ AdminInv'
      BY <2>1, <2>2, OpsApart DEF DiskInv, GuardInv, AdminInv
    <2>5. Unsettled => Unsettled'
      BY <2>1, <2>2, OpsApart, UnsettledStays
    <2>6. CacheSound => CacheSound'
      BY <2>1, OpsApart, CommitIsSound
    <2>. QED
      BY <2>3, <2>4, <2>5, <2>6 DEF DiskInv
  <1>3. CASE SaveUnguarded(r)
    <2>1. /\ SaveUnlimited(File[r]) /\ lax' = TRUE
          /\ UNCHANGED <<up, limit, configured, adminStep, guard>>
      BY <1>3 DEF SaveUnguarded, SaveUnlimited, adminVars
    <2>2. StampInv'
      BY <2>1, OpsApart, OthersKeepStamps DEF DiskInv, TypeOK
    <2>. QED
      BY <2>1, <2>2 DEF DiskInv, GuardInv, AdminInv, Unsettled
  <1>4. CASE ~SaveWrites(r) /\ ~SaveReturns(r) /\ ~SaveUnguarded(r)
    <2>1. UNCHANGED <<cacheVars, up, limit, lax, configured, adminStep>>
      BY <1>4 DEF Create, Run, Start, Reserve, Post, EndSegment, SegmentFails, Output,
                  Settle, SaveGuarded, SaveFails, Complete, adminVars
    <2>. QED
      BY <2>1, IdleKeepsDisk
  <1>. QED
    BY <1>1, <1>2, <1>3, <1>4

LEMMA AdminKeepsDisk ==
    ASSUME TypeOK, TypeOK', DiskInv,
           AdminEnters \/ Configure \/ AdminReconciles \/ AdminReturns \/ UnlinkNext
    PROVE  DiskInv'
  <1>0. CacheTypeOK /\ CacheTypeOK' /\ configured \in Nat
    BY VideoAssumption DEF TypeOK, ServiceTypeOK
  <1>1. CASE AdminEnters
    <2>1. PICK n : Delete(Admin, n) \/ Clear(Admin)
      BY <1>1 DEF AdminEnters
    <2>2. UNCHANGED <<up, limit, lax, configured>> /\ adminStep' = "guarded"
      BY <1>1 DEF AdminEnters
    <2>3. guard' = Admin
      BY <2>1 DEF Delete, Clear, Enter
    <2>4. StampInv'
      BY <1>0, <2>1, EnterKeepsStamps DEF DiskInv
    <2>5. GuardInv' /\ AdminInv'
      BY <2>2, <2>3, OpsApart DEF GuardInv, AdminInv
    <2>6. Unsettled => Unsettled'
      BY <2>2, <2>3, OpsApart, UnsettledStays
    <2>7. CacheSound => CacheSound'
      BY <1>0, <2>1, <2>2, OpsApart, RemovalIsSound
    <2>. QED
      BY <2>4, <2>5, <2>6, <2>7 DEF DiskInv
  <1>2. CASE Configure
    <2>1. /\ UNCHANGED <<cacheVars, up>> /\ lax' = TRUE /\ up[Home[Admin]] = "up"
          /\ limit' = [limit EXCEPT ![Home[Admin]] = configured']
      BY <1>2 DEF Configure, Runs
    <2>2. StampInv'
      BY <1>0, <2>1 DEF DiskInv, StampInv, Stamps, cacheVars
    <2>3. GuardInv'
      BY <2>1, OpsApart DEF DiskInv, GuardInv, TypeOK, ServiceTypeOK, cacheVars
    <2>4. AdminInv'
      BY <2>1, OpsApart DEF AdminInv, TypeOK, ServiceTypeOK
    <2>. QED
      BY <2>1, <2>2, <2>3, <2>4 DEF DiskInv, Unsettled
  <1>3. CASE AdminReconciles
    <2>1. /\ UNCHANGED <<up, limit, configured>> /\ adminStep' = "guarded"
          /\ Reconcile(Admin, limit[Home[Admin]]) /\ limit[Home[Admin]] = configured
      BY <1>3 DEF AdminReconciles, DiskInv, AdminInv
    <2>2. guard' = Admin
      BY <2>1 DEF Reconcile, Enter
    <2>3. StampInv'
      BY <1>0, <2>1, EnterKeepsStamps DEF DiskInv
    <2>4. GuardInv' /\ AdminInv'
      BY <2>1, <2>2, OpsApart DEF GuardInv, AdminInv
    <2>5. ASSUME ~Unsettled' PROVE CacheSound'
      <3>1. configured \in Nat \ {0}
        BY <1>0, <2>1, <2>5 DEF Unsettled
      <3>. QED
        BY <1>0, <2>1, <3>1, OpsApart, ReconcileIsSound DEF DiskInv
    <2>. QED
      BY <2>3, <2>4, <2>5 DEF DiskInv
  <1>4. CASE AdminReturns \/ UnlinkNext
    <2>1. PICK op \in Ops : Commit(op) \/ Unlink(op)
      BY <1>4, OpsApart DEF AdminReturns, UnlinkNext
    <2>2. /\ UNCHANGED <<up, limit, lax, configured>> /\ adminStep' \in {adminStep, "idle"}
          /\ guard' \in {guard, NoOp}
      BY <1>4 DEF AdminReturns, UnlinkNext, adminVars, Commit, Unlink
    <2>3. StampInv'
      BY <1>0, <2>1, OthersKeepStamps DEF DiskInv
    <2>4. GuardInv' /\ AdminInv'
      BY <2>2, OpsApart DEF DiskInv, GuardInv, AdminInv
    <2>5. Unsettled => Unsettled'
      BY <2>2, OpsApart, UnsettledStays
    <2>6. CacheSound => CacheSound'
      BY <1>0, <2>1, <2>2, UnlinkIsSound, CommitIsSound
    <2>. QED
      BY <2>3, <2>4, <2>5, <2>6 DEF DiskInv
  <1>. QED
    BY <1>1, <1>2, <1>3, <1>4

LEMMA WorkersKeepDisk ==
    ASSUME TypeOK, TypeOK', DiskInv, NEW w \in Workers,
           LoadConfig(w) \/ StartReconcile(w) \/ Ready(w) \/ Crash(w) \/ Restart(w)
    PROVE  DiskInv'
  <1>0. /\ CacheTypeOK /\ CacheTypeOK' /\ configured \in Nat
        /\ limit \in [Workers -> Limits] /\ up \in [Workers -> {"starting", "up", "down"}]
    BY VideoAssumption DEF TypeOK, ServiceTypeOK
  <1>1. CASE LoadConfig(w)
    <2>1. /\ UNCHANGED <<cacheVars, up, lax, configured, adminStep>> /\ up[w] = "up"
          /\ limit' = [limit EXCEPT ![w] = configured]
      BY <1>1 DEF LoadConfig, Runs, adminVars
    <2>2. StampInv'
      BY <2>1 DEF DiskInv, StampInv, Stamps, cacheVars
    <2>3. GuardInv' /\ AdminInv'
      BY <1>0, <2>1, OpsApart DEF DiskInv, GuardInv, AdminInv, cacheVars
    <2>4. Unsettled => Unsettled'
      BY <1>0, <2>1 DEF Unsettled, cacheVars
    <2>5. CacheSound => CacheSound'
      BY <2>1 DEF CacheSound, cacheVars, Files, Within
    <2>. QED
      BY <2>2, <2>3, <2>4, <2>5 DEF DiskInv
  <1>2. CASE StartReconcile(w)
    <2>1. /\ up[w] = "starting" /\ limit[w] > 0 /\ Reconcile(w, limit[w])
          /\ lax' = (limit[w] # configured) /\ UNCHANGED <<up, limit, configured, adminStep>>
      BY <1>2 DEF StartReconcile, adminVars
    <2>2. guard' = w
      BY <2>1 DEF Reconcile, Enter
    <2>3. StampInv'
      BY <1>0, <2>1, EnterKeepsStamps DEF DiskInv
    <2>4. GuardInv' /\ AdminInv'
      BY <2>1, <2>2 DEF DiskInv, GuardInv, AdminInv
    <2>5. ASSUME ~Unsettled' PROVE CacheSound'
      <3>1. limit[w] = configured /\ configured \in Nat \ {0}
        BY <1>0, <2>1, <2>5 DEF Unsettled
      <3>. QED
        BY <1>0, <2>1, <3>1, OpsApart, ReconcileIsSound DEF DiskInv
    <2>. QED
      BY <2>3, <2>4, <2>5 DEF DiskInv
  <1>3. CASE Ready(w)
    <2>1. /\ up[w] = "starting" /\ up' = [up EXCEPT ![w] = "up"]
          /\ UNCHANGED <<limit, lax, configured, adminStep>>
          /\ (limit[w] = 0 /\ UNCHANGED cacheVars) \/ Commit(w)
      BY <1>3 DEF Ready, adminVars
    <2>2. StampInv'
      BY <1>0, <2>1, OthersKeepStamps DEF DiskInv
    <2>3. \/ limit[w] = 0 /\ guard' = guard /\ guard # w
          \/ guard = w /\ guard' = NoOp
      BY <1>0, <2>1 DEF DiskInv, GuardInv, cacheVars, Commit
    <2>4. GuardInv' /\ AdminInv'
      BY <1>0, <2>1, <2>3, OpsApart DEF DiskInv, GuardInv, AdminInv
    <2>5. Unsettled => Unsettled'
      <3>1. ASSUME NEW v \in Workers,
                   up[v] = "down" \/ (up[v] = "starting" /\ limit[v] > 0 /\ guard # v)
            PROVE  up'[v] = "down" \/ (up'[v] = "starting" /\ limit'[v] > 0 /\ guard' # v)
        <4>1. v # w
          BY <1>0, <2>1, <2>3, <3>1
        <4>. QED
          BY <1>0, <2>1, <2>3, <3>1, <4>1, OpsApart
      <3>. QED
        BY <2>1, <3>1 DEF Unsettled
    <2>6. CacheSound => CacheSound'
      <3>1. CASE Commit(w)
        BY <2>1, <3>1, OpsApart, CommitIsSound
      <3>2. CASE UNCHANGED cacheVars
        BY <2>1, <3>2 DEF CacheSound, cacheVars, Files, Within
      <3>. QED
        BY <2>1, <3>1, <3>2
    <2>. QED
      BY <2>2, <2>4, <2>5, <2>6 DEF DiskInv
  <1>4. CASE Crash(w)
    <2>1. /\ up' = [up EXCEPT ![w] = "down"] /\ UNCHANGED <<limit, configured>>
          /\ Dropped(OpsOf(w)) /\ adminStep' \in {adminStep, "idle"}
      BY <1>4 DEF Crash
    <2>2. StampInv'
      BY <1>0, <2>1, OthersKeepStamps DEF DiskInv
    <2>3. guard' = NoOp \/ (guard' = guard /\ guard # w)
      BY <2>1 DEF Dropped, OpsOf
    <2>4. GuardInv' /\ AdminInv'
      BY <1>0, <2>1, <2>3, OpsApart DEF DiskInv, GuardInv, AdminInv
    <2>5. Unsettled'
      BY <1>0, <2>1 DEF Unsettled
    <2>. QED
      BY <2>2, <2>4, <2>5 DEF DiskInv
  <1>5. CASE Restart(w)
    <2>1. /\ up[w] = "down" /\ up' = [up EXCEPT ![w] = "starting"]
          /\ limit' = [limit EXCEPT ![w] = configured]
          /\ UNCHANGED <<cacheVars, lax, configured, adminStep>>
      BY <1>5 DEF Restart, adminVars
    <2>2. StampInv'
      BY <2>1 DEF DiskInv, StampInv, Stamps, cacheVars
    <2>3. guard # w /\ guard' = guard
      BY <2>1 DEF DiskInv, GuardInv, cacheVars
    <2>4. GuardInv' /\ AdminInv'
      BY <1>0, <2>1, <2>3, OpsApart DEF DiskInv, GuardInv, AdminInv
    <2>5. Unsettled'
      BY <1>0, <2>1, <2>3 DEF Unsettled
    <2>. QED
      BY <2>2, <2>4, <2>5 DEF DiskInv
  <1>. QED
    BY <1>1, <1>2, <1>3, <1>4, <1>5

LEMMA DiskInvHolds == Spec => []DiskInv
  <1>1. Init => DiskInv
    <2>. SUFFICES ASSUME Init PROVE DiskInv
      OBVIOUS
    <2>1. guard = NoOp /\ lax /\ adminStep = "idle" /\ disk \in Leftovers
          /\ rows = NoRows /\ tx = NoRows
      BY DEF Init
    <2>2. GuardInv
      BY <2>1, OpsApart DEF GuardInv
    <2>3. StampInv
      BY <2>1, VideoAssumption DEF StampInv, Stamps, NoRows
    <2>. QED
      BY <2>1, <2>2, <2>3 DEF DiskInv, AdminInv, Unsettled
  <1>2. TypeOK /\ TypeOK' /\ DiskInv /\ [Next]_vars => DiskInv'
    <2>. SUFFICES ASSUME TypeOK, TypeOK', DiskInv, [Next]_vars PROVE DiskInv'
      OBVIOUS
    <2>1. ASSUME NEW r \in Requests, Report(r) \/ Expire(r) \/ Show(r) \/ Reply(r) \/ Leave(r)
          PROVE  UNCHANGED <<cacheVars, up, limit, lax, configured, adminStep>>
      BY <2>1 DEF Report, Expire, Show, Reply, Leave, adminVars
    <2>2. CASE UNCHANGED vars
      BY <2>2, IdleKeepsDisk DEF vars, cacheVars
    <2>. QED
      BY <2>1, <2>2, IdleKeepsDisk, RunKeepsDisk, AdminKeepsDisk, WorkersKeepDisk DEF Next
  <1>. QED
    BY <1>1, <1>2, TypeCorrect, PTL DEF Spec

\* Once the workers have restarted and nothing is under way the index lists
\* exactly the files on disk.
THEOREM IndexCorrect == Spec => []IndexMatchesDisk
  <1>1. DiskInv => IndexMatchesDisk
    BY DEF DiskInv, Unsettled, CacheSound, IndexMatchesDisk, Settled
  <1>. QED
    BY <1>1, DiskInvHolds, PTL

\* And the directory is within the limit, but for the newest file and the
\* one saved last.
THEOREM BoundCorrect == Spec => []DiskBounded
  <1>1. DiskInv => DiskBounded
    BY DEF DiskInv, Unsettled, CacheSound, Within, DiskBounded, Settled
  <1>. QED
    BY <1>1, DiskInvHolds, PTL
=============================================================================
