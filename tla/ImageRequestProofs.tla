------------------------- MODULE ImageRequestProofs -------------------------
(***************************************************************************)
(* Proofs about requests for images, for any accounts, tasks, images,      *)
(* rounds, retries and reported percentages.                               *)
(*                                                                         *)
(* AccountInv follows the account of the request and of each task through  *)
(* the places that hold one.  StreamInv follows the final images of the    *)
(* transport: an id is live in the round, to come, or neither, never both. *)
(* DeliveredInv keeps what was delivered apart from all of these, and      *)
(* PercentInv what was reported of each image.                             *)
(***************************************************************************)
EXTENDS ImageRequest, FiniteSetTheorems, SequenceTheorems, TLAPS

-----------------------------------------------------------------------------
(* The accounts.                                                           *)

TaskStages == {"reserve", "stream", "resolve", "returned", "failed", "cancelling", "cancelled"}

TaskType == [stage : TaskStages, account : Accounts \cup {NoAccount}, tries : Nat,
             excluded : SUBSET (Accounts \cup {NoAccount})]

\* Where a request of each kind can be, and the phases in which it holds its
\* account.
PhasesOf(k) ==
    CASE k = "imagine" -> {"new", "stream", "over"}
      [] k = "lite"    -> {"new"}
      [] k = "edit"    -> {"new", "prepare", "collect", "resolve", "over"}
      [] k = "session" -> {"new", "created", "stream", "over"}

HoldingPhases == {"stream", "prepare", "collect", "resolve"}
HoldingStages == {"stream", "resolve", "cancelling"}
EndedStages   == {"returned", "failed", "cancelled"}

Users(a) == {i \in Tasks : task[i].account = a}

Counted(a) == Cardinality(Users(a)) + (IF account = a THEN 1 ELSE 0)

AccountTypes ==
    /\ kind \in {"imagine", "lite", "edit", "session"}
    /\ phase \in PhasesOf(kind)
    /\ reply \in {"open", "done", "error", "left"}
    /\ handler \in {"receiving", "stopping", "closed"}
    /\ then \in {"start", "stop", "leave"}
    /\ account \in Accounts \cup {NoAccount}
    /\ task \in [Tasks -> TaskType]
    /\ load \in [Accounts -> Int]

\* The account is held in these phases and stages only, and what has ended
\* is over.
AccountInv ==
    /\ AccountTypes
    /\ \A a \in Accounts : load[a] = Counted(a)
    /\ account # NoAccount <=> phase \in HoldingPhases
    /\ \A i \in Tasks :
          /\ task[i].account # NoAccount => task[i].stage \in HoldingStages
          /\ task[i].stage \in {"stream", "resolve"} => task[i].account # NoAccount
          /\ kind # "lite" => task[i].account = NoAccount
    /\ reply \in {"done", "error"} =>
          /\ kind # "session"
          /\ kind \in {"imagine", "edit"} => phase = "over"
          /\ kind = "lite" => \A i \in Tasks : task[i].stage \in EndedStages
    /\ kind # "session" => handler = "receiving"
    /\ handler = "closed" => phase = "over"

-----------------------------------------------------------------------------
(* The images.                                                             *)

SlotType  == [id : Images, blob : BOOLEAN, done : BOOLEAN, progress : 0 .. 100]
EventType == [type : {"progress", "moderated", "final"}, id : Images,
              progress : 0 .. 100, blob : BOOLEAN] \cup {Error}

StreamTypes ==
    /\ ws \in {"idle", "connect", "round", "probe", "over"}
    /\ slots \in Seq(SlotType) /\ pending \in Seq(EventType)
    /\ meta \in {"none", "open", "closed"}
    /\ collected \in Nat /\ started \subseteq Images

\* The ids the round may still complete, and those of the events to come.
Final(e) == e.type = "final"
Live(k) == ws = "round" /\ meta = "none" /\ ~slots[k].done

StreamInv ==
    /\ StreamTypes
    /\ \A j, k \in DOMAIN slots : slots[j].id = slots[k].id => j = k
    /\ \A j, k \in DOMAIN pending :
          Final(pending[j]) /\ Final(pending[k]) /\ pending[j].id = pending[k].id => j = k
    /\ \A k \in DOMAIN slots : slots[k].id \in started
    /\ \A j \in DOMAIN pending : Final(pending[j]) =>
          /\ pending[j].id \in started
          /\ \A k \in DOMAIN slots : Live(k) => slots[k].id # pending[j].id
    /\ ws = "over" /\ phase = "stream" =>
          pending = <<Error>> \/ (pending = <<>> /\ collected >= Wanted)

\* What has been delivered is neither to come nor to be completed.
DeliveredInv ==
    /\ delivered \in Seq(Images)
    /\ finals \subseteq Images \ Range(delivered)
    /\ \A j, k \in DOMAIN delivered : delivered[j] = delivered[k] => j = k
    /\ kind # "edit" => finals = {}
    /\ kind = "imagine" =>
          /\ phase = "new" => delivered = <<>>
          /\ phase = "stream" => Len(delivered) = collected
          /\ \A d \in DOMAIN delivered :
                /\ delivered[d] \in started
                /\ \A j \in DOMAIN pending : Final(pending[j]) => pending[j].id # delivered[d]
                /\ \A k \in DOMAIN slots : Live(k) => slots[k].id # delivered[d]
          /\ reply = "done" => Len(delivered) >= Wanted
    /\ kind = "edit" =>
          /\ Len(delivered) <= Wanted
          /\ phase = "resolve" => finals # {} \/ delivered # <<>>
          /\ reply = "done" => Len(delivered) \in 1 .. Wanted
    /\ kind \in {"lite", "session"} => delivered = <<>>

-----------------------------------------------------------------------------
(* The percentages.                                                        *)

PercentInv ==
    /\ shown \in Int
    /\ whole \subseteq Keys
    /\ DOMAIN progress \subseteq Keys
    /\ \A k \in DOMAIN progress : progress[k] \in 0 .. 100 /\ (progress[k] = 100 => k \in whole)
    /\ shown = 100 => Cardinality(whole) >= Wanted
    /\ shown <= 100

-----------------------------------------------------------------------------
(* An account is held by who uses it.                                      *)

LEMMA UsersFinite ==
    ASSUME NEW a
    PROVE  IsFiniteSet(Users(a)) /\ Cardinality(Users(a)) \in Nat
  <1>1. Users(a) \subseteq Tasks
    BY DEF Users
  <1>. QED
    BY <1>1, ImageAssumption, FS_Subset, FS_CardinalityType

\* A step that moves no account.
LEMMA CountsKept ==
    ASSUME AccountInv, UNCHANGED <<load, account>>,
           \A i \in Tasks : task'[i].account = task[i].account
    PROVE  \A a \in Accounts : load'[a] = Counted(a)'
  <1>1. \A a \in Accounts : Users(a)' = Users(a)
    BY DEF Users
  <1>. QED
    BY <1>1 DEF AccountInv, Counted

\* The request, or the run, takes an account or gives it back.
LEMMA RequestReserves ==
    ASSUME AccountInv, account = NoAccount, NEW a \in Accounts, Reserve(a),
           account' = a, UNCHANGED task
    PROVE  load' \in [Accounts -> Int] /\ \A b \in Accounts : load'[b] = Counted(b)'
  <1>1. load \in [Accounts -> Int] /\ load' = [load EXCEPT ![a] = @ + 1]
    BY DEF AccountInv, AccountTypes, Reserve
  <1>2. \A b \in Accounts : /\ Users(b)' = Users(b) /\ Cardinality(Users(b)) \in Nat
                            /\ load[b] = Counted(b) /\ b # NoAccount
    BY UsersFinite, ImageAssumption DEF Users, AccountInv
  <1>. QED
    BY <1>1, <1>2 DEF Counted

LEMMA RequestReleases ==
    ASSUME AccountInv, phase \in HoldingPhases, Release(account),
           account' = NoAccount, UNCHANGED task
    PROVE  load' \in [Accounts -> Int] /\ \A b \in Accounts : load'[b] = Counted(b)'
  <1>1. /\ load \in [Accounts -> Int] /\ load' = [load EXCEPT ![account] = @ - 1]
        /\ account \in Accounts
    BY DEF AccountInv, AccountTypes, Release
  <1>2. \A b \in Accounts : /\ Users(b)' = Users(b) /\ Cardinality(Users(b)) \in Nat
                            /\ load[b] = Cardinality(Users(b)) + (IF account = b THEN 1 ELSE 0)
                            /\ b # NoAccount
    BY UsersFinite, ImageAssumption DEF Users, AccountInv, Counted
  <1>. QED
    BY <1>1, <1>2 DEF Counted

\* The same for a task of the batch.
LEMMA TaskReserves ==
    ASSUME AccountInv, NEW i \in Tasks, task[i].account = NoAccount,
           NEW a \in Accounts, Reserve(a), UNCHANGED account,
           task'[i].account = a, \A j \in Tasks \ {i} : task'[j] = task[j]
    PROVE  load' \in [Accounts -> Int] /\ \A b \in Accounts : load'[b] = Counted(b)'
  <1>1. load \in [Accounts -> Int] /\ load' = [load EXCEPT ![a] = @ + 1]
    BY DEF AccountInv, AccountTypes, Reserve
  <1>2. \A b \in Accounts : Cardinality(Users(b)) \in Nat /\ load[b] = Counted(b) /\ b # NoAccount
    BY UsersFinite, ImageAssumption DEF AccountInv
  <1>3. i \notin Users(a) /\ Users(a)' = Users(a) \cup {i}
    BY <1>2 DEF Users
  <1>4. Cardinality(Users(a)') = Cardinality(Users(a)) + 1
    BY <1>3, UsersFinite, FS_AddElement
  <1>5. \A b \in Accounts \ {a} : Users(b)' = Users(b)
    BY <1>2 DEF Users
  <1>. QED
    BY <1>1, <1>2, <1>4, <1>5 DEF Counted

LEMMA TaskReleases ==
    ASSUME AccountInv, NEW i \in Tasks, task[i].account # NoAccount,
           Release(task[i].account), UNCHANGED account,
           task'[i].account = NoAccount, \A j \in Tasks \ {i} : task'[j] = task[j]
    PROVE  load' \in [Accounts -> Int] /\ \A b \in Accounts : load'[b] = Counted(b)'
  <1>0. PICK a \in Accounts : a = task[i].account
    BY DEF AccountInv, AccountTypes, TaskType
  <1>1. load \in [Accounts -> Int] /\ load' = [load EXCEPT ![a] = @ - 1]
    BY <1>0 DEF AccountInv, AccountTypes, Release
  <1>2. \A b \in Accounts : Cardinality(Users(b)) \in Nat /\ load[b] = Counted(b) /\ b # NoAccount
    BY UsersFinite, ImageAssumption DEF AccountInv
  <1>3. i \in Users(a) /\ Users(a)' = Users(a) \ {i}
    BY <1>0, <1>2 DEF Users
  <1>4. Cardinality(Users(a)') = Cardinality(Users(a)) - 1
    BY <1>3, UsersFinite, FS_RemoveElement
  <1>5. \A b \in Accounts \ {a} : Users(b)' = Users(b)
    BY <1>0, <1>2 DEF Users
  <1>. QED
    BY <1>1, <1>2, <1>4, <1>5 DEF Counted

LEMMA QuietKeepsAccounts ==
    ASSUME AccountInv, UNCHANGED <<kind, load, account, phase, reply, task, handler, then>>
    PROVE  AccountInv'
  BY CountsKept DEF AccountInv, AccountTypes

\* The end of generate and of edit.
LEMMA FinishKeepsAccounts ==
    ASSUME AccountInv, kind \in {"imagine", "edit"}, phase \in HoldingPhases,
           NEW how \in {"done", "error", "left"}, NEW credentials,
           Finish(how, credentials), UNCHANGED <<kind, task, handler, then>>
    PROVE  AccountInv'
  <1>1. load' \in [Accounts -> Int] /\ \A b \in Accounts : load'[b] = Counted(b)'
    BY RequestReleases DEF Finish
  <1>2. account' = NoAccount /\ phase' = "over" /\ reply' = how
    BY DEF Finish
  <1>. QED
    BY <1>1, <1>2 DEF AccountInv, AccountTypes, PhasesOf, HoldingPhases

LEMMA ImagineKeepsAccounts ==
    ASSUME AccountInv, Imagine
    PROVE  AccountInv'
  <1>1. CASE ReserveForStream
    <2>1. /\ kind = "imagine" /\ phase = "new" /\ account = NoAccount
          /\ UNCHANGED <<kind, task, handler, then>>
      BY <1>1 DEF ReserveForStream, AccountInv, HoldingPhases, given, liteVars, sessionVars
    <2>2. CASE \E a \in Accounts : Reserve(a) /\ account' = a /\ phase' = "stream" /\ UNCHANGED reply
      <3>1. load' \in [Accounts -> Int] /\ \A b \in Accounts : load'[b] = Counted(b)'
        BY <2>1, <2>2, RequestReserves
      <3>. QED
        BY <2>1, <2>2, <3>1, ImageAssumption DEF AccountInv, AccountTypes, PhasesOf, HoldingPhases
    <2>3. CASE phase' = "over" /\ reply' = "error" /\ UNCHANGED <<load, account>>
      <3>1. \A b \in Accounts : load'[b] = Counted(b)'
        BY <2>1, <2>3, CountsKept
      <3>. QED
        BY <2>1, <2>3, <3>1 DEF AccountInv, AccountTypes, PhasesOf, HoldingPhases
    <2>. QED
      BY <1>1, <2>2, <2>3 DEF ReserveForStream
  <1>2. CASE TakeProgress \/ TakeModerated \/ TakeFinal
    BY <1>2, QuietKeepsAccounts
       DEF TakeProgress, TakeModerated, TakeFinal, given, requestVars, liteVars, sessionVars
  <1>3. CASE FinalFails \/ TakeError \/ StreamEnds \/ StreamLeft
    <2>1. /\ kind = "imagine" /\ phase = "stream" /\ UNCHANGED <<kind, task, handler, then>>
          /\ \E how \in {"done", "error", "left"} : \E credentials : Finish(how, credentials)
      BY <1>3 DEF FinalFails, TakeError, StreamEnds, StreamLeft, Awaiting, given, liteVars,
                  sessionVars
    <2>. QED
      BY <2>1, FinishKeepsAccounts DEF HoldingPhases
  <1>. QED
    BY <1>1, <1>2, <1>3 DEF Imagine

LEMMA EditKeepsAccounts ==
    ASSUME AccountInv, Edit
    PROVE  AccountInv'
  <1>1. CASE EditReserve
    <2>1. /\ kind = "edit" /\ phase = "new" /\ account = NoAccount
          /\ UNCHANGED <<kind, task, handler, then>>
      BY <1>1 DEF EditReserve, AccountInv, HoldingPhases, given, liteVars, sessionVars
    <2>2. CASE \E a \in Accounts : Reserve(a) /\ account' = a /\ phase' = "prepare" /\ UNCHANGED reply
      <3>1. load' \in [Accounts -> Int] /\ \A b \in Accounts : load'[b] = Counted(b)'
        BY <2>1, <2>2, RequestReserves
      <3>. QED
        BY <2>1, <2>2, <3>1, ImageAssumption DEF AccountInv, AccountTypes, PhasesOf, HoldingPhases
    <2>3. CASE phase' = "over" /\ reply' = "error" /\ UNCHANGED <<load, account>>
      <3>1. \A b \in Accounts : load'[b] = Counted(b)'
        BY <2>1, <2>3, CountsKept
      <3>. QED
        BY <2>1, <2>3, <3>1 DEF AccountInv, AccountTypes, PhasesOf, HoldingPhases
    <2>. QED
      BY <1>1, <2>2, <2>3 DEF EditReserve
  <1>2. CASE EditPrepared \/ EditCollected \/ EditAgain
    <2>1. /\ kind = "edit" /\ phase \in HoldingPhases /\ phase' \in {"collect", "resolve"}
          /\ UNCHANGED <<kind, load, account, reply, task, handler, then>>
      BY <1>2 DEF EditPrepared, EditCollected, EditAgain, HoldingPhases, given, liteVars,
                  sessionVars
    <2>2. \A b \in Accounts : load'[b] = Counted(b)'
      BY <2>1, CountsKept
    <2>. QED
      BY <2>1, <2>2 DEF AccountInv, AccountTypes, PhasesOf, HoldingPhases
  <1>3. CASE EditUnprepared \/ EditEnds \/ EditFails \/ EditLeft
    <2>1. /\ kind = "edit" /\ phase \in HoldingPhases /\ UNCHANGED <<kind, task, handler, then>>
          /\ \E how \in {"done", "error", "left"} : \E credentials : Finish(how, credentials)
      BY <1>3 DEF EditUnprepared, EditEnds, EditFails, EditLeft, HoldingPhases, given, liteVars,
                  sessionVars
    <2>. QED
      BY <2>1, FinishKeepsAccounts
  <1>4. ASSUME NEW k \in Images, EditReport(k) \/ EditResolves(k) PROVE AccountInv'
    BY <1>4, QuietKeepsAccounts
       DEF EditReport, EditResolves, given, requestVars, liteVars, sessionVars
  <1>. QED
    BY <1>1, <1>2, <1>3, <1>4 DEF Edit

\* A step of one task of the batch, which is given its next stage.
LEMMA TaskKeepsAccounts ==
    ASSUME AccountInv, kind = "lite", NEW i \in Tasks, task[i].stage \notin EndedStages,
           NEW t \in TaskType, task' = [task EXCEPT ![i] = t],
           t.account # NoAccount => t.stage \in HoldingStages,
           t.stage \in {"stream", "resolve"} => t.account # NoAccount,
           UNCHANGED <<kind, account, phase, reply, handler, then>>,
           \/ UNCHANGED load /\ t.account = task[i].account
           \/ task[i].account = NoAccount /\ t.account \in Accounts /\ Reserve(t.account)
           \/ task[i].account # NoAccount /\ t.account = NoAccount /\ Release(task[i].account)
    PROVE  AccountInv'
  <1>1. task'[i] = t /\ \A j \in Tasks \ {i} : task'[j] = task[j]
    BY DEF AccountInv, AccountTypes
  <1>2. load' \in [Accounts -> Int] /\ \A b \in Accounts : load'[b] = Counted(b)'
    <2>1. CASE UNCHANGED load /\ t.account = task[i].account
      <3>1. \A j \in Tasks : task'[j].account = task[j].account
        BY <1>1, <2>1
      <3>. QED
        BY <2>1, <3>1, CountsKept DEF AccountInv, AccountTypes
    <2>2. CASE task[i].account = NoAccount /\ t.account \in Accounts /\ Reserve(t.account)
      BY <1>1, <2>2, TaskReserves
    <2>3. CASE task[i].account # NoAccount /\ t.account = NoAccount /\ Release(task[i].account)
      BY <1>1, <2>3, TaskReleases
    <2>. QED
      BY <2>1, <2>2, <2>3
  <1>3. task' \in [Tasks -> TaskType]
    BY DEF AccountInv, AccountTypes
  <1>4. reply \notin {"done", "error"}
    BY DEF AccountInv
  <1>. QED
    BY <1>1, <1>2, <1>3, <1>4 DEF AccountInv, AccountTypes

LEMMA LiteKeepsAccounts ==
    ASSUME AccountInv, Lite
    PROVE  AccountInv'
  <1>1. ASSUME NEW i \in Tasks,
               LiteReserve(i) \/ LiteImage(i) \/ LiteReturns(i) \/ LiteRetries(i)
                  \/ LiteFails(i) \/ LiteCancelled(i)
        PROVE  AccountInv'
    <2> DEFINE Goes(s, a) == [task[i] EXCEPT !.stage = s, !.account = a]
    <2>0. /\ task \in [Tasks -> TaskType] /\ task[i] \in TaskType
          /\ task[i].account \in Accounts \cup {NoAccount}
      BY DEF AccountInv, AccountTypes, TaskType
    <2>1. ASSUME NEW s \in TaskStages, NEW a \in Accounts \cup {NoAccount}
          PROVE  /\ Goes(s, a) \in TaskType /\ Goes(s, a).stage = s /\ Goes(s, a).account = a
                 /\ [task EXCEPT ![i] = Goes(s, a)]
                       = [task EXCEPT ![i].stage = s, ![i].account = a]
                 /\ a = task[i].account =>
                       [task EXCEPT ![i] = Goes(s, a)] = [task EXCEPT ![i].stage = s]
      BY <2>0 DEF TaskType
    <2>2. /\ kind = "lite" /\ UNCHANGED <<kind, account, phase, reply, handler, then>>
          /\ task[i].stage \notin EndedStages
      BY <1>1 DEF LiteReserve, LiteImage, LiteReturns, LiteRetries, LiteFails, LiteCancelled,
                  given, requestVars, sessionVars, EndedStages
    <2>3. /\ task[i].account # NoAccount => task[i].stage \in HoldingStages
          /\ task[i].stage \in {"stream", "resolve"} => task[i].account # NoAccount
      BY DEF AccountInv
    <2>4. ASSUME NEW s \in TaskStages, NEW a \in Accounts \cup {NoAccount},
                 \/ task' = [task EXCEPT ![i].stage = s, ![i].account = a]
                 \/ a = task[i].account /\ TaskGoes(i, s),
                 a # NoAccount => s \in HoldingStages,
                 s \in {"stream", "resolve"} => a # NoAccount,
                 \/ UNCHANGED load /\ a = task[i].account
                 \/ task[i].account = NoAccount /\ a \in Accounts /\ Reserve(a)
                 \/ task[i].account # NoAccount /\ a = NoAccount /\ Release(task[i].account)
          PROVE  AccountInv'
      <3>1. PICK t \in TaskType : t.stage = s /\ t.account = a /\ task' = [task EXCEPT ![i] = t]
        <4>1. /\ Goes(s, a) \in TaskType /\ Goes(s, a).stage = s /\ Goes(s, a).account = a
              /\ task' = [task EXCEPT ![i] = Goes(s, a)]
          BY <2>1, <2>4 DEF TaskGoes
        <4>. HIDE DEF Goes
        <4>. QED
          BY <4>1
      <3>. QED
        BY <2>2, <2>4, <3>1, TaskKeepsAccounts
    <2>. HIDE DEF Goes
    <2>5. CASE LiteReserve(i)
      <3>1. task[i].account = NoAccount
        BY <2>3, <2>5 DEF LiteReserve, HoldingStages
      <3>2. CASE \E a \in Accounts : /\ Reserve(a)
                                     /\ task' = [task EXCEPT ![i].stage = "stream", ![i].account = a]
        <4>1. PICK a \in Accounts : /\ Reserve(a)
                                    /\ task' = [task EXCEPT ![i].stage = "stream", ![i].account = a]
          BY <3>2
        <4>2. a # NoAccount
          BY ImageAssumption
        <4>. QED
          BY <2>4, <3>1, <4>1, <4>2 DEF TaskStages, HoldingStages
      <3>3. CASE TaskGoes(i, "failed") /\ UNCHANGED load
        BY <2>4, <3>1, <3>3 DEF TaskStages
      <3>. QED
        BY <2>5, <3>2, <3>3 DEF LiteReserve
    <2>6. CASE LiteImage(i)
      <3>1. task[i].account # NoAccount /\ TaskGoes(i, "resolve") /\ UNCHANGED load
        BY <2>3, <2>6 DEF LiteImage
      <3>. QED
        BY <2>0, <2>4, <3>1 DEF TaskStages, HoldingStages
    <2>7. CASE LiteReturns(i) \/ LiteFails(i)
      <3>1. PICK s \in EndedStages : \E credentials : Settle(i, s, credentials)
        BY <2>7 DEF LiteReturns, LiteFails, EndedStages
      <3>2. task[i].account # NoAccount
        BY <2>3, <2>7 DEF LiteReturns, LiteFails
      <3>3. /\ Release(task[i].account)
            /\ task' = [task EXCEPT ![i].stage = s, ![i].account = NoAccount]
        BY <3>1 DEF Settle
      <3>4. s \in TaskStages /\ s \notin {"stream", "resolve"}
        BY DEF EndedStages, TaskStages
      <3>. QED
        BY <2>4, <3>2, <3>3, <3>4
    <2>8. CASE LiteRetries(i)
      <3> DEFINE again == [stage |-> "reserve", account |-> NoAccount,
                           tries |-> task[i].tries + 1,
                           excluded |-> task[i].excluded \cup {task[i].account}]
      <3>1. /\ task[i].account # NoAccount /\ Release(task[i].account)
            /\ task' = [task EXCEPT ![i] = again]
        BY <2>0, <2>3, <2>8 DEF LiteRetries
      <3>2. /\ again \in TaskType /\ again.account = NoAccount /\ again.stage = "reserve"
        BY <2>0 DEF TaskType, TaskStages
      <3>. HIDE DEF again
      <3>. QED
        BY <2>2, <3>1, <3>2, TaskKeepsAccounts
    <2>9. CASE LiteCancelled(i)
      <3>1. CASE task[i].account = NoAccount
        BY <2>4, <2>9, <3>1 DEF LiteCancelled, TaskStages
      <3>2. CASE task[i].account # NoAccount
        <4>1. /\ Release(task[i].account)
              /\ task' = [task EXCEPT ![i].stage = "cancelled", ![i].account = NoAccount]
          BY <2>9, <3>2 DEF LiteCancelled, Settle
        <4>. QED
          BY <2>4, <3>2, <4>1 DEF TaskStages
      <3>. QED
        BY <3>1, <3>2
    <2>. QED
      BY <1>1, <2>5, <2>6, <2>7, <2>8, <2>9
  <1>2. ASSUME NEW i \in Tasks, LiteReport(i) PROVE AccountInv'
    BY <1>2, QuietKeepsAccounts DEF LiteReport, given, requestVars, liteVars, sessionVars
  <1>3. CASE GroupAborts
    <2>1. /\ kind = "lite" /\ UNCHANGED <<kind, load, account, phase, reply, handler, then>>
          /\ task' = [i \in Tasks |-> IF task[i].stage \in Unended
                                      THEN [task[i] EXCEPT !.stage = "cancelling"]
                                      ELSE task[i]]
      BY <1>3 DEF GroupAborts, given, requestVars, sessionVars
    <2>2. /\ task' \in [Tasks -> TaskType]
          /\ \A i \in Tasks : /\ task'[i].account = task[i].account
                              /\ task'[i].stage \in {task[i].stage, "cancelling"}
                              /\ task[i].stage \in EndedStages => task'[i].stage = task[i].stage
      BY <2>1 DEF AccountInv, AccountTypes, TaskType, TaskStages, Unended, EndedStages
    <2>3. \A b \in Accounts : load'[b] = Counted(b)'
      BY <2>1, <2>2, CountsKept
    <2>. QED
      BY <2>1, <2>2, <2>3 DEF AccountInv, AccountTypes, HoldingStages
  <1>4. CASE LiteEnds \/ LiteLeft
    <2>1. /\ kind = "lite" /\ UNCHANGED <<kind, load, account, phase, task, handler, then>>
          /\ reply' \in {"done", "error", "left"}
          /\ reply' # "left" => \A i \in Tasks : task[i].stage \in EndedStages
      BY <1>4 DEF LiteEnds, LiteLeft, given, liteVars, sessionVars, EndedStages
    <2>2. \A b \in Accounts : load'[b] = Counted(b)'
      BY <2>1, CountsKept
    <2>. QED
      BY <2>1, <2>2 DEF AccountInv, AccountTypes
  <1>. QED
    BY <1>1, <1>2, <1>3, <1>4 DEF Lite

LEMMA SessionKeepsAccounts ==
    ASSUME AccountInv, Session
    PROVE  AccountInv'
  <1>1. kind = "session" /\ UNCHANGED <<kind, reply, task>> /\ reply \notin {"done", "error"}
    BY DEF Session, SessionMessage, RunCancelled, SessionProceeds, RunBegins, RunSends, RunEnds,
           given, liteVars, AccountInv
  <1>2. CASE \/ \E message \in {"start", "stop", "leave"} : SessionMessage(message)
             \/ SessionProceeds
    <2>1. UNCHANGED <<load, account>>
      BY <1>2 DEF SessionMessage, SessionProceeds
    <2>2. \A b \in Accounts : load'[b] = Counted(b)'
      BY <1>1, <2>1, CountsKept
    <2>3. /\ then' \in {"start", "stop", "leave"}
          /\ handler' \in {"receiving", "stopping", "closed"}
          /\ phase' \in PhasesOf("session")
          /\ phase' \in HoldingPhases <=> phase \in HoldingPhases
          /\ handler' = "closed" => phase' = "over"
      BY <1>1, <1>2 DEF SessionMessage, SessionProceeds, Proceed, Running, AccountInv, AccountTypes,
                        PhasesOf, HoldingPhases
    <2>. QED
      BY <1>1, <2>1, <2>2, <2>3 DEF AccountInv, AccountTypes
  <1>3. CASE RunBegins
    <2>1. /\ phase = "created" /\ account = NoAccount /\ handler = "receiving"
          /\ UNCHANGED <<handler, then>>
      BY <1>3 DEF RunBegins, AccountInv, HoldingPhases, sessionVars
    <2>2. CASE \E a \in Accounts : Reserve(a) /\ account' = a /\ phase' = "stream"
      <3>1. load' \in [Accounts -> Int] /\ \A b \in Accounts : load'[b] = Counted(b)'
        BY <1>1, <2>1, <2>2, RequestReserves
      <3>. QED
        BY <1>1, <2>1, <2>2, <3>1, ImageAssumption DEF AccountInv, AccountTypes, PhasesOf, HoldingPhases
    <2>3. CASE phase' = "over" /\ UNCHANGED <<load, account>>
      <3>1. \A b \in Accounts : load'[b] = Counted(b)'
        BY <1>1, <2>3, CountsKept
      <3>. QED
        BY <1>1, <2>1, <2>3, <3>1 DEF AccountInv, AccountTypes, PhasesOf, HoldingPhases
    <2>. QED
      BY <1>3, <2>2, <2>3 DEF RunBegins
  <1>4. CASE RunCancelled \/ RunSends \/ RunEnds
    <2>1. phase = "stream" /\ UNCHANGED <<handler, then>>
      BY <1>4 DEF RunCancelled, RunSends, RunEnds, sessionVars
    <2>2. CASE RunOver
      <3>1. load' \in [Accounts -> Int] /\ \A b \in Accounts : load'[b] = Counted(b)'
        BY <1>1, <2>1, <2>2, RequestReleases DEF RunOver, HoldingPhases
      <3>. QED
        BY <1>1, <2>1, <2>2, <3>1 DEF RunOver, AccountInv, AccountTypes, PhasesOf, HoldingPhases
    <2>3. CASE UNCHANGED <<load, account, phase>>
      BY <1>1, <2>1, <2>3, QuietKeepsAccounts
    <2>. QED
      BY <1>4, <2>2, <2>3 DEF RunCancelled, RunSends, RunEnds
  <1>. QED
    BY <1>1, <1>2, <1>3, <1>4 DEF Session

LEMMA AccountInvHolds == Spec => []AccountInv
  <1>1. Init => AccountInv
    <2>. SUFFICES ASSUME Init PROVE AccountInv
      OBVIOUS
    <2>1. AccountTypes
      BY DEF Init, AccountTypes, NewTask, TaskType, TaskStages, PhasesOf
    <2>2. ASSUME NEW a \in Accounts PROVE load[a] = Counted(a)
      <3>1. a # NoAccount /\ Users(a) = {}
        BY ImageAssumption DEF Init, Users, NewTask
      <3>. QED
        BY <3>1, FS_EmptySet DEF Init, Counted
    <2>. QED
      BY <2>1, <2>2 DEF Init, AccountInv, NewTask, HoldingPhases
  <1>2. AccountInv /\ [Next]_vars => AccountInv'
    <2>. SUFFICES ASSUME AccountInv, [Next]_vars PROVE AccountInv'
      OBVIOUS
    <2>1. CASE Streaming \/ UNCHANGED vars
      BY <2>1, QuietKeepsAccounts DEF Streaming, vars, given, requestVars, liteVars, sessionVars
    <2>. QED
      BY <2>1, ImagineKeepsAccounts, LiteKeepsAccounts, EditKeepsAccounts, SessionKeepsAccounts
         DEF Next
  <1>. QED
    BY <1>1, <1>2, PTL DEF Spec

\* An account is in flight exactly as often as it is held, and no response
\* that has ended, no closed socket and no sibling of a failed task keeps one.
THEOREM ReservationsCorrect == Spec => []ReservationsReturned
  <1>1. AccountInv => ReservationsReturned
    <2>. SUFFICES ASSUME AccountInv PROVE ReservationsReturned
      OBVIOUS
    <2>1. \A a \in Accounts : load[a] = Cardinality({i \in Tasks : task[i].account = a})
                                        + (IF account = a THEN 1 ELSE 0)
      BY DEF AccountInv, Counted, Users
    <2>2. ASSUME reply \in {"done", "error"} \/ handler = "closed", NEW a \in Accounts
          PROVE  load[a] = 0
      <3>1. a # NoAccount
        BY ImageAssumption
      <3>2. account = NoAccount
        <4>1. phase \notin HoldingPhases
          BY <2>2 DEF AccountInv, AccountTypes, PhasesOf, HoldingPhases
        <4>. QED
          BY <4>1 DEF AccountInv
      <3>3. \A i \in Tasks : task[i].account # a
        BY <2>2, <3>1 DEF AccountInv, AccountTypes, HoldingStages, EndedStages
      <3>4. {i \in Tasks : task[i].account = a} = {}
        BY <3>3
      <3>5. Cardinality({i \in Tasks : task[i].account = a}) = 0
        BY <3>4, FS_EmptySet
      <3>. QED
        BY <2>1, <3>1, <3>2, <3>5
    <2>. QED
      BY <2>1, <2>2 DEF ReservationsReturned
  <1>. QED
    BY <1>1, AccountInvHolds, PTL

-----------------------------------------------------------------------------
(* The stream of a round.                                                  *)

\* The finals a step brings are of slots that were live, the slots that are
\* live after it were so before or are new, and nothing is taken.
Brings ==
    /\ UNCHANGED collected /\ started \subseteq started'
    /\ \A j \in DOMAIN pending' : Final(pending'[j]) =>
          \/ \E i \in DOMAIN pending : Final(pending[i]) /\ pending[i].id = pending'[j].id
          \/ \E k \in DOMAIN slots : Live(k) /\ slots[k].id = pending'[j].id
    /\ \A k \in DOMAIN slots' : Live(k)' =>
          \/ \E i \in DOMAIN slots : Live(i) /\ slots[i].id = slots'[k].id
          \/ slots'[k].id \notin started

LEMMA EventIsTyped ==
    ASSUME NEW slot \in SlotType, NEW type \in {"progress", "moderated", "final"}
    PROVE  Event(type, slot) \in EventType /\ Event(type, slot).id = slot.id
           /\ Event(type, slot).type = type
  BY DEF Event, EventType, SlotType

LEMMA AtMostAnError ==
    ASSUME NEW p, p = <<>> \/ p = <<Error>>
    PROVE  p \in Seq(EventType) /\ \A j \in DOMAIN p : ~Final(p[j])
  <1>1. Error \in EventType /\ ~Final(Error)
    BY DEF EventType, Final, Error
  <1>2. CASE p = <<>>
    BY <1>2
  <1>3. CASE p = <<Error>>
    <2>1. p \in Seq(EventType) /\ DOMAIN p = {1} /\ p[1] = Error
      BY <1>1, <1>3
    <2>. QED
      BY <1>1, <2>1
  <1>. QED
    BY <1>2, <1>3

\* At most one event, and no slot but those of the round.
LEMMA StartKeepsStream ==
    ASSUME StreamInv, NEW id \in Images, StartStage(id)
    PROVE  StreamInv' /\ Brings
  <1> DEFINE e == [Event("progress", Slot(id)) EXCEPT !.progress = 10]
  <1>1. /\ ws = "round" /\ meta = "none" /\ UNCHANGED <<ws, collected>> /\ meta' = "none"
        /\ started' = started \cup {id} /\ slots' = Append(slots, Slot(id)) /\ pending' = <<e>>
    BY DEF StartStage, Receiving, Yields
  <1>2. id \notin started
    <2>1. started # Images /\ id = CHOOSE i \in Images : i \notin started
      BY DEF StartStage, Fresh
    <2>2. \E i \in Images : i \notin started
      BY <2>1 DEF StreamInv, StreamTypes
    <2>. QED
      BY <2>1, <2>2
  <1>3. Slot(id) \in SlotType /\ Slot(id).id = id
    BY DEF Slot, SlotType
  <1>4. e \in EventType /\ ~Final(e)
    <2> DEFINE T == [type : {"progress", "moderated", "final"}, id : Images,
                     progress : 0 .. 100, blob : BOOLEAN]
    <2>1. ASSUME NEW r \in T
          PROVE  [r EXCEPT !.progress = 10] \in T /\ [r EXCEPT !.progress = 10].type = r.type
      OBVIOUS
    <2>2. Event("progress", Slot(id)) \in T /\ Event("progress", Slot(id)).type = "progress"
      BY DEF Event, Slot
    <2>3. e \in T /\ e.type = "progress"
      BY <2>1, <2>2
    <2>. QED
      BY <2>3 DEF EventType, Final
  <1>. HIDE DEF e
  <1>5. /\ slots \in Seq(SlotType) /\ slots' \in Seq(SlotType) /\ Len(slots) \in Nat
        /\ DOMAIN slots = 1 .. Len(slots) /\ DOMAIN slots' = 1 .. Len(slots) + 1
        /\ \A k \in DOMAIN slots : slots'[k] = slots[k] /\ k \in DOMAIN slots'
        /\ slots'[Len(slots) + 1] = Slot(id)
        /\ \A k \in DOMAIN slots' : k \in DOMAIN slots \/ k = Len(slots) + 1
    BY <1>1, <1>3, LenProperties, AppendProperties DEF StreamInv, StreamTypes
  <1>6. pending' \in Seq(EventType) /\ DOMAIN pending' = {1} /\ pending'[1] = e
    BY <1>1, <1>4
  <1>7. \A k \in DOMAIN slots' : slots'[k].id \in started'
    BY <1>1, <1>3, <1>5 DEF StreamInv
  <1>8. \A j, k \in DOMAIN slots' : slots'[j].id = slots'[k].id => j = k
    BY <1>2, <1>3, <1>5 DEF StreamInv
  <1>9. StreamTypes'
    BY <1>1, <1>5, <1>6 DEF StreamInv, StreamTypes
  <1>10. StreamInv'
    BY <1>1, <1>4, <1>6, <1>7, <1>8, <1>9 DEF StreamInv
  <1>11. Brings
    BY <1>1, <1>2, <1>3, <1>4, <1>5, <1>6 DEF Brings, Live
  <1>. QED
    BY <1>10, <1>11

LEMMA CompletedKeepsStream ==
    ASSUME StreamInv, NEW id \in Images, NEW moderated \in BOOLEAN, Completed(id, moderated)
    PROVE  StreamInv' /\ Brings
  <1> DEFINE type == IF moderated THEN "moderated" ELSE "final"
  <1>1. PICK k \in InRound(id) :
           /\ slots' = [slots EXCEPT ![k].done = TRUE]
           /\ ws' \in {"probe", "round"} /\ meta' \in {"open", "none"}
           /\ pending' = <<Event(type, slots[k])>>
    BY DEF Completed, Yields
  <1>2. /\ UNCHANGED <<started, collected>> /\ ws = "round" /\ meta = "none"
        /\ k \in DOMAIN slots /\ ~slots[k].done /\ Live(k)
    BY <1>1 DEF Completed, Yields, Receiving, InRound, Live
  <1>3. slots \in Seq(SlotType) /\ slots[k] \in SlotType
    BY <1>2 DEF StreamInv, StreamTypes
  <1>4. /\ slots' \in Seq(SlotType) /\ DOMAIN slots' = DOMAIN slots
        /\ slots'[k].done /\ \A j \in DOMAIN slots : slots'[j].id = slots[j].id
        /\ \A j \in DOMAIN slots : j # k => slots'[j] = slots[j]
    <2>1. [slots[k] EXCEPT !.done = TRUE] \in SlotType
      BY <1>3 DEF SlotType
    <2>2. slots' = [slots EXCEPT ![k] = [slots[k] EXCEPT !.done = TRUE]]
      BY <1>1
    <2>3. slots' \in Seq(SlotType)
      BY <1>2, <1>3, <2>1, <2>2, ExceptSeq
    <2>4. slots'[k] = [slots[k] EXCEPT !.done = TRUE] /\ DOMAIN slots' = DOMAIN slots
          /\ \A j \in DOMAIN slots : j # k => slots'[j] = slots[j]
      BY <1>2, <1>3, <2>2
    <2>. QED
      BY <1>3, <2>3, <2>4 DEF SlotType
  <1>5. /\ Event(type, slots[k]) \in EventType /\ Event(type, slots[k]).id = slots[k].id
    BY <1>3, EventIsTyped
  <1>6. /\ pending' \in Seq(EventType) /\ DOMAIN pending' = {1} /\ pending'[1].id = slots[k].id
    BY <1>1, <1>5
  <1>7. StreamTypes'
    BY <1>1, <1>2, <1>4, <1>6 DEF StreamInv, StreamTypes
  <1>8. \A j \in DOMAIN slots' : Live(j)' => Live(j) /\ slots[j].id # slots[k].id
    BY <1>1, <1>2, <1>4 DEF Live, StreamInv
  <1>9. StreamInv'
    BY <1>1, <1>2, <1>4, <1>6, <1>7, <1>8 DEF StreamInv
  <1>10. Brings
    BY <1>2, <1>4, <1>6, <1>8 DEF Brings
  <1>. QED
    BY <1>9, <1>10

LEMMA PreviewKeepsStream ==
    ASSUME StreamInv, NEW id \in Images, NEW reading \in Readings, Image(id, reading)
    PROVE  StreamInv' /\ Brings
  <1>1. PICK k \in InRound(id), p \in 0 .. 100 :
           LET slot == [slots[k] EXCEPT !.blob = TRUE, !.progress = p]
           IN  /\ slots' = [slots EXCEPT ![k] = slot]
               /\ pending' \in {<<>>, <<Event("progress", slot)>>}
    <2>1. PICK k \in InRound(id) :
             LET higher == Clamped(reading) > slots[k].progress
                 slot == [slots[k] EXCEPT !.blob = TRUE,
                                          !.progress = IF higher THEN Clamped(reading) ELSE @]
             IN  /\ slots' = [slots EXCEPT ![k] = slot]
                 /\ pending' = IF higher THEN <<Event("progress", slot)>> ELSE <<>>
      BY DEF Image, Yields
    <2>2. slots[k] \in SlotType
      BY DEF InRound, StreamInv, StreamTypes
    <2>3. Clamped(reading) \in 0 .. 100 /\ slots[k].progress \in 0 .. 100
      BY <2>2, ImagineAssumption DEF Clamped, SlotType
    <2> DEFINE p == IF Clamped(reading) > slots[k].progress THEN Clamped(reading)
                    ELSE slots[k].progress
    <2>4. p \in 0 .. 100
      BY <2>3
    <2>5. slots' = [slots EXCEPT ![k] = [slots[k] EXCEPT !.blob = TRUE, !.progress = p]]
      BY <2>1
    <2>6. pending' \in {<<>>, <<Event("progress", [slots[k] EXCEPT !.blob = TRUE, !.progress = p])>>}
      BY <2>1
    <2>. HIDE DEF p
    <2>. QED
      BY <2>4, <2>5, <2>6
  <1> DEFINE slot == [slots[k] EXCEPT !.blob = TRUE, !.progress = p]
  <1>2. /\ UNCHANGED <<ws, started, collected>> /\ ws = "round" /\ meta = "none" /\ meta' = "none"
        /\ k \in DOMAIN slots
    BY DEF Image, Yields, Receiving, InRound
  <1>3. /\ slots \in Seq(SlotType) /\ slots[k] \in SlotType /\ slot \in SlotType
        /\ slot.id = slots[k].id /\ slot.done = slots[k].done
    <2>1. slots \in Seq(SlotType) /\ slots[k] \in SlotType
      BY <1>2 DEF StreamInv, StreamTypes
    <2>. QED
      BY <2>1 DEF SlotType
  <1>4. /\ slots' = [slots EXCEPT ![k] = slot]
        /\ pending' \in {<<>>, <<Event("progress", slot)>>}
    BY <1>1
  <1>5. Event("progress", slot) \in EventType /\ ~Final(Event("progress", slot))
    BY <1>3, EventIsTyped DEF Final
  <1>. HIDE DEF slot
  <1>6. /\ slots' \in Seq(SlotType) /\ DOMAIN slots' = DOMAIN slots
        /\ \A j \in DOMAIN slots : slots'[j].id = slots[j].id /\ slots'[j].done = slots[j].done
    <2>1. slots' \in Seq(SlotType)
      BY <1>2, <1>3, <1>4, ExceptSeq
    <2>2. DOMAIN slots' = DOMAIN slots /\ slots'[k] = slot
          /\ \A j \in DOMAIN slots : j # k => slots'[j] = slots[j]
      BY <1>2, <1>3, <1>4
    <2>. QED
      BY <1>3, <2>1, <2>2
  <1>7. pending' \in Seq(EventType) /\ \A j \in DOMAIN pending' : ~Final(pending'[j])
    <2>1. CASE pending' = <<>>
      BY <2>1
    <2>2. CASE pending' = <<Event("progress", slot)>>
      <3>1. pending' \in Seq(EventType) /\ DOMAIN pending' = {1}
            /\ pending'[1] = Event("progress", slot)
        BY <1>5, <2>2
      <3>. QED
        BY <1>5, <3>1
    <2>. QED
      BY <1>4, <2>1, <2>2
  <1>8. StreamTypes'
    BY <1>2, <1>6, <1>7 DEF StreamInv, StreamTypes
  <1>9. \A j \in DOMAIN slots' : Live(j)' => Live(j)
    BY <1>2, <1>6 DEF Live
  <1>10. StreamInv'
    BY <1>2, <1>6, <1>7, <1>8 DEF StreamInv
  <1>11. Brings
    BY <1>2, <1>6, <1>7, <1>9 DEF Brings
  <1>. QED
    BY <1>10, <1>11

\* A step that leaves the slots alone and brings at most an error.
LEMMA ErrorKeepsStream ==
    ASSUME StreamInv, UNCHANGED <<slots, collected, started>>,
           pending' = <<>> \/ pending' = <<Error>>,
           ws' \in {"connect", "round", "over"}, meta' \in {"none", "open", "closed"},
           ws' = "round" /\ meta' = "none" => ws = "round" /\ meta = "none",
           ws' = "over" /\ phase' = "stream" => pending' = <<Error>> \/ collected >= Wanted
    PROVE  StreamInv' /\ Brings
  <1>2. pending' \in Seq(EventType) /\ \A j \in DOMAIN pending' : ~Final(pending'[j])
    BY AtMostAnError
  <1>3. StreamTypes'
    BY <1>2 DEF StreamInv, StreamTypes
  <1>4. \A k \in DOMAIN slots : Live(k)' => Live(k)
    BY DEF Live
  <1>5. StreamInv'
    BY <1>2, <1>3 DEF StreamInv
  <1>6. Brings
    BY <1>2, <1>4 DEF Brings
  <1>. QED
    BY <1>5, <1>6

\* A step that leaves no slot and brings at most an error.
LEMMA EmptyKeepsStream ==
    ASSUME StreamInv, slots' = <<>>, UNCHANGED <<collected, started>>,
           pending' = <<>> \/ pending' = <<Error>> \/ pending' = pending,
           ws' \in {"idle", "connect", "round", "probe", "over"}, meta' \in {"none", "open", "closed"},
           ws' = "over" /\ phase' = "stream" => pending' = <<Error>> \/ (pending' = <<>> /\ collected >= Wanted)
    PROVE  StreamInv' /\ Brings
  <1>2. \/ pending' = pending
        \/ pending' \in Seq(EventType) /\ \A j \in DOMAIN pending' : ~Final(pending'[j])
    BY AtMostAnError
  <1>3. StreamTypes'
    BY <1>2 DEF StreamInv, StreamTypes
  <1>4. StreamInv'
    BY <1>2, <1>3 DEF StreamInv
  <1>5. Brings
    BY <1>2 DEF Brings
  <1>. QED
    BY <1>4, <1>5

\* A probe that meets a new slot's frame loses it.
LEMMA ProbeKeepsStream ==
    ASSUME StreamInv, Probe
    PROVE  StreamInv' /\ Brings
  <1>1. /\ UNCHANGED <<slots, collected>> /\ pending' = <<>> /\ ws' = "round"
        /\ meta' \in {"open", "closed"} /\ started \subseteq started' /\ started' \subseteq Images
    BY DEF Probe, Yields, Fresh, StreamInv, StreamTypes
  <1>2. StreamTypes'
    BY <1>1 DEF StreamInv, StreamTypes
  <1>3. StreamInv'
    BY <1>1, <1>2 DEF StreamInv
  <1>4. Brings
    BY <1>1 DEF Brings, Live
  <1>. QED
    BY <1>3, <1>4

\* The best effort yields no slot twice: its order is increasing.
LEMMA BestEffortKeepsStream ==
    ASSUME StreamInv, NEW S \in SUBSET Unfinished, NEW last \in {"open", "closed"},
           Receiving, YieldsBestEffort(S, last), UNCHANGED <<ws, slots, started>>
    PROVE  StreamInv' /\ Brings
  <1>1. PICK order \in InOrder(S) :
           /\ pending' = [i \in DOMAIN order |-> IF slots[order[i]].blob
                                                 THEN Event("final", slots[order[i]]) ELSE Error]
           /\ meta' = last /\ UNCHANGED <<collected, rounds, lease>>
    BY DEF YieldsBestEffort, Yields
  <1>2. ws = "round" /\ meta = "none"
    BY DEF Receiving
  <1>3. slots \in Seq(SlotType) /\ \A k \in DOMAIN slots : slots[k] \in SlotType
    BY DEF StreamInv, StreamTypes
  <1>4. /\ order \in [1 .. Cardinality(S) -> S]
        /\ \A i \in DOMAIN order : order[i] \in DOMAIN slots /\ ~slots[order[i]].done
                                   /\ Live(order[i])
    BY <1>1, <1>2 DEF InOrder, Unfinished, Live
  <1>5. Cardinality(S) \in Nat
    <2>1. DOMAIN slots = 1 .. Len(slots) /\ Len(slots) \in Nat
      BY <1>3, LenProperties
    <2>2. IsFiniteSet(DOMAIN slots)
      BY <2>1, FS_Interval
    <2>3. S \subseteq DOMAIN slots
      BY DEF Unfinished
    <2>. QED
      BY <2>2, <2>3, FS_Subset, FS_CardinalityType
  <1>6. DOMAIN pending' = 1 .. Cardinality(S) /\ DOMAIN order = 1 .. Cardinality(S)
    BY <1>1, <1>4
  <1>7. ASSUME NEW i \in DOMAIN pending'
        PROVE  /\ pending'[i] \in EventType
               /\ Final(pending'[i]) => pending'[i].id = slots[order[i]].id
    <2>1. slots[order[i]] \in SlotType
      BY <1>3, <1>4, <1>6
    <2>2. pending'[i] = IF slots[order[i]].blob THEN Event("final", slots[order[i]]) ELSE Error
      BY <1>1, <1>6
    <2>3. /\ Event("final", slots[order[i]]) \in EventType
          /\ Event("final", slots[order[i]]).id = slots[order[i]].id
      BY <2>1, EventIsTyped
    <2>4. Error \in EventType /\ ~Final(Error)
      BY DEF EventType, Final, Error
    <2>. QED
      BY <2>2, <2>3, <2>4
  <1>8. pending' \in Seq(EventType)
    <2>1. pending' = [i \in 1 .. Cardinality(S) |-> pending'[i]]
      BY <1>1, <1>6
    <2>2. pending' \in [1 .. Cardinality(S) -> EventType]
      BY <1>6, <1>7, <2>1
    <2>. QED
      BY <1>5, <2>2, SeqDef
  <1>9. \A i, j \in DOMAIN order : order[i] = order[j] => i = j
    <2>1. \A i, j \in DOMAIN order : i < j => order[i] < order[j]
      BY <1>1 DEF InOrder
    <2>2. \A i \in DOMAIN order : order[i] \in Int /\ i \in Int
      BY <1>3, <1>4, <1>5, <1>6, LenProperties
    <2>. QED
      BY <2>1, <2>2
  <1>10. \A j, k \in DOMAIN pending' :
            Final(pending'[j]) /\ Final(pending'[k]) /\ pending'[j].id = pending'[k].id => j = k
    BY <1>4, <1>6, <1>7, <1>9 DEF StreamInv
  <1>11. StreamTypes'
    BY <1>1, <1>8 DEF StreamInv, StreamTypes
  <1>12. \A k \in DOMAIN slots' : ~Live(k)'
    BY <1>1 DEF Live
  <1>13. StreamInv'
    <2>1. \A j \in DOMAIN pending' : Final(pending'[j]) => pending'[j].id \in started'
      BY <1>4, <1>6, <1>7 DEF StreamInv
    <2>. QED
      BY <1>2, <1>10, <1>11, <1>12, <2>1 DEF StreamInv
  <1>14. Brings
    BY <1>1, <1>4, <1>6, <1>7, <1>12 DEF Brings
  <1>. QED
    BY <1>13, <1>14

LEMMA TransportKeepsStream ==
    ASSUME StreamInv, Transport, UNCHANGED phase
    PROVE  StreamInv' /\ Brings
  <1>1. CASE Connect
    <2>1. /\ slots' = <<>> /\ UNCHANGED <<meta, collected, started>>
          /\ \/ ws' = "round" /\ UNCHANGED pending
             \/ ws' = "over" /\ pending' = <<Error>>
      BY <1>1 DEF Connect
    <2>. QED
      BY <2>1, EmptyKeepsStream DEF StreamInv, StreamTypes
  <1>2. CASE RoundTimeout \/ ServerCloses
    <2>1. /\ Receiving /\ UNCHANGED <<ws, slots, started>>
          /\ \/ YieldsBestEffort(Unfinished, "open")
             \/ YieldsBestEffort({k \in Unfinished : slots[k].blob}, "closed")
      BY <1>2 DEF RoundTimeout, ServerCloses
    <2>. QED
      BY <2>1, BestEffortKeepsStream
  <1>3. CASE ServerError \/ ConnectionLost \/ EndConnection
    <2>1. /\ UNCHANGED <<slots, collected, started>>
          /\ pending' = <<>> \/ pending' = <<Error>>
          /\ ws' \in {"connect", "round", "over"}
          /\ meta' \in {"none", "open", "closed"}
          /\ ws' = "round" /\ meta' = "none" => ws = "round" /\ meta = "none"
          /\ ws' = "over" => pending' = <<Error>> \/ collected >= Wanted
      BY <1>3 DEF ServerError, ConnectionLost, EndConnection, Receiving, Yields
    <2>. QED
      BY <2>1, ErrorKeepsStream
  <1>4. CASE Probe
    BY <1>4, ProbeKeepsStream
  <1>5. CASE NextRound
    <2>1. /\ slots' = <<>> /\ UNCHANGED <<ws, collected, started>>
          /\ pending' = <<>> /\ pending = <<>> /\ meta' = "none" /\ ~(collected >= Wanted)
      BY <1>5, ImagineAssumption DEF NextRound, StreamInv, StreamTypes
    <2>2. pending # <<Error>>
      BY <2>1
    <2>3. ~(ws = "over" /\ phase = "stream")
      BY <2>1, <2>2 DEF StreamInv
    <2>4. ws \in {"idle", "connect", "round", "probe", "over"}
      BY DEF StreamInv, StreamTypes
    <2>. QED
      BY <2>1, <2>3, <2>4, EmptyKeepsStream
  <1>6. ASSUME NEW id \in Images, StartStage(id) \/ (\E moderated \in BOOLEAN : Completed(id, moderated))
                  \/ (\E reading \in Readings : Image(id, reading))
        PROVE  StreamInv' /\ Brings
    BY <1>6, StartKeepsStream, CompletedKeepsStream, PreviewKeepsStream
  <1>. QED
    BY <1>1, <1>2, <1>3, <1>4, <1>5, <1>6 DEF Transport

\* The consumer takes an event that is no error: the others move up.
LEMMA TakeKeepsStream ==
    ASSUME StreamInv, pending # <<>>, Head(pending).type # "error", Take,
           phase = "stream", UNCHANGED phase
    PROVE  /\ StreamInv'
           /\ \A j \in DOMAIN pending' : j + 1 \in DOMAIN pending /\ pending'[j] = pending[j + 1]
           /\ 1 \in DOMAIN pending /\ Head(pending) = pending[1]
           /\ \A j \in DOMAIN pending' : j \in Nat /\ j >= 1
  <1>1. /\ pending' = Tail(pending) /\ UNCHANGED <<ws, slots, meta, started>>
        /\ collected' = IF Head(pending).type = "final" THEN collected + 1 ELSE collected
    BY DEF Take
  <1>2. pending \in Seq(EventType) /\ Len(pending) \in Nat /\ DOMAIN pending = 1 .. Len(pending)
    BY LenProperties DEF StreamInv, StreamTypes
  <1>3. Len(pending) >= 1
    BY <1>2, EmptySeq
  <1>4. /\ pending' \in Seq(EventType)
        /\ \A j \in DOMAIN pending' : /\ j \in Nat /\ j >= 1 /\ j + 1 \in DOMAIN pending
                                      /\ pending'[j] = pending[j + 1]
        /\ 1 \in DOMAIN pending /\ Head(pending) = pending[1]
    BY <1>1, <1>2, <1>3, HeadTailProperties
  <1>5. ws # "over"
    <2>1. pending # <<Error>>
      <3>1. Head(<<Error>>) = Error
        OBVIOUS
      <3>. QED
        BY <3>1 DEF Error
    <2>. QED
      BY <2>1 DEF StreamInv
  <1>6. collected' \in Nat
    BY <1>1 DEF StreamInv, StreamTypes
  <1>7. StreamTypes'
    BY <1>1, <1>4, <1>6 DEF StreamInv, StreamTypes
  <1>8. \A k \in DOMAIN slots : Live(k)' <=> Live(k)
    BY <1>1 DEF Live
  <1>9. \A j, k \in DOMAIN pending' :
           Final(pending'[j]) /\ Final(pending'[k]) /\ pending'[j].id = pending'[k].id => j = k
    <2>1. ASSUME NEW j \in DOMAIN pending', NEW k \in DOMAIN pending',
                 Final(pending'[j]), Final(pending'[k]), pending'[j].id = pending'[k].id
          PROVE  j = k
      <3>1. j + 1 = k + 1
        BY <1>4, <2>1 DEF StreamInv
      <3>. QED
        BY <1>4, <3>1
    <2>. QED
      BY <2>1
  <1>10. \A j \in DOMAIN pending' : Final(pending'[j]) =>
            /\ pending'[j].id \in started'
            /\ \A k \in DOMAIN slots' : Live(k)' => slots'[k].id # pending'[j].id
    BY <1>1, <1>4, <1>8 DEF StreamInv
  <1>11. StreamInv'
    BY <1>1, <1>5, <1>7, <1>9, <1>10 DEF StreamInv
  <1>. QED
    BY <1>4, <1>11

LEMMA AsideKeepsStream ==
    ASSUME StreamInv, UNCHANGED wsVars, phase' = "stream" => phase = "stream"
    PROVE  StreamInv'
  <1>1. UNCHANGED <<ws, slots, pending, meta, collected, started>>
    BY DEF wsVars
  <1>. QED
    BY <1>1 DEF StreamInv, StreamTypes, Live

LEMMA OpenKeepsStream ==
    ASSUME StreamInv, Open \/ (Abandon /\ phase' # "stream")
    PROVE  StreamInv'
  <1>1. /\ slots' = <<>> /\ pending' = <<>> /\ meta' = "none"
        /\ \/ ws' = "connect" /\ collected' = 0 /\ started' = {}
           \/ ws' = "over" /\ UNCHANGED <<collected, started>> /\ phase' # "stream"
    BY DEF Open, Abandon
  <1>. QED
    BY <1>1 DEF StreamInv, StreamTypes

LEMMA StreamInvKept ==
    ASSUME StreamInv, [Next]_vars
    PROVE  StreamInv'
  <1>1. CASE ReserveForStream \/ RunBegins
    <2>1. Open \/ (UNCHANGED wsVars /\ phase' = "over")
      BY <1>1 DEF ReserveForStream, RunBegins
    <2>. QED
      BY <2>1, OpenKeepsStream, AsideKeepsStream
  <1>2. CASE TakeProgress \/ TakeModerated \/ TakeFinal
    <2>1. /\ pending # <<>> /\ Head(pending).type # "error" /\ Take
          /\ phase = "stream" /\ UNCHANGED phase
      BY <1>2 DEF TakeProgress, TakeModerated, TakeFinal, Awaiting, requestVars
    <2>. QED
      BY <2>1, TakeKeepsStream
  <1>3. CASE FinalFails \/ TakeError \/ StreamLeft \/ RunCancelled
    <2>1. Abandon /\ phase' = "over"
      BY <1>3 DEF FinalFails, TakeError, StreamLeft, RunCancelled, Finish, RunOver
    <2>. QED
      BY <2>1, OpenKeepsStream
  <1>4. CASE RunSends
    <2>1. CASE Head(pending).type = "error"
      BY <1>4, <2>1, OpenKeepsStream DEF RunSends, RunOver
    <2>2. CASE Head(pending).type # "error"
      BY <1>4, <2>2, TakeKeepsStream DEF RunSends
    <2>. QED
      BY <2>1, <2>2
  <1>5. CASE StreamEnds \/ RunEnds \/ SessionProceeds
             \/ (\E message \in {"start", "stop", "leave"} : SessionMessage(message))
    <2>1. UNCHANGED wsVars /\ (phase' = "stream" => phase = "stream")
      BY <1>5 DEF StreamEnds, RunEnds, SessionProceeds, SessionMessage, Finish, RunOver, Proceed
    <2>. QED
      BY <2>1, AsideKeepsStream
  <1>6. CASE Lite
    <2>1. UNCHANGED wsVars /\ UNCHANGED phase
      BY <1>6 DEF Lite, LiteReserve, LiteReport, LiteImage, LiteReturns, LiteRetries, LiteFails,
                  LiteCancelled, GroupAborts, LiteEnds, LiteLeft, requestVars
    <2>. QED
      BY <2>1, AsideKeepsStream
  <1>7. CASE Edit
    <2>1. UNCHANGED wsVars /\ (phase' = "stream" => phase = "stream")
      BY <1>7 DEF Edit, EditReserve, EditPrepared, EditUnprepared, EditCollected, EditAgain,
                  EditEnds, EditFails, EditLeft, EditReport, EditResolves, Finish, requestVars
    <2>. QED
      BY <2>1, AsideKeepsStream
  <1>8. CASE Streaming
    BY <1>8, TransportKeepsStream DEF Streaming, requestVars
  <1>9. CASE UNCHANGED vars
    BY <1>9, AsideKeepsStream DEF vars
  <1>. QED
    BY <1>1, <1>2, <1>3, <1>4, <1>5, <1>6, <1>7, <1>8, <1>9 DEF Next, Imagine, Session

LEMMA StreamInvHolds == Spec => []StreamInv
  <1>1. Init => StreamInv
    BY DEF Init, StreamIdle, StreamInv, StreamTypes
  <1>. QED
    BY <1>1, StreamInvKept, PTL DEF Spec

-----------------------------------------------------------------------------
(* What is delivered.                                                      *)

LEMMA Extends ==
    ASSUME NEW s \in Seq(Images), NEW id \in Images, \A d \in DOMAIN s : s[d] # id,
           \A j, k \in DOMAIN s : s[j] = s[k] => j = k
    PROVE  LET t == Append(s, id)
           IN  /\ t \in Seq(Images) /\ Len(t) = Len(s) + 1 /\ Len(s) \in Nat
               /\ \A j, k \in DOMAIN t : t[j] = t[k] => j = k
               /\ \A d \in DOMAIN t : t[d] = id \/ (d \in DOMAIN s /\ t[d] = s[d])
               /\ Range(t) = Range(s) \cup {id}
  <1> DEFINE t == Append(s, id)
  <1>1. /\ t \in Seq(Images) /\ Len(t) = Len(s) + 1 /\ Len(s) \in Nat
        /\ DOMAIN s = 1 .. Len(s) /\ DOMAIN t = 1 .. Len(s) + 1
        /\ \A d \in 1 .. Len(s) : t[d] = s[d]
        /\ t[Len(s) + 1] = id
    BY LenProperties, AppendProperties
  <1>. HIDE DEF t
  <1>2. \A d \in DOMAIN t : d = Len(s) + 1 \/ d \in DOMAIN s
    BY <1>1
  <1>3. \A j, k \in DOMAIN t : t[j] = t[k] => j = k
    BY <1>1, <1>2
  <1>4. Range(t) = Range(s) \cup {id}
    <2>1. Len(s) + 1 \in DOMAIN t /\ DOMAIN s \subseteq DOMAIN t
      BY <1>1
    <2>. QED
      BY <1>1, <1>2, <2>1 DEF Range
  <1>. QED
    BY <1>1, <1>2, <1>3, <1>4 DEF t

\* A step that delivers nothing, in a request over.
LEMMA OverKeepsDelivered ==
    ASSUME DeliveredInv, UNCHANGED <<kind, delivered, finals>>, kind = "imagine",
           phase' = "over", reply' = "done" => Len(delivered) >= Wanted,
           \/ UNCHANGED <<ws, slots, pending, meta, started>>
           \/ pending' = <<>> /\ slots' = <<>> /\ UNCHANGED started
    PROVE  DeliveredInv'
  <1>1. \A d \in DOMAIN delivered :
           /\ delivered[d] \in started'
           /\ \A j \in DOMAIN pending' : Final(pending'[j]) => pending'[j].id # delivered[d]
           /\ \A k \in DOMAIN slots' : Live(k)' => slots'[k].id # delivered[d]
    BY DEF DeliveredInv, Live
  <1>. QED
    BY <1>1 DEF DeliveredInv

LEMMA ImagineKeepsDelivered ==
    ASSUME DeliveredInv, StreamInv, AccountInv, Imagine
    PROVE  DeliveredInv'
  <1>0. kind = "imagine" /\ UNCHANGED <<kind, finals>>
    BY DEF Imagine, ReserveForStream, TakeProgress, TakeModerated, TakeFinal, FinalFails, TakeError,
           StreamEnds, StreamLeft, Awaiting, given, editVars
  <1>1. CASE ReserveForStream
    <2>1. delivered = <<>> /\ UNCHANGED delivered
      BY <1>0, <1>1 DEF ReserveForStream, DeliveredInv, shownVars
    <2>2. /\ reply' # "done"
          /\ phase' = "over" \/ (phase' = "stream" /\ collected' = 0)
      BY <1>0, <1>1 DEF ReserveForStream, AccountInv, Open
    <2>. QED
      BY <1>0, <2>1, <2>2 DEF DeliveredInv
  <1>2. CASE TakeProgress \/ TakeModerated
    <2>1. /\ pending # <<>> /\ Head(pending).type # "error" /\ Take
          /\ phase = "stream" /\ UNCHANGED <<phase, reply, delivered>>
          /\ UNCHANGED <<ws, slots, meta, started, collected>>
      BY <1>2 DEF TakeProgress, TakeModerated, Awaiting, requestVars, shownVars, Take
    <2>2. \A j \in DOMAIN pending' : j + 1 \in DOMAIN pending /\ pending'[j] = pending[j + 1]
      BY <2>1, TakeKeepsStream
    <2>3. \A d \in DOMAIN delivered :
             /\ delivered[d] \in started'
             /\ \A j \in DOMAIN pending' : Final(pending'[j]) => pending'[j].id # delivered[d]
             /\ \A k \in DOMAIN slots' : Live(k)' => slots'[k].id # delivered[d]
      BY <1>0, <2>1, <2>2 DEF DeliveredInv, Live
    <2>. QED
      BY <1>0, <2>1, <2>3 DEF DeliveredInv
  <1>3. CASE TakeFinal
    <2> DEFINE id == Head(pending).id
    <2>1. /\ pending # <<>> /\ Head(pending).type = "final" /\ Take
          /\ phase = "stream" /\ UNCHANGED <<phase, reply>>
          /\ UNCHANGED <<ws, slots, meta, started>> /\ collected' = collected + 1
          /\ delivered' = Append(delivered, id)
      BY <1>3 DEF TakeFinal, Awaiting, requestVars, Take
    <2>2. /\ \A j \in DOMAIN pending' : j + 1 \in DOMAIN pending /\ pending'[j] = pending[j + 1]
                                        /\ j \in Nat /\ j >= 1
          /\ 1 \in DOMAIN pending /\ Head(pending) = pending[1]
      BY <2>1, TakeKeepsStream
    <2>3. id \in Images /\ id \in started /\ Final(pending[1]) /\ pending[1].id = id
      BY <2>1, <2>2 DEF StreamInv, StreamTypes, Final
    <2>4. \A d \in DOMAIN delivered : delivered[d] # id
      BY <1>0, <2>2, <2>3 DEF DeliveredInv
    <2>5. \A j \in DOMAIN pending' : Final(pending'[j]) => pending'[j].id # id
      <3>1. ASSUME NEW j \in DOMAIN pending', Final(pending'[j]), pending'[j].id = id PROVE FALSE
        <4>1. j + 1 = 1
          BY <2>2, <2>3, <3>1 DEF StreamInv
        <4>. QED
          BY <2>2, <4>1
      <3>. QED
        BY <3>1
    <2>6. \A k \in DOMAIN slots' : Live(k)' => Live(k) /\ slots'[k].id = slots[k].id
                                               /\ slots'[k].id # id
      BY <2>1, <2>2, <2>3 DEF StreamInv, Live
    <2>. HIDE DEF id
    <2>7. /\ delivered' \in Seq(Images) /\ Len(delivered') = Len(delivered) + 1
          /\ \A j, k \in DOMAIN delivered' : delivered'[j] = delivered'[k] => j = k
          /\ \A d \in DOMAIN delivered' : \/ delivered'[d] = id
                                          \/ d \in DOMAIN delivered /\ delivered'[d] = delivered[d]
          /\ Range(delivered') = Range(delivered) \cup {id}
      BY <2>1, <2>3, <2>4, Extends DEF DeliveredInv
    <2>8. \A d \in DOMAIN delivered' :
             /\ delivered'[d] \in started'
             /\ \A j \in DOMAIN pending' : Final(pending'[j]) => pending'[j].id # delivered'[d]
             /\ \A k \in DOMAIN slots' : Live(k)' => slots'[k].id # delivered'[d]
      BY <1>0, <2>1, <2>2, <2>3, <2>5, <2>6, <2>7 DEF DeliveredInv
    <2>9. reply # "done"
      BY <1>0, <2>1 DEF AccountInv
    <2>. QED
      BY <1>0, <2>1, <2>7, <2>8, <2>9 DEF DeliveredInv
  <1>4. CASE FinalFails \/ TakeError \/ StreamLeft
    <2>1. /\ phase' = "over" /\ reply' # "done" /\ UNCHANGED <<delivered, started>>
          /\ pending' = <<>> /\ slots' = <<>>
      BY <1>4 DEF FinalFails, TakeError, StreamLeft, Finish, Abandon, shownVars
    <2>. QED
      BY <1>0, <2>1, OverKeepsDelivered
  <1>5. CASE StreamEnds
    <2>1. /\ phase = "stream" /\ ws = "over" /\ pending = <<>> /\ phase' = "over"
          /\ UNCHANGED <<delivered, ws, slots, pending, meta, started>>
      BY <1>5 DEF StreamEnds, Exhausted, Finish, shownVars, wsVars
    <2>2. collected >= Wanted
      <3>1. <<>> # <<Error>>
        OBVIOUS
      <3>. QED
        BY <2>1, <3>1 DEF StreamInv
    <2>3. Len(delivered) >= Wanted
      BY <1>0, <2>1, <2>2 DEF DeliveredInv
    <2>. QED
      BY <1>0, <2>1, <2>3, OverKeepsDelivered
  <1>. QED
    BY <1>1, <1>2, <1>3, <1>4, <1>5 DEF Imagine

LEMMA EditKeepsDelivered ==
    ASSUME DeliveredInv, AccountInv, Edit
    PROVE  DeliveredInv'
  <1>0. kind = "edit" /\ UNCHANGED kind
    BY DEF Edit, EditReserve, EditPrepared, EditUnprepared, EditCollected, EditAgain, EditEnds,
           EditFails, EditLeft, EditReport, EditResolves, given
  <1>00. Wanted \in Nat /\ Wanted >= 1 /\ Len(delivered) \in Nat
    BY ImagineAssumption, LenProperties DEF DeliveredInv
  <1>1. CASE EditReserve \/ EditPrepared \/ EditAgain \/ EditUnprepared \/ EditFails \/ EditLeft
    <2>1. /\ UNCHANGED <<delivered, finals>> /\ phase' # "resolve"
          /\ reply' = "done" => reply = "done"
      BY <1>1 DEF EditReserve, EditPrepared, EditAgain, EditUnprepared, EditFails, EditLeft, Finish,
                  shownVars, editVars
    <2>. QED
      BY <1>0, <2>1 DEF DeliveredInv
  <1>2. CASE EditCollected
    <2>1. PICK urls \in (SUBSET Images) \ {{}} : finals' = urls \ Range(delivered)
      BY <1>2 DEF EditCollected
    <2>2. UNCHANGED <<delivered, reply>>
      BY <1>2 DEF EditCollected, shownVars
    <2>3. finals' # {} \/ delivered # <<>>
      <3>1. CASE finals' = {}
        <4>0. PICK url \in urls : url \in Range(delivered)
          <5>1. urls # {} /\ urls \ Range(delivered) = {}
            BY <2>1, <3>1
          <5>. QED
            BY <5>1
        <4>1. PICK d \in DOMAIN delivered : delivered[d] = url
          BY <4>0 DEF Range
        <4>2. DOMAIN delivered = 1 .. Len(delivered)
          BY LenProperties DEF DeliveredInv
        <4>. QED
          BY <4>1, <4>2
      <3>. QED
        BY <3>1
    <2>. QED
      BY <1>0, <2>1, <2>2, <2>3 DEF DeliveredInv
  <1>3. CASE \E k \in Images : EditReport(k)
    <2>1. UNCHANGED <<delivered, finals, phase, reply>>
      BY <1>3 DEF EditReport, requestVars, editVars
    <2>. QED
      BY <1>0, <2>1 DEF DeliveredInv
  <1>4. ASSUME NEW url \in Images, EditResolves(url) PROVE DeliveredInv'
    <2>1. /\ phase = "resolve" /\ Len(delivered) < Wanted /\ url \in finals
          /\ delivered' = Append(delivered, url) /\ finals' = finals \ {url}
          /\ UNCHANGED <<phase, reply>>
      BY <1>4 DEF EditResolves, requestVars
    <2>2. \A d \in DOMAIN delivered : delivered[d] # url
      BY <2>1 DEF DeliveredInv, Range
    <2>3. /\ delivered' \in Seq(Images) /\ Len(delivered') = Len(delivered) + 1
          /\ \A j, k \in DOMAIN delivered' : delivered'[j] = delivered'[k] => j = k
          /\ Range(delivered') = Range(delivered) \cup {url}
      BY <2>1, <2>2, Extends DEF DeliveredInv
    <2>4. delivered' # <<>>
      BY <1>00, <2>3
    <2>5. finals' \subseteq Images \ Range(delivered')
      BY <2>1, <2>3 DEF DeliveredInv
    <2>6. reply # "done"
      BY <1>0, <2>1 DEF AccountInv
    <2>. QED
      BY <1>0, <1>00, <2>1, <2>3, <2>4, <2>5, <2>6 DEF DeliveredInv
  <1>5. CASE EditEnds
    <2>1. /\ phase = "resolve" /\ (Len(delivered) = Wanted \/ finals = {})
          /\ phase' = "over" /\ UNCHANGED <<delivered, finals>>
      BY <1>5 DEF EditEnds, Finish, shownVars, editVars
    <2>2. Len(delivered) >= 1
      <3>1. CASE Len(delivered) = Wanted
        BY <1>00, <3>1
      <3>2. CASE finals = {}
        <4>1. delivered # <<>>
          BY <1>0, <2>1, <3>2 DEF DeliveredInv
        <4>. QED
          BY <1>00, <4>1, EmptySeq DEF DeliveredInv
      <3>. QED
        BY <2>1, <3>1, <3>2
    <2>. QED
      BY <1>0, <1>00, <2>1, <2>2 DEF DeliveredInv
  <1>. QED
    BY <1>1, <1>2, <1>3, <1>4, <1>5 DEF Edit

LEMMA DeliveredInvKept ==
    ASSUME DeliveredInv, StreamInv, AccountInv, [Next]_vars
    PROVE  DeliveredInv'
  <1>1. CASE Lite \/ Session
    <2>1. kind \in {"lite", "session"} /\ UNCHANGED <<kind, delivered, finals>>
      BY <1>1 DEF Lite, LiteReserve, LiteReport, LiteImage, LiteReturns, LiteRetries, LiteFails,
                  LiteCancelled, GroupAborts, LiteEnds, LiteLeft, Session, SessionMessage,
                  RunCancelled, SessionProceeds, RunBegins, RunSends, RunEnds, given, shownVars,
                  editVars
    <2>. QED
      BY <2>1 DEF DeliveredInv
  <1>2. CASE Streaming
    <2>1. UNCHANGED <<kind, phase, reply, delivered, finals>> /\ Transport
      BY <1>2 DEF Streaming, given, requestVars, shownVars, editVars
    <2>2. Brings
      BY <2>1, TransportKeepsStream
    <2>3. ASSUME kind = "imagine"
          PROVE  \A d \in DOMAIN delivered :
                    /\ delivered[d] \in started'
                    /\ \A j \in DOMAIN pending' : Final(pending'[j]) => pending'[j].id # delivered[d]
                    /\ \A k \in DOMAIN slots' : Live(k)' => slots'[k].id # delivered[d]
      BY <2>2, <2>3 DEF DeliveredInv, Brings
    <2>4. UNCHANGED collected
      BY <2>2 DEF Brings
    <2>. QED
      BY <2>1, <2>3, <2>4 DEF DeliveredInv
  <1>3. CASE UNCHANGED vars
    BY <1>3 DEF DeliveredInv, Live, vars, wsVars
  <1>. QED
    BY <1>1, <1>2, <1>3, ImagineKeepsDelivered, EditKeepsDelivered DEF Next

LEMMA DeliveredInvHolds == Spec => []DeliveredInv
  <1>1. Init => DeliveredInv
    <2>. SUFFICES ASSUME Init PROVE DeliveredInv
      OBVIOUS
    <2>1. delivered = <<>> /\ finals = {} /\ reply = "open" /\ phase = "new"
      BY DEF Init
    <2>2. delivered \in Seq(Images) /\ DOMAIN delivered = {} /\ Len(delivered) = 0
      BY <2>1
    <2>. QED
      BY <2>1, <2>2, ImagineAssumption DEF DeliveredInv
  <1>. QED
    BY <1>1, DeliveredInvKept, AccountInvHolds, StreamInvHolds, PTL DEF Spec

LEMMA NoneTwice ==
    ASSUME NEW S, NEW s \in Seq(S), \A j, k \in DOMAIN s : s[j] = s[k] => j = k
    PROVE  Cardinality(Range(s)) = Len(s)
  <1>1. Len(s) \in Nat /\ DOMAIN s = 1 .. Len(s)
    BY LenProperties
  <1>2. s \in Bijection(1 .. Len(s), Range(s))
    <2>1. s \in [1 .. Len(s) -> Range(s)]
      BY <1>1 DEF Range
    <2>2. \A t \in Range(s) : \E j \in 1 .. Len(s) : s[j] = t
      BY <1>1 DEF Range
    <2>. QED
      BY <1>1, <2>1, <2>2 DEF Bijection, Injection, Surjection, IsInjective
  <1>3. ExistsBijection(1 .. Len(s), Range(s))
    BY <1>2 DEF ExistsBijection
  <1>. QED
    BY <1>1, <1>3, FS_CountingElements

\* No image reaches the client twice, and a response that ends well has the
\* images it owes.
THEOREM ImagesCorrect == Spec => []ImagesDelivered
  <1>1. DeliveredInv => ImagesDelivered
    <2>. SUFFICES ASSUME DeliveredInv PROVE ImagesDelivered
      OBVIOUS
    <2>1. Cardinality(Range(delivered)) = Len(delivered)
      BY NoneTwice DEF DeliveredInv
    <2>. QED
      BY <2>1 DEF DeliveredInv, ImagesDelivered
  <1>. QED
    BY <1>1, DeliveredInvHolds, PTL

-----------------------------------------------------------------------------
(* The percentages.                                                        *)

\* Sets of natural numbers have a least element.
LEMMA SmallestNat ==
    ASSUME NEW T \in SUBSET Nat, T # {}
    PROVE  \E x \in T : \A y \in T : x <= y
  <1>1. PICK x \in T : \A y \in T : <<y, x>> \notin OpToRel(<, Nat)
    BY WFMin, NatLessThanWellFounded
  <1>2. ASSUME NEW y \in T PROVE x <= y
    <2>1. ~(y < x)
      BY <1>1, <1>2 DEF OpToRel
    <2>. QED
      BY <2>1
  <1>. QED
    BY <1>2

LEMMA KeysFinite == IsFiniteSet(Keys)
  BY ImageAssumption, FS_Union DEF Keys

LEMMA PartFinite ==
    ASSUME NEW S \in SUBSET Keys
    PROVE  IsFiniteSet(S) /\ Cardinality(S) \in Nat
  BY KeysFinite, FS_Subset, FS_CardinalityType

LEMMA Hundred == IsFiniteSet(1 .. 100) /\ Cardinality(1 .. 100) = 100
  <1>1. \A n \in Nat : n >= 1 => IsFiniteSet(1 .. n) /\ Cardinality(1 .. n) = n
    BY FS_Interval
  <1>2. 100 \in Nat /\ 100 >= 1
    OBVIOUS
  <1>. QED
    BY <1>1, <1>2, Zenon

\* The points of some images are at most a hundred each.
LEMMA PointsBounded ==
    ASSUME NEW done, NEW S \in SUBSET Keys
    PROVE  /\ IsFiniteSet(Points(done, S)) /\ Cardinality(Points(done, S)) \in Nat
           /\ Cardinality(Points(done, S)) <= 100 * Cardinality(S)
  <1>1. IsFiniteSet(S) /\ Cardinality(S) \in Nat
    BY PartFinite
  <1>2. IsFiniteSet(1 .. 100) /\ Cardinality(1 .. 100) = 100
    BY Hundred
  <1>3. IsFiniteSet(S \X (1 .. 100)) /\ Cardinality(S \X (1 .. 100)) = Cardinality(S) * 100
    <2>1. /\ IsFiniteSet(S \X (1 .. 100))
          /\ Cardinality(S \X (1 .. 100)) = Cardinality(S) * Cardinality(1 .. 100)
      BY <1>1, <1>2, FS_Product
    <2>. QED
      BY <1>2, <2>1
  <1>4. Points(done, S) \subseteq S \X (1 .. 100)
    BY DEF Points
  <1>5. IsFiniteSet(Points(done, S)) /\ Cardinality(Points(done, S)) <= Cardinality(S \X (1 .. 100))
    BY <1>3, <1>4, FS_Subset
  <1>6. Cardinality(Points(done, S)) \in Nat
    BY <1>5, FS_CardinalityType
  <1>. QED
    BY <1>1, <1>3, <1>5, <1>6

\* As many as that only when each of them is at a hundred.
LEMMA AllComplete ==
    ASSUME NEW done, NEW S \in SUBSET Keys, \A k \in S : done[k] \in 0 .. 100,
           Cardinality(Points(done, S)) = 100 * Cardinality(S)
    PROVE  \A k \in S : done[k] = 100
  <1>1. IsFiniteSet(S) /\ Cardinality(S) \in Nat
    BY PartFinite
  <1>2. IsFiniteSet(1 .. 100) /\ Cardinality(1 .. 100) = 100
    BY Hundred
  <1>3. IsFiniteSet(S \X (1 .. 100)) /\ Cardinality(S \X (1 .. 100)) = Cardinality(S) * 100
    <2>1. /\ IsFiniteSet(S \X (1 .. 100))
          /\ Cardinality(S \X (1 .. 100)) = Cardinality(S) * Cardinality(1 .. 100)
      BY <1>1, <1>2, FS_Product
    <2>. QED
      BY <1>2, <2>1
  <1>4. Points(done, S) \subseteq S \X (1 .. 100)
    BY DEF Points
  <1>5. Cardinality(Points(done, S)) = Cardinality(S \X (1 .. 100)) => Points(done, S) = S \X (1 .. 100)
    BY <1>3, <1>4, FS_Subset
  <1>6. Points(done, S) = S \X (1 .. 100)
    BY <1>1, <1>3, <1>5
  <1>7. ASSUME NEW k \in S PROVE done[k] = 100
    <2>1. <<k, 100>> \in Points(done, S)
      BY <1>6
    <2>2. 100 <= done[k]
      BY <2>1 DEF Points
    <2>. QED
      BY <2>2
  <1>. QED
    BY <1>7

\* The greatest of some bounded numbers is one of them.
LEMMA Greatest ==
    ASSUME NEW S \in SUBSET Int, NEW b \in Nat, S # {}, \A x \in S : 0 <= x /\ x <= b
    PROVE  Max(S) \in S /\ \A x \in S : x <= Max(S)
  <1> DEFINE D == {b - x : x \in S}
  <1>1. D \in SUBSET Nat /\ D # {}
    <2>1. \A x \in S : b - x \in Nat
      OBVIOUS
    <2>. QED
      BY <2>1
  <1>2. PICK d \in D : \A e \in D : d <= e
    BY <1>1, SmallestNat
  <1>3. PICK m \in S : d = b - m
    BY <1>2
  <1>4. ASSUME NEW x \in S PROVE x <= m
    <2>1. b - x \in D
      OBVIOUS
    <2>2. d <= b - x
      BY <1>2, <2>1
    <2>. QED
      BY <1>3, <2>2
  <1>5. \E x \in S : \A y \in S : x >= y
    BY <1>3, <1>4
  <1>. QED
    BY <1>5 DEF Max

\* Some Wanted of at least as many.
LEMMA SomeWanted ==
    ASSUME NEW S \in SUBSET Keys, Cardinality(S) >= Wanted
    PROVE  kSubset(Wanted, S) # {} /\ \A T \in kSubset(Wanted, S) : T \subseteq S /\ Cardinality(T) = Wanted
  <1> DEFINE n == Cardinality(S)
  <1>1. IsFiniteSet(S) /\ n \in Nat /\ Wanted \in Nat /\ Wanted <= n
    BY PartFinite, ImagineAssumption
  <1>2. ExistsBijection(1 .. n, S)
    BY <1>1, FS_CardinalityType
  <1>3. PICK f : f \in Bijection(1 .. n, S)
    BY <1>2 DEF ExistsBijection
  <1> DEFINE T == {f[i] : i \in 1 .. Wanted}
  <1>4. T \subseteq S
    BY <1>1, <1>3 DEF Bijection, Injection
  <1> DEFINE g == [i \in 1 .. Wanted |-> f[i]]
  <1>5. g \in Bijection(1 .. Wanted, T)
    <2>1. g \in [1 .. Wanted -> T]
      OBVIOUS
    <2>2. IsInjective(g)
      BY <1>1, <1>3 DEF Bijection, Injection, IsInjective
    <2>3. \A t \in T : \E i \in 1 .. Wanted : g[i] = t
      OBVIOUS
    <2>. HIDE DEF g, T
    <2>. QED
      BY <2>1, <2>2, <2>3 DEF Bijection, Injection, Surjection
  <1>. HIDE DEF g, T
  <1>6. ExistsBijection(1 .. Wanted, T)
    BY <1>5 DEF ExistsBijection
  <1>7. Cardinality(T) = Wanted
    BY <1>1, <1>6, FS_CountingElements
  <1>8. T \in kSubset(Wanted, S)
    BY <1>4, <1>7 DEF kSubset
  <1>. QED
    BY <1>8 DEF kSubset

LEMMA Hundredths ==
    ASSUME NEW p \in Nat, p <= 100 * Wanted
    PROVE  /\ p \div Wanted \in 0 .. 100
           /\ p \div Wanted = 100 => p = 100 * Wanted
  <1>1. Wanted \in Nat /\ Wanted >= 1
    BY ImagineAssumption
  <1>2. PICK q \in Int, r \in Int : /\ q = p \div Wanted /\ p = Wanted * q + r
                                   /\ 0 <= r /\ r < Wanted
    <2>1. p \div Wanted \in Int /\ p % Wanted \in Int
      BY <1>1
    <2>2. p = Wanted * (p \div Wanted) + (p % Wanted) /\ 0 <= p % Wanted /\ p % Wanted < Wanted
      BY <1>1
    <2>. QED
      BY <2>1, <2>2
  <1>3. q >= 0
    <2>1. SUFFICES ASSUME q <= -1 PROVE FALSE
      OBVIOUS
    <2>2. Wanted * q <= Wanted * (-1)
      BY <1>1, <2>1
    <2>. QED
      BY <1>1, <1>2, <2>2
  <1>4. q <= 100
    <2>1. SUFFICES ASSUME q >= 101 PROVE FALSE
      OBVIOUS
    <2>2. Wanted * q >= Wanted * 101
      BY <1>1, <2>1
    <2>. QED
      BY <1>1, <1>2, <2>2
  <1>5. ASSUME q = 100 PROVE p = 100 * Wanted
    BY <1>1, <1>2, <1>5
  <1>. QED
    BY <1>2, <1>3, <1>4, <1>5

\* The average is a percentage, and a hundred only when Wanted images are
\* complete.
LEMMA PercentIsHonest ==
    ASSUME NEW done, DOMAIN done \subseteq Keys, \A k \in DOMAIN done : done[k] \in 0 .. 100
    PROVE  /\ Percent(done) \in 0 .. 100
           /\ Percent(done) = 100 =>
                 \E S \in SUBSET DOMAIN done : /\ Cardinality(S) = Wanted
                                              /\ \A k \in S : done[k] = 100
  <1> DEFINE D == DOMAIN done
             highest == IF Cardinality(D) < Wanted THEN {D} ELSE kSubset(Wanted, D)
             sums == {Cardinality(Points(done, S)) : S \in highest}
  <1>0. Wanted \in Nat /\ Wanted >= 1 /\ D \subseteq Keys
    BY ImagineAssumption
  <1>1. highest # {} /\ \A S \in highest : /\ S \subseteq D /\ Cardinality(S) \in Nat
                                           /\ Cardinality(S) <= Wanted
    <2>1. Cardinality(D) \in Nat
      BY <1>0, PartFinite
    <2>2. CASE Cardinality(D) < Wanted
      BY <1>0, <2>1, <2>2
    <2>3. CASE Cardinality(D) >= Wanted
      <3>1. highest = kSubset(Wanted, D)
        BY <1>0, <2>1, <2>3
      <3>2. kSubset(Wanted, D) # {} /\ \A T \in kSubset(Wanted, D) : T \subseteq D /\ Cardinality(T) = Wanted
        BY <1>0, <2>3, SomeWanted
      <3>. QED
        BY <1>0, <3>1, <3>2
    <2>. QED
      BY <1>0, <2>1, <2>2, <2>3
  <1>. HIDE DEF highest, D
  <1>2. \A S \in highest : /\ Cardinality(Points(done, S)) \in Nat
                          /\ Cardinality(Points(done, S)) <= 100 * Cardinality(S)
                          /\ Cardinality(Points(done, S)) <= 100 * Wanted
    <2> SUFFICES ASSUME NEW S \in highest
                 PROVE  /\ Cardinality(Points(done, S)) \in Nat
                        /\ Cardinality(Points(done, S)) <= 100 * Cardinality(S)
                        /\ Cardinality(Points(done, S)) <= 100 * Wanted
      OBVIOUS
    <2>1. S \subseteq Keys /\ Cardinality(S) \in Nat /\ Cardinality(S) <= Wanted
      BY <1>0, <1>1
    <2>2. /\ Cardinality(Points(done, S)) \in Nat
          /\ Cardinality(Points(done, S)) <= 100 * Cardinality(S)
      BY <2>1, PointsBounded
    <2>. QED
      BY <1>0, <2>1, <2>2
  <1>3. PICK b \in Nat : b = 100 * Wanted
    BY <1>0
  <1>4. sums \in SUBSET Int /\ sums # {} /\ \A x \in sums : 0 <= x /\ x <= b
    BY <1>1, <1>2, <1>3
  <1>. HIDE DEF sums
  <1>5. Max(sums) \in sums
    BY <1>4, Greatest
  <1>6. PICK T \in highest : Max(sums) = Cardinality(Points(done, T))
    BY <1>5 DEF sums
  <1>7. Percent(done) = Max(sums) \div Wanted
    BY DEF Percent, sums, highest, D
  <1>8. Max(sums) \in Nat /\ Max(sums) <= 100 * Wanted
    BY <1>2, <1>6
  <1>9. Percent(done) \in 0 .. 100 /\ (Percent(done) = 100 => Max(sums) = 100 * Wanted)
    BY <1>7, <1>8, Hundredths
  <1>10. ASSUME Max(sums) = 100 * Wanted
         PROVE  Cardinality(T) = Wanted /\ \A k \in T : done[k] = 100
    <2>1. /\ T \subseteq D /\ T \subseteq Keys /\ Cardinality(T) \in Nat
          /\ Cardinality(T) <= Wanted
      BY <1>0, <1>1
    <2>2. 100 * Wanted <= 100 * Cardinality(T)
      BY <1>2, <1>6, <1>10
    <2>3. Cardinality(T) = Wanted
      BY <1>0, <2>1, <2>2
    <2>4. \A k \in T : done[k] \in 0 .. 100
      BY <2>1 DEF D
    <2>5. Cardinality(Points(done, T)) = 100 * Cardinality(T)
      BY <1>6, <1>10, <2>3
    <2>6. \A k \in T : done[k] = 100
      BY <2>1, <2>4, <2>5, AllComplete
    <2>. QED
      BY <2>3, <2>6
  <1>11. T \in SUBSET DOMAIN done
    BY <1>1 DEF D
  <1>. QED
    BY <1>9, <1>10, <1>11

\* A report keeps the invariant.
LEMMA ReportIsHonest ==
    ASSUME PercentInv, NEW key \in Keys, NEW value \in 0 .. 100, Progressed(key, value)
    PROVE  PercentInv'
  <1> DEFINE done == [k \in DOMAIN progress \cup {key} |-> IF k = key THEN value ELSE progress[k]]
  <1>1. /\ progress' = done
        /\ whole' = IF value = 100 THEN whole \cup {key} ELSE whole
        /\ shown' = Max({shown, Percent(done)})
    BY DEF Progressed
  <1>2. /\ DOMAIN done = DOMAIN progress \cup {key}
        /\ \A k \in DOMAIN done : done[k] = IF k = key THEN value ELSE progress[k]
    OBVIOUS
  <1>. HIDE DEF done
  <1>3. /\ DOMAIN done \subseteq Keys
        /\ \A k \in DOMAIN done : done[k] \in 0 .. 100 /\ (done[k] = 100 => k \in whole')
    BY <1>1, <1>2 DEF PercentInv
  <1>4. whole \subseteq whole' /\ whole' \subseteq Keys
    BY <1>1 DEF PercentInv
  <1>5. Percent(done) \in 0 .. 100
        /\ (Percent(done) = 100 => \E S \in SUBSET DOMAIN done : /\ Cardinality(S) = Wanted
                                                                /\ \A k \in S : done[k] = 100)
    BY <1>3, PercentIsHonest
  <1>6. shown' \in {shown, Percent(done)}
    <2>1. shown \in Int /\ Percent(done) \in Int
      BY <1>5 DEF PercentInv
    <2>2. \E x \in {shown, Percent(done)} : \A y \in {shown, Percent(done)} : x >= y
      BY <2>1
    <2>. QED
      BY <1>1, <2>2 DEF Max
  <1>7. ASSUME shown' = 100 PROVE Cardinality(whole') >= Wanted
    <2>1. Wanted \in Nat /\ IsFiniteSet(whole') /\ Cardinality(whole') \in Nat
      BY <1>4, PartFinite, ImagineAssumption
    <2>2. PICK S : S \subseteq whole' /\ Cardinality(S) >= Wanted
      <3>1. CASE shown = 100
        BY <1>4, <3>1 DEF PercentInv
      <3>2. CASE Percent(done) = 100
        <4>1. PICK S \in SUBSET DOMAIN done : Cardinality(S) = Wanted /\ \A k \in S : done[k] = 100
          BY <1>5, <3>2
        <4>2. S \subseteq whole'
          BY <1>3, <4>1
        <4>. QED
          BY <2>1, <4>1, <4>2
      <3>. QED
        BY <1>6, <1>7, <3>1, <3>2
    <2>3. Cardinality(S) <= Cardinality(whole') /\ Cardinality(S) \in Nat
      BY <2>1, <2>2, FS_Subset, FS_CardinalityType
    <2>. QED
      BY <2>1, <2>2, <2>3
  <1>8. shown' \in Int /\ shown' <= 100
    BY <1>5, <1>6 DEF PercentInv
  <1>. QED
    BY <1>1, <1>3, <1>4, <1>7, <1>8 DEF PercentInv

LEMMA PercentInvKept ==
    ASSUME PercentInv, StreamInv, [Next]_vars
    PROVE  PercentInv'
  <1>1. CASE UNCHANGED <<progress, whole, shown>>
    BY <1>1 DEF PercentInv
  <1>2. ASSUME NEW key \in Keys, NEW value \in 0 .. 100, Progressed(key, value) PROVE PercentInv'
    BY <1>2, ReportIsHonest
  <1>3. CASE TakeProgress \/ TakeFinal \/ FinalFails
    <2>1. pending # <<>> /\ Head(pending).type \in {"progress", "final"}
      BY <1>3 DEF TakeProgress, TakeFinal, FinalFails, Awaiting
    <2>2. Head(pending) \in EventType
      BY <2>1 DEF StreamInv, StreamTypes
    <2>3. Head(pending).id \in Keys /\ Head(pending).progress \in 0 .. 100
      <3>1. Error.type = "error"
        BY DEF Error
      <3>2. Head(pending) # Error
        BY <2>1, <3>1
      <3>. QED
        BY <2>2, <3>2 DEF EventType, Keys
    <2>4. \/ Progressed(Head(pending).id, Head(pending).progress)
          \/ Progressed(Head(pending).id, 100)
      BY <1>3 DEF TakeProgress, TakeFinal, FinalFails
    <2>. QED
      BY <1>2, <2>3, <2>4
  <1>4. ASSUME NEW i \in Tasks, LiteReport(i) \/ LiteImage(i) PROVE PercentInv'
    <2>1. i \in Keys
      BY DEF Keys
    <2>2. \E value \in Readings \cup {100} : Progressed(i, value)
      BY <1>4 DEF LiteReport, LiteImage
    <2>. QED
      BY <1>2, <2>1, <2>2, ImagineAssumption
  <1>5. ASSUME NEW k \in Images, EditReport(k) PROVE PercentInv'
    <2>1. k \in Keys
      BY DEF Keys
    <2>2. \E value \in Readings \cup {100} : Progressed(k, value)
      BY <1>5 DEF EditReport
    <2>. QED
      BY <1>2, <2>1, <2>2, ImagineAssumption
  <1>6. CASE ReserveForStream \/ TakeModerated \/ TakeError \/ StreamEnds \/ StreamLeft
    BY <1>1, <1>6 DEF ReserveForStream, TakeModerated, TakeError, StreamEnds, StreamLeft, shownVars
  <1>7. ASSUME NEW i \in Tasks, LiteReserve(i) \/ LiteReturns(i) \/ LiteRetries(i) \/ LiteFails(i)
                                  \/ LiteCancelled(i)
        PROVE  PercentInv'
    BY <1>1, <1>7 DEF LiteReserve, LiteReturns, LiteRetries, LiteFails, LiteCancelled, shownVars
  <1>8. CASE GroupAborts \/ LiteEnds \/ LiteLeft
    BY <1>1, <1>8 DEF GroupAborts, LiteEnds, LiteLeft, shownVars
  <1>9. CASE \/ EditReserve \/ EditPrepared \/ EditUnprepared \/ EditCollected
             \/ EditAgain \/ EditEnds \/ EditFails \/ EditLeft
             \/ \E k \in Images : EditResolves(k)
    BY <1>1, <1>9 DEF EditReserve, EditPrepared, EditUnprepared, EditCollected, EditAgain, EditEnds,
                      EditFails, EditLeft, EditResolves, shownVars
  <1>10. CASE Session \/ Streaming \/ UNCHANGED vars
    BY <1>1, <1>10 DEF Session, SessionMessage, RunCancelled, SessionProceeds, RunBegins, RunSends,
                       RunEnds, Streaming, shownVars, vars
  <1>. QED
    BY <1>3, <1>4, <1>5, <1>6, <1>7, <1>8, <1>9, <1>10 DEF Next, Imagine, Lite, Edit

\* A hundred percent is shown only when as many images as were wanted have
\* been reported complete.
THEOREM PercentCorrect == Spec => []HonestPercent
  <1>1. Init => PercentInv
    <2>. SUFFICES ASSUME Init PROVE PercentInv
      OBVIOUS
    <2>1. progress = <<>> /\ whole = {} /\ shown = -1
      BY DEF Init
    <2>2. DOMAIN progress = {}
      BY <2>1
    <2>. QED
      BY <2>1, <2>2 DEF PercentInv
  <1>2. PercentInv => HonestPercent
    BY DEF PercentInv, HonestPercent
  <1>. QED
    BY <1>1, <1>2, PercentInvKept, StreamInvHolds, PTL DEF Spec
=============================================================================
