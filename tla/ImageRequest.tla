---------------------------- MODULE ImageRequest ----------------------------
(***************************************************************************)
(* Requests for images (app/products/openai/images.py and the web UI's     *)
(* socket, app/products/web/webui/imagine.py).  The request modelled is of *)
(* one of four kinds:                                                      *)
(*   "imagine"  generate over the Imagine WebSocket, one account;          *)
(*   "lite"     a batch of tasks, one image, account and retries each;     *)
(*   "edit"     one account, uploads, a post, up to two attempts;          *)
(*   "session"  a web UI socket whose client starts and stops runs over    *)
(*              the Imagine WebSocket.                                     *)
(* Percentages of "lite" and "edit" are computed when they are reported;   *)
(* the queue that delays showing them is left out.                         *)
(***************************************************************************)
EXTENDS ImagineStream, Functions, FiniteSetsExt

CONSTANTS Accounts, MaxInflight,
          Tasks,       \* the batch's tasks, Wanted of them
          MaxRetries,  \* retry.max_retries
          MaxMessages, \* bound: messages of the web UI's client
          NoAccount

ASSUME ImageAssumption ==
    /\ IsFiniteSet(Tasks) /\ Cardinality(Tasks) = Wanted /\ IsFiniteSet(Images)
    /\ MaxInflight \in Nat /\ MaxRetries \in Nat /\ MaxMessages \in Nat
    /\ NoAccount \notin Accounts

EditMaxAttempts == 2

VARIABLES
    kind,
    others,    \* accounts that other requests hold to their limit
    load,      \* in-flight count of each account, without theirs
    told,      \* credential failures fed back, by account
    account,   \* the account of the request, of its run
    phase,     \* where the request, or the run, is
    reply,     \* "open" | "done" | "error" | "left"
    progress,  \* last percentage of each image, task or index
    whole,     \* those that have once been reported complete
    shown,     \* the highest percentage shown, -1 for none
    delivered, \* images delivered, in order
    \* lite
    task,      \* [Tasks -> stage, account, tries, excluded]
    aborting,  \* a task failed: the group cancels the others
    \* edit
    attempt,   \* attempts begun
    finals,    \* URLs of this attempt that are not resolved yet
    \* session
    handler,   \* "receiving" | "stopping" | "closed"
    then,      \* "start" | "stop" | "leave": why it stops the run
    messages

requestVars == <<account, phase, reply>>
shownVars   == <<progress, whole, shown, delivered>>
liteVars    == <<task, aborting>>
editVars    == <<attempt, finals>>
sessionVars == <<handler, then, messages>>
given == <<kind, others>>
vars == <<wsVars, kind, others, load, told, account, phase, reply, progress, whole, shown,
          delivered, task, aborting, attempt, finals, handler, then, messages>>

Keys == Images \cup Tasks

NewTask == [stage |-> "reserve", account |-> NoAccount, tries |-> 0, excluded |-> {}]

Init ==
    /\ StreamIdle
    /\ kind \in {"imagine", "lite", "edit", "session"}
    /\ others \in {{}, Accounts}
    /\ load = [a \in Accounts |-> 0] /\ told = {}
    /\ account = NoAccount /\ phase = "new" /\ reply = "open"
    /\ progress = <<>> /\ whole = {} /\ shown = -1 /\ delivered = <<>>
    /\ task = [i \in Tasks |-> NewTask] /\ aborting = FALSE
    /\ attempt = 0 /\ finals = {}
    /\ handler = "receiving" /\ then = "stop" /\ messages = 0

-----------------------------------------------------------------------------
\* Accounts.
Free(a) == a \notin others /\ load[a] < MaxInflight

Reserve(a) == load' = [load EXCEPT ![a] = @ + 1]
Release(a) == load' = [load EXCEPT ![a] = @ - 1]

\* The percentage points of some images: as many as their values add up to.
Points(done, S) == {p \in S \X (1 .. 100) : p[2] <= done[p[1]]}

\* Mutant: the average is over the images that have begun.
PercentOfBegun(done) ==
    IF DOMAIN done = {} THEN 0
    ELSE Cardinality(Points(done, DOMAIN done)) \div Cardinality(DOMAIN done)

\* _compute_progress_percent: the sum of the highest Wanted values.
Percent(done) ==
    LET highest == IF Cardinality(DOMAIN done) < Wanted THEN {DOMAIN done}
                   ELSE kSubset(Wanted, DOMAIN done)
    IN  Max({Cardinality(Points(done, S)) : S \in highest}) \div Wanted

\* A percentage is shown when it exceeds the last one.
Progressed(key, value) ==
    LET done == [k \in DOMAIN progress \cup {key} |->
                   IF k = key THEN value ELSE progress[k]]
    IN  /\ progress' = done
        /\ whole' = IF value = 100 THEN whole \cup {key} ELSE whole
        /\ shown' = Max({shown, Percent(done)})

-----------------------------------------------------------------------------
\* generate: the events of the stream, one by one.
ReserveForStream ==
    /\ kind = "imagine" /\ phase = "new"
    /\ \/ \E a \in Accounts :
             /\ Free(a) /\ Reserve(a)
             /\ account' = a /\ phase' = "stream"
             /\ Open
             /\ UNCHANGED reply
       \/ /\ ~\E a \in Accounts : Free(a)
          /\ phase' = "over" /\ reply' = "error"
          /\ UNCHANGED <<load, account, wsVars>>
    /\ UNCHANGED <<given, told, shownVars, liteVars, editVars, sessionVars>>

\* The finally of generate: release, and feedback for the credentials only.
Finish(how, credentials) ==
    /\ reply' = how /\ phase' = "over"
    /\ Release(account)
    /\ told' = IF credentials THEN told \cup {account} ELSE told
    /\ account' = NoAccount

Awaiting == kind = "imagine" /\ phase = "stream" /\ pending # <<>>

TakeProgress ==
    /\ Awaiting
    /\ Head(pending).type = "progress"
    /\ Progressed(Head(pending).id, Head(pending).progress)
    /\ Take
    /\ UNCHANGED <<given, load, told, requestVars, delivered, liteVars, editVars,
                   sessionVars>>

TakeModerated ==
    /\ Awaiting
    /\ Head(pending).type = "moderated"
    /\ Take
    /\ UNCHANGED <<given, load, told, requestVars, shownVars, liteVars, editVars,
                   sessionVars>>

TakeFinal ==
    /\ Awaiting
    /\ Head(pending).type = "final"
    /\ Progressed(Head(pending).id, 100)
    /\ delivered' = Append(delivered, Head(pending).id)
    /\ Take
    /\ UNCHANGED <<given, load, told, requestVars, liteVars, editVars, sessionVars>>

\* The image cannot be resolved: its download is refused, for the
\* credentials or otherwise, or its blob cannot be decoded.
FinalFails ==
    /\ Awaiting
    /\ Head(pending).type = "final"
    /\ Progressed(Head(pending).id, 100)
    /\ \E credentials \in {FALSE, ~Head(pending).blob} : Finish("error", credentials)
    /\ Abandon
    /\ UNCHANGED <<given, delivered, liteVars, editVars, sessionVars>>

\* An error event, whose cause is lost, is raised with status 502.
TakeError ==
    /\ Awaiting
    /\ Head(pending).type = "error"
    /\ Finish("error", FALSE)
    /\ Abandon
    /\ UNCHANGED <<given, shownVars, liteVars, editVars, sessionVars>>

StreamEnds ==
    /\ kind = "imagine" /\ phase = "stream" /\ Exhausted
    /\ Finish("done", FALSE)
    /\ UNCHANGED <<wsVars, given, shownVars, liteVars, editVars, sessionVars>>

\* The client leaves.  (A generator that was never started holds its account
\* for ever: DropStream of AccountDirectory.)
StreamLeft ==
    /\ kind = "imagine" /\ phase = "stream"
    /\ Finish("left", FALSE)
    /\ Abandon
    /\ UNCHANGED <<given, shownVars, liteVars, editVars, sessionVars>>

Imagine ==
    \/ ReserveForStream \/ TakeProgress \/ TakeModerated \/ TakeFinal
    \/ FinalFails \/ TakeError \/ StreamEnds \/ StreamLeft

-----------------------------------------------------------------------------
(***************************************************************************)
(* _run_lite_batch: a task group, in which the failure of a task cancels   *)
(* the others, one callback later.                                         *)
(***************************************************************************)
TaskGoes(i, stage) == task' = [task EXCEPT ![i].stage = stage]

LiteReserve(i) ==
    /\ kind = "lite" /\ task[i].stage = "reserve"
    /\ LET open == {a \in Accounts \ task[i].excluded : Free(a)}
       IN  \/ \E a \in open :
                 /\ Reserve(a)
                 /\ task' = [task EXCEPT ![i].stage = "stream", ![i].account = a]
           \/ /\ open = {}
              /\ TaskGoes(i, "failed")
              /\ UNCHANGED load
    /\ UNCHANGED <<wsVars, given, told, requestVars, shownVars, aborting, editVars,
                   sessionVars>>

LiteReport(i) ==
    /\ kind = "lite" /\ task[i].stage = "stream"
    /\ \E reading \in Readings : Progressed(i, reading)
    /\ UNCHANGED <<wsVars, given, load, told, requestVars, delivered, liteVars,
                   editVars, sessionVars>>

LiteImage(i) ==
    /\ kind = "lite" /\ task[i].stage = "stream"
    /\ Progressed(i, 100)
    /\ TaskGoes(i, "resolve")
    /\ UNCHANGED <<wsVars, given, load, told, requestVars, delivered, aborting,
                   editVars, sessionVars>>

\* The finally of an attempt: release and feedback, whatever its outcome.
Settle(i, stage, credentials) ==
    /\ Release(task[i].account)
    /\ told' = IF credentials THEN told \cup {task[i].account} ELSE told
    /\ task' = [task EXCEPT ![i].stage = stage, ![i].account = NoAccount]

LiteReturns(i) ==
    /\ kind = "lite" /\ task[i].stage = "resolve"
    /\ Settle(i, "returned", FALSE)
    /\ UNCHANGED <<wsVars, given, requestVars, shownVars, aborting, editVars,
                   sessionVars>>

\* An UpstreamError that can be retried goes on with another account.
LiteRetries(i) ==
    /\ kind = "lite" /\ task[i].stage \in {"stream", "resolve"}
    /\ task[i].tries < MaxRetries
    /\ Release(task[i].account)
    /\ \E credentials \in BOOLEAN :
          told' = IF credentials THEN told \cup {task[i].account} ELSE told
    /\ task' = [task EXCEPT ![i] =
                  [stage |-> "reserve", account |-> NoAccount, tries |-> @.tries + 1,
                   excluded |-> @.excluded \cup {@.account}]]
    /\ UNCHANGED <<wsVars, given, requestVars, shownVars, aborting, editVars,
                   sessionVars>>

LiteFails(i) ==
    /\ kind = "lite" /\ task[i].stage \in {"stream", "resolve"}
    /\ \E credentials \in BOOLEAN : Settle(i, "failed", credentials)
    /\ UNCHANGED <<wsVars, given, requestVars, shownVars, aborting, editVars,
                   sessionVars>>

Unended == {"reserve", "stream", "resolve"}

GroupAborts ==
    /\ kind = "lite" /\ ~aborting
    /\ \E i \in Tasks : task[i].stage = "failed"
    /\ aborting' = TRUE
    /\ task' = [i \in Tasks |-> IF task[i].stage \in Unended
                                THEN [task[i] EXCEPT !.stage = "cancelling"]
                                ELSE task[i]]
    /\ UNCHANGED <<wsVars, given, load, told, requestVars, shownVars, editVars,
                   sessionVars>>

\* Mutant: an attempt that is cancelled does not reach its release.
LiteCancelledHolding(i) ==
    /\ kind = "lite" /\ task[i].stage = "cancelling"
    /\ TaskGoes(i, "cancelled")
    /\ UNCHANGED <<wsVars, given, load, told, requestVars, shownVars, aborting,
                   editVars, sessionVars>>

LiteCancelled(i) ==
    /\ kind = "lite" /\ task[i].stage = "cancelling"
    /\ IF task[i].account = NoAccount
       THEN TaskGoes(i, "cancelled") /\ UNCHANGED <<load, told>>
       ELSE Settle(i, "cancelled", FALSE)
    /\ UNCHANGED <<wsVars, given, requestVars, shownVars, aborting, editVars,
                   sessionVars>>

\* The group has waited for all its tasks.
LiteEnds ==
    /\ kind = "lite" /\ reply = "open"
    /\ \A i \in Tasks : task[i].stage \in {"returned", "failed", "cancelled"}
    /\ IF \A i \in Tasks : task[i].stage = "returned"
       THEN reply' = "done" ELSE reply' = "error"
    /\ UNCHANGED <<wsVars, given, load, told, account, phase, shownVars, liteVars,
                   editVars, sessionVars>>

\* The client leaves a streamed batch; the batch goes on.
LiteLeft ==
    /\ kind = "lite" /\ reply = "open"
    /\ reply' = "left"
    /\ UNCHANGED <<wsVars, given, load, told, account, phase, shownVars, liteVars,
                   editVars, sessionVars>>

Lite ==
    \/ \E i \in Tasks :
          \/ LiteReserve(i) \/ LiteReport(i) \/ LiteImage(i) \/ LiteReturns(i)
          \/ LiteRetries(i) \/ LiteFails(i) \/ LiteCancelled(i)
    \/ GroupAborts \/ LiteEnds \/ LiteLeft
-----------------------------------------------------------------------------
\* edit.
EditReserve ==
    /\ kind = "edit" /\ phase = "new"
    /\ \/ \E a \in Accounts :
             /\ Free(a) /\ Reserve(a)
             /\ account' = a /\ phase' = "prepare"
             /\ UNCHANGED reply
       \/ /\ ~\E a \in Accounts : Free(a)
          /\ phase' = "over" /\ reply' = "error"
          /\ UNCHANGED <<load, account>>
    /\ UNCHANGED <<wsVars, given, told, shownVars, liteVars, editVars, sessionVars>>

\* The references are uploaded and the post is created.
EditPrepared ==
    /\ kind = "edit" /\ phase = "prepare"
    /\ phase' = "collect" /\ attempt' = 1
    /\ UNCHANGED <<wsVars, given, load, told, account, reply, shownVars, liteVars,
                   finals, sessionVars>>

\* Or not: the account is released, without feedback.
EditUnprepared ==
    /\ kind = "edit" /\ phase = "prepare"
    /\ Finish("error", FALSE)
    /\ UNCHANGED <<wsVars, given, shownVars, liteVars, editVars, sessionVars>>

\* The upstream's image index is the key, its progress is taken as it is.
EditReport(index) ==
    /\ kind = "edit" /\ phase = "collect"
    /\ \E reading \in Readings \cup {100} : Progressed(index, reading)
    /\ UNCHANGED <<wsVars, given, load, told, requestVars, delivered, liteVars,
                   editVars, sessionVars>>

\* The attempt's stream ends with the URLs of its images.
EditCollected ==
    /\ kind = "edit" /\ phase = "collect"
    /\ \E urls \in (SUBSET Images) \ {{}} : finals' = urls \ Range(delivered)
    /\ phase' = "resolve"
    /\ UNCHANGED <<wsVars, given, load, told, account, reply, shownVars, liteVars,
                   attempt, sessionVars>>

EditResolves(url) ==
    /\ kind = "edit" /\ phase = "resolve"
    /\ Len(delivered) < Wanted /\ url \in finals
    /\ delivered' = Append(delivered, url)
    /\ finals' = finals \ {url}
    /\ UNCHANGED <<wsVars, given, load, told, requestVars, progress, whole, shown,
                   liteVars, attempt, sessionVars>>

\* Mutant: the attempts are not counted.
EditRepeats ==
    /\ kind = "edit" /\ phase = "resolve"
    /\ finals = {} /\ Len(delivered) < Wanted
    /\ phase' = "collect"
    /\ UNCHANGED <<wsVars, given, load, told, account, reply, shownVars, liteVars,
                   editVars, sessionVars>>

EditAgain ==
    /\ kind = "edit" /\ phase = "resolve"
    /\ finals = {} /\ Len(delivered) < Wanted /\ attempt < EditMaxAttempts
    /\ phase' = "collect" /\ attempt' = attempt + 1
    /\ UNCHANGED <<wsVars, given, load, told, account, reply, shownVars, liteVars,
                   finals, sessionVars>>

EditEnds ==
    /\ kind = "edit" /\ phase = "resolve"
    /\ Len(delivered) = Wanted \/ (finals = {} /\ attempt = EditMaxAttempts)
    /\ Finish("done", FALSE)
    /\ UNCHANGED <<wsVars, given, shownVars, liteVars, editVars, sessionVars>>

\* An upstream error, no image in an attempt, or one that is not resolved.
EditFails ==
    /\ kind = "edit" /\ phase \in {"collect", "resolve"}
    /\ \E credentials \in BOOLEAN : Finish("error", credentials)
    /\ UNCHANGED <<wsVars, given, shownVars, liteVars, editVars, sessionVars>>

\* The client leaves the stream: the account is released, though the task
\* that collects the images goes on with its token, unobserved.
EditLeft ==
    /\ kind = "edit" /\ phase \in {"collect", "resolve"}
    /\ Finish("left", FALSE)
    /\ UNCHANGED <<wsVars, given, shownVars, liteVars, editVars, sessionVars>>

Edit ==
    \/ EditReserve \/ EditPrepared \/ EditUnprepared \/ EditCollected
    \/ EditAgain \/ EditEnds \/ EditFails \/ EditLeft
    \/ \E index \in Images : EditReport(index) \/ EditResolves(index)

-----------------------------------------------------------------------------
(***************************************************************************)
(* The web UI's socket.  A message that starts or stops a run, and the end *)
(* of the socket, cancel the run there is and wait for it (_stop_run).     *)
(***************************************************************************)
Running == phase \in {"created", "stream"}

Proceed(message) ==
    /\ phase' = IF message = "start" THEN "created" ELSE "over"
    /\ handler' = IF message = "leave" THEN "closed" ELSE "receiving"

SessionMessage(message) ==
    /\ kind = "session" /\ handler = "receiving" /\ messages < MaxMessages
    /\ messages' = messages + 1 /\ then' = message
    /\ \/ /\ ~Running /\ Proceed(message)
       \/ \* The cancellation meets the run before its try block and comes
          \* out of the wait: it ends the handler too.
          /\ phase = "created"
          /\ phase' = "over" /\ handler' = "closed"
       \/ /\ phase = "stream"
          /\ handler' = "stopping"
          /\ UNCHANGED phase
    /\ UNCHANGED <<wsVars, given, load, told, account, reply, shownVars, liteVars,
                   editVars>>

\* The run gives its account back, whether it ends or is cancelled.
RunOver ==
    /\ Release(account) /\ account' = NoAccount /\ phase' = "over"

RunCancelled ==
    /\ kind = "session" /\ handler = "stopping" /\ phase = "stream"
    /\ RunOver
    /\ Abandon
    /\ UNCHANGED <<given, told, reply, shownVars, liteVars, editVars, sessionVars>>

SessionProceeds ==
    /\ kind = "session" /\ handler = "stopping" /\ phase = "over"
    /\ Proceed(then)
    /\ UNCHANGED <<wsVars, given, load, told, account, reply, shownVars, liteVars,
                   editVars, then, messages>>

RunBegins ==
    /\ kind = "session" /\ handler = "receiving" /\ phase = "created"
    /\ \/ \E a \in Accounts :
             /\ Free(a) /\ Reserve(a)
             /\ account' = a /\ phase' = "stream"
             /\ Open
       \/ /\ ~\E a \in Accounts : Free(a)
          /\ phase' = "over"
          /\ UNCHANGED <<load, account, wsVars>>
    /\ UNCHANGED <<given, told, reply, shownVars, liteVars, editVars, sessionVars>>

RunSends ==
    /\ kind = "session" /\ handler = "receiving" /\ phase = "stream"
    /\ pending # <<>>
    /\ IF Head(pending).type = "error"
       THEN RunOver /\ Abandon
       ELSE Take /\ UNCHANGED <<load, account, phase>>
    /\ UNCHANGED <<given, told, reply, shownVars, liteVars, editVars, sessionVars>>

RunEnds ==
    /\ kind = "session" /\ handler = "receiving" /\ phase = "stream" /\ Exhausted
    /\ RunOver
    /\ UNCHANGED <<wsVars, given, told, reply, shownVars, liteVars, editVars,
                   sessionVars>>

Session ==
    \/ \E message \in {"start", "stop", "leave"} : SessionMessage(message)
    \/ RunCancelled \/ SessionProceeds \/ RunBegins \/ RunSends \/ RunEnds

\* A cancelled run receives nothing more.
Streaming ==
    /\ phase = "stream" /\ handler # "stopping"
    /\ Transport
    /\ UNCHANGED <<given, load, told, requestVars, shownVars, liteVars, editVars,
                   sessionVars>>

Next == Imagine \/ Lite \/ Edit \/ Session \/ Streaming

Spec == Init /\ [][Next]_vars

Work ==
    \/ \E i \in Tasks :
          LiteReserve(i) \/ LiteReturns(i) \/ LiteFails(i) \/ LiteCancelled(i)
    \/ GroupAborts \/ LiteEnds
    \/ EditReserve \/ EditPrepared \/ EditUnprepared \/ EditCollected
    \/ EditAgain \/ EditEnds \/ EditFails
    \/ \E url \in Images : EditResolves(url)

\* Every call to the upstream ends in an answer, an error or a timeout.
FairSpec == Spec /\ WF_vars(Work)

-----------------------------------------------------------------------------
(***************************************************************************)
(* No image reaches the client twice, though the server completes slots    *)
(* after the round has given up on them, repeats itself, or returns the    *)
(* images of an earlier attempt; and a stream that ends well has as many   *)
(* as were wanted (slots of _stream_round, seen_urls of                    *)
(* _collect_edit_images).                                                  *)
(***************************************************************************)
ImagesDelivered ==
    /\ Cardinality(Range(delivered)) = Len(delivered)
    /\ reply = "done" /\ kind = "imagine" => Len(delivered) >= Wanted
    /\ reply = "done" /\ kind = "edit" => Len(delivered) \in 1..Wanted

\* 100 % is shown only when as many images as were wanted have been reported
\* complete, however many have begun or were censored (_compute_progress_percent).
HonestPercent == shown = 100 => Cardinality(whole) >= Wanted

(***************************************************************************)
(* An account is in flight exactly as often as a request, run or task      *)
(* holds it, and none is held once the response has ended or the socket is *)
(* closed, siblings of a failed task included (the finally blocks).        *)
(***************************************************************************)
ReservationsReturned ==
    /\ \A a \in Accounts :
          load[a] = Cardinality({i \in Tasks : task[i].account = a})
                    + (IF account = a THEN 1 ELSE 0)
    /\ reply \in {"done", "error"} \/ handler = "closed" =>
          \A a \in Accounts : load[a] = 0

\* A batch and an edit end, and give their accounts back (the retries of
\* _run_lite_request, the attempts of _collect_edit_images, the task group).
BatchesEnd ==
    kind \in {"lite", "edit"} ~> reply # "open" /\ \A a \in Accounts : load[a] = 0
=============================================================================
