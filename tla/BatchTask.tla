------------------------------ MODULE BatchTask ------------------------------
(***************************************************************************)
(* A batch of the administrator's, run in the background, and the event    *)
(* streams that follow it (app/platform/runtime/task.py and                *)
(* app/products/web/admin/batch.py).                                       *)
(*                                                                         *)
(* Every item is a coroutine that waits for one of Concurrency slots, runs *)
(* its handler and records the outcome.  Recording and finishing publish   *)
(* an event to the bounded queue of each attached stream; a full queue     *)
(* loses it.  Of an event the module keeps its type and the count of       *)
(* processed items it carries.  What the handler does to an account is for *)
(* the module that extends this one to say.                                *)
(***************************************************************************)
EXTENDS Naturals, FiniteSets, Sequences

CONSTANTS Items,        \* the tokens of the batch
          Concurrency,
          Streams,      \* clients that may follow it
          QueueSize     \* maxsize of a stream's queue

ASSUME BatchAssumption ==
    /\ IsFiniteSet(Items) /\ Items # {}
    /\ Concurrency \in Nat \ {0} /\ QueueSize \in Nat \ {0}

VARIABLES
    item,       \* "new" | "waiting" | "running" | "recorded" | "skipped"
    processed,
    cancelled,
    final,      \* the final event, NoEvent before it
    listed,     \* the task is in the store
    stream,     \* "away" | "snapshot" | "waiting" | "pinged" | "over" | "left"
    queue,
    seen        \* the count of the last event each stream has shown

batchVars == <<item, processed, cancelled, final, listed, stream, queue, seen>>

NoEvent == [type |-> "none", processed |-> 0]

Event(type, count) == [type |-> type, processed |-> count]

Events == [type : {"none", "progress", "done", "cancelled"}, processed : Nat]

BatchTypeOK ==
    /\ item \in [Items -> {"new", "waiting", "running", "recorded", "skipped"}]
    /\ processed \in Nat /\ cancelled \in BOOLEAN /\ listed \in BOOLEAN
    /\ final \in Events /\ final.type # "progress"
    /\ stream \in [Streams -> {"away", "snapshot", "waiting", "pinged", "over", "left"}]
    /\ queue \in [Streams -> Seq(Events)]
    /\ seen \in [Streams -> Nat]

Attached == {s \in Streams : stream[s] \in {"snapshot", "waiting", "pinged"}}

\* _publish: put_nowait on every queue, and an exception is dropped.
Publish(event) ==
    queue' = [s \in Streams |->
                IF s \in Attached /\ Len(queue[s]) < QueueSize
                THEN Append(queue[s], event) ELSE queue[s]]

\* create_task, with nobody attached.
BatchInit ==
    /\ item = [i \in Items |-> "new"]
    /\ processed = 0 /\ cancelled = FALSE /\ final = NoEvent /\ listed = TRUE
    /\ stream = [s \in Streams |-> "away"]
    /\ queue = [s \in Streams |-> <<>>]
    /\ seen = [s \in Streams |-> 0]

ItemGoes(i, where) == item' = [item EXCEPT ![i] = where]

\* _one, up to the semaphore.
ItemEnters(i) ==
    /\ item[i] = "new"
    /\ ItemGoes(i, IF cancelled THEN "skipped" ELSE "waiting")
    /\ UNCHANGED <<processed, cancelled, final, listed, stream, queue, seen>>

SlotFree == Cardinality({i \in Items : item[i] = "running"}) < Concurrency

\* Mutant: cancelled is not read again behind the semaphore.
ItemAcquiresBlindly(i) ==
    /\ item[i] = "waiting" /\ SlotFree
    /\ ItemGoes(i, "running")
    /\ UNCHANGED <<processed, cancelled, final, listed, stream, queue, seen>>

ItemAcquires(i) ==
    /\ item[i] = "waiting" /\ SlotFree
    /\ ItemGoes(i, IF cancelled THEN "skipped" ELSE "running")
    /\ UNCHANGED <<processed, cancelled, final, listed, stream, queue, seen>>

\* The handler has returned or raised: record.
ItemEnds(i) ==
    /\ item[i] = "running"
    /\ ItemGoes(i, "recorded")
    /\ processed' = processed + 1
    /\ Publish(Event("progress", processed + 1))
    /\ UNCHANGED <<cancelled, final, listed, stream, seen>>

\* gather has returned: finish or finish_cancelled.
BatchEnds ==
    /\ final = NoEvent
    /\ \A i \in Items : item[i] \in {"recorded", "skipped"}
    /\ final' = Event(IF cancelled THEN "cancelled" ELSE "done", processed)
    /\ Publish(final')
    /\ UNCHANGED <<item, processed, cancelled, listed, stream, seen>>

\* expire_task, some time after the end.
Expires ==
    /\ final # NoEvent /\ listed
    /\ listed' = FALSE
    /\ UNCHANGED <<item, processed, cancelled, final, stream, queue, seen>>

\* Mutant: cancelling publishes the final event.
CancelFinishing ==
    /\ listed /\ ~cancelled
    /\ cancelled' = TRUE
    /\ final' = Event("cancelled", processed)
    /\ Publish(final')
    /\ UNCHANGED <<item, processed, listed, stream, seen>>

\* batch_cancel.
Cancel ==
    /\ listed /\ ~cancelled
    /\ cancelled' = TRUE
    /\ UNCHANGED <<item, processed, final, listed, stream, queue, seen>>

-----------------------------------------------------------------------------
\* batch_stream: attach and take the snapshot, in one go.
Attach(s) ==
    /\ stream[s] = "away" /\ listed
    /\ stream' = [stream EXCEPT ![s] = "snapshot"]
    /\ seen' = [seen EXCEPT ![s] = processed]
    /\ UNCHANGED <<item, processed, cancelled, final, listed, queue>>

Shows(s, event, where) ==
    /\ stream' = [stream EXCEPT ![s] = where]
    /\ seen' = [seen EXCEPT ![s] = event.processed]

Detached(s) == queue' = [queue EXCEPT ![s] = <<>>]

\* After the snapshot, or a ping, the final event may already be there.
LookForFinal(s, from) ==
    /\ stream[s] = from
    /\ \/ /\ final # NoEvent
          /\ Shows(s, final, "over") /\ Detached(s)
       \/ /\ final = NoEvent
          /\ stream' = [stream EXCEPT ![s] = "waiting"]
          /\ UNCHANGED <<queue, seen>>
    /\ UNCHANGED <<item, processed, cancelled, final, listed>>

AfterSnapshot(s) == LookForFinal(s, "snapshot")

Receive(s) ==
    /\ stream[s] = "waiting" /\ queue[s] # <<>>
    /\ LET event == Head(queue[s])
       IN  IF event.type = "progress"
           THEN Shows(s, event, "waiting") /\ queue' = [queue EXCEPT ![s] = Tail(@)]
           ELSE Shows(s, event, "over") /\ Detached(s)
    /\ UNCHANGED <<item, processed, cancelled, final, listed>>

\* Fifteen seconds without an event.
Ping(s) ==
    /\ stream[s] = "waiting" /\ queue[s] = <<>>
    /\ stream' = [stream EXCEPT ![s] = "pinged"]
    /\ UNCHANGED <<item, processed, cancelled, final, listed, queue, seen>>

\* Mutant: a ping is all a timeout does.
PingOnly(s) ==
    /\ stream[s] = "pinged"
    /\ stream' = [stream EXCEPT ![s] = "waiting"]
    /\ UNCHANGED <<item, processed, cancelled, final, listed, queue, seen>>

AfterPing(s) == LookForFinal(s, "pinged")

\* The client goes away.
Leave(s) ==
    /\ s \in Attached
    /\ stream' = [stream EXCEPT ![s] = "left"]
    /\ Detached(s)
    /\ UNCHANGED <<item, processed, cancelled, final, listed, seen>>

Following ==
    \E s \in Streams :
       Attach(s) \/ AfterSnapshot(s) \/ Receive(s) \/ Ping(s) \/ AfterPing(s) \/ Leave(s)

-----------------------------------------------------------------------------
(***************************************************************************)
(* The final event is the last word: when it is published every item has   *)
(* been recorded or skipped, and a stream that ends by itself has shown    *)
(* the counts that stand, whatever was lost on the way and whenever the    *)
(* batch was cancelled (finish_cancelled after gather, _dispatch_async).   *)
(***************************************************************************)
FinalIsFinal ==
    final # NoEvent =>
       /\ final.processed = processed
       /\ \A i \in Items : item[i] \in {"recorded", "skipped"}
       /\ \A s \in Streams : stream[s] = "over" => seen[s] = processed

\* Once the batch is cancelled no handler starts any more, although items
\* were waiting for a slot (the second test in _one).
NothingStartsCancelled ==
    [][\A i \in Items :
         item[i] # "running" /\ item'[i] = "running" => ~cancelled]_batchVars

\* Every stream ends, its client's patience allowing, even when its queue
\* was full when the final event was published (batch_stream's fallback).
StreamsEnd == \A s \in Streams : s \in Attached ~> s \notin Attached
=============================================================================
