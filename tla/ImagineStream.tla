--------------------------- MODULE ImagineStream ----------------------------
(***************************************************************************)
(* The Imagine WebSocket transport                                         *)
(* (app/dataplane/reverse/transport/imagine_ws.py): a generator that       *)
(* collects Wanted final images over as many rounds and connections as it  *)
(* takes.  In a round the server starts slots, sends previews of them and  *)
(* completes or moderates them, in any order; what belongs to no slot of   *)
(* the round (the frame of an earlier one) is ignored.                     *)
(*                                                                         *)
(* The generator stands still at each yield: nothing is received while the *)
(* consumer has not taken the events in pending.  An error is the last     *)
(* event a consumer takes: each of them abandons the generator there.      *)
(***************************************************************************)
EXTENDS Integers, Sequences, FiniteSets

CONSTANTS Images,     \* slot ids; the server uses each for one slot
          Wanted,     \* n, the final images to collect
          Readings,   \* percentage_complete of the previews
          MaxRounds   \* bound: rounds in all

ASSUME ImagineAssumption ==
    /\ Wanted \in Nat \ {0} /\ MaxRounds \in Nat
    /\ Readings \subseteq 0..100

VARIABLES
    ws,        \* "idle" | "connect" | "round" | "probe" | "over"
    slots,     \* the slots of the round, in the order they started
    pending,   \* events yielded and not yet taken
    meta,      \* "none" | "open" | "closed": the round's last word
    collected, \* final images yielded
    started,   \* slots the server has started
    rounds,
    lease      \* "none" | "held" | "fed" | "dropped": the proxy lease

wsVars == <<ws, slots, pending, meta, collected, started, rounds, lease>>

Slot(id) == [id |-> id, blob |-> FALSE, done |-> FALSE, progress |-> 0]

Event(type, slot) ==
    [type |-> type, id |-> slot.id, progress |-> slot.progress, blob |-> slot.blob]

StreamIdle ==
    /\ ws = "idle" /\ slots = <<>> /\ pending = <<>> /\ meta = "none"
    /\ collected = 0 /\ started = {} /\ rounds = 0
    /\ lease = "none"

\* A new generator.
Open ==
    /\ ws' = "connect" /\ slots' = <<>> /\ pending' = <<>> /\ meta' = "none"
    /\ collected' = 0 /\ started' = {} /\ lease' = "none"
    /\ UNCHANGED rounds

\* The consumer drops the generator: nothing after the yield runs, so a
\* lease it still holds gets no feedback.
Abandon ==
    /\ ws' = "over" /\ slots' = <<>> /\ pending' = <<>> /\ meta' = "none"
    /\ lease' = IF lease = "held" THEN "dropped" ELSE lease
    /\ UNCHANGED <<collected, started, rounds>>

Error == [type |-> "error"]

Connect ==
    /\ ws = "connect"
    /\ \/ /\ rounds < MaxRounds
          /\ ws' = "round" /\ rounds' = rounds + 1
          /\ lease' = "held"
          /\ UNCHANGED pending
       \/ \* The handshake fails, whatever the reason.
          /\ ws' = "over" /\ pending' = <<Error>>
          /\ lease' = "fed"
          /\ UNCHANGED rounds
    /\ slots' = <<>>
    /\ UNCHANGED <<meta, collected, started>>

\* The generator waits for a frame.
Receiving == ws = "round" /\ pending = <<>> /\ meta = "none"

Yields(events, last) ==
    /\ pending' = events
    /\ meta' = last
    /\ UNCHANGED <<collected, rounds, lease>>

\* The server never uses a slot's id again, and which one it uses next
\* makes no difference.
Fresh == IF started = Images THEN {} ELSE {CHOOSE id \in Images : id \notin started}

\* start_stage.
StartStage(id) ==
    /\ Receiving /\ id \in Fresh
    /\ started' = started \cup {id}
    /\ slots' = Append(slots, Slot(id))
    /\ Yields(<<[Event("progress", Slot(id)) EXCEPT !.progress = 10]>>, "none")
    /\ UNCHANGED ws

InRound(id) == {k \in DOMAIN slots : slots[k].id = id /\ ~slots[k].done}

AllDone(round) == round # <<>> /\ \A k \in DOMAIN round : round[k].done

\* completed: the last slot of the round is followed by a probe of the
\* connection, the last image wanted ends the round without one.
Completed(id, moderated) ==
    /\ Receiving
    /\ \E k \in InRound(id) :
          LET round == [slots EXCEPT ![k].done = TRUE]
          IN  /\ slots' = round
              /\ ws' = IF AllDone(round) THEN "probe" ELSE "round"
              /\ Yields(<<Event(IF moderated THEN "moderated" ELSE "final", slots[k])>>,
                        IF ~AllDone(round) /\ ~moderated /\ collected + 1 >= Wanted
                        THEN "open" ELSE "none")
    /\ UNCHANGED started

Clamped(reading) == IF reading < 10 THEN 10 ELSE IF reading > 99 THEN 99 ELSE reading

\* A preview.
Image(id, reading) ==
    /\ Receiving
    /\ \E k \in InRound(id) :
          LET higher == Clamped(reading) > slots[k].progress
              slot == [slots[k] EXCEPT !.blob = TRUE,
                                       !.progress = IF higher THEN Clamped(reading) ELSE @]
          IN  /\ slots' = [slots EXCEPT ![k] = slot]
              /\ Yields(IF higher THEN <<Event("progress", slot)>> ELSE <<>>, "none")
    /\ UNCHANGED <<ws, started>>

Unfinished == {k \in DOMAIN slots : ~slots[k].done}

\* Some of the slots, in their order.
InOrder(S) ==
    {order \in [1 .. Cardinality(S) -> S] :
        \A i, j \in DOMAIN order : i < j => order[i] < order[j]}

YieldsBestEffort(S, last) ==
    \E order \in InOrder(S) :
       Yields([i \in DOMAIN order |-> IF slots[order[i]].blob THEN Event("final", slots[order[i]])
                                      ELSE Error],
              last)

\* The round's time is up: finals for the slots with a preview, up to the
\* first slot without one.
RoundTimeout ==
    /\ Receiving
    /\ YieldsBestEffort(Unfinished, "open")
    /\ UNCHANGED <<ws, slots, started>>

\* The server closes the connection: finals for the slots with a preview.
ServerCloses ==
    /\ Receiving
    /\ YieldsBestEffort({k \in Unfinished : slots[k].blob}, "closed")
    /\ UNCHANGED <<ws, slots, started>>

\* An error frame, or the prompt cannot be sent.
ServerError ==
    /\ Receiving
    /\ Yields(<<Error>>, "closed")
    /\ UNCHANGED <<ws, slots, started>>

\* _probe_ws_closed: a frame that is not a close is lost.
Probe ==
    /\ ws = "probe" /\ pending = <<>>
    /\ ws' = "round"
    /\ \/ /\ \E closed \in BOOLEAN : Yields(<<>>, IF closed THEN "closed" ELSE "open")
          /\ UNCHANGED started
       \/ /\ \E id \in Fresh : started' = started \cup {id}
          /\ Yields(<<>>, "open")
    /\ UNCHANGED slots

\* Mutant: the next round still knows the slots of this one.
NextRoundKeepingSlots ==
    /\ pending = <<>> /\ meta = "open" /\ collected < Wanted
    /\ rounds < MaxRounds
    /\ rounds' = rounds + 1 /\ meta' = "none"
    /\ UNCHANGED <<ws, slots, pending, collected, started, lease>>

NextRound ==
    /\ pending = <<>> /\ meta = "open" /\ collected < Wanted
    /\ rounds < MaxRounds
    /\ rounds' = rounds + 1 /\ slots' = <<>> /\ meta' = "none"
    /\ UNCHANGED <<ws, pending, collected, started, lease>>

\* The connection is given back, and replaced while images are missing.
EndConnection ==
    /\ pending = <<>> /\ meta # "none"
    /\ meta = "closed" \/ collected >= Wanted
    /\ meta' = "none"
    /\ lease' = "fed"
    /\ ws' = IF collected >= Wanted THEN "over" ELSE "connect"
    /\ UNCHANGED <<slots, pending, collected, started, rounds>>

\* aiohttp.ClientError.
ConnectionLost ==
    /\ Receiving
    /\ ws' = "over" /\ pending' = <<Error>>
    /\ lease' = "fed"
    /\ UNCHANGED <<slots, meta, collected, started, rounds>>

Transport ==
    \/ Connect \/ RoundTimeout \/ ServerCloses \/ ServerError \/ Probe
    \/ NextRound \/ EndConnection \/ ConnectionLost
    \/ \E id \in Images :
          \/ StartStage(id)
          \/ \E moderated \in BOOLEAN : Completed(id, moderated)
          \/ \E reading \in Readings : Image(id, reading)

\* The consumer takes an event.
Take ==
    /\ pending' = Tail(pending)
    /\ collected' = IF Head(pending).type = "final" THEN collected + 1 ELSE collected
    /\ UNCHANGED <<ws, slots, meta, started, rounds, lease>>

\* The generator returns.
Exhausted == ws = "over" /\ pending = <<>>
=============================================================================
