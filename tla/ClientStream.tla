---------------------------- MODULE ClientStream ----------------------------
(***************************************************************************)
(* The events that each endpoint writes for what the adapter brings        *)
(* (app/products/openai/chat.py, responses.py, app/products/anthropic/     *)
(* messages.py and the console_*.py beside them).                          *)
(*                                                                         *)
(* An event is <<what, index, block>>.  The formats differ in the names;   *)
(* here "start" begins a reply, "open", "delta" and "close" belong to a    *)
(* block (an output item, a content block) with its index, "final" is the  *)
(* last event that carries content and "DONE" the end mark.  The chat      *)
(* format has no blocks: its chunks are deltas with index 0.               *)
(***************************************************************************)
EXTENDS GrokStream

NewClient ==
    [out |-> <<>>, text |-> <<>>, thinking |-> "no", message |-> FALSE,
     index |-> 0, sieve |-> NewSieve, hit |-> FALSE, calls |-> 0,
     marks |-> {}, images |-> 0, ended |-> FALSE]

Say(c, events) == [c EXCEPT !.out = @ \o events]

Write(c, chunk, events) == [Say(c, events) EXCEPT !.text = @ \o chunk]

\* Every block of a call is opened, filled and closed at once.
CallEvents(first, n) ==
    [k \in 1 .. 3 * n |-> <<CASE k % 3 = 1 -> "open" [] k % 3 = 2 -> "delta" [] OTHER -> "close",
                            first + (k - 1) \div 3, "call">>]

\* Text goes through the sieve when the request declares tools.
Passed(c, text, tools) ==
    IF tools THEN Sieve(c.sieve, text) ELSE Sifted(c.sieve, text, FALSE, 0)

------------------------------------------------------------------------------
\* /v1/chat/completions

ChatDelta == << <<"delta", 0, "chat">> >>

\* The stream goes on after the calls (mutant).
ChatCallsOpen(c, n) ==
    Say(c, [i \in 1 .. n |-> <<"delta", 0, "call">>]
           \o << <<"final", 0, "call">>, <<"DONE", 0, "">> >>)

ChatCalls(c, n) ==
    [Say(c, [i \in 1 .. n |-> <<"delta", 0, "call">>]
            \o << <<"final", 0, "call">>, <<"DONE", 0, "">> >>)
     EXCEPT !.hit = TRUE, !.calls = n, !.ended = TRUE]

ChatText(c, text, tools) ==
    LET p == Passed(c, text, tools)
        d == Write([c EXCEPT !.sieve = p.sieve], p.safe,
                   IF p.safe = <<>> THEN <<>> ELSE ChatDelta)
    IN  IF p.hit THEN ChatCalls(d, p.calls) ELSE d

ChatFlush(c) ==
    LET p == Flush(c.sieve)
        d == [c EXCEPT !.sieve = p.sieve]
    IN  IF p.calls > 0 THEN ChatCalls(d, p.calls) ELSE d

ChatFinal(c) == Say(c, << <<"final", 0, "chat">>, <<"DONE", 0, "">> >>)

------------------------------------------------------------------------------
\* /v1/responses: reasoning is item 0, the message the item after it.

ResponsesIndex(c) == IF c.thinking = "no" THEN 0 ELSE 1

ResponsesThinking(c) ==
    CASE c.thinking = "no" ->
            Say([c EXCEPT !.thinking = "open"],
                << <<"open", 0, "thinking">>, <<"delta", 0, "thinking">> >>)
      [] c.thinking = "open" -> Say(c, << <<"delta", 0, "thinking">> >>)
      [] OTHER -> c

ResponsesCloseThinking(c) ==
    IF c.thinking = "open"
    THEN Say([c EXCEPT !.thinking = "closed"], << <<"close", 0, "thinking">> >>)
    ELSE c

\* Calls are numbered as if no reasoning came before them (mutant).
ResponsesCallsFirst(c, n) ==
    [Say(c, CallEvents(0, n)) EXCEPT !.hit = TRUE, !.calls = n, !.ended = TRUE]

ResponsesCalls(c, n) ==
    [Say(c, CallEvents(ResponsesIndex(c), n))
     EXCEPT !.hit = TRUE, !.calls = n, !.ended = TRUE]

ResponsesDelta(c, chunk) ==
    LET i == ResponsesIndex(c)
        opening == IF c.message THEN <<>> ELSE << <<"open", i, "message">> >>
    IN  IF chunk = <<>> THEN c
        ELSE Write([c EXCEPT !.message = TRUE], chunk,
                   opening \o << <<"delta", i, "message">> >>)

ResponsesText(c, text, tools) ==
    LET d == ResponsesCloseThinking(c)
        p == Passed(d, text, tools)
        e == [d EXCEPT !.sieve = p.sieve]
    IN  IF p.hit THEN ResponsesCalls(e, p.calls) ELSE ResponsesDelta(e, p.safe)

ResponsesMark(c, at) ==
    IF c.message
    THEN [Say(c, << <<"delta", ResponsesIndex(c), "message">> >>) EXCEPT !.marks = @ \cup {at}]
    ELSE c

ResponsesFlush(c) ==
    LET p == Flush(c.sieve)
        d == [c EXCEPT !.sieve = p.sieve]
    IN  IF p.calls > 0 THEN ResponsesCalls(d, p.calls) ELSE d

ResponsesFinal(c) ==
    LET closing == IF c.message /\ ~c.hit
                   THEN << <<"close", ResponsesIndex(c), "message">> >> ELSE <<>>
    IN  Say(c, closing \o << <<"final", 0, "">>, <<"DONE", 0, "">> >>)

------------------------------------------------------------------------------
\* /v1/messages: content blocks are numbered by block_index.

MessagesThinking(c) ==
    CASE c.thinking = "no" ->
            Say([c EXCEPT !.thinking = "open"],
                << <<"open", c.index, "thinking">>, <<"delta", c.index, "thinking">> >>)
      [] c.thinking = "open" -> Say(c, << <<"delta", c.index, "thinking">> >>)
      [] OTHER -> c

MessagesClose(c, block) ==
    [Say(c, << <<"close", c.index, block>> >>) EXCEPT !.index = @ + 1]

MessagesCalls(c, n) ==
    [Say(c, CallEvents(c.index, n))
     EXCEPT !.hit = TRUE, !.calls = n, !.ended = TRUE, !.index = @ + n]

MessagesDelta(c, chunk) ==
    LET opening == IF c.message THEN <<>> ELSE << <<"open", c.index, "message">> >>
    IN  IF chunk = <<>> THEN c
        ELSE Write([c EXCEPT !.message = TRUE], chunk,
                   opening \o << <<"delta", c.index, "message">> >>)

MessagesText(c, text, tools) ==
    LET d == IF c.thinking = "open"
             THEN MessagesClose([c EXCEPT !.thinking = "closed"], "thinking") ELSE c
        p == Passed(d, text, tools)
        e == [d EXCEPT !.sieve = p.sieve]
    IN  IF p.hit THEN MessagesCalls(e, p.calls) ELSE MessagesDelta(e, p.safe)

MessagesFlush(c) ==
    LET p == Flush(c.sieve)
        d == [c EXCEPT !.sieve = p.sieve]
        e == IF c.message THEN [MessagesClose(d, "message") EXCEPT !.message = FALSE]
             ELSE d
    IN  IF p.calls > 0 THEN MessagesCalls(e, p.calls) ELSE d

MessagesFinal(c) ==
    LET d == IF ~c.hit /\ c.thinking = "open" THEN MessagesClose(c, "thinking") ELSE c
        closing == IF d.message /\ ~d.hit
                   THEN << <<"close", d.index, "message">> >> ELSE <<>>
    IN  Say(d, closing \o << <<"final", 0, "">>, <<"DONE", 0, "">> >>)

------------------------------------------------------------------------------
\* The console endpoints: one message block around all deltas.

ConsoleOpening(api) ==
    IF api = "console_chat" THEN <<>>
    ELSE << <<"start", 0, "">>, <<"open", 0, "message">> >>

ConsoleDelta(c, text, api) ==
    Write(c, text, IF api = "console_chat" THEN ChatDelta
                   ELSE << <<"delta", 0, "message">> >>)

ConsoleFinal(c, api) ==
    IF api = "console_chat" THEN ChatFinal(c)
    ELSE Say(c, << <<"close", 0, "message">>, <<"final", 0, "">>, <<"DONE", 0, "">> >>)
=============================================================================
