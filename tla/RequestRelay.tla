---------------------------- MODULE RequestRelay ----------------------------
(***************************************************************************)
(* One request of a client from the choice of an account to the last event *)
(* and the book-keeping after it: the retry loops of                       *)
(* app/products/openai/chat.py, responses.py, console_chat.py,             *)
(* console_responses.py and app/products/anthropic/messages.py,            *)
(* console_messages.py, streaming and not.                                 *)
(*                                                                         *)
(* An attempt reserves an account, opens the upstream stream, relays what  *)
(* it brings, and whatever happens then releases the account, feeds the    *)
(* outcome back and leaves a background task that records it.  The         *)
(* upstream may refuse, break off or fail in band at any frame; the client *)
(* of a stream may go away at any event.  Release and feedback take locks  *)
(* that are never contended, so the end of an attempt is one step.  How    *)
(* accounts are chosen is in AccountDirectory.                             *)
(***************************************************************************)
EXTENDS ClientStream

CONSTANTS Accounts,    \* the accounts of the pools that serve the model
          Scenarios,   \* the requests: endpoint, options, what upstream sends
          Outages,     \* how the upstream refuses or fails
          RetryCodes,  \* retry.on_codes, as a set of outages
          MaxRetries,  \* selection_max_retries
          MaxFrames,   \* bound: frames of an upstream stream
          None         \* no account

GrokApis == {"chat", "responses", "messages"}
ConsoleApis == {"console_chat", "console_responses", "console_messages"}

\* A line of thought, and what a frame of the upstream carries; the names of
\* titles are no lines.
Lines == [section : STRING, track : STRING, level : Nat, text : STRING \ {"title", "agent"}]
Frames == [kind : {"text"}, text : Seq(Pieces)]
          \cup [kind : {"think", "tool"}, line : Lines, tongue : STRING, agent : STRING]
          \cup [kind : {"image", "source", "stop"}]

\* The options of a request; the console endpoints take no tools.
Requests == [api : GrokApis \cup ConsoleApis, stream : BOOLEAN, tools : BOOLEAN,
             think : BOOLEAN, summary : BOOLEAN, quota : BOOLEAN, frames : SUBSET Frames]

ASSUME RelayAssumption ==
    /\ Scenarios \subseteq Requests
    /\ \A s \in Scenarios : s.api \in ConsoleApis => ~s.tools
    /\ Outages \subseteq {"rate", "auth", "blocked", "forbidden", "server"}
    /\ RetryCodes \subseteq Outages
    /\ MaxRetries \in Nat /\ MaxFrames \in Nat
    /\ None \notin Accounts

VARIABLES scenario,  \* the request
          stage,     \* where its handler stands
          account,   \* the account of the attempt
          attempt,   \* attempts before this one
          excluded,  \* the accounts it has failed on
          adapter,   \* the stream adapter of the attempt
          events,    \* what the adapter made of a frame and is still to be relayed
          client,    \* what the attempt has written to the client
          frames,    \* frames read in the attempt
          fault,     \* what ended the attempt: "none" when nothing did
          leaked,    \* text of an earlier attempt has reached the client
          reply,     \* the reply of a request that does not stream
          load,      \* inflight count of each account
          ended,     \* how the attempt on an account ended
          syncs,     \* the accounts whose background task has not run
          recorded,  \* failures handed to the refresh service, per account
          probed     \* usage calls the background tasks asked for, per account

vars == <<scenario, stage, account, attempt, excluded, adapter, events, client,
          frames, fault, leaked, reply, load, ended, syncs, recorded, probed>>

relayed == <<adapter, events, client, frames>>
book == <<load, ended, syncs, recorded, probed>>

Api == scenario.api
Console == Api \in ConsoleApis

Holding == {"open", "connect", "read", "flush", "resolve", "sent", "settle"}

NoReply == [kind |-> "none", text |-> <<>>, calls |-> 0]

------------------------------------------------------------------------------
\* What an event of the adapter makes the endpoint write.

OnThinkingEvent(c) ==
    CASE ~scenario.think -> c
      [] scenario.think /\ Api = "chat" -> Say(c, << <<"delta", 0, "thinking">> >>)
      [] scenario.think /\ Api = "responses" -> ResponsesThinking(c)
      [] scenario.think /\ Api = "messages" -> MessagesThinking(c)

OnTextEvent(c, text) ==
    CASE Api = "chat" -> ChatText(c, text, scenario.tools)
      [] Api = "responses" -> ResponsesText(c, text, scenario.tools)
      [] Api = "messages" -> MessagesText(c, text, scenario.tools)
      [] Console -> ConsoleDelta(c, text, Api)

OnMark(c, at) ==
    IF Api = "responses" THEN ResponsesMark(c, at) ELSE [c EXCEPT !.marks = @ \cup {at}]

OnEvent(c, event) ==
    CASE event.ev = "thinking" -> OnThinkingEvent(c)
      [] event.ev = "text" -> OnTextEvent(c, event.text)
      [] event.ev = "annotation" -> OnMark(c, event.at)
      [] event.ev = "soft_stop" -> [c EXCEPT !.ended = TRUE]
      [] OTHER -> c

\* Images and sources are appended as text; the formats with blocks write it
\* only into a message that is open.
Embed(c) ==
    Write(c, <<"embed">>,
          CASE Api = "chat" -> ChatDelta
            [] Api = "responses" /\ c.message -> << <<"delta", ResponsesIndex(c), "message">> >>
            [] Api = "messages" /\ c.message -> << <<"delta", c.index, "message">> >>
            [] OTHER -> <<>>)

Opening ==
    CASE Api = "chat" -> <<>>
      [] Api \in {"responses", "messages"} -> << <<"start", 0, "">> >>
      [] Console -> ConsoleOpening(Api)

Flushed(c) ==
    CASE Api = "chat" -> ChatFlush(c)
      [] Api = "responses" -> ResponsesFlush(c)
      [] Api = "messages" -> MessagesFlush(c)

Closed(c) ==
    CASE Api = "chat" -> ChatFinal(c)
      [] Api = "responses" -> ResponsesFinal(c)
      [] Api = "messages" -> MessagesFinal(c)
      [] Console -> ConsoleFinal(c, Api)

\* _should_retry_upstream: configured status codes and invalid credentials.
ShouldRetry(e) == (e \in RetryCodes \/ e = "blocked") /\ attempt < MaxRetries

\* feedback_kind_for_error, and SERVER_ERROR for what is no UpstreamError.
FeedbackKind(e) ==
    CASE e = "none" -> "SUCCESS"
      [] e \in {"auth", "blocked"} -> "UNAUTHORIZED"
      [] e = "rate" -> "RATE_LIMITED"
      [] e = "forbidden" -> "FORBIDDEN"
      [] OTHER -> "SERVER_ERROR"

------------------------------------------------------------------------------
Init ==
    /\ scenario \in Scenarios
    /\ stage = "reserve" /\ account = None /\ attempt = 0 /\ excluded = {}
    /\ adapter = NewAdapter /\ events = <<>> /\ client = NewClient /\ frames = 0
    /\ fault = "none" /\ leaked = FALSE /\ reply = NoReply
    /\ load = [a \in Accounts |-> 0]
    /\ ended = [a \in Accounts |-> "never"] /\ syncs = {}
    /\ recorded = [a \in Accounts |-> 0] /\ probed = [a \in Accounts |-> 0]

\* reserve_account returns an account the request has not failed on.
Reserve(a) ==
    /\ stage = "reserve" /\ a \notin excluded
    /\ stage' = "open" /\ account' = a
    /\ load' = [load EXCEPT ![a] = @ + 1]
    /\ adapter' = NewAdapter /\ events' = <<>> /\ client' = NewClient /\ frames' = 0
    /\ fault' = "none"
    /\ UNCHANGED <<scenario, attempt, excluded, leaked, reply, ended, syncs,
                   recorded, probed>>

\* No account is left, or the others are taken: RateLimitError.
NoAccount ==
    /\ stage = "reserve"
    /\ stage' = "failed"
    /\ UNCHANGED <<scenario, account, attempt, excluded, relayed, fault, leaked, reply, book>>

\* The events before the upstream is asked.
Open ==
    /\ stage = "open"
    /\ stage' = "connect"
    /\ client' = IF scenario.stream THEN Say(client, Opening) ELSE client
    /\ UNCHANGED <<scenario, account, attempt, excluded, adapter, events, frames,
                   fault, leaked, reply, book>>

\* The proxy lease, the attachments and the POST went well.
Connect ==
    /\ stage = "connect"
    /\ stage' = "read"
    /\ UNCHANGED <<scenario, account, attempt, excluded, relayed, fault, leaked, reply, book>>

Raise(e) ==
    /\ fault' = e /\ stage' = "settle"
    /\ UNCHANGED <<scenario, account, attempt, excluded, relayed, leaked, reply, book>>

\* The upstream answers with another status, or not at all.
Refused(e) == stage = "connect" /\ Raise(e)

\* An error payload within the stream, or the connection breaks.
BreaksOff(e) ==
    /\ stage = "read" /\ events = <<>>
    /\ e \in (IF Console THEN {"server"} ELSE {"rate", "server"})
    /\ Raise(e)

AfterRead(c) ==
    CASE ~c.ended -> "read"
      [] c.ended /\ Api = "chat" /\ c.hit -> "sent"
      [] OTHER -> "flush"

\* A request that does not stream only gathers what comes.
Gathered(f) == [client EXCEPT !.ended = f.kind = "stop" /\ ~Console]

\* One data line of the upstream.
Read(f) ==
    /\ stage = "read" /\ events = <<>> /\ frames < MaxFrames
    /\ LET fed == IF Console THEN ConsoleFeed(adapter, f)
                  ELSE AdapterFeed(adapter, f, scenario.summary)
       IN  /\ adapter' = fed.adapter
           /\ events' = IF scenario.stream THEN fed.events ELSE <<>>
    /\ client' = IF scenario.stream THEN client ELSE Gathered(f)
    /\ stage' = IF client'.ended THEN "settle" ELSE "read"
    /\ frames' = frames + 1
    /\ UNCHANGED <<scenario, account, attempt, excluded, fault, leaked, reply, book>>

\* The next event of the frame goes to the client of a stream; those that
\* follow the end within one frame are dropped.
Relay ==
    /\ stage = "read" /\ events # <<>>
    /\ client' = OnEvent(client, Head(events))
    /\ stage' = AfterRead(client')
    /\ events' = IF client'.ended THEN <<>> ELSE Tail(events)
    /\ UNCHANGED <<scenario, account, attempt, excluded, adapter, frames,
                   fault, leaked, reply, book>>

\* [DONE], or the upstream closes the stream.
EndOfStream ==
    /\ stage = "read" /\ events = <<>>
    /\ stage' = IF scenario.stream THEN "flush" ELSE "settle"
    /\ UNCHANGED <<scenario, account, attempt, excluded, relayed, fault, leaked, reply, book>>

\* A block that is never closed keeps the handler waiting (mutant).
FlushWhenClosed ==
    /\ stage = "flush" /\ ~client.sieve.capturing
    /\ client' = IF scenario.tools /\ ~client.hit THEN Flushed(client) ELSE client
    /\ stage' = IF Api = "chat" /\ client'.hit THEN "sent" ELSE "resolve"
    /\ UNCHANGED <<scenario, account, attempt, excluded, adapter, events, frames,
                   fault, leaked, reply, book>>

\* What the sieve still holds is parsed.
FlushSieve ==
    /\ stage = "flush"
    /\ client' = IF scenario.tools /\ ~client.hit THEN Flushed(client) ELSE client
    /\ stage' = IF Api = "chat" /\ client'.hit THEN "sent" ELSE "resolve"
    /\ UNCHANGED <<scenario, account, attempt, excluded, adapter, events, frames,
                   fault, leaked, reply, book>>

\* An image is fetched and embedded; a failed download embeds its URL.
ResolveImage ==
    /\ stage = "resolve" /\ ~client.hit /\ client.images < adapter.images
    /\ client' = [Embed(client) EXCEPT !.images = @ + 1]
    /\ UNCHANGED <<scenario, stage, account, attempt, excluded, adapter, events, frames,
                   fault, leaked, reply, book>>

\* The image cannot be saved: no UpstreamError, and no retry.
ResolveCrashes ==
    /\ stage = "resolve" /\ ~client.hit /\ client.images < adapter.images
    /\ Raise("crash")

\* References, the events that close the reply, and the end mark.
Complete ==
    /\ stage = "resolve" /\ (client.hit \/ client.images = adapter.images)
    /\ client' = Closed(IF ~client.hit /\ adapter.sources > 0 THEN Embed(client) ELSE client)
    /\ stage' = "sent"
    /\ UNCHANGED <<scenario, account, attempt, excluded, adapter, events, frames,
                   fault, leaked, reply, book>>

\* Only when the client asks for more than the end mark does the handler go
\* on to success = True.
Confirm ==
    /\ stage = "sent"
    /\ stage' = "settle"
    /\ UNCHANGED <<scenario, account, attempt, excluded, relayed, fault, leaked, reply, book>>

\* The client of a stream goes away: the generator is closed where it stands.
Disconnect ==
    /\ scenario.stream /\ stage \in Holding \ {"settle"}
    /\ Raise("gone")

AfterSettle ==
    CASE fault = "none" -> IF scenario.stream \/ Console THEN "done" ELSE "compose"
      [] fault # "none" /\ ShouldRetry(fault) -> "reserve"
      [] OTHER -> "failed"

\* The console endpoints build the reply within the attempt.
ConsoleReply == [kind |-> "text", text |-> adapter.text, calls |-> 0]

\* The finally block, and the end of the loop's body.
Settle ==
    /\ stage = "settle"
    /\ load' = [load EXCEPT ![account] = @ - 1]
    /\ ended' = [ended EXCEPT ![account] = FeedbackKind(fault)]
    /\ syncs' = syncs \cup {account}
    /\ stage' = AfterSettle
    /\ excluded' = IF stage' = "reserve" THEN excluded \cup {account} ELSE excluded
    /\ attempt' = IF stage' = "reserve" THEN attempt + 1 ELSE attempt
    /\ leaked' = (leaked \/ (stage' = "reserve" /\ client.text # <<>>))
    /\ account' = None
    /\ reply' = IF stage' = "done" /\ ~scenario.stream THEN ConsoleReply ELSE reply
    /\ UNCHANGED <<scenario, relayed, fault, recorded, probed>>

\* The text, the images that could be had, and the references.
FullText(had) == adapter.text \o [i \in 1 .. had + adapter.sources |-> "embed"]

\* Calls are looked for in all of it.
Replied(text) ==
    LET calls == IF scenario.tools THEN ParseToolCalls(text).calls ELSE 0
    IN  IF calls > 0 THEN [kind |-> "calls", text |-> <<>>, calls |-> calls]
        ELSE [kind |-> "text", text |-> text, calls |-> 0]

\* The reply of a request that does not stream.
Compose ==
    /\ stage = "compose"
    /\ \E had \in 0 .. adapter.images : reply' = Replied(FullText(had))
    /\ stage' = "done"
    /\ UNCHANGED <<scenario, account, attempt, excluded, relayed, fault, leaked, book>>

\* _quota_sync: after a success the quota is read again, under the quota
\* strategy only.
QuotaSync(a) ==
    /\ ended[a] = "SUCCESS"
    /\ probed' = IF scenario.quota THEN [probed EXCEPT ![a] = @ + 1] ELSE probed
    /\ UNCHANGED recorded

\* Failures of no known kind are not recorded (mutant).
FailSyncKnown(a) ==
    /\ ended[a] # "SUCCESS"
    /\ recorded' = IF ended[a] = "SERVER_ERROR" THEN recorded ELSE [recorded EXCEPT ![a] = @ + 1]
    /\ UNCHANGED probed

\* _fail_sync: the failure is recorded; after a 429 under the quota strategy
\* the account's usage is read, unless the call went to the console.
FailSync(a) ==
    /\ ended[a] # "SUCCESS"
    /\ recorded' = [recorded EXCEPT ![a] = @ + 1]
    /\ probed' = IF scenario.quota /\ ended[a] = "RATE_LIMITED" /\ ~Console
                 THEN [probed EXCEPT ![a] = @ + 1] ELSE probed

\* A background task runs.
RunSync(a) ==
    /\ a \in syncs
    /\ QuotaSync(a) \/ FailSync(a)
    /\ syncs' = syncs \ {a}
    /\ UNCHANGED <<scenario, stage, account, attempt, excluded, relayed, fault,
                   leaked, reply, load, ended>>

Finished ==
    /\ stage \in {"done", "failed"} /\ syncs = {}
    /\ UNCHANGED vars

Next ==
    \/ \E a \in Accounts : Reserve(a)
    \/ NoAccount \/ Open \/ Connect
    \/ \E e \in Outages : Refused(e) \/ BreaksOff(e)
    \/ \E f \in scenario.frames : Read(f)
    \/ Relay \/ EndOfStream \/ FlushSieve \/ ResolveImage \/ ResolveCrashes
    \/ Complete \/ Confirm \/ Disconnect \/ Settle \/ Compose
    \/ \E a \in Accounts : RunSync(a)
    \/ Finished

\* What Relay does to the events of the frame, and no other action: the part of
\* it that fairness is about.
EventRelayed ==
    stage = "read" /\ events # <<>> /\ events' \in {<<>>, Tail(events)}

\* The event loop runs every handler that can go on; a request to the upstream
\* has a timeout (chat.timeout), so it answers, ends or breaks off.  A client
\* need not go away, and frames and accounts come as they please.
Fairness ==
    /\ WF_vars(NoAccount \/ \E a \in Accounts : Reserve(a))
    /\ WF_vars(Open) /\ WF_vars(Connect \/ \E e \in Outages : Refused(e))
    /\ WF_events(EventRelayed) /\ WF_vars(EndOfStream \/ \E e \in Outages : BreaksOff(e))
    /\ WF_vars(FlushSieve) /\ WF_vars(ResolveImage \/ ResolveCrashes)
    /\ WF_vars(Complete) /\ WF_vars(Confirm) /\ WF_vars(Settle)
    /\ WF_vars(Compose) /\ WF_vars(\E a \in Accounts : RunSync(a))

Spec == Init /\ [][Next]_vars /\ Fairness

------------------------------------------------------------------------------
\* Safety

\* What the client was given before the images and sources at its end.
Written ==
    LET ends == {n \in 0 .. Len(client.text) :
                    \A i \in n + 1 .. Len(client.text) : client.text[i] = "embed"}
    IN  SubSeq(client.text, 1, LeastOf(ends))

\* The text an attempt has written is a beginning of what the model wrote, and
\* never contains the opening tag of a tool block when the request declares
\* tools, however the chunks cut it; images and sources come after all of it.
TextIsPrefix ==
    /\ IsPrefix(Written, adapter.text)
    /\ scenario.tools => Tags(Written, "open") = {}

\* When a stream is complete, all the text has been written but for a rest
\* that begins like a tag; when the chat endpoint found calls, all the text
\* before them has been written.
TextComplete ==
    LET rest == SubSeq(adapter.text, Len(Written) + 1, Len(adapter.text))
    IN  (stage = "sent" /\ (~client.hit \/ Api = "chat")) =>
            rest = <<>> \/ (scenario.tools /\ Head(rest) = "lt")

\* The positions of citations that a client is given are those of the marks in
\* the text it was given.
MarksInText ==
    ~scenario.tools =>
        \A p \in client.marks : p <= Len(client.text) /\ client.text[p] \in CiteMarks

\* The text of a stream: what the client gets of the model's text, and where
\* its citations are (the buffers of sieve and adapter).
TextFaithful == scenario.stream => TextIsPrefix /\ TextComplete /\ MarksInText

\* The end mark comes after the final event, nothing follows it, and an attempt
\* that has written it is never tried again; a stream counts as a success of
\* its account only when its end mark was written (the order of the last
\* events, success = True and the retry).
EndMark ==
    LET marks == {i \in DOMAIN client.out : client.out[i][1] = "DONE"}
    IN  /\ \A i \in marks : /\ i = Len(client.out) /\ i > 1
                            /\ client.out[i - 1][1] = "final"
                            /\ stage \in {"sent", "settle", "done", "failed"}
        /\ (scenario.stream /\ \E a \in Accounts : ended[a] = "SUCCESS") => marks # {}

\* Every attempt that ended gave its account back and reported once: a failure
\* is recorded by one background task, and an account is loaded by the attempt
\* under way only.
AttemptsAccounted ==
    \A a \in Accounts :
        /\ recorded[a] = IF ended[a] \in {"never", "SUCCESS"} \/ a \in syncs THEN 0 ELSE 1
        /\ probed[a] > 0 => ended[a] \in {"SUCCESS", "RATE_LIMITED"} /\ a \notin syncs
        /\ load[a] = IF account = a THEN 1 ELSE 0

\* An index is opened once, filled and closed while it is open, and all is
\* closed before the final event.
BlocksNest ==
    LET out == client.out
        At(i, what) == {k \in DOMAIN out : out[k][1] = what /\ out[k][2] = i}
        OpenAt(i, k) == /\ Cardinality({o \in At(i, "open") : o < k}) = 1
                        /\ \A c \in At(i, "close") : c >= k
    IN  Api \notin {"chat", "console_chat"} =>
            \A k \in DOMAIN out :
                /\ out[k][1] = "open" =>
                       \A o \in At(out[k][2], "open") : o = k
                /\ out[k][1] \in {"delta", "close"} => OpenAt(out[k][2], k)
                /\ out[k][1] = "final" =>
                       \A o \in DOMAIN out : out[o][1] = "open" =>
                           At(out[o][2], "close") # {}

\* Blocks nest in a stream where thoughts come before the text and, in the format
\* of responses, text or calls follow them; so do the blocks of calls, unless they
\* are found while the block of a text is open (the flush of messages closes it).
PlainBlocksNest ==
    /\ ~(client.hit /\ client.message) /\ ~scenario.summary
    /\ ~(Api = "responses" /\ client.thinking = "open" /\ ~client.message)
    => BlocksNest

\* In the summary a section has its title once, before its lines, and no line
\* of scope follows evidence or findings.
SummaryInOrder ==
    LET thoughts == adapter.thoughts
        shown == {i \in DOMAIN thoughts : thoughts[i][1] # "late"}
        Section(i) == thoughts[i][2].section
        Titled(i) == thoughts[i][2].text = "title"
    IN  scenario.summary =>
            \A i, j \in shown :
                /\ (Titled(i) /\ Section(i) = Section(j)) => i <= j
                /\ (Section(i) = "scope" /\ Section(j) \in {"evidence", "finding"}) => i < j

\* Every request ends and its book-keeping is done.
RequestEnds == <>(stage \in {"done", "failed"} /\ syncs = {})

\* "Supports transparent retry with a different account" (chat.py): a retry
\* follows no attempt whose text the client has already been given.
RetryIsTransparent == ~leaked
=============================================================================
