----------------------------- MODULE GrokStream -----------------------------
(***************************************************************************)
(* What the service makes of one upstream stream before any client format: *)
(* StreamAdapter of app/dataplane/reverse/protocol/xai_chat.py with the    *)
(* ReasoningAggregator of xai_chat_reasoning.py, and ConsoleStreamAdapter  *)
(* of xai_console_chat.py.                                                 *)
(*                                                                         *)
(* A frame is one data line of the upstream:                               *)
(*   [kind: "think" or "tool", line, tongue, agent]  a fragment of thought *)
(*   [kind: "text", text]     final text, with citation marks in it        *)
(*   [kind: "image"], [kind: "source"], [kind: "stop"]                     *)
(*   [kind: "error", err]     an error in band                             *)
(* A line of thought is a record of the section, track and evidence level  *)
(* that the heuristics of the aggregator give it, and a name for its text. *)
(* Wording, labels and regular expressions are left out.                   *)
(***************************************************************************)
EXTENDS ToolSieve

CONSTANTS EnglishVotes,  \* votes that settle on English: 3 in the code
          PendingLimit   \* lines held back while undecided: 4 in the code

ASSUME StreamAssumption == EnglishVotes \in Nat \ {0} /\ PendingLimit \in Nat \ {0}

------------------------------------------------------------------------------
\* ReasoningAggregator

NewAggregator ==
    [lang |-> "none", votes |-> 0, pending |-> <<>>, sections |-> {},
     keys |-> {}, counts |-> {}]

ObserveLanguage(g, tongue) ==
    IF tongue = "zh"
    THEN [g EXCEPT !.lang = IF @ = "none" THEN "zh" ELSE @]
    ELSE [g EXCEPT !.votes = IF tongue = "en" THEN @ + 1 ELSE @]

\* Evidence that still counts once findings have begun.
LastingTracks == {"latest_updates", "release_status", "official_confirmation",
                  "specs_architecture", "v4_lite"}

\* Scope lines are dropped after findings only (mutant).
LateAfterFindings(g, line) ==
    /\ line.section \in {"scope", "evidence"} /\ "finding" \in g.sections
    /\ line.level < 4

\* What _emit does with a line that comes late: evidence of weight becomes a
\* finding, other evidence and scope lines are dropped.
Late(g, line) ==
    \/ line.section = "scope" /\ g.sections \cap {"evidence", "finding"} # {}
    \/ /\ line.section = "evidence" /\ "finding" \in g.sections
       /\ line.level < 4 /\ line.track \notin LastingTracks

Promoted(g, line) ==
    IF line.section = "evidence" /\ "finding" \in g.sections
    THEN [line EXCEPT !.section = "finding"] ELSE line

\* The lines of a section and track so far, of a level at least this one.
Taken(g, line) == {c \in g.counts : c.section = line.section /\ c.track = line.track}

PerTrack(section) == IF section \in {"scope", "evidence"} THEN 1 ELSE 2

Redundant(g, raw, line) ==
    \/ <<raw, line>> \in g.keys
    \/ /\ line.track # ""
       /\ \/ Cardinality(Taken(g, line)) >= PerTrack(line.section)
          \/ \E c \in Taken(g, line) : c.level > line.level

Title(section) == [section |-> section, track |-> "", level |-> 0, text |-> "title"]

\* _emit: the aggregator after a line, and what it lets out.
Emit(acc, raw) ==
    LET g == acc.agg
        line == Promoted(g, raw)
        title == IF line.section \in g.sections THEN <<>> ELSE <<Title(line.section)>>
    IN  IF Late(g, raw) \/ Redundant(g, raw, line) THEN acc
        ELSE [agg |-> [g EXCEPT !.sections = @ \cup {line.section},
                                !.keys = @ \cup {<<raw, line>>},
                                !.counts = IF line.track = "" THEN @ ELSE @ \cup {line}],
              lines |-> acc.lines \o title \o <<line>>]

FlushPending(g) ==
    LET emitted[n \in 0 .. Len(g.pending)] ==
            IF n = 0 THEN [agg |-> [g EXCEPT !.pending = <<>>], lines |-> <<>>]
            ELSE Emit(emitted[n - 1], g.pending[n])
    IN  emitted[Len(g.pending)]

\* _dispatch: lines wait until the language is known.
Dispatch(g, line) ==
    LET held == [g EXCEPT !.pending = Append(@, line)]
        ready == held.votes >= EnglishVotes \/ Len(held.pending) >= PendingLimit
    IN  CASE g.lang # "none" -> Emit(FlushPending(g), line)
          [] g.lang = "none" /\ ready -> FlushPending([held EXCEPT !.lang = "en"])
          [] OTHER -> [agg |-> held, lines |-> <<>>]

OnThinking(g, frame) == Dispatch(ObserveLanguage(g, frame.tongue), frame.line)

Finalize(g) ==
    FlushPending([g EXCEPT !.lang = IF @ # "none" THEN @
                                    ELSE IF g.votes > 0 THEN "en" ELSE "zh"])

------------------------------------------------------------------------------
\* StreamAdapter

NewAdapter ==
    [started |-> FALSE, agent |-> "", seen |-> {}, agg |-> NewAggregator,
     thoughts |-> <<>>, text |-> <<>>, last |-> "", marks |-> {},
     images |-> 0, sources |-> 0]

\* A thought is an agent and what it said.
Thought(said) == [ev |-> "thinking", said |-> said]

\* _normalize_key: titles differ by their section.
Wording(line) == IF line.text = "title" THEN line.section ELSE line.text

\* _append_reasoning: what an agent said before is not shown again; in the
\* summary mode the agents are not told apart.
AppendReasoning(acc, said) ==
    IF <<said[1], Wording(said[2])>> \in acc.adapter.seen THEN acc
    ELSE [adapter |-> [acc.adapter EXCEPT !.seen = @ \cup {<<said[1], Wording(said[2])>>},
                                          !.thoughts = Append(@, said)],
          events |-> Append(acc.events, Thought(said))]

Appended(a, agent, lines) ==
    LET after[n \in 0 .. Len(lines)] ==
            IF n = 0 THEN [adapter |-> a, events |-> <<>>]
            ELSE AppendReasoning(after[n - 1], <<agent, lines[n]>>)
    IN  after[Len(lines)]

Summarized(a, frame) ==
    LET d == OnThinking(a.agg, frame)
    IN  Appended([a EXCEPT !.agg = d.agg], "", d.lines)

\* The detailed mode: the name of another agent stands before what it says.
Detailed(a, frame) ==
    LET header == <<frame.agent, Title("agent")>>
        b == [a EXCEPT !.agent = IF frame.agent = "" THEN @ ELSE frame.agent]
    IN  IF frame.agent = b.agent /\ frame.agent # a.agent /\ frame.kind = "think"
        THEN LET d == Appended([b EXCEPT !.thoughts = Append(@, header)],
                               frame.agent, <<frame.line>>)
             IN  [d EXCEPT !.events = <<Thought(header)>> \o @]
        ELSE Appended(b, frame.agent, <<frame.line>>)

\* Thoughts after the text has begun are kept for the reply and not shown,
\* tool cards are dropped.
OnThought(a, frame, summary) ==
    CASE a.started /\ frame.kind = "think" ->
            [adapter |-> [a EXCEPT !.thoughts = Append(@, <<"late", frame.line>>)],
             events |-> <<>>]
      [] a.started /\ frame.kind = "tool" -> [adapter |-> a, events |-> <<>>]
      [] ~a.started /\ summary -> Summarized(a, frame)
      [] OTHER -> Detailed(a, frame)

\* _clean_token: a mark that repeats the one before it disappears.
CiteMarks == {"cite", "cite2"}

Cleaned(acc, piece) ==
    CASE piece \notin CiteMarks -> [acc EXCEPT !.text = Append(@, piece)]
      [] piece = acc.last -> acc
      [] OTHER -> [last |-> piece, text |-> Append(acc.text, piece)]

CleanText(last, text) ==
    LET after[n \in 0 .. Len(text)] ==
            IF n = 0 THEN [last |-> last, text |-> <<>>]
            ELSE Cleaned(after[n - 1], text[n])
    IN  after[Len(text)]

\* Annotations stand at absolute positions of the text.
OnText(a, frame) ==
    LET c == CleanText(a.last, frame.text)
        at == {i \in 1 .. Len(c.text) : c.text[i] \in CiteMarks}
        anns == [i \in 1 .. Cardinality(at) |->
                    LET p == CHOOSE p \in at : Cardinality({q \in at : q <= p}) = i
                    IN  [ev |-> "annotation", at |-> Len(a.text) + p, mark |-> c.text[p]]]
    IN  [adapter |-> [a EXCEPT !.started = TRUE, !.last = c.last, !.text = @ \o c.text,
                               !.marks = @ \cup {anns[i].at : i \in DOMAIN anns}],
         events |-> IF c.text = <<>> THEN <<>>
                    ELSE <<[ev |-> "text", text |-> c.text]>> \o anns]

\* _flush_pending_reasoning comes before the stop, also after the text.
OnStop(a, summary) ==
    LET f == Finalize(a.agg)
        d == Appended([a EXCEPT !.agg = f.agg], "", f.lines)
    IN  IF summary THEN [d EXCEPT !.events = Append(@, [ev |-> "soft_stop"])]
        ELSE [adapter |-> a, events |-> <<[ev |-> "soft_stop"]>>]

AdapterFeed(a, frame, summary) ==
    CASE frame.kind \in {"think", "tool"} -> OnThought(a, frame, summary)
      [] frame.kind = "text" -> OnText(a, frame)
      [] frame.kind = "image" ->
            [adapter |-> [a EXCEPT !.images = @ + 1], events |-> <<[ev |-> "image"]>>]
      [] frame.kind = "source" ->
            [adapter |-> [a EXCEPT !.sources = 1], events |-> <<>>]
      [] frame.kind = "stop" -> OnStop(a, summary)

------------------------------------------------------------------------------
\* ConsoleStreamAdapter: deltas until response.completed.

ConsoleFeed(a, frame) ==
    CASE frame.kind = "text" /\ ~a.started ->
            [adapter |-> [a EXCEPT !.text = @ \o frame.text],
             events |-> <<[ev |-> "text", text |-> frame.text]>>]
      [] frame.kind = "stop" -> [adapter |-> [a EXCEPT !.started = TRUE], events |-> <<>>]
      [] OTHER -> [adapter |-> a, events |-> <<>>]
=============================================================================
