------------------------- MODULE RequestRelayProofs -------------------------
(***************************************************************************)
(* The accounts, the end mark, the text, the order of the thoughts and the *)
(* blocks of a request, for all scenarios that RelayAssumption allows.     *)
(* The model folds over frames and lines with recursive functions; what    *)
(* such a fold returns is found with Recursion below, which rests on the   *)
(* least element of a set of naturals.                                     *)
(***************************************************************************)
EXTENDS RequestRelay, FiniteSetTheorems, WellFoundedInduction, TLAPS

------------------------------------------------------------------------------
\* Types.

\* The names of the model, those that occur in it spelled out.
Names == STRING \cup {"", "none", "zh", "en", "title", "agent", "finding", "late"}

LineRecords == [section : Names, track : Names, level : Nat, text : Names]

Texts == Seq(Pieces)
Shown == Seq(Pieces \cup {"embed"})
LastMarks == Pieces \cup {""}
Sieves == [buf : Texts, capturing : BOOLEAN, done : BOOLEAN]
\* The events written to a client, and those other than the end mark.
Blocks == {"", "chat", "call", "thinking", "message"}
Quiet == {"start", "open", "delta", "close", "final"} \X Int \X Blocks
DoneEvent == <<"DONE", 0, "">>
SentEvents == Quiet \cup {DoneEvent}
Sent == Seq(SentEvents)

Clients ==
    [out : Sent, text : Shown, thinking : {"no", "open", "closed"},
     message : BOOLEAN, index : Nat, sieve : Sieves, hit : BOOLEAN, calls : Nat,
     marks : SUBSET Nat, images : Nat, ended : BOOLEAN]

Aggregators ==
    [lang : Names, votes : Nat, pending : Seq(LineRecords), sections : SUBSET Names,
     keys : SUBSET (LineRecords \X LineRecords), counts : SUBSET LineRecords]

Said == Names \X LineRecords

Adapters ==
    [started : BOOLEAN, agent : Names, seen : SUBSET (Names \X Names),
     agg : Aggregators, thoughts : Seq(Said), text : Texts, last : LastMarks,
     marks : SUBSET Nat, images : Nat, sources : Nat]

RelayEvents ==
    [ev : {"thinking"}, said : Said] \cup [ev : {"text"}, text : Texts]
    \cup [ev : {"annotation"}, at : Nat, mark : Pieces]
    \cup [ev : {"image", "soft_stop"}]

Terminal == {"compose", "done", "failed"}
Stages == Holding \cup Terminal \cup {"reserve"}
Faults == Outages \cup {"none", "rate", "server", "crash", "gone"}

StreamTypes ==
    /\ scenario \in Scenarios
    /\ adapter \in Adapters /\ client \in Clients /\ events \in Seq(RelayEvents)
    /\ stage \in Stages
    /\ ~scenario.stream => events = <<>>
    /\ Console => \A i \in DOMAIN events : events[i].ev = "text"
    /\ fault \in Faults

------------------------------------------------------------------------------
\* The invariants.

Endings == {"never", "SUCCESS", "UNAUTHORIZED", "RATE_LIMITED", "FORBIDDEN", "SERVER_ERROR"}

\* What the accounts of a request stand for while it runs: an account is held
\* exactly within an attempt and by the attempt only, and an account whose
\* attempt has ended is never taken again.
BookInv ==
    /\ excluded \subseteq Accounts /\ account \in Accounts \cup {None}
    /\ account # None <=> stage \in Holding
    /\ account # None => account \notin excluded
    /\ ended \in [Accounts -> Endings] /\ load \in [Accounts -> Nat]
    /\ recorded \in [Accounts -> Nat] /\ probed \in [Accounts -> Nat]
    /\ \A a \in Accounts : ended[a] # "never" => a \in excluded \/ stage \in Terminal
    /\ syncs \subseteq {a \in Accounts : ended[a] # "never"}
    /\ AttemptsAccounted

\* No end mark, and an end mark after the final event and nothing else.
Unmarked(out) == out \in Seq(Quiet)
Marked(out) ==
    /\ Len(out) > 1 /\ out[Len(out)] = DoneEvent /\ out[Len(out) - 1][1] = "final"
    /\ \A i \in 1 .. Len(out) - 1 : out[i] \in Quiet

Attempting == {"open", "connect", "read", "flush", "resolve"}

\* Until the stream is complete nothing is marked, and what a stream has sent
\* when it settles without a fault is; the chat endpoint leaves the loop as
\* soon as it has found calls.
OutInv ==
    /\ stage \in Attempting \cup {"reserve"} => Unmarked(client.out)
    /\ stage \in Attempting /\ Api = "chat" => ~client.hit
    /\ stage \in {"open", "connect", "read"} => ~client.ended
    /\ stage \in Attempting \cup {"sent"} => fault = "none"
    /\ stage \in {"flush", "resolve", "sent"} => scenario.stream
    /\ stage = "sent" => Marked(client.out)
    /\ stage = "settle" /\ fault = "none" /\ scenario.stream => Marked(client.out)
    /\ stage = "settle" /\ fault \notin {"none", "gone"} => Unmarked(client.out)
    /\ stage \in {"settle", "done", "failed", "compose"} =>
           Unmarked(client.out) \/ Marked(client.out)
    /\ stage = "compose" \/ ~scenario.stream => Unmarked(client.out)
    /\ scenario.stream /\ (\E a \in Accounts : ended[a] = "SUCCESS") =>
           stage = "done" /\ Marked(client.out)

\* The text of the event that is relayed next.
Due(evs) == IF evs # <<>> /\ evs[1].ev = "text" THEN evs[1].text ELSE <<>>

\* A text after this one cannot complete a tag.
NoTagBegun(text) == text = <<>> \/ text[Len(text)] # "lt"

\* What the sieve s holds back when the text w has gone to the client.
Holds(s, w) ==
    /\ Tags(w, "open") = {}
    /\ s.buf # <<>> => s.buf[1] = "lt"
    /\ ~s.capturing => s.buf \in {<<>>, <<"lt">>}
    /\ s.capturing => Len(s.buf) > 1 /\ s.buf[2] = "open"
    /\ s.buf = <<>> => NoTagBegun(w)

\* The text written is w, and after it images and sources only.
Embedded(text, w) ==
    /\ Len(w) <= Len(text)
    /\ \A i \in 1 .. Len(w) : text[i] = w[i]
    /\ \A i \in Len(w) + 1 .. Len(text) : text[i] = "embed"

Withheld(tools, rest) == rest = <<>> \/ (tools /\ rest[1] = "lt")

\* While the stream is read, the text of the model is what was written, what
\* the sieve holds and what the next event brings.
Carried(sc, s, a, evs, c, w, rest) ==
    /\ a.text = w \o rest /\ Embedded(c.text, w)
    /\ sc.tools => Tags(w, "open") = {}
    /\ s \in Attempting \ {"resolve"} => c.text = w
    /\ s \in Attempting \ {"resolve"} /\ ~c.hit =>
           /\ rest = c.sieve.buf \o Due(evs)
           /\ sc.tools => Holds(c.sieve, w)
    /\ s \in {"resolve", "sent"} /\ (~c.hit \/ sc.api = "chat") => Withheld(sc.tools, rest)

MarksAt(marks, text) == \A p \in marks : p \in 1 .. Len(text) /\ text[p] \in CiteMarks

\* Of the events that wait, only the first has text, and the annotations stand at
\* marks of the text.
Pending(evs, text) ==
    /\ \A i \in 2 .. Len(evs) : evs[i].ev # "text"
    /\ \A i \in 1 .. Len(evs) : evs[i].ev = "annotation" => MarksAt({evs[i].at}, text)

\* A stream at stage s, of an adapter a with pending events evs and a client c.
TextAt(sc, s, a, evs, c) ==
    /\ \E w, rest \in Texts : Carried(sc, s, a, evs, c, w, rest)
    /\ ~sc.tools => c.sieve = NewSieve /\ ~c.hit
    /\ c.hit => c.ended
    /\ s \in {"open", "connect", "read"} => ~c.sieve.done
    /\ s \in Attempting \ {"read"} => evs = <<>>
    /\ Pending(evs, a.text)
    /\ ~sc.tools => MarksAt(c.marks, c.text)

TextInv == scenario.stream => TextAt(scenario, stage, adapter, events, client)

\* One line may come after another: no title after a line of its section, no
\* scope after evidence or findings.
Follows(before, line) ==
    /\ line.text = "title" => before.section # line.section
    /\ line.section = "scope" => before.section \notin {"evidence", "finding"}

\* The lines that wait are no titles.
PlainPending(g) == \A i \in DOMAIN g.pending : g.pending[i].text # "title"

ShownThoughts(thoughts) == {i \in DOMAIN thoughts : thoughts[i][1] # "late"}

\* The thoughts shown so far, in order and of the sections the aggregator knows.
ThoughtsInOrder(thoughts, sections) ==
    /\ \A i \in ShownThoughts(thoughts) : thoughts[i][2].section \in sections
    /\ \A i, j \in ShownThoughts(thoughts) :
           i < j => Follows(thoughts[i][2], thoughts[j][2])

SummaryAt(a) == PlainPending(a.agg) /\ ThoughtsInOrder(a.thoughts, a.agg.sections)
SummaryInv == scenario.summary => SummaryAt(adapter)

BlockApis == {"responses", "messages", "console_responses", "console_messages"}

EventsAt(out, i, what) == {k \in DOMAIN out : out[k][1] = what /\ out[k][2] = i}

\* The indices in used have been opened, each once, and filled and closed while
\* they were open; those in live are open still, and no event is final.
Nested(out, used, live) ==
    /\ live \subseteq used
    /\ \A k \in DOMAIN out :
           /\ out[k][1] # "final"
           /\ out[k][1] = "open" => /\ out[k][2] \in used
                                    /\ EventsAt(out, out[k][2], "open") = {k}
           /\ out[k][1] \in {"delta", "close"} =>
                  /\ \E o \in EventsAt(out, out[k][2], "open") : o < k
                  /\ \A c \in EventsAt(out, out[k][2], "close") : c >= k
    /\ \A i \in live : EventsAt(out, i, "open") # {} /\ EventsAt(out, i, "close") = {}
    /\ \A i \in used \ live : EventsAt(out, i, "close") # {}

\* The blocks that are open, as the flags of the endpoint's client tell.
LiveBlocks(api, s, c) ==
    CASE api = "responses" -> (IF c.thinking = "open" THEN {0} ELSE {})
                              \cup (IF c.message THEN {ResponsesIndex(c)} ELSE {})
      [] api = "messages" -> IF c.thinking = "open" \/ c.message THEN {c.index} ELSE {}
      [] OTHER -> IF s = "open" THEN {} ELSE {0}

UsedBlocks(api, s, c) ==
    LiveBlocks(api, s, c)
    \cup (CASE api = "responses" -> IF c.thinking = "no" THEN {} ELSE {0}
            [] api = "messages" -> 0 .. c.index - 1
            [] OTHER -> {})

NestedAt(api, s, c) ==
    /\ Nested(c.out, UsedBlocks(api, s, c), LiveBlocks(api, s, c))
    /\ c.message => c.thinking # "open"

\* Calls have been written, and no block is open, unless a message was.
Called(c) == c.message \/ \E used : Nested(c.out, used, {})

SoundAt(api, s, c) == IF c.hit THEN Called(c) ELSE NestedAt(api, s, c)

\* No message has begun and no text waits while there may still be thoughts, and
\* the sieve holds nothing back before they are over.
ThoughtsFirst ==
    scenario.stream /\ stage \in Attempting /\ ~scenario.summary /\ Api \in BlockApis
    /\ ~Console =>
        /\ client.message /\ ~client.hit => adapter.started
        /\ \A i \in DOMAIN events : /\ events[i].ev = "text" => adapter.started
                                    /\ events[i].ev = "thinking" => ~adapter.started
        /\ client.sieve.buf # <<>> => client.thinking # "open" /\ adapter.started

BlocksInv ==
    /\ PlainBlocksNest /\ ThoughtsFirst
    /\ /\ scenario.stream /\ stage \in Attempting /\ ~scenario.summary
       /\ Api \in BlockApis
       => SoundAt(Api, stage, client)

------------------------------------------------------------------------------
\* Induction over numbers, by the least element of a set, and what a function
\* defined by recursion over 0 .. N is.

\* A nonempty set of naturals has a least element.
LEMMA LeastNatural ==
    ASSUME NEW T \in SUBSET Nat, T # {}
    PROVE  \E x \in T : \A y \in T : x <= y
<1>1. T \subseteq Nat /\ IsWellFoundedOn(OpToRel(<, Nat), Nat)
  BY NatLessThanWellFounded
<1>2. PICK x \in T : \A y \in T : ~(<<y, x>> \in OpToRel(<, Nat))
  BY <1>1, WFMin, ZenonT(30)
<1>3. \A y \in T : ~(y < x)
  BY <1>1, <1>2 DEF OpToRel
<1>4. \A y \in T : x <= y
  <2> SUFFICES ASSUME NEW y \in T PROVE x <= y
    OBVIOUS
  <2>1. x \in Nat /\ y \in Nat
    BY <1>1
  <2>2. ~(y < x)
    BY <1>3
  <2> QED BY <2>1, <2>2
<1> QED
  BY <1>4

\* Induction: a set with 0 in it that each number up to N inherits.
LEMMA Upwards ==
    ASSUME NEW N \in Nat, NEW T, 0 \in T, \A n \in 1 .. N : n - 1 \in T => n \in T
    PROVE  0 .. N \subseteq T
<1>1. SUFFICES ASSUME (0 .. N) \ T # {} PROVE FALSE
  OBVIOUS
<1>2. PICK x \in (0 .. N) \ T : \A y \in (0 .. N) \ T : x <= y
  <2> (0 .. N) \ T \in SUBSET Nat
    OBVIOUS
  <2> QED BY <1>1, LeastNatural
<1>3. x - 1 \in T
  BY <1>2
<1> QED
  BY <1>3, <1>2

StepsOf(N, S) == [1 .. N -> [S -> S]]

IsRun(f, N, S, base, step) ==
    /\ f \in [0 .. N -> S]
    /\ f[0] = base /\ \A n \in 1 .. N : f[n] = step[n][f[n - 1]]

\* Steps from S to S can be run one after the other.
LEMMA Recursion ==
    ASSUME NEW N \in Nat, NEW S, NEW base \in S, NEW step \in StepsOf(N, S)
    PROVE  \E f : IsRun(f, N, S, base, step)
<1> USE DEF StepsOf, IsRun
<1> DEFINE Partial(m, f) == /\ f \in [0 .. m -> S] /\ f[0] = base
                            /\ \A n \in 1 .. m : f[n] = step[n][f[n - 1]]
           Good == {m \in 0 .. N : \E f \in [0 .. m -> S] : Partial(m, f)}
<1>1. 0 \in Good
  <2> DEFINE g == [i \in 0 .. 0 |-> base]
  <2>1. g \in [0 .. 0 -> S] /\ g[0] = base
    OBVIOUS
  <2>2. Partial(0, g)
    BY <2>1
  <2> HIDE DEF g
  <2> QED BY <2>1, <2>2
<1>2. ASSUME NEW n \in 1 .. N, n - 1 \in Good PROVE n \in Good
  <2>1. PICK f \in [0 .. n - 1 -> S] : Partial(n - 1, f)
    BY <1>2
  <2> DEFINE g == [i \in 0 .. n |-> IF i < n THEN f[i] ELSE step[n][f[n - 1]]]
  <2>2. step[n][f[n - 1]] \in S
    BY <2>1
  <2>3. g \in [0 .. n -> S]
    BY <2>1, <2>2
  <2>4. g[0] = base
    BY <2>1
  <2>5. ASSUME NEW i \in 1 .. n PROVE g[i] = step[i][g[i - 1]]
    <3>1. CASE i < n
      BY <3>1, <2>1
    <3>2. CASE i = n
      BY <3>2
    <3> QED BY <3>1, <3>2
  <2>6. Partial(n, g)
    BY <2>3, <2>4, <2>5
  <2> HIDE DEF g, Partial
  <2>7. n \in 0 .. N
    OBVIOUS
  <2> QED BY <2>3, <2>6, <2>7
<1> HIDE DEF Good
<1>3. 0 .. N \subseteq Good
  BY <1>1, <1>2, Upwards
<1> QED
  BY <1>3 DEF Good

\* A nonempty set of positions has a first one.
LEMMA LeastOfIn ==
    ASSUME NEW S \in SUBSET Nat, S # {}
    PROVE  LeastOf(S) \in S /\ \A i \in S : LeastOf(S) <= i
  BY LeastNatural DEF LeastOf

------------------------------------------------------------------------------
\* The sieve.

SieveResults == [sieve : Sieves, safe : Texts, hit : BOOLEAN, calls : Nat]

LEMMA TagsIn ==
    ASSUME NEW text \in Texts, NEW rest
    PROVE  /\ Tags(text, rest) \in SUBSET Nat
           /\ \A i \in Tags(text, rest) : i \in 1 .. Len(text) - 1
  BY DEF Tags, Texts

\* The number of calls found is a number.
LEMMA ParseType ==
    ASSUME NEW text \in Texts
    PROVE  ParseToolCalls(text) \in [saw : BOOLEAN, calls : Nat]
<1> DEFINE xml == ParseXmlToolCalls(text)
           found == IF xml # {} THEN xml ELSE ParseOtherCalls(text)
           calls == {i \in found : text[i] # "odd"}
<1>1. xml \subseteq 1 .. Len(text) /\ ParseOtherCalls(text) \subseteq 1 .. Len(text)
  BY DEF ParseXmlToolCalls, ParseOtherCalls
<1>2. calls \subseteq 1 .. Len(text)
  BY <1>1
<1>3. IsFiniteSet(1 .. Len(text))
  BY FS_Interval DEF Texts
<1>4. Cardinality(calls) \in Nat
  <2> HIDE DEF calls
  <2> QED BY <1>2, <1>3, FS_Subset, FS_CardinalityType
<1>5. ParseToolCalls(text).calls = Cardinality(calls)
  BY DEF ParseToolCalls
<1> QED
  BY <1>4, <1>5 DEF ParseToolCalls

LEMMA CapturingType ==
    ASSUME NEW s \in Sieves, NEW chunk \in Texts
    PROVE  FeedCapturing(s, chunk) \in SieveResults
<1> DEFINE buf == s.buf \o chunk
           closes == Tags(buf, "close")
           block == SubSeq(buf, 1, LeastOf(closes) + 1)
<1>1. buf \in Texts
  BY DEF Sieves, Texts
<1>2. <<>> \in Texts
  BY DEF Texts
<1>3. CASE closes = {}
  <2>1. FeedCapturing(s, chunk) = Sifted([s EXCEPT !.buf = buf], <<>>, FALSE, 0)
    BY <1>3 DEF FeedCapturing
  <2>2. [s EXCEPT !.buf = buf] \in Sieves
    <3> HIDE DEF buf
    <3> QED BY <1>1 DEF Sieves
  <2> HIDE DEF buf, closes
  <2> QED BY <2>1, <2>2, <1>2 DEF Sifted, SieveResults
<1>4. CASE closes # {}
  <2>1. LeastOf(closes) \in 1 .. Len(buf) - 1
    <3> HIDE DEF closes
    <3>1. closes \in SUBSET Nat /\ \A i \in closes : i \in 1 .. Len(buf) - 1
      BY <1>1, TagsIn DEF closes
    <3> QED BY <3>1, <1>4, LeastOfIn
  <2>2. block \in Texts
    BY <1>1, <2>1 DEF Texts
  <2>3. ParseToolCalls(block) \in [saw : BOOLEAN, calls : Nat]
    BY <2>2, ParseType
  <2>4. FeedCapturing(s, chunk)
        = Sifted([buf |-> <<>>, capturing |-> FALSE, done |-> TRUE],
                 <<>>, ParseToolCalls(block).saw, ParseToolCalls(block).calls)
    BY <1>4 DEF FeedCapturing
  <2>5. [buf |-> <<>>, capturing |-> FALSE, done |-> TRUE] \in Sieves
    BY <1>2 DEF Sieves
  <2>6. ParseToolCalls(block).saw \in BOOLEAN /\ ParseToolCalls(block).calls \in Nat
    <3> HIDE DEF block
    <3> QED BY <2>3
  <2> HIDE DEF block, closes, buf
  <2> QED BY <2>4, <2>5, <2>6, <1>2 DEF Sifted, SieveResults
<1> QED
  BY <1>3, <1>4

LEMMA SplitType ==
    ASSUME NEW text \in Texts
    PROVE  SplitAtBoundary(text) \in [safe : Texts, leftover : Texts]
<1>1. <<>> \in Texts /\ <<"lt">> \in Texts
  BY DEF Texts, Pieces
<1>2. text # <<>> => Front(text) \in Texts
  BY DEF Front, Texts
<1> QED
  BY <1>1, <1>2 DEF SplitAtBoundary

LEMMA ScanningType ==
    ASSUME NEW s \in Sieves, NEW chunk \in Texts
    PROVE  FeedScanning(s, chunk) \in SieveResults
<1> DEFINE text == s.buf \o chunk
           opens == Tags(text, "open")
           at == LeastOf(opens)
           cut == SplitAtBoundary(text)
           inside == [s EXCEPT !.buf = SubSeq(text, at, Len(text)), !.capturing = TRUE]
<1>1. text \in Texts
  BY DEF Sieves, Texts
<1>2. CASE opens = {}
  <2>1. cut \in [safe : Texts, leftover : Texts]
    BY <1>1, SplitType
  <2>2. FeedScanning(s, chunk) = Sifted([s EXCEPT !.buf = cut.leftover], cut.safe, FALSE, 0)
    BY <1>2 DEF FeedScanning
  <2> HIDE DEF cut
  <2> QED BY <2>1, <2>2 DEF Sifted, SieveResults, Sieves
<1>3. CASE opens # {}
  <2>1. at \in 1 .. Len(text) - 1
    <3> HIDE DEF opens
    <3>1. opens \in SUBSET Nat /\ \A i \in opens : i \in 1 .. Len(text) - 1
      BY <1>1, TagsIn DEF opens
    <3> QED BY <3>1, <1>3, LeastOfIn
  <2>2. SubSeq(text, at, Len(text)) \in Texts /\ SubSeq(text, 1, at - 1) \in Texts
    <3> HIDE DEF text, at
    <3> QED BY <1>1, <2>1 DEF Texts
  <2>3. inside \in Sieves /\ <<>> \in Texts
    <3>1. <<>> \in Texts
      BY DEF Texts
    <3> HIDE DEF text, at
    <3> QED BY <2>2, <3>1 DEF Sieves
  <2>4. FeedCapturing(inside, <<>>) \in SieveResults
    <3> HIDE DEF inside
    <3> QED BY <2>3, CapturingType
  <2>5. FeedScanning(s, chunk)
        = [FeedCapturing(inside, <<>>) EXCEPT !.safe = SubSeq(text, 1, at - 1)]
    BY <1>3 DEF FeedScanning
  <2> HIDE DEF inside, text, at
  <2> QED BY <2>2, <2>4, <2>5 DEF SieveResults
<1> QED
  BY <1>2, <1>3

LEMMA SieveType ==
    ASSUME NEW s \in Sieves, NEW chunk \in Texts
    PROVE  Sieve(s, chunk) \in SieveResults
<1>1. CASE s.done \/ chunk = <<>>
  <2>1. Sieve(s, chunk) = Sifted(s, IF s.capturing THEN <<>> ELSE chunk, FALSE, 0)
    BY <1>1 DEF Sieve
  <2> QED BY <2>1 DEF Sifted, SieveResults, Texts
<1>2. CASE ~(s.done \/ chunk = <<>>)
  BY <1>2, CapturingType, ScanningType DEF Sieve
<1> QED
  BY <1>1, <1>2

LEMMA FlushType ==
    ASSUME NEW s \in Sieves
    PROVE  Flush(s) \in SieveResults
<1> DEFINE parsed == ParseToolCalls(s.buf)
           rest == [s EXCEPT !.buf = <<>>, !.done = TRUE]
<1>1. parsed \in [saw : BOOLEAN, calls : Nat]
  BY ParseType DEF Sieves
<1>2. <<>> \in Texts
  BY DEF Texts
<1>3. rest \in Sieves
  BY <1>2 DEF Sieves
<1>4. Flush(s) = IF s.done \/ s.buf = <<>> THEN Sifted(s, <<>>, FALSE, 0)
                 ELSE Sifted(rest, <<>>, parsed.saw, parsed.calls)
  BY DEF Flush
<1> HIDE DEF parsed, rest
<1> QED
  BY <1>1, <1>2, <1>3, <1>4 DEF Sifted, SieveResults

------------------------------------------------------------------------------
\* The adapters.

Emissions == [agg : Aggregators, lines : Seq(LineRecords)]
Thinkings == [ev : {"thinking"}, said : Said]

\* What the adapter makes of thoughts: events without text, and no more text.
Readings(text) == {r \in [adapter : Adapters, events : Seq(Thinkings)] : r.adapter.text = text}
Cleanings == [last : LastMarks, text : Texts]

LEMMA TitleType ==
    ASSUME NEW section \in Names
    PROVE  Title(section) \in LineRecords
  BY DEF Title, LineRecords, Names

LEMMA EmitType ==
    ASSUME NEW acc \in Emissions, NEW raw \in LineRecords
    PROVE  Emit(acc, raw) \in Emissions
<1> DEFINE g == acc.agg
           line == Promoted(g, raw)
           title == IF line.section \in g.sections THEN <<>> ELSE <<Title(line.section)>>
           after == [g EXCEPT !.sections = @ \cup {line.section},
                              !.keys = @ \cup {<<raw, line>>},
                              !.counts = IF line.track = "" THEN @ ELSE @ \cup {line}]
           out == acc.lines \o title \o <<line>>
<1>1. g \in Aggregators /\ acc.lines \in Seq(LineRecords)
  BY DEF Emissions
<1>2. line \in LineRecords
  BY DEF Promoted, LineRecords, Names
<1>3. title \in Seq(LineRecords)
  <2>1. line.section \in Names
    BY <1>2 DEF LineRecords
  <2>2. Title(line.section) \in LineRecords
    BY <2>1, TitleType
  <2> HIDE DEF line, g
  <2> QED BY <2>2
<1>4. after \in Aggregators
  <2>1. g.sections \cup {line.section} \in SUBSET Names
    <3> HIDE DEF line, g
    <3> QED BY <1>1, <1>2 DEF Aggregators, LineRecords
  <2>2. g.keys \cup {<<raw, line>>} \in SUBSET (LineRecords \X LineRecords)
    <3> HIDE DEF line, g
    <3> QED BY <1>1, <1>2 DEF Aggregators
  <2>3. (IF line.track = "" THEN g.counts ELSE g.counts \cup {line}) \in SUBSET LineRecords
    <3> HIDE DEF line, g
    <3> QED BY <1>1, <1>2 DEF Aggregators
  <2> HIDE DEF line, g
  <2> QED BY <1>1, <2>1, <2>2, <2>3 DEF Aggregators
<1>5. out \in Seq(LineRecords)
  <2> HIDE DEF title, line
  <2> QED BY <1>1, <1>2, <1>3
<1>6. Emit(acc, raw) = IF Late(g, raw) \/ Redundant(g, raw, line) THEN acc
                       ELSE [agg |-> after, lines |-> out]
  BY DEF Emit
<1> HIDE DEF after, out, line, g
<1> QED
  BY <1>4, <1>5, <1>6 DEF Emissions

\* The pending lines are emitted one after the other.
Flushing(g, f) ==
    /\ FlushPending(g) = f[Len(g.pending)]
    /\ f[0] = [agg |-> [g EXCEPT !.pending = <<>>], lines |-> <<>>]
    /\ \A n \in 1 .. Len(g.pending) : f[n] = Emit(f[n - 1], g.pending[n])
    /\ \A n \in 0 .. Len(g.pending) : f[n] \in Emissions

LEMMA FlushPendingRuns ==
    ASSUME NEW g \in Aggregators
    PROVE  \E f : Flushing(g, f)
<1> DEFINE N == Len(g.pending)
           base == [agg |-> [g EXCEPT !.pending = <<>>], lines |-> <<>>]
           step == [n \in 1 .. N |-> [acc \in Emissions |-> Emit(acc, g.pending[n])]]
           Rec(f) == f = [n \in 0 .. N |-> IF n = 0 THEN base
                                           ELSE Emit(f[n - 1], g.pending[n])]
<1>1. N \in Nat /\ \A n \in 1 .. N : g.pending[n] \in LineRecords
  BY DEF Aggregators
<1>2. base \in Emissions
  <2>1. [g EXCEPT !.pending = <<>>] \in Aggregators
    <3>1. <<>> \in Seq(LineRecords)
      OBVIOUS
    <3> QED BY <3>1 DEF Aggregators
  <2> QED BY <2>1 DEF Emissions
<1>3. step \in StepsOf(N, Emissions)
  BY <1>1, EmitType DEF StepsOf
<1>4. PICK f : IsRun(f, N, Emissions, base, step)
  <2> HIDE DEF N, base, step
  <2> QED BY <1>1, <1>2, <1>3, Recursion
<1>5. Rec(f)
  <2>1. ASSUME NEW n \in 1 .. N PROVE f[n] = Emit(f[n - 1], g.pending[n])
    <3>1. f[n - 1] \in Emissions
      <4> HIDE DEF base, step
      <4> QED BY <1>1, <1>4 DEF IsRun
    <3>2. step[n][f[n - 1]] = Emit(f[n - 1], g.pending[n])
      BY <3>1
    <3> HIDE DEF base, step
    <3> QED BY <1>4, <3>2 DEF IsRun
  <2> HIDE DEF base, step, N
  <2> QED BY <1>1, <1>4, <2>1 DEF IsRun
<1> DEFINE F == CHOOSE h : Rec(h)
<1>6. Rec(F)
  <2> HIDE DEF Rec
  <2> QED BY <1>5
<1>7. FlushPending(g) = F[N]
  BY DEF FlushPending
<1> DEFINE T == {n \in 0 .. N : F[n] \in Emissions}
<1>8. 0 \in T
  <2> HIDE DEF F
  <2> QED BY <1>1, <1>2, <1>6
<1>9. ASSUME NEW n \in 1 .. N, n - 1 \in T PROVE n \in T
  <2>1. n \in 0 .. N /\ n # 0 /\ g.pending[n] \in LineRecords
    BY <1>1
  <2>2. F[n - 1] \in Emissions
    BY <1>9
  <2>3. F[n] = Emit(F[n - 1], g.pending[n])
    <3> HIDE DEF F
    <3> QED BY <1>6, <2>1
  <2> HIDE DEF F, N
  <2> QED BY <2>1, <2>2, <2>3, EmitType
<1>10. 0 .. N \subseteq T
  <2> HIDE DEF T, N
  <2> QED BY <1>1, <1>8, <1>9, Upwards
<1>11. F[0] = base /\ \A n \in 1 .. N : F[n] = Emit(F[n - 1], g.pending[n])
  <2> HIDE DEF F, base
  <2> QED BY <1>1, <1>6
<1>12. \A n \in 0 .. N : F[n] \in Emissions
  BY <1>10
<1> HIDE DEF F
<1> QED
  BY <1>7, <1>11, <1>12 DEF Flushing

LEMMA FlushPendingType ==
    ASSUME NEW g \in Aggregators
    PROVE  FlushPending(g) \in Emissions
<1>1. PICK f : Flushing(g, f)
  BY FlushPendingRuns
<1>2. Len(g.pending) \in 0 .. Len(g.pending)
  BY DEF Aggregators
<1> QED
  BY <1>1, <1>2 DEF Flushing

LEMMA DispatchType ==
    ASSUME NEW g \in Aggregators, NEW line \in LineRecords
    PROVE  Dispatch(g, line) \in Emissions
<1> DEFINE held == [g EXCEPT !.pending = Append(@, line)]
           english == [held EXCEPT !.lang = "en"]
           ready == held.votes >= EnglishVotes \/ Len(held.pending) >= PendingLimit
<1>1. Append(g.pending, line) \in Seq(LineRecords)
  BY DEF Aggregators
<1>2. held \in Aggregators /\ english \in Aggregators
  BY <1>1 DEF Aggregators, Names
<1>3. CASE g.lang # "none"
  <2>1. FlushPending(g) \in Emissions
    BY FlushPendingType
  <2>2. Dispatch(g, line) = Emit(FlushPending(g), line)
    BY <1>3 DEF Dispatch
  <2> QED BY <2>1, <2>2, EmitType
<1>4. CASE g.lang = "none" /\ ready
  <2>1. Dispatch(g, line) = FlushPending(english)
    BY <1>4 DEF Dispatch
  <2> HIDE DEF english
  <2> QED BY <1>2, <2>1, FlushPendingType
<1>5. CASE g.lang = "none" /\ ~ready
  <2>1. Dispatch(g, line) = [agg |-> held, lines |-> <<>>]
    BY <1>5 DEF Dispatch
  <2> HIDE DEF held
  <2> QED BY <1>2, <2>1 DEF Emissions
<1> QED
  BY <1>3, <1>4, <1>5

LEMMA OnThinkingType ==
    ASSUME NEW g \in Aggregators, NEW frame,
           frame.line \in LineRecords
    PROVE  OnThinking(g, frame) \in Emissions
<1>1. ObserveLanguage(g, frame.tongue) \in Aggregators
  <2>1. "zh" \in Names
    BY DEF Names
  <2> QED BY <2>1 DEF ObserveLanguage, Aggregators
<1> QED
  BY <1>1, DispatchType DEF OnThinking

LEMMA FinalizeType ==
    ASSUME NEW g \in Aggregators
    PROVE  Finalize(g) \in Emissions
<1> DEFINE settled == [g EXCEPT !.lang = IF @ # "none" THEN @
                                         ELSE IF g.votes > 0 THEN "en" ELSE "zh"]
<1>1. settled \in Aggregators
  BY DEF Aggregators, Names
<1>2. Finalize(g) = FlushPending(settled)
  BY DEF Finalize
<1> HIDE DEF settled
<1> QED
  BY <1>1, <1>2, FlushPendingType

LEMMA AppendReasoningType ==
    ASSUME NEW text, NEW acc \in Readings(text), NEW said \in Said
    PROVE  AppendReasoning(acc, said) \in Readings(text)
<1> DEFINE key == <<said[1], Wording(said[2])>>
           a == acc.adapter
           after == [a EXCEPT !.seen = @ \cup {key}, !.thoughts = Append(@, said)]
<1>1. a \in Adapters /\ acc.events \in Seq(Thinkings) /\ a.text = text
  BY DEF Readings
<1>2. key \in Names \X Names
  BY DEF Said, Wording, LineRecords
<1>3. after \in Adapters /\ after.text = a.text
  <2>1. a.seen \cup {key} \in SUBSET (Names \X Names)
    <3> HIDE DEF key, a
    <3> QED BY <1>1, <1>2 DEF Adapters
  <2>2. Append(a.thoughts, said) \in Seq(Said)
    <3> HIDE DEF a
    <3>1. a.thoughts \in Seq(Said)
      BY <1>1 DEF Adapters
    <3> QED BY <3>1
  <2> HIDE DEF key, a
  <2> QED BY <1>1, <2>1, <2>2 DEF Adapters
<1>4. Append(acc.events, Thought(said)) \in Seq(Thinkings)
  <2>1. Thought(said) \in Thinkings
    BY DEF Thought, Thinkings
  <2> QED BY <1>1, <2>1
<1>5. AppendReasoning(acc, said) =
          IF key \in a.seen THEN acc
          ELSE [adapter |-> after, events |-> Append(acc.events, Thought(said))]
  BY DEF AppendReasoning
<1> HIDE DEF after, key, a
<1> QED
  BY <1>1, <1>3, <1>4, <1>5 DEF Readings

\* Lines are appended one after the other.
Appending(a, agent, lines, f) ==
    /\ Appended(a, agent, lines) = f[Len(lines)]
    /\ f[0] = [adapter |-> a, events |-> <<>>]
    /\ \A n \in 1 .. Len(lines) : f[n] = AppendReasoning(f[n - 1], <<agent, lines[n]>>)
    /\ \A n \in 0 .. Len(lines) : f[n] \in Readings(a.text)

LEMMA AppendedRuns ==
    ASSUME NEW a \in Adapters, NEW agent \in Names, NEW lines \in Seq(LineRecords)
    PROVE  \E f : Appending(a, agent, lines, f)
<1> DEFINE N == Len(lines)
           base == [adapter |-> a, events |-> <<>>]
           step == [n \in 1 .. N |->
                       [acc \in Readings(a.text) |-> AppendReasoning(acc, <<agent, lines[n]>>)]]
           Rec(f) == f = [n \in 0 .. N |->
                             IF n = 0 THEN base
                             ELSE AppendReasoning(f[n - 1], <<agent, lines[n]>>)]
<1>1. N \in Nat /\ \A n \in 1 .. N : <<agent, lines[n]>> \in Said
  BY DEF Said
<1>2. base \in Readings(a.text)
  BY DEF Readings
<1>3. step \in StepsOf(N, Readings(a.text))
  BY <1>1, AppendReasoningType DEF StepsOf
<1>4. PICK f : IsRun(f, N, Readings(a.text), base, step)
  <2> HIDE DEF N, base, step
  <2> QED BY <1>1, <1>2, <1>3, Recursion
<1>5. Rec(f)
  <2>1. ASSUME NEW n \in 1 .. N
        PROVE  f[n] = AppendReasoning(f[n - 1], <<agent, lines[n]>>)
    <3>1. f[n - 1] \in Readings(a.text)
      <4> HIDE DEF base, step
      <4> QED BY <1>1, <1>4 DEF IsRun
    <3>2. step[n][f[n - 1]] = AppendReasoning(f[n - 1], <<agent, lines[n]>>)
      BY <3>1
    <3> HIDE DEF base, step
    <3> QED BY <1>4, <3>2 DEF IsRun
  <2> HIDE DEF base, step, N
  <2> QED BY <1>1, <1>4, <2>1 DEF IsRun
<1> DEFINE F == CHOOSE h : Rec(h)
<1>6. Rec(F)
  <2> HIDE DEF Rec
  <2> QED BY <1>5
<1>7. Appended(a, agent, lines) = F[N]
  BY DEF Appended
<1> DEFINE T == {n \in 0 .. N : F[n] \in Readings(a.text)}
<1>8. 0 \in T
  <2> HIDE DEF F
  <2> QED BY <1>1, <1>2, <1>6
<1>9. \A n \in 1 .. N : n - 1 \in T => n \in T
  <2> HIDE DEF F
  <2> QED BY <1>1, <1>6, AppendReasoningType
<1>10. 0 .. N \subseteq T
  <2> HIDE DEF T, N
  <2> QED BY <1>1, <1>8, <1>9, Upwards
<1>11. F[0] = base /\ \A n \in 1 .. N : F[n] = AppendReasoning(F[n - 1], <<agent, lines[n]>>)
  <2>1. N \in Nat
    BY <1>1
  <2> HIDE DEF F, base, N
  <2>2. DOMAIN F = 0 .. N
    BY <1>6
  <2>3. F[0] = base
    BY <1>6, <2>1
  <2>4. ASSUME NEW n \in 1 .. N PROVE F[n] = AppendReasoning(F[n - 1], <<agent, lines[n]>>)
    <3>1. n \in 0 .. N /\ n # 0
      BY <2>1
    <3> QED BY <1>6, <3>1
  <2> QED BY <2>3, <2>4
<1>12. \A n \in 0 .. N : F[n] \in Readings(a.text)
  BY <1>10
<1> HIDE DEF F
<1> QED
  BY <1>7, <1>11, <1>12 DEF Appending

LEMMA AppendedType ==
    ASSUME NEW a \in Adapters, NEW agent \in Names, NEW lines \in Seq(LineRecords)
    PROVE  Appended(a, agent, lines) \in Readings(a.text)
<1>1. PICK f : Appending(a, agent, lines, f)
  BY AppendedRuns
<1>2. Len(lines) \in 0 .. Len(lines)
  OBVIOUS
<1> QED
  BY <1>1, <1>2 DEF Appending

LEMMA CleanedType ==
    ASSUME NEW acc \in Cleanings, NEW piece \in Pieces
    PROVE  Cleaned(acc, piece) \in Cleanings
<1>1. Append(acc.text, piece) \in Texts
  BY DEF Cleanings, Texts
<1>2. piece \in LastMarks
  BY DEF LastMarks
<1> QED
  BY <1>1, <1>2 DEF Cleaned, Cleanings, CiteMarks

LEMMA CleanTextType ==
    ASSUME NEW last \in LastMarks, NEW text \in Texts
    PROVE  CleanText(last, text) \in Cleanings
<1> DEFINE N == Len(text)
           base == [last |-> last, text |-> <<>>]
           step == [n \in 1 .. N |-> [acc \in Cleanings |-> Cleaned(acc, text[n])]]
           Rec(f) == f = [n \in 0 .. N |-> IF n = 0 THEN base ELSE Cleaned(f[n - 1], text[n])]
<1>1. N \in Nat /\ \A n \in 1 .. N : text[n] \in Pieces
  BY DEF Texts
<1>2. base \in Cleanings
  BY DEF Cleanings, Texts
<1>3. step \in StepsOf(N, Cleanings)
  BY <1>1, CleanedType DEF StepsOf
<1>4. PICK f : IsRun(f, N, Cleanings, base, step)
  <2> HIDE DEF N, base, step
  <2> QED BY <1>1, <1>2, <1>3, Recursion
<1>5. Rec(f)
  <2>1. ASSUME NEW n \in 1 .. N PROVE f[n] = Cleaned(f[n - 1], text[n])
    <3>1. f[n - 1] \in Cleanings
      <4> HIDE DEF base, step
      <4> QED BY <1>1, <1>4 DEF IsRun
    <3>2. step[n][f[n - 1]] = Cleaned(f[n - 1], text[n])
      BY <3>1
    <3> HIDE DEF base, step
    <3> QED BY <1>4, <3>2 DEF IsRun
  <2> HIDE DEF base, step, N
  <2> QED BY <1>1, <1>4, <2>1 DEF IsRun
<1> DEFINE F == CHOOSE h : Rec(h)
<1>6. Rec(F)
  <2> HIDE DEF Rec
  <2> QED BY <1>5
<1>7. CleanText(last, text) = F[N]
  BY DEF CleanText
<1> DEFINE T == {n \in 0 .. N : F[n] \in Cleanings}
<1>8. 0 \in T
  <2> HIDE DEF F
  <2> QED BY <1>1, <1>2, <1>6
<1>9. \A n \in 1 .. N : n - 1 \in T => n \in T
  <2> HIDE DEF F
  <2> QED BY <1>1, <1>6, CleanedType
<1>10. N \in T
  <2> HIDE DEF T, N
  <2> QED BY <1>1, <1>8, <1>9, Upwards
<1> QED
  BY <1>7, <1>10

\* The i-th of a finite set of positions.
LEMMA Ranked ==
    ASSUME NEW n \in Nat, NEW S \in SUBSET (1 .. n), NEW i \in 1 .. Cardinality(S)
    PROVE  \E p \in S : Cardinality({q \in S : q <= p}) = i
<1> DEFINE Upto(k) == {q \in S : q <= k}
           T == {k \in Nat : Cardinality(Upto(k)) >= i}
<1>0. \A q \in S : q \in 1 .. n
  OBVIOUS
<1>1. IsFiniteSet(S) /\ \A k \in Nat : IsFiniteSet(Upto(k)) /\ Cardinality(Upto(k)) \in Nat
  <2>1. IsFiniteSet(1 .. n)
    BY FS_Interval
  <2>2. IsFiniteSet(S)
    BY <2>1, FS_Subset
  <2>3. ASSUME NEW k \in Nat PROVE IsFiniteSet(Upto(k)) /\ Cardinality(Upto(k)) \in Nat
    <3>1. Upto(k) \subseteq S
      OBVIOUS
    <3> HIDE DEF Upto
    <3> QED BY <2>2, <3>1, FS_Subset, FS_CardinalityType
  <2> QED BY <2>2, <2>3
<1>2. n \in T
  <2>1. Upto(n) = S
    <3>1. \A q \in S : q <= n
      BY <1>0
    <3> QED BY <3>1
  <2> QED BY <2>1, <1>1
<1>3. 0 \notin T
  <2>1. Upto(0) = {}
    <3>1. \A q \in S : ~(q <= 0)
      BY <1>0
    <3> QED BY <3>1
  <2>2. Cardinality({}) = 0
    BY FS_EmptySet
  <2> QED BY <2>1, <2>2
<1>4. PICK p \in T : \A k \in T : p <= k
  <2>1. T \in SUBSET Nat /\ T # {}
    BY <1>2
  <2> QED BY <2>1, LeastNatural
<1>5. p - 1 \in Nat /\ p - 1 \notin T
  <2>1. p # 0
    BY <1>3, <1>4
  <2> HIDE DEF T
  <2>2. p \in Nat
    BY <1>4 DEF T
  <2> QED BY <1>4, <2>1, <2>2
<1>6. Cardinality(Upto(p - 1)) < i /\ Cardinality(Upto(p)) >= i /\ p \in Nat
  <2>1. p \in Nat /\ Cardinality(Upto(p)) >= i
    BY <1>4
  <2>2. ~(Cardinality(Upto(p - 1)) >= i) /\ Cardinality(Upto(p - 1)) \in Nat
    BY <1>1, <1>5
  <2> HIDE DEF Upto
  <2> QED BY <2>1, <2>2
<1>7. p \in S
  <2>1. SUFFICES ASSUME p \notin S PROVE FALSE
    OBVIOUS
  <2>2. Upto(p) = Upto(p - 1)
    <3>1. \A q \in S : q <= p <=> q <= p - 1
      BY <1>0, <1>6, <2>1
    <3> QED BY <3>1
  <2> HIDE DEF Upto
  <2> QED BY <1>6, <2>2, <1>1, <1>5
<1>8. Cardinality(Upto(p)) = Cardinality(Upto(p - 1)) + 1
  <2>1. Upto(p) = Upto(p - 1) \cup {p} /\ p \notin Upto(p - 1)
    <3>1. \A q \in S : q <= p <=> q <= p - 1 \/ q = p
      BY <1>0, <1>6
    <3>2. ~(p <= p - 1)
      BY <1>6
    <3> QED BY <1>7, <3>1, <3>2
  <2> HIDE DEF Upto
  <2> QED BY <2>1, <1>1, <1>5, FS_AddElement
<1>9. Cardinality(Upto(p)) = i
  <2> HIDE DEF Upto
  <2> QED BY <1>1, <1>5, <1>6, <1>8
<1> QED
  BY <1>7, <1>9

Annotations == [ev : {"annotation"}, at : Nat, mark : Pieces]

Annotated(a, text, anns, fed) ==
    /\ text \in Texts /\ anns \in Seq(Annotations)
    /\ \A i \in DOMAIN anns : /\ anns[i].at \in 1 .. Len(a.text \o text)
                              /\ (a.text \o text)[anns[i].at] \in CiteMarks
    /\ fed.adapter \in Adapters /\ fed.adapter.text = a.text \o text
    /\ fed.events = IF text = <<>> THEN <<>>
                    ELSE <<[ev |-> "text", text |-> text]>> \o anns

\* Text is taken over but for the marks that repeat; an annotation stands at a
\* mark.
LEMMA OnTextIs ==
    ASSUME NEW a \in Adapters, NEW frame, frame.text \in Texts
    PROVE  \E text, anns : Annotated(a, text, anns, OnText(a, frame))
<1> DEFINE c == CleanText(a.last, frame.text)
           text == c.text
           at == {i \in 1 .. Len(text) : text[i] \in CiteMarks}
           Pos(i) == CHOOSE p \in at : Cardinality({q \in at : q <= p}) = i
           anns == [i \in 1 .. Cardinality(at) |->
                       [ev |-> "annotation", at |-> Len(a.text) + Pos(i), mark |-> text[Pos(i)]]]
           after == [a EXCEPT !.started = TRUE, !.last = c.last, !.text = @ \o text,
                              !.marks = @ \cup {anns[i].at : i \in DOMAIN anns}]
<1>1. c \in Cleanings
  BY CleanTextType DEF Adapters
<1>2. text \in Texts /\ Len(text) \in Nat /\ a.text \in Texts /\ Len(a.text) \in Nat
  <2>1. text \in Texts /\ a.text \in Texts
    <3> HIDE DEF c
    <3> QED BY <1>1 DEF Cleanings, Adapters
  <2> HIDE DEF text
  <2> QED BY <2>1 DEF Texts
<1>3. Cardinality(at) \in Nat
  <2>1. IsFiniteSet(1 .. Len(text))
    BY <1>2, FS_Interval
  <2>2. at \subseteq 1 .. Len(text)
    OBVIOUS
  <2> HIDE DEF at, text
  <2> QED BY <2>1, <2>2, FS_Subset, FS_CardinalityType
<1>4. ASSUME NEW i \in 1 .. Cardinality(at) PROVE Pos(i) \in at
  <2>1. at \in SUBSET (1 .. Len(text))
    OBVIOUS
  <2>2. \E p \in at : Cardinality({q \in at : q <= p}) = i
    <3> HIDE DEF at, text
    <3> QED BY <1>2, <2>1, Ranked
  <2> HIDE DEF at, text
  <2> QED BY <2>2
<1>5. ASSUME NEW i \in 1 .. Cardinality(at)
      PROVE  /\ anns[i] \in [ev : {"annotation"}, at : Nat, mark : Pieces]
             /\ anns[i].at \in 1 .. Len(a.text \o text)
             /\ (a.text \o text)[anns[i].at] \in CiteMarks
  <2>1. Pos(i) \in 1 .. Len(text) /\ text[Pos(i)] \in CiteMarks
    BY <1>4
  <2>2. anns[i] = [ev |-> "annotation", at |-> Len(a.text) + Pos(i), mark |-> text[Pos(i)]]
    <3> HIDE DEF at, text, Pos
    <3> QED OBVIOUS
  <2> HIDE DEF Pos, anns, at, text
  <2>3. text[Pos(i)] \in Pieces
    BY <1>2, <2>1 DEF Texts
  <2>4. Len(a.text \o text) = Len(a.text) + Len(text)
        /\ (a.text \o text)[Len(a.text) + Pos(i)] = text[Pos(i)]
    <3> DEFINE u == a.text
               p == Pos(i)
    <3>1. u \in Seq(Pieces) /\ text \in Seq(Pieces) /\ p \in 1 .. Len(text)
      BY <1>2, <2>1 DEF Texts
    <3> HIDE DEF u, p
    <3>2. Len(u \o text) = Len(u) + Len(text)
      BY <3>1
    <3>3. (u \o text)[Len(u) + p] = text[p]
      BY <3>1
    <3> QED BY <3>2, <3>3 DEF u, p
  <2> QED BY <1>2, <2>1, <2>2, <2>3, <2>4
<1>6. anns \in Seq([ev : {"annotation"}, at : Nat, mark : Pieces])
      /\ DOMAIN anns = 1 .. Cardinality(at)
  <2>1. \A i \in 1 .. Cardinality(at) :
            [ev |-> "annotation", at |-> Len(a.text) + Pos(i), mark |-> text[Pos(i)]]
            \in [ev : {"annotation"}, at : Nat, mark : Pieces]
    BY <1>5
  <2> DEFINE A == [ev : {"annotation"}, at : Nat, mark : Pieces]
             e(i) == [ev |-> "annotation", at |-> Len(a.text) + Pos(i), mark |-> text[Pos(i)]]
             N == Cardinality(at)
  <2>2. \A i \in 1 .. N : e(i) \in A
    BY <2>1
  <2>3. anns = [i \in 1 .. N |-> e(i)] /\ N \in Nat
    BY <1>3
  <2> HIDE DEF anns, A, e, N
  <2>4. anns \in Seq(A) /\ DOMAIN anns = 1 .. N
    BY <2>2, <2>3
  <2> QED BY <2>4 DEF A, N
<1>7. after \in Adapters /\ after.text = a.text \o text
  <2>1. a.text \o text \in Texts
    <3> HIDE DEF text
    <3> QED BY <1>2 DEF Texts
  <2>2. a.marks \cup {anns[i].at : i \in DOMAIN anns} \in SUBSET Nat
    <3>1. \A i \in DOMAIN anns : anns[i].at \in Nat
      BY <1>5, <1>6, <1>2
    <3> HIDE DEF anns
    <3> QED BY <3>1 DEF Adapters
  <2>3. c.last \in LastMarks
    <3> HIDE DEF c
    <3> QED BY <1>1 DEF Cleanings
  <2> HIDE DEF c, text, anns
  <2> QED BY <2>1, <2>2, <2>3 DEF Adapters
<1>8. OnText(a, frame) = [adapter |-> after,
                          events |-> IF text = <<>> THEN <<>>
                                     ELSE <<[ev |-> "text", text |-> text]>> \o anns]
  BY DEF OnText
<1>9. /\ \A i \in DOMAIN anns : /\ anns[i].at \in 1 .. Len(a.text \o text)
                                /\ (a.text \o text)[anns[i].at] \in CiteMarks
      /\ OnText(a, frame).adapter = after
      /\ OnText(a, frame).events = IF text = <<>> THEN <<>>
                                   ELSE <<[ev |-> "text", text |-> text]>> \o anns
  <2> HIDE DEF anns, text, after, at
  <2> QED BY <1>5, <1>6, <1>8
<1> HIDE DEF anns, text, after, at
<1> QED
  BY <1>2, <1>6, <1>7, <1>9 DEF Annotated, Annotations

\* What a frame may bring: no text at all, or text first and marks after it.
Textless(evs) == \A i \in DOMAIN evs : evs[i].ev \in {"thinking", "image", "soft_stop"}

Texted(evs, text, all) ==
    /\ Len(evs) >= 1 /\ evs[1] = [ev |-> "text", text |-> text]
    /\ \A i \in 2 .. Len(evs) :
           /\ evs[i].ev = "annotation"
           /\ evs[i].at \in 1 .. Len(all) /\ all[evs[i].at] \in CiteMarks

Fed(a, fed) ==
    /\ fed.adapter \in Adapters /\ fed.events \in Seq(RelayEvents)
    /\ \/ fed.adapter.text = a.text /\ Textless(fed.events)
       \/ \E text \in Texts : /\ fed.adapter.text = a.text \o text
                              /\ Texted(fed.events, text, fed.adapter.text)

LEMMA ReadingsFed ==
    ASSUME NEW a \in Adapters, NEW r \in Readings(a.text)
    PROVE  Fed(a, r)
<1>1. r.adapter \in Adapters /\ r.adapter.text = a.text /\ r.events \in Seq(Thinkings)
  BY DEF Readings
<1>2. \A i \in DOMAIN r.events : r.events[i] \in Thinkings
  BY <1>1
<1>3. r.events \in Seq(RelayEvents)
  <2>1. Thinkings \subseteq RelayEvents
    BY DEF RelayEvents, Thinkings
  <2> QED BY <1>1, <2>1
<1> QED
  BY <1>1, <1>2, <1>3 DEF Fed, Textless, Thinkings

LEMMA OnTextFed ==
    ASSUME NEW a \in Adapters, NEW frame, frame.text \in Texts
    PROVE  Fed(a, OnText(a, frame))
<1> DEFINE A == Annotations
           fed == OnText(a, frame)
<1>1. PICK text, anns : Annotated(a, text, anns, fed)
  BY OnTextIs
<1>2. /\ text \in Texts /\ anns \in Seq(A)
      /\ \A i \in DOMAIN anns : /\ anns[i].at \in 1 .. Len(a.text \o text)
                                /\ (a.text \o text)[anns[i].at] \in CiteMarks
      /\ fed.adapter \in Adapters
      /\ fed.adapter.text = a.text \o text
      /\ fed.events = IF text = <<>> THEN <<>>
                      ELSE <<[ev |-> "text", text |-> text]>> \o anns
  <2> HIDE DEF fed
  <2> QED BY <1>1 DEF Annotated
<1> DEFINE first == [ev |-> "text", text |-> text]
           all == a.text \o text
<1> HIDE DEF fed
<1>3. CASE text = <<>>
  <2>1. a.text \o text = a.text
    BY <1>2, <1>3 DEF Adapters, Texts
  <2>2. fed.events = <<>> /\ fed.events \in Seq(RelayEvents) /\ Textless(fed.events)
    BY <1>2, <1>3 DEF Textless
  <2>3. Fed(a, fed)
    BY <1>2, <2>1, <2>2 DEF Fed
  <2> QED BY <2>3 DEF fed
<1>4. CASE text # <<>>
  <2>1. first \in RelayEvents /\ A \subseteq RelayEvents
    BY <1>2 DEF RelayEvents, Annotations
  <2>2. anns \in Seq(RelayEvents)
    <3> HIDE DEF A
    <3> QED BY <1>2, <2>1
  <2> HIDE DEF first
  <2>3. fed.events = <<first>> \o anns
    BY <1>2, <1>4 DEF first
  <2>4. fed.events \in Seq(RelayEvents)
    BY <2>1, <2>2, <2>3
  <2>5. /\ Len(fed.events) = Len(anns) + 1 /\ fed.events[1] = first /\ Len(anns) \in Nat
        /\ \A i \in 2 .. Len(fed.events) : fed.events[i] = anns[i - 1] /\ i - 1 \in DOMAIN anns
    <3> HIDE DEF A
    <3>1. DOMAIN anns = 1 .. Len(anns) /\ Len(anns) \in Nat
      BY <1>2
    <3>2. Len(<<first>>) = 1 /\ <<first>>[1] = first
      OBVIOUS
    <3> QED BY <2>3, <3>1, <3>2
  <2>6. \A i \in DOMAIN anns : anns[i].ev = "annotation"
    <3>1. \A i \in DOMAIN anns : anns[i] \in A
      <4> HIDE DEF A
      <4> QED BY <1>2
    <3> QED BY <3>1 DEF Annotations
  <2>7. Texted(fed.events, text, fed.adapter.text)
    <3> HIDE DEF A
    <3> QED BY <1>2, <2>5, <2>6 DEF Texted, first
  <2>8. Fed(a, fed)
    BY <1>2, <2>4, <2>7 DEF Fed
  <2> QED BY <2>8 DEF fed
<1> QED
  BY <1>3, <1>4

LEMMA LinesAreRecords == Lines \subseteq LineRecords
  BY DEF Lines, LineRecords, Names

LEMMA ThoughtFed ==
    ASSUME NEW a \in Adapters, NEW frame, NEW summary \in BOOLEAN,
           frame.line \in LineRecords, frame.agent \in Names, frame.kind \in {"think", "tool"}
    PROVE  Fed(a, OnThought(a, frame, summary))
<1>1. CASE a.started /\ frame.kind = "think"
  <2> DEFINE after == [a EXCEPT !.thoughts = Append(@, <<"late", frame.line>>)]
  <2>1. <<"late", frame.line>> \in Said
    BY DEF Said, Names
  <2>2. Append(a.thoughts, <<"late", frame.line>>) \in Seq(Said)
    <3>1. a.thoughts \in Seq(Said)
      BY DEF Adapters
    <3> QED BY <2>1, <3>1
  <2>3. after \in Adapters /\ after.text = a.text
    BY <2>2 DEF Adapters
  <2>4. OnThought(a, frame, summary) = [adapter |-> after, events |-> <<>>]
    BY <1>1 DEF OnThought
  <2> HIDE DEF after
  <2> QED BY <2>3, <2>4 DEF Fed, Textless
<1>2. CASE a.started /\ frame.kind = "tool"
  <2>1. OnThought(a, frame, summary) = [adapter |-> a, events |-> <<>>]
    BY <1>2 DEF OnThought
  <2> QED BY <2>1 DEF Fed, Textless
<1>3. CASE ~a.started /\ summary
  <2> DEFINE d == OnThinking(a.agg, frame)
             b == [a EXCEPT !.agg = d.agg]
  <2>1. d \in Emissions
    BY OnThinkingType DEF Adapters
  <2>2. d.agg \in Aggregators /\ d.lines \in Seq(LineRecords)
    <3> HIDE DEF d
    <3> QED BY <2>1 DEF Emissions
  <2>3. b \in Adapters /\ b.text = a.text
    <3> HIDE DEF d
    <3> QED BY <2>2 DEF Adapters
  <2>4. "" \in Names
    BY DEF Names
  <2>5. Appended(b, "", d.lines) \in Readings(a.text)
    <3> HIDE DEF b, d
    <3> QED BY <2>2, <2>3, <2>4, AppendedType
  <2>6. OnThought(a, frame, summary) = Appended(b, "", d.lines)
    BY <1>3 DEF OnThought, Summarized
  <2> HIDE DEF b, d
  <2> QED BY <2>5, <2>6, ReadingsFed
<1>4. CASE ~a.started /\ ~summary
  <2> DEFINE header == <<frame.agent, Title("agent")>>
             b == [a EXCEPT !.agent = IF frame.agent = "" THEN @ ELSE frame.agent]
             h == [b EXCEPT !.thoughts = Append(@, header)]
             line == <<frame.line>>
  <2>1. b \in Adapters /\ b.text = a.text
    BY DEF Adapters
  <2>2. header \in Said
    <3>1. Title("agent") \in LineRecords
      <4>1. "agent" \in Names
        BY DEF Names
      <4> QED BY <4>1, TitleType
    <3> QED BY <3>1 DEF Said
  <2>3. h \in Adapters /\ h.text = a.text
    <3>1. Append(b.thoughts, header) \in Seq(Said)
      <4>1. b.thoughts \in Seq(Said)
        <5> HIDE DEF b
        <5> QED BY <2>1 DEF Adapters
      <4> HIDE DEF b, header
      <4> QED BY <4>1, <2>2
    <3> HIDE DEF b, header
    <3> QED BY <2>1, <3>1 DEF Adapters
  <2>4. line \in Seq(LineRecords)
    OBVIOUS
  <2>5. /\ Appended(b, frame.agent, line) \in Readings(a.text)
        /\ Appended(h, frame.agent, line) \in Readings(a.text)
    <3> HIDE DEF b, h, line
    <3> QED BY <2>1, <2>3, <2>4, AppendedType
  <2> DEFINE d == Appended(h, frame.agent, line)
             headed == [d EXCEPT !.events = <<Thought(header)>> \o @]
  <2>6. headed \in Readings(a.text)
    <3>1. Thought(header) \in Thinkings
      <4> HIDE DEF header
      <4> QED BY <2>2 DEF Thought, Thinkings
    <3> HIDE DEF d, header
    <3>2. <<Thought(header)>> \o d.events \in Seq(Thinkings)
      <4>1. d.events \in Seq(Thinkings)
        BY <2>5 DEF Readings, d
      <4> QED BY <3>1, <4>1
    <3> QED BY <2>5, <3>2 DEF Readings, d
  <2>7. OnThought(a, frame, summary) \in {Appended(b, frame.agent, line), headed}
    BY <1>4 DEF OnThought, Detailed
  <2> HIDE DEF b, h, d, headed, line
  <2> QED BY <2>5, <2>6, <2>7, ReadingsFed
<1> QED
  BY <1>1, <1>2, <1>3, <1>4

LEMMA StopFed ==
    ASSUME NEW a \in Adapters, NEW summary \in BOOLEAN
    PROVE  Fed(a, OnStop(a, summary))
<1> DEFINE stop == [ev |-> "soft_stop"]
<1>1. stop \in RelayEvents
  BY DEF RelayEvents
<1>2. CASE ~summary
  <2>1. OnStop(a, summary) = [adapter |-> a, events |-> <<stop>>]
    BY <1>2 DEF OnStop
  <2>2. <<stop>> \in Seq(RelayEvents)
    BY <1>1
  <2> QED BY <2>1, <2>2 DEF Fed, Textless
<1>3. CASE summary
  <2> DEFINE f == Finalize(a.agg)
             b == [a EXCEPT !.agg = f.agg]
             d == Appended(b, "", f.lines)
  <2>1. f \in Emissions
    BY FinalizeType DEF Adapters
  <2>2. f.agg \in Aggregators /\ f.lines \in Seq(LineRecords)
    <3> HIDE DEF f
    <3> QED BY <2>1 DEF Emissions
  <2>3. b \in Adapters /\ b.text = a.text
    <3> HIDE DEF f
    <3> QED BY <2>2 DEF Adapters
  <2>4. "" \in Names
    BY DEF Names
  <2>5. d \in Readings(a.text)
    <3> HIDE DEF b, f
    <3> QED BY <2>2, <2>3, <2>4, AppendedType
  <2>6. d.adapter \in Adapters /\ d.adapter.text = a.text /\ d.events \in Seq(Thinkings)
    <3> HIDE DEF d
    <3> QED BY <2>5 DEF Readings
  <2>7. OnStop(a, summary) = [d EXCEPT !.events = Append(@, stop)]
    BY <1>3 DEF OnStop
  <2> HIDE DEF d, stop
  <2>8. d.events \in Seq(RelayEvents)
    <3>1. Thinkings \subseteq RelayEvents
      BY DEF RelayEvents, Thinkings
    <3> QED BY <2>6, <3>1
  <2>9. Append(d.events, stop) \in Seq(RelayEvents)
    BY <1>1, <2>8
  <2>10. Textless(Append(d.events, stop))
    <3>1. SUFFICES ASSUME NEW i \in DOMAIN Append(d.events, stop)
                   PROVE  Append(d.events, stop)[i].ev \in {"thinking", "soft_stop"}
      BY DEF Textless
    <3>2. Append(d.events, stop)[i] = stop
          \/ (i \in DOMAIN d.events /\ Append(d.events, stop)[i] = d.events[i])
      BY <2>6
    <3>3. i \in DOMAIN d.events => d.events[i] \in Thinkings
      BY <2>6
    <3> QED BY <3>2, <3>3 DEF Thinkings, stop
  <2>11. OnStop(a, summary).adapter = d.adapter
         /\ OnStop(a, summary).events = Append(d.events, stop)
    BY <2>5, <2>7 DEF Readings
  <2> QED BY <2>6, <2>9, <2>10, <2>11 DEF Fed
<1> QED
  BY <1>2, <1>3

\* One data line of the upstream.
LEMMA FeedIs ==
    ASSUME NEW a \in Adapters, NEW f \in Frames, NEW summary \in BOOLEAN
    PROVE  Fed(a, AdapterFeed(a, f, summary)) /\ Fed(a, ConsoleFeed(a, f))
<1>1. Fed(a, AdapterFeed(a, f, summary))
  <2>1. CASE f.kind \in {"think", "tool"}
    <3>1. f.line \in LineRecords /\ f.agent \in Names
      BY <2>1, LinesAreRecords DEF Frames, Names
    <3> QED BY <2>1, <3>1, ThoughtFed DEF AdapterFeed
  <2>2. CASE f.kind = "text"
    <3>1. f.text \in Texts
      BY <2>2 DEF Frames, Texts
    <3> QED BY <2>2, <3>1, OnTextFed DEF AdapterFeed
  <2>3. CASE f.kind = "image"
    <3> DEFINE after == [a EXCEPT !.images = @ + 1]
               image == [ev |-> "image"]
    <3>1. after \in Adapters /\ after.text = a.text
      BY DEF Adapters
    <3>2. AdapterFeed(a, f, summary) = [adapter |-> after, events |-> <<image>>]
      BY <2>3 DEF AdapterFeed
    <3>3. image \in RelayEvents
      BY DEF RelayEvents
    <3>4. <<image>> \in Seq(RelayEvents)
      BY <3>3
    <3> HIDE DEF after
    <3> QED BY <3>1, <3>2, <3>4 DEF Fed, Textless
  <2>4. CASE f.kind = "source"
    <3> DEFINE after == [a EXCEPT !.sources = 1]
    <3>1. after \in Adapters /\ after.text = a.text
      BY DEF Adapters
    <3>2. AdapterFeed(a, f, summary) = [adapter |-> after, events |-> <<>>]
      BY <2>4 DEF AdapterFeed
    <3> HIDE DEF after
    <3> QED BY <3>1, <3>2 DEF Fed, Textless
  <2>5. CASE f.kind = "stop"
    BY <2>5, StopFed DEF AdapterFeed
  <2> QED BY <2>1, <2>2, <2>3, <2>4, <2>5 DEF Frames
<1>2. Fed(a, ConsoleFeed(a, f))
  <2>1. CASE f.kind = "text" /\ ~a.started
    <3> DEFINE after == [a EXCEPT !.text = @ \o f.text]
               event == [ev |-> "text", text |-> f.text]
    <3>1. f.text \in Texts
      BY <2>1 DEF Frames, Texts
    <3>2. after \in Adapters /\ after.text = a.text \o f.text
      <4>1. a.text \o f.text \in Texts
        BY <3>1 DEF Adapters, Texts
      <4> QED BY <4>1 DEF Adapters
    <3>3. ConsoleFeed(a, f) = [adapter |-> after, events |-> <<event>>]
      BY <2>1 DEF ConsoleFeed
    <3>4. event \in RelayEvents
      BY <3>1 DEF RelayEvents
    <3>5. <<event>> \in Seq(RelayEvents)
      BY <3>4
    <3>6. Texted(<<event>>, f.text, after.text)
      BY DEF Texted
    <3> DEFINE fed == ConsoleFeed(a, f)
    <3>7. fed.adapter = after /\ fed.events = <<event>>
      BY <3>3
    <3> HIDE DEF after, event, fed
    <3>8. Fed(a, fed)
      BY <3>1, <3>2, <3>5, <3>6, <3>7 DEF Fed
    <3> QED BY <3>8 DEF fed
  <2>2. CASE f.kind = "stop"
    <3> DEFINE after == [a EXCEPT !.started = TRUE]
    <3>1. after \in Adapters /\ after.text = a.text
      BY DEF Adapters
    <3>2. ConsoleFeed(a, f) = [adapter |-> after, events |-> <<>>]
      BY <2>2 DEF ConsoleFeed
    <3> HIDE DEF after
    <3> QED BY <3>1, <3>2 DEF Fed, Textless
  <2>3. CASE ~(f.kind = "text" /\ ~a.started) /\ f.kind # "stop"
    <3>1. ConsoleFeed(a, f) = [adapter |-> a, events |-> <<>>]
      BY <2>3 DEF ConsoleFeed
    <3> QED BY <3>1 DEF Fed, Textless
  <2> QED BY <2>1, <2>2, <2>3
<1> QED
  BY <1>1, <1>2

------------------------------------------------------------------------------
\* What the endpoints write.

QuietClient(c) == c \in Clients /\ Unmarked(c.out)

\* A client that differs in the events and the blocks only.
SameText(c, d) ==
    /\ d.text = c.text /\ d.sieve = c.sieve /\ d.hit = c.hit /\ d.ended = c.ended
    /\ d.marks = c.marks /\ d.images = c.images

LEMMA QuietSent == \A out \in Seq(Quiet) : out \in Sent
<1> SUFFICES ASSUME NEW out \in Seq(Quiet) PROVE out \in Seq(SentEvents)
  BY DEF Sent
<1>1. \A x \in Quiet : x \in SentEvents
  BY DEF SentEvents
<1> QED
  BY <1>1

LEMMA QuietSaid ==
    ASSUME NEW c, QuietClient(c), NEW evs \in Seq(Quiet)
    PROVE  QuietClient(Say(c, evs)) /\ SameText(c, Say(c, evs))
<1>1. c.out \o evs \in Seq(Quiet)
  BY DEF QuietClient, Unmarked
<1>2. c.out \o evs \in Sent
  BY <1>1, QuietSent
<1> QED
  BY <1>1, <1>2 DEF QuietClient, Unmarked, Say, SameText, Clients

LEMMA QuietWritten ==
    ASSUME NEW c, QuietClient(c), NEW chunk \in Shown, NEW evs \in Seq(Quiet)
    PROVE  /\ QuietClient(Write(c, chunk, evs))
           /\ SameText([c EXCEPT !.text = @ \o chunk], Write(c, chunk, evs))
<1> DEFINE d == Say(c, evs)
<1>1. QuietClient(d) /\ SameText(c, d)
  BY QuietSaid
<1>2. d.text \o chunk \in Shown
  <2>1. d.text \in Shown
    <3> HIDE DEF d
    <3> QED BY <1>1 DEF QuietClient, Clients
  <2> HIDE DEF d
  <2> QED BY <2>1 DEF Shown
<1>3. Write(c, chunk, evs) = [d EXCEPT !.text = @ \o chunk]
  BY DEF Write
<1>4. c \in Clients
  BY DEF QuietClient
<1> HIDE DEF d
<1> QED
  BY <1>1, <1>2, <1>3, <1>4 DEF QuietClient, SameText, Clients

LEMMA CallEventsQuiet ==
    ASSUME NEW first \in Int, NEW n \in Nat
    PROVE  CallEvents(first, n) \in Seq(Quiet)
<1>1. ASSUME NEW k \in 1 .. 3 * n
      PROVE  <<CASE k % 3 = 1 -> "open" [] k % 3 = 2 -> "delta" [] OTHER -> "close",
               first + (k - 1) \div 3, "call">> \in Quiet
  <2>1. first + (k - 1) \div 3 \in Int
    OBVIOUS
  <2> QED BY <2>1 DEF Quiet, Blocks
<1> DEFINE event(k) == <<CASE k % 3 = 1 -> "open" [] k % 3 = 2 -> "delta" [] OTHER -> "close",
                         first + (k - 1) \div 3, "call">>
<1>2. 3 * n \in Nat
  OBVIOUS
<1>3. \A k \in 1 .. 3 * n : event(k) \in Quiet
  BY <1>1
<1>4. CallEvents(first, n) = [k \in 1 .. 3 * n |-> event(k)]
  BY DEF CallEvents
<1> HIDE DEF event
<1> QED
  BY <1>2, <1>3, <1>4

\* The final event and the end mark complete what was written so far.
LEMMA Completed ==
    ASSUME NEW out \in Seq(Quiet), NEW evs \in Seq(Quiet), NEW block \in Blocks
    PROVE  LET all == out \o (evs \o << <<"final", 0, block>>, <<"DONE", 0, "">> >>)
           IN  all \in Sent /\ Marked(all)
<1> DEFINE final == <<"final", 0, block>>
           done == <<"DONE", 0, "">>
           all == out \o (evs \o <<final, done>>)
           n == Len(out) + Len(evs)
<1>1. final \in Quiet /\ final[1] = "final"
  BY DEF Quiet
<1>2. done = DoneEvent
  BY DEF DoneEvent
<1> HIDE DEF final, done
<1>3. all \in Sent
  <2>1. final \in SentEvents /\ done \in SentEvents
    BY <1>1, <1>2 DEF SentEvents
  <2>2. out \in Seq(SentEvents) /\ evs \in Seq(SentEvents)
    BY QuietSent DEF Sent
  <2> QED BY <2>1, <2>2 DEF Sent
<1>4. Len(all) = n + 2 /\ all[n + 2] = done /\ all[n + 1] = final /\ n \in Nat
  OBVIOUS
<1>5. \A i \in 1 .. n : all[i] \in Quiet
  <2> SUFFICES ASSUME NEW i \in 1 .. n PROVE all[i] \in Quiet
    OBVIOUS
  <2>1. CASE i <= Len(out)
    BY <2>1
  <2>2. CASE i > Len(out)
    BY <2>2
  <2> QED BY <2>1, <2>2
<1> HIDE DEF all, n
<1>6. Marked(all)
  <2>1. \A i \in 1 .. n + 1 : all[i] \in Quiet
    BY <1>1, <1>4, <1>5
  <2>2. Len(all) - 1 = n + 1 /\ Len(all) > 1
    BY <1>4
  <2> QED BY <1>1, <1>2, <1>4, <2>1, <2>2 DEF Marked
<1> QED
  BY <1>3, <1>6 DEF all, final, done

\* The reply is complete after c.
CompleteClient(c) == c \in Clients /\ Marked(c.out)

LEMMA ClosingSaid ==
    ASSUME NEW c, QuietClient(c), NEW evs \in Seq(Quiet), NEW block \in Blocks
    PROVE  LET d == Say(c, evs \o << <<"final", 0, block>>, <<"DONE", 0, "">> >>)
           IN  CompleteClient(d) /\ SameText(c, d)
<1> DEFINE tail == evs \o << <<"final", 0, block>>, <<"DONE", 0, "">> >>
<1>1. c.out \o tail \in Sent /\ Marked(c.out \o tail)
  BY Completed DEF QuietClient, Unmarked
<1>2. Say(c, tail) = [c EXCEPT !.out = c.out \o tail]
  BY DEF Say
<1> HIDE DEF tail
<1>3. CompleteClient(Say(c, tail)) /\ SameText(c, Say(c, tail))
  BY <1>1, <1>2 DEF QuietClient, CompleteClient, SameText, Clients
<1> QED
  BY <1>3 DEF tail

LEMMA TextsShown == Texts \subseteq Shown
  BY DEF Texts, Shown

LEMMA QuietEvents ==
    ASSUME NEW i \in Int, NEW b \in Blocks
    PROVE  /\ << <<"start", i, b>> >> \in Seq(Quiet) /\ << <<"open", i, b>> >> \in Seq(Quiet)
           /\ << <<"delta", i, b>> >> \in Seq(Quiet) /\ << <<"close", i, b>> >> \in Seq(Quiet)
           /\ << <<"open", i, b>>, <<"delta", i, b>> >> \in Seq(Quiet)
<1>1. /\ <<"start", i, b>> \in Quiet /\ <<"open", i, b>> \in Quiet
      /\ <<"delta", i, b>> \in Quiet /\ <<"close", i, b>> \in Quiet
  BY DEF Quiet
<1> QED
  BY <1>1

LEMMA BlockNames ==
    /\ "chat" \in Blocks /\ "call" \in Blocks
    /\ "thinking" \in Blocks /\ "message" \in Blocks
  BY Zenon DEF Blocks

LEMMA ZeroInt == 0 \in Int
  OBVIOUS

LEMMA NoBlockName == "" \in Blocks
  BY Zenon DEF Blocks

\* Between two events, the flags of the blocks change and nothing else.
LEMMA Adjusted ==
    ASSUME NEW c, QuietClient(c), NEW t \in {"no", "open", "closed"}, NEW m \in BOOLEAN,
           NEW i \in Nat
    PROVE  /\ QuietClient([c EXCEPT !.thinking = t]) /\ SameText(c, [c EXCEPT !.thinking = t])
           /\ QuietClient([c EXCEPT !.message = m]) /\ SameText(c, [c EXCEPT !.message = m])
           /\ QuietClient([c EXCEPT !.index = i]) /\ SameText(c, [c EXCEPT !.index = i])
  BY DEF QuietClient, SameText, Clients, Unmarked

LEMMA SieveKept ==
    ASSUME NEW c, QuietClient(c), NEW s \in Sieves
    PROVE  QuietClient([c EXCEPT !.sieve = s])
  BY DEF QuietClient, Clients, Unmarked

LEMMA SameTextThen ==
    ASSUME NEW b, NEW c, NEW d, SameText(b, c), SameText(c, d)
    PROVE  SameText(b, d)
  BY DEF SameText

\* Calls were found: the stream is at its end and the text has not grown.
CalledAfter(c, d) ==
    /\ d.hit /\ d.ended /\ d.text = c.text /\ d.sieve = c.sieve
    /\ d.marks = c.marks /\ d.images = c.images

LEMMA ChatCallsIs ==
    ASSUME NEW c, QuietClient(c), NEW n \in Nat
    PROVE  CompleteClient(ChatCalls(c, n)) /\ CalledAfter(c, ChatCalls(c, n))
<1> DEFINE evs == [i \in 1 .. n |-> <<"delta", 0, "call">>]
           said == Say(c, evs \o << <<"final", 0, "call">>, <<"DONE", 0, "">> >>)
<1>1. evs \in Seq(Quiet)
  <2> DEFINE event == <<"delta", 0, "call">>
  <2>1. event \in Quiet
    <3>1. "call" \in Blocks /\ 0 \in Int
      BY BlockNames
    <3> QED BY <3>1 DEF Quiet
  <2> HIDE DEF event
  <2>2. [i \in 1 .. n |-> event] \in Seq(Quiet)
    BY <2>1
  <2> QED BY <2>2 DEF event
<1>2. "call" \in Blocks
  BY DEF Blocks
<1>3. CompleteClient(said) /\ SameText(c, said)
  <2> HIDE DEF evs
  <2> QED BY <1>1, <1>2, ClosingSaid
<1>4. ChatCalls(c, n) = [said EXCEPT !.hit = TRUE, !.calls = n, !.ended = TRUE]
  BY DEF ChatCalls
<1> HIDE DEF said
<1> QED
  BY <1>3, <1>4 DEF CompleteClient, CalledAfter, SameText, Clients, Marked

LEMMA IndexType ==
    ASSUME NEW c
    PROVE  ResponsesIndex(c) \in {0, 1}
  BY DEF ResponsesIndex

LEMMA BlockCallsIs ==
    ASSUME NEW c, QuietClient(c), NEW n \in Nat
    PROVE  /\ QuietClient(ResponsesCalls(c, n)) /\ CalledAfter(c, ResponsesCalls(c, n))
           /\ QuietClient(MessagesCalls(c, n)) /\ CalledAfter(c, MessagesCalls(c, n))
<1> DEFINE r == Say(c, CallEvents(ResponsesIndex(c), n))
           m == Say(c, CallEvents(c.index, n))
<1>1. QuietClient(r) /\ SameText(c, r)
  <2>1. ResponsesIndex(c) \in Int
    BY IndexType
  <2> QED BY <2>1, CallEventsQuiet, QuietSaid
<1>2. QuietClient(m) /\ SameText(c, m) /\ m.index + n \in Nat
  <2>1. c.index \in Int
    BY DEF QuietClient, Clients
  <2>2. QuietClient(m) /\ SameText(c, m)
    BY <2>1, CallEventsQuiet, QuietSaid
  <2> HIDE DEF m
  <2> QED BY <2>2 DEF QuietClient, Clients
<1>3. /\ ResponsesCalls(c, n) = [r EXCEPT !.hit = TRUE, !.calls = n, !.ended = TRUE]
      /\ MessagesCalls(c, n) = [m EXCEPT !.hit = TRUE, !.calls = n, !.ended = TRUE, !.index = @ + n]
  BY DEF ResponsesCalls, MessagesCalls
<1> HIDE DEF r, m
<1>4. QuietClient(ResponsesCalls(c, n)) /\ CalledAfter(c, ResponsesCalls(c, n))
  BY <1>1, <1>3 DEF QuietClient, CalledAfter, SameText, Clients, Unmarked
<1>5. QuietClient(MessagesCalls(c, n)) /\ CalledAfter(c, MessagesCalls(c, n))
  BY <1>2, <1>3 DEF QuietClient, CalledAfter, SameText, Clients, Unmarked
<1> QED
  BY <1>4, <1>5

\* The client after a chunk has been written.
Grown(c, d, chunk) == QuietClient(d) /\ SameText([c EXCEPT !.text = @ \o chunk], d)

LEMMA GrownByNothing ==
    ASSUME NEW c, QuietClient(c), NEW d, QuietClient(d), SameText(c, d)
    PROVE  Grown(c, d, <<>>)
<1>1. c.text \o <<>> = c.text
  BY DEF QuietClient, Clients, Shown
<1>2. [c EXCEPT !.text = @ \o <<>>].text = c.text
  BY <1>1 DEF QuietClient, Clients
<1> QED
  BY <1>2 DEF Grown, SameText, QuietClient, Clients

LEMMA BlockDeltas ==
    ASSUME NEW c, QuietClient(c), NEW chunk \in Shown
    PROVE  Grown(c, ResponsesDelta(c, chunk), chunk) /\ Grown(c, MessagesDelta(c, chunk), chunk)
<1>1. CASE chunk = <<>>
  <2>1. ResponsesDelta(c, chunk) = c /\ MessagesDelta(c, chunk) = c
    BY <1>1 DEF ResponsesDelta, MessagesDelta
  <2>2. SameText(c, c)
    BY DEF SameText
  <2> QED BY <1>1, <2>1, <2>2, GrownByNothing
<1>2. CASE chunk # <<>>
  <2> DEFINE b == [c EXCEPT !.message = TRUE]
             evs(i) == (IF c.message THEN <<>> ELSE << <<"open", i, "message">> >>)
                       \o << <<"delta", i, "message">> >>
  <2>1. QuietClient(b) /\ SameText(c, b)
    <3>1. "no" \in {"no", "open", "closed"} /\ 0 \in Nat /\ TRUE \in BOOLEAN
      OBVIOUS
    <3> QED BY <3>1, Adjusted
  <2>2. ASSUME NEW i \in Int PROVE evs(i) \in Seq(Quiet)
    <3>1. /\ << <<"open", i, "message">> >> \in Seq(Quiet)
          /\ << <<"delta", i, "message">> >> \in Seq(Quiet)
      BY QuietEvents, BlockNames
    <3> QED BY <3>1
  <2>3. ResponsesIndex(c) \in Int /\ c.index \in Int
    BY IndexType DEF QuietClient, Clients
  <2>4. /\ ResponsesDelta(c, chunk) = Write(b, chunk, evs(ResponsesIndex(c)))
        /\ MessagesDelta(c, chunk) = Write(b, chunk, evs(c.index))
    BY <1>2 DEF ResponsesDelta, MessagesDelta
  <2>5. ASSUME NEW d, QuietClient(d), SameText([b EXCEPT !.text = @ \o chunk], d)
        PROVE  Grown(c, d, chunk)
    <3> HIDE DEF b
    <3> QED BY <2>1, <2>5 DEF Grown, SameText, QuietClient, Clients
  <2> HIDE DEF b, evs
  <2> QED BY <2>1, <2>2, <2>3, <2>4, <2>5, QuietWritten
<1> QED
  BY <1>1, <1>2

\* What a text event does: the safe part is written, and when calls were found
\* the stream is at its end.  Only the chat endpoint writes what stands before
\* the calls, and completes its reply with them.
Told(c, d, p, chat) ==
    /\ d.sieve = p.sieve /\ d.marks = c.marks /\ d.images = c.images
    /\ d.text = IF p.hit /\ ~chat THEN c.text ELSE c.text \o p.safe
    /\ p.hit => d.hit /\ d.ended
    /\ ~p.hit => d.hit = c.hit /\ d.ended = c.ended
    /\ IF p.hit /\ chat THEN CompleteClient(d) ELSE QuietClient(d)

LEMMA PassedType ==
    ASSUME NEW c \in Clients, NEW text \in Texts, NEW tools \in BOOLEAN
    PROVE  Passed(c, text, tools) \in SieveResults
<1>1. c.sieve \in Sieves
  BY DEF Clients
<1>2. CASE tools
  BY <1>1, <1>2, SieveType DEF Passed
<1>3. CASE ~tools
  BY <1>1, <1>3 DEF Passed, Sifted, SieveResults
<1> QED
  BY <1>2, <1>3

LEMMA ChatTextTold ==
    ASSUME NEW c, QuietClient(c), NEW text \in Texts, NEW tools \in BOOLEAN
    PROVE  Told(c, ChatText(c, text, tools), Passed(c, text, tools), TRUE)
<1> DEFINE p == Passed(c, text, tools)
           b == [c EXCEPT !.sieve = p.sieve]
           evs == IF p.safe = <<>> THEN <<>> ELSE ChatDelta
           d == Write(b, p.safe, evs)
<1>1. p \in SieveResults
  BY PassedType DEF QuietClient
<1> HIDE DEF p
<1>2. p.sieve \in Sieves /\ p.safe \in Shown /\ p.calls \in Nat /\ p.hit \in BOOLEAN
  BY <1>1, TextsShown DEF SieveResults
<1>3. QuietClient(b) /\ b.text = c.text
  BY <1>2, SieveKept DEF QuietClient, Clients
<1>4. evs \in Seq(Quiet)
  <2>1. ChatDelta \in Seq(Quiet)
    <3>1. "chat" \in Blocks /\ 0 \in Int
      BY BlockNames
    <3> QED BY <3>1, QuietEvents DEF ChatDelta
  <2> QED BY <2>1
<1>5. Grown(b, d, p.safe)
  <2> HIDE DEF b, evs
  <2> QED BY <1>2, <1>3, <1>4, QuietWritten DEF Grown
<1>6. QuietClient(d) /\ Told(c, d, [p EXCEPT !.hit = FALSE], TRUE)
  <2> HIDE DEF d
  <2> QED BY <1>1, <1>3, <1>5 DEF Grown, Told, SameText, QuietClient, Clients, SieveResults
<1>7. ChatText(c, text, tools) = IF p.hit THEN ChatCalls(d, p.calls) ELSE d
  BY DEF ChatText, p
<1> HIDE DEF d
<1>8. Told(c, ChatText(c, text, tools), p, TRUE)
  <2>1. CASE p.hit
    <3>1. CompleteClient(ChatCalls(d, p.calls)) /\ CalledAfter(d, ChatCalls(d, p.calls))
      BY <1>2, <1>6, ChatCallsIs
    <3> QED BY <1>1, <1>6, <1>7, <2>1, <3>1 DEF Told, CalledAfter, SieveResults
  <2>2. CASE ~p.hit
    BY <1>1, <1>6, <1>7, <2>2 DEF Told, SieveResults
  <2> QED BY <2>1, <2>2
<1> QED
  BY <1>8 DEF p

LEMMA BlocksTold ==
    ASSUME NEW c, QuietClient(c), NEW d, QuietClient(d), SameText(c, d),
           NEW text \in Texts, NEW tools \in BOOLEAN, NEW e,
           LET p == Passed(d, text, tools)
               b == [d EXCEPT !.sieve = p.sieve]
           IN  \/ p.hit /\ e \in {ResponsesCalls(b, p.calls), MessagesCalls(b, p.calls)}
               \/ ~p.hit /\ e \in {ResponsesDelta(b, p.safe), MessagesDelta(b, p.safe)}
    PROVE  Told(c, e, Passed(c, text, tools), FALSE)
<1> DEFINE p == Passed(d, text, tools)
           b == [d EXCEPT !.sieve = p.sieve]
<1>0. p = Passed(c, text, tools)
  BY DEF Passed, SameText
<1>1. p \in SieveResults
  BY PassedType DEF QuietClient
<1>2. \/ p.hit /\ e \in {ResponsesCalls(b, p.calls), MessagesCalls(b, p.calls)}
      \/ ~p.hit /\ e \in {ResponsesDelta(b, p.safe), MessagesDelta(b, p.safe)}
  OBVIOUS
<1> HIDE DEF p
<1>3. p.sieve \in Sieves /\ p.safe \in Shown /\ p.calls \in Nat /\ p.hit \in BOOLEAN
  BY <1>1, TextsShown DEF SieveResults
<1>4. /\ QuietClient(b) /\ b.text = c.text /\ b.sieve = p.sieve /\ b.hit = c.hit
      /\ b.ended = c.ended /\ b.marks = c.marks /\ b.images = c.images
  BY <1>3, SieveKept DEF QuietClient, Clients, SameText
<1> HIDE DEF b
<1>5. Told(c, e, p, FALSE)
  <2>1. CASE p.hit
    <3>1. QuietClient(e) /\ CalledAfter(b, e)
      BY <1>2, <1>3, <1>4, <2>1, BlockCallsIs
    <3> QED BY <1>4, <2>1, <3>1 DEF Told, CalledAfter
  <2>2. CASE ~p.hit
    <3>1. Grown(b, e, p.safe)
      BY <1>2, <1>3, <1>4, <2>2, BlockDeltas
    <3>2. [b EXCEPT !.text = @ \o p.safe].text = c.text \o p.safe
      BY <1>4 DEF QuietClient, Clients
    <3> QED BY <1>4, <2>2, <3>1, <3>2 DEF Told, Grown, SameText, QuietClient, Clients
  <2> QED BY <2>1, <2>2
<1> QED
  BY <1>0, <1>5

LEMMA ResponsesClosed ==
    ASSUME NEW c, QuietClient(c)
    PROVE  QuietClient(ResponsesCloseThinking(c)) /\ SameText(c, ResponsesCloseThinking(c))
<1> DEFINE d == ResponsesCloseThinking(c)
<1> DEFINE b == [c EXCEPT !.thinking = "closed"]
           evs == << <<"close", 0, "thinking">> >>
<1>1. QuietClient(b) /\ SameText(c, b)
  <2>1. "closed" \in {"no", "open", "closed"} /\ 0 \in Nat /\ TRUE \in BOOLEAN
    OBVIOUS
  <2> QED BY <2>1, Adjusted
<1>2. evs \in Seq(Quiet)
  <2>1. "thinking" \in Blocks /\ 0 \in Int
    BY BlockNames
  <2> QED BY <2>1, QuietEvents
<1>3. d = IF c.thinking = "open" THEN Say(b, evs) ELSE c
  BY DEF ResponsesCloseThinking
<1> HIDE DEF b, evs
<1>4. QuietClient(Say(b, evs)) /\ SameText(b, Say(b, evs))
  BY <1>1, <1>2, QuietSaid
<1>5. SameText(c, Say(b, evs)) /\ SameText(c, c)
  BY <1>1, <1>4 DEF SameText
<1> HIDE DEF d
<1> QED
  BY <1>3, <1>4, <1>5 DEF d

LEMMA ResponsesTextTold ==
    ASSUME NEW c, QuietClient(c), NEW text \in Texts, NEW tools \in BOOLEAN
    PROVE  Told(c, ResponsesText(c, text, tools), Passed(c, text, tools), FALSE)
<1> DEFINE d == ResponsesCloseThinking(c)
<1>1. QuietClient(d) /\ SameText(c, d)
  BY ResponsesClosed
<1>2. LET p == Passed(d, text, tools)
          b == [d EXCEPT !.sieve = p.sieve]
      IN  ResponsesText(c, text, tools) =
              IF p.hit THEN ResponsesCalls(b, p.calls) ELSE ResponsesDelta(b, p.safe)
  BY DEF ResponsesText
<1> HIDE DEF d
<1> QED
  BY <1>1, <1>2, BlocksTold

LEMMA MessagesCloseIs ==
    ASSUME NEW c, QuietClient(c), NEW b \in Blocks
    PROVE  QuietClient(MessagesClose(c, b)) /\ SameText(c, MessagesClose(c, b))
<1> DEFINE evs == << <<"close", c.index, b>> >>
           d == Say(c, evs)
<1>1. evs \in Seq(Quiet)
  <2>1. c.index \in Int
    BY DEF QuietClient, Clients
  <2> QED BY <2>1, QuietEvents
<1>2. QuietClient(d) /\ SameText(c, d)
  <2> HIDE DEF evs
  <2> QED BY <1>1, QuietSaid
<1>3. MessagesClose(c, b) = [d EXCEPT !.index = d.index + 1]
  BY DEF MessagesClose
<1> HIDE DEF d
<1>4. d.index + 1 \in Nat
  BY <1>2 DEF QuietClient, Clients
<1> QED
  BY <1>2, <1>3, <1>4 DEF QuietClient, Clients, SameText, Unmarked

LEMMA MessagesTextTold ==
    ASSUME NEW c, QuietClient(c), NEW text \in Texts, NEW tools \in BOOLEAN
    PROVE  Told(c, MessagesText(c, text, tools), Passed(c, text, tools), FALSE)
<1> DEFINE b == [c EXCEPT !.thinking = "closed"]
           d == IF c.thinking = "open" THEN MessagesClose(b, "thinking") ELSE c
<1>1. QuietClient(d) /\ SameText(c, d)
  <2>1. QuietClient(b) /\ SameText(c, b)
    <3>1. "closed" \in {"no", "open", "closed"} /\ 0 \in Nat /\ TRUE \in BOOLEAN
      OBVIOUS
    <3> QED BY <3>1, Adjusted
  <2> HIDE DEF b
  <2>2. QuietClient(MessagesClose(b, "thinking")) /\ SameText(b, MessagesClose(b, "thinking"))
    BY <2>1, MessagesCloseIs, BlockNames
  <2>3. SameText(c, MessagesClose(b, "thinking")) /\ SameText(c, c)
    BY <2>1, <2>2 DEF SameText
  <2> QED BY <2>2, <2>3
<1>2. LET p == Passed(d, text, tools)
          e == [d EXCEPT !.sieve = p.sieve]
      IN  MessagesText(c, text, tools) =
              IF p.hit THEN MessagesCalls(e, p.calls) ELSE MessagesDelta(e, p.safe)
  BY DEF MessagesText
<1> HIDE DEF d
<1> QED
  BY <1>1, <1>2, BlocksTold

\* The console endpoints pass all text on: they take no tools.
LEMMA ConsoleTold ==
    ASSUME NEW c, QuietClient(c), NEW text \in Texts, NEW api
    PROVE  Told(c, ConsoleDelta(c, text, api), Passed(c, text, FALSE), FALSE)
<1> DEFINE evs == IF api = "console_chat" THEN ChatDelta ELSE << <<"delta", 0, "message">> >>
<1>1. evs \in Seq(Quiet)
  <2>1. "chat" \in Blocks /\ "message" \in Blocks /\ 0 \in Int
    BY BlockNames
  <2> QED BY <2>1, QuietEvents DEF ChatDelta
<1>2. ConsoleDelta(c, text, api) = Write(c, text, evs)
  BY DEF ConsoleDelta
<1> HIDE DEF evs
<1>3. Grown(c, ConsoleDelta(c, text, api), text)
  BY <1>1, <1>2, TextsShown, QuietWritten DEF Grown
<1> QED
  BY <1>3 DEF Grown, Told, SameText, QuietClient, Clients, Passed, Sifted

LEMMA ThinkingTold ==
    ASSUME NEW c, QuietClient(c)
    PROVE  /\ QuietClient(ResponsesThinking(c)) /\ SameText(c, ResponsesThinking(c))
           /\ QuietClient(MessagesThinking(c)) /\ SameText(c, MessagesThinking(c))
<1> DEFINE b == [c EXCEPT !.thinking = "open"]
           opening(i) == << <<"open", i, "thinking">>, <<"delta", i, "thinking">> >>
           going(i) == << <<"delta", i, "thinking">> >>
<1>1. c.thinking \in {"no", "open", "closed"} /\ c.index \in Int
  BY DEF QuietClient, Clients
<1>2. QuietClient(b) /\ SameText(c, b)
  <2>1. "open" \in {"no", "open", "closed"} /\ 0 \in Nat /\ TRUE \in BOOLEAN
    OBVIOUS
  <2> QED BY <2>1, Adjusted
<1>3. ASSUME NEW i \in Int
      PROVE  /\ QuietClient(Say(b, opening(i))) /\ SameText(c, Say(b, opening(i)))
             /\ QuietClient(Say(c, going(i))) /\ SameText(c, Say(c, going(i)))
  <2>1. opening(i) \in Seq(Quiet) /\ going(i) \in Seq(Quiet)
    BY QuietEvents, BlockNames
  <2> HIDE DEF b, opening, going
  <2>2. QuietClient(Say(b, opening(i))) /\ SameText(b, Say(b, opening(i)))
    BY <1>2, <2>1, QuietSaid
  <2>3. SameText(c, Say(b, opening(i)))
    BY <1>2, <2>2 DEF SameText
  <2> QED BY <2>1, <2>2, <2>3, QuietSaid
<1>4. SameText(c, c)
  BY DEF SameText
<1>5. /\ ResponsesThinking(c) = CASE c.thinking = "no" -> Say(b, opening(0))
                                  [] c.thinking = "open" -> Say(c, going(0))
                                  [] OTHER -> c
      /\ MessagesThinking(c) = CASE c.thinking = "no" -> Say(b, opening(c.index))
                                 [] c.thinking = "open" -> Say(c, going(c.index))
                                 [] OTHER -> c
  BY DEF ResponsesThinking, MessagesThinking
<1>6. 0 \in Int
  OBVIOUS
<1> HIDE DEF b, opening, going
<1> QED
  BY <1>1, <1>3, <1>4, <1>5, <1>6

\* A citation is told in the format of responses while its message is open,
\* and gathered in the others.
MarkTold(c, d, at) ==
    /\ QuietClient(d) /\ d.text = c.text /\ d.sieve = c.sieve /\ d.hit = c.hit
    /\ d.ended = c.ended /\ d.images = c.images /\ d.marks \subseteq c.marks \cup {at}

LEMMA MarksTold ==
    ASSUME NEW c, QuietClient(c), NEW at \in Nat
    PROVE  /\ MarkTold(c, ResponsesMark(c, at), at)
           /\ MarkTold(c, [c EXCEPT !.marks = @ \cup {at}], at)
<1>0. c.marks \cup {at} \in SUBSET Nat
  BY DEF QuietClient, Clients
<1>1. MarkTold(c, [c EXCEPT !.marks = @ \cup {at}], at) /\ MarkTold(c, c, at)
  BY <1>0 DEF MarkTold, QuietClient, Clients, Unmarked
<1>2. CASE ~c.message
  BY <1>1, <1>2 DEF ResponsesMark
<1>3. CASE c.message
  <2> DEFINE d == Say(c, << <<"delta", ResponsesIndex(c), "message">> >>)
  <2>1. QuietClient(d) /\ SameText(c, d)
    <3>1. ResponsesIndex(c) \in Int
      BY IndexType
    <3> QED BY <3>1, QuietEvents, BlockNames, QuietSaid
  <2>2. ResponsesMark(c, at) = [d EXCEPT !.marks = d.marks \cup {at}]
    BY <1>3 DEF ResponsesMark
  <2> HIDE DEF d
  <2> DEFINE m == c.marks \cup {at}
             r == [d EXCEPT !.marks = m]
  <2>3. d.marks = c.marks /\ m \in SUBSET Nat /\ d \in Clients
    BY <1>0, <2>1 DEF SameText, QuietClient
  <2> HIDE DEF m
  <2>4. /\ r \in Clients /\ r.marks = m /\ r.out = d.out /\ r.text = d.text
        /\ r.sieve = d.sieve /\ r.hit = d.hit /\ r.ended = d.ended /\ r.images = d.images
    BY <2>3 DEF Clients
  <2> HIDE DEF r
  <2>5. ResponsesMark(c, at) = r
    BY <2>2, <2>3 DEF r, m
  <2>6. MarkTold(c, r, at)
    BY <2>1, <2>4 DEF MarkTold, QuietClient, Unmarked, SameText, m
  <2> QED BY <1>1, <2>5, <2>6
<1> QED
  BY <1>1, <1>2, <1>3

RequestIs == scenario \in Requests /\ (Console => ~scenario.tools)

LEMMA ApiIs ==
    ASSUME RequestIs
    PROVE  /\ Api \in {"chat", "responses", "messages", "console_chat", "console_responses",
                       "console_messages"}
           /\ Console <=> Api \in {"console_chat", "console_responses", "console_messages"}
           /\ scenario.tools \in BOOLEAN /\ scenario.stream \in BOOLEAN
           /\ scenario.think \in BOOLEAN /\ scenario.summary \in BOOLEAN
           /\ scenario.frames \subseteq Frames
  BY DEF RequestIs, Requests, Api, Console, GrokApis, ConsoleApis

\* What the client gets of an event.
LEMMA TextEventTold ==
    ASSUME RequestIs, NEW c, QuietClient(c), NEW text \in Texts
    PROVE  Told(c, OnTextEvent(c, text), Passed(c, text, scenario.tools), Api = "chat")
<1>1. CASE Api = "chat"
  BY <1>1, ApiIs, ChatTextTold DEF OnTextEvent
<1>2. CASE Api = "responses"
  <2>1. (Api = "chat") = FALSE
    BY <1>2
  <2> QED BY <1>2, <2>1, ApiIs, ResponsesTextTold DEF OnTextEvent
<1>3. CASE Api = "messages"
  <2>1. (Api = "chat") = FALSE
    BY <1>3
  <2> QED BY <1>3, <2>1, ApiIs, MessagesTextTold DEF OnTextEvent
<1>4. CASE Console
  <2>1. (Api = "chat") = FALSE /\ Api \notin {"chat", "responses", "messages"}
    BY <1>4, ApiIs
  <2>2. scenario.tools = FALSE
    BY <1>4, ApiIs DEF RequestIs
  <2>3. OnTextEvent(c, text) = ConsoleDelta(c, text, Api)
    BY <1>4, <2>1 DEF OnTextEvent
  <2> QED BY <2>1, <2>2, <2>3, ConsoleTold
<1> QED
  BY <1>1, <1>2, <1>3, <1>4, ApiIs

OtherTold(c, d, event) ==
    /\ QuietClient(d) /\ d.text = c.text /\ d.sieve = c.sieve /\ d.hit = c.hit
    /\ d.images = c.images /\ d.ended = (c.ended \/ event.ev = "soft_stop")
    /\ d.marks \subseteq c.marks \cup (IF event.ev = "annotation" THEN {event.at} ELSE {})

LEMMA OtherEventTold ==
    ASSUME RequestIs, NEW c, QuietClient(c), NEW event \in RelayEvents, event.ev # "text",
           ~Console
    PROVE  OtherTold(c, OnEvent(c, event), event)
<1>0. c.ended \in BOOLEAN
  BY DEF QuietClient, Clients
<1>1. CASE event.ev = "thinking"
  <2>1. Say(c, << <<"delta", 0, "thinking">> >>) = OnThinkingEvent(c)
        => QuietClient(OnThinkingEvent(c)) /\ SameText(c, OnThinkingEvent(c))
    <3>1. 0 \in Int
      OBVIOUS
    <3> QED BY <3>1, QuietEvents, BlockNames, QuietSaid
  <2>2. QuietClient(OnThinkingEvent(c)) /\ SameText(c, OnThinkingEvent(c))
    <3>1. SameText(c, c)
      BY DEF SameText
    <3>2. Api \in {"chat", "responses", "messages"}
      BY ApiIs
    <3> QED BY <2>1, <3>1, <3>2, ThinkingTold DEF OnThinkingEvent
  <2>3. OnEvent(c, event) = OnThinkingEvent(c)
    BY <1>1 DEF OnEvent
  <2> QED BY <1>0, <1>1, <2>2, <2>3 DEF OtherTold, SameText
<1>2. CASE event.ev = "annotation"
  <2>1. event.at \in Nat
    BY <1>2 DEF RelayEvents
  <2>2. MarkTold(c, OnMark(c, event.at), event.at)
    BY <2>1, MarksTold DEF OnMark
  <2>3. OnEvent(c, event) = OnMark(c, event.at)
    BY <1>2 DEF OnEvent
  <2> QED BY <1>0, <1>2, <2>2, <2>3 DEF MarkTold, OtherTold
<1>3. CASE event.ev = "soft_stop"
  <2>1. OnEvent(c, event) = [c EXCEPT !.ended = TRUE]
    BY <1>3 DEF OnEvent
  <2> QED BY <1>3, <2>1 DEF OtherTold, QuietClient, Clients, Unmarked
<1>4. CASE event.ev = "image"
  <2>1. OnEvent(c, event) = c
    BY <1>4 DEF OnEvent
  <2> QED BY <1>0, <1>4, <2>1 DEF OtherTold
<1> QED
  BY <1>1, <1>2, <1>3, <1>4 DEF RelayEvents

LEMMA EmbedGrows ==
    ASSUME NEW c, QuietClient(c)
    PROVE  Grown(c, Embed(c), <<"embed">>)
<1> DEFINE evs == CASE Api = "chat" -> ChatDelta
                    [] Api = "responses" /\ c.message ->
                           << <<"delta", ResponsesIndex(c), "message">> >>
                    [] Api = "messages" /\ c.message -> << <<"delta", c.index, "message">> >>
                    [] OTHER -> <<>>
<1>1. evs \in Seq(Quiet)
  <2>1. c.index \in Int /\ ResponsesIndex(c) \in Int
    BY IndexType DEF QuietClient, Clients
  <2>2. 0 \in Int
    OBVIOUS
  <2>3. /\ ChatDelta \in Seq(Quiet)
        /\ << <<"delta", ResponsesIndex(c), "message">> >> \in Seq(Quiet)
        /\ << <<"delta", c.index, "message">> >> \in Seq(Quiet)
    BY <2>1, <2>2, QuietEvents, BlockNames DEF ChatDelta
  <2> QED BY <2>3
<1>2. <<"embed">> \in Shown
  BY DEF Shown
<1>3. Embed(c) = Write(c, <<"embed">>, evs)
  BY DEF Embed
<1> HIDE DEF evs
<1> QED
  BY <1>1, <1>2, <1>3, QuietWritten DEF Grown

LEMMA OpeningQuiet ==
    ASSUME RequestIs
    PROVE  Opening \in Seq(Quiet)
<1> DEFINE none == ""
           start == <<"start", 0, none>>
           first == <<"open", 0, "message">>
<1>1. none \in Blocks
  BY NoBlockName
<1> HIDE DEF none
<1>2. start \in Quiet /\ first \in Quiet
  BY <1>1, BlockNames DEF Quiet
<1>3. Opening \in {<<>>, <<start>>, <<start, first>>}
  BY ApiIs DEF Opening, ConsoleOpening, none
<1> HIDE DEF start, first
<1>4. <<>> \in Seq(Quiet) /\ <<start>> \in Seq(Quiet) /\ <<start, first>> \in Seq(Quiet)
  BY <1>2
<1> QED
  BY <1>3, <1>4

\* The sieve is flushed before the reply is closed: calls are found or not.
FlushTold(c, d, p, chat) ==
    /\ d.text = c.text /\ d.sieve = p.sieve /\ d.marks = c.marks /\ d.images = c.images
    /\ p.calls > 0 => d.hit /\ d.ended
    /\ ~(p.calls > 0) => d.hit = c.hit /\ d.ended = c.ended
    /\ IF p.calls > 0 /\ chat THEN CompleteClient(d) ELSE QuietClient(d)

LEMMA FlushedTold ==
    ASSUME RequestIs, ~Console, NEW c, QuietClient(c)
    PROVE  FlushTold(c, Flushed(c), Flush(c.sieve), Api = "chat")
<1> DEFINE p == Flush(c.sieve)
           d == [c EXCEPT !.sieve = p.sieve]
           shut == [MessagesClose(d, "message") EXCEPT !.message = FALSE]
           e == IF c.message THEN shut ELSE d
<1>1. p \in SieveResults
  BY FlushType DEF QuietClient, Clients
<1>2. /\ ChatFlush(c) = IF p.calls > 0 THEN ChatCalls(d, p.calls) ELSE d
      /\ ResponsesFlush(c) = IF p.calls > 0 THEN ResponsesCalls(d, p.calls) ELSE d
      /\ MessagesFlush(c) = IF p.calls > 0 THEN MessagesCalls(e, p.calls) ELSE d
  BY DEF ChatFlush, ResponsesFlush, MessagesFlush
<1> HIDE DEF p
<1>3. p.sieve \in Sieves /\ p.calls \in Nat
  BY <1>1 DEF SieveResults
<1>4. /\ QuietClient(d) /\ d.text = c.text /\ d.sieve = p.sieve /\ d.hit = c.hit
      /\ d.ended = c.ended /\ d.marks = c.marks /\ d.images = c.images
  BY <1>3, SieveKept DEF QuietClient, Clients
<1> HIDE DEF d
<1>5. QuietClient(e) /\ SameText(d, e)
  <2> DEFINE m == MessagesClose(d, "message")
  <2>1. QuietClient(m) /\ SameText(d, m)
    BY <1>4, BlockNames, MessagesCloseIs
  <2> HIDE DEF m
  <2>2. QuietClient([m EXCEPT !.message = FALSE]) /\ SameText(m, [m EXCEPT !.message = FALSE])
    <3>1. "no" \in {"no", "open", "closed"} /\ 0 \in Nat /\ FALSE \in BOOLEAN
      OBVIOUS
    <3> QED BY <2>1, <3>1, Adjusted
  <2>3. SameText(d, [m EXCEPT !.message = FALSE]) /\ SameText(d, d)
    BY <2>1, <2>2 DEF SameText
  <2> QED BY <1>4, <2>2, <2>3 DEF m
<1> HIDE DEF e
<1>6. FlushTold(c, Flushed(c), p, Api = "chat")
  <2>1. CASE ~(p.calls > 0)
    <3>1. Flushed(c) = d
      BY <1>2, <2>1, ApiIs DEF Flushed
    <3> QED BY <1>4, <2>1, <3>1 DEF FlushTold
  <2>2. CASE p.calls > 0 /\ Api = "chat"
    <3>1. Flushed(c) = ChatCalls(d, p.calls)
      BY <1>2, <2>2 DEF Flushed
    <3> QED BY <1>3, <1>4, <2>2, <3>1, ChatCallsIs DEF FlushTold, CalledAfter
  <2>3. CASE p.calls > 0 /\ Api # "chat"
    <3>1. Flushed(c) \in {ResponsesCalls(d, p.calls), MessagesCalls(e, p.calls)}
      BY <1>2, <2>3, ApiIs DEF Flushed
    <3>2. QuietClient(Flushed(c)) /\ (CalledAfter(d, Flushed(c)) \/ CalledAfter(e, Flushed(c)))
      BY <1>3, <1>4, <1>5, <3>1, BlockCallsIs
    <3> QED BY <1>4, <1>5, <2>3, <3>2 DEF FlushTold, CalledAfter, SameText
  <2> QED BY <2>1, <2>2, <2>3
<1> QED
  BY <1>6 DEF p

LEMMA ClosedTold ==
    ASSUME RequestIs, NEW c, QuietClient(c)
    PROVE  CompleteClient(Closed(c)) /\ SameText(c, Closed(c))
<1> DEFINE ClosedBy(b) == \E evs \in Seq(Quiet), block \in Blocks :
               Closed(c) = Say(b, evs \o << <<"final", 0, block>>, <<"DONE", 0, "">> >>)
<1>1. ASSUME NEW b, QuietClient(b), SameText(c, b), ClosedBy(b)
      PROVE  CompleteClient(Closed(c)) /\ SameText(c, Closed(c))
  <2>1. CompleteClient(Closed(c)) /\ SameText(b, Closed(c))
    BY <1>1, ClosingSaid
  <2> QED BY <1>1, <2>1 DEF SameText
<1>2. QuietClient(c) /\ SameText(c, c)
  BY DEF SameText
<1>3. CASE Api \in {"chat", "console_chat"}
  <2> DEFINE none == ""
             last == << <<"final", 0, "chat">>, <<"DONE", 0, none>> >>
  <2>1. Closed(c) = Say(c, last)
    BY <1>3, ApiIs DEF Closed, ChatFinal, ConsoleFinal
  <2> HIDE DEF none
  <2>2. last = <<>> \o last /\ <<>> \in Seq(Quiet)
    OBVIOUS
  <2>3. ClosedBy(c)
    BY <2>1, <2>2, BlockNames DEF none
  <2> QED BY <1>1, <1>2, <2>3
<1>4. CASE Api = "console_responses" \/ Api = "console_messages"
  <2> DEFINE none == ""
             evs == << <<"close", 0, "message">> >>
             last == << <<"close", 0, "message">>, <<"final", 0, none>>, <<"DONE", 0, none>> >>
  <2>1. Closed(c) = Say(c, last)
    BY <1>4, ApiIs DEF Closed, ConsoleFinal
  <2>2. evs \in Seq(Quiet)
    BY ZeroInt, BlockNames, QuietEvents
  <2>3. none \in Blocks
    BY NoBlockName
  <2> HIDE DEF none
  <2>4. last = evs \o << <<"final", 0, none>>, <<"DONE", 0, none>> >>
    OBVIOUS
  <2> HIDE DEF evs, last
  <2>5. ClosedBy(c)
    <3>1. Closed(c) = Say(c, evs \o << <<"final", 0, none>>, <<"DONE", 0, "">> >>)
      BY <2>1, <2>4 DEF none
    <3> QED BY <2>2, <2>3, <3>1
  <2> HIDE DEF ClosedBy
  <2> QED BY <1>1, <1>2, <2>5
<1>5. CASE Api = "responses" \/ Api = "messages"
  <2> DEFINE thought == ~c.hit /\ c.thinking = "open"
             d == IF Api = "messages" /\ thought THEN MessagesClose(c, "thinking") ELSE c
             i == IF Api = "responses" THEN ResponsesIndex(c) ELSE d.index
             evs == IF d.message /\ ~d.hit THEN << <<"close", i, "message">> >> ELSE <<>>
  <2>1. QuietClient(d) /\ SameText(c, d)
    <3>1. /\ QuietClient(MessagesClose(c, "thinking"))
          /\ SameText(c, MessagesClose(c, "thinking"))
      BY BlockNames, MessagesCloseIs
    <3> QED BY <1>2, <3>1
  <2>2. evs \in Seq(Quiet)
    <3>1. i \in Int
      <4> HIDE DEF d
      <4> QED BY <2>1, IndexType DEF QuietClient, Clients
    <3>2. << <<"close", i, "message">> >> \in Seq(Quiet)
      <4> HIDE DEF i
      <4> QED BY <3>1, BlockNames, QuietEvents
    <3> HIDE DEF d, i
    <3> QED BY <3>2
  <2>3. Closed(c) = Say(d, evs \o << <<"final", 0, "">>, <<"DONE", 0, "">> >>)
    <3>1. CASE Api = "responses"
      <4>1. Closed(c) = ResponsesFinal(c)
        BY <3>1, ApiIs DEF Closed
      <4>2. d = c /\ i = ResponsesIndex(c)
        BY <3>1
      <4> HIDE DEF d, i
      <4> QED BY Zenon, <4>1, <4>2 DEF ResponsesFinal
    <3>2. CASE Api = "messages"
      <4>1. Closed(c) = MessagesFinal(c)
        BY <3>2, ApiIs DEF Closed
      <4>2. /\ d = IF ~c.hit /\ c.thinking = "open" THEN MessagesClose(c, "thinking") ELSE c
            /\ i = d.index
        BY <3>2
      <4> HIDE DEF d, i
      <4> QED BY Zenon, <4>1, <4>2 DEF MessagesFinal
    <3> QED BY <1>5, <3>1, <3>2
  <2> HIDE DEF d, evs
  <2>4. ClosedBy(d)
    <3> DEFINE none == ""
    <3>1. none \in Blocks
      BY NoBlockName
    <3>2. Closed(c) = Say(d, evs \o << <<"final", 0, none>>, <<"DONE", 0, "">> >>)
      BY <2>3
    <3> HIDE DEF none
    <3> QED BY <2>2, <3>1, <3>2
  <2> HIDE DEF ClosedBy
  <2> QED BY <1>1, <2>1, <2>4
<1> QED
  BY <1>3, <1>4, <1>5, ApiIs

------------------------------------------------------------------------------
\* The steps of a request.

LEMMA RequestHolds ==
    ASSUME scenario \in Scenarios
    PROVE  RequestIs
  BY RelayAssumption DEF RequestIs, Console, Api

LEMMA NewAdapterType == NewAdapter \in Adapters
<1> DEFINE none == ""
           agg == NewAggregator
<1>1. agg \in Aggregators
  BY DEF NewAggregator, Aggregators, Names
<1>2. none \in Names /\ none \in LastMarks
  BY Zenon DEF Names, LastMarks
<1>3. NewAdapter = [started |-> FALSE, agent |-> none, seen |-> {}, agg |-> agg,
                    thoughts |-> <<>>, text |-> <<>>, last |-> none, marks |-> {},
                    images |-> 0, sources |-> 0]
  BY DEF NewAdapter
<1> HIDE DEF none, agg
<1> QED
  BY <1>1, <1>2, <1>3 DEF Adapters, Texts

LEMMA NewClientQuiet == QuietClient(NewClient)
<1>1. NewSieve \in Sieves
  BY DEF NewSieve, Sieves, Texts
<1>2. <<>> \in Sent /\ <<>> \in Seq(Quiet) /\ <<>> \in Shown
  BY DEF Sent, Shown
<1> QED
  BY <1>1, <1>2 DEF QuietClient, Unmarked, NewClient, Clients

LEMMA TypesKept ==
    ASSUME StreamTypes, scenario' = scenario, stage' \in Stages, fault' \in Faults,
           relayed' = relayed
    PROVE  StreamTypes'
  BY DEF StreamTypes, relayed, Console, Api

LEMMA TypesWritten ==
    ASSUME StreamTypes, scenario' = scenario, stage' \in Stages, fault' = fault,
           adapter' = adapter, events' = events, client' \in Clients
    PROVE  StreamTypes'
  BY DEF StreamTypes, Console, Api

LEMMA QuietAttempt ==
    ASSUME StreamTypes, OutInv, stage \in Attempting
    PROVE  QuietClient(client)
  BY DEF StreamTypes, OutInv, QuietClient

\* Where each action leads; the actions that end an attempt raise a fault.
LEMMA StepStages ==
    ASSUME StreamTypes, Next
    PROVE  /\ scenario' = scenario /\ stage' \in Stages /\ fault' \in Faults
<1> USE DEF StreamTypes, Stages, Faults, Holding, Terminal
<1>1. CASE \E a \in Accounts : Reserve(a)
  BY <1>1 DEF Reserve
<1>2. CASE NoAccount \/ Open \/ Connect
  BY <1>2 DEF NoAccount, Open, Connect
<1>3. CASE \E e \in Outages : Refused(e) \/ BreaksOff(e)
  BY <1>3 DEF Refused, BreaksOff, Raise
<1>4. CASE \E f \in scenario.frames : Read(f)
  BY <1>4 DEF Read
<1>5. CASE Relay
  BY <1>5 DEF Relay, AfterRead
<1>6. CASE EndOfStream \/ FlushSieve \/ ResolveImage
  BY <1>6 DEF EndOfStream, FlushSieve, ResolveImage
<1>7. CASE ResolveCrashes \/ Disconnect
  BY <1>7 DEF ResolveCrashes, Disconnect, Raise
<1>8. CASE Complete \/ Confirm \/ Compose
  BY <1>8 DEF Complete, Confirm, Compose
<1>9. CASE Settle
  BY <1>9 DEF Settle, AfterSettle
<1>10. CASE \E a \in Accounts : RunSync(a)
  BY <1>10 DEF RunSync
<1>11. CASE Finished
  BY <1>11 DEF Finished, vars
<1> QED
  BY <1>1, <1>2, <1>3, <1>4, <1>5, <1>6, <1>7, <1>8, <1>9, <1>10, <1>11 DEF Next

\* What the actions that write make of the client.

LEMMA OpenWrites ==
    ASSUME StreamTypes, OutInv, Open
    PROVE  QuietClient(client') /\ SameText(client, client')
<1>1. QuietClient(client) /\ RequestIs
  BY QuietAttempt, RequestHolds DEF Open, Attempting, StreamTypes
<1>2. QuietClient(Say(client, Opening)) /\ SameText(client, Say(client, Opening))
  BY <1>1, OpeningQuiet, QuietSaid
<1>3. client' = IF scenario.stream THEN Say(client, Opening) ELSE client
  BY DEF Open
<1>4. SameText(client, client)
  BY DEF SameText
<1> QED
  BY <1>1, <1>2, <1>3, <1>4

LEMMA RelayWrites ==
    ASSUME StreamTypes, OutInv, Relay
    PROVE  LET event == Head(events)
           IN  /\ QuietClient(client) /\ event = events[1] /\ event \in RelayEvents
               /\ client' = OnEvent(client, event)
               /\ event.ev = "text" =>
                      /\ event.text \in Texts
                      /\ Told(client, client', Passed(client, event.text, scenario.tools),
                              Api = "chat")
               /\ event.ev # "text" => OtherTold(client, client', event)
<1> DEFINE event == Head(events)
<1>1. QuietClient(client) /\ RequestIs
  BY QuietAttempt, RequestHolds DEF Relay, Attempting, StreamTypes
<1>2. event = events[1] /\ event \in RelayEvents /\ 1 \in DOMAIN events
  <2>1. events \in Seq(RelayEvents) /\ events # <<>>
    BY DEF Relay, StreamTypes
  <2> QED BY <2>1
<1>3. client' = OnEvent(client, event)
  BY DEF Relay
<1> HIDE DEF event
<1>4. CASE event.ev = "text"
  <2>1. event.text \in Texts
    BY <1>2, <1>4 DEF RelayEvents
  <2>2. client' = OnTextEvent(client, event.text)
    BY <1>3, <1>4 DEF OnEvent
  <2> QED BY <1>1, <1>2, <1>3, <1>4, <2>1, <2>2, TextEventTold DEF event
<1>5. CASE event.ev # "text"
  <2>1. ~Console
    BY <1>2, <1>5 DEF StreamTypes
  <2> QED BY <1>1, <1>2, <1>3, <1>5, <2>1, OtherEventTold DEF event
<1> QED
  BY <1>4, <1>5

LEMMA FlushWrites ==
    ASSUME StreamTypes, OutInv, FlushSieve
    PROVE  /\ QuietClient(client)
           /\ \/ client' = client
              \/ /\ scenario.tools /\ ~client.hit /\ ~Console
                 /\ FlushTold(client, client', Flush(client.sieve), Api = "chat")
<1>1. QuietClient(client) /\ RequestIs
  BY QuietAttempt, RequestHolds DEF FlushSieve, Attempting, StreamTypes
<1>2. CASE scenario.tools /\ ~client.hit
  BY <1>1, <1>2, FlushedTold DEF FlushSieve, RequestIs
<1>3. CASE ~(scenario.tools /\ ~client.hit)
  BY <1>1, <1>3 DEF FlushSieve
<1> QED
  BY <1>2, <1>3

LEMMA ResolveWrites ==
    ASSUME StreamTypes, OutInv, ResolveImage
    PROVE  /\ QuietClient(client) /\ QuietClient(client')
           /\ client'.text = client.text \o <<"embed">> /\ client'.sieve = client.sieve
           /\ client'.hit = client.hit /\ client'.ended = client.ended
           /\ client'.marks = client.marks
<1> DEFINE d == Embed(client)
<1>1. QuietClient(client)
  BY QuietAttempt DEF ResolveImage, Attempting
<1>2. Grown(client, d, <<"embed">>)
  BY <1>1, EmbedGrows
<1>3. client' = [d EXCEPT !.images = @ + 1]
  BY DEF ResolveImage
<1> HIDE DEF d
<1>4. /\ QuietClient(d) /\ d.text = client.text \o <<"embed">> /\ d.sieve = client.sieve
      /\ d.hit = client.hit /\ d.ended = client.ended /\ d.marks = client.marks
  BY <1>1, <1>2 DEF Grown, SameText, QuietClient, Clients
<1>5. QuietClient([d EXCEPT !.images = @ + 1])
  <2>1. d \in Clients /\ d.out \in Seq(Quiet)
    BY <1>4 DEF QuietClient, Unmarked
  <2>2. [d EXCEPT !.images = @ + 1] \in Clients
    <3>1. d.images + 1 \in Nat
      BY <2>1 DEF Clients
    <3> QED BY <2>1, <3>1 DEF Clients
  <2>3. [d EXCEPT !.images = @ + 1].out = d.out
    BY <2>1 DEF Clients
  <2> QED BY <2>1, <2>2, <2>3 DEF QuietClient, Unmarked
<1> QED
  BY <1>1, <1>3, <1>4, <1>5 DEF QuietClient, Clients

LEMMA CompleteWrites ==
    ASSUME StreamTypes, OutInv, Complete
    PROVE  /\ QuietClient(client) /\ CompleteClient(client')
           /\ client'.text \in {client.text, client.text \o <<"embed">>}
           /\ client'.sieve = client.sieve /\ client'.hit = client.hit
           /\ client'.ended = client.ended /\ client'.marks = client.marks
<1> DEFINE d == IF ~client.hit /\ adapter.sources > 0 THEN Embed(client) ELSE client
<1>1. QuietClient(client) /\ RequestIs
  BY QuietAttempt, RequestHolds DEF Complete, Attempting, StreamTypes
<1>2. /\ QuietClient(d) /\ d.text \in {client.text, client.text \o <<"embed">>}
      /\ d.sieve = client.sieve /\ d.hit = client.hit /\ d.ended = client.ended
      /\ d.marks = client.marks
  <2>1. Grown(client, Embed(client), <<"embed">>)
    BY <1>1, EmbedGrows
  <2>2. /\ QuietClient(Embed(client)) /\ Embed(client).text = client.text \o <<"embed">>
        /\ Embed(client).sieve = client.sieve /\ Embed(client).hit = client.hit
        /\ Embed(client).ended = client.ended /\ Embed(client).marks = client.marks
    BY <1>1, <2>1 DEF Grown, SameText, QuietClient, Clients
  <2> QED BY <1>1, <2>2
<1>3. client' = Closed(d)
  BY DEF Complete
<1> HIDE DEF d
<1>4. CompleteClient(Closed(d)) /\ SameText(d, Closed(d))
  BY <1>1, <1>2, ClosedTold
<1> QED
  BY <1>1, <1>2, <1>3, <1>4 DEF SameText

LEMMA ConsoleFed ==
    ASSUME NEW a, NEW f
    PROVE  \A i \in DOMAIN ConsoleFeed(a, f).events : ConsoleFeed(a, f).events[i].ev = "text"
  BY DEF ConsoleFeed

\* The text that has come stays, and a frame adds to it what its text event
\* brings.
LEMMA ReadFeeds ==
    ASSUME StreamTypes, NEW f \in scenario.frames, Read(f)
    PROVE  \E fed : /\ Fed(adapter, fed) /\ adapter' = fed.adapter
                    /\ events' = IF scenario.stream THEN fed.events ELSE <<>>
                    /\ Console => \A i \in DOMAIN fed.events : fed.events[i].ev = "text"
<1>1. RequestIs /\ adapter \in Adapters
  BY RequestHolds DEF StreamTypes
<1>2. f \in Frames /\ scenario.summary \in BOOLEAN
  BY <1>1, ApiIs
<1> DEFINE fed == IF Console THEN ConsoleFeed(adapter, f)
                  ELSE AdapterFeed(adapter, f, scenario.summary)
<1>3. Fed(adapter, fed)
  BY <1>1, <1>2, FeedIs
<1>4. Console => \A i \in DOMAIN fed.events : fed.events[i].ev = "text"
  BY ConsoleFed
<1>5. adapter' = fed.adapter /\ events' = IF scenario.stream THEN fed.events ELSE <<>>
  BY DEF Read
<1> HIDE DEF fed
<1> QED
  BY <1>3, <1>4, <1>5

LEMMA TypesInit == Init => StreamTypes
<1> SUFFICES ASSUME Init PROVE StreamTypes
  OBVIOUS
<1>1. NewClient \in Clients
  BY NewClientQuiet DEF QuietClient
<1> QED
  BY <1>1, NewAdapterType DEF Init, StreamTypes, Stages, Faults

LEMMA TypesNext == StreamTypes /\ OutInv /\ [Next]_vars => StreamTypes'
<1> SUFFICES ASSUME StreamTypes, OutInv, [Next]_vars PROVE StreamTypes'
  OBVIOUS
<1>0. CASE UNCHANGED vars
  BY <1>0 DEF vars, StreamTypes, Console, Api
<1> SUFFICES ASSUME Next PROVE StreamTypes'
  BY <1>0
<1>a. scenario' = scenario /\ stage' \in Stages /\ fault' \in Faults
  BY StepStages
<1>1. CASE \E a \in Accounts : Reserve(a)
  <2>1. NewClient \in Clients
    BY NewClientQuiet DEF QuietClient
  <2> QED
    BY <1>1, <1>a, <2>1, NewAdapterType DEF Reserve, StreamTypes
<1>2. CASE NoAccount \/ Connect \/ EndOfStream \/ Confirm \/ Settle \/ Compose
  <2>1. relayed' = relayed
    BY <1>2 DEF NoAccount, Connect, EndOfStream, Confirm, Settle, Compose
  <2> QED BY <1>a, <2>1, TypesKept
<1>3. CASE \/ \E e \in Outages : Refused(e) \/ BreaksOff(e)
           \/ ResolveCrashes \/ Disconnect \/ \E a \in Accounts : RunSync(a)
  <2>1. relayed' = relayed
    BY <1>3 DEF Refused, BreaksOff, ResolveCrashes, Disconnect, Raise, RunSync
  <2> QED BY <1>a, <2>1, TypesKept
<1>4. CASE Finished
  BY <1>4, <1>a, TypesKept DEF Finished, vars, relayed
<1>5. ASSUME NEW f \in scenario.frames, Read(f)
      PROVE  StreamTypes'
  <2>1. PICK fed : /\ Fed(adapter, fed) /\ adapter' = fed.adapter
                   /\ events' = IF scenario.stream THEN fed.events ELSE <<>>
                   /\ Console => \A i \in DOMAIN fed.events : fed.events[i].ev = "text"
    BY <1>5, ReadFeeds
  <2>2. adapter' \in Adapters /\ events' \in Seq(RelayEvents)
    BY <2>1 DEF Fed
  <2>3. client' \in Clients
    <3>1. client' \in {client, [client EXCEPT !.ended = f.kind = "stop" /\ ~Console]}
      BY <1>5 DEF Read, Gathered
    <3> QED BY <3>1 DEF StreamTypes, Clients
  <2>4. Console' => \A i \in DOMAIN events' : events'[i].ev = "text"
    BY <1>a, <2>1 DEF Console, Api
  <2>5. ~scenario'.stream => events' = <<>>
    BY <1>a, <2>1
  <2> QED BY <1>a, <2>2, <2>3, <2>4, <2>5 DEF StreamTypes
<1>6. CASE Relay
  <2>1. client' \in Clients
    BY <1>6, RelayWrites DEF Told, OtherTold, QuietClient, CompleteClient
  <2>2. /\ events' \in Seq(RelayEvents)
        /\ Console' => \A i \in DOMAIN events' : events'[i].ev = "text"
    <3>1. events \in Seq(RelayEvents) /\ events # <<>>
      BY <1>6 DEF Relay, StreamTypes
    <3>2. CASE events' = <<>>
      BY <3>2
    <3>3. CASE events' = Tail(events)
      <4>1. Tail(events) \in Seq(RelayEvents)
        BY <3>1
      <4>2. \A i \in DOMAIN Tail(events) :
                i + 1 \in DOMAIN events /\ Tail(events)[i] = events[i + 1]
        BY <3>1
      <4> QED BY <1>a, <3>3, <4>1, <4>2 DEF StreamTypes, Console, Api
    <3> QED BY <1>6, <3>2, <3>3 DEF Relay
  <2> QED BY <1>6, <1>a, <2>1, <2>2 DEF Relay, StreamTypes
<1>7. CASE Open \/ FlushSieve \/ ResolveImage \/ Complete
  <2>1. client' \in Clients
    <3>1. CASE Open
      BY <3>1, OpenWrites DEF QuietClient
    <3>2. CASE FlushSieve
      BY <3>2, FlushWrites DEF FlushTold, QuietClient, CompleteClient
    <3>3. CASE ResolveImage
      BY <3>3, ResolveWrites DEF QuietClient
    <3>4. CASE Complete
      BY <3>4, CompleteWrites DEF CompleteClient
    <3> QED BY <1>7, <3>1, <3>2, <3>3, <3>4
  <2>2. fault' = fault /\ adapter' = adapter /\ events' = events
    BY <1>7 DEF Open, FlushSieve, ResolveImage, Complete
  <2> QED BY <1>a, <2>1, <2>2, TypesWritten
<1> QED
  BY <1>1, <1>2, <1>3, <1>4, <1>5, <1>6, <1>7 DEF Next

------------------------------------------------------------------------------
\* The book-keeping.

LEMMA BookInit == Init => BookInv
  BY RelayAssumption DEF Init, BookInv, Endings, Holding, Terminal, AttemptsAccounted

\* Steps within an attempt, and after one, that touch no account.
LEMMA BookKept ==
    ASSUME BookInv, book' = book, account' = account, excluded' = excluded,
           stage' \in Holding <=> stage \in Holding,
           stage \in Terminal => stage' \in Terminal
    PROVE  BookInv'
  BY DEF BookInv, AttemptsAccounted, book

LEMMA FeedbackType ==
    ASSUME NEW e
    PROVE  FeedbackKind(e) \in Endings \ {"never"}
  BY DEF FeedbackKind, Endings

LEMMA BookReserve ==
    ASSUME BookInv, NEW a \in Accounts, Reserve(a)
    PROVE  BookInv'
<1> USE DEF Reserve
<1>1. account = None /\ account # a
  BY RelayAssumption DEF BookInv, Holding
<1>2. ended[a] = "never"
  BY DEF BookInv, Terminal
<1>3. load[a] = 0
  BY <1>1 DEF BookInv, AttemptsAccounted
<1>4. load' \in [Accounts -> Nat]
  BY DEF BookInv
<1>5. \A b \in Accounts : load'[b] = IF account' = b THEN 1 ELSE 0
  BY <1>1, <1>3, RelayAssumption DEF BookInv, AttemptsAccounted
<1>6. AttemptsAccounted'
  BY <1>5 DEF BookInv, AttemptsAccounted
<1>7. a # None
  BY RelayAssumption
<1> QED
  BY <1>4, <1>6, <1>7 DEF BookInv, Holding, Terminal

LEMMA BookSettle ==
    ASSUME BookInv, Settle
    PROVE  BookInv'
<1> USE DEF Settle
<1>1. account \in Accounts /\ account \notin excluded /\ ended[account] = "never"
  BY DEF BookInv, Holding, Terminal
<1>2. account \notin syncs /\ recorded[account] = 0 /\ probed[account] = 0 /\ load[account] = 1
  <2>1. account \notin syncs /\ probed[account] \in Nat
    BY <1>1 DEF BookInv
  <2>2. /\ recorded[account] = IF ended[account] \in {"never", "SUCCESS"} \/ account \in syncs
                               THEN 0 ELSE 1
        /\ probed[account] > 0 => ended[account] \in {"SUCCESS", "RATE_LIMITED"}
        /\ load[account] = IF account = account THEN 1 ELSE 0
    BY <1>1 DEF BookInv, AttemptsAccounted
  <2> QED BY <1>1, <2>1, <2>2
<1>3. stage' \in {"done", "compose", "reserve", "failed"}
  BY DEF AfterSettle
<1>4. /\ ended' \in [Accounts -> Endings] /\ load' \in [Accounts -> Nat]
      /\ \A b \in Accounts : ended'[b] = IF b = account THEN FeedbackKind(fault) ELSE ended[b]
      /\ \A b \in Accounts : load'[b] = IF b = account THEN 0 ELSE load[b]
  BY <1>1, <1>2, FeedbackType DEF BookInv
<1>5. AttemptsAccounted'
  <2> SUFFICES ASSUME NEW b \in Accounts
               PROVE  /\ recorded'[b] = IF ended'[b] \in {"never", "SUCCESS"} \/ b \in syncs'
                                        THEN 0 ELSE 1
                      /\ probed'[b] > 0 => /\ ended'[b] \in {"SUCCESS", "RATE_LIMITED"}
                                           /\ b \notin syncs'
                      /\ load'[b] = IF account' = b THEN 1 ELSE 0
    BY DEF AttemptsAccounted
  <2>1. CASE b = account
    BY <1>1, <1>2, <1>4, <2>1, RelayAssumption
  <2>2. CASE b # account
    <3>1. account' # b
      BY RelayAssumption
    <3> QED BY <1>1, <1>4, <2>2, <3>1 DEF BookInv, AttemptsAccounted
  <2> QED BY <2>1, <2>2
<1>6. /\ excluded' \subseteq Accounts /\ account' = None
      /\ syncs' \subseteq {b \in Accounts : ended'[b] # "never"}
  <2>1. ended'[account] # "never"
    BY <1>1, <1>4, FeedbackType
  <2> QED BY <1>1, <1>4, <2>1 DEF BookInv
<1>7. \A b \in Accounts : ended'[b] # "never" => b \in excluded' \/ stage' \in Terminal
  BY <1>1, <1>3, <1>4 DEF BookInv, Terminal, Holding
<1> QED
  BY <1>3, <1>4, <1>5, <1>6, <1>7 DEF BookInv, Holding

LEMMA BookSync ==
    ASSUME BookInv, NEW a \in Accounts, RunSync(a)
    PROVE  BookInv'
<1> USE DEF RunSync
<1>1. recorded[a] = 0 /\ probed[a] = 0 /\ ended[a] # "never"
  BY DEF BookInv, AttemptsAccounted
<1>2. CASE QuotaSync(a)
  BY <1>1, <1>2 DEF QuotaSync, BookInv, AttemptsAccounted
<1>3. CASE FailSync(a)
  BY <1>1, <1>3 DEF FailSync, BookInv, AttemptsAccounted
<1> QED
  BY <1>2, <1>3

LEMMA BookNext == BookInv /\ [Next]_vars => BookInv'
<1> SUFFICES ASSUME BookInv, [Next]_vars PROVE BookInv'
  OBVIOUS
<1>0. CASE UNCHANGED vars
  BY <1>0 DEF vars, BookInv, AttemptsAccounted
<1>1. CASE \E a \in Accounts : Reserve(a)
  BY <1>1, BookReserve
<1>2. CASE NoAccount \/ Open \/ Connect \/ EndOfStream
  BY <1>2, BookKept DEF NoAccount, Open, Connect, EndOfStream, Holding, Terminal
<1>3. CASE \E e \in Outages : Refused(e) \/ BreaksOff(e)
  BY <1>3, BookKept DEF Refused, BreaksOff, Raise, Holding, Terminal
<1>4. CASE \E f \in scenario.frames : Read(f)
  BY <1>4, BookKept DEF Read, book, Holding, Terminal
<1>5. CASE Relay \/ FlushSieve \/ ResolveImage
  BY <1>5, BookKept DEF Relay, FlushSieve, ResolveImage, AfterRead, book, Holding, Terminal
<1>6. CASE ResolveCrashes \/ Disconnect
  BY <1>6, BookKept DEF ResolveCrashes, Disconnect, Raise, Holding, Terminal
<1>7. CASE Complete \/ Confirm \/ Compose
  BY <1>7, BookKept DEF Complete, Confirm, Compose, Holding, Terminal
<1>8. CASE Settle
  BY <1>8, BookSettle
<1>9. CASE \E a \in Accounts : RunSync(a)
  BY <1>9, BookSync
<1>10. CASE Finished
  BY <1>10, <1>0 DEF Finished
<1> QED
  BY <1>0, <1>1, <1>2, <1>3, <1>4, <1>5, <1>6, <1>7, <1>8, <1>9, <1>10 DEF Next

\* An account is loaded by the attempt that holds it and by no other, and each
\* attempt that has ended is recorded by one background task (Settle, RunSync).
THEOREM BookCorrect == Spec => []AttemptsAccounted
<1>1. BookInv => AttemptsAccounted
  BY DEF BookInv
<1> QED
  BY BookInit, BookNext, <1>1, PTL DEF Spec

------------------------------------------------------------------------------
\* The end mark.

LEMMA OutInit == Init => OutInv
<1> SUFFICES ASSUME Init PROVE OutInv
  OBVIOUS
<1>1. Unmarked(client.out) /\ ~client.hit /\ ~client.ended
  BY NewClientQuiet DEF Init, QuietClient, NewClient
<1>2. \A a \in Accounts : ended[a] # "SUCCESS"
  BY DEF Init
<1> QED
  BY <1>1, <1>2 DEF Init, OutInv, Attempting

\* OutInv of the next state, with the client and the stage it is about.
OutAt(s, c, f, quiet) ==
    /\ s \in Attempting \cup {"reserve"} => Unmarked(c.out)
    /\ s \in Attempting /\ Api = "chat" => ~c.hit
    /\ s \in {"open", "connect", "read"} => ~c.ended
    /\ s \in Attempting \cup {"sent"} => f = "none"
    /\ s \in {"flush", "resolve", "sent"} => scenario.stream
    /\ s = "sent" => Marked(c.out)
    /\ s = "settle" /\ f = "none" /\ scenario.stream => Marked(c.out)
    /\ s = "settle" /\ f \notin {"none", "gone"} => Unmarked(c.out)
    /\ s \in {"settle", "done", "failed", "compose"} => Unmarked(c.out) \/ Marked(c.out)
    /\ s = "compose" \/ ~scenario.stream => Unmarked(c.out)
    /\ scenario.stream /\ ~quiet => s = "done" /\ Marked(c.out)

LEMMA OutNow == OutInv <=> OutAt(stage, client, fault, \A a \in Accounts : ended[a] # "SUCCESS")
  BY DEF OutInv, OutAt

LEMMA OutThen ==
    ASSUME scenario' = scenario,
           OutAt(stage', client', fault', \A a \in Accounts : ended'[a] # "SUCCESS")
    PROVE  OutInv'
  BY DEF OutInv, OutAt, Api, Unmarked, Marked

\* An account is a success of a stream only once the stream is complete.
LEMMA NotYet ==
    ASSUME OutInv, stage # "done", scenario.stream
    PROVE  \A a \in Accounts : ended[a] # "SUCCESS"
  BY DEF OutInv

LEMMA OutRaise ==
    ASSUME OutInv, NEW e, Raise(e), e # "none", stage \in Holding,
           e = "gone" \/ stage \in {"connect", "read", "resolve"}
    PROVE  OutInv'
<1> DEFINE quiet == \A a \in Accounts : ended[a] # "SUCCESS"
<1>1. /\ stage' = "settle" /\ client' = client /\ scenario' = scenario /\ fault' = e
      /\ quiet' = quiet
  BY DEF Raise, relayed, book
<1>2. stage \notin {"done", "compose"}
  BY DEF Holding
<1>3. OutAt(stage, client, fault, quiet)
  BY OutNow
<1> HIDE DEF quiet
<1>4. OutAt("settle", client, e, quiet)
  BY <1>2, <1>3 DEF OutAt, Holding, Attempting
<1> QED
  BY <1>1, <1>4, OutThen DEF quiet

LEMMA OutSettle ==
    ASSUME OutInv, StreamTypes, BookInv, Settle
    PROVE  OutInv'
<1> DEFINE quiet == \A a \in Accounts : ended[a] # "SUCCESS"
<1>1. client' = client /\ scenario' = scenario /\ fault' = fault /\ stage = "settle"
  BY DEF Settle, relayed
<1>2. \A b \in Accounts : ended'[b] = IF b = account THEN FeedbackKind(fault) ELSE ended[b]
  BY DEF Settle, BookInv
<1>3. OutAt(stage, client, fault, quiet)
  BY OutNow
<1>4. CASE fault = "none"
  <2>1. stage' = IF scenario.stream \/ Console THEN "done" ELSE "compose"
    BY <1>4 DEF Settle, AfterSettle
  <2> HIDE DEF quiet
  <2>2. OutAt(stage', client, fault, quiet')
    BY <1>1, <1>3, <1>4, <2>1 DEF OutAt, Attempting
  <2> QED BY <1>1, <2>2, OutThen DEF quiet
<1>5. CASE fault # "none"
  <2>1. FeedbackKind(fault) # "SUCCESS"
    BY <1>5 DEF FeedbackKind
  <2>2. quiet => quiet'
    BY <1>2, <2>1
  <2>3. stage' = IF ShouldRetry(fault) THEN "reserve" ELSE "failed"
    BY <1>5 DEF Settle, AfterSettle
  <2>4. ShouldRetry(fault) => fault # "gone"
    BY RelayAssumption DEF ShouldRetry
  <2> HIDE DEF quiet
  <2>5. OutAt(stage', client, fault, quiet')
    BY <1>1, <1>3, <1>5, <2>2, <2>3, <2>4 DEF OutAt, Attempting
  <2> QED BY <1>1, <2>5, OutThen DEF quiet
<1> QED
  BY <1>4, <1>5

LEMMA OutNext == StreamTypes /\ BookInv /\ OutInv /\ [Next]_vars => OutInv'
<1> SUFFICES ASSUME StreamTypes, BookInv, OutInv, [Next]_vars PROVE OutInv'
  OBVIOUS
<1> DEFINE quiet == \A a \in Accounts : ended[a] # "SUCCESS"
<1>a. OutAt(stage, client, fault, quiet)
  BY OutNow
<1>b. ASSUME scenario' = scenario, ended' = ended, OutAt(stage', client', fault', quiet)
      PROVE  OutInv'
  BY <1>b, OutThen
<1>c. RequestIs
  BY RequestHolds DEF StreamTypes
<1>0. CASE UNCHANGED vars
  BY <1>0, <1>a, <1>b DEF vars
<1>1. ASSUME NEW a \in Accounts, Reserve(a)
      PROVE  OutInv'
  <2>1. Unmarked(client'.out) /\ ~client'.hit /\ ~client'.ended
    BY <1>1, NewClientQuiet DEF Reserve, QuietClient, NewClient
  <2>2. /\ stage' = "open" /\ scenario' = scenario /\ ended' = ended /\ stage = "reserve"
        /\ fault' = "none"
    BY <1>1 DEF Reserve
  <2> HIDE DEF quiet
  <2>3. OutAt(stage', client', fault', quiet)
    BY <1>a, <2>1, <2>2 DEF OutAt
  <2> QED BY <1>b, <2>2, <2>3
<1>2. CASE NoAccount \/ Connect \/ Confirm \/ Compose
  <2>1. /\ scenario' = scenario /\ ended' = ended /\ client' = client /\ fault' = fault
        /\ \/ stage = "reserve" /\ stage' = "failed"
           \/ stage = "connect" /\ stage' = "read"
           \/ stage = "sent" /\ stage' = "settle"
           \/ stage = "compose" /\ stage' = "done"
    BY <1>2 DEF NoAccount, Connect, Confirm, Compose, relayed, book
  <2> HIDE DEF quiet
  <2>2. OutAt(stage', client', fault', quiet)
    BY <1>a, <2>1 DEF OutAt, Attempting
  <2> QED BY <1>b, <2>1, <2>2
<1>3. CASE Open
  <2>1. QuietClient(client') /\ SameText(client, client')
    BY <1>3, OpenWrites
  <2>2. /\ stage = "open" /\ stage' = "connect" /\ scenario' = scenario /\ ended' = ended
        /\ fault' = fault
    BY <1>3 DEF Open, book
  <2> HIDE DEF quiet
  <2>3. OutAt(stage', client', fault', quiet)
    BY <1>a, <2>1, <2>2 DEF OutAt, Attempting, QuietClient, SameText
  <2> QED BY <1>b, <2>2, <2>3
<1>4. ASSUME NEW e \in Outages, Refused(e) \/ BreaksOff(e)
      PROVE  OutInv'
  <2>1. e # "none"
    BY RelayAssumption
  <2> QED BY <1>4, <2>1, OutRaise DEF Refused, BreaksOff, Holding
<1>5. CASE ResolveCrashes \/ Disconnect
  BY <1>5, OutRaise DEF ResolveCrashes, Disconnect, Holding
<1>6. ASSUME NEW f \in scenario.frames, Read(f)
      PROVE  OutInv'
  <2>1. /\ stage = "read" /\ scenario' = scenario /\ ended' = ended /\ fault' = fault
        /\ client' = IF scenario.stream THEN client ELSE Gathered(f)
        /\ stage' = IF client'.ended THEN "settle" ELSE "read"
    BY <1>6 DEF Read, book
  <2>2. /\ Gathered(f).out = client.out /\ Gathered(f).hit = client.hit
        /\ Gathered(f).ended = (f.kind = "stop" /\ ~Console)
    BY DEF Gathered, StreamTypes, Clients
  <2> HIDE DEF quiet
  <2>3. OutAt(stage', client', fault', quiet)
    BY <1>a, <2>1, <2>2 DEF OutAt, Attempting
  <2> QED BY <1>b, <2>1, <2>3
<1>7. CASE Relay
  <2>1. /\ stage = "read" /\ scenario' = scenario /\ ended' = ended /\ fault' = fault
        /\ stage' = AfterRead(client') /\ ended' = ended
    BY <1>7 DEF Relay, book
  <2>2. scenario.stream
    BY <1>7 DEF Relay, StreamTypes
  <2>3. ~client.ended /\ (Api = "chat" => ~client.hit)
    BY <2>1 DEF OutInv, Attempting
  <2>4. client'.ended \in BOOLEAN /\ client'.hit \in BOOLEAN
    BY <1>7, TypesNext DEF Next, StreamTypes, Clients
  <2>5. \/ Api = "chat" /\ CompleteClient(client') /\ client'.ended /\ client'.hit
        \/ QuietClient(client') /\ (Api = "chat" => ~client'.hit)
    BY <1>7, <2>3, RelayWrites DEF Told, OtherTold
  <2>6. \/ Api = "chat" /\ CompleteClient(client') /\ stage' = "sent"
        \/ /\ QuietClient(client') /\ (Api = "chat" => ~client'.hit)
           /\ stage' = "flush" \/ (stage' = "read" /\ ~client'.ended)
    BY <2>1, <2>4, <2>5 DEF AfterRead, Api
  <2> HIDE DEF quiet
  <2>7. OutAt(stage', client', fault', quiet)
    BY <1>a, <2>1, <2>2, <2>6 DEF OutAt, Attempting, QuietClient, CompleteClient
  <2> QED BY <1>b, <2>1, <2>7
<1>8. CASE EndOfStream
  <2>1. /\ stage = "read" /\ scenario' = scenario /\ ended' = ended /\ fault' = fault
        /\ client' = client /\ stage' = IF scenario.stream THEN "flush" ELSE "settle"
    BY <1>8 DEF EndOfStream, relayed, book
  <2> HIDE DEF quiet
  <2>2. OutAt(stage', client', fault', quiet)
    BY <1>a, <2>1 DEF OutAt, Attempting
  <2> QED BY <1>b, <2>1, <2>2
<1>9. CASE FlushSieve
  <2>1. /\ stage = "flush" /\ scenario' = scenario /\ ended' = ended /\ fault' = fault
        /\ stage' = IF Api = "chat" /\ client'.hit THEN "sent" ELSE "resolve"
    BY <1>9 DEF FlushSieve, book
  <2>2. Api = "chat" => ~client.hit
    BY <2>1 DEF OutInv, Attempting
  <2>3. \/ Api = "chat" /\ CompleteClient(client') /\ client'.hit
        \/ QuietClient(client') /\ (Api = "chat" => ~client'.hit)
    BY <1>9, <2>2, FlushWrites DEF FlushTold
  <2> HIDE DEF quiet
  <2>4. OutAt(stage', client', fault', quiet)
    BY <1>a, <2>1, <2>3 DEF OutAt, Attempting, QuietClient, CompleteClient
  <2> QED BY <1>b, <2>1, <2>4
<1>10. CASE ResolveImage
  <2>1. QuietClient(client') /\ client'.hit = client.hit
    BY <1>10, ResolveWrites
  <2>2. /\ stage = "resolve" /\ stage' = stage /\ scenario' = scenario /\ ended' = ended
        /\ fault' = fault
    BY <1>10 DEF ResolveImage, book
  <2> HIDE DEF quiet
  <2>3. OutAt(stage', client', fault', quiet)
    BY <1>a, <2>1, <2>2 DEF OutAt, Attempting, QuietClient
  <2> QED BY <1>b, <2>2, <2>3
<1>11. CASE Complete
  <2>1. CompleteClient(client')
    BY <1>11, CompleteWrites
  <2>2. /\ stage = "resolve" /\ stage' = "sent" /\ scenario' = scenario /\ ended' = ended
        /\ fault' = fault
    BY <1>11 DEF Complete, book
  <2> HIDE DEF quiet
  <2>3. OutAt(stage', client', fault', quiet)
    BY <1>a, <2>1, <2>2 DEF OutAt, Attempting, CompleteClient
  <2> QED BY <1>b, <2>2, <2>3
<1>12. CASE Settle
  BY <1>12, OutSettle
<1>13. ASSUME NEW a \in Accounts, RunSync(a)
       PROVE  OutInv'
  <2>1. /\ stage' = stage /\ client' = client /\ fault' = fault /\ scenario' = scenario
        /\ ended' = ended
    BY <1>13 DEF RunSync, relayed
  <2> QED BY <1>a, <1>b, <2>1
<1>14. CASE Finished
  BY <1>14, <1>0 DEF Finished
<1> QED
  BY <1>0, <1>1, <1>2, <1>3, <1>4, <1>5, <1>6, <1>7, <1>8, <1>9, <1>10, <1>11, <1>12,
     <1>13, <1>14 DEF Next

\* The types and the books of a request, and what its stream has sent.
RelayInv == StreamTypes /\ BookInv /\ OutInv

LEMMA RelayInvariant == Spec => []RelayInv
<1>1. Init => RelayInv
  BY TypesInit, BookInit, OutInit DEF RelayInv
<1>2. RelayInv /\ [Next]_vars => RelayInv'
  BY TypesNext, BookNext, OutNext DEF RelayInv
<1> QED
  BY <1>1, <1>2, PTL DEF Spec

LEMMA DoneIs == DoneEvent[1] = "DONE"
<1> DEFINE none == ""
<1>1. DoneEvent = <<"DONE", 0, none>>
  BY DEF DoneEvent
<1> HIDE DEF none
<1> QED
  BY <1>1

LEMMA MarkedOnce == RelayInv => EndMark
<1> SUFFICES ASSUME RelayInv PROVE EndMark
  OBVIOUS
<1> DEFINE out == client.out
           marks == {i \in DOMAIN out : out[i][1] = "DONE"}
<1>1. \A x \in Quiet : x[1] # "DONE"
  BY DEF Quiet
<1>2. stage \in Stages /\ out \in Sent
  BY DEF RelayInv, StreamTypes, Clients
<1>3. Len(out) \in Nat /\ DOMAIN out = 1 .. Len(out)
  BY <1>2 DEF Sent
<1>4. CASE Unmarked(out)
  <2>1. marks = {}
    <3>1. \A i \in DOMAIN out : out[i] \in Quiet
      BY <1>4 DEF Unmarked
    <3> QED BY <1>1, <3>1
  <2>2. ~Marked(out)
    <3>1. SUFFICES ASSUME Marked(out) PROVE FALSE
      OBVIOUS
    <3>2. Len(out) \in DOMAIN out /\ out[Len(out)][1] = "DONE"
      BY <1>3, <3>1, DoneIs DEF Marked
    <3> QED BY <2>1, <3>2
  <2>3. ~(scenario.stream /\ \E a \in Accounts : ended[a] = "SUCCESS")
    BY <2>2 DEF RelayInv, OutInv
  <2> QED BY <2>1, <2>3 DEF EndMark
<1>5. CASE Marked(out)
  <2>1. marks = {Len(out)}
    <3>1. Len(out) \in marks
      BY <1>3, <1>5, DoneIs DEF Marked
    <3>2. \A i \in DOMAIN out : i # Len(out) => i \notin marks
      BY <1>1, <1>3, <1>5 DEF Marked
    <3> QED BY <3>1, <3>2
  <2>2. ~Unmarked(out)
    <3>1. SUFFICES ASSUME Unmarked(out) PROVE FALSE
      OBVIOUS
    <3>2. out[Len(out)] \in Quiet /\ out[Len(out)][1] = "DONE"
      BY <1>3, <1>5, <3>1, DoneIs DEF Unmarked, Marked
    <3> QED BY <1>1, <3>2
  <2>3. stage \in {"sent", "settle", "done", "failed"}
    BY <1>2, <2>2 DEF RelayInv, OutInv, Attempting, Stages, Holding, Terminal
  <2> QED BY <1>5, <2>1, <2>3 DEF EndMark, Marked
<1>6. Unmarked(out) \/ Marked(out)
  BY <1>2 DEF RelayInv, OutInv, Attempting, Stages, Holding, Terminal
<1> QED
  BY <1>4, <1>5, <1>6

\* The end mark comes once, after the final event and nothing follows it; what
\* has written it is not tried again, and only that is a stream's success.
THEOREM EndMarkCorrect == Spec => []EndMark
  BY RelayInvariant, MarkedOnce, PTL

------------------------------------------------------------------------------
\* The text: what the sieve lets through and what it holds.

LEMMA TagsOfBoth ==
    ASSUME NEW w \in Texts, NEW v \in Texts, Tags(w, "open") = {}, Tags(v, "open") = {},
           NoTagBegun(w) \/ v = <<>> \/ v[1] # "open"
    PROVE  Tags(w \o v, "open") = {}
<1> SUFFICES ASSUME NEW i \in Tags(w \o v, "open") PROVE FALSE
  OBVIOUS
<1> DEFINE t == w \o v
<1>1. Len(w) \in Nat /\ Len(v) \in Nat /\ Len(t) = Len(w) + Len(v)
  BY DEF Texts
<1>2. i \in 1 .. Len(t) - 1 /\ t[i] = "lt" /\ t[i + 1] = "open"
  BY DEF Tags
<1>3. /\ \A k \in 1 .. Len(w) : t[k] = w[k]
      /\ \A k \in Len(w) + 1 .. Len(t) : t[k] = v[k - Len(w)]
  BY DEF Texts
<1> HIDE DEF t
<1>4. CASE i < Len(w)
  <2>1. i \in 1 .. Len(w) - 1 /\ w[i] = "lt" /\ w[i + 1] = "open"
    BY <1>1, <1>2, <1>3, <1>4
  <2> QED BY <2>1 DEF Tags
<1>5. CASE i = Len(w)
  <2>1. w[Len(w)] = "lt" /\ v[1] = "open" /\ w # <<>> /\ v # <<>>
    BY <1>1, <1>2, <1>3, <1>5
  <2> QED BY <2>1 DEF NoTagBegun
<1>6. CASE i > Len(w)
  <2> DEFINE j == i - Len(w)
  <2>1. j \in 1 .. Len(v) - 1 /\ v[j] = "lt" /\ v[j + 1] = "open"
    <3>1. v[i - Len(w)] = "lt" /\ v[(i + 1) - Len(w)] = "open"
      BY <1>1, <1>2, <1>3, <1>6
    <3>2. (i + 1) - Len(w) = j + 1
      BY <1>1, <1>2
    <3> QED BY <1>1, <1>2, <1>6, <3>1, <3>2
  <2> QED BY <2>1 DEF Tags
<1> QED
  BY <1>1, <1>2, <1>4, <1>5, <1>6

\* Sieved text: s becomes p.sieve, and p.safe may go to the client.
Sieved(s, w, text, p) ==
    /\ ~p.hit => /\ text = p.safe \o p.sieve.buf /\ ~p.sieve.done
                 /\ Holds(p.sieve, w \o p.safe)
    /\ p.hit => /\ Tags(w \o p.safe, "open") = {}
                /\ \E rest \in Texts : /\ text = p.safe \o rest
                                       /\ rest # <<>> /\ rest[1] = "lt"

\* A captured block begins with an opening tag, so that one that is complete is
\* always seen.
LEMMA CaptureHolds ==
    ASSUME NEW s \in Sieves, NEW chunk \in Texts, s.capturing, ~s.done,
           Len(s.buf) > 1, s.buf[1] = "lt", s.buf[2] = "open"
    PROVE  LET p == FeedCapturing(s, chunk)
               buf == s.buf \o chunk
           IN  /\ p.safe = <<>> /\ Len(buf) > 1 /\ buf[1] = "lt" /\ buf[2] = "open"
               /\ ~p.hit => p.sieve = [s EXCEPT !.buf = buf]
<1> DEFINE buf == s.buf \o chunk
           closes == Tags(buf, "close")
           block == SubSeq(buf, 1, LeastOf(closes) + 1)
<1>1. buf \in Texts /\ Len(buf) \in Nat /\ Len(buf) > 1 /\ buf[1] = "lt" /\ buf[2] = "open"
  BY DEF Sieves, Texts
<1>2. CASE closes = {}
  <2>1. FeedCapturing(s, chunk) = Sifted([s EXCEPT !.buf = buf], <<>>, FALSE, 0)
    BY <1>2 DEF FeedCapturing
  <2> HIDE DEF buf, closes
  <2> QED BY <1>1, <2>1 DEF Sifted, buf
<1>3. CASE closes # {}
  <2>1. LeastOf(closes) \in 1 .. Len(buf) - 1
    <3> HIDE DEF closes
    <3>1. closes \in SUBSET Nat /\ \A i \in closes : i \in 1 .. Len(buf) - 1
      BY <1>1, TagsIn DEF closes
    <3> QED BY <3>1, <1>3, LeastOfIn
  <2>2. Len(block) > 1 /\ Len(block) \in Nat /\ block[1] = "lt" /\ block[2] = "open"
    <3> DEFINE n == LeastOf(closes) + 1
    <3>1. n \in 2 .. Len(buf) /\ n \in Nat
      <4> HIDE DEF buf, closes
      <4> QED BY <1>1, <2>1
    <3>2. block = SubSeq(buf, 1, n)
      OBVIOUS
    <3> HIDE DEF buf, closes, n, block
    <3>3. buf \in Seq(Pieces)
      BY <1>1 DEF Texts
    <3>4. Len(SubSeq(buf, 1, n)) = n
      BY <1>1, <3>1, <3>3
    <3>5. \A i \in 1 .. n : SubSeq(buf, 1, n)[i] = buf[i]
      BY <1>1, <3>1, <3>3
    <3> QED BY <1>1, <3>1, <3>2, <3>4, <3>5
  <2>3. ParseToolCalls(block).saw
    <3>1. 1 \in Tags(block, "open")
      <4> HIDE DEF block
      <4> QED BY <2>2 DEF Tags
    <3> QED BY <3>1 DEF ParseToolCalls
  <2>4. FeedCapturing(s, chunk)
        = Sifted([buf |-> <<>>, capturing |-> FALSE, done |-> TRUE],
                 <<>>, ParseToolCalls(block).saw, ParseToolCalls(block).calls)
    BY <1>3 DEF FeedCapturing
  <2> HIDE DEF block, closes, buf
  <2> QED BY <1>1, <2>3, <2>4 DEF Sifted, buf
<1> QED
  BY <1>2, <1>3

LEMMA Joined ==
    ASSUME NEW v \in Texts, NEW rest \in Texts
    PROVE  /\ v \o rest \in Texts /\ Len(v) \in Nat /\ Len(rest) \in Nat
           /\ Len(v \o rest) = Len(v) + Len(rest)
           /\ \A k \in 1 .. Len(v) : (v \o rest)[k] = v[k]
           /\ \A k \in 1 .. Len(rest) : (v \o rest)[Len(v) + k] = rest[k]
  BY DEF Texts

\* A text is cut in two after a position.
CutAt(t, n, v, rest) ==
    /\ v \in Texts /\ rest \in Texts /\ t = v \o rest
    /\ Len(v) = n /\ Len(rest) = Len(t) - n
    /\ \A k \in 1 .. n : v[k] = t[k]
    /\ \A k \in 1 .. Len(t) - n : rest[k] = t[n + k]

LEMMA CutInTwo ==
    ASSUME NEW t \in Texts, NEW n \in 0 .. Len(t)
    PROVE  CutAt(t, n, SubSeq(t, 1, n), SubSeq(t, n + 1, Len(t)))
<1> DEFINE v == SubSeq(t, 1, n)
           rest == SubSeq(t, n + 1, Len(t))
<1>1. Len(t) \in Nat /\ n \in Nat /\ n <= Len(t)
  BY DEF Texts
<1>2. v \in Texts /\ Len(v) = n /\ \A k \in 1 .. n : v[k] = t[k]
  BY <1>1 DEF Texts
<1>3. rest \in Texts /\ Len(rest) = Len(t) - n
  BY <1>1 DEF Texts
<1>4. \A k \in 1 .. Len(t) - n : rest[k] = t[n + k]
  BY <1>1, <1>3 DEF Texts
<1> HIDE DEF v, rest
<1>5. t = v \o rest
  <2>1. /\ v \o rest \in Texts /\ Len(v \o rest) = n + (Len(t) - n)
        /\ \A k \in 1 .. n : (v \o rest)[k] = v[k]
        /\ \A k \in 1 .. Len(t) - n : (v \o rest)[n + k] = rest[k]
    <3>1. /\ v \o rest \in Texts /\ Len(v \o rest) = Len(v) + Len(rest)
          /\ \A k \in 1 .. Len(v) : (v \o rest)[k] = v[k]
          /\ \A k \in 1 .. Len(rest) : (v \o rest)[Len(v) + k] = rest[k]
      BY <1>2, <1>3, Joined, Zenon
    <3>2. Len(v) = n /\ Len(rest) = Len(t) - n
      BY <1>2, <1>3
    <3> QED BY <3>1, <3>2, Zenon
  <2> DEFINE u == v \o rest
  <2> HIDE DEF u
  <2>2. u \in Texts /\ Len(u) = Len(t)
    BY <1>1, <2>1 DEF u
  <2>3. ASSUME NEW k \in 1 .. Len(t) PROVE u[k] = t[k]
    <3>1. CASE k <= n
      <4>1. k \in 1 .. n
        BY <1>1, <3>1
      <4> QED BY <1>2, <2>1, <4>1 DEF u
    <3>2. CASE k > n
      <4>1. k - n \in 1 .. Len(t) - n /\ k = n + (k - n)
        BY <1>1, <3>2
      <4>2. u[n + (k - n)] = rest[k - n] /\ rest[k - n] = t[n + (k - n)]
        BY <1>4, <2>1, <4>1 DEF u
      <4> QED BY <4>1, <4>2
    <3> QED BY <1>1, <3>1, <3>2
  <2>4. u = t
    BY <2>2, <2>3 DEF Texts
  <2> QED BY <2>4 DEF u
<1>6. CutAt(t, n, v, rest)
  BY <1>2, <1>3, <1>4, <1>5 DEF CutAt
<1> QED
  BY <1>6 DEF v, rest

LEMMA EmptyText ==
    /\ <<>> \in Texts
    /\ \A t \in Texts : t \o <<>> = t /\ <<>> \o t = t
  BY DEF Texts

LEMMA CapturingSieved ==
    ASSUME NEW s \in Sieves, NEW chunk \in Texts, NEW w \in Texts, s.capturing, ~s.done,
           Holds(s, w)
    PROVE  Sieved(s, w, s.buf \o chunk, FeedCapturing(s, chunk))
<1> DEFINE p == FeedCapturing(s, chunk)
           buf == s.buf \o chunk
<1>0. s.buf # <<>> /\ s.buf[1] = "lt" /\ Len(s.buf) > 1 /\ s.buf[2] = "open"
  BY DEF Holds, Sieves, Texts
<1>1. /\ p.safe = <<>> /\ Len(buf) > 1 /\ buf[1] = "lt" /\ buf[2] = "open"
      /\ ~p.hit => p.sieve = [s EXCEPT !.buf = buf]
  BY <1>0, CaptureHolds
<1>2. buf \in Texts
  BY DEF Sieves, Texts
<1>3. w \o p.safe = w /\ p.safe \o buf = buf
  BY <1>1, <1>2, EmptyText
<1>4. buf # <<>>
  BY <1>0 DEF Sieves, Texts
<1> HIDE DEF p, buf
<1>5. ~p.hit => p.sieve.buf = buf /\ ~p.sieve.done /\ p.sieve.capturing
  BY <1>1 DEF Sieves
<1>6. Sieved(s, w, buf, p)
  BY <1>1, <1>2, <1>3, <1>4, <1>5 DEF Sieved, Holds
<1> QED
  BY <1>6 DEF p, buf

LEMMA ScanningSieved ==
    ASSUME NEW s \in Sieves, NEW chunk \in Texts, NEW w \in Texts, ~s.capturing, ~s.done,
           chunk # <<>>, Holds(s, w)
    PROVE  Sieved(s, w, s.buf \o chunk, FeedScanning(s, chunk))
<1> DEFINE text == s.buf \o chunk
           opens == Tags(text, "open")
           at == LeastOf(opens)
           cut == SplitAtBoundary(text)
           p == FeedScanning(s, chunk)
<1>1. text \in Texts /\ Len(text) \in Nat /\ text # <<>>
  BY DEF Sieves, Texts
<1>2. NoTagBegun(w) \/ text[1] # "open"
  <2>1. CASE s.buf = <<>>
    BY <2>1 DEF Holds
  <2>2. CASE s.buf = <<"lt">>
    <3>1. text[1] = "lt"
      BY <2>2 DEF Texts
    <3> QED BY <3>1
  <2> QED BY <2>1, <2>2 DEF Holds
<1>3. Tags(w, "open") = {}
  BY DEF Holds
<1>4. ASSUME NEW v \in Texts, NEW rest \in Texts, text = v \o rest, Tags(v, "open") = {}
      PROVE  Tags(w \o v, "open") = {}
  <2>1. v = <<>> \/ v[1] = text[1]
    <3> HIDE DEF text
    <3> QED BY <1>4 DEF Texts
  <2> HIDE DEF text
  <2> QED BY <1>2, <1>3, <1>4, <2>1, TagsOfBoth
<1> HIDE DEF text
<1>5. CASE opens = {}
  <2>1. p = Sifted([s EXCEPT !.buf = cut.leftover], cut.safe, FALSE, 0)
    BY <1>5 DEF FeedScanning, text
  <2>2. /\ cut.safe \in Texts /\ cut.leftover \in {<<>>, <<"lt">>}
        /\ text = cut.safe \o cut.leftover
        /\ cut.leftover = <<>> => cut.safe = text /\ NoTagBegun(text)
    <3>1. CASE text[Len(text)] = "lt"
      <4>1. Front(text) \in Texts /\ text = Front(text) \o <<"lt">>
        BY <1>1, <3>1 DEF Texts, Front
      <4>2. cut = [safe |-> Front(text), leftover |-> <<"lt">>]
        BY <1>1, <3>1 DEF SplitAtBoundary, Last
      <4> QED BY <4>1, <4>2
    <3>2. CASE text[Len(text)] # "lt"
      <4>1. cut = [safe |-> text, leftover |-> <<>>]
        BY <3>2 DEF SplitAtBoundary, Last
      <4>2. text \o <<>> = text
        BY <1>1, EmptyText
      <4> HIDE DEF cut
      <4> QED BY <1>1, <3>2, <4>1, <4>2 DEF NoTagBegun
    <3> QED BY <3>1, <3>2
  <2>4. cut.leftover \in Texts
    <3>1. <<"lt">> \in Texts
      BY DEF Texts, Pieces
    <3> QED BY <2>2, <3>1, EmptyText
  <2>3. Tags(cut.safe, "open") = {}
    <3> HIDE DEF cut
    <3>1. Tags(cut.safe, "open") \subseteq opens
      <4> SUFFICES ASSUME NEW i \in Tags(cut.safe, "open") PROVE i \in opens
        OBVIOUS
      <4>1. Len(cut.safe) \in Nat /\ Len(cut.safe) <= Len(text)
        <5>1. /\ Len(cut.safe) \in Nat /\ Len(cut.leftover) \in Nat
              /\ Len(cut.safe \o cut.leftover) = Len(cut.safe) + Len(cut.leftover)
          BY <2>2, <2>4, Joined
        <5>2. Len(text) = Len(cut.safe) + Len(cut.leftover)
          BY <2>2, <5>1, Zenon
        <5>3. \A m, n \in Nat : m <= m + n
          OBVIOUS
        <5> QED BY <5>1, <5>2, <5>3, Zenon
      <4>2. \A k \in 1 .. Len(cut.safe) : text[k] = cut.safe[k]
        BY <2>2, <2>4, Joined
      <4>3. /\ i \in 1 .. Len(cut.safe) - 1 /\ cut.safe[i] = "lt" /\ cut.safe[i + 1] = "open"
        BY DEF Tags
      <4>4. i \in 1 .. Len(text) - 1 /\ text[i] = "lt" /\ text[i + 1] = "open"
        BY <1>1, <4>1, <4>2, <4>3
      <4> QED BY <4>4 DEF Tags
    <3> QED BY <1>5, <3>1
  <2> HIDE DEF cut
  <2>5. Tags(w \o cut.safe, "open") = {}
    BY <1>4, <2>2, <2>3, <2>4
  <2>6. cut.leftover = <<>> => NoTagBegun(w \o cut.safe)
    <3> SUFFICES ASSUME cut.leftover = <<>> PROVE NoTagBegun(w \o cut.safe)
      OBVIOUS
    <3>1. cut.safe = text /\ text[Len(text)] # "lt"
      BY <1>1, <2>2 DEF NoTagBegun
    <3>2. (w \o text)[Len(w \o text)] = text[Len(text)]
      BY <1>1 DEF Texts
    <3> QED BY <3>1, <3>2 DEF NoTagBegun
  <2>7. /\ p.safe = cut.safe /\ p.sieve.buf = cut.leftover /\ ~p.sieve.done /\ ~p.hit
        /\ ~p.sieve.capturing
    BY <2>1 DEF Sifted, Sieves
  <2> HIDE DEF p
  <2>8. Holds(p.sieve, w \o p.safe)
    <3>1. p.sieve.buf # <<>> => p.sieve.buf[1] = "lt"
      BY <2>2, <2>7
    <3> QED BY <2>2, <2>5, <2>6, <2>7, <3>1 DEF Holds
  <2>9. Sieved(s, w, text, p)
    BY <2>2, <2>7, <2>8 DEF Sieved
  <2> QED BY <2>9 DEF p, text
<1>6. CASE opens # {}
  <2> DEFINE b == [s EXCEPT !.buf = SubSeq(text, at, Len(text)), !.capturing = TRUE]
             q == FeedCapturing(b, <<>>)
             safe == SubSeq(text, 1, at - 1)
  <2>1. at \in opens /\ \A i \in opens : at <= i
    <3>1. opens \in SUBSET Nat
      BY <1>1, TagsIn
    <3> HIDE DEF opens
    <3> QED BY <1>6, <3>1, LeastOfIn
  <2>2. at \in 1 .. Len(text) - 1 /\ text[at] = "lt" /\ text[at + 1] = "open"
    BY <2>1 DEF Tags
  <2>3. \A i \in 1 .. Len(text) - 1 : i < at => ~(text[i] = "lt" /\ text[i + 1] = "open")
    BY <2>1, <2>2 DEF Tags
  <2>4. p = [q EXCEPT !.safe = safe]
    BY <1>6 DEF FeedScanning, text
  <2> DEFINE tag == SubSeq(text, at, Len(text))
  <2> HIDE DEF at, opens
  <2>5. /\ tag \in Texts /\ Len(tag) > 1 /\ tag[1] = "lt" /\ tag[2] = "open"
        /\ safe \in Texts /\ text = safe \o tag
    <3> DEFINE n == at - 1
    <3>1. n \in 0 .. Len(text) /\ n + 1 = at /\ Len(text) - n > 1 /\ Len(text) - n \in Nat
      BY <1>1, <2>2
    <3>2. /\ tag = SubSeq(text, n + 1, Len(text)) /\ safe = SubSeq(text, 1, n)
          /\ n + 2 = at + 1
      BY <1>1, <2>2, <3>1
    <3> HIDE DEF tag, safe, n
    <3>3. /\ tag \in Texts /\ safe \in Texts /\ text = safe \o tag
          /\ Len(tag) = Len(text) - n
          /\ tag[1] = text[n + 1] /\ tag[2] = text[n + 2]
      <4>1. CutAt(text, n, safe, tag)
        BY <1>1, <3>1, <3>2, CutInTwo
      <4> QED BY <3>1, <4>1 DEF CutAt
    <3> QED BY <2>2, <3>1, <3>2, <3>3
  <2>6. Tags(safe, "open") = {}
    <3> SUFFICES ASSUME NEW i \in Tags(safe, "open") PROVE FALSE
      OBVIOUS
    <3>1. Len(safe) = at - 1 /\ \A k \in 1 .. at - 1 : safe[k] = text[k]
      BY <1>1, <2>2 DEF Texts
    <3>2. i \in 1 .. Len(safe) - 1 /\ safe[i] = "lt" /\ safe[i + 1] = "open"
      BY DEF Tags
    <3> HIDE DEF safe
    <3> QED BY <1>1, <2>2, <2>3, <3>1, <3>2
  <2>7. Tags(w \o safe, "open") = {}
    <3> HIDE DEF safe, tag
    <3> QED BY <1>4, <2>5, <2>6
  <2>8. b \in Sieves /\ b.capturing /\ ~b.done /\ b.buf = tag
    <3> HIDE DEF tag
    <3>1. b = [s EXCEPT !.buf = tag, !.capturing = TRUE]
      BY DEF tag
    <3> HIDE DEF b
    <3> QED BY <2>5, <3>1 DEF Sieves
  <2> HIDE DEF b, safe, tag
  <2>9. /\ q \in SieveResults /\ (~q.hit => q.sieve = [b EXCEPT !.buf = tag \o <<>>])
    <3>1. q \in SieveResults
      BY <2>8, EmptyText, CapturingType
    <3>2. ~q.hit => q.sieve = [b EXCEPT !.buf = b.buf \o <<>>]
      BY <2>5, <2>8, EmptyText, CaptureHolds
    <3> QED BY <2>8, <3>1, <3>2
  <2> HIDE DEF q
  <2>10. tag \o <<>> = tag
    BY <2>5, EmptyText
  <2>11. /\ p.safe = safe /\ p.hit = q.hit /\ p.sieve = q.sieve
    BY <2>4, <2>9 DEF SieveResults
  <2>12. ~q.hit => q.sieve.buf = tag /\ q.sieve.capturing /\ ~q.sieve.done
    BY <2>8, <2>9, <2>10 DEF Sieves
  <2> HIDE DEF p
  <2>13. tag # <<>>
    BY <2>5 DEF Texts
  <2>14. Sieved(s, w, text, p)
    BY <2>5, <2>7, <2>11, <2>12, <2>13 DEF Sieved, Holds
  <2> QED BY <2>14 DEF p, text
<1> QED
  BY <1>5, <1>6

\* Whatever the chunks, text goes on until an opening tag may have begun.
LEMMA SieveHolds ==
    ASSUME NEW s \in Sieves, NEW chunk \in Texts, NEW w \in Texts, ~s.done, Holds(s, w)
    PROVE  Sieved(s, w, s.buf \o chunk, Sieve(s, chunk))
<1>1. CASE chunk = <<>>
  <2> DEFINE p == Sieve(s, chunk)
  <2>1. p = Sifted(s, <<>>, FALSE, 0)
    BY <1>1 DEF Sieve
  <2>2. s.buf \o <<>> = s.buf /\ <<>> \o s.buf = s.buf /\ w \o <<>> = w
    BY EmptyText DEF Sieves
  <2>3. p.safe = <<>> /\ p.sieve = s /\ ~p.hit
    BY <2>1 DEF Sifted
  <2> HIDE DEF p
  <2>4. Sieved(s, w, s.buf \o chunk, p)
    BY <1>1, <2>2, <2>3 DEF Sieved
  <2> QED BY <2>4 DEF p
<1>2. CASE chunk # <<>> /\ s.capturing
  <2>1. Sieve(s, chunk) = FeedCapturing(s, chunk)
    BY <1>2 DEF Sieve
  <2> QED BY <1>2, <2>1, CapturingSieved
<1>3. CASE chunk # <<>> /\ ~s.capturing
  <2>1. Sieve(s, chunk) = FeedScanning(s, chunk)
    BY <1>3 DEF Sieve
  <2> QED BY <1>3, <2>1, ScanningSieved
<1> QED
  BY <1>1, <1>2, <1>3

------------------------------------------------------------------------------
\* The text: the steps of a request.

LEMMA TextNow == TextInv <=> (scenario.stream => TextAt(scenario, stage, adapter, events, client))
  BY DEF TextInv

LEMMA TextThen ==
    ASSUME scenario' = scenario,
           scenario.stream => TextAt(scenario, stage', adapter', events', client')
    PROVE  TextInv'
  BY DEF TextInv

LEMMA Associative ==
    ASSUME NEW u \in Texts, NEW v \in Texts, NEW w \in Texts
    PROVE  u \o (v \o w) = (u \o v) \o w
  BY DEF Texts

\* Where the text and the sieve stay, a stage may follow another.
LEMMA TextKept ==
    ASSUME NEW sc, NEW s, NEW a, NEW evs, NEW c, TextAt(sc, s, a, evs, c),
           NEW d, d.text = c.text, d.sieve = c.sieve, d.hit = c.hit, d.ended = c.ended,
           d.marks = c.marks, NEW t,
           t \in Attempting \ {"resolve"} => s \in Attempting \ {"resolve"},
           t \in {"resolve", "sent"} => s = t,
           t \in {"open", "connect", "read"} => s \in {"open", "connect", "read"},
           t \in Attempting \ {"read"} => evs = <<>>
    PROVE  TextAt(sc, t, a, evs, d)
<1>1. PICK w, rest \in Texts : Carried(sc, s, a, evs, c, w, rest)
  BY DEF TextAt
<1>2. Carried(sc, t, a, evs, d, w, rest)
  BY <1>1 DEF Carried
<1> QED
  BY <1>2 DEF TextAt

LEMMA Untold ==
    ASSUME NEW evs \in Seq(RelayEvents), evs # <<>>, NEW text, Pending(evs, text),
           NEW next \in {<<>>, Tail(evs)}
    PROVE  Due(next) = <<>> /\ Pending(next, text)
<1>1. /\ Len(evs) \in Nat
      /\ next # <<>> => /\ Len(next) = Len(evs) - 1 /\ 1 \in 1 .. Len(next)
                        /\ \A i \in 1 .. Len(next) : next[i] = evs[i + 1] /\ i + 1 \in 2 .. Len(evs)
  OBVIOUS
<1>2. CASE next = <<>>
  BY <1>2 DEF Due, Pending
<1>3. CASE next # <<>>
  <2>1. \A i \in 1 .. Len(next) : next[i].ev # "text"
    BY <1>1, <1>3 DEF Pending
  <2>2. \A i \in 1 .. Len(next) : next[i].ev = "annotation" => MarksAt({next[i].at}, text)
    BY <1>1, <1>3 DEF Pending
  <2>3. Due(next) = <<>>
    BY <1>1, <1>3, <2>1 DEF Due
  <2>4. \A i \in 2 .. Len(next) : i \in 1 .. Len(next)
    BY <1>1, <1>3
  <2> QED BY <2>1, <2>2, <2>3, <2>4 DEF Pending
<1> QED
  BY <1>2, <1>3

LEMMA EmbeddedSelf ==
    ASSUME NEW w \in Texts
    PROVE  Embedded(w, w)
  BY DEF Embedded, Texts

LEMMA EmbedAfter ==
    ASSUME NEW text \in Shown, NEW w \in Texts, Embedded(text, w), NEW marks, MarksAt(marks, text)
    PROVE  Embedded(text \o <<"embed">>, w) /\ MarksAt(marks, text \o <<"embed">>)
<1> DEFINE all == text \o <<"embed">>
<1>1. /\ Len(text) \in Nat /\ Len(w) \in Nat /\ Len(all) = Len(text) + 1
      /\ \A i \in 1 .. Len(text) : all[i] = text[i]
      /\ all[Len(text) + 1] = "embed"
  BY DEF Shown, Texts
<1> HIDE DEF all
<1>2. Embedded(all, w)
  <2>1. \A i \in 1 .. Len(w) : all[i] = w[i]
    BY <1>1 DEF Embedded
  <2>2. ASSUME NEW i \in Len(w) + 1 .. Len(all) PROVE all[i] = "embed"
    <3>1. CASE i = Len(text) + 1
      BY <1>1, <3>1
    <3>2. CASE i # Len(text) + 1
      <4>1. i \in 1 .. Len(text) /\ i \in Len(w) + 1 .. Len(text)
        BY <1>1, <3>2
      <4> QED BY <1>1, <4>1 DEF Embedded
    <3> QED BY <3>1, <3>2
  <2> QED BY <1>1, <2>1, <2>2 DEF Embedded
<1>3. MarksAt(marks, all)
  <2> SUFFICES ASSUME NEW p \in marks PROVE p \in 1 .. Len(all) /\ all[p] \in CiteMarks
    BY DEF MarksAt
  <2>1. p \in 1 .. Len(text) /\ text[p] \in CiteMarks
    BY DEF MarksAt
  <2> QED BY <1>1, <2>1
<1> QED
  BY <1>2, <1>3 DEF all

LEMMA NewText ==
    ASSUME NEW sc, NEW s, s \notin {"resolve", "sent"}
    PROVE  TextAt(sc, s, NewAdapter, <<>>, NewClient)
<1>1. <<>> \in Texts /\ <<>> \o <<>> = <<>>
  BY EmptyText
<1>2. /\ NewAdapter.text = <<>> /\ NewClient.text = <<>> /\ NewClient.sieve = NewSieve
      /\ ~NewClient.hit /\ NewClient.marks = {} /\ NewSieve.buf = <<>> /\ ~NewSieve.done
      /\ ~NewSieve.capturing
  BY DEF NewAdapter, NewClient, NewSieve
<1>3. Embedded(<<>>, <<>>)
  BY DEF Embedded
<1>4. Tags(<<>>, "open") = {} /\ Due(<<>>) = <<>> /\ NoTagBegun(<<>>)
  BY DEF Tags, Due, NoTagBegun
<1>5. Holds(NewSieve, <<>>)
  BY <1>2, <1>4 DEF Holds
<1>6. Carried(sc, s, NewAdapter, <<>>, NewClient, <<>>, <<>>)
  BY <1>1, <1>2, <1>3, <1>4, <1>5 DEF Carried
<1>7. Pending(<<>>, NewAdapter.text) /\ MarksAt({}, NewClient.text)
  BY DEF Pending, MarksAt
<1> QED
  BY <1>1, <1>2, <1>6, <1>7 DEF TextAt

LEMMA TextInit == Init => TextInv
  BY NewText DEF Init, TextInv

LEMMA TextRead ==
    ASSUME StreamTypes, OutInv, TextInv, NEW f \in scenario.frames, Read(f)
    PROVE  TextInv'
<1>1. /\ stage = "read" /\ events = <<>> /\ scenario' = scenario
      /\ client' = IF scenario.stream THEN client ELSE Gathered(f)
      /\ stage' = IF client'.ended THEN "settle" ELSE "read"
  BY DEF Read
<1> SUFFICES ASSUME scenario.stream PROVE TextAt(scenario, stage', adapter', events', client')
  BY <1>1, TextThen
<1>2. client' = client /\ stage' = "read" /\ ~client.ended
  BY <1>1 DEF OutInv
<1>3. TextAt(scenario, "read", adapter, <<>>, client)
  BY <1>1, TextNow
<1>4. PICK fed : Fed(adapter, fed) /\ adapter' = fed.adapter /\ events' = fed.events
  BY ReadFeeds
<1>5. adapter.text \in Texts /\ fed.events \in Seq(RelayEvents) /\ Len(fed.events) \in Nat
  BY <1>4 DEF StreamTypes, Adapters, Fed
<1>6. PICK w, rest \in Texts : Carried(scenario, "read", adapter, <<>>, client, w, rest)
  BY <1>3 DEF TextAt
<1>7. ~client.hit
  BY <1>2, <1>3 DEF TextAt
<1>8. /\ adapter.text = w \o rest /\ rest = client.sieve.buf /\ client.sieve.buf \in Texts
  <2>1. client.sieve.buf \in Texts
    BY DEF StreamTypes, Clients, Sieves
  <2>2. rest = client.sieve.buf \o <<>>
    BY <1>6, <1>7 DEF Carried, Attempting, Due
  <2> QED BY <1>6, <2>1, <2>2, EmptyText DEF Carried
<1>9. CASE fed.adapter.text = adapter.text /\ Textless(fed.events)
  <2>1. Due(fed.events) = <<>> /\ Pending(fed.events, fed.adapter.text)
    <3>1. \A i \in 1 .. Len(fed.events) : fed.events[i].ev \in {"thinking", "image", "soft_stop"}
      BY <1>5, <1>9 DEF Textless
    <3>2. fed.events # <<>> => 1 \in 1 .. Len(fed.events)
      BY <1>5
    <3>3. \A i \in 2 .. Len(fed.events) : i \in 1 .. Len(fed.events)
      BY <1>5
    <3> QED BY <3>1, <3>2, <3>3 DEF Due, Pending
  <2>2. Carried(scenario, "read", fed.adapter, fed.events, client, w, rest)
    BY <1>6, <1>9, <2>1 DEF Carried, Due
  <2> QED BY <1>2, <1>3, <1>4, <2>1, <2>2 DEF TextAt, Attempting
<1>10. ASSUME NEW text \in Texts, fed.adapter.text = adapter.text \o text,
              Texted(fed.events, text, fed.adapter.text)
       PROVE  TextAt(scenario, stage', adapter', events', client')
  <2>1. Due(fed.events) = text
    BY <1>5, <1>10 DEF Texted, Due
  <2>2. Pending(fed.events, fed.adapter.text)
    <3>1. fed.events[1].ev = "text"
      BY <1>10 DEF Texted
    <3>2. \A i \in 1 .. Len(fed.events) : i = 1 \/ i \in 2 .. Len(fed.events)
      BY <1>5
    <3> QED BY <1>10, <3>1, <3>2 DEF Texted, Pending, MarksAt
  <2>3. rest \o text \in Texts /\ fed.adapter.text = w \o (rest \o text)
    <3>1. rest \o text \in Texts
      BY <1>10, Joined, Zenon
    <3>2. fed.adapter.text = (w \o rest) \o text
      BY <1>8, <1>10, Zenon
    <3>3. w \o (rest \o text) = (w \o rest) \o text
      BY <1>10, Associative, Zenon
    <3> QED BY <3>1, <3>2, <3>3, Zenon
  <2>4. Carried(scenario, "read", fed.adapter, fed.events, client, w, rest \o text)
    BY <1>6, <1>7, <1>8, <2>1, <2>3 DEF Carried
  <2> QED BY <1>2, <1>3, <1>4, <2>2, <2>3, <2>4 DEF TextAt, Attempting
<1> QED
  BY <1>2, <1>4, <1>9, <1>10 DEF Fed

LEMMA TextRelay ==
    ASSUME StreamTypes, OutInv, TextInv, Relay
    PROVE  TextInv'
<1> DEFINE event == Head(events)
           p == Passed(client, event.text, scenario.tools)
<1>1. /\ stage = "read" /\ events # <<>> /\ scenario' = scenario /\ adapter' = adapter
      /\ stage' = AfterRead(client')
      /\ events' = IF client'.ended THEN <<>> ELSE Tail(events)
  BY DEF Relay
<1>2. scenario.stream /\ events \in Seq(RelayEvents) /\ scenario.tools \in BOOLEAN
  <2>1. RequestIs
    BY RequestHolds DEF StreamTypes
  <2> QED BY <1>1, <2>1, ApiIs DEF StreamTypes
<1> SUFFICES TextAt(scenario, stage', adapter', events', client')
  BY <1>1, TextThen
<1>3. TextAt(scenario, "read", adapter, events, client)
  BY <1>1, <1>2, TextNow
<1>4. ~client.ended /\ ~client.hit
  BY <1>1, <1>3 DEF OutInv, TextAt
<1>5. /\ Pending(events, adapter.text) /\ Due(events') = <<>> /\ Pending(events', adapter.text)
  <2>1. Pending(events, adapter.text)
    BY <1>3 DEF TextAt
  <2>2. events' \in {<<>>, Tail(events)}
    BY <1>1
  <2> QED BY <1>1, <1>2, <2>1, <2>2, Untold
<1>6. PICK w, rest \in Texts : Carried(scenario, "read", adapter, events, client, w, rest)
  BY <1>3 DEF TextAt
<1>7. /\ adapter.text = w \o rest /\ client.text = w /\ rest = client.sieve.buf \o Due(events)
      /\ scenario.tools => Holds(client.sieve, w)
  BY <1>4, <1>6 DEF Carried, Attempting
<1>8. /\ QuietClient(client) /\ event = events[1] /\ event \in RelayEvents
      /\ event.ev = "text" => /\ event.text \in Texts
                              /\ Told(client, client', p, Api = "chat")
      /\ event.ev # "text" => OtherTold(client, client', event)
  BY RelayWrites
<1> HIDE DEF event, p
<1>9. client.sieve \in Sieves /\ client.sieve.buf \in Texts /\ ~client.sieve.done
  BY <1>3, <1>8 DEF QuietClient, Clients, Sieves, TextAt
<1>10. CASE event.ev # "text"
  <2>1. /\ client'.text = w /\ client'.sieve = client.sieve /\ ~client'.hit
        /\ client'.marks \subseteq client.marks
                               \cup (IF event.ev = "annotation" THEN {event.at} ELSE {})
    BY <1>4, <1>7, <1>8, <1>10 DEF OtherTold
  <2>2. Due(events) = <<>>
    BY <1>8, <1>10 DEF Due
  <2>3. stage' \in {"read", "flush"} /\ (stage' = "flush" => events' = <<>>)
    BY <1>1, <2>1 DEF AfterRead
  <2>4. Carried(scenario, stage', adapter, events', client', w, rest)
    <3>1. Embedded(w, w)
      BY EmbeddedSelf
    <3>2. scenario.tools => Tags(w, "open") = {}
      BY <1>7 DEF Holds
    <3>3. rest = client'.sieve.buf \o Due(events')
      BY <1>5, <1>7, <2>1, <2>2
    <3> QED BY <1>7, <2>1, <2>3, <3>1, <3>2, <3>3 DEF Carried
  <2>5. ~scenario.tools => MarksAt(client'.marks, client'.text)
    <3> SUFFICES ASSUME ~scenario.tools PROVE MarksAt(client'.marks, w)
      BY <2>1
    <3>1. rest = <<>> /\ adapter.text = w
      <4>1. client.sieve.buf = <<>>
        BY <1>3 DEF TextAt, NewSieve
      <4>2. rest = <<>>
        BY <1>7, <2>2, <4>1, EmptyText
      <4> QED BY <1>7, <4>2, EmptyText
    <3>2. MarksAt(client.marks, w)
      BY <1>3, <1>7 DEF TextAt
    <3>3. event.ev = "annotation" => MarksAt({event.at}, w)
      <4>1. 1 \in 1 .. Len(events)
        BY <1>1, <1>2
      <4> QED BY <1>5, <1>8, <3>1, <4>1 DEF Pending
    <3> QED BY <2>1, <3>2, <3>3 DEF MarksAt
  <2> QED BY <1>1, <1>3, <1>5, <2>1, <2>3, <2>4, <2>5, <1>9 DEF TextAt, Attempting
<1>11. CASE event.ev = "text"
  <2>1. Due(events) = event.text /\ event.text \in Texts
    BY <1>1, <1>8, <1>11 DEF Due
  <2>2. Told(client, client', p, Api = "chat")
    BY <1>8, <1>11
  <2>3. adapter.text = w \o (client.sieve.buf \o event.text)
    BY <1>7, <2>1
  <2>4. CASE ~scenario.tools
    <3>1. p = Sifted(client.sieve, event.text, FALSE, 0)
      BY <2>4 DEF p, Passed
    <3>2. /\ client'.text = w \o event.text /\ client'.sieve = client.sieve /\ ~client'.hit
          /\ ~client'.ended /\ client'.marks = client.marks
      BY <1>4, <1>7, <2>2, <3>1 DEF Told, Sifted
    <3>3. client.sieve = NewSieve /\ client.sieve.buf = <<>>
      BY <1>3, <2>4 DEF TextAt, NewSieve
    <3>4. adapter.text = w \o event.text
      <4>1. <<>> \o event.text = event.text
        BY <2>1, EmptyText
      <4> QED BY <2>3, <3>3, <4>1
    <3> DEFINE v == w \o event.text
    <3>5. v \in Texts /\ v \o <<>> = v /\ <<>> \in Texts
      BY <2>1, Joined, EmptyText
    <3>6. stage' = "read"
      BY <1>1, <3>2 DEF AfterRead
    <3>7. MarksAt(client'.marks, client'.text)
      <4> SUFFICES ASSUME NEW q \in client.marks
                   PROVE  q \in 1 .. Len(v) /\ v[q] \in CiteMarks
        BY <3>2 DEF MarksAt
      <4>1. q \in 1 .. Len(w) /\ w[q] \in CiteMarks
        BY <1>3, <1>7, <2>4 DEF TextAt, MarksAt
      <4>2. /\ Len(v) = Len(w) + Len(event.text) /\ Len(w) \in Nat /\ Len(event.text) \in Nat
            /\ v[q] = w[q]
        BY <2>1, <4>1, Joined, Zenon
      <4> HIDE DEF v
      <4> QED BY <4>1, <4>2
    <3> HIDE DEF v
    <3>8. Carried(scenario, "read", adapter, events', client', v, <<>>)
      <4>1. Embedded(v, v)
        BY <3>5, EmbeddedSelf
      <4>2. client'.sieve.buf \o Due(events') = <<>>
        BY <1>5, <3>2, <3>3, EmptyText
      <4> QED BY <2>4, <3>2, <3>4, <3>5, <4>1, <4>2 DEF Carried, v
    <3> QED BY <1>1, <1>3, <1>5, <3>2, <3>3, <3>5, <3>6, <3>7, <3>8, <1>9 DEF TextAt, Attempting
  <2>5. ASSUME scenario.tools
        PROVE  /\ Sieved(client.sieve, w, client.sieve.buf \o event.text, p)
               /\ p \in SieveResults
    <3>1. p = Sieve(client.sieve, event.text)
      BY <2>5 DEF p, Passed
    <3>2. p \in SieveResults
      BY <1>9, <2>1, <3>1, SieveType
    <3> QED BY <1>7, <1>9, <2>1, <2>5, <3>1, <3>2, SieveHolds
  <2>6. CASE scenario.tools /\ ~p.hit
    <3> DEFINE v == w \o p.safe
               buf == p.sieve.buf
    <3>1. /\ client.sieve.buf \o event.text = p.safe \o buf
          /\ ~p.sieve.done /\ Holds(p.sieve, v)
      BY <2>5, <2>6 DEF Sieved
    <3>2. p.safe \in Texts /\ buf \in Texts
      BY <2>5, <2>6 DEF SieveResults, Sieves
    <3>3. /\ client'.text = v /\ client'.sieve = p.sieve /\ ~client'.hit /\ ~client'.ended
      BY <1>4, <1>7, <2>2, <2>6 DEF Told
    <3>4. v \in Texts
      BY <3>2, Joined
    <3> HIDE DEF v
    <3>5. adapter.text = v \o buf
      <4>1. w \o (p.safe \o buf) = v \o buf
        BY <3>2, Associative, Zenon DEF v
      <4> QED BY <2>3, <3>1, <4>1, Zenon
    <3>6. client'.sieve.buf \o Due(events') = buf
      BY <1>5, <3>2, <3>3, EmptyText
    <3>7. stage' = "read"
      BY <1>1, <3>3 DEF AfterRead
    <3>8. Carried(scenario, "read", adapter, events', client', v, buf)
      <4>1. Embedded(v, v)
        BY <3>4, EmbeddedSelf
      <4> QED BY <3>1, <3>3, <3>5, <3>6, <4>1 DEF Carried, Holds
    <3> HIDE DEF buf
    <3>9. \E u, r \in Texts : Carried(scenario, stage', adapter, events', client', u, r)
      BY <3>2, <3>4, <3>7, <3>8
    <3>10. ~client'.sieve.done
      BY <3>1, <3>3, Zenon
    <3> QED BY <1>1, <1>5, <2>6, <3>3, <3>7, <3>9, <3>10 DEF TextAt, Attempting
  <2>7. CASE scenario.tools /\ p.hit
    <3>1. client'.hit /\ client'.ended
      BY <2>2, <2>7 DEF Told
    <3>2. events' = <<>> /\ stage' = IF Api = "chat" THEN "sent" ELSE "flush"
      BY <1>1, <3>1 DEF AfterRead
    <3>3. \E v, r \in Texts : Carried(scenario, stage', adapter, events', client', v, r)
      <4>1. CASE Api # "chat"
        <5>1. client'.text = w /\ stage' = "flush"
          BY <1>7, <2>2, <2>7, <3>2, <4>1 DEF Told
        <5>2. Embedded(w, w) /\ Tags(w, "open") = {}
          BY <1>7, <2>7, EmbeddedSelf DEF Holds
        <5> QED BY <1>7, <3>1, <5>1, <5>2 DEF Carried
      <4>2. CASE Api = "chat"
        <5> DEFINE v == w \o p.safe
        <5>1. client'.text = v /\ stage' = "sent"
          BY <1>7, <2>2, <2>7, <3>2, <4>2 DEF Told
        <5>2. PICK r \in Texts : /\ client.sieve.buf \o event.text = p.safe \o r
                                  /\ r[1] = "lt"
          BY <2>5, <2>7 DEF Sieved
        <5>3. Tags(v, "open") = {} /\ p.safe \in Texts
          BY <2>5, <2>7 DEF Sieved, SieveResults
        <5>4. v \in Texts
          BY <5>3, Joined
        <5> HIDE DEF v
        <5>5. adapter.text = v \o r
          <6>1. w \o (p.safe \o r) = v \o r
            BY <5>3, Associative, Zenon DEF v
          <6> QED BY <2>3, <5>2, <6>1, Zenon
        <5>6. Embedded(v, v)
          BY <5>4, EmbeddedSelf
        <5>7. Carried(scenario, "sent", adapter, events', client', v, r)
          BY <2>7, <3>1, <5>1, <5>2, <5>3, <5>5, <5>6 DEF Carried, Withheld, Attempting
        <5> QED BY <5>1, <5>4, <5>7
      <4> QED BY <4>1, <4>2
    <3> QED BY <1>1, <1>5, <2>7, <3>1, <3>2, <3>3 DEF TextAt, Attempting
  <2> QED BY <2>4, <2>6, <2>7
<1> QED
  BY <1>10, <1>11

LEMMA TextFlush ==
    ASSUME StreamTypes, OutInv, TextInv, FlushSieve
    PROVE  TextInv'
<1> DEFINE p == Flush(client.sieve)
<1>1. /\ stage = "flush" /\ scenario' = scenario /\ adapter' = adapter /\ events' = events
      /\ stage' = IF Api = "chat" /\ client'.hit THEN "sent" ELSE "resolve"
  BY DEF FlushSieve
<1>2. scenario.stream
  BY <1>1 DEF OutInv
<1> SUFFICES TextAt(scenario, stage', adapter', events', client')
  BY <1>1, TextThen
<1>3. TextAt(scenario, "flush", adapter, events, client)
  BY <1>1, <1>2, TextNow
<1>4. events = <<>> /\ (client.hit => client.ended)
  BY <1>3 DEF TextAt, Attempting
<1>5. /\ QuietClient(client)
      /\ \/ client' = client
         \/ /\ scenario.tools /\ ~client.hit /\ ~Console
            /\ FlushTold(client, client', p, Api = "chat")
  BY FlushWrites
<1>6. client.sieve.buf \in Texts
  BY <1>5 DEF QuietClient, Clients, Sieves
<1> HIDE DEF p
<1>7. PICK w, rest \in Texts : Carried(scenario, "flush", adapter, events, client, w, rest)
  BY <1>3 DEF TextAt
<1>8. /\ adapter.text = w \o rest /\ Embedded(client.text, w)
      /\ scenario.tools => Tags(w, "open") = {}
  BY <1>7 DEF Carried
<1>9. ~client.hit => Withheld(scenario.tools, rest)
  <2> SUFFICES ASSUME ~client.hit PROVE Withheld(scenario.tools, rest)
    OBVIOUS
  <2>1. Due(events) = <<>>
    BY <1>4 DEF Due
  <2>2. rest = client.sieve.buf
    <3>1. rest = client.sieve.buf \o Due(events)
      BY <1>7 DEF Carried, Attempting
    <3> QED BY <1>6, <2>1, <3>1, EmptyText
  <2>3. CASE scenario.tools
    <3>1. Holds(client.sieve, w)
      BY <1>7, <2>3 DEF Carried, Attempting
    <3> QED BY <2>2, <2>3, <3>1 DEF Holds, Withheld
  <2>4. CASE ~scenario.tools
    <3>1. client.sieve.buf = <<>>
      BY <1>3, <2>4 DEF TextAt, NewSieve
    <3> QED BY <2>2, <3>1 DEF Withheld
  <2> QED BY <2>3, <2>4
<1>10. ~(client.hit /\ Api = "chat")
  BY <1>1 DEF OutInv, Attempting
<1>11. /\ client'.text = client.text /\ client'.marks = client.marks
       /\ client'.hit => client'.ended
       /\ client.hit => client' = client
       /\ ~scenario.tools => client' = client
  BY <1>4, <1>5 DEF FlushTold
<1>12. stage' \in {"resolve", "sent"}
  BY <1>1
<1>13. Carried(scenario, stage', adapter, events, client', w, rest)
  <2>1. (~client'.hit \/ scenario.api = "chat") => Withheld(scenario.tools, rest)
    BY <1>9, <1>10, <1>11 DEF Api
  <2> QED BY <1>8, <1>11, <1>12, <2>1 DEF Carried, Attempting
<1>14. \E u, r \in Texts : Carried(scenario, stage', adapter, events, client', u, r)
  BY <1>13
<1> QED
  BY <1>1, <1>3, <1>4, <1>11, <1>12, <1>14 DEF TextAt

\* An image or a source follows the text, or nothing does.
LEMMA TextEmbed ==
    ASSUME StreamTypes, NEW evs, NEW d, NEW t \in {"resolve", "sent"},
           TextAt(scenario, "resolve", adapter, evs, client),
           d.text \in {client.text, client.text \o <<"embed">>}, d.sieve = client.sieve,
           d.hit = client.hit, d.ended = client.ended, d.marks = client.marks
    PROVE  TextAt(scenario, t, adapter, evs, d)
<1>1. client.text \in Shown
  BY DEF StreamTypes, Clients
<1>2. PICK w, rest \in Texts : Carried(scenario, "resolve", adapter, evs, client, w, rest)
  BY DEF TextAt
<1>3. Embedded(client.text, w)
  BY <1>2 DEF Carried
<1>4. Embedded(d.text, w) /\ (MarksAt(client.marks, client.text) => MarksAt(client.marks, d.text))
  <2>1. MarksAt({}, client.text)
    BY DEF MarksAt
  <2>2. Embedded(client.text \o <<"embed">>, w)
    BY <1>1, <1>3, <2>1, EmbedAfter
  <2>3. MarksAt(client.marks, client.text) => MarksAt(client.marks, client.text \o <<"embed">>)
    BY <1>1, <1>3, EmbedAfter
  <2> QED BY <1>3, <2>2, <2>3
<1>5. Carried(scenario, t, adapter, evs, d, w, rest)
  BY <1>2, <1>4 DEF Carried, Attempting
<1>6. \E u, r \in Texts : Carried(scenario, t, adapter, evs, d, u, r)
  BY <1>5
<1> QED
  BY <1>4, <1>6 DEF TextAt, Attempting

LEMMA TextNext == StreamTypes /\ OutInv /\ TextInv /\ [Next]_vars => TextInv'
<1> SUFFICES ASSUME StreamTypes, OutInv, TextInv, [Next]_vars PROVE TextInv'
  OBVIOUS
<1>a. ASSUME scenario' = scenario, adapter' = adapter, events' = events,
             client'.text = client.text, client'.sieve = client.sieve,
             client'.hit = client.hit, client'.ended = client.ended,
             client'.marks = client.marks,
             scenario.stream =>
                 /\ stage' \in Attempting \ {"resolve"} => stage \in Attempting \ {"resolve"}
                 /\ stage' \in {"resolve", "sent"} => stage = stage'
                 /\ stage' \in {"open", "connect", "read"} => stage \in {"open", "connect", "read"}
                 /\ stage' \in Attempting \ {"read"} => events = <<>>
      PROVE  TextInv'
  <2> SUFFICES ASSUME scenario.stream
               PROVE  TextAt(scenario, stage', adapter', events', client')
    BY <1>a, TextThen
  <2>1. TextAt(scenario, stage, adapter, events, client)
    BY TextNow
  <2>2. TextAt(scenario, stage', adapter, events, client')
    BY <1>a, <2>1, TextKept
  <2> QED BY <1>a, <2>2
<1>b. stage \in {"open", "connect"} /\ scenario.stream => events = <<>>
  BY DEF TextInv, TextAt, Attempting
<1>0. CASE UNCHANGED vars
  <2>1. stage \in Attempting \ {"read"} /\ scenario.stream => events = <<>>
    BY DEF TextInv, TextAt
  <2> QED BY <1>0, <1>a, <2>1 DEF vars
<1>1. ASSUME NEW a \in Accounts, Reserve(a)
      PROVE  TextInv'
  <2>1. /\ scenario' = scenario /\ stage' = "open" /\ adapter' = NewAdapter
        /\ events' = <<>> /\ client' = NewClient
    BY <1>1 DEF Reserve
  <2> QED BY <2>1, NewText, TextThen
<1>2. CASE NoAccount \/ Connect \/ EndOfStream \/ Confirm \/ Settle \/ Compose
  <2>1. scenario' = scenario /\ relayed' = relayed
    BY <1>2 DEF NoAccount, Connect, EndOfStream, Confirm, Settle, Compose
  <2>2. /\ stage' \in Attempting => \/ stage = "connect" /\ stage' = "read"
                                    \/ stage = "read" /\ stage' = "flush" /\ events = <<>>
        /\ stage' # "sent"
    BY <1>2 DEF NoAccount, Connect, EndOfStream, Confirm, Settle, AfterSettle, Compose, Attempting
  <2> QED BY <1>a, <2>1, <2>2 DEF relayed, Attempting
<1>3. CASE \/ \E e \in Outages : Refused(e) \/ BreaksOff(e)
           \/ ResolveCrashes \/ Disconnect
  <2>1. scenario' = scenario /\ relayed' = relayed /\ stage' = "settle"
    BY <1>3 DEF Refused, BreaksOff, ResolveCrashes, Disconnect, Raise
  <2> QED BY <1>a, <2>1 DEF relayed, Attempting
<1>4. CASE Finished \/ \E a \in Accounts : RunSync(a)
  <2>1. scenario' = scenario /\ relayed' = relayed /\ stage' = stage
    BY <1>4 DEF Finished, vars, relayed, RunSync
  <2>2. stage \in Attempting \ {"read"} /\ scenario.stream => events = <<>>
    BY DEF TextInv, TextAt
  <2> QED BY <1>a, <2>1, <2>2 DEF relayed
<1>5. CASE Open
  <2>1. SameText(client, client')
    BY <1>5, OpenWrites
  <2>2. /\ scenario' = scenario /\ adapter' = adapter /\ events' = events
        /\ stage = "open" /\ stage' = "connect"
    BY <1>5 DEF Open
  <2> QED BY <1>a, <1>b, <2>1, <2>2 DEF SameText, Attempting
<1>6. CASE ResolveImage
  <2>1. /\ scenario' = scenario /\ adapter' = adapter /\ events' = events
        /\ stage = "resolve" /\ stage' = "resolve"
    BY <1>6 DEF ResolveImage
  <2>2. scenario.stream => TextAt(scenario, "resolve", adapter, events, client)
    BY <2>1, TextNow
  <2>3. scenario.stream => TextAt(scenario, "resolve", adapter, events, client')
    BY <1>6, <2>2, ResolveWrites, TextEmbed
  <2> QED BY <2>1, <2>3, TextThen
<1>7. CASE Complete
  <2>1. /\ scenario' = scenario /\ adapter' = adapter /\ events' = events
        /\ stage = "resolve" /\ stage' = "sent"
    BY <1>7 DEF Complete
  <2>2. scenario.stream => TextAt(scenario, "resolve", adapter, events, client)
    BY <2>1, TextNow
  <2>3. scenario.stream => TextAt(scenario, "sent", adapter, events, client')
    BY <1>7, <2>2, CompleteWrites, TextEmbed
  <2> QED BY <2>1, <2>3, TextThen
<1>8. CASE \E f \in scenario.frames : Read(f)
  BY <1>8, TextRead
<1>9. CASE Relay
  BY <1>9, TextRelay
<1>10. CASE FlushSieve
  BY <1>10, TextFlush
<1> QED
  BY <1>0, <1>1, <1>2, <1>3, <1>4, <1>5, <1>6, <1>7, <1>8, <1>9, <1>10 DEF Next

\* What was written before the images and sources is what was written as text.
LEMMA WrittenIs ==
    ASSUME client.text \in Shown, NEW w \in Texts, Embedded(client.text, w)
    PROVE  Written = w
<1> DEFINE text == client.text
           ends == {n \in 0 .. Len(text) : \A i \in n + 1 .. Len(text) : text[i] = "embed"}
<1>1. Len(text) \in Nat /\ Len(w) \in Nat /\ Len(w) <= Len(text)
  BY DEF Embedded, Shown, Texts
<1>2. Len(w) \in ends
  BY <1>1 DEF Embedded
<1>3. ASSUME NEW n \in ends, n < Len(w)
      PROVE  FALSE
  <2>1. n + 1 \in 1 .. Len(w) /\ n + 1 \in n + 1 .. Len(text)
    BY <1>1, <1>3
  <2>2. text[n + 1] = "embed" /\ text[n + 1] = w[n + 1]
    BY <1>3, <2>1 DEF Embedded
  <2>3. w[n + 1] \in Pieces
    BY <2>1 DEF Texts
  <2> QED BY <2>2, <2>3 DEF Pieces
<1>4. ends \in SUBSET Nat
  BY <1>1
<1>5. Written = SubSeq(text, 1, LeastOf(ends))
  BY DEF Written
<1> HIDE DEF ends
<1>6. LeastOf(ends) = Len(w)
  <2>1. LeastOf(ends) \in ends /\ LeastOf(ends) <= Len(w)
    BY <1>2, <1>4, LeastOfIn
  <2>2. LeastOf(ends) \in Nat
    BY <1>4, <2>1
  <2> QED BY <1>1, <1>3, <2>1, <2>2
<1>7. SubSeq(text, 1, Len(w)) = w
  <2> DEFINE v == SubSeq(text, 1, Len(w))
  <2>1. v \in Shown /\ Len(v) = Len(w) /\ \A i \in 1 .. Len(w) : v[i] = text[i]
    BY <1>1 DEF Shown
  <2>2. w \in Shown
    BY DEF Texts, Shown
  <2>3. \A i \in 1 .. Len(w) : v[i] = w[i]
    BY <2>1 DEF Embedded
  <2> HIDE DEF v
  <2>4. v = w
    BY <1>1, <2>1, <2>2, <2>3 DEF Shown
  <2> QED BY <2>4 DEF v
<1> QED
  BY <1>5, <1>6, <1>7

LEMMA TextWhole == StreamTypes /\ TextInv => TextFaithful
<1> SUFFICES ASSUME StreamTypes, TextInv, scenario.stream
             PROVE  TextIsPrefix /\ TextComplete /\ MarksInText
  BY DEF TextFaithful
<1>1. TextAt(scenario, stage, adapter, events, client)
  BY TextNow
<1>2. PICK w, rest \in Texts : Carried(scenario, stage, adapter, events, client, w, rest)
  BY <1>1 DEF TextAt
<1>3. client.text \in Shown
  BY DEF StreamTypes, Clients
<1>4. Written = w
  BY <1>2, <1>3, WrittenIs DEF Carried
<1>5. adapter.text = w \o rest /\ adapter.text \in Texts
  BY <1>2 DEF Carried, StreamTypes, Adapters
<1> DEFINE text == adapter.text
<1>6. /\ Len(w) \in Nat /\ Len(rest) \in Nat /\ Len(text) = Len(w) + Len(rest)
      /\ \A k \in 1 .. Len(w) : text[k] = w[k]
      /\ \A k \in 1 .. Len(rest) : text[Len(w) + k] = rest[k]
  <2>1. text = w \o rest
    BY <1>5
  <2> HIDE DEF text
  <2> QED BY <2>1, Joined
<1>7. TextIsPrefix
  <2>1. Len(w) <= Len(text) /\ SubSeq(w, 1, Len(w)) = SubSeq(text, 1, Len(w))
    <3>a. text \in Texts
      BY <1>5
    <3> HIDE DEF text
    <3>b. Len(w) \in 0 .. Len(text)
      BY <1>6
    <3>1. CutAt(text, Len(w), SubSeq(text, 1, Len(w)), SubSeq(text, Len(w) + 1, Len(text)))
      BY <3>a, <3>b, CutInTwo
    <3>2. SubSeq(text, 1, Len(w)) = w
      BY <1>6, <3>1 DEF CutAt, Texts
    <3>3. SubSeq(w, 1, Len(w)) = w
      BY DEF Texts
    <3> QED BY <1>6, <3>2, <3>3
  <2>2. IsPrefix(w, text)
    BY <2>1 DEF IsPrefix
  <2>3. scenario.tools => Tags(w, "open") = {}
    BY <1>2 DEF Carried
  <2> QED BY <1>4, <2>2, <2>3 DEF TextIsPrefix
<1>8. TextComplete
  <2> DEFINE r == SubSeq(text, Len(w) + 1, Len(text))
  <2>1. r = rest
    <3>a. text \in Texts
      BY <1>5
    <3> HIDE DEF text
    <3>b. Len(w) \in 0 .. Len(text)
      BY <1>6
    <3>1. CutAt(text, Len(w), SubSeq(text, 1, Len(w)), r)
      BY <3>a, <3>b, CutInTwo
    <3>2. r \in Texts /\ Len(r) = Len(rest) /\ \A k \in 1 .. Len(rest) : r[k] = rest[k]
      BY <1>6, <3>1 DEF CutAt
    <3> HIDE DEF r
    <3> QED BY <3>2 DEF Texts
  <2>2. stage = "sent" /\ (~client.hit \/ Api = "chat") => Withheld(scenario.tools, rest)
    BY <1>2 DEF Carried, Api
  <2>3. rest # <<>> => Head(rest) = rest[1]
    BY DEF Texts
  <2> QED BY <1>4, <2>1, <2>2, <2>3 DEF TextComplete, Withheld
<1>9. MarksInText
  BY <1>1 DEF TextAt, MarksAt, MarksInText
<1> QED
  BY <1>7, <1>8, <1>9

\* Of a stream the client gets a beginning of the model's text, then images and
\* sources; no opening tag of a tool block reaches it, at the end of the stream
\* only text that begins like one is missing, and the positions of citations it
\* is given are those of marks in its text.
THEOREM TextCorrect == Spec => []TextFaithful
<1>1. Init => TextInv
  BY TextInit
<1>2. RelayInv /\ TextInv /\ [Next]_vars => TextInv'
  BY TextNext DEF RelayInv
<1>3. RelayInv /\ TextInv => TextFaithful
  BY TextWhole DEF RelayInv
<1> QED
  BY <1>1, <1>2, <1>3, RelayInvariant, PTL DEF Spec

------------------------------------------------------------------------------
\* The order of the summary.

\* The lines an emission lets out come in order, after those of the sections S
\* that were known before.
LinesInOrder(S, d) ==
    /\ S \subseteq d.agg.sections /\ PlainPending(d.agg)
    /\ \A i \in DOMAIN d.lines :
           /\ d.lines[i].section \in d.agg.sections
           /\ d.lines[i].text = "title" => d.lines[i].section \notin S
           /\ d.lines[i].section = "scope" => S \cap {"evidence", "finding"} = {}
    /\ \A i, j \in DOMAIN d.lines : i < j => Follows(d.lines[i], d.lines[j])

LEMMA LinesInOrderEmit ==
    ASSUME NEW S, NEW acc \in Emissions, LinesInOrder(S, acc),
           NEW raw \in LineRecords, raw.text # "title"
    PROVE  LinesInOrder(S, Emit(acc, raw))
<1> DEFINE g == acc.agg
           line == Promoted(g, raw)
           title == IF line.section \in g.sections THEN <<>> ELSE <<Title(line.section)>>
           after == [g EXCEPT !.sections = @ \cup {line.section},
                              !.keys = @ \cup {<<raw, line>>},
                              !.counts = IF line.track = "" THEN @ ELSE @ \cup {line}]
           out == acc.lines \o title \o <<line>>
           known == acc.lines \o title
<1>1. g \in Aggregators /\ acc.lines \in Seq(LineRecords)
  BY DEF Emissions
<1>2. Emit(acc, raw) = IF Late(g, raw) \/ Redundant(g, raw, line) THEN acc
                       ELSE [agg |-> after, lines |-> out]
  BY DEF Emit
<1>3. SUFFICES ASSUME ~Late(g, raw)
               PROVE  LinesInOrder(S, [agg |-> after, lines |-> out])
  <2> HIDE DEF after, out, line
  <2> QED BY <1>2
<1>4. line \in LineRecords /\ line.text # "title"
  BY DEF Promoted, LineRecords, Names
<1>5. line.section = "scope" => g.sections \cap {"evidence", "finding"} = {}
  <2>1. line.section = raw.section \/ line.section = "finding"
    BY DEF Promoted, LineRecords
  <2>2. raw.section = "scope" => g.sections \cap {"evidence", "finding"} = {}
    BY <1>3 DEF Late
  <2> HIDE DEF line, g
  <2> QED BY <2>1, <2>2
<1>6. after.sections = g.sections \cup {line.section} /\ after.pending = g.pending
  <2> HIDE DEF line
  <2> QED BY <1>1 DEF Aggregators
<1> HIDE DEF after, line
<1>7. title \in Seq(LineRecords)
      /\ \A i \in DOMAIN title : i = 1 /\ title[1] = Title(line.section)
                                 /\ line.section \notin g.sections
  <2>1. Title(line.section) \in LineRecords
    BY <1>4, TitleType DEF LineRecords
  <2> QED BY <2>1
<1> HIDE DEF title
<1>8. /\ out \in Seq(LineRecords) /\ Len(out) = Len(acc.lines) + Len(title) + 1
      /\ Len(acc.lines) \in Nat /\ Len(title) \in Nat
      /\ \A i \in 1 .. Len(acc.lines) : out[i] = acc.lines[i]
      /\ \A i \in 1 .. Len(title) : out[Len(acc.lines) + i] = title[i]
      /\ out[Len(acc.lines) + Len(title) + 1] = line
  BY <1>1, <1>4, <1>7
<1>9. ASSUME NEW i \in DOMAIN out
      PROVE  \/ i <= Len(acc.lines) /\ i \in DOMAIN acc.lines /\ out[i] = acc.lines[i]
             \/ /\ i > Len(acc.lines) /\ i = Len(out) /\ out[i] = line
             \/ /\ i > Len(acc.lines) /\ i + 1 = Len(out) /\ out[i] = Title(line.section)
                /\ line.section \notin g.sections
  <2>1. i \in 1 .. Len(acc.lines) + Len(title) + 1
    BY <1>8
  <2>2. CASE i <= Len(acc.lines)
    BY <1>1, <1>8, <2>1, <2>2
  <2>3. CASE i = Len(acc.lines) + Len(title) + 1
    BY <1>8, <2>3
  <2>4. CASE i > Len(acc.lines) /\ i < Len(acc.lines) + Len(title) + 1
    <3> DEFINE k == i - Len(acc.lines)
    <3>1. k \in 1 .. Len(title) /\ i = Len(acc.lines) + k
      BY <1>8, <2>1, <2>4
    <3>2. k \in DOMAIN title
      BY <3>1, <1>7
    <3>3. k = 1 /\ title[1] = Title(line.section) /\ line.section \notin g.sections
      BY <3>2, <1>7
    <3>4. Len(title) = 1
      <4>1. Len(title) \in DOMAIN title
        BY <3>1, <1>7
      <4> QED BY <4>1, <1>7
    <3> QED BY <1>8, <2>4, <3>1, <3>3, <3>4
  <2>5. \/ i <= Len(acc.lines) \/ i = Len(acc.lines) + Len(title) + 1
        \/ i > Len(acc.lines) /\ i < Len(acc.lines) + Len(title) + 1
    <3>1. Len(acc.lines) \in Nat /\ Len(title) \in Nat
      BY <1>8
    <3> QED BY <2>1, <3>1
  <2> QED BY <2>2, <2>3, <2>4, <2>5
<1> HIDE DEF out
<1>10. /\ Title(line.section).section = line.section
       /\ Title(line.section).text = "title"
  BY DEF Title
<1>11. S \subseteq g.sections /\ PlainPending(g)
  BY DEF LinesInOrder
<1>12. ASSUME NEW i \in DOMAIN out
       PROVE  /\ out[i].section \in after.sections
              /\ out[i].text = "title" => out[i].section \notin S
              /\ out[i].section = "scope" => S \cap {"evidence", "finding"} = {}
  <2>1. CASE i \in DOMAIN acc.lines /\ out[i] = acc.lines[i]
    BY <1>6, <2>1 DEF LinesInOrder
  <2>2. CASE out[i] = line
    BY <1>4, <1>5, <1>6, <1>11, <2>2
  <2>3. CASE out[i] = Title(line.section) /\ line.section \notin g.sections
    BY <1>5, <1>6, <1>10, <1>11, <2>3
  <2> QED BY <1>9, <2>1, <2>2, <2>3
<1>13. ASSUME NEW i \in DOMAIN out, NEW j \in DOMAIN out, i < j
       PROVE  Follows(out[i], out[j])
  <2>1. CASE j \in DOMAIN acc.lines /\ j <= Len(acc.lines) /\ out[j] = acc.lines[j]
    <3>1. i \in DOMAIN acc.lines /\ out[i] = acc.lines[i]
      BY <1>1, <1>8, <1>9, <1>13, <2>1
    <3> QED BY <1>13, <2>1, <3>1 DEF LinesInOrder
  <2>2. CASE out[j] = line
    <3>1. CASE i \in DOMAIN acc.lines /\ out[i] = acc.lines[i]
      <4>1. out[i].section \in g.sections
        BY <3>1 DEF LinesInOrder
      <4> QED BY <1>4, <1>5, <2>2, <4>1 DEF Follows
    <3>2. CASE out[i] = Title(line.section)
      BY <1>4, <1>10, <2>2, <3>2 DEF Follows
    <3>3. CASE out[i] = line
      BY <1>4, <2>2, <3>3 DEF Follows
    <3> QED BY <1>9, <3>1, <3>2, <3>3
  <2>3. CASE /\ j + 1 = Len(out) /\ out[j] = Title(line.section)
             /\ line.section \notin g.sections
    <3>1. i \in DOMAIN acc.lines /\ out[i] = acc.lines[i]
      <4>1. i # Len(out) /\ i + 1 # Len(out)
        <5>1. Len(out) \in Nat /\ DOMAIN out = 1 .. Len(out)
          BY <1>8
        <5>2. i \in Nat /\ j \in Nat /\ i < j
          BY <1>13, <5>1
        <5> QED BY <2>3, <5>1, <5>2
      <4> QED BY <1>9, <4>1
    <3>2. out[i].section \in g.sections
      BY <3>1 DEF LinesInOrder
    <3> QED BY <1>5, <1>10, <2>3, <3>2 DEF Follows
  <2> QED BY <1>9, <2>1, <2>2, <2>3
<1>14. S \subseteq after.sections
  BY <1>6, <1>11
<1>15. PlainPending(after)
  BY <1>6, <1>11 DEF PlainPending
<1> QED
  BY <1>12, <1>13, <1>14, <1>15 DEF LinesInOrder

LEMMA LinesInOrderFlush ==
    ASSUME NEW g \in Aggregators, PlainPending(g)
    PROVE  LinesInOrder(g.sections, FlushPending(g))
<1> DEFINE N == Len(g.pending)
<1>1. N \in Nat /\ \A n \in 1 .. N : g.pending[n] \in LineRecords
  BY DEF Aggregators
<1>2. \A n \in 1 .. N : g.pending[n].text # "title"
  BY DEF PlainPending, Aggregators
<1>3. PICK f : Flushing(g, f)
  BY FlushPendingRuns
<1> DEFINE T == {n \in 0 .. N : LinesInOrder(g.sections, f[n])}
           base == [agg |-> [g EXCEPT !.pending = <<>>], lines |-> <<>>]
<1>4. LinesInOrder(g.sections, base)
  BY DEF LinesInOrder, PlainPending, Aggregators
<1>5. 0 \in T
  <2>1. f[0] = base
    BY <1>3 DEF Flushing
  <2> HIDE DEF base
  <2> QED BY <1>1, <1>4, <2>1
<1>6. ASSUME NEW n \in 1 .. N, n - 1 \in T PROVE n \in T
  <2>1. f[n] = Emit(f[n - 1], g.pending[n]) /\ f[n - 1] \in Emissions
    BY <1>1, <1>3 DEF Flushing
  <2>2. LinesInOrder(g.sections, f[n - 1])
    BY <1>6
  <2>3. LinesInOrder(g.sections, f[n])
    BY <1>1, <1>2, <2>1, <2>2, LinesInOrderEmit
  <2> QED BY <1>1, <2>3
<1>7. N \in T
  <2> HIDE DEF T, N
  <2> QED BY <1>1, <1>5, <1>6, Upwards
<1> QED
  BY <1>3, <1>7 DEF Flushing

LEMMA LinesInOrderDispatch ==
    ASSUME NEW g \in Aggregators, PlainPending(g),
           NEW line \in LineRecords, line.text # "title"
    PROVE  LinesInOrder(g.sections, Dispatch(g, line))
<1> DEFINE held == [g EXCEPT !.pending = Append(@, line)]
           english == [held EXCEPT !.lang = "en"]
           ready == held.votes >= EnglishVotes \/ Len(held.pending) >= PendingLimit
<1>1. Append(g.pending, line) \in Seq(LineRecords)
  BY DEF Aggregators
<1>2. held \in Aggregators /\ english \in Aggregators
  BY <1>1 DEF Aggregators, Names
<1>3. /\ held.sections = g.sections /\ english.sections = g.sections
      /\ held.pending = Append(g.pending, line) /\ english.pending = Append(g.pending, line)
  BY DEF Aggregators
<1>4. \A i \in DOMAIN Append(g.pending, line) : Append(g.pending, line)[i].text # "title"
  BY DEF PlainPending, Aggregators
<1>5. PlainPending(held) /\ PlainPending(english)
  BY <1>3, <1>4 DEF PlainPending
<1>6. CASE g.lang # "none"
  <2>1. FlushPending(g) \in Emissions /\ LinesInOrder(g.sections, FlushPending(g))
    BY FlushPendingType, LinesInOrderFlush
  <2>2. Dispatch(g, line) = Emit(FlushPending(g), line)
    BY <1>6 DEF Dispatch
  <2> QED BY <2>1, <2>2, LinesInOrderEmit
<1>7. CASE g.lang = "none" /\ ready
  <2>1. Dispatch(g, line) = FlushPending(english)
    BY <1>7 DEF Dispatch
  <2> HIDE DEF english
  <2> QED BY <1>2, <1>3, <1>5, <2>1, LinesInOrderFlush
<1>8. CASE g.lang = "none" /\ ~ready
  <2> DEFINE d == [agg |-> held, lines |-> <<>>]
  <2>1. Dispatch(g, line) = d
    BY <1>8 DEF Dispatch
  <2>2. d.agg = held /\ d.lines = <<>>
    OBVIOUS
  <2> HIDE DEF held, d
  <2> QED BY <1>3, <1>5, <2>1, <2>2 DEF LinesInOrder
<1> QED
  BY <1>6, <1>7, <1>8

LEMMA LinesInOrderOnThinking ==
    ASSUME NEW g \in Aggregators, PlainPending(g), NEW frame,
           frame.line \in LineRecords, frame.line.text # "title"
    PROVE  LinesInOrder(g.sections, OnThinking(g, frame))
<1> DEFINE o == ObserveLanguage(g, frame.tongue)
<1>1. o \in Aggregators
  <2>1. "zh" \in Names
    BY DEF Names
  <2> QED BY <2>1 DEF ObserveLanguage, Aggregators
<1>2. o.sections = g.sections /\ o.pending = g.pending
  BY DEF ObserveLanguage, Aggregators
<1>3. OnThinking(g, frame) = Dispatch(o, frame.line)
  BY DEF OnThinking
<1>4. PlainPending(o)
  BY <1>2 DEF PlainPending
<1> HIDE DEF o
<1> QED
  BY <1>1, <1>2, <1>3, <1>4, LinesInOrderDispatch

LEMMA LinesInOrderFinalize ==
    ASSUME NEW g \in Aggregators, PlainPending(g)
    PROVE  LinesInOrder(g.sections, Finalize(g))
<1> DEFINE settled == [g EXCEPT !.lang = IF @ # "none" THEN @
                                         ELSE IF g.votes > 0 THEN "en" ELSE "zh"]
<1>1. settled \in Aggregators
  BY DEF Aggregators, Names
<1>2. settled.sections = g.sections /\ settled.pending = g.pending
  BY DEF Aggregators
<1>3. Finalize(g) = FlushPending(settled)
  BY DEF Finalize
<1>4. PlainPending(settled)
  BY <1>2 DEF PlainPending
<1> HIDE DEF settled
<1> QED
  BY <1>1, <1>2, <1>3, <1>4, LinesInOrderFlush

\* The thoughts after n of the lines: in order, and each shown one is of an
\* older section or one of the lines.
AppendedInOrder(S, lines, n, thoughts) ==
    /\ \A i \in ShownThoughts(thoughts) :
           \/ thoughts[i][2].section \in S
           \/ \E k \in 1 .. n : thoughts[i][2] = lines[k]
    /\ \A i, j \in ShownThoughts(thoughts) :
           i < j => Follows(thoughts[i][2], thoughts[j][2])

LEMMA AppendInOrder ==
    ASSUME NEW S, NEW d \in Emissions, LinesInOrder(S, d), NEW n \in 1 .. Len(d.lines),
           NEW thoughts \in Seq(Said), AppendedInOrder(S, d.lines, n - 1, thoughts)
    PROVE  /\ AppendedInOrder(S, d.lines, n, thoughts)
           /\ AppendedInOrder(S, d.lines, n, Append(thoughts, <<"", d.lines[n]>>))
<1> DEFINE said == <<"", d.lines[n]>>
           more == Append(thoughts, said)
<1>1. d.lines \in Seq(LineRecords) /\ Len(d.lines) \in Nat
  BY DEF Emissions
<1>2. n \in DOMAIN d.lines /\ n \in Nat
  BY <1>1
<1>3. \A k \in 1 .. n - 1 : k \in 1 .. n
  BY <1>2
<1>4. AppendedInOrder(S, d.lines, n, thoughts)
  BY <1>3 DEF AppendedInOrder
<1>5. said[2] = d.lines[n]
  OBVIOUS
<1>6. /\ DOMAIN more = 1 .. Len(thoughts) + 1 /\ Len(thoughts) \in Nat
      /\ \A i \in 1 .. Len(thoughts) : more[i] = thoughts[i]
      /\ more[Len(thoughts) + 1] = said
  <2> HIDE DEF said
  <2> QED OBVIOUS
<1> HIDE DEF said, more
<1>7. ASSUME NEW i \in ShownThoughts(more)
      PROVE  \/ i = Len(thoughts) + 1 /\ more[i] = said
             \/ i <= Len(thoughts) /\ i \in ShownThoughts(thoughts) /\ more[i] = thoughts[i]
  BY <1>6 DEF ShownThoughts
<1>8. ASSUME NEW i \in ShownThoughts(more)
      PROVE  \/ more[i][2].section \in S
             \/ \E k \in 1 .. n : more[i][2] = d.lines[k]
  <2>1. CASE more[i] = said
    BY <1>2, <1>5, <2>1
  <2>2. CASE i \in ShownThoughts(thoughts) /\ more[i] = thoughts[i]
    BY <1>4, <2>2 DEF AppendedInOrder
  <2> QED BY <1>7, <2>1, <2>2
<1>9. ASSUME NEW i \in ShownThoughts(more), NEW j \in ShownThoughts(more), i < j
      PROVE  Follows(more[i][2], more[j][2])
  <2>1. i \in Nat /\ j \in Nat
    BY <1>6 DEF ShownThoughts
  <2>2. i <= Len(thoughts) /\ i \in ShownThoughts(thoughts) /\ more[i] = thoughts[i]
    BY <1>6, <1>7, <1>9, <2>1
  <2>3. CASE more[j] = said
    <3>1. CASE thoughts[i][2].section \in S
      BY <1>2, <1>5, <2>2, <2>3, <3>1 DEF LinesInOrder, Follows
    <3>2. CASE \E k \in 1 .. n - 1 : thoughts[i][2] = d.lines[k]
      <4>1. PICK k \in 1 .. n - 1 : thoughts[i][2] = d.lines[k]
        BY <3>2
      <4>2. k \in DOMAIN d.lines /\ k < n
        BY <1>1, <1>2
      <4>3. Follows(d.lines[k], d.lines[n])
        BY <1>2, <4>2 DEF LinesInOrder
      <4> QED BY <1>5, <2>2, <2>3, <4>1, <4>3
    <3> QED BY <2>2, <3>1, <3>2 DEF AppendedInOrder
  <2>4. CASE j \in ShownThoughts(thoughts) /\ more[j] = thoughts[j]
    BY <1>9, <2>2, <2>4 DEF AppendedInOrder
  <2> QED BY <1>7, <2>3, <2>4
<1>10. AppendedInOrder(S, d.lines, n, more)
  BY <1>8, <1>9 DEF AppendedInOrder
<1> QED
  BY <1>4, <1>10 DEF more, said

\* What the aggregator lets out is appended to the thoughts.
LEMMA SummaryAppended ==
    ASSUME NEW a \in Adapters, SummaryAt(a), NEW d \in Emissions,
           LinesInOrder(a.agg.sections, d)
    PROVE  SummaryAt(Appended([a EXCEPT !.agg = d.agg], "", d.lines).adapter)
<1> DEFINE N == Len(d.lines)
           b == [a EXCEPT !.agg = d.agg]
           S == a.agg.sections
           R == Readings(b.text)
<1>1. d.lines \in Seq(LineRecords) /\ N \in Nat /\ d.agg \in Aggregators
  BY DEF Emissions
<1>2. b \in Adapters /\ b.agg = d.agg /\ b.thoughts = a.thoughts
  BY <1>1 DEF Adapters
<1> DEFINE none == ""
<1>3. none \in Names
  BY DEF Names
<1> HIDE DEF b, none
<1>4. PICK f : Appending(b, none, d.lines, f)
  BY <1>1, <1>2, <1>3, AppendedRuns
<1> DEFINE Good(n) == /\ f[n].adapter.agg = d.agg
                      /\ AppendedInOrder(S, d.lines, n, f[n].adapter.thoughts)
           T == {n \in 0 .. N : Good(n)}
<1>5. 0 \in T
  <2>1. f[0] = [adapter |-> b, events |-> <<>>]
    BY <1>4 DEF Appending
  <2>2. f[0].adapter = b
    BY <2>1
  <2>3. AppendedInOrder(S, d.lines, 0, b.thoughts)
    BY <1>2 DEF SummaryAt, ThoughtsInOrder, AppendedInOrder
  <2> QED BY <1>1, <1>2, <2>2, <2>3
<1>6. ASSUME NEW n \in 1 .. N, n - 1 \in T PROVE n \in T
  <2> DEFINE acc == f[n - 1]
             said == <<none, d.lines[n]>>
             key == <<said[1], Wording(said[2])>>
             after == [acc.adapter EXCEPT !.seen = @ \cup {key}, !.thoughts = Append(@, said)]
             read == [adapter |-> after, events |-> Append(acc.events, Thought(said))]
  <2>1. f[n] = AppendReasoning(acc, said) /\ acc \in R
    BY <1>1, <1>4 DEF Appending
  <2>2. acc.adapter \in Adapters
    <3> HIDE DEF acc
    <3> QED BY <2>1 DEF Readings
  <2>3. acc.adapter.thoughts \in Seq(Said)
    <3> HIDE DEF acc
    <3> QED BY <2>2 DEF Adapters
  <2>4. acc.adapter.agg = d.agg /\ AppendedInOrder(S, d.lines, n - 1, acc.adapter.thoughts)
    BY <1>6
  <2>5. /\ AppendedInOrder(S, d.lines, n, acc.adapter.thoughts)
        /\ AppendedInOrder(S, d.lines, n, Append(acc.adapter.thoughts, said))
    <3> HIDE DEF acc
    <3> QED BY <2>3, <2>4, AppendInOrder DEF none, SummaryAt
  <2>6. f[n] = IF key \in acc.adapter.seen THEN acc ELSE read
    <3> HIDE DEF acc
    <3> QED BY <2>1 DEF AppendReasoning
  <2>7. read.adapter = after
    OBVIOUS
  <2>8. after.agg = acc.adapter.agg /\ after.thoughts = Append(acc.adapter.thoughts, said)
    <3> HIDE DEF acc, said, key
    <3> QED BY <2>2 DEF Adapters
  <2> HIDE DEF after, read, acc, said, key
  <2>9. CASE f[n] = acc
    BY <1>1, <2>4, <2>5, <2>9
  <2>10. CASE f[n] = read
    <3>1. f[n].adapter.agg = acc.adapter.agg
          /\ f[n].adapter.thoughts = Append(acc.adapter.thoughts, said)
      BY <2>7, <2>8, <2>10
    <3>2. Good(n)
      BY <2>4, <2>5, <3>1
    <3> HIDE DEF Good
    <3> QED BY <1>1, <3>2
  <2> QED BY <2>6, <2>9, <2>10
<1>7. N \in T
  <2>1. N \in Nat
    BY <1>1
  <2> HIDE DEF T, N
  <2>2. 0 .. N \subseteq T
    BY <1>5, <1>6, <2>1, Upwards
  <2> QED BY <2>1, <2>2
<1> DEFINE r == Appended(b, none, d.lines).adapter
<1>8. r = f[N].adapter
  BY <1>4 DEF Appending
<1>9. r.agg = d.agg /\ AppendedInOrder(S, d.lines, N, r.thoughts)
  BY <1>7, <1>8
<1> HIDE DEF r
<1>10. \A i \in ShownThoughts(r.thoughts) : r.thoughts[i][2].section \in d.agg.sections
  BY <1>1, <1>9 DEF AppendedInOrder, LinesInOrder
<1>11. SummaryAt(r)
  BY <1>9, <1>10 DEF SummaryAt, ThoughtsInOrder, AppendedInOrder, LinesInOrder
<1> QED
  BY <1>11 DEF r, b, none

LEMMA SummaryThought ==
    ASSUME NEW a \in Adapters, SummaryAt(a), NEW frame,
           frame.line \in LineRecords, frame.line.text # "title",
           frame.kind \in {"think", "tool"}
    PROVE  SummaryAt(OnThought(a, frame, TRUE).adapter)
<1>1. CASE a.started /\ frame.kind = "think"
  <2> DEFINE late == <<"late", frame.line>>
             after == [a EXCEPT !.thoughts = Append(@, late)]
  <2>1. OnThought(a, frame, TRUE).adapter = after
    BY <1>1 DEF OnThought
  <2>2. a.thoughts \in Seq(Said) /\ late[1] = "late"
    BY DEF Adapters
  <2>3. after.agg = a.agg /\ after.thoughts = Append(a.thoughts, late)
    BY DEF Adapters
  <2> HIDE DEF late
  <2>4. \A i \in ShownThoughts(Append(a.thoughts, late)) :
            i \in ShownThoughts(a.thoughts) /\ Append(a.thoughts, late)[i] = a.thoughts[i]
    BY <2>2 DEF ShownThoughts
  <2> HIDE DEF after
  <2>5. SummaryAt(after)
    BY <2>3, <2>4 DEF SummaryAt, ThoughtsInOrder
  <2> QED BY <2>1, <2>5
<1>2. CASE a.started /\ frame.kind = "tool"
  BY <1>2 DEF OnThought
<1>3. CASE ~a.started
  <2> DEFINE d == OnThinking(a.agg, frame)
  <2>1. a.agg \in Aggregators /\ PlainPending(a.agg)
    BY DEF Adapters, SummaryAt
  <2>2. d \in Emissions /\ LinesInOrder(a.agg.sections, d)
    BY <2>1, OnThinkingType, LinesInOrderOnThinking
  <2>3. OnThought(a, frame, TRUE) = Appended([a EXCEPT !.agg = d.agg], "", d.lines)
    BY <1>3 DEF OnThought, Summarized
  <2> HIDE DEF d
  <2> QED BY <2>2, <2>3, SummaryAppended
<1> QED
  BY <1>1, <1>2, <1>3

\* The adapter while it reads one data line in the summary mode.
LEMMA SummaryFed ==
    ASSUME NEW a \in Adapters, SummaryAt(a), NEW f \in Frames
    PROVE  /\ SummaryAt(AdapterFeed(a, f, TRUE).adapter)
           /\ SummaryAt(ConsoleFeed(a, f).adapter)
<1> DEFINE Same(b) == b.agg = a.agg /\ b.thoughts = a.thoughts
<1>1. \A b : Same(b) => SummaryAt(b)
  BY DEF SummaryAt
<1>2. SummaryAt(AdapterFeed(a, f, TRUE).adapter)
  <2>1. CASE f.kind \in {"think", "tool"}
    <3>1. f.line \in Lines
      BY <2>1 DEF Frames
    <3>2. f.line \in LineRecords /\ f.line.text # "title"
      BY <3>1, LinesAreRecords DEF Lines
    <3> QED BY <2>1, <3>2, SummaryThought DEF AdapterFeed
  <2>2. CASE f.kind = "text"
    <3> DEFINE r == OnText(a, f).adapter
    <3>1. Same(r)
      BY DEF OnText, Adapters
    <3>2. AdapterFeed(a, f, TRUE) = OnText(a, f)
      BY <2>2 DEF AdapterFeed
    <3> HIDE DEF Same, r
    <3>3. SummaryAt(r)
      BY <1>1, <3>1
    <3> QED BY <3>2, <3>3 DEF r
  <2>3. CASE f.kind = "image" \/ f.kind = "source"
    <3>1. Same(AdapterFeed(a, f, TRUE).adapter)
      BY <2>3 DEF AdapterFeed, Adapters
    <3> QED BY <1>1, <3>1
  <2>4. CASE f.kind = "stop"
    <3> DEFINE d == Finalize(a.agg)
               r == Appended([a EXCEPT !.agg = d.agg], "", d.lines)
    <3>1. a.agg \in Aggregators /\ PlainPending(a.agg)
      BY DEF Adapters, SummaryAt
    <3>2. d \in Emissions /\ LinesInOrder(a.agg.sections, d)
      BY <3>1, FinalizeType, LinesInOrderFinalize
    <3>3. OnStop(a, TRUE) = [r EXCEPT !.events = Append(@, [ev |-> "soft_stop"])]
      BY DEF OnStop
    <3>4. SummaryAt(r.adapter)
      <4> HIDE DEF d
      <4> QED BY <3>2, SummaryAppended
    <3>5. r \in Readings(a.text)
      <4> DEFINE b == [a EXCEPT !.agg = d.agg]
                 none == ""
      <4> HIDE DEF d
      <4>1. d.agg \in Aggregators /\ d.lines \in Seq(LineRecords)
        BY <3>2 DEF Emissions
      <4>2. b \in Adapters /\ b.text = a.text
        BY <4>1 DEF Adapters
      <4>3. none \in Names
        BY DEF Names
      <4> HIDE DEF b, none
      <4>4. Appended(b, none, d.lines) \in Readings(a.text)
        BY <4>1, <4>2, <4>3, AppendedType
      <4> QED BY <4>4 DEF b, none
    <3> HIDE DEF r
    <3>6. OnStop(a, TRUE).adapter = r.adapter
      BY <3>3, <3>5 DEF Readings
    <3>7. AdapterFeed(a, f, TRUE) = OnStop(a, TRUE)
      BY <2>4 DEF AdapterFeed
    <3> QED BY <3>4, <3>6, <3>7
  <2> QED BY <2>1, <2>2, <2>3, <2>4 DEF Frames
<1>3. SummaryAt(ConsoleFeed(a, f).adapter)
  <2>1. Same(ConsoleFeed(a, f).adapter)
    BY DEF ConsoleFeed, Adapters
  <2> QED BY <1>1, <2>1
<1> QED
  BY <1>2, <1>3

LEMMA SummaryNew == SummaryAt(NewAdapter)
  BY DEF SummaryAt, NewAdapter, NewAggregator, PlainPending, ThoughtsInOrder, ShownThoughts

LEMMA SummaryNext == StreamTypes /\ SummaryInv /\ [Next]_vars => SummaryInv'
<1> SUFFICES ASSUME StreamTypes, SummaryInv, [Next]_vars, scenario'.summary
             PROVE  SummaryAt(adapter')
  BY DEF SummaryInv
<1>1. CASE \E a \in Accounts : Reserve(a)
  BY <1>1, SummaryNew DEF Reserve
<1>2. CASE \E f \in scenario.frames : Read(f)
  <2>1. PICK f \in scenario.frames : Read(f)
    BY <1>2
  <2>2. scenario.summary = TRUE /\ f \in Frames /\ adapter \in Adapters
    BY <2>1, RequestHolds DEF Read, StreamTypes, RequestIs, Requests
  <2>3. adapter' \in {ConsoleFeed(adapter, f).adapter, AdapterFeed(adapter, f, TRUE).adapter}
    BY <2>1, <2>2 DEF Read
  <2> QED BY <2>2, <2>3, SummaryFed DEF SummaryInv
<1>a. ASSUME adapter' = adapter, scenario' = scenario PROVE SummaryAt(adapter')
  BY <1>a DEF SummaryInv
<1>3. CASE UNCHANGED vars
  BY <1>3, <1>a DEF vars
<1>4. CASE NoAccount \/ Open \/ Connect \/ Relay \/ EndOfStream \/ FlushSieve
  BY <1>4, <1>a DEF NoAccount, Open, Connect, Relay, EndOfStream, FlushSieve, relayed
<1>5. CASE \/ \E e \in Outages : Refused(e) \/ BreaksOff(e)
           \/ ResolveCrashes \/ Disconnect
  BY <1>5, <1>a DEF Refused, BreaksOff, ResolveCrashes, Disconnect, Raise, relayed
<1>6. CASE ResolveImage \/ Complete \/ Confirm \/ Settle \/ Compose
  BY <1>6, <1>a DEF ResolveImage, Complete, Confirm, Settle, Compose, relayed
<1>7. CASE Finished \/ \E a \in Accounts : RunSync(a)
  BY <1>7, <1>a DEF Finished, RunSync, relayed, vars
<1> QED
  BY <1>1, <1>2, <1>3, <1>4, <1>5, <1>6, <1>7 DEF Next

LEMMA SummaryOrdered == StreamTypes /\ SummaryInv => SummaryInOrder
<1> SUFFICES ASSUME StreamTypes, scenario.summary, SummaryAt(adapter),
                    NEW i \in ShownThoughts(adapter.thoughts),
                    NEW j \in ShownThoughts(adapter.thoughts)
             PROVE  LET before == adapter.thoughts[i][2]
                        line == adapter.thoughts[j][2]
                    IN  /\ before.text = "title" /\ before.section = line.section => i <= j
                        /\ before.section = "scope" /\ line.section \in {"evidence", "finding"}
                               => i < j
  BY DEF SummaryInOrder, SummaryInv, ShownThoughts
<1>1. i \in Nat /\ j \in Nat
  BY DEF StreamTypes, Adapters, ShownThoughts
<1>2. j < i => Follows(adapter.thoughts[j][2], adapter.thoughts[i][2])
  BY DEF SummaryAt, ThoughtsInOrder
<1>3. i = j => adapter.thoughts[i][2] = adapter.thoughts[j][2]
  OBVIOUS
<1> QED
  BY <1>1, <1>2, <1>3 DEF Follows

\* In a summary a section has its title once, before its lines, and no line of
\* scope follows evidence or findings, whatever thoughts the upstream sends, however
\* many the aggregator holds back and whenever it settles on a language.
THEOREM SummaryCorrect == Spec => []SummaryInOrder
<1>1. Init => SummaryInv
  BY SummaryNew DEF Init, SummaryInv
<1>2. StreamTypes /\ SummaryInv /\ [Next]_vars => SummaryInv'
  BY SummaryNext
<1>3. Spec => []StreamTypes
  BY RelayInvariant, PTL DEF RelayInv
<1>4. Spec => []SummaryInv
  BY <1>1, <1>2, <1>3, PTL DEF Spec
<1> QED
  BY <1>3, <1>4, SummaryOrdered, PTL

------------------------------------------------------------------------------
\* The blocks of a reply.

LEMMA EventsAtNext ==
    ASSUME NEW out \in Seq(Quiet), NEW e \in Quiet, NEW i, NEW what
    PROVE  EventsAt(Append(out, e), i, what) =
               EventsAt(out, i, what)
               \cup (IF e[1] = what /\ e[2] = i THEN {Len(out) + 1} ELSE {})
<1> DEFINE new == Append(out, e)
<1>1. /\ DOMAIN new = DOMAIN out \cup {Len(out) + 1}
      /\ Len(out) + 1 \notin DOMAIN out
      /\ \A k \in DOMAIN out : new[k] = out[k]
      /\ new[Len(out) + 1] = e
  OBVIOUS
<1> HIDE DEF new
<1>2. EventsAt(new, i, what) =
          EventsAt(out, i, what)
          \cup (IF e[1] = what /\ e[2] = i THEN {Len(out) + 1} ELSE {})
  BY <1>1 DEF EventsAt
<1> QED
  BY <1>2 DEF new

\* What an event may do to the blocks.
Extends(e, used, live, used2, live2) ==
    \/ e[1] = "start" /\ used2 = used /\ live2 = live
    \/ e[1] = "open" /\ e[2] \notin used /\ used2 = used \cup {e[2]} /\ live2 = live \cup {e[2]}
    \/ e[1] = "delta" /\ e[2] \in live /\ used2 = used /\ live2 = live
    \/ e[1] = "close" /\ e[2] \in live /\ used2 = used /\ live2 = live \ {e[2]}

LEMMA NestedNext ==
    ASSUME NEW out \in Seq(Quiet), NEW e \in Quiet, NEW used, NEW live, NEW used2, NEW live2,
           Nested(out, used, live), Extends(e, used, live, used2, live2)
    PROVE  Nested(Append(out, e), used2, live2)
<1> DEFINE new == Append(out, e)
           n == Len(out) + 1
           Ev(i, what) == EventsAt(out, i, what)
<1>1. /\ DOMAIN new = DOMAIN out \cup {n} /\ n \in Nat
      /\ \A k \in DOMAIN out : new[k] = out[k] /\ k \in Nat /\ k < n
      /\ new[n] = e
  OBVIOUS
<1>2. \A i, what : EventsAt(new, i, what) =
                       Ev(i, what) \cup (IF e[1] = what /\ e[2] = i THEN {n} ELSE {})
  BY EventsAtNext
<1>3. \A i, what : Ev(i, what) \subseteq DOMAIN out
  BY DEF EventsAt
<1> HIDE DEF new, n
<1>4. \A i : i \notin used => Ev(i, "open") = {}
  BY DEF EventsAt, Nested
<1>5. live2 \subseteq used2 /\ live \subseteq used
  BY DEF Extends, Nested
<1>6. ASSUME NEW k \in DOMAIN out
      PROVE  /\ new[k][1] # "final"
             /\ new[k][1] = "open" => /\ new[k][2] \in used2
                                      /\ EventsAt(new, new[k][2], "open") = {k}
             /\ new[k][1] \in {"delta", "close"} =>
                    /\ \E o \in EventsAt(new, new[k][2], "open") : o < k
                    /\ \A c \in EventsAt(new, new[k][2], "close") : c >= k
  <2>1. new[k] = out[k] /\ k < n /\ k \in Nat
    BY <1>1
  <2>2. out[k][1] # "final"
    BY DEF Nested
  <2>3. ASSUME out[k][1] = "open"
        PROVE  out[k][2] \in used2 /\ EventsAt(new, out[k][2], "open") = {k}
    <3>1. out[k][2] \in used /\ Ev(out[k][2], "open") = {k}
      BY <2>3 DEF Nested
    <3>2. ~(e[1] = "open" /\ e[2] = out[k][2])
      BY <3>1 DEF Extends
    <3>3. out[k][2] \in used2
      BY <3>1 DEF Extends
    <3> QED BY <1>2, <3>1, <3>2, <3>3
  <2>4. ASSUME out[k][1] \in {"delta", "close"}
        PROVE  /\ \E o \in EventsAt(new, out[k][2], "open") : o < k
               /\ \A c \in EventsAt(new, out[k][2], "close") : c >= k
    <3>1. PICK o \in Ev(out[k][2], "open") : o < k
      BY <2>4 DEF Nested
    <3>2. \A c \in Ev(out[k][2], "close") : c >= k
      BY <2>4 DEF Nested
    <3>3. o \in EventsAt(new, out[k][2], "open")
      BY <1>2, <3>1
    <3>4. \A c \in EventsAt(new, out[k][2], "close") : c \in Ev(out[k][2], "close") \/ c = n
      BY <1>2
    <3>5. n >= k
      BY <1>1, <2>1
    <3> QED BY <3>1, <3>2, <3>3, <3>4, <3>5
  <2> QED BY <2>1, <2>2, <2>3, <2>4
<1>7. /\ new[n][1] # "final"
      /\ new[n][1] = "open" => /\ new[n][2] \in used2
                               /\ EventsAt(new, new[n][2], "open") = {n}
      /\ new[n][1] \in {"delta", "close"} =>
             /\ \E o \in EventsAt(new, new[n][2], "open") : o < n
             /\ \A c \in EventsAt(new, new[n][2], "close") : c >= n
  <2>1. CASE e[1] = "start"
    BY <1>1, <2>1
  <2>2. CASE e[1] = "open"
    <3>1. e[2] \notin used /\ e[2] \in used2
      BY <2>2 DEF Extends
    <3>2. EventsAt(new, e[2], "open") = {n}
      BY <1>2, <1>4, <2>2, <3>1
    <3> QED BY <1>1, <2>2, <3>1, <3>2
  <2>3. CASE e[1] \in {"delta", "close"}
    <3>1. e[2] \in live
      BY <2>3 DEF Extends
    <3>2. Ev(e[2], "open") # {} /\ Ev(e[2], "close") = {}
      BY <3>1 DEF Nested
    <3>3. PICK o \in Ev(e[2], "open") : o < n
      BY <1>1, <1>3, <3>2
    <3>4. o \in EventsAt(new, e[2], "open")
      BY <1>2, <3>3
    <3>5. \A c \in EventsAt(new, e[2], "close") : c = n
      BY <1>2, <3>2
    <3>6. n >= n
      BY <1>1
    <3> QED BY <1>1, <2>3, <3>3, <3>4, <3>5, <3>6
  <2> QED BY <2>1, <2>2, <2>3 DEF Extends
<1>8. ASSUME NEW i \in live2
      PROVE  EventsAt(new, i, "open") # {} /\ EventsAt(new, i, "close") = {}
  <2>1. CASE i \in live
    <3>1. Ev(i, "open") # {} /\ Ev(i, "close") = {}
      BY <2>1 DEF Nested
    <3>2. ~(e[1] = "close" /\ e[2] = i)
      BY DEF Extends
    <3> QED BY <1>2, <3>1, <3>2
  <2>2. CASE i \notin live
    <3>1. e[1] = "open" /\ e[2] = i /\ i \notin used
      BY <2>2 DEF Extends
    <3>2. Ev(i, "close") = {}
      <4>1. SUFFICES ASSUME NEW k \in DOMAIN out, out[k][1] = "close", out[k][2] = i
                     PROVE  FALSE
        BY DEF EventsAt
      <4>2. Ev(i, "open") # {}
        BY <4>1 DEF Nested
      <4> QED BY <1>4, <3>1, <4>2
    <3> QED BY <1>2, <3>1, <3>2
  <2> QED BY <2>1, <2>2
<1>9. ASSUME NEW i \in used2 \ live2
      PROVE  EventsAt(new, i, "close") # {}
  <2>1. i \in used \ live \/ (e[1] = "close" /\ e[2] = i)
    BY DEF Extends
  <2>2. i \in used \ live => Ev(i, "close") # {}
    BY DEF Nested
  <2> QED BY <1>2, <2>1, <2>2
<1>10. ASSUME NEW k \in DOMAIN new
       PROVE  /\ new[k][1] # "final"
              /\ new[k][1] = "open" => /\ new[k][2] \in used2
                                       /\ EventsAt(new, new[k][2], "open") = {k}
              /\ new[k][1] \in {"delta", "close"} =>
                     /\ \E o \in EventsAt(new, new[k][2], "open") : o < k
                     /\ \A c \in EventsAt(new, new[k][2], "close") : c >= k
  <2>1. k \in DOMAIN out \/ k = n
    BY <1>1
  <2>2. CASE k \in DOMAIN out
    BY <1>6, <2>2, Zenon
  <2>3. CASE k = n
    BY <1>7, <2>3, Zenon
  <2> QED BY <2>1, <2>2, <2>3
<1>11. Nested(new, used2, live2)
  BY <1>5, <1>8, <1>9, <1>10, Zenon DEF Nested
<1> QED
  BY <1>11 DEF new

\* Nothing written, nothing opened.
LEMMA NestedNothing == Nested(<<>>, {}, {})
  BY DEF Nested, EventsAt

\* One and two more events.
LEMMA NestedMore ==
    ASSUME NEW out \in Seq(Quiet), NEW e \in Quiet, NEW f \in Quiet
    PROVE  /\ out \o <<>> = out /\ out \o <<e>> = Append(out, e)
           /\ out \o <<e, f>> = Append(Append(out, e), f)
           /\ Append(out, e) \in Seq(Quiet)
  OBVIOUS

\* With no block open, the final event and the end mark may follow.
BlocksWhole(out) ==
    \A k \in DOMAIN out :
        /\ out[k][1] = "open" => \A o \in EventsAt(out, out[k][2], "open") : o = k
        /\ out[k][1] \in {"delta", "close"} =>
               /\ Cardinality({o \in EventsAt(out, out[k][2], "open") : o < k}) = 1
               /\ \A c \in EventsAt(out, out[k][2], "close") : c >= k
        /\ out[k][1] = "final" =>
               \A o \in DOMAIN out : out[o][1] = "open" =>
                   EventsAt(out, out[o][2], "close") # {}

LEMMA BlocksNestIs == BlocksNest <=> (Api \notin {"chat", "console_chat"} => BlocksWhole(client.out))
  BY DEF BlocksNest, BlocksWhole, EventsAt

LEMMA NestedOpens ==
    ASSUME NEW out, NEW used, NEW live, Nested(out, used, live), NEW k \in DOMAIN out,
           out[k][1] \in {"delta", "close"}
    PROVE  /\ Cardinality({o \in EventsAt(out, out[k][2], "open") : o < k}) = 1
           /\ \A c \in EventsAt(out, out[k][2], "close") : c >= k
<1> DEFINE opens == EventsAt(out, out[k][2], "open")
<1>1. PICK o \in opens : o < k
  BY DEF Nested
<1>2. out[o][1] = "open" /\ out[o][2] = out[k][2] /\ o \in DOMAIN out
  BY <1>1 DEF EventsAt
<1>3. opens = {o}
  BY <1>2 DEF Nested
<1>4. {x \in opens : x < k} = {o}
  BY <1>1, <1>3
<1>5. Cardinality({o}) = 1
  BY FS_Singleton
<1> QED
  BY <1>4, <1>5 DEF Nested

LEMMA NestedWhole ==
    ASSUME NEW out, NEW used, NEW live, Nested(out, used, live)
    PROVE  BlocksWhole(out)
<1> SUFFICES ASSUME NEW k \in DOMAIN out
             PROVE  /\ out[k][1] = "open" => \A o \in EventsAt(out, out[k][2], "open") : o = k
                    /\ out[k][1] # "final"
  BY NestedOpens DEF BlocksWhole
<1> QED
  BY DEF Nested

\* Events of no block: neither opened nor filled nor closed.
LEMMA EventsAtKept ==
    ASSUME NEW out \in Seq(Quiet), NEW e, e[1] \notin {"open", "close"}, NEW i,
           NEW what \in {"open", "close"}
    PROVE  EventsAt(Append(out, e), i, what) = EventsAt(out, i, what)
<1> DEFINE new == Append(out, e)
<1>1. /\ DOMAIN new = DOMAIN out \cup {Len(out) + 1}
      /\ \A k \in DOMAIN out : new[k] = out[k]
      /\ new[Len(out) + 1] = e
  OBVIOUS
<1> HIDE DEF new
<1>2. EventsAt(new, i, what) = EventsAt(out, i, what)
  BY <1>1 DEF EventsAt
<1> QED
  BY <1>2 DEF new

LEMMA FinishedWhole ==
    ASSUME NEW out \in Seq(Quiet), NEW used, Nested(out, used, {}), NEW e \in Quiet,
           e[1] = "final"
    PROVE  BlocksWhole(Append(Append(out, e), DoneEvent))
<1> DEFINE one == Append(out, e)
           new == Append(one, DoneEvent)
           n == Len(out) + 1
<1>1. one \in Seq(Quiet)
  OBVIOUS
<1>2. DoneEvent[1] \notin {"open", "delta", "close", "final"}
  BY DoneIs
<1>3. ASSUME NEW i, NEW what \in {"open", "close"}
      PROVE  EventsAt(new, i, what) = EventsAt(out, i, what)
  <2>1. EventsAt(one, i, what) = EventsAt(out, i, what)
    BY EventsAtKept
  <2> HIDE DEF one
  <2>2. EventsAt(new, i, what) = EventsAt(one, i, what)
    BY <1>1, <1>2, EventsAtKept
  <2> QED BY <2>1, <2>2
<1>4. /\ DOMAIN new = DOMAIN out \cup {n, n + 1}
      /\ \A k \in DOMAIN out : new[k] = out[k]
      /\ new[n] = e /\ new[n + 1] = DoneEvent
  OBVIOUS
<1> HIDE DEF new, n
<1>5. ASSUME NEW k \in DOMAIN new, new[k][1] \in {"open", "delta", "close"}
      PROVE  k \in DOMAIN out /\ new[k] = out[k]
  BY <1>2, <1>4, <1>5
<1>6. ASSUME NEW k \in DOMAIN new, new[k][1] = "open"
      PROVE  \A o \in EventsAt(new, new[k][2], "open") : o = k
  <2>1. k \in DOMAIN out /\ new[k] = out[k]
    BY <1>5, <1>6
  <2>2. EventsAt(out, out[k][2], "open") = {k}
    BY <1>6, <2>1 DEF Nested
  <2> QED BY <1>3, <2>1, <2>2
<1>7. ASSUME NEW k \in DOMAIN new, new[k][1] \in {"delta", "close"}
      PROVE  /\ Cardinality({o \in EventsAt(new, new[k][2], "open") : o < k}) = 1
             /\ \A c \in EventsAt(new, new[k][2], "close") : c >= k
  <2>1. k \in DOMAIN out /\ new[k] = out[k]
    BY <1>5, <1>7
  <2>2. /\ Cardinality({o \in EventsAt(out, out[k][2], "open") : o < k}) = 1
        /\ \A c \in EventsAt(out, out[k][2], "close") : c >= k
    BY <1>7, <2>1, NestedOpens
  <2> QED BY <1>3, <2>1, <2>2
<1>8. ASSUME NEW o \in DOMAIN new, new[o][1] = "open"
      PROVE  EventsAt(new, new[o][2], "close") # {}
  <2>1. o \in DOMAIN out /\ new[o] = out[o]
    BY <1>5, <1>8
  <2>2. out[o][2] \in used \ {}
    BY <1>8, <2>1 DEF Nested
  <2> QED BY <1>3, <2>1, <2>2 DEF Nested
<1>9. BlocksWhole(new)
  BY <1>6, <1>7, <1>8, Zenon DEF BlocksWhole
<1> QED
  BY <1>9 DEF new

LEMMA ResponsesBlocks ==
    ASSUME NEW s, NEW c
    PROVE  /\ LiveBlocks("responses", s, c) =
                  (IF c.thinking = "open" THEN {0} ELSE {})
                  \cup (IF c.message THEN {ResponsesIndex(c)} ELSE {})
           /\ UsedBlocks("responses", s, c) =
                  LiveBlocks("responses", s, c) \cup (IF c.thinking = "no" THEN {} ELSE {0})
  BY DEF LiveBlocks, UsedBlocks

LEMMA MessagesBlocks ==
    ASSUME NEW s, NEW c
    PROVE  /\ LiveBlocks("messages", s, c) =
                  (IF c.thinking = "open" \/ c.message THEN {c.index} ELSE {})
           /\ UsedBlocks("messages", s, c) =
                  LiveBlocks("messages", s, c) \cup (0 .. c.index - 1)
  BY DEF LiveBlocks, UsedBlocks

LEMMA ConsoleBlocks ==
    ASSUME NEW s, NEW c, NEW api \in {"console_responses", "console_messages"}
    PROVE  /\ LiveBlocks(api, s, c) = (IF s = "open" THEN {} ELSE {0})
           /\ UsedBlocks(api, s, c) = LiveBlocks(api, s, c)
<1>1. api # "responses" /\ api # "messages"
  OBVIOUS
<1> QED
  BY <1>1 DEF LiveBlocks, UsedBlocks

\* A client that differs in neither events nor blocks.
SameBlocks(c, d) ==
    /\ d.out = c.out /\ d.thinking = c.thinking /\ d.message = c.message
    /\ d.index = c.index

LEMMA NestedSame ==
    ASSUME NEW api \in BlockApis, NEW s, NEW c, NEW d, SameBlocks(c, d), NestedAt(api, s, c)
    PROVE  NestedAt(api, s, d)
  BY DEF SameBlocks, NestedAt, LiveBlocks, UsedBlocks, ResponsesIndex

\* What is written with one and with two events.
LEMMA SaidOnce ==
    ASSUME NEW c, QuietClient(c), NEW e \in Quiet, NEW chunk \in Shown
    PROVE  /\ Say(c, <<e>>).out = Append(c.out, e)
           /\ SameBlocks([c EXCEPT !.out = Append(c.out, e)], Say(c, <<e>>))
           /\ SameBlocks([c EXCEPT !.out = Append(c.out, e)], Write(c, chunk, <<e>>))
           /\ Append(c.out, e) \in Seq(Quiet)
<1>1. c \in Clients /\ c.out \in Seq(Quiet)
  BY DEF QuietClient, Unmarked
<1>2. c.out \o <<e>> = Append(c.out, e) /\ Append(c.out, e) \in Seq(Quiet)
  BY <1>1
<1> QED
  BY <1>1, <1>2 DEF Say, Write, SameBlocks, Clients

LEMMA NestedAdd ==
    ASSUME NEW api, NEW s, NEW c, QuietClient(c), NestedAt(api, s, c), NEW e \in Quiet, NEW d,
           d.out = Append(c.out, e), d.message => d.thinking # "open",
           Extends(e, UsedBlocks(api, s, c), LiveBlocks(api, s, c),
                   UsedBlocks(api, s, d), LiveBlocks(api, s, d))
    PROVE  NestedAt(api, s, d)
  BY NestedNext DEF NestedAt, QuietClient, Unmarked

LEMMA NestedAddTwo ==
    ASSUME NEW api, NEW s, NEW c, QuietClient(c), NestedAt(api, s, c),
           NEW e \in Quiet, NEW f \in Quiet, NEW d, NEW used, NEW live,
           d.out = c.out \o <<e, f>>, d.message => d.thinking # "open",
           Extends(e, UsedBlocks(api, s, c), LiveBlocks(api, s, c), used, live),
           Extends(f, used, live, UsedBlocks(api, s, d), LiveBlocks(api, s, d))
    PROVE  NestedAt(api, s, d)
<1>1. c.out \in Seq(Quiet) /\ Nested(c.out, UsedBlocks(api, s, c), LiveBlocks(api, s, c))
  BY DEF NestedAt, QuietClient, Unmarked
<1>2. Nested(Append(c.out, e), used, live)
  BY <1>1, NestedNext
<1>3. d.out = Append(Append(c.out, e), f) /\ Append(c.out, e) \in Seq(Quiet)
  BY <1>1, NestedMore
<1>4. Nested(Append(Append(c.out, e), f), UsedBlocks(api, s, d), LiveBlocks(api, s, d))
  BY <1>2, <1>3, NestedNext
<1> QED
  BY <1>3, <1>4 DEF NestedAt

\* The events of a block.
LEMMA BlockEvents ==
    ASSUME NEW i \in Int, NEW b \in Blocks
    PROVE  /\ <<"open", i, b>> \in Quiet /\ <<"delta", i, b>> \in Quiet
           /\ <<"close", i, b>> \in Quiet /\ <<"final", i, b>> \in Quiet
  BY DEF Quiet

LEMMA Joins ==
    ASSUME NEW Q, NEW s \in Seq(Q), NEW t \in Seq(Q)
    PROVE  /\ s \o t \in Seq(Q) /\ Len(s \o t) = Len(s) + Len(t)
           /\ \A i \in 1 .. Len(s) : (s \o t)[i] = s[i]
           /\ \A i \in 1 .. Len(t) : (s \o t)[Len(s) + i] = t[i]
<1>1. s \o t \in Seq(Q)
  OBVIOUS
<1>2. Len(s \o t) = Len(s) + Len(t)
  OBVIOUS
<1>3. \A i \in 1 .. Len(s) : (s \o t)[i] = s[i]
  OBVIOUS
<1>4. \A i \in 1 .. Len(t) : (s \o t)[Len(s) + i] = t[i]
  OBVIOUS
<1> QED
  BY <1>1, <1>2, <1>3, <1>4

LEMMA AssociativeOf ==
    ASSUME NEW Q, NEW u \in Seq(Q), NEW v \in Seq(Q), NEW w \in Seq(Q)
    PROVE  u \o (v \o w) = (u \o v) \o w
  OBVIOUS

LEMMA JoinTwo ==
    ASSUME NEW Q, NEW s \in Seq(Q), NEW t \in Seq(Q), NEW b \in Seq(Q)
    PROVE  Len(s) = 1 /\ Len(t) = 1 /\ Len(b) = 2 /\ b[1] = s[1] /\ b[2] = t[1]
           => s \o t = b
<1> DEFINE j == s \o t
<1>1. /\ j \in Seq(Q) /\ Len(j) = Len(s) + Len(t)
      /\ \A i \in 1 .. Len(s) : j[i] = s[i]
      /\ \A i \in 1 .. Len(t) : j[Len(s) + i] = t[i]
  BY Joins
<1> HIDE DEF j
<1>a. SUFFICES ASSUME Len(s) = 1, Len(t) = 1, Len(b) = 2, b[1] = s[1], b[2] = t[1]
               PROVE  j = b
  BY DEF j
<1>2. j[1] = s[1] /\ j[2] = t[1] /\ Len(j) = 2
  BY <1>1, <1>a
<1> QED
  BY <1>1, <1>2, <1>a

LEMMA TwoEvents ==
    ASSUME NEW e \in Quiet, NEW f \in Quiet
    PROVE  <<e>> \o <<f>> = <<e, f>>
<1> DEFINE s == <<e>>
           t == <<f>>
           b == <<e, f>>
<1>1. /\ s \in Seq(Quiet) /\ t \in Seq(Quiet) /\ Len(s) = 1 /\ Len(t) = 1
      /\ s[1] = e /\ t[1] = f
  OBVIOUS
<1>2. b \in Seq(Quiet) /\ Len(b) = 2 /\ b[1] = e /\ b[2] = f
  OBVIOUS
<1> HIDE DEF s, t, b
<1>3. s \o t = b
  BY <1>1, <1>2, JoinTwo
<1> QED
  BY <1>3 DEF s, t, b

LEMMA JoinAppend ==
    ASSUME NEW Q, NEW s \in Seq(Q), NEW t \in Seq(Q), NEW e \in Q
    PROVE  /\ s \o Append(t, e) = Append(s \o t, e)
           /\ s \o t \in Seq(Q) /\ Append(t, e) \in Seq(Q)
  OBVIOUS

\* A sequence is another one with three elements more.
LEMMA AppendThree ==
    ASSUME NEW Q, NEW s \in Seq(Q), NEW t \in Seq(Q), NEW a \in Q, NEW b \in Q, NEW c \in Q,
           Len(t) = Len(s) + 3, \A k \in 1 .. Len(s) : t[k] = s[k],
           t[Len(s) + 1] = a, t[Len(s) + 2] = b, t[Len(s) + 3] = c
    PROVE  t = Append(Append(Append(s, a), b), c)
<1> DEFINE n == Len(s)
           one == Append(s, a)
           two == Append(one, b)
           three == Append(two, c)
<1>0. n \in Nat
  OBVIOUS
<1>1. /\ one \in Seq(Q) /\ Len(one) = n + 1 /\ one[n + 1] = a
      /\ \A k \in 1 .. n : one[k] = s[k]
  OBVIOUS
<1> HIDE DEF one, n
<1>2. /\ two \in Seq(Q) /\ Len(two) = n + 2 /\ two[n + 2] = b
      /\ \A k \in 1 .. n + 1 : two[k] = one[k]
  BY <1>0, <1>1
<1> HIDE DEF two
<1>3. /\ three \in Seq(Q) /\ Len(three) = n + 3 /\ three[n + 3] = c
      /\ \A k \in 1 .. n + 2 : three[k] = two[k]
  BY <1>0, <1>2
<1> HIDE DEF three
<1>4. Len(t) = Len(three)
  BY <1>3 DEF n
<1>5. ASSUME NEW k \in 1 .. n + 3 PROVE t[k] = three[k]
  <2>1. k \in 1 .. n \/ k = n + 1 \/ k = n + 2 \/ k = n + 3
    BY <1>0
  <2>2. CASE k \in 1 .. n
    BY <1>0, <1>1, <1>2, <1>3, <2>2 DEF n
  <2>3. CASE k = n + 1
    BY <1>0, <1>1, <1>2, <1>3, <2>3 DEF n
  <2>4. CASE k = n + 2
    BY <1>0, <1>2, <1>3, <2>4 DEF n
  <2>5. CASE k = n + 3
    BY <1>0, <1>3, <2>5 DEF n
  <2> QED BY <2>1, <2>2, <2>3, <2>4, <2>5
<1>6. Len(t) = n + 3 /\ n \in Nat
  BY <1>0 DEF n
<1> HIDE DEF n
<1>7. t = three
  BY <1>3, <1>5, <1>6
<1> QED
  BY <1>7 DEF three, two, one

\* The events of one more call.
LEMMA CallEventsNext ==
    ASSUME NEW first \in Int, NEW n \in Nat
    PROVE  LET i == first + n
           IN  CallEvents(first, n + 1) =
                   Append(Append(Append(CallEvents(first, n), <<"open", i, "call">>),
                                 <<"delta", i, "call">>), <<"close", i, "call">>)
<1> DEFINE i == first + n
           o == <<"open", i, "call">>
           d == <<"delta", i, "call">>
           e == <<"close", i, "call">>
           some == CallEvents(first, n)
           all == CallEvents(first, n + 1)
           At(k) == <<CASE k % 3 = 1 -> "open" [] k % 3 = 2 -> "delta" [] OTHER -> "close",
                      first + (k - 1) \div 3, "call">>
<1>1. some = [k \in 1 .. 3 * n |-> At(k)] /\ all = [k \in 1 .. 3 * (n + 1) |-> At(k)]
  BY DEF CallEvents
<1>2. /\ (3 * n + 1) % 3 = 1 /\ ((3 * n + 1) - 1) \div 3 = n
      /\ (3 * n + 2) % 3 = 2 /\ ((3 * n + 2) - 1) \div 3 = n
      /\ (3 * n + 3) % 3 = 0 /\ ((3 * n + 3) - 1) \div 3 = n
  OBVIOUS
<1>3. At(3 * n + 1) = o /\ At(3 * n + 2) = d /\ At(3 * n + 3) = e
  BY <1>2
<1>4. some \in Seq(Quiet) /\ all \in Seq(Quiet)
  BY CallEventsQuiet
<1>5. 3 * (n + 1) = 3 * n + 3 /\ 3 * n \in Nat
  OBVIOUS
<1> HIDE DEF At, o, d, e, some, all
<1>6. Len(some) = 3 * n /\ Len(all) = 3 * n + 3
  BY <1>1, <1>5
<1>7. /\ \A k \in 1 .. 3 * n : all[k] = some[k]
      /\ all[3 * n + 1] = o /\ all[3 * n + 2] = d /\ all[3 * n + 3] = e
  BY <1>1, <1>3, <1>5
<1>8. all = Append(Append(Append(some, o), d), e)
  <2>1. i \in Int
    OBVIOUS
  <2>2. o \in Quiet /\ d \in Quiet /\ e \in Quiet
    BY <2>1, BlockEvents, BlockNames DEF o, d, e
  <2>3. /\ Len(all) = Len(some) + 3 /\ \A k \in 1 .. Len(some) : all[k] = some[k]
        /\ all[Len(some) + 1] = o /\ all[Len(some) + 2] = d /\ all[Len(some) + 3] = e
    BY <1>5, <1>6, <1>7
  <2> QED BY <1>4, <2>2, <2>3, AppendThree
<1> QED
  BY <1>8 DEF o, d, e, some, all, i

\* The blocks of calls on indices not used yet: each is opened, filled and closed.
LEMMA CallsNest ==
    ASSUME NEW out \in Seq(Quiet), NEW used, Nested(out, used, {}), NEW first \in Int,
           \A i \in used : i \in Int /\ i < first, NEW n \in Nat
    PROVE  \E some : Nested(out \o CallEvents(first, n), some, {})
<1> DEFINE With(m) == used \cup (first .. first + m - 1)
           T == {m \in 0 .. n : Nested(out \o CallEvents(first, m), With(m), {})}
<1>1. 0 \in T
  <2>1. CallEvents(first, 0) = <<>>
    BY DEF CallEvents
  <2>2. out \o CallEvents(first, 0) = out
    BY <2>1
  <2>3. first .. first + 0 - 1 = {}
    OBVIOUS
  <2>4. With(0) = used
    BY <2>3
  <2>5. Nested(out \o CallEvents(first, 0), With(0), {})
    <3> HIDE DEF With
    <3> QED BY <2>2, <2>4, Zenon
  <2>6. 0 \in 0 .. n
    OBVIOUS
  <2> QED BY <2>5, <2>6
<1>2. ASSUME NEW m \in 1 .. n, m - 1 \in T PROVE m \in T
  <2> DEFINE i == first + (m - 1)
             o == <<"open", i, "call">>
             d == <<"delta", i, "call">>
             e == <<"close", i, "call">>
             some == CallEvents(first, m - 1)
             one == out \o some
             old == With(m - 1)
             new == old \cup {i}
  <2>1. i \in Int /\ m - 1 \in Nat /\ (m - 1) + 1 = m
    OBVIOUS
  <2>2. /\ o \in Quiet /\ d \in Quiet /\ e \in Quiet
        /\ o[1] = "open" /\ o[2] = i /\ d[1] = "delta" /\ d[2] = i /\ e[1] = "close" /\ e[2] = i
    BY <2>1, BlockEvents, BlockNames
  <2>3. CallEvents(first, m) = Append(Append(Append(some, o), d), e)
    BY <2>1, CallEventsNext
  <2>4. some \in Seq(Quiet)
    BY <2>1, CallEventsQuiet
  <2>5. i \notin old /\ With(m) = new
    <3>1. i \notin used
      BY <2>1
    <3>2. first .. first + m - 1 = (first .. first + (m - 1) - 1) \cup {i}
      OBVIOUS
    <3> QED BY <3>1, <3>2
  <2>6. Nested(one, old, {})
    BY <1>2
  <2> HIDE DEF i, o, d, e, some, With
  <2>7. out \o Append(Append(Append(some, o), d), e) = Append(Append(Append(one, o), d), e)
        /\ one \in Seq(Quiet)
    <3> DEFINE a == Append(some, o)
               b == Append(a, d)
    <3>0. o \in Quiet /\ d \in Quiet /\ e \in Quiet
      BY <2>2
    <3>1. \A s \in Seq(Quiet), x \in Quiet : /\ out \o Append(s, x) = Append(out \o s, x)
                                            /\ Append(s, x) \in Seq(Quiet)
      BY JoinAppend
    <3>2. a \in Seq(Quiet) /\ out \o a = Append(one, o) /\ one \in Seq(Quiet)
      BY <2>4, <3>0, <3>1
    <3> HIDE DEF a
    <3>3. b \in Seq(Quiet) /\ out \o b = Append(out \o a, d)
      BY <3>0, <3>1, <3>2
    <3> HIDE DEF b
    <3>4. out \o Append(b, e) = Append(out \o b, e)
      BY <3>0, <3>1, <3>3
    <3> QED BY <3>2, <3>3, <3>4 DEF a, b
  <2> HIDE DEF one, old
  <2>8. /\ Extends(o, old, {}, new, {i}) /\ Extends(d, new, {i}, new, {i})
        /\ Extends(e, new, {i}, new, {})
    BY <2>2, <2>5 DEF Extends
  <2> HIDE DEF new
  <2>9. Append(one, o) \in Seq(Quiet) /\ Append(Append(one, o), d) \in Seq(Quiet)
    BY <2>2, <2>7
  <2>10. Nested(Append(one, o), new, {i})
    BY <2>2, <2>6, <2>7, <2>8, NestedNext
  <2>11. Nested(Append(Append(one, o), d), new, {i})
    BY <2>2, <2>8, <2>9, <2>10, NestedNext
  <2>12. Nested(Append(Append(Append(one, o), d), e), new, {})
    BY <2>2, <2>8, <2>9, <2>11, NestedNext
  <2>13. Nested(out \o CallEvents(first, m), With(m), {})
    BY <2>3, <2>5, <2>7, <2>12
  <2> QED BY <2>13
<1> HIDE DEF T
<1>3. 0 .. n \subseteq T
  BY <1>1, <1>2, Upwards
<1>4. n \in T
  BY <1>3
<1> QED
  BY <1>4 DEF T

LEMMA ResponsesThinkingNests ==
    ASSUME NEW s, NEW c, QuietClient(c), NestedAt("responses", s, c), ~c.message
    PROVE  /\ NestedAt("responses", s, ResponsesThinking(c))
           /\ ~ResponsesThinking(c).message
<1> DEFINE d == ResponsesThinking(c)
           e == <<"open", 0, "thinking">>
           f == <<"delta", 0, "thinking">>
<1>1. c \in Clients /\ c.out \in Seq(Quiet)
  BY DEF QuietClient, Unmarked
<1>2. e \in Quiet /\ f \in Quiet /\ e[1] = "open" /\ e[2] = 0 /\ f[1] = "delta" /\ f[2] = 0
  BY BlockEvents, BlockNames, ZeroInt
<1> HIDE DEF e, f
<1>3. CASE c.thinking = "no"
  <2>1. d.out = c.out \o <<e, f>> /\ d.thinking = "open" /\ d.message = c.message
    BY <1>1, <1>3 DEF ResponsesThinking, Say, Clients, e, f
  <2> HIDE DEF d
  <2>2. /\ LiveBlocks("responses", s, c) = {} /\ UsedBlocks("responses", s, c) = {}
        /\ LiveBlocks("responses", s, d) = {0} /\ UsedBlocks("responses", s, d) = {0}
    BY <1>3, <2>1, ResponsesBlocks
  <2>3. Extends(e, {}, {}, {0}, {0}) /\ Extends(f, {0}, {0}, {0}, {0})
    BY <1>2 DEF Extends
  <2>4. /\ Extends(e, UsedBlocks("responses", s, c), LiveBlocks("responses", s, c), {0}, {0})
        /\ Extends(f, {0}, {0}, UsedBlocks("responses", s, d), LiveBlocks("responses", s, d))
    BY <2>2, <2>3
  <2>5. NestedAt("responses", s, d)
    <3>1. d.message => d.thinking # "open"
      BY <2>1
    <3> QED BY <1>2, <2>1, <2>4, <3>1, NestedAddTwo
  <2> QED BY <2>1, <2>5 DEF d
<1>4. CASE c.thinking = "open"
  <2>1. d.out = Append(c.out, f) /\ d.thinking = "open" /\ d.message = c.message
    <3>1. c.out \o <<f>> = Append(c.out, f)
      BY <1>1, <1>2
    <3> QED BY <1>1, <1>4, <3>1 DEF ResponsesThinking, Say, Clients, f
  <2> HIDE DEF d
  <2>2. /\ LiveBlocks("responses", s, c) = {0} /\ UsedBlocks("responses", s, c) = {0}
        /\ LiveBlocks("responses", s, d) = {0} /\ UsedBlocks("responses", s, d) = {0}
    BY <1>4, <2>1, ResponsesBlocks
  <2>3. Extends(f, {0}, {0}, {0}, {0})
    BY <1>2 DEF Extends
  <2>4. NestedAt("responses", s, d)
    BY <1>2, <2>1, <2>2, <2>3, NestedAdd
  <2> QED BY <2>1, <2>4 DEF d
<1>5. CASE c.thinking \notin {"no", "open"}
  BY <1>5 DEF ResponsesThinking
<1> QED
  BY <1>3, <1>4, <1>5

LEMMA ResponsesCloseNests ==
    ASSUME NEW s, NEW c, QuietClient(c), NestedAt("responses", s, c)
    PROVE  LET d == ResponsesCloseThinking(c)
           IN  NestedAt("responses", s, d) /\ d.thinking # "open" /\ d.message = c.message
<1> DEFINE d == ResponsesCloseThinking(c)
           e == <<"close", 0, "thinking">>
<1>1. c \in Clients /\ c.out \in Seq(Quiet)
  BY DEF QuietClient, Unmarked
<1>2. e \in Quiet /\ e[1] = "close" /\ e[2] = 0
  BY BlockEvents, BlockNames, ZeroInt
<1> HIDE DEF e
<1>3. CASE c.thinking = "open"
  <2>1. d.out = Append(c.out, e) /\ d.thinking = "closed" /\ d.message = c.message
    <3>1. c.out \o <<e>> = Append(c.out, e)
      BY <1>1, <1>2
    <3> QED BY <1>1, <1>3, <3>1 DEF ResponsesCloseThinking, Say, Clients, e
  <2> HIDE DEF d
  <2>2. ~c.message
    BY <1>3 DEF NestedAt
  <2>3. /\ LiveBlocks("responses", s, c) = {0} /\ UsedBlocks("responses", s, c) = {0}
        /\ LiveBlocks("responses", s, d) = {} /\ UsedBlocks("responses", s, d) = {0}
    BY <1>3, <2>1, <2>2, ResponsesBlocks
  <2>4. Extends(e, {0}, {0}, {0}, {})
    BY <1>2 DEF Extends
  <2>5. NestedAt("responses", s, d)
    BY <1>2, <2>1, <2>3, <2>4, NestedAdd
  <2> QED BY <2>1, <2>5 DEF d
<1>4. CASE c.thinking # "open"
  BY <1>4 DEF ResponsesCloseThinking
<1> QED
  BY <1>3, <1>4

LEMMA ResponsesDeltaNests ==
    ASSUME NEW s, NEW c, QuietClient(c), NestedAt("responses", s, c), c.thinking # "open",
           NEW chunk
    PROVE  NestedAt("responses", s, ResponsesDelta(c, chunk))
<1> DEFINE d == ResponsesDelta(c, chunk)
           i == ResponsesIndex(c)
           e == <<"open", i, "message">>
           f == <<"delta", i, "message">>
<1>1. c \in Clients /\ c.out \in Seq(Quiet)
  BY DEF QuietClient, Unmarked
<1>2. e \in Quiet /\ f \in Quiet /\ e[1] = "open" /\ e[2] = i /\ f[1] = "delta" /\ f[2] = i
  <2>1. i \in Int
    BY IndexType
  <2> QED BY <2>1, BlockEvents, BlockNames
<1> HIDE DEF e, f
<1>3. CASE chunk = <<>>
  BY <1>3 DEF ResponsesDelta
<1>4. CASE chunk # <<>> /\ c.message
  <2>1. /\ d.out = Append(c.out, f) /\ d.thinking = c.thinking /\ d.message
        /\ ResponsesIndex(d) = i
    <3>1. <<>> \o <<f>> = <<f>> /\ c.out \o <<f>> = Append(c.out, f)
      BY <1>1, <1>2
    <3> QED BY <1>1, <1>4, <3>1 DEF ResponsesDelta, Write, Say, Clients, f, ResponsesIndex
  <2> HIDE DEF d, i
  <2>2. /\ i \in LiveBlocks("responses", s, c)
        /\ LiveBlocks("responses", s, d) = LiveBlocks("responses", s, c)
        /\ UsedBlocks("responses", s, d) = UsedBlocks("responses", s, c)
    BY <1>4, <2>1, ResponsesBlocks DEF i
  <2>3. Extends(f, UsedBlocks("responses", s, c), LiveBlocks("responses", s, c),
                UsedBlocks("responses", s, d), LiveBlocks("responses", s, d))
    BY <1>2, <2>2 DEF Extends
  <2>4. NestedAt("responses", s, d)
    BY <1>2, <2>1, <2>3, NestedAdd
  <2> QED BY <2>4 DEF d
<1>5. CASE chunk # <<>> /\ ~c.message
  <2>1. /\ d.out = c.out \o <<e, f>> /\ d.thinking = c.thinking /\ d.message
        /\ ResponsesIndex(d) = i
    <3>1. <<e>> \o <<f>> = <<e, f>>
      BY <1>2, TwoEvents
    <3> QED BY <1>1, <1>5, <3>1 DEF ResponsesDelta, Write, Say, Clients, e, f, ResponsesIndex
  <2> DEFINE used == UsedBlocks("responses", s, c)
  <2> HIDE DEF d
  <2>2. /\ LiveBlocks("responses", s, c) = {} /\ i \notin used
        /\ LiveBlocks("responses", s, d) = {i} /\ UsedBlocks("responses", s, d) = used \cup {i}
    <3>1. /\ used = IF c.thinking = "no" THEN {} ELSE {0}
          /\ LiveBlocks("responses", s, c) = {} /\ LiveBlocks("responses", s, d) = {i}
      BY <1>5, <2>1, ResponsesBlocks
    <3>2. UsedBlocks("responses", s, d) = {i} \cup used
      BY <2>1, <3>1, ResponsesBlocks
    <3>3. i \notin used
      BY <3>1 DEF ResponsesIndex
    <3> QED BY <3>1, <3>2, <3>3
  <2> HIDE DEF used, i
  <2>3. Extends(e, used, {}, used \cup {i}, {i})
        /\ Extends(f, used \cup {i}, {i}, used \cup {i}, {i})
    BY <1>2, <2>2 DEF Extends
  <2>4. /\ Extends(e, UsedBlocks("responses", s, c), LiveBlocks("responses", s, c), used \cup {i}, {i})
        /\ Extends(f, used \cup {i}, {i}, UsedBlocks("responses", s, d), LiveBlocks("responses", s, d))
    BY <2>2, <2>3 DEF used
  <2>5. NestedAt("responses", s, d)
    <3>1. d.message => d.thinking # "open"
      BY <1>5, <2>1
    <3> QED BY <1>2, <2>1, <2>4, <3>1, NestedAddTwo
  <2> QED BY <2>5 DEF d
<1> QED
  BY <1>3, <1>4, <1>5

\* Calls on a client with no block open.
LEMMA CallsAfter ==
    ASSUME NEW s, NEW c, QuietClient(c), c.thinking # "open", NEW n \in Nat
    PROVE  /\ NestedAt("responses", s, c) => Called(ResponsesCalls(c, n))
           /\ NestedAt("messages", s, c) => Called(MessagesCalls(c, n))
<1>1. c \in Clients /\ c.out \in Seq(Quiet) /\ c.index \in Nat
  BY DEF QuietClient, Unmarked, Clients
<1>2. ASSUME NestedAt("responses", s, c), ~c.message PROVE Called(ResponsesCalls(c, n))
  <2> DEFINE i == ResponsesIndex(c)
             d == ResponsesCalls(c, n)
             used == UsedBlocks("responses", s, c)
  <2>1. used = (IF c.thinking = "no" THEN {} ELSE {0}) /\ LiveBlocks("responses", s, c) = {}
    BY <1>2, ResponsesBlocks
  <2>2. Nested(c.out, used, {})
    BY <1>2, <2>1 DEF NestedAt
  <2>3. i \in Int /\ \A k \in used : k \in Int /\ k < i
    BY <2>1 DEF ResponsesIndex
  <2>4. d.out = c.out \o CallEvents(i, n)
    BY <1>1 DEF ResponsesCalls, Say, Clients
  <2> HIDE DEF i, d, used
  <2>5. \E some : Nested(d.out, some, {})
    BY <1>1, <2>2, <2>3, <2>4, CallsNest
  <2> QED BY <2>5 DEF Called, d
<1>3. ASSUME NestedAt("messages", s, c), ~c.message PROVE Called(MessagesCalls(c, n))
  <2> DEFINE i == c.index
             d == MessagesCalls(c, n)
             used == UsedBlocks("messages", s, c)
  <2>1. used = 0 .. i - 1 /\ LiveBlocks("messages", s, c) = {}
    BY <1>3, MessagesBlocks
  <2>2. Nested(c.out, used, {})
    BY <1>3, <2>1 DEF NestedAt
  <2>3. i \in Int /\ \A k \in used : k \in Int /\ k < i
    BY <1>1, <2>1
  <2>4. d.out = c.out \o CallEvents(i, n)
    BY <1>1 DEF MessagesCalls, Say, Clients
  <2> HIDE DEF i, d, used
  <2>5. \E some : Nested(d.out, some, {})
    BY <1>1, <2>2, <2>3, <2>4, CallsNest
  <2> QED BY <2>5 DEF Called, d
<1>4. /\ ResponsesCalls(c, n).message = c.message
      /\ MessagesCalls(c, n).message = c.message
  BY <1>1 DEF ResponsesCalls, MessagesCalls, Say, Clients
<1> QED
  BY <1>2, <1>3, <1>4 DEF Called

LEMMA ResponsesTextNests ==
    ASSUME NEW s, NEW c, QuietClient(c), NestedAt("responses", s, c), ~c.hit,
           NEW text \in Texts, NEW tools \in BOOLEAN
    PROVE  /\ SoundAt("responses", s, ResponsesText(c, text, tools))
           /\ ResponsesText(c, text, tools).thinking # "open"
<1> DEFINE d == ResponsesCloseThinking(c)
           p == Passed(d, text, tools)
           e == [d EXCEPT !.sieve = p.sieve]
           calls == ResponsesCalls(e, p.calls)
<1>1. QuietClient(d) /\ NestedAt("responses", s, d) /\ d.thinking # "open" /\ ~d.hit
  BY ResponsesClosed, ResponsesCloseNests DEF SameText
<1>2. ResponsesText(c, text, tools) = IF p.hit THEN calls ELSE ResponsesDelta(e, p.safe)
  BY DEF ResponsesText
<1> HIDE DEF d
<1>3. p \in SieveResults
  BY <1>1, PassedType DEF QuietClient
<1> HIDE DEF p
<1>4. QuietClient(e) /\ SameBlocks(d, e) /\ p.sieve \in Sieves /\ ~e.hit
  <2>1. p.sieve \in Sieves
    BY <1>3 DEF SieveResults
  <2> QED BY <1>1, <2>1, SieveKept DEF QuietClient, Clients, SameBlocks
<1> HIDE DEF e
<1>5. NestedAt("responses", s, e) /\ e.thinking # "open"
  <2>1. "responses" \in BlockApis
    BY DEF BlockApis
  <2> QED BY <1>1, <1>4, <2>1, NestedSame DEF SameBlocks
<1>6. CASE p.hit
  <2>1. p.calls \in Nat
    BY <1>3 DEF SieveResults
  <2>2. calls.hit
    BY <1>4, <2>1, BlockCallsIs DEF CalledAfter
  <2>3. Called(calls)
    BY <1>4, <1>5, <2>1, CallsAfter
  <2>4. calls.thinking = e.thinking
    BY <1>4 DEF ResponsesCalls, Say, QuietClient, Clients
  <2> HIDE DEF calls
  <2> QED BY <1>2, <1>5, <1>6, <2>2, <2>3, <2>4 DEF SoundAt
<1>7. CASE ~p.hit
  <2> DEFINE f == ResponsesDelta(e, p.safe)
  <2>1. NestedAt("responses", s, f)
    BY <1>4, <1>5, ResponsesDeltaNests
  <2>2. f.hit = e.hit /\ f.thinking = e.thinking
    BY <1>4 DEF ResponsesDelta, Write, Say, QuietClient, Clients
  <2>3. ResponsesText(c, text, tools) = f
    BY <1>2, <1>7
  <2> HIDE DEF f
  <2> QED BY <1>4, <1>5, <2>1, <2>2, <2>3 DEF SoundAt
<1> QED
  BY <1>6, <1>7

LEMMA ResponsesMarkNests ==
    ASSUME NEW s, NEW c, QuietClient(c), NestedAt("responses", s, c), NEW at, NEW chunk
    PROVE  /\ NestedAt("responses", s, ResponsesMark(c, at))
           /\ c.message => NestedAt("responses", s, Write(c, chunk,
                                    << <<"delta", ResponsesIndex(c), "message">> >>))
<1> DEFINE d == ResponsesMark(c, at)
           i == ResponsesIndex(c)
           f == <<"delta", i, "message">>
           w == Write(c, chunk, <<f>>)
<1>1. c \in Clients /\ c.out \in Seq(Quiet)
  BY DEF QuietClient, Unmarked
<1>2. f \in Quiet /\ f[1] = "delta" /\ f[2] = i
  <2>1. i \in Int
    BY IndexType
  <2> QED BY <2>1, BlockEvents, BlockNames
<1> HIDE DEF f
<1>3. CASE ~c.message
  BY <1>3 DEF ResponsesMark
<1>4. CASE c.message
  <2>1. c.out \o <<f>> = Append(c.out, f)
    BY <1>1, <1>2
  <2>2. /\ d.out = Append(c.out, f) /\ d.thinking = c.thinking /\ d.message = c.message
        /\ w.out = Append(c.out, f) /\ w.thinking = c.thinking /\ w.message = c.message
    BY <1>1, <1>4, <2>1 DEF ResponsesMark, Write, Say, Clients, f
  <2> HIDE DEF d, w
  <2>3. ResponsesIndex(d) = i /\ ResponsesIndex(w) = i
    BY <2>2 DEF ResponsesIndex
  <2> HIDE DEF i
  <2> DEFINE used == UsedBlocks("responses", s, c)
             live == LiveBlocks("responses", s, c)
  <2>4. i \in live
    BY <1>4, ResponsesBlocks DEF i
  <2>5. /\ LiveBlocks("responses", s, d) = live /\ UsedBlocks("responses", s, d) = used
        /\ LiveBlocks("responses", s, w) = live /\ UsedBlocks("responses", s, w) = used
    <3>1. \A b : b.thinking = c.thinking /\ b.message = c.message /\ ResponsesIndex(b) = i
              => LiveBlocks("responses", s, b) = live
      BY ResponsesBlocks DEF i
    <3>2. LiveBlocks("responses", s, d) = live /\ LiveBlocks("responses", s, w) = live
      BY <2>2, <2>3, <3>1
    <3>3. /\ UsedBlocks("responses", s, d) = live \cup (IF c.thinking = "no" THEN {} ELSE {0})
          /\ UsedBlocks("responses", s, w) = live \cup (IF c.thinking = "no" THEN {} ELSE {0})
          /\ used = live \cup (IF c.thinking = "no" THEN {} ELSE {0})
      <4> HIDE DEF live
      <4> QED BY <2>2, <3>2, ResponsesBlocks DEF live
    <3> QED BY <3>2, <3>3
  <2> HIDE DEF used, live
  <2>6. Extends(f, used, live, used, live)
    BY <1>2, <2>4 DEF Extends
  <2>7. c.message => c.thinking # "open"
    BY DEF NestedAt
  <2>8. NestedAt("responses", s, d) /\ NestedAt("responses", s, w)
    BY <1>2, <2>2, <2>5, <2>6, <2>7, NestedAdd DEF used, live
  <2> QED BY <2>8 DEF d, w, i, f
<1> QED
  BY <1>3, <1>4

\* The final event and the end mark, after what closes the last block.
LEMMA FinalSaid ==
    ASSUME NEW c, QuietClient(c), NEW used, Nested(c.out, used, {}), NEW e \in Quiet,
           e[1] = "final"
    PROVE  BlocksWhole(Say(c, <<e, DoneEvent>>).out)
<1>1. c \in Clients /\ c.out \in Seq(Quiet)
  BY DEF QuietClient, Unmarked
<1>2. Say(c, <<e, DoneEvent>>).out = c.out \o <<e, DoneEvent>>
  BY <1>1 DEF Say, Clients
<1>3. c.out \o <<e, DoneEvent>> = Append(Append(c.out, e), DoneEvent)
  <2> DEFINE out == c.out
             done == DoneEvent
  <2>1. e \in SentEvents /\ done \in SentEvents /\ out \in Seq(SentEvents)
    <3>1. Quiet \subseteq SentEvents /\ done \in SentEvents
      BY DEF SentEvents
    <3> QED BY <1>1, <3>1
  <2> HIDE DEF out, done
  <2>2. out \o <<e, done>> = Append(Append(out, e), done)
    BY <2>1
  <2> QED BY <2>2 DEF out, done
<1>4. BlocksWhole(Append(Append(c.out, e), DoneEvent))
  BY <1>1, FinishedWhole
<1> QED
  BY <1>2, <1>3, <1>4

LEMMA FinalSaidTwo ==
    ASSUME NEW c, QuietClient(c), NEW used, NEW live, Nested(c.out, used, live),
           NEW a \in Quiet, NEW e \in Quiet, a[1] = "close", live = {a[2]}, e[1] = "final"
    PROVE  BlocksWhole(Say(c, <<a>> \o <<e, DoneEvent>>).out)
<1> DEFINE d == Say(c, <<a>>)
<1>1. QuietClient(d)
  <2>1. <<a>> \in Seq(Quiet)
    OBVIOUS
  <2> QED BY <2>1, QuietSaid
<1>2. c \in Clients /\ c.out \in Seq(Quiet)
  BY DEF QuietClient, Unmarked
<1>3. d.out = Append(c.out, a)
  <2>1. c.out \o <<a>> = Append(c.out, a)
    BY <1>2
  <2> QED BY <1>2, <2>1 DEF Say, Clients
<1>4. Nested(d.out, used, {})
  <2>1. Extends(a, used, live, used, {})
    BY DEF Extends
  <2> QED BY <1>2, <1>3, <2>1, NestedNext
<1>5. BlocksWhole(Say(d, <<e, DoneEvent>>).out)
  BY <1>1, <1>4, FinalSaid
<1>6. Say(d, <<e, DoneEvent>>).out = Say(c, <<a>> \o <<e, DoneEvent>>).out
  <2> DEFINE one == <<a>>
             two == <<e, DoneEvent>>
  <2>1. one \in Seq(SentEvents) /\ two \in Seq(SentEvents) /\ c.out \in Seq(SentEvents)
    <3>1. Quiet \subseteq SentEvents /\ DoneEvent \in SentEvents
      BY DEF SentEvents
    <3>2. a \in SentEvents /\ e \in SentEvents
      BY <3>1
    <3>3. one \in Seq(SentEvents) /\ two \in Seq(SentEvents)
      BY <3>1, <3>2
    <3> QED BY <1>2, <3>1, <3>3
  <2>2. /\ d.out = c.out \o one /\ Say(d, two).out = d.out \o two
        /\ Say(c, one \o two).out = c.out \o (one \o two)
    BY <1>1, <1>2 DEF Say, Clients, QuietClient
  <2> HIDE DEF one, two, d
  <2>3. c.out \o (one \o two) = (c.out \o one) \o two
    <3> DEFINE out == c.out
               Q == SentEvents
    <3>1. one \in Seq(Q) /\ two \in Seq(Q) /\ out \in Seq(Q)
      BY <2>1
    <3> HIDE DEF out, Q
    <3>2. out \o (one \o two) = (out \o one) \o two
      BY <3>1, AssociativeOf
    <3> QED BY <3>2 DEF out
  <2>4. Say(d, two).out = Say(c, one \o two).out
    BY <2>2, <2>3
  <2> QED BY <2>4 DEF one, two
<1> QED
  BY <1>5, <1>6

LEMMA MessagesThinkingNests ==
    ASSUME NEW s, NEW c, QuietClient(c), NestedAt("messages", s, c), ~c.message
    PROVE  /\ NestedAt("messages", s, MessagesThinking(c))
           /\ ~MessagesThinking(c).message
<1> DEFINE d == MessagesThinking(c)
           i == c.index
           e == <<"open", i, "thinking">>
           f == <<"delta", i, "thinking">>
           before == 0 .. i - 1
<1>1. c \in Clients /\ c.out \in Seq(Quiet) /\ i \in Nat /\ i \in Int
  BY DEF QuietClient, Unmarked, Clients
<1>2. e \in Quiet /\ f \in Quiet /\ e[1] = "open" /\ e[2] = i /\ f[1] = "delta" /\ f[2] = i
  BY <1>1, BlockEvents, BlockNames
<1>3. i \notin before
  BY <1>1
<1> HIDE DEF e, f
<1>4. CASE c.thinking = "no"
  <2>1. d.out = c.out \o <<e, f>> /\ d.thinking = "open" /\ d.message = c.message /\ d.index = i
    BY <1>1, <1>4 DEF MessagesThinking, Say, Clients, e, f
  <2> HIDE DEF d, i
  <2>2. /\ LiveBlocks("messages", s, c) = {} /\ UsedBlocks("messages", s, c) = before
        /\ LiveBlocks("messages", s, d) = {i} /\ UsedBlocks("messages", s, d) = before \cup {i}
    BY <1>4, <2>1, MessagesBlocks DEF i
  <2> HIDE DEF before
  <2>3. Extends(e, before, {}, before \cup {i}, {i})
        /\ Extends(f, before \cup {i}, {i}, before \cup {i}, {i})
    BY <1>2, <1>3 DEF Extends
  <2>4. /\ Extends(e, UsedBlocks("messages", s, c), LiveBlocks("messages", s, c), before \cup {i}, {i})
        /\ Extends(f, before \cup {i}, {i}, UsedBlocks("messages", s, d), LiveBlocks("messages", s, d))
    BY <2>2, <2>3
  <2>5. NestedAt("messages", s, d)
    <3>1. d.message => d.thinking # "open"
      BY <2>1
    <3> QED BY <1>2, <2>1, <2>4, <3>1, NestedAddTwo
  <2> QED BY <2>1, <2>5 DEF d
<1>5. CASE c.thinking = "open"
  <2>1. d.out = Append(c.out, f) /\ d.thinking = "open" /\ d.message = c.message /\ d.index = i
    <3>1. c.out \o <<f>> = Append(c.out, f)
      BY <1>1, <1>2
    <3> QED BY <1>1, <1>5, <3>1 DEF MessagesThinking, Say, Clients, f
  <2> HIDE DEF d, i
  <2>2. /\ LiveBlocks("messages", s, c) = {i} /\ UsedBlocks("messages", s, c) = {i} \cup before
        /\ LiveBlocks("messages", s, d) = {i} /\ UsedBlocks("messages", s, d) = {i} \cup before
    BY <1>5, <2>1, MessagesBlocks DEF i
  <2> HIDE DEF before
  <2>3. Extends(f, {i} \cup before, {i}, {i} \cup before, {i})
    BY <1>2 DEF Extends
  <2>4. NestedAt("messages", s, d)
    BY <1>2, <2>1, <2>2, <2>3, NestedAdd
  <2> QED BY <2>1, <2>4 DEF d
<1>6. CASE c.thinking \notin {"no", "open"}
  BY <1>6 DEF MessagesThinking
<1> QED
  BY <1>4, <1>5, <1>6

LEMMA MessagesCloseNests ==
    ASSUME NEW s, NEW c, QuietClient(c), NestedAt("messages", s, c), c.thinking = "open"
    PROVE  LET d == MessagesClose([c EXCEPT !.thinking = "closed"], "thinking")
               w == MessagesClose(c, "thinking")
           IN  /\ NestedAt("messages", s, d) /\ d.thinking = "closed" /\ ~d.message
               /\ ~w.message /\ w.out = d.out
<1> DEFINE d == MessagesClose([c EXCEPT !.thinking = "closed"], "thinking")
           w == MessagesClose(c, "thinking")
           i == c.index
           e == <<"close", i, "thinking">>
           before == 0 .. i - 1
<1>1. c \in Clients /\ c.out \in Seq(Quiet) /\ i \in Nat /\ i \in Int
  BY DEF QuietClient, Unmarked, Clients
<1>2. e \in Quiet /\ e[1] = "close" /\ e[2] = i
  BY <1>1, BlockEvents, BlockNames
<1> HIDE DEF e
<1>3. ~c.message
  BY DEF NestedAt
<1>4. /\ d.out = Append(c.out, e) /\ d.thinking = "closed" /\ d.message = c.message
      /\ d.index = i + 1 /\ w.out = Append(c.out, e) /\ w.message = c.message
  <2>1. c.out \o <<e>> = Append(c.out, e)
    BY <1>1, <1>2
  <2> QED BY <1>1, <2>1 DEF MessagesClose, Say, Clients, e
<1> HIDE DEF d, w
<1>5. 0 .. (i + 1) - 1 = {i} \cup before /\ i \notin before
  BY <1>1
<1>6. /\ LiveBlocks("messages", s, c) = {i} /\ UsedBlocks("messages", s, c) = {i} \cup before
      /\ LiveBlocks("messages", s, d) = {} /\ UsedBlocks("messages", s, d) = {i} \cup before
  <2>1. LiveBlocks("messages", s, c) = {i} /\ UsedBlocks("messages", s, c) = {i} \cup before
    BY MessagesBlocks
  <2>2. LiveBlocks("messages", s, d) = {} /\ UsedBlocks("messages", s, d) = 0 .. (i + 1) - 1
    <3> HIDE DEF i
    <3> QED BY <1>3, <1>4, MessagesBlocks
  <2> HIDE DEF i, before
  <2> QED BY <1>5, <2>1, <2>2
<1> HIDE DEF before, i
<1>7. Extends(e, {i} \cup before, {i}, {i} \cup before, {})
  BY <1>2 DEF Extends
<1>8. NestedAt("messages", s, d)
  BY <1>2, <1>3, <1>4, <1>6, <1>7, NestedAdd
<1> QED
  BY <1>3, <1>4, <1>8 DEF d, w

LEMMA MessagesDeltaNests ==
    ASSUME NEW s, NEW c, QuietClient(c), NestedAt("messages", s, c), c.thinking # "open",
           NEW chunk
    PROVE  NestedAt("messages", s, MessagesDelta(c, chunk))
<1> DEFINE d == MessagesDelta(c, chunk)
           i == c.index
           e == <<"open", i, "message">>
           f == <<"delta", i, "message">>
           before == 0 .. i - 1
<1>1. c \in Clients /\ c.out \in Seq(Quiet) /\ i \in Nat /\ i \in Int
  BY DEF QuietClient, Unmarked, Clients
<1>2. e \in Quiet /\ f \in Quiet /\ e[1] = "open" /\ e[2] = i /\ f[1] = "delta" /\ f[2] = i
  BY <1>1, BlockEvents, BlockNames
<1> HIDE DEF e, f
<1>3. i \notin before
  BY <1>1
<1>4. CASE chunk = <<>>
  BY <1>4 DEF MessagesDelta
<1>5. CASE chunk # <<>> /\ c.message
  <2>1. d.out = Append(c.out, f) /\ d.thinking = c.thinking /\ d.message /\ d.index = i
    <3>1. <<>> \o <<f>> = <<f>> /\ c.out \o <<f>> = Append(c.out, f)
      BY <1>1, <1>2
    <3> QED BY <1>1, <1>5, <3>1 DEF MessagesDelta, Write, Say, Clients, f
  <2> HIDE DEF d, i
  <2>2. /\ LiveBlocks("messages", s, c) = {i} /\ UsedBlocks("messages", s, c) = {i} \cup before
        /\ LiveBlocks("messages", s, d) = {i} /\ UsedBlocks("messages", s, d) = {i} \cup before
    BY <1>5, <2>1, MessagesBlocks DEF i
  <2> HIDE DEF before
  <2>3. Extends(f, {i} \cup before, {i}, {i} \cup before, {i})
    BY <1>2 DEF Extends
  <2>4. NestedAt("messages", s, d)
    BY <1>2, <2>1, <2>2, <2>3, NestedAdd
  <2> QED BY <2>4 DEF d
<1>6. CASE chunk # <<>> /\ ~c.message
  <2>1. d.out = c.out \o <<e, f>> /\ d.thinking = c.thinking /\ d.message /\ d.index = i
    <3>1. <<e>> \o <<f>> = <<e, f>>
      BY <1>2, TwoEvents
    <3> QED BY <1>1, <1>6, <3>1 DEF MessagesDelta, Write, Say, Clients, e, f
  <2> HIDE DEF d, i
  <2>2. /\ LiveBlocks("messages", s, c) = {} /\ UsedBlocks("messages", s, c) = before
        /\ LiveBlocks("messages", s, d) = {i} /\ UsedBlocks("messages", s, d) = before \cup {i}
    BY <1>6, <2>1, MessagesBlocks DEF i
  <2> HIDE DEF before
  <2>3. Extends(e, before, {}, before \cup {i}, {i})
        /\ Extends(f, before \cup {i}, {i}, before \cup {i}, {i})
    BY <1>2, <1>3 DEF Extends
  <2>4. /\ Extends(e, UsedBlocks("messages", s, c), LiveBlocks("messages", s, c), before \cup {i}, {i})
        /\ Extends(f, before \cup {i}, {i}, UsedBlocks("messages", s, d), LiveBlocks("messages", s, d))
    BY <2>2, <2>3
  <2>5. NestedAt("messages", s, d)
    <3>1. d.message => d.thinking # "open"
      BY <1>6, <2>1
    <3> QED BY <1>2, <2>1, <2>4, <3>1, NestedAddTwo
  <2> QED BY <2>5 DEF d
<1> QED
  BY <1>4, <1>5, <1>6

\* Text written into a message that is open.
LEMMA MessagesWriteNests ==
    ASSUME NEW s, NEW c, QuietClient(c), NestedAt("messages", s, c), c.message, NEW chunk
    PROVE  NestedAt("messages", s, Write(c, chunk, << <<"delta", c.index, "message">> >>))
<1> DEFINE i == c.index
           f == <<"delta", i, "message">>
           w == Write(c, chunk, <<f>>)
           before == 0 .. i - 1
<1>1. c \in Clients /\ c.out \in Seq(Quiet) /\ i \in Int
  BY DEF QuietClient, Unmarked, Clients
<1>2. f \in Quiet /\ f[1] = "delta" /\ f[2] = i
  BY <1>1, BlockEvents, BlockNames
<1> HIDE DEF f
<1>3. w.out = Append(c.out, f) /\ w.thinking = c.thinking /\ w.message /\ w.index = i
  <2>1. c.out \o <<f>> = Append(c.out, f)
    BY <1>1, <1>2
  <2> QED BY <1>1, <2>1 DEF Write, Say, Clients
<1> HIDE DEF w, i
<1>4. /\ LiveBlocks("messages", s, c) = {i} /\ UsedBlocks("messages", s, c) = {i} \cup before
      /\ LiveBlocks("messages", s, w) = {i} /\ UsedBlocks("messages", s, w) = {i} \cup before
  BY <1>3, MessagesBlocks DEF i
<1> HIDE DEF before
<1>5. Extends(f, {i} \cup before, {i}, {i} \cup before, {i})
  BY <1>2 DEF Extends
<1>6. c.thinking # "open"
  BY DEF NestedAt
<1>7. NestedAt("messages", s, w)
  BY <1>2, <1>3, <1>4, <1>5, <1>6, NestedAdd
<1> QED
  BY <1>7 DEF w, f, i

LEMMA MessagesTextNests ==
    ASSUME NEW s, NEW c, QuietClient(c), NestedAt("messages", s, c), ~c.hit,
           NEW text \in Texts, NEW tools \in BOOLEAN
    PROVE  /\ SoundAt("messages", s, MessagesText(c, text, tools))
           /\ MessagesText(c, text, tools).thinking # "open"
<1> DEFINE b == [c EXCEPT !.thinking = "closed"]
           d == IF c.thinking = "open" THEN MessagesClose(b, "thinking") ELSE c
           p == Passed(d, text, tools)
           e == [d EXCEPT !.sieve = p.sieve]
           calls == MessagesCalls(e, p.calls)
<1>1. QuietClient(d) /\ NestedAt("messages", s, d) /\ d.thinking # "open" /\ ~d.hit
  <2>1. QuietClient(b) /\ SameText(c, b)
    <3>1. "closed" \in {"no", "open", "closed"} /\ 0 \in Nat /\ TRUE \in BOOLEAN
      OBVIOUS
    <3> QED BY <3>1, Adjusted
  <2>2. CASE c.thinking = "open"
    <3>1. d = MessagesClose(b, "thinking")
      BY <2>2
    <3>2. NestedAt("messages", s, MessagesClose(b, "thinking"))
          /\ MessagesClose(b, "thinking").thinking = "closed"
      BY <2>2, MessagesCloseNests
    <3> HIDE DEF b, d
    <3> QED BY <2>1, <3>1, <3>2, MessagesCloseIs, BlockNames DEF SameText
  <2>3. CASE c.thinking # "open"
    BY <2>3
  <2> QED BY <2>2, <2>3
<1>2. MessagesText(c, text, tools) = IF p.hit THEN calls ELSE MessagesDelta(e, p.safe)
  BY DEF MessagesText
<1> HIDE DEF d
<1>3. p \in SieveResults
  BY <1>1, PassedType DEF QuietClient
<1> HIDE DEF p
<1>4. QuietClient(e) /\ SameBlocks(d, e) /\ p.sieve \in Sieves /\ ~e.hit
  <2>1. p.sieve \in Sieves
    BY <1>3 DEF SieveResults
  <2> QED BY <1>1, <2>1, SieveKept DEF QuietClient, Clients, SameBlocks
<1> HIDE DEF e
<1>5. NestedAt("messages", s, e) /\ e.thinking # "open"
  <2>1. "messages" \in BlockApis
    BY DEF BlockApis
  <2> QED BY <1>1, <1>4, <2>1, NestedSame DEF SameBlocks
<1>6. CASE p.hit
  <2>1. p.calls \in Nat
    BY <1>3 DEF SieveResults
  <2>2. calls.hit
    BY <1>4, <2>1, BlockCallsIs DEF CalledAfter
  <2>3. Called(calls)
    BY <1>4, <1>5, <2>1, CallsAfter
  <2>4. calls.thinking = e.thinking
    BY <1>4 DEF MessagesCalls, Say, QuietClient, Clients
  <2> HIDE DEF calls
  <2> QED BY <1>2, <1>5, <1>6, <2>2, <2>3, <2>4 DEF SoundAt
<1>7. CASE ~p.hit
  <2> DEFINE f == MessagesDelta(e, p.safe)
  <2>1. NestedAt("messages", s, f)
    BY <1>4, <1>5, MessagesDeltaNests
  <2>2. f.hit = e.hit /\ f.thinking = e.thinking
    BY <1>4 DEF MessagesDelta, Write, Say, QuietClient, Clients
  <2>3. MessagesText(c, text, tools) = f
    BY <1>2, <1>7
  <2> HIDE DEF f
  <2> QED BY <1>4, <1>5, <2>1, <2>2, <2>3 DEF SoundAt
<1> QED
  BY <1>6, <1>7

\* Thoughts come before the text and not after it.
LEMMA AppendedKeeps ==
    ASSUME NEW a \in Adapters, NEW agent \in Names, NEW lines \in Seq(LineRecords)
    PROVE  Appended(a, agent, lines).adapter.started = a.started
<1>1. PICK f : Appending(a, agent, lines, f)
  BY AppendedRuns
<1> DEFINE N == Len(lines)
           T == {n \in 0 .. N : f[n].adapter.started = a.started}
<1>2. N \in Nat
  OBVIOUS
<1>3. 0 \in T
  <2>1. f[0].adapter = a
    BY <1>1 DEF Appending
  <2> QED BY <1>2, <2>1
<1>4. ASSUME NEW n \in 1 .. N, n - 1 \in T PROVE n \in T
  <2>1. f[n] = AppendReasoning(f[n - 1], <<agent, lines[n]>>) /\ f[n - 1] \in Readings(a.text)
    BY <1>1, <1>2 DEF Appending
  <2>2. f[n].adapter.started = f[n - 1].adapter.started
    BY <2>1 DEF AppendReasoning, Readings, Adapters
  <2> QED BY <1>2, <1>4, <2>2
<1>5. 0 .. N \subseteq T
  <2> HIDE DEF T, N
  <2> QED BY <1>2, <1>3, <1>4, Upwards
<1>6. f[N].adapter.started = a.started
  BY <1>2, <1>5
<1> QED
  BY <1>1, <1>6 DEF Appending

\* Text events come from an adapter that has started, thoughts from one that has
\* not, and an adapter that has started stays so.
InTurn(a, fed) ==
    /\ a.started => fed.adapter.started
    /\ \A i \in DOMAIN fed.events :
           /\ fed.events[i].ev = "text" => fed.adapter.started
           /\ fed.events[i].ev = "thinking" => ~fed.adapter.started

LEMMA ThoughtInTurn ==
    ASSUME NEW a \in Adapters, NEW frame, frame.line \in LineRecords, frame.agent \in Names,
           frame.kind \in {"think", "tool"}
    PROVE  InTurn(a, OnThought(a, frame, FALSE))
<1> DEFINE fed == OnThought(a, frame, FALSE)
<1>1. CASE a.started /\ frame.kind = "think"
  <2>1. fed.events = <<>> /\ fed.adapter.started = a.started
    BY <1>1 DEF OnThought, Adapters
  <2> HIDE DEF fed
  <2>2. InTurn(a, fed)
    BY <2>1 DEF InTurn
  <2> QED BY <2>2 DEF fed
<1>2. CASE a.started /\ frame.kind = "tool"
  <2>1. fed.events = <<>> /\ fed.adapter.started = a.started
    BY <1>2 DEF OnThought
  <2> HIDE DEF fed
  <2>2. InTurn(a, fed)
    BY <2>1 DEF InTurn
  <2> QED BY <2>2 DEF fed
<1>3. CASE ~a.started
  <2> DEFINE header == <<frame.agent, Title("agent")>>
             b == [a EXCEPT !.agent = IF frame.agent = "" THEN @ ELSE frame.agent]
             h == [b EXCEPT !.thoughts = Append(@, header)]
             line == <<frame.line>>
             r == Appended(b, frame.agent, line)
             d == Appended(h, frame.agent, line)
             headed == [d EXCEPT !.events = <<Thought(header)>> \o @]
  <2>1. b \in Adapters /\ b.started = a.started
    BY DEF Adapters
  <2>2. header \in Said
    <3>1. "agent" \in Names
      BY DEF Names
    <3> QED BY <3>1, TitleType DEF Said
  <2>3. h \in Adapters /\ h.started = a.started
    <3>1. Append(b.thoughts, header) \in Seq(Said)
      <4>1. b.thoughts \in Seq(Said)
        <5> HIDE DEF b
        <5> QED BY <2>1 DEF Adapters
      <4> HIDE DEF b, header
      <4> QED BY <2>2, <4>1
    <3> HIDE DEF b, header
    <3> QED BY <2>1, <3>1 DEF Adapters
  <2>4. line \in Seq(LineRecords)
    OBVIOUS
  <2>5. /\ r \in Readings(b.text) /\ r.adapter.started = a.started
        /\ d \in Readings(h.text) /\ d.adapter.started = a.started
    <3> HIDE DEF b, h, line
    <3> QED BY <2>1, <2>3, <2>4, AppendedType, AppendedKeeps
  <2>6. Thought(header) \in Thinkings
    <3> HIDE DEF header
    <3> QED BY <2>2 DEF Thought, Thinkings
  <2>7. fed \in {r, headed}
    BY <1>3 DEF OnThought, Detailed
  <2> DEFINE first == <<Thought(header)>>
  <2>8. first \in Seq(Thinkings)
    <3> HIDE DEF header
    <3> QED BY <2>6
  <2> HIDE DEF header, b, h, line, r, d, first, fed
  <2>9. /\ headed.adapter = d.adapter /\ headed.events = first \o d.events
        /\ d.events \in Seq(Thinkings) /\ r.events \in Seq(Thinkings)
    BY <2>5 DEF Readings, first
  <2>10. headed.events \in Seq(Thinkings)
    BY <2>8, <2>9
  <2>11. fed.events \in Seq(Thinkings) /\ fed.adapter.started = a.started
    <3> HIDE DEF headed
    <3> QED BY <2>5, <2>7, <2>9, <2>10
  <2>12. \A i \in DOMAIN fed.events : fed.events[i].ev = "thinking"
    <3>1. \A i \in DOMAIN fed.events : fed.events[i] \in Thinkings
      BY <2>11
    <3> QED BY <3>1 DEF Thinkings
  <2>13. InTurn(a, fed)
    BY <1>3, <2>11, <2>12 DEF InTurn
  <2> QED BY <2>13 DEF fed
<1> QED
  BY <1>1, <1>2, <1>3

LEMMA TextInTurn ==
    ASSUME NEW a \in Adapters, NEW frame, frame.text \in Texts
    PROVE  InTurn(a, OnText(a, frame))
<1> DEFINE fed == OnText(a, frame)
<1>1. fed.adapter.started = TRUE
  BY DEF OnText, Adapters
<1>2. PICK text, anns : Annotated(a, text, anns, fed)
  BY OnTextIs
<1> HIDE DEF fed
<1>3. \A i \in DOMAIN fed.events : fed.events[i].ev # "thinking"
  <2> DEFINE first == [ev |-> "text", text |-> text]
             Q == RelayEvents \ Thinkings
  <2>1. /\ text \in Texts /\ anns \in Seq(Annotations)
        /\ fed.events = IF text = <<>> THEN <<>> ELSE <<first>> \o anns
    BY <1>2 DEF Annotated
  <2>2. first \in Q /\ Annotations \subseteq Q
    BY <2>1 DEF RelayEvents, Thinkings, Annotations
  <2> HIDE DEF first
  <2>3. anns \in Seq(Q) /\ <<first>> \in Seq(Q)
    <3> HIDE DEF Q
    <3> QED BY <2>1, <2>2
  <2>4. fed.events \in Seq(Q)
    <3> HIDE DEF Q
    <3>1. <<first>> \o anns \in Seq(Q) /\ <<>> \in Seq(Q)
      BY <2>3
    <3> QED BY <2>1, <3>1
  <2>5. \A i \in DOMAIN fed.events : fed.events[i] \in Q
    <3> HIDE DEF Q
    <3> QED BY <2>4
  <2> QED BY <2>5 DEF RelayEvents, Thinkings
<1>4. InTurn(a, fed)
  BY <1>1, <1>3 DEF InTurn
<1> QED
  BY <1>4 DEF fed

LEMMA FeedInTurn ==
    ASSUME NEW a \in Adapters, NEW f \in Frames
    PROVE  InTurn(a, AdapterFeed(a, f, FALSE))
<1>1. CASE f.kind \in {"think", "tool"}
  <2>1. f.line \in LineRecords /\ f.agent \in Names
    BY <1>1, LinesAreRecords DEF Frames, Names
  <2> QED BY <1>1, <2>1, ThoughtInTurn DEF AdapterFeed
<1>2. CASE f.kind = "text"
  <2>1. f.text \in Texts
    BY <1>2 DEF Frames, Texts
  <2> QED BY <1>2, <2>1, TextInTurn DEF AdapterFeed
<1> DEFINE fed == AdapterFeed(a, f, FALSE)
<1>3. CASE f.kind \in {"image", "source", "stop"}
  <2> DEFINE image == [ev |-> "image"]
             stop == [ev |-> "soft_stop"]
  <2>1. fed.events \in {<<>>, <<image>>, <<stop>>} /\ fed.adapter.started = a.started
    <3>1. CASE f.kind = "image"
      BY <3>1 DEF AdapterFeed, Adapters
    <3>2. CASE f.kind = "source"
      BY <3>2 DEF AdapterFeed, Adapters
    <3>3. CASE f.kind = "stop"
      BY <3>3 DEF AdapterFeed, OnStop
    <3> QED BY <1>3, <3>1, <3>2, <3>3
  <2>2. image.ev = "image" /\ stop.ev = "soft_stop"
    OBVIOUS
  <2> HIDE DEF fed, image, stop
  <2>3. \A i \in DOMAIN fed.events : fed.events[i] \in {image, stop}
    BY <2>1
  <2>4. InTurn(a, fed)
    BY <2>1, <2>2, <2>3 DEF InTurn
  <2> QED BY <2>4 DEF fed
<1> QED
  BY <1>1, <1>2, <1>3 DEF Frames

\* The endpoints with blocks.
LEMMA BlockApiIs ==
    ASSUME RequestIs, Api \in BlockApis
    PROVE  /\ Api \in {"responses", "messages", "console_responses", "console_messages"}
           /\ Console <=> Api \in {"console_responses", "console_messages"}
           /\ Api # "chat" /\ Api # "console_chat"
  BY ApiIs DEF BlockApis

LEMMA NestedStage ==
    ASSUME NEW api \in BlockApis, NEW s, NEW t, s # "open", t # "open", NEW c,
           NestedAt(api, s, c)
    PROVE  NestedAt(api, t, c)
<1>1. LiveBlocks(api, t, c) = LiveBlocks(api, s, c)
  BY DEF LiveBlocks
<1>2. UsedBlocks(api, t, c) = UsedBlocks(api, s, c)
  BY <1>1 DEF UsedBlocks
<1> QED
  BY <1>1, <1>2 DEF NestedAt

LEMMA SoundStage ==
    ASSUME NEW api \in BlockApis, NEW s, NEW t, s # "open", t # "open", NEW c,
           SoundAt(api, s, c)
    PROVE  SoundAt(api, t, c)
  BY NestedStage DEF SoundAt

\* Nothing is written yet.
LEMMA NestedNew ==
    ASSUME NEW api \in BlockApis
    PROVE  NestedAt(api, "open", NewClient) /\ SoundAt(api, "open", NewClient)
<1> DEFINE c == NewClient
<1>1. c.out = <<>> /\ c.thinking = "no" /\ ~c.message /\ c.index = 0
  BY DEF NewClient
<1> HIDE DEF c
<1>2. 0 .. c.index - 1 = {}
  BY <1>1
<1>3. LiveBlocks(api, "open", c) = {} /\ UsedBlocks(api, "open", c) = {}
  <2>1. CASE api = "responses"
    BY <1>1, <2>1, ResponsesBlocks
  <2>2. CASE api = "messages"
    BY <1>1, <1>2, <2>2, MessagesBlocks
  <2>3. CASE api \in {"console_responses", "console_messages"}
    BY <2>3, ConsoleBlocks
  <2> QED BY <2>1, <2>2, <2>3 DEF BlockApis
<1>4. NestedAt(api, "open", c)
  BY <1>1, <1>3, NestedNothing DEF NestedAt
<1>5. ~c.hit
  BY DEF c, NewClient
<1> QED
  BY <1>4, <1>5 DEF c, SoundAt

LEMMA OpeningNests ==
    ASSUME RequestIs, Api \in BlockApis, NEW c, QuietClient(c), NestedAt(Api, "open", c)
    PROVE  NestedAt(Api, "connect", Say(c, Opening))
<1> DEFINE none == ""
           api == Api
           start == <<"start", 0, none>>
           first == <<"open", 0, "message">>
           d == Say(c, Opening)
<1>1. none \in Blocks
  BY NoBlockName
<1>2. api \in BlockApis /\ (Console <=> api \in {"console_responses", "console_messages"})
  BY BlockApiIs
<1>3. Opening = IF Console THEN <<start, first>> ELSE <<start>>
  BY BlockApiIs DEF Opening, ConsoleOpening
<1>4. c \in Clients /\ c.out \in Seq(Quiet)
  BY DEF QuietClient, Unmarked
<1>5. NestedAt(api, "open", c)
  OBVIOUS
<1> HIDE DEF none, api
<1>6. start \in Quiet /\ first \in Quiet /\ start[1] = "start" /\ first[1] = "open" /\ first[2] = 0
  BY <1>1, BlockNames DEF Quiet
<1> HIDE DEF start, first
<1>7. d.out = c.out \o Opening /\ d.thinking = c.thinking /\ d.message = c.message
      /\ d.index = c.index
  BY <1>4 DEF Say, Clients
<1> HIDE DEF d
<1>8. CASE ~Console
  <2>1. d.out = Append(c.out, start)
    <3>1. c.out \o <<start>> = Append(c.out, start)
      BY <1>4, <1>6
    <3> QED BY <1>3, <1>7, <1>8, <3>1
  <2>2. LiveBlocks(api, "open", d) = LiveBlocks(api, "open", c)
        /\ UsedBlocks(api, "open", d) = UsedBlocks(api, "open", c)
    <3>1. CASE api = "responses"
      <4>1. ResponsesIndex(d) = ResponsesIndex(c)
        BY <1>7 DEF ResponsesIndex
      <4>2. LiveBlocks("responses", "open", d) = LiveBlocks("responses", "open", c)
        BY <1>7, <4>1, ResponsesBlocks
      <4>3. UsedBlocks("responses", "open", d) = UsedBlocks("responses", "open", c)
        BY <1>7, <4>2, ResponsesBlocks
      <4> QED BY <3>1, <4>2, <4>3
    <3>2. CASE api = "messages"
      BY <1>7, <3>2, MessagesBlocks
    <3> QED BY <1>2, <1>8, <3>1, <3>2 DEF BlockApis
  <2>3. Extends(start, UsedBlocks(api, "open", c), LiveBlocks(api, "open", c),
                UsedBlocks(api, "open", d), LiveBlocks(api, "open", d))
    BY <1>6, <2>2 DEF Extends
  <2>4. NestedAt(api, "open", d)
    <3>1. d.message => d.thinking # "open"
      BY <1>5, <1>7 DEF NestedAt
    <3> QED BY <1>5, <1>6, <2>1, <2>3, <3>1, NestedAdd
  <2>5. /\ LiveBlocks(api, "connect", d) = LiveBlocks(api, "open", d)
        /\ UsedBlocks(api, "connect", d) = UsedBlocks(api, "open", d)
    <3>1. CASE api = "responses"
      BY <3>1, ResponsesBlocks
    <3>2. CASE api = "messages"
      BY <3>2, MessagesBlocks
    <3> QED BY <1>2, <1>8, <3>1, <3>2 DEF BlockApis
  <2> QED BY <2>4, <2>5 DEF NestedAt, d, api
<1>9. CASE Console
  <2>1. d.out = Append(Append(c.out, start), first) /\ Append(c.out, start) \in Seq(Quiet)
    BY <1>3, <1>4, <1>6, <1>7, <1>9, NestedMore
  <2>2. /\ LiveBlocks(api, "open", c) = {} /\ UsedBlocks(api, "open", c) = {}
        /\ LiveBlocks(api, "connect", d) = {0} /\ UsedBlocks(api, "connect", d) = {0}
    BY <1>2, <1>9, ConsoleBlocks
  <2>3. Nested(c.out, {}, {})
    BY <1>5, <2>2 DEF NestedAt
  <2>4. Extends(start, {}, {}, {}, {}) /\ Extends(first, {}, {}, {0}, {0})
    BY <1>6 DEF Extends
  <2>5. Nested(Append(c.out, start), {}, {})
    BY <1>4, <1>6, <2>3, <2>4, NestedNext
  <2>6. Nested(Append(Append(c.out, start), first), {0}, {0})
    BY <1>6, <2>1, <2>4, <2>5, NestedNext
  <2> QED BY <1>5, <1>7, <2>1, <2>2, <2>6 DEF NestedAt, d, api
<1> QED
  BY <1>8, <1>9

LEMMA ConsoleNests ==
    ASSUME NEW api \in {"console_responses", "console_messages"}, NEW s, s # "open",
           NEW c, QuietClient(c), NestedAt(api, s, c), NEW text
    PROVE  NestedAt(api, s, ConsoleDelta(c, text, api))
<1> DEFINE d == ConsoleDelta(c, text, api)
           f == <<"delta", 0, "message">>
<1>1. c \in Clients /\ c.out \in Seq(Quiet)
  BY DEF QuietClient, Unmarked
<1>2. f \in Quiet /\ f[1] = "delta" /\ f[2] = 0
  BY BlockEvents, BlockNames, ZeroInt
<1> HIDE DEF f
<1>3. d.out = Append(c.out, f) /\ d.thinking = c.thinking /\ d.message = c.message
  <2>1. c.out \o <<f>> = Append(c.out, f)
    BY <1>1, <1>2
  <2>2. d = Write(c, text, <<f>>)
    BY DEF ConsoleDelta, f
  <2> HIDE DEF d
  <2> QED BY <1>1, <2>1, <2>2 DEF Write, Say, Clients
<1> HIDE DEF d
<1>4. /\ LiveBlocks(api, s, c) = {0} /\ UsedBlocks(api, s, c) = {0}
      /\ LiveBlocks(api, s, d) = {0} /\ UsedBlocks(api, s, d) = {0}
  BY ConsoleBlocks
<1>5. Extends(f, {0}, {0}, {0}, {0})
  BY <1>2 DEF Extends
<1>6. d.message => d.thinking # "open"
  BY <1>3 DEF NestedAt
<1>7. NestedAt(api, s, d)
  BY <1>2, <1>3, <1>4, <1>5, <1>6, NestedAdd
<1> QED
  BY <1>7 DEF d

\* What an event of the adapter does to the blocks.
LEMMA ThinkingNests ==
    ASSUME RequestIs, Api \in BlockApis, ~Console, NEW s, NEW c, QuietClient(c),
           NestedAt(Api, s, c), ~c.message
    PROVE  NestedAt(Api, s, OnThinkingEvent(c)) /\ ~OnThinkingEvent(c).message
<1>1. Api = "responses" \/ Api = "messages"
  BY BlockApiIs
<1>2. CASE ~scenario.think
  BY <1>2, ApiIs DEF OnThinkingEvent
<1>3. CASE scenario.think /\ Api = "responses"
  <2>1. OnThinkingEvent(c) = ResponsesThinking(c)
    BY <1>3 DEF OnThinkingEvent
  <2> QED BY <1>3, <2>1, ResponsesThinkingNests
<1>4. CASE scenario.think /\ Api = "messages"
  <2>1. OnThinkingEvent(c) = MessagesThinking(c)
    BY <1>4 DEF OnThinkingEvent
  <2> QED BY <1>4, <2>1, MessagesThinkingNests
<1> QED
  BY <1>1, <1>2, <1>3, <1>4, ApiIs

LEMMA TextNests ==
    ASSUME RequestIs, Api \in BlockApis, NEW s, s # "open", NEW c, QuietClient(c),
           NestedAt(Api, s, c), ~c.hit, NEW text \in Texts
    PROVE  /\ SoundAt(Api, s, OnTextEvent(c, text))
           /\ ~Console => OnTextEvent(c, text).thinking # "open"
<1>1. scenario.tools \in BOOLEAN
  BY ApiIs
<1>2. CASE Api = "responses"
  <2> DEFINE tools == scenario.tools
  <2>1. OnTextEvent(c, text) = ResponsesText(c, text, tools) /\ tools \in BOOLEAN
    BY <1>1, <1>2, BlockApiIs DEF OnTextEvent
  <2> HIDE DEF tools
  <2>2. NestedAt("responses", s, c)
    BY <1>2
  <2>3. /\ SoundAt("responses", s, ResponsesText(c, text, tools))
        /\ ResponsesText(c, text, tools).thinking # "open"
    BY <2>1, <2>2, ResponsesTextNests
  <2> QED BY <1>2, <2>1, <2>3
<1>3. CASE Api = "messages"
  <2> DEFINE tools == scenario.tools
  <2>1. OnTextEvent(c, text) = MessagesText(c, text, tools) /\ tools \in BOOLEAN
    BY <1>1, <1>3, BlockApiIs DEF OnTextEvent
  <2> HIDE DEF tools
  <2>2. NestedAt("messages", s, c)
    BY <1>3
  <2>3. /\ SoundAt("messages", s, MessagesText(c, text, tools))
        /\ MessagesText(c, text, tools).thinking # "open"
    BY <2>1, <2>2, MessagesTextNests
  <2> QED BY <1>3, <2>1, <2>3
<1>4. CASE Console
  <2>1. /\ Api \in {"console_responses", "console_messages"}
        /\ Api \notin {"chat", "responses", "messages"}
    BY <1>4, BlockApiIs
  <2>2. OnTextEvent(c, text) = ConsoleDelta(c, text, Api)
    BY <1>4, <2>1 DEF OnTextEvent
  <2>3. ConsoleDelta(c, text, Api).hit = c.hit
    BY DEF ConsoleDelta, Write, Say, QuietClient, Clients
  <2> QED BY <1>4, <2>1, <2>2, <2>3, ConsoleNests DEF SoundAt
<1> QED
  BY <1>2, <1>3, <1>4, BlockApiIs

LEMMA MarkNests ==
    ASSUME Api \in BlockApis, NEW s, NEW c, QuietClient(c), NestedAt(Api, s, c), NEW at
    PROVE  NestedAt(Api, s, OnMark(c, at)) /\ (OnMark(c, at).message => c.message)
<1>1. CASE Api = "responses"
  <2>1. OnMark(c, at) = ResponsesMark(c, at)
    BY <1>1 DEF OnMark
  <2>2. ResponsesMark(c, at).message => c.message
    BY DEF ResponsesMark
  <2> QED BY <1>1, <2>1, <2>2, ResponsesMarkNests
<1>2. CASE Api # "responses"
  <2>1. SameBlocks(c, OnMark(c, at))
    BY <1>2 DEF OnMark, SameBlocks, QuietClient, Clients
  <2> QED BY <2>1, NestedSame DEF SameBlocks
<1> QED
  BY <1>1, <1>2

LEMMA EventNests ==
    ASSUME RequestIs, Api \in BlockApis, NEW s, s # "open", NEW c, QuietClient(c),
           NestedAt(Api, s, c), ~c.hit, NEW event \in RelayEvents,
           Console => event.ev = "text", event.ev = "thinking" => ~c.message
    PROVE  LET d == OnEvent(c, event)
           IN  /\ SoundAt(Api, s, d)
               /\ event.ev # "text" => (d.message => c.message)
               /\ event.ev = "text" /\ ~Console => d.thinking # "open"
               /\ event.ev \notin {"text", "thinking"} => d.thinking = c.thinking
<1> DEFINE d == OnEvent(c, event)
<1>1. CASE event.ev = "text"
  <2>1. event.text \in Texts /\ d = OnTextEvent(c, event.text)
    BY <1>1 DEF RelayEvents, OnEvent
  <2> QED BY <1>1, <2>1, TextNests
<1>2. event.ev # "text" => d.hit = c.hit
  BY OtherEventTold DEF OtherTold
<1>3. CASE event.ev = "thinking"
  <2>1. d = OnThinkingEvent(c) /\ ~Console
    BY <1>3 DEF OnEvent
  <2> QED BY <1>2, <1>3, <2>1, ThinkingNests DEF SoundAt
<1>4. CASE event.ev = "annotation"
  <2>1. d = OnMark(c, event.at)
    BY <1>4 DEF OnEvent
  <2>2. OnMark(c, event.at).thinking = c.thinking
    BY DEF OnMark, ResponsesMark, Say, QuietClient, Clients
  <2> QED BY <1>2, <1>4, <2>1, <2>2, MarkNests DEF SoundAt
<1>5. CASE event.ev \in {"image", "soft_stop"}
  <2>1. SameBlocks(c, d)
    BY <1>5 DEF OnEvent, SameBlocks, QuietClient, Clients
  <2> HIDE DEF d
  <2> QED BY <1>2, <1>5, <2>1, NestedSame DEF SameBlocks, SoundAt, d
<1> QED
  BY <1>1, <1>3, <1>4, <1>5 DEF RelayEvents

\* What is written at the end.
LEMMA EmbedNests ==
    ASSUME RequestIs, Api \in BlockApis, NEW s, NEW c, QuietClient(c), NestedAt(Api, s, c)
    PROVE  /\ NestedAt(Api, s, Embed(c)) /\ Embed(c).message = c.message
           /\ Embed(c).thinking = c.thinking
<1>1. ASSUME NEW evs \in Seq(Quiet), Embed(c) = Write(c, <<"embed">>, evs)
      PROVE  /\ Embed(c).message = c.message /\ Embed(c).thinking = c.thinking
             /\ Embed(c).index = c.index /\ Embed(c).out = c.out \o evs
  BY <1>1 DEF Write, Say, QuietClient, Clients
<1>2. \A i \in Int : << <<"delta", i, "message">> >> \in Seq(Quiet)
  BY QuietEvents, BlockNames
<1>3. CASE Api = "responses" /\ c.message
  <2>1. Embed(c) = Write(c, <<"embed">>, << <<"delta", ResponsesIndex(c), "message">> >>)
    BY <1>3 DEF Embed
  <2>2. ResponsesIndex(c) \in Int
    BY IndexType
  <2>3. Embed(c).message = c.message /\ Embed(c).thinking = c.thinking
    BY <1>1, <1>2, <2>1, <2>2
  <2> QED BY <1>3, <2>1, <2>3, ResponsesMarkNests
<1>4. CASE Api = "messages" /\ c.message
  <2>1. Embed(c) = Write(c, <<"embed">>, << <<"delta", c.index, "message">> >>)
    BY <1>4 DEF Embed
  <2>2. c.index \in Int
    BY DEF QuietClient, Clients
  <2>3. Embed(c).message = c.message /\ Embed(c).thinking = c.thinking
    BY <1>1, <1>2, <2>1, <2>2
  <2> QED BY <1>4, <2>1, <2>3, MessagesWriteNests
<1>5. CASE Console \/ ~c.message
  <2>1. Embed(c) = Write(c, <<"embed">>, <<>>)
    BY <1>5, BlockApiIs DEF Embed
  <2>2. c.out \o <<>> = c.out /\ <<>> \in Seq(Quiet)
    BY DEF QuietClient, Unmarked
  <2>3. SameBlocks(c, Embed(c))
    BY <1>1, <2>1, <2>2 DEF SameBlocks
  <2> QED BY <2>3, NestedSame DEF SameBlocks
<1> QED
  BY <1>3, <1>4, <1>5, BlockApiIs

\* A sieve that holds no calls changes no block.
LEMMA FlushNests ==
    ASSUME RequestIs, ~Console, Api \in BlockApis, NEW c, QuietClient(c), ~Flushed(c).hit
    PROVE  SameBlocks(c, Flushed(c))
<1> DEFINE p == Flush(c.sieve)
           d == [c EXCEPT !.sieve = p.sieve]
<1>1. FlushTold(c, Flushed(c), p, Api = "chat")
  BY FlushedTold
<1>2. ~(p.calls > 0)
  BY <1>1 DEF FlushTold
<1>3. /\ ResponsesFlush(c) = IF p.calls > 0 THEN ResponsesCalls(d, p.calls) ELSE d
      /\ \E e : MessagesFlush(c) = IF p.calls > 0 THEN MessagesCalls(e, p.calls) ELSE d
  BY DEF ResponsesFlush, MessagesFlush
<1>4. Flushed(c) \in {ResponsesFlush(c), MessagesFlush(c)}
  BY BlockApiIs DEF Flushed
<1> HIDE DEF p
<1>5. Flushed(c) = d
  BY <1>2, <1>3, <1>4
<1> QED
  BY <1>5 DEF SameBlocks, QuietClient, Clients

\* The message that is open is closed before calls.
LEMMA MessagesShutNests ==
    ASSUME NEW s, NEW c, QuietClient(c), NestedAt("messages", s, c), c.message
    PROVE  LET d == [MessagesClose(c, "message") EXCEPT !.message = FALSE]
           IN  QuietClient(d) /\ NestedAt("messages", s, d) /\ d.thinking # "open"
<1> DEFINE m == MessagesClose(c, "message")
           d == [m EXCEPT !.message = FALSE]
           i == c.index
           e == <<"close", i, "message">>
           before == 0 .. i - 1
<1>1. c \in Clients /\ c.out \in Seq(Quiet) /\ i \in Nat /\ i \in Int
  BY DEF QuietClient, Unmarked, Clients
<1>2. e \in Quiet /\ e[1] = "close" /\ e[2] = i
  BY <1>1, BlockEvents, BlockNames
<1> HIDE DEF e
<1>3. QuietClient(m)
  BY MessagesCloseIs, BlockNames
<1>4. m.out = Append(c.out, e) /\ m.thinking = c.thinking /\ m.index = i + 1
  <2>1. c.out \o <<e>> = Append(c.out, e)
    BY <1>1, <1>2
  <2> QED BY <1>1, <2>1 DEF MessagesClose, Say, Clients, e
<1> HIDE DEF m
<1>5. /\ QuietClient(d) /\ d.out = Append(c.out, e) /\ d.thinking = c.thinking
      /\ d.index = i + 1 /\ ~d.message
  BY <1>3, <1>4 DEF QuietClient, Clients, Unmarked
<1> HIDE DEF d
<1>6. c.thinking # "open"
  BY DEF NestedAt
<1>7. 0 .. (i + 1) - 1 = {i} \cup before /\ i \notin before
  BY <1>1
<1>8. /\ LiveBlocks("messages", s, c) = {i} /\ UsedBlocks("messages", s, c) = {i} \cup before
      /\ LiveBlocks("messages", s, d) = {} /\ UsedBlocks("messages", s, d) = {i} \cup before
  <2>1. LiveBlocks("messages", s, c) = {i} /\ UsedBlocks("messages", s, c) = {i} \cup before
    BY MessagesBlocks
  <2>2. LiveBlocks("messages", s, d) = {} /\ UsedBlocks("messages", s, d) = 0 .. (i + 1) - 1
    <3> HIDE DEF i
    <3> QED BY <1>5, <1>6, MessagesBlocks
  <2> HIDE DEF i, before
  <2> QED BY <1>7, <2>1, <2>2
<1> HIDE DEF before, i
<1>9. Extends(e, {i} \cup before, {i}, {i} \cup before, {})
  BY <1>2, <1>7 DEF Extends
<1>10. NestedAt("messages", s, d)
  BY <1>2, <1>5, <1>8, <1>9, NestedAdd
<1> QED
  BY <1>5, <1>6, <1>10 DEF d, m

\* Calls that the sieve held.
LEMMA FlushCallsNest ==
    ASSUME RequestIs, ~Console, Api \in BlockApis, NEW s, NEW c, QuietClient(c),
           NestedAt(Api, s, c), c.sieve.buf # <<>> => c.thinking # "open",
           Flush(c.sieve).calls > 0
    PROVE  Called(Flushed(c))
<1> DEFINE p == Flush(c.sieve)
           d == [c EXCEPT !.sieve = p.sieve]
           shut == [MessagesClose(d, "message") EXCEPT !.message = FALSE]
<1>1. c.thinking # "open"
  <2>1. c.sieve.buf = <<>> => Flush(c.sieve).calls = 0
    BY DEF Flush, Sifted
  <2> QED BY <2>1
<1>2. p \in SieveResults
  BY FlushType DEF QuietClient, Clients
<1>3. p.sieve \in Sieves /\ p.calls \in Nat /\ p.calls > 0
  BY <1>2 DEF SieveResults
<1>4. /\ ResponsesFlush(c) = ResponsesCalls(d, p.calls)
      /\ MessagesFlush(c) = MessagesCalls(IF c.message THEN shut ELSE d, p.calls)
  BY <1>3 DEF ResponsesFlush, MessagesFlush
<1> HIDE DEF p
<1>5. QuietClient(d) /\ SameBlocks(c, d)
  BY <1>3, SieveKept DEF SameBlocks, QuietClient, Clients
<1> HIDE DEF d
<1>6. NestedAt(Api, s, d) /\ d.thinking # "open" /\ d.message = c.message
  BY <1>1, <1>5, NestedSame DEF SameBlocks
<1>7. CASE Api = "responses"
  <2>1. Flushed(c) = ResponsesCalls(d, p.calls)
    BY <1>4, <1>7 DEF Flushed
  <2> QED BY <1>3, <1>5, <1>6, <1>7, <2>1, CallsAfter
<1>8. CASE Api = "messages"
  <2> DEFINE e == IF c.message THEN shut ELSE d
  <2>1. Flushed(c) = MessagesCalls(e, p.calls)
    BY <1>4, <1>8 DEF Flushed
  <2>2. QuietClient(e) /\ NestedAt("messages", s, e) /\ e.thinking # "open"
    <3>1. CASE c.message
      <4>1. e = shut
        BY <3>1
      <4>2. NestedAt("messages", s, d) /\ d.message
        BY <1>6, <1>8, <3>1
      <4> HIDE DEF e
      <4> QED BY <1>5, <4>1, <4>2, MessagesShutNests
    <3>2. CASE ~c.message
      BY <1>5, <1>6, <1>8, <3>2
    <3> QED BY <3>1, <3>2
  <2> HIDE DEF e
  <2> QED BY <1>3, <2>1, <2>2, CallsAfter
<1> QED
  BY <1>7, <1>8, BlockApiIs

LEMMA ClosingWhole ==
    ASSUME NEW c, QuietClient(c), NEW used, NEW live, Nested(c.out, used, live),
           NEW block \in Blocks, NEW evs,
           \/ live = {} /\ evs = <<>>
           \/ \E i \in Int, b \in Blocks : live = {i} /\ evs = << <<"close", i, b>> >>
    PROVE  BlocksWhole(Say(c, evs \o << <<"final", 0, block>>, DoneEvent >>).out)
<1> DEFINE final == <<"final", 0, block>>
<1>1. final \in Quiet /\ final[1] = "final"
  BY DEF Quiet
<1> HIDE DEF final
<1>2. CASE live = {} /\ evs = <<>>
  <2> DEFINE last == <<final, DoneEvent>>
  <2>1. <<>> \o last = last
    OBVIOUS
  <2>2. BlocksWhole(Say(c, last).out)
    BY <1>1, <1>2, FinalSaid
  <2> QED BY <1>2, <2>1, <2>2 DEF final
<1>3. CASE \E i \in Int, b \in Blocks : live = {i} /\ evs = << <<"close", i, b>> >>
  <2>1. PICK i \in Int, b \in Blocks : live = {i} /\ evs = << <<"close", i, b>> >>
    BY <1>3
  <2> DEFINE a == <<"close", i, b>>
  <2>2. a \in Quiet /\ a[1] = "close" /\ live = {a[2]}
    BY <2>1, BlockEvents
  <2>3. evs = <<a>>
    BY <2>1
  <2> HIDE DEF a
  <2>4. BlocksWhole(Say(c, <<a>> \o <<final, DoneEvent>>).out)
    BY <1>1, <2>2, FinalSaidTwo
  <2> QED BY <2>3, <2>4 DEF final
<1> QED
  BY <1>2, <1>3

LEMMA ClosedNests ==
    ASSUME RequestIs, Api \in BlockApis, NEW s, s # "open", NEW c, QuietClient(c), ~c.hit,
           NestedAt(Api, s, c),
           ~(Api = "responses" /\ c.thinking = "open" /\ ~c.message)
    PROVE  BlocksWhole(Closed(c).out)
<1> DEFINE none == ""
           used == UsedBlocks(Api, s, c)
           live == LiveBlocks(Api, s, c)
<1>1. none \in Blocks /\ DoneEvent = <<"DONE", 0, none>>
  BY NoBlockName DEF DoneEvent
<1>2. Nested(c.out, used, live) /\ (c.message => c.thinking # "open")
  BY DEF NestedAt
<1>3. "message" \in Blocks /\ "thinking" \in Blocks /\ 0 \in Int
  BY BlockNames
<1>4. CASE Console
  <2> DEFINE evs == << <<"close", 0, "message">> >>
             last == << <<"close", 0, "message">>, <<"final", 0, none>>, <<"DONE", 0, none>> >>
  <2>1. Api \in {"console_responses", "console_messages"}
    BY <1>4, BlockApiIs
  <2>2. Closed(c) = Say(c, last)
    BY <1>4, <2>1 DEF Closed, ConsoleFinal
  <2> HIDE DEF none
  <2>3. last = evs \o << <<"final", 0, none>>, DoneEvent >>
    BY <1>1
  <2> HIDE DEF last, used
  <2>4. live = {0}
    BY <2>1, ConsoleBlocks
  <2> HIDE DEF live
  <2>5. \E i \in Int, b \in Blocks : live = {i} /\ evs = << <<"close", i, b>> >>
    BY <1>3, <2>4
  <2> HIDE DEF evs
  <2>6. BlocksWhole(Say(c, evs \o << <<"final", 0, none>>, DoneEvent >>).out)
    BY <1>1, <1>2, <2>5, ClosingWhole
  <2> QED BY <2>2, <2>3, <2>6
<1>5. CASE Api = "responses"
  <2> DEFINE evs == IF c.message /\ ~c.hit
                    THEN << <<"close", ResponsesIndex(c), "message">> >> ELSE <<>>
  <2>1. Closed(c) = Say(c, evs \o << <<"final", 0, "">>, <<"DONE", 0, "">> >>)
    <3>1. Closed(c) = ResponsesFinal(c)
      BY <1>5, ApiIs DEF Closed
    <3> QED BY Zenon, <3>1 DEF ResponsesFinal
  <2>2. ResponsesIndex(c) \in Int
    BY IndexType
  <2>3. live = IF c.message THEN {ResponsesIndex(c)} ELSE {}
    BY <1>2, <1>5, ResponsesBlocks
  <2> HIDE DEF live, used
  <2>4. \/ live = {} /\ evs = <<>>
        \/ \E i \in Int, b \in Blocks : live = {i} /\ evs = << <<"close", i, b>> >>
    <3>1. CASE c.message
      BY <1>3, <2>2, <2>3, <3>1
    <3>2. CASE ~c.message
      BY <2>3, <3>2
    <3> QED BY <3>1, <3>2
  <2> HIDE DEF evs, none
  <2>5. BlocksWhole(Say(c, evs \o << <<"final", 0, none>>, DoneEvent >>).out)
    BY <1>1, <1>2, <2>4, ClosingWhole
  <2>6. Closed(c) = Say(c, evs \o << <<"final", 0, none>>, <<"DONE", 0, none>> >>)
    BY <2>1, Zenon DEF none
  <2> QED BY <1>1, <2>5, <2>6
<1>6. CASE Api = "messages"
  <2> DEFINE d == IF ~c.hit /\ c.thinking = "open" THEN MessagesClose(c, "thinking") ELSE c
             evs == IF d.message /\ ~d.hit THEN << <<"close", d.index, "message">> >> ELSE <<>>
  <2>1. Closed(c) = Say(d, evs \o << <<"final", 0, "">>, <<"DONE", 0, "">> >>)
    <3>1. Closed(c) = MessagesFinal(c)
      BY <1>6, ApiIs DEF Closed
    <3> QED BY Zenon, <3>1 DEF MessagesFinal
  <2>2. QuietClient(d) /\ ~d.hit
    BY <1>3, MessagesCloseIs DEF SameText
  <2>3. PICK open : /\ Nested(d.out, used, open)
                    /\ open = IF d.message THEN {d.index} ELSE {}
    <3>1. CASE c.thinking = "open"
      <4> DEFINE w == MessagesClose(c, "thinking")
                 b == MessagesClose([c EXCEPT !.thinking = "closed"], "thinking")
      <4>1. d = w
        BY <3>1
      <4>2. NestedAt("messages", s, b) /\ b.thinking = "closed" /\ ~b.message
            /\ ~w.message /\ w.out = b.out
        BY <1>6, <3>1, MessagesCloseNests
      <4>3. b.index = c.index + 1 /\ c.index \in Nat
        BY DEF MessagesClose, Say, QuietClient, Clients
      <4> HIDE DEF b, w, d
      <4>4. /\ LiveBlocks("messages", s, b) = {}
            /\ UsedBlocks("messages", s, b) = 0 .. c.index
        <5>1. /\ LiveBlocks("messages", s, b) = {}
              /\ UsedBlocks("messages", s, b) = 0 .. b.index - 1
          BY <4>2, MessagesBlocks
        <5>2. b.index - 1 = c.index
          BY <4>3
        <5> QED BY <5>1, <5>2
      <4>5. used = 0 .. c.index
        <5>1. used = {c.index} \cup 0 .. c.index - 1
          BY <1>6, <3>1, MessagesBlocks
        <5> HIDE DEF used
        <5> QED BY <4>3, <5>1
      <4> HIDE DEF used
      <4>6. Nested(d.out, used, {}) /\ ~d.message
        BY <4>1, <4>2, <4>4, <4>5 DEF NestedAt
      <4> QED BY <4>6
    <3>2. CASE c.thinking # "open"
      <4>1. d = c
        BY <3>2
      <4>2. live = IF c.message THEN {c.index} ELSE {}
        BY <1>6, <3>2, MessagesBlocks
      <4> HIDE DEF d, used, live
      <4> QED BY <1>2, <4>1, <4>2
    <3> QED BY <3>1, <3>2
  <2>4. d.index \in Int
    <3> HIDE DEF d
    <3> QED BY <2>2 DEF QuietClient, Clients
  <2> HIDE DEF d, used, live
  <2>5. \/ open = {} /\ evs = <<>>
        \/ \E i \in Int, b \in Blocks : open = {i} /\ evs = << <<"close", i, b>> >>
    <3>1. CASE d.message
      BY <1>3, <2>2, <2>3, <2>4, <3>1
    <3>2. CASE ~d.message
      BY <2>3, <3>2
    <3> QED BY <3>1, <3>2
  <2> HIDE DEF evs, none
  <2>6. BlocksWhole(Say(d, evs \o << <<"final", 0, none>>, DoneEvent >>).out)
    BY <1>1, <2>2, <2>3, <2>5, ClosingWhole
  <2>7. Closed(c) = Say(d, evs \o << <<"final", 0, none>>, <<"DONE", 0, none>> >>)
    BY <2>1, Zenon DEF none
  <2> QED BY <1>1, <2>6, <2>7
<1> QED
  BY <1>4, <1>5, <1>6, BlockApiIs

\* The client that is closed has the blocks and the flags of the reply.
LEMMA ClosedFlags ==
    ASSUME RequestIs, Api = "responses", NEW c, QuietClient(c)
    PROVE  Closed(c).thinking = c.thinking /\ Closed(c).message = c.message
<1>1. \E evs : Closed(c) = Say(c, evs)
  <2>1. Closed(c) = ResponsesFinal(c)
    BY ApiIs DEF Closed
  <2> QED BY <2>1, Zenon DEF ResponsesFinal
<1>2. \A evs : Say(c, evs).thinking = c.thinking /\ Say(c, evs).message = c.message
  BY DEF Say, QuietClient, Clients
<1> QED
  BY <1>1, <1>2

\* After calls only the final event and the end mark are written.
LEMMA CalledWhole ==
    ASSUME RequestIs, ~Console, Api \in BlockApis, NEW c, QuietClient(c), c.hit, Called(c),
           ~Closed(c).message
    PROVE  BlocksWhole(Closed(c).out)
<1> DEFINE none == ""
           evs == <<>>
<1>1. none \in Blocks /\ DoneEvent = <<"DONE", 0, none>>
  BY NoBlockName, Zenon DEF DoneEvent
<1>2. Closed(c) = Say(c, evs \o << <<"final", 0, "">>, <<"DONE", 0, "">> >>)
  <2>1. /\ ResponsesFinal(c) = Say(c, evs \o << <<"final", 0, "">>, <<"DONE", 0, "">> >>)
        /\ MessagesFinal(c) = Say(c, evs \o << <<"final", 0, "">>, <<"DONE", 0, "">> >>)
    BY Zenon DEF ResponsesFinal, MessagesFinal
  <2>2. CASE Api = "responses"
    <3>1. Closed(c) = ResponsesFinal(c)
      BY <2>2, ApiIs DEF Closed
    <3> QED BY <2>1, <3>1, Zenon
  <2>3. CASE Api = "messages"
    <3>1. Closed(c) = MessagesFinal(c)
      BY <2>3, ApiIs DEF Closed
    <3> QED BY <2>1, <3>1, Zenon
  <2>4. Api = "responses" \/ Api = "messages"
    BY BlockApiIs
  <2> QED BY <2>2, <2>3, <2>4, Zenon
<1> HIDE DEF evs
<1>3. Closed(c) = Say(c, evs \o << <<"final", 0, none>>, <<"DONE", 0, none>> >>)
  BY <1>2, Zenon DEF none
<1> HIDE DEF none
<1>4. Closed(c) = Say(c, evs \o << <<"final", 0, none>>, DoneEvent >>)
  BY <1>1, <1>3
<1>5. Closed(c).message = c.message
  BY <1>4 DEF Say, QuietClient, Clients
<1>6. PICK used : Nested(c.out, used, {})
  BY <1>5 DEF Called
<1>7. evs = <<>>
  BY DEF evs
<1>8. BlocksWhole(Say(c, evs \o << <<"final", 0, none>>, DoneEvent >>).out)
  BY <1>1, <1>6, <1>7, ClosingWhole
<1> QED
  BY <1>4, <1>8

\* The steps of a request.

\* The parts of BlocksInv for the request at stage s, with the client c.
PlainAt(c) ==
    /\ ~(c.hit /\ c.message) /\ ~scenario.summary
    /\ ~(Api = "responses" /\ c.thinking = "open" /\ ~c.message)
    => (Api \notin {"chat", "console_chat"} => BlocksWhole(c.out))

EarlyAt(s, a, evs, c) ==
    scenario.stream /\ s \in Attempting /\ ~scenario.summary /\ Api \in BlockApis
    /\ ~Console =>
        /\ c.message /\ ~c.hit => a.started
        /\ \A i \in DOMAIN evs : /\ evs[i].ev = "text" => a.started
                                 /\ evs[i].ev = "thinking" => ~a.started
        /\ c.sieve.buf # <<>> => c.thinking # "open" /\ a.started

OpenAt(s, c) ==
    scenario.stream /\ s \in Attempting /\ ~scenario.summary /\ Api \in BlockApis
    => SoundAt(Api, s, c)

LEMMA BlocksNow ==
    BlocksInv <=> /\ PlainAt(client) /\ EarlyAt(stage, adapter, events, client)
                  /\ OpenAt(stage, client)
<1>1. PlainBlocksNest <=> PlainAt(client)
  BY BlocksNestIs DEF PlainBlocksNest, PlainAt
<1>2. ThoughtsFirst <=> EarlyAt(stage, adapter, events, client)
  BY DEF ThoughtsFirst, EarlyAt
<1> QED
  BY <1>1, <1>2 DEF BlocksInv, OpenAt

LEMMA BlocksNestThen ==
    ASSUME scenario' = scenario
    PROVE  BlocksNest' <=> (Api \notin {"chat", "console_chat"} => BlocksWhole(client'.out))
  BY DEF BlocksNest, BlocksWhole, EventsAt, Api

LEMMA BlocksThen ==
    ASSUME scenario' = scenario, PlainAt(client'),
           EarlyAt(stage', adapter', events', client'), OpenAt(stage', client')
    PROVE  BlocksInv'
<1>1. PlainBlocksNest'
  BY BlocksNestThen DEF PlainBlocksNest, PlainAt, Api
<1>2. ThoughtsFirst'
  BY DEF ThoughtsFirst, EarlyAt, Api, Console
<1> QED
  BY <1>1, <1>2 DEF BlocksInv, OpenAt, Api

LEMMA PlainIs ==
    ASSUME RequestIs, NEW c,
           \/ Api \notin BlockApis \/ scenario.summary
           \/ \E s : SoundAt(Api, s, c)
    PROVE  PlainAt(c)
<1>1. CASE Api \notin BlockApis
  BY <1>1, ApiIs DEF PlainAt, BlockApis
<1>2. CASE \E s : SoundAt(Api, s, c)
  <2>1. PICK s : SoundAt(Api, s, c)
    BY <1>2
  <2>2. \/ c.hit /\ c.message
        \/ \E used, live : Nested(c.out, used, live)
    BY <2>1 DEF SoundAt, Called, NestedAt
  <2> QED BY <2>2, NestedWhole DEF PlainAt
<1> QED
  BY <1>1, <1>2 DEF PlainAt

LEMMA PlainSame ==
    ASSUME NEW c, NEW d, PlainAt(c), d.out = c.out, d.thinking = c.thinking,
           d.message = c.message, d.hit = c.hit
    PROVE  PlainAt(d)
  BY DEF PlainAt

LEMMA BlocksStay ==
    ASSUME RequestIs, BlocksInv, scenario' = scenario, relayed' = relayed,
           stage' \in Attempting => stage \in Attempting /\ (stage = "open" <=> stage' = "open")
    PROVE  BlocksInv'
<1>1. PlainAt(client) /\ EarlyAt(stage, adapter, events, client) /\ OpenAt(stage, client)
  BY BlocksNow
<1>2. adapter' = adapter /\ events' = events /\ client' = client
  BY DEF relayed
<1>3. OpenAt(stage', client')
  BY <1>1, <1>2, SoundStage DEF OpenAt
<1>4. EarlyAt(stage', adapter', events', client')
  BY <1>1, <1>2 DEF EarlyAt
<1> QED
  BY <1>1, <1>2, <1>3, <1>4, BlocksThen

LEMMA BlocksReserve ==
    ASSUME RequestIs, NEW a \in Accounts, Reserve(a)
    PROVE  BlocksInv'
<1>1. scenario' = scenario /\ stage' = "open" /\ events' = <<>> /\ client' = NewClient
  BY DEF Reserve
<1>2. Api \in BlockApis => SoundAt(Api, "open", NewClient)
  BY NestedNew
<1>3. ~NewClient.message /\ NewClient.sieve.buf = <<>>
  BY DEF NewClient, NewSieve
<1>4. PlainAt(client')
  BY <1>1, <1>2, PlainIs
<1>5. EarlyAt(stage', adapter', events', client')
  BY <1>1, <1>3 DEF EarlyAt
<1>6. OpenAt(stage', client')
  BY <1>1, <1>2 DEF OpenAt
<1> QED
  BY <1>1, <1>4, <1>5, <1>6, BlocksThen

LEMMA BlocksOpen ==
    ASSUME StreamTypes, OutInv, TextInv, BlocksInv, Open
    PROVE  BlocksInv'
<1>1. QuietClient(client) /\ RequestIs
  BY QuietAttempt, RequestHolds DEF Open, Attempting, StreamTypes
<1>2. /\ scenario' = scenario /\ adapter' = adapter /\ events' = events
      /\ stage = "open" /\ stage' = "connect"
      /\ client' = IF scenario.stream THEN Say(client, Opening) ELSE client
  BY DEF Open
<1>3. PlainAt(client) /\ EarlyAt(stage, adapter, events, client) /\ OpenAt(stage, client)
  BY BlocksNow
<1>4. /\ Say(client, Opening).hit = client.hit
      /\ Say(client, Opening).message = client.message
      /\ Say(client, Opening).thinking = client.thinking
      /\ Say(client, Opening).sieve = client.sieve
  BY <1>1 DEF Say, QuietClient, Clients
<1>5. OpenAt(stage', client')
  <2>1. ASSUME scenario.stream, ~scenario.summary, Api \in BlockApis
        PROVE  SoundAt(Api, "connect", Say(client, Opening))
    <3>1. ~client.hit
      BY <1>2, <2>1 DEF TextInv, TextAt, OutInv
    <3>2. NestedAt(Api, "open", client)
      BY <1>2, <1>3, <2>1, <3>1 DEF OpenAt, Attempting, SoundAt
    <3> QED BY <1>1, <1>4, <2>1, <3>1, <3>2, OpeningNests DEF SoundAt
  <2> QED BY <1>2, <1>4, <2>1 DEF OpenAt
<1>6. PlainAt(client')
  <2>1. CASE scenario.stream
    <3>1. OpenAt("connect", client')
      BY <1>2, <1>5
    <3>2. \/ Api \notin BlockApis \/ scenario.summary
          \/ SoundAt(Api, "connect", client')
      BY <2>1, <3>1 DEF OpenAt, Attempting
    <3> QED BY <1>1, <3>2, PlainIs
  <2>2. CASE ~scenario.stream
    BY <1>2, <1>3, <2>2
  <2> QED BY <2>1, <2>2
<1>7. EarlyAt(stage', adapter', events', client')
  BY <1>2, <1>3, <1>4 DEF EarlyAt, Attempting
<1> QED
  BY <1>2, <1>5, <1>6, <1>7, BlocksThen

LEMMA BlocksRead ==
    ASSUME StreamTypes, OutInv, BlocksInv, NEW f \in scenario.frames, Read(f)
    PROVE  BlocksInv'
<1>1. QuietClient(client) /\ RequestIs
  BY QuietAttempt, RequestHolds DEF Read, Attempting, StreamTypes
<1> DEFINE fed == IF Console THEN ConsoleFeed(adapter, f)
                  ELSE AdapterFeed(adapter, f, scenario.summary)
<1>2. /\ scenario' = scenario /\ stage = "read" /\ stage' \in {"read", "settle"}
      /\ adapter' = fed.adapter
      /\ events' = IF scenario.stream THEN fed.events ELSE <<>>
      /\ client' = IF scenario.stream THEN client ELSE Gathered(f)
  BY DEF Read
<1>3. PlainAt(client) /\ EarlyAt(stage, adapter, events, client) /\ OpenAt(stage, client)
  BY BlocksNow
<1>4. PlainAt(client')
  <2>1. CASE scenario.stream
    BY <1>2, <1>3, <2>1
  <2>2. CASE ~scenario.stream
    <3>1. /\ client'.out = client.out /\ client'.thinking = client.thinking
          /\ client'.message = client.message /\ client'.hit = client.hit
      BY <1>1, <1>2, <2>2 DEF Gathered, QuietClient, Clients
    <3> QED BY <1>3, <3>1, PlainSame
  <2> QED BY <2>1, <2>2
<1>5. OpenAt(stage', client')
  BY <1>2, <1>3 DEF OpenAt, Attempting
<1>6. EarlyAt(stage', adapter', events', client')
  <2> SUFFICES ASSUME scenario.stream, ~scenario.summary, Api \in BlockApis, ~Console
               PROVE  /\ client'.message /\ ~client'.hit => adapter'.started
                      /\ \A i \in DOMAIN events' :
                             /\ events'[i].ev = "text" => adapter'.started
                             /\ events'[i].ev = "thinking" => ~adapter'.started
                      /\ client'.sieve.buf # <<>> =>
                             client'.thinking # "open" /\ adapter'.started
    BY DEF EarlyAt
  <2>1. f \in Frames /\ adapter \in Adapters
    BY <1>1, ApiIs DEF StreamTypes
  <2>2. fed = AdapterFeed(adapter, f, FALSE)
    <3>1. scenario.summary = FALSE
      BY <1>1, ApiIs
    <3> QED BY <3>1
  <2> HIDE DEF fed
  <2>3. InTurn(adapter, fed)
    BY <2>1, <2>2, FeedInTurn
  <2>4. /\ client' = client /\ (client.message /\ ~client.hit => adapter.started)
        /\ client.sieve.buf # <<>> => client.thinking # "open" /\ adapter.started
    BY <1>2, <1>3 DEF EarlyAt, Attempting
  <2> QED BY <1>2, <2>3, <2>4 DEF InTurn
<1> QED
  BY <1>2, <1>4, <1>5, <1>6, BlocksThen

LEMMA BlocksRelay ==
    ASSUME StreamTypes, OutInv, TextInv, BlocksInv, Relay
    PROVE  BlocksInv'
<1> DEFINE event == Head(events)
<1>1. RequestIs /\ scenario.stream
  BY RequestHolds DEF Relay, StreamTypes
<1>2. /\ QuietClient(client) /\ event = events[1] /\ event \in RelayEvents
      /\ client' = OnEvent(client, event)
      /\ event.ev # "text" => OtherTold(client, client', event)
  BY RelayWrites
<1>3. 1 \in DOMAIN events /\ \A i \in DOMAIN events' : \E k \in DOMAIN events : events'[i] = events[k]
  <2>1. events \in Seq(RelayEvents) /\ events # <<>> /\ events' \in {<<>>, Tail(events)}
    BY DEF Relay, StreamTypes
  <2>2. \A i \in DOMAIN Tail(events) : Tail(events)[i] = events[i + 1] /\ i + 1 \in DOMAIN events
    BY <2>1
  <2> QED BY <2>1, <2>2
<1> HIDE DEF event
<1>4. /\ scenario' = scenario /\ stage = "read" /\ adapter' = adapter
      /\ stage' \in {"read", "flush", "sent"}
  BY DEF Relay, AfterRead
<1>5. PlainAt(client) /\ EarlyAt(stage, adapter, events, client) /\ OpenAt(stage, client)
  BY BlocksNow
<1>6. ~client.hit
  BY <1>1, <1>4 DEF TextInv, TextAt, OutInv
<1>7. Console => event.ev = "text"
  BY <1>2, <1>3 DEF StreamTypes
<1>8. ASSUME ~scenario.summary, Api \in BlockApis
      PROVE  /\ SoundAt(Api, "read", client')
             /\ ~Console =>
                    /\ client'.message /\ ~client'.hit => adapter.started
                    /\ client'.sieve.buf # <<>> => client'.thinking # "open" /\ adapter.started
  <2>1. NestedAt(Api, "read", client)
    BY <1>1, <1>4, <1>5, <1>6, <1>8 DEF OpenAt, Attempting, SoundAt
  <2>2. ~Console => /\ client.message => adapter.started
                    /\ event.ev = "text" => adapter.started
                    /\ event.ev = "thinking" => ~adapter.started
                    /\ client.sieve.buf # <<>> => client.thinking # "open" /\ adapter.started
    BY <1>1, <1>2, <1>3, <1>4, <1>5, <1>6, <1>8 DEF EarlyAt, Attempting
  <2>3. event.ev = "thinking" => ~client.message
    <3>1. event.ev = "thinking" => ~Console
      BY <1>7
    <3> QED BY <2>2, <3>1
  <2>4. /\ SoundAt(Api, "read", client')
        /\ event.ev # "text" => (client'.message => client.message)
        /\ event.ev = "text" /\ ~Console => client'.thinking # "open"
        /\ event.ev \notin {"text", "thinking"} => client'.thinking = client.thinking
    BY <1>1, <1>2, <1>6, <1>7, <1>8, <2>1, <2>3, EventNests
  <2>5. event.ev # "text" => client'.sieve = client.sieve
    BY <1>2 DEF OtherTold
  <2> QED BY <2>2, <2>4, <2>5
<1>9. PlainAt(client')
  BY <1>1, <1>8, PlainIs
<1>10. OpenAt(stage', client')
  <2>1. ASSUME ~scenario.summary, Api \in BlockApis, stage' \in Attempting
        PROVE  SoundAt(Api, stage', client')
    <3>1. stage' # "open" /\ "read" # "open"
      BY <1>4
    <3>2. SoundAt(Api, "read", client')
      BY <1>8, <2>1
    <3> QED BY <2>1, <3>1, <3>2, SoundStage
  <2> QED BY <2>1 DEF OpenAt
<1>11. EarlyAt(stage', adapter', events', client')
  BY <1>3, <1>4, <1>5, <1>8 DEF EarlyAt, Attempting
<1> QED
  BY <1>4, <1>9, <1>10, <1>11, BlocksThen

LEMMA BlocksFlush ==
    ASSUME StreamTypes, OutInv, BlocksInv, FlushSieve
    PROVE  BlocksInv'
<1>1. RequestIs /\ scenario.stream
  BY RequestHolds DEF FlushSieve, OutInv, StreamTypes
<1>2. QuietClient(client)
  BY FlushWrites
<1>3. /\ scenario' = scenario /\ stage = "flush" /\ adapter' = adapter /\ events' = events
      /\ stage' \in {"resolve", "sent"}
      /\ client' = IF scenario.tools /\ ~client.hit THEN Flushed(client) ELSE client
  BY DEF FlushSieve
<1>4. PlainAt(client) /\ EarlyAt(stage, adapter, events, client) /\ OpenAt(stage, client)
  BY BlocksNow
<1>5. Console => client' = client
  BY <1>1, <1>3 DEF RequestIs
<1>6. ASSUME ~client'.hit, Api \in BlockApis
      PROVE  SameBlocks(client, client') /\ ~client.hit
  <2>1. CASE scenario.tools /\ ~client.hit
    <3>1. client' = Flushed(client) /\ ~Console
      BY <1>1, <1>3, <2>1 DEF RequestIs
    <3> QED BY <1>1, <1>2, <1>6, <2>1, <3>1, FlushNests
  <2>2. CASE ~(scenario.tools /\ ~client.hit)
    BY <1>3, <1>6, <2>2 DEF SameBlocks
  <2> QED BY <2>1, <2>2
<1>7. ASSUME ~scenario.summary, Api \in BlockApis
      PROVE  /\ SoundAt(Api, "resolve", client')
             /\ client'.message /\ ~client'.hit => client.message /\ ~client.hit
  <2>1. SoundAt(Api, "flush", client)
    BY <1>1, <1>3, <1>4, <1>7 DEF OpenAt, Attempting
  <2>2. "flush" # "open" /\ "resolve" # "open"
    OBVIOUS
  <2>3. SoundAt(Api, "resolve", client)
    BY <1>7, <2>1, <2>2, SoundStage
  <2>4. CASE ~client'.hit
    <3>1. NestedAt(Api, "resolve", client)
      BY <1>6, <1>7, <2>3, <2>4 DEF SoundAt
    <3> QED BY <1>6, <1>7, <2>4, <3>1, NestedSame DEF SameBlocks, SoundAt
  <2>5. CASE client'.hit /\ client.hit
    <3>1. client' = client
      BY <1>3, <2>5
    <3> QED BY <2>3, <2>5, <3>1
  <2>6. CASE client'.hit /\ ~client.hit
    <3>1. client' = Flushed(client) /\ ~Console
      BY <1>1, <1>3, <2>6 DEF RequestIs
    <3>2. Flush(client.sieve).calls > 0
      <4>1. FlushTold(client, client', Flush(client.sieve), Api = "chat")
        BY <1>1, <1>2, <3>1, FlushedTold
      <4> QED BY <2>6, <4>1 DEF FlushTold
    <3>3. NestedAt(Api, "resolve", client)
      BY <2>3, <2>6 DEF SoundAt
    <3>4. client.sieve.buf # <<>> => client.thinking # "open"
      BY <1>1, <1>3, <1>4, <1>7, <3>1 DEF EarlyAt, Attempting
    <3>5. Called(client')
      BY <1>1, <1>2, <1>7, <3>1, <3>2, <3>3, <3>4, FlushCallsNest
    <3> QED BY <2>6, <3>5 DEF SoundAt
  <2> QED BY <2>4, <2>5, <2>6
<1>8. PlainAt(client')
  BY <1>1, <1>7, PlainIs
<1>9. OpenAt(stage', client')
  BY <1>3, <1>7 DEF OpenAt, Attempting
<1>10. ASSUME client'.sieve.buf # <<>>, Api \in BlockApis
       PROVE  client'.sieve = client.sieve /\ client'.thinking = client.thinking
  <2>1. CASE client' = client
    BY <2>1
  <2>2. CASE client' # client
    <3>1. /\ scenario.tools /\ ~client.hit /\ ~Console
          /\ FlushTold(client, client', Flush(client.sieve), Api = "chat")
      BY <2>2, FlushWrites
    <3>2. client'.sieve = Flush(client.sieve).sieve
      BY <3>1 DEF FlushTold
    <3>3. Flush(client.sieve) = Sifted(client.sieve, <<>>, FALSE, 0)
      <4>1. \/ Flush(client.sieve) = Sifted(client.sieve, <<>>, FALSE, 0)
            \/ Flush(client.sieve).sieve = [client.sieve EXCEPT !.buf = <<>>, !.done = TRUE]
        BY DEF Flush, Sifted
      <4>2. client.sieve \in Sieves
        BY <1>2 DEF QuietClient, Clients
      <4> QED BY <1>10, <3>2, <4>1, <4>2 DEF Sieves
    <3>4. Flush(client.sieve).sieve = client.sieve /\ Flush(client.sieve).calls = 0
      BY <3>3 DEF Sifted
    <3>5. ~client'.hit
      BY <3>1, <3>4 DEF FlushTold
    <3> QED BY <1>6, <1>10, <3>2, <3>4, <3>5 DEF SameBlocks
  <2> QED BY <2>1, <2>2
<1>11. EarlyAt(stage', adapter', events', client')
  BY <1>3, <1>4, <1>7, <1>10 DEF EarlyAt, Attempting
<1> QED
  BY <1>3, <1>8, <1>9, <1>11, BlocksThen

LEMMA BlocksResolve ==
    ASSUME StreamTypes, OutInv, BlocksInv, ResolveImage
    PROVE  BlocksInv'
<1> DEFINE d == Embed(client)
<1>1. RequestIs /\ scenario.stream
  BY RequestHolds DEF ResolveImage, OutInv, StreamTypes
<1>2. /\ QuietClient(client) /\ ~client.hit /\ client'.hit = client.hit
      /\ client'.sieve = client.sieve
  BY ResolveWrites DEF ResolveImage
<1>3. /\ scenario' = scenario /\ stage = "resolve" /\ adapter' = adapter /\ events' = events
      /\ stage' = "resolve" /\ client' = [d EXCEPT !.images = @ + 1]
  BY DEF ResolveImage
<1>4. PlainAt(client) /\ EarlyAt(stage, adapter, events, client) /\ OpenAt(stage, client)
  BY BlocksNow
<1>5. ASSUME ~scenario.summary, Api \in BlockApis
      PROVE  /\ SoundAt(Api, "resolve", client') /\ client'.message = client.message
             /\ client'.thinking = client.thinking
  <2>1. NestedAt(Api, "resolve", client)
    BY <1>1, <1>2, <1>3, <1>4, <1>5 DEF OpenAt, Attempting, SoundAt
  <2>2. /\ NestedAt(Api, "resolve", d) /\ d.message = client.message
        /\ d.thinking = client.thinking
    BY <1>1, <1>2, <1>5, <2>1, EmbedNests
  <2>3. d \in Clients
    BY <1>2, EmbedGrows DEF Grown, QuietClient
  <2> HIDE DEF d
  <2>4. SameBlocks(d, client')
    BY <1>3, <2>3 DEF SameBlocks, Clients
  <2> QED BY <1>2, <1>5, <2>2, <2>4, NestedSame DEF SameBlocks, SoundAt
<1>6. PlainAt(client')
  BY <1>1, <1>5, PlainIs
<1>7. OpenAt(stage', client')
  BY <1>3, <1>5 DEF OpenAt
<1>8. EarlyAt(stage', adapter', events', client')
  BY <1>2, <1>3, <1>4, <1>5 DEF EarlyAt
<1> QED
  BY <1>3, <1>6, <1>7, <1>8, BlocksThen

LEMMA BlocksComplete ==
    ASSUME StreamTypes, OutInv, TextInv, BlocksInv, Complete
    PROVE  BlocksInv'
<1> DEFINE d == IF ~client.hit /\ adapter.sources > 0 THEN Embed(client) ELSE client
<1>1. RequestIs /\ scenario.stream
  BY RequestHolds DEF Complete, OutInv, StreamTypes
<1>2. QuietClient(client) /\ client'.hit = client.hit
  BY CompleteWrites
<1>3. /\ scenario' = scenario /\ stage = "resolve" /\ stage' = "sent" /\ client' = Closed(d)
  BY DEF Complete
<1>4. OpenAt(stage, client)
  BY BlocksNow
<1>5. QuietClient(d) /\ d.hit = client.hit
  <2>1. QuietClient(Embed(client)) /\ Embed(client).hit = client.hit
    BY <1>2, EmbedGrows DEF Grown, SameText, QuietClient, Clients
  <2> QED BY <1>2, <2>1
<1>a. client.hit => d = client
  OBVIOUS
<1>6. ASSUME ~scenario.summary, Api \in BlockApis, ~client.hit
      PROVE  NestedAt(Api, "resolve", d)
  <2>1. NestedAt(Api, "resolve", client)
    BY <1>1, <1>3, <1>4, <1>6 DEF OpenAt, Attempting, SoundAt
  <2> QED BY <1>1, <1>2, <1>6, <2>1, EmbedNests
<1> HIDE DEF d
<1>7. PlainAt(client')
  <2> SUFFICES ASSUME ~scenario.summary, Api \in BlockApis,
                      ~(client'.hit /\ client'.message),
                      ~(Api = "responses" /\ client'.thinking = "open" /\ ~client'.message)
               PROVE  BlocksWhole(client'.out)
    BY <1>1, PlainIs DEF PlainAt
  <2>0. CASE client.hit
    <3>1. ~Console
      BY <1>1, <2>0 DEF TextInv, TextAt, RequestIs
    <3>2. Called(client) /\ d = client
      BY <1>1, <1>3, <1>4, <1>a, <2>0 DEF OpenAt, Attempting, SoundAt
    <3>3. ~Closed(client).message
      BY <1>2, <1>3, <2>0, <3>2
    <3> QED BY <1>1, <1>2, <1>3, <2>0, <3>1, <3>2, <3>3, CalledWhole
  <2>1. ~(Api = "responses" /\ d.thinking = "open" /\ ~d.message)
    BY <1>1, <1>3, <1>5, ClosedFlags
  <2>2. CASE ~client.hit
    <3>1. NestedAt(Api, "resolve", d) /\ ~d.hit /\ "resolve" # "open"
      BY <1>5, <1>6, <2>2
    <3> QED BY <1>1, <1>3, <1>5, <2>1, <3>1, ClosedNests
  <2> QED BY <2>0, <2>2
<1>8. stage' \notin Attempting
  BY <1>3 DEF Attempting
<1>9. OpenAt(stage', client') /\ EarlyAt(stage', adapter', events', client')
  BY <1>8 DEF OpenAt, EarlyAt
<1> QED
  BY <1>3, <1>7, <1>9, BlocksThen

LEMMA BlocksInit == Init => BlocksInv
<1> SUFFICES ASSUME Init PROVE BlocksInv
  OBVIOUS
<1>1. RequestIs
  BY RequestHolds DEF Init
<1>2. stage = "reserve" /\ client = NewClient
  BY DEF Init
<1>3. Api \in BlockApis => SoundAt(Api, "open", NewClient)
  BY NestedNew
<1>4. PlainAt(client)
  BY <1>1, <1>2, <1>3, PlainIs
<1>5. stage \notin Attempting
  BY <1>2 DEF Attempting
<1>6. OpenAt(stage, client) /\ EarlyAt(stage, adapter, events, client)
  BY <1>5 DEF OpenAt, EarlyAt
<1> QED
  BY <1>4, <1>6, BlocksNow

LEMMA BlocksNext ==
    StreamTypes /\ OutInv /\ TextInv /\ BlocksInv /\ [Next]_vars => BlocksInv'
<1> SUFFICES ASSUME StreamTypes, OutInv, TextInv, BlocksInv, [Next]_vars PROVE BlocksInv'
  OBVIOUS
<1>0. RequestIs
  BY RequestHolds DEF StreamTypes
<1>1. CASE UNCHANGED vars
  BY <1>0, <1>1, BlocksStay DEF vars, relayed
<1>2. CASE NoAccount \/ Connect \/ EndOfStream \/ Confirm \/ Settle \/ Compose
  <2>1. scenario' = scenario /\ relayed' = relayed
    BY <1>2 DEF NoAccount, Connect, EndOfStream, Confirm, Settle, Compose
  <2>2. stage' \in Attempting => stage \in {"connect", "read"} /\ stage' \in {"read", "flush"}
    BY <1>2 DEF NoAccount, Connect, EndOfStream, Confirm, Settle, AfterSettle, Compose, Attempting
  <2>3. stage' \in Attempting => stage \in Attempting /\ (stage = "open" <=> stage' = "open")
    BY <2>2 DEF Attempting
  <2> QED BY <1>0, <2>1, <2>3, BlocksStay
<1>3. CASE \/ \E e \in Outages : Refused(e) \/ BreaksOff(e)
           \/ ResolveCrashes \/ Disconnect
  <2>1. scenario' = scenario /\ relayed' = relayed /\ stage' \notin Attempting
    BY <1>3 DEF Refused, BreaksOff, ResolveCrashes, Disconnect, Raise, Attempting
  <2> QED BY <1>0, <2>1, BlocksStay
<1>4. CASE Finished \/ \E a \in Accounts : RunSync(a)
  <2>1. scenario' = scenario /\ relayed' = relayed /\ stage' = stage
    BY <1>4 DEF Finished, vars, relayed, RunSync
  <2> QED BY <1>0, <2>1, BlocksStay
<1>5. CASE \E a \in Accounts : Reserve(a)
  BY <1>0, <1>5, BlocksReserve
<1>6. CASE Open
  BY <1>6, BlocksOpen
<1>7. CASE \E f \in scenario.frames : Read(f)
  BY <1>7, BlocksRead
<1>8. CASE Relay
  BY <1>8, BlocksRelay
<1>9. CASE FlushSieve
  BY <1>9, BlocksFlush
<1>10. CASE ResolveImage
  BY <1>10, BlocksResolve
<1>11. CASE Complete
  BY <1>11, BlocksComplete
<1> QED
  BY <1>1, <1>2, <1>3, <1>4, <1>5, <1>6, <1>7, <1>8, <1>9, <1>10, <1>11 DEF Next

\* The blocks of a stream nest, those of text, thoughts and calls: an index is
\* opened once, filled and closed while it is open, and all blocks are closed before
\* the final event, at every endpoint, when thoughts come first and no calls are
\* found while the block of a text is open; the responses endpoint must have had
\* some text or calls.
THEOREM BlocksCorrect == Spec => []PlainBlocksNest
<1>1. Init => TextInv /\ BlocksInv
  BY TextInit, BlocksInit
<1>2. RelayInv /\ TextInv /\ BlocksInv /\ [Next]_vars => TextInv' /\ BlocksInv'
  BY TextNext, BlocksNext DEF RelayInv
<1>3. BlocksInv => PlainBlocksNest
  BY DEF BlocksInv
<1> QED
  BY <1>1, <1>2, <1>3, RelayInvariant, PTL DEF Spec
=============================================================================
