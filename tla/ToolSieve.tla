------------------------------ MODULE ToolSieve ------------------------------
(***************************************************************************)
(* The sieve between the text of a model and the client                    *)
(* (app/products/openai/_tool_sieve.py) and the parser of the block it     *)
(* cuts out (app/dataplane/reverse/protocol/tool_parser.py).               *)
(*                                                                         *)
(* A text is a sequence of pieces, cut where the code tells texts apart:   *)
(*   "word"   plain text                                                   *)
(*   "lt"     the character <, which begins an opening and a closing tag   *)
(*   "open"   the rest of an opening tag, tool_calls>                      *)
(*   "close"  the rest of a closing tag, /tool_calls>                      *)
(*   "call"   a well-formed call of a tool the request declares            *)
(*   "odd"    a well-formed call of a tool it does not declare             *)
(*   "alt"    a call in one of the other formats that the parser accepts   *)
(*   "cite", "cite2"  citation marks of two sources (see GrokStream)       *)
(* Tags are in lower case, as the prompt asks for them.                    *)
(***************************************************************************)
EXTENDS Integers, SequencesExt

Pieces == {"word", "lt", "open", "close", "call", "odd", "alt", "cite", "cite2"}

\* Where a tag that goes on with `rest` begins.
Tags(text, rest) ==
    {i \in 1 .. Len(text) - 1 : text[i] = "lt" /\ text[i + 1] = rest}

LeastOf(S) == CHOOSE i \in S : \A j \in S : i <= j

\* Where the calls of the first complete <tool_calls> block stand.
ParseXmlToolCalls(text) ==
    LET opens == Tags(text, "open")
        closes == {j \in Tags(text, "close") : \E i \in opens : i < j}
    IN  IF closes = {} THEN {}
        ELSE {i \in 1 .. Len(text) : /\ text[i] \in {"call", "odd"}
                                     /\ \E o \in opens : o < i
                                     /\ \A j \in closes : i < j}

\* JSON envelope, JSON array and the other tags: one piece here.
ParseOtherCalls(text) == {i \in 1 .. Len(text) : text[i] = "alt"}

ParseToolCalls(text) ==
    LET xml == ParseXmlToolCalls(text)
        found == IF xml # {} THEN xml ELSE ParseOtherCalls(text)
    IN  [saw |-> Tags(text, "open") # {} \/ ParseOtherCalls(text) # {},
         calls |-> Cardinality({i \in found : text[i] # "odd"})]

NewSieve == [buf |-> <<>>, capturing |-> FALSE, done |-> FALSE]

\* What feed and flush return: the sieve, the text that may go to the client
\* and, when hit, how many calls were found.
Sifted(sieve, safe, hit, calls) ==
    [sieve |-> sieve, safe |-> safe, hit |-> hit, calls |-> calls]

FeedCapturing(s, chunk) ==
    LET buf == s.buf \o chunk
        closes == Tags(buf, "close")
        parsed == ParseToolCalls(SubSeq(buf, 1, LeastOf(closes) + 1))
    IN  IF closes = {} THEN Sifted([s EXCEPT !.buf = buf], <<>>, FALSE, 0)
        ELSE Sifted([buf |-> <<>>, capturing |-> FALSE, done |-> TRUE],
                    <<>>, parsed.saw, parsed.calls)

\* A sieve that forwards the beginning of a tag (mutant).
SplitNowhere(text) == [safe |-> text, leftover |-> <<>>]

\* A piece at the end that may be the beginning of a tag stays behind.
SplitAtBoundary(text) ==
    IF text # <<>> /\ Last(text) = "lt"
    THEN [safe |-> Front(text), leftover |-> <<"lt">>]
    ELSE [safe |-> text, leftover |-> <<>>]

FeedScanning(s, chunk) ==
    LET text == s.buf \o chunk
        opens == Tags(text, "open")
        at == LeastOf(opens)
        cut == SplitAtBoundary(text)
    IN  IF opens = {}
        THEN Sifted([s EXCEPT !.buf = cut.leftover], cut.safe, FALSE, 0)
        ELSE [FeedCapturing([s EXCEPT !.buf = SubSeq(text, at, Len(text)),
                                      !.capturing = TRUE], <<>>)
              EXCEPT !.safe = SubSeq(text, 1, at - 1)]

Sieve(s, chunk) ==
    IF s.done \/ chunk = <<>>
    THEN Sifted(s, IF s.capturing THEN <<>> ELSE chunk, FALSE, 0)
    ELSE IF s.capturing THEN FeedCapturing(s, chunk) ELSE FeedScanning(s, chunk)

Flush(s) ==
    LET parsed == ParseToolCalls(s.buf)
    IN  IF s.done \/ s.buf = <<>> THEN Sifted(s, <<>>, FALSE, 0)
        ELSE Sifted([s EXCEPT !.buf = <<>>, !.done = TRUE],
                    <<>>, parsed.saw, parsed.calls)
=============================================================================
