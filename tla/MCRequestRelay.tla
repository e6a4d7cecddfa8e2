--------------------------- MODULE MCRequestRelay ---------------------------
(* Requests of every endpoint, each with the frames its upstream may send.  *)
EXTENDS RequestRelay

Text(pieces) == [kind |-> "text", text |-> pieces]
Line(section, level, text) ==
    [section |-> section, track |-> "latest_updates", level |-> level, text |-> text]
Think(line, tongue, agent) ==
    [kind |-> "think", line |-> line, tongue |-> tongue, agent |-> agent]
Plain(kind) == [kind |-> kind]

Request(api, stream, tools, think, summary, quota, sent) ==
    [api |-> api, stream |-> stream, tools |-> tools, think |-> think,
     summary |-> summary, quota |-> quota, frames |-> sent]

\* Text with tool blocks, cut within tags and between them.
ToolFrames ==
    {Text(<<"word">>), Text(<<"word", "lt">>), Text(<<"open", "call", "lt">>),
     Text(<<"close", "word">>), Text(<<"open", "odd", "alt", "lt">>),
     Text(<<"word", "lt", "open", "call", "lt", "close">>),
     Think(Line("scope", 1, "a"), "en", ""), Plain("stop")}

\* Thoughts of two agents, citations, an image and sources.
MediaFrames ==
    {Think(Line("scope", 1, "a"), "en", "A"), Think(Line("scope", 1, "a"), "en", "B"),
     Text(<<"word">>), Text(<<"cite", "word", "cite2">>), Plain("image"),
     Plain("source"), Plain("stop")}

\* Thoughts that the aggregator holds back, orders and drops.
SummaryFrames ==
    {Think(Line("scope", 1, "a"), "en", ""), Think(Line("evidence", 2, "b"), "zh", ""),
     Think(Line("evidence", 4, "c"), "en", ""), Think(Line("finding", 3, "d"), "none", ""),
     Text(<<"word">>), Plain("stop")}

ConsoleFrames == {Text(<<"word">>), Plain("stop")}

MCScenarios ==
    {Request(api, TRUE, TRUE, TRUE, FALSE, TRUE, ToolFrames) : api \in GrokApis}
    \cup {Request(api, TRUE, FALSE, TRUE, FALSE, FALSE, MediaFrames) : api \in GrokApis}
    \cup {Request("chat", FALSE, TRUE, FALSE, FALSE, TRUE, ToolFrames)}
    \cup {Request("messages", FALSE, FALSE, FALSE, FALSE, TRUE, MediaFrames)}
    \cup {Request("chat", TRUE, FALSE, TRUE, TRUE, FALSE, SummaryFrames)}
    \cup {Request(api, stream, FALSE, FALSE, FALSE, TRUE, ConsoleFrames) :
             api \in ConsoleApis, stream \in BOOLEAN}

\* A chat without tools.
MCChat == {Request("chat", TRUE, FALSE, FALSE, FALSE, FALSE, {Text(<<"word">>), Plain("stop")})}
=============================================================================
