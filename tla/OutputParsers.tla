---------------------------- MODULE OutputParsers ----------------------------
(****************************************************************************)
(* lib/parsers: what a model's answer is read into, in three sections:      *)
(* the reasoning in it, the tool calls in it, and the arguments of a        *)
(* call.                                                                    *)
(****************************************************************************)
EXTENDS Naturals, Sequences, SequencesExt, FiniteSets, FiniteSetsExt, Functions

-----------------------------------------------------------------------------
(* parsers/src/reasoning: the parsers that split a model's answer into reasoning  *)
(* and normal text, given the whole answer or chunk by chunk.  A text is a        *)
(* sequence of characters; the tags are three characters long, two of a kind      *)
(* share their first one.                                                         *)
CONSTANTS Texts        \* parser -> the answers it is given

VARIABLES
    reasoningParser,            \* which parser: a name of Texts, "none" before it is made
    answer, fed,       \* the answer and how much of it has been fed
    mode,              \* the parser's fields: in_reasoning, stripped_think_start, prefix_resolved
    buffer, accum,     \* _buffer; gemma's reasoning_accum
    reasoningNormal, reasoning, \* what it has returned
    awkward            \* was a tag cut where this parser does not look for it

reasoningVars == <<reasoningParser, answer, fed, mode, buffer, accum, reasoningNormal, reasoning, awkward>>

Start == <<"<", "t", ">">>      \* <think>, and gemma's <|channel>
End == <<"<", "/", ">">>        \* </think>, and gemma's <channel|>
Tool == <<"<", "k", ">">>       \* KimiK25's tool section
Thought == <<"p", "n">>         \* gemma's "thought" line
ReasoningStarts == <<<<"S", "1", ":">>, <<"S", "2", ":">>>>    \* granite has two of each
ReasoningEnds == <<<<"E", "1", ":">>, <<"E", "2", ":">>>>

ReasoningFind(s, t) ==
             LET at == {i \in 1..Len(s) : i + Len(t) - 1 <= Len(s) /\ SubSeq(s, i, i + Len(t) - 1) = t}
             IN  IF at = {} THEN 0 ELSE Min(at)
ReasoningFrom(s, i) == SubSeq(s, i, Len(s))
ReasoningBefore(s, i) == SubSeq(s, 1, i - 1)
Overlap(s, t) == Max({0} \cup {i \in 1..Len(t) : IsSuffix(SubSeq(t, 1, i), s)})

-----------------------------------------------------------------------------
(* BasicReasoningParser.  Only KimiK25 has a tool token; it, DeepseekR1, Step3  *)
(* and Mistral start in reasoning.                                              *)
ToolAt(kind, s) == IF kind = "kimi_k25" THEN ReasoningFind(s, Tool) ELSE 0
Forced(kind) == kind \in {"force", "kimi_k25"}
ReasoningResult(n, r) == [normal |-> n, reasoning |-> r]

\* detect_and_parse_reasoning, from a cursor on.
RECURSIVE Batch(_, _, _)
Batch(kind, s, in) ==
    IF s = <<>> THEN ReasoningResult(<<>>, <<>>)
    ELSE IF in
    THEN LET t == IF IsPrefix(Start, s) THEN ReasoningFrom(s, Len(Start) + 1) ELSE s
             end == ReasoningFind(t, End)  tool == ToolAt(kind, t)
         IN  IF tool > 0 /\ (end = 0 \/ tool < end) THEN ReasoningResult(ReasoningFrom(t, tool), ReasoningBefore(t, tool))
             ELSE IF end = 0 THEN ReasoningResult(<<>>, t)
             ELSE LET rest == Batch(kind, ReasoningFrom(t, end + Len(End)), FALSE)
                  IN  ReasoningResult(rest.normal, ReasoningBefore(t, end) \o rest.reasoning)
    ELSE LET start == ReasoningFind(s, Start)
         IN  IF start = 0 THEN ReasoningResult(s, <<>>)
             ELSE LET rest == Batch(kind, ReasoningFrom(s, start + Len(Start)), TRUE)
                  IN  ReasoningResult(ReasoningBefore(s, start) \o rest.normal, rest.reasoning)

State(in, stripped, buf, n, r) == [in |-> in, stripped |-> stripped, buf |-> buf, normal |-> n, reasoning |-> r]

\* Mutant of KeepBack: nothing is kept back.
KeepNothing(kind, s, in) == 0
\* How much of the end of the buffer may be the beginning of a tag: at least two characters, so
\* that a lone "<" passes.
KeepBack(kind, s, in) ==
    LET n == IF ~in THEN Overlap(s, Start)
             ELSE Max({Overlap(s, End), IF kind = "kimi_k25" THEN Overlap(s, Tool) ELSE 0})
    IN  IF n >= 2 THEN n ELSE 0

\* parse_reasoning_streaming_incremental: the loop that uses up the buffer.
RECURSIVE Basic(_, _)
Basic(kind, p) ==
    LET s == p.buf  end == ReasoningFind(s, End)  tool == ToolAt(kind, s)  start == ReasoningFind(s, Start)
        keep == KeepBack(kind, s, p.in)
        out == SubSeq(s, 1, Len(s) - keep)  kept == ReasoningFrom(s, Len(s) - keep + 1)
    IN  IF ~p.stripped /\ IsPrefix(Start, s)
        THEN Basic(kind, [p EXCEPT !.buf = ReasoningFrom(s, Len(Start) + 1), !.stripped = TRUE, !.in = TRUE])
        ELSE IF ~p.stripped /\ p.in /\ s # <<>> /\ IsPrefix(s, Start) THEN p
        ELSE IF p.in /\ tool > 0 /\ (end = 0 \/ tool < end)
        THEN State(FALSE, FALSE, <<>>, p.normal \o ReasoningFrom(s, tool), p.reasoning \o ReasoningBefore(s, tool))
        ELSE IF p.in /\ end > 0
        THEN Basic(kind, State(FALSE, FALSE, ReasoningFrom(s, end + Len(End)), p.normal, p.reasoning \o ReasoningBefore(s, end)))
        ELSE IF p.in THEN [p EXCEPT !.reasoning = @ \o out, !.buf = kept]
        ELSE IF start > 0
        THEN Basic(kind, State(TRUE, TRUE, ReasoningFrom(s, start + Len(Start)), p.normal \o ReasoningBefore(s, start), p.reasoning))
        ELSE [p EXCEPT !.normal = @ \o out, !.buf = kept]

-----------------------------------------------------------------------------
(* Gemma4ReasoningParser: a line "thought" at the start of a span is dropped.   *)
StripThought(s) == IF IsPrefix(Thought, s) THEN ReasoningFrom(s, Len(Thought) + 1) ELSE s
GemmaBatch(s) ==
    LET start == ReasoningFind(s, Start)  end == ReasoningFind(s, End)
    IN  IF start = 0 /\ end = 0 THEN ReasoningResult(s, <<>>)
        ELSE IF start = 0 THEN ReasoningResult(ReasoningFrom(s, end + Len(End)), StripThought(ReasoningBefore(s, end)))
        ELSE IF end > start + Len(Start)
             THEN ReasoningResult(ReasoningBefore(s, start) \o ReasoningFrom(s, end + Len(End)),
                                  StripThought(SubSeq(s, start + Len(Start), end - 1)))
             ELSE ReasoningResult(ReasoningBefore(s, start), StripThought(ReasoningFrom(s, start + Len(Start))))

\* resolve_prefix: what of a span's first characters is known not to be the "thought" line.
ResolvePrefix(all, raw) ==
    LET had == Len(all) - Len(raw)
    IN  IF IsPrefix(Thought, all)
        THEN [text |-> ReasoningFrom(raw, (IF had >= Len(Thought) THEN 0 ELSE Len(Thought) - had) + 1), ok |-> TRUE]
        ELSE IF IsPrefix(all, Thought) THEN [text |-> <<>>, ok |-> FALSE]
        ELSE [text |-> all, ok |-> TRUE]
PushReasoning(p, raw) ==
    LET all == p.accum \o raw  r == ResolvePrefix(all, raw)
    IN  [p EXCEPT !.accum = all, !.stripped = @ \/ r.ok,
                  !.reasoning = @ \o (IF p.stripped THEN raw ELSE r.text)]

RECURSIVE ReasoningGemma(_)
ReasoningGemma(p) ==
    LET s == p.buf  start == ReasoningFind(s, Start)  end == ReasoningFind(s, End)
        lap == Overlap(s, IF p.in THEN End ELSE Start)
        out == SubSeq(s, 1, Len(s) - lap)  kept == ReasoningFrom(s, Len(s) - lap + 1)
    IN  IF ~p.in /\ start > 0
        THEN ReasoningGemma([p EXCEPT !.normal = @ \o ReasoningBefore(s, start), !.buf = ReasoningFrom(s, start + Len(Start)),
                                      !.in = TRUE, !.stripped = FALSE, !.accum = <<>>])
        ELSE IF ~p.in THEN [p EXCEPT !.normal = @ \o out, !.buf = kept]
        ELSE IF end > 0
        THEN LET q == PushReasoning(p, ReasoningBefore(s, end))
             IN  ReasoningGemma([q EXCEPT !.buf = ReasoningFrom(s, end + Len(End)), !.in = FALSE, !.stripped = FALSE, !.accum = <<>>])
        ELSE LET q == IF out = <<>> THEN p ELSE PushReasoning(p, out) IN [q EXCEPT !.buf = kept]

-----------------------------------------------------------------------------
(* GraniteReasoningParser: sentences instead of tags, looked for at the start   *)
(* of a chunk only; the first of the list that is present counts.               *)
FirstPresent(tokens, s) == IF ReasoningFind(s, tokens[1]) = 0 /\ ReasoningFind(s, tokens[2]) > 0 THEN tokens[2] ELSE tokens[1]
ReasoningWithout(s, t) == IF ReasoningFind(s, t) = 0 THEN s ELSE ReasoningBefore(s, ReasoningFind(s, t)) \o ReasoningFrom(s, ReasoningFind(s, t) + Len(t))
GraniteBatch(s) ==
    LET start == FirstPresent(ReasoningStarts, s)  end == FirstPresent(ReasoningEnds, s)  rest == ReasoningWithout(s, start)
    IN  IF ReasoningFind(s, start) = 0 THEN ReasoningResult(s, <<>>)
        ELSE IF ReasoningFind(rest, end) = 0 THEN ReasoningResult(<<>>, rest)
        ELSE ReasoningResult(ReasoningFrom(rest, ReasoningFind(rest, end) + Len(end)), ReasoningBefore(rest, ReasoningFind(rest, end)))
Granite(p) ==
    LET start == FirstPresent(ReasoningStarts, p.buf)  end == FirstPresent(ReasoningEnds, p.buf)
        begins == ~p.stripped /\ ReasoningFind(p.buf, start) > 0
        s == IF begins THEN ReasoningWithout(p.buf, start) ELSE p.buf
        in == p.in \/ begins  at == ReasoningFind(s, end)
        q == [p EXCEPT !.stripped = @ \/ begins, !.in = in, !.buf = <<>>]
    IN  IF \E t \in ToSet(ReasoningStarts) \cup ToSet(ReasoningEnds) : IsStrictPrefix(p.buf, t) THEN p
        ELSE IF in /\ at > 0
             THEN [q EXCEPT !.in = FALSE, !.reasoning = @ \o ReasoningBefore(s, at), !.normal = @ \o ReasoningFrom(s, at + Len(end))]
        ELSE IF in THEN [q EXCEPT !.reasoning = @ \o s]
        ELSE [q EXCEPT !.normal = @ \o s]

-----------------------------------------------------------------------------
(* MiniMaxAppendThinkParser gives everything back as normal text behind a       *)
(* <think> of its own.                                                          *)
MiniMax(p) == [p EXCEPT !.normal = @ \o (IF p.stripped THEN <<>> ELSE Start) \o p.buf, !.stripped = TRUE, !.buf = <<>>]

(* GptOssReasoningParser: the harmony library cuts the tokens into messages on  *)
(* channels; "A", "F" and "C" open one on analysis, final or commentary (each   *)
(* is the whole header), "." closes it.                                         *)
Headers == {"A", "F", "C"}
Opens(s, i) == Max({0} \cup {j \in 1..i : s[j] \in Headers})
\* The closed messages, and the one still open: nothing after a ".".
Message(s, i) == [channel |-> s[Opens(s, i)], text |-> SubSeq(s, Opens(s, i) + 1, i)]
ClosedMessages(s) == LET ends == SetToSortSeq({i \in DOMAIN s : s[i] = "."}, <)
             IN  [k \in DOMAIN ends |-> Message(s, ends[k] - 1)]
OpenMessage(s) == IF s = <<>> \/ Last(s) = "." THEN [channel |-> "none", text |-> <<>>] ELSE Message(s, Len(s))

\* The whole answer is divided by position: the last closed message is the normal text and those
\* before it are reasoning; a single one is reasoning, and the open one the normal text.
GptOssBatch(s) ==
    LET msgs == ClosedMessages(s)  text(n) == FlattenSeq([k \in 1..n |-> msgs[k].text])
    IN  CASE msgs = <<>> -> ReasoningResult(<<>>, OpenMessage(s).text)
          [] Len(msgs) = 1 -> ReasoningResult(OpenMessage(s).text, text(1))
          [] OTHER -> ReasoningResult(Last(msgs).text, text(Len(msgs) - 1))

\* A chunk is divided by channel. When none of it is on analysis or final and the commentary
\* channel is open, the chunk itself is the normal text, or the header if no content came yet.
GptOss(p) ==
    LET from == Len(p.accum) + 1  s == p.accum \o p.buf
        on(c) == FlattenSeq([i \in 1..Len(p.buf) |->
                    IF p.buf[i] \in Headers \cup {"."} \/ s[Opens(s, from + i - 1)] # c THEN <<>> ELSE <<p.buf[i]>>])
        raw == IF on("F") \o on("A") # <<>> \/ OpenMessage(s).channel # "C" THEN <<>>
               ELSE IF OpenMessage(s).text = <<>> THEN <<"C">> ELSE p.buf
    IN  [p EXCEPT !.accum = s, !.buf = <<>>, !.normal = @ \o on("F") \o raw, !.reasoning = @ \o on("A")]

-----------------------------------------------------------------------------
ReasoningInit ==
    /\ reasoningParser = "none" /\ answer = <<>> /\ fed = 0 /\ mode = [in |-> FALSE, stripped |-> FALSE]
    /\ buffer = <<>> /\ accum = <<>> /\ reasoningNormal = <<>> /\ reasoning = <<>> /\ awkward = FALSE

\* get_reasoning_parser, and set_in_reasoning when the prompt already opened the block (the
\* answer then does not open it again).
GetReasoningParser(kind, text, opened) ==
    /\ reasoningParser = "none" /\ reasoningParser' = kind /\ answer' = text
    /\ opened => kind = "force" /\ ~IsPrefix(Start, text)
    /\ mode' = [in |-> Forced(kind), stripped |-> opened]
    /\ UNCHANGED <<fed, buffer, accum, reasoningNormal, reasoning, awkward>>

DetectAndParse(kind, s, opened) ==
    CASE kind = "gemma4" -> GemmaBatch(s)
      [] kind = "granite" -> GraniteBatch(s)
      [] kind = "minimax" -> ReasoningResult(Start \o s, <<>>)
      [] kind = "gpt_oss" -> GptOssBatch(s)
      [] OTHER -> Batch(kind, s, Forced(kind))

\* A tag is cut by a chunk's end after its first character (basic), or anywhere while it did not
\* begin the chunk (granite).
Cuts(kind, chunk) ==
    CASE kind = "granite" -> \E t \in ToSet(ReasoningStarts) \cup ToSet(ReasoningEnds) : Overlap(chunk, t) \in 1..Min({2, Len(chunk) - 1})
      [] kind \in {"gemma4", "minimax", "gpt_oss"} -> FALSE
      [] OTHER -> Last(chunk) = "<"

Feed(n) ==
    /\ reasoningParser # "none" /\ fed + n <= Len(answer) /\ fed' = fed + n
    /\ LET chunk == SubSeq(answer, fed + 1, fed + n)
           p == [in |-> mode.in, stripped |-> mode.stripped, buf |-> buffer \o chunk, accum |-> accum,
                 normal |-> reasoningNormal, reasoning |-> reasoning]
           q == CASE reasoningParser = "gemma4" -> ReasoningGemma(p)
                  [] reasoningParser = "granite" -> Granite(p)
                  [] reasoningParser = "minimax" -> MiniMax(p)
                  [] reasoningParser = "gpt_oss" -> GptOss(p)
                  [] OTHER -> LET b == Basic(reasoningParser, State(p.in, p.stripped, p.buf, reasoningNormal, reasoning))
                              IN  [p EXCEPT !.in = b.in, !.stripped = b.stripped, !.buf = b.buf,
                                            !.normal = b.normal, !.reasoning = b.reasoning]
       IN  /\ mode' = [in |-> q.in, stripped |-> q.stripped] /\ buffer' = q.buf /\ accum' = q.accum
           /\ reasoningNormal' = q.normal /\ reasoning' = q.reasoning
           /\ awkward' = (awkward \/ Cuts(reasoningParser, buffer \o chunk))
    /\ UNCHANGED <<reasoningParser, answer>>

ReasoningNext ==
    \/ \E kind \in DOMAIN Texts : \E text \in Texts[kind], opened \in BOOLEAN : GetReasoningParser(kind, text, opened)
    \/ \E n \in 1..4 : Feed(n)

-----------------------------------------------------------------------------
\* The answers that the two ways of reading are agreed on; the code reads every other one
\* differently as a whole and in chunks.
Nowhere(t, s) == ReasoningFind(s, t) = 0
Agreed(kind, s) ==
    CASE kind = "minimax" -> TRUE
      \* one span, which is neither empty nor a part of the "thought" line, and no end without a start
      [] kind = "gemma4" ->
           LET start == ReasoningFind(s, Start)  end == ReasoningFind(s, End)
               span == SubSeq(s, start + Len(Start), IF end = 0 THEN Len(s) ELSE end - 1)
           IN  \/ start = 0 /\ end = 0
               \/ /\ start > 0 /\ (IsStrictPrefix(span, Thought) => span = <<>> /\ end = 0)
                  /\ end > 0 => end > start /\ Nowhere(Start, ReasoningFrom(s, end))
      \* nothing comes before the reasoning, and there is one kind of end
      [] kind = "granite" ->
           /\ \A t \in ToSet(ReasoningStarts) : Nowhere(t, s) \/ IsPrefix(t, s)
           /\ \E i \in {1, 2} : Nowhere(ReasoningEnds[i], s)
      \* all messages are on analysis, but the last one of two or more, on final, and closed if
      \* there are three
      [] kind = "gpt_oss" ->
           LET msgs == ClosedMessages(s) \o (IF OpenMessage(s).channel = "none" THEN <<>> ELSE <<OpenMessage(s)>>)
           IN  /\ \A i \in DOMAIN msgs : msgs[i].channel = IF i = Len(msgs) /\ i > 1 THEN "F" ELSE "A"
               /\ Len(msgs) > 2 => ClosedMessages(s) = msgs
      \* no start right behind a start, none behind a tool section, and none within reasoning
      \* that needs no start
      [] OTHER -> LET end == ReasoningFind(s, End)  first == IF end = 0 THEN s ELSE ReasoningBefore(s, end)
                  IN  /\ Nowhere(Start \o Start, s)
                      /\ ToolAt(kind, s) > 0 => Nowhere(Start, ReasoningFrom(s, ToolAt(kind, s)))
                      /\ Forced(kind) => Nowhere(Start, ReasoningFrom(first, 2))

\* However an answer is cut into chunks, its parts come out as from the whole answer; what is
\* still kept back at the end is at most the beginning of a tag. This holds of the answers that
\* are agreed on and of cuts that are not awkward.
StreamAgrees ==
    reasoningParser # "none" /\ fed = Len(answer) /\ ~awkward /\ Agreed(reasoningParser, answer) =>
        LET whole == DetectAndParse(reasoningParser, answer, mode.stripped)
        IN  /\ reasoningNormal \o (IF mode.in THEN <<>> ELSE buffer) = whole.normal
            /\ reasoning \o (IF mode.in THEN buffer ELSE <<>>) = whole.reasoning
            /\ Len(buffer) < 3

-----------------------------------------------------------------------------
(* parsers/src/tool_calling: finding the tool calls in a model's answer.  A text  *)
(* is a sequence of symbols:                                                      *)
(*   "S" "T" "E" "F"  the parser's start and end tokens (a second one of each)    *)
(*   "C" "D" "A"      the tokens around one call in a block, and its separator    *)
(*   "n" "m"          the name of a tool, and one that is not in the tools list   *)
(*   "i" "j" "l" "k"  JSON: two objects (a call, or its arguments), an array of   *)
(*                    both, and an object cut short outside of a string           *)
(*   "p" "q"          a parameter with its closing tag, and one without           *)
(*   "x"              any other text, which is not blank                          *)
CONSTANTS Pieces,     \* parser -> the pieces of text its model produces
          MaxPieces   \* how many of them an answer has at most

VARIABLES
    callsParser,           \* parser_str, "none" before a message
    callsText,             \* the answer so far
    pieces            \* how many pieces it has

callsVars == <<callsParser, callsText, pieces>>

Objects == {"i", "j"}
Tools == {"n"}

\* str::find from a position on, and rfind: 0 is None.
CallsFind(s, tokens, from) ==
         LET at == {i \in from..Len(s) : s[i] \in tokens} IN IF at = {} THEN 0 ELSE Min(at)
RFind(s, tokens) == Max({0} \cup {i \in 1..Len(s) : s[i] \in tokens})
CallsFrom(s, i) == SubSeq(s, i, Len(s))
CallsBefore(s, i) == SubSeq(s, 1, i - 1)

\* The lazy matches of start(.*?)end that begin at one of `at', one after the other: each as
\* [from, to].
RECURSIVE MatchesAt(_, _, _)
MatchesAt(s, at, end) ==
    LET a == IF at = {} THEN 0 ELSE Min(at)  b == IF a = 0 THEN 0 ELSE CallsFind(s, end, a + 1)
    IN  IF b = 0 THEN <<>>
        ELSE <<[from |-> a, to |-> b]>> \o MatchesAt(s, {i \in at : i > b}, end)
Matches(s, start, end) == MatchesAt(s, {i \in 1..Len(s) : s[i] \in start}, end)
Inside(s, m) == SubSeq(s, m.from + 1, m.to - 1)
Insides(s, ms) == [k \in 1..Len(ms) |-> Inside(s, ms[k])]
\* What is left of the text without the matches.
CallsWithout(s, ms) ==
    LET in(i) == \E k \in 1..Len(ms) : i \in ms[k].from..ms[k].to
        kept[i \in 0..Len(s)] == IF i = 0 THEN <<>> ELSE kept[i - 1] \o (IF in(i) THEN <<>> ELSE <<s[i]>>)
    IN  kept[Len(s)]

Call(name, args) == [name |-> name, args |-> args]
CallsResult(calls, normal) == [calls |-> calls, normal |-> normal]

-----------------------------------------------------------------------------
(* JSON.  A call is an object, which has its name inside.                       *)
ObjectCall(o) == Call(o, <<>>)

\* The parsers with this configuration: their start and end tokens, "" for none.
CallsStarts(kind) == IF kind = "default" THEN <<"S", "T">> ELSE <<"S">>
CallsEnds(kind) == CASE kind \in {"hermes", "nemotron_deci", "jamba"} -> <<"E">>
                [] kind \in {"llama3_json", "phi4"} -> <<"">>
                [] kind \in {"mistral", "default"} -> <<"E", "">>
                [] OTHER -> <<>>
BasicJson == {"hermes", "nemotron_deci", "jamba", "llama3_json", "phi4", "mistral", "default"}

\* build_calls_from_json: `none' where the text is no call and no array.  An array's items
\* that are no calls (arrays in an array) are passed over.
None == [ok |-> FALSE, calls |-> <<>>]
Some(calls) == [ok |-> TRUE, calls |-> calls]
BuildCalls(c) ==
    IF c = <<"l">> THEN Some(<<ObjectCall("j"), ObjectCall("i")>>)
    ELSE IF Len(c) = 1 /\ c[1] \in Objects THEN Some(<<ObjectCall(c[1])>>)
    ELSE None
\* The contents of several blocks, joined as "[a,b]": one array, or not JSON at all.
BuildJoined(cs) ==
    IF \A k \in 1..Len(cs) : BuildCalls(cs[k]).ok
    THEN Some(FlattenSeq([k \in 1..Len(cs) |-> IF cs[k] = <<"l">> THEN <<>> ELSE BuildCalls(cs[k]).calls]))
    ELSE None
\* try_repair_truncated_json, then build_calls_from_json.
Repaired(cs) == IF cs = <<<<"k">>>> THEN <<ObjectCall("k")>> ELSE <<>>
Build(cs) == IF Len(cs) = 1 THEN BuildCalls(cs[1]) ELSE BuildJoined(cs)

\* extract_tool_call_content, and the tail that is taken when there is no end token.
ExtractContent(s, start, end) == Insides(s, Matches(s, {start}, {end}))
ExtractTail(s, start) ==
    LET tail == CallsFrom(s, CallsFind(s, {start}, 1) + 1)
    IN  IF tail # <<>> /\ tail[1] \in Objects \cup {"l", "k"} THEN <<tail>> ELSE <<>>

\* handle_single_token_tool_calls: what is between the start tokens (and before the first),
\* each an object or an array up to its last bracket.
RECURSIVE Split(_, _)
Split(s, t) == LET a == CallsFind(s, {t}, 1)
               IN  IF a = 0 THEN <<s>> ELSE <<CallsBefore(s, a)>> \o Split(CallsFrom(s, a + 1), t)
SingleToken(s, start) ==
    LET item(seg) == IF seg = <<>> THEN <<>>
                     ELSE IF seg[1] \in Objects /\ RFind(seg, Objects \cup {"l"}) = 1 THEN <<seg[1]>>
                     ELSE IF seg[1] = "l" /\ RFind(seg, {"l", "E"}) = 1 THEN <<"j", "i">>
                     ELSE <<>>
        segs == Split(s, start)
    IN  FlattenSeq([k \in 1..Len(segs) |-> item(segs[k])])

\* The first pair of a start and an end token that finds something: the contents, whether they
\* came as items of a list, and the start token.
CallsContent(kind, s, recover) ==
    LET pairs == [k \in 1..(Len(CallsStarts(kind)) * Len(CallsEnds(kind))) |->
                    [start |-> CallsStarts(kind)[((k - 1) \div Len(CallsEnds(kind))) + 1],
                     end   |-> CallsEnds(kind)[((k - 1) % Len(CallsEnds(kind))) + 1]]]
        found(pr) ==
            IF pr.end = ""
            THEN IF Contains(s, pr.start) THEN [ok |-> TRUE, single |-> TRUE, cs |-> SingleToken(s, pr.start)]
                 ELSE [ok |-> FALSE, single |-> TRUE, cs |-> <<>>]
            ELSE LET cs == ExtractContent(s, pr.start, pr.end)
                     all == IF cs = <<>> /\ recover /\ Contains(s, pr.start) THEN ExtractTail(s, pr.start) ELSE cs
                 IN  [ok |-> all # <<>>, single |-> FALSE, cs |-> all]
        hits == {k \in 1..Len(pairs) : found(pairs[k]).ok}
    IN  IF hits = {} THEN [ok |-> FALSE, single |-> FALSE, cs |-> <<>>, start |-> ""]
        ELSE [start |-> pairs[Min(hits)].start] @@ found(pairs[Min(hits)])

\* try_tool_call_parse_basic_json.
BasicParse(kind, s, recover) ==
    IF s = <<>> THEN CallsResult(<<>>, <<>>)
    ELSE IF CallsFind(s, Range(CallsStarts(kind)), 1) = 0
    THEN LET at == CallsFind(s, Objects \cup {"l", "k"} \cup (IF kind = "mistral" THEN {"E"} ELSE {}), 1)
             json == IF at = 0 THEN s ELSE CallsFrom(s, at)
             normal == IF at = 0 THEN s ELSE CallsBefore(s, at)
         IN  IF BuildCalls(json).ok THEN CallsResult(BuildCalls(json).calls, normal)
             ELSE IF recover /\ Repaired(<<json>>) # <<>> THEN CallsResult(Repaired(<<json>>), normal)
             ELSE CallsResult(<<>>, s)
    ELSE LET c == CallsContent(kind, s, recover)
             normal == CallsBefore(s, CallsFind(s, {c.start}, 1))
         IN  IF ~c.ok THEN CallsResult(<<>>, s)
             ELSE IF c.single
             THEN IF c.cs = <<>> THEN CallsResult(<<>>, <<>>)
                  ELSE CallsResult([k \in 1..Len(c.cs) |-> ObjectCall(c.cs[k])], normal)
             ELSE IF Build(c.cs).ok THEN CallsResult(Build(c.cs).calls, normal)
             ELSE IF recover /\ Repaired(c.cs) # <<>> THEN CallsResult(Repaired(c.cs), normal)
             ELSE IF c.cs = <<<<>>>> THEN CallsResult(<<>>, <<>>)
             ELSE CallsResult(<<>>, s)

-----------------------------------------------------------------------------
(* DeepSeek: the block S..E holds calls C..D, with their name and arguments     *)
(* around the separator A.                                                      *)
Names == {"n", "m"}
IsJson(s) == Len(s) = 1 /\ s[1] \in Objects \cup {"l"}

\* parse_single_tool_call_v3: [type] A name newline arguments.
CallV3(b) ==
    LET a == CallsFind(b, {"A"}, 1)  rest == CallsFrom(b, a + 1)
    IN  IF a > 0 /\ rest # <<>> /\ rest[1] \in Names /\ IsJson(Tail(rest)) THEN <<Call(rest[1], Tail(rest))>>
        ELSE <<>>
\* parse_single_tool_call_v3_1: name A arguments.
CallV31(b) ==
    LET a == CallsFind(b, {"A"}, 1)
    IN  IF a = 2 /\ b[1] \in Names /\ IsJson(CallsFrom(b, 3)) THEN <<Call(b[1], CallsFrom(b, 3))>> ELSE <<>>

\* extract_tool_call_blocks_v3 and _v3_1.
Blocks(s) == SelectSeq(Insides(s, Matches(s, {"C"}, {"D"})), LAMBDA b : b # <<>>)

\* parse_tool_calls_deepseek_v3, and the same function of v3_1.
DeepseekV3(s) ==
    LET bs == Blocks(s)  calls == FlattenSeq([k \in 1..Len(bs) |-> CallV3(bs[k])])
    IN  IF ~Contains(s, "E") \/ ~Contains(s, "S") \/ calls = <<>> THEN CallsResult(<<>>, s)
        ELSE CallsResult(calls, CallsBefore(s, CallsFind(s, {"S"}, 1)))
DeepseekV31(s) ==
    LET bs == Blocks(s)  calls == FlattenSeq([k \in 1..Len(bs) |-> CallV31(bs[k])])
    IN  IF ~Contains(s, "E") \/ ~Contains(s, "S") \/ calls = <<>> THEN CallsResult(<<>>, s)
        ELSE CallsResult(calls, CallsBefore(s, CallsFind(s, {"S"}, 1)))

-----------------------------------------------------------------------------
(* XML and DSML: in a block S..E the calls C name parameters D.                 *)
\* parameter_regex: a parameter without its closing tag runs to the next one, or to the end.
RECURSIVE Parameters(_)
Parameters(b) ==
    LET a == CallsFind(b, {"p", "q"}, 1)
    IN  IF a = 0 THEN <<>>
        ELSE IF b[a] = "p" THEN <<<<"p">>>> \o Parameters(CallsFrom(b, a + 1))
        ELSE LET z == CallsFind(b, {"p"}, a)
             IN  IF z = 0 THEN <<CallsFrom(b, a)>> ELSE <<SubSeq(b, a, z)>> \o Parameters(CallsFrom(b, z + 1))

\* parse_tool_call_block: a function without its closing tag runs to the end of the block.
RECURSIVE XmlCalls(_)
XmlCalls(b) ==
    LET a == CallsFind(b, {"C"}, 1)  d == IF a = 0 THEN 0 ELSE CallsFind(b, {"D"}, a)
        end == IF d = 0 THEN Len(b) + 1 ELSE d
    IN  IF a = 0 \/ a + 1 >= end THEN <<>>
        ELSE <<Call(b[a + 1], Parameters(SubSeq(b, a + 2, end - 1)))>> \o XmlCalls(CallsFrom(b, end + 1))

\* extract_tool_calls: text is kept up to the first call.
RECURSIVE XmlFrom(_, _, _)
XmlFrom(s, recover, before) ==
    LET a == CallsFind(s, {"S"}, 1)  e == IF a = 0 THEN 0 ELSE CallsFind(s, {"E"}, a)
        keep(t) == IF before THEN <<>> ELSE t
        calls == XmlCalls(IF e = 0 THEN CallsFrom(s, a) ELSE SubSeq(s, a, e))
        rest == XmlFrom(CallsFrom(s, e + 1), recover, before \/ calls # <<>>)
    IN  IF s = <<>> THEN CallsResult(<<>>, <<>>)
        ELSE IF a = 0 THEN CallsResult(<<>>, keep(s))
        ELSE IF e > 0 THEN CallsResult(calls \o rest.calls, keep(CallsBefore(s, a)) \o rest.normal)
        ELSE IF recover /\ calls # <<>> THEN CallsResult(calls, keep(CallsBefore(s, a)))
        ELSE CallsResult(<<>>, keep(s))

\* extract_invokes, whose calls need their closing tag, as do their parameters.
DsmlCalls(b) ==
    LET at == {i \in 1..(Len(b) - 1) : b[i] = "C" /\ b[i + 1] \in Names}
        ms == Insides(b, MatchesAt(b, at, {"D"}))
    IN  [k \in 1..Len(ms) |-> Call(ms[k][1], SelectSeq(Parameters(Tail(ms[k])), LAMBDA v : Contains(v, "p")))]
\* try_tool_call_parse_dsml.
Dsml(s) ==
    LET ms == Matches(s, {"S"}, {"E"})
        calls == FlattenSeq([k \in 1..Len(ms) |-> DsmlCalls(Inside(s, ms[k]))])
    IN  IF ~Contains(s, "S") THEN CallsResult(<<>>, s)
        ELSE IF calls = <<>> THEN CallsResult(<<>>, CallsBefore(s, CallsFind(s, {"S"}, 1)))
        ELSE CallsResult(calls, CallsWithout(s, ms))

-----------------------------------------------------------------------------
(* GLM-4.7, Kimi K2, Gemma 4.                                                    *)
\* parse_tool_call_block: the name is what comes before the first argument, and a tool.
GlmCall(b) ==
    LET a == CallsFind(b, {"p", "q"}, 1)
        name == IF a = 0 THEN b ELSE CallsBefore(b, a)
        args == SelectSeq(Parameters(b), LAMBDA v : Contains(v, "p"))
    IN  IF Len(name) = 1 /\ name[1] \in Tools THEN <<Call(name[1], args)>> ELSE <<>>

RECURSIVE GlmFrom(_, _)
GlmFrom(s, recover) ==
    LET a == CallsFind(s, {"S"}, 1)  e == IF a = 0 THEN 0 ELSE CallsFind(s, {"E"}, a)
        call == GlmCall(SubSeq(s, a + 1, IF e = 0 THEN Len(s) ELSE e - 1))
        rest == GlmFrom(CallsFrom(s, e + 1), recover)
    IN  IF s = <<>> THEN CallsResult(<<>>, <<>>)
        ELSE IF a = 0 THEN CallsResult(<<>>, s)
        ELSE IF e > 0
        THEN CallsResult(call \o rest.calls,
                         CallsBefore(s, a) \o (IF call = <<>> THEN SubSeq(s, a, e) ELSE <<>>) \o rest.normal)
        ELSE IF recover /\ CallsFind(s, {"p", "q"}, a) > 0 /\ call # <<>> THEN CallsResult(call, CallsBefore(s, a))
        ELSE CallsResult(<<>>, s)

\* parse_section_block: C name A arguments D; arguments that are not JSON stay as they are.
KimiCalls(b) ==
    LET at == {i \in 1..(Len(b) - 2) : b[i] = "C" /\ b[i + 1] \in Names /\ b[i + 2] = "A"}
        ms == MatchesAt(b, at, {"D"})
    IN  [k \in 1..Len(ms) |-> Call(b[ms[k].from + 1], SubSeq(b, ms[k].from + 3, ms[k].to - 1))]
\* extract_tool_calls: a section that is not closed runs to the end.
RECURSIVE KimiFrom(_)
KimiFrom(s) ==
    LET a == CallsFind(s, {"S", "T"}, 1)  e == IF a = 0 THEN 0 ELSE CallsFind(s, {"E", "F"}, a)
        end == IF e = 0 THEN Len(s) ELSE e
        rest == KimiFrom(CallsFrom(s, end + 1))
    IN  IF s = <<>> THEN CallsResult(<<>>, <<>>)
        ELSE IF a = 0 THEN CallsResult(<<>>, s)
        ELSE CallsResult(KimiCalls(SubSeq(s, a, end)) \o rest.calls, CallsBefore(s, a) \o rest.normal)

\* tool_call_regex: S name {..} E, where the arguments run to the first closing brace that has
\* the end token after it.
RECURSIVE GemmaMatches(_, _)
GemmaMatches(s, from) ==
    LET ok(i) == i + 2 <= Len(s) /\ s[i] = "S" /\ s[i + 1] \in Names /\ s[i + 2] \in Objects
        to(i) == {z \in (i + 3)..Len(s) : s[z] = "E" /\ s[z - 1] \in Objects}
        at == {i \in from..Len(s) : ok(i) /\ to(i) # {}}
    IN  IF at = {} THEN <<>>
        ELSE <<[from |-> Min(at), to |-> Min(to(Min(at)))]>> \o GemmaMatches(s, Min(to(Min(at))) + 1)
\* try_tool_call_parse_gemma4: arguments that do not parse become an empty object.
CallsGemma(s) ==
    LET ms == GemmaMatches(s, 1)
        args(m) == IF m.to = m.from + 3 THEN <<s[m.from + 2]>> ELSE <<>>
    IN  CallsResult([k \in 1..Len(ms) |-> Call(s[ms[k].from + 1], args(ms[k]))], CallsWithout(s, ms))

-----------------------------------------------------------------------------
(* Harmony: a text is a sequence of messages, which a library takes apart: "f"  *)
(* and "g" call a function with arguments that are JSON or not, "a" is analysis *)
(* and "o" any other message; "x" is a text the library refuses.                *)
Harmony(s) ==
    IF Contains(s, "x") THEN CallsResult(<<>>, s)
    ELSE LET fs == SelectSeq(s, LAMBDA m : m = "f")
         IN  CallsResult([k \in 1..Len(fs) |-> Call("n", <<"j">>)], SelectSeq(s, LAMBDA m : m = "a"))

\* Python: the first list of calls ("l") is parsed, what comes after it is dropped.
Pythonic(s) ==
    LET a == CallsFind(s, {"l"}, 1)
    IN  IF a = 0 THEN CallsResult(<<>>, s) ELSE CallsResult(<<Call("n", <<"j">>), Call("n", <<"i">>)>>, CallsBefore(s, a))

-----------------------------------------------------------------------------
(* The interface.                                                               *)
\* try_tool_call_parse; only JSON, XML and GLM-4.7 know of recovery.
Parse(kind, s, recover) ==
    CASE kind \in BasicJson       -> BasicParse(kind, s, recover)
      [] kind = "deepseek_v3"     -> DeepseekV3(s)
      [] kind = "deepseek_v3_1"   -> DeepseekV31(s)
      [] kind = "qwen3_coder"     -> XmlFrom(s, recover, FALSE)
      [] kind = "deepseek_v3_2"   -> Dsml(s)
      [] kind = "glm47"           -> GlmFrom(s, recover)
      [] kind = "kimi_k2"         -> KimiFrom(s)
      [] kind = "gemma4"          -> CallsGemma(s)
      [] kind = "harmony"         -> Harmony(s)
      [] kind = "pythonic"        -> Pythonic(s)
Calls(kind, s) == Parse(kind, s, FALSE).calls
WithRecovery(kind, s) == Parse(kind, s, TRUE).calls

\* Mutant of AdvancePast: up to the first end token, not past it.
AdvanceShort(s) == LET e == CallsFind(s, {"E"}, 1) IN IF e = 0 THEN Len(s) ELSE e - 1
\* advance_past_consecutive_blocks and find_tool_call_end_position_xml: past the first end
\* token, and past every whole block that follows at once.
RECURSIVE AdvanceFrom(_, _)
AdvanceFrom(s, cursor) ==
    LET e == IF cursor < Len(s) /\ s[cursor + 1] = "S" THEN CallsFind(s, {"E"}, cursor + 2) ELSE 0
    IN  IF e = 0 THEN cursor ELSE AdvanceFrom(s, e)
AdvancePast(s) ==
    LET e == CallsFind(s, {"E"}, 1) IN IF e = 0 THEN Len(s) ELSE AdvanceFrom(s, e)

\* find_tool_call_end_position; `open' where it is None.
Closed(n) == [open |-> FALSE, at |-> n]
Open == [open |-> TRUE, at |-> 0]
OrAll(s, n) == IF n = 0 THEN Closed(Len(s)) ELSE Closed(n)
EndPosition(kind, s) ==
    CASE kind \in {"hermes", "nemotron_deci", "default", "qwen3_coder"} -> Closed(AdvancePast(s))
      \* The bracket may be the one in the start or the end token.
      [] kind = "mistral"                    -> OrAll(s, RFind(s, {"l", "S", "E"}))
      [] kind = "phi4"                       -> OrAll(s, RFind(s, {"l"}))
      [] kind \in {"deepseek_v3_2", "glm47"} -> OrAll(s, CallsFind(s, {"E"}, 1))
      [] kind = "harmony"                    -> OrAll(s, RFind(s, {"f", "g"}))
      [] kind = "kimi_k2" -> LET e == CallsFind(s, {"E", "F"}, 1) IN IF e = 0 THEN Open ELSE Closed(e)
      [] kind = "gemma4"  -> LET ms == GemmaMatches(s, 1) IN IF ms = <<>> THEN Open ELSE Closed(Last(ms).to)
      [] OTHER            -> Closed(Len(s))

-----------------------------------------------------------------------------
(* Detecting that a chunk begins a call.  Here a chunk is made of characters    *)
(* and Token is the start token.                                                *)
Token == <<"<", "t", "o", ">">>
Has(s, t) == \E i \in 0..(Len(s) - Len(t)) : SubSeq(s, i + 1, i + Len(t)) = t
RECURSIVE Trim(_)
Trim(s) == IF s # <<>> /\ Head(s) = " " THEN Trim(Tail(s))
           ELSE IF s # <<>> /\ Last(s) = " " THEN Trim(Front(s)) ELSE s

\* Mutant of DetectTokens: only whole tokens count.
DetectWhole(chunk) == Has(chunk, Token)
\* detect_tool_call_start of XML, GLM-4.7, Kimi K2, Gemma 4, DSML, Harmony and DeepSeek: the token
\* is in the chunk, or the chunk ends in the middle of it.
DetectTokens(chunk) ==
    \/ Has(chunk, Token)
    \/ \E i \in 1..Len(Token) : IsSuffix(SubSeq(Token, 1, i), chunk)
\* detect_tool_call_start_basic_json: three bytes of the token are enough anywhere, and a bracket.
DetectJson(chunk) ==
    LET s == Trim(chunk)
    IN  /\ s # <<>>
        /\ \/ Has(s, Token)
           \/ \E i \in 1..Len(Token) :
                LET prefix == SubSeq(Token, 1, i)
                IN  s = prefix \/ (i >= 3 /\ Has(s, prefix)) \/ (i < 3 /\ IsSuffix(prefix, s))
           \/ Contains(s, "{") \/ Contains(s, "[")

-----------------------------------------------------------------------------
CallsInit == callsParser = "none" /\ callsText = <<>> /\ pieces = 0

Select == /\ callsParser = "none" /\ callsParser' \in DOMAIN Pieces
          /\ UNCHANGED <<callsText, pieces>>
Append1 == /\ callsParser # "none" /\ pieces < MaxPieces
           /\ \E c \in Pieces[callsParser] : callsText' = callsText \o c
           /\ pieces' = pieces + 1
           /\ UNCHANGED callsParser

CallsNext == Select \/ Append1

CallsSpec == CallsInit /\ [][CallsNext]_callsVars

-----------------------------------------------------------------------------
CallsTypeOK == /\ callsParser \in DOMAIN Pieces \cup {"none"}
               /\ pieces \in 0..MaxPieces
               /\ callsText \in Seq({"S", "T", "E", "F", "C", "D", "A", "n", "m", "i", "j", "l", "k", "p", "q", "x", "f", "g", "a", "o",
                                    "<", "t", ">", " "})

\* The texts a JSON parser is meant for: blocks of one object, the last one perhaps cut short.
Orderly(s) ==
    \A i \in 1..Len(s) :
        /\ s[i] \in {"S", "E", "x"} \cup Objects
        /\ s[i] \in Objects => i > 1 /\ s[i - 1] = "S"
        /\ s[i] = "E" => i > 1 /\ s[i - 1] \in Objects
        /\ s[i] = "S" => i = Len(s) \/ s[i + 1] \in Objects
        /\ s[i] \in Objects => i = Len(s) \/ s[i + 1] = "E"

\* Cutting an answer at find_tool_call_end_position, as the streaming path does, and parsing
\* both parts finds the calls of the whole, in their order.
CutKeepsCalls ==
    (\/ callsParser = "hermes" /\ Orderly(callsText)
     \/ callsParser \in {"qwen3_coder", "deepseek_v3_2", "glm47", "kimi_k2", "gemma4", "pythonic"}
     \/ callsParser = "harmony" /\ ~Contains(callsText, "x"))
    => LET e == EndPosition(callsParser, callsText)
       IN  ~e.open => Calls(callsParser, callsText) = Calls(callsParser, SubSeq(callsText, 1, e.at)) \o Calls(callsParser, CallsFrom(callsText, e.at + 1))

\* However a text is cut into two chunks, the chunk in which the start token begins is found to
\* begin a call.
StartSeen ==
    callsParser \in {"detect_json", "detect_tokens"} =>
        \A cut \in 1..Len(callsText) :
            (\E i \in 0..(cut - 1) : i + Len(Token) <= Len(callsText) /\ SubSeq(callsText, i + 1, i + Len(Token)) = Token)
            => LET chunk == SubSeq(callsText, 1, cut)
               IN  IF callsParser = "detect_json" THEN DetectJson(chunk) ELSE DetectTokens(chunk)

\* Recovery only adds calls at the end, for the parsers whose blocks have one closing token.
RecoveryKeeps ==
    callsParser \notin {"none", "mistral", "default", "detect_json", "detect_tokens"} => IsPrefix(Calls(callsParser, callsText), WithRecovery(callsParser, callsText))

-----------------------------------------------------------------------------
(* parsers/src/tool_calling: the arguments of a tool call.  Gemma 4 has its own   *)
(* notation, read by recursive descent; the other parsers turn the text of a      *)
(* parameter into a JSON value by the type its schema gives; an answer that was   *)
(* cut short is closed (try_repair_truncated_json).  A text is a sequence of      *)
(* symbols: the punctuation, "w" a word of letters, "1" a digit, "-" ".", "Q" the *)
(* string delimiter, "'" a quote, "\" a backslash, "x" anything else.             *)
CONSTANTS Values,     \* the objects that are written and read
          Raws        \* the texts of parameters

VARIABLES
    value,            \* the object that was written
    argsCut               \* how much of it has arrived
argsVars == <<value, argsCut>>

-----------------------------------------------------------------------------
(* How an object is written, in Gemma's notation and in JSON.                   *)
\* A value is [t, v]: an "object" (a sequence of [k, v]), an "array", a "string" or a "number"
\* (symbols), or a "word" (true, false, null).
RECURSIVE Commas(_)
Commas(ss) == IF Len(ss) <= 1 THEN FlattenSeq(ss) ELSE ss[1] \o <<",">> \o Commas(Tail(ss))
RECURSIVE Written(_, _)
Written(v, quote) ==
    CASE v.t = "object" -> <<"{">> \o Commas([k \in 1..Len(v.v) |->
                              (IF quote = "Q" THEN v.v[k].k ELSE <<quote>> \o v.v[k].k \o <<quote>>)
                              \o <<":">> \o Written(v.v[k].v, quote)]) \o <<"}">>
      [] v.t = "array"  -> <<"[">> \o Commas([k \in 1..Len(v.v) |-> Written(v.v[k], quote)]) \o <<"]">>
      [] v.t = "string" -> <<quote>> \o v.v \o <<quote>>
      [] OTHER          -> v.v
Body(v) == LET w == Written(v, "Q") IN SubSeq(w, 2, Len(w) - 1)
Json(v) == Written(v, "'")

-----------------------------------------------------------------------------
(* gemma4/parser.rs.  A cursor is a position; a result is [ok, v, pos].         *)
Ok(v, pos) == [ok |-> TRUE, v |-> v, pos |-> pos]
Bail == [ok |-> FALSE, v |-> [t |-> "word", v |-> <<>>], pos |-> 0]
Peek(s, pos) == IF pos <= Len(s) THEN s[pos] ELSE "eof"
Value(t, v) == [t |-> t, v |-> v]

\* The first position from pos on where no symbol of the set is.
Past(s, pos, set) == Min({i \in pos..(Len(s) + 1) : i = Len(s) + 1 \/ s[i] \notin set})

\* parse_key, try_consume_keyword, parse_number.
ParseKey(s, pos) == LET end == Past(s, pos, {"w", "1", "-", "."})
                    IN  IF end = pos THEN Bail ELSE Ok(SubSeq(s, pos, end - 1), end)
Keyword(s, pos) == Peek(s, pos) = "w" /\ Peek(s, pos + 1) \notin {"w", "1"}
ParseNumber(s, pos) ==
    LET digits == IF Peek(s, pos) = "-" THEN pos + 1 ELSE pos
        int == Past(s, digits, {"1"})
        end == IF Peek(s, int) = "." THEN Past(s, int + 1, {"1"}) ELSE int
    IN  IF int = digits THEN Bail ELSE Ok(Value("number", SubSeq(s, pos, end - 1)), end)

\* Mutant of ParseString: the body ends at the first comma or bracket.
StringToComma(s, pos) ==
    LET end == Min({i \in (pos + 1)..(Len(s) + 1) : i = Len(s) + 1 \/ s[i] \in {"Q", ",", "]", "}"}})
    IN  Ok(Value("string", SubSeq(s, pos + 1, end - 1)), Min({end + 1, Len(s) + 1}))
\* A string runs to the next delimiter, or to the end.
ParseString(s, pos) ==
    LET end == Min({i \in (pos + 1)..(Len(s) + 1) : i = Len(s) + 1 \/ s[i] = "Q"})
    IN  Ok(Value("string", SubSeq(s, pos + 1, end - 1)), Min({end + 1, Len(s) + 1}))

RECURSIVE ParseValue(_, _), ParseObjectBody(_, _, _), ParseArray(_, _, _)
ParseValue(s, pos) ==
    LET c == Peek(s, pos)
    IN  IF c = "Q" THEN ParseString(s, pos)
        ELSE IF c = "{"
        THEN LET o == ParseObjectBody(s, pos + 1, <<>>)
             IN  IF o.ok /\ Peek(s, o.pos) = "}" THEN Ok(o.v, o.pos + 1) ELSE Bail
        ELSE IF c = "["
        THEN IF Peek(s, pos + 1) = "]" THEN Ok(Value("array", <<>>), pos + 2) ELSE ParseArray(s, pos + 1, <<>>)
        ELSE IF Keyword(s, pos) THEN Ok(Value("word", <<"w">>), pos + 1)
        ELSE ParseNumber(s, pos)

\* parse_object_body: an empty one at its end or at a brace; a missing value is an empty string.
ParseObjectBody(s, pos, map) ==
    IF map = <<>> /\ Peek(s, pos) \in {"eof", "}"} THEN Ok(Value("object", <<>>), pos)
    ELSE LET key == ParseKey(s, pos)
             at == key.pos + 1
             v == IF Peek(s, at) \in {"eof", ",", "}"} THEN Ok(Value("string", <<>>), at) ELSE ParseValue(s, at)
             new == Append(map, [k |-> key.v, v |-> v.v])
         IN  IF ~key.ok THEN Bail
             ELSE IF Peek(s, key.pos) # ":" \/ ~v.ok THEN Bail
             ELSE IF Peek(s, v.pos) = "," THEN ParseObjectBody(s, v.pos + 1, new)
             ELSE Ok(Value("object", new), v.pos)

ParseArray(s, pos, items) ==
    LET v == ParseValue(s, pos)  new == Append(items, v.v)
    IN  IF ~v.ok THEN Bail
        ELSE IF Peek(s, v.pos) = "]" THEN Ok(Value("array", new), v.pos + 1)
        ELSE IF Peek(s, v.pos) = "," THEN ParseArray(s, v.pos + 1, new)
        ELSE Bail

\* parse_args_object: nothing may be left.
ParseArgs(s) == LET o == ParseObjectBody(s, 1, <<>>) IN IF o.ok /\ o.pos = Len(s) + 1 THEN o ELSE Bail

-----------------------------------------------------------------------------
(* try_repair_truncated_json.                                                   *)
\* The scanner after a text: the brackets that are open, and whether it is in a string or after a
\* backslash in one.
RECURSIVE Scan(_)
Scan(s) ==
    IF s = <<>> THEN [closers |-> <<>>, in |-> FALSE, escape |-> FALSE]
    ELSE LET z == Scan(Front(s))  c == Last(s)
         IN  IF z.escape THEN [z EXCEPT !.escape = FALSE]
             ELSE IF z.in THEN IF c = "\\" THEN [z EXCEPT !.escape = TRUE]
                               ELSE IF c = "'" THEN [z EXCEPT !.in = FALSE] ELSE z
             ELSE IF c = "'" THEN [z EXCEPT !.in = TRUE]
             ELSE IF c = "{" THEN [z EXCEPT !.closers = <<"}">> \o @]
             ELSE IF c = "[" THEN [z EXCEPT !.closers = <<"]">> \o @]
             ELSE IF c \in {"}", "]"} /\ z.closers # <<>> THEN [z EXCEPT !.closers = Tail(@)]
             ELSE z
\* Mutant of Repair: the backslash that was cut off is forgotten.
RepairNoEscape(s) == LET z == Scan(s) IN s \o (IF z.in THEN <<"'">> ELSE <<>>) \o z.closers
Repair(s) == LET z == Scan(s)
             IN  s \o (IF z.escape THEN <<"\\">> ELSE <<>>) \o (IF z.in THEN <<"'">> ELSE <<>>) \o z.closers

-----------------------------------------------------------------------------
(* The value of a parameter.  A text is one of Raws: what it reads as.          *)
Integral == {"int", "bigint", "integral"}     \* of 64 bits, beyond them, and 1.0
Keeps(t) == [t |-> t, exact |-> TRUE]
AsString == Keeps("string")
\* try_literal_eval, on a text that may also be a Python literal.
Literal(raw) == IF raw \in Integral \cup {"float"} THEN Keeps("number")
                ELSE IF raw \in {"true", "false", "True"} THEN Keeps("bool")
                ELSE IF raw \in {"json", "python"} THEN Keeps("json") ELSE AsString
\* convert_param_value of XML: by the schema's type, else the string.
Convert(raw, type) ==
    IF raw = "null" THEN Keeps("null")
    ELSE CASE type \in {"unknown", "string"} -> AsString
           [] type = "integer" -> IF raw = "int" THEN Keeps("number") ELSE AsString
           \* An integral number goes through an i64, which a large one does not fit.
           [] type = "number"  -> IF raw \in Integral THEN [t |-> "number", exact |-> raw # "bigint"]
                                  ELSE IF raw = "float" THEN Keeps("number") ELSE AsString
           [] type = "boolean" -> [t |-> "bool", exact |-> raw \in {"true", "false", "True"}]
           [] type \in {"object", "other"} -> Literal(raw)
\* coerce_value of GLM-4.7.
Coerce(raw, type) ==
    IF raw = "json" THEN Keeps("json")
    ELSE CASE type = "integer" -> IF raw = "int" THEN Keeps("number") ELSE AsString
           [] type = "number"  -> IF raw \in Integral \cup {"float"} THEN Keeps("number") ELSE AsString
           [] type = "boolean" -> IF raw \in {"true", "false", "True", "yes"} THEN Keeps("bool") ELSE AsString
           [] type = "array"   -> Keeps("json")
           [] type = "null"    -> IF raw = "null" THEN Keeps("null") ELSE AsString
           [] OTHER            -> AsString
\* parse_parameters of DSML: string="true" or JSON, else the string.
Parameter(raw, string) ==
    IF string THEN AsString
    ELSE IF raw \in Integral \cup {"float"} THEN Keeps("number")
    ELSE IF raw \in {"true", "false"} THEN Keeps("bool")
    ELSE IF raw = "null" THEN Keeps("null")
    ELSE IF raw = "json" THEN Keeps("json") ELSE AsString

-----------------------------------------------------------------------------
ArgsInit == value \in Values /\ argsCut = 0
Arrive == argsCut < Len(Json(value)) /\ argsCut' = argsCut + 1 /\ UNCHANGED value
ArgsNext == Arrive
ArgsSpec == ArgsInit /\ [][ArgsNext]_argsVars

-----------------------------------------------------------------------------
ArgsTypeOK == value \in Values /\ argsCut \in 0..Len(Json(value))

\* Gemma's arguments are read as the object they were written from, whatever punctuation is in
\* their strings (gemma4/parser.rs).
RoundTrip == ParseArgs(Body(value)) = Ok(value, Len(Body(value)) + 1)

\* Wherever JSON was cut, the repaired text has every string and every bracket closed, in their
\* order (base_json_parser.rs).
RepairCloses == Scan(Repair(SubSeq(Json(value), 1, argsCut))) = [closers |-> <<>>, in |-> FALSE, escape |-> FALSE]

\* A parameter becomes a value of its schema's type or stays the text it was, with the two
\* exceptions the code states or has: what is no boolean becomes false, and an integral number
\* beyond 64 bits is clamped (xml/parser.rs).  DSML reads a value as the XML formats read a
\* literal, but for Python's spelling and null (dsml/parser.rs).
NothingInvented ==
    \A raw \in Raws : \A type \in {"unknown", "string", "integer", "number", "boolean", "object", "other"} :
        /\ ~Convert(raw, type).exact => type = "boolean" \/ (type = "number" /\ raw = "bigint")
        /\ Coerce(raw, type).t = "number" => type \in {"integer", "number"}
        /\ raw \notin {"True", "python", "null"} => Parameter(raw, FALSE) = Literal(raw)
=============================================================================
