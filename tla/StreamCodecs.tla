---------------------------- MODULE StreamCodecs ----------------------------
(****************************************************************************)
(* Streams that are read piece by piece, in two sections: text from         *)
(* tokens, and messages from bytes.                                         *)
(****************************************************************************)
EXTENDS Naturals, Sequences, SequencesExt, FiniteSets, FiniteSetsExt

-----------------------------------------------------------------------------
(***************************************************************************)
(* tokenizers/src/lib.rs: DecodeStream, Sequence and StopSequenceDecoder, which   *)
(* turn tokens into text one at a time. A tokenizer gives text to a list of        *)
(* tokens; the tokens "x1" and "x2" are the halves of the character "X", and a      *)
(* half on its own is the replacement character.                                    *)
(***************************************************************************)
CONSTANTS Chars,            \* tokens that are one character each
          Prompts,          \* prompt_token_ids
          Offset,           \* INITIAL_INCREMENTAL_DETOKENIZATION_OFFSET
          StopSets,         \* sequences of stop_sequences_hidden, as texts
          Hidden, Visible,  \* stop_token_ids_hidden, stop_token_ids_visible
          MaxTokens

VARIABLES
    decoder,                \* "none", "stream" (DecodeStream) or "stop" (StopSequenceDecoder)
    ids, prefix, read,      \* all_token_ids and the two offsets
    stops, held, stopped,   \* stop_sequences_hidden, the text in state, stopped
    out, prompt             \* the text given to the caller; the prompt's length

decoderVars == <<decoder, ids, prefix, read, stops, held, stopped, out, prompt>>
Token == Chars \cup {"x1", "x2"}
Replacement == "?"

\* A tokenizer's decode: halves that meet are a character.
DecoderDecode(tokens) ==
    FlattenSeq([i \in DOMAIN tokens |->
        IF tokens[i] = "x1" THEN IF i < Len(tokens) /\ tokens[i + 1] = "x2" THEN <<"X">> ELSE <<Replacement>>
        ELSE IF tokens[i] = "x2" THEN IF i > 1 /\ tokens[i - 1] = "x1" THEN <<>> ELSE <<Replacement>>
        ELSE <<tokens[i]>>])

\* The length of a text in bytes.
Bytes(text) ==
    LET width(c) == IF c = "X" THEN 2 ELSE IF c = Replacement THEN 3 ELSE 1
    IN  FoldLeft(LAMBDA n, c : n + width(c), 0, text)
\* The text after the first n bytes, when that is a character's boundary.
After(text, n) ==
    LET at == CHOOSE i \in 0..Len(text) : Bytes(SubSeq(text, 1, i)) = n IN SubSeq(text, at + 1, Len(text))
IsPartial(text) == text # <<>> /\ Last(text) = Replacement

DecoderInit ==
    /\ decoder = "none" /\ ids = <<>> /\ prefix = 0 /\ read = 0
    /\ stops = <<>> /\ held = <<>> /\ stopped = FALSE /\ out = <<>> /\ prompt = 0

\* DecodeStream::new: decoding starts a few tokens before the end of the prompt.
NewStream(tokens) ==
    /\ decoder = "none" /\ decoder' = "stream" /\ ids' = tokens /\ prompt' = Len(tokens)
    /\ prefix' = (IF Len(tokens) > Offset THEN Len(tokens) - Offset ELSE 0) /\ read' = Len(tokens)
    /\ UNCHANGED <<stops, held, stopped, out>>
NewStopDecoder(hidden) ==
    /\ decoder = "none" /\ decoder' = "stop" /\ stops' = hidden
    /\ UNCHANGED <<ids, prefix, read, held, stopped, out, prompt>>

\* The text a new token completes, over the window that starts at prefix: none while the last
\* character may be half of one.
Window(token) ==
    LET all == Append(ids, token)
        before == DecoderDecode(SubSeq(ids, prefix + 1, read))
        now == DecoderDecode(SubSeq(all, prefix + 1, Len(all)))
    IN  [ready |-> Bytes(now) > Bytes(before) /\ ~IsPartial(now), text |-> now, skip |-> Bytes(before)]
Advance(token, ready) ==
    /\ ids' = Append(ids, token)
    /\ prefix' = (IF ready THEN read ELSE prefix)
    /\ read' = (IF ready THEN Len(ids) + 1 ELSE read)

\* Mutant of Step: the window moves on although a character is not whole yet.
StepMovesOn(token) ==
    /\ decoder = "stream" /\ Len(ids) < prompt + MaxTokens
    /\ LET w == Window(token)
       IN  /\ Advance(token, TRUE)
           /\ out' = IF w.ready THEN out \o After(w.text, w.skip) ELSE out
    /\ UNCHANGED <<decoder, stops, held, stopped, prompt>>

\* DecodeStream::step
Step(token) ==
    /\ decoder = "stream" /\ Len(ids) < prompt + MaxTokens
    /\ LET w == Window(token)
       IN  /\ Advance(token, w.ready)
           /\ out' = IF w.ready THEN out \o After(w.text, w.skip) ELSE out
    /\ UNCHANGED <<decoder, stops, held, stopped, prompt>>

DecoderWhole(text) == SelectSeq(text, LAMBDA c : c # Replacement)

\* StopSequenceDecoder::append_token_id: first stop tokens, hidden before visible, then the
\* first stop sequence that begins with all the text that is held back.
AppendTokenId(token) ==
    /\ decoder = "stop" /\ ~stopped /\ Len(ids) < MaxTokens
    /\ LET w == Window(token)
           text == IF w.ready THEN DecoderWhole(After(w.text, w.skip)) ELSE <<>>
           state == held \o text
           match == {i \in DOMAIN stops : IsPrefix(state, stops[i])}
           first == CHOOSE i \in match : \A j \in match : i <= j
       IN  /\ Advance(token, w.ready)
           /\ IF token \in Hidden \cup Visible
                THEN /\ stopped' = TRUE /\ held' = <<>>
                     /\ out' = IF token \in Hidden THEN out ELSE out \o state
              ELSE IF match # {}
                THEN stopped' = (stops[first] = state) /\ held' = state /\ UNCHANGED out
              ELSE out' = out \o state /\ held' = <<>> /\ UNCHANGED stopped
    /\ UNCHANGED <<decoder, stops, prompt>>

DecoderNext ==
    \/ \E tokens \in Prompts : NewStream(tokens)
    \/ \E hidden \in StopSets : NewStopDecoder(hidden)
    \/ \E token \in Token : Step(token) \/ AppendTokenId(token)

-----------------------------------------------------------------------------
\* The pieces of a stream are the text of its tokens: nothing twice, nothing left out but what
\* follows the last whole character, wherever the window starts in a character.
StreamExact ==
    decoder = "stream" => DecoderDecode(SubSeq(ids, 1, read)) = DecoderDecode(SubSeq(ids, 1, prompt)) \o out

\* Until it stops, the stop decoder has given out or holds back every whole character, in order.
NothingLost ==
    decoder = "stop" /\ ~stopped => out \o held = DecoderWhole(DecoderDecode(SubSeq(ids, 1, read)))

-----------------------------------------------------------------------------
(***************************************************************************)
(* The length-prefixed frames of the TCP request plane and the readers     *)
(* that cut a byte stream back into them:                                  *)
(*   "request"  portname, headers and payload, each behind its length      *)
(*              (TcpRequestMessage, read by ZeroCopyTcpDecoder);           *)
(*   "response" one length and the data (TcpResponseCodec);                *)
(*   "twopart"  both lengths and a checksum, then header and data          *)
(*              (TwoPartCodec).                                            *)
(* A message is the sequence of its parts and a part a sequence of cells.  *)
(* A length takes LenWidth cells, most significant first, and its cells    *)
(* are drawn from the same alphabet as the data: nothing but the position  *)
(* in the stream says which is which.  The checksum is one cell.           *)
(***************************************************************************)
CONSTANTS
    Messages,    \* [kind -> set of messages a sender may encode]
    MaxMessage,  \* max_message_size
    Debug,       \* built with debug_assertions: the checksum is computed
    Chunk,       \* bound: cells one read returns at most
    MaxSends     \* bound on messages of a connection

VARIABLES
    codec,       \* the connection's codec, "none" before it is built
    sent,        \* messages the encoder accepted
    refused,     \* the encoder refused one
    wire,        \* cells in flight
    closed,      \* the writer is gone: nothing follows wire
    buf,         \* read_buffer / the codec's src
    got,         \* messages decoded
    end          \* "open", or how the reader ended

wireVars == <<codec, sent, refused, wire, closed, buf, got, end>>

Base == 2
LenWidth == 2
Kinds == {"request", "response", "twopart"}

-----------------------------------------------------------------------------
PutLen(n) == <<n \div Base, n % Base>>
GetLen(b, at) == Base * b[at] + b[at + 1]

\* validate_request_encode_lengths, and the length checks of the responses:
\* every part has to fit its length field.
LengthsFit(m) == \A i \in DOMAIN m : Len(m[i]) < Base * Base

Checksum(m) == IF Debug THEN 1 ELSE 0

\* Requests and responses interleave lengths and parts, a two-part message
\* has a prefix of both lengths and the checksum.
EncodeRequest(m) == FlattenSeq([i \in 1..3 |-> PutLen(Len(m[i])) \o m[i]])
EncodeResponse(m) == PutLen(Len(m[1])) \o m[1]
EncodeTwoPart(m) ==
    PutLen(Len(m[1])) \o PutLen(Len(m[2])) \o <<Checksum(m)>> \o m[1] \o m[2]

Encode(kind, m) ==
    CASE kind = "request" -> EncodeRequest(m)
      [] kind = "response" -> EncodeResponse(m)
      [] kind = "twopart" -> EncodeTwoPart(m)

Total(kind, m) == Len(Encode(kind, m))

\* The lengths at the head of a frame that is long enough to hold them.
PortnameLen(b) == GetLen(b, 1)
HeadersLen(b) == GetLen(b, 1 + LenWidth + PortnameLen(b))
HeaderSize(b) == 3 * LenWidth + PortnameLen(b) + HeadersLen(b)
PayloadLen(b) == GetLen(b, HeaderSize(b) - LenWidth + 1)
PrefixLen == 2 * LenWidth + 1

\* Where a reader stands: the cells it waits for, and whether they are the
\* whole message or only as much of its head as tells the next length.
Need(n) == [need |-> n, whole |-> FALSE]
WireWhole(n) == [need |-> n, whole |-> TRUE]

\* FillStage: PortNameLen, PortNameAndHeadersLen, FullHeader, FullMessage.
RequestStage(b) ==
    IF Len(b) < LenWidth THEN Need(LenWidth)
    ELSE IF Len(b) < 2 * LenWidth + PortnameLen(b) THEN Need(2 * LenWidth + PortnameLen(b))
    ELSE IF Len(b) < HeaderSize(b) THEN Need(HeaderSize(b))
    ELSE WireWhole(HeaderSize(b) + PayloadLen(b))

ResponseStage(b) ==
    IF Len(b) < LenWidth THEN Need(LenWidth) ELSE WireWhole(LenWidth + GetLen(b, 1))

TwoPartStage(b) ==
    IF Len(b) < PrefixLen THEN Need(PrefixLen)
    ELSE WireWhole(PrefixLen + GetLen(b, 1) + GetLen(b, 1 + LenWidth))

Stage(kind, b) ==
    CASE kind = "request" -> RequestStage(b)
      [] kind = "response" -> ResponseStage(b)
      [] kind = "twopart" -> TwoPartStage(b)

Slice(b, from, n) == SubSeq(b, from, from + n - 1)

\* The parts of the frame at the head of b (TcpRequestWireHeader's ranges,
\* the split_to of the Decoders).
WireDecode(kind, b) ==
    CASE kind = "request" ->
            <<Slice(b, 1 + LenWidth, PortnameLen(b)),
              Slice(b, 1 + 2 * LenWidth + PortnameLen(b), HeadersLen(b)),
              Slice(b, 1 + HeaderSize(b), PayloadLen(b))>>
      [] kind = "response" -> <<Slice(b, 1 + LenWidth, GetLen(b, 1))>>
      [] OTHER ->
            <<Slice(b, 1 + PrefixLen, GetLen(b, 1)),
              Slice(b, 1 + PrefixLen + GetLen(b, 1), GetLen(b, 1 + LenWidth))>>

\* Mutant of TryShrink: what is left goes with the buffer.
ShrinkAlways(rest, oversized) == IF oversized THEN <<>> ELSE rest

\* ZeroCopyTcpDecoder::try_shrink_after_split: an oversized buffer is replaced
\* by a fresh one, but only when nothing is left in it.
TryShrink(rest, oversized) == IF oversized /\ rest = <<>> THEN <<>> ELSE rest

-----------------------------------------------------------------------------
WireInit ==
    /\ codec = "none" /\ end = "open"
    /\ sent = <<>> /\ refused = FALSE /\ wire = <<>> /\ closed = FALSE
    /\ buf = <<>> /\ got = <<>>

\* A connection gets its codec (with_capacity, TcpResponseCodec::new,
\* TwoPartCodec::new).
New(kind) ==
    /\ codec = "none"
    /\ codec' = kind
    /\ UNCHANGED <<sent, refused, wire, closed, buf, got, end>>

\* Encode a message onto the connection.  A request's size is checked by its
\* reader only, a response's and a two-part message's by the encoder too.
Send(m) ==
    /\ codec # "none" /\ ~closed /\ Len(sent) < MaxSends
    /\ IF LengthsFit(m) /\ (codec # "request" => Total(codec, m) <= MaxMessage)
       THEN /\ sent' = Append(sent, m)
            /\ wire' = wire \o Encode(codec, m)
            /\ UNCHANGED refused
       ELSE refused' = TRUE /\ UNCHANGED <<sent, wire>>
    /\ UNCHANGED <<codec, closed, buf, got, end>>

\* The writer goes away, and with it any tail of what is in flight.
Close(kept) ==
    /\ codec # "none" /\ ~closed /\ kept <= Len(wire)
    /\ closed' = TRUE
    /\ wire' = SubSeq(wire, 1, kept)
    /\ UNCHANGED <<codec, sent, refused, buf, got, end>>

\* fill_at_least: while the buffer is short of what the stage needs, read what
\* the socket has; no more than Chunk cells at a time.
Fill(n) ==
    LET s == Stage(codec, buf) IN
    /\ codec # "none" /\ end = "open" /\ Len(buf) < s.need
    /\ ~(s.whole /\ s.need > MaxMessage)
    /\ n <= Len(wire)
    /\ buf' = buf \o SubSeq(wire, 1, n)
    /\ wire' = SubSeq(wire, n + 1, Len(wire))
    /\ UNCHANGED <<codec, sent, refused, closed, got, end>>

\* check_tcp_request_max_message_size, enforce_max: the length of a message is
\* checked as soon as it is known, before the message is waited for.
TooLarge ==
    LET s == Stage(codec, buf) IN
    /\ codec # "none" /\ end = "open" /\ s.whole /\ s.need > MaxMessage
    /\ end' = "too_large"
    /\ UNCHANGED <<codec, sent, refused, wire, closed, buf, got>>

\* The whole message is there: split it off (read_message, Decoder::decode).
Take(oversized) ==
    LET s == Stage(codec, buf)
        rest == SubSeq(buf, s.need + 1, Len(buf)) IN
    /\ codec # "none" /\ end = "open"
    /\ s.whole /\ s.need <= MaxMessage /\ Len(buf) >= s.need
    /\ got' = Append(got, WireDecode(codec, buf))
    /\ buf' = IF codec = "request" THEN TryShrink(rest, oversized) ELSE rest
    /\ UNCHANGED <<codec, sent, refused, wire, closed, end>>

\* A read of nothing: the stream is over, cleanly between two messages or in
\* the middle of one (FillStage::into_eof_error, decode_eof).
Eof ==
    LET s == Stage(codec, buf) IN
    /\ codec # "none" /\ end = "open" /\ closed /\ wire = <<>> /\ Len(buf) < s.need
    /\ ~(s.whole /\ s.need > MaxMessage)
    /\ end' = IF buf = <<>> THEN "closed" ELSE "truncated"
    /\ UNCHANGED <<codec, sent, refused, wire, closed, buf, got>>

WireNext ==
    \/ \E kind \in Kinds : New(kind)
    \/ codec # "none" /\ \E m \in Messages[codec] : Send(m)
    \/ \E kept \in 0..Len(wire) : Close(kept)
    \/ \E n \in 1..Chunk : Fill(n)
    \/ TooLarge
    \/ \E oversized \in BOOLEAN : Take(oversized)
    \/ Eof

WireSpec == WireInit /\ [][WireNext]_wireVars

-----------------------------------------------------------------------------
\* Whatever the reads cut the stream into, the reader hands out exactly the
\* messages that were encoded, in order, and its verdict at the end is right:
\* a clean close only between two messages, a truncation only inside one, and
\* a message that is too large stops the reader right in front of it.  While
\* the writer lives no cell is lost between the encoder and the reader.
StreamCutExactly ==
    /\ IsPrefix(got, sent)
    /\ end = "truncated" => got # sent
    /\ end = "too_large" =>
          /\ Len(got) < Len(sent)
          /\ codec = "request" /\ Total(codec, sent[Len(got) + 1]) > MaxMessage
    /\ ~closed => FlattenSeq([i \in DOMAIN got |-> Encode(codec, got[i])]) \o buf \o wire
                    = FlattenSeq([i \in DOMAIN sent |-> Encode(codec, sent[i])])

\* A reader never buffers more than one read past the largest message it may
\* accept or the largest head it has to see before it knows the length.
BufferBounded ==
    Len(buf) < Max({MaxMessage, 3 * LenWidth + 2 * (Base * Base - 1)}) + Chunk
=============================================================================
