------------------------ MODULE StreamProtocol_proofs ------------------------
(***************************************************************************)
(* That a response is never cut short unnoticed, for any number of items and  *)
(* any capacity of the channels, whatever breaks, resets or races.           *)
(*                                                                         *)
(* What the worker has put and the server has still to read is one line of    *)
(* frames.  OrderInv says that complete_final is the last thing in it, in     *)
(* the server's hand and in the channel to the consumer.  CountInv says at    *)
(* which place it is: the items given to the consumer, those on their way and *)
(* those ahead of it in the line are all there are.  It holds as long as the  *)
(* consumer wants the stream and has not stopped it; that nothing else stops  *)
(* the engine early while its frames still get through is QuietInv.          *)
(***************************************************************************)
EXTENDS StreamProtocol, TLAPS

\* The frames that the server may still read, if the connection holds.
Line(k)  == IF k <= Len(up) THEN up[k] ELSE bytes[k - Len(up)]
LineLen  == Len(up) + (IF cut = "no" THEN Len(bytes) ELSE 0)
Payload  == {"data", "final"}

StreamType ==
    /\ up \in Seq(UpFrame) /\ bytes \in Seq(UpFrame) /\ responses \in Seq(Payload)
    /\ got \in Nat /\ made \in Nat

\* The consumer holds the stream; it also has not been told to stop; and the
\* server goes on reading.  None of them is ever true again once it is false.
Wanted  == cons \in {"wait", "open"}
Live    == Wanted /\ fctx = "live"
Reading == Live /\ srv \notin {"kill", "over"}

NothingAhead == \A k \in 1..LineLen : Line(k) \notin Payload
NoFinal ==
    /\ ~final /\ srv # "final" /\ \A k \in 1..Len(responses) : responses[k] # "final"
    /\ \A k \in 1..LineLen : Line(k) # "final"

\* Nothing comes after complete_final, wherever it is.
OrderInv ==
    Wanted =>
        /\ pub # "done" => NoFinal
        /\ \A j, k \in 1..LineLen : j < k /\ Line(j) = "final" => Line(k) \notin Payload
        /\ srv = "final" => NothingAhead /\ ~final
        /\ \A k \in 1..Len(responses) : responses[k] = "final" =>
              k = Len(responses) /\ srv \notin Payload /\ NothingAhead /\ ~final
        /\ final => responses = <<>> /\ srv \notin Payload /\ NothingAhead

\* While the frames get through, nothing has stopped the engine, or it can no
\* longer send anything.
QuietInv ==
    Reading /\ cut = "no" =>
        /\ srv # "stop" /\ control = <<>> /\ down = <<>>
        /\ wctx = "live" \/ (pub = "done" /\ writer = "done")

\* The prologue and the items that the server has taken from the line.
Taken ==
    got + Len(responses) + (IF srv = "data" THEN 1 ELSE 0) + (IF srv = "prologue" THEN 0 ELSE 1)

\* As long as the engine has not ended and its frames get through, everything it
\* has made was taken or is in the line.
EvenInv ==
    Reading /\ cut = "no" /\ writer # "done" /\ pub # "done" =>
        Taken + LineLen = made + (IF pub = "run" THEN 1 ELSE 0)

\* Where complete_final is, that many items are ahead of it.
PlaceInv ==
    /\ Reading => \A k \in 1..LineLen : Line(k) = "final" => Taken + k = Items + 2
    /\ Live =>
        /\ srv = "final" => got + Len(responses) = Items
        /\ \A k \in 1..Len(responses) : responses[k] = "final" => got + k = Items + 1
        /\ final => got = Items

CountInv == EvenInv /\ PlaceInv

\* generate() returns the stream once the server has the prologue.
OpenInv == cons = "open" => srv # "prologue"

StreamInv == StreamType /\ OpenInv /\ OrderInv /\ QuietInv /\ CountInv /\ CompleteOrFlagged

-----------------------------------------------------------------------------
LEMMA LineType ==
    ASSUME StreamType
    PROVE  /\ Len(up) \in Nat /\ Len(bytes) \in Nat /\ Len(responses) \in Nat
           /\ LineLen \in Nat /\ Taken \in Nat
BY DEF StreamType, LineLen, Taken

LEMMA InitStream == Init => StreamInv
<1> SUFFICES ASSUME Init PROVE StreamInv
    OBVIOUS
<1>1. up = <<>> /\ bytes = <<>> /\ responses = <<>> /\ cut = "no" /\ srv = "prologue" /\ got = 0
    BY DEF Init
<1>2. LineLen = 0 /\ Taken = 0 /\ Len(responses) = 0
    <2>1. Len(up) = 0 /\ Len(bytes) = 0 /\ Len(responses) = 0
        BY <1>1
    <2>2. QED
        BY <1>1, <2>1 DEF LineLen, Taken
<1>3. 1..LineLen = {} /\ 1..Len(responses) = {}
    BY <1>2
<1>4. StreamType /\ OpenInv /\ QuietInv /\ CompleteOrFlagged
    <2>1. StreamType
        BY DEF Init, StreamType
    <2>2. OpenInv /\ QuietInv /\ CompleteOrFlagged
        BY DEF Init, OpenInv, QuietInv, CompleteOrFlagged
    <2>3. QED
        BY <2>1, <2>2
<1>5. OrderInv
    BY <1>3 DEF Init, OrderInv, NoFinal, NothingAhead
<1>6. CountInv
    BY <1>2, <1>3 DEF Init, CountInv, EvenInv, PlaceInv
<1>7. QED
    BY <1>4, <1>5, <1>6 DEF StreamInv

\* The line keeps its frames, loses some at the end or gets frames there that are
\* neither an item nor complete_final.
LineKept ==
    \A k \in 1..LineLen' : (k \in 1..LineLen /\ Line(k)' = Line(k)) \/ Line(k)' \notin Payload

\* Then the server and the consumer see no difference.
LEMMA LineShrinks ==
    ASSUME StreamInv, StreamType', LineKept, UNCHANGED <<srv, responses, consVars>>,
           pub' # "done" => pub # "done", QuietInv', EvenInv'
    PROVE  StreamInv'
<1> USE DEF StreamInv, CountInv
<1>1. UNCHANGED <<fctx, cons, got, final, late, srv, responses>> /\ Taken' = Taken
    BY DEF consVars, Taken
<1>2. (Wanted' <=> Wanted) /\ (Live' <=> Live) /\ (Reading' <=> Reading)
    BY <1>1 DEF Wanted, Live, Reading
<1>3. NothingAhead => NothingAhead'
    BY DEF NothingAhead, LineKept
<1>4. NoFinal => NoFinal'
    BY <1>1 DEF NoFinal, LineKept, Payload
<1>5. OrderInv'
    <2>1. SUFFICES ASSUME Wanted PROVE OrderInv'
        BY <1>2 DEF OrderInv
    <2>2. ASSUME NEW j \in 1..LineLen', NEW k \in 1..LineLen', j < k, Line(j)' = "final"
          PROVE  Line(k)' \notin Payload
        BY <2>1, <2>2 DEF OrderInv, LineKept, Payload
    <2>3. QED
        BY <1>1, <1>3, <1>4, <2>1, <2>2 DEF OrderInv
<1>6. PlaceInv'
    BY <1>1, <1>2 DEF PlaceInv, LineKept, Payload
<1>7. CompleteOrFlagged' /\ OpenInv'
    BY <1>1 DEF CompleteOrFlagged, OpenInv
<1>8. QED
    BY <1>5, <1>6, <1>7

\* A frame f that handle_payload puts is at the end of the line, if the line goes on.
LEMMA PutLine ==
    ASSUME StreamType, NEW f \in UpFrame, Put(f), UNCHANGED <<up, cut>>
    PROVE  /\ bytes' \in Seq(UpFrame)
           /\ \A k \in 1..LineLen : Line(k)' = Line(k)
           /\ (writer = "done" \/ cut # "no") => LineLen' = LineLen
           /\ (writer # "done" /\ cut = "no") =>
                 LineLen' = LineLen + 1 /\ \A k \in 1..LineLen' : k > LineLen => Line(k)' = f
<1>1. CASE writer = "done" \/ cut # "no"
    BY <1>1 DEF StreamType, Put, Line, LineLen
<1>2. CASE writer # "done" /\ cut = "no"
    <2>1. bytes' = Append(bytes, f) /\ Len(bytes') = Len(bytes) + 1
        BY <1>2 DEF Put, StreamType
    <2>2. \A k \in 1..Len(bytes) : bytes'[k] = bytes[k]
        BY <2>1 DEF StreamType
    <2>3. QED
        <3>1. LineLen = Len(up) + Len(bytes) /\ LineLen' = LineLen + 1
            BY <1>2, <2>1, LineType DEF LineLen
        <3>2. ASSUME NEW k \in 1..LineLen PROVE Line(k)' = Line(k)
            BY <2>1, <2>2, <3>1, LineType DEF Line
        <3>3. ASSUME NEW k \in 1..LineLen', k > LineLen PROVE Line(k)' = f
            BY <3>3, <2>1, <3>1, LineType DEF Line, StreamType
        <3>4. QED
            BY <1>2, <2>1, <3>1, <3>2, <3>3 DEF StreamType
<1>3. QED
    BY <1>1, <1>2

\* The first frame is taken: the others move up by one.
LEMMA LineMoves ==
    ASSUME StreamType, up # <<>>, up' = Tail(up), UNCHANGED <<bytes, cut>>
    PROVE  /\ up' \in Seq(UpFrame) /\ LineLen' = LineLen - 1 /\ LineLen \in Nat /\ 1 \in 1..LineLen
           /\ Line(1) = Head(up)
           /\ \A k \in 1..LineLen' : k + 1 \in 1..LineLen /\ Line(k)' = Line(k + 1)
<1>1. /\ up' \in Seq(UpFrame) /\ Len(up') = Len(up) - 1 /\ Len(up) > 0 /\ Head(up) = up[1]
      /\ \A k \in 1..Len(up') : up'[k] = up[k + 1]
    BY DEF StreamType
<1>2. LineLen' = LineLen - 1 /\ LineLen \in Nat /\ LineLen >= Len(up)
    BY <1>1, LineType DEF LineLen
<1>3. ASSUME NEW k \in 1..LineLen' PROVE Line(k)' = Line(k + 1)
    <2>1. k \in Nat /\ k >= 1 /\ Len(up) \in Nat
        BY <1>2, LineType
    <2>2. CASE k <= Len(up')
        BY <1>1, <2>1, <2>2 DEF Line
    <2>3. CASE k > Len(up')
        BY <1>1, <2>1, <2>3 DEF Line
    <2>4. QED
        BY <1>1, <2>1, <2>2, <2>3
<1>4. QED
    BY <1>1, <1>2, <1>3, LineType DEF Line

\* What is left of a line that is cut.
LEMMA CutLine ==
    ASSUME StreamType, cut' # "no",
           \/ up' = up
           \/ \E e \in {"eof", "err"} : up' = Append(up, e)
           \/ \E e \in {"eof", "err"}, n \in 0..Len(up) : up' = Append(SubSeq(up, 1, n), e)
    PROVE  up' \in Seq(UpFrame) /\ LineKept
<1>1. CASE up' = up
    BY <1>1, LineType DEF StreamType, LineKept, LineLen, Line
<1>2. ASSUME NEW e \in {"eof", "err"}, NEW q \in Seq(UpFrame), Len(q) <= Len(up),
             \A k \in 1..Len(q) : q[k] = up[k], up' = Append(q, e)
      PROVE  up' \in Seq(UpFrame) /\ LineKept
    <2>1. /\ up' \in Seq(UpFrame) /\ Len(up') = Len(q) + 1 /\ Len(q) \in Nat /\ up'[Len(q) + 1] = e
          /\ \A k \in 1..Len(q) : up'[k] = q[k]
        BY <1>2 DEF UpFrame
    <2>2. LineLen' = Len(q) + 1 /\ LineLen >= Len(up)
        BY <2>1, LineType DEF LineLen
    <2>3. ASSUME NEW k \in 1..(Len(q) + 1)
          PROVE  (k \in 1..LineLen /\ Line(k)' = Line(k)) \/ Line(k)' \notin Payload
        <3>1. Line(k)' = up'[k] /\ k \in Nat
            BY <2>1, <2>3 DEF Line
        <3>2. CASE k = Len(q) + 1
            BY <1>2, <2>1, <3>1, <3>2 DEF Payload
        <3>3. CASE k # Len(q) + 1
            BY <1>2, <2>1, <2>2, <2>3, <3>1, <3>3, LineType DEF Line
        <3>4. QED
            BY <3>2, <3>3
    <2>4. QED
        BY <2>1, <2>2, <2>3 DEF LineKept
<1>3. ASSUME NEW n \in 0..Len(up)
      PROVE  /\ SubSeq(up, 1, n) \in Seq(UpFrame) /\ Len(SubSeq(up, 1, n)) <= Len(up)
             /\ \A k \in 1..Len(SubSeq(up, 1, n)) : SubSeq(up, 1, n)[k] = up[k]
    BY LineType DEF StreamType
<1>4. CASE \E e \in {"eof", "err"} : up' = Append(up, e)
    BY <1>2, <1>4, LineType DEF StreamType
<1>5. CASE \E e \in {"eof", "err"}, n \in 0..Len(up) : up' = Append(SubSeq(up, 1, n), e)
    <2>1. PICK e \in {"eof", "err"}, n \in 0..Len(up) : up' = Append(SubSeq(up, 1, n), e)
        BY <1>5
    <2>2. QED
        BY <1>2, <1>3, <2>1
<1>6. QED
    BY <1>1, <1>4, <1>5

-----------------------------------------------------------------------------
(* handle_payload                                                            *)

LEMMA EngineStep ==
    ASSUME StreamInv, Engine
    PROVE  StreamInv'
<1> USE DEF StreamInv, CountInv
\* The prologue, or a refusal.
<1>1. CASE GenerateOk \/ GenerateErr
    <2>1. /\ UNCHANGED <<made, wctx, writer, srv, control, responses, consVars, up, down, cut>>
          /\ pub = "start" /\ pub' \in {"run", "done"}
        BY <1>1 DEF GenerateOk, GenerateErr, wireVars, serverVars
    <2>2. PICK f \in {"prologue", "refusal"} : Put(f)
        BY <1>1 DEF GenerateOk, GenerateErr
    <2>3. StreamType' /\ LineKept
        <3>1. /\ bytes' \in Seq(UpFrame) /\ LineLen \in Nat
              /\ \A k \in 1..LineLen : Line(k)' = Line(k)
              /\ LineLen' \in {LineLen, LineLen + 1}
              /\ \A k \in 1..LineLen' : k > LineLen => Line(k)' \in {"prologue", "refusal"}
            BY <2>1, <2>2, PutLine, LineType DEF UpFrame
        <3>2. StreamType'
            BY <2>1, <3>1 DEF StreamType, consVars
        <3>3. ASSUME NEW k \in 1..LineLen'
              PROVE  (k \in 1..LineLen /\ Line(k)' = Line(k)) \/ Line(k)' \notin Payload
            <4>1. CASE k <= LineLen
                BY <3>1, <4>1
            <4>2. CASE k > LineLen
                BY <3>1, <4>2 DEF Payload
            <4>3. QED
                BY <3>1, <4>1, <4>2
        <3>4. QED
            BY <3>2, <3>3 DEF LineKept
    <2>4. (Reading' <=> Reading) /\ Taken' = Taken
        BY <2>1 DEF Reading, Live, Wanted, Taken, consVars
    <2>5. QuietInv'
        BY <2>1, <2>4 DEF QuietInv
    <2>6. EvenInv'
        BY <2>1, <2>2, <2>4, PutLine, LineType DEF EvenInv, UpFrame, StreamType
    <2>7. QED
        BY <2>1, <2>3, <2>5, <2>6, LineShrinks
<1>2. CASE PublishFails
    <2>1. /\ UNCHANGED <<made, bytes, writer, srv, control, responses, consVars, up, down, cut>>
          /\ pub' = "done" /\ writer = "done" /\ pub = "run"
        BY <1>2 DEF PublishFails, wireVars, serverVars
    <2>2. StreamType' /\ LineKept
        BY <2>1, LineType DEF StreamType, LineKept, Line, LineLen, consVars
    <2>3. QuietInv' /\ EvenInv'
        BY <2>1 DEF QuietInv, EvenInv, Reading, Live, Wanted, consVars
    <2>4. QED
        BY <2>1, <2>2, <2>3, LineShrinks
\* An item goes to the end of a line without complete_final.
<1>3. CASE Publish
    <2>1. /\ UNCHANGED <<pub, wctx, writer, srv, control, responses, fctx, cons, got, final, late>>
          /\ UNCHANGED <<up, down, cut>>
          /\ pub = "run" /\ made' = made + 1 /\ writer # "done" /\ Put("data")
        BY <1>3 DEF Publish, wireVars, serverVars, consVars
    <2>2. /\ StreamType' /\ LineLen \in Nat /\ Taken' = Taken /\ Taken \in Nat
          /\ \A k \in 1..LineLen : Line(k)' = Line(k)
          /\ cut # "no" => LineLen' = LineLen
          /\ cut = "no" => LineLen' = LineLen + 1
          /\ \A k \in 1..LineLen' : k > LineLen => Line(k)' = "data"
        BY <2>1, PutLine, LineType DEF StreamType, UpFrame, Taken
    <2>3. \A k \in 1..LineLen' : Line(k)' = "final" => k \in 1..LineLen /\ Line(k) = "final"
        BY <2>2
    <2>4. (Wanted' <=> Wanted) /\ (Live' <=> Live) /\ (Reading' <=> Reading)
        BY <2>1 DEF Wanted, Live, Reading
    <2>5. Wanted => NoFinal /\ NoFinal'
        BY <2>1, <2>3 DEF OrderInv, NoFinal
    <2>6. OrderInv'
        BY <2>4, <2>5 DEF OrderInv, NoFinal
    <2>7. EvenInv'
        BY <2>1, <2>2, <2>4 DEF EvenInv, StreamType
    <2>8. PlaceInv' /\ QuietInv'
        BY <2>1, <2>2, <2>3, <2>4 DEF PlaceInv, QuietInv
    <2>9. CompleteOrFlagged' /\ OpenInv'
        BY <2>1 DEF CompleteOrFlagged, OpenInv
    <2>10. QED
        BY <2>2, <2>6, <2>7, <2>8, <2>9
\* complete_final: if it gets through to a consumer that wants it, the engine was
\* not stopped, so that everything has been made.
<1>4. CASE Finish
    <2>1. /\ UNCHANGED <<made, wctx, writer, srv, control, responses, fctx, cons, got, final, late>>
          /\ UNCHANGED <<up, down, cut>>
          /\ pub = "run" /\ pub' = "done" /\ Put("final") /\ (made = Items \/ wctx # "live")
        BY <1>4 DEF Finish, wireVars, serverVars, consVars
    <2>2. /\ StreamType' /\ LineLen \in Nat /\ Taken' = Taken /\ Taken \in Nat
          /\ \A k \in 1..LineLen : Line(k)' = Line(k)
          /\ (writer = "done" \/ cut # "no") => LineLen' = LineLen
          /\ (writer # "done" /\ cut = "no") =>
                LineLen' = LineLen + 1 /\ \A k \in 1..LineLen' : k > LineLen => Line(k)' = "final"
        BY <2>1, PutLine, LineType DEF StreamType, UpFrame, Taken
    <2>3. (Wanted' <=> Wanted) /\ (Live' <=> Live) /\ (Reading' <=> Reading)
        BY <2>1 DEF Wanted, Live, Reading
    <2>4. Wanted => NoFinal
        BY <2>1 DEF OrderInv
    <2>5. Wanted => \A k \in 1..LineLen' : Line(k)' = "final" =>
                        k = LineLen + 1 /\ LineLen' = LineLen + 1 /\ writer # "done" /\ cut = "no"
        BY <2>2, <2>4 DEF NoFinal
    <2>6. OrderInv'
        BY <2>1, <2>2, <2>3, <2>4, <2>5 DEF OrderInv, NoFinal
    <2>7. EvenInv' /\ QuietInv'
        BY <2>1, <2>3 DEF EvenInv, QuietInv
    <2>8. ASSUME Reading, NEW k \in 1..LineLen', Line(k)' = "final" PROVE Taken + k = Items + 2
        <3>1. k = LineLen + 1 /\ writer # "done" /\ cut = "no"
            BY <2>5, <2>8 DEF Reading, Live
        <3>2. made = Items
            BY <2>1, <2>8, <3>1 DEF QuietInv
        <3>3. Taken + LineLen = Items + 1
            BY <2>1, <2>8, <3>1, <3>2 DEF EvenInv
        <3>4. QED
            BY <2>2, <3>1, <3>3, StreamAssumption
    <2>9. PlaceInv'
        BY <2>1, <2>2, <2>3, <2>4, <2>8 DEF PlaceInv, NoFinal, Live
    <2>10. CompleteOrFlagged' /\ OpenInv'
        BY <2>1 DEF CompleteOrFlagged, OpenInv
    <2>11. QED
        BY <2>2, <2>6, <2>7, <2>9, <2>10
<1>5. QED
    BY <1>1, <1>2, <1>3, <1>4 DEF Engine

-----------------------------------------------------------------------------
(* The tasks of the worker's connection, and the connection                   *)

\* None of them touches what the server and the consumer hold.
LEMMA WorkerStep ==
    ASSUME StreamInv, WriterTask \/ ReaderTask \/ CloseTask \/ Break
    PROVE  StreamInv'
<1> USE DEF StreamInv, CountInv
<1>1. CASE WriterPoll \/ WriterFails \/ WriterEnd \/ ReaderEnd
    <2>1. /\ UNCHANGED <<pub, made, wctx, srv, control, responses, fctx, cons, got, final, late>>
          /\ UNCHANGED <<down, cut>> /\ (writer' # "done" => writer # "done" /\ UNCHANGED <<up, bytes>>)
          /\ writer = "done" => UNCHANGED writer
        BY <1>1 DEF WriterPoll, WriterFails, WriterEnd, ReaderEnd, wireVars, serverVars, consVars
    <2>2. StreamType' /\ LineKept
        <3>1. CASE UNCHANGED <<up, bytes>>
            BY <2>1, <3>1, LineType DEF StreamType, LineKept, Line, LineLen
        <3>2. CASE WriterFails
            <4>1. UNCHANGED up /\ cut # "no" /\ bytes' = <<>>
                BY <3>2 DEF WriterFails, wireVars
            <4>2. QED
                BY <2>1, <4>1, LineType DEF StreamType, LineKept, Line, LineLen
        <3>3. CASE WriterEnd /\ cut = "no"
            <4>1. bytes = <<>> /\ UNCHANGED bytes /\ up' = Append(up, "sentinel")
                BY <3>3 DEF WriterEnd
            <4>2. /\ Len(bytes) = 0 /\ Len(up') = Len(up) + 1 /\ up' \in Seq(UpFrame)
                  /\ \A k \in 1..Len(up) : up'[k] = up[k]
                  /\ up'[Len(up) + 1] = "sentinel"
                BY <4>1 DEF StreamType, UpFrame
            <4>3. LineLen = Len(up) /\ LineLen' = Len(up) + 1 /\ Len(up) \in Nat
                BY <2>1, <4>1, <4>2, LineType DEF LineLen
            <4>4. ASSUME NEW k \in 1..(Len(up) + 1) PROVE Line(k)' = up'[k]
                BY <4>2, <4>3, <4>4 DEF Line
            <4>5. LineKept
                BY <4>2, <4>3, <4>4 DEF LineKept, Line, Payload
            <4>6. QED
                BY <2>1, <4>1, <4>2, <4>5 DEF StreamType
        <3>4. QED
            BY <1>1, <3>1, <3>2, <3>3 DEF WriterPoll, WriterEnd, ReaderEnd, wireVars
    <2>3. (Reading' <=> Reading) /\ Taken' = Taken
        BY <2>1 DEF Reading, Live, Wanted, Taken
    <2>4. QuietInv'
        BY <2>1, <2>3 DEF QuietInv
    <2>5. EvenInv'
        BY <2>1, <2>3 DEF EvenInv, LineLen
    <2>6. QED
        BY <2>1, <2>2, <2>4, <2>5, LineShrinks DEF consVars
\* The line is cut off at what was written; if the consumer still wants it and
\* the connection holds, nobody can have stopped the writer.
<1>2. CASE WriterCancelled
    <2>1. /\ UNCHANGED <<pub, made, wctx, srv, control, responses, fctx, cons, got, final, late>>
          /\ UNCHANGED <<up, down, cut>> /\ writer # "done" /\ wctx # "live"
          /\ writer' = "done" /\ bytes' = <<>>
        BY <1>2 DEF WriterCancelled, wireVars, serverVars, consVars
    <2>2. StreamType' /\ LineKept
        BY <2>1, LineType DEF StreamType, LineKept, Line, LineLen
    <2>3. QuietInv' /\ EvenInv'
        BY <2>1 DEF QuietInv, EvenInv, Reading, Live, Wanted
    <2>4. QED
        BY <2>1, <2>2, <2>3, LineShrinks DEF consVars
\* The first of bytes becomes the last of up: the line is the same.
<1>3. CASE WriterSend
    <2>1. /\ UNCHANGED <<pub, made, wctx, srv, control, responses, fctx, cons, got, final, late>>
          /\ UNCHANGED <<down, cut>> /\ writer = "recv" /\ writer' = "check"
          /\ bytes # <<>> /\ bytes' = Tail(bytes)
          /\ up' = IF cut # "no" THEN up ELSE Append(up, Head(bytes))
        BY <1>3 DEF WriterSend, serverVars, consVars
    <2>2. /\ bytes' \in Seq(UpFrame) /\ Len(bytes') = Len(bytes) - 1 /\ Len(bytes) > 0
          /\ Head(bytes) = bytes[1] /\ Head(bytes) \in UpFrame
          /\ \A k \in 1..Len(bytes') : bytes'[k] = bytes[k + 1]
        BY <2>1 DEF StreamType
    <2>3. StreamType' /\ LineLen' = LineLen /\ \A k \in 1..LineLen : Line(k)' = Line(k)
        <3>1. CASE cut # "no"
            BY <2>1, <2>2, <3>1, LineType DEF StreamType, Line, LineLen
        <3>2. CASE cut = "no"
            <4>1. /\ up' \in Seq(UpFrame) /\ Len(up') = Len(up) + 1 /\ up'[Len(up) + 1] = bytes[1]
                  /\ \A k \in 1..Len(up) : up'[k] = up[k]
                BY <2>1, <2>2, <3>2 DEF StreamType
            <4>2. LineLen = Len(up) + Len(bytes) /\ LineLen' = LineLen
                BY <2>1, <2>2, <3>2, <4>1, LineType DEF LineLen
            <4>3. ASSUME NEW k \in 1..LineLen PROVE Line(k)' = Line(k)
                <5>1. k \in Nat /\ k >= 1 /\ Len(up) \in Nat /\ Len(bytes) \in Nat
                    BY LineType
                <5>2. CASE k <= Len(up)
                    BY <4>1, <5>1, <5>2 DEF Line
                <5>3. CASE k = Len(up) + 1
                    BY <4>1, <5>1, <5>3 DEF Line
                <5>4. CASE k > Len(up) + 1
                    BY <2>2, <4>1, <4>2, <4>3, <5>1, <5>4 DEF Line
                <5>5. QED
                    BY <5>1, <5>2, <5>3, <5>4
            <4>4. QED
                BY <2>1, <2>2, <4>1, <4>2, <4>3 DEF StreamType
        <3>3. QED
            BY <3>1, <3>2
    <2>4. (Reading' <=> Reading) /\ Taken' = Taken
        BY <2>1 DEF Reading, Live, Wanted, Taken
    <2>5. QuietInv' /\ EvenInv' /\ LineKept
        BY <2>1, <2>3, <2>4 DEF QuietInv, EvenInv, LineKept
    <2>6. QED
        BY <2>1, <2>3, <2>5, LineShrinks DEF consVars
\* There is no message while the frames get through.
<1>4. CASE ReaderRecv
    <2>1. /\ UNCHANGED <<pub, made, srv, control, responses, fctx, cons, got, final, late>>
          /\ UNCHANGED <<up, bytes, cut, writer>> /\ down # <<>>
        BY <1>4 DEF ReaderRecv, serverVars, consVars
    <2>2. StreamType' /\ LineKept
        BY <2>1, LineType DEF StreamType, LineKept, Line, LineLen
    <2>3. QuietInv' /\ EvenInv'
        BY <2>1 DEF QuietInv, EvenInv, Reading, Live, Wanted, Taken, LineLen
    <2>4. QED
        BY <2>1, <2>2, <2>3, LineShrinks DEF consVars
\* The socket is dropped, or the connection breaks.
<1>5. CASE CloseStopped \/ CloseServed \/ Break
    <2>1. /\ UNCHANGED <<pub, made, bytes, writer, srv, responses, fctx, cons, got, final, late>>
          /\ cut' # "no"
        BY <1>5 DEF CloseStopped, CloseServed, Break, Hung, workerVars, serverVars, consVars
    <2>2. \/ up' = up
          \/ \E e \in {"eof", "err"} : up' = Append(up, e)
          \/ \E e \in {"eof", "err"}, n \in 0..Len(up) : up' = Append(SubSeq(up, 1, n), e)
        BY <1>5 DEF CloseStopped, CloseServed, Break, Cuts
    <2>3. StreamType' /\ LineKept
        BY <2>1, <2>2, CutLine DEF StreamType
    <2>4. QuietInv' /\ EvenInv'
        BY <2>1 DEF QuietInv, EvenInv
    <2>5. QED
        BY <2>1, <2>3, <2>4, LineShrinks DEF consVars
<1>6. QED
    BY <1>1, <1>2, <1>3, <1>4, <1>5 DEF WriterTask, ReaderTask, CloseTask

-----------------------------------------------------------------------------
(* The server and the consumer                                               *)

\* The line and what was taken stay as they are.
LEMMA ServerKeeps ==
    ASSUME StreamInv, UNCHANGED <<pub, made, wctx, bytes, writer, up, cut, responses, consVars>>,
           srv \notin Payload, srv' \notin Payload \cup {"prologue"}, srv # "prologue",
           QuietInv', Reading' => Reading
    PROVE  StreamInv'
<1> USE DEF StreamInv, CountInv
<1>1. /\ UNCHANGED <<fctx, cons, got, final, late>> /\ Taken' = Taken /\ LineLen' = LineLen
      /\ \A k \in 1..LineLen : Line(k)' = Line(k)
    BY DEF consVars, Taken, LineLen, Line, Payload
<1>2. (Wanted' <=> Wanted) /\ (Live' <=> Live)
    BY <1>1 DEF Wanted, Live
<1>3. (NothingAhead' <=> NothingAhead) /\ (NoFinal => NoFinal')
    BY <1>1 DEF NothingAhead, NoFinal, Payload
<1>4. StreamType' /\ CompleteOrFlagged' /\ OpenInv'
    BY <1>1 DEF StreamType, CompleteOrFlagged, OpenInv
<1>5. OrderInv'
    BY <1>1, <1>2, <1>3 DEF OrderInv, Payload
<1>6. EvenInv' /\ PlaceInv'
    BY <1>1, <1>2 DEF EvenInv, PlaceInv, Payload
<1>7. QED
    BY <1>4, <1>5, <1>6

LEMMA ReceiveStep ==
    ASSUME StreamInv, ReceiveTask
    PROVE  StreamInv'
<1> USE DEF StreamInv, CountInv
\* The prologue is taken.
<1>1. CASE PrologueOk
    <2>1. /\ UNCHANGED <<pub, made, wctx, bytes, writer, down, cut, control, responses, fctx, got, final, late>>
          /\ srv = "prologue" /\ up # <<>> /\ up' = Tail(up) /\ srv' = "check"
          /\ cons = "wait" /\ cons' = "open"
        BY <1>1 DEF PrologueOk, workerVars
    <2>2. /\ up' \in Seq(UpFrame) /\ LineLen' = LineLen - 1 /\ LineLen \in Nat
          /\ \A k \in 1..LineLen' : k + 1 \in 1..LineLen /\ Line(k)' = Line(k + 1)
        BY <2>1, LineMoves
    <2>3. Taken' = Taken + 1 /\ Taken \in Nat /\ StreamType'
        BY <2>1, <2>2, LineType DEF Taken, StreamType
    <2>4. Wanted /\ (Live' => Live) /\ (Reading' => Reading)
        BY <2>1 DEF Wanted, Live, Reading
    <2>5. (NoFinal => NoFinal') /\ (NothingAhead => NothingAhead')
        BY <2>1, <2>2 DEF NoFinal, NothingAhead
    <2>6. OrderInv'
        <3>1. ASSUME NEW j \in 1..LineLen', NEW k \in 1..LineLen', j < k, Line(j)' = "final"
              PROVE  Line(k)' \notin Payload
            BY <2>2, <2>4, <3>1 DEF OrderInv
        <3>2. QED
            BY <2>1, <2>4, <2>5, <3>1 DEF OrderInv, Payload
    <2>7. EvenInv' /\ QuietInv'
        BY <2>1, <2>2, <2>3, <2>4 DEF EvenInv, QuietInv
    <2>8. PlaceInv'
        <3>1. ASSUME Reading', NEW k \in 1..LineLen', Line(k)' = "final" PROVE Taken' + k = Items + 2
            BY <2>2, <2>3, <2>4, <3>1 DEF PlaceInv
        <3>2. QED
            BY <2>1, <2>4, <3>1 DEF PlaceInv
    <2>9. CompleteOrFlagged' /\ OpenInv'
        BY <2>1 DEF CompleteOrFlagged, OpenInv
    <2>10. QED
        BY <2>3, <2>6, <2>7, <2>8, <2>9
\* The consumer gets an error, or had gone.
<1>2. CASE PrologueFails
    <2>1. up' \in Seq(UpFrame)
        BY <1>2 DEF PrologueFails, StreamType
    <2>2. ~Wanted' /\ StreamType' /\ CompleteOrFlagged'
        BY <1>2, <2>1 DEF PrologueFails, workerVars, Wanted, StreamType, CompleteOrFlagged, OpenInv
    <2>3. QED
        BY <2>2 DEF OrderInv, QuietInv, EvenInv, PlaceInv, Reading, Live, OpenInv, Wanted
\* Signals, and the messages they lead to.
<1>3. CASE SeeKill \/ SeeStop \/ SeeNothing \/ SendStop \/ SendKill
    <2>1. /\ UNCHANGED <<pub, made, wctx, bytes, writer, up, down, cut, responses, consVars>>
          /\ srv \notin Payload \cup {"prologue"} /\ srv' \notin Payload \cup {"prologue"}
        BY <1>3 DEF SeeKill, SeeStop, SeeNothing, SendStop, SendKill, Waiting, workerVars, wireVars, Payload
    <2>2. Reading' => Reading
        BY <1>3, <2>1 DEF SeeKill, SeeStop, SeeNothing, SendStop, SendKill, Waiting, Reading, Live, Wanted, consVars
    <2>3. QuietInv'
        BY <1>3, <2>1, <2>2 DEF SeeKill, SeeStop, SeeNothing, SendStop, SendKill, QuietInv, Reading,
            Live, Wanted, Waiting, consVars
    <2>4. QED
        BY <2>1, <2>2, <2>3, ServerKeeps
\* A frame is taken.
<1>4. CASE RecvFrame
    <2>1. /\ UNCHANGED <<pub, made, wctx, bytes, writer, down, cut, control, responses>>
          /\ UNCHANGED <<fctx, cons, got, final, late>>
          /\ srv = "recv" /\ up # <<>> /\ up' = Tail(up)
        BY <1>4 DEF RecvFrame, workerVars, consVars
    <2>2. /\ up' \in Seq(UpFrame) /\ LineLen' = LineLen - 1 /\ LineLen \in Nat /\ 1 \in 1..LineLen
          /\ Line(1) = Head(up)
          /\ \A k \in 1..LineLen' : k + 1 \in 1..LineLen /\ Line(k)' = Line(k + 1)
        BY <2>1, LineMoves
    <2>3. /\ srv' \in {"data", "final", "over", "kill"}
          /\ srv' \in Payload => srv' = Line(1)
        BY <1>4, <2>2 DEF RecvFrame, Payload
    <2>4. /\ (Wanted' <=> Wanted) /\ (Live' <=> Live) /\ (Reading' => Reading)
          /\ StreamType' /\ Len(responses) \in Nat /\ got \in Nat
        BY <2>1, <2>2, LineType DEF Wanted, Live, Reading, StreamType
    <2>5. /\ NothingAhead => NothingAhead' /\ srv' \notin Payload
          /\ NoFinal => NoFinal'
        BY <2>1, <2>2, <2>3 DEF NothingAhead, NoFinal, Payload
    <2>6. ASSUME Wanted, Line(1) = "final" PROVE NothingAhead' /\ ~final
        <3>1. ~NothingAhead
            BY <2>2, <2>6 DEF NothingAhead, Payload
        <3>2. \A k \in 1..LineLen' : Line(1) = "final" /\ 1 < k + 1 => Line(k + 1) \notin Payload
            BY <2>2, <2>6 DEF OrderInv
        <3>3. QED
            BY <2>2, <2>6, <3>1, <3>2 DEF NothingAhead, OrderInv
    <2>7. OrderInv'
        <3>1. ASSUME Wanted, NEW j \in 1..LineLen', NEW k \in 1..LineLen', j < k, Line(j)' = "final"
              PROVE  Line(k)' \notin Payload
            BY <2>2, <3>1 DEF OrderInv
        <3>2. QED
            BY <2>1, <2>3, <2>4, <2>5, <2>6, <3>1 DEF OrderInv, Payload
    <2>8. Taken' = IF srv' = "data" THEN Taken + 1 ELSE Taken
        BY <2>1, <2>3, <2>4 DEF Taken
    <2>9. EvenInv'
        <3>1. SUFFICES ASSUME Reading', cut = "no", writer # "done", pub # "done"
                       PROVE  Taken' + LineLen' = made + (IF pub = "run" THEN 1 ELSE 0)
            BY <2>1 DEF EvenInv
        <3>2. srv' = "data"
            BY <2>2, <2>3, <2>4, <3>1 DEF OrderInv, NoFinal, Reading, Live, Payload
        <3>3. Taken + LineLen = made + (IF pub = "run" THEN 1 ELSE 0)
            BY <2>4, <3>1 DEF EvenInv
        <3>4. QED
            BY <2>2, <2>8, <3>2, <3>3, LineType
    <2>10. PlaceInv'
        <3>1. ASSUME Reading', NEW k \in 1..LineLen', Line(k)' = "final" PROVE Taken' + k = Items + 2
            <4>1. Taken + (k + 1) = Items + 2
                BY <2>2, <2>4, <3>1 DEF PlaceInv
            <4>2. srv' = "data"
                <5>1. srv' # "final"
                    BY <2>2, <2>3, <2>4, <2>6, <3>1 DEF Reading, Live, NothingAhead, Payload
                <5>2. QED
                    BY <2>3, <3>1, <5>1 DEF Reading
            <4>3. QED
                BY <2>8, <4>1, <4>2, LineType
        <3>2. ASSUME Live, srv' = "final" PROVE got + Len(responses) = Items
            <4>1. Taken + 1 = Items + 2
                BY <2>1, <2>2, <2>3, <3>2 DEF PlaceInv, Reading, Payload
            <4>2. QED
                BY <2>1, <2>4, <4>1, StreamAssumption DEF Taken
        <3>3. QED
            BY <2>1, <2>4, <3>1, <3>2 DEF PlaceInv
    <2>11. QuietInv' /\ CompleteOrFlagged' /\ OpenInv'
        BY <2>1, <2>3, <2>4 DEF QuietInv, CompleteOrFlagged, Reading, OpenInv
    <2>12. QED
        BY <2>4, <2>7, <2>9, <2>10, <2>11
\* It goes to the consumer's channel.
<1>5. CASE Forward
    <2>1. /\ UNCHANGED <<pub, made, wctx, bytes, writer, up, down, cut, control, fctx, cons, got, final, late>>
          /\ srv \in Payload /\ srv' = "check" /\ responses' = Append(responses, srv)
        BY <1>5 DEF Forward, workerVars, wireVars, consVars, Payload
    <2>2. /\ responses' \in Seq(Payload) /\ Len(responses') = Len(responses) + 1 /\ Len(responses) \in Nat
          /\ \A k \in 1..Len(responses) : responses'[k] = responses[k]
          /\ \A k \in 1..Len(responses') : k > Len(responses) => responses'[k] = srv
        BY <2>1 DEF StreamType
    <2>3. LineLen' = LineLen /\ (\A k \in 1..LineLen : Line(k)' = Line(k)) /\ StreamType'
        BY <2>1, <2>2 DEF Line, LineLen, StreamType
    <2>4. (Wanted' <=> Wanted) /\ (Live' <=> Live) /\ (Reading' => Reading)
        BY <2>1 DEF Wanted, Live, Reading, Payload
    <2>5. (NothingAhead' <=> NothingAhead) /\ (NoFinal => NoFinal')
        BY <2>1, <2>2, <2>3 DEF NothingAhead, NoFinal
    <2>6. Wanted => ~final /\ \A k \in 1..Len(responses) : responses[k] # "final"
        BY <2>1 DEF OrderInv
    <2>7. OrderInv'
        BY <2>1, <2>2, <2>3, <2>4, <2>5, <2>6 DEF OrderInv, Payload
    <2>8. Reading' => (srv = "data" /\ Taken' = Taken) \/ (pub = "done" /\ NothingAhead)
        <3>1. CASE srv = "data"
            <4>1. Taken = got + Len(responses) + 2 /\ Taken' = got + Len(responses') + 1
                BY <2>1, <2>2, <3>1, LineType DEF Taken, StreamType
            <4>2. QED
                BY <2>2, <3>1, <4>1 DEF StreamType
        <3>2. CASE srv = "final"
            BY <2>4, <3>2 DEF OrderInv, NoFinal, Reading, Live
        <3>3. QED
            BY <2>1, <3>1, <3>2 DEF Payload
    <2>9. EvenInv'
        BY <2>1, <2>3, <2>4, <2>8 DEF EvenInv
    <2>10. PlaceInv'
        <3>1. ASSUME Reading', NEW k \in 1..LineLen', Line(k)' = "final" PROVE Taken' + k = Items + 2
            BY <2>3, <2>4, <2>8, <3>1 DEF PlaceInv, NothingAhead, Payload
        <3>2. ASSUME Live, NEW k \in 1..Len(responses'), responses'[k] = "final" PROVE got + k = Items + 1
            BY <2>2, <2>6, <3>2, StreamAssumption DEF PlaceInv, Live, StreamType
        <3>3. QED
            BY <2>1, <2>4, <2>6, <3>1, <3>2 DEF PlaceInv, Live
    <2>11. QuietInv' /\ CompleteOrFlagged' /\ OpenInv'
        BY <2>1, <2>4 DEF QuietInv, CompleteOrFlagged, OpenInv
    <2>12. QED
        BY <2>3, <2>7, <2>9, <2>10, <2>11
<1>6. CASE ForwardFails
    <2>1. ~Wanted' /\ StreamType' /\ CompleteOrFlagged'
        BY <1>6 DEF ForwardFails, ReceiverGone, workerVars, wireVars, consVars, Wanted, StreamType,
            CompleteOrFlagged
    <2>2. QED
        BY <2>1 DEF OrderInv, QuietInv, EvenInv, PlaceInv, Reading, Live, OpenInv, Wanted
<1>7. QED
    BY <1>1, <1>2, <1>3, <1>4, <1>5, <1>6 DEF ReceiveTask

LEMMA SendStep ==
    ASSUME StreamInv, SendTask
    PROVE  StreamInv'
<1> USE DEF StreamInv, CountInv
\* There is nothing to write while the frames get through; and the server drops the
\* socket only when it reads no more.
<1>1. /\ UNCHANGED <<pub, made, wctx, bytes, writer, up, srv, responses, fctx, cons, got, final, late>>
      /\ cut' = "no" => cut = "no"
      /\ Reading /\ cut = "no" => FALSE
    BY DEF SendTask, WriteControl, ServerClose, HangUp, Hung, workerVars, consVars, QuietInv, Reading
<1>2. StreamType' /\ LineKept
    BY <1>1, LineType DEF StreamType, LineKept, Line, LineLen
<1>3. QuietInv' /\ EvenInv'
    BY <1>1 DEF QuietInv, EvenInv, Reading, Live, Wanted
<1>4. QED
    BY <1>1, <1>2, <1>3, LineShrinks DEF consVars

LEMMA ConsumerStep ==
    ASSUME StreamInv, Consumer \/ DropStream \/ StopRequest \/ KillRequest
    PROVE  StreamInv'
<1> USE DEF StreamInv, CountInv
\* An item, or complete_final, is given to the consumer.
<1>1. CASE Next_item
    <2>1. /\ UNCHANGED <<pub, made, wctx, bytes, writer, up, down, cut, srv, control, fctx, cons>>
          /\ cons = "open" /\ responses # <<>> /\ responses' = Tail(responses)
        BY <1>1 DEF Next_item, workerVars, wireVars, serverVars
    <2>2. /\ responses' \in Seq(Payload) /\ Len(responses') = Len(responses) - 1 /\ Len(responses) \in Nat
          /\ Len(responses) > 0 /\ Head(responses) = responses[1] /\ Head(responses) \in Payload
          /\ \A k \in 1..Len(responses') : k + 1 \in 1..Len(responses) /\ responses'[k] = responses[k + 1]
        BY <2>1 DEF StreamType
    <2>3. Wanted /\ ~final
        BY <2>1 DEF Wanted, OrderInv
    <2>4. LineLen' = LineLen /\ \A k \in 1..LineLen : Line(k)' = Line(k)
        BY <2>1 DEF Line, LineLen
    <2>5. (Wanted' <=> Wanted) /\ (Live' <=> Live) /\ (Reading' <=> Reading)
        BY <2>1 DEF Wanted, Live, Reading
    <2>6. CASE Head(responses) = "final"
        <3>1. final' = TRUE /\ UNCHANGED <<got, late>>
            BY <1>1, <2>3, <2>6 DEF Next_item
        <3>2. 1 = Len(responses) /\ srv \notin Payload /\ NothingAhead /\ pub = "done"
            BY <2>2, <2>3, <2>6 DEF OrderInv, NoFinal
        <3>3. responses' = <<>> /\ 1..Len(responses') = {}
            BY <2>1, <2>2, <3>2 DEF StreamType
        <3>4. NothingAhead'
            BY <2>4, <3>2 DEF NothingAhead
        <3>5. OrderInv'
            BY <2>1, <2>4, <3>2, <3>3, <3>4 DEF OrderInv, NothingAhead, Payload
        <3>6. Live => got = Items
            BY <2>2, <2>6, StreamAssumption DEF PlaceInv, StreamType
        <3>7. PlaceInv'
            BY <2>1, <2>4, <2>5, <3>1, <3>2, <3>3, <3>4, <3>6 DEF PlaceInv, NothingAhead, Payload
        <3>8. StreamType' /\ QuietInv' /\ EvenInv' /\ CompleteOrFlagged' /\ OpenInv'
            BY <2>1, <2>2, <2>5, <3>1, <3>2 DEF StreamType, QuietInv, EvenInv, CompleteOrFlagged, OpenInv
        <3>9. QED
            BY <3>5, <3>7, <3>8
    <2>7. CASE Head(responses) # "final"
        <3>1. got' = got + 1 /\ UNCHANGED <<final, late>>
            BY <1>1, <2>3, <2>7 DEF Next_item
        <3>2. Taken' = Taken /\ StreamType'
            BY <2>1, <2>2, <3>1 DEF Taken, StreamType
        <3>3. (NothingAhead' <=> NothingAhead) /\ (NoFinal => NoFinal')
            BY <2>1, <2>2, <2>4, <3>1 DEF NothingAhead, NoFinal
        <3>4. OrderInv'
            <4>1. ASSUME NEW k \in 1..Len(responses'), responses'[k] = "final"
                  PROVE  k = Len(responses') /\ srv \notin Payload /\ NothingAhead /\ ~final
                BY <2>2, <2>3, <4>1 DEF OrderInv
            <4>2. QED
                BY <2>1, <2>3, <2>4, <3>1, <3>3, <4>1 DEF OrderInv
        <3>5. EvenInv' /\ QuietInv' /\ CompleteOrFlagged' /\ OpenInv'
            BY <2>1, <2>4, <2>5, <3>1, <3>2 DEF EvenInv, QuietInv, CompleteOrFlagged, OpenInv
        <3>6. PlaceInv'
            <4>1. ASSUME Live, NEW k \in 1..Len(responses'), responses'[k] = "final"
                  PROVE  got' + k = Items + 1
                BY <2>2, <3>1, <4>1 DEF PlaceInv, StreamType
            <4>2. Live /\ srv = "final" => got' + Len(responses') = Items
                BY <2>2, <3>1 DEF PlaceInv, StreamType
            <4>3. QED
                BY <2>1, <2>3, <2>4, <2>5, <3>1, <3>2, <4>1, <4>2 DEF PlaceInv
        <3>7. QED
            BY <3>2, <3>4, <3>5, <3>6
    <2>8. QED
        BY <2>6, <2>7
\* The stream ends, well only after complete_final or a stop; or it is dropped.
<1>2. CASE Next_end \/ DropStream
    <2>1. ~Wanted' /\ StreamType' /\ CompleteOrFlagged'
        <3>1. /\ UNCHANGED <<up, bytes, got, made, fctx, final, late>>
              /\ responses' = responses \/ responses' = <<>>
              /\ cons \in {"wait", "open"} /\ cons' \notin {"wait", "open"}
              /\ cons' = "end" => final \/ fctx # "live"
            BY <1>2 DEF Next_end, DropStream, workerVars, wireVars
        <3>2. <<>> \in Seq(Payload)
            OBVIOUS
        <3>3. StreamType' /\ ~Wanted'
            BY <3>1, <3>2 DEF StreamType, Wanted
        <3>4. CompleteOrFlagged'
            BY <3>1 DEF CompleteOrFlagged, PlaceInv, Live, Wanted
        <3>5. QED
            BY <3>3, <3>4
    <2>2. QED
        BY <2>1 DEF OrderInv, QuietInv, EvenInv, PlaceInv, Reading, Live, OpenInv, Wanted
\* The request is stopped: what is asked of it is order only.
<1>3. CASE StopRequest \/ KillRequest
    <2>1. /\ UNCHANGED <<pub, made, bytes, up, cut, srv, responses, cons, got, final, late>>
          /\ fctx' # "live"
        BY <1>3 DEF StopRequest, KillRequest, workerVars, wireVars, serverVars
    <2>2. ~Live' /\ ~Reading' /\ StreamType' /\ CompleteOrFlagged' /\ OpenInv'
        BY <2>1 DEF Live, Reading, StreamType, CompleteOrFlagged, OpenInv
    <2>3. OrderInv'
        BY <2>1 DEF OrderInv, NoFinal, NothingAhead, Line, LineLen, Wanted
    <2>4. QED
        BY <2>2, <2>3 DEF QuietInv, EvenInv, PlaceInv
<1>4. QED
    BY <1>1, <1>2, <1>3 DEF Consumer

LEMMA NextStream == StreamInv /\ [Next]_vars => StreamInv'
<1> SUFFICES ASSUME StreamInv, [Next]_vars PROVE StreamInv'
    OBVIOUS
<1>1. CASE UNCHANGED vars
    <2>1. /\ UNCHANGED <<pub, made, wctx, bytes, writer, up, down, cut, srv, control, responses>>
          /\ UNCHANGED consVars
        BY <1>1 DEF vars, workerVars, wireVars, serverVars
    <2>2. StreamType' /\ LineKept
        BY <2>1, LineType DEF StreamInv, StreamType, LineKept, Line, LineLen, consVars
    <2>3. QuietInv' /\ EvenInv'
        BY <2>1 DEF StreamInv, CountInv, QuietInv, EvenInv, Reading, Live, Wanted, consVars, Taken, LineLen
    <2>4. QED
        BY <2>1, <2>2, <2>3, LineShrinks
<1>2. CASE Next
    BY <1>2, EngineStep, WorkerStep, ReceiveStep, SendStep, ConsumerStep DEF Next
<1>3. QED
    BY <1>1, <1>2

\* If the stream ends without an error and nobody stopped the request, every item
\* was delivered, and nothing is delivered after complete_final: for any number of
\* items and whatever is cut, reset or raced.
THEOREM Complete_Or_Flagged == Spec => []CompleteOrFlagged
<1>1. StreamInv => CompleteOrFlagged
    BY DEF StreamInv
<1>2. QED
    BY InitStream, NextStream, <1>1, PTL DEF Spec
=============================================================================
