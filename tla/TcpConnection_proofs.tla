------------------------ MODULE TcpConnection_proofs ------------------------
(***************************************************************************)
(* That no submission is left behind in submit_queue, and that every answer  *)
(* goes to the call it is for, for any set of calls and any channel_buffer.  *)
(*                                                                         *)
(* NoneStranded is not inductive: before the last drain the queue may hold    *)
(* waiting calls.  What the two checks of send_request keep is that, once    *)
(* closed is set, the entries in the queue are those of callers that have     *)
(* yet to look at closed, except while the writer is about to drain.         *)
(*                                                                         *)
(* OwnAnswer needs to know which answer is next.  What the reader will read   *)
(* (the frame it holds, replies, and what the peer has to answer) is one      *)
(* sequence, those who are owed an answer (response_queue, then batch) are    *)
(* another, and the two agree in every place that both have, as long as the   *)
(* reader goes on.                                                           *)
(***************************************************************************)
EXTENDS TcpConnection, TLAPS

QueueType == pc \in [Requests -> CallPc] /\ submit_queue \in Seq(Requests)

\* closed is the writer's last word.
ClosedInv == closed <=> writer \in {"drain", "shut", "done"}

DrainedInv == closed /\ writer # "drain" => \A r \in Requests : ~Stranded(r)

Inv == QueueType /\ ClosedInv /\ DrainedInv

LEMMA AppendElems ==
    ASSUME NEW q \in Seq(Requests), NEW r \in Requests
    PROVE  Elems(Append(q, r)) = Elems(q) \cup {r}
<1>1. /\ DOMAIN Append(q, r) = 1..(Len(q) + 1) /\ DOMAIN q = 1..Len(q) /\ Len(q) \in Nat
      /\ \A i \in 1..Len(q) : Append(q, r)[i] = q[i]
      /\ Append(q, r)[Len(q) + 1] = r
    OBVIOUS
<1>2. \A i : i \in 1..(Len(q) + 1) <=> i \in 1..Len(q) \/ i = Len(q) + 1
    BY <1>1
<1>3. QED
    BY <1>1, <1>2 DEF Elems

LEMMA EmptyElems == Elems(<<>>) = {} /\ <<>> \in Seq(Requests)
<1>1. DOMAIN <<>> = {} /\ <<>> \in Seq(Requests)
    OBVIOUS
<1>2. QED
    BY <1>1 DEF Elems

LEMMA InitInv == Init => Inv
BY DEF Init, Inv, QueueType, ClosedInv, DrainedInv, CallPc

LEMMA NextInv == Inv /\ [Next]_vars => Inv'
<1> SUFFICES ASSUME Inv, [Next]_vars PROVE Inv'
    OBVIOUS
<1> USE DEF Inv, QueueType, ClosedInv, DrainedInv, Stranded, CallPc
\* The calls.
<1>1. ASSUME NEW r \in Requests, Begin(r) \/ Admit(r) \/ GiveBack(r) \/ Recheck(r)
      PROVE Inv'
    BY <1>1 DEF Begin, Admit, GiveBack, Recheck, Usable, queueVars, flagVars, writerVars
<1>2. ASSUME NEW r \in Requests, Push(r) PROVE Inv'
    <2>1. Elems(submit_queue') = Elems(submit_queue) \cup {r} /\ submit_queue' \in Seq(Requests)
        BY <1>2, AppendElems DEF Push
    <2>2. QED
        BY <1>2, <2>1 DEF Push, flagVars, writerVars
<1>3. ASSUME NEW r \in Requests, CheckClosed(r) PROVE Inv'
    BY <1>3, EmptyElems DEF CheckClosed, DrainPending, flagVars, writerVars
<1>4. ASSUME NEW r \in Requests, CheckAgain(r) PROVE Inv'
    BY <1>4, EmptyElems DEF CheckAgain, DrainPending, flagVars, writerVars
<1>5. ASSUME NEW r \in Requests, Receive(r) \/ Timeout(r) PROVE Inv'
    BY <1>5 DEF Receive, Timeout, TimeoutWaiting, TimeoutAdmitting, Leave, queueVars, flagVars,
                writerVars
\* The tasks.
<1>6. CASE WriterSpin \/ WriterWake \/ WriteOne \/ WriteFails \/ WriterCommit \/ WriterLoop
    BY <1>6 DEF WriterSpin, WriterWake, WriteOne, WriteFails, WriterCommit, WriterLoop, callVars,
                queueVars, flagVars
<1>7. CASE WriterPop
    BY <1>7, EmptyElems DEF WriterPop, callVars, flagVars
<1>8. CASE WriterDrain
    BY <1>8, EmptyElems DEF WriterDrain, DrainPending, flagVars
<1>9. CASE WriterMark \/ WriterClose \/ WriterShut
    BY <1>9 DEF WriterMark, WriterClose, WriterShut, callVars, queueVars
<1>10. CASE ReaderTask
    BY <1>10 DEF ReaderTask, ReaderFrame, ReaderEnd, ReaderDeliver, ReaderAbandons, ReaderMark,
                ReaderDrain, ReaderShut, callVars, queueVars, flagVars, writerVars
\* The others.
<1>11. CASE PeerAnswers \/ PeerLeaves \/ CleanupChoose \/ Cleanup
    BY <1>11 DEF PeerAnswers, PeerLeaves, CleanupChoose, Cleanup, CleanupMark, CleanupAbort,
                 callVars, queueVars, flagVars, writerVars
<1>12. CASE UNCHANGED vars
    BY <1>12 DEF vars, callVars, queueVars, flagVars, writerVars
<1>13. QED
    BY <1>1, <1>2, <1>3, <1>4, <1>5, <1>6, <1>7, <1>8, <1>9, <1>10, <1>11, <1>12
    DEF Next, Call, WriterTask

\* A request pushed after the writer's last drain is failed by its own caller:
\* no call waits for an entry that nobody will take from submit_queue.
THEOREM None_Stranded == Spec => []NoneStranded
<1>1. Inv => NoneStranded
    BY DEF Inv, ClosedInv, DrainedInv, NoneStranded
<1>2. QED
    BY InitInv, NextInv, <1>1, PTL DEF Spec
-----------------------------------------------------------------------------
\* The k-th response that the reader will match, and how many are under way.
Taken == IF frame = Nobody THEN 0 ELSE 1
Due(k) ==
    IF k <= Taken THEN frame
    ELSE IF k <= Taken + Len(replies) THEN replies[k - Taken]
    ELSE wire[k - Taken - Len(replies)]
DueLen == Taken + Len(replies) + Len(wire)

\* The k-th caller that is owed one.
Owed(k) ==
    IF k <= Len(response_queue) THEN response_queue[k] ELSE batch[k - Len(response_queue)]
OwedLen == Len(response_queue) + Len(batch)

\* The reader will go on after this frame; the writer may still take a batch.
Matching == reader \in {"read", "match"} /\ frame # Garbage
Writing  == writer \in {"top", "park", "pop", "write", "commit"}

ConnType ==
    /\ submit_queue \in Seq(Requests) /\ response_queue \in Seq(Requests)
    /\ batch \in Seq(Requests) /\ wire \in Seq(Requests)
    /\ replies \in Seq(Requests \cup {Garbage})
    /\ frame \in Requests \cup {Nobody, Garbage} /\ written \in Nat
    /\ DOMAIN answer = Requests

BatchInv ==
    /\ writer = "write" => written < Len(batch)
    /\ writer = "commit" => written = Len(batch)
    /\ writer \notin {"write", "commit"} => batch = <<>> /\ written = 0

FrameInv == (reader = "match" <=> frame # Nobody) /\ (~link => wire = <<>>)

\* No response is under way that nobody is owed; over a connection that holds,
\* as many are as were written.  A failed write drops the batch, and then the
\* writer takes no other.
LengthInv ==
    Matching /\ Writing =>
        /\ DueLen <= Len(response_queue) + written
        /\ link => DueLen = Len(response_queue) + written

AlignedInv ==
    Matching => \A k \in 1..DueLen : k <= OwedLen => Due(k) = Owed(k) \/ Due(k) = Garbage

AnswerInv == ConnType /\ BatchInv /\ FrameInv /\ LengthInv /\ AlignedInv /\ OwnAnswer

LEMMA InitAnswer == Init => AnswerInv
BY NamesAssumption
DEF Init, AnswerInv, ConnType, BatchInv, FrameInv, LengthInv, AlignedInv, OwnAnswer, Matching,
    DueLen, Taken, OwedLen, Writing

\* Neither sequence depends on the calls.
LEMMA CallsKeepAnswer ==
    ASSUME AnswerInv, UNCHANGED <<response_queue, writerVars, readerVars, peerVars>>,
           submit_queue' \in Seq(Requests), OwnAnswer', DOMAIN answer' = Requests
    PROVE  AnswerInv'
BY DEF AnswerInv, ConnType, BatchInv, FrameInv, LengthInv, AlignedInv, Matching, Writing, DueLen,
       Taken, OwedLen, Due, Owed, writerVars, readerVars, peerVars

\* Nor do they depend on where the writer is between two batches.
LEMMA WriterKeepsAnswer ==
    ASSUME AnswerInv, BatchInv', Writing' => Writing, UNCHANGED <<batch, written>>,
           UNCHANGED <<answer, submit_queue, response_queue, frame, reader, replies, wire, link>>
    PROVE  AnswerInv'
BY DEF AnswerInv, ConnType, BatchInv, FrameInv, LengthInv, AlignedInv, Matching, DueLen,
       Taken, OwedLen, Due, Owed, OwnAnswer

LEMMA Lengths ==
    ASSUME ConnType
    PROVE  /\ Len(response_queue) \in Nat /\ Len(batch) \in Nat /\ Len(wire) \in Nat
           /\ Len(replies) \in Nat /\ Taken \in 0..1 /\ DueLen \in Nat /\ OwedLen \in Nat
BY DEF ConnType, DueLen, OwedLen, Taken

\* Telling somebody of an error breaks nothing.
LEMMA TellError ==
    ASSUME OwnAnswer, DOMAIN answer = Requests, NEW S, Tell(S, "error")
    PROVE  OwnAnswer' /\ DOMAIN answer' = Requests
BY DEF OwnAnswer, Tell
LEMMA CallStep ==
    ASSUME AnswerInv, NEW r \in Requests, Call(r) \/ Timeout(r)
    PROVE  AnswerInv'
<1> USE DEF AnswerInv, ConnType
<1>1. CASE Begin(r) \/ Admit(r) \/ GiveBack(r) \/ Recheck(r) \/ TimeoutAdmitting(r)
    BY <1>1, CallsKeepAnswer
    DEF Begin, Admit, GiveBack, Recheck, TimeoutAdmitting, queueVars, OwnAnswer
<1>2. CASE Push(r)
    <2>1. submit_queue' \in Seq(Requests) /\ UNCHANGED answer
        BY <1>2 DEF Push
    <2>2. QED
        BY <1>2, <2>1, CallsKeepAnswer DEF Push, OwnAnswer
<1>3. CASE CheckClosed(r) \/ CheckAgain(r)
    <2>1. submit_queue' \in Seq(Requests) /\ OwnAnswer' /\ DOMAIN answer' = Requests
        BY <1>3, TellError, EmptyElems DEF CheckClosed, CheckAgain, DrainPending, OwnAnswer
    <2>2. QED
        BY <1>3, <2>1, CallsKeepAnswer DEF CheckClosed, CheckAgain
<1>4. CASE Receive(r) \/ TimeoutWaiting(r)
    BY <1>4, CallsKeepAnswer DEF Receive, TimeoutWaiting, Leave, queueVars, OwnAnswer
<1>5. QED
    BY <1>1, <1>2, <1>3, <1>4 DEF Call, Timeout

LEMMA WriterStep ==
    ASSUME AnswerInv, WriterTask
    PROVE  AnswerInv'
<1> USE DEF AnswerInv, ConnType
<1>1. CASE WriterSpin \/ WriterWake \/ WriterLoop \/ WriterMark \/ WriterClose \/ WriterShut
    <2>1. /\ UNCHANGED <<batch, written>> /\ writer # "write"
          /\ UNCHANGED <<answer, submit_queue, response_queue, frame, reader, replies, wire, link>>
        BY <1>1 DEF WriterSpin, WriterWake, WriterLoop, WriterMark, WriterClose, WriterShut, callVars,
            queueVars, readerVars, peerVars
    <2>2. BatchInv' /\ (Writing' => Writing)
        BY <1>1, <2>1 DEF WriterSpin, WriterWake, WriterLoop, WriterMark, WriterClose, WriterShut,
            BatchInv, Writing
    <2>3. QED
        BY <2>1, <2>2, WriterKeepsAnswer
<1>2. CASE WriterDrain
    <2>1. OwnAnswer' /\ DOMAIN answer' = Requests
        BY <1>2, TellError DEF WriterDrain, DrainPending
    <2>2. QED
        BY <1>2, <2>1, EmptyElems DEF WriterDrain, DrainPending,
            readerVars, peerVars, BatchInv, FrameInv, LengthInv, AlignedInv, Matching,
            Writing, DueLen, Taken, OwedLen, Due, Owed
\* The batch is empty, and nobody is owed more than the callers in the queue:
\* what it adds comes after everything that is under way.
<1>3. CASE WriterPop
    <2>1. /\ batch = <<>> /\ written = 0 /\ batch' \in Seq(Requests) /\ written' = 0
          /\ UNCHANGED <<answer, response_queue, frame, reader, wire, replies, link>>
          /\ submit_queue' = <<>> /\ batch' = submit_queue
        BY <1>3 DEF WriterPop, BatchInv, callVars, readerVars, peerVars
    <2>2. ConnType' /\ BatchInv' /\ FrameInv' /\ LengthInv' /\ OwnAnswer'
        BY <1>3, <2>1, EmptyElems DEF WriterPop, BatchInv, FrameInv, LengthInv, OwnAnswer, Matching,
            Writing, DueLen, Taken
    <2>3. ASSUME Matching, NEW k \in 1..DueLen
          PROVE  k <= Len(response_queue) /\ Owed(k)' = Owed(k) /\ Due(k)' = Due(k)
        <3>1. DueLen <= Len(response_queue) /\ DueLen \in Nat
            BY <1>3, <2>1, <2>3 DEF WriterPop, LengthInv, Writing, DueLen, Taken
        <3>2. QED
            BY <2>1, <3>1 DEF Owed, Due, Taken
    <2>4. AlignedInv'
        BY <2>1, <2>3 DEF AlignedInv, Matching, DueLen, Taken, OwedLen
    <2>5. QED
        BY <2>2, <2>4
\* One more response under way, for the next of the batch.
<1>4. CASE WriteOne
    <2>1. /\ written < Len(batch) /\ written' = written + 1
          /\ UNCHANGED <<answer, submit_queue, response_queue, frame, reader, replies, link, batch>>
          /\ wire' \in Seq(Requests)
        BY <1>4 DEF WriteOne, BatchInv, callVars, queueVars, readerVars
    <2>2. ConnType' /\ BatchInv' /\ OwnAnswer' /\ FrameInv'
        BY <1>4, <2>1 DEF WriteOne, BatchInv, OwnAnswer, FrameInv
    <2>3. CASE ~link
        BY <1>4, <2>1, <2>2, <2>3 DEF WriteOne, LengthInv, AlignedInv, Matching, Writing,
            DueLen, Taken, OwedLen, Due, Owed
    <2>4. CASE link
        <3>1. wire' = Append(wire, batch[written + 1]) /\ Len(wire') = Len(wire) + 1
            BY <1>4, <2>1, <2>4 DEF WriteOne
        <3>2. Taken' = Taken /\ Len(wire)' = Len(wire) + 1 /\ Len(replies)' = Len(replies)
            BY <2>1, <3>1 DEF Taken
        <3>3. DueLen' = DueLen + 1 /\ DueLen \in Nat /\ Len(response_queue) \in Nat
            <4>1. /\ Taken \in Nat /\ Len(replies) \in Nat /\ Len(wire) \in Nat
                  /\ DueLen \in Nat /\ Len(response_queue) \in Nat
                BY Lengths
            <4>2. QED
                BY <3>2, <4>1 DEF DueLen
        <3>4. Matching => DueLen = Len(response_queue) + written
            BY <1>4, <2>4 DEF WriteOne, LengthInv, Writing
        <3>5. Matching' = Matching
            BY <2>1 DEF Matching
        <3>6. LengthInv'
            BY <2>1, <3>3, <3>4, <3>5 DEF LengthInv
        <3>7. ASSUME Matching, NEW k \in 1..DueLen' PROVE Due(k)' = Owed(k) \/ Due(k)' = Garbage
            <4>1. DueLen = Len(response_queue) + written /\ DueLen' = DueLen + 1
                BY <3>3, <3>4, <3>7
            <4>2. CASE k = DueLen + 1
                BY <2>1, <3>1, <4>1, <4>2 DEF Due, Owed, DueLen, Taken
            <4>3. CASE k # DueLen + 1
                <5>1. k \in 1..DueLen /\ k <= OwedLen
                    BY <2>1, <3>7, <4>1, <4>3 DEF OwedLen
                <5>2. Due(k)' = Due(k)
                    BY <2>1, <3>1, <5>1 DEF Due, DueLen, Taken
                <5>3. QED
                    BY <3>7, <5>1, <5>2 DEF AlignedInv
            <4>4. QED
                BY <4>2, <4>3
        <3>8. AlignedInv'
            BY <2>1, <3>7 DEF AlignedInv, Matching, Owed
        <3>9. QED
            BY <2>2, <3>6, <3>8
    <2>5. QED
        BY <2>3, <2>4
\* Those of the batch are not owed anything any more.
<1>5. CASE WriteFails
    <2>1. OwnAnswer' /\ DOMAIN answer' = Requests
        BY <1>5, TellError DEF WriteFails
    <2>2. batch' = <<>> /\ UNCHANGED <<response_queue, frame, reader, replies, wire, submit_queue, link>>
        BY <1>5 DEF WriteFails, queueVars, readerVars, peerVars
    <2>3. AlignedInv'
        <3>1. \A k \in 1..DueLen : Due(k)' = Due(k)
            BY <2>2 DEF Due, Taken
        <3>2. OwedLen' = Len(response_queue) /\ OwedLen' <= OwedLen /\ DueLen' = DueLen
            BY <2>2, Lengths DEF OwedLen, DueLen, Taken
        <3>3. \A k \in 1..DueLen : k <= OwedLen' => Owed(k)' = Owed(k)
            BY <2>2, <3>2, Lengths DEF Owed
        <3>4. QED
            BY <2>2, <3>1, <3>2, <3>3, Lengths DEF AlignedInv, Matching
    <2>4. QED
        BY <1>5, <2>1, <2>2, <2>3, EmptyElems
        DEF WriteFails, BatchInv, FrameInv, LengthInv, Writing
\* The head of the batch becomes the tail of response_queue.
<1>6. CASE WriterCommit
    <2>1. /\ batch # <<>> /\ written = Len(batch) /\ written' = written - 1
          /\ response_queue' = Append(response_queue, Head(batch)) /\ batch' = Tail(batch)
          /\ UNCHANGED <<writer, answer, submit_queue, frame, reader, replies, wire, link>>
        BY <1>6 DEF WriterCommit, BatchInv, callVars, readerVars, peerVars
    <2>2. /\ Len(response_queue') = Len(response_queue) + 1 /\ Len(batch') = Len(batch) - 1
          /\ Len(batch) > 0 /\ batch' \in Seq(Requests) /\ response_queue' \in Seq(Requests)
        BY <2>1
    <2>3. \A k \in 1..OwedLen : Owed(k)' = Owed(k)
        BY <2>1, <2>2 DEF Owed, OwedLen
    <2>4. ConnType' /\ BatchInv' /\ FrameInv' /\ LengthInv' /\ OwnAnswer'
        <3>1. ConnType' /\ BatchInv' /\ FrameInv' /\ OwnAnswer'
            BY <1>6, <2>1, <2>2 DEF WriterCommit, BatchInv, FrameInv, OwnAnswer
        <3>2. /\ Len(response_queue)' + written' = Len(response_queue) + written /\ DueLen' = DueLen
              /\ Matching' = Matching /\ Writing' = Writing
            BY <2>1, <2>2, Lengths DEF DueLen, Taken, Matching, Writing
        <3>3. QED
            BY <2>1, <3>1, <3>2 DEF LengthInv
    <2>5. OwedLen' = OwedLen /\ DueLen' = DueLen /\ DueLen \in Nat
        BY <2>1, <2>2 DEF OwedLen, DueLen, Taken
    <2>6. AlignedInv'
        BY <2>1, <2>3, <2>5 DEF AlignedInv, Matching, Due, Taken
    <2>7. QED
        BY <2>4, <2>6
<1>7. QED
    BY <1>1, <1>2, <1>3, <1>4, <1>5, <1>6 DEF WriterTask
LEMMA ReaderStep ==
    ASSUME AnswerInv, ReaderTask
    PROVE  AnswerInv'
<1> USE DEF AnswerInv, ConnType
\* The first of replies becomes the frame: the same sequence.
<1>1. CASE ReaderFrame
    <2>1. /\ reader = "read" /\ frame = Nobody /\ replies # <<>> /\ reader' = "match"
          /\ frame' = Head(replies) /\ replies' = Tail(replies) /\ frame' = replies[1]
          /\ frame' # Nobody /\ replies' \in Seq(Requests \cup {Garbage})
          /\ UNCHANGED <<answer, submit_queue, response_queue, batch, written, writer, wire, link>>
        BY <1>1, NamesAssumption DEF ReaderFrame, FrameInv, callVars, queueVars, writerVars, Nobody, Garbage
    <2>2. ConnType' /\ BatchInv' /\ FrameInv' /\ OwnAnswer'
        BY <2>1 DEF BatchInv, FrameInv, OwnAnswer
    <2>3. Taken = 0 /\ Taken' = 1 /\ Len(replies') = Len(replies) - 1 /\ Len(replies) > 0
        BY <2>1 DEF Taken
    <2>4. DueLen' = DueLen /\ OwedLen' = OwedLen
        BY <2>1, <2>3 DEF DueLen, OwedLen
    <2>5. \A k \in 1..DueLen : Due(k)' = Due(k) /\ Owed(k)' = Owed(k)
        BY <2>1, <2>3 DEF Due, DueLen, Owed
    <2>6. (Matching' => Matching) /\ Writing' = Writing
        BY <2>1, NamesAssumption DEF Matching, Writing, Nobody, Garbage
    <2>7. QED
        BY <2>1, <2>2, <2>4, <2>5, <2>6 DEF LengthInv, AlignedInv
\* An undecodable frame, or the end: this reader matches nothing more.
<1>2. CASE ReaderEnd \/ ReaderAbandons \/ ReaderMark \/ ReaderShut
    <2>1. /\ UNCHANGED <<answer, submit_queue, response_queue, batch, written, writer, wire, replies, link>>
          /\ frame' \in {frame, Nobody, Garbage} /\ ~Matching'
          /\ (reader' = "match" <=> frame' # Nobody)
        BY <1>2 DEF ReaderEnd, ReaderAbandons, ReaderMark, ReaderShut, callVars, queueVars, writerVars,
            peerVars, Matching, FrameInv, Nobody, Garbage
    <2>2. QED
        BY <2>1 DEF BatchInv, FrameInv, LengthInv, AlignedInv, OwnAnswer
\* The first response is for the first who is owed one, and both go.
<1>3. CASE ReaderDeliver
    <2>1. /\ reader = "match" /\ response_queue # <<>> /\ response_queue' = Tail(response_queue)
          /\ frame' = Nobody
          /\ UNCHANGED <<submit_queue, batch, written, writer, wire, replies, link>>
          /\ Head(response_queue) = response_queue[1] /\ Head(response_queue) \in Requests
          /\ Len(response_queue') = Len(response_queue) - 1 /\ Len(response_queue) > 0
          /\ response_queue' \in Seq(Requests)
        BY <1>3 DEF ReaderDeliver, writerVars, peerVars
    <2>2. CASE frame = Garbage
        <3>1. reader' = "fail" /\ Tell({Head(response_queue)}, "error")
            BY <1>3, <2>2, NamesAssumption DEF ReaderDeliver, Garbage
        <3>2. OwnAnswer' /\ DOMAIN answer' = Requests
            BY <3>1, TellError
        <3>3. QED
            BY <2>1, <3>1, <3>2 DEF BatchInv, FrameInv, LengthInv, AlignedInv, Matching
    <2>3. CASE frame # Garbage
        <3>1. frame \in Requests /\ reader' = "read" /\ Tell({Head(response_queue)}, frame)
            BY <1>3, <2>3 DEF ReaderDeliver
        <3>2. frame # Nobody /\ Taken = 1 /\ Taken' = 0 /\ Matching
            BY <2>1, <2>3, <3>1, NamesAssumption DEF Taken, Matching
        <3>3. DueLen' = DueLen - 1 /\ OwedLen' = OwedLen - 1
            BY <2>1, <3>2, Lengths DEF DueLen, OwedLen
        <3>4. frame = Head(response_queue)
            <4>1. 1 \in 1..DueLen /\ 1 <= OwedLen /\ Due(1) = frame /\ Owed(1) = response_queue[1]
                BY <2>1, <3>2, Lengths DEF DueLen, OwedLen, Due, Owed
            <4>2. QED
                BY <2>1, <2>3, <3>2, <4>1 DEF AlignedInv
        <3>5. OwnAnswer' /\ DOMAIN answer' = Requests
            BY <3>1, <3>4 DEF OwnAnswer, Tell
        <3>6. \A k \in 1..DueLen' : Due(k)' = Due(k + 1)
            BY <2>1, <3>2 DEF Due
        <3>7. \A k \in 1..OwedLen' : Owed(k)' = Owed(k + 1)
            <4>1. SUFFICES ASSUME NEW k \in 1..OwedLen' PROVE Owed(k)' = Owed(k + 1)
                OBVIOUS
            <4>2. k \in Nat /\ k >= 1 /\ Len(response_queue) \in Nat /\ Len(batch) \in Nat
                BY <3>3, Lengths
            <4>3. CASE k <= Len(response_queue) - 1
                BY <2>1, <4>2, <4>3 DEF Owed
            <4>4. CASE k > Len(response_queue) - 1
                BY <2>1, <4>2, <4>4 DEF Owed
            <4>5. QED
                BY <4>2, <4>3, <4>4
        <3>8. AlignedInv'
            <4>1. SUFFICES ASSUME NEW k \in 1..DueLen', k <= OwedLen'
                           PROVE  Due(k)' = Owed(k)' \/ Due(k)' = Garbage
                BY DEF AlignedInv
            <4>2. k + 1 \in 1..DueLen /\ k + 1 <= OwedLen /\ k \in 1..OwedLen'
                BY <3>3, <4>1, Lengths
            <4>3. QED
                BY <3>2, <3>6, <3>7, <4>2 DEF AlignedInv
        <3>9. LengthInv'
            BY <2>1, <3>2, <3>3, Lengths DEF LengthInv, Writing
        <3>10. QED
            BY <2>1, <3>1, <3>5, <3>8, <3>9 DEF BatchInv, FrameInv
    <2>4. QED
        BY <2>2, <2>3
<1>4. CASE ReaderDrain
    <2>1. OwnAnswer' /\ DOMAIN answer' = Requests
        BY <1>4, TellError DEF ReaderDrain
    <2>2. QED
        BY <1>4, <2>1, EmptyElems DEF ReaderDrain, writerVars, peerVars, BatchInv, FrameInv,
            LengthInv, AlignedInv, Matching
<1>5. QED
    BY <1>1, <1>2, <1>3, <1>4 DEF ReaderTask

LEMMA OthersStep ==
    ASSUME AnswerInv, PeerAnswers \/ PeerLeaves \/ CleanupChoose \/ Cleanup
    PROVE  AnswerInv'
<1> USE DEF AnswerInv, ConnType
\* What was to be answered is answered in its place, or with garbage.
<1>1. CASE PeerAnswers
    <2>1. PICK f \in {Head(wire), Garbage} : replies' = Append(replies, f)
        BY <1>1 DEF PeerAnswers
    <2>2. /\ wire # <<>> /\ wire' = Tail(wire) /\ link /\ Head(wire) = wire[1] /\ Len(wire) > 0
          /\ Head(wire) \in Requests
          /\ UNCHANGED <<answer, submit_queue, response_queue, batch, written, writer, reader, frame, link>>
        BY <1>1 DEF PeerAnswers, callVars, queueVars, writerVars, readerVars
    <2>3. /\ Len(wire') = Len(wire) - 1 /\ Len(replies') = Len(replies) + 1
          /\ wire' \in Seq(Requests) /\ replies' \in Seq(Requests \cup {Garbage})
          /\ Taken' = Taken
        BY <2>1, <2>2 DEF Taken
    <2>4. DueLen' = DueLen /\ OwedLen' = OwedLen
        <3>1. Taken \in Nat /\ Len(replies) \in Nat /\ Len(wire) \in Nat
            BY Lengths
        <3>2. QED
            BY <2>2, <2>3, <3>1 DEF DueLen, OwedLen
    <2>5. \A k \in 1..DueLen : Due(k)' = Due(k) \/ Due(k)' = Garbage
        <3>1. SUFFICES ASSUME NEW k \in 1..DueLen PROVE Due(k)' = Due(k) \/ Due(k)' = Garbage
            OBVIOUS
        <3>2. Taken \in Nat /\ Len(replies) \in Nat /\ Len(wire) \in Nat
            BY Lengths
        <3>3. CASE k <= Taken + Len(replies)
            BY <2>1, <2>2, <2>3, <3>2, <3>3 DEF Due
        <3>4. CASE k = Taken + Len(replies) + 1
            BY <2>1, <2>2, <2>3, <3>2, <3>4 DEF Due
        <3>5. CASE k > Taken + Len(replies) + 1
            BY <2>1, <2>2, <2>3, <3>2, <3>5 DEF Due, DueLen
        <3>6. QED
            BY <3>2, <3>3, <3>4, <3>5
    <2>6. Matching' = Matching /\ Writing' = Writing /\ \A k \in 1..DueLen : Owed(k)' = Owed(k)
        BY <2>2 DEF Matching, Writing, Owed
    <2>7. ConnType' /\ BatchInv' /\ FrameInv' /\ OwnAnswer'
        BY <2>2, <2>3 DEF BatchInv, FrameInv, OwnAnswer
    <2>8. QED
        BY <2>2, <2>4, <2>5, <2>6, <2>7 DEF LengthInv, AlignedInv
\* What was not answered will not be.
<1>2. CASE PeerLeaves
    <2>1. /\ wire' = <<>> /\ link' = FALSE
          /\ UNCHANGED <<answer, submit_queue, response_queue, batch, written, writer, reader, frame, replies>>
        BY <1>2 DEF PeerLeaves, callVars, queueVars, writerVars, readerVars
    <2>2. Taken \in Nat /\ Len(replies) \in Nat /\ Len(wire) \in Nat /\ DueLen \in Nat
        BY Lengths
    <2>3. DueLen' <= DueLen /\ DueLen' \in Nat /\ OwedLen' = OwedLen /\ DueLen' = Taken + Len(replies)
        BY <2>1, <2>2 DEF DueLen, OwedLen, Taken
    <2>4. \A k \in 1..DueLen' : k \in 1..DueLen /\ Due(k)' = Due(k) /\ Owed(k)' = Owed(k)
        BY <2>1, <2>2, <2>3 DEF Due, Owed, Taken
    <2>5. Matching' = Matching /\ Writing' = Writing
        BY <2>1 DEF Matching, Writing
    <2>6. ConnType' /\ BatchInv' /\ FrameInv' /\ OwnAnswer'
        BY <2>1, EmptyElems DEF BatchInv, FrameInv, OwnAnswer
    <2>7. LengthInv' /\ AlignedInv'
        BY <2>1, <2>2, <2>3, <2>4, <2>5, Lengths DEF LengthInv, AlignedInv
    <2>8. QED
        BY <2>6, <2>7
<1>3. CASE CleanupChoose \/ CleanupMark
    <2>1. /\ UNCHANGED <<batch, written, writer>>
          /\ UNCHANGED <<answer, submit_queue, response_queue, frame, reader, replies, wire, link>>
        BY <1>3 DEF CleanupChoose, CleanupMark, callVars, queueVars, writerVars, readerVars, peerVars
    <2>2. QED
        BY <2>1, WriterKeepsAnswer DEF BatchInv, Writing
<1>4. CASE CleanupAbort
    BY <1>4 DEF CleanupAbort, callVars, queueVars, writerVars, peerVars, BatchInv, FrameInv,
        LengthInv, AlignedInv, Matching, OwnAnswer
<1>5. QED
    BY <1>1, <1>2, <1>3, <1>4 DEF Cleanup

LEMMA NextAnswer == AnswerInv /\ [Next]_vars => AnswerInv'
<1> SUFFICES ASSUME AnswerInv, [Next]_vars PROVE AnswerInv'
    OBVIOUS
<1>1. CASE UNCHANGED vars
    <2>1. /\ UNCHANGED <<batch, written, writer>>
          /\ UNCHANGED <<answer, submit_queue, response_queue, frame, reader, replies, wire, link>>
        BY <1>1 DEF vars, callVars, queueVars, writerVars, readerVars, peerVars
    <2>2. QED
        BY <2>1, WriterKeepsAnswer DEF AnswerInv, BatchInv, Writing
<1>2. CASE Next
    BY <1>2, CallStep, WriterStep, ReaderStep, OthersStep DEF Next
<1>3. QED
    BY <1>1, <1>2

\* The frames carry no identifier, and yet no call is ever given the answer to
\* another one, for any number of calls, through batches written in part, callers
\* that gave up, undecodable frames, drained queues and a connection that is lost.
THEOREM Own_Answer == Spec => []OwnAnswer
<1>1. AnswerInv => OwnAnswer
    BY DEF AnswerInv
<1>2. QED
    BY InitAnswer, NextAnswer, <1>1, PTL DEF Spec
=============================================================================
