---------------------------- MODULE TcpConnection ----------------------------
(***************************************************************************)
(* One pooled connection of the TCP request plane, egress/tcp_client.rs.     *)
(*                                                                         *)
(* Callers of send_request push onto submit_queue; writer_task takes what is *)
(* queued as a batch, writes it and then pushes the callers onto             *)
(* response_queue; reader_task hands each response to the caller at its      *)
(* head.  The frames carry no request identifier: only the two queues say    *)
(* which answer is whose.  A caller may give up at either of its awaits, the *)
(* peer may go away, and cleanup_idle_hosts may close the connection.        *)
(*                                                                         *)
(* The peer is the read loop of ingress/shared_tcp_endpoint.rs: one response *)
(* per request, in order.                                                    *)
(***************************************************************************)
EXTENDS Naturals, Sequences, FiniteSets

CONSTANTS
    Requests,       \* calls of send_request; each is made once
    Buffers         \* values channel_buffer may be configured with

ASSUME ConnAssumption == IsFiniteSet(Requests) /\ Buffers \subseteq Nat

Nobody  == "nobody"
Garbage == "garbage"    \* a frame that TcpResponseCodec cannot decode
ASSUME NamesAssumption == {Nobody, Garbage} \cap Requests = {}

VARIABLES
    pc,             \* where each call is in send_request
    answer,         \* what was sent on each call's oneshot channel
    submit_queue,
    response_queue,
    notify,         \* writer_notify holds a permit
    healthy, closed,
    gate,           \* the admission semaphore has not been closed
    channel_buffer, \* never changed
    permits,        \* of the admission semaphore
    inflight,
    writer,         \* where writer_task is
    batch,          \* response_batch
    written,        \* how many of the batch are on the wire
    reader,         \* where reader_task is
    frame,          \* the response it is matching
    wire, replies,  \* requests the peer has to answer; responses to be read
    link,           \* the peer still holds the connection
    cleaner         \* where cleanup_idle_hosts is with this connection

callVars   == <<pc, answer, channel_buffer, permits, inflight>>
queueVars  == <<submit_queue, response_queue>>
flagVars   == <<healthy, closed, gate>>
writerVars == <<writer, batch, written>>
readerVars == <<reader, frame>>
peerVars   == <<wire, replies, link>>
vars == <<callVars, queueVars, notify, flagVars, writerVars, readerVars, peerVars, cleaner>>

\* Of a call: "admit" waits at the semaphore, "queued" has pushed, "woken" has
\* called notify_one, "wait" is at response_rx.await.
CallPc   == {"idle", "admit", "admitted", "queued", "notify", "woken", "wait", "done"}
WriterPc == {"top", "park", "pop", "write", "commit", "mark", "close", "drain", "shut", "done"}
ReaderPc == {"read", "match", "fail", "eof", "drainFail", "drainEof", "shut", "done"}
CleanPc  == {"no", "chosen", "marked", "done"}

\* The calls that hold a permit, and those counted by inflight.
Holding  == {r \in Requests : pc[r] \in CallPc \ {"idle", "admit", "done"}}
InFlight == {r \in Requests : pc[r] \in {"queued", "notify", "woken", "wait"}}

Elems(q) == {q[i] : i \in DOMAIN q}

TypeOK ==
    /\ pc \in [Requests -> CallPc]
    /\ answer \in [Requests -> Requests \cup {"none", "error"}]
    /\ {submit_queue, response_queue, batch, wire} \subseteq Seq(Requests)
    /\ replies \in Seq(Requests \cup {Garbage})
    /\ {notify, healthy, closed, gate, link} \subseteq BOOLEAN
    /\ writer \in WriterPc /\ written \in 0..Len(batch)
    /\ reader \in ReaderPc /\ frame \in Requests \cup {Nobody, Garbage}
    /\ cleaner \in CleanPc
    /\ channel_buffer \in Buffers /\ permits + Cardinality(Holding) = channel_buffer
    /\ inflight = Cardinality(InFlight)

Init ==
    /\ pc = [r \in Requests |-> "idle"] /\ answer = [r \in Requests |-> "none"]
    /\ channel_buffer \in Buffers /\ permits = channel_buffer /\ inflight = 0
    /\ submit_queue = <<>> /\ response_queue = <<>> /\ notify = FALSE
    /\ healthy = TRUE /\ closed = FALSE /\ gate = TRUE
    /\ writer = "top" /\ batch = <<>> /\ written = 0
    /\ reader = "read" /\ frame = Nobody
    /\ wire = <<>> /\ replies = <<>> /\ link = TRUE
    /\ cleaner = "no"

\* Sends v to every caller of S that still holds its receiver.
Tell(S, v) ==
    answer' = [r \in Requests |-> IF r \in S /\ pc[r] # "done" THEN v ELSE answer[r]]

-----------------------------------------------------------------------------
(* send_request.  The loads of healthy and closed are one step: closed never *)
(* becomes FALSE again.                                                      *)

Usable == healthy /\ ~closed

Begin(r) ==
    /\ pc[r] = "idle"
    /\ pc' = [pc EXCEPT ![r] = IF Usable THEN "admit" ELSE "done"]
    /\ UNCHANGED <<channel_buffer, answer, permits, inflight, queueVars, notify, flagVars,
                   writerVars, readerVars, peerVars, cleaner>>

Admit(r) ==
    /\ pc[r] = "admit"
    /\ \/ /\ gate /\ permits > 0
          /\ permits' = permits - 1
          /\ pc' = [pc EXCEPT ![r] = "admitted"]
       \/ ~gate /\ pc' = [pc EXCEPT ![r] = "done"] /\ UNCHANGED permits
    /\ UNCHANGED <<channel_buffer, answer, inflight, queueVars, notify, flagVars,
                   writerVars, readerVars, peerVars, cleaner>>

\* The connection went bad while the caller waited, or encode() fails.
GiveBack(r) ==
    /\ pc[r] = "admitted"
    /\ pc' = [pc EXCEPT ![r] = "done"] /\ permits' = permits + 1
    /\ UNCHANGED <<channel_buffer, answer, inflight, queueVars, notify, flagVars,
                   writerVars, readerVars, peerVars, cleaner>>

\* Between the second check and the push the connection may still go bad.
Recheck(r) ==
    /\ pc[r] = "admitted" /\ Usable
    /\ pc' = [pc EXCEPT ![r] = "queued"] /\ inflight' = inflight + 1
    /\ UNCHANGED <<channel_buffer, answer, permits, queueVars, notify, flagVars, writerVars,
                   readerVars, peerVars, cleaner>>

Push(r) ==
    /\ pc[r] = "queued"
    /\ submit_queue' = Append(submit_queue, r)
    /\ pc' = [pc EXCEPT ![r] = "notify"]
    /\ UNCHANGED <<channel_buffer, answer, permits, inflight, response_queue, notify,
                   flagVars, writerVars, readerVars, peerVars, cleaner>>

\* Mutant: "if let" for "while let".
DrainOne ==
    LET q == submit_queue
    IN  /\ Tell(IF q = <<>> THEN {} ELSE {Head(q)}, "error")
        /\ submit_queue' = IF q = <<>> THEN q ELSE Tail(q)

\* drain_pending, by whoever calls it.
DrainPending ==
    Tell(Elems(submit_queue), "error") /\ submit_queue' = <<>>

\* The first check after the push: drain, or go on to wake the writer.
CheckClosed(r) ==
    /\ pc[r] = "notify"
    /\ \/ closed /\ DrainPending /\ pc' = [pc EXCEPT ![r] = "wait"] /\ UNCHANGED notify
       \/ /\ ~closed /\ notify' = TRUE /\ pc' = [pc EXCEPT ![r] = "woken"]
          /\ UNCHANGED <<channel_buffer, answer, submit_queue>>
    /\ UNCHANGED <<channel_buffer, permits, inflight, response_queue, flagVars, writerVars,
                   readerVars, peerVars, cleaner>>

\* The second check: the writer may have closed in between.
CheckAgain(r) ==
    /\ pc[r] = "woken"
    /\ IF closed THEN DrainPending ELSE UNCHANGED <<answer, submit_queue>>
    /\ pc' = [pc EXCEPT ![r] = "wait"]
    /\ UNCHANGED <<channel_buffer, permits, inflight, response_queue, notify, flagVars,
                   writerVars, readerVars, peerVars, cleaner>>

\* The call ends: its receiver, InflightGuard and the permit are dropped.
Leave(r) ==
    /\ pc' = [pc EXCEPT ![r] = "done"]
    /\ inflight' = inflight - 1 /\ permits' = permits + 1
    /\ answer' = [answer EXCEPT ![r] = "none"]
    /\ UNCHANGED <<channel_buffer, queueVars, notify, flagVars, writerVars, readerVars,
                   peerVars, cleaner>>

Receive(r) == pc[r] = "wait" /\ answer[r] # "none" /\ Leave(r)

\* The outer timeout, or a caller that drops the future, at either await.
TimeoutWaiting(r) == pc[r] = "wait" /\ answer[r] = "none" /\ Leave(r)

TimeoutAdmitting(r) ==
    /\ pc[r] = "admit"
    /\ pc' = [pc EXCEPT ![r] = "done"]
    /\ UNCHANGED <<channel_buffer, answer, permits, inflight, queueVars, notify, flagVars,
                   writerVars, readerVars, peerVars, cleaner>>

-----------------------------------------------------------------------------
(* writer_task                                                               *)

\* The spin: work, a dead connection, or the spin limit.
WriterSpin ==
    /\ writer = "top"
    /\ \/ submit_queue # <<>> /\ writer' = "pop"
       \/ submit_queue = <<>> /\ writer' = IF healthy THEN "park" ELSE "mark"
    /\ UNCHANGED <<batch, written, callVars, queueVars, notify, flagVars, readerVars,
                   peerVars, cleaner>>

WriterWake ==
    /\ writer = "park" /\ notify
    /\ notify' = FALSE /\ writer' = "pop"
    /\ UNCHANGED <<batch, written, callVars, queueVars, flagVars, readerVars, peerVars,
                   cleaner>>

WriterPop ==
    /\ writer = "pop"
    /\ batch' = submit_queue /\ submit_queue' = <<>> /\ written' = 0
    /\ writer' = IF submit_queue = <<>> THEN "top" ELSE "write"
    /\ UNCHANGED <<callVars, response_queue, notify, flagVars, readerVars, peerVars,
                   cleaner>>

\* write_all makes progress, and in the end returns: the peer may see the first
\* requests of a batch, and answer them, while the rest is still to be written.
WriteOne ==
    /\ writer = "write"
    /\ written' = written + 1
    /\ wire' = IF link THEN Append(wire, batch[written + 1]) ELSE wire
    /\ writer' = IF written + 1 = Len(batch) THEN "commit" ELSE "write"
    /\ UNCHANGED <<batch, callVars, queueVars, notify, flagVars, readerVars, replies, link,
                   cleaner>>

\* Mutant: the callers of a batch that cannot be written are not told.
WriteFailsQuiet ==
    /\ writer = "write" /\ ~link
    /\ batch' = <<>> /\ written' = 0 /\ writer' = "mark"
    /\ UNCHANGED <<callVars, queueVars, notify, flagVars, readerVars, peerVars, cleaner>>

\* write_all fails: the whole batch is told, what is on the wire included.
WriteFails ==
    /\ writer = "write" /\ ~link
    /\ Tell(Elems(batch), "error")
    /\ batch' = <<>> /\ written' = 0 /\ writer' = "mark"
    /\ UNCHANGED <<channel_buffer, pc, permits, inflight, queueVars, notify, flagVars,
                   readerVars, peerVars, cleaner>>

\* Mutant: no entry for a caller that is gone.
WriterCommitLive ==
    /\ writer = "commit" /\ batch # <<>>
    /\ response_queue' = IF pc[Head(batch)] = "done" THEN response_queue
                         ELSE Append(response_queue, Head(batch))
    /\ batch' = Tail(batch) /\ written' = written - 1
    /\ UNCHANGED <<writer, callVars, submit_queue, notify, flagVars, readerVars, peerVars,
                   cleaner>>

\* One push onto response_queue.
WriterCommit ==
    /\ writer = "commit" /\ batch # <<>>
    /\ response_queue' = Append(response_queue, Head(batch))
    /\ batch' = Tail(batch) /\ written' = written - 1
    /\ UNCHANGED <<writer, callVars, submit_queue, notify, flagVars, readerVars, peerVars,
                   cleaner>>

WriterLoop ==
    /\ writer = "commit" /\ batch = <<>>
    /\ writer' = IF healthy THEN "top" ELSE "mark"
    /\ UNCHANGED <<batch, written, callVars, queueVars, notify, flagVars, readerVars,
                   peerVars, cleaner>>

\* The way out: healthy, then closed, then drain_pending, then the wrapper of
\* connect() shuts the gate.
WriterMark ==
    /\ writer = "mark" /\ healthy' = FALSE /\ writer' = "close"
    /\ UNCHANGED <<batch, written, callVars, queueVars, notify, closed, gate, readerVars,
                   peerVars, cleaner>>

WriterClose ==
    /\ writer = "close" /\ closed' = TRUE /\ writer' = "drain"
    /\ UNCHANGED <<batch, written, callVars, queueVars, notify, healthy, gate, readerVars,
                   peerVars, cleaner>>

WriterDrain ==
    /\ writer = "drain" /\ DrainPending /\ writer' = "shut"
    /\ UNCHANGED <<channel_buffer, batch, written, pc, permits, inflight, response_queue,
                   notify, flagVars, readerVars, peerVars, cleaner>>

WriterShut ==
    /\ writer = "shut" /\ writer' = "done"
    /\ gate' = FALSE
    /\ UNCHANGED <<batch, written, callVars, queueVars, notify, healthy, closed, readerVars,
                   peerVars, cleaner>>

WriterTask ==
    \/ WriterSpin \/ WriterWake \/ WriterPop \/ WriteOne \/ WriteFails
    \/ WriterCommit \/ WriterLoop \/ WriterMark \/ WriterClose \/ WriterDrain \/ WriterShut

-----------------------------------------------------------------------------
(* reader_task                                                               *)

ReaderFrame ==
    /\ reader = "read" /\ replies # <<>>
    /\ frame' = Head(replies) /\ replies' = Tail(replies) /\ reader' = "match"
    /\ UNCHANGED <<callVars, queueVars, notify, flagVars, writerVars, wire, link, cleaner>>

\* End of file, or a read error in place of a frame.
ReaderEnd ==
    /\ reader = "read" /\ ~link
    /\ \/ reader' = "eof" /\ frame' = Nobody
       \/ reader' = "match" /\ frame' = Garbage
    /\ UNCHANGED <<callVars, queueVars, notify, flagVars, writerVars, peerVars, cleaner>>

\* The response goes to the caller at the head of response_queue.
ReaderDeliver ==
    /\ reader = "match" /\ response_queue # <<>>
    /\ response_queue' = Tail(response_queue)
    /\ \/ /\ frame \in Requests
          /\ Tell({Head(response_queue)}, frame) /\ reader' = "read"
       \/ /\ frame = Garbage
          /\ Tell({Head(response_queue)}, "error") /\ reader' = "fail"
    /\ frame' = Nobody
    /\ UNCHANGED <<channel_buffer, pc, permits, inflight, submit_queue, notify, flagVars,
                   writerVars, peerVars, cleaner>>

\* Nobody to give it to: spin, and leave if the connection went bad.
ReaderAbandons ==
    /\ reader = "match" /\ response_queue = <<>> /\ ~healthy
    /\ reader' = "shut" /\ frame' = Nobody
    /\ UNCHANGED <<callVars, queueVars, notify, flagVars, writerVars, peerVars, cleaner>>

\* After an undecodable frame ("fail") or at end of file ("eof"): not healthy,
\* and then everyone in response_queue is told.
ReaderMark ==
    /\ reader \in {"fail", "eof"}
    /\ healthy' = FALSE
    /\ reader' = IF reader = "fail" THEN "drainFail" ELSE "drainEof"
    /\ UNCHANGED <<frame, callVars, queueVars, notify, closed, gate, writerVars, peerVars,
                   cleaner>>

ReaderDrain ==
    /\ reader \in {"drainFail", "drainEof"}
    /\ Tell(Elems(response_queue), "error") /\ response_queue' = <<>>
    /\ notify' = TRUE
    /\ reader' = IF reader = "drainFail" THEN "shut" ELSE "done"
    /\ UNCHANGED <<channel_buffer, frame, pc, permits, inflight, submit_queue, flagVars,
                   writerVars, peerVars, cleaner>>

\* The wrapper of connect(), when reader_task returned an error.
ReaderShut ==
    /\ reader = "shut" /\ reader' = "done"
    /\ healthy' = FALSE /\ gate' = FALSE
    /\ UNCHANGED <<frame, callVars, queueVars, notify, closed, writerVars, peerVars,
                   cleaner>>

ReaderTask ==
    \/ ReaderFrame \/ ReaderEnd \/ ReaderDeliver \/ ReaderAbandons
    \/ ReaderMark \/ ReaderDrain \/ ReaderShut

-----------------------------------------------------------------------------
(* The peer, and cleanup_idle_hosts.                                         *)

PeerAnswers ==
    /\ link /\ wire # <<>>
    /\ wire' = Tail(wire)
    /\ \E f \in {Head(wire), Garbage} : replies' = Append(replies, f)
    /\ UNCHANGED <<callVars, queueVars, notify, flagVars, writerVars, readerVars, link,
                   cleaner>>

\* It goes away; the reader may still read what it sent, or find the end.
PeerLeaves ==
    /\ link /\ link' = FALSE /\ wire' = <<>>
    /\ UNCHANGED <<callVars, queueVars, notify, flagVars, writerVars, readerVars, replies,
                   cleaner>>

\* The connection looks idle ...
CleanupChoose ==
    /\ cleaner = "no" /\ inflight = 0
    /\ cleaner' = "chosen"
    /\ UNCHANGED <<callVars, queueVars, notify, flagVars, writerVars, readerVars, peerVars>>

\* ... and is closed, whatever came in since.
CleanupMark ==
    /\ cleaner = "chosen"
    /\ healthy' = FALSE /\ gate' = FALSE /\ cleaner' = "marked"
    /\ UNCHANGED <<callVars, queueVars, notify, closed, writerVars, readerVars, peerVars>>

\* The reader is aborted at one of its awaits.
CleanupAbort ==
    /\ cleaner = "marked" /\ reader \in {"read", "match", "done"}
    /\ notify' = TRUE
    /\ reader' = "done" /\ frame' = Nobody
    /\ cleaner' = "done"
    /\ UNCHANGED <<callVars, queueVars, flagVars, writerVars, peerVars>>

-----------------------------------------------------------------------------
Call(r) ==
    \/ Begin(r) \/ Admit(r) \/ GiveBack(r) \/ Recheck(r) \/ Push(r)
    \/ CheckClosed(r) \/ CheckAgain(r) \/ Receive(r)

Timeout(r) == TimeoutWaiting(r) \/ TimeoutAdmitting(r)

Cleanup == CleanupMark \/ CleanupAbort

Next ==
    \/ \E r \in Requests : Call(r) \/ Timeout(r)
    \/ WriterTask \/ ReaderTask
    \/ PeerAnswers \/ PeerLeaves
    \/ CleanupChoose \/ Cleanup

Spec == Init /\ [][Next]_vars

\* Tasks that can run do.  The peer answers or goes away.  No timeout is
\* assumed to fire: the properties say what the code settles without it.
FairSpec ==
    /\ Spec
    /\ \A r \in Requests : WF_vars(Call(r))
    /\ WF_vars(WriterTask) /\ WF_vars(ReaderTask)
    /\ WF_vars(PeerAnswers) /\ WF_vars(Cleanup)

-----------------------------------------------------------------------------
\* Every answer goes to the call it is for, though the frames carry no
\* identifier: whatever callers gave up, whatever batches were written in
\* part and whichever queues were drained.
OwnAnswer == \A r \in Requests : answer[r] \in {"none", "error", r}

\* No submission is left behind: once the writer has drained its queue for the
\* last time, no call waits for an entry that is still in it, however late it
\* was pushed.
Stranded(r) == pc[r] = "wait" /\ r \in Elems(submit_queue)
NoneStranded == writer \in {"shut", "done"} => \A r \in Requests : ~Stranded(r)

\* A call that was written after the reader had gone: nobody will answer it,
\* and only the outer timeout ends it.
Orphaned(r) == reader = "done" /\ r \in Elems(response_queue)

\* Every other wait, at the semaphore or for the response, ends without the
\* timeout.
CallsSettle ==
    \A r \in Requests : pc[r] \in {"admit", "wait"} ~> pc[r] = "done" \/ Orphaned(r)

=============================================================================
