--------------------------- MODULE StreamProtocol ---------------------------
(***************************************************************************)
(* One response stream, from the handshake to the end.                      *)
(*                                                                         *)
(* The worker (ingress/push_handler.rs, tcp/client.rs) sends a prologue, the *)
(* items, a complete_final wrapper and a sentinel; the requester's server    *)
(* (tcp/server.rs) forwards the items to the stream that                     *)
(* AddressedPushRouter::generate returned (egress/addressed_router.rs), and  *)
(* sends Stop and Kill the other way.  Each side has a task that reads, one  *)
(* that writes and a consumer or producer, and a context (pipeline/          *)
(* context.rs) that others may stop or kill.                                 *)
(*                                                                         *)
(* Every item looks alike: nothing here reorders, so counting them tells     *)
(* whether one is missing.                                                   *)
(***************************************************************************)
EXTENDS Naturals, Sequences

CONSTANTS
    Items,      \* items the engine has to say
    Capacity,   \* of the two mpsc channels for data
    Faults      \* may the connection break?

ASSUME StreamAssumption == Items \in Nat /\ Capacity \in Nat \ {0} /\ Faults \in BOOLEAN

VARIABLES
    pub,        \* handle_payload: "start", "run", "done"
    made,       \* items published
    wctx,       \* the worker's context
    bytes,      \* the channel from handle_payload to handle_writer
    writer,     \* handle_writer: "check" polls the context, "recv" the channel
    reader,     \* handle_reader
    closed,     \* the worker has dropped its socket
    up, down,   \* the connection, as each side will read it
    cut,        \* may the connection carry more? "no" means that it does
    srv,        \* process_response_stream, then network_receive_handler
    can_stop,   \* its flag
    control,    \* the channel to network_send_handler, of capacity 1
    sender,     \* network_send_handler
    responses,  \* the channel to the consumer
    fctx,       \* the requester's context
    cons,       \* the consumer
    got,        \* items it was given
    final,      \* is_complete_final
    late        \* it was told "Response received after generation ended"

workerVars == <<pub, made, wctx, bytes, writer, reader, closed>>
wireVars   == <<up, down, cut>>
serverVars == <<srv, can_stop, control, sender>>
consVars   == <<fctx, cons, got, final, late>>
vars == <<workerVars, wireVars, serverVars, responses, consVars>>

Ctx  == {"live", "stopped", "killed"}
UpFrame   == {"prologue", "refusal", "data", "final", "sentinel", "eof", "err"}
DownFrame == {"stop", "kill", "eof", "err"}

TypeOK ==
    /\ pub \in {"start", "run", "done"} /\ made \in 0..Items /\ wctx \in Ctx
    /\ bytes \in Seq(UpFrame) /\ Len(bytes) <= Capacity
    /\ writer \in {"check", "recv", "done"} /\ reader \in {"run", "done"} /\ closed \in BOOLEAN
    /\ up \in Seq(UpFrame) /\ down \in Seq(DownFrame) /\ cut \in {"no", "closed", "broken"}
    /\ srv \in {"prologue", "check", "recv", "data", "final", "stop", "kill", "over"}
    /\ can_stop \in BOOLEAN /\ control \in Seq({"stop", "kill"}) /\ Len(control) <= 1
    /\ sender \in {"run", "done"}
    /\ responses \in Seq({"data", "final"}) /\ Len(responses) <= Capacity
    /\ fctx \in Ctx /\ cons \in {"wait", "open", "end", "error", "dropped"}
    /\ got \in 0..Items /\ final \in BOOLEAN /\ late \in BOOLEAN

\* The handshake has been made: the subject's sender is with the server's task.
Init ==
    /\ pub = "start" /\ made = 0 /\ wctx = "live"
    /\ bytes = <<>> /\ writer = "check" /\ reader = "run" /\ closed = FALSE
    /\ up = <<>> /\ down = <<>> /\ cut = "no"
    /\ srv = "prologue" /\ can_stop = TRUE /\ control = <<>> /\ sender = "run"
    /\ responses = <<>>
    /\ fctx = "live" /\ cons = "wait" /\ got = 0 /\ final = FALSE /\ late = FALSE

-----------------------------------------------------------------------------
(***************************************************************************)
(* handle_payload.                                                          *)
(***************************************************************************)

\* publisher.send(f): waits for room, fails when handle_writer is gone.
CanSend == writer = "done" \/ Len(bytes) < Capacity
Put(f) == bytes' = IF writer = "done" THEN bytes ELSE Append(bytes, f)

\* The engine's generate() gives a stream or an error; what becomes of the
\* prologue is ignored.
GenerateOk ==
    /\ pub = "start" /\ CanSend
    /\ Put("prologue")
    /\ pub' = "run"
    /\ UNCHANGED <<made, wctx, writer, reader, closed, wireVars, serverVars, responses, consVars>>

GenerateErr ==
    /\ pub = "start" /\ CanSend
    /\ Put("refusal")
    /\ pub' = "done"
    /\ UNCHANGED <<made, wctx, writer, reader, closed, wireVars, serverVars, responses, consVars>>

Publish ==
    /\ pub = "run" /\ made < Items
    /\ writer # "done" /\ CanSend
    /\ Put("data")
    /\ made' = made + 1
    /\ UNCHANGED <<pub, wctx, writer, reader, closed, wireVars, serverVars, responses, consVars>>

\* Nobody takes the item: the engine is stopped, and no complete_final is sent.
PublishFails ==
    /\ pub = "run" /\ made < Items
    /\ writer = "done"
    /\ pub' = "done"
    /\ wctx' = IF wctx = "live" THEN "stopped" ELSE wctx
    /\ UNCHANGED <<made, bytes, writer, reader, closed, wireVars, serverVars, responses, consVars>>

\* The engine's stream ends, early if its context is no longer live.
Finish ==
    /\ pub = "run" /\ (made = Items \/ wctx # "live")
    /\ CanSend
    /\ Put("final")
    /\ pub' = "done"
    /\ UNCHANGED <<made, wctx, writer, reader, closed, wireVars, serverVars, responses, consVars>>

-----------------------------------------------------------------------------
(***************************************************************************)
(* handle_writer, handle_reader and wait_for_connection_tasks.              *)
(***************************************************************************)

\* The biased select looks at the context first, and goes on to the channel if
\* it is live; a signal that comes while it waits wakes it too.
WriterPoll ==
    /\ writer = "check" /\ wctx = "live"
    /\ writer' = "recv"
    /\ UNCHANGED <<pub, made, wctx, bytes, reader, closed, wireVars, serverVars, responses, consVars>>

WriterCancelled ==
    /\ writer # "done" /\ wctx # "live"
    /\ writer' = "done" /\ bytes' = <<>>
    /\ UNCHANGED <<pub, made, wctx, reader, closed, wireVars, serverVars, responses, consVars>>

\* A write to a connection that is cut may still seem to succeed.
WriterSend ==
    /\ writer = "recv" /\ bytes # <<>>
    /\ bytes' = Tail(bytes) /\ writer' = "check"
    /\ up' = IF cut # "no" THEN up ELSE Append(up, Head(bytes))
    /\ UNCHANGED <<pub, made, wctx, reader, closed, down, cut, serverVars, responses, consVars>>

WriterFails ==
    /\ writer = "recv" /\ bytes # <<>> /\ cut # "no"
    /\ bytes' = <<>> /\ writer' = "done"
    /\ UNCHANGED <<pub, made, wctx, reader, closed, wireVars, serverVars, responses, consVars>>

\* The publisher is gone and its last message sent: the sentinel.
WriterEnd ==
    /\ writer = "recv" /\ bytes = <<>> /\ pub = "done"
    /\ writer' = "done"
    /\ up' = IF cut # "no" THEN up ELSE Append(up, "sentinel")
    /\ UNCHANGED <<pub, made, wctx, bytes, reader, closed, down, cut, serverVars, responses, consVars>>

\* A control message; the end of the connection ends the reader, and an error
\* kills the context too.
ReaderRecv ==
    /\ reader = "run" /\ down # <<>>
    /\ down' = Tail(down)
    /\ LET m == Head(down) IN
          /\ wctx' = CASE m = "stop" -> "stopped" [] m \in {"kill", "err"} -> "killed" [] OTHER -> wctx
          /\ reader' = IF m \in {"eof", "err"} THEN "done" ELSE "run"
    /\ UNCHANGED <<pub, made, bytes, writer, closed, up, cut, serverVars, responses, consVars>>

ReaderEnd ==
    /\ reader = "run" /\ writer = "done"
    /\ reader' = "done"
    /\ UNCHANGED <<pub, made, wctx, bytes, writer, closed, wireVars, serverVars, responses, consVars>>

\* What a side will still read of queue q when the other drops the socket: all
\* of it, or a part when the other had not read everything itself (a reset).
Cuts(q, unread) ==
    {Append(q, "eof")} \cup
    (IF unread = <<>> THEN {} ELSE {Append(SubSeq(q, 1, k), "err") : k \in 0..Len(q)})

Hung == cut' = IF cut = "no" THEN "closed" ELSE cut

\* Mutant of CloseStopped: a writer that was stopped waits for the server too.
CloseStoppedWaits ==
    /\ reader = "done" /\ writer = "done" /\ ~closed
    /\ wctx # "live" /\ cut # "no"
    /\ closed' = TRUE
    /\ UNCHANGED <<pub, made, wctx, bytes, writer, reader, wireVars, serverVars, responses, consVars>>

\* Both tasks are over.  Without a sentinel there is nothing to wait for, ...
CloseStopped ==
    /\ reader = "done" /\ writer = "done" /\ ~closed
    /\ wctx # "live"
    /\ closed' = TRUE /\ Hung
    /\ IF cut # "no" THEN UNCHANGED up ELSE up' \in Cuts(up, down)
    /\ UNCHANGED <<pub, made, wctx, bytes, writer, reader, down, serverVars, responses, consVars>>

\* ... else the server's end of the connection is read, or the deadline passes.
CloseServed ==
    /\ reader = "done" /\ writer = "done" /\ ~closed
    /\ wctx = "live"
    /\ closed' = TRUE /\ Hung
    /\ up' = IF cut # "no" THEN up ELSE Append(up, "eof")
    /\ down' = <<>>
    /\ UNCHANGED <<pub, made, wctx, bytes, writer, reader, serverVars, responses, consVars>>

\* The connection breaks: each side reads a part of what was sent, then an end
\* or an error.
Break ==
    /\ Faults /\ cut = "no"
    /\ cut' = "broken"
    /\ \E k \in 0..Len(up), n \in 0..Len(down), e \in {"eof", "err"} :
          /\ up' = Append(SubSeq(up, 1, k), e)
          /\ down' = Append(SubSeq(down, 1, n), e)
    /\ UNCHANGED <<workerVars, serverVars, responses, consVars>>

-----------------------------------------------------------------------------
(***************************************************************************)
(* The server.                                                              *)
(***************************************************************************)

\* The server drops the socket while rest is unread.
HangUp(rest) ==
    /\ IF cut # "no" THEN UNCHANGED down ELSE down' \in Cuts(down, rest)
    /\ Hung

\* The prologue arrives and the requester still waits: the stream is open.
PrologueOk ==
    /\ srv = "prologue" /\ up # <<>> /\ Head(up) = "prologue"
    /\ cons = "wait"
    /\ up' = Tail(up)
    /\ srv' = "check" /\ cons' = "open"
    /\ UNCHANGED <<workerVars, down, cut, can_stop, control, sender, responses, fctx, got, final, late>>

\* It does not wait any more, or the engine failed, or the connection ended.
PrologueFails ==
    /\ srv = "prologue" /\ up # <<>>
    /\ Head(up) # "prologue" \/ cons # "wait"
    /\ up' = Tail(up)
    /\ HangUp(Tail(up))
    /\ srv' = "over" /\ sender' = "done"
    /\ cons' = IF cons = "wait" THEN "error" ELSE cons
    /\ UNCHANGED <<workerVars, can_stop, control, responses, fctx, got, final, late>>

Waiting == srv \in {"check", "recv"}
ReceiverGone == cons \notin {"wait", "open"}

\* Mutant of SeeKill: a dropped receiver is not noticed.
SeeKillContext ==
    /\ Waiting /\ fctx = "killed"
    /\ srv' = "kill"
    /\ UNCHANGED <<workerVars, wireVars, can_stop, control, sender, responses, consVars>>

\* The biased select of network_receive_handler: the consumer is gone or the
\* context killed; ...
SeeKill ==
    /\ Waiting /\ (ReceiverGone \/ fctx = "killed")
    /\ srv' = "kill"
    /\ UNCHANGED <<workerVars, wireVars, can_stop, control, sender, responses, consVars>>

\* ... the context is stopped, once; ...
SeeStop ==
    /\ Waiting /\ fctx # "live" /\ can_stop
    /\ srv = "check" => ~ReceiverGone /\ fctx # "killed"
    /\ srv' = "stop" /\ can_stop' = FALSE
    /\ UNCHANGED <<workerVars, wireVars, control, sender, responses, consVars>>

\* ... nothing of that, and then a frame.
SeeNothing ==
    /\ srv = "check"
    /\ ~ReceiverGone /\ fctx # "killed" /\ ~(fctx # "live" /\ can_stop)
    /\ srv' = "recv"
    /\ UNCHANGED <<workerVars, wireVars, can_stop, control, sender, responses, consVars>>

\* An item; a sentinel or the end of the connection; an error.
RecvFrame ==
    /\ srv = "recv" /\ up # <<>>
    /\ up' = Tail(up)
    /\ srv' = CASE Head(up) = "data"               -> "data"
                []  Head(up) = "final"              -> "final"
                []  Head(up) \in {"sentinel", "eof"} -> "over"
                []  OTHER                           -> "kill"
    /\ UNCHANGED <<workerVars, down, cut, can_stop, control, sender, responses, consVars>>

\* response_tx.send(): waits for room, or finds the receiver gone.
Forward ==
    /\ srv \in {"data", "final"}
    /\ ~ReceiverGone /\ Len(responses) < Capacity
    /\ responses' = Append(responses, srv)
    /\ srv' = "check"
    /\ UNCHANGED <<workerVars, wireVars, can_stop, control, sender, consVars>>

ForwardFails ==
    /\ srv \in {"data", "final"} /\ ReceiverGone
    /\ srv' = "kill"
    /\ UNCHANGED <<workerVars, wireVars, can_stop, control, sender, responses, consVars>>

\* control_tx.send() waits for room.
SendStop ==
    /\ srv = "stop" /\ control = <<>>
    /\ control' = <<"stop">>
    /\ srv' = "check"
    /\ UNCHANGED <<workerVars, wireVars, can_stop, sender, responses, consVars>>

SendKill ==
    /\ srv = "kill" /\ control = <<>>
    /\ control' = <<"kill">>
    /\ srv' = "over"
    /\ UNCHANGED <<workerVars, wireVars, can_stop, sender, responses, consVars>>

\* network_send_handler.
WriteControl ==
    /\ sender = "run" /\ control # <<>>
    /\ down' = IF cut # "no" THEN down ELSE Append(down, Head(control))
    /\ control' = Tail(control)
    /\ UNCHANGED <<workerVars, up, cut, srv, can_stop, sender, responses, consVars>>

\* Both handlers are over: the socket is dropped.
ServerClose ==
    /\ sender = "run" /\ srv = "over" /\ control = <<>>
    /\ sender' = "done"
    /\ HangUp(up)
    /\ UNCHANGED <<workerVars, up, srv, can_stop, control, responses, consVars>>

-----------------------------------------------------------------------------
(***************************************************************************)
(* The requester.                                                           *)
(***************************************************************************)

Next_item ==
    /\ cons = "open" /\ responses # <<>>
    /\ responses' = Tail(responses)
    /\ IF final THEN late' = TRUE /\ UNCHANGED <<got, final>>
       ELSE IF Head(responses) = "final" THEN final' = TRUE /\ UNCHANGED <<got, late>>
       ELSE got' = got + 1 /\ UNCHANGED <<final, late>>
    /\ UNCHANGED <<workerVars, wireVars, serverVars, fctx, cons>>

\* Mutant of Next_end: the end of the channel is the end of the stream.
Next_end_quiet ==
    /\ cons = "open" /\ responses = <<>> /\ srv = "over"
    /\ cons' = "end"
    /\ UNCHANGED <<workerVars, wireVars, serverVars, responses, fctx, got, final, late>>

\* The channel is closed: an error, unless complete_final came or the request
\* was stopped.
Next_end ==
    /\ cons = "open" /\ responses = <<>> /\ srv = "over"
    /\ cons' = IF final \/ fctx # "live" THEN "end" ELSE "error"
    /\ UNCHANGED <<workerVars, wireVars, serverVars, responses, fctx, got, final, late>>

\* The future or the stream is dropped.
DropStream ==
    /\ cons \in {"wait", "open"}
    /\ cons' = "dropped" /\ responses' = <<>>
    /\ UNCHANGED <<workerVars, wireVars, serverVars, fctx, got, final, late>>

\* stop() and kill() of the requester's context; the last call wins.
StopRequest ==
    /\ fctx' = "stopped"
    /\ UNCHANGED <<workerVars, wireVars, serverVars, responses, cons, got, final, late>>

KillRequest ==
    /\ fctx' = "killed"
    /\ UNCHANGED <<workerVars, wireVars, serverVars, responses, cons, got, final, late>>

-----------------------------------------------------------------------------
Engine == GenerateOk \/ GenerateErr \/ Publish \/ PublishFails \/ Finish
WriterTask == WriterPoll \/ WriterCancelled \/ WriterSend \/ WriterFails \/ WriterEnd
ReaderTask == ReaderRecv \/ ReaderEnd
CloseTask  == CloseStopped \/ CloseServed
ReceiveTask == PrologueOk \/ PrologueFails \/ SeeKill \/ SeeStop \/ SeeNothing \/ RecvFrame
               \/ Forward \/ ForwardFails \/ SendStop \/ SendKill
SendTask == WriteControl \/ ServerClose
Consumer == Next_item \/ Next_end

Next ==
    \/ Engine \/ WriterTask \/ ReaderTask \/ CloseTask \/ Break
    \/ ReceiveTask \/ SendTask
    \/ Consumer \/ DropStream \/ StopRequest \/ KillRequest

Spec == Init /\ [][Next]_vars

\* The tasks of both processes run, and the consumer polls its stream or drops
\* it.  The select of network_receive_handler sees a signal that stays.
TaskFairness ==
    /\ WF_vars(WriterTask) /\ WF_vars(ReaderTask) /\ WF_vars(CloseTask)
    /\ WF_vars(ReceiveTask) /\ WF_vars(SendTask) /\ WF_vars(Consumer)

FairSpec == Spec /\ TaskFairness

\* The engine goes on producing, or ends.
EngineRuns == WF_vars(Engine)

-----------------------------------------------------------------------------
\* A response is never cut short unnoticed: if the stream ends without an error
\* and the request was not stopped, every item was delivered; and nothing is
\* delivered after complete_final.  Whatever breaks, resets or races.
CompleteOrFlagged ==
    /\ cons = "end" /\ fctx = "live" => got = Items
    /\ ~late

\* Once the stream is open, dropping it or stopping the request reaches the
\* worker over a connection that holds, though the engine says nothing and
\* however full the channels are: its context is stopped or killed, or its
\* writer is over and the next item is refused.
CancelReachesWorker ==
    Waiting /\ (ReceiverGone \/ fctx # "live")
    ~> wctx # "live" \/ writer = "done" \/ cut = "broken"

\* If the engine goes on, both sides take the connection down.
ConnectionReleased == EngineRuns => <>(closed /\ sender = "done")
=============================================================================
