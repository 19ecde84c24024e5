----------------------------- MODULE Propagation -----------------------------
(****************************************************************************)
(* What a request carries between processes beside its data, in two         *)
(* sections: the trace it belongs to, and the types of its error.           *)
(****************************************************************************)
EXTENDS Integers, Sequences, FiniteSets

-----------------------------------------------------------------------------
(***************************************************************************)
(* Distributed tracing (lib/runtime/src/logging.rs).  A frontend opens a   *)
(* span for each HTTP request, takes its ids from the request's headers,   *)
(* opens client spans below it and writes the ids of its current span into *)
(* the headers of what it sends; a worker opens a span from the headers it *)
(* receives.  DistributedTraceIdLayer computes a span's ids in two steps:  *)
(* what the span's fields and the current span say when it is created      *)
(* (pending), completed by OpenTelemetry's own ids when it is first        *)
(* entered.  CustomJsonFormatter stamps every log record with them.        *)
(*                                                                         *)
(* Ids are pairs: <<"own", n>> made by OpenTelemetry for span n,           *)
(* Ext a caller's, Odd a caller's that OpenTelemetry's propagator refuses  *)
(* (zeros, capitals) although it has the digits parse_traceparent looks    *)
(* for, Fresh a Context's own UUID, Junk an id that is no UUID, None.      *)
(* A traceparent header is "none", "good", "odd" or "bad".                 *)
(* Each process runs one thread at a time; spans are entered and left as a *)
(* stack, which is how a task polled on it holds them.  Of the log the     *)
(* last record is kept.                                                    *)
(***************************************************************************)
CONSTANTS MaxSpans,     \* spans ever opened
          MaxRequests,  \* HTTP requests among them
          Levels,       \* subset of {"error", "info", "debug"}: PGD_LOG
          Traceparents, \* subset of {"none", "good", "odd", "bad"}
          RequestIds    \* subset of {"none", "uuid", "junk"}

Procs == {"frontend", "worker"}

VARIABLES setup,    \* what init made of the environment: [jsonl, level, events], or NoSetup
          spans,    \* sequence of spans
          stack,    \* per process, the spans entered, innermost last
          wire,     \* requests sent: headers and, for the properties, the span that sent them
          record,   \* what the JSON formatter wrote last
          panicked

traceVars == <<setup, spans, stack, wire, record, panicked>>

None == <<"none", 0>>
Ext == <<"ext", 0>>
Odd == <<"odd", 0>>
Fresh == <<"fresh", 0>>
Junk == <<"junk", 0>>
Own(n) == <<"own", n>>
NoSetup == [jsonl |-> FALSE, level |-> "none", events |-> FALSE]
NoRecord == [span |-> 0, message |-> "none", ids |-> [trace |-> None, span |-> None, parent |-> None, request |-> None]]
NoContext == [trace |-> None, span |-> None, parent |-> None, request |-> None]

TraceInit ==
  /\ setup = NoSetup /\ spans = <<>> /\ stack = [p \in Procs |-> <<>>] /\ wire = <<>> /\ record = NoRecord /\ panicked = FALSE

\* init under INIT.call_once, setup_logging: only JSONL logging has the tracing layers
SetupLogging(jsonl, level, events) ==
  /\ setup = NoSetup /\ setup' = [jsonl |-> jsonl, level |-> level, events |-> events]
  /\ UNCHANGED <<spans, stack, wire, record, panicked>>

\* filters: request_span is always on, the rest goes by the level
Enabled(kind) ==
  CASE kind \in {"inference", "payload"} -> TRUE
    [] kind = "client" -> setup.level \in {"info", "debug"}
    [] kind = "system" -> setup.level = "debug"

Current(p) == stack[p][Len(stack[p])]

\* parse_traceparent: good and odd values have the digits it looks for
ParseTraceparent(tp) ==
  CASE tp = "good" -> [trace |-> Ext, parent |-> Ext]
    [] tp = "odd" -> [trace |-> Odd, parent |-> Odd]
    [] OTHER -> [trace |-> None, parent |-> None]

\* extract_otel_context_*: the propagator's context, if it is valid
OtelParent(trace) == IF trace = Odd THEN None ELSE trace

\* TraceParent::from_headers on a request id: kept when it is a UUID
RequestIdOf(rid) == IF rid = "uuid" THEN Ext ELSE None

\* Mutant of OnNewSpan: a span without a parent starts afresh
OnNewSpanAlone(p, fields) ==
  [trace |-> fields.trace, span |-> None, parent |-> fields.parent, request |-> fields.request]

\* on_new_span.  Without a parent of its own a span continues the current one
OnNewSpan(p, fields) ==
  LET above == IF stack[p] = <<>> THEN NoContext ELSE spans[Current(p)].ctx
      inherit == fields.parent = None /\ above # NoContext
      trace == IF inherit THEN above.trace ELSE fields.trace
      parent == IF inherit THEN above.span ELSE fields.parent
  IN  [trace |-> trace, span |-> None, parent |-> IF trace = None THEN None ELSE parent,
       request |-> IF inherit /\ fields.request = None THEN above.request ELSE fields.request]

\* the span macro: OpenTelemetry gives it an id and a trace, the layer its pending context
OpenSpan(p, kind, fields, otelParent, from) ==
  LET n == Len(spans) + 1
      trace == IF otelParent # None THEN otelParent
               ELSE IF stack[p] = <<>> THEN Own(n) ELSE spans[Current(p)].otel
  IN  /\ setup # NoSetup /\ n <= MaxSpans
      /\ IF Enabled(kind) /\ setup.jsonl
         THEN spans' = Append(spans, [proc |-> p, kind |-> kind, otel |-> trace, pending |-> OnNewSpan(p, fields),
                                      ctx |-> NoContext, from |-> from,
                                      under |-> IF stack[p] = <<>> THEN 0 ELSE Current(p), state |-> "open"])
         ELSE UNCHANGED spans
      /\ UNCHANGED <<setup, stack, record, panicked>>

\* make_inference_request_span, make_system_request_span: a request always has an id
MakeRequestSpan(kind, tp, rid) ==
  /\ stack["frontend"] = <<>>
  /\ Cardinality({n \in DOMAIN spans : spans[n].kind \in {"inference", "system"}}) < MaxRequests
  /\ LET ids == ParseTraceparent(tp)
         request == IF RequestIdOf(rid) # None THEN RequestIdOf(rid) ELSE Own(Len(spans) + 1)
     IN  OpenSpan("frontend", kind, [trace |-> ids.trace, parent |-> ids.parent, request |-> request], OtelParent(ids.trace), 0)
  /\ UNCHANGED wire

\* get_distributed_tracing_context
GetContext(p) == IF stack[p] = <<>> THEN NoContext ELSE spans[Current(p)].ctx

\* make_client_request_span, with the caller's context or without; the caller
\* names the request it serves
MakeClientRequestSpan(given) ==
  LET ctx == GetContext("frontend")
  IN  /\ stack["frontend"] # <<>>
      /\ IF given /\ ctx # NoContext
         THEN OpenSpan("frontend", "client", [trace |-> ctx.trace, parent |-> ctx.span, request |-> ctx.request], OtelParent(ctx.trace), 0)
         ELSE OpenSpan("frontend", "client", [trace |-> None, parent |-> None, request |-> ctx.request], None, 0)
      /\ UNCHANGED wire

\* on_enter.  The first time the pending context is completed with OpenTelemetry's
\* ids and kept; a span that has neither is a panic
OnEnter(n) ==
  LET s == spans[n]
      trace == IF s.pending.trace # None THEN s.pending.trace ELSE s.otel
      ctx == [s.pending EXCEPT !.trace = trace, !.span = Own(n)]
  IN  /\ s.state = "open" /\ n \notin {stack[s.proc][i] : i \in DOMAIN stack[s.proc]}
      /\ s.ctx = NoContext
      /\ IF trace = None THEN panicked' = TRUE /\ UNCHANGED spans
         ELSE spans' = [spans EXCEPT ![n].ctx = ctx, ![n].pending = NoContext] /\ UNCHANGED panicked
      /\ stack' = [stack EXCEPT ![s.proc] = Append(@, n)]
      /\ record' = IF setup.events THEN [span |-> n, message |-> "SPAN_FIRST_ENTRY", ids |-> ctx] ELSE record
      /\ UNCHANGED <<setup, wire>>

\* a span entered again keeps its context
Reenter(n) ==
  /\ spans[n].state = "open" /\ spans[n].ctx # NoContext
  /\ n \notin {stack[spans[n].proc][i] : i \in DOMAIN stack[spans[n].proc]}
  /\ stack' = [stack EXCEPT ![spans[n].proc] = Append(@, n)]
  /\ UNCHANGED <<setup, spans, wire, record, panicked>>

Exit(p) ==
  /\ stack[p] # <<>> /\ stack' = [stack EXCEPT ![p] = SubSeq(@, 1, Len(@) - 1)]
  /\ UNCHANGED <<setup, spans, wire, record, panicked>>

\* on_close
OnClose(n) ==
  /\ spans[n].state = "open" /\ n \notin {stack[spans[n].proc][i] : i \in DOMAIN stack[spans[n].proc]}
  /\ spans' = [spans EXCEPT ![n].state = "closed"]
  /\ UNCHANGED <<setup, stack, wire, record, panicked>>

\* Mutant of InjectTraceHeaders: the trace's first span is named as the parent
InjectFirst(ctx) ==
  IF ctx = NoContext THEN [trace |-> None, parent |-> None, request |-> None]
  ELSE [trace |-> ctx.trace, parent |-> ctx.parent, request |-> ctx.request]

\* inject_trace_headers_into_map, create_traceparent
InjectTraceHeaders(ctx) ==
  IF ctx = NoContext THEN [trace |-> None, parent |-> None, request |-> None]
  ELSE [trace |-> ctx.trace, parent |-> ctx.span, request |-> ctx.request]

\* build_request_headers: the id of the request's Context takes the place of the span's request
\* id. It is that one if the caller made the Context with it (with_id), else a UUID of its own
\* (new), or whatever text the caller chose.
ContextIds == {GetContext("frontend").request, Fresh, Junk} \ {None}
Send(id) ==
  /\ setup # NoSetup /\ wire = <<>> /\ id \in ContextIds
  /\ wire' = Append(wire, [headers |-> [InjectTraceHeaders(GetContext("frontend")) EXCEPT !.request = id],
                           from |-> IF stack["frontend"] = <<>> THEN 0 ELSE Current("frontend"), state |-> "sent"])
  /\ UNCHANGED <<setup, spans, stack, record, panicked>>

\* A worker keeps a request id that is a UUID.
Kept(id) == IF id = Junk THEN None ELSE id

\* make_handle_payload_span, make_handle_payload_span_from_tcp_headers
MakeHandlePayloadSpan(i) ==
  LET h == wire[i].headers
  IN  /\ stack["worker"] = <<>> /\ wire[i].state = "sent" /\ wire' = [wire EXCEPT ![i].state = "handled"]
      /\ OpenSpan("worker", "payload", [trace |-> h.trace, parent |-> h.parent, request |-> Kept(h.request)],
                  OtelParent(h.trace), i)

\* Mutant of FormatEvent: the event's own fields win
FormatTrusting(p, claimed) == [span |-> IF stack[p] = <<>> THEN 0 ELSE Current(p), message |-> "event", ids |-> claimed]

\* format_event: the ids of a record are those of the span it was made in, whatever
\* fields the event carried; outside every span the reserved fields are dropped
FormatEvent(p, claimed) ==
  IF stack[p] = <<>> THEN [span |-> 0, message |-> "event", ids |-> [NoContext EXCEPT !.request = claimed.request]]
  ELSE [span |-> Current(p), message |-> "event", ids |-> GetContext(p)]

Log(p, claimed) ==
  /\ setup.jsonl /\ record' = FormatEvent(p, claimed)
  /\ UNCHANGED <<setup, spans, stack, wire, panicked>>

Claims == {NoContext, [trace |-> Ext, span |-> Ext, parent |-> Ext, request |-> Ext]}

TraceNext ==
  \/ \E jsonl, events \in BOOLEAN, level \in Levels : SetupLogging(jsonl, level, events)
  \/ \E kind \in {"inference", "system"}, tp \in Traceparents, rid \in RequestIds : MakeRequestSpan(kind, tp, rid)
  \/ \E given \in BOOLEAN : MakeClientRequestSpan(given)
  \/ \E n \in DOMAIN spans : OnEnter(n) \/ Reenter(n) \/ OnClose(n)
  \/ \E p \in Procs : Exit(p)
  \/ \E id \in ContextIds : Send(id)
  \/ \E i \in DOMAIN wire : MakeHandlePayloadSpan(i)
  \/ \E p \in Procs, claimed \in Claims : Log(p, claimed)

TraceSpec == TraceInit /\ [][TraceNext]_traceVars

---------------------------------------------------------------------------
\* A worker's span continues the span its request was sent from: the same trace, that span as
\* the parent, and the id of the request's Context as the request id, or none if that is no UUID
\* (it is the sender's request id only where the Context was made with it); a span opened under
\* another one in the frontend has that one's trace and request id.
TraceUnbroken ==
  /\ ~panicked
  /\ \A n \in DOMAIN spans :
       LET s == spans[n]
           above == IF s.from # 0 THEN wire[s.from].from ELSE s.under
       IN  (s.ctx # NoContext /\ above # 0) =>
             /\ s.ctx.trace = spans[above].ctx.trace
             /\ s.ctx.parent = spans[above].ctx.span
             /\ s.ctx.request = IF s.from # 0 THEN Kept(wire[s.from].headers.request) ELSE spans[above].ctx.request

\* A parent of this system's making is a span of the same trace; the trace of a
\* request is one tree.
ParentsExist ==
  \A n \in DOMAIN spans :
    LET c == spans[n].ctx
    IN  (c # NoContext /\ c.parent[1] = "own") =>
          /\ c.parent[2] < n /\ spans[c.parent[2]].ctx.trace = c.trace
          /\ c.parent[2] \in DOMAIN spans

\* A log record carries the ids of the span it was written in, or none.
RecordTellsItsSpan ==
  IF record.span = 0 THEN record.ids.trace = None /\ record.ids.span = None
  ELSE record.ids = spans[record.span].ctx

\* The trace a span logs is the trace OpenTelemetry exports it under, unless
\* OpenTelemetry could not read the one the caller sent.
OtelAgrees ==
  \A n \in DOMAIN spans : (spans[n].ctx # NoContext /\ spans[n].ctx.trace # Odd) => spans[n].ctx.trace = spans[n].otel

-----------------------------------------------------------------------------
(***************************************************************************)
(* Errors on their way to the caller: lib/runtime/src/error.rs (an error is *)
(* a chain of links, found again by type) and the annotated item that       *)
(* carries one through the stages of a response stream, protocols/          *)
(* annotated.rs and protocols/maybe_error.rs.                               *)
(*                                                                         *)
(* A link is the type of a PagodaError, or "foreign" for another error type.*)
(* Messages are left out; whether an item has data is all that is kept of it.*)
(***************************************************************************)
CONSTANTS Types,      \* types of a PagodaError, "Unknown" among them
          MaxLinks,   \* of an error
          MaxSteps    \* stages an item goes through

VARIABLES error,    \* the error a stage is about to report: a chain, outermost first
          item,     \* the item on the stream
          origin,   \* the chain from_err was given, <<>> when the item did not start there
          lost,     \* a stage replaced the item's error by a text of its own
          steps

errorsVars == <<error, item, origin, lost, steps>>

NoItem == [data |-> FALSE, event |-> "none", comment |-> FALSE, error |-> <<>>]

\* PagodaError::from: PagodaErrors are kept with all they were caused by, the
\* foreign links before them become Unknown ones.
PagodaErrorFrom(chain) == [i \in DOMAIN chain |-> IF chain[i] = "foreign" THEN "Unknown" ELSE chain[i]]

\* Mutant of MatchErrorChain: the first link with a type decides
MatchFirstLink(chain, matchSet, excludeSet) ==
  \E i \in DOMAIN chain :
    /\ \A j \in 1 .. i - 1 : chain[j] = "foreign"
    /\ chain[i] \in matchSet \ excludeSet

\* match_error_chain: an excluded type anywhere refuses, foreign links are skipped
MatchErrorChain(chain, matchSet, excludeSet) ==
  LET types == {chain[i] : i \in DOMAIN chain} \ {"foreign"}
  IN  types \cap excludeSet = {} /\ types \cap matchSet # {}

\* PagodaErrorBuilder: the type defaults to Unknown, the cause is converted
Build(type, cause) == <<type>> \o PagodaErrorFrom(cause)
Msg == Build("Unknown", <<>>)

-----------------------------------------------------------------------------
(* Annotated                                                                  *)

FromError == [NoItem EXCEPT !.event = "error", !.error = Msg]
FromData == [NoItem EXCEPT !.data = TRUE]
FromAnnotation(name) == [NoItem EXCEPT !.event = name, !.comment = TRUE]
FromErr(chain) == [NoItem EXCEPT !.event = "error", !.error = PagodaErrorFrom(chain)]

IsError(a) == a.event = "error"
\* err(): the error it carries, or one made of its comment
Err(a) == IF ~IsError(a) THEN <<>> ELSE IF a.error # <<>> THEN a.error ELSE Msg

\* Mutant of Transferred: only the data's own fields go on
TransferredBare(a, data) == [a EXCEPT !.data = data, !.error = <<>>]
Transferred(a, data) == [a EXCEPT !.data = data]
\* map_data: without data only the type changes; a failed transformation makes a new item
MapData(a, fails) == IF a.data /\ fails THEN FromError ELSE a
\* ok() and into_result(): data wins over the error event
Ok(a) == ~IsError(a)
IntoResult(a) == IF a.data THEN "some" ELSE IF IsError(a) THEN "error" ELSE "none"

-----------------------------------------------------------------------------
ErrorsInit == error = <<>> /\ item = NoItem /\ origin = <<>> /\ lost = FALSE /\ steps = 0

Step == steps < MaxSteps /\ steps' = steps + 1

\* an error is built, or wrapped by the next caller: by a PagodaError or by another type
Raise(type) ==
  /\ item = NoItem /\ Len(error) < MaxLinks /\ error' = Build(type, error)
  /\ UNCHANGED <<item, origin, lost, steps>>
Wrap ==
  /\ item = NoItem /\ Len(error) < MaxLinks /\ error' = <<"foreign">> \o error
  /\ UNCHANGED <<item, origin, lost, steps>>

Report ==
  /\ item = NoItem /\ error # <<>> /\ item' = FromErr(error) /\ origin' = error /\ lost' = FALSE
  /\ UNCHANGED <<error, steps>>
Make(new) ==
  /\ item = NoItem /\ error = <<>> /\ item' = new
  /\ UNCHANGED <<error, origin, lost, steps>>
\* an item of a foreign server may have the event without the error
Arrive == Make([NoItem EXCEPT !.event = "error", !.comment = TRUE])

Transfer(data) ==
  /\ item # NoItem /\ Step /\ item' = Transferred(item, data) /\ UNCHANGED <<error, origin, lost>>
Map(fails) ==
  /\ item # NoItem /\ Step /\ item' = MapData(item, fails)
  /\ lost' = (lost \/ (item.data /\ fails)) /\ UNCHANGED <<error, origin>>
\* a stage takes the error out and reports it wrapped
Relay ==
  /\ IsError(item) /\ Step /\ Len(Err(item)) < MaxLinks
  /\ item' = FromErr(<<"foreign">> \o Err(item)) /\ UNCHANGED <<error, origin, lost>>

ErrorsNext ==
  \/ \E t \in Types : Raise(t)
  \/ Wrap \/ Report \/ Make(FromData) \/ Make(FromAnnotation("note")) \/ Arrive
  \/ \E d \in BOOLEAN : Transfer(d) \/ Map(d)
  \/ Relay

ErrorsSpec == ErrorsInit /\ [][ErrorsNext]_errorsVars

-----------------------------------------------------------------------------
\* Whatever stages an item goes through, what its reader finds in err() is what
\* the one who raised the error would have found in it: the same types match and
\* exclude, unless a stage's own transformation failed on its data.  (Unknown is
\* left out: conversion gives foreign links that type.)
TypesSurvive ==
  origin # <<>> /\ ~lost =>
    \A m, x \in SUBSET (Types \ {"Unknown"}) :
      MatchErrorChain(Err(item), m, x) = MatchErrorChain(origin, m, x)

\* No stage turns an error item into a good one: neither transfer nor map_data
\* clears the event, and ok(), is_error() and err() agree about it.
ErrorsStay == (origin # <<>> \/ lost) => IsError(item) /\ ~Ok(item) /\ Err(item) # <<>> /\ IntoResult(item) # "none"
=============================================================================
