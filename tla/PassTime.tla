------------------------------ MODULE PassTime ------------------------------
(***************************************************************************)
(* How long a pass of the mock engine takes and what it reports of itself: *)
(* common/perf_model.rs, common/running_mean.rs, common/utils.rs, the      *)
(* durations of scheduler/vllm/core.rs and the Welford accumulator of      *)
(* scheduler/mod.rs.                                                       *)
(*                                                                         *)
(* A behaviour feeds samples to a running mean and to an accumulator and   *)
(* runs passes with arbitrary work.  Times are whole microseconds, rounded *)
(* down; the accumulator's sum of squares is kept in twelfths, which is    *)
(* exact for up to four samples.                                           *)
(***************************************************************************)
EXTENDS Integers, Sequences, FiniteSets, SequencesExt

CONSTANTS Samples, 
          MaxSamples,  \* at most 4
          Capacity,    \* of the running mean
          Table,       \* measured <<tokens, microseconds>>, by tokens: an interpolated model
          Lengths,     \* prompt lengths and reused prefixes
          Batches,     \* numbers of requests in a batch
          Speedups,    \* speedup_ratio
          TotalKv      \* tokens the cache can hold

VARIABLES seen,    \* every sample
          window, accumulator,       \* RunningMean
          count, sum, m2,            \* WelfordAcc, m2 in twelfths
          pass     \* the work of the pass just run and the times predicted for it

vars == <<seen, window, accumulator, count, sum, m2, pass>>

NoPass == [model |-> "none"]

Init == seen = <<>> /\ window = <<>> /\ accumulator = 0 /\ count = 0 /\ sum = 0 /\ m2 = 0 /\ pass = NoPass

Total(q) == FoldLeft(LAMBDA a, b : a + b, 0, q)

\* Mutant of Evicted: the oldest sample stays in the sum
EvictedOnly(w) == IF Len(w) >= Capacity /\ w # <<>> THEN [window |-> Tail(w), less |-> 0] ELSE [window |-> w, less |-> 0]

\* RunningMean::push makes room first
Evicted(w) == IF Len(w) >= Capacity /\ w # <<>> THEN [window |-> Tail(w), less |-> Head(w)] ELSE [window |-> w, less |-> 0]

\* Mutant of Spread: the deviation from the old mean, squared
SpreadOld(n, s, v) == IF n = 1 THEN 0 ELSE LET d == (n - 1) * v - s IN (12 * d * d) \div ((n - 1) * (n - 1))

\* what WelfordAcc::add adds to m2: the deviation from the old mean times that from
\* the new one, in twelfths
Spread(n, s, v) == IF n = 1 THEN 0 ELSE LET d == (n - 1) * v - s IN (12 * d * d) \div (n * (n - 1))

\* RunningMean::push and WelfordAcc::add
Push(v) ==
  LET room == Evicted(window)
  IN  /\ Len(seen) < MaxSamples /\ seen' = Append(seen, v)
      /\ window' = Append(room.window, v) /\ accumulator' = (accumulator - room.less) + v
      /\ count' = count + 1 /\ sum' = sum + v /\ m2' = m2 + Spread(count + 1, sum, v)
      /\ pass' = NoPass

\* RunningMean::clear, and a new accumulator
Clear ==
  /\ seen # <<>> /\ seen' = <<>> /\ window' = <<>> /\ accumulator' = 0
  /\ count' = 0 /\ sum' = 0 /\ m2' = 0 /\ pass' = NoPass

\* Interp1D, linear, extrapolating on both sides with the slope of the last segment
Interp(x) ==
  LET below == {i \in 1..(Len(Table) - 1) : Table[i][1] <= x}
      i == IF below = {} THEN 1 ELSE Max(below)
      a == Table[i]
      b == Table[i + 1]
  IN  a[2] + ((b[2] - a[2]) * (x - a[1])) \div (b[1] - a[1])

AtLeast(n, lower) == IF n < lower THEN lower ELSE n

\* Mutant of NewTokens: the reused prefix is not subtracted when it is the whole prompt
NewTokensWhole(isl, prefix) == IF prefix >= isl THEN isl ELSE isl - prefix

\* isl.saturating_sub(prefix)
NewTokens(isl, prefix) == AtLeast(isl - prefix, 0)

\* predict_prefill_time
PredictPrefillTime(model, batch, isl, prefix) ==
  LET tokens == batch * NewTokens(isl, prefix)
  IN  AtLeast(IF model = "polynomial" THEN ((421 * tokens * tokens) \div 1000000 + (15183 * tokens) \div 1000) + 16501
              ELSE Interp(tokens), 0)

\* predict_decode_time, never under a millisecond
PredictDecodeTime(model, batch, active) ==
  IF batch = 0 THEN 0
  ELSE AtLeast(IF model = "polynomial"
               THEN ((54010 * active) \div TotalKv - (25740 * active * active) \div (TotalKv * TotalKv)) + 5740
               ELSE Interp(active), 1000)

\* scale_decode_time and the end of predict_prefill_duration: a ratio of zero is none
Scaled(time, ratio) == IF ratio <= 0 THEN time ELSE time \div ratio

\* predict_prefill_duration: by the means over the batch
PrefillDuration(model, worker, batch, isl, prefix, ratio) ==
  IF batch = 0 \/ worker = "decode" THEN 0
  ELSE Scaled(PredictPrefillTime(model, batch, isl \div batch, prefix \div batch), ratio)

\* emit_ready_tokens: a prefill worker's only token costs nothing
DecodeDuration(model, worker, ready, active, ratio) ==
  IF worker = "prefill" \/ ready = 0 THEN 0 ELSE Scaled(PredictDecodeTime(model, ready, active), ratio)

\* compute_prefill_handoff_delay_ms; -1 is None
HandoffDelay(worker, completed, tokens, bandwidth) ==
  IF worker # "prefill" \/ ~completed \/ bandwidth <= 0 THEN -1 ELSE (tokens * 1000) \div bandwidth

\* execute_pass: prefill, then the tokens of the requests that are ready; every pass
\* has accumulators of its own
Pass(model, worker, batch, isl, prefix, active, ratio) ==
  /\ seen = <<>> /\ pass = NoPass /\ prefix <= isl /\ active <= TotalKv
  /\ pass' = [model |-> model, worker |-> worker, batch |-> batch, isl |-> isl, prefix |-> prefix, active |-> active,
              ratio |-> ratio, prefill |-> PrefillDuration(model, worker, batch, isl, prefix, ratio),
              decode |-> DecodeDuration(model, worker, batch, active, ratio),
              handoff |-> HandoffDelay(worker, TRUE, isl, ratio)]
  /\ UNCHANGED <<seen, window, accumulator, count, sum, m2>>

Next ==
  \/ \E v \in Samples : Push(v)
  \/ Clear
  \/ \E model \in {"polynomial", "interpolated"}, worker \in {"aggregated", "prefill", "decode"}, batch \in Batches :
       \E isl, prefix \in Lengths, active \in Lengths, ratio \in Speedups :
         Pass(model, worker, batch, isl, prefix, active, ratio)

Spec == Init /\ [][Next]_vars

---------------------------------------------------------------------------
\* The running sum is that of the samples still in the window, and those are the
\* last Capacity ones.
WindowSum ==
  LET n == IF Len(seen) < Capacity THEN Len(seen) ELSE Capacity
  IN  /\ window = SubSeq(seen, (Len(seen) - n) + 1, Len(seen))
      /\ accumulator = Total(window)

\* The one pass accumulator has the variance of its definition: n * m2 is
\* n * (sum of squares) - (sum)^2.
VarianceExact ==
  LET squares == Total([i \in DOMAIN seen |-> seen[i] * seen[i]])
  IN  count * m2 = 12 * (count * squares - sum * sum)

\* Reuse never makes a pass longer: with less of the prompt cached the prefill takes
\* at least as long.  A worker that emits takes time, unless it only prefills.
ReuseNeverSlower ==
  pass.model # "none" =>
    /\ \A less \in {p \in Lengths : p <= pass.prefix} :
         pass.prefill <= PrefillDuration(pass.model, pass.worker, pass.batch, pass.isl, less, pass.ratio)
    /\ pass.prefill >= 0
    /\ pass.batch > 0 /\ pass.worker # "prefill" => pass.decode > 0
=============================================================================
