------------------------------- MODULE Traces -------------------------------
(***************************************************************************)
(* Workload traces (loadgen/trace.rs): sessions of turns loaded from a     *)
(* Mooncake file or an agentic file line by line, or synthesised, and then *)
(* normalised, rescaled, deepened, duplicated and partitioned before a     *)
(* driver replays them.  A 64-bit hash id is a pair <<high, low>>: unique  *)
(* ids have high word 0, the shared blocks of a prefix group carry the     *)
(* group there.  Times lie on an integer grid, so a quotient rounds down   *)
(* where the code keeps a fraction.                                        *)
(***************************************************************************)
EXTENDS Integers, FiniteSets, Sequences, SequencesExt

CONSTANTS
    BlockSize,
    MaxLines,    \* bound on the lines of a file, or the sessions of a synthetic trace
    MaxOps,      \* bound on the transformations applied
    Names,       \* session ids in a Mooncake file
    Times,       \* timestamps and delays in the file
    Lengths,     \* prompt lengths and response lengths
    IdLists,     \* hash_ids fields of Mooncake lines
    Ratios       \* shared_prefix_ratio in halves: 0, 1 or 2

VARIABLES
    source,      \* "mooncake", "agentic" or "synthetic"
    ratio,       \* the shared prefix ratio
    sessions,    \* the trace: a sequence of sessions
    lastTimes,   \* last_timestamps, one per session
    inferred,    \* sessions whose delays all came from timestamps
    unique,      \* next_unique_hash
    lines,       \* lines read
    status,      \* "reading", "loaded", "failed" or "panicked"
    loaded,      \* the trace as loaded
    depth,       \* the product of the expansion factors
    ops          \* transformations left

vars == <<source, ratio, sessions, lastTimes, inferred, unique, lines, status, loaded, depth, ops>>
reading == <<lastTimes, inferred, unique, lines>>

Missing == -1
Groups == 2

Ceil(n, d) == (n + d - 1) \div d
Low(h) == h[2]
Turn(len, out, ids, delay) == [len |-> len, out |-> out, ids |-> ids, delay |-> delay]

\* validate_block_size_and_capacity, synthesize_tokens: every block repeats the low
\* 32 bits of its id, cut to the input length.
Tokens(t) == [k \in 1 .. t.len |-> Low(t.ids[((k - 1) \div BlockSize) + 1])]
Synthesizable(t) == Len(t.ids) * BlockSize >= t.len

\* compute_block_hash_for_seq, as the contents of the engine's whole blocks.
EngineBlocks(t, size) ==
    [k \in 1 .. (t.len \div size) |-> SubSeq(Tokens(t), ((k - 1) * size) + 1, k * size)]

\* validate, for trace mode (which needs arrival times) or concurrency mode.
ValidSession(s, missingAllowed) ==
    /\ s.turns # <<>> /\ (s.first >= 0 \/ (missingAllowed /\ s.first = Missing))
    /\ \A k \in 1 .. Len(s.turns) :
         LET t == s.turns[k]
         IN  /\ t.len > 0 /\ t.ids # <<>> /\ Synthesizable(t)
             /\ t.delay >= 0 /\ (k = 1 => t.delay = 0)
Valid(ss, missingAllowed) ==
    ss # <<>> /\ \A k \in 1 .. Len(ss) : ValidSession(ss[k], missingAllowed)

-----------------------------------------------------------------------------
Init ==
    /\ source = "none" /\ ratio = 0 /\ sessions = <<>> /\ lastTimes = <<>> /\ inferred = {}
    /\ unique = 1 /\ lines = 0 /\ status = "reading" /\ loaded = <<>> /\ depth = 1 /\ ops = MaxOps

Begin ==
    /\ source = "none" /\ source' \in {"mooncake", "agentic", "synthetic"}
    /\ ratio' \in IF source' = "mooncake" THEN {0} ELSE Ratios
    /\ UNCHANGED <<sessions, reading, status, loaded, depth, ops>>

Fail == status' = "failed" /\ UNCHANGED <<source, ratio, sessions, reading, loaded, depth, ops>>

\* Mutant of Remember: the session keeps its first timestamp.
RememberFirst(times, k, ts) == times

\* last_timestamps follows every line that has one.
Remember(times, k, ts) == IF ts = Missing THEN times ELSE [times EXCEPT ![k] = ts]

\* A turn's delay: given, or the time since the session's previous timestamp.
Delay(first, given, ts, before) ==
    IF first THEN (IF given = Missing THEN 0 ELSE given)
    ELSE IF given # Missing THEN given
    ELSE IF ts = Missing THEN 0 ELSE ts - before

\* A line of a Mooncake file joins the session it names, or opens it.
MooncakeLine(name, ts, given, len, ids) ==
    LET known  == SelectInSeq(sessions, LAMBDA s : s.id = name)
        k      == IF known = 0 THEN Len(sessions) + 1 ELSE known
        opened == IF known # 0 THEN sessions
                  ELSE Append(sessions, [id |-> name, first |-> ts, turns |-> <<>>])
        times  == IF known # 0 THEN lastTimes ELSE Append(lastTimes, ts)
        delay  == Delay(known = 0, given, ts, times[k])
        input  == IF len = Missing THEN Len(ids) * BlockSize
                  ELSE IF len < Len(ids) * BlockSize THEN len ELSE Len(ids) * BlockSize
    IN  IF \/ (known = 0 /\ delay # 0) \/ delay < 0
           \/ (known # 0 /\ given = Missing /\ ts # Missing /\ times[k] = Missing)
          THEN Fail
          ELSE /\ sessions' = [opened EXCEPT ![k].turns = Append(@, Turn(input, 1, ids, delay))]
               /\ lastTimes' = Remember(times, k, ts)
               /\ inferred' = IF ts # Missing /\ given = Missing /\ (known = 0 \/ k \in inferred)
                                THEN inferred \cup {k} ELSE inferred \ {k}
               /\ lines' = lines + 1
               /\ UNCHANGED <<source, ratio, unique, status, loaded, depth, ops>>

ReadMooncake ==
    /\ source = "mooncake" /\ status = "reading" /\ lines < MaxLines
    /\ \E name \in Names, ts \in Times \cup {Missing}, given \in Times \cup {Missing},
          len \in Lengths \cup {Missing}, ids \in IdLists : MooncakeLine(name, ts, given, len, ids)

\* The ids of blocks from .. to of a prompt: the first `shared` ones belong to the
\* session's group, the others are new.
BlockIds(from, to, shared, group, next) ==
    LET own == IF group = 0 THEN from ELSE IF from > shared + 1 THEN from ELSE shared + 1
    IN  [k \in 1 .. (to - from + 1) |->
           IF group # 0 /\ from + k - 1 <= shared THEN <<group, from + k - 2>>
           ELSE <<0, next + (from + k - 1) - own>>]
NextUnique(from, to, shared, group, next) ==
    next + Cardinality({b \in from .. to : ~(group # 0 /\ b <= shared)})

\* Mutant of Extend: a turn's prompt gets ids of its own.
ExtendAfresh(ids, len, shared, group, next) ==
    BlockIds(1, Ceil(len, BlockSize), shared, group, next)

\* extend_applied_compute_agentic_hash_ids: the blocks a longer prompt adds.
Extend(ids, len, shared, group, next) ==
    ids \o BlockIds(Len(ids) + 1, Ceil(len, BlockSize), shared, group, next)

Shared(len) == ((Ceil(len, BlockSize) * ratio) + 1) \div 2

\* A row of an agentic file is a session: the prompt of a turn is the previous one
\* with the response and the tool's output appended.
ReadAgentic ==
    /\ source = "agentic" /\ status = "reading" /\ lines < MaxLines
    /\ \E prompt \in Lengths, added \in Lengths, latency \in Times, tools \in 0 .. 1 :
         IF prompt = 0 THEN Fail
         ELSE LET group == IF ratio > 0 THEN (lines % Groups) + 1 ELSE 0
                  shared == Shared(prompt)
                  ids0 == Extend(<<>>, prompt, shared, group, unique)
                  next0 == NextUnique(1, Ceil(prompt, BlockSize), shared, group, unique)
                  longer == prompt + (2 * added)
                  ids1 == Extend(ids0, longer, shared, group, next0)
                  next1 == NextUnique(Len(ids0) + 1, Ceil(longer, BlockSize), shared, group, next0)
                  turns == <<Turn(prompt, added, ids0, 0)>> \o
                           (IF tools = 0 THEN <<>> ELSE <<Turn(longer, 1, ids1, latency)>>)
              IN  /\ sessions' = Append(sessions, [id |-> lines, first |-> Missing, turns |-> turns])
                  /\ unique' = IF tools = 0 THEN next0 ELSE next1
                  /\ lines' = lines + 1
                  /\ UNCHANGED <<source, ratio, lastTimes, inferred, status, loaded, depth, ops>>

\* What the samplers can draw, the seed left open: an exponential or gamma sample is
\* any time, a length is at least one.
AnyTime == Times
Gaps(arrivals) == CASE arrivals = "burst" -> {0} [] arrivals = "constant" -> {1} [] OTHER -> AnyTime
Delays(delays) == CASE delays = "none" -> {0} [] delays = "constant" -> {1} [] OTHER -> AnyTime
SampleLength == Lengths \ {0}

\* A synthetic session: the first arrives at zero and arrivals never go back; each
\* turn is a prompt of its own that starts with its group's prefix.
Synthesize ==
    /\ source = "synthetic" /\ status = "reading" /\ lines < MaxLines
    /\ \E len \in SampleLength, group \in IF ratio > 0 THEN 1 .. Groups ELSE {0}, turns \in 1 .. 2,
          gap \in UNION {Gaps(a) : a \in {"burst", "constant", "poisson", "gamma"}},
          delay \in UNION {Delays(d) : d \in {"none", "constant", "exponential"}} :
         LET blocks == Ceil(len, BlockSize)
             ids(next) == BlockIds(1, blocks, Shared(len), group, next)
             after(next) == NextUnique(1, blocks, Shared(len), group, next)
             first == Turn(len, 1, ids(unique), 0)
         IN  /\ sessions' = Append(sessions,
                  [id |-> lines, first |-> IF lines = 0 THEN 0 ELSE Last(sessions).first + gap,
                   turns |-> IF turns = 1 THEN <<first>>
                             ELSE <<first, Turn(len, 1, ids(after(unique)), delay)>>])
             /\ unique' = IF turns = 1 THEN after(unique) ELSE after(after(unique))
             /\ lines' = lines + 1
    /\ UNCHANGED <<source, ratio, lastTimes, inferred, status, loaded, depth, ops>>

\* The end of the file: a trace without a request is an error.
Loaded ==
    /\ status = "reading" /\ source # "none"
    /\ status' = IF sessions = <<>> THEN "failed" ELSE "loaded"
    /\ loaded' = sessions /\ UNCHANGED <<source, ratio, sessions, reading, depth, ops>>

-----------------------------------------------------------------------------
(* Transformations of a loaded trace.                                      *)

Firsts == {s.first : s \in {t \in Range(sessions) : t.first # Missing}}
Min2(S) == CHOOSE x \in S : \A y \in S : x <= y
Max2(S) == CHOOSE x \in S : \A y \in S : x >= y
EachSession(F(_)) == [k \in 1 .. Len(sessions) |-> F(sessions[k])]
Shifted(s, f) == IF s.first = Missing THEN s ELSE [s EXCEPT !.first = f]

Transform(ss) ==
    /\ status = "loaded" /\ ops > 0 /\ ops' = ops - 1 /\ sessions' = ss
    /\ UNCHANGED <<source, ratio, reading, status, loaded>>

NormalizeSessionStarts ==
    /\ Transform(IF Firsts = {} THEN sessions
                 ELSE EachSession(LAMBDA s : Shifted(s, s.first - Min2(Firsts))))
    /\ UNCHANGED depth

\* Slowing down by two, the inverse of a ratio of two.
SpeedUpTiming ==
    /\ Transform(EachSession(LAMBDA s : [Shifted(s, s.first * 2) EXCEPT
          !.turns = [k \in 1 .. Len(s.turns) |-> [s.turns[k] EXCEPT !.delay = @ * 2]]]))
    /\ UNCHANGED depth

\* Mutant of RescaleStarts: starts are measured back from the last one.
RescaleBackwards(target) ==
    LET span == Max2(Firsts) - Min2(Firsts)
    IN  EachSession(LAMBDA s : Shifted(s, IF span = 0 THEN 0
                                          ELSE ((Max2(Firsts) - s.first) * target) \div span))
RescaleStarts(target) ==
    LET span == Max2(Firsts) - Min2(Firsts)
    IN  EachSession(LAMBDA s : Shifted(s, IF span = 0 THEN 0
                                          ELSE ((s.first - Min2(Firsts)) * target) \div span))

RescaleSessionStartSpan ==
    /\ \E target \in Times : Transform(IF Firsts = {} THEN sessions ELSE RescaleStarts(target))
    /\ UNCHANGED depth

Start(s) == IF s.first = Missing THEN 0 ELSE s.first
ReadyAt(s) == Start(s) + FoldLeft(LAMBDA sum, t : sum + t.delay, 0, Tail(s.turns))
Starts == {Start(s) : s \in Range(sessions)}
Readies == {ReadyAt(s) : s \in Range(sessions)}

\* rescale_ready_span: starts and delays keep their proportions.
RescaleReadySpan ==
    /\ \E target \in Times :
         LET low == Min2(Starts)
             span == IF Max2(Readies) - low < 1 THEN 1 ELSE Max2(Readies) - low
             scaled(x) == (x * target) \div span
         IN  Transform(EachSession(LAMBDA s : [Shifted(s, scaled(s.first - low)) EXCEPT
               !.turns = [k \in 1 .. Len(s.turns) |->
                  IF k = 1 THEN s.turns[k] ELSE [s.turns[k] EXCEPT !.delay = scaled(@)]]]))
    /\ UNCHANGED depth

\* Mutant of Deepen: the offsets are not kept apart from the next id's.
DeepenShort(ids, f) ==
    FlattenSeq([k \in 1 .. Len(ids) |-> [j \in 1 .. f |-> <<ids[k][1], ids[k][2] + j - 1>>]])

\* Every id becomes `f` ids of its own.
Deepen(ids, f) ==
    FlattenSeq([k \in 1 .. Len(ids) |-> [j \in 1 .. f |-> <<ids[k][1], (ids[k][2] * f) + j - 1>>]])

\* checked_mul and checked_add: the ids of prefix groups fill the high bits, so any
\* multiple of them or sum with one overflows and panics.
AllIds == UNION {Range(t.ids) : t \in UNION {Range(s.turns) : s \in Range(sessions)}}
Overflows == \E h \in AllIds : h[1] # 0
Panic ==
    /\ status = "loaded" /\ ops > 0 /\ Overflows /\ status' = "panicked"
    /\ UNCHANGED <<source, ratio, sessions, reading, loaded, depth, ops>>

ExpandHashPrefixDepth ==
    /\ ~Overflows
    /\ Transform(EachSession(LAMBDA s : [s EXCEPT !.turns = [k \in 1 .. Len(s.turns) |->
          [s.turns[k] EXCEPT !.len = @ * 2, !.ids = Deepen(@, 2)]]]))
    /\ depth' = depth * 2

\* Every copy's ids lie above all ids of the copies before it.
DuplicateHashSpace ==
    /\ ~Overflows /\ Len(sessions) <= MaxLines
    /\ LET base == Max2({Low(h) : h \in AllIds} \cup {0}) + 1
       IN  Transform(sessions \o EachSession(LAMBDA s : [s EXCEPT
             !.turns = [k \in 1 .. Len(s.turns) |-> [s.turns[k] EXCEPT
                !.ids = [j \in 1 .. Len(@) |-> <<@[j][1], Low(@[j]) + base>>]]]]))
    /\ UNCHANGED depth

Next ==
    \/ Begin \/ ReadMooncake \/ ReadAgentic \/ Synthesize \/ Loaded
    \/ NormalizeSessionStarts \/ SpeedUpTiming \/ RescaleSessionStartSpan \/ RescaleReadySpan
    \/ ExpandHashPrefixDepth \/ DuplicateHashSpace \/ Panic

Spec == Init /\ [][Next]_vars

\* partition_by_session: every session goes whole into one of `n` parts, in turn or by chance.
Assignments(n) ==
    [RoundRobin |-> {[j \in 1 .. Len(sessions) |-> ((j - 1) % n) + 1]},
     Random     |-> [1 .. Len(sessions) -> 1 .. n]]
Partition(assignment, k) ==
    LET mine == SetToSortSeq({j \in 1 .. Len(sessions) : assignment[j] = k}, LAMBDA a, b : a < b)
    IN  [j \in 1 .. Len(mine) |-> sessions[mine[j]]]

-----------------------------------------------------------------------------
\* The session of the loaded trace that session k of the trace came from.
Origin(k) == ((k - 1) % Len(loaded)) + 1

\* A trace that would pass validation when it was loaded still does after any
\* transformations, so a replay never fails half way for a reason it introduced.
ValidKept ==
    status = "loaded" => \A m \in BOOLEAN : Valid(loaded, m) => Valid(sessions, m)

\* Transformations keep the order in which sessions arrive.
OrderKept ==
    status = "loaded" => \A j, k \in 1 .. Len(sessions) :
        loaded[Origin(j)].first < loaded[Origin(k)].first =>
            sessions[j].first <= sessions[k].first

\* The same blocks are shared as in the loaded trace: deepening splits a block into
\* blocks of its own, and copies share nothing with each other.
SharingKept ==
    status = "loaded" => \A j, k \in 1 .. Len(sessions) :
        \A a \in 1 .. Len(sessions[j].turns), b \in 1 .. Len(sessions[k].turns) :
            LET s == sessions[j].turns[a].ids
                t == sessions[k].turns[b].ids
            IN  \A x \in 1 .. Len(s), y \in 1 .. Len(t) : s[x] = t[y] <=>
                  /\ (j - 1) \div Len(loaded) = (k - 1) \div Len(loaded)
                  /\ loaded[Origin(j)].turns[a].ids[((x - 1) \div depth) + 1] =
                       loaded[Origin(k)].turns[b].ids[((y - 1) \div depth) + 1]
                  /\ (x - 1) % depth = (y - 1) % depth

\* In an agentic trace a turn's prompt continues the prompt of the turn before it.
TurnsExtend ==
    source = "agentic" => \A k \in 1 .. Len(sessions) : \A a \in 2 .. Len(sessions[k].turns) :
        IsPrefix(sessions[k].turns[a - 1].ids, sessions[k].turns[a].ids)

\* A session timed by timestamps alone ends its last turn's wait where the file says.
DelaysAddUp ==
    status = "reading" => \A k \in inferred : ReadyAt(sessions[k]) = lastTimes[k]

\* Partitioning neither loses a session nor cuts one, and in turn no part gets two more
\* sessions than another.
PartsCover ==
    status = "loaded" => \A n \in 1 .. 2 : \A spec \in {"RoundRobin", "Random"} :
        \A assignment \in Assignments(n)[spec] :
            LET parts == [k \in 1 .. n |-> Partition(assignment, k)]
            IN  /\ FoldLeft(LAMBDA sum, p : sum + Len(p), 0, parts) = Len(sessions)
                /\ Range(sessions) = UNION {Range(parts[k]) : k \in 1 .. n}
                /\ spec = "RoundRobin" => \A j, k \in 1 .. n : Len(parts[j]) <= Len(parts[k]) + 1

\* The engine hashes tokens, not ids: whole blocks are equal exactly when their ids
\* are, as long as no id has a high word.
TokensTell ==
    status = "loaded" /\ ratio = 0 => \A j, k \in 1 .. Len(sessions) :
        LET t == sessions[j].turns[1]
            u == sessions[k].turns[1]
            bt == EngineBlocks(t, BlockSize)
            bu == EngineBlocks(u, BlockSize)
        IN  \A x \in 1 .. Len(bt), y \in 1 .. Len(bu) : bt[x] = bu[y] <=> t.ids[x] = u.ids[y]

=============================================================================
