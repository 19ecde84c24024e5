------------------------------- MODULE KvCache -------------------------------
(***************************************************************************)
(* The paged KV cache of the mock vLLM engine, kv_cache/local_vllm_cache.rs, *)
(* as operators on a record                                                  *)
(*                                                                         *)
(*    slots    max_capacity                                                  *)
(*    refs     active block |-> its reference count                          *)
(*    idle     inactive full blocks, the next victim first                   *)
(*    known    registered_blocks: what the KV events say is stored           *)
(*    chained  every Stored event named the parent of its first block        *)
(*                                                                         *)
(* A block is <<owner, k>>: the k-th full block of a prompt or request, or   *)
(* the partial block of a request when k = 0.  Equal blocks have equal       *)
(* prefixes, as their lineage hashes do.                                     *)
(***************************************************************************)
EXTENDS Naturals, Sequences, FiniteSets

IsPartial(b) == b[2] = 0
Elems(q)     == {q[i] : i \in DOMAIN q}
Without(q, b) == SelectSeq(q, LAMBDA x : x # b)

EmptyCache(n) ==
    [slots |-> n, refs |-> <<>>, idle |-> <<>>, known |-> {}, chained |-> TRUE]

Active(c) == DOMAIN c.refs
Used(c)   == Cardinality(Active(c)) + Len(c.idle)

WithRefs(f, b, n) == [x \in DOMAIN f \cup {b} |-> IF x = b THEN n ELSE f[x]]
NoRefs(f, b)      == [x \in DOMAIN f \ {b} |-> f[x]]

\* reserve_one_slot: room, or the least recently released block gives way.
CanReserve(c) == Used(c) < c.slots \/ c.idle # <<>>
Reserve(c) ==
    IF Used(c) < c.slots THEN c
    ELSE [c EXCEPT !.idle = Tail(@), !.known = @ \ {Head(c.idle)}]

\* One block of process_use: an active hit, an inactive hit, or a new one.
Hit(c, b)    == b \in Active(c) \cup Elems(c.idle)
CanUse(c, b) == Hit(c, b) \/ CanReserve(c)
UseBlock(c, b) ==
    IF b \in Active(c)
    THEN [c EXCEPT !.refs = WithRefs(@, b, @[b] + 1)]
    ELSE IF b \in Elems(c.idle)
    THEN [c EXCEPT !.refs = WithRefs(@, b, 1), !.idle = Without(@, b)]
    ELSE LET new == IF IsPartial(b) THEN {} ELSE {b}
         IN  [Reserve(c) EXCEPT !.refs = WithRefs(@, b, 1), !.known = @ \cup new]

\* process_use: the blocks in order, up to the first that finds no room.  The
\* Stored event names as parent the last hit, or the block before bs.
Use(c, bs) ==
    LET u[i \in 0..Len(bs)] ==
            IF i = 0 THEN [c |-> c, n |-> 0, stored |-> {}, parent |-> 0]
            ELSE IF u[i - 1].n = i - 1 /\ CanUse(u[i - 1].c, bs[i])
            THEN LET hit == Hit(u[i - 1].c, bs[i]) IN
                 [c      |-> UseBlock(u[i - 1].c, bs[i]),
                  n      |-> i,
                  stored |-> u[i - 1].stored \cup (IF hit \/ IsPartial(bs[i]) THEN {} ELSE {i}),
                  parent |-> IF hit /\ ~IsPartial(bs[i]) THEN i ELSE u[i - 1].parent]
            ELSE u[i - 1]
        end == u[Len(bs)]
    IN  [cache |-> [end.c EXCEPT !.chained = @ /\ \A i \in end.stored : i > end.parent],
         n     |-> end.n,
         stored |-> end.stored]

\* process_deref of one block; expect() panics on a block that is not active.
Deref(c, b) ==
    IF c.refs[b] > 1 THEN [c EXCEPT !.refs = WithRefs(@, b, @[b] - 1)]
    ELSE [c EXCEPT !.refs = NoRefs(@, b),
                   !.idle = IF IsPartial(b) THEN @ ELSE Append(@, b)]

\* Mutant: the blocks are released from the first to the last.
DerefForward(c, bs) ==
    LET d[i \in 0..Len(bs)] == IF i = 0 THEN c ELSE Deref(d[i - 1], bs[i])
    IN  d[Len(bs)]

\* free_signal: the blocks of a sequence are released from the last to the first.
DerefAll(c, bs) ==
    LET d[i \in 0..Len(bs)] == IF i = 0 THEN c ELSE Deref(d[i - 1], bs[Len(bs) + 1 - i])
    IN  d[Len(bs)]

\* process_promote: the partial block p becomes the full block b.
Promote(c, p, b) ==
    LET d == [c EXCEPT !.refs = NoRefs(@, p)] IN
    IF Hit(d, b) THEN UseBlock(d, b)
    ELSE [d EXCEPT !.refs = WithRefs(@, b, 1), !.known = @ \cup {b}]

\* get_prefill_cost: how many leading full blocks of bs need no computation.
Overlap(c, bs) ==
    LET miss == {i \in DOMAIN bs : IsPartial(bs[i]) \/ bs[i] \notin Active(c) \cup c.known}
    IN  IF miss = {} THEN Len(bs) ELSE (CHOOSE i \in miss : \A j \in miss : i <= j) - 1
=============================================================================
