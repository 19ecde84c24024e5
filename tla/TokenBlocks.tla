----------------------------- MODULE TokenBlocks -----------------------------
(***************************************************************************)
(* tokens/src/lib.rs: TokenBlockSequence, a list of tokens kept as full blocks   *)
(* and one partial block. A block's hash stands for its tokens, its sequence     *)
(* hash for the hashes up to it; both are taken to be free of collisions. The    *)
(* lineage hash packs fragments of two sequence hashes beside the position.      *)
(***************************************************************************)
EXTENDS Naturals, Sequences, SequencesExt

CONSTANTS Token, BlockSize, MaxTokens,
          UpperLayout,  \* PositionalSequenceHash::LAYOUT: per mode, bits of position and block hash
          Layout        \* PositionalLineageHash::LAYOUT: bits of position, parent and current

VARIABLES blocks,       \* blocks: [tokens, parent, hash (sequence_hash), position]
          current,      \* current_block: [tokens, parent, position]
          answer        \* what the last call returned

vars == <<blocks, current, answer>>

Root == <<>>            \* no parent
\* TokenBlock::from_chunk: the first block's sequence hash is its block hash.
FromChunk(tokens, parent, position) ==
    [tokens |-> tokens, parent |-> parent, position |-> position,
     hash |-> IF parent = Root THEN <<tokens>> ELSE <<parent, tokens>>]
Partial(tokens, parent, position) == [tokens |-> tokens, parent |-> parent, position |-> position]

\* split_tokens: whole chunks become blocks, each on the one before it.
SplitTokens(tokens) ==
    LET n == Len(tokens) \div BlockSize
        chunk(i) == SubSeq(tokens, (i - 1) * BlockSize + 1, i * BlockSize)
        block[i \in 1..n] == FromChunk(chunk(i), IF i = 1 THEN Root ELSE block[i - 1].hash, i - 1)
    IN  [blocks |-> block,
         current |-> Partial(SubSeq(tokens, n * BlockSize + 1, Len(tokens)),
                             IF n = 0 THEN Root ELSE block[n].hash, n)]

Init == blocks = <<>> /\ current = Partial(<<>>, Root, 0) /\ answer = <<"none">>

TotalTokens == Len(blocks) * BlockSize + Len(current.tokens)
Tokens == FlattenSeq([i \in DOMAIN blocks |-> blocks[i].tokens]) \o current.tokens

\* PartialTokenBlock::commit: the partial block, full, becomes a block and the next one starts.
Commit(state) ==
    LET b == FromChunk(state.current.tokens, state.current.parent, state.current.position)
    IN  [blocks |-> Append(state.blocks, b),
         current |-> Partial(<<>>, b.hash, state.current.position + 1)]

\* push_tokens until the block is full, committing it when it is (extend's loop).
Push(state, token) ==
    LET s == [state EXCEPT !.current.tokens = Append(@, token)]
    IN  IF Len(s.current.tokens) = BlockSize THEN Commit(s) ELSE s
Here == [blocks |-> blocks, current |-> current]
Becomes(state) == blocks' = state.blocks /\ current' = state.current

\* new and from_slice.
New(tokens) ==
    /\ blocks = <<>> /\ current.tokens = <<>>
    /\ Becomes(SplitTokens(tokens)) /\ answer' = <<"new">>

Extend(tokens) ==
    /\ TotalTokens + Len(tokens) <= MaxTokens
    /\ LET s == FoldLeft(Push, Here, tokens)
       IN  /\ Becomes(s)
           /\ answer' = IF Len(s.blocks) = Len(blocks) THEN <<"extend">>
                        ELSE <<"extend", Len(blocks), Len(s.blocks)>>

AppendToken(token) ==
    /\ TotalTokens < MaxTokens
    /\ LET s == Push(Here, token)
       IN  /\ Becomes(s)
           /\ answer' = IF Len(s.blocks) = Len(blocks) THEN <<"append">> ELSE <<"append", Len(blocks)>>

DivCeil(a, b) == (a + b - 1) \div b

\* Mutant of TruncateTo: the partial block keeps the parent it had.
TruncateKeepsParent(len) ==
    LET n == TotalTokens - len  held == Len(current.tokens)
        fromBlocks == n - held  hit == DivCeil(fromBlocks, BlockSize)
        source == Len(blocks) - hit
        keep == BlockSize - (fromBlocks - (hit - 1) * BlockSize)
    IN  IF len >= TotalTokens THEN Here
        ELSE IF n <= held THEN [Here EXCEPT !.current.tokens = SubSeq(@, 1, held - n)]
        ELSE [blocks |-> SubSeq(blocks, 1, source),
              current |-> Partial(SubSeq(blocks[source + 1].tokens, 1, keep), current.parent, source)]

\* Mutant of TruncateTo: the block that is cut gives its last tokens to the partial block.
TruncateFromFront(len) ==
    LET n == TotalTokens - len  held == Len(current.tokens)
        fromBlocks == n - held  hit == DivCeil(fromBlocks, BlockSize)
        source == Len(blocks) - hit
        keep == BlockSize - (fromBlocks - (hit - 1) * BlockSize)
    IN  IF len >= TotalTokens THEN Here
        ELSE IF n <= held THEN [Here EXCEPT !.current.tokens = SubSeq(@, 1, held - n)]
        ELSE [blocks |-> SubSeq(blocks, 1, source),
              current |-> Partial(SubSeq(blocks[source + 1].tokens, BlockSize - keep + 1, BlockSize),
                                  IF source = 0 THEN Root ELSE blocks[source].hash, source)]

\* truncate: tokens go from the partial block, or the block they end in becomes partial again
\* on the block before it.
TruncateTo(len) ==
    LET n == TotalTokens - len  held == Len(current.tokens)
        fromBlocks == n - held  hit == DivCeil(fromBlocks, BlockSize)
        source == Len(blocks) - hit
        keep == BlockSize - (fromBlocks - (hit - 1) * BlockSize)
    IN  IF len >= TotalTokens THEN Here
        ELSE IF n <= held THEN [Here EXCEPT !.current.tokens = SubSeq(@, 1, held - n)]
        ELSE [blocks |-> SubSeq(blocks, 1, source),
              current |-> Partial(SubSeq(blocks[source + 1].tokens, 1, keep),
                                  IF source = 0 THEN Root ELSE blocks[source].hash, source)]

Truncate(len) == Becomes(TruncateTo(len)) /\ answer' = <<"truncate">>
Unwind(count) ==
    IF count > TotalTokens THEN answer' = <<"error">> /\ UNCHANGED <<blocks, current>>
    ELSE Becomes(TruncateTo(TotalTokens - count)) /\ answer' = <<"unwind">>
Reset == blocks' = <<>> /\ current' = Partial(<<>>, Root, 0) /\ answer' = <<"reset">>

\* pop: the last token of the partial block, or of the last block.
Pop ==
    IF TotalTokens = 0 THEN answer' = <<"none">> /\ UNCHANGED <<blocks, current>>
    ELSE /\ Becomes(TruncateTo(TotalTokens - 1))
         /\ answer' = <<"pop", IF current.tokens # <<>> THEN Last(current.tokens)
                               ELSE Last(Last(blocks).tokens)>>

Lists == BoundedSeq(Token, BlockSize + 1)
Next ==
    \/ \E tokens \in Lists : New(tokens) \/ Extend(tokens)
    \/ \E token \in Token : AppendToken(token)
    \/ \E n \in 0..MaxTokens + 1 : Truncate(n) \/ Unwind(n)
    \/ Pop \/ Reset

\* tokens_at: nothing for a range that is reversed or reaches past the end.
TokensAt(from, to) ==
    LET full == Len(blocks) * BlockSize
        at(i) == IF i < full THEN blocks[(i \div BlockSize) + 1].tokens[(i % BlockSize) + 1]
                 ELSE current.tokens[(i - full) + 1]
    IN  IF from > to \/ to > TotalTokens THEN <<>> ELSE [j \in 1..(to - from) |-> at(from + j - 1)]

-----------------------------------------------------------------------------
(* PositionalSequenceHash and PositionalLineageHash, on numbers *)

\* select_mode of either: the first mode whose position field is wide enough.  Modes are
\* 1, 2, ... here and 0, 1, ... in the packed value, above all other fields.
MaxPosition(layout) == 2 ^ layout[Len(layout)].position
SelectMode(layout, position) ==
    CHOOSE m \in DOMAIN layout : /\ position < 2 ^ layout[m].position \/ m = Len(layout)
                                 /\ \A n \in 1..(m - 1) : position >= 2 ^ layout[n].position

\* PositionalSequenceHash::pack_upper and unpack_upper: mode, position and the low bits of
\* the block's hash in one word, which every mode fills.
PackUpper(position, hash) ==
    LET m == SelectMode(UpperLayout, position)
        bits == UpperLayout[m]
    IN  ((m - 1) * 2 ^ bits.position + position) * 2 ^ bits.hash + (hash % 2 ^ bits.hash)
UnpackUpper(value) ==
    LET m == (value \div 2 ^ (UpperLayout[1].position + UpperLayout[1].hash)) + 1
        bits == UpperLayout[m]
    IN  [mode |-> m, position |-> (value \div 2 ^ bits.hash) % 2 ^ bits.position, hash |-> value % 2 ^ bits.hash]

Smaller(a, b) == IF a < b THEN a ELSE b

\* new: the fragment of the current hash is no wider than the one the next block will keep
\* of it as its parent.
Lineage(hash, parent, position) ==
    LET m == SelectMode(Layout, position)
        bits == Layout[m]
        aligned == Smaller(bits.current, Layout[SelectMode(Layout, position + 1)].parent)
    IN  (((m - 1) * 2 ^ bits.position + position) * 2 ^ bits.parent + (parent % 2 ^ bits.parent))
            * 2 ^ bits.current + (hash % 2 ^ aligned)

\* The parts of a packed value, by the mode in its top bits.
ModeOf(value) == (value \div 2 ^ (Layout[1].position + Layout[1].parent + Layout[1].current)) + 1
ParentFragment(value) == LET b == Layout[ModeOf(value)] IN (value \div 2 ^ b.current) % 2 ^ b.parent
CurrentFragment(value) == value % 2 ^ Layout[ModeOf(value)].current
PositionOf(value) == LET b == Layout[ModeOf(value)] IN (value \div 2 ^ (b.current + b.parent)) % 2 ^ b.position

-----------------------------------------------------------------------------
\* However it came about, a sequence is the one that new would build from its tokens: the blocks,
\* their hashes, parents and positions, and the partial block that will hash the next ones.
\* Any part of it that tokens_at gives out is that part of the tokens.
AsBuilt ==
    /\ Here = SplitTokens(Tokens)
    /\ \A i, j \in 0..TotalTokens : i <= j => TokensAt(i, j) = SubSeq(Tokens, i + 1, j)

\* A block's lineage hash names its parent's: the parent fragment it keeps is the current fragment
\* of the block before it, also where the layout changes, and its position can be read back.  A
\* positional hash gives back its position and as much of the block's hash as its mode has room for.
LineageLinks ==
    /\ \A p \in 0..MaxPosition(Layout) - 2, g \in {0, 31}, h \in {5, 10, 21}, k \in {0, 31} :
        LET above == Lineage(h, g, p)  below == Lineage(k, h, p + 1)
        IN  ParentFragment(below) = CurrentFragment(above) /\ PositionOf(above) = p
    /\ \A p \in 0..MaxPosition(UpperLayout) - 1, h \in {0, 1, 21, 31, 42} :
        LET m == SelectMode(UpperLayout, p)
        IN  UnpackUpper(PackUpper(p, h)) = [mode |-> m, position |-> p, hash |-> h % 2 ^ UpperLayout[m].hash]

List == INSTANCE TokenList WITH list <- Tokens
\* The sequence implements the list.
IsTokenList == List!Spec
=============================================================================
