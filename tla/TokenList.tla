------------------------------ MODULE TokenList ------------------------------
(***************************************************************************)
(* What a TokenBlockSequence promises: it is a list of tokens that grows at      *)
(* its end and is cut at its end.                                                *)
(***************************************************************************)
EXTENDS Naturals, Sequences, SequencesExt

CONSTANTS Token, MaxTokens

VARIABLE list

Init == list = <<>>

Grow == \E more \in BoundedSeq(Token, MaxTokens) : list' = list \o more
Cut == \E n \in 0..Len(list) : list' = SubSeq(list, 1, n)

Spec == Init /\ [][Grow \/ Cut]_list
=============================================================================
