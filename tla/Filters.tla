------------------------------ MODULE Filters ------------------------------
(***************************************************************************)
(* The loops that go through a table and append what was asked for to a    *)
(* list, as a function on sequences: with a recursive function instead of  *)
(* SelectSeq, so that proofs can unfold it.                                *)
(***************************************************************************)
EXTENDS Naturals, Sequences

\* What the loop has appended after each of its passes ...
KeptAfter(table, asked) ==
  LET kept[n \in 0..Len(table)] ==
        IF n = 0 THEN << >>
        ELSE IF table[n] \in asked THEN Append(kept[n - 1], table[n]) ELSE kept[n - 1]
  IN  kept

\* ... and in the end
Kept(table, asked) == KeptAfter(table, asked)[Len(table)]
=============================================================================
