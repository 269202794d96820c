---------------------------- MODULE MCEntropyCoding ----------------------------
(***************************************************************************)
(* EntropyCoding on all short columns of three symbols, on columns that    *)
(* reach back in the list often enough to move it, and on columns whose    *)
(* frequencies make a code too long.                                       *)
(***************************************************************************)
EXTENDS EntropyCoding

Letters == 0..5
Thresholds == <<4, 7>>
Word(s) == [i \in 0..(Len(s) - 1) |-> s[i + 1]]

ShortColumns == UNION {[0..(n - 1) -> {0, 1, 3}] : n \in 1..6}
LongColumns == {
  Word(<<0, 1, 2, 3, 0, 1, 2, 3, 0, 1, 2, 3>>),
  Word(<<3, 2, 2, 2, 2, 1, 0, 3, 1, 2, 0, 0, 3>>),
  Word(<<4, 3, 2, 1, 0, 4, 0, 2, 4, 1, 3, 0, 4>>),
  Word(<<0, 0, 0, 0, 0, 0, 5, 0, 0, 0, 0, 0, 0>>)}
TestColumns == ShortColumns \cup LongColumns
=============================================================================
