------------------------------- MODULE MCBlockSort -------------------------------
(***************************************************************************)
(* BlockSort on short blocks, which go to the fallback, and on longer      *)
(* ones, which go to the main sort: six are one more than the overshoot    *)
(* needs.  The blocks of thirteen repeat a pair six times, with another    *)
(* symbol somewhere between: their rotations begin alike for long, and     *)
(* five of them are left for one pass of a shell sort with steps of 4.     *)
(***************************************************************************)
EXTENDS BlockSort

Letters == 0..2
Increments == <<1, 4>>

LongBlocks == {[i \in 0..12 |-> CASE i = brk -> c
                                   [] i < brk -> 2 * (i % 2)
                                   [] i > brk -> 2 * ((i - 1) % 2)] : brk \in 0..12, c \in 1..2}
SmallBlocks == UNION {[0..(n - 1) -> 0..2] : n \in {1, 2, 3, 6}}
                 \cup [0..7 -> {0, 2}] \cup LongBlocks
=============================================================================
