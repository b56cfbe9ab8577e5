----------------------------- MODULE MCGreedyFTL -----------------------------
(***************************************************************************)
(* Small instances of GreedyFTL: the layouts of bad blocks, and a cipher   *)
(* that swaps the two contents a sector can have.                          *)
(***************************************************************************)
EXTENDS GreedyFTL

CONSTANTS d1, d2

Data2  == {d1, d2}
Swap   == [d \in Data2 |-> IF d = d1 THEN d2 ELSE d1]
Data1  == {d1}
Same   == [d \in Data1 |-> d]

\* One bank, block 3 bad: map block 2, reserved block 4, data from block 5 on.
OneBank  == [b \in {0} |-> {3}]
\* Two banks whose bad blocks differ, so that their first data blocks do too.
TwoBanks == [b \in {0, 1} |-> IF b = 0 THEN {} ELSE {3}]
=============================================================================
