------------------------------ MODULE MCDacFTL ------------------------------
(***************************************************************************)
(* Workloads for one bank with nine good blocks of three data pages and    *)
(* three regions: the twelve logical pages are written once, then some of  *)
(* them again and again, in an order that looks random; every fifth write  *)
(* is partial, and at three writes the host has a choice.  The bank is not *)
(* bank 0, whose logical page 0 may come to lie at the number of a page of *)
(* an active block's, or of the first page of a block that was free.       *)
(***************************************************************************)
EXTENDS DacFTL

CONSTANTS
  NumLpages,    \* logical pages of the bank
  NumWrites     \* bound: length of a workload

MCLpns == 1 .. NumLpages

\* Not the first page of a region's first block: there the bank would take logical page
\* 0 for its own.
MCZeroVpns == {<<Nth(1), 1>>, <<Nth(NumRegion + 1), 0>>}

\* The i-th page: of all pages, or of the first hot ones but for every fourth write.
Page(a, b, hot, i) ==
  IF i <= NumLpages THEN i
  ELSE (((a * i * i + b * i) \div 7) % (IF i % 4 = 0 THEN NumLpages ELSE hot)) + 1

Choice(a, b, hot, i) ==
  IF i % 20 = 0 THEN {Page(a, b, hot, i), NumLpages} ELSE {Page(a, b, hot, i)}

Workload(a, b, hot) ==
  [i \in 1 .. NumWrites |-> {[lpn |-> l, whole |-> i % 5 # 0] : l \in Choice(a, b, hot, i)}]

MCWorkloads == {Workload(a, b, hot) : a \in {1, 3, 4}, b \in {2, 5}, hot \in {3, 6, 9, 12}}

\* One page, written over and over.
MCHotWorkloads == {[i \in 1 .. NumWrites |-> {[lpn |-> 1, whole |-> TRUE]}]}
=============================================================================
