---------------------------- MODULE MCTutorialFTL ----------------------------
(* Three logical pages of three sectors: writes with both holes, with one   *)
(* on either side and none, and a read of a page that may be mapped followed *)
(* by one that may not be.  One bank has one good block, the other has two.  *)
EXTENDS TutorialFTL, TLC

MCBadBlks == 0 :> {1} @@ 1 :> {}

MCRequests ==
  {[op |-> "write", lba |-> 1, n |-> 1], [op |-> "write", lba |-> 2, n |-> 5],
   [op |-> "read", lba |-> 1, n |-> 5]}
=============================================================================
