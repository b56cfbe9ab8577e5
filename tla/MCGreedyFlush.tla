---------------------------- MODULE MCGreedyFlush ----------------------------
(* Two banks, one of them with a bad block among its first good ones.        *)
EXTENDS GreedyFlush, TLC

MCMapVbn == (0 :> (0 :> 2 @@ 1 :> 3)) @@ (1 :> (0 :> 3 @@ 1 :> 4))
=============================================================================
