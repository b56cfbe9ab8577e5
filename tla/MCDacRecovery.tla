---------------------------- MODULE MCDacRecovery ----------------------------
(* A page map of three pages over two banks, ages and regions of one page.   *)
EXTENDS DacRecovery, TLC

MCTablePages == 0 :> 3 @@ 1 :> 1
=============================================================================
