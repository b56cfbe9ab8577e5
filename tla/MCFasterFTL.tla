---------------------------- MODULE MCFasterFTL ----------------------------
(***************************************************************************)
(* Workloads for one bank with three data blocks of four pages: streams of *)
(* consecutive pages, of which six in a row start a sequential log block,  *)
(* mixed with writes to a few hot pages; at some writes the host has a     *)
(* choice of pages.  Every fifth write is partial.                         *)
(***************************************************************************)
EXTENDS FasterFTL

\* One bucket for a third of the pages, one for half of them, two empty ones.
MCHash == [lpn \in 0 .. 11 |-> (lpn * lpn) % 4]

Writes(pages) == [i \in DOMAIN pages |-> {[lpn |-> l, whole |-> i % 5 # 0] : l \in pages[i]}]

\* The last workload but one comes to full merges that the assertions stop.
MCPages == {
  <<{0,5},{2},{4},{6},{8},{10},{1,2},{3},{5},{7},{9},{11},{0,1},{2},{4},{6},{8},{10}>>,
  <<{4},{5},{6},{7},{8},{9},{11},{5},{5},{11},{4},{1},{0},{7},{7},{7},{4},{11},{1},{8},{0},{6,5},{1},{2},{3},{4},{5},{6,8},{7},{8,9},{11},{4}>>,
  <<{10},{11},{11},{10},{4},{10},{11},{9},{3},{4},{5},{6},{7},{8},{9},{10},{0},{11,5},{2},{1},{2},{3,2},{4},{5},{6},{7},{8},{2},{3},{4,5},{5},{6}>>,
  <<{9},{10},{1},{9},{1},{1},{7},{11},{11},{2},{11},{2},{11},{2},{7},{0},{1},{10},{6},{7},{5},{7,1},{11},{2},{3,10},{4},{5},{6},{7,9},{8},{4},{3}>>,
  <<{1},{2},{3},{4},{5},{6},{7},{8},{2},{3},{4},{5},{6},{7},{8},{9},{3},{4},{5,3},{6,4},{7},{8},{9},{6},{6,10},{2},{2},{6},{6},{4},{4},{0}>>,
  <<{4},{5},{6},{7},{8},{9},{10},{11},{4},{5},{6},{7},{8},{2},{3},{4},{5,3},{6},{7},{8},{9},{6},{1},{6},{0},{1},{2},{3},{4},{5},{6},{7,4}>>,
  <<{7},{0},{7},{10},{0},{7},{10},{2},{3},{4},{5},{6},{5},{9},{7},{4},{5,3},{9},{2,0},{0},{5},{3},{6},{11,6},{11},{8},{9},{1},{10},{3},{0},{10}>>,
  <<{2},{0},{7},{7},{4},{3},{4},{5},{6},{7},{8},{11},{4},{11},{1},{0},{0},{3},{3},{4},{4,11},{6},{4},{7},{2},{3},{11},{8,9},{11},{1},{8},{10,0}>>,
  <<{9},{9},{9},{9},{9},{5},{4},{5},{6},{7},{8},{9},{10},{11},{10},{7},{10},{1},{2},{3},{4},{5},{6},{2},{3},{4,5},{5},{6,0},{7,8},{8},{1},{2}>>,
  <<{5},{5},{10},{5},{3},{5},{8},{10},{2},{6},{6},{4},{9},{0},{0},{1},{2},{3},{4,0},{5},{6},{7,10},{6},{3},{9},{6},{5},{11},{3},{4,10},{5},{6}>>,
  <<{1},{11},{1},{1},{1},{11},{6},{3},{4},{5},{6},{7},{8},{3},{4},{5},{6,7},{7},{8},{9},{10},{10},{0},{2},{4},{4},{5},{8},{8},{7},{0,1},{5}>>,
  <<{9},{4},{6},{8},{3},{3},{7},{3},{7},{2},{11},{3},{2},{5},{8},{8},{0},{10},{4},{2},{3},{4},{5},{6},{0},{1},{2},{3},{4}>>,
  <<{6},{6},{5},{5},{11},{11},{2},{9},{4},{4},{11},{3},{4},{5},{6},{7},{8},{9},{10},{1},{4},{9},{4},{8},{1},{9},{9},{0},{5},{6},{7},{8}>>,
  <<{3},{3},{3},{0},{4},{3},{4},{9},{7},{4},{11},{10},{3},{11},{7},{3},{5},{7},{7},{3,10},{9},{2},{9},{9},{9},{0},{0},{0,8},{0},{2,5},{0},{0}>>
}

MCWorkloads == {Writes(w) : w \in MCPages}
=============================================================================
