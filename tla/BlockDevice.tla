----------------------------- MODULE BlockDevice -----------------------------
(***************************************************************************)
(* What the firmware promises the host, whatever FTL is underneath: a disk *)
(* of numbered sectors, one command at a time, each command served from    *)
(* its first sector to its last.  How many sectors one step serves is left *)
(* open; a sector that was never written reads as 0xFF (Blank).            *)
(*                                                                         *)
(* A write of EncSectors sectors is a weaker promise: each of its sectors  *)
(* is stored encrypted, or as it came, or it is lost, wholly or in part,   *)
(* and holds something else (Garbled).                                     *)
(***************************************************************************)
EXTENDS Integers

CONSTANTS
  NumLsectors, \* NUM_LSECTORS
  Data, Blank, Garbled, Enc, EncSectors,
  MaxSectors,  \* bound: the longest command
  HostLbas     \* the sectors the host writes to

VARIABLES
  disk,  \* the contents of every sector
  op,    \* "idle", "read" or "write"
  req,   \* what is left of the command
  sent   \* the sectors served to the host last

dvars == <<disk, op, req, sent>>

Lbas  == 0 .. NumLsectors - 1
NoReq == [lba |-> 0, left |-> 0, datum |-> Blank, crypt |-> FALSE]

DInit ==
  /\ disk = [a \in Lbas |-> Blank]
  /\ op = "idle"
  /\ req = NoReq
  /\ sent = <<>>

Accept(kind, lba, n, d) ==
  /\ op = "idle"
  /\ lba .. lba + n - 1 \subseteq (IF kind = "write" THEN HostLbas ELSE Lbas)
  /\ op' = kind
  /\ req' = [lba |-> lba, left |-> n, datum |-> d, crypt |-> kind = "write" /\ n = EncSectors]
  /\ sent' = <<>>
  /\ UNCHANGED disk

Finish(k) ==
  IF k = req.left
    THEN op' = "idle" /\ req' = NoReq
    ELSE op' = op /\ req' = [req EXCEPT !.lba = @ + k, !.left = @ - k]

Run(k) == req.lba .. req.lba + k - 1

ServeRead(k) ==
  /\ op = "read"
  /\ sent' = [a \in Run(k) |-> disk[a]]
  /\ Finish(k)
  /\ UNCHANGED disk

Stored(a, enc, lost) ==
  IF a \in lost THEN Garbled
  ELSE IF a \in enc THEN Enc[req.datum] ELSE req.datum

ServeWrite(k, enc, lost) ==
  /\ op = "write"
  /\ ~req.crypt => enc = {} /\ lost = {}
  /\ disk' = [a \in Lbas |-> IF a \in Run(k) THEN Stored(a, enc, lost) ELSE disk[a]]
  /\ Finish(k)
  /\ UNCHANGED sent
Serve == \E k \in 1 .. req.left :
  ServeRead(k) \/ \E enc, lost \in SUBSET Run(k) : ServeWrite(k, enc, lost)

DNext ==
  \/ \E lba \in Lbas, n \in 1 .. MaxSectors : Accept("read", lba, n, Blank)
  \/ \E lba \in Lbas, n \in 1 .. MaxSectors, d \in Data : Accept("write", lba, n, d)
  \/ Serve

DSpec == DInit /\ [][DNext]_dvars

(***************************************************************************)
(* An accepted command is served to its end.                               *)
(***************************************************************************)
FairDSpec == DSpec /\ WF_dvars(Serve)
=============================================================================
