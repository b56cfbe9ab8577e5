------------------------------ MODULE FlashCtrl ------------------------------
(***************************************************************************)
(* The flash controller and the buffer manager.  flash_issue_cmd puts a    *)
(* command into the one waiting room that all banks share; a bank takes it *)
(* from there when it is idle and is busy until it has executed it.        *)
(*                                                                         *)
(* The read buffers form a ring: the SATA hardware sends buffer            *)
(* SATA_RBUF_PTR to the host as long as it is not bm_read_limit, which     *)
(* moves over the commands with FO_B_SATA_R in the order of their buffers, *)
(* whatever order the banks finish them in.  The write buffers form        *)
(* another: the hardware fills SATA_WBUF_PTR as long as the next buffer is *)
(* not bm_write_limit, the oldest one that is still to be programmed.      *)
(*                                                                         *)
(* The hardware is not in the sources: it is modelled from the use that    *)
(* the firmware makes of it and from the comments beside that use.         *)
(***************************************************************************)
EXTENDS Integers, Sequences, FiniteSets

CONSTANTS
  NumBanks,       \* NUM_BANKS
  NumRdBuffers,   \* NUM_RD_BUFFERS
  NumWrBuffers,   \* NUM_WR_BUFFERS
  SectorsPerPage, \* SECTORS_PER_PAGE
  RowsPerBank,    \* pages of a bank
  Erased,         \* the contents of a sector that was not programmed, 0xFF
  Stale,          \* what a buffer sector holds before its first use
  None            \* no command

Banks    == 0 .. NumBanks - 1
Sectors  == 0 .. SectorsPerPage - 1
Rows     == 0 .. RowsPerBank - 1

\* Commands of all banks and of the waiting room, and the page that the FTL prepares
\* next, have a write buffer each.
ASSUME FlashAssumption ==
  /\ NumBanks \in Nat \ {0} /\ SectorsPerPage \in Nat \ {0} /\ RowsPerBank \in Nat
  /\ NumRdBuffers \in Nat /\ NumRdBuffers > 1
  /\ NumWrBuffers \in Nat /\ NumWrBuffers > NumBanks + 1

VARIABLES
  wr,             \* the Waiting Room: a command or None
  bank,           \* the command that each bank executes, or None
  nand,           \* the sectors of the pages of every bank
  rbuf, wbuf,     \* the read and the write buffers in DRAM
  rd_limit,       \* bm_read_limit
  rd_done,        \* read buffers past bm_read_limit whose command has finished
  wr_limit,       \* bm_write_limit
  wr_done,        \* write buffers past bm_write_limit whose command has finished
  rbuf_ptr,       \* SATA_RBUF_PTR
  wbuf_ptr        \* SATA_WBUF_PTR

ctrlVars == <<wr, bank, nand, rbuf, wbuf, rd_limit, rd_done, wr_limit, wr_done, rbuf_ptr, wbuf_ptr>>

CtrlInit ==
  /\ wr = None /\ bank = [b \in Banks |-> None]
  /\ nand = [b \in Banks |-> [r \in Rows |-> [s \in Sectors |-> Erased]]]
  /\ rbuf = [i \in 0 .. NumRdBuffers - 1 |-> [s \in Sectors |-> Stale]]
  /\ wbuf = [i \in 0 .. NumWrBuffers - 1 |-> [s \in Sectors |-> Stale]]
  /\ rd_limit = 0 /\ rd_done = {} /\ wr_limit = 0 /\ wr_done = {}
  /\ rbuf_ptr = 0 /\ wbuf_ptr = 0

\* The number of buffers from a cursor to another one of the same ring.
Ahead(from, to, size) == (to - from + size) % size
NextRd(i) == (i + 1) % NumRdBuffers
NextWr(i) == (i + 1) % NumWrBuffers

-----------------------------------------------------------------------------
(***************************************************************************)
(* What the firmware does with the controller.                             *)
(***************************************************************************)
Command(op, b, row, off, n, buf) ==
  [op |-> op, bank |-> b, row |-> row, off |-> off, n |-> n, buf |-> buf]

\* None is not a command.
Commands == [op : {"read", "hole", "program"}, bank : Banks, row : Nat, off : Nat, n : Nat, buf : Nat]

ASSUME NoneAssumption == None \notin Commands

SectorsOf(c) == c.off .. c.off + c.n - 1

flash_issue_cmd(c) == wr = None /\ wr' = c

\* The wait for MON_CHABANKIDLE.
flash_finish_Accepted == wr = None   \* mutant: waits for the last command to be accepted
flash_finish == wr = None /\ \A b \in Banks : bank[b] = None

\* BM_STACK_RDSET: the firmware moves bm_read_limit itself.
SetReadLimit(i) == rd_limit' = i

-----------------------------------------------------------------------------
(***************************************************************************)
(* The hardware.                                                           *)
(***************************************************************************)
Accept ==
  /\ wr # None /\ bank[wr.bank] = None
  /\ bank' = [bank EXCEPT ![wr.bank] = wr]
  /\ wr' = None
  /\ UNCHANGED <<nand, rbuf, wbuf, rd_limit, rd_done, wr_limit, wr_done, rbuf_ptr, wbuf_ptr>>

\* A limit moves over the buffers in front of it that are done.
Passed(limit, done, size) ==
  CHOOSE k \in 0 .. Cardinality(done) :
    /\ \A j \in 0 .. k - 1 : (limit + j) % size \in done
    /\ (limit + k) % size \notin done

Covered(limit, done, size) == {(limit + j) % size : j \in 0 .. Passed(limit, done, size) - 1}

Merged(buffer, page, c) == [s \in Sectors |-> IF s \in SectorsOf(c) THEN page[s] ELSE buffer[s]]

\* FC_COL_ROW_READ_OUT, or FC_COL_OUT, into a write buffer: not monitored.
ReadHole(c) ==
  /\ c.op = "hole"
  /\ wbuf' = [wbuf EXCEPT ![c.buf] = Merged(@, nand[c.bank][c.row], c)]
  /\ UNCHANGED <<nand, rbuf, rd_limit, rd_done, wr_limit, wr_done>>

\* FC_COL_ROW_READ_OUT with FO_B_SATA_R.
ReadToHost(c) ==
  /\ c.op = "read"
  /\ rbuf' = [rbuf EXCEPT ![c.buf] = Merged(@, nand[c.bank][c.row], c)]
  /\ LET done == rd_done \cup {c.buf}
     IN  /\ rd_limit' = (rd_limit + Passed(rd_limit, done, NumRdBuffers)) % NumRdBuffers
         /\ rd_done'  = done \ Covered(rd_limit, done, NumRdBuffers)
  /\ UNCHANGED <<nand, wbuf, wr_limit, wr_done>>

\* FC_COL_ROW_IN_PROG with FO_B_SATA_W waits for the data of the host.
ProgramFromHost(c) ==
  /\ c.op = "program"
  /\ Ahead(wr_limit, c.buf, NumWrBuffers) < Ahead(wr_limit, wbuf_ptr, NumWrBuffers)
  /\ nand' = [nand EXCEPT ![c.bank][c.row] = Merged(@, wbuf[c.buf], c)]
  /\ LET done == wr_done \cup {c.buf}
     IN  /\ wr_limit' = (wr_limit + Passed(wr_limit, done, NumWrBuffers)) % NumWrBuffers
         /\ wr_done'  = done \ Covered(wr_limit, done, NumWrBuffers)
  /\ UNCHANGED <<rbuf, wbuf, rd_limit, rd_done>>

Finish(b) ==
  /\ bank[b] # None
  /\ ReadHole(bank[b]) \/ ReadToHost(bank[b]) \/ ProgramFromHost(bank[b])
  /\ bank' = [bank EXCEPT ![b] = None]
  /\ UNCHANGED <<wr, rbuf_ptr, wbuf_ptr>>

\* A page goes to the host.
SendBuffer ==
  /\ rbuf_ptr # rd_limit
  /\ rbuf_ptr' = NextRd(rbuf_ptr)
  /\ UNCHANGED <<wr, bank, nand, rbuf, wbuf, rd_limit, rd_done, wr_limit, wr_done, wbuf_ptr>>

\* The sectors of a page come from the host; they land at their place in the page.
FillBuffer(off, n, data) ==
  /\ NextWr(wbuf_ptr) # wr_limit
  /\ wbuf' = [wbuf EXCEPT ![wbuf_ptr] =
       [s \in Sectors |-> IF s \in off .. off + n - 1 THEN data ELSE @[s]]]
  /\ wbuf_ptr' = NextWr(wbuf_ptr)
  /\ UNCHANGED <<wr, bank, nand, rbuf, rd_limit, rd_done, wr_limit, wr_done, rbuf_ptr>>

-----------------------------------------------------------------------------
InFlight == {c \in {wr} \cup {bank[b] : b \in Banks} : c # None}
OutFor(op) == {c \in InFlight : c.op = op}
=============================================================================
