----------------------------- MODULE TutorialFTL -----------------------------
(***************************************************************************)
(* The tutorial FTL on the flash controller: page mapping that writes the  *)
(* banks in turn and never collects garbage.  Unlike GreedyFTL, whose      *)
(* flash commands are single steps, this module follows every command from *)
(* the waiting room to the end of its execution, next to the transfers of  *)
(* the SATA hardware, since the flow of data is all there is to this FTL.  *)
(* ftl_read of the greedy FTL works its buffers in the same way.           *)
(***************************************************************************)
EXTENDS FlashCtrl

CONSTANTS
  NumLpns,        \* logical pages
  PagesPerVblk,   \* PAGES_PER_VBLK
  BadBlks,        \* bad virtual blocks of every bank, from the scan list
  Requests,       \* the commands of the host: [op, lba, n]
  MaxWrites,      \* bound: writes of the host, told apart by their number
  MaxPending,     \* bound: pages that the host has asked for and not transferred
  NULL            \* the mapping of a page that was never written

Lpns     == 0 .. NumLpns - 1
Lbas     == 0 .. NumLpns * SectorsPerPage - 1
Tags     == 1 .. MaxWrites
VblksPerBank == RowsPerBank \div PagesPerVblk

ASSUME TutorialAssumption ==
  /\ NumLpns \in Nat \ {0} /\ PagesPerVblk \in Nat \ {0} /\ VblksPerBank \in Nat \ {0}
  /\ BadBlks \in [Banks -> SUBSET (1 .. VblksPerBank - 1)]
  /\ Requests \subseteq [op : {"read", "write"}, lba : Lbas, n : Nat \ {0}]
  /\ \A r \in Requests : r.lba + r.n <= NumLpns * SectorsPerPage
  /\ Erased \notin Tags /\ Stale \notin Tags /\ NULL \notin [bank : Banks, row : Nat] /\ MaxWrites \in Nat /\ MaxPending \in Nat

VARIABLES
  page_map,       \* PAGE_MAP: [bank, row] of a logical page, or NULL
  g_target_bank, g_target_row,
  g_ftl_read_buf_id, g_ftl_write_buf_id,
  pc,             \* where ftl_read or ftl_write stands; "stopped" when no page is left
  cmd,            \* its command: the sectors that remain
  new,            \* new_bank and new_row of the page that ftl_write works on
  eventq,         \* commands that wait for Main
  link,           \* the page transfers of the commands, in the order of the host
  disk,           \* history: the number of the last write to each sector, 0 for none
  writes          \* history: writes so far

ftlVars  == <<page_map, g_target_bank, g_target_row, g_ftl_read_buf_id, g_ftl_write_buf_id, pc, cmd, new>>
hostVars == <<eventq, link, disk, writes>>
vars     == <<ctrlVars, ftlVars, hostVars>>

NoCmd == [op |-> "none", lba |-> 0, n |-> 0]

Init ==
  /\ CtrlInit
  /\ page_map = [l \in Lpns |-> NULL]
  /\ g_target_bank = 0 /\ g_target_row = [b \in Banks |-> PagesPerVblk]
  /\ g_ftl_read_buf_id = 0 /\ g_ftl_write_buf_id = 0
  /\ pc = "main" /\ cmd = NoCmd /\ new = [bank |-> 0, row |-> 0]
  /\ eventq = <<>> /\ link = <<>>
  /\ disk = [s \in Lbas |-> 0] /\ writes = 0

-----------------------------------------------------------------------------
(***************************************************************************)
(* A command is cut into pages: the first piece of what remains.           *)
(***************************************************************************)
Lpn(c)    == c.lba \div SectorsPerPage
Offset(c) == c.lba % SectorsPerPage
PieceLen(c) == IF Offset(c) + c.n < SectorsPerPage THEN c.n ELSE SectorsPerPage - Offset(c)
Rest(c)   == [c EXCEPT !.lba = @ + PieceLen(c), !.n = @ - PieceLen(c)]

NextPage == cmd' = Rest(cmd) /\ pc' = IF Rest(cmd).n = 0 THEN "main" ELSE cmd.op

-----------------------------------------------------------------------------
(***************************************************************************)
(* The host sends commands at any time, and their data in their order.     *)
(* What a read has to return is settled when it is sent: the last writes   *)
(* sent before it.  A sector that was never written reads as 0xFF if its   *)
(* page has never been written to; beside written sectors it is whatever   *)
(* the write buffer held (Stale stands for "not checked" in exp).          *)
(***************************************************************************)
Expected(l) == LET At(s)   == disk[l * SectorsPerPage + s]
                   PageNew == \A s \in Sectors : At(s) = 0
               IN  [s \in Sectors |-> IF At(s) # 0 THEN At(s) ELSE IF PageNew THEN Erased ELSE Stale]

\* The sectors of a command in one of its pages, and the transfers of all its pages.
LastLpn(c)  == (c.lba + c.n - 1) \div SectorsPerPage
NumPages(c) == LastLpn(c) - Lpn(c) + 1
First(c, l) == IF l = Lpn(c) THEN Offset(c) ELSE 0
Final(c, l) == IF l = LastLpn(c) THEN (c.lba + c.n - 1) % SectorsPerPage ELSE SectorsPerPage - 1

PageOf(c, l, tag) == [op |-> c.op, off |-> First(c, l), n |-> Final(c, l) - First(c, l) + 1,
                      exp |-> IF c.op = "read" THEN Expected(l) ELSE [s \in Sectors |-> tag]]
Transfers(c, tag) == [i \in 1 .. NumPages(c) |-> PageOf(c, Lpn(c) + i - 1, tag)]

HostSends(r) ==
  /\ Len(link) + NumPages(r) <= MaxPending
  /\ r.op = "write" => writes < MaxWrites
  /\ writes' = IF r.op = "write" THEN writes + 1 ELSE writes
  /\ eventq' = Append(eventq, r)
  /\ link' = link \o Transfers(r, writes + 1)
  /\ disk' = IF r.op = "read" THEN disk
             ELSE [s \in Lbas |-> IF s \in r.lba .. r.lba + r.n - 1 THEN writes + 1 ELSE disk[s]]
  /\ UNCHANGED <<ctrlVars, ftlVars>>

PageToHost ==
  /\ link # <<>> /\ Head(link).op = "read"
  /\ SendBuffer
  /\ link' = Tail(link)
  /\ UNCHANGED <<ftlVars, eventq, disk, writes>>

PageFromHost ==
  /\ link # <<>> /\ Head(link).op = "write"
  /\ FillBuffer(Head(link).off, Head(link).n, Head(link).exp[0])
  /\ link' = Tail(link)
  /\ UNCHANGED <<ftlVars, eventq, disk, writes>>

-----------------------------------------------------------------------------
Main ==
  /\ pc = "main" /\ eventq # <<>>
  /\ cmd' = Head(eventq) /\ pc' = Head(eventq).op
  /\ eventq' = Tail(eventq)
  /\ UNCHANGED <<ctrlVars, page_map, g_target_bank, g_target_row, g_ftl_read_buf_id,
                 g_ftl_write_buf_id, new, link, disk, writes>>

\* The loop on SATA_RBUF_PTR: a buffer is free as long as the next one is not the
\* buffer that the SATA hardware sends.
ReadBufferFree_Always == TRUE                                   \* mutant: no wait
ReadBufferFree_Here   == g_ftl_read_buf_id # rbuf_ptr           \* mutant: empty for full
ReadBufferFree == NextRd(g_ftl_read_buf_id) # rbuf_ptr

\* ftl_read, a page that has been written.
ReadMappedPage ==
  /\ pc = "read" /\ page_map[Lpn(cmd)] # NULL
  /\ ReadBufferFree
  /\ LET p == page_map[Lpn(cmd)]
     IN  flash_issue_cmd(Command("read", p.bank, p.row, Offset(cmd), PieceLen(cmd), g_ftl_read_buf_id))
  /\ g_ftl_read_buf_id' = NextRd(g_ftl_read_buf_id)
  /\ NextPage
  /\ UNCHANGED <<bank, nand, rbuf, wbuf, rd_limit, rd_done, wr_limit, wr_done, rbuf_ptr, wbuf_ptr,
                 page_map, g_target_bank, g_target_row, g_ftl_write_buf_id, new, hostVars>>

\* ftl_read, a page that has never been written: 0xFF, once all banks are idle.
ReadUnmappedPage ==
  /\ pc = "read" /\ page_map[Lpn(cmd)] = NULL
  /\ ReadBufferFree
  /\ flash_finish
  /\ rbuf' = [rbuf EXCEPT ![g_ftl_read_buf_id] =
       [s \in Sectors |-> IF s \in Offset(cmd) .. Offset(cmd) + PieceLen(cmd) - 1 THEN Erased ELSE @[s]]]
  /\ SetReadLimit(NextRd(g_ftl_read_buf_id))
  /\ g_ftl_read_buf_id' = NextRd(g_ftl_read_buf_id)
  /\ NextPage
  /\ UNCHANGED <<wr, bank, nand, wbuf, rd_done, wr_limit, wr_done, rbuf_ptr, wbuf_ptr,
                 page_map, g_target_bank, g_target_row, g_ftl_write_buf_id, new, hostVars>>

-----------------------------------------------------------------------------
\* The block of the next row; one that starts a block skips the bad ones.
FreeBlk(b) ==
  LET row == g_target_row[b]
      blk == row \div PagesPerVblk
      Good == {v \in blk .. VblksPerBank : v \notin BadBlks[b]}
  IN  IF row % PagesPerVblk = 0 THEN CHOOSE v \in Good : \A w \in Good : v <= w ELSE blk

get_free_page(b) == FreeBlk(b) * PagesPerVblk + (g_target_row[b] % PagesPerVblk)

LeftHole  == Offset(cmd)
RightHole == SectorsPerPage - Offset(cmd) - PieceLen(cmd)
Old       == page_map[Lpn(cmd)]

\* read_old_data
HasHoles == Old # NULL /\ LeftHole + RightHole > 0

\* ftl_write, a page: the bank whose turn it is gives a page, or the FTL stops.
WriteStart ==
  /\ pc = "write"
  /\ g_target_bank' = (g_target_bank + 1) % NumBanks
  /\ IF FreeBlk(g_target_bank) >= VblksPerBank
     THEN pc' = "stopped" /\ UNCHANGED <<g_target_row, new>>
     ELSE /\ new' = [bank |-> g_target_bank, row |-> get_free_page(g_target_bank)]
          /\ g_target_row' = [g_target_row EXCEPT ![g_target_bank] = get_free_page(g_target_bank) + 1]
          /\ pc' = IF ~HasHoles THEN "program" ELSE IF LeftHole # 0 THEN "left" ELSE "right"
  /\ UNCHANGED <<ctrlVars, page_map, g_ftl_read_buf_id, g_ftl_write_buf_id, cmd, hostVars>>

ReadLeftHole ==
  /\ pc = "left"
  /\ flash_issue_cmd(Command("hole", Old.bank, Old.row, 0, LeftHole, g_ftl_write_buf_id))
  /\ pc' = IF RightHole # 0 THEN "right" ELSE "program"
  /\ UNCHANGED <<bank, nand, rbuf, wbuf, rd_limit, rd_done, wr_limit, wr_done, rbuf_ptr, wbuf_ptr,
                 page_map, g_target_bank, g_target_row, g_ftl_read_buf_id, g_ftl_write_buf_id, cmd, new, hostVars>>

ReadRightHole ==
  /\ pc = "right"
  /\ flash_issue_cmd(Command("hole", Old.bank, Old.row, SectorsPerPage - RightHole, RightHole, g_ftl_write_buf_id))
  /\ pc' = "program"
  /\ UNCHANGED <<bank, nand, rbuf, wbuf, rd_limit, rd_done, wr_limit, wr_done, rbuf_ptr, wbuf_ptr,
                 page_map, g_target_bank, g_target_row, g_ftl_read_buf_id, g_ftl_write_buf_id, cmd, new, hostVars>>

\* The hole commands of another bank have finished.
HolesRead_Accepted == HasHoles => wr = None                       \* mutant: accepted is enough
HolesRead == HasHoles /\ Old.bank # new.bank => wr = None /\ bank[Old.bank] = None

\* All sectors of the buffer are programmed, those that nobody has filled included.
ProgramPage ==
  /\ pc = "program"
  /\ HolesRead
  /\ flash_issue_cmd(Command("program", new.bank, new.row, 0, SectorsPerPage, g_ftl_write_buf_id))
  /\ page_map' = [page_map EXCEPT ![Lpn(cmd)] = new]
  /\ g_ftl_write_buf_id' = NextWr(g_ftl_write_buf_id)
  /\ NextPage
  /\ UNCHANGED <<bank, nand, rbuf, wbuf, rd_limit, rd_done, wr_limit, wr_done, rbuf_ptr, wbuf_ptr,
                 g_target_bank, g_target_row, g_ftl_read_buf_id, new, hostVars>>

Ftl == \/ Main \/ ReadMappedPage \/ ReadUnmappedPage
       \/ WriteStart \/ ReadLeftHole \/ ReadRightHole \/ ProgramPage

Next ==
  \/ \E r \in Requests : HostSends(r)
  \/ PageToHost \/ PageFromHost
  \/ Ftl
  \/ Accept /\ UNCHANGED <<ftlVars, hostVars>>
  \/ \E b \in Banks : Finish(b) /\ UNCHANGED <<ftlVars, hostVars>>

\* The processor runs, a bank finishes what it has begun, and the host takes and
\* sends the data of its commands.
Fairness ==
  /\ WF_vars(Ftl)
  /\ WF_vars(Accept /\ UNCHANGED <<ftlVars, hostVars>>)
  /\ \A b \in Banks : WF_vars(Finish(b) /\ UNCHANGED <<ftlVars, hostVars>>)
  /\ WF_vars(PageToHost \/ PageFromHost)

Spec == Init /\ [][Next]_vars /\ Fairness
-----------------------------------------------------------------------------
(***************************************************************************)
(* Properties.                                                             *)
(***************************************************************************)

\* The reads among the first transfers that the host waits for.
NumReads(k) == Cardinality({i \in 1 .. k : link[i].op = "read"})

\* The buffers that the SATA hardware may send hold, in this order, the pages of
\* the reads that the host waits for: the data of the last write before each read,
\* merged with the old sectors of the page, although the page may come out of the
\* middle of a chain program, hole read, program over two banks, the banks finish
\* in any order, and pages that were never written are put in by the firmware
\* (ftl_read, ftl_tutorial/ftl.c:188-272).
HostGetsItsPages ==
  LET sendable == Ahead(rbuf_ptr, rd_limit, NumRdBuffers)
  IN  /\ sendable <= NumReads(Len(link))
      /\ \A k \in DOMAIN link : link[k].op = "read" /\ NumReads(k) <= sendable =>
           LET p == link[k]
               b == rbuf[(rbuf_ptr + NumReads(k) - 1) % NumRdBuffers]
           IN  \A s \in p.off .. p.off + p.n - 1 : p.exp[s] # Stale => b[s] = p.exp[s]

\* A ring that is full never looks empty, and no buffer has two users: the buffers
\* between a limit and the FTL's own cursor are those of the commands issued and
\* not finished and of those finished out of order (the waits on SATA_RBUF_PTR at
\* ftl_tutorial/ftl.c:225-231 and 245; for the write buffers there is no wait, the
\* ring is larger than what the waiting room and the banks hold).  A bank programs no
\* buffer that old sectors are still to be read into: the program waits in the waiting
\* room for the bank that reads them.
RingsAgree ==
  /\ Ahead(rd_limit, g_ftl_read_buf_id, NumRdBuffers) = Cardinality(OutFor("read")) + Cardinality(rd_done)
  /\ Ahead(wr_limit, g_ftl_write_buf_id, NumWrBuffers) = Cardinality(OutFor("program")) + Cardinality(wr_done)
  /\ \A h \in OutFor("hole"), c \in OutFor("program") : c.buf = h.buf => c.bank = h.bank /\ c = wr

\* The transfers of a host that waits for some never stop, unless the FTL has run
\* out of pages, and every command leaves the waiting room: although one command
\* for a busy bank holds up all others (flash_issue_cmd, target_spw/flash.c:32),
\* and a bank may wait for data that the host sends after it has taken its reads.
CommandsServed ==
  /\ []<>(link = <<>> \/ pc = "stopped") \/ []<><<PageToHost \/ PageFromHost>>_vars
  /\ wr # None ~> wr = None
=============================================================================
