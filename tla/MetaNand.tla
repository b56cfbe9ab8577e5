------------------------------ MODULE MetaNand ------------------------------
(***************************************************************************)
(* The flash as the metadata logs of an FTL see it: nand_block_erase and   *)
(* nand_page_ptprogram issue a command and return, every bank executes its *)
(* commands in order, and a program command reads the bank's FTL_BUF when  *)
(* it runs, not when it was issued.  flash_finish waits for all banks.     *)
(* A command takes effect at once or, when the power goes, not at all.     *)
(***************************************************************************)
EXTENDS Integers, Sequences, FiniteSets

CONSTANTS
  NumBanks,       \* NUM_BANKS
  PagesPerBlk,    \* PAGES_PER_BLK
  NumMetaBlks,    \* blocks 0 .. NumMetaBlks - 1 of a bank are modelled
  Erased,         \* an erased page, and a buffer before its first use
  Spoiled         \* a page that was programmed twice without an erase

Banks == 0 .. NumBanks - 1
Blks  == 0 .. NumMetaBlks - 1
Pages == 0 .. PagesPerBlk - 1

MISCBLK_VBN == 1

ASSUME NandAssumption ==
  /\ NumBanks \in Nat \ {0} /\ NumMetaBlks \in Nat
  /\ PagesPerBlk \in Nat /\ PagesPerBlk > 1

VARIABLES
  flash,          \* the pages of every bank
  queue,          \* the commands issued to a bank and not executed
  ftl_buf         \* FTL_BUF of every bank, in DRAM

nandVars == <<flash, queue, ftl_buf>>

Erase(blk)   == [op |-> "erase",   blk |-> blk, pg |-> 0]
Program(vpn) == [op |-> "program", blk |-> vpn \div PagesPerBlk, pg |-> vpn % PagesPerBlk]

CleanFlash == [b \in Banks |-> [v \in Blks |-> [p \in Pages |-> Erased]]]

NandInit ==
  /\ flash = CleanFlash
  /\ queue = [b \in Banks |-> <<>>]
  /\ ftl_buf = [b \in Banks |-> Erased]

Issue(b, cmds) == queue' = [queue EXCEPT ![b] = @ \o cmds]

flash_finish == \A b \in Banks : queue[b] = <<>>

PageAt(b, vpn) == flash[b][vpn \div PagesPerBlk][vpn % PagesPerBlk]

\* A bank executes its oldest command.
Execute(b) ==
  /\ queue[b] # <<>>
  /\ LET c == Head(queue[b])
     IN  flash' = [flash EXCEPT ![b][c.blk] = [p \in Pages |->
           IF c.op = "erase" THEN Erased
           ELSE IF p # c.pg THEN @[p]
           ELSE IF @[p] = Erased THEN ftl_buf[b] ELSE Spoiled]]
  /\ queue' = [queue EXCEPT ![b] = Tail(@)]
  /\ UNCHANGED ftl_buf

\* The flash rule: a page is programmed once after an erase of its block, and the
\* pages of a block are programmed in ascending order.
CommandAllowed(b, c) ==
  c.op = "program" => \A p \in c.pg .. PagesPerBlk - 1 : flash[b][c.blk][p] = Erased

\* The highest programmed page of a block, the one that load_misc_metadata takes.
Programmed(b, blk) == {p \in Pages : flash[b][blk][p] # Erased}

Newest(b, blk) ==
  flash[b][blk][CHOOSE p \in Programmed(b, blk) : \A q \in Programmed(b, blk) : q <= p]

-----------------------------------------------------------------------------
\* The page of a log at vpn: written, with the rest of the block erased; still to be
\* written; or on its way, with the page in the buffer of the bank.
BlankAbove(b, vpn) ==
  \A p \in Pages : p > vpn % PagesPerBlk => flash[b][vpn \div PagesPerBlk][p] = Erased

Written(b, vpn, page) == PageAt(b, vpn) = page /\ BlankAbove(b, vpn)

Blank(b, vpn) == Written(b, vpn, Erased)

Queued(b, vpn, page) ==
  /\ ftl_buf[b] = page
  /\ \/ queue[b] = <<Program(vpn)>> /\ Blank(b, vpn)
     \/ queue[b] = <<Erase(vpn \div PagesPerBlk), Program(vpn)>> /\ vpn % PagesPerBlk = 0

Commands == [op : {"erase", "program"}, blk : Blks, pg : Pages]

\* C is the set of the contents of a page.
NandTypeOK(C) ==
  /\ flash \in [Banks -> [Blks -> [Pages -> C]]]
  /\ ftl_buf \in [Banks -> C]
  /\ queue \in [Banks -> Seq(Commands)]

=============================================================================
