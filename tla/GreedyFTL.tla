------------------------------ MODULE GreedyFTL ------------------------------
(***************************************************************************)
(* The page-mapping FTL of ftl_greedy/ftl.c: ftl_read, ftl_write,          *)
(* write_page, assign_new_write_vpn and garbage_collection, over the NAND  *)
(* blocks of every bank, from the formatted state that ftl_open leaves.    *)
(*                                                                         *)
(* A virtual page number  vblock * PAGES_PER_BLK + page  is the record     *)
(* [blk, pg]; NULL, the number 0, is page 0 of block 0.  Flash commands of *)
(* one bank run in the order they are issued, so a command is one step     *)
(* here; module FlashCtrl is where their overlap is modelled.              *)
(*                                                                         *)
(* The firmware runs one command at a time: pc says where its main loop    *)
(* stands.  write_page is two steps, the allocation of a page with its     *)
(* garbage collection, then the programming of that page.                  *)
(***************************************************************************)
EXTENDS Integers, FiniteSets

CONSTANTS
  NumBanks,       \* NUM_BANKS
  VBlksPerBank,   \* VBLKS_PER_BANK
  PagesPerBlk,    \* PAGES_PER_BLK; the last page of a block keeps its LPN list
  MapBlksPerBank, \* MAPBLKS_PER_BANK
  BadBlks,        \* BAD_BLK_BMP: the bad blocks of every bank
  NumLpages,      \* NUM_LPAGES
  SectorsPerPage, \* SECTORS_PER_PAGE
  Data,           \* the contents of a sector
  Blank,          \* a sector of 0xFF bytes
  Garbled,        \* a sector that encryption spoiled: what was sent is lost
  Erased,         \* an erased page
  Enc,            \* AES_ECB_encrypt under key_1, a permutation of Data
  EncSectors,     \* the command length that is encrypted (256 in the source)
  MaxSectors,     \* bound: the longest command of the host
  HostLpns        \* the logical pages the host writes to

Banks   == 0 .. NumBanks - 1
VBlks   == 0 .. VBlksPerBank - 1
Pages   == 0 .. PagesPerBlk - 2      \* the pages of a block that hold data
Lpns    == 0 .. NumLpages - 1
Sectors == 0 .. SectorsPerPage - 1

VC_MAX      == 52685                 \* 0xCDCD
MISCBLK_VBN == 1
META_BLKS_PER_BANK == 1 + 1 + MapBlksPerBank   \* block 0, misc. block, map blocks

get_num_bank(lpn) == lpn % NumBanks
LpnsOf(b) == {l \in Lpns : get_num_bank(l) = b}

Vpn(v, p) == [blk |-> v, pg |-> p]
Null      == Vpn(0, 0)

-----------------------------------------------------------------------------
(***************************************************************************)
(* The layout that init_metadata_sram gives a bank: block 0, the misc.     *)
(* block, the first MAPBLKS_PER_BANK good blocks for the mapping table,    *)
(* the next good one reserved for garbage collection, the rest for data.   *)
(***************************************************************************)
Good(b) == {v \in VBlks : v > MISCBLK_VBN /\ v \notin BadBlks[b]}

\* The position of p in the set S, counted from 0, and the element at a position.
Rank(S, p) == Cardinality({q \in S : q < p})

Nth(S, k) == CHOOSE p \in S : Rank(S, p) = k

MapVblks(b) == {v \in Good(b) : Rank(Good(b), v) < MapBlksPerBank}

UserArea(b) == Good(b) \ MapVblks(b)

Least(S) == CHOOSE v \in S : \A w \in S : v <= w

FirstGc(b)    == Least(UserArea(b))
FirstBlock(b) == Least(UserArea(b) \ {FirstGc(b)})

ASSUME SizeAssumption ==
  /\ NumBanks \in Nat \ {0}
  /\ VBlksPerBank \in Nat
  /\ PagesPerBlk \in Nat /\ PagesPerBlk >= 3 /\ PagesPerBlk < VC_MAX
  /\ NumLpages \in Nat \ {0}
  /\ SectorsPerPage \in Nat \ {0}
  /\ MaxSectors \in Nat \ {0}
  /\ EncSectors \in Nat

ASSUME LayoutAssumption ==
  /\ MapBlksPerBank \in Nat
  /\ BadBlks \in [Banks -> SUBSET (VBlks \ {0, MISCBLK_VBN})]
  /\ \A b \in Banks : \E v, w \in UserArea(b) : v # w

ASSUME DataAssumption ==
  /\ Blank \notin Data
  /\ Erased \notin [Sectors -> Data \union {Blank, Garbled}]
  /\ Erased \notin [Pages -> Lpns]
  /\ Enc \in [Data -> Data]
  /\ HostLpns \subseteq Lpns

(***************************************************************************)
(* Over-provisioning: whichever good block is set aside for garbage        *)
(* collection, the other ones have more data pages than the bank has       *)
(* logical pages (NUM_LSECTORS keeps 7% back; bad blocks eat into that).   *)
(***************************************************************************)
ASSUME CapacityAssumption ==
  \A b \in Banks : \A g \in UserArea(b) :
    Cardinality(LpnsOf(b)) < Cardinality((UserArea(b) \ {g}) \X Pages)

-----------------------------------------------------------------------------
VARIABLES
  page_map,       \* PAGE_MAP: logical page -> vpn
  vcount,         \* VCOUNT: the valid pages of a block, VC_MAX if out of use
  cur_write_vpn,  \* the page that was allocated last
  gc_vblock,      \* the erased block kept for garbage collection
  free_blk_cnt,   \* the blocks without an LPN list in their last page
  lpn_list,       \* lpn_list_of_cur_vblock: the owners of the current block
  nand,           \* the data pages of every block
  last_page,      \* the last page of every block: its LPN list
  pc,             \* where the firmware stands
  cmd,            \* the command being served
  sent            \* the sectors the last ftl_read step gave the host

meta == <<page_map, vcount, cur_write_vpn, gc_vblock, free_blk_cnt, lpn_list>>
vars == <<meta, nand, last_page, pc, cmd, sent>>

NoCmd   == [lpn |-> 0, offset |-> 0, remain |-> 0, datum |-> Blank, printBytes |-> FALSE]
Content == [Sectors -> Data \union {Blank, Garbled}]
AllFF   == [s \in Sectors |-> Blank]
NoLpns  == [p \in Pages |-> 0]        \* mem_set_sram(lpn_list, 0)

Init ==
  /\ page_map = [l \in Lpns |-> Null]
  /\ vcount = [b \in Banks |-> [v \in VBlks |->
       IF v \in UserArea(b) \ {FirstGc(b)} THEN 0 ELSE VC_MAX]]
  /\ cur_write_vpn = [b \in Banks |-> Vpn(FirstBlock(b), 0)]
  /\ gc_vblock = [b \in Banks |-> FirstGc(b)]
  /\ free_blk_cnt = [b \in Banks |->
       VBlksPerBank - META_BLKS_PER_BANK - Cardinality(BadBlks[b])]
  /\ lpn_list = [b \in Banks |-> NoLpns]
  /\ nand = [b \in Banks |-> [v \in VBlks |-> [p \in Pages |-> Erased]]]
  /\ last_page = [b \in Banks |-> [v \in VBlks |-> Erased]]
  /\ pc = "main"
  /\ cmd = NoCmd
  /\ sent = <<>>

-----------------------------------------------------------------------------
(***************************************************************************)
(* Main() hands a command of n sectors from lba to ftl_read or ftl_write,  *)
(* whose loop cuts it at page boundaries.                                  *)
(***************************************************************************)
Command(lba, n, d, p) ==
  [lpn |-> lba \div SectorsPerPage, offset |-> lba % SectorsPerPage,
   remain |-> n, datum |-> d, printBytes |-> p]

\* Every page that the command still has to touch belongs to S.
Fits(c, S) ==
  \A k \in 0 .. c.remain : k * SectorsPerPage < c.offset + c.remain => c.lpn + k \in S

ftl_write(lba, n, d) ==
  /\ pc = "main"
  /\ Fits(Command(lba, n, d, FALSE), HostLpns)
  /\ pc' = "write"
  /\ cmd' = Command(lba, n, d, n = EncSectors)
  /\ sent' = <<>>
  /\ UNCHANGED <<meta, nand, last_page>>

ftl_read(lba, n) ==
  /\ pc = "main"
  /\ Fits(Command(lba, n, Blank, FALSE), Lpns)
  /\ pc' = "read"
  /\ cmd' = Command(lba, n, Blank, FALSE)
  /\ sent' = <<>>
  /\ UNCHANGED <<meta, nand, last_page>>

NumSectors(c) ==
  IF c.offset + c.remain < SectorsPerPage THEN c.remain ELSE SectorsPerPage - c.offset

Covered(c) == c.offset .. c.offset + NumSectors(c) - 1

Advance(loop) ==   \* the end of an iteration of the loop of ftl_read, ftl_write
  IF cmd.remain = NumSectors(cmd)
    THEN pc' = "main" /\ cmd' = NoCmd
    ELSE /\ pc' = loop
         /\ cmd' = [cmd EXCEPT !.lpn = @ + 1, !.offset = 0, !.remain = @ - NumSectors(cmd)]

-----------------------------------------------------------------------------
(***************************************************************************)
(* ftl_read: a page that was never written reads as 0xFF.                  *)
(***************************************************************************)
PageContent(l) ==
  IF page_map[l] = Null THEN AllFF
  ELSE nand[get_num_bank(l)][page_map[l].blk][page_map[l].pg]

ReadPage ==
  /\ pc = "read"
  /\ sent' = [a \in {cmd.lpn * SectorsPerPage + s : s \in Covered(cmd)} |->
                PageContent(cmd.lpn)[a % SectorsPerPage]]
  /\ Advance("read")
  /\ UNCHANGED <<meta, nand, last_page>>

-----------------------------------------------------------------------------
(***************************************************************************)
(* assign_new_write_vpn: the next page of the current block; past the last *)
(* data page the list of owners is programmed into the last page and the   *)
(* next block is taken, through garbage collection if one free block is    *)
(* left.                                                                   *)
(***************************************************************************)
AtLastPage_Late(b) == cur_write_vpn[b].pg = PagesPerBlk - 1      \* mutant
AtLastPage(b) == cur_write_vpn[b].pg = PagesPerBlk - 2

AssignNextPage(b) ==
  /\ pc = "write" /\ b = get_num_bank(cmd.lpn)
  /\ ~AtLastPage(b)
  /\ cur_write_vpn' = [cur_write_vpn EXCEPT ![b].pg = @ + 1]
  /\ pc' = "program"
  /\ UNCHANGED <<page_map, vcount, gc_vblock, free_blk_cnt, lpn_list, nand, last_page, cmd, sent>>

inc_full_blk_cnt_Lost(b) == free_blk_cnt                           \* mutant
inc_full_blk_cnt(b) == [free_blk_cnt EXCEPT ![b] = @ - 1]

LogLpnList_Buf0(b) == [last_page EXCEPT ![b][cur_write_vpn[b].blk] = lpn_list[0]]  \* mutant
LogLpnList(b) == [last_page EXCEPT ![b][cur_write_vpn[b].blk] = lpn_list[b]]

is_full_all_blks_Late(b) == free_blk_cnt[b] - 1 = 0                \* mutant
is_full_all_blks(b) == free_blk_cnt[b] - 1 = 1

NextBlocks(b) == {v \in VBlks : v > cur_write_vpn[b].blk /\ vcount[b][v] # VC_MAX}

AssignNextBlock(b) ==
  /\ pc = "write" /\ b = get_num_bank(cmd.lpn)
  /\ AtLastPage(b)
  /\ ~is_full_all_blks(b)
  /\ NextBlocks(b) # {}
  /\ last_page' = LogLpnList(b)
  /\ lpn_list' = [lpn_list EXCEPT ![b] = NoLpns]
  /\ free_blk_cnt' = inc_full_blk_cnt(b)
  /\ cur_write_vpn' = [cur_write_vpn EXCEPT ![b] = Vpn(Least(NextBlocks(b)), 0)]
  /\ pc' = "program"
  /\ UNCHANGED <<page_map, vcount, gc_vblock, nand, cmd, sent>>

(***************************************************************************)
(* garbage_collection: a block with the fewest valid pages is the victim   *)
(* (the memory utility breaks ties as it likes).  The pages whose recorded *)
(* owner still maps to them move, in order, to the start of the reserved   *)
(* block; the victim is erased and becomes the reserved block.  The list   *)
(* of the victim stays in lpn_list where no owner was written over it.     *)
(***************************************************************************)
Victims(b) == {v \in VBlks : \A w \in VBlks : vcount[b][v] <= vcount[b][w]}

Live_ByBlock(b, vt, list) == {p \in Pages : page_map[list[p]].blk = vt}  \* mutant
Live(b, vt, list) == {p \in Pages : page_map[list[p]] = Vpn(vt, p)}

Relocate(b, vt, list, live) ==
  [l \in Lpns |->
    IF \E p \in live : list[p] = l
      THEN Vpn(gc_vblock[b], Rank(live, page_map[l].pg))
      ELSE page_map[l]]

CopyBack_NoErase(b, vt, live) ==                                   \* mutant
  [nand EXCEPT ![b] = [v \in VBlks |-> [p \in Pages |->
     IF v = gc_vblock[b] /\ p < Cardinality(live) THEN nand[b][vt][Nth(live, p)]
     ELSE nand[b][v][p]]]]

CopyBack(b, vt, live) ==
  [nand EXCEPT ![b] = [v \in VBlks |-> [p \in Pages |->
     IF v = vt THEN Erased
     ELSE IF v = gc_vblock[b] /\ p < Cardinality(live) THEN nand[b][vt][Nth(live, p)]
     ELSE nand[b][v][p]]]]

Compact_Lost(list, live) == list                                   \* mutant
Compact(list, live) ==
  [k \in Pages |-> IF k < Cardinality(live) THEN list[Nth(live, k)] ELSE list[k]]

GcCounts_NoMax(b, vt) == [vcount[b] EXCEPT ![gc_vblock[b]] = vcount[b][vt]]  \* mutant
GcCounts(b, vt) == [vcount[b] EXCEPT ![vt] = VC_MAX, ![gc_vblock[b]] = vcount[b][vt]]

garbage_collection(b, vt) ==
  LET log  == LogLpnList(b)
      list == log[b][vt]
      live == Live(b, vt, list)
  IN  /\ vt \in Victims(b)
      /\ page_map' = Relocate(b, vt, list, live)
      /\ nand' = CopyBack(b, vt, live)
      /\ last_page' = [log EXCEPT ![b][vt] = Erased]
      /\ lpn_list' = [lpn_list EXCEPT ![b] = Compact(list, live)]
      /\ vcount' = [vcount EXCEPT ![b] = GcCounts(b, vt)]
      /\ cur_write_vpn' = [cur_write_vpn EXCEPT ![b] = Vpn(gc_vblock[b], Cardinality(live))]
      /\ gc_vblock' = [gc_vblock EXCEPT ![b] = vt]
      /\ UNCHANGED free_blk_cnt     \* one block filled, one block freed

AssignByGc(b, vt) ==
  /\ pc = "write" /\ b = get_num_bank(cmd.lpn)
  /\ AtLastPage(b)
  /\ is_full_all_blks(b)
  /\ garbage_collection(b, vt)
  /\ pc' = "program"
  /\ UNCHANGED <<cmd, sent>>

-----------------------------------------------------------------------------
(***************************************************************************)
(* The rest of write_page.  Around the sectors of the host, the holes of a *)
(* page that has an old copy are read from that copy (by one read and      *)
(* mem_copy, or by two partial reads); a page that has none is programmed  *)
(* partially and keeps 0xFF there.                                         *)
(*                                                                         *)
(* A command of EncSectors sectors is encrypted in the write buffer, 128   *)
(* bytes at a time: read, encrypted, copied back.  Only the program        *)
(* command that follows waits for the data, so the hardware may still be   *)
(* storing it.  A sector that was there in time is stored encrypted (enc), *)
(* one that comes after its turn as the host sent it.  What comes between  *)
(* the read and the copy back is overwritten by the ciphertext of what the *)
(* buffer held before; such a sector, or one whose pieces met different    *)
(* fates, is lost.  Nothing else of the firmware runs meanwhile.           *)
(***************************************************************************)
Received(s, enc, lost) ==
  IF s \in lost THEN Garbled
  ELSE IF s \in enc THEN Enc[cmd.datum] ELSE cmd.datum

NewContent_NoHoles(l, enc, lost) ==                                \* mutant
  [s \in Sectors |-> IF s \in Covered(cmd) THEN Received(s, enc, lost) ELSE Blank]

NewContent(l, enc, lost) ==
  [s \in Sectors |->
    IF s \in Covered(cmd) THEN Received(s, enc, lost) ELSE PageContent(l)[s]]

Recount_NoDecrement(b, old, new) == [vcount[b] EXCEPT ![new.blk] = @ + 1]  \* mutant
Recount(b, old, new) ==   \* set_vcount of the old block, then of the new one
  LET dec == IF old = Null THEN vcount[b] ELSE [vcount[b] EXCEPT ![old.blk] = @ - 1]
  IN  [dec EXCEPT ![new.blk] = @ + 1]

Encrypted == IF cmd.printBytes THEN Covered(cmd) ELSE {}

ProgramPage(enc, lost) ==
  LET l   == cmd.lpn
      b   == get_num_bank(l)
      new == cur_write_vpn[b]
  IN  /\ pc = "program"
      /\ enc \subseteq Encrypted /\ lost \subseteq Encrypted \ enc
      /\ nand' = [nand EXCEPT ![b][new.blk][new.pg] = NewContent(l, enc, lost)]
      /\ lpn_list' = [lpn_list EXCEPT ![b][new.pg] = l]
      /\ page_map' = [page_map EXCEPT ![l] = new]
      /\ vcount' = [vcount EXCEPT ![b] = Recount(b, page_map[l], new)]
      /\ Advance("write")
      /\ UNCHANGED <<cur_write_vpn, gc_vblock, free_blk_cnt, last_page, sent>>

-----------------------------------------------------------------------------
Lbas == 0 .. NumLpages * SectorsPerPage - 1

Next ==
  \/ \E lba \in Lbas, n \in 1 .. MaxSectors : ftl_read(lba, n)
  \/ \E lba \in Lbas, n \in 1 .. MaxSectors, d \in Data : ftl_write(lba, n, d)
  \/ ReadPage
  \/ \E b \in Banks : AssignNextPage(b)
  \/ \E b \in Banks : AssignNextBlock(b)
  \/ \E b \in Banks, vt \in VBlks : AssignByGc(b, vt)
  \/ \E enc, lost \in SUBSET Sectors : ProgramPage(enc, lost)

Spec == Init /\ [][Next]_vars

(***************************************************************************)
(* The firmware runs on its own: once a command is accepted nothing but    *)
(* its own loop keeps the processor.                                       *)
(***************************************************************************)
Step == ReadPage \/ (\E b \in Banks : AssignNextPage(b) \/ AssignNextBlock(b)
                       \/ \E vt \in VBlks : AssignByGc(b, vt))
                 \/ \E enc, lost \in SUBSET Sectors : ProgramPage(enc, lost)

FairSpec == Spec /\ WF_vars(Step)

-----------------------------------------------------------------------------
(***************************************************************************)
(* Properties.  Full blocks have their list of owners in the last page.    *)
(***************************************************************************)
Full(b) == {v \in UserArea(b) : last_page[b][v] # Erased}

\* Type invariant of write_page, garbage_collection and the tables they keep.
TypeOK ==
  /\ page_map \in [Lpns -> [blk : VBlks, pg : Pages]]
  /\ vcount \in [Banks -> [VBlks -> 0 .. PagesPerBlk - 1 \union {VC_MAX}]]
  /\ cur_write_vpn \in [Banks -> [blk : VBlks, pg : Pages]]
  /\ gc_vblock \in [Banks -> VBlks]
  /\ free_blk_cnt \in [Banks -> 2 .. VBlksPerBank]
  /\ lpn_list \in [Banks -> [Pages -> Lpns]]
  /\ nand \in [Banks -> [VBlks -> [Pages -> Content \union {Erased}]]]
  /\ last_page \in [Banks -> [VBlks -> [Pages -> Lpns] \union {Erased}]]
  /\ pc \in {"main", "read", "write", "program"}
  /\ cmd \in [lpn : Lpns, offset : Sectors, remain : 0 .. MaxSectors,
               datum : Data \union {Blank}, printBytes : BOOLEAN]
  /\ pc = "read" => cmd.remain > 0 /\ Fits(cmd, Lpns)
  /\ pc \in {"write", "program"} => cmd.remain > 0 /\ Fits(cmd, HostLpns) /\ cmd.datum \in Data

\* The owner that garbage_collection would find for page p of block v.
Owner(b, v, p) ==
  IF v = cur_write_vpn[b].blk THEN lpn_list[b][p] ELSE last_page[b][v][p]

\* The pages of the current block that were handed out and programmed: the last
\* one is not, between assign_new_write_vpn and the end of write_page.
Pending(b) == pc = "program" /\ get_num_bank(cmd.lpn) = b

Reached(b, v, p) ==
  \/ v \in Full(b)
  \/ v = cur_write_vpn[b].blk /\ p < cur_write_vpn[b].pg
  \/ v = cur_write_vpn[b].blk /\ p = cur_write_vpn[b].pg /\ ~Pending(b)

\* A mapped page lies in a data block of the bank of its logical page, holds data,
\* and the list that garbage_collection trusts names that logical page as its owner:
\* so no two logical pages share a page, and no live page is lost with a victim.
MapOwned ==
  \A l \in Lpns : page_map[l] # Null =>
    LET b == get_num_bank(l)  v == page_map[l].blk  p == page_map[l].pg
    IN  /\ v \in UserArea(b) \ {gc_vblock[b]}
        /\ Reached(b, v, p)
        /\ nand[b][v][p] # Erased
        /\ Owner(b, v, p) = l

\* The valid-page count that picks the victim is the number of logical pages that
\* map to the block (set_vcount of write_page and of garbage_collection).
VcountExact ==
  \A b \in Banks : \A v \in UserArea(b) \ {gc_vblock[b]} :
    vcount[b][v] = Cardinality({l \in LpnsOf(b) : page_map[l].blk = v})

\* The reserved block is erased, out of the victim search and not the current one;
\* the blocks out of use (bad, misc., map) are never counted as candidates.
GcReserve ==
  \A b \in Banks :
    /\ gc_vblock[b] \in UserArea(b) \ {cur_write_vpn[b].blk}
    /\ \A p \in Pages : nand[b][gc_vblock[b]][p] = Erased
    /\ last_page[b][gc_vblock[b]] = Erased
    /\ {v \in VBlks : vcount[b][v] = VC_MAX} = (VBlks \ UserArea(b)) \union {gc_vblock[b]}

\* free_blk_cnt counts the data blocks whose last page is free, the reserved one
\* included, and the write front has a next block whenever the count says so.
FreeCountExact ==
  \A b \in Banks :
    /\ free_blk_cnt[b] = Cardinality(UserArea(b) \ Full(b))
    /\ free_blk_cnt[b] > 2 => NextBlocks(b) # {}

\* The data blocks that are neither full, current nor reserved are all those ahead of
\* the write front or none at all, and what the front has not reached is erased.
WriteFront ==
  \A b \in Banks :
    LET v == cur_write_vpn[b].blk
        ahead == UserArea(b) \ (Full(b) \union {v, gc_vblock[b]})
    IN  /\ v \in UserArea(b) \ Full(b)
        /\ ahead = {} \/ ahead = {w \in UserArea(b) \ {gc_vblock[b]} : w > v}
        /\ \A w \in UserArea(b), p \in Pages :
             nand[b][w][p] # Erased => w # gc_vblock[b] /\ Reached(b, w, p)

\* The owners recorded for a bank are logical pages of that bank, or the 0 that a
\* cleared list holds; and logical page 0 is then not another bank's live page.
OwnersHere ==
  /\ \A b \in Banks : \A p \in Pages :
       LET Here(l) == l = 0 \/ (l \in Lpns /\ get_num_bank(l) = b)
       IN  /\ Here(lpn_list[b][p])
           /\ \A v \in Full(b) : Here(last_page[b][v][p])
  /\ NumBanks = 1 \/ page_map[0] = Null

\* ASSERT(free_vpn % PAGES_PER_BLK == vcount) at the end of garbage_collection:
\* as many pages were copied as the victim's count says.
GcCopiesVcount ==
  [][\A b \in Banks : gc_vblock'[b] # gc_vblock[b] =>
       cur_write_vpn'[b].pg = vcount[b][gc_vblock'[b]]]_vars

\* NAND discipline: a page is programmed only when erased and after all the pages
\* before it in its block were passed over, and an erase takes a whole block that
\* no logical page maps to afterwards.
NandDiscipline ==
  [][\A b \in Banks, v \in VBlks, p \in Pages : nand'[b][v][p] # nand[b][v][p] =>
       \/ /\ nand[b][v][p] = Erased
          /\ last_page[b][v] = Erased
          /\ \A q \in Pages : q > p => nand[b][v][q] = Erased
       \/ /\ \A q \in Pages : nand'[b][v][q] = Erased
          /\ last_page'[b][v] = Erased
          /\ \A l \in LpnsOf(b) : page_map'[l].blk # v]_vars

\* The sectors of the disk as the page map and the NAND hold them.
Disk == INSTANCE BlockDevice WITH
  NumLsectors <- NumLpages * SectorsPerPage,
  HostLbas <- {a \in Lbas : a \div SectorsPerPage \in HostLpns},
  disk <- [a \in Lbas |-> PageContent(a \div SectorsPerPage)[a % SectorsPerPage]],
  op <- CASE pc = "main" -> "idle" [] pc = "read" -> "read" [] OTHER -> "write",
  req <- IF pc = "main" THEN [lba |-> 0, left |-> 0, datum |-> Blank, crypt |-> FALSE]
         ELSE [lba |-> cmd.lpn * SectorsPerPage + cmd.offset, left |-> cmd.remain,
               datum |-> cmd.datum, crypt |-> cmd.printBytes]

\* ftl_read returns the sectors last written, whatever the allocation, the partial
\* programming and garbage collection did in between; and encryption spoils no sector
\* but those of a write of EncSectors sectors, of which BlockDevice promises less.
ImplementsDisk == Disk!DSpec

\* ftl_read and ftl_write return: every iteration of their loops finds a page.
CommandsEnd == pc # "main" ~> pc = "main"
=============================================================================
