------------------------------ MODULE FasterFTL ------------------------------
(***************************************************************************)
(* The FASTer FTL, one bank of it (a logical page belongs to one bank, and *)
(* the banks share nothing but the pace of the progressive merge).  Data   *)
(* blocks are mapped by the block; writes go to log blocks that are mapped *)
(* by the page: the sequential log block (log block 0), or one of the      *)
(* random-write log blocks, used in turn.  Garbage collection of these     *)
(* gives a valid page a second chance and moves it to the isolation blocks *)
(* the next time; full merges take pages from there back to data blocks.   *)
(*                                                                         *)
(* A host write is a chain of steps named by pc, one per function or       *)
(* decision.  The commands of a bank run in the order of their issue, so a *)
(* step's flash work is done when the step is.  A page's data is reduced   *)
(* to what it is good for: it is the last write of a logical page, or old. *)
(***************************************************************************)
EXTENDS SHashTbl, FiniteSets

CONSTANTS
  PagesPerBlk,    \* PAGES_PER_BLK
  DataBlks,       \* DATA_BLK_PER_BANK
  LogBlks,        \* LOG_BLK_PER_BANK, the sequential log block included
  IsolBlks,       \* ISOL_BLK_PER_BANK
  NumBad,         \* bad blocks of the bank: so many log blocks do not exist
  BankNo,         \* number of the bank, part of the merge interval
  OPTION_ENABLE_ASSERT,   \* TRUE: the firmware stops where an ASSERT fails
  Workloads,      \* bound: what the host may do, sequences of sets of writes
  Erased, Old, Blank, List, Spoiled   \* contents of a page, next to logical pages

Lpns  == 0 .. DataBlks * PagesPerBlk - 1
Pages == 0 .. PagesPerBlk - 1
FREE_BLK_PER_BANK == 2
RESERV_ISOL_BLK   == 2
COR_REF_THRESHOLD == 4
GC_THRESHOLD      == PagesPerBlk \div 2
ADJ_PMERGE_PERIOD == (LogBlks * PagesPerBlk) \div 8
SW_LOG_LBN        == 0
RwLogBlks == LogBlks - 1 - NumBad
Vblks     == 1 .. DataBlks + FREE_BLK_PER_BANK + IsolBlks + 1 + RwLogBlks

Request == [lpn : Lpns, whole : BOOLEAN]

ASSUME FasterAssumption ==
  /\ PagesPerBlk \in Nat /\ PagesPerBlk >= 4
  /\ {DataBlks, LogBlks, IsolBlks, RwLogBlks} \subseteq Nat \ {0} /\ IsolBlks > RESERV_ISOL_BLK
  /\ NumBad \in Nat /\ BankNo \in Nat /\ OPTION_ENABLE_ASSERT \in BOOLEAN
  /\ \A w \in Workloads : w \in Seq(SUBSET Request)
  /\ Keys = Lpns /\ ArenaSize = (LogBlks + IsolBlks) * PagesPerBlk
  /\ INVALID \notin Vblks \cup 0 .. ArenaSize - 1
  /\ Erased \notin Lpns \cup {Old, Blank, List, Spoiled}

VARIABLES
  data_bmt, log_bmt, isol_bmt, free_bmt,    \* block mapping tables; free blocks as a queue
  vc,             \* VC_BITMAP: pages whose last data is in the log area
  sc,             \* SC_BITMAP: log pages that got a second chance
  tbl,            \* log page mapping table: logical page -> log page
  sw,             \* sequential log block: offset of its last page, its data block
  corr_ref,       \* last page written, length of its run
  cur_write_rwlog_lpn, rwlog_free_blk_cnt, lpn_list_of_rwlog_blk,
  cur_write_isol_lpn, isol_free_blk_cnt, lpn_list_of_cur_isol_blk,
  cur_vt_isol_lpn, lpn_list_of_vt_isol_blk,
  pm,             \* progressive merge: before, trigger, interval, base, raise
  g_gc_flag,
  pc, req, new_log_lpn,
  flash,          \* contents of the pages
  lists,          \* the lpn list in the last page of a block
  written,        \* history: logical pages written so far
  todo            \* what is left of the workload

mapVars  == <<data_bmt, log_bmt, isol_bmt, free_bmt, vc, tbl>>
rwVars   == <<cur_write_rwlog_lpn, rwlog_free_blk_cnt, lpn_list_of_rwlog_blk, sc>>
isolVars == <<cur_write_isol_lpn, isol_free_blk_cnt, lpn_list_of_cur_isol_blk>>
vtVars   == <<cur_vt_isol_lpn, lpn_list_of_vt_isol_blk>>
nandVars == <<flash, lists>>
hostVars == <<req, written, todo>>
vars == <<mapVars, rwVars, isolVars, vtVars, nandVars, hostVars,
          sw, corr_ref, pm, g_gc_flag, pc, new_log_lpn>>

EmptySw == [off |-> -1, lbn |-> INVALID]
NoList  == [o \in Pages |-> 0]

\* format and init_metadata_sram: data, free, isolation and log blocks in this order.
Init ==
  /\ data_bmt = [l \in 0 .. DataBlks - 1 |-> 1 + l]
  /\ free_bmt = [i \in 1 .. FREE_BLK_PER_BANK |-> DataBlks + i]
  /\ isol_bmt = [l \in 0 .. IsolBlks - 1 |-> 1 + DataBlks + FREE_BLK_PER_BANK + l]
  /\ log_bmt = [l \in 0 .. LogBlks - 1 |->
       IF l > RwLogBlks THEN INVALID ELSE 1 + DataBlks + FREE_BLK_PER_BANK + IsolBlks + l]
  /\ vc = {} /\ sc = {} /\ tbl = shashtbl_init
  /\ sw = EmptySw /\ corr_ref = <<INVALID, INVALID>>
  /\ cur_write_rwlog_lpn = PagesPerBlk - 1 /\ rwlog_free_blk_cnt = RwLogBlks
  /\ cur_write_isol_lpn = -1 /\ cur_vt_isol_lpn = -1 /\ isol_free_blk_cnt = IsolBlks
  /\ lpn_list_of_rwlog_blk = NoList /\ lpn_list_of_cur_isol_blk = NoList /\ lpn_list_of_vt_isol_blk = NoList
  /\ pm = [before |-> 0, trigger |-> 0, interval |-> PagesPerBlk \div 4, base |-> PagesPerBlk \div 4, raise |-> FALSE]
  /\ g_gc_flag = FALSE /\ pc = "idle" /\ new_log_lpn = INVALID
  /\ req = [lpn |-> 0, whole |-> TRUE]
  /\ flash = [v \in Vblks |-> [p \in Pages |-> Erased]] /\ lists = [v \in Vblks |-> NoList]
  /\ written = {} /\ todo \in Workloads

-----------------------------------------------------------------------------
(***************************************************************************)
(* Addresses.  A log page number past the log blocks is a page of the      *)
(* isolation area.                                                         *)
(***************************************************************************)
get_data_lbn(lpn)    == lpn \div PagesPerBlk
get_data_offset(lpn) == lpn % PagesPerBlk
LpnsOf(lbn)          == lbn * PagesPerBlk .. (lbn + 1) * PagesPerBlk - 1
get_log_lbn(lpn)     == lpn \div PagesPerBlk
IsolBase             == LogBlks * PagesPerBlk
Wrap(isol_lpn)       == isol_lpn % (IsolBlks * PagesPerBlk)
LogPages(lbn)        == LpnsOf(lbn) \ {(lbn + 1) * PagesPerBlk - 1}

search_valid_in_log_area(lpn) == shashtbl_get(tbl, lpn)

LogPage(log_lpn) ==
  <<IF log_lpn < IsolBase THEN log_bmt[get_log_lbn(log_lpn)] ELSE isol_bmt[get_log_lbn(log_lpn) - LogBlks],
    log_lpn % PagesPerBlk>>

get_vpn(lpn) ==
  IF lpn \in vc THEN LogPage(search_valid_in_log_area(lpn))
  ELSE <<data_bmt[get_data_lbn(lpn)], get_data_offset(lpn)>>

-----------------------------------------------------------------------------
(***************************************************************************)
(* Flash commands, on the contents f.                                      *)
(***************************************************************************)
At(f, page)      == f[page[1]][page[2]]
Put(old, new)    == IF old = Erased THEN new ELSE Spoiled
BlockErased(f, v) == [f EXCEPT ![v] = [p \in Pages |-> Erased]]

\* nand_page_copyback to the pages DOMAIN src of block v; an erased page copies as 0xFF.
Copied(f, v, src) ==
  [f EXCEPT ![v] = [p \in Pages |->
     IF p \notin DOMAIN src THEN @[p]
     ELSE Put(@[p], IF At(f, src[p]) = Erased THEN Blank ELSE At(f, src[p]))]]

\* The data of a page is the last write of lpn.
IsLast(lpn, c) == IF lpn \in written THEN c = lpn ELSE c \in {Erased, Blank}

\* get_free_vbn, then ret_free_vbn of a block that was erased.
Swapped_Lost(free, vbn) == Tail(free)                             \* mutant: the erased block is not returned
Swapped(free, vbn) == Append(Tail(free), vbn)

Ascending(S) == SetToSortSeq(S, <)

-----------------------------------------------------------------------------
(***************************************************************************)
(* Host writes, and where they go: is_ok_write_to_sw_logblk.               *)
(***************************************************************************)
Sequential(lpn) == corr_ref[1] # INVALID /\ corr_ref[1] + 1 = lpn

write_to_log_block(r) ==
  /\ pc = "idle" /\ todo # <<>> /\ r \in Head(todo)
  /\ todo' = Tail(todo) /\ req' = r
  /\ g_gc_flag' = FALSE
  /\ pm' = [pm EXCEPT !.before = IF @ < ADJ_PMERGE_PERIOD THEN @ + 1 ELSE @]
  /\ IF get_data_lbn(r.lpn) = sw.lbn
     THEN IF sw.off + 1 = get_data_offset(r.lpn)
          THEN pc' = "append" /\ corr_ref' = <<r.lpn, corr_ref[2]>>
          ELSE pc' = "assign" /\ UNCHANGED corr_ref
     ELSE IF Sequential(r.lpn)
     THEN IF corr_ref[2] > COR_REF_THRESHOLD
          THEN pc' = "detect" /\ corr_ref' = <<r.lpn, corr_ref[2]>>
          ELSE pc' = "assign" /\ corr_ref' = <<r.lpn, corr_ref[2] + 1>>
     ELSE pc' = "assign" /\ corr_ref' = <<r.lpn, 1>>
  /\ UNCHANGED <<mapVars, rwVars, isolVars, vtVars, nandVars, written, sw, new_log_lpn>>

\* prepare_to_new_write, SW_APPEND
AppendToSw ==
  /\ pc = "append"
  /\ sw' = [sw EXCEPT !.off = @ + 1] /\ new_log_lpn' = sw.off + 1 /\ pc' = "program"
  /\ UNCHANGED <<mapVars, rwVars, isolVars, vtVars, nandVars, hostVars, corr_ref, pm, g_gc_flag>>

-----------------------------------------------------------------------------
(***************************************************************************)
(* partial_merge, and switch_merge when the block is full: the sequential  *)
(* log block gets what it misses and becomes the data block.  Pages that   *)
(* were written again elsewhere stay in the log area.                      *)
(***************************************************************************)
MovedHome_All(lbn) == vc \cap LpnsOf(lbn)                         \* mutant: newer copies dropped
MovedHome(lbn) == {lpn \in vc \cap LpnsOf(lbn) :
  \/ get_data_offset(lpn) > sw.off
  \/ get_log_lbn(search_valid_in_log_area(lpn)) = SW_LOG_LBN}

MergeSw ==
  LET lbn  == sw.lbn
      old  == data_bmt[lbn]
      copy == [p \in sw.off + 1 .. PagesPerBlk - 1 |-> get_vpn(lbn * PagesPerBlk + p)]
  IN  /\ flash' = BlockErased(Copied(flash, log_bmt[SW_LOG_LBN], copy), old)
      /\ tbl' = shashtbl_remove(tbl, MovedHome(lbn)) /\ vc' = vc \ MovedHome(lbn)
      /\ data_bmt' = [data_bmt EXCEPT ![lbn] = log_bmt[SW_LOG_LBN]]
      /\ log_bmt' = [log_bmt EXCEPT ![SW_LOG_LBN] = Head(free_bmt)]
      /\ free_bmt' = Swapped(free_bmt, old)
      /\ sw' = EmptySw
      /\ UNCHANGED <<isol_bmt, lists>>

\* prepare_to_new_write, SW_DETECT: the block of another stream is merged first.
MergeOtherStream ==
  /\ pc = "detect" /\ sw.lbn # INVALID
  /\ MergeSw
  /\ pc' = "copy"
  /\ UNCHANGED <<rwVars, isolVars, vtVars, hostVars, corr_ref, pm, g_gc_flag, new_log_lpn>>

NoOtherStream ==
  /\ pc = "detect" /\ sw.lbn = INVALID
  /\ pc' = "copy"
  /\ UNCHANGED <<mapVars, rwVars, isolVars, vtVars, nandVars, hostVars, sw, corr_ref, pm, g_gc_flag, new_log_lpn>>

\* Then the pages below the new one are copied to the sequential log block.
CopyPageBelow ==
  /\ pc = "copy" /\ sw.off + 1 < get_data_offset(req.lpn)
  /\ LET off == sw.off + 1
         lpn == get_data_lbn(req.lpn) * PagesPerBlk + off
     IN  /\ flash' = Copied(flash, log_bmt[SW_LOG_LBN], [p \in {off} |-> get_vpn(lpn)])
         /\ tbl' = IF lpn \in vc THEN shashtbl_update(tbl, [l \in {lpn} |-> off]) ELSE shashtbl_insert(tbl, lpn, off)
         /\ vc' = vc \cup {lpn}
         /\ sw' = [off |-> off, lbn |-> get_data_lbn(lpn)]
  /\ UNCHANGED <<data_bmt, log_bmt, isol_bmt, free_bmt, rwVars, isolVars, vtVars, lists, hostVars,
                 corr_ref, pm, g_gc_flag, pc, new_log_lpn>>

StartStream ==
  /\ pc = "copy" /\ sw.off + 1 = get_data_offset(req.lpn)
  /\ sw' = [off |-> sw.off + 1, lbn |-> get_data_lbn(req.lpn)] /\ new_log_lpn' = sw.off + 1 /\ pc' = "program"
  /\ UNCHANGED <<mapVars, rwVars, isolVars, vtVars, nandVars, hostVars, corr_ref, pm, g_gc_flag>>

-----------------------------------------------------------------------------
(***************************************************************************)
(* assign_cur_write_rwlog_lpn: the next page of the random-write log, with *)
(* garbage collection when its last block is full.                         *)
(***************************************************************************)
NextPageInRwBlk ==
  /\ pc = "assign" /\ cur_write_rwlog_lpn % PagesPerBlk # PagesPerBlk - 2
  /\ cur_write_rwlog_lpn' = cur_write_rwlog_lpn + 1
  /\ new_log_lpn' = cur_write_rwlog_lpn + 1 /\ pc' = "program"
  /\ UNCHANGED <<mapVars, rwlog_free_blk_cnt, lpn_list_of_rwlog_blk, sc, isolVars, vtVars, nandVars,
                 hostVars, sw, corr_ref, pm, g_gc_flag>>

CloseRwBlk ==
  /\ pc = "assign" /\ cur_write_rwlog_lpn % PagesPerBlk = PagesPerBlk - 2
  /\ LET vbn == log_bmt[get_log_lbn(cur_write_rwlog_lpn)]
     IN  /\ flash' = [flash EXCEPT ![vbn][PagesPerBlk - 1] = Put(@, List)]
         /\ lists' = [lists EXCEPT ![vbn] = lpn_list_of_rwlog_blk]
  /\ rwlog_free_blk_cnt' = rwlog_free_blk_cnt - 1
  /\ pc' = "gc"
  /\ UNCHANGED <<mapVars, cur_write_rwlog_lpn, lpn_list_of_rwlog_blk, sc, isolVars, vtVars,
                 hostVars, sw, corr_ref, pm, g_gc_flag, new_log_lpn>>

\* The blocks of the random-write log, in turn.
NextRwBlk(lbn) == IF lbn >= RwLogBlks THEN SW_LOG_LBN + 1 ELSE lbn + 1

AfterGc ==
  /\ pc = "gc" /\ rwlog_free_blk_cnt > 0
  /\ cur_write_rwlog_lpn' = IF cur_write_rwlog_lpn % PagesPerBlk # PagesPerBlk - 2 THEN cur_write_rwlog_lpn + 1
                            ELSE NextRwBlk(get_log_lbn(cur_write_rwlog_lpn)) * PagesPerBlk
  /\ new_log_lpn' = cur_write_rwlog_lpn' /\ pc' = "program"
  /\ UNCHANGED <<mapVars, rwlog_free_blk_cnt, lpn_list_of_rwlog_blk, sc, isolVars, vtVars, nandVars,
                 hostVars, sw, corr_ref, pm, g_gc_flag>>

-----------------------------------------------------------------------------
(***************************************************************************)
(* garbage_collection.                                                     *)
(***************************************************************************)
VtLogLbn    == NextRwBlk(get_log_lbn(cur_write_rwlog_lpn))      \* get_vt_log_lbn_for_gc
VtVbn       == log_bmt[VtLogLbn]
VtBase      == VtLogLbn * PagesPerBlk
VtLpn(o)    == lists[VtVbn][o]
ValidPages  == {o \in 0 .. PagesPerBlk - 2 : search_valid_in_log_area(VtLpn(o)) = VtBase + o}
Chanced     == {o \in ValidPages : VtBase + o \in sc}

GcNeeded == pc = "gc" /\ rwlog_free_blk_cnt = 0

\* The kept pages move together to the start of a free block, in their order.
KeptLpns(kept)  == [i \in 0 .. Cardinality(kept) - 1 |-> VtLpn(Ascending(kept)[i + 1])]
KeptPages(kept) == [i \in 0 .. Cardinality(kept) - 1 |-> <<VtVbn, Ascending(kept)[i + 1]>>]
Remapped(kept)  == shashtbl_update(tbl, [lpn \in {VtLpn(o) : o \in kept} |->
                     VtBase + (CHOOSE i \in DOMAIN KeptLpns(kept) : KeptLpns(kept)[i] = lpn)])
NewList(kept) == [o \in Pages |-> IF o \in DOMAIN KeptLpns(kept) THEN KeptLpns(kept)[o]
                                  ELSE IF o \in ValidPages \/ o = PagesPerBlk - 1 THEN VtLpn(o) ELSE INVALID]

LastKept_Next(kept) == VtBase + Cardinality(kept)                 \* mutant: off by one
LastKept(kept) == VtBase + Cardinality(kept) - 1

\* The kept pages get the second chance; the victim is swapped for the free block.
RwBlkReplaced(kept, chances) ==
  /\ flash' = BlockErased(Copied(flash, Head(free_bmt), KeptPages(kept)), VtVbn)
  /\ tbl' = Remapped(kept)
  /\ lpn_list_of_rwlog_blk' = NewList(kept)
  /\ sc' = chances \cup {VtBase + i : i \in DOMAIN KeptLpns(kept)}
  /\ log_bmt' = [log_bmt EXCEPT ![VtLogLbn] = Head(free_bmt)]
  /\ free_bmt' = Swapped(free_bmt, VtVbn)
  /\ rwlog_free_blk_cnt' = rwlog_free_blk_cnt + 1
  /\ cur_write_rwlog_lpn' = LastKept(kept)
  /\ g_gc_flag' = TRUE /\ pc' = "gc"
  /\ UNCHANGED <<data_bmt, isol_bmt, vc, isolVars, vtVars, lists, hostVars, sw, corr_ref, pm, new_log_lpn>>

set_all_scbit_None == sc                                          \* mutant: chances not noted
set_all_scbit == sc \cup LogPages(VtLogLbn)

\* All pages are valid and none had its chance: no block is freed.
GiveAllSecondChance ==
  /\ GcNeeded
  /\ Cardinality(ValidPages) = PagesPerBlk - 1 /\ Chanced = {}
  /\ sc' = set_all_scbit
  /\ lpn_list_of_rwlog_blk' = NewList({})
  /\ cur_write_rwlog_lpn' = NextRwBlk(VtLogLbn) * PagesPerBlk - 1
  /\ UNCHANGED <<mapVars, rwlog_free_blk_cnt, isolVars, vtVars, nandVars, hostVars,
                 sw, corr_ref, pm, g_gc_flag, pc, new_log_lpn>>

\* Few pages are valid: all of them get a chance, again.  When there is none the
\* second-chance bits are left as they are.
KeepFewValid ==
  /\ GcNeeded
  /\ Cardinality(ValidPages) < GC_THRESHOLD
  /\ RwBlkReplaced(ValidPages, IF ValidPages = {} THEN sc ELSE sc \ LogPages(VtLogLbn))

\* Else the pages that had their chance are cold and go to the isolation blocks, one
\* by one, and the others are kept.
SplitValid ==
  /\ GcNeeded
  /\ Cardinality(ValidPages) >= GC_THRESHOLD
  /\ ~(Cardinality(ValidPages) = PagesPerBlk - 1 /\ Chanced = {})
  /\ pc' = "split"
  /\ UNCHANGED <<mapVars, rwVars, isolVars, vtVars, nandVars, hostVars, sw, corr_ref, pm, g_gc_flag, new_log_lpn>>

\* The first page of an isolation block finds the block before it full and closes it.
NextIsolPage ==
  LET next == Wrap(cur_write_isol_lpn + 1)
  IN  IF next % PagesPerBlk = PagesPerBlk - 1 THEN Wrap(next + 1) ELSE next

Apart(isol_lpn1, isol_lpn2) == get_log_lbn(isol_lpn1) # get_log_lbn(isol_lpn2)

MigrationAsserted ==
  /\ isol_free_blk_cnt > 0
  /\ \A page \in {Wrap(cur_write_isol_lpn + 1), NextIsolPage} : Apart(page, cur_vt_isol_lpn)

MigrateColdPage ==
  LET o    == Ascending(Chanced)[1]
      next == Wrap(cur_write_isol_lpn + 1)
      cur  == NextIsolPage
      full == cur # next
      old  == isol_bmt[get_log_lbn(next)]
      f    == IF full THEN [flash EXCEPT ![old][PagesPerBlk - 1] = Put(@, List)] ELSE flash
  IN  /\ pc = "split" /\ Chanced # {}
      /\ OPTION_ENABLE_ASSERT => MigrationAsserted
      /\ cur_write_isol_lpn' = cur
      /\ isol_free_blk_cnt' = IF full THEN isol_free_blk_cnt - 1 ELSE isol_free_blk_cnt
      /\ lists' = IF full THEN [lists EXCEPT ![old] = lpn_list_of_cur_isol_blk] ELSE lists
      /\ lpn_list_of_cur_isol_blk' = [lpn_list_of_cur_isol_blk EXCEPT ![cur % PagesPerBlk] = VtLpn(o)]
      /\ tbl' = shashtbl_update(tbl, [lpn \in {VtLpn(o)} |-> IsolBase + cur])
      /\ flash' = Copied(f, isol_bmt[get_log_lbn(cur)], [p \in {cur % PagesPerBlk} |-> <<VtVbn, o>>])
      /\ UNCHANGED <<data_bmt, log_bmt, isol_bmt, free_bmt, vc, rwVars, vtVars, hostVars,
                     sw, corr_ref, pm, g_gc_flag, pc, new_log_lpn>>

KeepWarmPages ==
  /\ pc = "split" /\ Chanced = {}
  /\ RwBlkReplaced(ValidPages, sc \ LogPages(VtLogLbn))

-----------------------------------------------------------------------------
(***************************************************************************)
(* write_to_log_block: the old copy is unmapped, the page programmed.  The *)
(* holes of a partial write are read from the old copy.                    *)
(***************************************************************************)
Program ==
  /\ pc = "program"
  /\ LET lpn  == req.lpn
         data == IF req.whole \/ IsLast(lpn, At(flash, get_vpn(lpn))) THEN lpn ELSE Old
         aged == [v \in Vblks |-> [p \in Pages |-> IF flash[v][p] = lpn THEN Old ELSE flash[v][p]]]
         dst  == LogPage(new_log_lpn)
     IN  /\ flash' = [aged EXCEPT ![dst[1]][dst[2]] = Put(@, data)]
         /\ tbl' = shashtbl_insert(IF lpn \in vc THEN shashtbl_remove(tbl, {lpn}) ELSE tbl, lpn, new_log_lpn)
         /\ vc' = vc \cup {lpn} /\ written' = written \cup {lpn}
         /\ lpn_list_of_rwlog_blk' = IF get_log_lbn(new_log_lpn) = SW_LOG_LBN THEN lpn_list_of_rwlog_blk
                                     ELSE [lpn_list_of_rwlog_blk EXCEPT ![new_log_lpn % PagesPerBlk] = lpn]
  /\ pc' = IF sw.off = PagesPerBlk - 1 THEN "switch" ELSE "merge"
  /\ UNCHANGED <<data_bmt, log_bmt, isol_bmt, free_bmt, cur_write_rwlog_lpn, rwlog_free_blk_cnt, sc, isolVars,
                 vtVars, lists, req, todo, sw, corr_ref, pm, g_gc_flag, new_log_lpn>>

SwitchMerge ==
  /\ pc = "switch"
  /\ MergeSw
  /\ g_gc_flag' = TRUE /\ pc' = "tune"
  /\ UNCHANGED <<rwVars, isolVars, vtVars, hostVars, corr_ref, pm, new_log_lpn>>

\* The progressive merge: at every write when few isolation blocks are free, else at
\* an interval.  What the caller does after full_merge is done here, it reads none of it.
DecideMerge ==
  LET full  == isol_free_blk_cnt <= RESERV_ISOL_BLK
      count == isol_free_blk_cnt < IsolBlks - 1 /\ get_log_lbn(new_log_lpn) # SW_LOG_LBN
      due   == pm.trigger + 1 >= (pm.interval + BankNo) * 2
  IN  /\ pc = "merge"
      /\ \/ ~g_gc_flag /\ full /\ pm' = [pm EXCEPT !.raise = TRUE] /\ pc' = "full"
         \/ ~g_gc_flag /\ ~full /\ count /\ due /\ pm' = [pm EXCEPT !.trigger = 0] /\ pc' = "full"
         \/ ~g_gc_flag /\ ~full /\ count /\ ~due /\ pm' = [pm EXCEPT !.trigger = @ + 1] /\ pc' = "tune"
         \/ (g_gc_flag \/ (~full /\ ~count)) /\ pc' = "tune" /\ UNCHANGED pm
      /\ UNCHANGED <<mapVars, rwVars, isolVars, vtVars, nandVars, hostVars, sw, corr_ref, g_gc_flag, new_log_lpn>>

\* Self-tuning of the merge interval.
Tune ==
  LET base1 == IF pm.base < 2 THEN PagesPerBlk \div 4 ELSE pm.base
      base2 == IF base1 > 1 THEN base1 - 1 ELSE base1
  IN  /\ pc = "tune"
      /\ pm' = IF ~(pm.before >= ADJ_PMERGE_PERIOD /\ isol_free_blk_cnt < IsolBlks) THEN pm
               ELSE IF isol_free_blk_cnt > IsolBlks - 2
               THEN [pm EXCEPT !.before = 0, !.base = base1, !.interval = @ + 1]
               ELSE IF pm.raise
               THEN [pm EXCEPT !.before = 0, !.base = base2, !.interval = base2, !.raise = FALSE]
               ELSE [pm EXCEPT !.before = 0, !.base = base1]
      /\ pc' = "idle"
      /\ UNCHANGED <<mapVars, rwVars, isolVars, vtVars, nandVars, hostVars, sw, corr_ref, g_gc_flag, new_log_lpn>>

-----------------------------------------------------------------------------
(***************************************************************************)
(* full_merge: the next valid page of the oldest isolation block, and all  *)
(* pages of its data block with it.                                        *)
(***************************************************************************)
LastOfIsolBlk(isol_lpn) == isol_lpn % PagesPerBlk = PagesPerBlk - 2

dec_full_isol_blk_cnt_None == isol_free_blk_cnt                   \* mutant: forgotten
dec_full_isol_blk_cnt == isol_free_blk_cnt + 1

\* An isolation block that has no valid page left, given up for a free one.
IsolBlkFreed(v, f, free) ==
  LET lbn == get_log_lbn(v)
  IN  /\ isol_bmt' = [isol_bmt EXCEPT ![lbn] = Head(free)]
      /\ free_bmt' = Swapped(free, isol_bmt[lbn])
      /\ flash' = BlockErased(f, isol_bmt[lbn])
      /\ isol_free_blk_cnt' = dec_full_isol_blk_cnt
      /\ cur_vt_isol_lpn' = Wrap(v + 1)

VictimAsserted ==
  LET v == Wrap(cur_vt_isol_lpn + 1)
  IN  Apart(cur_write_isol_lpn, v) /\ v % PagesPerBlk # PagesPerBlk - 1

NextVictim ==
  LET v     == Wrap(cur_vt_isol_lpn + 1)
      list  == IF v % PagesPerBlk = 0 THEN lists[isol_bmt[get_log_lbn(v)]] ELSE lpn_list_of_vt_isol_blk
      valid == search_valid_in_log_area(list[v % PagesPerBlk]) = IsolBase + v
  IN  /\ pc = "full"
      /\ OPTION_ENABLE_ASSERT => VictimAsserted
      /\ lpn_list_of_vt_isol_blk' = list
      /\ IF ~valid /\ LastOfIsolBlk(v)
         THEN /\ IsolBlkFreed(v, flash, free_bmt)
              /\ pc' = "tune"
         ELSE /\ cur_vt_isol_lpn' = v
              /\ pc' = IF valid THEN "victim" ELSE "full"
              /\ UNCHANGED <<isol_bmt, free_bmt, flash, isol_free_blk_cnt>>
      /\ UNCHANGED <<data_bmt, log_bmt, vc, tbl, rwVars, cur_write_isol_lpn, lpn_list_of_cur_isol_blk, lists,
                     hostVars, sw, corr_ref, pm, g_gc_flag, new_log_lpn>>

VtDataLpn == lpn_list_of_vt_isol_blk[cur_vt_isol_lpn % PagesPerBlk]

\* The data block has a sequential log block: that is merged first, and may settle it.
MergeStreamOfVictim ==
  /\ pc = "victim" /\ get_data_lbn(VtDataLpn) = sw.lbn
  /\ MergeSw
  /\ pc' = IF shashtbl_get(tbl', VtDataLpn) # IsolBase + cur_vt_isol_lpn THEN "tune" ELSE "victim"
  /\ UNCHANGED <<rwVars, isolVars, vtVars, hostVars, corr_ref, pm, g_gc_flag, new_log_lpn>>

FullMerge ==
  LET lbn  == get_data_lbn(VtDataLpn)
      lpns == LpnsOf(lbn) \cap vc
      old  == data_bmt[lbn]
      f    == BlockErased(Copied(flash, Head(free_bmt), [p \in Pages |-> get_vpn(lbn * PagesPerBlk + p)]), old)
      free == Swapped(free_bmt, old)
  IN  /\ pc = "victim" /\ lbn # sw.lbn
      /\ tbl' = shashtbl_remove(tbl, lpns) /\ vc' = vc \ lpns
      /\ data_bmt' = [data_bmt EXCEPT ![lbn] = Head(free_bmt)]
      /\ IF LastOfIsolBlk(cur_vt_isol_lpn)
         THEN IsolBlkFreed(cur_vt_isol_lpn, f, free)
         ELSE /\ flash' = f /\ free_bmt' = free
              /\ UNCHANGED <<isol_bmt, isol_free_blk_cnt, cur_vt_isol_lpn>>
      /\ pc' = "tune"
      /\ UNCHANGED <<log_bmt, rwVars, cur_write_isol_lpn, lpn_list_of_cur_isol_blk, lpn_list_of_vt_isol_blk, lists,
                     hostVars, sw, corr_ref, pm, g_gc_flag, new_log_lpn>>

\* A firmware built with assertions stops before it migrates a page into the block that
\* is merged, or merges past the pages of a block.
StopAtAssert ==
  /\ OPTION_ENABLE_ASSERT
  /\ \/ pc = "split" /\ Chanced # {} /\ ~MigrationAsserted
     \/ pc = "full" /\ ~VictimAsserted
  /\ pc' = "assert"
  /\ UNCHANGED <<mapVars, rwVars, isolVars, vtVars, nandVars, hostVars, sw, corr_ref, pm, g_gc_flag, new_log_lpn>>

-----------------------------------------------------------------------------
Ftl ==
  \/ AppendToSw \/ MergeOtherStream \/ NoOtherStream \/ CopyPageBelow \/ StartStream
  \/ NextPageInRwBlk \/ CloseRwBlk \/ AfterGc
  \/ GiveAllSecondChance \/ KeepFewValid \/ SplitValid \/ MigrateColdPage \/ KeepWarmPages
  \/ Program \/ SwitchMerge \/ DecideMerge \/ Tune
  \/ NextVictim \/ MergeStreamOfVictim \/ FullMerge \/ StopAtAssert

Next == (\E r \in Request : write_to_log_block(r)) \/ Ftl

\* The firmware goes on with what it has begun; the host need not send anything.
Spec == Init /\ [][Next]_vars /\ WF_vars(Ftl)

-----------------------------------------------------------------------------
(***************************************************************************)
(* Properties.                                                             *)
(***************************************************************************)
\* Every logical page is read from the page that holds its last write, or was never
\* written: through partial, switch and full merges, second chances and migrations,
\* each of which moves pages that other log blocks may hold newer copies of (get_vpn,
\* ftl_faster/ftl.c:1075), as long as no assertion has failed.
ReadsLastWrite == \A lpn \in Lpns : IsLast(lpn, At(flash, get_vpn(lpn)))

\* The bitmap and the table agree: a page's bit is set exactly if the table has it
\* (the assertions on shashtbl_get, ftl_faster/ftl.c:1109, 1477, 1590), no two pages
\* have the same log page, and the chains and the pool hold every node once.
TableAgrees ==
  /\ WellFormed(tbl)
  /\ vc = {lpn \in Lpns : search_valid_in_log_area(lpn) # INVALID}
  /\ \A l1, l2 \in vc : search_valid_in_log_area(l1) = search_valid_in_log_area(l2) => l1 = l2

\* No block is lost, none has two uses: data, log, isolation and free blocks are all
\* the good blocks, each once (the swaps with the two free blocks in every merge,
\* ftl_faster/ftl.c:1799-1818).  Free blocks are erased.
Tables == <<data_bmt, log_bmt, isol_bmt, free_bmt>>
BlocksApart ==
  /\ Len(free_bmt) = FREE_BLK_PER_BANK
  /\ (UNION {{t[i] : i \in DOMAIN t} : t \in {Tables[j] : j \in 1 .. 4}}) \ {INVALID} = Vblks
  /\ \A j, k \in 1 .. 4 : \A a \in DOMAIN Tables[j], b \in DOMAIN Tables[k] :
       Tables[j][a] = Tables[k][b] => Tables[j][a] = INVALID \/ (j = k /\ a = b)
  /\ \A i \in DOMAIN free_bmt : \A p \in Pages : flash[free_bmt[i]][p] = Erased

\* The flash rule: a page is programmed once after an erase, in ascending order of
\* the log and isolation blocks' pages (the cursors that garbage collection sets back,
\* ftl_faster/ftl.c:1792, are the pages last programmed).
NandRule ==
  \A v \in Vblks :
    /\ \A p \in Pages : flash[v][p] # Spoiled
    /\ \A p \in Pages \ {0} : flash[v][p] # Erased => flash[v][p-1] # Erased

\* The block counters are what the flash says, through the blocks that garbage
\* collection swaps, the isolation blocks that migration closes and those that the two
\* ends of full_merge give up (ftl_faster/ftl.c:1132, 1531, 1607, 1756, 1789): they
\* alone decide when blocks are collected and merged.
Closed(bmt, lbns) == {l \in lbns : flash[bmt[l]][PagesPerBlk - 1] # Erased}
CountsExact ==
  /\ rwlog_free_blk_cnt = RwLogBlks - Cardinality(Closed(log_bmt, 1 .. RwLogBlks))
  /\ isol_free_blk_cnt = IsolBlks - Cardinality(Closed(isol_bmt, DOMAIN isol_bmt))

\* A write comes to its end: garbage collection that frees no block because all pages
\* get their second chance frees one in the end (the loop at ftl_faster/ftl.c:1135),
\* and full_merge finds a page or a block to give up (the loop at 1506), or stops.
WriteEnds == pc # "idle" ~> pc \in {"idle", "assert"}
=============================================================================
