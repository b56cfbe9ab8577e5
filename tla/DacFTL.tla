-------------------------------- MODULE DacFTL --------------------------------
(***************************************************************************)
(* The DAC FTL, one bank of it: page mapping, where data is sorted into    *)
(* regions by how often it is written.  A page that is written again is    *)
(* promoted by a region, one that garbage collection copies is demoted.    *)
(* Every region has an active block, whose valid pages are counted in SRAM *)
(* until its lpn list is written to its last page.                         *)
(*                                                                         *)
(* A host write is a chain of steps named by pc.  The commands of a bank   *)
(* run in the order of their issue, so a step's flash work is done when    *)
(* the step is.  A page's data is reduced to what it is good for: it is    *)
(* the last write of a logical page, or old.                               *)
(*                                                                         *)
(* Logical pages are striped over the banks, so logical page 0 belongs to  *)
(* bank 0.  The page map is one for all banks, and an unused entry of an   *)
(* lpn list reads 0: garbage collection of any bank looks logical page 0   *)
(* up, which for a bank other than 0 is a page of bank 0.                  *)
(***************************************************************************)
EXTENDS Integers, Sequences, FiniteSets

CONSTANTS
  PagesPerBlk,    \* PAGES_PER_BLK
  META_BLKS_PER_BANK, VBLKS_PER_BANK,
  BadBlks,        \* the bad ones
  NumRegion,      \* NUM_REGION
  Lpns,           \* logical pages of the bank, 0 among them in bank 0 only
  ZeroVpns,       \* bound: where bank 0 may have logical page 0, if this is another bank
  Workloads,      \* bound: what the host may do, sequences of sets of writes
  VC_FREE, VC_MAX, VC_ACTIVE,   \* counts with a NOT_FOR_VICTIM bit
  INVALID16,
  Erased, Old, List, Spoiled    \* contents of a page, next to logical pages

Mapped  == Lpns \cup {0}           \* what the lists of the bank can name
Pages   == 0 .. PagesPerBlk - 1
Regions == 0 .. NumRegion - 1
LastDataPage == PagesPerBlk - 2
NotForVictim == {VC_FREE, VC_MAX, VC_ACTIVE}
Vblks    == META_BLKS_PER_BANK .. VBLKS_PER_BANK - 1
Good     == Vblks \ BadBlks
Nth(i)   == CHOOSE v \in Good : Cardinality({w \in Good : w < v}) = i
Request  == [lpn : Lpns, whole : BOOLEAN]
Null     == <<0, 0>>

ASSUME DacAssumption ==
  /\ PagesPerBlk \in Nat /\ PagesPerBlk >= 3
  /\ NumRegion \in Nat \ {0} 
  /\ Lpns \subseteq Nat /\ IsFiniteSet(Lpns)
  /\ ZeroVpns \subseteq Vblks \X (0 .. LastDataPage)
  /\ META_BLKS_PER_BANK \in Nat \ {0} /\ VBLKS_PER_BANK \in Nat
  /\ BadBlks \subseteq Vblks /\ Cardinality(Good) > NumRegion + 1
  /\ \A w \in Workloads : w \in Seq(SUBSET Request)
  /\ \A c \in NotForVictim : c \notin Nat
  /\ VC_FREE # VC_MAX /\ VC_FREE # VC_ACTIVE /\ VC_MAX # VC_ACTIVE
  /\ \A c \in {Erased, Old, List, Spoiled} : c \notin Lpns
  /\ Erased \notin {Old, List} /\ Spoiled \notin {Erased, Old, List}

VARIABLES
  page_map,       \* PAGE_MAP: block and page of a logical page, 0 always included
  vcount,         \* VCOUNT
  region,         \* VBLK_REGION
  age, global_age,
  cur_write_vpn, lpn_list, vcount_of_active,   \* of every region
  gc_vblock, free_blk_cnt,
  pc, req, data,  \* where the firmware stands, the page to be written, what it gets
  new_region, vblock,   \* its region, the block of that region that was closed for it
  vt,             \* victim of garbage collection
  flash, lists,   \* contents of the pages, and of the lpn lists in the last ones
  written,        \* history: logical pages written so far
  todo            \* what is left of the workload

regVars  == <<cur_write_vpn, lpn_list, vcount_of_active>>
blkVars  == <<vcount, region, age, gc_vblock, free_blk_cnt>>
nandVars == <<flash, lists>>
reqVars  == <<req, data, new_region>>
hostVars == <<written, todo>>
vars == <<page_map, regVars, blkVars, nandVars, reqVars, hostVars, global_age, vblock, vt, pc>>

NoList == [p \in Pages |-> 0]

\* init_metadata_sram: the first good block for garbage collection, then one for every
\* region; page 0 of these counts as written.
Init ==
  /\ page_map = [l \in Mapped |-> Null]
  /\ vcount = [v \in Vblks |-> IF v \in BadBlks \cup {Nth(0)} THEN VC_MAX
                               ELSE IF v <= Nth(NumRegion) THEN VC_ACTIVE ELSE VC_FREE]
  /\ region = [v \in Vblks |-> IF v = Nth(0) THEN INVALID16
                               ELSE IF \E r \in Regions : v = Nth(r + 1)
                               THEN CHOOSE r \in Regions : v = Nth(r + 1) ELSE 0]
  /\ age = [v \in Vblks |-> 0] /\ global_age = 0
  /\ cur_write_vpn = [r \in Regions |-> <<Nth(r + 1), 0>>]
  /\ lpn_list = [r \in Regions |-> NoList] /\ vcount_of_active = [r \in Regions |-> 0]
  /\ gc_vblock = Nth(0) /\ free_blk_cnt = Cardinality(Good)
  /\ pc = "idle" /\ req = [lpn |-> CHOOSE l \in Lpns : TRUE, whole |-> TRUE] /\ data = Old /\ new_region = 0
  /\ vblock = Nth(0) /\ vt = Nth(0)
  /\ flash = [v \in Vblks |-> [p \in Pages |-> Erased]] /\ lists = [v \in Vblks |-> NoList]
  /\ written = {} /\ todo \in Workloads

-----------------------------------------------------------------------------
At(vpn)          == flash[vpn[1]][vpn[2]]
Put(old, new)    == IF old = Erased THEN new ELSE Spoiled
Program(f, vpn, d) == [f EXCEPT ![vpn[1]][vpn[2]] = Put(@, d)]
BlockErased(f, v) == [f EXCEPT ![v] = [p \in Pages |-> Erased]]

IsActive(v) == \E r \in Regions : cur_write_vpn[r][1] = v
Full(vpn)   == vpn[2] = LastDataPage

\* The page after the last one written; past the end of a block it is in the next block.
inc_cur_write_vpn(vpn) == IF vpn[2] = PagesPerBlk - 1 THEN <<vpn[1] + 1, 0>> ELSE <<vpn[1], vpn[2] + 1>>

is_full_all_blks == free_blk_cnt <= NumRegion

(***************************************************************************)
(* write_page, up to the assignment of a page: the holes of a partial      *)
(* write are read from the old page, which is then not counted any more.   *)
(***************************************************************************)
Promoted(r) == IF r < NumRegion - 1 THEN r + 1 ELSE r

\* The region whose counter an old page in an active block leaves.
CountedIn_New(r) == Promoted(r)                                   \* mutant
CountedIn(r) == r

write_page(r) ==
  LET old     == page_map[r.lpn]
      old_reg == region[old[1]]
  IN  /\ pc = "idle" /\ todo # <<>> /\ r \in Head(todo)
      /\ todo' = Tail(todo) /\ req' = r
      /\ data' = IF old = Null \/ r.whole \/ At(old) = r.lpn THEN r.lpn ELSE Old
      /\ IF old = Null
         THEN new_region' = 0 /\ UNCHANGED <<vcount, vcount_of_active>>
         ELSE /\ new_region' = Promoted(old_reg)
              /\ IF old[1] = cur_write_vpn[old_reg][1]
                 THEN vcount_of_active' = [vcount_of_active EXCEPT ![CountedIn(old_reg)] = @ - 1] /\ UNCHANGED vcount
                 ELSE vcount' = [vcount EXCEPT ![old[1]] = @ - 1] /\ UNCHANGED vcount_of_active
      /\ pc' = "assign"
      /\ UNCHANGED <<page_map, cur_write_vpn, lpn_list, region, age, gc_vblock, free_blk_cnt, nandVars,
                     written, global_age, vblock, vt>>

-----------------------------------------------------------------------------
(***************************************************************************)
(* assign_new_write_vpn.                                                   *)
(***************************************************************************)
\* The active block of a region is full: its list is written, its count and age kept.
BlockClosed(r) ==
  LET v == cur_write_vpn[r][1]
  IN  /\ flash' = Program(flash, <<v, PagesPerBlk - 1>>, List)
      /\ lists' = [lists EXCEPT ![v] = lpn_list[r]]
      /\ age' = [age EXCEPT ![v] = global_age]
      /\ free_blk_cnt' = free_blk_cnt - 1

NextPageInBlk ==
  /\ pc = "assign" /\ ~Full(cur_write_vpn[new_region])
  /\ cur_write_vpn' = [cur_write_vpn EXCEPT ![new_region] = inc_cur_write_vpn(@)]
  /\ pc' = "program"
  /\ UNCHANGED <<page_map, lpn_list, vcount_of_active, blkVars, nandVars, reqVars, hostVars, global_age, vblock, vt>>

CloseBlk ==
  LET v == cur_write_vpn[new_region][1]
  IN  /\ pc = "assign" /\ Full(cur_write_vpn[new_region])
      /\ BlockClosed(new_region)
      /\ lpn_list' = [lpn_list EXCEPT ![new_region] = NoList]
      /\ vcount' = [vcount EXCEPT ![v] = vcount_of_active[new_region]]
      /\ vcount_of_active' = [vcount_of_active EXCEPT ![new_region] = 0]
      /\ vblock' = v /\ pc' = "gc"
      /\ UNCHANGED <<page_map, cur_write_vpn, region, gc_vblock, reqVars, hostVars, global_age, vt>>

\* Garbage collection has given the region another active block.
NextPageAfterGc ==
  /\ pc = "gc" /\ ~is_full_all_blks /\ ~Full(cur_write_vpn[new_region])
  /\ cur_write_vpn' = [cur_write_vpn EXCEPT ![new_region] = inc_cur_write_vpn(@)]
  /\ pc' = "program"
  /\ UNCHANGED <<page_map, lpn_list, vcount_of_active, blkVars, nandVars, reqVars, hostVars, global_age, vblock, vt>>

\* The next free block after the one that was closed, which is the last to be looked
\* at.  Without a free block the search never ends: no step.
Distance(v, w) == IF w > v THEN w - v ELSE Cardinality(Vblks) + w - v
FreeBlks_NotMax == {v \in Vblks : vcount[v] # VC_MAX}             \* mutant
FreeBlks == {v \in Vblks : vcount[v] = VC_FREE}
NextFree == CHOOSE v \in FreeBlks : \A w \in FreeBlks : Distance(vblock, v) <= Distance(vblock, w)

SearchEnds == pc = "gc" /\ ~is_full_all_blks /\ Full(cur_write_vpn[new_region]) /\ FreeBlks # {}

TakesClosedBlk == SearchEnds /\ NextFree = vblock

NextFreeBlk ==
  /\ SearchEnds /\ ~TakesClosedBlk
  /\ region' = [region EXCEPT ![NextFree] = new_region]
  /\ vcount' = [vcount EXCEPT ![NextFree] = VC_ACTIVE]
  /\ vcount_of_active' = [vcount_of_active EXCEPT ![new_region] = 0]
  /\ cur_write_vpn' = [cur_write_vpn EXCEPT ![new_region] = <<NextFree, 0>>]
  /\ pc' = "program"
  /\ UNCHANGED <<page_map, lpn_list, age, gc_vblock, free_blk_cnt, nandVars, reqVars, hostVars,
                 global_age, vblock, vt>>

-----------------------------------------------------------------------------
(***************************************************************************)
(* garbage_collection, with get_vt_vblock_by_cost_benefit: the first block *)
(* without valid pages, else the first one of the highest cost.            *)
(***************************************************************************)
Candidates == {v \in Vblks : vcount[v] \notin NotForVictim}
Empty      == {v \in Candidates : vcount[v] = 0}
Least(S)   == CHOOSE v \in S : \A w \in S : v <= w
Cost(v)    == ((global_age - age[v]) * (PagesPerBlk - vcount[v])) \div (2 * vcount[v])

Victim ==
  IF Empty # {} THEN Least(Empty)
  ELSE LET worth == {v \in Candidates : Cost(v) > 0 /\ \A w \in Candidates : Cost(w) <= Cost(v)}
       IN  IF worth # {} THEN Least(worth) ELSE META_BLKS_PER_BANK

GcNeeded == pc = "gc" /\ is_full_all_blks

EraseEmptyVictim ==
  /\ GcNeeded /\ vcount[Victim] = 0
  /\ flash' = BlockErased(flash, Victim)
  /\ region' = [region EXCEPT ![Victim] = INVALID16]
  /\ vcount' = [vcount EXCEPT ![Victim] = VC_FREE]
  /\ free_blk_cnt' = free_blk_cnt + 1
  /\ UNCHANGED <<page_map, regVars, age, gc_vblock, lists, reqVars, hostVars, global_age, vblock, vt, pc>>

\* When no cost is above 0 the first block is taken though it may be no candidate, and
\* an assertion fails: no step.
SelectVictim ==
  /\ GcNeeded /\ Victim \in Candidates \ Empty
  /\ vt' = Victim /\ pc' = "copy"
  /\ UNCHANGED <<page_map, regVars, blkVars, nandVars, reqVars, hostVars, global_age, vblock>>

\* Whose page it is, is not asked: an unused entry is looked up like any other, and
\* only block and page are compared, not the bank.
LivePages_NotLast == {p \in 0 .. LastDataPage - 1 : page_map[lists[vt][p]] = <<vt, p>>} \* mutant
LivePages == {p \in 0 .. LastDataPage : page_map[lists[vt][p]] = <<vt, p>>}

Demoted(r) == IF r > 0 THEN r - 1 ELSE 0

\* A valid page goes to the region below.  When the active block there is full it is
\* closed, if it was not yet, and the block kept for garbage collection takes its place.
CopyPage ==
  LET p    == Least(LivePages)
      lpn  == lists[vt][p]
      r    == Demoted(region[vt])
      v    == cur_write_vpn[r][1]
      full == Full(cur_write_vpn[r])
      open == full /\ vcount[v] = VC_ACTIVE
      dst  == IF full THEN <<gc_vblock, 0>> ELSE inc_cur_write_vpn(cur_write_vpn[r])
      f    == IF open THEN Program(flash, <<v, PagesPerBlk - 1>>, List) ELSE flash
  IN  /\ pc = "copy" /\ LivePages # {}
      /\ flash' = Program(f, dst, At(<<vt, p>>))
      /\ lists' = IF open THEN [lists EXCEPT ![v] = lpn_list[r]] ELSE lists
      /\ age' = IF open THEN [age EXCEPT ![v] = global_age] ELSE age
      /\ free_blk_cnt' = IF open THEN free_blk_cnt - 1 ELSE free_blk_cnt
      /\ vcount' = [w \in Vblks |-> IF full /\ w = gc_vblock THEN VC_ACTIVE
                                    ELSE IF open /\ w = v THEN vcount_of_active[r] ELSE vcount[w]]
      /\ region' = IF full THEN [region EXCEPT ![gc_vblock] = r] ELSE region
      /\ cur_write_vpn' = [cur_write_vpn EXCEPT ![r] = dst]
      /\ lpn_list' = [lpn_list EXCEPT ![r] = [IF open THEN NoList ELSE @ EXCEPT ![dst[2]] = lpn]]
      /\ vcount_of_active' = [vcount_of_active EXCEPT ![r] = (IF open THEN 0 ELSE @) + 1]
      /\ page_map' = [page_map EXCEPT ![lpn] = dst]
      /\ UNCHANGED <<gc_vblock, reqVars, hostVars, global_age, vblock, vt, pc>>

GcBlkUsed_Always == TRUE                                          \* mutant
GcBlkUsed == vcount[gc_vblock] = VC_ACTIVE

\* The victim is erased; it is kept for garbage collection if that block was used up.
EraseVictim ==
  /\ pc = "copy" /\ LivePages = {}
  /\ flash' = BlockErased(flash, vt)
  /\ region' = [region EXCEPT ![vt] = INVALID16]
  /\ IF GcBlkUsed
     THEN gc_vblock' = vt /\ vcount' = [vcount EXCEPT ![vt] = VC_MAX]
     ELSE vcount' = [vcount EXCEPT ![vt] = VC_FREE] /\ UNCHANGED gc_vblock
  /\ free_blk_cnt' = free_blk_cnt + 1
  /\ pc' = "gc"
  /\ UNCHANGED <<page_map, regVars, age, lists, reqVars, hostVars, global_age, vblock, vt>>

-----------------------------------------------------------------------------
\* The end of write_page.
ProgramPage ==
  LET dst  == cur_write_vpn[new_region]
      aged == [v \in Vblks |-> [p \in Pages |-> IF flash[v][p] = req.lpn THEN Old ELSE flash[v][p]]]
  IN  /\ pc = "program"
      /\ flash' = Program(aged, dst, data)
      /\ page_map' = [page_map EXCEPT ![req.lpn] = dst]
      /\ lpn_list' = [lpn_list EXCEPT ![new_region][dst[2]] = req.lpn]
      /\ vcount_of_active' = [vcount_of_active EXCEPT ![new_region] = @ + 1]
      /\ global_age' = global_age + 1 /\ written' = written \cup {req.lpn}
      /\ pc' = "idle"
      /\ UNCHANGED <<cur_write_vpn, blkVars, lists, reqVars, todo, vblock, vt>>

\* A firmware built with assertions stops where the search ends at the closed block
\* itself, whose last page is then taken for the next one (ftl_dac/ftl.c:1157, 1159).
StopAtAssert ==
  /\ TakesClosedBlk
  /\ pc' = "assert"
  /\ UNCHANGED <<page_map, regVars, blkVars, nandVars, reqVars, hostVars, global_age, vblock, vt>>

\* Between two commands of this bank, bank 0 may have written logical page 0 or moved it.
PageZeroMoved ==
  /\ pc = "idle" /\ 0 \notin Lpns
  /\ \E vpn \in ZeroVpns : page_map' = [page_map EXCEPT ![0] = vpn]
  /\ UNCHANGED <<regVars, blkVars, nandVars, reqVars, hostVars, global_age, vblock, vt, pc>>

-----------------------------------------------------------------------------
Ftl ==
  \/ NextPageInBlk \/ CloseBlk \/ NextPageAfterGc \/ NextFreeBlk
  \/ EraseEmptyVictim \/ SelectVictim \/ CopyPage \/ EraseVictim \/ ProgramPage \/ StopAtAssert

Next == (\E r \in Request : write_page(r)) \/ Ftl \/ PageZeroMoved

\* The firmware goes on with what it has begun; the host need not send anything.
Spec == Init /\ [][Next]_vars /\ WF_vars(Ftl)

-----------------------------------------------------------------------------
(***************************************************************************)
(* Properties.                                                             *)
(***************************************************************************)
\* The page that is being written: its old copy is not needed any more, and may be
\* erased while garbage collection makes room for the new one.
Pending == IF pc = "idle" THEN {} ELSE {req.lpn}

\* Every other page is mapped to its last write, while garbage collection copies pages
\* to active blocks of other regions and erases blocks by their counts (page map and
\* erasure, ftl_dac/ftl.c:1222, 1254, 1305, 1314).
OwnPagesKept == \A lpn \in written \ Pending : At(page_map[lpn]) = lpn

\* A bank other than 0 leaves logical page 0 where bank 0 put it.  The code keeps this
\* only as long as that is in none of FirstPages: an unused entry of a list, which the
\* first pages of the regions' first blocks have, then passes for a valid page, and the
\* collector maps bank 0's page to a page of this bank that holds nothing (1249-1254, 1305).
FirstPages == {<<Nth(r + 1), 0>> : r \in Regions}
PageZeroKept == 0 \in Lpns \/ page_map[0] \in ZeroVpns \cup {Null}

\* No write is lost, of this bank or of bank 0, by what garbage collection takes for the
\* valid pages of a block.
ReadsLastWrite == OwnPagesKept /\ PageZeroKept

\* The count of a block is at least the number of its valid pages: a block is erased
\* unseen when its count is 0 (ftl_dac/ftl.c:1222).  It may be more: garbage collection
\* also counts the old copy of the page that is being written, which write_page has
\* taken off its block's count before (991-999).  It stays in the range that the
\* assertions give it (993, 998, 1008).
LiveIn(v) == {lpn \in Lpns \ Pending : page_map[lpn] # Null /\ page_map[lpn][1] = v}
CountOf(v) == IF vcount[v] # VC_ACTIVE THEN vcount[v]
              ELSE vcount_of_active[CHOOSE r \in Regions : cur_write_vpn[r][1] = v]
CountsCoverLive ==
  \A v \in Vblks :
    IF vcount[v] \in {VC_FREE, VC_MAX} THEN LiveIn(v) = {}
    ELSE Cardinality(LiveIn(v)) <= CountOf(v) /\ CountOf(v) < PagesPerBlk

\* Blocks are what their counts say: free ones and the one kept for garbage collection
\* are erased, the active ones are one for each region, and free_blk_cnt counts the
\* blocks that no lpn list was written to, the block for garbage collection among them
\* (ftl_dac/ftl.c:1127, 1228, 1283, 1319-1327).  No page is programmed twice.
BlocksInRole ==
  /\ \A v \in FreeBlks \cup (IF pc = "copy" THEN {} ELSE {gc_vblock}) : \A p \in Pages : flash[v][p] = Erased
  /\ pc # "copy" => vcount[gc_vblock] = VC_MAX
  /\ \A r \in Regions : vcount[cur_write_vpn[r][1]] = VC_ACTIVE \/ (pc \in {"gc", "copy", "assert"} /\ r = new_region)
  /\ \A r, s \in Regions : r # s => cur_write_vpn[r][1] # cur_write_vpn[s][1]
  /\ free_blk_cnt = Cardinality({v \in Good : flash[v][PagesPerBlk - 1] = Erased})
  /\ \A v \in Vblks : \A p \in Pages : flash[v][p] # Spoiled

\* A write comes to its end: garbage collection makes room (the loop at
\* ftl_dac/ftl.c:1129) and leaves a free block to be found (the loop at 1139).
WriteEnds == pc # "idle" ~> pc \in {"idle", "assert"}
=============================================================================
