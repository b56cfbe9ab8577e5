----------------------------- MODULE DacFTLProofs -----------------------------
(***************************************************************************)
(* Proofs about DacFTL for every number of regions, blocks, pages and      *)
(* logical pages and every workload: no page is lost, a count covers the   *)
(* valid pages of its block, and blocks are what their counts say.         *)
(*                                                                         *)
(* The hard part is garbage collection.  While it runs, the write pointer  *)
(* of the region that needs a block may be dead: it is left at the end of  *)
(* the block just closed, which garbage collection may erase or keep for   *)
(* itself.  Nothing in the code excludes that block as a victim; its age   *)
(* does, and where that fails nothing is left to be collected (GcOK).      *)
(***************************************************************************)
EXTENDS DacFTL, FiniteSetTheorems, WellFoundedInduction, TLAPS

DataPages == 0 .. LastDataPage
Steps     == {"idle", "assign", "gc", "copy", "program", "assert"}

Content   == Lpns \cup {Erased, Old, List}

TypeOK ==
  /\ page_map \in [Mapped -> (Vblks \X DataPages) \cup {Null}]
  /\ vcount \in [Vblks -> Pages \cup NotForVictim] /\ DOMAIN region = Vblks
  /\ age \in [Vblks -> Nat] /\ global_age \in Nat /\ \A v \in Vblks : age[v] <= global_age
  /\ cur_write_vpn \in [Regions -> Good \X DataPages]
  /\ lpn_list \in [Regions -> [Pages -> Mapped]] /\ vcount_of_active \in [Regions -> Nat]
  /\ gc_vblock \in Good
  /\ pc \in Steps /\ new_region \in Regions /\ vblock \in Vblks /\ vt \in Vblks
  /\ pc # "idle" => req \in Request /\ data = req.lpn
  /\ flash \in [Vblks -> [Pages -> Content]]
  /\ lists \in [Vblks -> [Pages -> Mapped]]
  /\ written \subseteq Lpns /\ todo \in Seq(SUBSET Request)

\* The write pointer of a region is in an active block; a block has been closed and has
\* a count of its own.
IsOpen(r)  == vcount[cur_write_vpn[r][1]] = VC_ACTIVE
Closed(v)  == vcount[v] \in Nat

\* Every active block is the block of one region.  A write pointer whose block is not
\* active is the one of the block just closed.
Roles ==
  /\ \A v \in BadBlks : vcount[v] = VC_MAX
  /\ \A v \in Good : vcount[v] = VC_MAX => v = gc_vblock
  /\ \/ vcount[gc_vblock] = VC_MAX
     \/ pc = "copy" /\ vcount[gc_vblock] = VC_ACTIVE /\ cur_write_vpn[Demoted(region[vt])][1] = gc_vblock
  /\ \A v \in Vblks : vcount[v] = VC_ACTIVE => \E r \in Regions : cur_write_vpn[r][1] = v
  /\ \A r \in Regions : ~IsOpen(r) => /\ pc \in {"gc", "copy", "assert"} /\ r = new_region
                                       /\ cur_write_vpn[r] = <<vblock, LastDataPage>>
  /\ \A r, s \in Regions : r # s => cur_write_vpn[r][1] # cur_write_vpn[s][1]
  /\ \A r \in Regions : IsOpen(r) => region[cur_write_vpn[r][1]] = r
  /\ \A v \in Vblks : Closed(v) => region[v] \in Regions

\* What is erased: the pages after a write pointer, and blocks that are free.
ErasedOK ==
  /\ \A v \in Vblks : vcount[v] = VC_FREE \/ (v = gc_vblock /\ vcount[v] = VC_MAX)
                      => \A p \in Pages : flash[v][p] = Erased
  /\ \A r \in Regions : IsOpen(r) => \A p \in Pages : p > cur_write_vpn[r][2] => flash[cur_write_vpn[r][1]][p] = Erased
  /\ pc = "program" => At(cur_write_vpn[new_region]) = Erased
  /\ \A v \in Vblks : Closed(v) => flash[v][PagesPerBlk - 1] = List

Unlisted    == {v \in Good : flash[v][PagesPerBlk - 1] = Erased}
UnlistedCnt == free_blk_cnt = Cardinality(Unlisted)

\* No block is worth being collected.
NoWorth == \A v \in Candidates \ Empty : Cost(v) <= 0

\* Garbage collection runs out of free blocks before it copies.  The pages to be copied
\* lie after those already copied to the block kept for it, so one block is enough.  A
\* region that finds its active block replaced while pages are copied has that block.
\* The block just closed is as old as the present, so it is a victim only when no
\* block is worth it, and then it is the first one.
GcOK ==
  /\ pc = "copy" => FreeBlks = {} /\ Closed(vt)
  /\ pc = "copy" /\ GcBlkUsed => \A p \in LivePages : cur_write_vpn[Demoted(region[vt])][2] < p
  /\ pc = "copy" /\ IsOpen(new_region) => GcBlkUsed
  /\ pc = "gc" /\ IsOpen(new_region) => FreeBlks = {}
  /\ ~IsOpen(new_region) =>
       /\ Closed(vblock) => age[vblock] = global_age
       /\ (pc = "copy" /\ vt = vblock) \/ gc_vblock = vblock => vblock = META_BLKS_PER_BANK /\ NoWorth
       /\ pc = "copy" => gc_vblock # vblock

\* A logical page is in page p of block v, and the lpn list of the block says so.
LiesIn(lpn, v, p) ==
  /\ flash[v][p] = lpn /\ vcount[v] # VC_FREE /\ vcount[v] # VC_MAX
  /\ Closed(v) => lists[v][p] = lpn
  /\ vcount[v] = VC_ACTIVE => \A r \in Regions : cur_write_vpn[r][1] = v => lpn_list[r][p] = lpn

Mapping ==
  /\ \A lpn \in Lpns : page_map[lpn] # Null <=> lpn \in written
  /\ \A lpn \in written \ Pending : \A v \in Vblks, p \in DataPages :
       page_map[lpn] = <<v, p>> => LiesIn(lpn, v, p)

\* Counts cover the valid pages, and those of an active block fit below its write pointer.
Counts ==
  /\ \A v \in Vblks : Closed(v) => Cardinality(LiveIn(v)) <= vcount[v]
  /\ \A v \in Vblks : \A r \in Regions : vcount[v] = VC_ACTIVE /\ cur_write_vpn[r][1] = v
                                       => Cardinality(LiveIn(v)) <= vcount_of_active[r]
  /\ \A r \in Regions : vcount_of_active[r] <= IF IsOpen(r) THEN cur_write_vpn[r][2] + 1 ELSE 0
  /\ pc = "program" => vcount_of_active[new_region] <= cur_write_vpn[new_region][2]

IInv == TypeOK /\ Roles /\ ErasedOK /\ UnlistedCnt /\ GcOK /\ Mapping /\ Counts

-----------------------------------------------------------------------------
(***************************************************************************)
(* Constants, least elements and counts.                                   *)
(***************************************************************************)
\* What the proofs use of the constants.
LEMMA Consts ==
  /\ PagesPerBlk \in Nat /\ PagesPerBlk >= 3 /\ LastDataPage \in Nat /\ LastDataPage = PagesPerBlk - 2
  /\ NumRegion \in Nat \ {0} /\ 0 \in Regions
  /\ META_BLKS_PER_BANK \in Nat \ {0} /\ VBLKS_PER_BANK \in Nat
  /\ Good \subseteq Vblks /\ BadBlks \subseteq Vblks /\ Vblks \subseteq Nat /\ 0 \notin Vblks
  /\ VC_FREE \notin Nat /\ VC_MAX \notin Nat /\ VC_ACTIVE \notin Nat
  /\ VC_FREE # VC_MAX /\ VC_FREE # VC_ACTIVE /\ VC_MAX # VC_ACTIVE
  /\ Lpns \subseteq Mapped /\ 0 \in Mapped /\ Mapped \subseteq Nat /\ Regions \subseteq Nat /\ Pages \subseteq Nat
  /\ \A p \in DataPages : p \in Nat /\ p \in Pages /\ p # PagesPerBlk - 1 /\ p < PagesPerBlk - 1
  /\ PagesPerBlk - 1 \in Pages /\ 0 \in Pages /\ 0 \in DataPages /\ LastDataPage \in DataPages
  BY DacAssumption DEF DacAssumption, LastDataPage, Regions, Good, Vblks, NotForVictim, Mapped, Pages, DataPages

\* What pages can hold is told apart.
LEMMA Contents ==
  /\ Erased \notin Lpns /\ Old \notin Lpns /\ List \notin Lpns /\ Spoiled \notin Lpns
  /\ Erased # Old /\ Erased # List /\ Spoiled # Erased /\ Spoiled # Old /\ Spoiled # List
  BY DacAssumption DEF DacAssumption

\* Sets of blocks, of regions and of logical pages are finite.
LEMMA Finite ==
  /\ IsFiniteSet(Vblks) /\ IsFiniteSet(Good) /\ IsFiniteSet(Regions) /\ IsFiniteSet(Lpns)
  /\ Cardinality(Regions) = NumRegion /\ Cardinality(Vblks) \in Nat
  /\ \A v, w \in Vblks : v - w < Cardinality(Vblks)
<1>1. META_BLKS_PER_BANK \in Int /\ VBLKS_PER_BANK - 1 \in Int /\ 0 \in Int /\ NumRegion - 1 \in Int
  BY Consts, DacAssumption DEF DacAssumption
<1>2. IsFiniteSet(Vblks) /\ Cardinality(Vblks) =
        IF META_BLKS_PER_BANK > VBLKS_PER_BANK - 1 THEN 0 ELSE VBLKS_PER_BANK - 1 - META_BLKS_PER_BANK + 1
  BY <1>1, FS_Interval, Zenon DEF Vblks
<1>3. IsFiniteSet(Regions) /\ Cardinality(Regions) = IF 0 > NumRegion - 1 THEN 0 ELSE NumRegion - 1 - 0 + 1
  BY <1>1, FS_Interval, Zenon DEF Regions
<1>4. IsFiniteSet(Lpns)
  BY DacAssumption DEF DacAssumption
<1>5. IsFiniteSet(Good)
  BY <1>2, Consts, FS_Subset, Zenon
<1>6. \A v, w \in Vblks : v - w < Cardinality(Vblks)
  BY <1>1, <1>2 DEF Vblks
<1>. QED BY <1>1, <1>2, <1>3, <1>4, <1>5, <1>6, Consts

\* A non-empty set of naturals has a least element, and Least chooses it.
LEMMA LeastIn ==
  ASSUME NEW S, S \subseteq Nat, S # {}
  PROVE  Least(S) \in S /\ \A w \in S : Least(S) <= w
<1>1. PICK x \in S : \A y \in S : ~ (<<y, x>> \in OpToRel(<, Nat))
  BY NatLessThanWellFounded, WFMin, Zenon
<1>2. \A y \in S : ~(y < x)
  BY <1>1, Zenon DEF OpToRel
<1>3. \A y \in S : x <= y
  BY <1>2
<1>. QED BY <1>3 DEF Least

\* A function from a non-empty set to the naturals takes a least value.
LEMMA LeastValue ==
  ASSUME NEW S, S # {}, NEW f \in [S -> Nat]
  PROVE  \E x \in S : \A y \in S : f[x] <= f[y]
<1> DEFINE T == {f[x] : x \in S}
<1>1. T \subseteq Nat /\ T # {}
  OBVIOUS
<1>2. Least(T) \in T /\ \A w \in T : Least(T) <= w
  BY <1>1, LeastIn
<1>3. PICK x \in S : f[x] = Least(T)
  BY <1>2
<1>4. \A y \in S : f[y] \in T
  OBVIOUS
<1>. QED BY <1>2, <1>3, <1>4

\* A set that gains or loses an element, as a bound on its cardinality.
LEMMA CardBounds ==
  ASSUME NEW T, IsFiniteSet(T), NEW S, NEW x
  PROVE  /\ Cardinality(T) \in Nat
         /\ S \subseteq T => Cardinality(S) <= Cardinality(T) /\ IsFiniteSet(S) /\ Cardinality(S) \in Nat
         /\ S \subseteq T \cup {x} => Cardinality(S) <= Cardinality(T) + 1
         /\ S \subseteq T \ {x} /\ x \in T => Cardinality(S) <= Cardinality(T) - 1
<1>1. Cardinality(T) \in Nat
  BY FS_CardinalityType
<1>2. ASSUME S \subseteq T PROVE Cardinality(S) <= Cardinality(T) /\ IsFiniteSet(S) /\ Cardinality(S) \in Nat
  <2>1. Cardinality(S) <= Cardinality(T) /\ IsFiniteSet(S)
    BY <1>2, FS_Subset
  <2>. QED BY <2>1, FS_CardinalityType
<1>3. ASSUME S \subseteq T \cup {x} PROVE Cardinality(S) <= Cardinality(T) + 1
  <2>1. /\ IsFiniteSet(T \cup {x})
        /\ Cardinality(T \cup {x}) = IF x \in T THEN Cardinality(T) ELSE Cardinality(T) + 1
    BY FS_AddElement
  <2>2. Cardinality(S) <= Cardinality(T \cup {x}) /\ IsFiniteSet(S)
    BY <1>3, <2>1, FS_Subset, Zenon
  <2>3. Cardinality(S) \in Nat
    BY <2>2, FS_CardinalityType
  <2>. QED BY <1>1, <2>1, <2>2, <2>3
<1>4. ASSUME S \subseteq T \ {x}, x \in T PROVE Cardinality(S) <= Cardinality(T) - 1
  <2>1. IsFiniteSet(T \ {x}) /\ Cardinality(T \ {x}) = Cardinality(T) - 1
    BY <1>4, FS_RemoveElement
  <2>2. Cardinality(S) <= Cardinality(T \ {x}) /\ IsFiniteSet(S)
    BY <1>4, <2>1, FS_Subset, Zenon
  <2>. QED BY <2>1, <2>2
<1>. QED BY <1>1, <1>2, <1>3, <1>4

\* The valid pages of a block are finitely many.
LEMMA LiveFinite == \A v : IsFiniteSet(LiveIn(v)) /\ Cardinality(LiveIn(v)) \in Nat
<1>1. ASSUME NEW v PROVE IsFiniteSet(LiveIn(v)) /\ Cardinality(LiveIn(v)) \in Nat
  <2>1. LiveIn(v) \subseteq Lpns
    BY DEF LiveIn
  <2>. QED BY <2>1, Finite, FS_Subset, FS_CardinalityType, Zenon
<1>. QED BY <1>1

\* A search of the free blocks that starts at any block finds one of them.
LEMMA NextFreeIn ==
  ASSUME vblock \in Vblks, FreeBlks # {}
  PROVE  NextFree \in FreeBlks
<1> DEFINE f == [v \in FreeBlks |-> Distance(vblock, v)]
<1>1. FreeBlks \subseteq Vblks
  BY DEF FreeBlks
<1>2. f \in [FreeBlks -> Nat]
  <2>1. \A v \in Vblks : Distance(vblock, v) \in Nat
    BY Finite, Consts DEF Distance
  <2>. QED BY <1>1, <2>1
<1>3. PICK x \in FreeBlks : \A y \in FreeBlks : f[x] <= f[y]
  BY <1>2, LeastValue, Zenon
<1>. QED BY <1>3, Zenon DEF NextFree

-----------------------------------------------------------------------------
(***************************************************************************)
(* The victim.                                                             *)
(***************************************************************************)
\* A quotient of naturals is a natural below the dividend.
LEMMA Quotient ==
  ASSUME NEW n \in Nat, NEW d \in Nat \ {0}
  PROVE  n \div d \in Nat /\ n \div d <= n
<1>1. n \div d \in Int /\ (n % d) \in 0 .. d - 1 /\ n = d * (n \div d) + (n % d)
  OBVIOUS
<1>2. ASSUME n \div d < 0 PROVE FALSE
  <2>1. d * (n \div d) <= d * (-1)
    BY <1>1, <1>2
  <2>. QED BY <1>1, <2>1
<1>3. n \div d <= d * (n \div d)
  <2> DEFINE q == n \div d
  <2>1. q \in Nat
    BY <1>1, <1>2
  <2> HIDE DEF q
  <2>2. q <= d * q
    BY <2>1
  <2>. QED BY <2>2 DEF q
<1>. QED BY <1>1, <1>2, <1>3

\* A block is a candidate when it is closed.
LEMMA Candidate ==
  ASSUME TypeOK
  PROVE  /\ \A v \in Vblks : v \in Candidates <=> Closed(v)
         /\ Candidates \subseteq Vblks /\ Empty \subseteq Candidates
         /\ \A v \in Candidates \ Empty : vcount[v] \in Nat \ {0} /\ vcount[v] < PagesPerBlk
<1>1. \A v \in Vblks : vcount[v] \in Pages \cup NotForVictim
  BY DEF TypeOK
<1>. QED BY <1>1, Consts DEF Candidates, Empty, Closed, NotForVictim, Pages

\* The cost of a candidate is bounded, and 0 for a block as old as the present.
LEMMA CostRange ==
  ASSUME TypeOK, NEW v \in Candidates \ Empty
  PROVE  /\ Cost(v) \in Nat /\ global_age * PagesPerBlk \in Nat /\ Cost(v) <= global_age * PagesPerBlk
         /\ age[v] = global_age => Cost(v) = 0
<1> DEFINE a == global_age - age[v]
           b == PagesPerBlk - vcount[v]
           d == 2 * vcount[v]
<1>1. v \in Vblks /\ vcount[v] \in Nat \ {0} /\ vcount[v] < PagesPerBlk
  BY Candidate
<1>2. global_age \in Nat /\ age[v] \in Nat /\ age[v] <= global_age /\ PagesPerBlk \in Nat
  BY <1>1, Consts DEF TypeOK
<1>3. /\ a \in Nat /\ a <= global_age /\ b \in Nat /\ b <= PagesPerBlk /\ d \in Nat \ {0}
      /\ age[v] = global_age => a = 0
  BY <1>1, <1>2
<1>4. Cost(v) = (a * b) \div d
  BY DEF Cost
<1> HIDE DEF a, b, d
<1>5. a * b \in Nat /\ a * b <= global_age * PagesPerBlk /\ global_age * PagesPerBlk \in Nat
  <2>1. a * b <= a * PagesPerBlk /\ a * b \in Nat
    BY <1>2, <1>3
  <2>2. a * PagesPerBlk <= global_age * PagesPerBlk
    BY <1>2, <1>3
  <2>. QED BY <2>1, <2>2, <1>2, <1>3
<1>6. (a * b) \div d \in Nat /\ (a * b) \div d <= a * b
  BY <1>3, <1>5, Quotient
<1>7. a = 0 => (a * b) \div d = 0
  <2>1. a = 0 => a * b = 0
    BY <1>3
  <2>. QED BY <2>1, <1>3, <1>5, <1>6
<1>. QED BY <1>3, <1>4, <1>5, <1>6, <1>7

\* get_vt_vblock_by_cost_benefit returns a closed block or the first one.  A block as old as the
\* present is chosen when it holds no page or when no block is worth it, and then it is
\* the first block.
LEMMA VictimIs ==
  ASSUME TypeOK, Victim \in Candidates \ Empty
  PROVE  /\ age[Victim] = global_age => Victim = META_BLKS_PER_BANK /\ NoWorth
         /\ NoWorth => Victim = META_BLKS_PER_BANK
<1> DEFINE worth == {v \in Candidates : Cost(v) > 0 /\ \A w \in Candidates : Cost(w) <= Cost(v)}
           B == global_age * PagesPerBlk
           f == [v \in Candidates |-> B - Cost(v)]
<1>0. Candidates \subseteq Vblks /\ Candidates \subseteq Nat /\ Empty \subseteq Candidates
  BY Candidate, Consts
<1>1. Empty = {}
  <2>1. Empty # {} => Victim = Least(Empty) /\ Least(Empty) \in Empty
    <3>1. Empty # {} => Victim = Least(Empty)
      BY Zenon DEF Victim
    <3>2. Empty # {} => Least(Empty) \in Empty
      BY <1>0, LeastIn
    <3>. QED BY <3>1, <3>2
  <2>. QED BY <2>1
<1>2. Victim = IF worth # {} THEN Least(worth) ELSE META_BLKS_PER_BANK
  BY <1>1 DEF Victim
<1> HIDE DEF worth
<1>3. ASSUME worth # {}, age[Victim] = global_age \/ NoWorth PROVE FALSE
  <2>1. worth \subseteq Candidates
    BY DEF worth
  <2>2. Least(worth) \in worth
    BY <2>1, <1>0, <1>3, LeastIn
  <2>3. Cost(Victim) > 0
    BY <2>2, <1>2, <1>3 DEF worth
  <2>. QED BY <2>3, <1>3, CostRange DEF NoWorth
<1>4. ASSUME worth = {} PROVE NoWorth
  <2> SUFFICES ASSUME NEW u \in Candidates \ Empty, ~(Cost(u) <= 0) PROVE FALSE
    BY DEF NoWorth
  <2>1. \A v \in Candidates : Cost(v) \in Nat /\ B \in Nat /\ Cost(v) <= B
    BY <1>1, CostRange
  <2> HIDE DEF B
  <2>2. f \in [Candidates -> Nat]
    BY <2>1
  <2>3. PICK x \in Candidates : \A y \in Candidates : f[x] <= f[y]
    <3> HIDE DEF f
    <3>. QED BY <2>2, LeastValue, Zenon
  <2>4. \A y \in Candidates : Cost(y) <= Cost(x)
    BY <2>1, <2>3
  <2>5. Cost(x) > 0
    BY <2>1, <2>4
  <2>6. x \in worth
    BY <2>4, <2>5 DEF worth
  <2>. QED BY <2>6, <1>4
<1>. QED BY <1>2, <1>3, <1>4

\* A victim without valid pages is a closed block.
LEMMA EmptyVictim ==
  ASSUME TypeOK, vcount[Victim] = 0
  PROVE  Victim \in Vblks /\ Closed(Victim)
<1>0. Candidates \subseteq Vblks /\ Candidates \subseteq Nat /\ Empty \subseteq Candidates
  BY Candidate, Consts
<1>1. META_BLKS_PER_BANK \in Vblks
  BY Consts DEF Vblks, TypeOK
<1>2. Empty # {} => Victim \in Vblks
  <2>1. Empty # {} => Victim = Least(Empty)
    BY Zenon DEF Victim
  <2>2. Empty # {} => Least(Empty) \in Empty
    BY <1>0, LeastIn
  <2>. QED BY <1>0, <2>1, <2>2
<1>3. Empty = {} => Victim \in Vblks
  <2> DEFINE worth == {v \in Candidates : Cost(v) > 0 /\ \A w \in Candidates : Cost(w) <= Cost(v)}
  <2>1. Empty = {} => Victim = IF worth # {} THEN Least(worth) ELSE META_BLKS_PER_BANK
    BY DEF Victim
  <2>2. worth # {} => Least(worth) \in worth
    BY <1>0, LeastIn
  <2>. QED BY <1>0, <1>1, <2>1, <2>2
<1>. QED BY <1>2, <1>3 DEF Closed

-----------------------------------------------------------------------------
(***************************************************************************)
(* Write pointers, and the blocks that no list was written to.             *)
(***************************************************************************)
\* The write pointer of a region is a data page of a good block.
LEMMA Pointer ==
  ASSUME TypeOK
  PROVE  \A r \in Regions : /\ cur_write_vpn[r][1] \in Good /\ cur_write_vpn[r][1] \in Vblks
                            /\ cur_write_vpn[r][2] \in DataPages
                            /\ cur_write_vpn[r] = <<cur_write_vpn[r][1], cur_write_vpn[r][2]>>
<1>1. ASSUME NEW r \in Regions
      PROVE  /\ cur_write_vpn[r][1] \in Good /\ cur_write_vpn[r][2] \in DataPages
             /\ cur_write_vpn[r] = <<cur_write_vpn[r][1], cur_write_vpn[r][2]>>
  <2>1. cur_write_vpn[r] \in Good \X DataPages
    BY <1>1 DEF TypeOK
  <2>. QED BY <2>1
<1>2. Good \subseteq Vblks
  BY Consts
<1>. QED BY <1>1, <1>2

\* A page in use is a data page of a block.
LEMMA MappedPage ==
  ASSUME TypeOK, NEW lpn \in Lpns, page_map[lpn] # Null
  PROVE  /\ page_map[lpn][1] \in Vblks /\ page_map[lpn][2] \in DataPages
         /\ page_map[lpn] = <<page_map[lpn][1], page_map[lpn][2]>>
<1>1. page_map[lpn] \in Vblks \X DataPages
  BY Consts DEF TypeOK
<1>. QED BY <1>1

\* No bad block is in use: a block that is active, free or closed is good.
LEMMA InUseIsGood ==
  ASSUME TypeOK, Roles, NEW v \in Vblks, vcount[v] # VC_MAX
  PROVE  v \in Good
  BY DEF Roles, Good

\* While the write pointer of the region is dead, the active blocks of the others and the
\* one kept for garbage collection are all that is_full_all_blks leaves without a list.
LEMMA FullMeansDead ==
  ASSUME TypeOK, Roles, ErasedOK, UnlistedCnt, pc = "gc", is_full_all_blks
  PROVE  ~IsOpen(new_region) /\ FreeBlks = {}
<1> SUFFICES ASSUME IsOpen(new_region) \/ FreeBlks # {} PROVE FALSE
  OBVIOUS
<1>1. PICK x : (IsOpen(new_region) /\ x = cur_write_vpn[new_region][1]) \/ (~IsOpen(new_region) /\ x \in FreeBlks)
  BY Zenon
<1> DEFINE D == 0 .. NumRegion
           f == [i \in D |-> IF i = NumRegion THEN gc_vblock
                             ELSE IF i = new_region THEN x ELSE cur_write_vpn[i][1]]
<1>2. new_region \in Regions /\ gc_vblock \in Good /\ vcount[gc_vblock] = VC_MAX
  BY DEF TypeOK, Roles
<1>3. /\ \A i \in D : i = NumRegion \/ i \in Regions
      /\ NumRegion \notin Regions
  BY Consts DEF Regions
<1>4. \A r \in Regions : r # new_region => IsOpen(r)
  BY DEF Roles
<1>5. x \in Good /\ vcount[x] \in {VC_ACTIVE, VC_FREE}
  <2>1. x \in FreeBlks => x \in Vblks /\ vcount[x] = VC_FREE
    BY DEF FreeBlks
  <2>. QED BY <1>1, <1>2, <2>1, Pointer, InUseIsGood, Consts DEF IsOpen
<1>6. \A r \in Regions : r # new_region => x # cur_write_vpn[r][1]
  <2>1. x \in FreeBlks => vcount[x] = VC_FREE
    BY DEF FreeBlks
  <2>. QED BY <1>1, <1>2, <1>4, <2>1, Consts DEF IsOpen, Roles
<1>7. \A v \in Good : vcount[v] \in {VC_ACTIVE, VC_FREE} => v # gc_vblock
  BY <1>2, Consts
<1>8. \A r \in Regions : IsOpen(r) => cur_write_vpn[r][1] \in Unlisted
  <2> SUFFICES ASSUME NEW r \in Regions, IsOpen(r) PROVE cur_write_vpn[r][1] \in Unlisted
    OBVIOUS
  <2>1. cur_write_vpn[r][1] \in Good /\ PagesPerBlk - 1 > cur_write_vpn[r][2]
    BY Pointer, Consts
  <2>2. flash[cur_write_vpn[r][1]][PagesPerBlk - 1] = Erased
    BY <2>1, Consts DEF ErasedOK
  <2>. QED BY <2>1, <2>2 DEF Unlisted
<1>9. gc_vblock \in Unlisted /\ x \in Unlisted
  <2>1. \A v \in Good : vcount[v] = VC_FREE \/ (v = gc_vblock /\ vcount[v] = VC_MAX) => v \in Unlisted
    BY Consts DEF ErasedOK, Unlisted
  <2>. QED BY <1>1, <1>2, <1>5, <1>8, <2>1 DEF FreeBlks
<1>10. f \in Injection(D, Unlisted)
  <2>1. \A i \in D : f[i] \in Unlisted
    BY <1>3, <1>4, <1>8, <1>9
  <2>2. \A i, j \in D : i # j => f[i] # f[j]
    <3> SUFFICES ASSUME NEW i \in D, NEW j \in D, i # j, i # NumRegion
                 PROVE  f[i] # f[j]
      BY Zenon
    <3>1. i \in Regions
      BY <1>3
    <3>2. CASE j = NumRegion
      <4>1. f[j] = gc_vblock /\ f[i] = IF i = new_region THEN x ELSE cur_write_vpn[i][1]
        BY <3>2
      <4>. QED BY <4>1, <3>1, <1>4, <1>5, <1>7, Pointer DEF IsOpen
    <3>3. CASE j # NumRegion
      <4>1. j \in Regions
        BY <3>3, <1>3
      <4>2. /\ f[i] = IF i = new_region THEN x ELSE cur_write_vpn[i][1]
            /\ f[j] = IF j = new_region THEN x ELSE cur_write_vpn[j][1]
        BY <3>3
      <4>3. cur_write_vpn[i][1] # cur_write_vpn[j][1]
        BY <3>1, <4>1 DEF Roles
      <4>. QED BY <3>1, <4>1, <4>2, <4>3, <1>6
    <3>. QED BY <3>2, <3>3
  <2>. QED BY <2>1, <2>2 DEF Injection, IsInjective
<1>11. IsFiniteSet(Unlisted) /\ Cardinality(Unlisted) \in Nat
  BY Finite, CardBounds DEF Unlisted
<1>12. Cardinality(D) <= Cardinality(Unlisted)
  BY <1>10, <1>11, FS_Injection
<1>13. Cardinality(D) = NumRegion + 1
  <2>1. 0 \in Int /\ NumRegion \in Int /\ NumRegion > 0
    BY Consts
  <2>2. Cardinality(D) = IF 0 > NumRegion THEN 0 ELSE NumRegion - 0 + 1
    BY <2>1, FS_Interval, Zenon
  <2>. QED BY <2>1, <2>2
<1>14. Cardinality(Unlisted) <= NumRegion
  BY DEF UnlistedCnt, is_full_all_blks
<1>. QED BY <1>11, <1>12, <1>13, <1>14, Consts

-----------------------------------------------------------------------------
(***************************************************************************)
(* Steps of assign_new_write_vpn.                                          *)
(***************************************************************************)
\* The page after the last written one of an active block that is not full.
LEMMA NextPageStep ==
  ASSUME IInv, NextPageInBlk \/ NextPageAfterGc
  PROVE  IInv'
<1> DEFINE R == new_region
           b == cur_write_vpn[R][1]
           q == cur_write_vpn[R][2]
<1> USE DEF IInv
<1>1. /\ pc \in {"assign", "gc"} /\ pc' = "program" /\ ~Full(cur_write_vpn[R])
      /\ cur_write_vpn' = [cur_write_vpn EXCEPT ![R] = inc_cur_write_vpn(@)]
      /\ page_map' = page_map /\ lpn_list' = lpn_list /\ vcount_of_active' = vcount_of_active
      /\ vcount' = vcount /\ region' = region /\ age' = age /\ gc_vblock' = gc_vblock
      /\ free_blk_cnt' = free_blk_cnt /\ flash' = flash /\ lists' = lists
      /\ req' = req /\ data' = data /\ new_region' = new_region /\ written' = written /\ todo' = todo
      /\ global_age' = global_age /\ vblock' = vblock /\ vt' = vt
  BY DEF NextPageInBlk, NextPageAfterGc, blkVars, nandVars, reqVars, hostVars
<1>2. /\ R \in Regions /\ b \in Good /\ b \in Vblks /\ q \in DataPages /\ cur_write_vpn[R] = <<b, q>>
  BY Pointer DEF TypeOK
<1>3. q < LastDataPage /\ q + 1 \in DataPages /\ q \in Nat
  <2>1. q # LastDataPage
    BY <1>1 DEF Full
  <2>. QED BY <2>1, <1>2, Consts DEF DataPages
<1>4. /\ \A r \in Regions : cur_write_vpn'[r] = IF r = R THEN <<b, q + 1>> ELSE cur_write_vpn[r]
      /\ DOMAIN cur_write_vpn' = Regions
  <2>1. inc_cur_write_vpn(cur_write_vpn[R]) = <<b, q + 1>>
    BY <1>2, <1>3, Consts DEF inc_cur_write_vpn
  <2>2. DOMAIN cur_write_vpn = Regions
    BY DEF TypeOK
  <2>. QED BY <2>1, <2>2, <1>1, <1>2
<1>5. \A r \in Regions : cur_write_vpn'[r][1] = cur_write_vpn[r][1]
  BY <1>4
<1>6. \A r \in Regions : IsOpen(r)' <=> IsOpen(r)
  BY <1>1, <1>5 DEF IsOpen
<1>7. IsOpen(R) /\ \A r \in Regions : IsOpen(r)
  <2>1. cur_write_vpn[R] # <<vblock, LastDataPage>>
    BY <1>2, <1>3, Consts
  <2>. QED BY <2>1, <1>2 DEF Roles
<1>8. TypeOK'
  <2>1. cur_write_vpn' = [r \in Regions |-> IF r = R THEN <<b, q + 1>> ELSE cur_write_vpn[r]]
    <3>1. cur_write_vpn' = [r \in DOMAIN cur_write_vpn' |-> cur_write_vpn'[r]]
      BY <1>1 DEF TypeOK
    <3>. QED BY <3>1, <1>4
  <2>2. cur_write_vpn' \in [Regions -> Good \X DataPages]
    <3>1. \A r \in Regions : cur_write_vpn[r] \in Good \X DataPages
      BY DEF TypeOK
    <3>. QED BY <2>1, <3>1, <1>2, <1>3
  <2>. QED BY <1>1, <2>2 DEF TypeOK, Steps
<1>9. Roles'
  BY <1>1, <1>5, <1>6, <1>7 DEF Roles, Closed
<1>10. ErasedOK'
  <2>1. \A p \in Pages : p > q => flash[b][p] = Erased
    BY <1>2, <1>7 DEF ErasedOK
  <2>2. \A p \in Pages : p > q + 1 => flash[b][p] = Erased
    BY <2>1, <1>3, Consts
  <2>3. flash[b][q + 1] = Erased
    BY <2>1, <1>3, Consts
  <2>4. cur_write_vpn'[R][1] = b /\ cur_write_vpn'[R][2] = q + 1
    BY <1>4, <1>2
  <2>5. At(cur_write_vpn[new_region])' = Erased
    BY <2>3, <2>4, <1>1 DEF At
  <2>6. \A r \in Regions : IsOpen(r)' => \A p \in Pages : p > cur_write_vpn'[r][2]
                                         => flash[cur_write_vpn'[r][1]][p] = Erased
    BY <2>2, <2>4, <1>4, <1>6 DEF ErasedOK
  <2>. QED BY <2>5, <2>6, <1>1 DEF ErasedOK, Closed
<1>11. UnlistedCnt'
  BY <1>1 DEF UnlistedCnt, Unlisted
<1>12. GcOK'
  BY <1>1, <1>2, <1>6, <1>7 DEF GcOK
<1>13. Mapping'
  BY <1>1, <1>5 DEF Mapping, LiesIn, Pending, Closed
<1>14. Counts'
  <2>1. \A v \in Vblks : LiveIn(v)' = LiveIn(v)
    BY <1>1 DEF LiveIn, Pending
  <2>2. \A r \in Regions : cur_write_vpn'[r][2] = IF r = R THEN q + 1 ELSE cur_write_vpn[r][2]
    BY <1>4
  <2>3. \A r \in Regions : vcount_of_active[r] \in Nat /\ vcount_of_active[r] <= cur_write_vpn[r][2] + 1
    BY <1>7 DEF Counts, TypeOK
  <2>4. \A r \in Regions : vcount_of_active[r] <= cur_write_vpn'[r][2] + 1
    BY <2>2, <2>3, <1>3
  <2>5. vcount_of_active[R] <= cur_write_vpn'[R][2]
    BY <2>2, <2>3, <1>2
  <2>6. \A v \in Vblks : \A r \in Regions : vcount'[v] = VC_ACTIVE /\ cur_write_vpn'[r][1] = v
                                         => Cardinality(LiveIn(v)') <= vcount_of_active'[r]
    BY <2>1, <1>1, <1>5 DEF Counts
  <2>7. \A v \in Vblks : Closed(v)' => Cardinality(LiveIn(v)') <= vcount'[v]
    BY <2>1, <1>1 DEF Counts, Closed
  <2>. QED BY <2>4, <2>5, <2>6, <2>7, <1>1, <1>6, <1>7 DEF Counts
<1>. QED BY <1>8, <1>9, <1>10, <1>11, <1>12, <1>13, <1>14

\* A firmware with assertions stops; nothing else changes.
LEMMA AssertStep ==
  ASSUME IInv, StopAtAssert
  PROVE  IInv'
<1> USE DEF IInv
<1>1. /\ pc = "gc" /\ pc' = "assert" /\ FreeBlks # {}
      /\ page_map' = page_map /\ lpn_list' = lpn_list /\ vcount_of_active' = vcount_of_active
      /\ vcount' = vcount /\ region' = region /\ age' = age /\ gc_vblock' = gc_vblock
      /\ free_blk_cnt' = free_blk_cnt /\ flash' = flash /\ lists' = lists /\ cur_write_vpn' = cur_write_vpn
      /\ req' = req /\ data' = data /\ new_region' = new_region /\ written' = written /\ todo' = todo
      /\ global_age' = global_age /\ vblock' = vblock /\ vt' = vt
  BY DEF StopAtAssert, TakesClosedBlk, SearchEnds, regVars, blkVars, nandVars, reqVars, hostVars
<1>2. TypeOK' /\ Roles'
  BY <1>1 DEF TypeOK, Steps, Roles, IsOpen, Closed
<1>3. ErasedOK' /\ UnlistedCnt' /\ Mapping'
  BY <1>1 DEF ErasedOK, UnlistedCnt, Unlisted, Mapping, LiesIn, Pending, IsOpen, Closed
<1>4. GcOK'
  <2>1. NoWorth' <=> NoWorth
    BY <1>1 DEF NoWorth, Candidates, Empty, Cost
  <2>. QED BY <1>1, <2>1 DEF GcOK, IsOpen, Closed
<1>5. Counts'
  <2>1. \A v \in Vblks : LiveIn(v)' = LiveIn(v)
    BY <1>1 DEF LiveIn, Pending
  <2>. QED BY <1>1, <2>1 DEF Counts, IsOpen, Closed
<1>. QED BY <1>2, <1>3, <1>4, <1>5

\* A page of an erased page is programmed.
LEMMA Programmed ==
  ASSUME NEW f \in [Vblks -> [Pages -> Content]], NEW v \in Vblks, NEW p \in Pages, NEW d,
         f[v][p] = Erased
  PROVE  Program(f, <<v, p>>, d) = [w \in Vblks |-> [q \in Pages |-> IF w = v /\ q = p THEN d ELSE f[w][q]]]
<1> DEFINE g == [w \in Vblks |-> [q \in Pages |-> IF w = v /\ q = p THEN d ELSE f[w][q]]]
<1>1. Program(f, <<v, p>>, d) = [f EXCEPT ![v] = [f[v] EXCEPT ![p] = d]]
  BY DEF Program, Put
<1>2. f = [w \in Vblks |-> f[w]] /\ \A w \in Vblks : f[w] = [q \in Pages |-> f[w][q]]
  OBVIOUS
<1>3. [f EXCEPT ![v] = [f[v] EXCEPT ![p] = d]] = [w \in Vblks |-> IF w = v THEN [f[v] EXCEPT ![p] = d] ELSE f[w]]
  BY <1>2
<1>4. ASSUME NEW w \in Vblks
      PROVE  (IF w = v THEN [f[v] EXCEPT ![p] = d] ELSE f[w]) = [q \in Pages |-> IF w = v /\ q = p THEN d ELSE f[w][q]]
  BY <1>2
<1>. QED BY <1>1, <1>3, <1>4

\* The block that is full is closed.
LEMMA CloseStep ==
  ASSUME IInv, CloseBlk
  PROVE  IInv'
<1> DEFINE R == new_region
           v == cur_write_vpn[R][1]
           last == PagesPerBlk - 1
<1> USE DEF IInv
<1>1. /\ pc = "assign" /\ pc' = "gc" /\ Full(cur_write_vpn[R])
      /\ flash' = Program(flash, <<v, last>>, List)
      /\ lists' = [lists EXCEPT ![v] = lpn_list[R]]
      /\ age' = [age EXCEPT ![v] = global_age]
      /\ free_blk_cnt' = free_blk_cnt - 1
      /\ lpn_list' = [lpn_list EXCEPT ![R] = NoList]
      /\ vcount' = [vcount EXCEPT ![v] = vcount_of_active[R]]
      /\ vcount_of_active' = [vcount_of_active EXCEPT ![R] = 0]
      /\ vblock' = v
      /\ page_map' = page_map /\ region' = region /\ gc_vblock' = gc_vblock /\ cur_write_vpn' = cur_write_vpn
      /\ req' = req /\ data' = data /\ new_region' = new_region /\ written' = written /\ todo' = todo
      /\ global_age' = global_age /\ vt' = vt
  BY DEF CloseBlk, BlockClosed, nandVars, reqVars, hostVars
<1>2. /\ R \in Regions /\ v \in Good /\ v \in Vblks /\ cur_write_vpn[R] = <<v, LastDataPage>>
      /\ cur_write_vpn[R][2] = LastDataPage
  BY <1>1, Pointer DEF TypeOK, Full
<1>3. \A r \in Regions : IsOpen(r)
  BY <1>1 DEF Roles
<1>4. /\ vcount_of_active[R] \in Pages /\ vcount_of_active[R] \in Nat /\ vcount_of_active[R] < PagesPerBlk
      /\ last \in Pages /\ vcount[v] = VC_ACTIVE
  <2>1. vcount_of_active[R] \in Nat /\ vcount_of_active[R] <= LastDataPage + 1
    BY <1>2, <1>3 DEF Counts, TypeOK
  <2>. QED BY <2>1, <1>2, <1>3, Consts DEF Pages, IsOpen
<1>5. flash[v][last] = Erased
  <2>1. last > LastDataPage
    BY Consts
  <2>. QED BY <2>1, <1>2, <1>3, <1>4 DEF ErasedOK
<1>6. flash' = [w \in Vblks |-> [q \in Pages |-> IF w = v /\ q = last THEN List ELSE flash[w][q]]]
  <2>1. flash \in [Vblks -> [Pages -> Content]]
    BY DEF TypeOK
  <2>2. v \in Vblks /\ last \in Pages /\ flash[v][last] = Erased
    BY <1>2, <1>4, <1>5
  <2> HIDE DEF v, last
  <2>3. Program(flash, <<v, last>>, List) = [w \in Vblks |-> [q \in Pages |-> IF w = v /\ q = last THEN List ELSE flash[w][q]]]
    BY <2>1, <2>2, Programmed
  <2>. QED BY <2>3, <1>1
<1>7. /\ \A w \in Vblks : vcount'[w] = IF w = v THEN vcount_of_active[R] ELSE vcount[w]
      /\ \A w \in Vblks : lists'[w] = IF w = v THEN lpn_list[R] ELSE lists[w]
      /\ \A w \in Vblks : age'[w] = IF w = v THEN global_age ELSE age[w]
      /\ \A r \in Regions : lpn_list'[r] = IF r = R THEN NoList ELSE lpn_list[r]
      /\ \A r \in Regions : vcount_of_active'[r] = IF r = R THEN 0 ELSE vcount_of_active[r]
  BY <1>1, <1>2 DEF TypeOK
<1>8. NoList \in [Pages -> Mapped]
  BY Consts DEF NoList
<1>9. TypeOK'
  <2>1. flash' \in [Vblks -> [Pages -> Content]]
    BY <1>6 DEF TypeOK, Content
  <2>2. lists' \in [Vblks -> [Pages -> Mapped]] /\ lpn_list' \in [Regions -> [Pages -> Mapped]]
    BY <1>1, <1>2, <1>8 DEF TypeOK
  <2>3. vcount' \in [Vblks -> Pages \cup NotForVictim] /\ vcount_of_active' \in [Regions -> Nat]
    BY <1>1, <1>2, <1>4 DEF TypeOK
  <2>4. age' \in [Vblks -> Nat] /\ \A w \in Vblks : age'[w] <= global_age
    BY <1>1, <1>2, <1>7 DEF TypeOK
  <2>. QED BY <1>1, <1>2, <2>1, <2>2, <2>3, <2>4 DEF TypeOK, Steps
<1>10. /\ \A r \in Regions : cur_write_vpn[r][1] = v <=> r = R
       /\ \A r \in Regions : IsOpen(r)' <=> r # R
  <2>1. \A r \in Regions : cur_write_vpn[r][1] = v <=> r = R
    BY <1>2 DEF Roles
  <2>2. ASSUME NEW r \in Regions PROVE IsOpen(r)' <=> r # R
    <3> DEFINE c == cur_write_vpn[r][1]
    <3>1. c \in Vblks /\ vcount[c] = VC_ACTIVE /\ cur_write_vpn'[r][1] = c
      BY <1>1, <1>3, Pointer DEF IsOpen
    <3>2. vcount'[c] = IF c = v THEN vcount_of_active[R] ELSE vcount[c]
      BY <1>7, <3>1
    <3>3. c = v <=> r = R
      BY <2>1
    <3> HIDE DEF c, v
    <3>4. vcount'[c] = VC_ACTIVE <=> r # R
      BY <1>4, <3>1, <3>2, <3>3, Consts
    <3>. QED BY <3>1, <3>4 DEF IsOpen
  <2>. QED BY <2>1, <2>2
<1>11. Roles'
  <2>1. v \notin BadBlks /\ gc_vblock # v /\ region[v] = R
    BY <1>1, <1>2, <1>3, <1>4, Consts DEF Roles, Good
  <2>2. \A r \in Regions : ~IsOpen(r)' => pc' = "gc" /\ r = new_region' /\ cur_write_vpn'[r] = <<vblock', LastDataPage>>
    BY <1>1, <1>2, <1>10
  <2>3. \A w \in Vblks : vcount'[w] = VC_ACTIVE => \E r \in Regions : cur_write_vpn'[r][1] = w
    BY <1>1, <1>4, <1>7, Consts DEF Roles
  <2>4. \A w \in Vblks : Closed(w)' => region'[w] \in Regions
    BY <1>1, <1>2, <1>7, <2>1 DEF Roles, Closed
  <2>5. \A r \in Regions : IsOpen(r)' => region'[cur_write_vpn'[r][1]] = r
    BY <1>1, <1>3 DEF Roles
  <2>6. vcount'[gc_vblock'] = VC_MAX
    BY <1>1, <1>7, <2>1, Consts DEF Roles, TypeOK
  <2>7. /\ \A w \in BadBlks : vcount'[w] = VC_MAX
        /\ \A w \in Good : vcount'[w] = VC_MAX => w = gc_vblock'
    BY <1>1, <1>4, <1>7, <2>1, Consts DEF Roles
  <2>. QED BY <1>1, <2>2, <2>3, <2>4, <2>5, <2>6, <2>7 DEF Roles
<1>12. ErasedOK'
  <2>1. \A w \in Vblks : \A q \in Pages : flash'[w][q] = IF w = v /\ q = last THEN List ELSE flash[w][q]
    BY <1>6
  <2>2. \A w \in Vblks : vcount'[w] = VC_FREE \/ (w = gc_vblock' /\ vcount'[w] = VC_MAX)
                         => \A q \in Pages : flash'[w][q] = Erased
    <3>1. ASSUME NEW w \in Vblks, vcount'[w] \in {VC_FREE, VC_MAX} PROVE w # v /\ vcount'[w] = vcount[w]
      BY <1>4, <1>7, <3>1, Consts
    <3>. QED BY <1>1, <2>1, <3>1 DEF ErasedOK
  <2>3. \A r \in Regions : IsOpen(r)' => \A q \in Pages : q > cur_write_vpn'[r][2] => flash'[cur_write_vpn'[r][1]][q] = Erased
    BY <1>1, <1>3, <1>10, <2>1, Pointer DEF ErasedOK
  <2>4. \A w \in Vblks : Closed(w)' => flash'[w][last] = List
    BY <1>4, <1>7, <2>1 DEF ErasedOK, Closed
  <2>. QED BY <1>1, <2>2, <2>3, <2>4 DEF ErasedOK
<1>13. UnlistedCnt'
  <2>1. Unlisted' = Unlisted \ {v}
    BY <1>4, <1>6, Consts, Contents DEF Unlisted
  <2>2. v \in Unlisted /\ IsFiniteSet(Unlisted)
    BY <1>2, <1>5, Finite, CardBounds DEF Unlisted
  <2>. QED BY <1>1, <2>1, <2>2, FS_RemoveElement DEF UnlistedCnt
<1>14. GcOK'
  <2>1. age'[v] = global_age' /\ vblock' = v /\ gc_vblock' # v
    BY <1>1, <1>2, <1>4, <1>7, Consts DEF Roles
  <2>2. ~IsOpen(new_region)'
    BY <1>1, <1>2, <1>10
  <2>. QED BY <1>1, <2>1, <2>2 DEF GcOK
<1>15. Mapping'
  <2>1. Pending' = Pending
    BY <1>1 DEF Pending
  <2>2. ASSUME NEW lpn, NEW w \in Vblks, NEW q \in DataPages, LiesIn(lpn, w, q)
        PROVE  LiesIn(lpn, w, q)'
    <3>1. q \in Pages /\ q # last
      BY Consts
    <3>2. flash'[w][q] = lpn
      BY <1>6, <2>2, <3>1 DEF LiesIn
    <3>3. vcount'[w] # VC_FREE /\ vcount'[w] # VC_MAX
      BY <1>4, <1>7, <2>2, Consts DEF LiesIn
    <3>4. Closed(w)' => lists'[w][q] = lpn
      <4>1. vcount[v] = VC_ACTIVE /\ R \in Regions /\ cur_write_vpn[R][1] = v
        BY <1>2, <1>4
      <4>2. w = v => lpn_list[R][q] = lpn
        BY <2>2, <4>1 DEF LiesIn
      <4>. QED BY <4>2, <1>7, <2>2 DEF LiesIn, Closed
    <3>5. vcount'[w] = VC_ACTIVE => \A r \in Regions : cur_write_vpn'[r][1] = w => lpn_list'[r][q] = lpn
      BY <1>1, <1>2, <1>4, <1>7, <2>2, Consts DEF LiesIn
    <3>. QED BY <3>2, <3>3, <3>4, <3>5 DEF LiesIn
  <2>. QED BY <1>1, <2>1, <2>2 DEF Mapping
<1>16. Counts'
  <2>1. \A w \in Vblks : LiveIn(w)' = LiveIn(w)
    BY <1>1 DEF LiveIn, Pending
  <2>2. \A w \in Vblks : Closed(w)' => Cardinality(LiveIn(w)') <= vcount'[w]
    BY <1>2, <1>4, <1>7, <2>1 DEF Counts, Closed
  <2>3. \A w \in Vblks : \A r \in Regions : vcount'[w] = VC_ACTIVE /\ cur_write_vpn'[r][1] = w
                                         => Cardinality(LiveIn(w)') <= vcount_of_active'[r]
    BY <1>1, <1>4, <1>7, <1>10, <2>1, Consts DEF Counts
  <2>4. \A r \in Regions : vcount_of_active'[r] <= IF IsOpen(r)' THEN cur_write_vpn'[r][2] + 1 ELSE 0
    BY <1>1, <1>3, <1>7, <1>10 DEF Counts
  <2>. QED BY <1>1, <2>2, <2>3, <2>4 DEF Counts
<1>. QED BY <1>9, <1>11, <1>12, <1>13, <1>14, <1>15, <1>16

\* No page in use is in a free block, a bad one or the one kept for garbage collection.
LEMMA FreeIsEmpty ==
  ASSUME TypeOK, Mapping, NEW v \in Vblks, vcount[v] \in {VC_FREE, VC_MAX}
  PROVE  LiveIn(v) = {} /\ Cardinality(LiveIn(v)) = 0
<1>1. ASSUME NEW lpn \in LiveIn(v) PROVE FALSE
  <2>1. lpn \in Lpns \ Pending /\ page_map[lpn] # Null /\ page_map[lpn][1] = v
    BY DEF LiveIn
  <2>2. page_map[lpn][2] \in DataPages /\ page_map[lpn] = <<v, page_map[lpn][2]>> /\ lpn \in written \ Pending
    BY <2>1, MappedPage DEF Mapping
  <2>3. LiesIn(lpn, v, page_map[lpn][2])
    BY <2>2 DEF Mapping
  <2>. QED BY <2>3 DEF LiesIn
<1>. QED BY <1>1, FS_EmptySet

\* Garbage collection freed a block: the next one found becomes the active block.
LEMMA NextFreeStep ==
  ASSUME IInv, NextFreeBlk
  PROVE  IInv'
<1> DEFINE R == new_region
           n == NextFree
<1> USE DEF IInv
<1>1. /\ pc = "gc" /\ pc' = "program" /\ FreeBlks # {} /\ n # vblock
      /\ region' = [region EXCEPT ![n] = R]
      /\ vcount' = [vcount EXCEPT ![n] = VC_ACTIVE]
      /\ vcount_of_active' = [vcount_of_active EXCEPT ![R] = 0]
      /\ cur_write_vpn' = [cur_write_vpn EXCEPT ![R] = <<n, 0>>]
      /\ page_map' = page_map /\ lpn_list' = lpn_list /\ age' = age /\ gc_vblock' = gc_vblock
      /\ free_blk_cnt' = free_blk_cnt /\ flash' = flash /\ lists' = lists
      /\ req' = req /\ data' = data /\ new_region' = new_region /\ written' = written /\ todo' = todo
      /\ global_age' = global_age /\ vblock' = vblock /\ vt' = vt
  BY DEF NextFreeBlk, SearchEnds, TakesClosedBlk, nandVars, reqVars, hostVars
<1>2. ~IsOpen(R) /\ cur_write_vpn[R] = <<vblock, LastDataPage>> /\ R \in Regions
  BY <1>1 DEF GcOK, Roles, TypeOK
<1>3. n \in FreeBlks
  BY <1>1, NextFreeIn DEF TypeOK
<1> HIDE DEF n
<1>4. n \in Vblks /\ vcount[n] = VC_FREE /\ n \in Good
  BY <1>3, InUseIsGood, Consts DEF FreeBlks
<1>5. /\ \A w \in Vblks : vcount'[w] = IF w = n THEN VC_ACTIVE ELSE vcount[w]
      /\ \A w \in Vblks : region'[w] = IF w = n THEN R ELSE region[w]
      /\ \A r \in Regions : vcount_of_active'[r] = IF r = R THEN 0 ELSE vcount_of_active[r]
      /\ \A r \in Regions : cur_write_vpn'[r] = IF r = R THEN <<n, 0>> ELSE cur_write_vpn[r]
  BY <1>1, <1>2, <1>4 DEF TypeOK
<1>6. cur_write_vpn'[R][1] = n /\ cur_write_vpn'[R][2] = 0
  BY <1>2, <1>5
<1>7. \A r \in Regions : r # R => IsOpen(r) /\ cur_write_vpn[r][1] # n
  <2>1. \A r \in Regions : r # R => IsOpen(r)
    BY DEF Roles
  <2>. QED BY <2>1, <1>4, Consts DEF IsOpen
<1>8. \A r \in Regions : IsOpen(r)'
  <2>1. ASSUME NEW r \in Regions, r # R PROVE IsOpen(r)'
    <3>1. cur_write_vpn[r][1] \in Vblks /\ cur_write_vpn[r][1] # n /\ vcount[cur_write_vpn[r][1]] = VC_ACTIVE
      BY <2>1, <1>7, Pointer DEF IsOpen
    <3>2. cur_write_vpn'[r][1] = cur_write_vpn[r][1]
      BY <2>1, <1>5
    <3>. QED BY <3>1, <3>2, <1>5 DEF IsOpen
  <2>2. IsOpen(R)'
    BY <1>1, <1>4, <1>5, <1>6 DEF IsOpen
  <2>. QED BY <2>1, <2>2, <1>1 DEF IsOpen
<1>9. TypeOK'
  <2>1. cur_write_vpn' \in [Regions -> Good \X DataPages]
    <3>1. <<n, 0>> \in Good \X DataPages
      BY <1>4, Consts
    <3>. QED BY <1>1, <3>1 DEF TypeOK
  <2>2. vcount' \in [Vblks -> Pages \cup NotForVictim] /\ vcount_of_active' \in [Regions -> Nat] /\ DOMAIN region' = Vblks
    BY <1>1 DEF TypeOK, NotForVictim
  <2>. QED BY <1>1, <2>1, <2>2 DEF TypeOK, Steps
<1>10. Roles'
  <2>1. gc_vblock # n /\ n \notin BadBlks
    BY <1>1, <1>4, Consts DEF Roles, Good
  <2>2. /\ \A v \in BadBlks : vcount'[v] = VC_MAX
        /\ \A v \in Good : vcount'[v] = VC_MAX => v = gc_vblock'
        /\ vcount'[gc_vblock'] = VC_MAX
    <3>1. \A v \in Vblks : v # n => vcount'[v] = vcount[v]
      BY <1>5
    <3>2. vcount'[n] = VC_ACTIVE /\ vcount[gc_vblock] = VC_MAX /\ gc_vblock \in Vblks
      BY <1>1, <1>4, <1>5, Consts DEF Roles, TypeOK
    <3>3. Good \subseteq Vblks /\ BadBlks \subseteq Vblks /\ VC_MAX # VC_ACTIVE
      BY Consts
    <3>. QED BY <1>1, <2>1, <3>1, <3>2, <3>3 DEF Roles
  <2>3. ASSUME NEW v \in Vblks, vcount'[v] = VC_ACTIVE PROVE \E r \in Regions : cur_write_vpn'[r][1] = v
    <3>1. CASE v = n
      BY <3>1, <1>2, <1>6
    <3>2. CASE v # n
      <4>1. vcount[v] = VC_ACTIVE
        BY <2>3, <3>2, <1>5
      <4>2. PICK r \in Regions : cur_write_vpn[r][1] = v
        BY <4>1 DEF Roles
      <4>3. r # R
        BY <4>1, <4>2, <1>2 DEF IsOpen
      <4>. QED BY <4>2, <4>3, <1>5
    <3>. QED BY <3>1, <3>2
  <2>4. \A r, s \in Regions : r # s => cur_write_vpn'[r][1] # cur_write_vpn'[s][1]
    BY <1>5, <1>6, <1>7 DEF Roles
  <2>5. \A r \in Regions : region'[cur_write_vpn'[r][1]] = r
    <3>1. ASSUME NEW r \in Regions, r # R PROVE region'[cur_write_vpn'[r][1]] = r
      <4>1. region[cur_write_vpn[r][1]] = r /\ cur_write_vpn[r][1] # n /\ cur_write_vpn[r][1] \in Vblks
        BY <3>1, <1>7, Pointer DEF Roles
      <4>. QED BY <4>1, <3>1, <1>5
    <3>. QED BY <3>1, <1>4, <1>5, <1>6
  <2>6. \A v \in Vblks : Closed(v)' => region'[v] \in Regions
    BY <1>5, Consts DEF Roles, Closed
  <2>. QED BY <1>8, <2>2, <2>3, <2>4, <2>5, <2>6 DEF Roles
<1>11. ErasedOK'
  <2>1. \A v \in Vblks : vcount'[v] = VC_FREE \/ (v = gc_vblock' /\ vcount'[v] = VC_MAX)
                         => \A q \in Pages : flash'[v][q] = Erased
    BY <1>1, <1>5, Consts DEF ErasedOK
  <2>2. \A q \in Pages : flash[n][q] = Erased
    BY <1>4 DEF ErasedOK
  <2>3. \A r \in Regions : \A q \in Pages : q > cur_write_vpn'[r][2] => flash'[cur_write_vpn'[r][1]][q] = Erased
    BY <1>1, <1>5, <1>6, <1>7, <2>2 DEF ErasedOK
  <2>4. At(cur_write_vpn[new_region])' = Erased
    BY <1>1, <1>6, <2>2, Consts DEF At
  <2>5. \A v \in Vblks : Closed(v)' => flash'[v][PagesPerBlk - 1] = List
    <3>1. \A v \in Vblks : Closed(v)' => Closed(v)
      BY <1>5, Consts DEF Closed
    <3>. QED BY <1>1, <3>1 DEF ErasedOK
  <2>. QED BY <2>1, <2>3, <2>4, <2>5 DEF ErasedOK
<1>12. UnlistedCnt'
  BY <1>1 DEF UnlistedCnt, Unlisted
<1>13. GcOK'
  BY <1>1, <1>2, <1>8 DEF GcOK
<1>14. Mapping'
  <2>1. Pending' = Pending
    BY <1>1 DEF Pending
  <2>2. ASSUME NEW lpn, NEW w \in Vblks, NEW q \in DataPages, LiesIn(lpn, w, q)
        PROVE  LiesIn(lpn, w, q)'
    <3>1. w # n /\ vcount'[w] = vcount[w]
      BY <2>2, <1>4, <1>5 DEF LiesIn
    <3>2. \A r \in Regions : cur_write_vpn'[r][1] = w => r # R /\ cur_write_vpn[r][1] = w
      BY <3>1, <1>5, <1>6
    <3>. QED BY <1>1, <2>2, <3>1, <3>2 DEF LiesIn, Closed
  <2>. QED BY <1>1, <2>1, <2>2 DEF Mapping
<1>15. Counts'
  <2>1. \A w \in Vblks : LiveIn(w)' = LiveIn(w)
    BY <1>1 DEF LiveIn, Pending
  <2>2. \A w \in Vblks : Closed(w)' => Cardinality(LiveIn(w)') <= vcount'[w]
    BY <1>5, <2>1, Consts DEF Counts, Closed
  <2>3. Cardinality(LiveIn(n)) = 0
    BY <1>4, FreeIsEmpty
  <2>4. ASSUME NEW w \in Vblks, NEW r \in Regions, vcount'[w] = VC_ACTIVE, cur_write_vpn'[r][1] = w
        PROVE  Cardinality(LiveIn(w)') <= vcount_of_active'[r]
    <3>1. CASE r = R
      <4>1. w = n /\ vcount_of_active'[r] = 0
        BY <3>1, <2>4, <1>5, <1>6
      <4>2. Cardinality(LiveIn(w)) = 0 /\ LiveIn(w)' = LiveIn(w)
        BY <4>1, <2>1, <2>3
      <4>. QED BY <4>1, <4>2
    <3>2. CASE r # R
      <4>1. cur_write_vpn[r][1] = w /\ w # n /\ vcount_of_active'[r] = vcount_of_active[r]
        BY <3>2, <2>4, <1>5, <1>7
      <4>2. vcount[w] = VC_ACTIVE
        BY <4>1, <2>4, <1>5
      <4>. QED BY <4>1, <4>2, <2>1 DEF Counts
    <3>. QED BY <3>1, <3>2
  <2>5. \A r \in Regions : vcount_of_active'[r] <= cur_write_vpn'[r][2] + 1
    BY <1>5, <1>6, <1>7, Consts DEF Counts
  <2>. QED BY <1>1, <1>2, <1>5, <1>6, <1>8, <2>2, <2>4, <2>5 DEF Counts
<1>. QED BY <1>9, <1>10, <1>11, <1>12, <1>13, <1>14, <1>15

-----------------------------------------------------------------------------
(***************************************************************************)
(* Steps of garbage_collection.                                            *)
(***************************************************************************)
\* A victim with pages to copy is selected.
LEMMA SelectStep ==
  ASSUME IInv, SelectVictim
  PROVE  IInv'
<1> USE DEF IInv
<1>1. /\ pc = "gc" /\ pc' = "copy" /\ is_full_all_blks /\ Victim \in Candidates \ Empty /\ vt' = Victim
      /\ page_map' = page_map /\ lpn_list' = lpn_list /\ vcount_of_active' = vcount_of_active
      /\ vcount' = vcount /\ region' = region /\ age' = age /\ gc_vblock' = gc_vblock
      /\ free_blk_cnt' = free_blk_cnt /\ flash' = flash /\ lists' = lists /\ cur_write_vpn' = cur_write_vpn
      /\ req' = req /\ data' = data /\ new_region' = new_region /\ written' = written /\ todo' = todo
      /\ global_age' = global_age /\ vblock' = vblock
  BY DEF SelectVictim, GcNeeded, regVars, blkVars, nandVars, reqVars, hostVars
<1>2. ~IsOpen(new_region) /\ FreeBlks = {}
  BY <1>1, FullMeansDead
<1>3. Victim \in Vblks /\ Closed(Victim)
  BY <1>1, Candidate
<1>4. vcount[gc_vblock] = VC_MAX
  BY <1>1 DEF Roles
<1>5. TypeOK' /\ Roles'
  BY <1>1, <1>3, <1>4 DEF TypeOK, Steps, Roles, IsOpen, Closed
<1>6. ErasedOK' /\ UnlistedCnt' /\ Mapping'
  BY <1>1 DEF ErasedOK, UnlistedCnt, Unlisted, Mapping, LiesIn, Pending, IsOpen, Closed
<1>7. GcOK'
  <2>1. NoWorth' <=> NoWorth
    BY <1>1 DEF NoWorth, Candidates, Empty, Cost
  <2>2. Victim = vblock => vblock = META_BLKS_PER_BANK /\ NoWorth
    BY <1>1, <1>2, <1>3, VictimIs DEF GcOK
  <2>3. gc_vblock # vblock
    <3>1. gc_vblock = vblock => Victim = vblock
      BY <1>1, <1>2, VictimIs DEF GcOK
    <3>. QED BY <3>1, <1>3, <1>4, Consts DEF Closed
  <2>4. ~IsOpen(new_region)' /\ ~GcBlkUsed' /\ FreeBlks' = {} /\ Closed(vt)'
    BY <1>1, <1>2, <1>3, <1>4, Consts DEF IsOpen, GcBlkUsed, FreeBlks, Closed
  <2>5. Closed(vblock)' => age'[vblock'] = global_age'
    BY <1>1, <1>2 DEF GcOK, Closed
  <2>. QED BY <1>1, <2>1, <2>2, <2>3, <2>4, <2>5 DEF GcOK
<1>8. Counts'
  <2>1. \A v \in Vblks : LiveIn(v)' = LiveIn(v)
    BY <1>1 DEF LiveIn, Pending
  <2>. QED BY <1>1, <2>1 DEF Counts, IsOpen, Closed
<1>. QED BY <1>5, <1>6, <1>7, <1>8

\* A closed block without pages in use is erased, and is free from then on or kept for garbage
\* collection in place of a block used up.
LEMMA EraseBlock ==
  ASSUME TypeOK, Roles, ErasedOK, UnlistedCnt, Mapping, Counts,
         NEW x \in Vblks, Closed(x), LiveIn(x) = {}, NEW c,
         \/ c = VC_FREE /\ vcount[gc_vblock] = VC_MAX /\ gc_vblock' = gc_vblock
         \/ c = VC_MAX /\ vcount[gc_vblock] = VC_ACTIVE /\ gc_vblock' = x,
         flash' = BlockErased(flash, x), region' = [region EXCEPT ![x] = INVALID16],
         vcount' = [vcount EXCEPT ![x] = c], free_blk_cnt' = free_blk_cnt + 1,
         pc \in {"gc", "copy"}, pc' = "gc",
         UNCHANGED <<page_map, regVars, age, lists, reqVars, hostVars, global_age, vblock, vt>>
  PROVE  /\ TypeOK' /\ Roles' /\ ErasedOK' /\ UnlistedCnt' /\ Mapping' /\ Counts'
         /\ \A v \in Vblks : vcount'[v] = IF v = x THEN c ELSE vcount[v]
         /\ \A r \in Regions : IsOpen(r)' <=> IsOpen(r)
<1>1. /\ page_map' = page_map /\ cur_write_vpn' = cur_write_vpn /\ lpn_list' = lpn_list
      /\ vcount_of_active' = vcount_of_active /\ age' = age /\ lists' = lists /\ req' = req /\ data' = data
      /\ new_region' = new_region /\ written' = written /\ todo' = todo
      /\ global_age' = global_age /\ vblock' = vblock /\ vt' = vt
  BY DEF regVars, reqVars, hostVars
<1>2. /\ \A v \in Vblks : vcount'[v] = IF v = x THEN c ELSE vcount[v]
      /\ \A v \in Vblks : region'[v] = IF v = x THEN INVALID16 ELSE region[v]
      /\ \A v \in Vblks : \A p \in Pages : flash'[v][p] = IF v = x THEN Erased ELSE flash[v][p]
  BY DEF TypeOK, BlockErased
<1>3. /\ c \notin Nat /\ c # VC_ACTIVE /\ c \in NotForVictim /\ vcount[x] \in Nat /\ vcount[x] # VC_ACTIVE
      /\ x \in Good /\ gc_vblock' \in Good
  BY InUseIsGood, Consts DEF TypeOK, NotForVictim, Closed
<1>4. \A v \in Vblks : v # x => vcount'[v] = vcount[v] /\ region'[v] = region[v] /\ (Closed(v)' <=> Closed(v))
  BY <1>2 DEF Closed
<1>5. ~Closed(x)' /\ vcount'[x] = c
  BY <1>2, <1>3 DEF Closed
<1>6. \A r \in Regions : IsOpen(r) => cur_write_vpn[r][1] # x
  BY <1>3 DEF IsOpen
<1>7. ASSUME NEW r \in Regions PROVE IsOpen(r)' <=> IsOpen(r)
  <2>1. cur_write_vpn[r][1] \in Vblks /\ cur_write_vpn'[r][1] = cur_write_vpn[r][1]
    BY <1>1, Pointer
  <2>. QED BY <2>1, <1>2, <1>3 DEF IsOpen
<1>8. TypeOK'
  <2>1. flash' \in [Vblks -> [Pages -> Content]]
    BY DEF TypeOK, BlockErased, Content
  <2>2. vcount' \in [Vblks -> Pages \cup NotForVictim] /\ DOMAIN region' = Vblks
    BY <1>3 DEF TypeOK
  <2>. QED BY <1>1, <1>3, <2>1, <2>2 DEF TypeOK, Steps
<1>9. Roles'
  <2>1. \A v \in BadBlks : vcount'[v] = VC_MAX
    BY <1>3, <1>4, Consts DEF Roles, Good
  <2>2. \A v \in Good : vcount'[v] = VC_MAX => v = gc_vblock'
    <3> SUFFICES ASSUME NEW v \in Good, vcount'[v] = VC_MAX, v # x PROVE v = gc_vblock /\ gc_vblock' = gc_vblock
      BY <1>5, Consts
    <3>1. vcount[v] = VC_MAX
      BY <1>4, Consts
    <3>2. v = gc_vblock
      BY <3>1 DEF Roles
    <3>. QED BY <3>1, <3>2, Consts
  <2>3. vcount'[gc_vblock'] = VC_MAX
    <3>1. gc_vblock \in Vblks
      BY Consts DEF TypeOK
    <3>2. vcount[gc_vblock] = VC_MAX => gc_vblock # x
      BY <1>3, Consts
    <3>. QED BY <3>1, <3>2, <1>4, <1>5, Consts
  <2>4. \A v \in Vblks : vcount'[v] = VC_ACTIVE => \E r \in Regions : cur_write_vpn'[r][1] = v
    BY <1>1, <1>3, <1>4, <1>5 DEF Roles
  <2>5. \A r \in Regions : ~IsOpen(r)' => /\ pc' \in {"gc", "copy", "assert"} /\ r = new_region'
                                          /\ cur_write_vpn'[r] = <<vblock', LastDataPage>>
    BY <1>1, <1>7 DEF Roles
  <2>6. \A r \in Regions : IsOpen(r)' => region'[cur_write_vpn'[r][1]] = r
    BY <1>1, <1>4, <1>6, <1>7, Pointer DEF Roles
  <2>7. \A v \in Vblks : Closed(v)' => region'[v] \in Regions
    BY <1>4, <1>5 DEF Roles
  <2>8. \A r, s \in Regions : r # s => cur_write_vpn'[r][1] # cur_write_vpn'[s][1]
    BY <1>1 DEF Roles
  <2>. QED BY <2>1, <2>2, <2>3, <2>4, <2>5, <2>6, <2>7, <2>8 DEF Roles
<1>10. ErasedOK'
  <2>1. \A v \in Vblks : vcount'[v] = VC_FREE \/ (v = gc_vblock' /\ vcount'[v] = VC_MAX)
                         => \A p \in Pages : flash'[v][p] = Erased
    BY <1>2, <1>4, Consts DEF ErasedOK
  <2>2. \A r \in Regions : IsOpen(r)' => \A p \in Pages : p > cur_write_vpn'[r][2] => flash'[cur_write_vpn'[r][1]][p] = Erased
    BY <1>1, <1>2, <1>6, <1>7, Pointer DEF ErasedOK
  <2>3. \A v \in Vblks : Closed(v)' => flash'[v][PagesPerBlk - 1] = List
    BY <1>2, <1>4, <1>5, Consts DEF ErasedOK
  <2>. QED BY <2>1, <2>2, <2>3 DEF ErasedOK
<1>11. UnlistedCnt'
  <2>1. flash[x][PagesPerBlk - 1] = List
    BY DEF ErasedOK
  <2>2. Unlisted' = Unlisted \cup {x} /\ x \notin Unlisted
    BY <2>1, <1>2, <1>3, Consts, Contents DEF Unlisted
  <2>3. IsFiniteSet(Unlisted)
    BY Finite, CardBounds DEF Unlisted
  <2>. QED BY <2>2, <2>3, FS_AddElement DEF UnlistedCnt
<1>12. Pending' = Pending
  BY <1>1 DEF Pending
<1>13. Mapping'
  <2>1. ASSUME NEW lpn \in written \ Pending, NEW w \in Vblks, NEW q \in DataPages, page_map[lpn] = <<w, q>>
        PROVE  LiesIn(lpn, w, q)'
    <3>1. LiesIn(lpn, w, q)
      BY <2>1 DEF Mapping
    <3>2. w # x
      <4>1. lpn \in Lpns \ Pending /\ page_map[lpn] # Null
        BY <2>1 DEF Mapping, TypeOK
      <4>2. page_map[lpn][1] = w
        BY <2>1
      <4>3. w = x => lpn \in LiveIn(x)
        BY <4>1, <4>2 DEF LiveIn
      <4>. QED BY <4>3
    <3>3. q \in Pages
      BY Consts
    <3>. QED BY <1>1, <1>2, <1>4, <3>1, <3>2, <3>3 DEF LiesIn
  <2>. QED BY <1>1, <1>12, <2>1 DEF Mapping
<1>14. Counts'
  <2>1. \A v \in Vblks : LiveIn(v)' = LiveIn(v)
    BY <1>1, <1>12 DEF LiveIn
  <2>2. \A v \in Vblks : Closed(v)' => Cardinality(LiveIn(v)') <= vcount'[v]
    BY <1>4, <1>5, <2>1 DEF Counts
  <2>3. \A v \in Vblks : \A r \in Regions : vcount'[v] = VC_ACTIVE /\ cur_write_vpn'[r][1] = v
                                         => Cardinality(LiveIn(v)') <= vcount_of_active'[r]
    BY <1>1, <1>3, <1>4, <1>5, <2>1 DEF Counts
  <2>4. \A r \in Regions : vcount_of_active'[r] <= IF IsOpen(r)' THEN cur_write_vpn'[r][2] + 1 ELSE 0
    BY <1>1, <1>7 DEF Counts
  <2>. QED BY <2>2, <2>3, <2>4 DEF Counts
<1>. QED BY <1>2, <1>7, <1>8, <1>9, <1>10, <1>11, <1>13, <1>14

\* What is worth being collected does not change when a block stops being a candidate.
LEMMA NoWorthKept ==
  ASSUME TypeOK, NoWorth, NEW x \in Vblks, NEW c \in NotForVictim, vcount' = [vcount EXCEPT ![x] = c],
         age' = age, global_age' = global_age
  PROVE  NoWorth'
<1>1. \A v \in Vblks : vcount'[v] = IF v = x THEN c ELSE vcount[v]
  BY DEF TypeOK
<1>2. ASSUME NEW v \in (Candidates \ Empty)' PROVE v \in Candidates \ Empty /\ vcount'[v] = vcount[v]
  BY <1>1 DEF Candidates, Empty
<1>. QED BY <1>2 DEF NoWorth, Cost

\* A victim without valid pages is erased unseen: nothing in use is in it.
LEMMA EraseEmptyStep ==
  ASSUME IInv, EraseEmptyVictim
  PROVE  IInv'
<1> DEFINE x == Victim
<1> USE DEF IInv
<1>1. /\ pc = "gc" /\ pc' = "gc" /\ is_full_all_blks /\ vcount[x] = 0
      /\ flash' = BlockErased(flash, x) /\ region' = [region EXCEPT ![x] = INVALID16]
      /\ vcount' = [vcount EXCEPT ![x] = VC_FREE] /\ free_blk_cnt' = free_blk_cnt + 1
      /\ gc_vblock' = gc_vblock
      /\ UNCHANGED <<page_map, regVars, age, lists, reqVars, hostVars, global_age, vblock, vt>>
  BY DEF EraseEmptyVictim, GcNeeded
<1>2. ~IsOpen(new_region) /\ new_region \in Regions
  BY <1>1, FullMeansDead DEF TypeOK
<1>3. x \in Vblks /\ Closed(x)
  BY <1>1, EmptyVictim
<1> HIDE DEF x
<1>4. LiveIn(x) = {}
  <2>1. Cardinality(LiveIn(x)) <= 0 /\ IsFiniteSet(LiveIn(x)) /\ Cardinality(LiveIn(x)) \in Nat
    BY <1>1, <1>3, LiveFinite DEF Counts
  <2>. QED BY <2>1, FS_EmptySet
<1>5. vcount[gc_vblock] = VC_MAX
  BY <1>1 DEF Roles
<1>6. /\ TypeOK' /\ Roles' /\ ErasedOK' /\ UnlistedCnt' /\ Mapping' /\ Counts'
      /\ \A v \in Vblks : vcount'[v] = IF v = x THEN VC_FREE ELSE vcount[v]
      /\ \A r \in Regions : IsOpen(r)' <=> IsOpen(r)
  <2>1. pc \in {"gc", "copy"} /\ pc' = "gc"
    BY <1>1
  <2>. QED BY <1>1, <1>3, <1>4, <1>5, <2>1, EraseBlock
<1>7. GcOK'
  <2>1. vblock' = vblock /\ new_region' = new_region /\ age' = age /\ global_age' = global_age
    BY <1>1 DEF reqVars
  <2>2. ~IsOpen(new_region)'
    BY <1>2, <1>6, <2>1 DEF IsOpen
  <2>3. Closed(vblock)' => age'[vblock'] = global_age'
    BY <1>2, <1>6, <2>1, Consts DEF GcOK, Closed, TypeOK
  <2>4. NoWorth => NoWorth'
    BY <1>1, <1>3, <2>1, NoWorthKept DEF NotForVictim
  <2>. QED BY <1>1, <1>2, <2>1, <2>2, <2>3, <2>4 DEF GcOK
<1>. QED BY <1>6, <1>7

\* A victim whose pages were copied is erased.
LEMMA EraseVictimStep ==
  ASSUME IInv, EraseVictim
  PROVE  IInv'
<1> USE DEF IInv
<1> DEFINE c == IF GcBlkUsed THEN VC_MAX ELSE VC_FREE
<1>1. /\ pc = "copy" /\ pc' = "gc" /\ LivePages = {}
      /\ flash' = BlockErased(flash, vt) /\ region' = [region EXCEPT ![vt] = INVALID16]
      /\ vcount' = [vcount EXCEPT ![vt] = c] /\ free_blk_cnt' = free_blk_cnt + 1
      /\ gc_vblock' = IF GcBlkUsed THEN vt ELSE gc_vblock
      /\ UNCHANGED <<page_map, regVars, age, lists, reqVars, hostVars, global_age, vblock, vt>>
  BY DEF EraseVictim
<1>2. vt \in Vblks /\ Closed(vt) /\ FreeBlks = {}
  BY <1>1 DEF GcOK, TypeOK
<1>3. LiveIn(vt) = {}
  <2>1. ASSUME NEW lpn \in LiveIn(vt) PROVE FALSE
    <3> DEFINE p == page_map[lpn][2]
    <3>1. lpn \in Lpns \ Pending /\ page_map[lpn] # Null /\ page_map[lpn][1] = vt
      BY <2>1 DEF LiveIn
    <3>2. p \in DataPages /\ page_map[lpn] = <<vt, p>> /\ lpn \in written \ Pending
      BY <3>1, MappedPage DEF Mapping
    <3>3. lists[vt][p] = lpn
      BY <3>2, <1>2 DEF Mapping, LiesIn
    <3>. QED BY <1>1, <3>1, <3>2, <3>3 DEF LivePages, DataPages
  <2>. QED BY <2>1
<1>4. \/ c = VC_FREE /\ vcount[gc_vblock] = VC_MAX /\ gc_vblock' = gc_vblock /\ ~GcBlkUsed
      \/ c = VC_MAX /\ vcount[gc_vblock] = VC_ACTIVE /\ gc_vblock' = vt /\ GcBlkUsed
  BY <1>1, Consts DEF GcBlkUsed, Roles
<1> HIDE DEF c
<1>5. /\ TypeOK' /\ Roles' /\ ErasedOK' /\ UnlistedCnt' /\ Mapping' /\ Counts'
      /\ \A v \in Vblks : vcount'[v] = IF v = vt THEN c ELSE vcount[v]
      /\ \A r \in Regions : IsOpen(r)' <=> IsOpen(r)
  <2>1. pc \in {"gc", "copy"} /\ pc' = "gc"
    BY <1>1
  <2>. QED BY <1>1, <1>2, <1>3, <1>4, <2>1, EraseBlock
<1>6. GcOK'
  <2>1. vblock' = vblock /\ new_region' = new_region /\ age' = age /\ global_age' = global_age /\ vt' = vt
        /\ cur_write_vpn' = cur_write_vpn /\ new_region \in Regions /\ vblock \in Vblks
    BY <1>1 DEF reqVars, regVars, TypeOK
  <2>2. IsOpen(new_region)' <=> IsOpen(new_region)
    BY <1>5, <2>1 DEF IsOpen
  <2>3. ASSUME IsOpen(new_region) PROVE FreeBlks' = {}
    <3>1. GcBlkUsed
      BY <1>1, <2>3 DEF GcOK
    <3>. QED BY <3>1, <1>2, <1>4, <1>5, Consts DEF FreeBlks
  <2>4. ASSUME ~IsOpen(new_region)
        PROVE  /\ Closed(vblock)' => age'[vblock'] = global_age'
               /\ gc_vblock' = vblock' => vblock' = META_BLKS_PER_BANK /\ NoWorth'
    <3>1. Closed(vblock)' => Closed(vblock)
      BY <1>4, <1>5, <2>1, Consts DEF Closed
    <3>2. NoWorth => NoWorth'
      BY <1>1, <1>2, <1>4, <2>1, NoWorthKept DEF NotForVictim
    <3>3. gc_vblock' = vblock' => gc_vblock = vblock \/ vt = vblock
      BY <1>4, <2>1
    <3>. QED BY <1>1, <2>1, <2>4, <3>1, <3>2, <3>3 DEF GcOK
  <2>. QED BY <1>1, <2>1, <2>2, <2>3, <2>4 DEF GcOK
<1>. QED BY <1>5, <1>6

-----------------------------------------------------------------------------
(***************************************************************************)
(* The beginning and the end of write_page.                                *)
(***************************************************************************)
\* The block of a page in use knows its region, and is active when it is where this region
\* writes.
LEMMA RegionOf ==
  ASSUME TypeOK, Roles, NEW v \in Vblks, vcount[v] # VC_FREE, vcount[v] # VC_MAX
  PROVE  /\ Closed(v) \/ vcount[v] = VC_ACTIVE
         /\ region[v] \in Regions
         /\ vcount[v] = VC_ACTIVE => cur_write_vpn[region[v]][1] = v
<1>1. Closed(v) \/ vcount[v] = VC_ACTIVE
  <2>1. vcount[v] \in Pages \cup NotForVictim
    BY DEF TypeOK
  <2>. QED BY <2>1, Consts DEF Closed, NotForVictim
<1>2. Closed(v) => region[v] \in Regions
  BY DEF Roles
<1>3. ASSUME vcount[v] = VC_ACTIVE
      PROVE  region[v] \in Regions /\ cur_write_vpn[region[v]][1] = v
  <2>1. PICK r \in Regions : cur_write_vpn[r][1] = v
    BY <1>3 DEF Roles
  <2>2. region[v] = r
    BY <1>3, <2>1 DEF Roles, IsOpen
  <2>. QED BY <2>1, <2>2
<1>. QED BY <1>1, <1>2, <1>3

\* Taking a page off the count of its block closes and opens no block: the count of a
\* block that is not active is a number.
LEMMA WriteCounts ==
  ASSUME IInv, IInv', NEW r \in Request, write_page(r)
  PROVE  \A w \in Vblks : (Closed(w)' => Closed(w)) /\ (vcount'[w] = VC_ACTIVE => vcount[w] = VC_ACTIVE)
<1> DEFINE old == page_map[r.lpn]
           v   == old[1]
<1> USE DEF IInv
<1>1. \/ vcount' = vcount
      \/ /\ old # Null /\ v # cur_write_vpn[region[v]][1]
         /\ vcount' = [vcount EXCEPT ![v] = @ - 1]
  BY DEF write_page
<1>2. ASSUME old # Null, v # cur_write_vpn[region[v]][1]
      PROVE  v \in Vblks /\ Closed(v)
  <2>1. v \in Vblks /\ old[2] \in DataPages /\ old = <<v, old[2]>> /\ r.lpn \in Lpns
    BY <1>2, MappedPage DEF Request
  <2>2. pc = "idle" /\ r.lpn \in written \ Pending
    BY <1>2, <2>1 DEF write_page, Pending, Mapping
  <2>3. vcount[v] # VC_FREE /\ vcount[v] # VC_MAX
    BY <2>1, <2>2 DEF Mapping, LiesIn
  <2>. QED BY <1>2, <2>1, <2>3, RegionOf
<1>3. CASE vcount' = vcount
  BY <1>3 DEF Closed
<1>4. CASE old # Null /\ v # cur_write_vpn[region[v]][1] /\ vcount' = [vcount EXCEPT ![v] = @ - 1]
  <2>1. PICK x \in Vblks : x = v /\ vcount[x] \in Nat
    BY <1>2, <1>4 DEF Closed
  <2>2. \A w \in Vblks : vcount'[w] = IF w = x THEN vcount[x] - 1 ELSE vcount[w]
    BY <1>4, <2>1 DEF TypeOK
  <2>3. ASSUME vcount'[x] = VC_ACTIVE PROVE FALSE
    <3>1. PICK t \in Regions : cur_write_vpn'[t][1] = x
      BY <2>1, <2>3 DEF Roles
    <3>2. pc = "idle" /\ cur_write_vpn' = cur_write_vpn
      BY DEF write_page
    <3>3. vcount[x] = VC_ACTIVE
      BY <3>1, <3>2 DEF Roles, IsOpen
    <3>. QED BY <2>1, <3>3, Consts
  <2>. QED BY <2>1, <2>2, <2>3 DEF Closed
<1>. QED BY <1>1, <1>3, <1>4

\* The page to be written leaves the count of its block.
LEMMA WriteStep ==
  ASSUME IInv, NEW r \in Request, write_page(r)
  PROVE  IInv'
<1> DEFINE l   == r.lpn
           old == page_map[l]
           v   == old[1]
           s   == region[v]
<1> USE DEF IInv
<1>1. /\ pc = "idle" /\ pc' = "assign" /\ req' = r /\ todo # <<>> /\ todo' = Tail(todo)
      /\ data' = IF old = Null \/ r.whole \/ At(old) = l THEN l ELSE Old
      /\ page_map' = page_map /\ cur_write_vpn' = cur_write_vpn /\ lpn_list' = lpn_list /\ region' = region
      /\ age' = age /\ gc_vblock' = gc_vblock /\ free_blk_cnt' = free_blk_cnt /\ flash' = flash
      /\ lists' = lists /\ written' = written /\ global_age' = global_age /\ vblock' = vblock /\ vt' = vt
  BY DEF write_page, nandVars
<1>2. \/ /\ old = Null /\ new_region' = 0 /\ vcount' = vcount /\ vcount_of_active' = vcount_of_active
      \/ /\ old # Null /\ new_region' = Promoted(s) /\ v = cur_write_vpn[s][1]
         /\ vcount_of_active' = [vcount_of_active EXCEPT ![s] = @ - 1] /\ vcount' = vcount
      \/ /\ old # Null /\ new_region' = Promoted(s) /\ v # cur_write_vpn[s][1]
         /\ vcount' = [vcount EXCEPT ![v] = @ - 1] /\ vcount_of_active' = vcount_of_active
  BY DEF write_page, CountedIn
<1>3. l \in Lpns /\ Pending = {} /\ Pending' = {l}
  BY <1>1 DEF Request, Pending
<1>4. \A t \in Regions : IsOpen(t)
  BY <1>1 DEF Roles
<1>5. ASSUME old # Null
      PROVE  /\ v \in Vblks /\ l \in LiveIn(v) /\ s \in Regions /\ At(old) = l
             /\ IF v = cur_write_vpn[s][1] THEN vcount[v] = VC_ACTIVE ELSE Closed(v)
  <2>1. v \in Vblks /\ old[2] \in DataPages /\ old = <<v, old[2]>>
    BY <1>3, <1>5, MappedPage
  <2>2. LiesIn(l, v, old[2])
    BY <1>3, <1>5, <2>1 DEF Mapping
  <2>3. l \in LiveIn(v)
    BY <1>3, <1>5 DEF LiveIn
  <2>4. s \in Regions /\ (Closed(v) \/ vcount[v] = VC_ACTIVE) /\ (vcount[v] = VC_ACTIVE => cur_write_vpn[s][1] = v)
    BY <2>1, <2>2, RegionOf DEF LiesIn
  <2>5. v = cur_write_vpn[s][1] => vcount[v] = VC_ACTIVE
    BY <2>4, <1>4 DEF IsOpen
  <2>. QED BY <2>1, <2>2, <2>3, <2>4, <2>5 DEF LiesIn, At
<1>6. /\ \A w \in Vblks : LiveIn(w)' \subseteq LiveIn(w) /\ Cardinality(LiveIn(w)') <= Cardinality(LiveIn(w))
      /\ \A w \in Vblks : Cardinality(LiveIn(w)) \in Nat /\ Cardinality(LiveIn(w)') \in Nat
      /\ old # Null => /\ Cardinality(LiveIn(v)') <= Cardinality(LiveIn(v)) - 1 /\ Cardinality(LiveIn(v)) >= 1
  <2>1. ASSUME NEW w \in Vblks
        PROVE  /\ LiveIn(w)' \subseteq LiveIn(w) /\ l \notin LiveIn(w)'
               /\ Cardinality(LiveIn(w)') <= Cardinality(LiveIn(w))
               /\ Cardinality(LiveIn(w)) \in Nat /\ Cardinality(LiveIn(w)') \in Nat
               /\ l \in LiveIn(w) => Cardinality(LiveIn(w)') <= Cardinality(LiveIn(w)) - 1
    <3>1. LiveIn(w)' \subseteq LiveIn(w) /\ l \notin LiveIn(w)'
      BY <1>1, <1>3 DEF LiveIn
    <3>2. IsFiniteSet(LiveIn(w))
      BY LiveFinite
    <3> DEFINE A == LiveIn(w)
               B == LiveIn(w)'
    <3> HIDE DEF A, B
    <3>3. B \subseteq A /\ l \notin B /\ IsFiniteSet(A)
      BY <3>1, <3>2 DEF A, B
    <3>4. Cardinality(A) \in Nat /\ Cardinality(B) \in Nat /\ Cardinality(B) <= Cardinality(A)
          /\ (l \in A => Cardinality(B) <= Cardinality(A) - 1)
      BY <3>3, CardBounds
    <3>. QED BY <3>1, <3>4 DEF A, B
  <2>2. old # Null => Cardinality(LiveIn(v)') <= Cardinality(LiveIn(v)) - 1 /\ Cardinality(LiveIn(v)) >= 1
    <3>1. PICK w : w = v
      OBVIOUS
    <3>2. old # Null => w \in Vblks /\ l \in LiveIn(w)
      BY <1>5, <3>1
    <3>3. old # Null => Cardinality(LiveIn(w)') <= Cardinality(LiveIn(w)) - 1 /\ Cardinality(LiveIn(w)) >= 1
      BY <2>1, <3>2
    <3>4. v' = v
      BY <1>1
    <3>. QED BY <3>1, <3>3, <3>4
  <2>. QED BY <2>1, <2>2
<1>7. /\ vcount' \in [Vblks -> Pages \cup NotForVictim] /\ vcount_of_active' \in [Regions -> Nat]
      /\ \A w \in Vblks : (Closed(w)' <=> Closed(w)) /\ (~Closed(w) => vcount'[w] = vcount[w])
      /\ \A w \in Vblks : Closed(w) => Cardinality(LiveIn(w)') <= vcount'[w]
      /\ \A w \in Vblks : \A t \in Regions : vcount[w] = VC_ACTIVE /\ cur_write_vpn[t][1] = w
                                             => Cardinality(LiveIn(w)') <= vcount_of_active'[t]
      /\ \A t \in Regions : vcount_of_active'[t] <= vcount_of_active[t]
      /\ new_region' \in Regions
  <2>1. CASE old = Null
    <3>1. vcount' = vcount /\ vcount_of_active' = vcount_of_active /\ new_region' = 0
      BY <2>1, <1>2
    <3>2. \A w \in Vblks : Closed(w) => Cardinality(LiveIn(w)) <= vcount[w] /\ vcount[w] \in Nat
      BY DEF Counts, Closed
    <3>3. \A w \in Vblks : Closed(w) => Cardinality(LiveIn(w)') <= vcount[w]
      BY <3>2, <1>6
    <3>4. \A w \in Vblks : \A t \in Regions : vcount[w] = VC_ACTIVE /\ cur_write_vpn[t][1] = w
              => Cardinality(LiveIn(w)') <= vcount_of_active[t]
      BY <1>6 DEF Counts, TypeOK
    <3>5. \A t \in Regions : vcount_of_active[t] \in Nat /\ vcount_of_active[t] <= vcount_of_active[t]
      BY DEF TypeOK
    <3>6. 0 \in Regions
      BY Consts
    <3>. QED BY <3>1, <3>3, <3>4, <3>5, <3>6 DEF TypeOK, Closed
  <2>2. CASE old # Null
    <3>1. PICK u \in Vblks : u = v
      BY <1>5, <2>2
    <3>2. Cardinality(LiveIn(u)') <= Cardinality(LiveIn(u)) - 1 /\ Cardinality(LiveIn(u)) >= 1
      <4>1. v' = v
        BY <1>1
      <4>. QED BY <1>6, <2>2, <3>1, <4>1
    <3>3. new_region' \in Regions
      <4>1. s \in Regions /\ new_region' = Promoted(s)
        BY <1>2, <1>5, <2>2
      <4>. QED BY <4>1, Consts DEF Promoted, Regions
    <3>4. CASE u = cur_write_vpn[s][1]
      <4>1. s \in Regions /\ vcount[u] = VC_ACTIVE /\ vcount' = vcount
            /\ vcount_of_active' = [vcount_of_active EXCEPT ![s] = @ - 1]
        BY <1>2, <1>5, <2>2, <3>1, <3>4
      <4> HIDE DEF s
      <4>2. Cardinality(LiveIn(u)) <= vcount_of_active[s] /\ vcount_of_active[s] \in Nat
        BY <3>4, <4>1 DEF Counts, TypeOK
      <4>3. \A t \in Regions : vcount_of_active'[t] = IF t = s THEN vcount_of_active[s] - 1 ELSE vcount_of_active[t]
        BY <4>1 DEF TypeOK
      <4>4. vcount_of_active[s] - 1 \in Nat
        BY <3>2, <4>2, <1>6
      <4>5. vcount_of_active' \in [Regions -> Nat]
        BY <4>1, <4>4 DEF TypeOK
      <4>6. \A w \in Vblks : \A t \in Regions : vcount[w] = VC_ACTIVE /\ cur_write_vpn[t][1] = w
                                                => Cardinality(LiveIn(w)') <= vcount_of_active'[t]
        <5> SUFFICES ASSUME NEW w \in Vblks, NEW t \in Regions, vcount[w] = VC_ACTIVE, cur_write_vpn[t][1] = w
                     PROVE  Cardinality(LiveIn(w)') <= vcount_of_active'[t]
          OBVIOUS
        <5>1. Cardinality(LiveIn(w)) <= vcount_of_active[t] /\ vcount_of_active[t] \in Nat
          BY DEF Counts, TypeOK
        <5>2. t = s => w = u
          BY <3>4
        <5>3. t = s => Cardinality(LiveIn(w)') <= vcount_of_active[s] - 1
          BY <3>2, <4>2, <5>2, <1>6
        <5>. QED BY <5>1, <5>3, <4>3, <1>6
      <4>7. \A w \in Vblks : Closed(w) => Cardinality(LiveIn(w)') <= vcount'[w]
        BY <4>1, <1>6 DEF Counts, Closed
      <4>8. \A t \in Regions : vcount_of_active'[t] <= vcount_of_active[t]
        <5>1. \A t \in Regions : vcount_of_active[t] \in Nat
          BY DEF TypeOK
        <5>. QED BY <4>2, <4>3, <5>1
      <4>. QED BY <3>3, <4>1, <4>5, <4>6, <4>7, <4>8 DEF TypeOK, Closed
    <3>5. CASE u # cur_write_vpn[s][1]
      <4>1. Closed(u) /\ vcount_of_active' = vcount_of_active /\ vcount' = [vcount EXCEPT ![u] = @ - 1]
        BY <1>2, <1>5, <2>2, <3>1, <3>5
      <4>2. Cardinality(LiveIn(u)) <= vcount[u] /\ vcount[u] \in Nat /\ vcount[u] \in Pages
        <5>1. vcount[u] \in Pages \cup NotForVictim
          BY DEF TypeOK
        <5>. QED BY <4>1, <5>1, Consts DEF Counts, Closed, NotForVictim
      <4>3. \A w \in Vblks : vcount'[w] = IF w = u THEN vcount[u] - 1 ELSE vcount[w]
        BY <4>1 DEF TypeOK
      <4>4. vcount[u] - 1 \in Nat /\ vcount[u] - 1 \in Pages
        BY <3>2, <4>2, <1>6, Consts DEF Pages
      <4>5. vcount' \in [Vblks -> Pages \cup NotForVictim]
        BY <4>1, <4>4 DEF TypeOK
      <4>6. \A w \in Vblks : (Closed(w)' <=> Closed(w)) /\ (~Closed(w) => vcount'[w] = vcount[w])
        BY <4>1, <4>3, <4>4 DEF Closed
      <4>7. \A w \in Vblks : Closed(w) => Cardinality(LiveIn(w)') <= vcount'[w]
        <5> SUFFICES ASSUME NEW w \in Vblks, Closed(w) PROVE Cardinality(LiveIn(w)') <= vcount'[w]
          OBVIOUS
        <5>1. Cardinality(LiveIn(w)) <= vcount[w] /\ vcount[w] \in Nat
          BY DEF Counts, Closed
        <5>2. w = u => Cardinality(LiveIn(w)') <= vcount[u] - 1
          BY <3>2, <4>2, <1>6
        <5>. QED BY <5>1, <5>2, <4>3, <1>6
      <4>8. \A w \in Vblks : \A t \in Regions : vcount[w] = VC_ACTIVE /\ cur_write_vpn[t][1] = w
              => Cardinality(LiveIn(w)') <= vcount_of_active[t]
        BY SMTT(30), <1>6 DEF Counts, TypeOK
      <4>. QED BY <3>3, <4>1, <4>5, <4>6, <4>7, <4>8 DEF TypeOK
    <3>. QED BY <3>4, <3>5
  <2>. QED BY <2>1, <2>2
<1>8. \A w \in Vblks : \A c \in NotForVictim : vcount'[w] = c <=> vcount[w] = c
  BY <1>7, Consts DEF Closed, NotForVictim
<1>9. \A t \in Regions : IsOpen(t)'
  BY <1>1, <1>4, <1>8, Pointer DEF IsOpen, NotForVictim
<1>10. data' = l
  BY <1>1, <1>5
<1>11. TypeOK'
  <2>1. todo' \in Seq(SUBSET Request)
    BY <1>1 DEF TypeOK
  <2>. QED BY <1>1, <1>7, <1>10, <2>1 DEF TypeOK, Steps
<1>12. Roles'
  <2>1. \A w \in Vblks : /\ vcount'[w] = VC_MAX <=> vcount[w] = VC_MAX
                         /\ vcount'[w] = VC_ACTIVE <=> vcount[w] = VC_ACTIVE
    BY <1>8 DEF NotForVictim
  <2>2. vcount'[gc_vblock'] = VC_MAX
    BY <1>1, <2>1, Consts DEF Roles, TypeOK
  <2>. QED BY <1>1, <1>4, <1>7, <1>9, <2>1, <2>2, Consts DEF Roles
<1>13. ErasedOK'
  <2>1. \A w \in Vblks : /\ vcount'[w] = VC_MAX <=> vcount[w] = VC_MAX
                         /\ vcount'[w] = VC_FREE <=> vcount[w] = VC_FREE
    BY <1>8 DEF NotForVictim
  <2>. QED BY <1>1, <1>4, <1>7, <2>1 DEF ErasedOK
<1>14. UnlistedCnt'
  BY <1>1 DEF UnlistedCnt, Unlisted
<1>15. GcOK'
  BY <1>1, <1>7, <1>9 DEF GcOK, IsOpen
<1>16. Mapping'
  <2>1. ASSUME NEW lpn, NEW w \in Vblks, NEW q \in DataPages, LiesIn(lpn, w, q)
        PROVE  LiesIn(lpn, w, q)'
    BY <1>1, <1>7, <1>8, <2>1 DEF LiesIn, NotForVictim
  <2>. QED BY <1>1, <1>3, <2>1 DEF Mapping
<1>17. Counts'
  <2>1. \A t \in Regions : vcount_of_active'[t] <= cur_write_vpn'[t][2] + 1
    <3> SUFFICES ASSUME NEW t \in Regions PROVE vcount_of_active'[t] <= cur_write_vpn[t][2] + 1
      BY <1>1
    <3>1. vcount_of_active[t] <= cur_write_vpn[t][2] + 1 /\ vcount_of_active[t] \in Nat /\ vcount_of_active'[t] \in Nat
      BY <1>4, <1>7 DEF Counts, TypeOK
    <3>2. cur_write_vpn[t][2] \in Nat
      BY Pointer, Consts
    <3>. QED BY <3>1, <3>2, <1>7
  <2>2. \A w \in Vblks : vcount'[w] = VC_ACTIVE => vcount[w] = VC_ACTIVE
    BY <1>8 DEF NotForVictim
  <2>. QED BY <1>1, <1>7, <1>9, <2>1, <2>2 DEF Counts
<1>. QED BY <1>11, <1>12, <1>13, <1>14, <1>15, <1>16, <1>17

\* The page is programmed after the last one of its region; its old copy is of no use then.
LEMMA ProgramStep ==
  ASSUME IInv, ProgramPage
  PROVE  IInv'
<1> DEFINE R == new_region
           aged == [v \in Vblks |-> [p \in Pages |-> IF flash[v][p] = req.lpn THEN Old ELSE flash[v][p]]]
<1> USE DEF IInv
<1>1. /\ pc = "program" /\ pc' = "idle"
      /\ flash' = Program(aged, cur_write_vpn[R], data)
      /\ page_map' = [page_map EXCEPT ![req.lpn] = cur_write_vpn[R]]
      /\ lpn_list' = [lpn_list EXCEPT ![R][cur_write_vpn[R][2]] = req.lpn]
      /\ vcount_of_active' = [vcount_of_active EXCEPT ![R] = @ + 1]
      /\ global_age' = global_age + 1 /\ written' = written \cup {req.lpn}
      /\ cur_write_vpn' = cur_write_vpn /\ vcount' = vcount /\ region' = region /\ age' = age
      /\ gc_vblock' = gc_vblock /\ free_blk_cnt' = free_blk_cnt /\ lists' = lists
      /\ req' = req /\ data' = data /\ new_region' = new_region /\ todo' = todo
      /\ vblock' = vblock /\ vt' = vt
  BY DEF ProgramPage, blkVars, reqVars
<1>2. PICK b \in Good, q \in DataPages, l \in Lpns :
        /\ cur_write_vpn[R] = <<b, q>> /\ cur_write_vpn[R][1] = b /\ cur_write_vpn[R][2] = q
        /\ req.lpn = l /\ data = l
  BY <1>1, Pointer DEF TypeOK, Request
<1>3. R \in Regions /\ b \in Vblks /\ q \in Pages /\ q # PagesPerBlk - 1 /\ q \in Nat
  BY Consts DEF TypeOK
<1>4. \A r \in Regions : IsOpen(r)
  BY <1>1 DEF Roles
<1>5. vcount[b] = VC_ACTIVE /\ flash[b][q] = Erased /\ \A r \in Regions : cur_write_vpn[r][1] = b <=> r = R
  BY <1>1, <1>2, <1>3, <1>4 DEF IsOpen, ErasedOK, At, Roles
<1>6. /\ flash' \in [Vblks -> [Pages -> Content]]
      /\ \A w \in Vblks : \A p \in Pages : flash'[w][p] = IF w = b /\ p = q THEN l
                                         ELSE IF flash[w][p] = l THEN Old ELSE flash[w][p]
  <2>1. aged \in [Vblks -> [Pages -> Content]]
    BY DEF TypeOK, Content
  <2>2. /\ \A w \in Vblks : \A p \in Pages : aged[w][p] = IF flash[w][p] = l THEN Old ELSE flash[w][p]
        /\ aged[b][q] = Erased
    BY <1>2, <1>3, <1>5, Contents
  <2>3. flash' = Program(aged, <<b, q>>, l)
    BY <1>1, <1>2
  <2> HIDE DEF aged
  <2>4. flash' = [w \in Vblks |-> [p \in Pages |-> IF w = b /\ p = q THEN l ELSE aged[w][p]]]
    BY <1>3, <2>1, <2>2, <2>3, Programmed
  <2>. QED BY <2>1, <2>2, <2>4 DEF Content
<1>7. /\ lpn_list' \in [Regions -> [Pages -> Mapped]]
      /\ \A r \in Regions : \A p \in Pages : lpn_list'[r][p] = IF r = R /\ p = q THEN l ELSE lpn_list[r][p]
  <2>1. lpn_list' = [lpn_list EXCEPT ![R] = [lpn_list[R] EXCEPT ![q] = l]]
    BY <1>1, <1>2
  <2>2. l \in Mapped
    BY Consts
  <2>. QED BY <2>1, <2>2, <1>3 DEF TypeOK
<1>8. /\ \A r \in Regions : vcount_of_active'[r] = IF r = R THEN vcount_of_active[r] + 1 ELSE vcount_of_active[r]
      /\ \A m \in Mapped : page_map'[m] = IF m = l THEN <<b, q>> ELSE page_map[m]
  BY <1>1, <1>2, <1>3 DEF TypeOK
<1>0. \A m \in Lpns : page_map'[m] = IF m = l THEN <<b, q>> ELSE page_map[m]
  BY <1>8, Consts
<1>9. Pending = {l} /\ Pending' = {}
  BY <1>1, <1>2 DEF Pending
<1>10. TypeOK'
  <2>1. page_map' \in [Mapped -> (Vblks \X DataPages) \cup {Null}]
    BY <1>1, <1>2, <1>3 DEF TypeOK
  <2>2. vcount_of_active' \in [Regions -> Nat]
    BY <1>1 DEF TypeOK
  <2>3. global_age' \in Nat /\ \A v \in Vblks : age'[v] <= global_age'
    BY <1>1 DEF TypeOK
  <2>4. written' \subseteq Lpns
    BY <1>1, <1>2 DEF TypeOK
  <2>. QED BY <1>1, <1>6, <1>7, <2>1, <2>2, <2>3, <2>4 DEF TypeOK, Steps
<1>11. Roles'
  BY <1>1, <1>4 DEF Roles, IsOpen, Closed
<1>12. ErasedOK'
  <2>1. \A w \in Vblks : \A p \in Pages : flash[w][p] = Erased /\ ~(w = b /\ p = q) => flash'[w][p] = Erased
    BY <1>6, Contents
  <2>2. \A w \in Vblks : vcount'[w] = VC_FREE \/ (w = gc_vblock' /\ vcount'[w] = VC_MAX)
                         => \A p \in Pages : flash'[w][p] = Erased
    BY <1>1, <1>5, <2>1, Consts DEF ErasedOK
  <2>3. ASSUME NEW r \in Regions, NEW p \in Pages, p > cur_write_vpn'[r][2]
        PROVE  flash'[cur_write_vpn'[r][1]][p] = Erased
    <3>1. flash[cur_write_vpn[r][1]][p] = Erased /\ cur_write_vpn[r][1] \in Vblks
      BY <1>1, <1>4, <2>3, Pointer DEF ErasedOK
    <3>2. ~(cur_write_vpn[r][1] = b /\ p = q)
      BY <1>1, <1>2, <1>3, <1>5, <2>3
    <3>. QED BY <1>1, <2>1, <3>1, <3>2
  <2>4. \A w \in Vblks : Closed(w)' => flash'[w][PagesPerBlk - 1] = List
    BY <1>1, <1>3, <1>6, Consts, Contents DEF ErasedOK, Closed
  <2>. QED BY <1>1, <2>2, <2>3, <2>4 DEF ErasedOK
<1>13. UnlistedCnt'
  <2>1. \A w \in Vblks : flash'[w][PagesPerBlk - 1] = Erased <=> flash[w][PagesPerBlk - 1] = Erased
    BY <1>3, <1>6, Consts, Contents
  <2>2. Unlisted' = Unlisted
    BY <2>1, Consts DEF Unlisted
  <2>. QED BY <1>1, <2>2 DEF UnlistedCnt
<1>14. GcOK'
  <2>1. IsOpen(new_region)'
    BY <1>1, <1>3, <1>4 DEF IsOpen
  <2>. QED BY <1>1, <2>1 DEF GcOK
<1>15. Mapping'
  <2>1. \A lpn \in Lpns : page_map'[lpn] # Null <=> lpn \in written'
    <3>1. <<b, q>> # Null
      BY <1>3, Consts DEF Null
    <3>. QED BY <3>1, <1>1, <1>2, <1>8, Consts DEF Mapping
  <2>2. LiesIn(l, b, q)'
    <3>1. flash'[b][q] = l /\ vcount'[b] = VC_ACTIVE /\ q \in Pages
      BY <1>1, <1>3, <1>5, <1>6, Consts
    <3>2. vcount'[b] # VC_FREE /\ vcount'[b] # VC_MAX /\ ~Closed(b)'
      BY <3>1, Consts DEF Closed
    <3>3. \A r \in Regions : cur_write_vpn'[r][1] = b => lpn_list'[r][q] = l
      BY <1>1, <1>3, <1>5, <1>7, <3>1
    <3>. QED BY <3>1, <3>2, <3>3 DEF LiesIn
  <2>3. ASSUME NEW lpn \in written \ Pending, NEW w \in Vblks, NEW p \in DataPages, LiesIn(lpn, w, p)
        PROVE  LiesIn(lpn, w, p)'
    <3>1. lpn \in Lpns /\ lpn # l /\ p \in Pages
      BY <1>9, <2>3, Consts DEF TypeOK
    <3>2. flash[w][p] = lpn /\ ~(w = b /\ p = q)
      BY <1>5, <2>3, <3>1, Contents DEF LiesIn
    <3>3. flash'[w][p] = lpn
      BY <1>6, <3>1, <3>2
    <3>4. ASSUME NEW r \in Regions, vcount'[w] = VC_ACTIVE, cur_write_vpn'[r][1] = w PROVE lpn_list'[r][p] = lpn
      <4>1. lpn_list[r][p] = lpn
        BY <1>1, <2>3, <3>4 DEF LiesIn
      <4>2. ~(r = R /\ p = q)
        BY <1>1, <1>5, <3>2, <3>4
      <4>. QED BY <1>7, <3>1, <4>1, <4>2
    <3>. QED BY <1>1, <2>3, <3>3, <3>4 DEF LiesIn, Closed
  <2>4. ASSUME NEW lpn \in written' \ Pending', NEW w \in Vblks, NEW p \in DataPages, page_map'[lpn] = <<w, p>>
        PROVE  LiesIn(lpn, w, p)'
    <3>1. CASE lpn = l
      <4>1. w = b /\ p = q
        BY <1>8, <2>4, <3>1, Consts
      <4>. QED BY <2>2, <3>1, <4>1
    <3>2. CASE lpn # l
      <4>1. lpn \in written \ Pending /\ page_map[lpn] = <<w, p>>
        BY <1>1, <1>2, <1>8, <1>9, <2>4, <3>2 DEF TypeOK
      <4>. QED BY <2>3, <4>1 DEF Mapping
    <3>. QED BY <3>1, <3>2
  <2>. QED BY <2>1, <2>4 DEF Mapping
<1>16. Counts'
  <2>1. \A w \in Vblks : w # b => LiveIn(w)' \subseteq LiveIn(w)
    BY <1>0, <1>9 DEF LiveIn
  <2>2. \A w \in Vblks : w = b => LiveIn(w)' \subseteq LiveIn(w) \cup {l}
    BY <1>0, <1>9 DEF LiveIn
  <2>3. \A w \in Vblks : w # b => Cardinality(LiveIn(w)') <= Cardinality(LiveIn(w))
    BY <2>1, LiveFinite, CardBounds
  <2>4. \A w \in Vblks : w = b => Cardinality(LiveIn(w)') <= Cardinality(LiveIn(w)) + 1
    BY <2>2, LiveFinite, CardBounds
  <2>5. \A w \in Vblks : Cardinality(LiveIn(w)) \in Nat /\ Cardinality(LiveIn(w)') \in Nat
    <3>1. ASSUME NEW w \in Vblks PROVE Cardinality(LiveIn(w)') \in Nat
      <4>1. LiveIn(w)' \subseteq Lpns
        BY DEF LiveIn
      <4>. QED BY <4>1, Finite, CardBounds
    <3>. QED BY <3>1, LiveFinite
  <2>6. \A w \in Vblks : Closed(w)' => Cardinality(LiveIn(w)') <= vcount'[w]
    <3> SUFFICES ASSUME NEW w \in Vblks, Closed(w)' PROVE Cardinality(LiveIn(w)') <= vcount'[w]
      OBVIOUS
    <3>1. Closed(w) /\ w # b /\ vcount'[w] \in Nat
      BY <1>1, <1>5, Consts DEF Closed
    <3>. QED BY <1>1, <2>3, <2>5, <3>1 DEF Counts
  <2>7. ASSUME NEW w \in Vblks, NEW r \in Regions, vcount'[w] = VC_ACTIVE, cur_write_vpn'[r][1] = w
        PROVE  Cardinality(LiveIn(w)') <= vcount_of_active'[r]
    <3>1. Cardinality(LiveIn(w)) <= vcount_of_active[r] /\ vcount_of_active[r] \in Nat /\ (r = R <=> w = b)
      BY <1>1, <1>5, <2>7 DEF Counts, TypeOK
    <3>. QED BY <1>8, <2>3, <2>4, <2>5, <3>1
  <2>8. \A r \in Regions : vcount_of_active'[r] <= cur_write_vpn'[r][2] + 1
    <3>1. \A r \in Regions : vcount_of_active[r] \in Nat /\ vcount_of_active[r] <= cur_write_vpn[r][2] + 1
      BY <1>4 DEF Counts, TypeOK
    <3>2. vcount_of_active[R] <= q
      BY <1>1, <1>2 DEF Counts
    <3>. QED BY <1>1, <1>2, <1>3, <1>8, <3>1, <3>2
  <2>9. \A r \in Regions : IsOpen(r)'
    BY <1>1, <1>4 DEF IsOpen
  <2>. QED BY <1>1, <2>6, <2>7, <2>8, <2>9 DEF Counts
<1>. QED BY <1>10, <1>11, <1>12, <1>13, <1>14, <1>15, <1>16
\* A page in use is copied to the region below the victim's, if need be to the block kept for it.
LEMMA CopyStep ==
  ASSUME IInv, CopyPage
  PROVE  IInv'
<1> DEFINE last == PagesPerBlk - 1
           g == gc_vblock
<1> USE DEF IInv
<1>a. PICK p, l, r, v, q : /\ p = Least(LivePages) /\ l = lists[vt][p] /\ r = Demoted(region[vt])
                            /\ v = cur_write_vpn[r][1] /\ q = cur_write_vpn[r][2]
  OBVIOUS
<1>b. PICK F \in BOOLEAN : F = Full(cur_write_vpn[r])
  BY DEF Full
<1>c. PICK O \in BOOLEAN : O = (F /\ vcount[v] = VC_ACTIVE)
  OBVIOUS
<1>1. /\ p = Least(LivePages) /\ l = lists[vt][p] /\ r = Demoted(region[vt])
      /\ v = cur_write_vpn[r][1] /\ q = cur_write_vpn[r][2] /\ F \in BOOLEAN /\ O \in BOOLEAN
      /\ F = Full(cur_write_vpn[r]) /\ O = (F /\ vcount[v] = VC_ACTIVE)
  BY <1>a, <1>b, <1>c
<1>2. /\ p \in 0 .. LastDataPage /\ p \in DataPages /\ p \in Pages /\ p \in Nat /\ l \in Mapped /\ page_map[l] = <<vt, p>>
      /\ \A x \in LivePages : p <= x
      /\ p \in LivePages
  <2>a. LivePages \subseteq 0 .. LastDataPage
    BY Zenon DEF LivePages
  <2>b. LastDataPage \in Int
    BY Consts
  <2>c. LivePages # {}
    BY Zenon DEF CopyPage
  <2>1. LivePages \subseteq Nat /\ LivePages # {}
    BY <2>a, <2>b, <2>c
  <2>2. p \in LivePages /\ \A x \in LivePages : p <= x
    BY <1>1, <2>1, LeastIn
  <2>3. p \in 0 .. LastDataPage /\ page_map[lists[vt][p]] = <<vt, p>>
    BY <2>2 DEF LivePages
  <2>. QED BY <1>1, <2>2, <2>3, Consts DEF DataPages, TypeOK
<1>3. vt \in Vblks /\ Closed(vt) /\ pc = "copy" /\ FreeBlks = {} /\ region[vt] \in Regions
  BY DEF CopyPage, GcOK, TypeOK, Roles
<1>4. /\ r \in Regions /\ v \in Good /\ v \in Vblks /\ q \in DataPages /\ q \in Nat /\ q < last
      /\ cur_write_vpn[r] = <<v, q>> /\ g \in Good /\ g \in Vblks
  <2>1. r \in Regions
    BY <1>1, <1>3, Consts DEF Demoted, Regions
  <2>. QED BY <1>1, <2>1, Pointer, Consts DEF TypeOK
<1>5. /\ F <=> q = LastDataPage
      /\ O <=> F /\ IsOpen(r)
      /\ IsOpen(r) <=> vcount[v] = VC_ACTIVE
  BY <1>1, <1>4 DEF Full, IsOpen
<1>6. ~F => IsOpen(r) /\ q + 1 \in DataPages /\ q + 1 \in Pages /\ q + 1 # last
  <2>1. ASSUME ~F PROVE q < LastDataPage
    BY <2>1, <1>4, <1>5, Consts DEF DataPages
  <2>2. ASSUME ~F PROVE IsOpen(r)
    <3>1. cur_write_vpn[r] # <<vblock, LastDataPage>>
      BY <2>1, <2>2, <1>4, Consts
    <3>. QED BY <1>4, <3>1 DEF Roles
  <2>3. q < LastDataPage => q + 1 \in DataPages
    BY <1>4, Consts DEF DataPages
  <2>. QED BY <2>1, <2>2, <2>3, Consts
<1>7. F => vcount[g] = VC_MAX
  <2>1. ASSUME F, vcount[g] = VC_ACTIVE PROVE FALSE
    <3>1. q < p
      BY <1>1, <1>2, <1>3, <2>1 DEF GcOK, GcBlkUsed
    <3>. QED BY <1>2, <1>5, <2>1, <3>1, Consts
  <2>. QED BY <2>1 DEF Roles
<1>8. PICK d, e : /\ d = (IF F THEN g ELSE v) /\ e = IF F THEN 0 ELSE q + 1
  OBVIOUS
<1>9. /\ d \in Good /\ d \in Vblks /\ e \in DataPages /\ e \in Pages /\ e # last /\ e \in Nat
      /\ last \in Pages /\ d # vt /\ (O => v # vt) /\ (O => v # g) /\ g # vt
  BY <1>3, <1>4, <1>5, <1>6, <1>7, <1>8, Consts DEF Roles, Closed
<1>10. \A x \in Pages : x >= e => flash[d][x] = Erased
  <2>1. CASE F
    BY <2>1, <1>4, <1>7, <1>8 DEF ErasedOK
  <2>2. CASE ~F
    BY <2>2, <1>4, <1>6, <1>8, Consts DEF ErasedOK
  <2>. QED BY <2>1, <2>2
<1>11. O => flash[v][last] = Erased /\ vcount_of_active[r] \in Pages
  <2>1. O => vcount_of_active[r] \in Nat /\ vcount_of_active[r] <= LastDataPage + 1
    BY <1>4, <1>5 DEF Counts, TypeOK
  <2>. QED BY <2>1, <1>4, <1>5, <1>9, Consts DEF ErasedOK, Pages
<1>12. /\ pc' = "copy" /\ page_map' = [page_map EXCEPT ![l] = <<d, e>>]
       /\ lists' = (IF O THEN [lists EXCEPT ![v] = lpn_list[r]] ELSE lists)
       /\ age' = (IF O THEN [age EXCEPT ![v] = global_age] ELSE age)
       /\ free_blk_cnt' = (IF O THEN free_blk_cnt - 1 ELSE free_blk_cnt)
       /\ vcount' = [w \in Vblks |-> IF F /\ w = g THEN VC_ACTIVE
                                     ELSE IF O /\ w = v THEN vcount_of_active[r] ELSE vcount[w]]
       /\ region' = (IF F THEN [region EXCEPT ![g] = r] ELSE region)
       /\ cur_write_vpn' = [cur_write_vpn EXCEPT ![r] = <<d, e>>]
       /\ lpn_list' = [lpn_list EXCEPT ![r] = [IF O THEN NoList ELSE lpn_list[r] EXCEPT ![e] = l]]
       /\ vcount_of_active' = [vcount_of_active EXCEPT ![r] = (IF O THEN 0 ELSE vcount_of_active[r]) + 1]
       /\ flash' = Program(IF O THEN Program(flash, <<v, last>>, List) ELSE flash, <<d, e>>, flash[vt][p])
       /\ gc_vblock' = gc_vblock /\ req' = req /\ data' = data /\ new_region' = new_region /\ written' = written
       /\ todo' = todo /\ global_age' = global_age /\ vblock' = vblock /\ vt' = vt
  <2>1. (IF F THEN <<g, 0>> ELSE inc_cur_write_vpn(cur_write_vpn[r])) = <<d, e>>
    <3>1. inc_cur_write_vpn(cur_write_vpn[r]) = <<v, q + 1>>
      BY <1>4 DEF inc_cur_write_vpn
    <3>. QED BY <3>1, <1>8
  <2>2. At(<<vt, p>>) = flash[vt][p] /\ <<d, e>>[2] = e
    BY DEF At
  <2>3. (F /\ vcount[v] = VC_ACTIVE) = O
    BY <1>1
  <2>4. F = Full(cur_write_vpn[r])
    BY <1>1
  <2>5. /\ flash' = Program(IF O THEN Program(flash, <<v, last>>, List) ELSE flash, <<d, e>>, flash[vt][p])
        /\ lpn_list' = [lpn_list EXCEPT ![r] = [IF O THEN NoList ELSE @ EXCEPT ![e] = l]]
        /\ cur_write_vpn' = [cur_write_vpn EXCEPT ![r] = <<d, e>>]
        /\ page_map' = [page_map EXCEPT ![l] = <<d, e>>]
    BY <1>1, <2>1, <2>2, <2>3, <2>4 DEF CopyPage
  <2>6. /\ lists' = (IF O THEN [lists EXCEPT ![v] = lpn_list[r]] ELSE lists)
        /\ age' = (IF O THEN [age EXCEPT ![v] = global_age] ELSE age)
        /\ free_blk_cnt' = (IF O THEN free_blk_cnt - 1 ELSE free_blk_cnt)
        /\ vcount' = [w \in Vblks |-> IF F /\ w = g THEN VC_ACTIVE
                                     ELSE IF O /\ w = v THEN vcount_of_active[r] ELSE vcount[w]]
        /\ region' = (IF F THEN [region EXCEPT ![g] = r] ELSE region)
        /\ vcount_of_active' = [vcount_of_active EXCEPT ![r] = (IF O THEN 0 ELSE @) + 1]
    BY <1>1, <2>3, <2>4 DEF CopyPage
  <2>7. /\ pc' = pc /\ gc_vblock' = gc_vblock /\ req' = req /\ data' = data /\ new_region' = new_region /\ written' = written
        /\ todo' = todo /\ global_age' = global_age /\ vblock' = vblock /\ vt' = vt
    BY DEF CopyPage, reqVars, hostVars
  <2>. QED BY <2>5, <2>6, <2>7, <1>3
<1>13. /\ \A m \in Mapped : page_map'[m] = IF m = l THEN <<d, e>> ELSE page_map[m]
       /\ \A w \in Vblks : lists'[w] = IF O /\ w = v THEN lpn_list[r] ELSE lists[w]
       /\ \A w \in Vblks : age'[w] = IF O /\ w = v THEN global_age ELSE age[w]
       /\ \A w \in Vblks : region'[w] = IF F /\ w = g THEN r ELSE region[w]
       /\ \A t \in Regions : cur_write_vpn'[t] = IF t = r THEN <<d, e>> ELSE cur_write_vpn[t]
       /\ \A t \in Regions : vcount_of_active'[t] = IF t = r THEN (IF O THEN 0 ELSE vcount_of_active[r]) + 1
                                                   ELSE vcount_of_active[t]
  BY <1>2, <1>4, <1>12 DEF TypeOK
<1>14. \A w \in Vblks : vcount'[w] = IF F /\ w = g THEN VC_ACTIVE
                                     ELSE IF O /\ w = v THEN vcount_of_active[r] ELSE vcount[w]
  BY <1>12
<1>15. /\ lpn_list' \in [Regions -> [Pages -> Mapped]]
       /\ \A t \in Regions : \A x \in Pages : lpn_list'[t][x] = IF t = r /\ x = e THEN l
                                     ELSE IF t = r /\ O THEN 0 ELSE lpn_list[t][x]
  <2>1. PICK base \in [Pages -> Mapped] : base = IF O THEN NoList ELSE lpn_list[r]
    BY <1>4, Consts DEF TypeOK, NoList
  <2>2. lpn_list' = [lpn_list EXCEPT ![r] = [base EXCEPT ![e] = l]]
    BY <2>1, <1>12
  <2>3. l \in Mapped /\ [base EXCEPT ![e] = l] \in [Pages -> Mapped]
    BY <1>2, <2>1, Consts
  <2>4. \A x \in Pages : base[x] = IF O THEN 0 ELSE lpn_list[r][x]
    BY <2>1 DEF NoList
  <2>. QED BY <2>2, <2>3, <2>4, <1>4, <1>9 DEF TypeOK
<1>16. /\ flash' \in [Vblks -> [Pages -> Content]]
       /\ \A w \in Vblks : \A x \in Pages : flash'[w][x] = IF w = d /\ x = e THEN flash[vt][p]
                                          ELSE IF O /\ w = v /\ x = last THEN List ELSE flash[w][x]
  <2>1. flash \in [Vblks -> [Pages -> Content]] /\ flash[vt][p] \in Content
    BY <1>2, <1>3 DEF TypeOK
  <2> HIDE DEF last
  <2>2. PICK f : f = IF O THEN Program(flash, <<v, last>>, List) ELSE flash
    OBVIOUS
  <2>3. /\ f \in [Vblks -> [Pages -> Content]]
        /\ \A w \in Vblks : \A x \in Pages : f[w][x] = IF O /\ w = v /\ x = last THEN List ELSE flash[w][x]
    <3>1. CASE O
      <4>1. f = [w \in Vblks |-> [x \in Pages |-> IF w = v /\ x = last THEN List ELSE flash[w][x]]]
        BY <3>1, <2>1, <2>2, <1>4, <1>9, <1>11, Programmed
      <4>. QED BY <3>1, <4>1, <2>1 DEF Content
    <3>2. CASE ~O
      BY <3>2, <2>1, <2>2
    <3>. QED BY <3>1, <3>2
  <2>4. f[d][e] = Erased
    BY <2>3, <1>9, <1>10
  <2>5. flash' = [w \in Vblks |-> [x \in Pages |-> IF w = d /\ x = e THEN flash[vt][p] ELSE f[w][x]]]
    <3>1. flash' = Program(f, <<d, e>>, flash[vt][p])
      BY <2>2, <1>12
    <3>2. d \in Vblks /\ e \in Pages
      BY <1>9
    <3>. QED BY <2>3, <2>4, <3>1, <3>2, Programmed
  <2>. QED BY <2>1, <2>3, <2>5
<1> HIDE DEF last
<1>17. \A t \in Regions : t # r => /\ cur_write_vpn[t][1] # d /\ (O => cur_write_vpn[t][1] # v)
                                   /\ cur_write_vpn'[t] = cur_write_vpn[t] /\ (IsOpen(t)' <=> IsOpen(t))
                                   /\ vcount'[cur_write_vpn[t][1]] = vcount[cur_write_vpn[t][1]]
  <2> SUFFICES ASSUME NEW t \in Regions, t # r
               PROVE  /\ cur_write_vpn[t][1] # d /\ (O => cur_write_vpn[t][1] # v)
                      /\ cur_write_vpn'[t] = cur_write_vpn[t] /\ (IsOpen(t)' <=> IsOpen(t))
                      /\ vcount'[cur_write_vpn[t][1]] = vcount[cur_write_vpn[t][1]]
    OBVIOUS
  <2>1. cur_write_vpn[t][1] # v /\ cur_write_vpn[t][1] \in Vblks /\ cur_write_vpn'[t] = cur_write_vpn[t]
    BY <1>1, <1>4, <1>13, Pointer DEF Roles
  <2>2. F => cur_write_vpn[t][1] # g
    <3>1. CASE IsOpen(t)
      BY <3>1, <1>7, Consts DEF IsOpen
    <3>2. CASE ~IsOpen(t)
      <4>1. t = new_region /\ cur_write_vpn[t][1] = vblock
        BY <3>2 DEF Roles
      <4>. QED BY <3>2, <4>1, <1>3 DEF GcOK
    <3>. QED BY <3>1, <3>2
  <2>3. vcount'[cur_write_vpn[t][1]] = vcount[cur_write_vpn[t][1]]
    BY <2>1, <2>2, <1>14
  <2>. QED BY <2>1, <2>2, <2>3, <1>8 DEF IsOpen
<1>18. vcount'[d] = VC_ACTIVE /\ cur_write_vpn'[r][1] = d /\ cur_write_vpn'[r][2] = e /\ IsOpen(r)'
  <2>1. vcount'[d] = VC_ACTIVE
    BY <1>4, <1>5, <1>6, <1>8, <1>9, <1>14
  <2>2. cur_write_vpn'[r] = <<d, e>>
    BY <1>4, <1>13
  <2>3. cur_write_vpn'[r][1] = d /\ cur_write_vpn'[r][2] = e
    BY <2>2
  <2>. QED BY <2>1, <2>3 DEF IsOpen
<1>19. /\ \A w \in Vblks : vcount'[w] \notin Nat \cup {VC_ACTIVE} => w # d /\ ~(O /\ w = v) /\ vcount'[w] = vcount[w]
       /\ \A w \in Vblks : Closed(w)' => w # d /\ (~(O /\ w = v) => Closed(w) /\ vcount'[w] = vcount[w])
       /\ \A w \in Vblks : vcount'[w] = VC_ACTIVE /\ w # d => vcount[w] = VC_ACTIVE /\ ~(O /\ w = v)
  <2>1. \A w \in Vblks : w # d => vcount'[w] = IF O /\ w = v THEN vcount_of_active[r] ELSE vcount[w]
    BY <1>5, <1>8, <1>14
  <2>2. O => vcount_of_active[r] \in Nat /\ vcount_of_active[r] # VC_ACTIVE
    BY <1>11, Consts
  <2>. QED BY <1>18, <2>1, <2>2, Consts DEF Closed
<1>20. TypeOK'
  <2>1. page_map' \in [Mapped -> (Vblks \X DataPages) \cup {Null}]
    BY <1>2, <1>9, <1>12 DEF TypeOK
  <2>2. vcount' \in [Vblks -> Pages \cup NotForVictim]
    BY <1>11, <1>12 DEF TypeOK, NotForVictim
  <2>3. DOMAIN region' = Vblks /\ lists' \in [Vblks -> [Pages -> Mapped]]
    BY <1>4, <1>12 DEF TypeOK
  <2>4. age' \in [Vblks -> Nat] /\ \A w \in Vblks : age'[w] <= global_age
    <3>1. global_age \in Nat /\ \A w \in Vblks : age[w] \in Nat /\ age[w] <= global_age
      BY DEF TypeOK
    <3>2. \A w \in Vblks : age'[w] \in Nat /\ age'[w] <= global_age
      BY <3>1, <1>13
    <3>3. age \in [Vblks -> Nat]
      BY DEF TypeOK
    <3>4. age' = [w \in Vblks |-> age'[w]]
      <4>1. CASE O
        BY <3>3, <4>1, <1>12
      <4>2. CASE ~O
        BY <3>3, <4>2, <1>12
      <4>. QED BY <4>1, <4>2
    <3>. QED BY <3>2, <3>4
  <2>5. cur_write_vpn' \in [Regions -> Good \X DataPages]
    <3>1. <<d, e>> \in Good \X DataPages
      BY <1>9
    <3>. QED BY <1>12, <3>1 DEF TypeOK
  <2>6. vcount_of_active' \in [Regions -> Nat]
    <3>1. (IF O THEN 0 ELSE vcount_of_active[r]) + 1 \in Nat
      BY <1>4 DEF TypeOK
    <3>. QED BY <3>1, <1>4, <1>12 DEF TypeOK
  <2>7. /\ pc' = "copy" /\ gc_vblock' = gc_vblock /\ req' = req /\ data' = data /\ new_region' = new_region
        /\ written' = written /\ todo' = todo /\ global_age' = global_age /\ vblock' = vblock /\ vt' = vt
    BY <1>12
  <2>8. lpn_list' \in [Regions -> [Pages -> Mapped]] /\ flash' \in [Vblks -> [Pages -> Content]]
    BY <1>15, <1>16
  <2>. QED BY <1>3, <2>1, <2>2, <2>3, <2>4, <2>5, <2>6, <2>7, <2>8 DEF TypeOK, Steps
<1>21. Roles'
  <2>1. O => region[v] = r
    BY <1>1, <1>4, <1>5 DEF Roles
  <2>2. region'[d] = r /\ region'[vt] = region[vt]
    BY <1>1, <1>3, <1>4, <1>6, <1>8, <1>9, <1>13 DEF Roles
  <2>3. /\ \A w \in BadBlks : vcount'[w] = VC_MAX
        /\ \A w \in Good : vcount'[w] = VC_MAX => w = gc_vblock'
    <3>1. \A w \in BadBlks : w # g /\ w # v /\ w \in Vblks
      BY <1>4, Consts DEF Good
    <3>2. VC_MAX \notin Nat \cup {VC_ACTIVE} /\ Good \subseteq Vblks
      BY Consts
    <3>. QED BY <3>1, <3>2, <1>12, <1>14, <1>19 DEF Roles
  <2>4. \/ vcount'[gc_vblock'] = VC_MAX
        \/ /\ pc' = "copy" /\ vcount'[gc_vblock'] = VC_ACTIVE
           /\ cur_write_vpn'[Demoted(region'[vt'])][1] = gc_vblock'
    <3>1. vt' = vt /\ Demoted(region'[vt]) = r /\ cur_write_vpn'[r][1] = d
      BY <1>1, <1>12, <1>18, <2>2
    <3>2. CASE F
      BY <3>1, <3>2, <1>8, <1>12, <1>18
    <3>3. CASE ~F
      <4>1. d = v /\ vcount'[g] = vcount[g]
        BY <3>3, <1>4, <1>5, <1>8, <1>14
      <4>. QED BY <3>1, <4>1, <1>1, <1>12 DEF Roles
    <3>. QED BY <3>2, <3>3
  <2>5. ASSUME NEW w \in Vblks, vcount'[w] = VC_ACTIVE PROVE \E t \in Regions : cur_write_vpn'[t][1] = w
    <3>1. CASE w = d
      BY <3>1, <1>4, <1>18
    <3>2. CASE w # d
      <4>1. vcount[w] = VC_ACTIVE /\ ~(O /\ w = v)
        BY <2>5, <3>2, <1>19
      <4>2. PICK t \in Regions : cur_write_vpn[t][1] = w
        BY <4>1 DEF Roles
      <4>3. t # r
        BY <3>2, <4>1, <4>2, <1>1, <1>5, <1>8
      <4>. QED BY <4>2, <4>3, <1>17
    <3>. QED BY <3>1, <3>2
  <2>6. \A t \in Regions : ~IsOpen(t)' => /\ pc' \in {"gc", "copy", "assert"} /\ t = new_region'
                                          /\ cur_write_vpn'[t] = <<vblock', LastDataPage>>
    BY <1>12, <1>17, <1>18 DEF Roles
  <2>7. \A t, s \in Regions : t # s => cur_write_vpn'[t][1] # cur_write_vpn'[s][1]
    BY <1>17, <1>18 DEF Roles
  <2>8. ASSUME NEW t \in Regions, IsOpen(t)' PROVE region'[cur_write_vpn'[t][1]] = t
    <3>1. CASE t = r
      BY <3>1, <1>18, <2>2
    <3>2. CASE t # r
      <4>1. region[cur_write_vpn[t][1]] = t /\ cur_write_vpn[t][1] # d /\ cur_write_vpn[t][1] \in Vblks
            /\ cur_write_vpn'[t] = cur_write_vpn[t]
        BY <2>8, <3>2, <1>17, Pointer DEF Roles
      <4>. QED BY <4>1, <1>8, <1>13
    <3>. QED BY <3>1, <3>2
  <2>9. \A w \in Vblks : Closed(w)' => region'[w] \in Regions
    <3>1. \A w \in Vblks : w # d => region'[w] = region[w]
      BY <1>8, <1>13
    <3>. QED BY <3>1, <2>1, <1>4, <1>19 DEF Roles
  <2>. QED BY <2>3, <2>4, <2>5, <2>6, <2>7, <2>8, <2>9 DEF Roles
<1>22. \A w \in Vblks : \A x \in Pages : ~(w = d /\ x = e) /\ ~(O /\ w = v /\ x = last) => flash'[w][x] = flash[w][x]
  BY <1>16
<1>23. ErasedOK'
  <2>1. \A w \in Vblks : vcount'[w] = VC_FREE \/ (w = gc_vblock' /\ vcount'[w] = VC_MAX)
                         => \A x \in Pages : flash'[w][x] = Erased
    <3>1. VC_FREE \notin Nat \cup {VC_ACTIVE} /\ VC_MAX \notin Nat \cup {VC_ACTIVE}
      BY Consts
    <3>. QED BY <3>1, <1>12, <1>19, <1>22 DEF ErasedOK
  <2>2. ASSUME NEW t \in Regions, IsOpen(t)', NEW x \in Pages, x > cur_write_vpn'[t][2]
        PROVE  flash'[cur_write_vpn'[t][1]][x] = Erased
    <3>1. CASE t = r
      <4>1. x > e /\ x \in Nat /\ flash[d][x] = Erased
        BY <2>2, <3>1, <1>9, <1>10, <1>18, Consts
      <4>2. ~(O /\ d = v)
        BY <1>5, <1>8, <1>9
      <4>3. flash'[d][x] = Erased
        BY <4>1, <4>2, <1>9, <1>22
      <4>. QED BY <4>3, <3>1, <1>18
    <3>2. CASE t # r
      <4>1. /\ cur_write_vpn[t][1] # d /\ (O => cur_write_vpn[t][1] # v) /\ cur_write_vpn[t][1] \in Vblks
            /\ flash[cur_write_vpn[t][1]][x] = Erased /\ cur_write_vpn'[t] = cur_write_vpn[t]
        BY <2>2, <3>2, <1>17, Pointer DEF ErasedOK
      <4>. QED BY <4>1, <1>22
    <3>. QED BY <3>1, <3>2
  <2>3. \A w \in Vblks : Closed(w)' => flash'[w][last] = List
    BY ZenonT(60), <1>9, <1>16, <1>19 DEF ErasedOK, last
  <2>4. pc' # "program"
    BY <1>12
  <2>. QED BY <2>1, <2>2, <2>3, <2>4 DEF ErasedOK, last
<1>24. UnlistedCnt'
  <2>1. \A w \in Vblks : flash'[w][last] = IF O /\ w = v THEN List ELSE flash[w][last]
    BY <1>9, <1>16
  <2>2. IsFiniteSet(Unlisted)
    BY Finite, CardBounds DEF Unlisted
  <2>3. CASE O
    <3>1. Unlisted' = Unlisted \ {v} /\ v \in Unlisted
      BY <2>1, <2>3, <1>4, <1>11, Consts, Contents DEF Unlisted, last
    <3>. QED BY <2>2, <2>3, <3>1, <1>12, FS_RemoveElement DEF UnlistedCnt
  <2>4. CASE ~O
    <3>1. Unlisted' = Unlisted
      BY <2>1, <2>4, Consts DEF Unlisted, last
    <3>. QED BY <2>4, <3>1, <1>12 DEF UnlistedCnt
  <2>. QED BY <2>3, <2>4
<1>25. GcOK'
  <2>1. FreeBlks' = {} /\ Closed(vt)'
    <3>1. FreeBlks' = {}
      BY <1>3, <1>19, Consts DEF FreeBlks
    <3>2. vcount'[vt] = vcount[vt]
      BY <1>3, <1>9, <1>14
    <3>. QED BY <3>1, <3>2, <1>3, <1>12 DEF Closed
  <2>2. ASSUME GcBlkUsed' PROVE \A x \in LivePages' : cur_write_vpn'[Demoted(region'[vt'])][2] < x
    <3>1. region'[vt] = region[vt] /\ lists'[vt] = lists[vt] /\ vt' = vt
      BY <1>3, <1>9, <1>12, <1>13
    <3>2. cur_write_vpn'[Demoted(region'[vt'])][2] = e
      BY <3>1, <1>1, <1>18
    <3>3. ASSUME NEW x \in LivePages' PROVE x \in LivePages /\ x # p /\ x \in Nat
      <4>1. x \in 0 .. LastDataPage /\ lists[vt][x] \in Mapped /\ page_map'[lists[vt][x]] = <<vt, x>>
        BY <3>1, <3>3, <1>3, Consts DEF LivePages, TypeOK, DataPages
      <4>2. lists[vt][x] # l
        BY <4>1, <1>9, <1>13
      <4>3. page_map[lists[vt][x]] = <<vt, x>>
        BY <4>1, <4>2, <1>13
      <4>4. x \in LivePages
        BY <4>1, <4>3 DEF LivePages
      <4>. QED BY <4>1, <4>2, <4>4, <1>1, Consts
    <3>4. \A x \in LivePages' : x > p
      BY <3>3, <1>2
    <3>5. e <= p
      <4>1. CASE F
        BY <4>1, <1>2, <1>8
      <4>2. CASE ~F
        <5>1. vcount[g] = VC_ACTIVE
          BY <4>2, <2>2, <1>4, <1>5, <1>12, <1>14 DEF GcBlkUsed
        <5>2. q < p
          BY <5>1, <1>1, <1>2, <1>3 DEF GcOK, GcBlkUsed
        <5>. QED BY <4>2, <5>2, <1>2, <1>4, <1>8
      <4>. QED BY <4>1, <4>2
    <3>6. \A x \in LivePages' : e < x
      BY <3>3, <3>4, <3>5, <1>2, <1>9
    <3>. QED BY <3>2, <3>6
  <2>3. ASSUME IsOpen(new_region)' PROVE GcBlkUsed'
    <3>1. CASE F
      BY <3>1, <1>8, <1>12, <1>18 DEF GcBlkUsed
    <3>2. CASE ~F
      <4>1. new_region' = new_region /\ new_region \in Regions
        BY <1>12 DEF TypeOK
      <4>2. IsOpen(new_region)
        <5>1. CASE new_region = r
          BY <3>2, <5>1, <1>6
        <5>2. CASE new_region # r
          <6>1. /\ cur_write_vpn'[new_region] = cur_write_vpn[new_region]
                /\ vcount'[cur_write_vpn[new_region][1]] = vcount[cur_write_vpn[new_region][1]]
            BY <4>1, <5>2, <1>17
          <6>. QED BY <2>3, <4>1, <6>1 DEF IsOpen
        <5>. QED BY <5>1, <5>2
      <4>3. vcount[g] = VC_ACTIVE
        BY <4>2, <1>3 DEF GcOK, GcBlkUsed
      <4>. QED BY <3>2, <4>3, <1>4, <1>5, <1>12, <1>14 DEF GcBlkUsed
    <3>. QED BY <3>1, <3>2
  <2>4. ASSUME ~IsOpen(new_region)'
        PROVE  /\ Closed(vblock)' => age'[vblock'] = global_age'
               /\ vt' = vblock' \/ gc_vblock' = vblock' => vblock' = META_BLKS_PER_BANK /\ NoWorth'
               /\ gc_vblock' # vblock'
    <3>1. new_region' = new_region /\ new_region \in Regions /\ vblock' = vblock /\ vt' = vt /\ global_age' = global_age
          /\ gc_vblock' = gc_vblock /\ vblock \in Vblks
      BY <1>12 DEF TypeOK
    <3>2. new_region # r
      BY <2>4, <3>1, <1>18 DEF IsOpen
    <3>3. ~IsOpen(new_region) /\ (O => vblock # v)
      <4>1. /\ cur_write_vpn'[new_region] = cur_write_vpn[new_region]
            /\ vcount'[cur_write_vpn[new_region][1]] = vcount[cur_write_vpn[new_region][1]]
            /\ O => cur_write_vpn[new_region][1] # v
        BY <3>1, <3>2, <1>17
      <4>2. ~IsOpen(new_region)
        BY <2>4, <3>1, <4>1 DEF IsOpen
      <4>3. cur_write_vpn[new_region][1] = vblock
        BY <3>1, <4>2 DEF Roles
      <4>. QED BY <4>1, <4>2, <4>3
    <3>4. Closed(vblock)' => age'[vblock] = global_age
      <4>1. age'[vblock] = age[vblock]
        BY <3>1, <3>3, <1>13
      <4>2. Closed(vblock)' => Closed(vblock)
        BY <3>1, <3>3, <1>19 DEF Closed
      <4>. QED BY <3>3, <4>1, <4>2 DEF GcOK
    <3>5. ASSUME NoWorth PROVE NoWorth'
      <4> SUFFICES ASSUME NEW w \in (Candidates \ Empty)' PROVE Cost(w)' <= 0
        BY DEF NoWorth
      <4>1. /\ w \in Vblks /\ vcount'[w] # 0 /\ vcount'[w] \notin NotForVictim
            /\ vcount'[w] \in Pages \cup NotForVictim
        BY <1>20 DEF Candidates, Empty, TypeOK
      <4>2. vcount'[w] \in Nat \ {0} /\ vcount'[w] < PagesPerBlk
        BY <4>1, Consts DEF Pages
      <4>3. CASE O /\ w = v
        <5>1. age'[w] = global_age /\ global_age \in Nat
          BY <4>1, <4>3, <1>13 DEF TypeOK
        <5>2. PICK n \in Nat, b \in Nat : n = vcount'[w] /\ b = PagesPerBlk - n
          BY <4>2, Consts
        <5>3. (global_age - global_age) * b = 0 /\ 2 * n \in Nat \ {0}
          BY <4>2, <5>1, <5>2
        <5>4. Cost(w)' = ((global_age - global_age) * b) \div (2 * n)
          BY <3>1, <5>1, <5>2 DEF Cost
        <5>. QED BY <5>3, <5>4, Quotient
      <4>4. CASE ~(O /\ w = v)
        <5>1. vcount'[w] = vcount[w] /\ age'[w] = age[w]
          BY <4>1, <4>2, <4>4, <1>13, <1>19 DEF Closed
        <5>2. w \in Candidates \ Empty
          BY <4>1, <5>1 DEF Candidates, Empty
        <5>3. Cost(w)' = Cost(w)
          BY <3>1, <5>1 DEF Cost
        <5>. QED BY <3>5, <5>2, <5>3 DEF NoWorth
      <4>. QED BY <4>3, <4>4
    <3>. QED BY <3>1, <3>3, <3>4, <3>5, <1>3 DEF GcOK
  <2>. QED BY <2>1, <2>2, <2>3, <2>4, <1>12 DEF GcOK
<1>0. \A m \in Lpns : page_map'[m] = IF m = l THEN <<d, e>> ELSE page_map[m]
  BY <1>13, Consts
<1>26. Pending' = Pending
  BY <1>3, <1>12 DEF Pending
<1>27. Mapping'
  <2>1. \A m \in Lpns : page_map'[m] # Null <=> m \in written'
    <3>1. <<d, e>> # Null /\ <<vt, p>> # Null
      BY <1>3, <1>9, Consts DEF Null
    <3>. QED BY <3>1, <1>2, <1>12, <1>13, Consts DEF Mapping
  <2>2. ASSUME NEW m \in written \ Pending, NEW w \in Vblks, NEW x \in DataPages, LiesIn(m, w, x)
        PROVE  LiesIn(m, w, x)'
    <3>1. m \in Lpns /\ x \in Pages /\ x # last /\ flash[w][x] = m /\ vcount[w] # VC_FREE /\ vcount[w] # VC_MAX
      BY <2>2, Consts DEF TypeOK, LiesIn, last
    <3>2. ~(w = d /\ x = e)
      BY <3>1, <1>9, <1>10, Contents
    <3>3. flash'[w][x] = m
      BY <3>1, <3>2, <1>22
    <3>4. vcount'[w] # VC_FREE /\ vcount'[w] # VC_MAX
      BY <3>1, <1>19, Consts
    <3>5. ASSUME Closed(w)' PROVE lists'[w][x] = m
      <4>1. CASE O /\ w = v
        <5>1. vcount[v] = VC_ACTIVE /\ lists'[w] = lpn_list[r]
          BY <4>1, <1>4, <1>5, <1>13
        <5>. QED BY <2>2, <4>1, <5>1, <1>1, <1>4 DEF LiesIn
      <4>2. CASE ~(O /\ w = v)
        <5>1. Closed(w) /\ lists'[w] = lists[w]
          BY <3>5, <4>2, <1>13, <1>19
        <5>. QED BY <2>2, <5>1 DEF LiesIn
      <4>. QED BY <4>1, <4>2
    <3>6. ASSUME vcount'[w] = VC_ACTIVE, NEW t \in Regions, cur_write_vpn'[t][1] = w PROVE lpn_list'[t][x] = m
      <4>1. CASE t = r
        <5>1. w = d /\ x # e
          BY <3>2, <3>6, <4>1, <1>18
        <5>2. ~F
          BY <3>1, <5>1, <1>7, <1>8
        <5>3. vcount[w] = VC_ACTIVE /\ cur_write_vpn[r][1] = w /\ ~O
          BY <5>1, <5>2, <1>1, <1>4, <1>5, <1>6, <1>8
        <5>4. lpn_list[r][x] = m
          BY <2>2, <5>3, <1>4 DEF LiesIn
        <5>. QED BY <3>1, <4>1, <5>1, <5>3, <5>4, <1>4, <1>15
      <4>2. CASE t # r
        <5>1. w # d /\ cur_write_vpn[t][1] = w
          BY <3>6, <4>2, <1>17
        <5>2. vcount[w] = VC_ACTIVE
          BY <3>6, <5>1, <1>19
        <5>3. lpn_list[t][x] = m
          BY <2>2, <5>1, <5>2 DEF LiesIn
        <5>. QED BY <3>1, <4>2, <5>3, <1>15
      <4>. QED BY <4>1, <4>2
    <3>. QED BY <3>3, <3>4, <3>5, <3>6 DEF LiesIn
  <2>3. ASSUME l \in written \ Pending PROVE LiesIn(l, d, e)'
    <3>1. flash'[d][e] = l
      BY <2>3, <1>2, <1>3, <1>9, <1>16 DEF Mapping, LiesIn
    <3>2. \A t \in Regions : cur_write_vpn'[t][1] = d => t = r
      BY <1>17
    <3>3. lpn_list'[r][e] = l
      BY <1>4, <1>9, <1>15
    <3>. QED BY <3>1, <3>2, <3>3, <1>18, Consts DEF LiesIn, Closed
  <2>4. ASSUME NEW m \in written' \ Pending', NEW w \in Vblks, NEW x \in DataPages, page_map'[m] = <<w, x>>
        PROVE  LiesIn(m, w, x)'
    <3>1. m \in written \ Pending /\ m \in Lpns
      BY <2>4, <1>12, <1>26 DEF TypeOK
    <3>2. CASE m = l
      <4>1. w = d /\ x = e
        BY <2>4, <3>1, <3>2, <1>13, Consts
      <4>. QED BY <2>3, <3>1, <3>2, <4>1
    <3>3. CASE m # l
      <4>1. page_map[m] = <<w, x>>
        BY <2>4, <3>1, <3>3, <1>13, Consts
      <4>. QED BY <2>2, <3>1, <4>1 DEF Mapping
    <3>. QED BY <3>2, <3>3
  <2>. QED BY <2>1, <2>4 DEF Mapping
<1>28. Counts'
  <2>1. \A w \in Vblks : w # d => LiveIn(w)' \subseteq LiveIn(w)
    BY <1>0, <1>26 DEF LiveIn
  <2>2. \A w \in Vblks : LiveIn(w)' \subseteq LiveIn(w) \cup {l}
    BY <1>0, <1>26 DEF LiveIn
  <2>3. \A w \in Vblks : w # d => Cardinality(LiveIn(w)') <= Cardinality(LiveIn(w))
    BY <2>1, LiveFinite, CardBounds
  <2>4. \A w \in Vblks : Cardinality(LiveIn(w)') <= Cardinality(LiveIn(w)) + 1
    BY <2>2, LiveFinite, CardBounds
  <2>5. \A w \in Vblks : Cardinality(LiveIn(w)) \in Nat /\ Cardinality(LiveIn(w)') \in Nat
    <3>1. ASSUME NEW w \in Vblks PROVE Cardinality(LiveIn(w)') \in Nat
      <4>1. LiveIn(w)' \subseteq Lpns
        BY DEF LiveIn
      <4>. QED BY <4>1, Finite, CardBounds
    <3>. QED BY <3>1, LiveFinite
  <2>6. ASSUME NEW w \in Vblks, Closed(w)' PROVE Cardinality(LiveIn(w)') <= vcount'[w]
    <3>1. w # d /\ Cardinality(LiveIn(w)') <= Cardinality(LiveIn(w)) /\ vcount'[w] \in Nat
      BY <2>3, <2>6, <1>19 DEF Closed
    <3>2. CASE O /\ w = v
      <4>1. Cardinality(LiveIn(v)) <= vcount_of_active[r]
        BY <3>2, <1>1, <1>4, <1>5 DEF Counts
      <4>2. vcount'[w] = vcount_of_active[r]
        BY <3>2, <1>4, <1>9, <1>14
      <4>. QED BY <2>5, <3>1, <3>2, <4>1, <4>2
    <3>3. CASE ~(O /\ w = v)
      <4>1. Cardinality(LiveIn(w)) <= vcount[w] /\ vcount'[w] = vcount[w]
        BY <2>6, <3>3, <1>19 DEF Counts
      <4>. QED BY <2>5, <3>1, <4>1
    <3>. QED BY <3>2, <3>3
  <2>7. \A t \in Regions : /\ vcount_of_active[t] \in Nat
                           /\ vcount_of_active[t] <= IF IsOpen(t) THEN cur_write_vpn[t][2] + 1 ELSE 0
    BY DEF Counts, TypeOK
  <2>8. ASSUME NEW w \in Vblks, NEW t \in Regions, vcount'[w] = VC_ACTIVE, cur_write_vpn'[t][1] = w
        PROVE  Cardinality(LiveIn(w)') <= vcount_of_active'[t]
    <3>1. CASE t = r
      <4>1. w = d
        BY <2>8, <3>1, <1>18
      <4>2. CASE F
        <5>1. Cardinality(LiveIn(w)) = 0
          BY <4>1, <4>2, <1>4, <1>7, <1>8, FreeIsEmpty
        <5>2. vcount_of_active'[r] >= 1 /\ vcount_of_active'[r] \in Nat
          BY <2>7, <1>4, <1>13
        <5>. QED BY <2>4, <2>5, <3>1, <5>1, <5>2
      <4>3. CASE ~F
        <5>1. w = v /\ vcount[v] = VC_ACTIVE /\ ~O
          BY <4>1, <4>3, <1>5, <1>6, <1>8
        <5>2. Cardinality(LiveIn(w)) <= vcount_of_active[r]
          BY <5>1, <1>1, <1>4 DEF Counts
        <5>3. vcount_of_active'[r] = vcount_of_active[r] + 1
          BY <5>1, <1>4, <1>13
        <5>. QED BY <2>4, <2>5, <2>7, <3>1, <5>2, <5>3, <1>4
      <4>. QED BY <4>2, <4>3
    <3>2. CASE t # r
      <4>1. w # d /\ cur_write_vpn[t][1] = w /\ vcount_of_active'[t] = vcount_of_active[t]
        BY <2>8, <3>2, <1>13, <1>17
      <4>2. vcount[w] = VC_ACTIVE
        BY <2>8, <4>1, <1>19
      <4>3. Cardinality(LiveIn(w)) <= vcount_of_active[t]
        BY <4>1, <4>2 DEF Counts
      <4>. QED BY <2>3, <2>5, <2>7, <4>1, <4>3
    <3>. QED BY <3>1, <3>2
  <2>9. \A t \in Regions : vcount_of_active'[t] <= IF IsOpen(t)' THEN cur_write_vpn'[t][2] + 1 ELSE 0
    <3>1. ASSUME NEW t \in Regions, t # r
          PROVE  vcount_of_active'[t] <= IF IsOpen(t)' THEN cur_write_vpn'[t][2] + 1 ELSE 0
      <4>1. vcount_of_active'[t] = vcount_of_active[t] /\ cur_write_vpn'[t] = cur_write_vpn[t] /\ (IsOpen(t)' <=> IsOpen(t))
        BY <3>1, <1>13, <1>17
      <4>. QED BY <2>7, <4>1
    <3>2. vcount_of_active'[r] <= e + 1
      <4>1. vcount_of_active'[r] = (IF O THEN 0 ELSE vcount_of_active[r]) + 1
        BY <1>4, <1>13
      <4>2. CASE F
        <5>1. ~O => vcount_of_active[r] = 0
          BY <2>7, <4>2, <1>4, <1>5
        <5>. QED BY <4>1, <4>2, <5>1, <1>8
      <4>3. CASE ~F
        <5>1. ~O /\ vcount_of_active[r] <= q + 1
          BY <2>7, <4>3, <1>1, <1>4, <1>5, <1>6
        <5>. QED BY <2>7, <4>1, <4>3, <5>1, <1>4, <1>8
      <4>. QED BY <4>2, <4>3
    <3>3. ASSUME NEW t \in Regions, t = r
          PROVE  vcount_of_active'[t] <= IF IsOpen(t)' THEN cur_write_vpn'[t][2] + 1 ELSE 0
      <4>1. IsOpen(t)' /\ cur_write_vpn'[t][2] = e /\ vcount_of_active'[t] <= e + 1
        <5>1. cur_write_vpn'[t] = cur_write_vpn'[r]
          BY <3>3
        <5>. QED BY <3>2, <3>3, <5>1, <1>18 DEF IsOpen
      <4>. QED BY <4>1
    <3>. QED BY <3>1, <3>3
  <2>. QED BY <2>6, <2>8, <2>9, <1>12 DEF Counts
<1>. QED BY <1>20, <1>21, <1>23, <1>24, <1>25, <1>27, <1>28
-----------------------------------------------------------------------------
(***************************************************************************)
(* The initial state.                                                      *)
(***************************************************************************)
\* Nth numbers the good blocks from 0 up, at least as far as the layout needs them.
LEMMA NthGood ==
  /\ \A i \in 0 .. NumRegion : Nth(i) \in Good
  /\ \A i, j \in 0 .. NumRegion : i < j => Nth(i) < Nth(j)
  /\ \A v \in Good : v <= Nth(NumRegion) => \E i \in 0 .. NumRegion : v = Nth(i)
<1> DEFINE below(v) == {w \in Good : w < v}
           rank(v) == Cardinality(below(v))
           N == 0 .. Cardinality(Good) - 1
<1>1. /\ IsFiniteSet(Good) /\ Cardinality(Good) \in Nat /\ Cardinality(Good) > NumRegion + 1
      /\ NumRegion \in Nat /\ Good \subseteq Nat
  BY Finite, FS_CardinalityType, Consts, DacAssumption DEF DacAssumption
<1>2. \A v \in Good : /\ IsFiniteSet(below(v)) /\ rank(v) \in Nat /\ rank(v) < Cardinality(Good)
  <2> TAKE v \in Good
  <2>1. below(v) \subseteq Good \ {v}
    BY <1>1
  <2>2. IsFiniteSet(Good \ {v}) /\ Cardinality(Good \ {v}) = Cardinality(Good) - 1
    BY <1>1, FS_RemoveElement
  <2>3. IsFiniteSet(below(v)) /\ Cardinality(below(v)) <= Cardinality(Good) - 1 /\ Cardinality(below(v)) \in Nat
    BY <2>1, <2>2, FS_Subset, FS_CardinalityType
  <2>. QED BY <1>1, <2>3
<1>3. ASSUME NEW v \in Good, NEW w \in Good, v < w PROVE rank(v) < rank(w)
  <2>1. v \in Nat /\ w \in Nat /\ \A x \in Good : x \in Nat
    BY <1>1
  <2>2. below(v) \subseteq below(w) \ {v} /\ v \in below(w)
    <3>1. ASSUME NEW x \in below(v) PROVE x \in below(w) /\ x # v
      <4>1. x \in Good /\ x < v /\ x \in Nat
        BY <2>1
      <4>. QED BY <4>1, <1>3, <2>1
    <3>2. v \in below(w)
      BY <1>3
    <3>. QED BY <3>1, <3>2
  <2>3. rank(v) \in Nat /\ rank(w) \in Nat /\ IsFiniteSet(below(w))
    BY <1>2
  <2> HIDE DEF below
  <2>4. Cardinality(below(v)) <= Cardinality(below(w)) - 1
    BY <2>2, <2>3, CardBounds
  <2>. QED BY <2>3, <2>4
<1>4. \A i : Nth(i) = CHOOSE v \in Good : rank(v) = i
  BY DEF Nth
<1> HIDE DEF rank, below
<1>5. \A v, w \in Good : rank(v) = rank(w) => v = w
  <2> SUFFICES ASSUME NEW v \in Good, NEW w \in Good, v # w PROVE rank(v) # rank(w)
    OBVIOUS
  <2>1. v < w \/ w < v
    BY <1>1
  <2>. QED BY <2>1, <1>2, <1>3
<1>6. \A k \in N : \E v \in Good : rank(v) = k
  <2> DEFINE f == [v \in Good |-> rank(v)]
  <2>1. f \in Injection(Good, N)
    BY <1>1, <1>2, <1>5 DEF Injection, IsInjective
  <2>2. IsFiniteSet(N) /\ Cardinality(N) = Cardinality(Good)
    <3>1. 0 \in Int /\ Cardinality(Good) - 1 \in Int
      BY <1>1
    <3>2. /\ IsFiniteSet(0 .. Cardinality(Good) - 1)
          /\ Cardinality(0 .. Cardinality(Good) - 1) =
               IF 0 > Cardinality(Good) - 1 THEN 0 ELSE Cardinality(Good) - 1 - 0 + 1
      BY <3>1, FS_Interval
    <3>. QED BY <1>1, <3>2
  <2>3. f \in Surjection(Good, N)
    BY <2>1, <2>2, <1>1, FS_Injection
  <2>. QED BY <2>3 DEF Surjection
<1>7. \A i \in 0 .. NumRegion : Nth(i) \in Good /\ rank(Nth(i)) = i
  <2> TAKE i \in 0 .. NumRegion
  <2>1. i \in N
    BY <1>1
  <2>2. \E v \in Good : rank(v) = i
    BY <2>1, <1>6
  <2>. QED BY <2>2, <1>4, Zenon
<1>8. \A i, j \in 0 .. NumRegion : i < j => Nth(i) < Nth(j)
  <2> SUFFICES ASSUME NEW i \in 0 .. NumRegion, NEW j \in 0 .. NumRegion, i < j, ~(Nth(i) < Nth(j)) PROVE FALSE
    OBVIOUS
  <2>1. Nth(i) \in Good /\ Nth(j) \in Good /\ rank(Nth(i)) = i /\ rank(Nth(j)) = j
    BY <1>7
  <2>2. Nth(i) \in Nat /\ Nth(j) \in Nat
    BY <1>1, <2>1
  <2>3. Nth(i) = Nth(j) \/ Nth(j) < Nth(i)
    BY <2>2
  <2>4. Nth(j) < Nth(i) => j < i
    BY <1>3, <2>1
  <2>. QED BY <1>1, <2>1, <2>3, <2>4
<1>9. ASSUME NEW v \in Good, v <= Nth(NumRegion) PROVE \E i \in 0 .. NumRegion : v = Nth(i)
  <2>1. Nth(NumRegion) \in Good /\ rank(Nth(NumRegion)) = NumRegion
    BY <1>1, <1>7
  <2>2. v < Nth(NumRegion) \/ v = Nth(NumRegion)
    <3>1. v \in Nat /\ Nth(NumRegion) \in Nat
      BY <1>1, <1>9, <2>1
    <3>. QED BY <3>1, <1>9
  <2>3. rank(v) \in Nat /\ rank(v) <= NumRegion
    <3>1. rank(v) \in Nat
      BY <1>2
    <3>2. v < Nth(NumRegion) => rank(v) < rank(Nth(NumRegion))
      BY <1>3, <2>1
    <3>. QED BY <1>1, <2>1, <2>2, <3>1, <3>2
  <2>4. rank(v) \in 0 .. NumRegion
    BY <1>1, <2>3
  <2>. QED BY <2>4, <1>5, <1>7
<1>. QED BY <1>7, <1>8, <1>9

\* After init_metadata_sram the first good block is kept for garbage collection, the next ones are
\* active, one for every region, and the others are free.
LEMMA InitInv == Init => IInv
<1> SUFFICES ASSUME Init PROVE IInv
  OBVIOUS
<1> DEFINE N == 0 .. NumRegion
<1>1. /\ \A r \in Regions : r + 1 \in N /\ 0 < r + 1 /\ r + 1 <= NumRegion /\ r \in Nat
      /\ 0 \in N /\ NumRegion \in N
      /\ \A i \in N : i # 0 => i - 1 \in Regions /\ i = (i - 1) + 1
  BY Consts DEF Regions
<1>2. /\ \A r \in Regions : Nth(r + 1) \in Good /\ Nth(r + 1) # Nth(0) /\ Nth(r + 1) <= Nth(NumRegion)
      /\ \A r, s \in Regions : Nth(r + 1) = Nth(s + 1) => r = s
      /\ Nth(0) \in Good
  <2>1. \A i \in N : Nth(i) \in Good /\ Nth(i) \in Nat
    BY NthGood, Consts
  <2>2. \A i, j \in N : i < j => Nth(i) < Nth(j)
    BY NthGood
  <2>3. \A r \in Regions : Nth(0) < Nth(r + 1)
    BY <1>1, <2>2
  <2>4. \A r \in Regions : r + 1 = NumRegion \/ Nth(r + 1) < Nth(NumRegion)
    BY <1>1, <2>2, Consts
  <2>5. \A r, s \in Regions : r < s => Nth(r + 1) < Nth(s + 1)
    BY <1>1, <2>2
  <2>. QED BY <1>1, <2>1, <2>3, <2>4, <2>5
<1>3. /\ \A v \in Vblks : vcount[v] = IF v \in BadBlks \cup {Nth(0)} THEN VC_MAX
                                     ELSE IF v <= Nth(NumRegion) THEN VC_ACTIVE ELSE VC_FREE
      /\ \A r \in Regions : cur_write_vpn[r] = <<Nth(r + 1), 0>>
      /\ \A r \in Regions : cur_write_vpn[r][1] = Nth(r + 1) /\ cur_write_vpn[r][2] = 0
      /\ gc_vblock = Nth(0) /\ pc = "idle" /\ new_region = 0 /\ written = {} /\ page_map = [l \in Mapped |-> Null]
      /\ flash = [v \in Vblks |-> [p \in Pages |-> Erased]]
      /\ free_blk_cnt = Cardinality(Good) /\ vcount_of_active = [r \in Regions |-> 0]
  BY DEF Init
<1>4. \A v \in Vblks : v \in Good => v \notin BadBlks
  BY DEF Good
<1>5. \A r \in Regions : IsOpen(r)
  <2> SUFFICES ASSUME NEW r \in Regions PROVE vcount[Nth(r + 1)] = VC_ACTIVE
    BY <1>3 DEF IsOpen
  <2>1. /\ Nth(r + 1) \in Good /\ Nth(r + 1) \in Vblks
        /\ Nth(r + 1) # Nth(0) /\ Nth(r + 1) <= Nth(NumRegion)
    BY <1>2, Consts
  <2>2. Nth(r + 1) \notin BadBlks \cup {Nth(0)}
    BY <2>1, <1>4
  <2>. QED BY <1>3, <2>1, <2>2
<1>6. \A v \in Vblks : ~Closed(v)
  BY <1>3, Consts DEF Closed
<1>7. TypeOK
  <2>1. vcount \in [Vblks -> Pages \cup NotForVictim]
    BY DEF Init, NotForVictim
  <2>2. cur_write_vpn \in [Regions -> Good \X DataPages]
    BY <1>2, Consts DEF Init
  <2>3. gc_vblock \in Good /\ vblock \in Vblks /\ vt \in Vblks /\ new_region \in Regions
    BY <1>2, Consts DEF Init
  <2>4. flash \in [Vblks -> [Pages -> Content]] /\ lists \in [Vblks -> [Pages -> Mapped]]
        /\ lpn_list \in [Regions -> [Pages -> Mapped]]
    BY Consts DEF Init, Content, NoList
  <2>5. todo \in Seq(SUBSET Request)
    BY DacAssumption DEF DacAssumption, Init
  <2>6. age \in [Vblks -> Nat] /\ global_age \in Nat /\ \A v \in Vblks : age[v] <= global_age
    BY DEF Init
  <2>7. page_map \in [Mapped -> (Vblks \X DataPages) \cup {Null}] /\ DOMAIN region = Vblks
        /\ vcount_of_active \in [Regions -> Nat]
    BY DEF Init
  <2>8. pc = "idle" /\ written = {}
    BY DEF Init
  <2>. QED BY <2>1, <2>2, <2>3, <2>4, <2>5, <2>6, <2>7, <2>8 DEF TypeOK, Steps
<1>8. Roles
  <2>1. \A v \in BadBlks : vcount[v] = VC_MAX
    BY <1>3, Consts
  <2>2. \A v \in Good : vcount[v] = VC_MAX => v = gc_vblock
    BY <1>3, <1>4, Consts
  <2>3. vcount[gc_vblock] = VC_MAX
    BY <1>2, <1>3, Consts
  <2>4. ASSUME NEW v \in Vblks, vcount[v] = VC_ACTIVE PROVE \E r \in Regions : cur_write_vpn[r][1] = v
    <3>1. v \in Good /\ v # Nth(0) /\ v <= Nth(NumRegion)
      BY <1>3, <2>4, Consts DEF Good
    <3>2. PICK i \in N : v = Nth(i)
      BY <3>1, NthGood
    <3>3. i # 0
      BY <3>1, <3>2
    <3>4. i - 1 \in Regions /\ Nth((i - 1) + 1) = v
      BY <3>2, <3>3, <1>1
    <3>. QED BY <3>4, <1>3
  <2>5. \A r \in Regions : region[cur_write_vpn[r][1]] = r
    <3> SUFFICES ASSUME NEW r \in Regions PROVE region[Nth(r + 1)] = r
      BY <1>3
    <3>1. Nth(r + 1) \in Vblks /\ Nth(r + 1) # Nth(0)
      BY <1>2, Consts
    <3>2. region[Nth(r + 1)] = CHOOSE s \in Regions : Nth(r + 1) = Nth(s + 1)
      BY <3>1 DEF Init
    <3>3. (CHOOSE s \in Regions : Nth(r + 1) = Nth(s + 1)) \in Regions
          /\ Nth(r + 1) = Nth((CHOOSE s \in Regions : Nth(r + 1) = Nth(s + 1)) + 1)
      BY Zenon
    <3>. QED BY <3>2, <3>3, <1>2, Zenon
  <2>. QED BY <1>2, <1>3, <1>5, <1>6, <2>1, <2>2, <2>3, <2>4, <2>5 DEF Roles
<1>9. ErasedOK
  <2>1. \A v \in Vblks : \A p \in Pages : flash[v][p] = Erased
    BY <1>3
  <2>. QED BY <1>3, <1>6, <2>1, Pointer, <1>7 DEF ErasedOK
<1>10. UnlistedCnt
  <2>1. Unlisted = Good
    BY <1>3, Consts DEF Unlisted
  <2>. QED BY <2>1, <1>3 DEF UnlistedCnt
<1>11. GcOK
  <2>1. IsOpen(new_region)
    BY <1>3, <1>5, Consts
  <2>. QED BY <2>1, <1>3 DEF GcOK
<1>12. Mapping
  BY <1>3, Consts DEF Mapping
<1>13. Counts
  <2>1. \A v \in Vblks : LiveIn(v) = {}
    BY <1>3, Consts DEF LiveIn
  <2>2. \A v \in Vblks : Cardinality(LiveIn(v)) = 0
    BY <2>1, FS_EmptySet
  <2>. QED BY <1>3, <1>5, <1>6, <2>2, Consts DEF Counts
<1>. QED BY <1>7, <1>8, <1>9, <1>10, <1>11, <1>12, <1>13 DEF IInv

-----------------------------------------------------------------------------
(***************************************************************************)
(* The theorems.                                                           *)
(***************************************************************************)
\* A step that changes nothing keeps the invariant.
LEMMA StutterStep ==
  ASSUME IInv, UNCHANGED vars
  PROVE  IInv'
<1> USE DEF IInv
<1>1. /\ pc' = pc /\ page_map' = page_map /\ lpn_list' = lpn_list /\ vcount_of_active' = vcount_of_active
      /\ vcount' = vcount /\ region' = region /\ age' = age /\ gc_vblock' = gc_vblock
      /\ free_blk_cnt' = free_blk_cnt /\ flash' = flash /\ lists' = lists /\ cur_write_vpn' = cur_write_vpn
      /\ req' = req /\ data' = data /\ new_region' = new_region /\ written' = written /\ todo' = todo
      /\ global_age' = global_age /\ vblock' = vblock /\ vt' = vt
  BY DEF vars, regVars, blkVars, nandVars, reqVars, hostVars
<1>2. TypeOK' /\ Roles'
  BY <1>1 DEF TypeOK, Roles, IsOpen, Closed
<1>3. ErasedOK' /\ UnlistedCnt' /\ Mapping'
  BY <1>1 DEF ErasedOK, UnlistedCnt, Unlisted, Mapping, LiesIn, Pending, IsOpen, Closed, At
<1>4. GcOK'
  <2>1. NoWorth' <=> NoWorth
    BY <1>1 DEF NoWorth, Candidates, Empty, Cost
  <2>2. LivePages' = LivePages /\ FreeBlks' = FreeBlks /\ (GcBlkUsed' <=> GcBlkUsed)
    BY <1>1 DEF LivePages, FreeBlks, GcBlkUsed
  <2>3. (IsOpen(new_region)' <=> IsOpen(new_region)) /\ (Closed(vt)' <=> Closed(vt)) /\ (Closed(vblock)' <=> Closed(vblock))
    BY <1>1 DEF IsOpen, Closed
  <2>. QED BY <1>1, <2>1, <2>2, <2>3 DEF GcOK
<1>5. Counts'
  <2>1. \A v \in Vblks : LiveIn(v)' = LiveIn(v)
    BY <1>1 DEF LiveIn, Pending
  <2>. QED BY <1>1, <2>1 DEF Counts, IsOpen, Closed
<1>. QED BY <1>2, <1>3, <1>4, <1>5

\* What becomes of logical page 0 in bank 0 changes nothing here.
LEMMA MovedStep ==
  ASSUME IInv, PageZeroMoved
  PROVE  IInv'
<1> USE DEF IInv
<1>1. /\ pc = "idle" /\ pc' = "idle" /\ lpn_list' = lpn_list /\ vcount_of_active' = vcount_of_active
      /\ vcount' = vcount /\ region' = region /\ age' = age /\ gc_vblock' = gc_vblock
      /\ free_blk_cnt' = free_blk_cnt /\ flash' = flash /\ lists' = lists /\ cur_write_vpn' = cur_write_vpn
      /\ req' = req /\ data' = data /\ new_region' = new_region /\ written' = written /\ todo' = todo
      /\ global_age' = global_age /\ vblock' = vblock /\ vt' = vt
  BY DEF PageZeroMoved, regVars, blkVars, nandVars, reqVars, hostVars
<1>2. PICK vpn \in Vblks \X DataPages : page_map' = [page_map EXCEPT ![0] = vpn]
  BY DacAssumption DEF DacAssumption, PageZeroMoved, DataPages
<1>3. \A m \in Lpns : page_map'[m] = page_map[m]
  BY <1>2, Consts DEF TypeOK, PageZeroMoved
<1>4. TypeOK'
  <2>1. page_map' \in [Mapped -> (Vblks \X DataPages) \cup {Null}]
    BY <1>2 DEF TypeOK
  <2>. QED BY <1>1, <2>1 DEF TypeOK
<1>5. Roles' /\ ErasedOK' /\ UnlistedCnt'
  BY <1>1 DEF Roles, ErasedOK, UnlistedCnt, Unlisted, IsOpen, Closed, At
<1>6. GcOK'
  <2>1. IsOpen(new_region)' <=> IsOpen(new_region)
    BY <1>1 DEF IsOpen
  <2>2. \A r \in Regions : IsOpen(r)
    BY <1>1 DEF Roles
  <2>. QED BY <1>1, <2>1, <2>2 DEF GcOK, TypeOK
<1>7. Mapping'
  <2>1. Pending' = Pending /\ written \subseteq Lpns
    BY <1>1 DEF Pending, TypeOK
  <2>2. \A m, v, x : LiesIn(m, v, x)' <=> LiesIn(m, v, x)
    BY <1>1 DEF LiesIn, Closed
  <2>3. \A m \in Lpns : page_map'[m] # Null <=> m \in written'
    BY <1>1, <1>3 DEF Mapping
  <2>4. ASSUME NEW m \in written' \ Pending', NEW v \in Vblks, NEW x \in DataPages, page_map'[m] = <<v, x>>
        PROVE  LiesIn(m, v, x)'
    <3>1. m \in written \ Pending /\ page_map[m] = <<v, x>>
      BY <2>1, <2>4, <1>1, <1>3
    <3>. QED BY <2>2, <3>1 DEF Mapping
  <2>. QED BY <2>3, <2>4 DEF Mapping
<1>8. Counts'
  <2>1. \A v \in Vblks : LiveIn(v)' = LiveIn(v)
    BY <1>1, <1>3 DEF LiveIn, Pending
  <2>. QED BY <1>1, <2>1 DEF Counts, IsOpen, Closed
<1>. QED BY <1>4, <1>5, <1>6, <1>7, <1>8

\* Every step keeps the invariant.
LEMMA NextInv == IInv /\ [Next]_vars => IInv'
<1> SUFFICES ASSUME IInv, [Next]_vars PROVE IInv'
  OBVIOUS
<1>1. CASE UNCHANGED vars
  BY <1>1, StutterStep
<1>2. ASSUME NEW r \in Request, write_page(r) PROVE IInv'
  BY <1>2, WriteStep
<1>3. CASE NextPageInBlk \/ NextPageAfterGc
  BY <1>3, NextPageStep
<1>4. CASE CloseBlk
  BY <1>4, CloseStep
<1>5. CASE NextFreeBlk
  BY <1>5, NextFreeStep
<1>6. CASE EraseEmptyVictim
  BY <1>6, EraseEmptyStep
<1>7. CASE SelectVictim
  BY <1>7, SelectStep
<1>8. CASE CopyPage
  BY <1>8, CopyStep
<1>9. CASE EraseVictim
  BY <1>9, EraseVictimStep
<1>10. CASE ProgramPage
  BY <1>10, ProgramStep
<1>11. CASE StopAtAssert
  BY <1>11, AssertStep
<1>12. CASE PageZeroMoved
  BY <1>12, MovedStep
<1>. QED BY <1>1, <1>2, <1>3, <1>4, <1>5, <1>6, <1>7, <1>8, <1>9, <1>10, <1>11, <1>12 DEF Next, Ftl

\* The conjuncts of IInv hold in every reachable state: blocks have one role each, and the counts,
\* the lpn lists and the page map agree.
THEOREM Invariance == Spec => []IInv
<1>1. Init => IInv
  BY InitInv
<1>2. IInv /\ [Next]_vars => IInv'
  BY NextInv
<1>. QED BY <1>1, <1>2, PTL DEF Spec

\* Every variable keeps the values of its type: no count leaves the range of a page number, a write
\* pointer never names a bad block, and no page is programmed twice.
THEOREM TypeCorrect == Spec => []TypeOK
<1>1. IInv => TypeOK
  BY DEF IInv
<1>. QED BY <1>1, Invariance, PTL

\* Every page but the one being written is mapped to its last write (page map and erasure,
\* ftl_dac/ftl.c:1222, 1254, 1305, 1314), for every workload and geometry.
THEOREM OwnMapIsRight == Spec => []OwnPagesKept
<1>1. IInv => OwnPagesKept
  <2> SUFFICES ASSUME IInv, NEW lpn \in written \ Pending PROVE At(page_map[lpn]) = lpn
    BY DEF OwnPagesKept
  <2>1. TypeOK /\ Mapping /\ lpn \in Lpns /\ page_map[lpn] # Null
    BY DEF IInv, Mapping, TypeOK
  <2>2. PICK v \in Vblks, p \in DataPages : page_map[lpn] = <<v, p>>
    BY <2>1, MappedPage
  <2>3. flash[v][p] = lpn
    BY <2>1, <2>2 DEF Mapping, LiesIn
  <2>. QED BY <2>2, <2>3 DEF At
<1>. QED BY <1>1, Invariance, PTL

-----------------------------------------------------------------------------
(***************************************************************************)
(* Logical page 0 of another bank.  An entry of a list that names no page  *)
(* of the bank is the one of a page that was never written, the first of a *)
(* region's first block.                                                   *)
(***************************************************************************)
\* Bank 0 itself, or bank 0 never has logical page 0 where this bank's regions have
\* the pages they never wrote.
NoPhantom == 0 \in Lpns \/ ZeroVpns \cap FirstPages = {}

Unnamed(r) == pc = "program" /\ r = new_region      \* the page just assigned is not in the list yet

ListsOK ==
  /\ \A v \in Vblks : Closed(v) => \A p \in DataPages : lists[v][p] \in Lpns \/ <<v, p>> \in FirstPages
  /\ \A r \in Regions : IsOpen(r) =>
       \A p \in DataPages : p < cur_write_vpn[r][2] \/ (p = cur_write_vpn[r][2] /\ ~Unnamed(r))
         => lpn_list[r][p] \in Lpns \/ <<cur_write_vpn[r][1], p>> \in FirstPages

\* Steps that close no block, open none, and touch no list and no write pointer.
LEMMA ListsSame ==
  ASSUME ListsOK, pc' # "program", pc # "program", lists' = lists, lpn_list' = lpn_list,
         cur_write_vpn' = cur_write_vpn, TypeOK,
         \A v \in Vblks : (Closed(v)' => Closed(v)) /\ (vcount'[v] = VC_ACTIVE => vcount[v] = VC_ACTIVE)
  PROVE  ListsOK'
<1>1. \A v \in Vblks : Closed(v)' => \A p \in DataPages : lists'[v][p] \in Lpns \/ <<v, p>> \in FirstPages
  BY DEF ListsOK
<1>2. ASSUME NEW r \in Regions, IsOpen(r)', NEW p \in DataPages, p <= cur_write_vpn[r][2]
      PROVE  lpn_list[r][p] \in Lpns \/ <<cur_write_vpn[r][1], p>> \in FirstPages
  <2>1. IsOpen(r)
    BY <1>2, Pointer DEF IsOpen
  <2>2. p < cur_write_vpn[r][2] \/ p = cur_write_vpn[r][2]
    <3>1. PICK q \in Nat : q = cur_write_vpn[r][2]
      BY Pointer, Consts
    <3>2. p \in Nat
      BY Consts
    <3>. QED BY <1>2, <3>1, <3>2
  <2>. QED BY <1>2, <2>1, <2>2 DEF ListsOK, Unnamed
<1>3. \A r \in Regions : \A p \in DataPages : p < cur_write_vpn[r][2] \/ p = cur_write_vpn[r][2] => p <= cur_write_vpn[r][2]
  <2> SUFFICES ASSUME NEW r \in Regions, NEW p \in DataPages
               PROVE  p < cur_write_vpn[r][2] \/ p = cur_write_vpn[r][2] => p <= cur_write_vpn[r][2]
    OBVIOUS
  <2>1. PICK q \in Nat : q = cur_write_vpn[r][2]
    BY Pointer, Consts
  <2>2. p \in Nat
    BY Consts
  <2>. QED BY <2>1, <2>2
<1>. QED BY <1>1, <1>2, <1>3 DEF ListsOK

\* The page after the last one written is assigned.
LEMMA ListsNextPage ==
  ASSUME ListsOK, TypeOK, NextPageInBlk \/ NextPageAfterGc
  PROVE  ListsOK'
<1> DEFINE R == new_region
<1>1. /\ pc # "program" /\ pc' = "program" /\ ~Full(cur_write_vpn[R])
      /\ cur_write_vpn' = [cur_write_vpn EXCEPT ![R] = inc_cur_write_vpn(@)]
      /\ lists' = lists /\ lpn_list' = lpn_list /\ vcount' = vcount /\ new_region' = R /\ R \in Regions
  BY DEF NextPageInBlk, NextPageAfterGc, blkVars, nandVars, reqVars, TypeOK
<1>2. PICK b \in Good, q \in DataPages : /\ cur_write_vpn[R] = <<b, q>> /\ cur_write_vpn[R][1] = b /\ cur_write_vpn[R][2] = q
                                        /\ q \in Nat /\ q # PagesPerBlk - 1
  BY <1>1, Pointer, Consts
<1>3. cur_write_vpn'[R] = <<b, q + 1>> /\ \A r \in Regions : r # R => cur_write_vpn'[r] = cur_write_vpn[r]
  BY <1>1, <1>2 DEF inc_cur_write_vpn, TypeOK
<1>4. \A v \in Vblks : Closed(v)' => \A p \in DataPages : lists'[v][p] \in Lpns \/ <<v, p>> \in FirstPages
  BY <1>1 DEF ListsOK, Closed
<1>5. ASSUME NEW r \in Regions, IsOpen(r)', NEW p \in DataPages,
             p < cur_write_vpn'[r][2] \/ (p = cur_write_vpn'[r][2] /\ ~Unnamed(r)')
      PROVE  lpn_list'[r][p] \in Lpns \/ <<cur_write_vpn'[r][1], p>> \in FirstPages
  <2>1. CASE r = R
    <3>1. cur_write_vpn'[r][1] = b /\ cur_write_vpn'[r][2] = q + 1 /\ vcount[b] = VC_ACTIVE
      BY <2>1, <1>1, <1>3, <1>5 DEF IsOpen
    <3>2. p < q + 1
      BY <2>1, <3>1, <1>1, <1>5 DEF Unnamed
    <3>3. p < q \/ p = q
      BY <3>2, <1>2, Consts
    <3>. QED BY <2>1, <3>1, <3>3, <1>1, <1>2 DEF ListsOK, IsOpen, Unnamed
  <2>2. CASE r # R
    BY <2>2, <1>1, <1>3, <1>5 DEF ListsOK, IsOpen, Unnamed
  <2>. QED BY <2>1, <2>2
<1>. QED BY <1>4, <1>5 DEF ListsOK

\* A block is closed: its list is the one of its region, which names all its pages.
LEMMA ListsClose ==
  ASSUME ListsOK, IInv, CloseBlk
  PROVE  ListsOK'
<1> DEFINE R == new_region
           v == cur_write_vpn[R][1]
<1>1. /\ pc = "assign" /\ pc' = "gc" /\ Full(cur_write_vpn[R]) /\ lists' = [lists EXCEPT ![v] = lpn_list[R]]
      /\ lpn_list' = [lpn_list EXCEPT ![R] = NoList]
      /\ vcount' = [vcount EXCEPT ![v] = vcount_of_active[R]]
      /\ cur_write_vpn' = cur_write_vpn
  BY DEF CloseBlk, BlockClosed
<1>2. /\ R \in Regions /\ v \in Vblks /\ IsOpen(R) /\ cur_write_vpn[R][2] = LastDataPage
      /\ \A r \in Regions : r # R => cur_write_vpn[r][1] # v
      /\ vcount_of_active[R] # VC_ACTIVE
  <2>1. R \in Regions /\ TypeOK /\ vcount_of_active[R] \in Nat
    BY DEF IInv, TypeOK
  <2>2. IsOpen(R) /\ \A r \in Regions : r # R => cur_write_vpn[r][1] # v
    BY <1>1, <2>1 DEF IInv, Roles
  <2>. QED BY <1>1, <2>1, <2>2, Pointer, Consts DEF Full
<1>3. /\ \A w \in Vblks : w # v => lists'[w] = lists[w] /\ vcount'[w] = vcount[w]
      /\ lists'[v] = lpn_list[R] /\ vcount'[v] # VC_ACTIVE
      /\ \A r \in Regions : r # R => lpn_list'[r] = lpn_list[r]
  BY <1>1, <1>2 DEF IInv, TypeOK
<1>4. \A p \in DataPages : lpn_list[R][p] \in Lpns \/ <<v, p>> \in FirstPages
  <2>1. \A p \in DataPages : p < LastDataPage \/ p = LastDataPage
    BY Consts DEF DataPages
  <2>. QED BY <1>1, <1>2, <2>1 DEF ListsOK, Unnamed
<1>5. \A w \in Vblks : Closed(w)' => \A p \in DataPages : lists'[w][p] \in Lpns \/ <<w, p>> \in FirstPages
  BY <1>3, <1>4 DEF ListsOK, Closed
<1>6. \A r \in Regions : IsOpen(r)' => r # R /\ IsOpen(r)
  BY <1>1, <1>2, <1>3, Pointer DEF IsOpen, IInv
<1>. QED BY <1>1, <1>3, <1>5, <1>6 DEF ListsOK, Unnamed

\* A region gets the first page of a free block, which is not in its list yet.
LEMMA ListsFree ==
  ASSUME ListsOK, IInv, IInv', NextFreeBlk
  PROVE  ListsOK'
<1> DEFINE R == new_region
<1>1. PICK n \in Vblks : n = NextFree
  <2>1. NextFree \in FreeBlks
    BY NextFreeIn DEF NextFreeBlk, SearchEnds, IInv, TypeOK
  <2>. QED BY <2>1 DEF FreeBlks
<1>2. /\ pc = "gc" /\ pc' = "program" /\ lists' = lists /\ lpn_list' = lpn_list /\ new_region' = R /\ R \in Regions
      /\ vcount' = [vcount EXCEPT ![n] = VC_ACTIVE]
      /\ cur_write_vpn' = [cur_write_vpn EXCEPT ![R] = <<n, 0>>]
  BY <1>1 DEF NextFreeBlk, SearchEnds, nandVars, reqVars, IInv, TypeOK
<1>3. /\ \A w \in Vblks : w # n => vcount'[w] = vcount[w]
      /\ vcount'[n] = VC_ACTIVE
      /\ cur_write_vpn'[R] = <<n, 0>> /\ cur_write_vpn'[R][1] = n /\ cur_write_vpn'[R][2] = 0
      /\ \A r \in Regions : r # R => cur_write_vpn'[r] = cur_write_vpn[r]
  BY <1>2 DEF IInv, TypeOK
<1>4. \A r \in Regions : r # R => cur_write_vpn[r][1] # n /\ cur_write_vpn[r][1] \in Vblks
  BY <1>2, <1>3, Pointer DEF IInv, Roles
<1>5. \A v \in Vblks : Closed(v)' => \A p \in DataPages : lists'[v][p] \in Lpns \/ <<v, p>> \in FirstPages
  BY <1>2, <1>3, Consts DEF ListsOK, Closed
<1>6. ASSUME NEW r \in Regions, IsOpen(r)', NEW p \in DataPages,
             p < cur_write_vpn'[r][2] \/ (p = cur_write_vpn'[r][2] /\ ~Unnamed(r)')
      PROVE  lpn_list'[r][p] \in Lpns \/ <<cur_write_vpn'[r][1], p>> \in FirstPages
  <2>1. r # R
    BY <1>2, <1>3, <1>6, Consts DEF Unnamed, DataPages
  <2>. QED BY <2>1, <1>2, <1>3, <1>4, <1>6 DEF ListsOK, IsOpen, Unnamed
<1>. QED BY <1>5, <1>6 DEF ListsOK

\* The assigned page is programmed and named.
LEMMA ListsProgram ==
  ASSUME ListsOK, TypeOK, ProgramPage
  PROVE  ListsOK'
<1> DEFINE R == new_region
<1>1. /\ pc = "program" /\ pc' = "idle" /\ lists' = lists /\ vcount' = vcount /\ cur_write_vpn' = cur_write_vpn
      /\ lpn_list' = [lpn_list EXCEPT ![R][cur_write_vpn[R][2]] = req.lpn]
      /\ R \in Regions /\ req.lpn \in Lpns
  BY DEF ProgramPage, blkVars, TypeOK, Request
<1>2. /\ \A r \in Regions : r # R => lpn_list'[r] = lpn_list[r]
      /\ \A p \in DataPages : lpn_list'[R][p] = IF p = cur_write_vpn[R][2] THEN req.lpn ELSE lpn_list[R][p]
  BY <1>1, Pointer, Consts DEF TypeOK
<1>. QED BY <1>1, <1>2 DEF ListsOK, Unnamed, IsOpen, Closed

\* A block that is open or closed after a page was copied was so before, but for the one
\* closed and the one opened.
LEMMA ListsCopy ==
  ASSUME ListsOK, IInv, IInv', CopyPage, lists[vt][Least(LivePages)] \in Lpns
  PROVE  ListsOK'
<1>a. PICK p, l, r, v, q : /\ p = Least(LivePages) /\ l = lists[vt][p] /\ r = Demoted(region[vt])
                            /\ v = cur_write_vpn[r][1] /\ q = cur_write_vpn[r][2]
  OBVIOUS
<1>b. PICK F \in BOOLEAN, O \in BOOLEAN : F = Full(cur_write_vpn[r]) /\ O = (F /\ vcount[v] = VC_ACTIVE)
  BY DEF Full
<1>1. /\ l \in Lpns /\ pc = "copy" /\ pc' = "copy" /\ gc_vblock \in Vblks
  BY <1>a DEF CopyPage, IInv, TypeOK, Good
<1>2. /\ r \in Regions /\ v \in Good /\ v \in Vblks /\ q \in DataPages /\ q \in Nat /\ cur_write_vpn[r] = <<v, q>>
      /\ (F <=> q = LastDataPage)
  <2>1. r \in Regions
    <3>1. region[vt] \in Regions
      BY <1>1 DEF IInv, GcOK, Roles, TypeOK
    <3>. QED BY <1>a, <3>1, Consts DEF Demoted, Regions
  <2>. QED BY <1>a, <1>b, <2>1, Pointer, Consts DEF IInv, Full
<1>3. PICK d, e : /\ d = (IF F THEN gc_vblock ELSE v) /\ e = IF F THEN 0 ELSE q + 1
  OBVIOUS
<1>4. /\ lists' = (IF O THEN [lists EXCEPT ![v] = lpn_list[r]] ELSE lists)
      /\ vcount' = [w \in Vblks |-> IF F /\ w = gc_vblock THEN VC_ACTIVE
                                    ELSE IF O /\ w = v THEN vcount_of_active[r] ELSE vcount[w]]
      /\ cur_write_vpn' = [cur_write_vpn EXCEPT ![r] = <<d, e>>]
      /\ lpn_list' = [lpn_list EXCEPT ![r] = [IF O THEN NoList ELSE lpn_list[r] EXCEPT ![e] = l]]
  <2>1. (IF F THEN <<gc_vblock, 0>> ELSE inc_cur_write_vpn(cur_write_vpn[r])) = <<d, e>>
    <3>1. inc_cur_write_vpn(cur_write_vpn[r]) = <<v, q + 1>>
      BY <1>2, Consts DEF inc_cur_write_vpn
    <3>. QED BY <3>1, <1>3
  <2>2. <<d, e>>[2] = e /\ (F /\ vcount[v] = VC_ACTIVE) = O /\ F = Full(cur_write_vpn[r])
    BY <1>b
  <2>. QED BY <1>a, <2>1, <2>2 DEF CopyPage
<1>5. e \in DataPages /\ e \in Pages
  <2>1. ~F => q < LastDataPage
    BY <1>2, Consts DEF DataPages
  <2>. QED BY <2>1, <1>2, <1>3, Consts DEF DataPages
<1>6. /\ \A w \in Vblks : lists'[w] = IF O /\ w = v THEN lpn_list[r] ELSE lists[w]
      /\ \A w \in Vblks : vcount'[w] = IF F /\ w = gc_vblock THEN VC_ACTIVE
                                       ELSE IF O /\ w = v THEN vcount_of_active[r] ELSE vcount[w]
      /\ \A t \in Regions : t # r => cur_write_vpn'[t] = cur_write_vpn[t] /\ lpn_list'[t] = lpn_list[t]
      /\ cur_write_vpn'[r] = <<d, e>> /\ cur_write_vpn'[r][1] = d /\ cur_write_vpn'[r][2] = e
      /\ lpn_list'[r] = [IF O THEN NoList ELSE lpn_list[r] EXCEPT ![e] = l]
  BY <1>2, <1>4 DEF IInv, TypeOK
<1>7. O => \A x \in DataPages : lpn_list[r][x] \in Lpns \/ <<v, x>> \in FirstPages
  <2>1. \A x \in DataPages : x < LastDataPage \/ x = LastDataPage
    BY Consts DEF DataPages
  <2>2. O => IsOpen(r) /\ cur_write_vpn[r][1] = v /\ cur_write_vpn[r][2] = LastDataPage
    BY <1>a, <1>b, <1>2 DEF IsOpen
  <2>. QED BY <1>1, <1>2, <2>1, <2>2 DEF ListsOK, Unnamed
<1>8. \A w \in Vblks : Closed(w)' => \A x \in DataPages : lists'[w][x] \in Lpns \/ <<w, x>> \in FirstPages
  BY <1>6, <1>7, Consts DEF ListsOK, Closed
<1>9. lpn_list'[r][e] = l
  <2>1. PICK base \in [Pages -> Mapped] : base = IF O THEN NoList ELSE lpn_list[r]
    BY <1>2, Consts DEF IInv, TypeOK, NoList
  <2>2. lpn_list'[r] = [base EXCEPT ![e] = l]
    BY <2>1, <1>6
  <2>. QED BY <2>1, <2>2, <1>5
<1>10. ASSUME ~F, NEW x \in DataPages, x # e PROVE lpn_list'[r][x] = lpn_list[r][x]
  <2>1. PICK base \in [Pages -> Mapped] : base = lpn_list[r]
    BY <1>2 DEF IInv, TypeOK
  <2>2. lpn_list'[r] = [base EXCEPT ![e] = l]
    BY <2>1, <1>b, <1>6, <1>10
  <2>. QED BY <2>1, <2>2, <1>10, Consts
<1>11. ASSUME NEW x \in DataPages, IsOpen(r)', x < e \/ x = e
       PROVE  lpn_list'[r][x] \in Lpns \/ <<d, x>> \in FirstPages
  <2>1. CASE x = e
    BY <2>1, <1>1, <1>9
  <2>2. CASE x # e
    <3>1. ~F /\ d = v /\ e = q + 1 /\ ~O
      BY <2>2, <1>b, <1>3, <1>11, Consts
    <3>2. x < q \/ x = q
      BY <2>2, <3>1, <1>2, <1>11, Consts
    <3>3. IsOpen(r)
      BY <1>11, <3>1, <1>a, <1>2, <1>6 DEF IsOpen
    <3>4. lpn_list[r][x] \in Lpns \/ <<v, x>> \in FirstPages
      BY <3>2, <3>3, <1>a, <1>1, <1>2 DEF ListsOK, Unnamed
    <3>. QED BY <2>2, <3>1, <3>4, <1>10
  <2>. QED BY <2>1, <2>2
<1>12. ASSUME NEW t \in Regions, t # r, IsOpen(t)' PROVE IsOpen(t)
  <2>1. cur_write_vpn'[t][1] # d /\ cur_write_vpn[t][1] \in Vblks /\ cur_write_vpn'[t] = cur_write_vpn[t]
        /\ cur_write_vpn[t][1] # v
    BY <1>12, <1>a, <1>2, <1>6, Pointer DEF IInv, Roles
  <2>. QED BY <1>12, <2>1, <1>3, <1>6 DEF IsOpen
<1>13. ASSUME NEW t \in Regions, IsOpen(t)', NEW x \in DataPages,
              x < cur_write_vpn'[t][2] \/ (x = cur_write_vpn'[t][2] /\ ~Unnamed(t)')
       PROVE  lpn_list'[t][x] \in Lpns \/ <<cur_write_vpn'[t][1], x>> \in FirstPages
  <2>1. CASE t = r
    BY <2>1, <1>6, <1>11, <1>13
  <2>2. CASE t # r
    BY <2>2, <1>1, <1>6, <1>12, <1>13 DEF ListsOK, Unnamed
  <2>. QED BY <2>1, <2>2
<1>. QED BY <1>8, <1>13 DEF ListsOK

\* A page that passes for a valid one is a page of the bank.
LEMMA LiveIsOwn ==
  ASSUME NoPhantom, IInv, ListsOK, PageZeroKept, pc = "copy", NEW p \in LivePages
  PROVE  lists[vt][p] \in Lpns
<1>1. p \in DataPages /\ page_map[lists[vt][p]] = <<vt, p>> /\ vt \in Vblks /\ Closed(vt)
  BY DEF LivePages, DataPages, IInv, TypeOK, GcOK
<1>2. SUFFICES ASSUME lists[vt][p] \notin Lpns PROVE FALSE
  OBVIOUS
<1>3. <<vt, p>> \in FirstPages /\ lists[vt][p] \in Mapped
  BY <1>1, <1>2, Consts DEF ListsOK, IInv, TypeOK
<1>4. lists[vt][p] = 0 /\ 0 \notin Lpns
  BY <1>2, <1>3 DEF Mapped
<1>5. <<vt, p>> \in ZeroVpns \cup {Null} /\ <<vt, p>> # Null
  BY <1>1, <1>4, Consts DEF PageZeroKept, Null
<1>. QED BY <1>3, <1>4, <1>5 DEF NoPhantom

\* Lists and the page of bank 0 through every step.
LEMMA ListsNext ==
  ASSUME NoPhantom, IInv, IInv', ListsOK, PageZeroKept, [Next]_vars
  PROVE  ListsOK' /\ PageZeroKept'
<1> USE DEF IInv
<1>1. CASE UNCHANGED vars
  BY <1>1 DEF vars, regVars, blkVars, nandVars, reqVars, ListsOK, PageZeroKept, Closed, IsOpen, Unnamed
<1>2. ASSUME NEW r \in Request, write_page(r) PROVE ListsOK' /\ PageZeroKept'
  <2>1. /\ pc = "idle" /\ pc' = "assign" /\ lists' = lists /\ lpn_list' = lpn_list /\ page_map' = page_map
        /\ cur_write_vpn' = cur_write_vpn
    BY <1>2 DEF write_page, nandVars
  <2>2. \A v \in Vblks : (Closed(v)' => Closed(v)) /\ (vcount'[v] = VC_ACTIVE => vcount[v] = VC_ACTIVE)
    BY <1>2, WriteCounts
  <2>. QED BY <2>1, <2>2, ListsSame DEF PageZeroKept
<1>3. CASE NextPageInBlk \/ NextPageAfterGc
  <2>1. page_map' = page_map
    BY <1>3 DEF NextPageInBlk, NextPageAfterGc
  <2>. QED BY <1>3, <2>1, ListsNextPage DEF PageZeroKept
<1>4. CASE CloseBlk
  <2>1. page_map' = page_map
    BY <1>4 DEF CloseBlk
  <2>. QED BY <1>4, <2>1, ListsClose DEF PageZeroKept
<1>5. CASE NextFreeBlk
  <2>1. page_map' = page_map
    BY <1>5 DEF NextFreeBlk
  <2>. QED BY <1>5, <2>1, ListsFree DEF PageZeroKept
<1>6. CASE EraseEmptyVictim
  <2>1. /\ pc = "gc" /\ pc' = "gc" /\ lists' = lists /\ lpn_list' = lpn_list /\ page_map' = page_map
        /\ cur_write_vpn' = cur_write_vpn /\ vcount' = [vcount EXCEPT ![Victim] = VC_FREE]
    BY <1>6 DEF EraseEmptyVictim, GcNeeded, regVars
  <2>2. \A v \in Vblks : (Closed(v)' => Closed(v)) /\ (vcount'[v] = VC_ACTIVE => vcount[v] = VC_ACTIVE)
    BY <2>1, Consts DEF Closed, TypeOK
  <2>. QED BY <2>1, <2>2, ListsSame DEF PageZeroKept
<1>7. CASE SelectVictim
  <2>1. /\ pc = "gc" /\ pc' = "copy" /\ lists' = lists /\ lpn_list' = lpn_list /\ page_map' = page_map
        /\ cur_write_vpn' = cur_write_vpn /\ vcount' = vcount
    BY <1>7 DEF SelectVictim, GcNeeded, regVars, blkVars, nandVars
  <2>. QED BY <2>1, ListsSame DEF PageZeroKept, Closed
<1>8. CASE CopyPage
  <2>1. LivePages \subseteq Nat /\ LivePages # {} /\ pc = "copy"
    <3>1. LivePages \subseteq 0 .. LastDataPage
      BY Zenon DEF LivePages
    <3>. QED BY <3>1, <1>8, Consts DEF CopyPage
  <2>2. Least(LivePages) \in LivePages
    BY <2>1, LeastIn
  <2>3. lists[vt][Least(LivePages)] \in Lpns
    BY <2>1, <2>2, LiveIsOwn
  <2>4. PICK dst : page_map' = [page_map EXCEPT ![lists[vt][Least(LivePages)]] = dst]
    BY <1>8 DEF CopyPage
  <2>5. PageZeroKept'
    BY <2>3, <2>4 DEF PageZeroKept, TypeOK
  <2>. QED BY <1>8, <2>3, <2>5, ListsCopy
<1>9. CASE EraseVictim
  <2>1. /\ pc = "copy" /\ pc' = "gc" /\ lists' = lists /\ lpn_list' = lpn_list /\ page_map' = page_map
        /\ cur_write_vpn' = cur_write_vpn
        /\ vcount' = [vcount EXCEPT ![vt] = VC_MAX] \/ vcount' = [vcount EXCEPT ![vt] = VC_FREE]
    BY <1>9 DEF EraseVictim, regVars
  <2>2. \A v \in Vblks : (Closed(v)' => Closed(v)) /\ (vcount'[v] = VC_ACTIVE => vcount[v] = VC_ACTIVE)
    BY <2>1, Consts DEF Closed, TypeOK
  <2>. QED BY <2>1, <2>2, ListsSame DEF PageZeroKept
<1>10. CASE ProgramPage
  <2>1. /\ pc = "program" /\ page_map' = [page_map EXCEPT ![req.lpn] = cur_write_vpn[new_region]]
    BY <1>10 DEF ProgramPage
  <2>2. PageZeroKept'
    BY <2>1 DEF PageZeroKept, TypeOK, Request
  <2>. QED BY <1>10, <2>2, ListsProgram
<1>11. CASE StopAtAssert
  <2>1. /\ pc = "gc" /\ pc' = "assert" /\ lists' = lists /\ lpn_list' = lpn_list /\ page_map' = page_map
        /\ cur_write_vpn' = cur_write_vpn /\ vcount' = vcount
    BY <1>11 DEF StopAtAssert, TakesClosedBlk, SearchEnds, regVars, blkVars, nandVars
  <2>. QED BY <2>1, ListsSame DEF PageZeroKept, Closed
<1>12. CASE PageZeroMoved
  <2>1. /\ pc = "idle" /\ pc' = "idle" /\ lists' = lists /\ lpn_list' = lpn_list
        /\ cur_write_vpn' = cur_write_vpn /\ vcount' = vcount
    BY <1>12 DEF PageZeroMoved, regVars, blkVars, nandVars
  <2>2. PageZeroKept'
    BY <1>12, Consts DEF PageZeroMoved, PageZeroKept, TypeOK
  <2>. QED BY <2>1, <2>2, ListsSame DEF Closed
<1>. QED BY <1>1, <1>2, <1>3, <1>4, <1>5, <1>6, <1>7, <1>8, <1>9, <1>10, <1>11, <1>12 DEF Next, Ftl

\* No write is lost, of this bank or of bank 0 (page map and erasure, ftl_dac/ftl.c:1222,
\* 1249-1254, 1305, 1314), for every geometry, number of regions and workload, as long as
\* logical page 0 of bank 0 is never where a region of this bank has a page it never wrote.
THEOREM MapIsRight == ASSUME NoPhantom PROVE Spec => []ReadsLastWrite
<1>1. Init => ListsOK /\ PageZeroKept
  <2> SUFFICES ASSUME Init PROVE ListsOK /\ PageZeroKept
    OBVIOUS
  <2>1. /\ \A v \in Vblks : ~Closed(v)
        /\ \A r \in Regions : cur_write_vpn[r][1] = Nth(r + 1) /\ cur_write_vpn[r][2] = 0
        /\ page_map[0] = Null
    BY Consts DEF Init, Closed
  <2>2. \A r \in Regions : \A p \in DataPages :
          p < cur_write_vpn[r][2] \/ p = cur_write_vpn[r][2] => <<cur_write_vpn[r][1], p>> \in FirstPages
    BY <2>1, Consts DEF DataPages, FirstPages
  <2>. QED BY <2>1, <2>2 DEF ListsOK, PageZeroKept
<1>2. IInv /\ IInv' /\ ListsOK /\ PageZeroKept /\ [Next]_vars => ListsOK' /\ PageZeroKept'
  BY ListsNext
<1>3. OwnPagesKept /\ PageZeroKept => ReadsLastWrite
  BY DEF ReadsLastWrite
<1>4. Spec => [](ListsOK /\ PageZeroKept)
  BY <1>1, <1>2, Invariance, PTL DEF Spec
<1>. QED BY <1>3, <1>4, OwnMapIsRight, PTL

\* A block that get_vt_vblock_by_cost_benefit counts as empty is empty: a count is never less than the number
\* of valid pages, and stays in the range of the assertions (ftl_dac/ftl.c:993, 998, 1008,
\* 1222).
THEOREM CountsAreRight == Spec => []CountsCoverLive
<1>1. IInv => CountsCoverLive
  <2> SUFFICES ASSUME IInv, NEW v \in Vblks
               PROVE  IF vcount[v] \in {VC_FREE, VC_MAX} THEN LiveIn(v) = {}
                      ELSE Cardinality(LiveIn(v)) <= CountOf(v) /\ CountOf(v) < PagesPerBlk
    BY DEF CountsCoverLive
  <2>0. TypeOK /\ Roles /\ Counts /\ Mapping
    BY DEF IInv
  <2>1. CASE vcount[v] \in {VC_FREE, VC_MAX}
    BY <2>0, <2>1, FreeIsEmpty
  <2>2. CASE vcount[v] = VC_ACTIVE
    <3>1. PICK r \in Regions : cur_write_vpn[r][1] = v
      BY <2>0, <2>2 DEF Roles
    <3>2. (CHOOSE s \in Regions : cur_write_vpn[s][1] = v) = r
      <4>1. \A s \in Regions : cur_write_vpn[s][1] = v <=> s = r
        BY <2>0, <3>1 DEF Roles
      <4>. QED BY <4>1
    <3>3. CountOf(v) = vcount_of_active[r]
      BY <2>2, <3>2 DEF CountOf
    <3>4. Cardinality(LiveIn(v)) <= vcount_of_active[r]
      BY <2>0, <2>2, <3>1 DEF Counts
    <3>5. vcount_of_active[r] \in Nat /\ vcount_of_active[r] <= cur_write_vpn[r][2] + 1
      BY <2>0, <2>2, <3>1 DEF Counts, TypeOK, IsOpen
    <3>6. cur_write_vpn[r][2] < PagesPerBlk - 1 /\ cur_write_vpn[r][2] \in Nat
      BY <2>0, Pointer, Consts
    <3>. QED BY <2>2, <3>3, <3>4, <3>5, <3>6, Consts
  <2>3. CASE Closed(v)
    <3>1. vcount[v] \in Pages \cup NotForVictim
      BY <2>0 DEF TypeOK
    <3>2. vcount[v] \in Pages /\ vcount[v] \notin NotForVictim
      BY <2>3, <3>1, Consts DEF Closed, NotForVictim
    <3>3. CountOf(v) = vcount[v]
      BY <3>2 DEF CountOf, NotForVictim
    <3>4. Cardinality(LiveIn(v)) <= vcount[v]
      BY <2>0, <2>3 DEF Counts
    <3>. QED BY <3>2, <3>3, <3>4, Consts DEF Pages, NotForVictim
  <2>. QED BY <2>0, <2>1, <2>2, <2>3, Consts DEF TypeOK, NotForVictim, Closed
<1>. QED BY <1>1, Invariance, PTL

\* Blocks are what their counts say: what is free or kept for garbage collection is erased, every
\* region has an active block of its own, free_blk_cnt counts the blocks without a list, and no page is
\* programmed twice (ftl_dac/ftl.c:1127, 1228, 1283, 1319-1327).
THEOREM BlocksAreInRole == Spec => []BlocksInRole
<1>1. IInv => BlocksInRole
  <2> SUFFICES ASSUME IInv PROVE BlocksInRole
    OBVIOUS
  <2>0. TypeOK /\ Roles /\ ErasedOK /\ UnlistedCnt
    BY DEF IInv
  <2>1. pc # "copy" => vcount[gc_vblock] = VC_MAX /\ gc_vblock \in Vblks
    BY <2>0, Consts DEF Roles, TypeOK
  <2>2. \A v \in FreeBlks \cup (IF pc = "copy" THEN {} ELSE {gc_vblock}) : \A p \in Pages : flash[v][p] = Erased
    BY <2>0, <2>1 DEF ErasedOK, FreeBlks
  <2>3. \A r \in Regions : vcount[cur_write_vpn[r][1]] = VC_ACTIVE \/ (pc \in {"gc", "copy", "assert"} /\ r = new_region)
    BY <2>0 DEF Roles, IsOpen
  <2>4. \A r, s \in Regions : r # s => cur_write_vpn[r][1] # cur_write_vpn[s][1]
    BY <2>0 DEF Roles
  <2>5. free_blk_cnt = Cardinality({v \in Good : flash[v][PagesPerBlk - 1] = Erased})
    BY <2>0 DEF UnlistedCnt, Unlisted
  <2>6. \A v \in Vblks : \A p \in Pages : flash[v][p] # Spoiled
    <3>1. Spoiled \notin Content
      BY Contents DEF Content
    <3>. QED BY <2>0, <3>1 DEF TypeOK
  <2>. QED BY <2>1, <2>2, <2>3, <2>4, <2>5, <2>6 DEF BlocksInRole
<1>. QED BY <1>1, Invariance, PTL

=============================================================================
