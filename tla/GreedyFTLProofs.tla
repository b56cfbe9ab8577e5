--------------------------- MODULE GreedyFTLProofs ---------------------------
(***************************************************************************)
(* Proofs about GreedyFTL for every number of banks, blocks, pages and     *)
(* logical pages, and every layout of bad blocks that leaves the capacity  *)
(* the assumptions ask for.                                                *)
(*                                                                         *)
(* The inductive invariant IInv joins the tables of the FTL to what the    *)
(* NAND holds.  Its hard step is garbage collection: a pigeonhole argument *)
(* on the capacity shows that the victim has an invalid page, and a        *)
(* bijection between the live pages and their owners that the copies fit.  *)
(* On it rests the refinement: the FTL is a BlockDevice.                   *)
(***************************************************************************)
EXTENDS GreedyFTL, FiniteSetTheorems, NaturalsInduction, TLAPS

\* The host leaves logical page 0 alone, or there is one bank: the phantom owner of
\* page 0 of the first block of a bank is then never taken for a live page.
NoPhantom == NumBanks = 1 \/ 0 \notin HostLpns

\* The inductive invariant.
IInv ==
  /\ TypeOK
  /\ MapOwned
  /\ VcountExact
  /\ GcReserve
  /\ FreeCountExact
  /\ WriteFront
  /\ OwnersHere

-----------------------------------------------------------------------------
(***************************************************************************)
(* Banks, blocks and pages.                                                *)
(***************************************************************************)
\* get_num_bank maps every logical page to a bank.
LEMMA BankOf == \A l \in Lpns : get_num_bank(l) \in Banks
  BY SizeAssumption DEF Lpns, Banks, get_num_bank

\* With one bank, every logical page is in it.
LEMMA OneBankOnly == NumBanks = 1 => Banks = {0} /\ \A l \in Lpns : get_num_bank(l) = 0
  BY SizeAssumption DEF Lpns, Banks, get_num_bank

\* A non-empty set of naturals has a least element, and Least chooses it.
LEMMA LeastIn ==
  ASSUME NEW S \in SUBSET Nat, S # {}
  PROVE  Least(S) \in S /\ \A w \in S : Least(S) <= w
<1>1. PICK x \in S : \A y \in S : ~ (<<y, x>> \in OpToRel(<, Nat))
  BY NatLessThanWellFounded, WFMin, Zenon
<1>2. \A y \in S : ~(y < x)
  BY <1>1, Zenon DEF OpToRel
<1>3. \A y \in S : x <= y
  BY <1>2
<1>. QED BY <1>3 DEF Least

\* The layout of init_metadata_sram: data blocks are good blocks above the misc. block,
\* the first is reserved, the second is the first to be written.
LEMMA Layout ==
  ASSUME NEW b \in Banks
  PROVE  /\ UserArea(b) \subseteq VBlks \ {0, 1}
         /\ FirstGc(b) \in UserArea(b)
         /\ FirstBlock(b) \in UserArea(b) \ {FirstGc(b)}
         /\ \A v \in UserArea(b) \ {FirstGc(b)} : FirstBlock(b) <= v
<1>1. UserArea(b) \subseteq VBlks \ {0, 1} /\ VBlks \subseteq Nat
  BY DEF UserArea, Good, VBlks, MISCBLK_VBN
<1>2. PICK v, w \in UserArea(b) : v # w
  BY LayoutAssumption
<1>3. FirstGc(b) \in UserArea(b)
  BY <1>1, <1>2, LeastIn DEF FirstGc
<1>4. UserArea(b) \ {FirstGc(b)} # {} /\ UserArea(b) \ {FirstGc(b)} \in SUBSET Nat
  <2>1. v # FirstGc(b) \/ w # FirstGc(b)
    BY <1>2
  <2>. QED BY <2>1, <1>1, Zenon
<1>5. /\ FirstBlock(b) \in UserArea(b) \ {FirstGc(b)}
      /\ \A u \in UserArea(b) \ {FirstGc(b)} : FirstBlock(b) <= u
  BY <1>4, LeastIn DEF FirstBlock
<1>. QED BY <1>1, <1>3, <1>5

\* The sets of the model are finite; a block has PAGES_PER_BLK - 1 data pages.
LEMMA Finite ==
  /\ IsFiniteSet(Pages) /\ Cardinality(Pages) = PagesPerBlk - 1
  /\ IsFiniteSet(Lpns)
  /\ IsFiniteSet(VBlks) /\ Cardinality(VBlks) = VBlksPerBank
  /\ \A b \in Banks : IsFiniteSet(LpnsOf(b)) /\ IsFiniteSet(UserArea(b))
<1>1. IsFiniteSet(Pages) /\ Cardinality(Pages) = PagesPerBlk - 1
  BY SizeAssumption, FS_Interval DEF Pages
<1>2. IsFiniteSet(Lpns)
  BY SizeAssumption, FS_Interval DEF Lpns
<1>3. IsFiniteSet(VBlks) /\ Cardinality(VBlks) = VBlksPerBank
  <2>1. VBlksPerBank \in Nat /\ VBlksPerBank - 1 \in Int /\ 0 \in Int
    BY SizeAssumption
  <2>2. /\ IsFiniteSet(VBlks)
        /\ Cardinality(VBlks) = IF 0 > VBlksPerBank - 1 THEN 0 ELSE VBlksPerBank - 1 - 0 + 1
    BY <2>1, FS_Interval, Zenon DEF VBlks
  <2>. QED BY <2>1, <2>2
<1>4. \A b \in Banks : LpnsOf(b) \in SUBSET Lpns /\ UserArea(b) \in SUBSET VBlks
  BY Layout DEF LpnsOf
<1>5. \A b \in Banks : IsFiniteSet(LpnsOf(b)) /\ IsFiniteSet(UserArea(b))
  BY <1>2, <1>3, <1>4, FS_Subset
<1>. QED BY <1>1, <1>2, <1>3, <1>5

\* Two blocks make a set of two.
LEMMA PairCard ==
  ASSUME NEW x, NEW y, x # y
  PROVE  IsFiniteSet({x, y}) /\ Cardinality({x, y}) = 2
<1>1. {x, y} = {y} \union {x} /\ x \notin {y}
  OBVIOUS
<1>2. IsFiniteSet({y}) /\ Cardinality({y}) = 1
  BY FS_Singleton
<1>3. IsFiniteSet({y} \union {x}) /\ Cardinality({y} \union {x}) = Cardinality({y}) + 1
  BY <1>1, <1>2, FS_AddElement
<1>. QED BY <1>1, <1>2, <1>3

-----------------------------------------------------------------------------
(***************************************************************************)
(* Rank and Nth number the elements of a set of pages or blocks from 0 up. *)
(***************************************************************************)
\* Rank and Nth are inverse bijections between S and 0 .. Cardinality(S) - 1.
LEMMA RankNth ==
  ASSUME NEW S \in SUBSET Nat, IsFiniteSet(S)
  PROVE  /\ Cardinality(S) \in Nat
         /\ \A p \in S : Rank(S, p) \in 0 .. Cardinality(S) - 1 /\ Nth(S, Rank(S, p)) = p
         /\ \A k \in 0 .. Cardinality(S) - 1 : Nth(S, k) \in S /\ Rank(S, Nth(S, k)) = k
<1> DEFINE below(p) == {q \in S : q < p}
           N == 0 .. Cardinality(S) - 1
<1>1. IsFiniteSet(S) /\ Cardinality(S) \in Nat
  BY FS_CardinalityType
<1>2. \A p \in S : p \in Int
  OBVIOUS
<1>3. \A p \in S : /\ IsFiniteSet(below(p)) /\ Cardinality(below(p)) \in Nat
                   /\ Cardinality(below(p)) < Cardinality(S)
  <2> TAKE p \in S
  <2>1. IsFiniteSet(S \ {p}) /\ Cardinality(S \ {p}) = Cardinality(S) - 1
    BY <1>1, FS_RemoveElement
  <2>2. below(p) \in SUBSET (S \ {p})
    BY <1>2
  <2>3. IsFiniteSet(below(p)) /\ Cardinality(below(p)) <= Cardinality(S \ {p})
    BY <2>1, <2>2, FS_Subset
  <2>4. Cardinality(below(p)) \in Nat
    BY <2>3, FS_CardinalityType
  <2>. QED BY <1>1, <2>1, <2>3, <2>4
<1>4. ASSUME NEW p \in S, NEW q \in S, p < q
      PROVE  Cardinality(below(p)) < Cardinality(below(q))
  <2>1. /\ IsFiniteSet(below(q) \ {p})
        /\ Cardinality(below(q) \ {p}) = Cardinality(below(q)) - 1
    BY <1>3, <1>4, FS_RemoveElement
  <2>2. below(p) \in SUBSET (below(q) \ {p})
    <3> SUFFICES ASSUME NEW x \in below(p)
                 PROVE  x \in below(q) \ {p}
      BY Zenon
    <3>1. x \in S /\ x \in Nat /\ p \in Nat /\ q \in Nat /\ x < p
      OBVIOUS
    <3>. QED BY <1>4, <3>1
  <2>3. Cardinality(below(p)) <= Cardinality(below(q) \ {p})
    BY <2>1, <2>2, FS_Subset
  <2>4. Cardinality(below(p)) \in Nat /\ Cardinality(below(q)) \in Nat
    BY <1>3
  <2>. QED BY <2>1, <2>3, <2>4
<1>5. \A p, q \in S : Cardinality(below(p)) = Cardinality(below(q)) => p = q
  <2> SUFFICES ASSUME NEW p \in S, NEW q \in S, p # q
               PROVE  Cardinality(below(p)) # Cardinality(below(q))
    OBVIOUS
  <2>1. p < q \/ q < p
    BY <1>2
  <2>. QED BY <2>1, <1>3, <1>4
<1>6. \A p \in S : Rank(S, p) = Cardinality(below(p))
  BY DEF Rank
<1>. HIDE DEF below
<1>7. \A p \in S : Rank(S, p) \in N
  BY <1>1, <1>3, <1>6
<1>8. \A p, q \in S : Rank(S, p) = Rank(S, q) => p = q
  BY <1>5, <1>6
<1>9. \A p \in S : Nth(S, Rank(S, p)) = p
  <2> TAKE p \in S
  <2>1. Nth(S, Rank(S, p)) \in S /\ Rank(S, Nth(S, Rank(S, p))) = Rank(S, p)
    BY Zenon DEF Nth
  <2>. QED BY <2>1, <1>8
<1>10. \A k \in N : \E p \in S : Rank(S, p) = k
  <2> DEFINE f == [p \in S |-> Rank(S, p)]
  <2>1. f \in Injection(S, N)
    BY <1>7, <1>8 DEF Injection, IsInjective
  <2>2. IsFiniteSet(N) /\ Cardinality(N) = Cardinality(S)
    <3>1. 0 \in Int /\ Cardinality(S) - 1 \in Int
      BY <1>1
    <3>2. /\ IsFiniteSet(0 .. Cardinality(S) - 1)
          /\ Cardinality(0 .. Cardinality(S) - 1) =
               IF 0 > Cardinality(S) - 1 THEN 0 ELSE Cardinality(S) - 1 - 0 + 1
      BY <3>1, FS_Interval
    <3>. QED BY <1>1, <3>2
  <2>3. f \in Surjection(S, N)
    BY <2>1, <2>2, FS_Injection
  <2>. QED BY <2>3 DEF Surjection
<1>11. \A k \in N : Nth(S, k) \in S /\ Rank(S, Nth(S, k)) = k
  BY <1>10, Zenon DEF Nth
<1>. QED BY <1>1, <1>7, <1>9, <1>11

\* The free blocks that init_metadata_sram counts are the data blocks of the layout.
LEMMA UserAreaCount ==
  ASSUME NEW b \in Banks
  PROVE  Cardinality(UserArea(b)) = VBlksPerBank - META_BLKS_PER_BANK - Cardinality(BadBlks[b])
<1> DEFINE G == Good(b)
           M == MapVblks(b)
           f == [v \in M |-> Rank(G, v)]
<1>1. /\ VBlksPerBank \in Nat /\ MapBlksPerBank \in Nat /\ VBlks \subseteq Nat
      /\ BadBlks[b] \subseteq VBlks \ {0, 1}
  BY SizeAssumption, LayoutAssumption DEF VBlks, MISCBLK_VBN
<1>2. G = (VBlks \ {0, 1}) \ BadBlks[b]
  BY <1>1 DEF Good, MISCBLK_VBN, VBlks
<1>3. PICK u \in G : u \notin M /\ u > 1
  BY LayoutAssumption DEF UserArea, Good, MISCBLK_VBN
<1>4. {0, 1} \subseteq VBlks
  BY <1>1, <1>3 DEF Good, VBlks
<1>5. IsFiniteSet(VBlks \ {0, 1}) /\ Cardinality(VBlks \ {0, 1}) = VBlksPerBank - 2
  <2>1. VBlks \cap {0, 1} = {0, 1}
    BY <1>4
  <2>2. 0 # 1
    OBVIOUS
  <2>3. Cardinality({0, 1}) = 2
    BY <2>2, PairCard, Zenon
  <2>4. IsFiniteSet(VBlks) /\ Cardinality(VBlks) = VBlksPerBank
    <3>1. 0 \in Int /\ VBlksPerBank - 1 \in Int
      BY <1>1
    <3>2. /\ IsFiniteSet(0 .. VBlksPerBank - 1)
          /\ Cardinality(0 .. VBlksPerBank - 1) =
               IF 0 > VBlksPerBank - 1 THEN 0 ELSE VBlksPerBank - 1 - 0 + 1
      BY <3>1, FS_Interval
    <3>. QED BY <1>1, <3>2 DEF VBlks
  <2>5. /\ IsFiniteSet(VBlks \ {0, 1})
        /\ Cardinality(VBlks \ {0, 1}) = Cardinality(VBlks) - Cardinality(VBlks \cap {0, 1})
    BY <2>4, FS_Difference, Zenon
  <2>6. Cardinality(VBlks \cap {0, 1}) = 2
    BY <2>1, <2>3, Zenon
  <2>. QED BY <1>1, <2>4, <2>5, <2>6
<1>6. IsFiniteSet(G) /\ Cardinality(G) = VBlksPerBank - 2 - Cardinality(BadBlks[b])
  <2>1. (VBlks \ {0, 1}) \cap BadBlks[b] = BadBlks[b]
    BY <1>1
  <2>. QED BY ZenonT(60), <1>2, <1>5, <2>1, FS_Difference
<1>7. G \in SUBSET Nat
  BY <1>1, <1>2
<1>8. M = {v \in G : Rank(G, v) < MapBlksPerBank}
  BY DEF MapVblks
<1>9. IsFiniteSet(M)
  BY <1>6, <1>8, FS_Subset
<1>10. /\ Cardinality(G) \in Nat
       /\ \A p \in G : Rank(G, p) \in 0 .. Cardinality(G) - 1 /\ Nth(G, Rank(G, p)) = p
       /\ \A k \in 0 .. Cardinality(G) - 1 : Nth(G, k) \in G /\ Rank(G, Nth(G, k)) = k
  BY <1>6, <1>7, RankNth
<1>. HIDE DEF G, M
<1>11. MapBlksPerBank <= Cardinality(G) - 1
  BY <1>1, <1>3, <1>8, <1>10
<1>12. f \in Bijection(M, 0 .. MapBlksPerBank - 1)
  <2>1. f \in [M -> 0 .. MapBlksPerBank - 1]
    BY <1>1, <1>8, <1>10
  <2>2. \A v, w \in M : f[v] = f[w] => v = w
    BY <1>8, <1>10
  <2>3. \A k \in 0 .. MapBlksPerBank - 1 : \E v \in M : f[v] = k
    <3> TAKE k \in 0 .. MapBlksPerBank - 1
    <3>1. k \in 0 .. Cardinality(G) - 1 /\ k < MapBlksPerBank
      BY <1>1, <1>10, <1>11
    <3>2. Nth(G, k) \in M /\ f[Nth(G, k)] = k
      BY <1>8, <1>10, <3>1
    <3>. QED BY <3>2
  <2>. QED BY <2>1, <2>2, <2>3 DEF Bijection, Injection, IsInjective, Surjection
<1>13. Cardinality(M) = MapBlksPerBank
  <2>1. ExistsBijection(M, 0 .. MapBlksPerBank - 1)
    BY <1>12 DEF ExistsBijection
  <2>2. Cardinality(0 .. MapBlksPerBank - 1) = Cardinality(M)
    BY <1>9, <2>1, FS_Bijection
  <2>3. 0 \in Int /\ MapBlksPerBank - 1 \in Int
    BY <1>1
  <2>4. Cardinality(0 .. MapBlksPerBank - 1) =
          IF 0 > MapBlksPerBank - 1 THEN 0 ELSE MapBlksPerBank - 1 - 0 + 1
    BY <2>3, FS_Interval
  <2>. QED BY <1>1, <2>2, <2>4
<1>14. Cardinality(G \ M) = Cardinality(G) - Cardinality(M)
  <2>1. G \cap M = M
    BY <1>8
  <2>2. Cardinality(G \ M) = Cardinality(G) - Cardinality(G \cap M)
    BY <1>6, FS_Difference, Zenon
  <2>. QED BY <2>1, <2>2, Zenon
<1>15. UserArea(b) = G \ M
  BY DEF UserArea, G, M
<1>16. Cardinality(BadBlks[b]) \in Nat
  BY <1>1, Finite, FS_Subset, FS_CardinalityType
<1>. QED BY <1>1, <1>6, <1>13, <1>14, <1>15, <1>16 DEF META_BLKS_PER_BANK

-----------------------------------------------------------------------------
(***************************************************************************)
(* The invariant one bank at a time: a step of one bank leaves what the    *)
(* others hold, and IInv is the conjunction of what the banks keep.        *)
(***************************************************************************)
OwnersOf(b, v, pm) == {l \in LpnsOf(b) : pm[l].blk = v}

MapOwnedIn(b) ==
  \A l \in LpnsOf(b) : page_map[l] # Null =>
    /\ page_map[l].blk \in UserArea(b) \ {gc_vblock[b]}
    /\ Reached(b, page_map[l].blk, page_map[l].pg)
    /\ nand[b][page_map[l].blk][page_map[l].pg] # Erased
    /\ Owner(b, page_map[l].blk, page_map[l].pg) = l

VcountIn(b) ==
  \A v \in UserArea(b) \ {gc_vblock[b]} : vcount[b][v] = Cardinality(OwnersOf(b, v, page_map))

ReserveIn(b) ==
  /\ gc_vblock[b] \in UserArea(b) \ {cur_write_vpn[b].blk}
  /\ \A p \in Pages : nand[b][gc_vblock[b]][p] = Erased
  /\ last_page[b][gc_vblock[b]] = Erased
  /\ \A v \in VBlks : vcount[b][v] = VC_MAX <=> v \notin UserArea(b) \/ v = gc_vblock[b]

FreeIn(b) ==
  /\ free_blk_cnt[b] = Cardinality(UserArea(b) \ Full(b))
  /\ free_blk_cnt[b] > 2 => NextBlocks(b) # {}

Ahead(b) == UserArea(b) \ (Full(b) \union {cur_write_vpn[b].blk, gc_vblock[b]})

FrontIn(b) ==
  /\ cur_write_vpn[b].blk \in UserArea(b) \ Full(b)
  /\ \/ Ahead(b) = {}
     \/ Ahead(b) = {w \in UserArea(b) \ {gc_vblock[b]} : w > cur_write_vpn[b].blk}
  /\ \A w \in UserArea(b), p \in Pages :
       nand[b][w][p] # Erased => w # gc_vblock[b] /\ Reached(b, w, p)

HereIn(b, l) == l = 0 \/ (l \in Lpns /\ get_num_bank(l) = b)

OwnersIn(b) ==
  \A p \in Pages : /\ HereIn(b, lpn_list[b][p])
                   /\ \A v \in Full(b) : HereIn(b, last_page[b][v][p])

BankInv(b) ==
  /\ MapOwnedIn(b)
  /\ VcountIn(b)
  /\ ReserveIn(b)
  /\ FreeIn(b)
  /\ FrontIn(b)
  /\ OwnersIn(b)

ZeroOK == NumBanks = 1 \/ page_map[0] = Null

TablesOK ==
  /\ page_map \in [Lpns -> [blk : VBlks, pg : Pages]]
  /\ vcount \in [Banks -> [VBlks -> 0 .. PagesPerBlk - 1 \union {VC_MAX}]]
  /\ cur_write_vpn \in [Banks -> [blk : VBlks, pg : Pages]]
  /\ gc_vblock \in [Banks -> VBlks]
  /\ free_blk_cnt \in [Banks -> 2 .. VBlksPerBank]
  /\ lpn_list \in [Banks -> [Pages -> Lpns]]
  /\ nand \in [Banks -> [VBlks -> [Pages -> Content \union {Erased}]]]
  /\ last_page \in [Banks -> [VBlks -> [Pages -> Lpns] \union {Erased}]]

CmdOK ==
  /\ pc \in {"main", "read", "write", "program"}
  /\ cmd \in [lpn : Lpns, offset : Sectors, remain : 0 .. MaxSectors,
               datum : Data \union {Blank}, printBytes : BOOLEAN]
  /\ pc = "read" => cmd.remain > 0 /\ Fits(cmd, Lpns)
  /\ pc \in {"write", "program"} => cmd.remain > 0 /\ Fits(cmd, HostLpns) /\ cmd.datum \in Data

\* IInv says the same of all banks that BankInv says of one.
AllBanks == TablesOK /\ CmdOK /\ ZeroOK /\ \A b \in Banks : BankInv(b)

\* The invariant of all banks, bank by bank.
LEMMA ByBank == IInv <=> AllBanks
<1>1. TypeOK <=> TablesOK /\ CmdOK
  BY DEF TypeOK, TablesOK, CmdOK
<1>2. MapOwned <=> \A b \in Banks : MapOwnedIn(b)
  BY BankOf DEF MapOwned, MapOwnedIn, LpnsOf
<1>3. VcountExact <=> \A b \in Banks : VcountIn(b)
  BY DEF VcountExact, VcountIn, OwnersOf
<1>4. TablesOK => (GcReserve <=> \A b \in Banks : ReserveIn(b))
  <2>1. \A b \in Banks : UserArea(b) \subseteq VBlks
    BY Layout
  <2>2. ASSUME TablesOK, NEW b \in Banks
        PROVE  {v \in VBlks : vcount[b][v] = VC_MAX} = (VBlks \ UserArea(b)) \union {gc_vblock[b]}
                 <=> \A v \in VBlks : vcount[b][v] = VC_MAX
                                       <=> v \notin UserArea(b) \/ v = gc_vblock[b]
    <3>1. gc_vblock[b] \in VBlks
      BY <2>2 DEF TablesOK
    <3>. QED BY <3>1
  <2>. QED BY <2>1, <2>2, Zenon DEF GcReserve, ReserveIn
<1>5. FreeCountExact <=> \A b \in Banks : FreeIn(b)
  BY DEF FreeCountExact, FreeIn
<1>6. WriteFront <=> \A b \in Banks : FrontIn(b)
  BY Zenon DEF WriteFront, FrontIn, Ahead
<1>7. OwnersHere <=> ZeroOK /\ \A b \in Banks : OwnersIn(b)
  BY DEF OwnersHere, OwnersIn, HereIn, ZeroOK
<1>. QED BY <1>1, <1>2, <1>3, <1>4, <1>5, <1>6, <1>7, Zenon DEF IInv, BankInv, AllBanks

-----------------------------------------------------------------------------
(***************************************************************************)
(* Counting the owners of a block.  The page number of an owner tells it   *)
(* from the others, so a block has at most as many owners as pages; and if *)
(* it has as many, every page of it is owned.                              *)
(***************************************************************************)
\* A block has at most PAGES_PER_BLK - 1 owners, and owners of every page if as many.
LEMMA OwnersBound ==
  ASSUME NEW b \in Banks, NEW v \in VBlks,
         NEW pm \in [Lpns -> [blk : VBlks, pg : Pages]],
         \A k, l \in LpnsOf(b) : pm[k].blk = v /\ pm[l] = pm[k] => k = l
  PROVE  /\ IsFiniteSet(OwnersOf(b, v, pm))
         /\ Cardinality(OwnersOf(b, v, pm)) \in 0 .. PagesPerBlk - 1
         /\ Cardinality(OwnersOf(b, v, pm)) = PagesPerBlk - 1 =>
              \A p \in Pages : \E l \in LpnsOf(b) : pm[l] = Vpn(v, p)
<1> DEFINE O == OwnersOf(b, v, pm)
           f == [l \in O |-> pm[l].pg]
<1>1. O \subseteq LpnsOf(b) /\ O \subseteq Lpns
  BY DEF OwnersOf, LpnsOf
<1>2. \A l \in O : pm[l] = Vpn(v, pm[l].pg) /\ pm[l].pg \in Pages
  BY <1>1 DEF OwnersOf, Vpn
<1>3. f \in Injection(O, Pages)
  <2>1. \A k, l \in O : f[k] = f[l] => k = l
    BY <1>1, <1>2 DEF OwnersOf
  <2>. QED BY <1>2, <2>1 DEF Injection, IsInjective
<1>4. /\ IsFiniteSet(O) /\ Cardinality(O) <= Cardinality(Pages)
      /\ Cardinality(O) = Cardinality(Pages) => f \in Surjection(O, Pages)
  BY <1>3, Finite, FS_Injection
<1>5. Cardinality(O) \in Nat
  BY <1>4, FS_CardinalityType
<1>6. ASSUME f \in Surjection(O, Pages), NEW p \in Pages
      PROVE  \E l \in LpnsOf(b) : pm[l] = Vpn(v, p)
  <2>1. PICK l \in O : f[l] = p
    BY <1>6 DEF Surjection
  <2>. QED BY <1>1, <1>2, <2>1
<1>. QED BY <1>4, <1>5, <1>6, Finite, SizeAssumption

\* The valid-page counts of the data blocks are bounded by their pages, and a page
\* that the write front has not reached has no owner.
LEMMA CountBound ==
  ASSUME NEW b \in Banks, TablesOK, BankInv(b), NEW v \in UserArea(b) \ {gc_vblock[b]}
  PROVE  /\ IsFiniteSet(OwnersOf(b, v, page_map))
         /\ vcount[b][v] = Cardinality(OwnersOf(b, v, page_map))
         /\ vcount[b][v] \in 0 .. PagesPerBlk - 1
         /\ vcount[b][v] = PagesPerBlk - 1 =>
              \A p \in Pages : \E l \in LpnsOf(b) : page_map[l] = Vpn(v, p)
<1>1. v \in VBlks /\ v # 0
  BY Layout
<1>2. page_map \in [Lpns -> [blk : VBlks, pg : Pages]]
  BY DEF TablesOK
<1>3. ASSUME NEW k \in LpnsOf(b), NEW l \in LpnsOf(b),
             page_map[k].blk = v, page_map[l] = page_map[k]
      PROVE  k = l
  <2>1. page_map[k] # Null /\ page_map[l] # Null
    BY <1>1, <1>3 DEF Null, Vpn
  <2>. QED BY <2>1, <1>3 DEF BankInv, MapOwnedIn
<1>4. vcount[b][v] = Cardinality(OwnersOf(b, v, page_map))
  BY DEF BankInv, VcountIn
<1>. QED BY <1>1, <1>2, <1>3, <1>4, OwnersBound

\* Over-provisioning: some block that the victim search may choose has an invalid page.
LEMMA Room ==
  ASSUME NEW b \in Banks, TablesOK, BankInv(b)
  PROVE  \E v \in UserArea(b) \ {gc_vblock[b]} : vcount[b][v] < PagesPerBlk - 1
<1> DEFINE U == UserArea(b) \ {gc_vblock[b]}
           f == [x \in U \X Pages |->
                   CHOOSE l \in LpnsOf(b) : page_map[l] = Vpn(x[1], x[2])]
<1> SUFFICES ASSUME \A v \in U : ~ (vcount[b][v] < PagesPerBlk - 1)
             PROVE  FALSE
  OBVIOUS
<1>1. \A v \in U : vcount[b][v] = PagesPerBlk - 1
  BY CountBound, SizeAssumption
<1>2. \A x \in U \X Pages : \E l \in LpnsOf(b) : page_map[l] = Vpn(x[1], x[2])
  BY <1>1, CountBound
<1>3. \A x \in U \X Pages : f[x] \in LpnsOf(b) /\ page_map[f[x]] = Vpn(x[1], x[2])
  BY <1>2
<1>4. f \in [U \X Pages -> LpnsOf(b)]
  BY <1>3, Zenon
<1>5. IsFiniteSet(U \X Pages)
  BY Finite, FS_RemoveElement, FS_Product
<1>6. Cardinality(LpnsOf(b)) < Cardinality(U \X Pages)
  BY CapacityAssumption DEF BankInv, ReserveIn
<1>7. PICK x, y \in U \X Pages : x # y /\ f[x] = f[y]
  <2>1. IsFiniteSet(LpnsOf(b))
    BY Finite
  <2>. HIDE DEF f, U
  <2>. QED BY <1>4, <1>5, <1>6, <2>1, FS_PigeonHole, Zenon
<1>8. Vpn(x[1], x[2]) = Vpn(y[1], y[2])
  BY <1>3, <1>7
<1>9. x[1] = y[1] /\ x[2] = y[2]
  BY <1>8 DEF Vpn
<1>. QED BY <1>7, <1>9

-----------------------------------------------------------------------------
(***************************************************************************)
(* A step that leaves what a bank holds keeps its invariant.               *)
(***************************************************************************)
SameBank(b) ==
  /\ vcount'[b] = vcount[b]
  /\ cur_write_vpn'[b] = cur_write_vpn[b]
  /\ gc_vblock'[b] = gc_vblock[b]
  /\ free_blk_cnt'[b] = free_blk_cnt[b]
  /\ lpn_list'[b] = lpn_list[b]
  /\ nand'[b] = nand[b]
  /\ last_page'[b] = last_page[b]
  /\ \A l \in LpnsOf(b) : page_map'[l] = page_map[l]
  /\ Pending(b)' <=> Pending(b)

\* A bank that a step leaves alone keeps its invariant.
LEMMA OtherBank ==
  ASSUME NEW b \in Banks, BankInv(b), SameBank(b)
  PROVE  BankInv(b)'
<1>1. Full(b)' = Full(b)
  BY DEF Full, SameBank
<1>2. \A v, p : Reached(b, v, p)' <=> Reached(b, v, p)
  BY <1>1, Zenon DEF Reached, SameBank
<1>3. \A v, p : Owner(b, v, p)' = Owner(b, v, p)
  BY Zenon DEF Owner, SameBank
<1>4. MapOwnedIn(b)'
  <2> SUFFICES ASSUME NEW l \in LpnsOf(b), page_map'[l] # Null
               PROVE  /\ page_map'[l].blk \in UserArea(b) \ {gc_vblock'[b]}
                      /\ Reached(b, page_map[l].blk, page_map[l].pg)'
                      /\ nand'[b][page_map'[l].blk][page_map'[l].pg] # Erased
                      /\ Owner(b, page_map[l].blk, page_map[l].pg)' = l
    BY Zenon DEF MapOwnedIn
  <2>1. page_map'[l] = page_map[l] /\ gc_vblock'[b] = gc_vblock[b] /\ nand'[b] = nand[b]
    BY Zenon DEF SameBank
  <2>2. /\ page_map[l].blk \in UserArea(b) \ {gc_vblock[b]}
        /\ Reached(b, page_map[l].blk, page_map[l].pg)
        /\ nand[b][page_map[l].blk][page_map[l].pg] # Erased
        /\ Owner(b, page_map[l].blk, page_map[l].pg) = l
    BY <2>1, Zenon DEF BankInv, MapOwnedIn
  <2>. QED BY <1>2, <1>3, <2>1, <2>2, Zenon
<1>5. VcountIn(b)'
  <2>1. \A v : OwnersOf(b, v, page_map)' = OwnersOf(b, v, page_map)
    BY DEF OwnersOf, SameBank
  <2>. QED BY <2>1, Zenon DEF VcountIn, BankInv, SameBank
<1>6. ReserveIn(b)'
  BY Zenon DEF ReserveIn, BankInv, SameBank
<1>7. FreeIn(b)'
  <2>1. NextBlocks(b)' = NextBlocks(b)
    BY Zenon DEF NextBlocks, SameBank
  <2>. QED BY <1>1, <2>1, Zenon DEF FreeIn, BankInv, SameBank
<1>8. FrontIn(b)'
  <2>1. Ahead(b)' = Ahead(b)
    BY <1>1, Zenon DEF Ahead, SameBank
  <2>. QED BY <1>1, <1>2, <2>1, Zenon DEF FrontIn, BankInv, SameBank
<1>9. OwnersIn(b)'
  BY <1>1, Zenon DEF OwnersIn, BankInv, SameBank
<1>. QED BY <1>4, <1>5, <1>6, <1>7, <1>8, <1>9 DEF BankInv

-----------------------------------------------------------------------------
(***************************************************************************)
(* The command: the loops of ftl_read and ftl_write stay in the pages that *)
(* the accepted command has.                                               *)
(***************************************************************************)
Cmds == [lpn : Lpns, offset : Sectors, remain : 0 .. MaxSectors,
         datum : Data \union {Blank}, printBytes : BOOLEAN]

\* The page a command is at is one of its pages.
LEMMA FirstPage ==
  ASSUME NEW S, NEW c, c.remain \in Nat, c.offset \in Nat, c.remain > 0, c.lpn \in Int, Fits(c, S)
  PROVE  c.lpn \in S
<1>1. 0 \in 0 .. c.remain /\ 0 * SectorsPerPage < c.offset + c.remain
  BY SizeAssumption
<1>2. c.lpn + 0 \in S
  BY <1>1 DEF Fits
<1>. QED BY <1>2

\* So is the one after it, while sectors remain.
LEMMA NextIteration ==
  ASSUME NEW S \in SUBSET Lpns, NEW c \in Cmds, c.remain > 0, Fits(c, S),
         c.remain # NumSectors(c),
         NEW d, d = [c EXCEPT !.lpn = @ + 1, !.offset = 0, !.remain = @ - NumSectors(c)]
  PROVE  d \in Cmds /\ d.remain > 0 /\ Fits(d, S) /\ d.datum = c.datum
<1>1. /\ c.lpn \in Nat /\ c.offset \in Nat /\ c.offset < SectorsPerPage
      /\ c.remain \in Nat /\ c.remain <= MaxSectors
      /\ SectorsPerPage \in Nat /\ SectorsPerPage > 0 /\ MaxSectors \in Nat
  BY SizeAssumption DEF Cmds, Lpns, Sectors
<1>2. c.offset + c.remain >= SectorsPerPage /\ NumSectors(c) = SectorsPerPage - c.offset
  BY <1>1 DEF NumSectors
<1>3. /\ d.lpn = c.lpn + 1 /\ d.offset = 0
      /\ d.remain = c.remain - (SectorsPerPage - c.offset)
      /\ d.datum = c.datum /\ d.printBytes = c.printBytes
  BY <1>2 DEF Cmds
<1>4. d.remain \in Nat /\ d.remain > 0 /\ d.remain < c.remain
  <2>1. c.remain # SectorsPerPage - c.offset
    BY <1>2, Zenon
  <2>2. /\ c.remain - (SectorsPerPage - c.offset) \in Nat
        /\ c.remain - (SectorsPerPage - c.offset) > 0
        /\ c.remain - (SectorsPerPage - c.offset) < c.remain
    <3>1. \A r, o, s \in Nat : o < s /\ o + r >= s /\ r # s - o
            => r - (s - o) \in Nat /\ r - (s - o) > 0 /\ r - (s - o) < r
      OBVIOUS
    <3>. QED BY <1>1, <1>2, <2>1, <3>1
  <2>. QED BY <1>3, <2>2, Zenon
<1>5. Fits(d, S)
  <2> SUFFICES ASSUME NEW k \in 0 .. d.remain, k * SectorsPerPage < d.offset + d.remain
               PROVE  d.lpn + k \in S
    BY DEF Fits
  <2>1. (k + 1) * SectorsPerPage = k * SectorsPerPage + SectorsPerPage
    BY <1>1
  <2>2. k * SectorsPerPage \in Int
    BY <1>1
  <2>3. k + 1 \in 0 .. c.remain /\ (k + 1) * SectorsPerPage < c.offset + c.remain
    BY <1>1, <1>3, <1>4, <2>1, <2>2
  <2>4. c.lpn + (k + 1) \in S
    BY <2>3 DEF Fits
  <2>5. d.lpn + k = c.lpn + (k + 1)
    BY <1>1, <1>3
  <2>. QED BY <2>4, <2>5
<1>6. d.lpn \in S
  <2>1. d.offset \in Nat /\ d.lpn \in Int
    BY <1>1, <1>3
  <2>. QED BY <1>4, <1>5, <2>1, FirstPage
<1>7. /\ d = [lpn |-> d.lpn, offset |-> d.offset, remain |-> d.remain,
              datum |-> d.datum, printBytes |-> d.printBytes]
  BY DEF Cmds
<1>8. /\ d.lpn \in Lpns /\ d.offset \in Sectors /\ d.remain \in 0 .. MaxSectors
      /\ d.datum \in Data \union {Blank} /\ d.printBytes \in BOOLEAN
  BY <1>1, <1>3, <1>4, <1>6 DEF Cmds, Sectors
<1>9. d \in Cmds
  BY <1>7, <1>8 DEF Cmds
<1>. QED BY <1>3, <1>4, <1>5, <1>9

\* NoCmd is a command record.
LEMMA NoCmdIn == NoCmd \in Cmds
  BY SizeAssumption DEF NoCmd, Cmds, Lpns, Sectors

\* Every step keeps the command well-formed.
LEMMA CmdStep ==
  ASSUME CmdOK, Next
  PROVE  CmdOK'
<1>1. ASSUME NEW lba \in Lbas, NEW n \in 1 .. MaxSectors, NEW d \in Data \union {Blank},
             NEW e \in BOOLEAN, NEW S \in SUBSET Lpns, Fits(Command(lba, n, d, e), S)
      PROVE  Command(lba, n, d, e) \in Cmds /\ Command(lba, n, d, e).remain > 0
  <2> DEFINE c == Command(lba, n, d, e)
  <2>1. /\ lba \in Nat /\ SectorsPerPage \in Nat /\ SectorsPerPage > 0
        /\ n \in Nat /\ n > 0 /\ MaxSectors \in Nat /\ n <= MaxSectors
    BY SizeAssumption DEF Lbas
  <2>2. lba % SectorsPerPage \in Sectors /\ lba \div SectorsPerPage \in Int
    BY <2>1 DEF Sectors
  <2>3. c.remain = n /\ c.offset = lba % SectorsPerPage /\ c.lpn = lba \div SectorsPerPage
    BY DEF Command
  <2>4. c.lpn \in S
    BY <1>1, <2>1, <2>2, <2>3, FirstPage DEF Sectors
  <2>. QED BY <2>1, <2>2, <2>3, <2>4 DEF Command, Cmds
<1>2. \A n : (n = EncSectors) \in BOOLEAN
  OBVIOUS
<1>3. ASSUME NEW lba \in Lbas, NEW n \in 1 .. MaxSectors, ftl_read(lba, n)
      PROVE  CmdOK'
  <2>1. Command(lba, n, Blank, FALSE) \in Cmds /\ Command(lba, n, Blank, FALSE).remain > 0
    BY <1>1, <1>3, Zenon DEF ftl_read
  <2>. QED BY <1>3, <2>1, Zenon DEF ftl_read, CmdOK, Cmds
<1>4. ASSUME NEW lba \in Lbas, NEW n \in 1 .. MaxSectors, NEW d \in Data, ftl_write(lba, n, d)
      PROVE  CmdOK'
  <2>1. Fits(Command(lba, n, d, n = EncSectors), HostLpns)
    BY <1>4 DEF ftl_write, Fits, Command
  <2>2. /\ Command(lba, n, d, n = EncSectors) \in Cmds
        /\ Command(lba, n, d, n = EncSectors).remain > 0
    BY <1>1, <1>2, <2>1, DataAssumption, Zenon
  <2>3. cmd'.datum = d
    BY <1>4 DEF ftl_write, Command
  <2>. QED BY <1>4, <2>1, <2>2, <2>3, Zenon DEF ftl_write, CmdOK, Cmds
<1>5. ASSUME NEW loop \in {"read", "write"}, NEW S \in SUBSET Lpns, Advance(loop),
             cmd.remain > 0, Fits(cmd, S),
             loop = "write" => S = HostLpns /\ cmd.datum \in Data
      PROVE  CmdOK'
  <2>1. cmd \in Cmds
    BY DEF CmdOK, Cmds
  <2>2. CASE cmd.remain = NumSectors(cmd)
    BY <1>5, <2>2, NoCmdIn, Zenon DEF Advance, CmdOK, Cmds
  <2>3. CASE cmd.remain # NumSectors(cmd)
    <3>1. pc' = loop /\ cmd' \in Cmds /\ cmd'.remain > 0 /\ Fits(cmd', S) /\ cmd'.datum = cmd.datum
      BY <1>5, <2>1, <2>3, NextIteration DEF Advance
    <3>2. \A k : k \in S => k \in Lpns
      OBVIOUS
    <3>3. Fits(cmd', Lpns)
      BY <3>1, <3>2 DEF Fits
    <3>. QED BY <1>5, <3>1, <3>3 DEF CmdOK, Cmds
  <2>. QED BY <2>2, <2>3
<1>6. CASE ReadPage
  BY <1>6, <1>5 DEF ReadPage, CmdOK
<1>7. ASSUME NEW b \in Banks, AssignNextPage(b)
      PROVE  CmdOK'
  BY <1>7 DEF AssignNextPage, CmdOK
<1>8. ASSUME NEW b \in Banks, AssignNextBlock(b)
      PROVE  CmdOK'
  BY <1>8 DEF AssignNextBlock, CmdOK
<1>9. ASSUME NEW b \in Banks, NEW vt \in VBlks, AssignByGc(b, vt)
      PROVE  CmdOK'
  BY <1>9 DEF AssignByGc, CmdOK
<1>10. ASSUME NEW enc \in SUBSET Sectors, NEW lost \in SUBSET Sectors, ProgramPage(enc, lost)
       PROVE  CmdOK'
  <2>1. HostLpns \in SUBSET Lpns
    BY DataAssumption
  <2>. QED BY <1>10, <1>5, <2>1 DEF ProgramPage, CmdOK
<1>. QED BY <1>3, <1>4, <1>6, <1>7, <1>8, <1>9, <1>10, Zenon DEF Next

-----------------------------------------------------------------------------
(***************************************************************************)
(* Steps that change no table: a command accepted, a page read.            *)
(***************************************************************************)
\* Accepting a command or reading a page keeps the invariant of every bank.
LEMMA IdleStep ==
  ASSUME TablesOK, \A b \in Banks : BankInv(b), ZeroOK,
         UNCHANGED <<meta, nand, last_page>>, pc # "program", pc' # "program"
  PROVE  TablesOK' /\ (\A b \in Banks : BankInv(b)') /\ ZeroOK'
<1>1. TablesOK'
  BY DEF TablesOK, meta
<1>2. ZeroOK'
  BY DEF ZeroOK, meta
<1>3. \A b \in Banks : SameBank(b)
  BY DEF SameBank, Pending, meta
<1>. QED BY <1>1, <1>2, <1>3, OtherBank

(***************************************************************************)
(* assign_new_write_vpn within the current block.                          *)
(***************************************************************************)
\* Allocating the next page of the current block keeps the invariant of every bank.
LEMMA NextPageStep ==
  ASSUME TablesOK, \A b \in Banks : BankInv(b), ZeroOK,
         NEW b \in Banks, AssignNextPage(b)
  PROVE  TablesOK' /\ (\A c \in Banks : BankInv(c)') /\ ZeroOK'
<1>1. /\ pc = "write" /\ pc' = "program" /\ b = get_num_bank(cmd.lpn) /\ cmd' = cmd
      /\ ~AtLastPage(b)
      /\ cur_write_vpn' = [cur_write_vpn EXCEPT ![b].pg = @ + 1]
      /\ page_map' = page_map /\ vcount' = vcount /\ gc_vblock' = gc_vblock
      /\ free_blk_cnt' = free_blk_cnt /\ lpn_list' = lpn_list
      /\ nand' = nand /\ last_page' = last_page
  BY DEF AssignNextPage
<1>2. /\ cur_write_vpn[b].blk \in VBlks /\ cur_write_vpn[b].pg \in Pages
      /\ cur_write_vpn'[b].blk = cur_write_vpn[b].blk
      /\ cur_write_vpn'[b].pg = cur_write_vpn[b].pg + 1
      /\ \A c \in Banks \ {b} : cur_write_vpn'[c] = cur_write_vpn[c]
  BY <1>1 DEF TablesOK
<1>3. cur_write_vpn' \in [Banks -> [blk : VBlks, pg : Pages]]
  <2>1. cur_write_vpn[b].pg + 1 \in Pages
    BY <1>1, <1>2, SizeAssumption DEF AtLastPage, Pages
  <2>2. cur_write_vpn \in [Banks -> [blk : VBlks, pg : Pages]]
    BY DEF TablesOK
  <2>3. [cur_write_vpn[b] EXCEPT !.pg = @ + 1] \in [blk : VBlks, pg : Pages]
    BY <2>1, <2>2
  <2>4. cur_write_vpn' = [cur_write_vpn EXCEPT ![b] = [cur_write_vpn[b] EXCEPT !.pg = @ + 1]]
    BY <1>1
  <2>. QED BY <2>2, <2>3, <2>4
<1>4. TablesOK'
  BY <1>1, <1>3, Zenon DEF TablesOK
<1>5. ZeroOK'
  BY <1>1, Zenon DEF ZeroOK
<1>6. ASSUME NEW c \in Banks \ {b}
      PROVE  BankInv(c)'
  <2>1. SameBank(c)
    BY <1>1, <1>2, Zenon DEF SameBank, Pending
  <2>. QED BY <2>1, OtherBank
<1>7. Full(b)' = Full(b) /\ NextBlocks(b)' = NextBlocks(b) /\ Ahead(b)' = Ahead(b)
  BY <1>1, <1>2, Zenon DEF Full, NextBlocks, Ahead
<1>8. \A v, p : Owner(b, v, p)' = Owner(b, v, p)
  BY <1>1, <1>2, Zenon DEF Owner
<1>9. \A v, p \in Nat : Reached(b, v, p)' <=> Reached(b, v, p)
  <2>1. Pending(b)' /\ ~Pending(b)
    BY <1>1 DEF Pending
  <2>2. cur_write_vpn[b].pg \in Nat
    BY <1>2, SizeAssumption DEF Pages
  <2>. QED BY <1>1, <1>2, <1>7, <2>1, <2>2 DEF Reached
<1>10. VBlks \subseteq Nat /\ Pages \subseteq Nat /\ UserArea(b) \subseteq VBlks
  BY Layout DEF VBlks, Pages
<1>11. MapOwnedIn(b)'
  <2> SUFFICES ASSUME NEW l \in LpnsOf(b), page_map[l] # Null
               PROVE  /\ page_map[l].blk \in UserArea(b) \ {gc_vblock[b]}
                      /\ Reached(b, page_map[l].blk, page_map[l].pg)'
                      /\ nand[b][page_map[l].blk][page_map[l].pg] # Erased
                      /\ Owner(b, page_map[l].blk, page_map[l].pg)' = l
    BY <1>1, Zenon DEF MapOwnedIn
  <2>1. page_map[l].blk \in Nat /\ page_map[l].pg \in Nat
    BY <1>10 DEF TablesOK, LpnsOf
  <2>2. /\ page_map[l].blk \in UserArea(b) \ {gc_vblock[b]}
        /\ Reached(b, page_map[l].blk, page_map[l].pg)
        /\ nand[b][page_map[l].blk][page_map[l].pg] # Erased
        /\ Owner(b, page_map[l].blk, page_map[l].pg) = l
    BY Zenon DEF BankInv, MapOwnedIn
  <2>. QED BY <1>1, <1>8, <1>9, <2>1, <2>2, Zenon
<1>12. VcountIn(b)' /\ OwnersIn(b)'
  <2>1. \A v : OwnersOf(b, v, page_map)' = OwnersOf(b, v, page_map)
    BY <1>1 DEF OwnersOf
  <2>. QED BY <1>1, <1>7, <2>1, Zenon DEF BankInv, VcountIn, OwnersIn
<1>13. ReserveIn(b)' /\ FreeIn(b)'
  BY <1>1, <1>2, <1>7, Zenon DEF BankInv, ReserveIn, FreeIn
<1>14. FrontIn(b)'
  <2>1. \A w \in UserArea(b), p \in Pages :
          nand[b][w][p] # Erased => w # gc_vblock[b] /\ Reached(b, w, p)'
    BY <1>9, <1>10, Zenon DEF BankInv, FrontIn
  <2>. QED BY <1>1, <1>2, <1>7, <2>1, Zenon DEF BankInv, FrontIn
<1>15. BankInv(b)'
  BY <1>11, <1>12, <1>13, <1>14 DEF BankInv
<1>. QED BY <1>4, <1>5, <1>6, <1>15, Zenon

(***************************************************************************)
(* assign_new_write_vpn past the last page: the current block becomes full *)
(* and the next block of the front becomes current.                        *)
(***************************************************************************)
\* While a third block is free, the blocks that NextBlocks offers are the free ones
\* ahead of the write front.
LEMMA FrontAhead ==
  ASSUME NEW b \in Banks, TablesOK, BankInv(b), ~is_full_all_blks(b)
  PROVE  Ahead(b) # {} /\ NextBlocks(b) = Ahead(b) /\ free_blk_cnt[b] > 2
<1>1. free_blk_cnt[b] \in 2 .. VBlksPerBank /\ free_blk_cnt[b] > 2
  BY SizeAssumption DEF TablesOK, is_full_all_blks
<1>2. NextBlocks(b) # {}
  BY <1>1 DEF BankInv, FreeIn
<1>3. UserArea(b) \subseteq VBlks
  BY Layout
<1>4. NextBlocks(b) = {w \in UserArea(b) \ {gc_vblock[b]} : w > cur_write_vpn[b].blk}
  BY <1>3 DEF NextBlocks, BankInv, ReserveIn
<1>5. IsFiniteSet(UserArea(b) \ Full(b))
  BY Finite, FS_Subset DEF Full
<1>6. Ahead(b) # {}
  <2> SUFFICES ASSUME Ahead(b) = {} PROVE FALSE
    OBVIOUS
  <2>1. cur_write_vpn[b].blk # gc_vblock[b]
    BY DEF BankInv, ReserveIn
  <2>2. UserArea(b) \ Full(b) \subseteq {cur_write_vpn[b].blk, gc_vblock[b]}
    BY DEF Ahead
  <2>3. /\ IsFiniteSet({cur_write_vpn[b].blk, gc_vblock[b]})
        /\ Cardinality({cur_write_vpn[b].blk, gc_vblock[b]}) = 2
    BY <2>1, PairCard
  <2>4. UserArea(b) \ Full(b) \in SUBSET {cur_write_vpn[b].blk, gc_vblock[b]}
    BY <2>2
  <2>5. Cardinality(UserArea(b) \ Full(b)) <= 2
    BY <2>3, <2>4, FS_Subset
  <2>. QED BY <1>1, <2>5 DEF BankInv, FreeIn
<1>. QED BY <1>1, <1>4, <1>6 DEF BankInv, FrontIn

\* Allocating the first page of the next block keeps the invariant of every bank.
LEMMA NextBlockStep ==
  ASSUME TablesOK, \A b \in Banks : BankInv(b), ZeroOK,
         NEW b \in Banks, AssignNextBlock(b)
  PROVE  TablesOK' /\ (\A c \in Banks : BankInv(c)') /\ ZeroOK'
<1> DEFINE old == cur_write_vpn[b].blk
           new == Least(NextBlocks(b))
<1>1. /\ pc = "write" /\ pc' = "program" /\ b = get_num_bank(cmd.lpn) /\ cmd' = cmd
      /\ AtLastPage(b) /\ ~is_full_all_blks(b)
      /\ last_page' = LogLpnList(b)
      /\ lpn_list' = [lpn_list EXCEPT ![b] = NoLpns]
      /\ free_blk_cnt' = [free_blk_cnt EXCEPT ![b] = @ - 1]
      /\ cur_write_vpn' = [cur_write_vpn EXCEPT ![b] = Vpn(new, 0)]
      /\ page_map' = page_map /\ vcount' = vcount /\ gc_vblock' = gc_vblock
      /\ nand' = nand
  BY DEF AssignNextBlock, inc_full_blk_cnt
<1>2. /\ VBlks \subseteq Nat /\ Pages \subseteq Nat /\ UserArea(b) \subseteq VBlks
      /\ 0 \in Pages /\ 0 \in Lpns
  BY Layout, SizeAssumption DEF VBlks, Pages, Lpns
<1>3. Ahead(b) # {} /\ NextBlocks(b) = Ahead(b) /\ free_blk_cnt[b] > 2
  BY <1>1, FrontAhead
<1>4. /\ new \in Ahead(b) /\ \A w \in Ahead(b) : new <= w
      /\ Ahead(b) = {w \in UserArea(b) \ {gc_vblock[b]} : w > old}
  <2>1. Ahead(b) \in SUBSET Nat
    BY <1>2 DEF Ahead
  <2>. QED BY <1>3, <2>1, LeastIn DEF BankInv, FrontIn
<1>5. /\ old \in UserArea(b) /\ old \notin Full(b) /\ old # gc_vblock[b]
      /\ new \in UserArea(b) /\ new \notin Full(b) /\ new # gc_vblock[b] /\ new # old
      /\ gc_vblock[b] \in UserArea(b)
  BY <1>4 DEF Ahead, BankInv, FrontIn, ReserveIn
<1> HIDE DEF old, new
<1>23. /\ old \in Nat /\ new \in Nat /\ new > old
       /\ \A w \in UserArea(b) : w \in Nat
       /\ \A w \in Ahead(b) : w \in Nat /\ new <= w /\ (w # new <=> w > new)
  <2>1. \A w \in UserArea(b) : w \in Nat
    BY <1>2
  <2>2. \A w \in Ahead(b) : w \in UserArea(b)
    BY Zenon DEF Ahead
  <2>3. \A x, y \in Nat : x <= y => (y # x <=> y > x)
    OBVIOUS
  <2>4. old \in Nat /\ new \in Nat /\ new > old
    BY <1>4, <1>5, <2>1
  <2>. QED BY <1>4, <2>1, <2>2, <2>3, <2>4, Zenon
<1>6. /\ lpn_list[b] \in [Pages -> Lpns]
      /\ last_page'[b] = [last_page[b] EXCEPT ![old] = lpn_list[b]]
      /\ last_page'[b][old] = lpn_list[b]
      /\ \A w \in VBlks \ {old} : last_page'[b][w] = last_page[b][w]
  BY <1>1, <1>2, <1>5 DEF LogLpnList, TablesOK, old
<1>7. /\ cur_write_vpn'[b].blk = new /\ cur_write_vpn'[b].pg = 0
      /\ lpn_list'[b] = NoLpns
      /\ free_blk_cnt'[b] = free_blk_cnt[b] - 1
      /\ \A c \in Banks \ {b} : /\ cur_write_vpn'[c] = cur_write_vpn[c]
                                /\ lpn_list'[c] = lpn_list[c]
                                /\ free_blk_cnt'[c] = free_blk_cnt[c]
                                /\ last_page'[c] = last_page[c]
  BY <1>1 DEF TablesOK, Vpn, LogLpnList
<1>8. TablesOK'
  <2>1. Vpn(new, 0) \in [blk : VBlks, pg : Pages]
    BY <1>2, <1>5 DEF Vpn
  <2>2. cur_write_vpn' \in [Banks -> [blk : VBlks, pg : Pages]]
    BY <1>1, <2>1 DEF TablesOK
  <2>3. lpn_list' \in [Banks -> [Pages -> Lpns]]
    BY <1>1, <1>2 DEF TablesOK, NoLpns
  <2>4. last_page' \in [Banks -> [VBlks -> [Pages -> Lpns] \union {Erased}]]
    BY <1>1, <1>6 DEF TablesOK, LogLpnList
  <2>5. free_blk_cnt' \in [Banks -> 2 .. VBlksPerBank]
    <3>1. free_blk_cnt[b] \in 2 .. VBlksPerBank /\ VBlksPerBank \in Nat
      BY SizeAssumption DEF TablesOK
    <3>2. free_blk_cnt[b] - 1 \in 2 .. VBlksPerBank
      BY <1>3, <3>1
    <3>. QED BY <1>1, <3>2 DEF TablesOK
  <2>. QED BY <1>1, <2>2, <2>3, <2>4, <2>5, Zenon DEF TablesOK
<1>9. ZeroOK'
  BY <1>1, Zenon DEF ZeroOK
<1>10. ASSUME NEW c \in Banks \ {b}
       PROVE  BankInv(c)'
  <2>1. SameBank(c)
    BY <1>1, <1>7, Zenon DEF SameBank, Pending
  <2>. QED BY <2>1, OtherBank
<1>11. Full(b)' = Full(b) \union {old}
  BY <1>2, <1>5, <1>6, DataAssumption DEF Full
<1>12. \A w \in UserArea(b), p \in Pages : Reached(b, w, p) <=> Reached(b, w, p)'
  <2>1. Pending(b)' /\ ~Pending(b)
    BY <1>1 DEF Pending
  <2>2. cur_write_vpn[b].pg = PagesPerBlk - 2
    BY <1>1 DEF AtLastPage
  <2>3. \A p \in Pages : p <= PagesPerBlk - 2 /\ ~(p < 0)
    BY SizeAssumption DEF Pages
  <2>4. \A w \in UserArea(b), p \in Pages : Reached(b, w, p) <=> w \in Full(b) \union {old}
    <3> TAKE w \in UserArea(b), p \in Pages
    <3>1. p < PagesPerBlk - 2 \/ p = PagesPerBlk - 2
      BY <2>3, <1>2, SizeAssumption
    <3>. QED BY <2>1, <2>2, <3>1 DEF Reached, old
  <2>5. \A w \in UserArea(b), p \in Pages : Reached(b, w, p)' <=> w \in Full(b) \union {old}
    BY <1>7, <1>11, <2>1, <2>3, Zenon DEF Reached
  <2>. QED BY <2>4, <2>5
<1>13. \A w \in UserArea(b) \ {new}, p \in Pages : Owner(b, w, p)' = Owner(b, w, p)
  BY <1>2, <1>6, <1>7 DEF Owner, old
<1>14. \A p \in Pages : ~Reached(b, new, p)
  BY <1>5, Zenon DEF Reached, old
<1>15. MapOwnedIn(b)'
  <2> SUFFICES ASSUME NEW l \in LpnsOf(b), page_map[l] # Null
               PROVE  /\ page_map[l].blk \in UserArea(b) \ {gc_vblock[b]}
                      /\ Reached(b, page_map[l].blk, page_map[l].pg)'
                      /\ nand[b][page_map[l].blk][page_map[l].pg] # Erased
                      /\ Owner(b, page_map[l].blk, page_map[l].pg)' = l
    BY <1>1, Zenon DEF MapOwnedIn
  <2>1. page_map[l].pg \in Pages
    BY DEF TablesOK, LpnsOf
  <2>2. /\ page_map[l].blk \in UserArea(b) \ {gc_vblock[b]}
        /\ Reached(b, page_map[l].blk, page_map[l].pg)
        /\ nand[b][page_map[l].blk][page_map[l].pg] # Erased
        /\ Owner(b, page_map[l].blk, page_map[l].pg) = l
    BY Zenon DEF BankInv, MapOwnedIn
  <2>3. page_map[l].blk # new
    BY <1>14, <2>1, <2>2, Zenon
  <2>4. page_map[l].blk \in UserArea(b) \ {new}
    BY <2>2, <2>3, Zenon
  <2>5. Reached(b, page_map[l].blk, page_map[l].pg)'
    BY <1>1, <1>12, <2>1, <2>2, Zenon
  <2>6. Owner(b, page_map[l].blk, page_map[l].pg)' = l
    BY <1>1, <1>13, <2>1, <2>2, <2>4, Zenon
  <2>. QED BY <2>2, <2>5, <2>6, Zenon
<1>16. VcountIn(b)'
  <2>1. \A v : OwnersOf(b, v, page_map)' = OwnersOf(b, v, page_map)
    BY <1>1 DEF OwnersOf
  <2>. QED BY <1>1, <2>1, Zenon DEF BankInv, VcountIn
<1>17. ReserveIn(b)'
  <2>1. gc_vblock[b] \in VBlks \ {old}
    BY <1>2, <1>5
  <2>2. last_page'[b][gc_vblock[b]] = Erased
    BY <1>6, <2>1 DEF BankInv, ReserveIn
  <2>3. gc_vblock[b] \in UserArea(b) \ {cur_write_vpn'[b].blk}
    BY <1>5, <1>7
  <2>. QED BY <1>1, <2>2, <2>3, Zenon DEF BankInv, ReserveIn
<1>18. Ahead(b)' = Ahead(b) \ {new}
  BY <1>1, <1>7, <1>11 DEF Ahead, old
<1>19. FreeIn(b)'
  <2>1. IsFiniteSet(UserArea(b) \ Full(b))
    BY Finite, FS_Subset DEF Full
  <2>2. UserArea(b) \ Full(b)' = (UserArea(b) \ Full(b)) \ {old}
    BY <1>11
  <2>3. /\ IsFiniteSet(UserArea(b) \ Full(b)')
        /\ Cardinality(UserArea(b) \ Full(b)') = Cardinality(UserArea(b) \ Full(b)) - 1
    BY <1>5, <2>1, <2>2, FS_RemoveElement
  <2>4. ASSUME NextBlocks(b)' = {}
        PROVE  Cardinality(UserArea(b) \ Full(b)') <= 2
    <3>1. Ahead(b)' = {}
      <4> SUFFICES ASSUME NEW w \in Ahead(b)' PROVE FALSE
        OBVIOUS
      <4>1. w \in Ahead(b) /\ w > new
        <5>1. w \in Ahead(b) /\ w # new
          BY <1>18, Zenon
        <5>. QED BY <1>23, <5>1, Zenon
      <4>2. w \in NextBlocks(b)
        BY <1>3, <4>1
      <4>3. w \in NextBlocks(b)'
        BY <1>1, <1>7, <4>1, <4>2 DEF NextBlocks
      <4>. QED BY <2>4, <4>3
    <3>2. UserArea(b) \ Full(b)' \in SUBSET {new, gc_vblock[b]}
      BY <1>1, <1>7, <3>1 DEF Ahead
    <3>3. IsFiniteSet({new, gc_vblock[b]}) /\ Cardinality({new, gc_vblock[b]}) = 2
      BY <1>5, PairCard
    <3>. QED BY <3>2, <3>3, FS_Subset
  <2>5. Cardinality(UserArea(b) \ Full(b)') = free_blk_cnt'[b] /\ free_blk_cnt'[b] \in Nat
    <3>1. free_blk_cnt[b] \in 2 .. VBlksPerBank /\ free_blk_cnt[b] \in Nat
      BY SizeAssumption DEF TablesOK
    <3>2. free_blk_cnt[b] = Cardinality(UserArea(b) \ Full(b))
      BY DEF BankInv, FreeIn
    <3>. QED BY <1>7, <2>3, <3>1, <3>2
  <2>. QED BY <2>4, <2>5 DEF FreeIn
<1>20. FrontIn(b)'
  <2>1. cur_write_vpn'[b].blk \in UserArea(b) \ Full(b)'
    BY <1>5, <1>7, <1>11
  <2>2. Ahead(b)' = {w \in UserArea(b) \ {gc_vblock'[b]} : w > cur_write_vpn'[b].blk}
    <3>1. \A w \in Ahead(b) : w # new <=> w > new
      BY <1>23, Zenon
    <3>2. \A w \in UserArea(b) : w > new => w > old
      BY <1>23
    <3>. QED BY <1>1, <1>4, <1>7, <1>18, <3>1, <3>2
  <2>3. \A w \in UserArea(b), p \in Pages :
          nand[b][w][p] # Erased => w # gc_vblock[b] /\ Reached(b, w, p)'
    BY <1>12, Zenon DEF BankInv, FrontIn
  <2>. QED BY <1>1, <2>1, <2>2, <2>3, Zenon DEF FrontIn
<1>21. OwnersIn(b)'
  <2>1. ASSUME NEW p \in Pages
        PROVE  HereIn(b, lpn_list'[b][p])
    BY <1>7, <2>1 DEF NoLpns, HereIn
  <2>2. ASSUME NEW p \in Pages, NEW w \in Full(b)'
        PROVE  HereIn(b, last_page'[b][w][p])
    BY <1>2, <1>6, <1>11 DEF BankInv, OwnersIn, Full
  <2>. QED BY <2>1, <2>2 DEF OwnersIn, HereIn
<1>22. BankInv(b)'
  BY <1>15, <1>16, <1>17, <1>19, <1>20, <1>21 DEF BankInv
<1>. QED BY <1>8, <1>9, <1>10, <1>22, Zenon

(***************************************************************************)
(* garbage_collection.  With two free blocks left, the full blocks are all *)
(* but the current and the reserved one; the victim has an invalid page,   *)
(* and its live pages are in bijection with the logical pages mapped to it.*)
(***************************************************************************)
VictimList(b, vt) == LogLpnList(b)[b][vt]
VictimLive(b, vt) == Live(b, vt, VictimList(b, vt))

\* The victim is a data block, not the reserved one, with at least one invalid page.
LEMMA VictimBlock ==
  ASSUME NEW b \in Banks, TablesOK, BankInv(b), is_full_all_blks(b), NEW vt \in Victims(b)
  PROVE  /\ vt \in UserArea(b) \ {gc_vblock[b]}
         /\ vcount[b][vt] \in 0 .. PagesPerBlk - 2
         /\ UserArea(b) \ Full(b) = {cur_write_vpn[b].blk, gc_vblock[b]}
<1>1. vt \in VBlks /\ \A w \in VBlks : vcount[b][vt] <= vcount[b][w]
  BY DEF Victims
<1>2. PICK v \in UserArea(b) \ {gc_vblock[b]} : vcount[b][v] < PagesPerBlk - 1
  BY Room
<1>3. vcount[b][v] \in 0 .. PagesPerBlk - 1
  BY CountBound
<1>4. UserArea(b) \subseteq VBlks
  BY Layout
<1>5. vcount[b][vt] \in 0 .. PagesPerBlk - 1 \union {VC_MAX}
  BY <1>1 DEF TablesOK
<1>6. vcount[b][vt] <= vcount[b][v]
  BY <1>1, <1>4
<1>7. vcount[b][vt] \in 0 .. PagesPerBlk - 2 /\ vcount[b][vt] # VC_MAX
  BY <1>2, <1>3, <1>5, <1>6, SizeAssumption DEF VC_MAX
<1>8. vt \in UserArea(b) \ {gc_vblock[b]}
  BY <1>1, <1>7 DEF BankInv, ReserveIn
<1>9. Cardinality(UserArea(b) \ Full(b)) = 2
  <2>1. free_blk_cnt[b] \in 2 .. VBlksPerBank /\ VBlksPerBank \in Nat
    BY SizeAssumption DEF TablesOK
  <2>2. free_blk_cnt[b] = 2
    BY <2>1 DEF is_full_all_blks
  <2>. QED BY <2>2 DEF BankInv, FreeIn
<1>10. UserArea(b) \ Full(b) = {cur_write_vpn[b].blk, gc_vblock[b]}
  <2> DEFINE two == {cur_write_vpn[b].blk, gc_vblock[b]}
             rest == UserArea(b) \ Full(b)
  <2>1. cur_write_vpn[b].blk # gc_vblock[b]
    BY DEF BankInv, ReserveIn
  <2>2. two \in SUBSET rest
    BY DEF BankInv, ReserveIn, FrontIn, Full
  <2>3. IsFiniteSet(rest)
    BY Finite, FS_Subset DEF Full
  <2>4. Cardinality(two) = 2
    BY <2>1, PairCard
  <2>. HIDE DEF two, rest
  <2>5. Cardinality(rest) = 2
    BY <1>9 DEF rest
  <2>6. two = rest
    BY <2>2, <2>3, <2>4, <2>5, FS_Subset
  <2>. QED BY <2>6 DEF two, rest
<1>. QED BY <1>7, <1>8, <1>10

\* The list that garbage_collection reads names the owner of every page of the victim,
\* in this bank, and its live pages are those of the logical pages mapped to it.
LEMMA VictimOwners ==
  ASSUME NEW b \in Banks, TablesOK, BankInv(b), ZeroOK, is_full_all_blks(b), NEW vt \in Victims(b)
  PROVE  /\ VictimList(b, vt) \in [Pages -> Lpns]
         /\ \A p \in Pages : VictimList(b, vt)[p] = Owner(b, vt, p) /\ HereIn(b, Owner(b, vt, p))
         /\ VictimLive(b, vt) \subseteq Pages
         /\ \A p \in VictimLive(b, vt) : /\ Owner(b, vt, p) \in LpnsOf(b)
                                         /\ page_map[Owner(b, vt, p)] = Vpn(vt, p)
         /\ \A l \in LpnsOf(b) : page_map[l].blk = vt =>
               /\ page_map[l].pg \in VictimLive(b, vt)
               /\ Owner(b, vt, page_map[l].pg) = l
<1>1. /\ vt \in UserArea(b) \ {gc_vblock[b]} /\ vt \in VBlks /\ vt # 0
      /\ vt = cur_write_vpn[b].blk \/ vt \in Full(b)
  BY VictimBlock, Layout
<1>2. /\ VictimList(b, vt) \in [Pages -> Lpns]
      /\ \A p \in Pages : VictimList(b, vt)[p] = Owner(b, vt, p) /\ HereIn(b, Owner(b, vt, p))
  <2>1. LogLpnList(b)[b] = [last_page[b] EXCEPT ![cur_write_vpn[b].blk] = lpn_list[b]]
    BY DEF LogLpnList, TablesOK
  <2>2. cur_write_vpn[b].blk \in VBlks /\ last_page[b] \in [VBlks -> [Pages -> Lpns] \union {Erased}]
    BY DEF TablesOK
  <2>3. CASE vt = cur_write_vpn[b].blk
    <3>1. VictimList(b, vt) = lpn_list[b]
      BY <2>1, <2>2, <2>3 DEF VictimList
    <3>2. lpn_list[b] \in [Pages -> Lpns]
      BY DEF TablesOK
    <3>3. \A p \in Pages : HereIn(b, lpn_list[b][p])
      BY Zenon DEF BankInv, OwnersIn
    <3>. QED BY <2>3, <3>1, <3>2, <3>3, Zenon DEF Owner
  <2>4. CASE vt # cur_write_vpn[b].blk
    <3>1. VictimList(b, vt) = last_page[b][vt]
      BY <1>1, <2>1, <2>2, <2>4 DEF VictimList
    <3>2. last_page[b][vt] \in [Pages -> Lpns]
      BY <1>1, <2>2, <2>4 DEF Full
    <3>3. \A p \in Pages : HereIn(b, last_page[b][vt][p])
      BY <1>1, <2>4, Zenon DEF BankInv, OwnersIn
    <3>. QED BY <2>4, <3>1, <3>2, <3>3, Zenon DEF Owner
  <2>. QED BY <2>3, <2>4
<1>3. ASSUME NEW p \in Pages
      PROVE  p \in VictimLive(b, vt) <=> page_map[Owner(b, vt, p)] = Vpn(vt, p)
  BY <1>2 DEF VictimLive, Live
<1>4. VictimLive(b, vt) \subseteq Pages
  BY DEF VictimLive, Live
<1>5. ASSUME NEW p \in VictimLive(b, vt)
      PROVE  Owner(b, vt, p) \in LpnsOf(b) /\ page_map[Owner(b, vt, p)] = Vpn(vt, p)
  <2>1. page_map[Owner(b, vt, p)] = Vpn(vt, p)
    BY <1>3, <1>4
  <2>2. page_map[Owner(b, vt, p)] # Null
    BY <1>1, <2>1 DEF Vpn, Null
  <2>3. Owner(b, vt, p) \in Lpns /\ HereIn(b, Owner(b, vt, p))
    BY <1>2, <1>4
  <2>4. get_num_bank(Owner(b, vt, p)) = b
    BY <2>2, <2>3, OneBankOnly DEF HereIn, ZeroOK
  <2>. QED BY <2>1, <2>3, <2>4 DEF LpnsOf
<1>6. ASSUME NEW l \in LpnsOf(b), page_map[l].blk = vt
      PROVE  page_map[l].pg \in VictimLive(b, vt) /\ Owner(b, vt, page_map[l].pg) = l
  <2>1. page_map[l] \in [blk : VBlks, pg : Pages]
    BY DEF TablesOK, LpnsOf
  <2>2. page_map[l] = Vpn(vt, page_map[l].pg) /\ page_map[l].pg \in Pages
    BY <1>6, <2>1 DEF Vpn
  <2>3. page_map[l] # Null
    BY <1>1, <1>6 DEF Vpn, Null
  <2>4. Owner(b, vt, page_map[l].pg) = l
    BY <1>6, <2>3 DEF BankInv, MapOwnedIn
  <2>. QED BY <1>3, <2>2, <2>4
<1>. QED BY <1>2, <1>4, <1>5, <1>6

\* garbage_collection copies as many pages as the victim's count says.
LEMMA VictimCount ==
  ASSUME NEW b \in Banks, TablesOK, BankInv(b), ZeroOK, is_full_all_blks(b), NEW vt \in Victims(b)
  PROVE  Cardinality(VictimLive(b, vt)) = vcount[b][vt]
<1> DEFINE live == VictimLive(b, vt)
           owners == OwnersOf(b, vt, page_map)
           f == [l \in owners |-> page_map[l].pg]
<1>1. vt \in UserArea(b) \ {gc_vblock[b]}
  BY VictimBlock
<1>2. IsFiniteSet(owners) /\ Cardinality(owners) = vcount[b][vt]
  BY <1>1, CountBound
<1>3. \A l \in owners : l \in LpnsOf(b) /\ page_map[l].blk = vt
  BY DEF OwnersOf
<1>4. \A l \in owners : f[l] \in live /\ Owner(b, vt, f[l]) = l
  BY <1>3, VictimOwners
<1>5. f \in Injection(owners, live)
  BY <1>4 DEF Injection, IsInjective
<1>6. ASSUME NEW p \in live
      PROVE  \E l \in owners : f[l] = p
  <2>1. Owner(b, vt, p) \in LpnsOf(b) /\ page_map[Owner(b, vt, p)] = Vpn(vt, p)
    BY VictimOwners
  <2>2. Owner(b, vt, p) \in owners /\ page_map[Owner(b, vt, p)].pg = p
    BY <2>1 DEF OwnersOf, Vpn
  <2>. QED BY <2>2
<1>. HIDE DEF live, owners, f
<1>7. f \in Bijection(owners, live)
  BY <1>5, <1>6 DEF Bijection, Injection, Surjection
<1>8. ExistsBijection(owners, live)
  BY <1>7 DEF ExistsBijection
<1>9. Cardinality(live) = Cardinality(owners)
  BY <1>2, <1>8, FS_Bijection
<1>. QED BY <1>2, <1>9 DEF live

\* Garbage collection keeps the invariant of every bank.
LEMMA GcStep ==
  ASSUME TablesOK, \A c \in Banks : BankInv(c), ZeroOK,
         NEW b \in Banks, NEW vt \in VBlks, AssignByGc(b, vt)
  PROVE  TablesOK' /\ (\A c \in Banks : BankInv(c)') /\ ZeroOK'
<1>0. PICK gc, cur, log, list, live, n :
        /\ gc = gc_vblock[b] /\ cur = cur_write_vpn[b].blk
        /\ log = LogLpnList(b) /\ list = VictimList(b, vt) /\ list = log[b][vt]
        /\ live = VictimLive(b, vt) /\ n = Cardinality(live)
  BY Zenon DEF VictimList
\* What garbage_collection does.
<1>1. /\ pc = "write" /\ pc' = "program" /\ b = get_num_bank(cmd.lpn) /\ cmd' = cmd
      /\ is_full_all_blks(b) /\ vt \in Victims(b)
      /\ page_map' = Relocate(b, vt, list, live)
      /\ nand' = CopyBack(b, vt, live)
      /\ last_page' = [log EXCEPT ![b][vt] = Erased]
      /\ lpn_list' = [lpn_list EXCEPT ![b] = Compact(list, live)]
      /\ vcount' = [vcount EXCEPT ![b] = GcCounts(b, vt)]
      /\ cur_write_vpn' = [cur_write_vpn EXCEPT ![b] = Vpn(gc, n)]
      /\ gc_vblock' = [gc_vblock EXCEPT ![b] = vt]
      /\ free_blk_cnt' = free_blk_cnt
  BY <1>0, Zenon DEF AssignByGc, garbage_collection, VictimList, VictimLive
<1>2. /\ VBlks \subseteq Nat /\ Pages = 0 .. PagesPerBlk - 2 /\ UserArea(b) \subseteq VBlks \ {0}
      /\ PagesPerBlk \in Nat /\ PagesPerBlk >= 3
  BY Layout, SizeAssumption DEF VBlks, Pages
<1>3. BankInv(b)
  OBVIOUS
<1>4. /\ vt \in UserArea(b) /\ vt # gc /\ gc \in UserArea(b) /\ cur \in UserArea(b) /\ cur # gc
      /\ UserArea(b) \ Full(b) = {cur, gc}
      /\ last_page[b][gc] = Erased
      /\ \A p \in Pages : nand[b][gc][p] = Erased
  BY <1>0, <1>1, VictimBlock DEF BankInv, ReserveIn, FrontIn
<1>5. n = vcount[b][vt] /\ n \in 0 .. PagesPerBlk - 2
  BY <1>0, <1>1, VictimBlock, VictimCount
<1>6. /\ list \in [Pages -> Lpns]
      /\ \A p \in Pages : list[p] = Owner(b, vt, p) /\ HereIn(b, list[p])
      /\ live \in SUBSET Pages
      /\ \A p \in live : list[p] \in LpnsOf(b) /\ page_map[list[p]] = Vpn(vt, p)
      /\ \A l \in LpnsOf(b) : page_map[l].blk = vt =>
            page_map[l].pg \in live /\ list[page_map[l].pg] = l
  <2>1. /\ list \in [Pages -> Lpns]
        /\ \A p \in Pages : list[p] = Owner(b, vt, p) /\ HereIn(b, list[p])
        /\ live \subseteq Pages
    <3>1. /\ VictimList(b, vt) \in [Pages -> Lpns]
          /\ \A p \in Pages : VictimList(b, vt)[p] = Owner(b, vt, p) /\ HereIn(b, Owner(b, vt, p))
          /\ VictimLive(b, vt) \subseteq Pages
      BY <1>1, VictimOwners
    <3>. QED BY <1>0, <3>1, Zenon
  <2>2. /\ \A p \in live : Owner(b, vt, p) \in LpnsOf(b) /\ page_map[Owner(b, vt, p)] = Vpn(vt, p)
        /\ \A l \in LpnsOf(b) : page_map[l].blk = vt =>
              page_map[l].pg \in live /\ Owner(b, vt, page_map[l].pg) = l
    BY <1>0, <1>1, VictimOwners
  <2>. QED BY <2>1, <2>2
<1>7. /\ \A p \in live : Rank(live, p) \in 0 .. n - 1 /\ Nth(live, Rank(live, p)) = p
      /\ \A k \in 0 .. n - 1 : Nth(live, k) \in live
  <2>1. Pages \subseteq Nat /\ IsFiniteSet(Pages)
    BY <1>2, Finite
  <2>2. live \in SUBSET Nat /\ IsFiniteSet(live)
    BY <1>6, <2>1, FS_Subset, Zenon
  <2>. QED BY <1>0, <2>2, RankNth
<1>8. \A k \in Pages : k < n => Nth(live, k) \in Pages
  <2>1. \A k \in Pages : k < n => k \in 0 .. n - 1
    BY <1>2, <1>5
  <2>. QED BY <1>6, <1>7, <2>1, Zenon
\* The new tables, one lookup at a time.
<1>9. /\ cur_write_vpn'[b].blk = gc /\ cur_write_vpn'[b].pg = n /\ gc_vblock'[b] = vt
      /\ lpn_list'[b] = Compact(list, live)
      /\ vcount'[b] = GcCounts(b, vt)
      /\ \A c \in Banks \ {b} : /\ cur_write_vpn'[c] = cur_write_vpn[c]
                                /\ gc_vblock'[c] = gc_vblock[c]
                                /\ lpn_list'[c] = lpn_list[c]
                                /\ nand'[c] = nand[c]
                                /\ vcount'[c] = vcount[c]
  <2>2. \A c \in Banks \ {b} : nand'[c] = nand[c]
    BY <1>1 DEF TablesOK, CopyBack
  <2>3. /\ cur_write_vpn'[b].blk = gc /\ cur_write_vpn'[b].pg = n
    BY <1>1 DEF TablesOK, Vpn
  <2>. QED BY <1>1, <2>2, <2>3 DEF TablesOK
<1>10. /\ \A k \in Pages : nand'[b][gc][k] = IF k < n THEN nand[b][vt][Nth(live, k)] ELSE Erased
       /\ \A k \in Pages : nand'[b][vt][k] = Erased
       /\ \A w \in VBlks \ {vt, gc} : nand'[b][w] = nand[b][w]
       /\ nand'[b] \in [VBlks -> [Pages -> Content \union {Erased}]]
  <2>1. nand'[b] = [v \in VBlks |-> [p \in Pages |->
           IF v = vt THEN Erased
           ELSE IF v = gc_vblock[b] /\ p < Cardinality(live) THEN nand[b][vt][Nth(live, p)]
           ELSE nand[b][v][p]]]
    BY <1>1 DEF TablesOK, CopyBack
  <2>2. nand[b] \in [VBlks -> [Pages -> Content \union {Erased}]] /\ gc \in VBlks
    BY <1>0 DEF TablesOK
  <2>3. \A v \in VBlks : \A p \in Pages : nand'[b][v][p] =
           IF v = vt THEN Erased
           ELSE IF v = gc /\ p < n THEN nand[b][vt][Nth(live, p)]
           ELSE nand[b][v][p]
    BY <1>0, <2>1
  <2>4. \A v \in VBlks : nand'[b][v] = [p \in Pages |-> nand'[b][v][p]]
    BY <2>1
  <2>5. \A w \in VBlks \ {vt, gc} : nand'[b][w] = nand[b][w]
    BY <2>2, <2>3, <2>4
  <2>6. \A v \in VBlks : \A p \in Pages : nand'[b][v][p] \in Content \union {Erased}
    BY <1>8, <2>2, <2>3
  <2>7. nand'[b] \in [VBlks -> [Pages -> Content \union {Erased}]]
    BY <2>1, <2>4, <2>6
  <2>. QED BY <1>4, <2>2, <2>3, <2>5, <2>7
<1>11. /\ vcount'[b][vt] = VC_MAX /\ vcount'[b][gc] = vcount[b][vt]
       /\ \A w \in VBlks \ {vt, gc} : vcount'[b][w] = vcount[b][w]
  BY <1>0, <1>2, <1>4, <1>9 DEF GcCounts, TablesOK
<1>12. /\ \A k \in Pages : lpn_list'[b][k] = IF k < n THEN list[Nth(live, k)] ELSE list[k]
  BY <1>0, <1>9 DEF Compact
<1>13. /\ last_page'[b][vt] = Erased
       /\ \A w \in VBlks \ {vt} : last_page'[b][w] = log[b][w]
       /\ log[b][cur] = lpn_list[b]
       /\ \A w \in VBlks \ {cur} : log[b][w] = last_page[b][w]
       /\ \A c \in Banks \ {b} : last_page'[c] = last_page[c]
  BY <1>0, <1>1, <1>2, <1>4 DEF LogLpnList, TablesOK
<1>14. /\ \A l \in LpnsOf(b) : page_map[l].blk = vt => page_map'[l] = Vpn(gc, Rank(live, page_map[l].pg))
       /\ \A l \in LpnsOf(b) : page_map[l].blk # vt => page_map'[l] = page_map[l]
       /\ \A l \in Lpns \ LpnsOf(b) : page_map'[l] = page_map[l]
  <2>1. \A l \in Lpns : page_map'[l] = IF \E p \in live : list[p] = l
                                          THEN Vpn(gc, Rank(live, page_map[l].pg))
                                          ELSE page_map[l]
    BY <1>0, <1>1 DEF Relocate
  <2>2. \A l \in Lpns : (\E p \in live : list[p] = l) <=> l \in LpnsOf(b) /\ page_map[l].blk = vt
    <3> SUFFICES ASSUME NEW l \in Lpns
                 PROVE  (\E p \in live : list[p] = l) <=> l \in LpnsOf(b) /\ page_map[l].blk = vt
      OBVIOUS
    <3>1. ASSUME NEW p \in live, list[p] = l
          PROVE  l \in LpnsOf(b) /\ page_map[l].blk = vt
      <4>1. l \in LpnsOf(b) /\ page_map[l] = Vpn(vt, p)
        BY <1>6, <3>1, Zenon
      <4>. QED BY <4>1 DEF Vpn
    <3>. QED BY <1>6, <3>1
  <2>3. LpnsOf(b) \subseteq Lpns
    BY DEF LpnsOf
  <2>. QED BY <2>1, <2>2, <2>3
<1>15. Full(b)' = UserArea(b) \ {gc, vt}
  <2>1. lpn_list[b] # Erased
    BY DataAssumption DEF TablesOK
  <2>2. ASSUME NEW w \in UserArea(b)
        PROVE  last_page'[b][w] # Erased <=> w # gc /\ w # vt
    <3>1. w \in VBlks
      BY <1>2
    <3>2. CASE w = vt
      BY <1>13, <3>2
    <3>3. CASE w # vt /\ w = cur
      BY <1>4, <1>13, <2>1, <3>1, <3>3, Zenon
    <3>4. CASE w # vt /\ w # cur
      <4>1. last_page'[b][w] = last_page[b][w]
        BY <1>13, <3>1, <3>4, Zenon
      <4>2. w # gc => w \in Full(b)
        BY <1>4, <3>4
      <4>. QED BY <1>4, <3>4, <4>1, <4>2 DEF Full
    <3>. QED BY <3>2, <3>3, <3>4
  <2>. QED BY <2>2 DEF Full
<1>16. \A w \in UserArea(b), p \in Pages :
         Reached(b, w, p)' <=> (w # gc /\ w # vt) \/ (w = gc /\ p < n)
  <2>1. Pending(b)'
    BY <1>1 DEF Pending
  <2>. QED BY <1>9, <1>15, <2>1 DEF Reached
\* Types.
<1>17. TablesOK'
  <2>1. page_map' \in [Lpns -> [blk : VBlks, pg : Pages]]
    <3>1. \A p \in live : Vpn(gc, Rank(live, p)) \in [blk : VBlks, pg : Pages]
      BY <1>2, <1>4, <1>5, <1>7 DEF Vpn
    <3>2. \A l \in Lpns : page_map'[l] \in [blk : VBlks, pg : Pages]
      <4> SUFFICES ASSUME NEW l \in Lpns
                   PROVE  page_map'[l] \in [blk : VBlks, pg : Pages]
        OBVIOUS
      <4>1. page_map[l] \in [blk : VBlks, pg : Pages]
        BY DEF TablesOK
      <4>2. CASE l \in LpnsOf(b) /\ page_map[l].blk = vt
        BY <1>6, <1>14, <3>1, <4>2, Zenon
      <4>3. CASE ~(l \in LpnsOf(b) /\ page_map[l].blk = vt)
        BY <1>14, <4>1, <4>3, Zenon
      <4>. QED BY <4>2, <4>3
    <3>3. page_map' = [l \in Lpns |-> page_map'[l]]
      BY <1>1 DEF Relocate
    <3>. QED BY <3>2, <3>3
  <2>2. vcount' \in [Banks -> [VBlks -> 0 .. PagesPerBlk - 1 \union {VC_MAX}]]
    <3>1. GcCounts(b, vt) \in [VBlks -> 0 .. PagesPerBlk - 1 \union {VC_MAX}]
      <4>1. /\ vcount[b] \in [VBlks -> 0 .. PagesPerBlk - 1 \union {VC_MAX}]
            /\ vcount[b][vt] \in 0 .. PagesPerBlk - 1 \union {VC_MAX}
        BY DEF TablesOK
      <4>. QED BY <4>1 DEF GcCounts
    <3>. QED BY <1>1, <3>1 DEF TablesOK
  <2>3. cur_write_vpn' \in [Banks -> [blk : VBlks, pg : Pages]]
    <3>1. Vpn(gc, n) \in [blk : VBlks, pg : Pages]
      BY <1>2, <1>4, <1>5 DEF Vpn
    <3>. QED BY <1>1, <3>1 DEF TablesOK
  <2>4. gc_vblock' \in [Banks -> VBlks]
    BY <1>1 DEF TablesOK
  <2>5. lpn_list' \in [Banks -> [Pages -> Lpns]]
    <3>1. Compact(list, live) \in [Pages -> Lpns]
      <4>1. \A k \in Pages : k < n => Nth(live, k) \in Pages
        BY <1>8
      <4>. QED BY <1>0, <1>6, <4>1 DEF Compact
    <3>. QED BY <1>1, <3>1 DEF TablesOK
  <2>6. nand' \in [Banks -> [VBlks -> [Pages -> Content \union {Erased}]]]
    <3>6. nand' = [nand EXCEPT ![b] = nand'[b]]
      BY <1>1 DEF CopyBack, TablesOK
    <3>. QED BY <1>10, <3>6 DEF TablesOK
  <2>7. last_page' \in [Banks -> [VBlks -> [Pages -> Lpns] \union {Erased}]]
    <3>1. log \in [Banks -> [VBlks -> [Pages -> Lpns] \union {Erased}]]
      BY <1>0 DEF LogLpnList, TablesOK
    <3>. QED BY <1>1, <3>1
  <2>. QED BY <1>1, <2>1, <2>2, <2>3, <2>4, <2>5, <2>6, <2>7, Zenon DEF TablesOK
<1>18. ZeroOK'
  <2>1. CASE NumBanks = 1
    BY <2>1 DEF ZeroOK
  <2>2. CASE page_map[0] = Null
    <3>1. 0 \in Lpns
      BY SizeAssumption DEF Lpns
    <3>2. page_map[0].blk # vt
      BY <1>2, <1>4, <2>2 DEF Null, Vpn
    <3>. QED BY <1>14, <2>2, <3>1, <3>2 DEF ZeroOK
  <2>. QED BY <2>1, <2>2 DEF ZeroOK
<1>19. ASSUME NEW c \in Banks \ {b}
       PROVE  BankInv(c)'
  <2>1. \A l \in LpnsOf(c) : page_map'[l] = page_map[l]
    BY <1>14 DEF LpnsOf
  <2>2. SameBank(c)
    BY <1>1, <1>9, <1>13, <2>1, Zenon DEF SameBank, Pending
  <2>. QED BY <2>2, OtherBank
\* The bank that was collected.
<1>20. \A w \in UserArea(b) \ {gc, vt}, p \in Pages : Owner(b, w, p)' = Owner(b, w, p)
  <2> SUFFICES ASSUME NEW w \in UserArea(b) \ {gc, vt}, NEW p \in Pages
               PROVE  Owner(b, w, p)' = Owner(b, w, p)
    OBVIOUS
  <2>1. w \in VBlks \ {vt}
    BY <1>2
  <2>2. Owner(b, w, p)' = log[b][w][p]
    BY <1>9, <1>13, <2>1, Zenon DEF Owner
  <2>3. Owner(b, w, p) = log[b][w][p]
    BY <1>0, <1>13, <2>1, Zenon DEF Owner
  <2>. QED BY <2>2, <2>3
<1>21. MapOwnedIn(b)'
  <2> SUFFICES ASSUME NEW l \in LpnsOf(b), page_map'[l] # Null
               PROVE  /\ page_map'[l].blk \in UserArea(b) \ {vt}
                      /\ Reached(b, page_map[l].blk, page_map[l].pg)'
                      /\ nand'[b][page_map'[l].blk][page_map'[l].pg] # Erased
                      /\ Owner(b, page_map[l].blk, page_map[l].pg)' = l
    BY <1>9, Zenon DEF MapOwnedIn
  <2>0. page_map[l].pg \in Pages
    BY DEF TablesOK, LpnsOf
  <2>1. CASE page_map[l].blk = vt
    <3>0. PICK p, k : p = page_map[l].pg /\ k = Rank(live, p)
      OBVIOUS
    <3>1. p \in live /\ list[p] = l /\ k \in 0 .. n - 1 /\ Nth(live, k) = p
      BY <1>6, <1>7, <2>1, <3>0
    <3>2. page_map'[l] = Vpn(gc, k)
      BY <1>14, <2>1, <3>0
    <3>3. k \in Pages /\ k < n
      BY <1>2, <1>5, <3>1
    <3>4. nand[b][vt][p] # Erased
      <4>1. page_map[l] # Null
        BY <1>2, <1>4, <2>1 DEF Null, Vpn
      <4>. QED BY <2>1, <3>0, <4>1 DEF BankInv, MapOwnedIn
    <3>5. page_map'[l].blk = gc /\ page_map'[l].pg = k
      BY <3>2 DEF Vpn
    <3>6. nand'[b][gc][k] # Erased
      BY <1>10, <3>1, <3>3, <3>4
    <3>7. Owner(b, gc, k)' = l
      <4>1. Owner(b, gc, k)' = lpn_list'[b][k]
        BY <1>9, Zenon DEF Owner
      <4>. QED BY <1>12, <3>1, <3>3, <4>1
    <3>8. Reached(b, gc, k)'
      BY <1>4, <1>16, <3>3, Zenon
    <3>. QED BY <1>4, <3>5, <3>6, <3>7, <3>8, Zenon
  <2>2. CASE page_map[l].blk # vt
    <3>1. page_map'[l] = page_map[l] /\ page_map[l] # Null
      BY <1>14, <2>2
    <3>2. /\ page_map[l].blk \in UserArea(b) \ {gc, vt}
          /\ nand[b][page_map[l].blk][page_map[l].pg] # Erased
          /\ Owner(b, page_map[l].blk, page_map[l].pg) = l
      BY <1>0, <2>2, <3>1 DEF BankInv, MapOwnedIn
    <3>3. nand'[b][page_map[l].blk] = nand[b][page_map[l].blk]
      BY <1>2, <1>10, <3>2
    <3>4. Reached(b, page_map[l].blk, page_map[l].pg)'
      BY <1>16, <2>0, <3>1, <3>2, Zenon
    <3>5. Owner(b, page_map[l].blk, page_map[l].pg)' = l
      BY <1>20, <2>0, <3>1, <3>2, Zenon
    <3>. QED BY <3>1, <3>2, <3>3, <3>4, <3>5
  <2>. QED BY <2>1, <2>2
<1>22. VcountIn(b)'
  <2> SUFFICES ASSUME NEW v \in UserArea(b) \ {vt}
               PROVE  vcount'[b][v] = Cardinality(OwnersOf(b, v, page_map'))
    BY <1>9 DEF VcountIn
  <2>1. \A l \in LpnsOf(b) : page_map[l].blk # gc
    <3> SUFFICES ASSUME NEW l \in LpnsOf(b), page_map[l].blk = gc
                 PROVE  FALSE
      OBVIOUS
    <3>1. page_map[l] # Null
      BY <1>2, <1>4 DEF Null, Vpn
    <3>. QED BY <1>0, <3>1 DEF BankInv, MapOwnedIn
  <2>2. CASE v = gc
    <3>1. OwnersOf(b, gc, page_map') = OwnersOf(b, vt, page_map)
      <4>1. \A l \in LpnsOf(b) : page_map'[l].blk = gc <=> page_map[l].blk = vt
        <5> TAKE l \in LpnsOf(b)
        <5>1. CASE page_map[l].blk = vt
          <6>1. page_map'[l] = Vpn(gc, Rank(live, page_map[l].pg))
            BY <1>14, <5>1, Zenon
          <6>2. page_map'[l].blk = gc
            BY <6>1 DEF Vpn
          <6>. QED BY <5>1, <6>2
        <5>2. CASE page_map[l].blk # vt
          BY <1>14, <2>1, <5>2, Zenon
        <5>. QED BY <5>1, <5>2
      <4>. QED BY <4>1 DEF OwnersOf
    <3>2. vcount[b][vt] = Cardinality(OwnersOf(b, vt, page_map))
      BY <1>0, <1>4 DEF BankInv, VcountIn
    <3>. QED BY <1>11, <2>2, <3>1, <3>2
  <2>3. CASE v # gc
    <3>1. OwnersOf(b, v, page_map') = OwnersOf(b, v, page_map)
      <4>1. \A l \in LpnsOf(b) : page_map'[l].blk = v <=> page_map[l].blk = v
        <5> TAKE l \in LpnsOf(b)
        <5>1. CASE page_map[l].blk = vt
          <6>1. page_map'[l] = Vpn(gc, Rank(live, page_map[l].pg))
            BY <1>14, <5>1, Zenon
          <6>2. page_map'[l].blk = gc
            BY <6>1 DEF Vpn
          <6>. QED BY <2>3, <5>1, <6>2
        <5>2. CASE page_map[l].blk # vt
          BY <1>14, <5>2, Zenon
        <5>. QED BY <5>1, <5>2
      <4>. QED BY <4>1 DEF OwnersOf
    <3>2. vcount[b][v] = Cardinality(OwnersOf(b, v, page_map))
      BY <1>0, <2>3 DEF BankInv, VcountIn
    <3>. QED BY <1>2, <1>11, <2>3, <3>1, <3>2
  <2>. QED BY <2>2, <2>3
<1>23. ReserveIn(b)'
  <2>1. \A v \in VBlks : vcount'[b][v] = VC_MAX <=> v \notin UserArea(b) \/ v = vt
    <3>1. \A v \in VBlks : vcount[b][v] = VC_MAX <=> v \notin UserArea(b) \/ v = gc
      BY <1>0 DEF BankInv, ReserveIn
    <3>2. vcount[b][vt] # VC_MAX
      BY <1>4, <3>1
    <3>. QED BY <1>4, <1>11, <3>1, <3>2
  <2>. QED BY <1>4, <1>9, <1>10, <1>13, <2>1 DEF ReserveIn
<1>24. UserArea(b) \ Full(b)' = {gc, vt}
  BY <1>4, <1>15
<1>25. FreeIn(b)'
  <2>1. Cardinality({gc, vt}) = 2
    BY <1>4, PairCard
  <2>2. free_blk_cnt[b] = 2
    <3>1. free_blk_cnt[b] \in 2 .. VBlksPerBank /\ VBlksPerBank \in Nat
      BY SizeAssumption DEF TablesOK
    <3>. QED BY <1>1, <3>1 DEF is_full_all_blks
  <2>3. free_blk_cnt'[b] = Cardinality(UserArea(b) \ Full(b)')
    BY <1>1, <1>24, <2>1, <2>2, Zenon
  <2>4. ~(free_blk_cnt'[b] > 2)
    BY <1>1, <2>2
  <2>. QED BY <2>3, <2>4, Zenon DEF FreeIn
<1>26. FrontIn(b)'
  <2>1. Ahead(b)' = {}
    BY <1>9, <1>15 DEF Ahead
  <2>2. ASSUME NEW w \in UserArea(b), NEW p \in Pages, nand'[b][w][p] # Erased
        PROVE  w # vt /\ Reached(b, w, p)'
    <3>1. w # vt /\ (w = gc => p < n)
      BY <1>10, <2>2
    <3>. QED BY <1>16, <3>1, Zenon
  <2>3. gc \in UserArea(b) \ Full(b)'
    BY <1>4, <1>15
  <2>. QED BY <1>9, <2>1, <2>2, <2>3, Zenon DEF FrontIn
<1>27. OwnersIn(b)'
  <2>1. ASSUME NEW k \in Pages
        PROVE  HereIn(b, lpn_list'[b][k])
    BY <1>6, <1>12, <1>8
  <2>2. ASSUME NEW k \in Pages, NEW w \in Full(b)'
        PROVE  HereIn(b, last_page'[b][w][k])
    <3>1. w \in UserArea(b) \ {gc, vt} /\ w \in VBlks
      BY <1>2, <1>15
    <3>2. last_page'[b][w] = log[b][w]
      BY <1>13, <3>1
    <3>3. CASE w = cur
      BY <1>13, <3>2, <3>3 DEF BankInv, OwnersIn
    <3>4. CASE w # cur
      <4>1. w \in Full(b) /\ last_page'[b][w] = last_page[b][w]
        BY <1>4, <1>13, <3>1, <3>2, <3>4
      <4>. QED BY <4>1 DEF BankInv, OwnersIn
    <3>. QED BY <3>3, <3>4
  <2>. QED BY <2>1, <2>2 DEF OwnersIn, HereIn
<1>28. BankInv(b)'
  BY <1>21, <1>22, <1>23, <1>25, <1>26, <1>27 DEF BankInv
<1>. QED BY <1>17, <1>18, <1>19, <1>28, Zenon

(***************************************************************************)
(* The end of write_page: the page that was handed out is programmed and   *)
(* becomes the page of its owner, whose old page loses a count.            *)
(***************************************************************************)
\* The page that waits for its data is erased, and no logical page maps to it.
LEMMA PendingPage ==
  ASSUME NEW b \in Banks, TablesOK, BankInv(b), Pending(b)
  PROVE  /\ \A p \in Pages : p >= cur_write_vpn[b].pg =>
              nand[b][cur_write_vpn[b].blk][p] = Erased
         /\ \A l \in LpnsOf(b) : page_map[l] # cur_write_vpn[b]
         /\ last_page[b][cur_write_vpn[b].blk] = Erased
<1>1. /\ cur_write_vpn[b].blk \in UserArea(b) \ Full(b)
      /\ cur_write_vpn[b].blk # 0
      /\ \A w \in UserArea(b), p \in Pages :
           nand[b][w][p] # Erased => w # gc_vblock[b] /\ Reached(b, w, p)
  BY Layout DEF BankInv, FrontIn
<1>2. cur_write_vpn[b].pg \in Nat /\ Pages \subseteq Nat
  BY DEF TablesOK, Pages
<1>3. \A p \in Pages : p >= cur_write_vpn[b].pg => ~Reached(b, cur_write_vpn[b].blk, p)
  BY <1>1, <1>2 DEF Reached
<1>4. ASSUME NEW l \in LpnsOf(b), page_map[l] = cur_write_vpn[b]
      PROVE  FALSE
  <2>1. page_map[l] # Null
    BY <1>1, <1>4 DEF Null, Vpn
  <2>2. Reached(b, cur_write_vpn[b].blk, cur_write_vpn[b].pg)
    BY <1>4, <2>1, Zenon DEF BankInv, MapOwnedIn
  <2>3. cur_write_vpn[b].pg \in Pages
    BY DEF TablesOK
  <2>. QED BY <1>2, <1>3, <2>2, <2>3
<1>. QED BY <1>1, <1>3, <1>4 DEF Full

\* Programming the page that was handed out keeps the invariant of every bank.
LEMMA ProgramStep ==
  ASSUME TablesOK, CmdOK, \A c \in Banks : BankInv(c), ZeroOK, NoPhantom,
         NEW enc \in SUBSET Sectors, NEW lost \in SUBSET Sectors, ProgramPage(enc, lost)
  PROVE  TablesOK' /\ (\A c \in Banks : BankInv(c)') /\ ZeroOK'
<1>0. PICK l, b, v, q, o, gc :
        /\ l = cmd.lpn /\ b = get_num_bank(l) /\ v = cur_write_vpn[b].blk /\ q = cur_write_vpn[b].pg
        /\ o = page_map[l] /\ gc = gc_vblock[b]
  OBVIOUS
<1>1. /\ l \in LpnsOf(b) /\ l \in Lpns /\ b \in Banks
      /\ pc = "program" /\ Pending(b) /\ l \in HostLpns
  <2>1. pc = "program" /\ cmd \in Cmds /\ cmd.remain > 0 /\ Fits(cmd, HostLpns)
    BY DEF ProgramPage, CmdOK, Cmds
  <2>2. cmd.remain \in Nat /\ cmd.offset \in Nat /\ cmd.lpn \in Int /\ cmd.lpn \in Lpns
    BY <2>1, SizeAssumption DEF Cmds, Sectors, Lpns
  <2>3. cmd.lpn \in HostLpns
    BY <2>1, <2>2, FirstPage
  <2>. QED BY <1>0, <2>1, <2>2, <2>3, BankOf DEF LpnsOf, Pending
<1>2. BankInv(b) /\ cur_write_vpn[b] = Vpn(v, q) /\ v \in VBlks /\ q \in Pages
  BY <1>0, <1>1 DEF TablesOK, Vpn
<1>3. /\ v \in UserArea(b) /\ v \notin Full(b) /\ v # gc /\ gc \in UserArea(b)
      /\ UserArea(b) \subseteq VBlks \ {0}
  BY <1>0, <1>2, <1>1, Layout DEF BankInv, FrontIn, ReserveIn
<1>4. /\ \A p \in Pages : p >= q => nand[b][v][p] = Erased
      /\ \A k \in LpnsOf(b) : page_map[k] # Vpn(v, q)
      /\ last_page[b][v] = Erased
  BY <1>0, <1>1, <1>2, PendingPage
<1>5. /\ nand' = [nand EXCEPT ![b][v][q] = NewContent(l, enc, lost)]
      /\ lpn_list' = [lpn_list EXCEPT ![b][q] = l]
      /\ page_map' = [page_map EXCEPT ![l] = Vpn(v, q)]
      /\ vcount' = [vcount EXCEPT ![b] = Recount(b, o, Vpn(v, q))]
      /\ cur_write_vpn' = cur_write_vpn /\ gc_vblock' = gc_vblock
      /\ free_blk_cnt' = free_blk_cnt /\ last_page' = last_page
  <2>1. cur_write_vpn[b].blk = v /\ cur_write_vpn[b].pg = q
    BY <1>0
  <2>. QED BY <1>0, <1>2, <2>1, Zenon DEF ProgramPage
<1>6. pc' # "program"
  BY DEF ProgramPage, Advance
<1>7. NewContent(l, enc, lost) \in Content
  <2>1. cmd.datum \in Data
    BY <1>1 DEF CmdOK
  <2>2. Enc[cmd.datum] \in Data
    BY <2>1, DataAssumption
  <2>3. ASSUME NEW s \in Sectors, s \notin Covered(cmd)
        PROVE  PageContent(l)[s] \in Data \union {Blank, Garbled}
    <3>1. CASE page_map[l] = Null
      BY <3>1 DEF PageContent, AllFF
    <3>2. CASE page_map[l] # Null
      <4>1. PageContent(l) = nand[b][page_map[l].blk][page_map[l].pg]
        BY <1>0, <3>2, Zenon DEF PageContent
      <4>2. nand[b][page_map[l].blk][page_map[l].pg] # Erased
        BY <1>1, <1>2, <3>2, Zenon DEF BankInv, MapOwnedIn
      <4>3. nand[b][page_map[l].blk][page_map[l].pg] \in Content \union {Erased}
        BY <1>1 DEF TablesOK
      <4>. QED BY <4>1, <4>2, <4>3 DEF Content
    <3>. QED BY <3>1, <3>2
  <2>. QED BY <2>1, <2>2, <2>3 DEF NewContent, Received, Content
<1>8. NewContent(l, enc, lost) # Erased
  BY <1>7, DataAssumption DEF Content
\* The new tables, one lookup at a time.
<1>9. /\ \A w \in VBlks, p \in Pages : nand'[b][w][p] =
            IF w = v /\ p = q THEN NewContent(l, enc, lost) ELSE nand[b][w][p]
      /\ \A p \in Pages : lpn_list'[b][p] = IF p = q THEN l ELSE lpn_list[b][p]
      /\ \A c \in Banks \ {b} : /\ nand'[c] = nand[c] /\ lpn_list'[c] = lpn_list[c]
                                /\ vcount'[c] = vcount[c]
      /\ page_map'[l] = Vpn(v, q)
      /\ \A k \in Lpns \ {l} : page_map'[k] = page_map[k]
      /\ vcount'[b] = Recount(b, o, Vpn(v, q))
  BY <1>1, <1>2, <1>5 DEF TablesOK
<1>10. ASSUME NEW w \in UserArea(b) \ {gc}
       PROVE  /\ IsFiniteSet(OwnersOf(b, w, page_map))
              /\ vcount[b][w] = Cardinality(OwnersOf(b, w, page_map))
              /\ vcount[b][w] \in 0 .. PagesPerBlk - 1
              /\ w = v => vcount[b][w] < PagesPerBlk - 1
  <2>1. /\ IsFiniteSet(OwnersOf(b, w, page_map))
        /\ vcount[b][w] = Cardinality(OwnersOf(b, w, page_map))
        /\ vcount[b][w] \in 0 .. PagesPerBlk - 1
        /\ vcount[b][w] = PagesPerBlk - 1 =>
             \A p \in Pages : \E k \in LpnsOf(b) : page_map[k] = Vpn(w, p)
    BY <1>0, <1>1, <1>2, CountBound
  <2>2. w = v => vcount[b][w] # PagesPerBlk - 1
    BY <1>2, <1>4, <2>1, Zenon
  <2>3. PagesPerBlk \in Nat
    BY SizeAssumption
  <2>. QED BY <2>1, <2>2, <2>3
<1>11. o # Null => o.blk \in UserArea(b) \ {gc}
  BY <1>0, <1>1, <1>2, Zenon DEF BankInv, MapOwnedIn
<1>12. /\ o \in [blk : VBlks, pg : Pages]
       /\ vcount[b] \in [VBlks -> 0 .. PagesPerBlk - 1 \union {VC_MAX}]
  BY <1>0, <1>1 DEF TablesOK
\* How the counts and the owners change together.
<1>13. ASSUME NEW w \in VBlks
       PROVE  Recount(b, o, Vpn(v, q))[w] =
                (IF o # Null /\ w = o.blk THEN vcount[b][w] - 1 ELSE vcount[b][w])
                  + (IF w = v THEN 1 ELSE 0)
  <2>1. \A u \in UserArea(b) \ {gc} : vcount[b][u] \in Nat
    BY <1>10
  <2>2. vcount[b][v] \in Nat /\ (o # Null => vcount[b][o.blk] \in Nat)
    BY <1>3, <1>11, <2>1
  <2>3. vcount[b][w] \in Nat
    BY <1>12, SizeAssumption DEF VC_MAX
  <2>4. Vpn(v, q).blk = v
    BY DEF Vpn
  <2>5. CASE o = Null
    BY <1>2, <1>12, <2>2, <2>3, <2>4, <2>5 DEF Recount
  <2>6. CASE o # Null
    BY <1>2, <1>12, <2>2, <2>3, <2>4, <2>6 DEF Recount
  <2>. QED BY <2>5, <2>6
<1>14. ASSUME NEW w \in UserArea(b) \ {gc}
       PROVE  /\ vcount'[b][w] = Cardinality(OwnersOf(b, w, page_map'))
              /\ vcount'[b][w] \in 0 .. PagesPerBlk - 1
  <2>1. /\ IsFiniteSet(OwnersOf(b, w, page_map))
        /\ vcount[b][w] = Cardinality(OwnersOf(b, w, page_map))
        /\ vcount[b][w] \in 0 .. PagesPerBlk - 1
        /\ w = v => vcount[b][w] < PagesPerBlk - 1
    BY <1>10
  <2>2. w \in VBlks /\ w # 0 /\ PagesPerBlk \in Nat
    BY <1>3, SizeAssumption
  <2>3. o # Null /\ w = o.blk <=> l \in OwnersOf(b, w, page_map)
    BY <1>0, <1>1, <2>2 DEF OwnersOf, Null, Vpn
  <2>4. OwnersOf(b, w, page_map') =
          IF w = v THEN OwnersOf(b, w, page_map) \union {l} ELSE OwnersOf(b, w, page_map) \ {l}
    <3>1. \A k \in LpnsOf(b) : page_map'[k].blk = w <=> IF k = l THEN w = v ELSE page_map[k].blk = w
      <4> TAKE k \in LpnsOf(b)
      <4>1. CASE k = l
        <5>1. page_map'[k].blk = v
          BY <1>9, <4>1 DEF Vpn
        <5>. QED BY <4>1, <5>1
      <4>2. CASE k # l
        <5>1. page_map'[k] = page_map[k]
          BY <1>9, <4>2 DEF LpnsOf
        <5>. QED BY <4>2, <5>1
      <4>. QED BY <4>1, <4>2
    <3>. QED BY <1>1, <3>1 DEF OwnersOf
  <2>5. vcount'[b][w] = (IF l \in OwnersOf(b, w, page_map) THEN vcount[b][w] - 1 ELSE vcount[b][w])
                          + (IF w = v THEN 1 ELSE 0)
    BY <1>9, <1>13, <2>2, <2>3, Zenon
  <2>6. CASE w = v
    <3>1. Cardinality(OwnersOf(b, w, page_map) \union {l}) =
            IF l \in OwnersOf(b, w, page_map) THEN Cardinality(OwnersOf(b, w, page_map))
            ELSE Cardinality(OwnersOf(b, w, page_map)) + 1
      BY <2>1, FS_AddElement
    <3>. QED BY <2>1, <2>2, <2>4, <2>5, <2>6, <3>1
  <2>7. CASE w # v
    <3>1. /\ IsFiniteSet(OwnersOf(b, w, page_map) \ {l})
          /\ Cardinality(OwnersOf(b, w, page_map) \ {l}) =
               IF l \in OwnersOf(b, w, page_map) THEN Cardinality(OwnersOf(b, w, page_map)) - 1
               ELSE Cardinality(OwnersOf(b, w, page_map))
      BY <2>1, FS_RemoveElement
    <3>2. Cardinality(OwnersOf(b, w, page_map) \ {l}) \in Nat
      BY <3>1, FS_CardinalityType
    <3>. QED BY <2>1, <2>2, <2>4, <2>5, <2>7, <3>1, <3>2
  <2>. QED BY <2>6, <2>7
<1>15. \A w \in VBlks \ (UserArea(b) \ {gc}) : vcount'[b][w] = vcount[b][w]
  <2> SUFFICES ASSUME NEW w \in VBlks \ (UserArea(b) \ {gc})
               PROVE  vcount'[b][w] = vcount[b][w]
    OBVIOUS
  <2>1. w # v /\ ~(o # Null /\ w = o.blk)
    BY <1>3, <1>11
  <2>2. vcount[b][w] \in Int
    BY <1>12, SizeAssumption DEF VC_MAX
  <2>. QED BY <1>9, <1>13, <2>1, <2>2
\* Types.
<1>16. TablesOK'
  <2>1. page_map' \in [Lpns -> [blk : VBlks, pg : Pages]]
    <3>1. Vpn(v, q) \in [blk : VBlks, pg : Pages]
      BY <1>2 DEF Vpn
    <3>. QED BY <1>5, <3>1 DEF TablesOK
  <2>2. vcount' \in [Banks -> [VBlks -> 0 .. PagesPerBlk - 1 \union {VC_MAX}]]
    <3>1. \A w \in VBlks : vcount'[b][w] \in 0 .. PagesPerBlk - 1 \union {VC_MAX}
      BY <1>12, <1>14, <1>15
    <3>2. vcount'[b] = [w \in VBlks |-> vcount'[b][w]]
      BY <1>9, <1>12 DEF Recount
    <3>3. vcount'[b] \in [VBlks -> 0 .. PagesPerBlk - 1 \union {VC_MAX}]
      BY <3>1, <3>2
    <3>4. vcount' = [vcount EXCEPT ![b] = vcount'[b]]
      BY <1>1, <1>5 DEF TablesOK
    <3>. QED BY <3>3, <3>4 DEF TablesOK
  <2>3. lpn_list' \in [Banks -> [Pages -> Lpns]]
    BY <1>1, <1>5 DEF TablesOK
  <2>4. nand' \in [Banks -> [VBlks -> [Pages -> Content \union {Erased}]]]
    <3>1. nand[b] \in [VBlks -> [Pages -> Content \union {Erased}]]
      BY <1>1 DEF TablesOK
    <3>2. [nand[b][v] EXCEPT ![q] = NewContent(l, enc, lost)] \in [Pages -> Content \union {Erased}]
      BY <1>2, <1>7, <3>1
    <3>3. [nand[b] EXCEPT ![v] = [nand[b][v] EXCEPT ![q] = NewContent(l, enc, lost)]]
             \in [VBlks -> [Pages -> Content \union {Erased}]]
      BY <3>1, <3>2
    <3>4. nand' = [nand EXCEPT ![b] = [nand[b] EXCEPT ![v] = [nand[b][v] EXCEPT ![q] = NewContent(l, enc, lost)]]]
      BY <1>5
    <3>. QED BY <3>3, <3>4 DEF TablesOK
  <2>. QED BY <1>5, <2>1, <2>2, <2>3, <2>4, Zenon DEF TablesOK
<1>17. ZeroOK'
  <2>1. CASE NumBanks = 1
    BY <2>1 DEF ZeroOK
  <2>2. CASE NumBanks # 1
    <3>1. l # 0
      BY <1>1, <2>2 DEF NoPhantom
    <3>2. 0 \in Lpns \ {l}
      BY <3>1, SizeAssumption DEF Lpns
    <3>. QED BY <1>9, <2>2, <3>2 DEF ZeroOK
  <2>. QED BY <2>1, <2>2
<1>18. ASSUME NEW c \in Banks \ {b}
       PROVE  BankInv(c)'
  <2>1. \A k \in LpnsOf(c) : k \in Lpns \ {l}
    BY <1>1, <1>0 DEF LpnsOf
  <2>2. \A k \in LpnsOf(c) : page_map'[k] = page_map[k]
    BY <1>9, <2>1
  <2>3. ~Pending(c) /\ ~Pending(c)'
    BY <1>0, <1>6 DEF Pending
  <2>4. SameBank(c)
    BY <1>5, <1>9, <2>2, <2>3, Zenon DEF SameBank
  <2>. QED BY <2>4, OtherBank
\* The bank of the page.
<1>19. Full(b)' = Full(b) /\ Ahead(b)' = Ahead(b)
  BY <1>5, Zenon DEF Full, Ahead
<1>20. \A w \in UserArea(b), p \in Pages : Reached(b, w, p)' <=> Reached(b, w, p) \/ (w = v /\ p = q)
  <2>1. ~Pending(b)'
    BY <1>6 DEF Pending
  <2>2. cur_write_vpn'[b].blk = v /\ cur_write_vpn'[b].pg = q
    BY <1>0, <1>5
  <2>3. \A w \in UserArea(b), p \in Pages :
          Reached(b, w, p)' <=> w \in Full(b) \/ (w = v /\ p < q) \/ (w = v /\ p = q)
    BY <1>19, <2>1, <2>2, Zenon DEF Reached
  <2>4. \A w \in UserArea(b), p \in Pages :
          Reached(b, w, p) <=> w \in Full(b) \/ (w = v /\ p < q)
    BY <1>0, <1>1, Zenon DEF Reached
  <2>. QED BY <2>3, <2>4, Zenon
<1>21. ~Reached(b, v, q)
  <2>1. ~(q < q)
    BY <1>2 DEF Pages
  <2>. QED BY <1>0, <1>1, <1>3, <2>1 DEF Reached
<1>22. \A w \in UserArea(b), p \in Pages : ~(w = v /\ p = q) => Owner(b, w, p)' = Owner(b, w, p)
  <2> SUFFICES ASSUME NEW w \in UserArea(b), NEW p \in Pages, ~(w = v /\ p = q)
               PROVE  Owner(b, w, p)' = Owner(b, w, p)
    OBVIOUS
  <2>1. CASE w = v
    <3>1. Owner(b, w, p)' = lpn_list'[b][p] /\ Owner(b, w, p) = lpn_list[b][p]
      BY <1>0, <1>5, <2>1, Zenon DEF Owner
    <3>. QED BY <1>9, <2>1, <3>1
  <2>2. CASE w # v
    BY <1>0, <1>5, <2>2, Zenon DEF Owner
  <2>. QED BY <2>1, <2>2
<1>23. Owner(b, v, q)' = l
  <2>1. Owner(b, v, q)' = lpn_list'[b][q]
    BY <1>0, <1>5, Zenon DEF Owner
  <2>. QED BY <1>2, <1>9, <2>1
<1>24. MapOwnedIn(b)'
  <2> SUFFICES ASSUME NEW k \in LpnsOf(b), page_map'[k] # Null
               PROVE  /\ page_map'[k].blk \in UserArea(b) \ {gc}
                      /\ Reached(b, page_map[k].blk, page_map[k].pg)'
                      /\ nand'[b][page_map'[k].blk][page_map'[k].pg] # Erased
                      /\ Owner(b, page_map[k].blk, page_map[k].pg)' = k
    BY <1>0, <1>5, Zenon DEF MapOwnedIn
  <2>1. CASE k = l
    <3>1. page_map'[k].blk = v /\ page_map'[k].pg = q
      BY <1>9, <2>1 DEF Vpn
    <3>2. Reached(b, v, q)'
      BY <1>2, <1>3, <1>20, Zenon
    <3>3. nand'[b][v][q] # Erased
      BY <1>2, <1>8, <1>9
    <3>. QED BY <1>3, <1>23, <2>1, <3>1, <3>2, <3>3, Zenon
  <2>2. CASE k # l
    <3>1. page_map'[k] = page_map[k] /\ page_map[k] \in [blk : VBlks, pg : Pages]
      BY <1>9, <2>2 DEF LpnsOf, TablesOK
    <3>2. /\ page_map[k].blk \in UserArea(b) \ {gc}
          /\ Reached(b, page_map[k].blk, page_map[k].pg)
          /\ nand[b][page_map[k].blk][page_map[k].pg] # Erased
          /\ Owner(b, page_map[k].blk, page_map[k].pg) = k
      BY <1>0, <1>2, <3>1, Zenon DEF BankInv, MapOwnedIn
    <3>3. page_map[k].pg \in Pages /\ page_map[k].blk \in UserArea(b) /\ page_map[k].blk \in VBlks
      BY <3>1, <3>2
    <3>4. ~(page_map[k].blk = v /\ page_map[k].pg = q)
      BY <1>21, <3>2, Zenon
    <3>5. Reached(b, page_map[k].blk, page_map[k].pg)'
      BY <1>20, <3>1, <3>2, <3>3, Zenon
    <3>6. Owner(b, page_map[k].blk, page_map[k].pg)' = k
      BY <1>22, <3>1, <3>2, <3>3, <3>4, Zenon
    <3>7. nand'[b][page_map[k].blk][page_map[k].pg] # Erased
      BY <1>9, <3>2, <3>3, <3>4, Zenon
    <3>. QED BY <3>1, <3>2, <3>5, <3>6, <3>7, Zenon
  <2>. QED BY <2>1, <2>2
<1>25. VcountIn(b)'
  BY <1>0, <1>5, <1>14, Zenon DEF VcountIn
<1>26. ReserveIn(b)'
  <2>1. \A w \in VBlks : vcount'[b][w] = VC_MAX <=> w \notin UserArea(b) \/ w = gc
    <3>1. \A w \in VBlks : vcount[b][w] = VC_MAX <=> w \notin UserArea(b) \/ w = gc
      BY <1>0, <1>2 DEF BankInv, ReserveIn
    <3>2. \A w \in UserArea(b) \ {gc} : vcount'[b][w] # VC_MAX
      BY <1>14, SizeAssumption DEF VC_MAX
    <3>. QED BY <1>15, <3>1, <3>2
  <2>2. \A p \in Pages : nand'[b][gc][p] = Erased
    <3>1. \A p \in Pages : nand[b][gc][p] = Erased
      BY <1>0, <1>2 DEF BankInv, ReserveIn
    <3>. QED BY <1>3, <1>9, <3>1
  <2>3. gc \in UserArea(b) \ {cur_write_vpn[b].blk} /\ last_page[b][gc] = Erased
    BY <1>0, <1>2 DEF BankInv, ReserveIn
  <2>. QED BY <1>0, <1>5, <2>1, <2>2, <2>3, Zenon DEF ReserveIn
<1>27. FreeIn(b)'
  <2>1. free_blk_cnt[b] > 2 => Ahead(b) # {} /\ NextBlocks(b) = Ahead(b)
    <3>1. free_blk_cnt[b] > 2 => ~is_full_all_blks(b)
      <4>1. free_blk_cnt[b] \in 2 .. VBlksPerBank /\ VBlksPerBank \in Nat
        BY <1>1, SizeAssumption DEF TablesOK
      <4>. QED BY <4>1 DEF is_full_all_blks
    <3>. QED BY <1>1, <1>2, <3>1, FrontAhead
  <2>2. ASSUME free_blk_cnt[b] > 2
        PROVE  NextBlocks(b)' # {}
    <3>1. PICK w : w \in Ahead(b) /\ w \in NextBlocks(b)
      BY <2>1, <2>2
    <3>2. w \in VBlks /\ w \in UserArea(b) \ {gc} /\ w > v
      BY <1>0, <1>3, <3>1 DEF Ahead, NextBlocks
    <3>3. vcount'[b][w] # VC_MAX
      BY <1>14, <3>2, SizeAssumption DEF VC_MAX
    <3>4. w \in NextBlocks(b)'
      BY <1>0, <1>5, <3>2, <3>3 DEF NextBlocks
    <3>. QED BY <3>4
  <2>. QED BY <1>2, <1>5, <1>19, <2>2, Zenon DEF BankInv, FreeIn
<1>28. FrontIn(b)'
  <2>1. ASSUME NEW w \in UserArea(b), NEW p \in Pages, nand'[b][w][p] # Erased
        PROVE  w # gc /\ Reached(b, w, p)'
    <3>1. w \in VBlks
      BY <1>3
    <3>2. CASE w = v /\ p = q
      BY <1>3, <1>20, <3>2, Zenon
    <3>3. CASE ~(w = v /\ p = q)
      <4>1. nand[b][w][p] # Erased
        BY <1>9, <2>1, <3>1, <3>3, Zenon
      <4>. QED BY <1>0, <1>2, <1>20, <4>1, Zenon DEF BankInv, FrontIn
    <3>. QED BY <3>2, <3>3
  <2>. QED BY <1>0, <1>2, <1>5, <1>19, <2>1, Zenon DEF BankInv, FrontIn
<1>29. OwnersIn(b)'
  <2>1. HereIn(b, l)
    BY <1>0, <1>1 DEF HereIn
  <2>2. \A p \in Pages : HereIn(b, lpn_list[b][p])
    BY <1>2, Zenon DEF BankInv, OwnersIn
  <2>3. \A p \in Pages : HereIn(b, lpn_list'[b][p])
    BY <1>9, <2>1, <2>2
  <2>. QED BY <1>2, <1>5, <1>19, <2>3, Zenon DEF BankInv, OwnersIn, HereIn
<1>30. BankInv(b)'
  BY <1>24, <1>25, <1>26, <1>27, <1>28, <1>29 DEF BankInv
<1>. QED BY <1>16, <1>17, <1>18, <1>30, Zenon

-----------------------------------------------------------------------------
(***************************************************************************)
(* The formatted state, and the invariance of IInv.                        *)
(***************************************************************************)
\* The formatted state satisfies the invariant.
LEMMA InitInv ==
  ASSUME Init
  PROVE  IInv
<1>1. CmdOK
  BY NoCmdIn DEF Init, CmdOK, Cmds
<1>2. ZeroOK
  BY SizeAssumption DEF Init, ZeroOK, Lpns
<1>3. ASSUME NEW b \in Banks
      PROVE  BankInv(b) /\ free_blk_cnt[b] \in 2 .. VBlksPerBank
  <2> DEFINE g == FirstGc(b)
             f == FirstBlock(b)
             U == UserArea(b)
  <2>1. /\ U \subseteq VBlks \ {0} /\ VBlks \subseteq Nat
        /\ g \in U /\ f \in U /\ f # g
        /\ \A w \in U \ {g} : f <= w
    BY Layout DEF VBlks
  <2>2. /\ gc_vblock[b] = g /\ cur_write_vpn[b].blk = f /\ cur_write_vpn[b].pg = 0
        /\ free_blk_cnt[b] = Cardinality(U)
        /\ lpn_list[b] = NoLpns
        /\ \A w \in VBlks : last_page[b][w] = Erased
        /\ \A w \in VBlks, p \in Pages : nand[b][w][p] = Erased
        /\ \A w \in VBlks : vcount[b][w] = IF w \in U \ {g} THEN 0 ELSE VC_MAX
        /\ \A l \in LpnsOf(b) : page_map[l] = Null
    BY UserAreaCount DEF Init, Vpn, LpnsOf
  <2> HIDE DEF g, f, U
  <2>3. Full(b) = {} /\ Ahead(b) = U \ {f, g}
    BY <2>1, <2>2 DEF Full, Ahead, U
  <2>4. Ahead(b) = {w \in U \ {g} : w > f}
    <3>1. \A w \in U \ {g} : w # f <=> w > f
      BY <2>1
    <3>. QED BY <2>3, <3>1
  <2>5. IsFiniteSet(U) /\ Cardinality(U) \in Nat
    BY Finite, FS_CardinalityType DEF U
  <2>6. Cardinality(U) \in 2 .. VBlksPerBank
    <3>1. Cardinality(U) <= VBlksPerBank
      <4>1. U \in SUBSET VBlks
        BY <2>1
      <4>2. Cardinality(U) <= Cardinality(VBlks)
        BY <4>1, Finite, FS_Subset
      <4>. QED BY <4>2, Finite
    <3>2. {f, g} \in SUBSET U /\ Cardinality({f, g}) = 2
      BY <2>1, PairCard
    <3>3. 2 <= Cardinality(U)
      BY <2>5, <3>2, FS_Subset
    <3>. QED BY <2>5, <3>1, <3>3, SizeAssumption
  <2>7. MapOwnedIn(b)
    BY <2>2 DEF MapOwnedIn
  <2>8. VcountIn(b)
    <3>1. ASSUME NEW v \in U \ {g}
          PROVE  vcount[b][v] = Cardinality(OwnersOf(b, v, page_map))
      <4>1. OwnersOf(b, v, page_map) = {}
        BY <2>1, <2>2 DEF OwnersOf, Null, Vpn
      <4>2. vcount[b][v] = 0
        BY <2>1, <2>2
      <4>. QED BY <4>1, <4>2, FS_EmptySet
    <3>. QED BY <2>2, <3>1 DEF VcountIn, U
  <2>9. ReserveIn(b)
    <3>1. \A v \in VBlks : vcount[b][v] = VC_MAX <=> v \notin U \/ v = g
      <4>1. VC_MAX # 0
        BY DEF VC_MAX
      <4>. QED BY <2>2, <4>1
    <3>2. \A p \in Pages : nand[b][g][p] = Erased
      BY <2>1, <2>2
    <3>3. last_page[b][g] = Erased
      BY <2>1, <2>2
    <3>. QED BY <2>1, <2>2, <3>1, <3>2, <3>3, Zenon DEF ReserveIn, U
  <2>10. FreeIn(b)
    <3>1. U \ Full(b) = U
      BY <2>3
    <3>2. ASSUME NextBlocks(b) = {}
          PROVE  ~(Cardinality(U) > 2)
      <4>1. Ahead(b) = {}
        <5> SUFFICES ASSUME NEW w \in Ahead(b) PROVE FALSE
          OBVIOUS
        <5>1. w \in VBlks /\ w > f /\ w \in U \ {g}
          BY <2>1, <2>4
        <5>2. vcount[b][w] # VC_MAX
          BY <2>2, <5>1 DEF VC_MAX
        <5>3. w \in NextBlocks(b)
          BY <2>2, <5>1, <5>2 DEF NextBlocks
        <5>. QED BY <3>2, <5>3
      <4>2. U \in SUBSET {f, g}
        BY <2>3, <4>1
      <4>3. IsFiniteSet({f, g}) /\ Cardinality({f, g}) = 2
        BY <2>1, PairCard
      <4>4. Cardinality(U) <= 2
        BY <4>2, <4>3, FS_Subset
      <4>. QED BY <2>5, <4>4
    <3>. QED BY <2>2, <3>1, <3>2 DEF FreeIn, U
  <2>11. FrontIn(b)
    <3>1. f \in U \ Full(b)
      BY <2>1, <2>3
    <3>2. \A w \in U, p \in Pages : nand[b][w][p] = Erased
      BY <2>1, <2>2
    <3>. QED BY <2>2, <2>4, <3>1, <3>2 DEF FrontIn, U
  <2>12. OwnersIn(b)
    BY <2>2, <2>3 DEF OwnersIn, HereIn, NoLpns
  <2>. QED BY <2>2, <2>6, <2>7, <2>8, <2>9, <2>10, <2>11, <2>12 DEF BankInv
<1>4. TablesOK
  <2>1. 0 \in Pages /\ 0 \in VBlks /\ 0 \in Lpns
    <3>1. PICK v \in VBlks : TRUE
      BY Layout, LayoutAssumption, SizeAssumption DEF Banks
    <3>. QED BY <3>1, SizeAssumption DEF Pages, VBlks, Lpns
  <2>2. \A b \in Banks : FirstGc(b) \in VBlks /\ FirstBlock(b) \in VBlks
    BY Layout
  <2>3. page_map \in [Lpns -> [blk : VBlks, pg : Pages]]
    BY <2>1 DEF Init, Null, Vpn
  <2>4. vcount \in [Banks -> [VBlks -> 0 .. PagesPerBlk - 1 \union {VC_MAX}]]
    BY SizeAssumption DEF Init
  <2>5. cur_write_vpn \in [Banks -> [blk : VBlks, pg : Pages]]
    BY <2>1, <2>2 DEF Init, Vpn
  <2>6. gc_vblock \in [Banks -> VBlks]
    BY <2>2 DEF Init
  <2>7. free_blk_cnt \in [Banks -> 2 .. VBlksPerBank]
    BY <1>3 DEF Init
  <2>8. lpn_list \in [Banks -> [Pages -> Lpns]]
    BY <2>1 DEF Init, NoLpns
  <2>9. nand \in [Banks -> [VBlks -> [Pages -> Content \union {Erased}]]]
    BY DEF Init
  <2>10. last_page \in [Banks -> [VBlks -> [Pages -> Lpns] \union {Erased}]]
    BY DEF Init
  <2>. QED BY <2>3, <2>4, <2>5, <2>6, <2>7, <2>8, <2>9, <2>10 DEF TablesOK
<1>. QED BY <1>1, <1>2, <1>3, <1>4, ByBank DEF AllBanks

\* Every step keeps the invariant.
LEMMA NextInv ==
  ASSUME NoPhantom, IInv, [Next]_vars
  PROVE  IInv'
<1>1. TablesOK /\ CmdOK /\ ZeroOK /\ \A b \in Banks : BankInv(b)
  BY ByBank DEF AllBanks
<1>2. ASSUME Next
      PROVE  TablesOK' /\ ZeroOK' /\ \A b \in Banks : BankInv(b)'
  <2>1. ASSUME NEW lba \in Lbas, NEW n \in 1 .. MaxSectors, ftl_read(lba, n)
        PROVE  TablesOK' /\ ZeroOK' /\ \A b \in Banks : BankInv(b)'
    BY <1>1, <2>1, IdleStep DEF ftl_read
  <2>2. ASSUME NEW lba \in Lbas, NEW n \in 1 .. MaxSectors, NEW d \in Data, ftl_write(lba, n, d)
        PROVE  TablesOK' /\ ZeroOK' /\ \A b \in Banks : BankInv(b)'
    BY <1>1, <2>2, IdleStep DEF ftl_write
  <2>3. CASE ReadPage
    BY <1>1, <2>3, IdleStep DEF ReadPage, Advance
  <2>4. ASSUME NEW b \in Banks, AssignNextPage(b)
        PROVE  TablesOK' /\ ZeroOK' /\ \A c \in Banks : BankInv(c)'
    BY <1>1, <2>4, NextPageStep
  <2>5. ASSUME NEW b \in Banks, AssignNextBlock(b)
        PROVE  TablesOK' /\ ZeroOK' /\ \A c \in Banks : BankInv(c)'
    BY <1>1, <2>5, NextBlockStep
  <2>6. ASSUME NEW b \in Banks, NEW vt \in VBlks, AssignByGc(b, vt)
        PROVE  TablesOK' /\ ZeroOK' /\ \A c \in Banks : BankInv(c)'
    BY <1>1, <2>6, GcStep
  <2>7. ASSUME NEW enc \in SUBSET Sectors, NEW lost \in SUBSET Sectors, ProgramPage(enc, lost)
        PROVE  TablesOK' /\ ZeroOK' /\ \A b \in Banks : BankInv(b)'
    BY <1>1, <2>7, ProgramStep
  <2>. QED BY <1>2, <2>1, <2>2, <2>3, <2>4, <2>5, <2>6, <2>7, Zenon DEF Next
<1>3. ASSUME UNCHANGED vars
      PROVE  TablesOK' /\ CmdOK' /\ ZeroOK' /\ \A b \in Banks : BankInv(b)'
  <2>1. TablesOK'
    BY <1>1, <1>3, Zenon DEF TablesOK, vars, meta
  <2>2. CmdOK' /\ ZeroOK'
    BY <1>1, <1>3 DEF CmdOK, ZeroOK, vars, meta
  <2>3. \A b \in Banks : SameBank(b)
    BY <1>3 DEF SameBank, Pending, vars, meta
  <2>. QED BY <1>1, <2>1, <2>2, <2>3, OtherBank
<1>4. AllBanks'
  BY <1>1, <1>2, <1>3, CmdStep DEF AllBanks
<1>. QED BY <1>4, ByBank, PTL

-----------------------------------------------------------------------------
\* The tables of the FTL stay exact, as long as there is one bank or the host leaves
\* logical page 0 alone.
THEOREM Invariance ==
  ASSUME NoPhantom
  PROVE  Spec => []IInv
<1>1. Init => IInv
  BY InitInv
<1>2. IInv /\ [Next]_vars => IInv'
  BY NextInv
<1>. QED BY <1>1, <1>2, PTL DEF Spec

\* Type correctness of write_page, assign_new_write_vpn and garbage_collection.
THEOREM TypeCorrect ==
  ASSUME NoPhantom
  PROVE  Spec => []TypeOK
<1>1. IInv => TypeOK
  BY DEF IInv
<1>. QED BY <1>1, Invariance, PTL

\* No logical page loses its page to another or to an erased block.
THEOREM MappingSafe ==
  ASSUME NoPhantom
  PROVE  Spec => []MapOwned
<1>1. IInv => MapOwned
  BY DEF IInv
<1>. QED BY <1>1, Invariance, PTL

\* The counts that pick the victim are exact.
THEOREM CountsExact ==
  ASSUME NoPhantom
  PROVE  Spec => []VcountExact
<1>1. IInv => VcountExact
  BY DEF IInv
<1>. QED BY <1>1, Invariance, PTL

\* So is the count that triggers garbage collection.
THEOREM FreeCountSafe ==
  ASSUME NoPhantom
  PROVE  Spec => []FreeCountExact
<1>1. IInv => FreeCountExact
  BY DEF IInv
<1>. QED BY <1>1, Invariance, PTL

\* The search for the next data block always finds one ahead of the write front.
THEOREM FrontSafe ==
  ASSUME NoPhantom
  PROVE  Spec => []WriteFront
<1>1. IInv => WriteFront
  BY DEF IInv
<1>. QED BY <1>1, Invariance, PTL

\* The owners that garbage collection will look up belong to its bank.
THEOREM OwnersSafe ==
  ASSUME NoPhantom
  PROVE  Spec => []OwnersHere
<1>1. IInv => OwnersHere
  BY DEF IInv
<1>. QED BY <1>1, Invariance, PTL

\* Garbage collection always has an erased block to copy to, and only blocks in use
\* are candidates for the victim search.
THEOREM ReserveSafe ==
  ASSUME NoPhantom
  PROVE  Spec => []GcReserve
<1>1. IInv => GcReserve
  BY DEF IInv
<1>. QED BY <1>1, Invariance, PTL

-----------------------------------------------------------------------------
(***************************************************************************)
(* What a step may do.  A step is garbage collection, the programming of a *)
(* page, or it leaves the NAND and the reserved blocks alone.              *)
(***************************************************************************)
\* The steps that can touch the NAND or the reserved blocks.
LEMMA StepKinds ==
  ASSUME [Next]_vars
  PROVE  \/ nand' = nand /\ gc_vblock' = gc_vblock
         \/ \E b \in Banks, vt \in VBlks : AssignByGc(b, vt)
         \/ \E enc, lost \in SUBSET Sectors : ProgramPage(enc, lost)
<1>1. CASE UNCHANGED vars
  BY <1>1 DEF vars, meta
<1>2. CASE Next
  BY <1>2 DEF Next, ftl_read, ftl_write, ReadPage, AssignNextPage, AssignNextBlock, meta
<1>. QED BY <1>1, <1>2

\* The check at the end of garbage_collection: the pages copied are the victim's count.
THEOREM GcCopies ==
  ASSUME NoPhantom
  PROVE  Spec => GcCopiesVcount
<1>1. ASSUME IInv, [Next]_vars, NEW b \in Banks, gc_vblock'[b] # gc_vblock[b]
      PROVE  cur_write_vpn'[b].pg = vcount[b][gc_vblock'[b]]
  <2>1. TablesOK /\ ZeroOK /\ \A c \in Banks : BankInv(c)
    BY <1>1, ByBank DEF AllBanks
  <2>2. ASSUME NEW c \in Banks, NEW vt \in VBlks, AssignByGc(c, vt)
        PROVE  cur_write_vpn'[b].pg = vcount[b][gc_vblock'[b]]
    <3>1. /\ is_full_all_blks(c) /\ vt \in Victims(c)
          /\ cur_write_vpn' = [cur_write_vpn EXCEPT ![c] =
                                 Vpn(gc_vblock[c], Cardinality(VictimLive(c, vt)))]
          /\ gc_vblock' = [gc_vblock EXCEPT ![c] = vt]
      BY <2>2, Zenon DEF AssignByGc, garbage_collection, VictimList, VictimLive
    <3>2. c = b
      BY <1>1, <2>1, <3>1 DEF TablesOK
    <3>3. Cardinality(VictimLive(c, vt)) = vcount[c][vt]
      BY <2>1, <3>1, VictimCount
    <3>4. gc_vblock'[c] = vt
      BY <2>1, <3>1 DEF TablesOK
    <3>5. cur_write_vpn'[c].pg = Cardinality(VictimLive(c, vt))
      BY <2>1, <3>1 DEF TablesOK, Vpn
    <3>. QED BY <3>2, <3>3, <3>4, <3>5
  <2>3. ASSUME NEW enc \in SUBSET Sectors, NEW lost \in SUBSET Sectors, ProgramPage(enc, lost)
        PROVE  FALSE
    BY <1>1, <2>3 DEF ProgramPage
  <2>. QED BY <1>1, <2>2, <2>3, StepKinds
<1>2. IInv /\ [Next]_vars =>
        [\A b \in Banks : gc_vblock'[b] # gc_vblock[b] =>
           cur_write_vpn'[b].pg = vcount[b][gc_vblock'[b]]]_vars
  BY <1>1
<1>. QED BY <1>2, Invariance, PTL DEF Spec, GcCopiesVcount

\* What NandDiscipline asks of a page that a step changes.
Disciplined(b, v, p) ==
  \/ /\ nand[b][v][p] = Erased
     /\ last_page[b][v] = Erased
     /\ \A q \in Pages : q > p => nand[b][v][q] = Erased
  \/ /\ \A q \in Pages : nand'[b][v][q] = Erased
     /\ last_page'[b][v] = Erased
     /\ \A l \in LpnsOf(b) : page_map'[l].blk # v

\* garbage_collection programs the reserved block, erased, and erases its victim.
LEMMA GcDisciplined ==
  ASSUME IInv, IInv', NEW b \in Banks, NEW vt \in VBlks, AssignByGc(b, vt),
         NEW c \in Banks, NEW v \in VBlks, NEW p \in Pages,
         nand'[c][v][p] # nand[c][v][p]
  PROVE  Disciplined(c, v, p)
<1>1. TablesOK /\ BankInv(b) /\ ZeroOK
  BY ByBank DEF AllBanks
<1>2. /\ nand' = CopyBack(b, vt, VictimLive(b, vt)) /\ gc_vblock' = [gc_vblock EXCEPT ![b] = vt]
  BY Zenon DEF AssignByGc, garbage_collection, VictimList, VictimLive
<1>3. c = b
  BY <1>1, <1>2 DEF TablesOK, CopyBack
<1>4. v = vt \/ v = gc_vblock[b]
  <2>1. nand'[b][v][p] =
          IF v = vt THEN Erased
          ELSE IF v = gc_vblock[b] /\ p < Cardinality(VictimLive(b, vt))
            THEN nand[b][vt][Nth(VictimLive(b, vt), p)]
          ELSE nand[b][v][p]
    BY <1>1, <1>2 DEF TablesOK, CopyBack
  <2>. QED BY <1>3, <2>1
<1>5. CASE v = gc_vblock[b]
  BY <1>1, <1>3, <1>5 DEF Disciplined, BankInv, ReserveIn
<1>6. CASE v = vt
  <2>1. gc_vblock'[b] = vt
    BY <1>1, <1>2 DEF TablesOK
  <2>2. /\ vt \in UserArea(b) /\ last_page'[b][vt] = Erased
        /\ \A q \in Pages : nand'[b][vt][q] = Erased
    BY <2>1 DEF IInv, GcReserve
  <2>3. ASSUME NEW l \in LpnsOf(b)
        PROVE  page_map'[l].blk # vt
    <3>1. l \in Lpns /\ get_num_bank(l) = b
      BY DEF LpnsOf
    <3>2. vt # 0
      BY <2>2, Layout
    <3>3. CASE page_map'[l] = Null
      BY <3>2, <3>3 DEF Null, Vpn
    <3>4. CASE page_map'[l] # Null
      <4>1. page_map'[l].blk \in UserArea(b) \ {gc_vblock'[b]}
        BY <3>1, <3>4, Zenon DEF IInv, MapOwned
      <4>. QED BY <2>1, <4>1
    <3>. QED BY <3>3, <3>4
  <2>. QED BY <1>3, <1>6, <2>2, <2>3 DEF Disciplined
<1>. QED BY <1>4, <1>5, <1>6

\* write_page programs the page that waits for its data.
LEMMA ProgramDisciplined ==
  ASSUME IInv, NEW enc \in SUBSET Sectors, NEW lost \in SUBSET Sectors, ProgramPage(enc, lost),
         NEW c \in Banks, NEW v \in VBlks, NEW p \in Pages,
         nand'[c][v][p] # nand[c][v][p]
  PROVE  Disciplined(c, v, p)
<1>1. TablesOK /\ CmdOK /\ \A b \in Banks : BankInv(b)
  BY ByBank DEF AllBanks
<1>2. PICK b, w, q : b = get_num_bank(cmd.lpn) /\ w = cur_write_vpn[b].blk /\ q = cur_write_vpn[b].pg
  OBVIOUS
<1>3. /\ nand' = [nand EXCEPT ![b][w][q] = NewContent(cmd.lpn, enc, lost)] /\ pc = "program"
  BY <1>2, Zenon DEF ProgramPage
<1>4. b \in Banks
  BY <1>1, <1>2, BankOf DEF CmdOK
<1>5. c = b /\ v = w /\ p = q
  BY <1>1, <1>3 DEF TablesOK
<1>6. /\ \A r \in Pages : r >= cur_write_vpn[b].pg => nand[b][cur_write_vpn[b].blk][r] = Erased
      /\ last_page[b][cur_write_vpn[b].blk] = Erased
  BY <1>1, <1>2, <1>3, <1>4, PendingPage DEF Pending
<1>7. \A r \in Pages : (r > q => r >= q) /\ q >= q
  BY <1>5 DEF Pages
<1>. QED BY <1>2, <1>5, <1>6, <1>7 DEF Disciplined

\* A NAND page is programmed once between two erases, in the order of its block, and
\* a block is erased only when no logical page maps to it any more.
THEOREM NandSafe ==
  ASSUME NoPhantom
  PROVE  Spec => NandDiscipline
<1>1. ASSUME IInv, IInv', [Next]_vars, NEW b \in Banks, NEW v \in VBlks, NEW p \in Pages,
             nand'[b][v][p] # nand[b][v][p]
      PROVE  Disciplined(b, v, p)
  BY <1>1, StepKinds, GcDisciplined, ProgramDisciplined
<1>2. IInv /\ IInv' /\ [Next]_vars =>
        [\A b \in Banks, v \in VBlks, p \in Pages :
           nand'[b][v][p] # nand[b][v][p] => Disciplined(b, v, p)]_vars
  BY <1>1
<1>3. IInv /\ IInv' /\ [Next]_vars =>
        [\A b \in Banks, v \in VBlks, p \in Pages : nand'[b][v][p] # nand[b][v][p] =>
           \/ /\ nand[b][v][p] = Erased
              /\ last_page[b][v] = Erased
              /\ \A q \in Pages : q > p => nand[b][v][q] = Erased
           \/ /\ \A q \in Pages : nand'[b][v][q] = Erased
              /\ last_page'[b][v] = Erased
              /\ \A l \in LpnsOf(b) : page_map'[l].blk # v]_vars
  BY <1>2, Zenon DEF Disciplined
<1>. QED BY <1>3, Invariance, PTL DEF Spec, NandDiscipline

-----------------------------------------------------------------------------
(***************************************************************************)
(* The greedy FTL is a disk: every step accepts a command of BlockDevice,  *)
(* serves a run of its sectors, or changes nothing that the host can see.  *)
(* The inductive invariant is what makes the mapping hold: garbage         *)
(* collection moves every live page together with its mapping, and a page  *)
(* is programmed where no mapping points.                                  *)
(***************************************************************************)
\* The state of the disk that the tables, the NAND and the command stand for.
DiskNow == [a \in Lbas |-> PageContent(a \div SectorsPerPage)[a % SectorsPerPage]]
OpNow   == CASE pc = "main" -> "idle" [] pc = "read" -> "read" [] OTHER -> "write"
ReqNow  == IF pc = "main" THEN [lba |-> 0, left |-> 0, datum |-> Blank, crypt |-> FALSE]
           ELSE [lba |-> cmd.lpn * SectorsPerPage + cmd.offset, left |-> cmd.remain,
                 datum |-> cmd.datum, crypt |-> cmd.printBytes]

-----------------------------------------------------------------------------
(***************************************************************************)
(* Sectors and pages: what ftl_read and ftl_write cut a command into.      *)
(***************************************************************************)
\* Quotient and remainder are natural numbers that make up the dividend.
LEMMA DivMod ==
  ASSUME NEW n \in Nat, NEW d \in Nat \ {0}
  PROVE  n \div d \in Nat /\ n % d \in 0 .. d - 1 /\ n = d * (n \div d) + (n % d)
<1>1. n % d \in 0 .. d - 1
  OBVIOUS
<1>2. n = d * (n \div d) + (n % d)
  OBVIOUS
<1>3. n \div d \in Int
  OBVIOUS
<1>4. ASSUME n \div d < 0 PROVE FALSE
  <2>1. d * (n \div d) <= d * (-1)
    BY <1>3, <1>4
  <2>. QED BY <1>1, <1>2, <1>3, <2>1
<1>. QED BY <1>1, <1>2, <1>3, <1>4

\* Quotient and remainder are determined by the sum.
LEMMA DivModIs ==
  ASSUME NEW d \in Nat \ {0}, NEW q \in Nat, NEW r \in 0 .. d - 1
  PROVE  (d * q + r) \div d = q /\ (d * q + r) % d = r
  OBVIOUS

\* A product with a number below another one leaves room for one more of them.
LEMMA RowsFit ==
  ASSUME NEW s \in Nat, NEW l \in Nat, NEW n \in Nat
  PROVE  /\ l < n => s * l + s <= s * n
         /\ s > 0 /\ s * l < s * n => l < n
<1>1. ASSUME l < n PROVE s * l + s <= s * n
  <2>1. PICK k \in Nat : n = l + 1 + k
    <3>1. n - l - 1 \in Nat /\ n = l + 1 + (n - l - 1)
      BY <1>1
    <3>. QED BY <3>1
  <2>2. s * n = s * l + s + s * k /\ s * k \in Nat
    BY <2>1
  <2>3. s * l \in Nat
    OBVIOUS
  <2>. QED BY <2>2, <2>3
<1>2. ASSUME s > 0, s * l < s * n, l >= n PROVE FALSE
  <2>1. PICK k \in Nat : l = n + k
    <3>1. l - n \in Nat /\ l = n + (l - n)
      BY <1>2
    <3>. QED BY <3>1
  <2>2. s * l = s * n + s * k /\ s * k \in Nat /\ s * n \in Nat
    BY <2>1
  <2>. QED BY <1>2, <2>2
<1>. QED BY <1>1, <1>2

\* A sector of a logical page is a sector of the disk.
LEMMA SectorOf ==
  ASSUME NEW l \in Lpns, NEW s \in Sectors
  PROVE  /\ l * SectorsPerPage + s \in Lbas
         /\ (l * SectorsPerPage + s) \div SectorsPerPage = l
         /\ (l * SectorsPerPage + s) % SectorsPerPage = s
<1>1. /\ SectorsPerPage \in Nat \ {0} /\ NumLpages \in Nat
      /\ l \in Nat /\ l < NumLpages
      /\ s \in 0 .. SectorsPerPage - 1
  BY SizeAssumption DEF Lpns, Sectors
<1>2. l * SectorsPerPage + s = SectorsPerPage * l + s
  BY <1>1
<1>3. SectorsPerPage * l + SectorsPerPage <= SectorsPerPage * NumLpages
  BY <1>1, RowsFit
<1>4. SectorsPerPage * l \in Nat /\ SectorsPerPage * NumLpages \in Nat
      /\ SectorsPerPage * NumLpages = NumLpages * SectorsPerPage
  BY <1>1
<1>5. l * SectorsPerPage + s \in 0 .. NumLpages * SectorsPerPage - 1
  BY <1>1, <1>2, <1>3, <1>4
<1>. QED BY <1>1, <1>2, <1>5, DivModIs DEF Lbas

\* Every sector of the disk is one of a logical page.
LEMMA PageOfSector ==
  ASSUME NEW a \in Lbas
  PROVE  /\ a \div SectorsPerPage \in Lpns /\ a % SectorsPerPage \in Sectors
         /\ a = (a \div SectorsPerPage) * SectorsPerPage + (a % SectorsPerPage)
<1> DEFINE l == a \div SectorsPerPage
           s == a % SectorsPerPage
<1>1. /\ SectorsPerPage \in Nat \ {0} /\ SectorsPerPage > 0 /\ NumLpages \in Nat /\ a \in Nat
      /\ a < NumLpages * SectorsPerPage
  BY SizeAssumption DEF Lbas
<1>2. l \in Nat /\ s \in 0 .. SectorsPerPage - 1 /\ a = SectorsPerPage * l + s
  BY <1>1, DivMod
<1>. HIDE DEF l, s
<1>3. SectorsPerPage * l \in Nat /\ SectorsPerPage * NumLpages = NumLpages * SectorsPerPage
      /\ SectorsPerPage * l = l * SectorsPerPage /\ SectorsPerPage * NumLpages \in Nat
  BY <1>1, <1>2
<1>4. SectorsPerPage * l < SectorsPerPage * NumLpages
  BY <1>1, <1>2, <1>3
<1>5. l < NumLpages
  BY <1>1, <1>2, <1>4, RowsFit
<1>. QED BY <1>1, <1>2, <1>3, <1>5 DEF Lpns, Sectors, l, s

\* The piece of a command that one iteration serves lies in one logical page, and the
\* next one starts where it ends.
LEMMA Piece ==
  ASSUME cmd \in Cmds, cmd.remain > 0
  PROVE  /\ NumSectors(cmd) \in 1 .. cmd.remain
         /\ Covered(cmd) \subseteq Sectors
         /\ \A s : s \in Covered(cmd) <=>
              s \in Nat /\ cmd.offset <= s /\ s < cmd.offset + NumSectors(cmd)
         /\ cmd.remain # NumSectors(cmd) => NumSectors(cmd) = SectorsPerPage - cmd.offset
<1>1. /\ cmd.offset \in Nat /\ cmd.offset < SectorsPerPage /\ SectorsPerPage \in Nat
      /\ cmd.remain \in Nat
  BY SizeAssumption DEF Cmds, Sectors
<1>2. CASE cmd.offset + cmd.remain < SectorsPerPage
  <2>1. NumSectors(cmd) = cmd.remain
    BY <1>2 DEF NumSectors
  <2>. QED BY <1>1, <1>2, <2>1 DEF Covered, Sectors
<1>3. CASE ~(cmd.offset + cmd.remain < SectorsPerPage)
  <2>1. NumSectors(cmd) = SectorsPerPage - cmd.offset
    BY <1>3 DEF NumSectors
  <2>. QED BY <1>1, <1>3, <2>1 DEF Covered, Sectors
<1>. QED BY <1>2, <1>3
\* The run of sectors that the iteration serves, as numbers of the disk.
LEMMA RunOf ==
  ASSUME cmd \in Cmds, cmd.remain > 0,
         NEW first, first = cmd.lpn * SectorsPerPage + cmd.offset,
         NEW k, k = NumSectors(cmd)
  PROVE  /\ first .. first + k - 1 = {cmd.lpn * SectorsPerPage + s : s \in Covered(cmd)}
         /\ \A a \in first .. first + k - 1 :
              a \in Lbas /\ a \div SectorsPerPage = cmd.lpn /\ a % SectorsPerPage \in Covered(cmd)
         /\ \A a \in Lbas :
              a \div SectorsPerPage = cmd.lpn /\ a % SectorsPerPage \in Covered(cmd)
                => a \in first .. first + k - 1
<1>1. PICK base : base = cmd.lpn * SectorsPerPage
  OBVIOUS
<1>2. /\ cmd.lpn \in Lpns /\ cmd.offset \in Nat /\ base \in Nat /\ SectorsPerPage \in Nat
      /\ cmd.remain \in Nat /\ first = base + cmd.offset
  BY <1>1, SizeAssumption DEF Cmds, Sectors, Lpns
<1>3. k \in 1 .. cmd.remain /\ Covered(cmd) \subseteq Sectors
  BY Piece
<1>4. \A s : s \in Covered(cmd) <=> s \in Nat /\ cmd.offset <= s /\ s < cmd.offset + k
  BY Piece
<1>5. \A s \in Covered(cmd) : base + s \in first .. first + k - 1
  BY <1>2, <1>3, <1>4
<1>6. \A a \in first .. first + k - 1 : a - base \in Covered(cmd) /\ a = base + (a - base)
  BY <1>2, <1>3, <1>4
<1>7. first .. first + k - 1 = {base + s : s \in Covered(cmd)}
  BY <1>5, <1>6
<1>8. ASSUME NEW a \in first .. first + k - 1
      PROVE  a \in Lbas /\ a \div SectorsPerPage = cmd.lpn /\ a % SectorsPerPage \in Covered(cmd)
  <2>1. PICK s \in Covered(cmd) : a = cmd.lpn * SectorsPerPage + s
    BY <1>1, <1>6
  <2>. QED BY <1>2, <1>3, <2>1, SectorOf
<1>9. ASSUME NEW a \in Lbas, a \div SectorsPerPage = cmd.lpn, a % SectorsPerPage \in Covered(cmd)
      PROVE  a \in first .. first + k - 1
  <2>1. a = base + (a % SectorsPerPage)
    BY <1>1, <1>9, PageOfSector
  <2>. QED BY <1>5, <1>9, <2>1
<1>. QED BY <1>1, <1>7, <1>8, <1>9

\* The end of an iteration of the loop is the end of a service of the disk.
LEMMA LoopEnds ==
  ASSUME cmd \in Cmds, cmd.remain > 0,
         \/ pc = "read" /\ Advance("read")
         \/ pc = "program" /\ Advance("write")
  PROVE  Disk!Finish(NumSectors(cmd))
<1>1. PICK k : k = NumSectors(cmd)
  OBVIOUS
<1>2. ReqNow = [lba |-> cmd.lpn * SectorsPerPage + cmd.offset, left |-> cmd.remain,
                datum |-> cmd.datum, crypt |-> cmd.printBytes]
  BY DEF ReqNow
<1>3. CASE cmd.remain = k
  <2>1. pc' = "main" /\ OpNow' = "idle" /\ ReqNow' = Disk!NoReq
    BY <1>1, <1>3 DEF Advance, OpNow, ReqNow, Disk!NoReq
  <2>. QED BY <1>1, <1>2, <1>3, <2>1 DEF Disk!Finish, OpNow, ReqNow
<1>4. CASE cmd.remain # k
  <2>1. /\ \/ pc = "read" /\ pc' = "read"
           \/ pc = "program" /\ pc' = "write"
        /\ cmd' = [cmd EXCEPT !.lpn = @ + 1, !.offset = 0, !.remain = @ - k]
    BY <1>1, <1>4 DEF Advance
  <2>2. OpNow' = OpNow
    BY <2>1 DEF OpNow
  <2>3. /\ cmd'.lpn = cmd.lpn + 1 /\ cmd'.offset = 0 /\ cmd'.remain = cmd.remain - k
        /\ cmd'.datum = cmd.datum /\ cmd'.printBytes = cmd.printBytes
    BY <2>1 DEF Cmds
  <2>4. cmd'.lpn * SectorsPerPage + cmd'.offset = cmd.lpn * SectorsPerPage + cmd.offset + k
    <3>1. k = SectorsPerPage - cmd.offset
      BY <1>1, <1>4, Piece
    <3>2. cmd.lpn \in Nat /\ cmd.offset \in Nat /\ SectorsPerPage \in Nat
      BY SizeAssumption DEF Cmds, Lpns, Sectors
    <3>3. (cmd.lpn + 1) * SectorsPerPage = cmd.lpn * SectorsPerPage + SectorsPerPage
      BY <3>2
    <3>4. PICK x : x = cmd.lpn * SectorsPerPage /\ x \in Nat
      BY <3>2
    <3>5. x + SectorsPerPage + 0 = x + cmd.offset + (SectorsPerPage - cmd.offset)
      BY <3>2, <3>4
    <3>. QED BY <2>3, <3>1, <3>3, <3>4, <3>5
  <2>5. ReqNow' = [lba |-> cmd.lpn * SectorsPerPage + cmd.offset + k, left |-> cmd.remain - k,
                   datum |-> cmd.datum, crypt |-> cmd.printBytes]
    BY <2>1, <2>3, <2>4 DEF ReqNow
  <2>6. ReqNow' = [ReqNow EXCEPT !.lba = @ + k, !.left = @ - k]
    <3>1. PICK a, l, d, c : /\ a = cmd.lpn * SectorsPerPage + cmd.offset /\ l = cmd.remain
                            /\ d = cmd.datum /\ c = cmd.printBytes
      OBVIOUS
    <3>2. ReqNow = [lba |-> a, left |-> l, datum |-> d, crypt |-> c]
      BY <1>2, <3>1
    <3>3. PICK r : r = [ReqNow EXCEPT !.lba = @ + k, !.left = @ - k]
      OBVIOUS
    <3>4. r.lba = a + k /\ r.left = l - k /\ r.datum = d /\ r.crypt = c
      BY <3>2, <3>3
    <3>5. r = [lba |-> r.lba, left |-> r.left, datum |-> r.datum, crypt |-> r.crypt]
      BY <3>2, <3>3
    <3>. QED BY <2>5, <3>1, <3>3, <3>4, <3>5
  <2>. QED BY <1>1, <1>2, <1>4, <2>2, <2>6, Zenon DEF Disk!Finish, OpNow, ReqNow
<1>. QED BY <1>3, <1>4
-----------------------------------------------------------------------------
(***************************************************************************)
(* What a logical page reads as, across the steps that touch the NAND.     *)
(***************************************************************************)
\* Garbage collection moves pages and mappings together: every logical page reads as
\* before.
LEMMA GcKeeps ==
  ASSUME IInv, NEW b \in Banks, NEW vt \in VBlks, AssignByGc(b, vt), NEW l \in Lpns
  PROVE  PageContent(l)' = PageContent(l)
<1>1. TablesOK /\ ZeroOK /\ \A c \in Banks : BankInv(c)
  BY ByBank DEF AllBanks
<1>2. PICK gc, list, live, n :
        /\ gc = gc_vblock[b] /\ list = VictimList(b, vt)
        /\ live = VictimLive(b, vt) /\ n = Cardinality(live)
  BY Zenon
<1>3. /\ is_full_all_blks(b) /\ vt \in Victims(b)
      /\ page_map' = Relocate(b, vt, list, live)
      /\ nand' = CopyBack(b, vt, live)
  BY <1>2, Zenon DEF AssignByGc, garbage_collection, VictimList, VictimLive
<1>4. /\ vt \in UserArea(b) /\ vt # gc /\ gc \in UserArea(b) /\ UserArea(b) \subseteq VBlks \ {0}
      /\ \A p \in Pages : nand[b][gc][p] = Erased
  BY <1>1, <1>2, <1>3, VictimBlock, Layout DEF BankInv, ReserveIn
<1>5. /\ live \in SUBSET Pages
      /\ \A p \in live : list[p] = Owner(b, vt, p) /\ list[p] \in LpnsOf(b) /\ page_map[list[p]] = Vpn(vt, p)
      /\ \A k \in LpnsOf(b) : page_map[k].blk = vt =>
            page_map[k].pg \in live /\ list[page_map[k].pg] = k
  <2>1. /\ VictimLive(b, vt) \subseteq Pages
        /\ \A p \in Pages : VictimList(b, vt)[p] = Owner(b, vt, p)
        /\ \A p \in VictimLive(b, vt) : /\ Owner(b, vt, p) \in LpnsOf(b)
                                        /\ page_map[Owner(b, vt, p)] = Vpn(vt, p)
        /\ \A k \in LpnsOf(b) : page_map[k].blk = vt =>
              /\ page_map[k].pg \in VictimLive(b, vt)
              /\ Owner(b, vt, page_map[k].pg) = k
    BY <1>1, <1>3, VictimOwners
  <2>. QED BY <1>2, <2>1
<1>6. /\ n \in 0 .. PagesPerBlk - 2
      /\ \A p \in live : Rank(live, p) \in 0 .. n - 1 /\ Nth(live, Rank(live, p)) = p
  <2>1. Pages \subseteq Nat /\ IsFiniteSet(Pages)
    BY Finite DEF Pages
  <2>2. live \in SUBSET Nat /\ IsFiniteSet(live)
    BY <1>5, <2>1, FS_Subset, Zenon
  <2>3. n = vcount[b][vt] /\ n \in 0 .. PagesPerBlk - 2
    BY <1>1, <1>2, <1>3, VictimBlock, VictimCount
  <2>. QED BY <1>2, <2>2, <2>3, RankNth
<1>7. \A p \in live : Rank(live, p) \in Pages /\ Rank(live, p) < n
  BY <1>6, SizeAssumption DEF Pages
<1>8. page_map[l] \in [blk : VBlks, pg : Pages]
  BY <1>1 DEF TablesOK
<1>9. PICK c : c = get_num_bank(l) /\ c \in Banks /\ l \in LpnsOf(c)
  BY BankOf DEF LpnsOf
<1>10. page_map'[l] = IF \E p \in live : list[p] = l
                       THEN Vpn(gc, Rank(live, page_map[l].pg)) ELSE page_map[l]
  BY <1>2, <1>3 DEF Relocate
<1>11. \A w \in VBlks, p \in Pages :
         nand'[b][w][p] = IF w = vt THEN Erased
                          ELSE IF w = gc /\ p < n THEN nand[b][vt][Nth(live, p)]
                          ELSE nand[b][w][p]
  BY <1>1, <1>2, <1>3 DEF TablesOK, CopyBack
<1>12. c # b => nand'[c] = nand[c]
  BY <1>1, <1>3, <1>9 DEF TablesOK, CopyBack
\* A live page of the victim.
<1>13. CASE \E p \in live : list[p] = l
  <2>1. PICK p \in live : list[p] = l
    BY <1>13
  <2>2. l \in LpnsOf(b) /\ page_map[l] = Vpn(vt, p) /\ c = b
    BY <1>5, <1>9, <2>1 DEF LpnsOf
  <2>3. page_map[l] # Null /\ PageContent(l) = nand[b][vt][p]
    BY <1>4, <1>9, <2>2 DEF Vpn, Null, PageContent
  <2>4. page_map'[l] = Vpn(gc, Rank(live, p))
    BY <1>10, <1>13, <2>2 DEF Vpn
  <2>5. nand'[b][gc][Rank(live, p)] = nand[b][vt][p]
    BY <1>4, <1>6, <1>7, <1>11
  <2>6. page_map'[l] # Null
    BY <1>4, <2>4 DEF Vpn, Null
  <2>7. PageContent(l)' = nand'[b][gc][Rank(live, p)]
    BY <1>9, <2>2, <2>4, <2>6 DEF Vpn, PageContent
  <2>. QED BY <2>3, <2>5, <2>7
\* A page that stays where it is.
<1>14. CASE ~ \E p \in live : list[p] = l
  <2>1. page_map'[l] = page_map[l]
    BY <1>10, <1>14
  <2>2. CASE page_map[l] = Null
    BY <2>1, <2>2 DEF PageContent
  <2>3. CASE page_map[l] # Null
    <3>1. /\ page_map[l].blk \in UserArea(c) \ {gc_vblock[c]}
      BY <1>1, <1>9, <2>3 DEF BankInv, MapOwnedIn
    <3>2. nand'[c][page_map[l].blk][page_map[l].pg] = nand[c][page_map[l].blk][page_map[l].pg]
      <4>1. CASE c = b
        <5>1. page_map[l].blk # vt
          BY <1>5, <1>9, <1>14, <4>1
        <5>2. page_map[l].blk # gc /\ page_map[l].blk \in VBlks /\ page_map[l].pg \in Pages
          BY <1>2, <1>8, <3>1, <4>1
        <5>. QED BY <1>11, <4>1, <5>1, <5>2
      <4>2. CASE c # b
        BY <1>12, <4>2
      <4>. QED BY <4>1, <4>2
    <3>3. PageContent(l) = nand[c][page_map[l].blk][page_map[l].pg]
      BY <1>9, <2>3 DEF PageContent
    <3>4. PageContent(l)' = nand'[c][page_map[l].blk][page_map[l].pg]
      BY <1>9, <2>1, <2>3 DEF PageContent
    <3>. QED BY <3>2, <3>3, <3>4
  <2>. QED BY <2>2, <2>3
<1>. QED BY <1>13, <1>14

\* Programming a page gives its logical page the new content and leaves what all the
\* others read as.
LEMMA ProgramPuts ==
  ASSUME IInv, NEW enc \in SUBSET Sectors, NEW lost \in SUBSET Sectors, ProgramPage(enc, lost), NEW k \in Lpns
  PROVE  PageContent(k)' = IF k = cmd.lpn THEN NewContent(k, enc, lost) ELSE PageContent(k)
<1>1. TablesOK /\ CmdOK /\ ZeroOK /\ \A c \in Banks : BankInv(c)
  BY ByBank DEF AllBanks
<1>2. PICK l, b, v, q :
        l = cmd.lpn /\ b = get_num_bank(l) /\ v = cur_write_vpn[b].blk /\ q = cur_write_vpn[b].pg
  OBVIOUS
<1>3. l \in Lpns /\ b \in Banks /\ Pending(b)
  BY <1>1, <1>2, BankOf DEF CmdOK, ProgramPage, Pending
<1>4. cur_write_vpn[b] = Vpn(v, q) /\ v \in VBlks /\ q \in Pages
  BY <1>1, <1>2, <1>3 DEF TablesOK, Vpn
<1>5. \A j \in LpnsOf(b) : page_map[j] # Vpn(v, q)
  BY <1>1, <1>3, <1>4, PendingPage
<1>6. v # 0
  BY <1>1, <1>2, <1>3, Layout DEF BankInv, FrontIn
<1>7. /\ nand' = [nand EXCEPT ![b][v][q] = NewContent(l, enc, lost)]
      /\ page_map' = [page_map EXCEPT ![l] = Vpn(v, q)]
  BY <1>2, <1>4, Zenon DEF ProgramPage
<1>8. nand'[b][v][q] = NewContent(l, enc, lost)
  BY <1>1, <1>3, <1>4, <1>7 DEF TablesOK
<1>9. CASE k = l
  <2>1. page_map'[l] = Vpn(v, q) /\ page_map'[l] # Null
    BY <1>1, <1>3, <1>6, <1>7 DEF TablesOK, Vpn, Null
  <2>2. PageContent(l)' = nand'[b][v][q]
    BY <1>2, <2>1 DEF PageContent, Vpn
  <2>. QED BY <1>2, <1>8, <1>9, <2>2
<1>10. CASE k # l
  <2>1. page_map'[k] = page_map[k] /\ page_map[k] \in [blk : VBlks, pg : Pages]
    BY <1>1, <1>7, <1>10 DEF TablesOK
  <2>2. PICK c : c = get_num_bank(k) /\ c \in Banks /\ k \in LpnsOf(c)
    BY BankOf DEF LpnsOf
  <2>3. c # b \/ page_map[k].blk # v \/ page_map[k].pg # q
    BY <1>5, <2>1, <2>2 DEF Vpn
  <2>4. nand'[c][page_map[k].blk][page_map[k].pg] = nand[c][page_map[k].blk][page_map[k].pg]
    BY <1>1, <1>3, <1>4, <1>7, <2>1, <2>2, <2>3 DEF TablesOK
  <2>5. PageContent(k)' = PageContent(k)
    BY <2>1, <2>2, <2>4 DEF PageContent
  <2>. QED BY <1>2, <1>10, <2>5
<1>. QED BY <1>9, <1>10
-----------------------------------------------------------------------------
(***************************************************************************)
(* Step by step.                                                           *)
(***************************************************************************)
\* A formatted drive is a disk of blank sectors.
LEMMA InitDisk ==
  ASSUME Init
  PROVE  Disk!DInit
<1>1. DiskNow = [a \in Disk!Lbas |-> Blank]
  <2>1. ASSUME NEW a \in Lbas
        PROVE  PageContent(a \div SectorsPerPage)[a % SectorsPerPage] = Blank
    BY PageOfSector DEF PageContent, Init, AllFF
  <2>. QED BY <2>1 DEF DiskNow, Disk!Lbas, Lbas
<1>2. OpNow = "idle" /\ ReqNow = Disk!NoReq /\ sent = <<>>
  BY DEF Init, OpNow, ReqNow, Disk!NoReq
<1>. QED BY <1>1, <1>2 DEF Disk!DInit, DiskNow, OpNow, ReqNow

\* The disk stays as it is when every logical page reads as before.
LEMMA SameDisk ==
  ASSUME \A l \in Lpns : PageContent(l)' = PageContent(l)
  PROVE  DiskNow' = DiskNow
<1>1. \A a \in Lbas : a \div SectorsPerPage \in Lpns
  BY PageOfSector
<1>. QED BY <1>1 DEF DiskNow

\* So it does when the tables and the NAND do.
LEMMA SameTables ==
  ASSUME page_map' = page_map, nand' = nand
  PROVE  DiskNow' = DiskNow
<1>1. \A l \in Lpns : PageContent(l)' = PageContent(l)
  BY DEF PageContent
<1>. QED BY <1>1, SameDisk

\* A command that lies in the pages of S is a run of sectors of these pages.
LEMMA CommandRun ==
  ASSUME NEW lba \in Lbas, NEW n \in 1 .. MaxSectors, NEW d, NEW p, NEW S \in SUBSET Lpns,
         Fits(Command(lba, n, d, p), S)
  PROVE  \A a \in lba .. lba + n - 1 : a \in Lbas /\ a \div SectorsPerPage \in S
<1> DEFINE c == Command(lba, n, d, p)
<1>1. /\ SectorsPerPage \in Nat \ {0} /\ lba \in Nat /\ n \in Nat \ {0}
      /\ c.lpn = lba \div SectorsPerPage /\ c.offset = lba % SectorsPerPage /\ c.remain = n
  BY SizeAssumption DEF Lbas, Command
<1>. HIDE DEF c
<1>2. SUFFICES ASSUME NEW a \in lba .. lba + n - 1
               PROVE  a \in Lbas /\ a \div SectorsPerPage \in S
  OBVIOUS
<1>3. PICK l, o, q, r : /\ l = lba \div SectorsPerPage /\ o = lba % SectorsPerPage
                        /\ q = a \div SectorsPerPage /\ r = a % SectorsPerPage
  OBVIOUS
<1>4. /\ l \in Nat /\ o \in 0 .. SectorsPerPage - 1 /\ lba = SectorsPerPage * l + o
      /\ q \in Nat /\ r \in 0 .. SectorsPerPage - 1 /\ a = SectorsPerPage * q + r
      /\ a \in Nat
  <2>1. a \in Nat
    BY <1>1
  <2>. QED BY <1>1, <1>3, <2>1, DivMod
<1>5. SectorsPerPage * l \in Nat /\ SectorsPerPage * q \in Nat
  BY <1>1, <1>4
<1>6. l <= q
  <2>1. CASE q < l
    <3>1. SectorsPerPage * q + SectorsPerPage <= SectorsPerPage * l
      BY <1>1, <1>4, <2>1, RowsFit
    <3>. QED BY <1>1, <1>2, <1>4, <1>5, <3>1
  <2>. QED BY <1>4, <2>1
<1>7. PICK k \in Nat : q = l + k
  <2>1. q - l \in Nat /\ q = l + (q - l)
    BY <1>4, <1>6
  <2>. QED BY <2>1
<1>8. SectorsPerPage * q = SectorsPerPage * l + SectorsPerPage * k
      /\ SectorsPerPage * k \in Nat /\ SectorsPerPage * k = k * SectorsPerPage
  BY <1>1, <1>4, <1>7
<1>9. k * SectorsPerPage < o + n
  BY <1>1, <1>2, <1>4, <1>5, <1>8
<1>10. k <= n
  <2>1. CASE n < k
    <3>1. SectorsPerPage * n + SectorsPerPage <= SectorsPerPage * k
      BY <1>1, <1>7, <2>1, RowsFit
    <3>2. SectorsPerPage * n >= n /\ SectorsPerPage * n \in Nat
      <4>1. PICK t \in Nat : SectorsPerPage = t + 1
        <5>1. SectorsPerPage - 1 \in Nat /\ SectorsPerPage = (SectorsPerPage - 1) + 1
          BY <1>1
        <5>. QED BY <5>1
      <4>2. SectorsPerPage * n = t * n + n /\ t * n \in Nat
        BY <1>1, <4>1
      <4>. QED BY <1>1, <4>2
    <3>. QED BY <1>1, <1>4, <1>8, <1>9, <3>1, <3>2
  <2>. QED BY <1>1, <1>7, <2>1
<1>11. c.lpn + k \in S
  BY <1>1, <1>3, <1>7, <1>9, <1>10 DEF Fits, c
<1>12. q \in S /\ q \in Lpns
  BY <1>1, <1>3, <1>7, <1>11
<1>13. a = q * SectorsPerPage + r /\ r \in Sectors
  BY <1>1, <1>4 DEF Sectors
<1>. QED BY <1>3, <1>12, <1>13, SectorOf

\* ftl_read and ftl_write accept a command of the disk.
LEMMA AcceptStep ==
  /\ \A lba \in Lbas, n \in 1 .. MaxSectors : ftl_read(lba, n) => Disk!Accept("read", lba, n, Blank)
  /\ \A lba \in Lbas, n \in 1 .. MaxSectors, d \in Data :
       ftl_write(lba, n, d) => Disk!Accept("write", lba, n, d)
<1>1. ASSUME NEW lba \in Lbas
      PROVE  (lba \div SectorsPerPage) * SectorsPerPage + (lba % SectorsPerPage) = lba
  BY PageOfSector
<1>2. ASSUME NEW lba \in Lbas, NEW n \in 1 .. MaxSectors, ftl_read(lba, n)
      PROVE  Disk!Accept("read", lba, n, Blank)
  <2>1. \A a \in lba .. lba + n - 1 : a \in Lbas
    BY <1>2, CommandRun DEF ftl_read
  <2>2. /\ OpNow = "idle" /\ OpNow' = "read" /\ sent' = <<>>
    BY <1>2 DEF ftl_read, OpNow
  <2>3. ReqNow' = [lba |-> lba, left |-> n, datum |-> Blank, crypt |-> "read" = "write" /\ n = EncSectors]
    BY <1>1, <1>2 DEF ftl_read, ReqNow, Command
  <2>4. DiskNow' = DiskNow
    BY <1>2, SameTables DEF ftl_read, meta
  <2>. QED BY <2>1, <2>2, <2>3, <2>4 DEF Disk!Accept, Disk!Lbas, Lbas, OpNow, ReqNow, DiskNow
<1>3. ASSUME NEW lba \in Lbas, NEW n \in 1 .. MaxSectors, NEW d \in Data, ftl_write(lba, n, d)
      PROVE  Disk!Accept("write", lba, n, d)
  <2>1. \A a \in lba .. lba + n - 1 : a \in Lbas /\ a \div SectorsPerPage \in HostLpns
    <3>1. HostLpns \in SUBSET Lpns
      BY DataAssumption
    <3>. QED BY <1>3, <3>1, CommandRun DEF ftl_write
  <2>2. /\ OpNow = "idle" /\ OpNow' = "write" /\ sent' = <<>>
    BY <1>3 DEF ftl_write, OpNow
  <2>3. ReqNow' = [lba |-> lba, left |-> n, datum |-> d, crypt |-> "write" = "write" /\ n = EncSectors]
    BY <1>1, <1>3 DEF ftl_write, ReqNow, Command
  <2>4. DiskNow' = DiskNow
    BY <1>3, SameTables DEF ftl_write, meta
  <2>. QED BY <2>1, <2>2, <2>3, <2>4 DEF Disk!Accept, OpNow, ReqNow, DiskNow
<1>. QED BY <1>2, <1>3
\* One iteration of the loop of ftl_read serves a run of sectors.
LEMMA ReadServes ==
  ASSUME IInv, ReadPage
  PROVE  Disk!Serve
<1>1. cmd \in Cmds /\ cmd.remain > 0 /\ pc = "read"
  BY DEF ReadPage, IInv, TypeOK, Cmds
<1>2. PICK k, first : k = NumSectors(cmd) /\ first = cmd.lpn * SectorsPerPage + cmd.offset
  OBVIOUS
<1>3. /\ first .. first + k - 1 = {cmd.lpn * SectorsPerPage + s : s \in Covered(cmd)}
      /\ \A a \in first .. first + k - 1 : a \in Lbas /\ a \div SectorsPerPage = cmd.lpn
  BY <1>1, <1>2, RunOf
<1>4. ReqNow.lba = first /\ ReqNow.left = cmd.remain /\ OpNow = "read"
  BY <1>1, <1>2 DEF ReqNow, OpNow
<1>5. sent' = [a \in first .. first + k - 1 |-> DiskNow[a]]
  <2>1. sent' = [a \in first .. first + k - 1 |-> PageContent(cmd.lpn)[a % SectorsPerPage]]
    BY <1>3, Zenon DEF ReadPage
  <2>2. \A a \in first .. first + k - 1 : DiskNow[a] = PageContent(cmd.lpn)[a % SectorsPerPage]
    BY <1>3 DEF DiskNow
  <2>. QED BY <2>1, <2>2
<1>6. DiskNow' = DiskNow
  BY SameTables DEF ReadPage, meta
<1>7. Disk!Finish(k)
  <2>1. Advance("read")
    BY DEF ReadPage
  <2>2. Disk!Finish(NumSectors(cmd))
    BY <1>1, <2>1, LoopEnds, Zenon
  <2>. QED BY <1>2, <2>2, Zenon
<1>8. Disk!ServeRead(k)
  BY <1>4, <1>5, <1>6, <1>7, Zenon DEF Disk!ServeRead, Disk!Run, ReqNow, OpNow, DiskNow
<1>9. k \in 1 .. ReqNow.left
  BY <1>1, <1>2, <1>4, Piece
<1>. QED BY <1>8, <1>9, Zenon DEF Disk!Serve, ReqNow

\* The end of write_page stores a run of sectors.
LEMMA ProgramServes ==
  ASSUME IInv, NEW enc \in SUBSET Sectors, NEW lost \in SUBSET Sectors, ProgramPage(enc, lost)
  PROVE  Disk!Serve
<1>1. cmd \in Cmds /\ cmd.remain > 0 /\ pc = "program" /\ cmd.lpn \in Lpns
  BY DEF ProgramPage, IInv, TypeOK, Cmds
<1>2. PICK k, first, ciph, gone :
        /\ k = NumSectors(cmd) /\ first = cmd.lpn * SectorsPerPage + cmd.offset
        /\ ciph = {cmd.lpn * SectorsPerPage + s : s \in enc}
        /\ gone = {cmd.lpn * SectorsPerPage + s : s \in lost}
  OBVIOUS
<1>3. /\ first .. first + k - 1 = {cmd.lpn * SectorsPerPage + s : s \in Covered(cmd)}
      /\ \A a \in first .. first + k - 1 :
           a \in Lbas /\ a \div SectorsPerPage = cmd.lpn /\ a % SectorsPerPage \in Covered(cmd)
      /\ \A a \in Lbas : a \div SectorsPerPage = cmd.lpn /\ a % SectorsPerPage \in Covered(cmd)
           => a \in first .. first + k - 1
  BY <1>1, <1>2, RunOf
<1>4. /\ ReqNow.lba = first /\ ReqNow.left = cmd.remain /\ OpNow = "write"
      /\ ReqNow.datum = cmd.datum /\ ReqNow.crypt = cmd.printBytes
  BY <1>1, <1>2 DEF ReqNow, OpNow
<1>5. /\ enc \subseteq Covered(cmd) /\ lost \subseteq Covered(cmd)
      /\ ~cmd.printBytes => enc = {} /\ lost = {}
  BY DEF ProgramPage, Encrypted
<1>6. /\ ciph \subseteq first .. first + k - 1 /\ gone \subseteq first .. first + k - 1
      /\ ~ReqNow.crypt => ciph = {} /\ gone = {}
  BY <1>2, <1>3, <1>4, <1>5
<1>7. ASSUME NEW a \in first .. first + k - 1
      PROVE  /\ a \in ciph <=> a % SectorsPerPage \in enc
             /\ a \in gone <=> a % SectorsPerPage \in lost
  <2>1. a = cmd.lpn * SectorsPerPage + (a % SectorsPerPage)
    BY <1>3, PageOfSector
  <2>2. \A s \in enc \union lost : (cmd.lpn * SectorsPerPage + s) % SectorsPerPage = s
    BY <1>1, SectorOf
  <2>. QED BY <1>2, <2>1, <2>2
<1>8. DiskNow' = [a \in Lbas |->
         IF a \in first .. first + k - 1
           THEN IF a \in gone THEN Garbled ELSE IF a \in ciph THEN Enc[cmd.datum] ELSE cmd.datum
           ELSE DiskNow[a]]
  <2>1. ASSUME NEW a \in Lbas
        PROVE  DiskNow'[a] =
                 IF a \in first .. first + k - 1
                   THEN IF a \in gone THEN Garbled ELSE IF a \in ciph THEN Enc[cmd.datum] ELSE cmd.datum
                   ELSE DiskNow[a]
    <3>1. PICK l, s : l = a \div SectorsPerPage /\ s = a % SectorsPerPage
      OBVIOUS
    <3>2. l \in Lpns /\ s \in Sectors
      BY <3>1, PageOfSector
    <3>3. DiskNow[a] = PageContent(l)[s] /\ DiskNow'[a] = PageContent(l)'[s]
      BY <3>1 DEF DiskNow
    <3>4. PageContent(l)' = IF l = cmd.lpn THEN NewContent(l, enc, lost) ELSE PageContent(l)
      BY <3>2, ProgramPuts
    <3>5. CASE l # cmd.lpn
      BY <1>3, <3>1, <3>3, <3>4, <3>5
    <3>6. CASE l = cmd.lpn
      <4>1. a \in first .. first + k - 1 <=> s \in Covered(cmd)
        BY <1>3, <3>1, <3>6
      <4>2. NewContent(l, enc, lost)[s] =
              IF s \in Covered(cmd)
                THEN IF s \in lost THEN Garbled ELSE IF s \in enc THEN Enc[cmd.datum] ELSE cmd.datum
                ELSE PageContent(l)[s]
        BY <3>2 DEF NewContent, Received
      <4>3. a \in first .. first + k - 1 => (a \in ciph <=> s \in enc) /\ (a \in gone <=> s \in lost)
        BY <1>7, <3>1
      <4>. QED BY <3>3, <3>4, <3>6, <4>1, <4>2, <4>3
    <3>. QED BY <3>5, <3>6
  <2>2. DiskNow' = [a \in Lbas |-> DiskNow'[a]]
    BY DEF DiskNow
  <2>. QED BY <2>1, <2>2
<1>9. Disk!Finish(k)
  BY <1>1, <1>2, LoopEnds DEF ProgramPage
<1>10. sent' = sent
  BY DEF ProgramPage
<1>11. Disk!ServeWrite(k, ciph, gone)
  BY <1>4, <1>6, <1>8, <1>9, <1>10, Zenon
     DEF Disk!ServeWrite, Disk!Stored, Disk!Run, Disk!Lbas, Lbas, ReqNow, OpNow, DiskNow
<1>12. k \in 1 .. ReqNow.left /\ ciph \in SUBSET Disk!Run(k) /\ gone \in SUBSET Disk!Run(k)
  BY <1>1, <1>2, <1>4, <1>6, Piece DEF Disk!Run, ReqNow
<1>. QED BY <1>11, <1>12, Zenon DEF Disk!Serve, ReqNow

\* Allocation and garbage collection are invisible to the host.
LEMMA AssignStutters ==
  ASSUME IInv, NEW b \in Banks,
         \/ AssignNextPage(b) \/ AssignNextBlock(b)
         \/ \E vt \in VBlks : AssignByGc(b, vt)
  PROVE  DiskNow' = DiskNow /\ OpNow' = OpNow /\ ReqNow' = ReqNow /\ sent' = sent
<1>1. pc = "write" /\ pc' = "program" /\ cmd' = cmd /\ sent' = sent
  BY DEF AssignNextPage, AssignNextBlock, AssignByGc
<1>2. OpNow' = OpNow /\ ReqNow' = ReqNow
  BY <1>1 DEF OpNow, ReqNow
<1>3. CASE AssignNextPage(b) \/ AssignNextBlock(b)
  BY <1>1, <1>2, <1>3, SameTables DEF AssignNextPage, AssignNextBlock
<1>4. ASSUME NEW vt \in VBlks, AssignByGc(b, vt)
      PROVE  DiskNow' = DiskNow
  BY <1>4, GcKeeps, SameDisk
<1>. QED BY <1>1, <1>2, <1>3, <1>4

\* Every step is a step of the disk or leaves it as it is.
LEMMA DiskStep ==
  ASSUME IInv, [Next]_vars
  PROVE  [Disk!DNext]_Disk!dvars
<1>1. ASSUME DiskNow' = DiskNow, OpNow' = OpNow, ReqNow' = ReqNow, sent' = sent
      PROVE  UNCHANGED Disk!dvars
  BY <1>1, Zenon DEF Disk!dvars, DiskNow, OpNow, ReqNow
<1>2. CASE UNCHANGED vars
  <2>1. DiskNow' = DiskNow
    BY <1>2, SameTables DEF vars, meta
  <2>2. OpNow' = OpNow /\ ReqNow' = ReqNow /\ sent' = sent
    BY <1>2 DEF OpNow, ReqNow, vars
  <2>. QED BY <1>1, <2>1, <2>2
<1>3. ASSUME NEW lba \in Lbas, NEW n \in 1 .. MaxSectors, ftl_read(lba, n)
      PROVE  Disk!DNext
  BY <1>3, AcceptStep, Zenon DEF Disk!DNext, Disk!Lbas, Lbas
<1>4. ASSUME NEW lba \in Lbas, NEW n \in 1 .. MaxSectors, NEW d \in Data, ftl_write(lba, n, d)
      PROVE  Disk!DNext
  BY <1>4, AcceptStep, Zenon DEF Disk!DNext, Disk!Lbas, Lbas
<1>5. CASE ReadPage
  BY <1>5, ReadServes DEF Disk!DNext
<1>6. ASSUME NEW enc \in SUBSET Sectors, NEW lost \in SUBSET Sectors, ProgramPage(enc, lost)
      PROVE  Disk!DNext
  BY <1>6, ProgramServes DEF Disk!DNext
<1>7. ASSUME NEW b \in Banks,
             \/ AssignNextPage(b) \/ AssignNextBlock(b)
             \/ \E vt \in VBlks : AssignByGc(b, vt)
      PROVE  UNCHANGED Disk!dvars
  BY <1>1, <1>7, AssignStutters
<1>. QED BY <1>2, <1>3, <1>4, <1>5, <1>6, <1>7, Zenon DEF Next

\* The greedy FTL implements the disk: a read returns what was last written, whatever
\* garbage collection has moved in between, but for the sectors of a write that is
\* encrypted, each of which is stored encrypted, or as it came, or is lost (ftl_read,
\* ftl_write, write_page and garbage_collection), as long as there is one bank or the
\* host leaves logical page 0 alone.
THEOREM IsDisk ==
  ASSUME NoPhantom
  PROVE  Spec => ImplementsDisk
<1>1. Init => Disk!DInit
  BY InitDisk
<1>2. IInv /\ [Next]_vars => [Disk!DNext]_Disk!dvars
  BY DiskStep
<1>. QED BY <1>1, <1>2, Invariance, PTL DEF Spec, ImplementsDisk, Disk!DSpec
=============================================================================
