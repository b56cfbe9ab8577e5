---------------------------- MODULE FasterFTLProofs ----------------------------
(***************************************************************************)
(* The block mapping tables of the FASTer FTL: through all merges and      *)
(* swaps every block has one use, and free blocks are erased.  The cursors *)
(* of the log stay on the random-write log blocks; nothing is assumed of   *)
(* the log page mapping table but that a page it does not have reads       *)
(* INVALID, and of the isolation cursors only that they are in the ring.   *)
(***************************************************************************)
EXTENDS FasterFTL, FiniteSetTheorems, SequenceTheorems, TLAPS

DataLbns == 0 .. DataBlks - 1
LogLbns  == 0 .. LogBlks - 1
IsolLbns == 0 .. IsolBlks - 1

\* The places for a block: an entry of one of the four tables.
Places ==
  ({"data"} \X DataLbns) \cup ({"log"} \X (0 .. RwLogBlks)) \cup ({"isol"} \X IsolLbns) \cup ({"free"} \X {1, 2})

BlockAt(d, l, i, f) ==
  [x \in Places |-> IF x[1] = "data" THEN d[x[2]] ELSE IF x[1] = "log" THEN l[x[2]]
                    ELSE IF x[1] = "isol" THEN i[x[2]] ELSE f[x[2]]]

\* Every place has a block, every block one place.
OneToOne(t) ==
  /\ \A x, y \in Places : t[x] = t[y] => x = y
  /\ {t[x] : x \in Places} = Vblks

Assigned(d, l, i, f) ==
  /\ d \in [DataLbns -> Vblks] /\ l \in [LogLbns -> Vblks \cup {INVALID}] /\ i \in [IsolLbns -> Vblks]
  /\ f \in Seq(Vblks) /\ Len(f) = 2
  /\ \A n \in LogLbns : l[n] = INVALID <=> n > RwLogBlks
  /\ OneToOne(BlockAt(d, l, i, f))

FreeErased(f, fl) ==
  /\ DOMAIN fl = Vblks
  /\ \A k \in {1, 2} : \A p \in Pages : fl[f[k]][p] = Erased

\* The random-write cursor is a page of a random-write log block but the last page of
\* the last one, or the last page of the sequential log block, where it starts.
RwCursor(lpn) ==
  /\ lpn \in Nat /\ lpn \div PagesPerBlk \in 0 .. RwLogBlks
  /\ lpn \div PagesPerBlk = 0 => lpn % PagesPerBlk = PagesPerBlk - 1
  /\ lpn \div PagesPerBlk = RwLogBlks => lpn % PagesPerBlk # PagesPerBlk - 1

Steps == {"idle", "append", "detect", "copy", "assign", "gc", "split", "program",
          "switch", "merge", "tune", "full", "victim", "assert"}

CursorsOK ==
  /\ pc \in Steps /\ req \in Request /\ todo \in Seq(SUBSET Request)
  /\ RwCursor(cur_write_rwlog_lpn)
  /\ sw.off \in -1 .. PagesPerBlk - 1 /\ sw.lbn \in DataLbns \cup {INVALID}
  /\ sw = [off |-> sw.off, lbn |-> sw.lbn]
  /\ sw.lbn = INVALID => sw.off = -1
  /\ pc = "append" => sw.off + 1 = get_data_offset(req.lpn) /\ sw.lbn = get_data_lbn(req.lpn)
  /\ pc = "program" => new_log_lpn \in Nat /\ new_log_lpn \div PagesPerBlk \in 0 .. RwLogBlks
  /\ pc = "switch" => sw.off = PagesPerBlk - 1
  /\ cur_write_isol_lpn \in -1 .. IsolBlks * PagesPerBlk - 1
  /\ cur_vt_isol_lpn \in -1 .. IsolBlks * PagesPerBlk - 1
  /\ pc = "victim" => cur_vt_isol_lpn >= 0 /\ VtDataLpn \in Lpns

Blocks == Assigned(data_bmt, log_bmt, isol_bmt, free_bmt)
Unused == FreeErased(free_bmt, flash)

IInv == Blocks /\ Unused /\ CursorsOK

-----------------------------------------------------------------------------
(***************************************************************************)
(* The constants, and arithmetic of page numbers.                          *)
(***************************************************************************)
\* What the proofs use of the constants.
LEMMA Sizes ==
  /\ PagesPerBlk \in Nat /\ PagesPerBlk >= 4
  /\ DataBlks \in Nat \ {0} /\ LogBlks \in Nat \ {0} /\ IsolBlks \in Nat \ {0}
  /\ RwLogBlks \in Nat \ {0} /\ RwLogBlks < LogBlks
  /\ INVALID \notin Vblks /\ Erased \notin Lpns \cup {Old, Blank, List, Spoiled}
  BY FasterAssumption DEF FasterAssumption, RwLogBlks

\* Division with remainder.
LEMMA DivMod ==
  ASSUME NEW n \in Nat, NEW d \in Nat \ {0}
  PROVE  n \div d \in Nat /\ n % d \in 0 .. d - 1 /\ n = d * (n \div d) + (n % d)
<1>1. n % d \in 0 .. d - 1
  OBVIOUS
<1>2. n = d * (n \div d) + (n % d)
  OBVIOUS
<1>3. n \div d \in Int
  OBVIOUS
<1>4. ASSUME n \div d < 0 PROVE FALSE
  <2>1. d * (n \div d) <= d * (-1)
    BY <1>3, <1>4
  <2>. QED BY <1>1, <1>2, <1>3, <2>1
<1>. QED BY <1>1, <1>2, <1>3, <1>4

\* Quotient and remainder are determined by the sum.
LEMMA DivModIs ==
  ASSUME NEW d \in Nat \ {0}, NEW q \in Nat, NEW r \in 0 .. d - 1
  PROVE  (d * q + r) \div d = q /\ (d * q + r) % d = r
  OBVIOUS

\* The first page of a block, and the last page of the block before.
LEMMA BlockEnds ==
  ASSUME NEW q \in Nat
  PROVE  /\ q * PagesPerBlk \in Nat
         /\ (q * PagesPerBlk) \div PagesPerBlk = q /\ (q * PagesPerBlk) % PagesPerBlk = 0
         /\ q > 0 => /\ q * PagesPerBlk - 1 \in Nat
                     /\ (q * PagesPerBlk - 1) \div PagesPerBlk = q - 1
                     /\ (q * PagesPerBlk - 1) % PagesPerBlk = PagesPerBlk - 1
<1> DEFINE d == PagesPerBlk
<1>1. d \in Nat \ {0} /\ 0 \in 0 .. d - 1 /\ d - 1 \in 0 .. d - 1
  BY Sizes
<1> HIDE DEF d
<1>2. (d * q + 0) \div d = q /\ (d * q + 0) % d = 0
  BY <1>1, DivModIs
<1>3. q * d \in Nat /\ q * d = d * q + 0
  BY <1>1
<1>4. ASSUME q > 0
      PROVE  q * d - 1 \in Nat /\ (q * d - 1) \div d = q - 1 /\ (q * d - 1) % d = d - 1
  <2>1. q - 1 \in Nat
    BY <1>4
  <2>2. (d * (q - 1) + (d - 1)) \div d = q - 1 /\ (d * (q - 1) + (d - 1)) % d = d - 1
    BY <1>1, <2>1, DivModIs
  <2>3. d * (q - 1) = d * q - d /\ d * q = q * d
    BY <1>1
  <2>4. d * (q - 1) \in Nat
    BY <1>1, <2>1
  <2>5. d * (q - 1) + (d - 1) = q * d - 1 /\ q * d - 1 \in Nat
    BY <1>1, <1>3, <2>3, <2>4
  <2>. QED BY <2>2, <2>5
<1>. QED BY <1>2, <1>3, <1>4 DEF d

\* The next page is in the same block, or it starts the next one.
LEMMA NextPage ==
  ASSUME NEW n \in Nat
  PROVE  IF n % PagesPerBlk = PagesPerBlk - 1
         THEN (n + 1) \div PagesPerBlk = n \div PagesPerBlk + 1 /\ (n + 1) % PagesPerBlk = 0
         ELSE (n + 1) \div PagesPerBlk = n \div PagesPerBlk /\ (n + 1) % PagesPerBlk = (n % PagesPerBlk) + 1
<1> DEFINE d == PagesPerBlk
<1>1. PICK q, r : q = n \div d /\ r = n % d
  OBVIOUS
<1>2. d \in Nat \ {0} /\ q \in Nat /\ r \in 0 .. d - 1 /\ n = d * q + r
  BY <1>1, Sizes, DivMod
<1> HIDE DEF d
<1>3. CASE r = d - 1
  <2>1. d * (q + 1) = d * q + d /\ q + 1 \in Nat /\ 0 \in 0 .. d - 1
    BY <1>2
  <2>2. (d * (q + 1) + 0) \div d = q + 1 /\ (d * (q + 1) + 0) % d = 0
    BY <1>2, <2>1, DivModIs
  <2>3. d * (q + 1) + 0 = n + 1
    BY <1>2, <1>3, <2>1
  <2>. QED BY <1>1, <1>3, <2>2, <2>3 DEF d
<1>4. CASE r # d - 1
  <2>1. r + 1 \in 0 .. d - 1
    BY <1>2, <1>4
  <2>2. (d * q + (r + 1)) \div d = q /\ (d * q + (r + 1)) % d = r + 1
    BY <1>2, <2>1, DivModIs
  <2>3. d * q + (r + 1) = n + 1
    BY <1>2
  <2>. QED BY <1>1, <1>4, <2>2, <2>3 DEF d
<1>. QED BY <1>3, <1>4

\* A page number below that of a block is in a block before it.
LEMMA BlockBelow ==
  ASSUME NEW k \in Nat, NEW n \in 0 .. k * PagesPerBlk - 1
  PROVE  n \div PagesPerBlk \in 0 .. k - 1 /\ n % PagesPerBlk \in Pages
<1> DEFINE d == PagesPerBlk
<1>1. d \in Nat \ {0} /\ k * d \in Nat
  BY Sizes
<1>2. PICK q, r : q = n \div d /\ r = n % d
  OBVIOUS
<1> HIDE DEF d
<1>3. n \in Nat /\ n < k * d
  BY <1>1 DEF d
<1>4. q \in Nat /\ r \in 0 .. d - 1 /\ n = d * q + r
  BY <1>1, <1>2, <1>3, DivMod
<1>5. ASSUME q >= k PROVE FALSE
  <2>1. d * q >= d * k /\ d * k = k * d
    BY <1>1, <1>4, <1>5
  <2>. QED BY <1>1, <1>3, <1>4, <2>1
<1>. QED BY <1>2, <1>4, <1>5 DEF d, Pages

\* A page of a block, by the number of the block and the page in it.
LEMMA PageAbove ==
  ASSUME NEW k \in Nat, NEW q \in 0 .. k - 1, NEW r \in Pages
  PROVE  /\ q * PagesPerBlk + r \in 0 .. k * PagesPerBlk - 1
         /\ (q * PagesPerBlk + r) \div PagesPerBlk = q /\ (q * PagesPerBlk + r) % PagesPerBlk = r
<1> DEFINE d == PagesPerBlk
<1>1. d \in Nat \ {0} /\ r \in 0 .. d - 1
  BY Sizes DEF Pages
<1> HIDE DEF d
<1>2. (d * q + r) \div d = q /\ (d * q + r) % d = r
  BY <1>1, DivModIs
<1>3. q * d = d * q /\ q * d \in Nat /\ k * d \in Nat
  BY <1>1
<1>4. (q + 1) * d <= k * d /\ (q + 1) * d = q * d + d
  BY <1>1
<1>5. q * d + r \in 0 .. k * d - 1
  BY <1>1, <1>3, <1>4
<1>. QED BY <1>2, <1>3, <1>5 DEF d

\* Wrapping around keeps a page in the isolation ring.
LEMMA WrapIn ==
  ASSUME NEW n \in Nat
  PROVE  /\ Wrap(n) \in 0 .. IsolBlks * PagesPerBlk - 1
         /\ get_log_lbn(Wrap(n)) \in IsolLbns
<1>1. PICK m : m = IsolBlks * PagesPerBlk
  OBVIOUS
<1>2. m \in Nat \ {0}
  BY <1>1, Sizes
<1>3. n % m \in 0 .. m - 1
  BY <1>2
<1>4. Wrap(n) \in 0 .. IsolBlks * PagesPerBlk - 1
  BY <1>1, <1>3 DEF Wrap
<1>5. IsolBlks \in Nat
  BY Sizes
<1>. QED BY <1>4, <1>5, BlockBelow DEF get_log_lbn, IsolLbns
-----------------------------------------------------------------------------
(***************************************************************************)
(* Blocks in places.                                                       *)
(***************************************************************************)
\* Three places that pass their blocks round leave every block with one place.
LEMMA Rotated ==
  ASSUME NEW t, NEW u, OneToOne(t),
         NEW x \in Places, NEW y \in Places, NEW z \in Places, x # y, y # z, x # z,
         u[x] = t[y], u[y] = t[z], u[z] = t[x],
         \A w \in Places \ {x, y, z} : u[w] = t[w]
  PROVE  OneToOne(u)
<1>1. \A v, w \in Places : u[v] = u[w] => v = w
  BY DEF OneToOne
<1>2. {u[w] : w \in Places} = {t[w] : w \in Places}
  OBVIOUS
<1>. QED BY <1>1, <1>2 DEF OneToOne

\* So do two that exchange them.
LEMMA Exchanged ==
  ASSUME NEW t, NEW u, OneToOne(t),
         NEW x \in Places, NEW y \in Places, x # y, u[x] = t[y], u[y] = t[x],
         \A w \in Places \ {x, y} : u[w] = t[w]
  PROVE  OneToOne(u)
<1>1. \A v, w \in Places : u[v] = u[w] => v = w
  BY DEF OneToOne
<1>2. {u[w] : w \in Places} = {t[w] : w \in Places}
  OBVIOUS
<1>. QED BY <1>1, <1>2 DEF OneToOne

\* The queue of free blocks after a swap: the second one is first, the new one second.
LEMMA SwappedIs ==
  ASSUME NEW f \in Seq(Vblks), Len(f) = 2, NEW v \in Vblks
  PROVE  /\ Swapped(f, v) \in Seq(Vblks) /\ Len(Swapped(f, v)) = 2
         /\ Swapped(f, v)[1] = f[2] /\ Swapped(f, v)[2] = v
         /\ Head(f) = f[1] /\ f[1] \in Vblks /\ f[2] \in Vblks
<1>1. f[1] \in Vblks /\ f[2] \in Vblks /\ Head(f) = f[1]
  <2>1. 1 \in 1 .. Len(f) /\ 2 \in 1 .. Len(f)
    OBVIOUS
  <2>2. f[1] \in Vblks /\ f[2] \in Vblks
    BY <2>1, ElementOfSeq
  <2>. QED BY <2>2
<1>2. PICK g : g = Tail(f)
  OBVIOUS
<1>3. g \in Seq(Vblks) /\ Len(g) = 1 /\ g[1] = f[2]
  BY SMTT(30), <1>2
<1>4. Append(g, v) \in Seq(Vblks) /\ Len(Append(g, v)) = 2 /\ Append(g, v)[1] = g[1] /\ Append(g, v)[2] = v
  BY <1>3, AppendProperties
<1>. QED BY <1>1, <1>2, <1>3, <1>4 DEF Swapped

\* The places of the tables.
LEMMA PlacesAre ==
  /\ \A a \in DataLbns : <<"data", a>> \in Places
  /\ \A a \in 0 .. RwLogBlks : <<"log", a>> \in Places
  /\ \A a \in IsolLbns : <<"isol", a>> \in Places
  /\ <<"free", 1>> \in Places /\ <<"free", 2>> \in Places
  /\ \A x \in Places : \/ \E a \in DataLbns : x = <<"data", a>>
                       \/ \E a \in 0 .. RwLogBlks : x = <<"log", a>>
                       \/ \E a \in IsolLbns : x = <<"isol", a>>
                       \/ x = <<"free", 1>> \/ x = <<"free", 2>>
  BY DEF Places

\* What is in a place.
LEMMA BlockAtIs ==
  ASSUME NEW d, NEW l, NEW i, NEW f
  PROVE  /\ \A a \in DataLbns : BlockAt(d, l, i, f)[<<"data", a>>] = d[a]
         /\ \A a \in 0 .. RwLogBlks : BlockAt(d, l, i, f)[<<"log", a>>] = l[a]
         /\ \A a \in IsolLbns : BlockAt(d, l, i, f)[<<"isol", a>>] = i[a]
         /\ BlockAt(d, l, i, f)[<<"free", 1>>] = f[1] /\ BlockAt(d, l, i, f)[<<"free", 2>>] = f[2]
  BY PlacesAre DEF BlockAt

\* A data block that is given up for the first free block.
LEMMA DataSwapped ==
  ASSUME NEW d, NEW l, NEW i, NEW f, Assigned(d, l, i, f), NEW a \in DataLbns
  PROVE  Assigned([d EXCEPT ![a] = Head(f)], l, i, Swapped(f, d[a]))
<1>1. PICK e, g : e = [d EXCEPT ![a] = Head(f)] /\ g = Swapped(f, d[a])
  OBVIOUS
<1>2. /\ g \in Seq(Vblks) /\ Len(g) = 2 /\ g[1] = f[2] /\ g[2] = d[a]
      /\ e \in [DataLbns -> Vblks] /\ e[a] = f[1] /\ \A b \in DataLbns \ {a} : e[b] = d[b]
  BY <1>1, SwappedIs DEF Assigned
<1>3. PICK t, u : t = BlockAt(d, l, i, f) /\ u = BlockAt(e, l, i, g)
  OBVIOUS
<1>4. u[<<"data", a>>] = t[<<"free", 1>>] /\ u[<<"free", 1>>] = t[<<"free", 2>>] /\ u[<<"free", 2>>] = t[<<"data", a>>]
  BY <1>2, <1>3, BlockAtIs
<1>5. \A w \in Places \ {<<"data", a>>, <<"free", 1>>, <<"free", 2>>} : u[w] = t[w]
  <2>1. ASSUME NEW w \in Places \ {<<"data", a>>, <<"free", 1>>, <<"free", 2>>} PROVE u[w] = t[w]
    <3>1. CASE \E b \in DataLbns : w = <<"data", b>>
      BY <1>2, <1>3, <2>1, <3>1, BlockAtIs
    <3>2. CASE \E b \in 0 .. RwLogBlks : w = <<"log", b>>
      BY <1>3, <3>2, BlockAtIs
    <3>3. CASE \E b \in IsolLbns : w = <<"isol", b>>
      BY <1>3, <3>3, BlockAtIs
    <3>. QED BY <2>1, <3>1, <3>2, <3>3, PlacesAre
  <2>. QED BY <2>1
<1>6. <<"data", a>> # <<"free", 1>> /\ <<"free", 1>> # <<"free", 2>> /\ <<"data", a>> # <<"free", 2>>
  OBVIOUS
<1>7. OneToOne(t)
  BY <1>3 DEF Assigned
<1>8. OneToOne(u)
  <2>1. PICK x, y, z : x = <<"data", a>> /\ y = <<"free", 1>> /\ z = <<"free", 2>>
    OBVIOUS
  <2>2. x \in Places /\ y \in Places /\ z \in Places
    BY <2>1, PlacesAre
  <2>3. x # y /\ y # z /\ x # z /\ u[x] = t[y] /\ u[y] = t[z] /\ u[z] = t[x]
    BY <1>4, <1>6, <2>1
  <2>4. \A w \in Places \ {x, y, z} : u[w] = t[w]
    BY <1>5, <2>1
  <2>. QED BY <1>7, <2>2, <2>3, <2>4, Rotated
<1>. QED BY <1>1, <1>2, <1>3, <1>8 DEF Assigned

\* A log block that is given up for the first free block.
LEMMA LogSwapped ==
  ASSUME NEW d, NEW l, NEW i, NEW f, Assigned(d, l, i, f), NEW a \in 0 .. RwLogBlks
  PROVE  Assigned(d, [l EXCEPT ![a] = Head(f)], i, Swapped(f, l[a]))
<1>1. PICK e, g : e = [l EXCEPT ![a] = Head(f)] /\ g = Swapped(f, l[a])
  OBVIOUS
<1>. a \in LogLbns /\ a <= RwLogBlks
  BY Sizes DEF LogLbns
<1>. l[a] \in Vblks
  BY Sizes DEF Assigned, LogLbns
<1>2. /\ g \in Seq(Vblks) /\ Len(g) = 2 /\ g[1] = f[2] /\ g[2] = l[a]
      /\ e \in [LogLbns -> Vblks \cup {INVALID}] /\ e[a] = f[1] /\ f[1] # INVALID
      /\ \A b \in LogLbns \ {a} : e[b] = l[b]
  BY <1>1, SwappedIs, Sizes DEF Assigned
<1>3. PICK t, u : t = BlockAt(d, l, i, f) /\ u = BlockAt(d, e, i, g)
  OBVIOUS
<1>4. u[<<"log", a>>] = t[<<"free", 1>>] /\ u[<<"free", 1>>] = t[<<"free", 2>>] /\ u[<<"free", 2>>] = t[<<"log", a>>]
  BY <1>2, <1>3, BlockAtIs
<1>5. \A w \in Places \ {<<"log", a>>, <<"free", 1>>, <<"free", 2>>} : u[w] = t[w]
  <2>1. ASSUME NEW w \in Places \ {<<"log", a>>, <<"free", 1>>, <<"free", 2>>} PROVE u[w] = t[w]
    <3>1. CASE \E b \in DataLbns : w = <<"data", b>>
      BY <1>3, <3>1, BlockAtIs
    <3>2. CASE \E b \in 0 .. RwLogBlks : w = <<"log", b>>
      <4>1. PICK b \in 0 .. RwLogBlks : w = <<"log", b>>
        BY <3>2
      <4>2. b \in LogLbns \ {a}
        BY <2>1, <4>1, Sizes DEF LogLbns
      <4>3. e[b] = l[b]
        BY <1>2, <4>2
      <4>4. u[w] = e[b] /\ t[w] = l[b]
        BY <1>3, <4>1, BlockAtIs
      <4>. QED BY <4>3, <4>4
    <3>3. CASE \E b \in IsolLbns : w = <<"isol", b>>
      BY <1>3, <3>3, BlockAtIs
    <3>. QED BY <2>1, <3>1, <3>2, <3>3, PlacesAre
  <2>. QED BY <2>1
<1>6. <<"log", a>> # <<"free", 1>> /\ <<"free", 1>> # <<"free", 2>> /\ <<"log", a>> # <<"free", 2>>
  OBVIOUS
<1>7. OneToOne(t)
  BY <1>3 DEF Assigned
<1>8. OneToOne(u)
  <2>1. PICK x, y, z : x = <<"log", a>> /\ y = <<"free", 1>> /\ z = <<"free", 2>>
    OBVIOUS
  <2>2. x \in Places /\ y \in Places /\ z \in Places
    BY <2>1, PlacesAre
  <2>3. x # y /\ y # z /\ x # z /\ u[x] = t[y] /\ u[y] = t[z] /\ u[z] = t[x]
    BY <1>4, <1>6, <2>1
  <2>4. \A w \in Places \ {x, y, z} : u[w] = t[w]
    BY <1>5, <2>1
  <2>. QED BY <1>7, <2>2, <2>3, <2>4, Rotated
<1>9. \A n \in LogLbns : e[n] = INVALID <=> n > RwLogBlks
  <2>1. \A n \in LogLbns : l[n] = INVALID <=> n > RwLogBlks
    BY DEF Assigned
  <2>2. ~(a > RwLogBlks)
    BY Sizes
  <2>. QED BY <1>2, <2>1, <2>2
<1>. QED BY <1>1, <1>2, <1>3, <1>8, <1>9 DEF Assigned

\* An isolation block that is given up for the first free block.
LEMMA IsolSwapped ==
  ASSUME NEW d, NEW l, NEW i, NEW f, Assigned(d, l, i, f), NEW a \in IsolLbns
  PROVE  Assigned(d, l, [i EXCEPT ![a] = Head(f)], Swapped(f, i[a]))
<1>1. PICK e, g : e = [i EXCEPT ![a] = Head(f)] /\ g = Swapped(f, i[a])
  OBVIOUS
<1>2. /\ g \in Seq(Vblks) /\ Len(g) = 2 /\ g[1] = f[2] /\ g[2] = i[a]
      /\ e \in [IsolLbns -> Vblks] /\ e[a] = f[1] /\ \A b \in IsolLbns \ {a} : e[b] = i[b]
  BY <1>1, SwappedIs DEF Assigned
<1>3. PICK t, u : t = BlockAt(d, l, i, f) /\ u = BlockAt(d, l, e, g)
  OBVIOUS
<1>4. u[<<"isol", a>>] = t[<<"free", 1>>] /\ u[<<"free", 1>>] = t[<<"free", 2>>] /\ u[<<"free", 2>>] = t[<<"isol", a>>]
  BY <1>2, <1>3, BlockAtIs
<1>5. \A w \in Places \ {<<"isol", a>>, <<"free", 1>>, <<"free", 2>>} : u[w] = t[w]
  <2>1. ASSUME NEW w \in Places \ {<<"isol", a>>, <<"free", 1>>, <<"free", 2>>} PROVE u[w] = t[w]
    <3>1. CASE \E b \in DataLbns : w = <<"data", b>>
      BY <1>3, <3>1, BlockAtIs
    <3>2. CASE \E b \in 0 .. RwLogBlks : w = <<"log", b>>
      BY <1>3, <3>2, BlockAtIs
    <3>3. CASE \E b \in IsolLbns : w = <<"isol", b>>
      BY <1>2, <1>3, <2>1, <3>3, BlockAtIs
    <3>. QED BY <2>1, <3>1, <3>2, <3>3, PlacesAre
  <2>. QED BY <2>1
<1>6. <<"isol", a>> # <<"free", 1>> /\ <<"free", 1>> # <<"free", 2>> /\ <<"isol", a>> # <<"free", 2>>
  OBVIOUS
<1>7. OneToOne(t)
  BY <1>3 DEF Assigned
<1>8. OneToOne(u)
  <2>1. PICK x, y, z : x = <<"isol", a>> /\ y = <<"free", 1>> /\ z = <<"free", 2>>
    OBVIOUS
  <2>2. x \in Places /\ y \in Places /\ z \in Places
    BY <2>1, PlacesAre
  <2>3. x # y /\ y # z /\ x # z /\ u[x] = t[y] /\ u[y] = t[z] /\ u[z] = t[x]
    BY <1>4, <1>6, <2>1
  <2>4. \A w \in Places \ {x, y, z} : u[w] = t[w]
    BY <1>5, <2>1
  <2>. QED BY <1>7, <2>2, <2>3, <2>4, Rotated
<1>. QED BY <1>1, <1>2, <1>3, <1>8 DEF Assigned

\* The sequential log block becomes a data block, and a free block takes its place.
LEMMA SwBlockSwapped ==
  ASSUME NEW d, NEW l, NEW i, NEW f, Assigned(d, l, i, f), NEW a \in DataLbns
  PROVE  Assigned([d EXCEPT ![a] = l[SW_LOG_LBN]], [l EXCEPT ![SW_LOG_LBN] = Head(f)], i, Swapped(f, d[a]))
<1>1. PICK e, m : e = [d EXCEPT ![a] = l[0]] /\ m = [l EXCEPT ![0] = d[a]]
  OBVIOUS
<1>2. 0 \in LogLbns /\ 0 \in 0 .. RwLogBlks /\ l[0] \in Vblks /\ d[a] \in Vblks /\ d[a] # INVALID
  BY Sizes DEF LogLbns, Assigned
<1>3. /\ e \in [DataLbns -> Vblks] /\ e[a] = l[0] /\ \A b \in DataLbns \ {a} : e[b] = d[b]
      /\ m \in [LogLbns -> Vblks \cup {INVALID}] /\ m[0] = d[a] /\ \A b \in LogLbns \ {0} : m[b] = l[b]
  BY <1>1, <1>2 DEF Assigned
<1>4. PICK t, u : t = BlockAt(d, l, i, f) /\ u = BlockAt(e, m, i, f)
  OBVIOUS
<1>5. u[<<"data", a>>] = t[<<"log", 0>>] /\ u[<<"log", 0>>] = t[<<"data", a>>]
  BY <1>2, <1>3, <1>4, BlockAtIs
<1>6. \A w \in Places \ {<<"data", a>>, <<"log", 0>>} : u[w] = t[w]
  <2>1. ASSUME NEW w \in Places \ {<<"data", a>>, <<"log", 0>>} PROVE u[w] = t[w]
    <3>1. CASE \E b \in DataLbns : w = <<"data", b>>
      BY <1>3, <1>4, <2>1, <3>1, BlockAtIs
    <3>2. CASE \E b \in 0 .. RwLogBlks : w = <<"log", b>>
      <4>1. PICK b \in 0 .. RwLogBlks : w = <<"log", b>>
        BY <3>2
      <4>2. b \in LogLbns \ {0}
        BY <2>1, <4>1, Sizes DEF LogLbns
      <4>. QED BY <1>3, <1>4, <4>1, <4>2, BlockAtIs
    <3>3. CASE \E b \in IsolLbns : w = <<"isol", b>>
      BY <1>4, <3>3, BlockAtIs
    <3>4. CASE w = <<"free", 1>> \/ w = <<"free", 2>>
      BY <1>4, <3>4, BlockAtIs
    <3>. QED BY <3>1, <3>2, <3>3, <3>4, PlacesAre
  <2>. QED BY <2>1
<1>7. <<"data", a>> # <<"log", 0>>
  OBVIOUS
<1>8. OneToOne(t)
  BY <1>4 DEF Assigned
<1>9. OneToOne(u)
  BY <1>2, <1>5, <1>6, <1>7, <1>8, PlacesAre, Exchanged
<1>10. \A n \in LogLbns : m[n] = INVALID <=> n > RwLogBlks
  BY <1>2, <1>3, Sizes DEF Assigned
<1>11. Assigned(e, m, i, f)
  BY <1>3, <1>4, <1>9, <1>10 DEF Assigned
<1>12. Assigned(e, [m EXCEPT ![0] = Head(f)], i, Swapped(f, m[0]))
  BY <1>2, <1>11, LogSwapped
<1>13. [m EXCEPT ![0] = Head(f)] = [l EXCEPT ![0] = Head(f)]
  BY <1>1, <1>2 DEF Assigned
<1>. QED BY <1>1, <1>3, <1>12, <1>13 DEF SW_LOG_LBN
\* No block of another table is free, and the two free blocks differ.
LEMMA PlacesApart ==
  ASSUME NEW d, NEW l, NEW i, NEW f, Assigned(d, l, i, f)
  PROVE  /\ \A a \in DataLbns : d[a] \in Vblks /\ d[a] # f[1] /\ d[a] # f[2]
         /\ \A a \in 0 .. RwLogBlks : l[a] \in Vblks /\ l[a] # f[1] /\ l[a] # f[2]
         /\ \A a \in IsolLbns : i[a] \in Vblks /\ i[a] # f[1] /\ i[a] # f[2]
         /\ f[1] \in Vblks /\ f[2] \in Vblks /\ f[1] # f[2] /\ Head(f) = f[1]
         /\ \A a \in DataLbns, b \in 0 .. RwLogBlks : d[a] # l[b]
<1>1. PICK t : t = BlockAt(d, l, i, f)
  OBVIOUS
<1>2. /\ \A a \in DataLbns : t[<<"data", a>>] = d[a]
      /\ \A a \in 0 .. RwLogBlks : t[<<"log", a>>] = l[a]
      /\ \A a \in IsolLbns : t[<<"isol", a>>] = i[a]
      /\ t[<<"free", 1>>] = f[1] /\ t[<<"free", 2>>] = f[2]
  BY <1>1, BlockAtIs
<1>3. OneToOne(t)
  BY <1>1 DEF Assigned
<1>4. \A x \in Places : t[x] \in Vblks
  BY <1>3 DEF OneToOne
<1>5. \A x, y \in Places : t[x] = t[y] => x = y
  BY <1>3 DEF OneToOne
<1>6. ASSUME NEW a \in DataLbns
      PROVE  d[a] \in Vblks /\ d[a] # f[1] /\ d[a] # f[2] /\ \A b \in 0 .. RwLogBlks : d[a] # l[b]
  <2>1. <<"data", a>> \in Places /\ \A b \in 0 .. RwLogBlks : <<"log", b>> \in Places
    BY PlacesAre
  <2>2. <<"data", a>> # <<"free", 1>> /\ <<"data", a>> # <<"free", 2>> /\ \A b : <<"data", a>> # <<"log", b>>
    OBVIOUS
  <2>3. d[a] \in Vblks /\ d[a] # f[1] /\ d[a] # f[2]
    BY <1>2, <1>4, <1>5, <2>1, <2>2, PlacesAre
  <2>4. ASSUME NEW b \in 0 .. RwLogBlks PROVE d[a] # l[b]
    <3>1. t[<<"data", a>>] = d[a] /\ t[<<"log", b>>] = l[b]
      BY <1>2
    <3>2. <<"data", a>> \in Places /\ <<"log", b>> \in Places /\ <<"data", a>> # <<"log", b>>
      BY <2>1
    <3>. QED BY <1>5, <3>1, <3>2
  <2>. QED BY <2>3, <2>4
<1>7. ASSUME NEW a \in 0 .. RwLogBlks PROVE l[a] \in Vblks /\ l[a] # f[1] /\ l[a] # f[2]
  <2>1. <<"log", a>> \in Places /\ <<"log", a>> # <<"free", 1>> /\ <<"log", a>> # <<"free", 2>>
    BY PlacesAre
  <2>. QED BY <1>2, <1>4, <1>5, <2>1, PlacesAre
<1>8. ASSUME NEW a \in IsolLbns PROVE i[a] \in Vblks /\ i[a] # f[1] /\ i[a] # f[2]
  <2>1. <<"isol", a>> \in Places /\ <<"isol", a>> # <<"free", 1>> /\ <<"isol", a>> # <<"free", 2>>
    BY PlacesAre
  <2>. QED BY <1>2, <1>4, <1>5, <2>1, PlacesAre
<1>9. f[1] \in Vblks /\ f[2] \in Vblks /\ f[1] # f[2]
  <2>1. <<"free", 1>> # <<"free", 2>>
    OBVIOUS
  <2>. QED BY <1>2, <1>4, <1>5, <2>1, PlacesAre
<1>10. Head(f) = f[1]
  BY <1>9, SwappedIs DEF Assigned
<1>. QED BY <1>6, <1>7, <1>8, <1>9, <1>10

-----------------------------------------------------------------------------
(***************************************************************************)
(* The flash.                                                              *)
(***************************************************************************)
\* Copies to a block leave the others alone.
LEMMA CopiedIs ==
  ASSUME NEW f, DOMAIN f = Vblks, NEW v, NEW src
  PROVE  DOMAIN Copied(f, v, src) = Vblks /\ \A w \in Vblks \ {v} : Copied(f, v, src)[w] = f[w]
  BY DEF Copied

\* So does an erase.
LEMMA BlockErasedIs ==
  ASSUME NEW f, DOMAIN f = Vblks, NEW v \in Vblks
  PROVE  /\ DOMAIN BlockErased(f, v) = Vblks /\ \A w \in Vblks \ {v} : BlockErased(f, v)[w] = f[w]
         /\ \A p \in Pages : BlockErased(f, v)[v][p] = Erased
  BY DEF BlockErased

\* A block that is given up for the first free block was erased, the other free block
\* was left alone.
LEMMA SwapErased ==
  ASSUME NEW f \in Seq(Vblks), Len(f) = 2, NEW fl, FreeErased(f, fl), NEW v \in Vblks,
         NEW g, DOMAIN g = Vblks, g[f[2]] = fl[f[2]], \A p \in Pages : g[v][p] = Erased
  PROVE  FreeErased(Swapped(f, v), g)
<1>1. Swapped(f, v)[1] = f[2] /\ Swapped(f, v)[2] = v
  BY SwappedIs
<1>. QED BY <1>1 DEF FreeErased

\* A step that programs pages of a block in use leaves free blocks erased.
LEMMA UsedProgrammed ==
  ASSUME NEW f, NEW fl, FreeErased(f, fl), NEW g, DOMAIN g = Vblks,
         f[1] \in Vblks, f[2] \in Vblks, NEW v, v # f[1], v # f[2],
         \A w \in Vblks \ {v} : g[w] = fl[w]
  PROVE  FreeErased(f, g)
  BY DEF FreeErased

\* The tables and the flash after a partial or switch merge.
LEMMA MergeSwBlocks ==
  ASSUME Blocks, Unused, sw.lbn \in DataLbns, MergeSw
  PROVE  Blocks' /\ Unused'
<1>1. PICK a, old, v : a = sw.lbn /\ old = data_bmt[a] /\ v = log_bmt[0]
  OBVIOUS
<1>2. PICK f, g, src : /\ f = Copied(flash, v, src) /\ g = BlockErased(f, old)
                       /\ flash' = g
  BY <1>1 DEF MergeSw, SW_LOG_LBN
<1>3. /\ data_bmt' = [data_bmt EXCEPT ![a] = log_bmt[SW_LOG_LBN]]
      /\ log_bmt' = [log_bmt EXCEPT ![SW_LOG_LBN] = Head(free_bmt)]
      /\ free_bmt' = Swapped(free_bmt, data_bmt[a]) /\ isol_bmt' = isol_bmt
  BY <1>1 DEF MergeSw
<1>4. Blocks'
  BY <1>1, <1>3, SwBlockSwapped DEF Blocks
<1>5. /\ old \in Vblks /\ old # free_bmt[2] /\ v # free_bmt[2] /\ free_bmt[2] \in Vblks
      /\ free_bmt \in Seq(Vblks) /\ Len(free_bmt) = 2
  BY <1>1, PlacesApart, Sizes DEF Blocks, Assigned
<1>6. DOMAIN flash = Vblks /\ FreeErased(free_bmt, flash)
  BY DEF Unused, FreeErased
<1>7. DOMAIN f = Vblks /\ \A w \in Vblks \ {v} : f[w] = flash[w]
  BY <1>2, <1>6, CopiedIs
<1>8. DOMAIN g = Vblks /\ (\A w \in Vblks \ {old} : g[w] = f[w]) /\ \A p \in Pages : g[old][p] = Erased
  BY <1>2, <1>5, <1>7, BlockErasedIs
<1>9. g[free_bmt[2]] = flash[free_bmt[2]]
  BY <1>5, <1>7, <1>8
<1>10. FreeErased(Swapped(free_bmt, old), g)
  BY <1>5, <1>6, <1>8, <1>9, SwapErased
<1>11. Unused'
  BY <1>1, <1>2, <1>3, <1>10 DEF Unused
<1>. QED BY <1>4, <1>11
-----------------------------------------------------------------------------
(***************************************************************************)
(* The steps.                                                              *)
(***************************************************************************)
\* The data block of a logical page and its page there.
LEMMA LpnIn ==
  ASSUME NEW lpn \in Lpns
  PROVE  get_data_lbn(lpn) \in DataLbns /\ get_data_offset(lpn) \in Pages
  BY Sizes, BlockBelow DEF Lpns, DataLbns, get_data_lbn, get_data_offset

\* INVALID is no data block.
LEMMA InvalidIs == INVALID \notin DataLbns /\ INVALID \notin Lpns
<1>1. DataLbns \subseteq Lpns
  <2>1. DataBlks * PagesPerBlk >= DataBlks
    BY Sizes
  <2>2. DataBlks * PagesPerBlk \in Nat
    BY Sizes
  <2>. QED BY <2>1, <2>2, Sizes DEF DataLbns, Lpns
<1>2. INVALID \notin Lpns
  BY FasterAssumption, HashAssumption DEF FasterAssumption, HashAssumption
<1>. QED BY <1>1, <1>2

\* Steps that touch neither tables nor flash.
LEMMA TablesKept ==
  ASSUME Blocks, Unused, UNCHANGED <<data_bmt, log_bmt, isol_bmt, free_bmt, flash>>
  PROVE  Blocks' /\ Unused'
  BY DEF Blocks, Unused

\* Steps that move no cursor, and end where nothing is asked of pc.
LEMMA CursorsKept ==
  ASSUME CursorsOK, UNCHANGED <<cur_write_rwlog_lpn, cur_write_isol_lpn, cur_vt_isol_lpn, req, todo>>,
         sw' \in {sw, EmptySw}, pc' \in Steps \ {"append", "program", "switch", "victim"}
  PROVE  CursorsOK'
<1>1. EmptySw.off = -1 /\ EmptySw.lbn = INVALID /\ EmptySw = [off |-> EmptySw.off, lbn |-> EmptySw.lbn]
  BY DEF EmptySw
<1>2. -1 \in -1 .. PagesPerBlk - 1
  BY Sizes
<1>3. CASE sw' = sw
  BY <1>3 DEF CursorsOK
<1>4. CASE sw' = EmptySw
  BY <1>1, <1>2, <1>4 DEF CursorsOK
<1>. QED BY <1>3, <1>4

\* A host write.
LEMMA HostWriteKeeps == ASSUME IInv, NEW r \in Request, write_to_log_block(r) PROVE IInv'
<1>1. UNCHANGED <<data_bmt, log_bmt, isol_bmt, free_bmt, flash, cur_write_rwlog_lpn, cur_write_isol_lpn, cur_vt_isol_lpn, sw>>
  BY DEF write_to_log_block, mapVars, rwVars, isolVars, vtVars, nandVars
<1>2. todo' \in Seq(SUBSET Request)
  BY DEF write_to_log_block, IInv, CursorsOK
<1>3. req' = r /\ pc' \in {"append", "assign", "detect"}
      /\ (pc' = "append" => sw.off + 1 = get_data_offset(r.lpn) /\ sw.lbn = get_data_lbn(r.lpn))
  BY DEF write_to_log_block
<1>4. CursorsOK'
  BY <1>1, <1>2, <1>3 DEF IInv, CursorsOK, Steps
<1>. QED BY <1>1, <1>4, TablesKept DEF IInv

\* A page appended to the sequential log block.
LEMMA AppendToSwKeeps == ASSUME IInv, AppendToSw PROVE IInv'
<1>1. UNCHANGED <<data_bmt, log_bmt, isol_bmt, free_bmt, flash, cur_write_rwlog_lpn, cur_write_isol_lpn,
                  cur_vt_isol_lpn, req, todo>>
  BY DEF AppendToSw, mapVars, rwVars, isolVars, vtVars, nandVars, hostVars
<1>2. req.lpn \in Lpns
  BY DEF IInv, CursorsOK, Request
<1>3. get_data_offset(req.lpn) \in Pages /\ get_data_lbn(req.lpn) \in DataLbns
  BY <1>2, LpnIn
<1>4. PICK n : n = sw.off + 1
  OBVIOUS
<1>5. n \in Pages /\ sw.lbn \in DataLbns /\ pc' = "program" /\ new_log_lpn' = n
  BY <1>3, <1>4 DEF AppendToSw, IInv, CursorsOK
<1>6. sw' = [off |-> n, lbn |-> sw.lbn]
  <2>1. sw = [off |-> sw.off, lbn |-> sw.lbn]
    BY DEF IInv, CursorsOK
  <2>2. sw' = [sw EXCEPT !.off = n]
    BY <1>4 DEF AppendToSw
  <2>. QED BY <2>1, <2>2
<1>7. n \in Nat /\ n \div PagesPerBlk = 0 /\ 0 \in 0 .. RwLogBlks
  <2>1. 0 \in 0 .. 1 - 1 /\ n = 0 * PagesPerBlk + n /\ n \in Nat
    BY <1>5, Sizes DEF Pages
  <2>2. (0 * PagesPerBlk + n) \div PagesPerBlk = 0
    BY <1>5, <2>1, PageAbove
  <2>. QED BY <2>1, <2>2, Sizes
<1>8. sw'.off = n /\ sw'.lbn = sw.lbn /\ n \in -1 .. PagesPerBlk - 1 /\ sw.lbn # INVALID
  BY <1>5, <1>6, InvalidIs DEF Pages
<1>9. CursorsOK'
  BY <1>1, <1>5, <1>6, <1>7, <1>8 DEF IInv, CursorsOK, Steps
<1>. QED BY <1>1, <1>9, TablesKept DEF IInv

\* A merge of another stream's block.
LEMMA MergeOtherStreamKeeps == ASSUME IInv, MergeOtherStream PROVE IInv'
<1>1. MergeSw /\ sw.lbn \in DataLbns /\ sw' = EmptySw
  BY DEF MergeOtherStream, MergeSw, IInv, CursorsOK
<1>2. Blocks' /\ Unused'
  BY <1>1, MergeSwBlocks DEF IInv
<1>3. CursorsOK'
  BY <1>1, CursorsKept DEF IInv, MergeOtherStream, rwVars, isolVars, vtVars, hostVars, Steps
<1>. QED BY <1>2, <1>3 DEF IInv

\* No block of another stream.
LEMMA NoOtherStreamKeeps == ASSUME IInv, NoOtherStream PROVE IInv'
<1>1. Blocks' /\ Unused'
  BY TablesKept DEF IInv, NoOtherStream, mapVars, nandVars
<1>2. CursorsOK'
  BY CursorsKept DEF IInv, NoOtherStream, rwVars, isolVars, vtVars, hostVars, Steps
<1>. QED BY <1>1, <1>2 DEF IInv

\* A page copied to the sequential log block.
LEMMA CopyPageBelowKeeps == ASSUME IInv, CopyPageBelow PROVE IInv'
<1>1. UNCHANGED <<data_bmt, log_bmt, isol_bmt, free_bmt, cur_write_rwlog_lpn, cur_write_isol_lpn,
                  cur_vt_isol_lpn, req, todo, pc>> /\ pc = "copy"
  BY DEF CopyPageBelow, rwVars, isolVars, vtVars, hostVars
<1>2. get_data_offset(req.lpn) \in Pages /\ get_data_lbn(req.lpn) \in DataLbns
  BY LpnIn DEF IInv, CursorsOK, Request
<1>3. PICK off, lbn, lpn : off = sw.off + 1 /\ lbn = get_data_lbn(req.lpn) /\ lpn = lbn * PagesPerBlk + off
  OBVIOUS
<1>4. sw' = [off |-> off, lbn |-> get_data_lbn(lpn)]
      /\ \E src : flash' = Copied(flash, log_bmt[0], src)
  BY <1>3 DEF CopyPageBelow, SW_LOG_LBN
<1>5. off \in Pages /\ lbn \in 0 .. DataBlks - 1
  <2>1. sw.off \in -1 .. PagesPerBlk - 1 /\ PagesPerBlk \in Nat
    BY Sizes DEF IInv, CursorsOK
  <2>2. off < get_data_offset(req.lpn) /\ get_data_offset(req.lpn) \in 0 .. PagesPerBlk - 1
    BY <1>2, <1>3 DEF CopyPageBelow, Pages
  <2>3. off \in 0 .. PagesPerBlk - 1
    BY <1>3, <2>1, <2>2
  <2>. QED BY <1>2, <1>3, <2>3 DEF Pages, DataLbns
<1>6. get_data_lbn(lpn) = lbn
  BY <1>3, <1>5, PageAbove, Sizes DEF get_data_lbn
<1>7. sw'.off \in -1 .. PagesPerBlk - 1 /\ sw'.lbn \in DataLbns /\ sw' = [off |-> sw'.off, lbn |-> sw'.lbn]
  BY <1>4, <1>5, <1>6 DEF Pages, DataLbns
<1>8. CursorsOK'
  BY <1>1, <1>7, InvalidIs DEF IInv, CursorsOK
<1>9. Blocks'
  BY <1>1 DEF IInv, Blocks
<1>10. FreeErased(free_bmt, flash')
  <2>1. PICK src : flash' = Copied(flash, log_bmt[0], src)
    BY <1>4
  <2>2. DOMAIN flash = Vblks /\ FreeErased(free_bmt, flash)
    BY DEF IInv, Unused, FreeErased
  <2>3. DOMAIN flash' = Vblks /\ \A w \in Vblks \ {log_bmt[0]} : flash'[w] = flash[w]
    BY <2>1, <2>2, CopiedIs
  <2>4. 0 \in 0 .. RwLogBlks
    BY Sizes
  <2>5. /\ log_bmt[0] # free_bmt[1] /\ log_bmt[0] # free_bmt[2]
        /\ free_bmt[1] \in Vblks /\ free_bmt[2] \in Vblks
    BY <2>4, PlacesApart DEF IInv, Blocks
  <2>. QED BY <2>2, <2>3, <2>5, UsedProgrammed
<1>. QED BY <1>1, <1>8, <1>9, <1>10 DEF IInv, Unused

\* The first page of a stream that is written by the host.
LEMMA StartStreamKeeps == ASSUME IInv, StartStream PROVE IInv'
<1>1. UNCHANGED <<data_bmt, log_bmt, isol_bmt, free_bmt, flash, cur_write_rwlog_lpn, cur_write_isol_lpn,
                  cur_vt_isol_lpn, req, todo>>
  BY DEF StartStream, mapVars, rwVars, isolVars, vtVars, nandVars, hostVars
<1>2. get_data_offset(req.lpn) \in Pages /\ get_data_lbn(req.lpn) \in DataLbns
  BY LpnIn DEF IInv, CursorsOK, Request
<1>3. PICK n : n = sw.off + 1
  OBVIOUS
<1>4. n \in Pages /\ pc' = "program" /\ new_log_lpn' = n /\ sw' = [off |-> n, lbn |-> get_data_lbn(req.lpn)]
  BY <1>2, <1>3 DEF StartStream
<1>5. n \in Nat /\ n \div PagesPerBlk = 0 /\ 0 \in 0 .. RwLogBlks
  <2>1. 0 \in 0 .. 1 - 1 /\ n = 0 * PagesPerBlk + n /\ n \in Nat
    BY <1>4, Sizes DEF Pages
  <2>2. (0 * PagesPerBlk + n) \div PagesPerBlk = 0
    BY <1>4, <2>1, PageAbove
  <2>. QED BY <2>1, <2>2, Sizes
<1>6. sw'.off = n /\ sw'.lbn \in DataLbns /\ n \in -1 .. PagesPerBlk - 1 /\ sw' = [off |-> sw'.off, lbn |-> sw'.lbn]
  BY <1>2, <1>4 DEF Pages
<1>7. CursorsOK'
  BY <1>1, <1>4, <1>5, <1>6, InvalidIs DEF IInv, CursorsOK, Steps
<1>. QED BY <1>1, <1>7, TablesKept DEF IInv
-----------------------------------------------------------------------------
\* The random-write log block after another one.
LEMMA NextRwBlkIn ==
  ASSUME NEW lbn \in 0 .. RwLogBlks
  PROVE  NextRwBlk(lbn) \in 1 .. RwLogBlks
  BY Sizes DEF NextRwBlk, SW_LOG_LBN

\* The first page of a random-write log block, and the page before it, are cursors.
LEMMA CursorAtBlock ==
  ASSUME NEW lbn \in 1 .. RwLogBlks
  PROVE  RwCursor(lbn * PagesPerBlk) /\ RwCursor(lbn * PagesPerBlk - 1)
<1>1. lbn \in Nat /\ lbn > 0 /\ lbn - 1 \in 0 .. RwLogBlks /\ lbn \in 0 .. RwLogBlks /\ lbn - 1 # RwLogBlks
  BY Sizes
<1>2. /\ lbn * PagesPerBlk \in Nat
      /\ (lbn * PagesPerBlk) \div PagesPerBlk = lbn /\ (lbn * PagesPerBlk) % PagesPerBlk = 0
      /\ lbn * PagesPerBlk - 1 \in Nat
      /\ (lbn * PagesPerBlk - 1) \div PagesPerBlk = lbn - 1
      /\ (lbn * PagesPerBlk - 1) % PagesPerBlk = PagesPerBlk - 1
  BY <1>1, BlockEnds
<1>3. PICK m, n : m = lbn * PagesPerBlk /\ n = lbn * PagesPerBlk - 1
  OBVIOUS
<1>4. RwCursor(m)
  <2>1. m \in Nat /\ m \div PagesPerBlk = lbn /\ m % PagesPerBlk = 0
    BY <1>2, <1>3
  <2>2. PagesPerBlk - 1 # 0 /\ lbn # 0
    BY <1>1, Sizes
  <2>. QED BY <1>1, <2>1, <2>2 DEF RwCursor
<1>5. RwCursor(n)
  <2>1. n \in Nat /\ n \div PagesPerBlk = lbn - 1 /\ n % PagesPerBlk = PagesPerBlk - 1
    BY <1>2, <1>3
  <2>. QED BY <1>1, <2>1 DEF RwCursor
<1>. QED BY <1>3, <1>4, <1>5

\* The page after a cursor is a cursor, unless it is in the last page of a block.
LEMMA CursorNext ==
  ASSUME NEW lpn, RwCursor(lpn), lpn % PagesPerBlk # PagesPerBlk - 2
  PROVE  RwCursor(lpn + 1)
<1>1. PICK q, r : q = lpn \div PagesPerBlk /\ r = lpn % PagesPerBlk
  OBVIOUS
<1>2. /\ lpn \in Nat /\ q \in 0 .. RwLogBlks /\ (q = 0 => r = PagesPerBlk - 1)
      /\ (q = RwLogBlks => r # PagesPerBlk - 1) /\ r # PagesPerBlk - 2
  BY <1>1 DEF RwCursor
<1>3. r \in 0 .. PagesPerBlk - 1
  BY <1>1, <1>2, Sizes, DivMod
<1>4. PICK s, t : s = (lpn + 1) \div PagesPerBlk /\ t = (lpn + 1) % PagesPerBlk
  OBVIOUS
<1>5. IF r = PagesPerBlk - 1 THEN s = q + 1 /\ t = 0 ELSE s = q /\ t = r + 1
  BY <1>1, <1>2, <1>4, NextPage
<1>6. /\ s \in 0 .. RwLogBlks /\ (s = 0 => t = PagesPerBlk - 1)
      /\ (s = RwLogBlks => t # PagesPerBlk - 1)
  BY <1>2, <1>3, <1>5, Sizes
<1>. QED BY <1>2, <1>4, <1>6 DEF RwCursor

\* A step that moves the random-write cursor, and may end with a page to be programmed.
LEMMA RwCursorMoved ==
  ASSUME CursorsOK, UNCHANGED <<sw, cur_write_isol_lpn, cur_vt_isol_lpn, req, todo>>,
         pc' \in {"gc", "split", "program"},
         RwCursor(cur_write_rwlog_lpn'), pc' = "program" => new_log_lpn' = cur_write_rwlog_lpn'
  PROVE  CursorsOK'
  BY DEF CursorsOK, RwCursor, Steps

\* The next page of the random-write log.
LEMMA NextPageInRwBlkKeeps == ASSUME IInv, NextPageInRwBlk PROVE IInv'
<1>1. RwCursor(cur_write_rwlog_lpn')
  BY CursorNext DEF NextPageInRwBlk, IInv, CursorsOK
<1>2. CursorsOK'
  BY <1>1, RwCursorMoved DEF IInv, NextPageInRwBlk, isolVars, vtVars, hostVars
<1>3. Blocks' /\ Unused'
  BY TablesKept DEF IInv, NextPageInRwBlk, mapVars, nandVars
<1>. QED BY <1>2, <1>3 DEF IInv

\* The lpn list of a full random-write log block.
LEMMA CloseRwBlkKeeps == ASSUME IInv, CloseRwBlk PROVE IInv'
<1>1. PICK lbn, v : lbn = get_log_lbn(cur_write_rwlog_lpn) /\ v = log_bmt[lbn]
  OBVIOUS
<1>2. lbn \in 0 .. RwLogBlks
  BY <1>1 DEF IInv, CursorsOK, RwCursor, get_log_lbn
<1>3. UNCHANGED <<data_bmt, log_bmt, isol_bmt, free_bmt, cur_write_rwlog_lpn, cur_write_isol_lpn,
                  cur_vt_isol_lpn, req, todo, sw>> /\ pc' = "gc"
  BY DEF CloseRwBlk, mapVars, isolVars, vtVars, hostVars
<1>4. CursorsOK'
  BY <1>3, RwCursorMoved DEF IInv, CursorsOK
<1>5. Blocks'
  BY <1>3 DEF IInv, Blocks
<1>6. v # free_bmt[1] /\ v # free_bmt[2] /\ free_bmt[1] \in Vblks /\ free_bmt[2] \in Vblks
  BY <1>1, <1>2, PlacesApart DEF IInv, Blocks
<1>7. DOMAIN flash = Vblks /\ FreeErased(free_bmt, flash)
  BY DEF IInv, Unused, FreeErased
<1>8. DOMAIN flash' = Vblks /\ \A w \in Vblks \ {v} : flash'[w] = flash[w]
  BY <1>1, <1>7 DEF CloseRwBlk
<1>9. FreeErased(free_bmt, flash')
  BY <1>6, <1>7, <1>8, UsedProgrammed
<1>. QED BY <1>3, <1>4, <1>5, <1>9 DEF IInv, Unused

\* The page after garbage collection.
LEMMA AfterGcKeeps == ASSUME IInv, AfterGc PROVE IInv'
<1>1. RwCursor(cur_write_rwlog_lpn)
  BY DEF IInv, CursorsOK
<1>2. PICK lbn : lbn = get_log_lbn(cur_write_rwlog_lpn)
  OBVIOUS
<1>3. lbn \in 0 .. RwLogBlks
  BY <1>1, <1>2 DEF RwCursor, get_log_lbn
<1>4. RwCursor(NextRwBlk(lbn) * PagesPerBlk)
  BY <1>3, NextRwBlkIn, CursorAtBlock
<1>5. RwCursor(cur_write_rwlog_lpn')
  BY <1>1, <1>2, <1>4, CursorNext DEF AfterGc
<1>6. CursorsOK'
  BY <1>5, RwCursorMoved DEF IInv, AfterGc, isolVars, vtVars, hostVars
<1>7. Blocks' /\ Unused'
  BY TablesKept DEF IInv, AfterGc, mapVars, nandVars
<1>. QED BY <1>6, <1>7 DEF IInv

-----------------------------------------------------------------------------
\* The victim of garbage collection is a random-write log block.
LEMMA VictimIn == ASSUME IInv PROVE VtLogLbn \in 1 .. RwLogBlks
<1>1. get_log_lbn(cur_write_rwlog_lpn) \in 0 .. RwLogBlks
  BY DEF IInv, CursorsOK, RwCursor, get_log_lbn
<1>. QED BY <1>1, NextRwBlkIn DEF VtLogLbn

\* A second chance for all pages.
LEMMA GiveAllKeeps == ASSUME IInv, GiveAllSecondChance PROVE IInv'
<1>1. PICK lbn : lbn = NextRwBlk(VtLogLbn)
  OBVIOUS
<1>2. VtLogLbn \in 0 .. RwLogBlks
  BY VictimIn, Sizes
<1>3. lbn \in 1 .. RwLogBlks
  BY <1>1, <1>2, NextRwBlkIn
<1>4. RwCursor(cur_write_rwlog_lpn')
  BY <1>1, <1>3, CursorAtBlock DEF GiveAllSecondChance
<1>5. UNCHANGED <<sw, cur_write_isol_lpn, cur_vt_isol_lpn, req, todo>> /\ pc' = "gc"
  BY DEF GiveAllSecondChance, GcNeeded, isolVars, vtVars, hostVars
<1>6. CursorsOK'
  BY <1>4, <1>5, RwCursorMoved DEF IInv
<1>7. Blocks' /\ Unused'
  BY TablesKept DEF IInv, GiveAllSecondChance, mapVars, nandVars
<1>. QED BY <1>6, <1>7 DEF IInv

\* The cursor behind the pages that a block keeps, less than all of its pages.
LEMMA KeptCursor ==
  ASSUME NEW lbn \in 1 .. RwLogBlks, NEW n \in 0 .. PagesPerBlk - 1
  PROVE  RwCursor(lbn * PagesPerBlk + n - 1)
<1>1. CASE n = 0
  <2>1. lbn * PagesPerBlk + 0 - 1 = lbn * PagesPerBlk - 1
    BY Sizes
  <2>. QED BY <1>1, <2>1, CursorAtBlock
<1>2. CASE n > 0
  <2>1. PICK r : r = n - 1
    OBVIOUS
  <2>0. PICK k : k = RwLogBlks + 1
    OBVIOUS
  <2>2. r \in Pages /\ r # PagesPerBlk - 1 /\ lbn \in 0 .. k - 1 /\ k \in Nat /\ lbn # 0
    BY <1>2, <2>0, <2>1, Sizes DEF Pages
  <2>3. /\ lbn * PagesPerBlk + r \in 0 .. k * PagesPerBlk - 1
        /\ (lbn * PagesPerBlk + r) \div PagesPerBlk = lbn /\ (lbn * PagesPerBlk + r) % PagesPerBlk = r
    BY <2>2, PageAbove
  <2>4. lbn * PagesPerBlk + n - 1 = lbn * PagesPerBlk + r
    BY <2>1, Sizes
  <2>5. k * PagesPerBlk \in Nat
    BY <2>2, Sizes
  <2>6. lbn \in 0 .. RwLogBlks
    BY <2>2, Sizes
  <2>7. RwCursor(lbn * PagesPerBlk + r)
    BY <2>2, <2>3, <2>5, <2>6 DEF RwCursor
  <2>. QED BY <2>4, <2>7
<1>. QED BY <1>1, <1>2

\* The valid pages are not all pages of the block: the last one has the list.
LEMMA FewValid == Cardinality(ValidPages) \in 0 .. PagesPerBlk - 1
<1>1. PICK n : n = PagesPerBlk - 2
  OBVIOUS
<1>2. n \in Nat /\ PagesPerBlk = n + 2
  BY <1>1, Sizes
<1>3. IsFiniteSet(0 .. n) /\ Cardinality(0 .. n) = n + 1
  BY <1>2, FS_Interval
<1>4. ValidPages \subseteq 0 .. n
  BY <1>1 DEF ValidPages
<1>5. IsFiniteSet(ValidPages) /\ Cardinality(ValidPages) <= n + 1
  BY <1>3, <1>4, FS_Subset
<1>6. Cardinality(ValidPages) \in Nat
  BY <1>5, FS_CardinalityType
<1>. QED BY <1>2, <1>5, <1>6

\* The victim is given up for a free block with the pages that it keeps.
LEMMA RwBlkReplacedKeeps ==
  ASSUME IInv, NEW chances, RwBlkReplaced(ValidPages, chances)
  PROVE  IInv'
<1>1. PICK lbn, v : lbn = VtLogLbn /\ v = log_bmt[lbn]
  OBVIOUS
<1>2. lbn \in 1 .. RwLogBlks /\ lbn \in 0 .. RwLogBlks
  BY <1>1, VictimIn, Sizes
<1>3. VtVbn = v
  BY <1>1 DEF VtVbn
<1>4. PICK src : flash' = BlockErased(Copied(flash, Head(free_bmt), src), v)
  BY <1>3 DEF RwBlkReplaced
<1>5. /\ log_bmt' = [log_bmt EXCEPT ![lbn] = Head(free_bmt)] /\ free_bmt' = Swapped(free_bmt, v)
      /\ UNCHANGED <<data_bmt, isol_bmt>>
  BY <1>1, <1>3 DEF RwBlkReplaced
<1>6. Blocks'
  BY <1>1, <1>2, <1>5, LogSwapped DEF IInv, Blocks
<1>7. /\ v \in Vblks /\ v # free_bmt[2] /\ free_bmt[2] \in Vblks /\ Head(free_bmt) # free_bmt[2]
      /\ free_bmt \in Seq(Vblks) /\ Len(free_bmt) = 2
  BY <1>1, <1>2, PlacesApart DEF IInv, Blocks, Assigned
<1>8. DOMAIN flash = Vblks /\ FreeErased(free_bmt, flash)
  BY DEF IInv, Unused, FreeErased
<1>9. PICK f : f = Copied(flash, Head(free_bmt), src)
  OBVIOUS
<1>10. DOMAIN f = Vblks /\ f[free_bmt[2]] = flash[free_bmt[2]]
  BY <1>7, <1>8, <1>9, CopiedIs
<1>11. /\ DOMAIN flash' = Vblks /\ flash'[free_bmt[2]] = f[free_bmt[2]]
       /\ \A p \in Pages : flash'[v][p] = Erased
  BY <1>4, <1>7, <1>9, <1>10, BlockErasedIs
<1>12. Unused'
  BY <1>5, <1>7, <1>8, <1>10, <1>11, SwapErased DEF Unused
<1>13. RwCursor(cur_write_rwlog_lpn')
  BY <1>1, <1>2, FewValid, KeptCursor DEF RwBlkReplaced, LastKept, VtBase
<1>14. UNCHANGED <<sw, cur_write_isol_lpn, cur_vt_isol_lpn, req, todo>> /\ pc' = "gc"
  BY DEF RwBlkReplaced, isolVars, vtVars, hostVars
<1>15. CursorsOK'
  BY <1>13, <1>14, RwCursorMoved DEF IInv
<1>. QED BY <1>6, <1>12, <1>15 DEF IInv

\* Few valid pages.
LEMMA KeepFewValidKeeps == ASSUME IInv, KeepFewValid PROVE IInv'
  BY RwBlkReplacedKeeps DEF KeepFewValid

\* The pages that are left after migration.
LEMMA KeepWarmPagesKeeps == ASSUME IInv, KeepWarmPages PROVE IInv'
  BY RwBlkReplacedKeeps DEF KeepWarmPages

\* Many valid pages.
LEMMA SplitValidKeeps == ASSUME IInv, SplitValid PROVE IInv'
<1>1. Blocks' /\ Unused'
  BY TablesKept DEF IInv, SplitValid, mapVars, nandVars
<1>2. CursorsOK'
  BY CursorsKept DEF IInv, SplitValid, rwVars, isolVars, vtVars, hostVars, Steps
<1>. QED BY <1>1, <1>2 DEF IInv
-----------------------------------------------------------------------------
\* The cursor of the isolation area moves in the ring.
LEMMA IsolCursorIn ==
  ASSUME CursorsOK
  PROVE  LET next == Wrap(cur_write_isol_lpn + 1)
         IN  /\ next \in 0 .. IsolBlks * PagesPerBlk - 1 /\ get_log_lbn(next) \in IsolLbns
             /\ NextIsolPage \in 0 .. IsolBlks * PagesPerBlk - 1 /\ get_log_lbn(NextIsolPage) \in IsolLbns
<1>1. PICK m, n : m = IsolBlks * PagesPerBlk /\ n = Wrap(cur_write_isol_lpn + 1)
  OBVIOUS
<1>2. m \in Nat
  BY <1>1, Sizes
<1>3. cur_write_isol_lpn + 1 \in Nat
  BY <1>1, <1>2 DEF CursorsOK
<1>4. n \in 0 .. IsolBlks * PagesPerBlk - 1 /\ get_log_lbn(n) \in IsolLbns
  BY <1>1, <1>3, WrapIn
<1>5. n + 1 \in Nat
  BY <1>1, <1>2, <1>4
<1>6. Wrap(n + 1) \in 0 .. IsolBlks * PagesPerBlk - 1 /\ get_log_lbn(Wrap(n + 1)) \in IsolLbns
  BY <1>5, WrapIn
<1>7. NextIsolPage = IF n % PagesPerBlk = PagesPerBlk - 1 THEN Wrap(n + 1) ELSE n
  BY <1>1 DEF NextIsolPage
<1>. QED BY <1>1, <1>4, <1>6, <1>7

\* A page that moves to the isolation area.
LEMMA MigrateColdPageKeeps == ASSUME IInv, MigrateColdPage PROVE IInv'
<1>1. PICK next, cur, old, v : /\ next = Wrap(cur_write_isol_lpn + 1) /\ cur = NextIsolPage
                               /\ old = isol_bmt[get_log_lbn(next)] /\ v = isol_bmt[get_log_lbn(cur)]
  OBVIOUS
<1>2. cur \in 0 .. IsolBlks * PagesPerBlk - 1 /\ get_log_lbn(next) \in IsolLbns /\ get_log_lbn(cur) \in IsolLbns
  BY <1>1, IsolCursorIn DEF IInv
<1>3. UNCHANGED <<data_bmt, log_bmt, isol_bmt, free_bmt, cur_write_rwlog_lpn,
                  cur_vt_isol_lpn, req, todo, pc, sw, lpn_list_of_vt_isol_blk>> /\ pc = "split"
      /\ cur_write_isol_lpn' = cur
  BY <1>1 DEF MigrateColdPage, rwVars, vtVars, hostVars
<1>4. CursorsOK'
  <2>1. PICK m : m = IsolBlks * PagesPerBlk
    OBVIOUS
  <2>2. m \in Nat
    BY <2>1, Sizes
  <2>3. cur_write_isol_lpn' \in -1 .. IsolBlks * PagesPerBlk - 1
    BY <1>2, <1>3, <2>1, <2>2
  <2>. QED BY <1>3, <2>3 DEF IInv, CursorsOK
<1>5. Blocks'
  BY <1>3 DEF IInv, Blocks
<1>6. /\ old # free_bmt[1] /\ old # free_bmt[2] /\ v # free_bmt[1] /\ v # free_bmt[2]
      /\ free_bmt[1] \in Vblks /\ free_bmt[2] \in Vblks
  BY <1>1, <1>2, PlacesApart DEF IInv, Blocks
<1>7. DOMAIN flash = Vblks /\ FreeErased(free_bmt, flash)
  BY DEF IInv, Unused, FreeErased
<1>8. PICK f, src : /\ f = IF cur # next THEN [flash EXCEPT ![old][PagesPerBlk - 1] = Put(@, List)] ELSE flash
                    /\ flash' = Copied(f, v, src)
  BY <1>1 DEF MigrateColdPage
<1>9. DOMAIN f = Vblks /\ \A w \in Vblks \ {old} : f[w] = flash[w]
  BY <1>7, <1>8
<1>10. FreeErased(free_bmt, f)
  BY <1>6, <1>7, <1>9, UsedProgrammed
<1>11. DOMAIN flash' = Vblks /\ \A w \in Vblks \ {v} : flash'[w] = f[w]
  <2>1. flash' = Copied(f, v, src) /\ DOMAIN f = Vblks
    BY <1>8, <1>9
  <2>. QED BY <2>1, CopiedIs
<1>12. FreeErased(free_bmt, flash')
  BY <1>6, <1>10, <1>11, UsedProgrammed
<1>. QED BY <1>3, <1>4, <1>5, <1>12 DEF IInv, Unused

\* The page that the host writes.
LEMMA ProgramKeeps == ASSUME IInv, Program PROVE IInv'
<1>1. PICK lbn, dst : lbn = get_log_lbn(new_log_lpn) /\ dst = LogPage(new_log_lpn)
  OBVIOUS
<1>2. new_log_lpn \in Nat /\ lbn \in 0 .. RwLogBlks
  BY <1>1 DEF IInv, CursorsOK, Program, get_log_lbn
<1>3. new_log_lpn < IsolBase
  <2>1. PICK d, n : d = PagesPerBlk /\ n = new_log_lpn
    OBVIOUS
  <2>2. d \in Nat \ {0} /\ n \in Nat /\ lbn = n \div d
    BY <1>1, <1>2, <2>1, Sizes DEF get_log_lbn
  <2>3. n % d \in 0 .. d - 1 /\ n = d * lbn + (n % d)
    BY <2>2, DivMod
  <2>4. lbn + 1 <= LogBlks /\ LogBlks \in Nat /\ lbn \in Nat
    BY <1>2, Sizes
  <2>5. (lbn + 1) * d <= LogBlks * d
    BY <2>2, <2>4
  <2>6. (lbn + 1) * d = d * lbn + d /\ d * lbn \in Nat /\ LogBlks * d \in Nat
    BY <2>2, <2>4
  <2>7. n < LogBlks * d
    BY <2>2, <2>3, <2>5, <2>6
  <2>. QED BY <2>1, <2>7 DEF IsolBase
<1>4. dst[1] = log_bmt[lbn]
  BY <1>1, <1>3 DEF LogPage
<1>5. UNCHANGED <<data_bmt, log_bmt, isol_bmt, free_bmt, cur_write_rwlog_lpn, cur_write_isol_lpn,
                  cur_vt_isol_lpn, req, todo, sw>>
      /\ pc' = (IF sw.off = PagesPerBlk - 1 THEN "switch" ELSE "merge")
  BY DEF Program, isolVars, vtVars
<1>6. CursorsOK'
  BY <1>5 DEF IInv, CursorsOK, Steps
<1>7. Blocks'
  BY <1>5 DEF IInv, Blocks
<1>8. dst[1] # free_bmt[1] /\ dst[1] # free_bmt[2] /\ free_bmt[1] \in Vblks /\ free_bmt[2] \in Vblks
  BY <1>2, <1>4, PlacesApart DEF IInv, Blocks
<1>9. DOMAIN flash = Vblks /\ FreeErased(free_bmt, flash)
  BY DEF IInv, Unused, FreeErased
<1>10. PICK aged, data :
         /\ aged = [v \in Vblks |-> [p \in Pages |-> IF flash[v][p] = req.lpn THEN Old ELSE flash[v][p]]]
         /\ flash' = [aged EXCEPT ![dst[1]][dst[2]] = Put(@, data)]
  BY <1>1 DEF Program
<1>11. req.lpn # Erased
  BY Sizes DEF IInv, CursorsOK, Request
<1>12. DOMAIN aged = Vblks /\ FreeErased(free_bmt, aged)
  BY <1>8, <1>9, <1>10, <1>11 DEF FreeErased
<1>13. DOMAIN flash' = Vblks /\ \A w \in Vblks \ {dst[1]} : flash'[w] = aged[w]
  BY <1>10, <1>12
<1>14. FreeErased(free_bmt, flash')
  BY <1>8, <1>12, <1>13, UsedProgrammed
<1>. QED BY <1>5, <1>6, <1>7, <1>14 DEF IInv, Unused

\* A full sequential log block.
LEMMA SwitchMergeKeeps == ASSUME IInv, SwitchMerge PROVE IInv'
<1>1. sw.lbn # INVALID
  <2>1. sw.off = PagesPerBlk - 1 /\ PagesPerBlk - 1 # -1
    BY Sizes DEF IInv, CursorsOK, SwitchMerge
  <2>. QED BY <2>1 DEF IInv, CursorsOK
<1>2. MergeSw /\ sw.lbn \in DataLbns /\ sw' = EmptySw
  BY <1>1 DEF SwitchMerge, MergeSw, IInv, CursorsOK
<1>3. Blocks' /\ Unused'
  BY <1>2, MergeSwBlocks DEF IInv
<1>4. CursorsOK'
  BY <1>2, CursorsKept DEF IInv, SwitchMerge, rwVars, isolVars, vtVars, hostVars, Steps
<1>. QED BY <1>3, <1>4 DEF IInv

\* The decision to merge.
LEMMA DecideMergeKeeps == ASSUME IInv, DecideMerge PROVE IInv'
<1>1. Blocks' /\ Unused'
  BY TablesKept DEF IInv, DecideMerge, mapVars, nandVars
<1>2. pc' \in {"full", "tune"}
  BY DEF DecideMerge
<1>3. CursorsOK'
  BY <1>2, CursorsKept DEF IInv, DecideMerge, rwVars, isolVars, vtVars, hostVars, Steps
<1>. QED BY <1>1, <1>3 DEF IInv

\* The end of a write.
LEMMA TuneKeeps == ASSUME IInv, Tune PROVE IInv'
<1>1. Blocks' /\ Unused'
  BY TablesKept DEF IInv, Tune, mapVars, nandVars
<1>2. CursorsOK'
  BY CursorsKept DEF IInv, Tune, rwVars, isolVars, vtVars, hostVars, Steps
<1>. QED BY <1>1, <1>2 DEF IInv

-----------------------------------------------------------------------------
\* An isolation block given up for the first of the free blocks free, when f is the
\* flash and the data blocks are d.
LEMMA IsolBlkFreedBlocks ==
  ASSUME NEW d, NEW v, NEW f, NEW free, Assigned(d, log_bmt, isol_bmt, free), FreeErased(free, f),
         get_log_lbn(v) \in IsolLbns, IsolBlkFreed(v, f, free)
  PROVE  Assigned(d, log_bmt, isol_bmt', free_bmt') /\ FreeErased(free_bmt', flash')
<1>1. PICK lbn, old : lbn = get_log_lbn(v) /\ old = isol_bmt[lbn]
  OBVIOUS
<1>2. /\ isol_bmt' = [isol_bmt EXCEPT ![lbn] = Head(free)] /\ free_bmt' = Swapped(free, isol_bmt[lbn])
      /\ flash' = BlockErased(f, old)
  BY <1>1 DEF IsolBlkFreed
<1>3. lbn \in IsolLbns
  BY <1>1
<1>4. Assigned(d, log_bmt, isol_bmt', free_bmt')
  BY <1>2, <1>3, IsolSwapped
<1>5. old \in Vblks /\ old # free[2] /\ free[2] \in Vblks /\ free \in Seq(Vblks) /\ Len(free) = 2
  BY <1>1, <1>3, PlacesApart DEF Assigned
<1>6. DOMAIN f = Vblks
  BY DEF FreeErased
<1>7. DOMAIN flash' = Vblks /\ flash'[free[2]] = f[free[2]] /\ \A p \in Pages : flash'[old][p] = Erased
  BY <1>2, <1>5, <1>6, BlockErasedIs
<1>8. FreeErased(Swapped(free, old), flash')
  BY <1>5, <1>7, SwapErased
<1>. QED BY <1>1, <1>2, <1>4, <1>8

\* The table says that a page is in the log area only if it is a logical page.
LEMMA FoundIsLpn ==
  ASSUME NEW lpn, search_valid_in_log_area(lpn) # INVALID
  PROVE  lpn \in Lpns
  BY FasterAssumption DEF FasterAssumption, search_valid_in_log_area, shashtbl_get

\* A page of the isolation ring is a log page.
LEMMA IsolPageIs ==
  ASSUME NEW v \in 0 .. IsolBlks * PagesPerBlk - 1
  PROVE  IsolBase + v # INVALID
<1>1. PICK a, b : a = LogBlks * PagesPerBlk /\ b = IsolBlks * PagesPerBlk
  OBVIOUS
<1>2. a \in Nat /\ b \in Nat
  BY <1>1, Sizes
<1>3. ArenaSize = a + b
  BY <1>1, Sizes, FasterAssumption DEF FasterAssumption
<1>4. a + v \in 0 .. ArenaSize - 1
  BY <1>1, <1>2, <1>3
<1>. QED BY <1>1, <1>4, FasterAssumption DEF FasterAssumption, IsolBase
\* The next page of the oldest isolation block.
LEMMA NextVictimKeeps == ASSUME IInv, NextVictim PROVE IInv'
<1>1. PICK v, m : v = Wrap(cur_vt_isol_lpn + 1) /\ m = IsolBlks * PagesPerBlk
  OBVIOUS
<1>2. m \in Nat /\ cur_vt_isol_lpn + 1 \in Nat
  <2>1. m \in Nat
    BY <1>1, Sizes
  <2>. QED BY <1>1, <2>1 DEF IInv, CursorsOK
<1>3. v \in 0 .. m - 1 /\ get_log_lbn(v) \in IsolLbns
  BY <1>1, <1>2, WrapIn
<1>4. PICK list, valid :
        /\ list = IF v % PagesPerBlk = 0 THEN lists[isol_bmt[get_log_lbn(v)]] ELSE lpn_list_of_vt_isol_blk
        /\ valid = (search_valid_in_log_area(list[v % PagesPerBlk]) = IsolBase + v)
  OBVIOUS
<1>5. /\ lpn_list_of_vt_isol_blk' = list
      /\ IF ~valid /\ LastOfIsolBlk(v)
         THEN IsolBlkFreed(v, flash, free_bmt) /\ pc' = "tune"
         ELSE /\ cur_vt_isol_lpn' = v /\ pc' = (IF valid THEN "victim" ELSE "full")
              /\ UNCHANGED <<isol_bmt, free_bmt, flash>>
  BY <1>1, <1>4 DEF NextVictim
<1>6. UNCHANGED <<data_bmt, log_bmt, cur_write_rwlog_lpn, cur_write_isol_lpn, req, todo, sw>>
  BY DEF NextVictim, rwVars, hostVars
<1>7. CASE ~valid /\ LastOfIsolBlk(v)
  <2>1. IsolBlkFreed(v, flash, free_bmt) /\ pc' = "tune"
    BY <1>5, <1>7
  <2>2. Blocks' /\ Unused'
    <3>1. Assigned(data_bmt, log_bmt, isol_bmt, free_bmt) /\ FreeErased(free_bmt, flash)
      BY DEF IInv, Blocks, Unused
    <3>2. Assigned(data_bmt, log_bmt, isol_bmt', free_bmt') /\ FreeErased(free_bmt', flash')
      BY <1>3, <2>1, <3>1, IsolBlkFreedBlocks
    <3>. QED BY <1>6, <3>2 DEF Blocks, Unused
  <2>3. cur_vt_isol_lpn' \in -1 .. IsolBlks * PagesPerBlk - 1
    <3>1. v + 1 \in Nat
      BY <1>2, <1>3
    <3>2. Wrap(v + 1) \in 0 .. m - 1
      BY <1>1, <3>1, WrapIn
    <3>. QED BY <1>1, <1>2, <2>1, <3>2 DEF IsolBlkFreed
  <2>4. CursorsOK'
    BY <1>6, <2>1, <2>3 DEF IInv, CursorsOK, Steps
  <2>. QED BY <2>2, <2>4 DEF IInv
<1>8. CASE ~(~valid /\ LastOfIsolBlk(v))
  <2>1. /\ cur_vt_isol_lpn' = v /\ pc' = (IF valid THEN "victim" ELSE "full")
        /\ UNCHANGED <<isol_bmt, free_bmt, flash>>
    BY <1>5, <1>8
  <2>2. Blocks' /\ Unused'
    BY <1>6, <2>1, TablesKept DEF IInv
  <2>3. cur_vt_isol_lpn' \in -1 .. IsolBlks * PagesPerBlk - 1 /\ cur_vt_isol_lpn' >= 0
    BY <1>1, <1>2, <1>3, <2>1
  <2>4. ASSUME valid PROVE VtDataLpn' \in Lpns
    <3>1. VtDataLpn' = list[v % PagesPerBlk]
      BY <1>5, <2>1 DEF VtDataLpn
    <3>2. search_valid_in_log_area(list[v % PagesPerBlk]) # INVALID
      BY <1>1, <1>3, <1>4, <2>4, IsolPageIs
    <3>. QED BY <3>1, <3>2, FoundIsLpn
  <2>5. CursorsOK'
    BY <1>6, <2>1, <2>3, <2>4 DEF IInv, CursorsOK, Steps
  <2>. QED BY <2>2, <2>5 DEF IInv
<1>. QED BY <1>7, <1>8

\* A stream on the data block of the page.
LEMMA MergeStreamOfVictimKeeps == ASSUME IInv, MergeStreamOfVictim PROVE IInv'
<1>1. VtDataLpn \in Lpns
  BY DEF IInv, CursorsOK, MergeStreamOfVictim
<1>2. MergeSw /\ sw.lbn \in DataLbns /\ sw' = EmptySw
  BY <1>1, LpnIn DEF MergeStreamOfVictim, MergeSw
<1>3. Blocks' /\ Unused'
  BY <1>2, MergeSwBlocks DEF IInv
<1>4. UNCHANGED <<cur_write_rwlog_lpn, cur_write_isol_lpn, cur_vt_isol_lpn, lpn_list_of_vt_isol_blk, req, todo>>
      /\ pc' \in {"tune", "victim"} /\ pc = "victim"
  BY DEF MergeStreamOfVictim, rwVars, isolVars, vtVars, hostVars
<1>5. sw'.off = -1 /\ sw'.lbn = INVALID /\ sw' = [off |-> sw'.off, lbn |-> sw'.lbn] /\ -1 \in -1 .. PagesPerBlk - 1
  BY <1>2, Sizes DEF EmptySw
<1>6. VtDataLpn' = VtDataLpn
  BY <1>4 DEF VtDataLpn
<1>7. CursorsOK'
  BY <1>4, <1>5, <1>6 DEF IInv, CursorsOK, Steps
<1>. QED BY <1>3, <1>7 DEF IInv

\* A full merge, at the last page of an isolation block with the end of that block.
LEMMA FullMergeKeeps == ASSUME IInv, FullMerge PROVE IInv'
<1>1. VtDataLpn \in Lpns /\ cur_vt_isol_lpn >= 0
  BY DEF IInv, CursorsOK, FullMerge
<1>2. PICK lbn, old, v, m :
        lbn = get_data_lbn(VtDataLpn) /\ old = data_bmt[lbn] /\ v = cur_vt_isol_lpn /\ m = IsolBlks * PagesPerBlk
  OBVIOUS
<1>3. lbn \in DataLbns
  BY <1>1, <1>2, LpnIn
<1>4. PICK src, g, f, free :
        /\ src = [p \in Pages |-> get_vpn(lbn * PagesPerBlk + p)]
        /\ g = Copied(flash, Head(free_bmt), src)
        /\ f = BlockErased(g, old) /\ free = Swapped(free_bmt, old)
  OBVIOUS
<1>5. /\ data_bmt' = [data_bmt EXCEPT ![lbn] = Head(free_bmt)]
      /\ IF LastOfIsolBlk(v)
         THEN IsolBlkFreed(v, f, free)
         ELSE flash' = f /\ free_bmt' = free /\ UNCHANGED <<isol_bmt, cur_vt_isol_lpn>>
      /\ pc' = "tune"
      /\ UNCHANGED <<log_bmt, cur_write_rwlog_lpn, cur_write_isol_lpn, req, todo, sw>>
  BY <1>2, <1>4 DEF FullMerge, rwVars, hostVars
<1>6. Assigned(data_bmt', log_bmt, isol_bmt, free)
  BY <1>2, <1>3, <1>4, <1>5, DataSwapped DEF IInv, Blocks
<1>7. FreeErased(free, f)
  <2>1. /\ old \in Vblks /\ old # free_bmt[2] /\ free_bmt[2] \in Vblks /\ Head(free_bmt) # free_bmt[2]
        /\ free_bmt \in Seq(Vblks) /\ Len(free_bmt) = 2
    BY <1>2, <1>3, PlacesApart DEF IInv, Blocks, Assigned
  <2>2. DOMAIN flash = Vblks /\ FreeErased(free_bmt, flash)
    BY DEF IInv, Unused, FreeErased
  <2>3. DOMAIN g = Vblks /\ g[free_bmt[2]] = flash[free_bmt[2]]
    BY <1>4, <2>1, <2>2, CopiedIs
  <2>4. DOMAIN f = Vblks /\ f[free_bmt[2]] = g[free_bmt[2]] /\ \A p \in Pages : f[old][p] = Erased
    <3>1. f = BlockErased(g, old)
      BY <1>4
    <3>2. DOMAIN BlockErased(g, old) = Vblks
      BY <2>3 DEF BlockErased
    <3>3. BlockErased(g, old)[free_bmt[2]] = g[free_bmt[2]]
      BY <2>1, <2>3 DEF BlockErased
    <3>4. BlockErased(g, old)[old] = [p \in Pages |-> Erased]
      BY <2>1, <2>3 DEF BlockErased
    <3>5. \A p \in Pages : BlockErased(g, old)[old][p] = Erased
      BY <3>4
    <3>. QED BY <3>1, <3>2, <3>3, <3>5
  <2>. QED BY <1>4, <2>1, <2>2, <2>3, <2>4, SwapErased
<1>8. m \in Nat /\ v \in 0 .. m - 1
  <2>1. m \in Nat
    BY <1>2, Sizes
  <2>. QED BY <1>1, <1>2, <2>1 DEF IInv, CursorsOK
<1>9. CASE LastOfIsolBlk(v)
  <2>1. IsolBlkFreed(v, f, free)
    BY <1>5, <1>9
  <2>2. get_log_lbn(v) \in IsolLbns
    <3>1. IsolBlks \in Nat
      BY Sizes
    <3>. QED BY <1>2, <1>8, <3>1, BlockBelow DEF get_log_lbn, IsolLbns
  <2>3. Blocks' /\ Unused'
    <3>1. PICK d : d = data_bmt'
      OBVIOUS
    <3>2. Assigned(d, log_bmt, isol_bmt, free)
      BY <1>6, <3>1
    <3>3. Assigned(d, log_bmt, isol_bmt', free_bmt') /\ FreeErased(free_bmt', flash')
      BY <1>7, <2>1, <2>2, <3>2, IsolBlkFreedBlocks
    <3>. QED BY <1>5, <3>1, <3>3 DEF Blocks, Unused
  <2>4. cur_vt_isol_lpn' \in -1 .. IsolBlks * PagesPerBlk - 1
    <3>1. v + 1 \in Nat
      BY <1>8
    <3>2. Wrap(v + 1) \in 0 .. m - 1
      BY <1>2, <3>1, WrapIn
    <3>. QED BY <1>2, <1>8, <2>1, <3>2 DEF IsolBlkFreed
  <2>5. CursorsOK'
    BY <1>5, <2>4 DEF IInv, CursorsOK, Steps
  <2>. QED BY <2>3, <2>5 DEF IInv
<1>10. CASE ~LastOfIsolBlk(v)
  <2>1. flash' = f /\ free_bmt' = free /\ UNCHANGED <<isol_bmt, cur_vt_isol_lpn>>
    BY <1>5, <1>10
  <2>2. Blocks' /\ Unused'
    BY <1>5, <1>6, <1>7, <2>1 DEF Blocks, Unused
  <2>3. CursorsOK'
    BY <1>5, <2>1 DEF IInv, CursorsOK, Steps
  <2>. QED BY <2>2, <2>3 DEF IInv
<1>. QED BY <1>9, <1>10

\* The firmware stops.
LEMMA StopAtAssertKeeps == ASSUME IInv, StopAtAssert PROVE IInv'
<1>1. Blocks' /\ Unused'
  BY TablesKept DEF IInv, StopAtAssert, mapVars, nandVars
<1>2. CursorsOK'
  BY CursorsKept DEF IInv, StopAtAssert, rwVars, isolVars, vtVars, hostVars, Steps
<1>. QED BY <1>1, <1>2 DEF IInv

-----------------------------------------------------------------------------
(***************************************************************************)
(* The invariant.                                                          *)
(***************************************************************************)
\* The tables that format makes: the blocks in ascending order.
LEMMA InitBlocks == Init => Blocks
<1>. SUFFICES ASSUME Init PROVE Blocks
  OBVIOUS
<1>1. PICK D, L, I, R : D = DataBlks /\ L = LogBlks /\ I = IsolBlks /\ R = RwLogBlks
  OBVIOUS
<1>2. D \in Nat \ {0} /\ L \in Nat \ {0} /\ I \in Nat \ {0} /\ R \in Nat \ {0} /\ R < L
  BY <1>1, Sizes
<1>3. Vblks = 1 .. D + 2 + I + 1 + R
  BY <1>1 DEF Vblks, FREE_BLK_PER_BANK
<1>4. PICK d, l, i, f : d = data_bmt /\ l = log_bmt /\ i = isol_bmt /\ f = free_bmt
  OBVIOUS
<1>5. d \in [DataLbns -> Vblks] /\ \A a \in DataLbns : d[a] = 1 + a
  BY <1>1, <1>2, <1>3, <1>4 DEF Init, DataLbns
<1>6. /\ l \in [LogLbns -> Vblks \cup {INVALID}]
      /\ \A a \in LogLbns : l[a] = IF a > R THEN INVALID ELSE 1 + D + 2 + I + a
  BY <1>1, <1>2, <1>3, <1>4 DEF Init, LogLbns, FREE_BLK_PER_BANK
<1>7. i \in [IsolLbns -> Vblks] /\ \A a \in IsolLbns : i[a] = 1 + D + 2 + a
  BY <1>1, <1>2, <1>3, <1>4 DEF Init, IsolLbns, FREE_BLK_PER_BANK
<1>8. f \in Seq(Vblks) /\ Len(f) = 2 /\ f[1] = D + 1 /\ f[2] = D + 2
  <2>1. f = [k \in 1 .. 2 |-> D + k]
    BY <1>1, <1>4 DEF Init, FREE_BLK_PER_BANK
  <2>2. f \in [1 .. 2 -> Vblks]
    BY <1>2, <1>3, <2>1
  <2>3. 2 \in Nat
    OBVIOUS
  <2>4. f \in Seq(Vblks) /\ Len(f) = 2
    BY <2>1, <2>2, <2>3, IsASeq, LenProperties
  <2>. QED BY <2>1, <2>4
<1>9. \A n \in LogLbns : l[n] = INVALID <=> n > RwLogBlks
  <2>1. \A n \in LogLbns : n <= R => 1 + D + 2 + I + n \in Vblks
    BY <1>1, <1>2, <1>3 DEF LogLbns
  <2>. QED BY <1>1, <1>2, <1>6, <2>1, Sizes DEF LogLbns
<1>10. OneToOne(BlockAt(d, l, i, f))
  <2>1. PICK t : t = BlockAt(d, l, i, f)
    OBVIOUS
  <2>2. /\ \A a \in DataLbns : t[<<"data", a>>] = 1 + a
        /\ \A a \in 0 .. R : t[<<"log", a>>] = 1 + D + 2 + I + a
        /\ \A a \in IsolLbns : t[<<"isol", a>>] = 1 + D + 2 + a
        /\ t[<<"free", 1>>] = D + 1 /\ t[<<"free", 2>>] = D + 2
    <3>1. \A a \in 0 .. R : a \in LogLbns /\ ~(a > R)
      BY <1>1, <1>2 DEF LogLbns
    <3>. QED BY <1>1, <1>5, <1>6, <1>7, <1>8, <2>1, <3>1, BlockAtIs
  <2>3. \A x \in Places : \/ \E a \in 0 .. D - 1 : x = <<"data", a>> /\ t[x] = 1 + a
                          \/ \E a \in 0 .. R : x = <<"log", a>> /\ t[x] = 1 + D + 2 + I + a
                          \/ \E a \in 0 .. I - 1 : x = <<"isol", a>> /\ t[x] = 1 + D + 2 + a
                          \/ x = <<"free", 1>> /\ t[x] = D + 1
                          \/ x = <<"free", 2>> /\ t[x] = D + 2
    BY <1>1, <2>2, PlacesAre DEF DataLbns, IsolLbns
  <2>4. \A x \in Places : t[x] \in Vblks
    BY <1>2, <1>3, <2>3
  <2>5. ASSUME NEW x \in Places, NEW y \in Places, t[x] = t[y] PROVE x = y
    BY <1>2, <2>3, <2>5
  <2>6. ASSUME NEW v \in Vblks PROVE \E x \in Places : t[x] = v
    <3>1. CASE v <= D
      <4>1. v - 1 \in DataLbns
        BY <1>1, <1>2, <1>3, <3>1 DEF DataLbns
      <4>2. <<"data", v - 1>> \in Places /\ t[<<"data", v - 1>>] = 1 + (v - 1)
        BY <2>2, <4>1, PlacesAre
      <4>. QED BY <1>2, <1>3, <4>2
    <3>2. CASE v = D + 1
      BY <2>2, <3>2, PlacesAre
    <3>3. CASE v = D + 2
      BY <2>2, <3>3, PlacesAre
    <3>4. CASE v > D + 2 /\ v <= D + 2 + I
      <4>1. PICK a : a = v - (1 + D + 2)
        OBVIOUS
      <4>2. a \in IsolLbns /\ 1 + D + 2 + a = v
        BY <1>1, <1>2, <1>3, <3>4, <4>1 DEF IsolLbns
      <4>. QED BY <2>2, <4>2, PlacesAre
    <3>5. CASE v > D + 2 + I
      <4>1. PICK a : a = v - (1 + D + 2 + I)
        OBVIOUS
      <4>2. a \in 0 .. RwLogBlks /\ 1 + D + 2 + I + a = v
        BY <1>1, <1>2, <1>3, <3>5, <4>1
      <4>. QED BY <1>1, <2>2, <4>2, PlacesAre
    <3>. QED BY <1>2, <1>3, <3>1, <3>2, <3>3, <3>4, <3>5
  <2>. QED BY <2>1, <2>4, <2>5, <2>6 DEF OneToOne
<1>. QED BY <1>4, <1>5, <1>6, <1>7, <1>8, <1>9, <1>10 DEF Blocks, Assigned

\* The invariant holds after format.
LEMMA InitIInv == Init => IInv
<1>. SUFFICES ASSUME Init PROVE IInv
  OBVIOUS
<1>1. Blocks
  BY InitBlocks
<1>2. Unused
  <2>1. flash = [v \in Vblks |-> [p \in Pages |-> Erased]]
    BY DEF Init
  <2>2. free_bmt[1] \in Vblks /\ free_bmt[2] \in Vblks
    BY <1>1, PlacesApart DEF Blocks
  <2>. QED BY <2>1, <2>2 DEF Unused, FreeErased
<1>3. RwCursor(cur_write_rwlog_lpn)
  <2>1. 1 \in 1 .. RwLogBlks
    BY Sizes
  <2>2. RwCursor(1 * PagesPerBlk - 1)
    BY <2>1, CursorAtBlock
  <2>. QED BY <2>2, Sizes DEF Init
<1>4. CursorsOK
  <2>1. todo \in Seq(SUBSET Request)
    BY FasterAssumption DEF FasterAssumption, Init
  <2>2. req \in Request
    <3>1. 0 \in Lpns
      <4>1. DataBlks * PagesPerBlk >= DataBlks /\ DataBlks * PagesPerBlk \in Nat
        BY Sizes
      <4>. QED BY <4>1, Sizes DEF Lpns
    <3>. QED BY <3>1 DEF Init, Request
  <2>3. sw.off = -1 /\ sw.lbn = INVALID /\ sw = [off |-> sw.off, lbn |-> sw.lbn] /\ -1 \in -1 .. PagesPerBlk - 1
    BY Sizes DEF Init, EmptySw
  <2>4. -1 \in -1 .. IsolBlks * PagesPerBlk - 1
    <3>1. IsolBlks * PagesPerBlk \in Nat
      BY Sizes
    <3>. QED BY <3>1
  <2>5. pc = "idle" /\ cur_write_isol_lpn = -1 /\ cur_vt_isol_lpn = -1
    BY DEF Init
  <2>. QED BY <1>3, <2>1, <2>2, <2>3, <2>4, <2>5 DEF CursorsOK, Steps
<1>. QED BY <1>1, <1>2, <1>4 DEF IInv

\* Every step keeps it.
LEMMA NextIInv == IInv /\ [Next]_vars => IInv'
<1>. SUFFICES ASSUME IInv, [Next]_vars PROVE IInv'
  OBVIOUS
<1>1. CASE UNCHANGED vars
  <2>1. UNCHANGED <<data_bmt, log_bmt, isol_bmt, free_bmt, flash, cur_write_rwlog_lpn, cur_write_isol_lpn,
                    cur_vt_isol_lpn, lpn_list_of_vt_isol_blk, req, todo, sw, pc, new_log_lpn>>
    BY <1>1 DEF vars, mapVars, rwVars, isolVars, vtVars, nandVars, hostVars
  <2>2. VtDataLpn' = VtDataLpn
    BY <2>1 DEF VtDataLpn
  <2>3. CursorsOK'
    BY <2>1, <2>2 DEF IInv, CursorsOK
  <2>. QED BY <2>1, <2>3, TablesKept DEF IInv
<1>2. CASE \E r \in Request : write_to_log_block(r)
  BY <1>2, HostWriteKeeps
<1>3. CASE Ftl
  BY <1>3, AppendToSwKeeps, MergeOtherStreamKeeps, NoOtherStreamKeeps, CopyPageBelowKeeps, StartStreamKeeps,
     NextPageInRwBlkKeeps, CloseRwBlkKeeps, AfterGcKeeps, GiveAllKeeps, KeepFewValidKeeps, SplitValidKeeps,
     MigrateColdPageKeeps, KeepWarmPagesKeeps, ProgramKeeps, SwitchMergeKeeps, DecideMergeKeeps, TuneKeeps,
     NextVictimKeeps, MergeStreamOfVictimKeeps, FullMergeKeeps, StopAtAssertKeeps DEF Ftl
<1>. QED BY <1>1, <1>2, <1>3 DEF Next

\* The invariant says what BlocksApart says.
LEMMA IInvApart == IInv => BlocksApart
<1>. SUFFICES ASSUME IInv PROVE BlocksApart
  OBVIOUS
<1>1. Assigned(data_bmt, log_bmt, isol_bmt, free_bmt) /\ FreeErased(free_bmt, flash)
  BY DEF IInv, Blocks, Unused
<1>2. PICK t : t = BlockAt(data_bmt, log_bmt, isol_bmt, free_bmt)
  OBVIOUS
<1>3. /\ \A x, y \in Places : t[x] = t[y] => x = y
      /\ {t[x] : x \in Places} = Vblks
  BY <1>1, <1>2 DEF Assigned, OneToOne
<1>13. PICK place : place = <<"data", "log", "isol", "free">>
  OBVIOUS
<1>4. place[1] = "data" /\ place[2] = "log" /\ place[3] = "isol" /\ place[4] = "free"
  BY <1>13
<1>11. Tables[1] = data_bmt /\ Tables[2] = log_bmt /\ Tables[3] = isol_bmt /\ Tables[4] = free_bmt
  BY DEF Tables
<1>12. /\ \A a \in DataLbns : <<"data", a>> \in Places /\ t[<<"data", a>>] = data_bmt[a]
       /\ \A a \in IsolLbns : <<"isol", a>> \in Places /\ t[<<"isol", a>>] = isol_bmt[a]
       /\ \A a \in {1, 2} : <<"free", a>> \in Places /\ t[<<"free", a>>] = free_bmt[a]
  <2>1. ASSUME NEW a \in DataLbns PROVE t[<<"data", a>>] = data_bmt[a]
    <3>2. PICK x : x = <<"data", a>>
      OBVIOUS
    <3>3. x \in Places /\ x[1] = "data" /\ x[2] = a
      BY <2>1, <3>2, PlacesAre
    <3>4. BlockAt(data_bmt, log_bmt, isol_bmt, free_bmt)[x] = data_bmt[a]
      BY <3>3 DEF BlockAt
    <3>1. BlockAt(data_bmt, log_bmt, isol_bmt, free_bmt)[<<"data", a>>] = data_bmt[a]
      BY <3>2, <3>4
    <3>. QED BY <1>2, <3>1
  <2>2. ASSUME NEW a \in IsolLbns PROVE t[<<"isol", a>>] = isol_bmt[a]
    <3>2. PICK x : x = <<"isol", a>>
      OBVIOUS
    <3>3. x \in Places /\ x[1] = "isol" /\ x[2] = a
      BY <2>2, <3>2, PlacesAre
    <3>4. BlockAt(data_bmt, log_bmt, isol_bmt, free_bmt)[x] = isol_bmt[a]
      BY <3>3 DEF BlockAt
    <3>1. BlockAt(data_bmt, log_bmt, isol_bmt, free_bmt)[<<"isol", a>>] = isol_bmt[a]
      BY <3>2, <3>4
    <3>. QED BY <1>2, <3>1
  <2>3. \A a \in {1, 2} : t[<<"free", a>>] = free_bmt[a]
    BY <1>2, BlockAtIs
  <2>4. \A a \in {1, 2} : <<"free", a>> \in Places
    BY PlacesAre
  <2>. QED BY <2>1, <2>2, <2>3, <2>4, PlacesAre
<1>5. /\ DOMAIN Tables[1] = DataLbns /\ DOMAIN Tables[2] = LogLbns /\ DOMAIN Tables[3] = IsolLbns
      /\ DOMAIN Tables[4] = {1, 2}
  <2>1. DOMAIN free_bmt = 1 .. 2
    BY <1>1 DEF Assigned
  <2>2. 1 .. 2 = {1, 2}
    OBVIOUS
  <2>. QED BY <1>1, <2>1, <2>2 DEF Tables, Assigned
<1>6. \A j \in 1 .. 4 : \A a \in DOMAIN Tables[j] :
        Tables[j][a] # INVALID => <<place[j], a>> \in Places /\ t[<<place[j], a>>] = Tables[j][a]
  <2>1. \A a \in DataLbns : <<place[1], a>> \in Places /\ t[<<place[1], a>>] = Tables[1][a]
    BY <1>4, <1>11, <1>12
  <2>2. \A a \in LogLbns : Tables[2][a] # INVALID => <<place[2], a>> \in Places /\ t[<<place[2], a>>] = Tables[2][a]
    <3>1. \A a \in LogLbns : log_bmt[a] # INVALID => a \in 0 .. RwLogBlks
      BY <1>1, Sizes DEF Assigned, LogLbns
    <3>. QED BY <1>2, <1>4, <3>1, PlacesAre, BlockAtIs DEF Tables
  <2>3. \A a \in IsolLbns : <<place[3], a>> \in Places /\ t[<<place[3], a>>] = Tables[3][a]
    BY <1>4, <1>11, <1>12
  <2>4. \A a \in {1, 2} : <<place[4], a>> \in Places /\ t[<<place[4], a>>] = Tables[4][a]
    BY <1>4, <1>11, <1>12
  <2>. QED BY <1>5, <2>1, <2>2, <2>3, <2>4
<1>7. \A j, k \in 1 .. 4 : \A a \in DOMAIN Tables[j], b \in DOMAIN Tables[k] :
        Tables[j][a] = Tables[k][b] => Tables[j][a] = INVALID \/ (j = k /\ a = b)
  <2>1. ASSUME NEW j \in 1 .. 4, NEW k \in 1 .. 4, NEW a \in DOMAIN Tables[j], NEW b \in DOMAIN Tables[k],
               Tables[j][a] = Tables[k][b], Tables[j][a] # INVALID
        PROVE  j = k /\ a = b
    <3>1. <<place[j], a>> = <<place[k], b>>
      <4>1. <<place[j], a>> \in Places /\ t[<<place[j], a>>] = Tables[j][a]
        BY <1>6, <2>1
      <4>2. Tables[k][b] # INVALID
        BY <2>1
      <4>3. <<place[k], b>> \in Places /\ t[<<place[k], b>>] = Tables[k][b]
        BY <1>6, <2>1, <4>2
      <4>4. PICK x, y : x = <<place[j], a>> /\ y = <<place[k], b>>
        OBVIOUS
      <4>5. x \in Places /\ y \in Places /\ t[x] = t[y]
        BY <2>1, <4>1, <4>3, <4>4
      <4>6. x = y
        BY <1>3, <4>5
      <4>. QED BY <4>4, <4>6
    <3>2. place[j] = place[k] /\ a = b
      BY <3>1
    <3>. QED BY <1>4, <3>2
  <2>. QED BY <2>1
<1>8. (UNION {{s[i] : i \in DOMAIN s} : s \in {Tables[j] : j \in 1 .. 4}}) \ {INVALID} = Vblks
  <2>1. ASSUME NEW j \in 1 .. 4, NEW a \in DOMAIN Tables[j], Tables[j][a] # INVALID
        PROVE  Tables[j][a] \in Vblks
    BY <1>3, <1>6, <2>1
  <2>2. ASSUME NEW v \in Vblks
        PROVE  v # INVALID /\ \E j \in 1 .. 4 : \E a \in DOMAIN Tables[j] : Tables[j][a] = v
    <3>1. PICK x \in Places : t[x] = v
      BY <1>3
    <3>6. v # INVALID
      BY Sizes
    <3>2. CASE \E a \in DataLbns : x = <<"data", a>>
      <4>1. PICK a \in DataLbns : x = <<"data", a>>
        BY <3>2
      <4>2. Tables[1][a] = v /\ a \in DOMAIN Tables[1]
        BY <1>5, <1>11, <1>12, <3>1, <4>1
      <4>. QED BY <3>6, <4>2
    <3>3. CASE \E a \in 0 .. RwLogBlks : x = <<"log", a>>
      <4>1. PICK a \in 0 .. RwLogBlks : x = <<"log", a>>
        BY <3>3
      <4>2. a \in LogLbns /\ log_bmt[a] = v
        BY <1>2, <3>1, <4>1, BlockAtIs, Sizes DEF LogLbns
      <4>3. Tables[2][a] = v /\ a \in DOMAIN Tables[2]
        BY <1>5, <4>2 DEF Tables
      <4>. QED BY <3>6, <4>3
    <3>4. CASE \E a \in IsolLbns : x = <<"isol", a>>
      <4>1. PICK a \in IsolLbns : x = <<"isol", a>>
        BY <3>4
      <4>2. Tables[3][a] = v /\ a \in DOMAIN Tables[3]
        BY <1>5, <1>11, <1>12, <3>1, <4>1
      <4>. QED BY <3>6, <4>2
    <3>5. CASE x = <<"free", 1>> \/ x = <<"free", 2>>
      <4>1. PICK a \in {1, 2} : x = <<"free", a>>
        BY <3>5
      <4>2. Tables[4][a] = v /\ a \in DOMAIN Tables[4]
        BY <1>5, <1>11, <1>12, <3>1, <4>1
      <4>. QED BY <3>6, <4>2
    <3>7. \/ \E a \in DataLbns : x = <<"data", a>>
          \/ \E a \in 0 .. RwLogBlks : x = <<"log", a>>
          \/ \E a \in IsolLbns : x = <<"isol", a>>
          \/ x = <<"free", 1>> \/ x = <<"free", 2>>
      BY <3>1, PlacesAre
    <3>. DEFINE G == v # INVALID /\ \E j \in 1 .. 4 : \E a \in DOMAIN Tables[j] : Tables[j][a] = v
    <3>8. /\ (\E a \in DataLbns : x = <<"data", a>>) => G
          /\ (\E a \in 0 .. RwLogBlks : x = <<"log", a>>) => G
      BY <3>2, <3>3
    <3>9. (\E a \in IsolLbns : x = <<"isol", a>>) => G
      BY <3>4
    <3>10. (x = <<"free", 1>> \/ x = <<"free", 2>>) => G
      BY <3>5
    <3>. HIDE DEF G
    <3>11. G
      BY <3>7, <3>8, <3>9, <3>10
    <3>. QED BY <3>11 DEF G
  <2>. QED BY <2>1, <2>2
<1>9. Len(free_bmt) = FREE_BLK_PER_BANK
  BY <1>1 DEF Assigned, FREE_BLK_PER_BANK
<1>10. \A i \in DOMAIN free_bmt : \A p \in Pages : flash[free_bmt[i]][p] = Erased
  <2>1. DOMAIN free_bmt = {1, 2}
    BY <1>5 DEF Tables
  <2>. QED BY <1>1, <2>1 DEF FreeErased
<1>. QED BY <1>7, <1>8, <1>9, <1>10 DEF BlocksApart

\* Through all merges, garbage collections and swaps the tables hold every good block
\* once, free blocks are erased, and the cursors of the log stay where they belong
\* (ftl_faster/ftl.c:1799-1818): with or without assertions.
THEOREM TablesInvariant == Spec => []IInv
<1>. QED BY InitIInv, NextIInv, PTL DEF Spec

\* No block is lost and none has two uses, whatever the host writes.
THEOREM BlocksApartThm == Spec => []BlocksApart
<1>. QED BY TablesInvariant, IInvApart, PTL

=============================================================================
