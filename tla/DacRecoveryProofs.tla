-------------------------- MODULE DacRecoveryProofs --------------------------
(***************************************************************************)
(* Proofs about DacRecovery for every number of banks, pages of a block,   *)
(* table pages and versions, under two hypotheses without which the code   *)
(* does not keep the properties.  The flushes since the format fit the map *)
(* blocks (Fits): the code never erases one, and its log runs into the     *)
(* next block (the violation run on MapInOwnBlock).  And no flush has      *)
(* followed one that was cut by a power loss (NoFlushAfterCut, a premise   *)
(* of each property).                                                      *)
(*                                                                         *)
(* The inductive invariant counts, for every bank and map block, the pages *)
(* that the current flush has logged; the last flush's pages lie right     *)
(* below them, and nothing above.                                          *)
(***************************************************************************)
EXTENDS DacRecovery, SequenceTheorems, TLAPS

\* The pages of the first p chunks of a table that go to bank b, and of table i.
Done(b, p)  == p \div NumBanks + (IF b < p % NumBanks THEN 1 ELSE 0)
Count(b, i) == Done(b, TablePages[i])

\* The most pages that a flush writes to the map block i of a bank.
PerBank(i) == TablePages[i] \div NumBanks + (IF TablePages[i] % NumBanks = 0 THEN 0 ELSE 1)

\* A map block has room for all flushes since the format, of which there are at most
\* MaxFlushes.
Fits == \A i \in Lbns : MaxFlushes * PerBank(i) < PagesPerBlk

-----------------------------------------------------------------------------
Contents == MapPages \union MiscPages \union {Erased, Spoiled}

MapPageOf(i, c, v) == [kind |-> "map", lbn |-> i, chunk |-> c, ver |-> v]
MiscPageOf(b, v)   ==
  [kind |-> "misc", ver |-> v, misc_vpn |-> misc_vpn[b], map_vpn |-> map_vpn[b]]

\* The cursors, as pages of their blocks.
Cur(b, i) == map_vpn[b][i] - MapVbn(i) * PagesPerBlk
MCur(b)   == misc_vpn[b] - MISCBLK_VBN * PagesPerBlk

Flushing == pc \in {"check", "map", "misc"}

\* The pages that the current flush has sent to map block i of bank b, where it began,
\* and how many of its pages are on flash.
Logged(b, i) ==
  IF pc = "misc" \/ (Flushing /\ lbn = 0 /\ i = 1) THEN Count(b, i)
  ELSE IF pc = "map" /\ lbn = i THEN Done(b, pos) ELSE 0

Base(b, i) == Cur(b, i) - Logged(b, i)

OnFlash(b, i) ==
  IF pc = "map" /\ lbn = i /\ queue[b] # <<>> THEN Logged(b, i) - 1 ELSE Logged(b, i)

\* The first n pages of table i of bank b are of version v, from page f of the block.
TableAt(b, i, f, n, v) ==
  \A c \in ChunksOf(b, i) : RoundOf(c) < n =>
    flash[b][MapVbn(i)][f + RoundOf(c)] = MapPageOf(i, c, v)

ErasedAbove(b, blk, k) == \A p \in Pages : p > k => flash[b][blk][p] = Erased

\* The flushes that are over.
Over == IF Flushing THEN flushes - 1 ELSE flushes

CtlOK ==
  /\ ver \in Versions /\ lbn \in Lbns /\ pos \in Nat
  /\ pc \in {"off", "idle", "check", "map", "misc", "mark"}
  /\ flushes \in 1 .. MaxFlushes
  /\ flushed \in Versions \union {None}
  /\ pc = "idle" => mark
  /\ pc = "mark" => ~mark
  /\ Flushing => (mark <=> flushed # None)
  /\ ~Flushing => flushed # None
  /\ pc = "check" => pos \in Banks
  /\ pc = "map"   => pos \in 0 .. TablePages[lbn]
  /\ pc = "misc"  => pos \in 0 .. 2 * NumBanks

\* The log of table i of bank b.
MapLogAt(b, i) ==
  /\ map_vpn[b][i] \in Nat
  /\ Base(b, i) \in 0 .. Over * PerBank(i)
  /\ ErasedAbove(b, MapVbn(i), Cur(b, i))
  /\ flushed # None => /\ Base(b, i) >= Count(b, i)
                       /\ TableAt(b, i, Base(b, i) - Count(b, i) + 1, Count(b, i), flushed)
  /\ Flushing => TableAt(b, i, Base(b, i) + 1, OnFlash(b, i), ver)

\* While a table is logged, a bank has at most the page of this round in its queue.
InRound(c) == c < pos /\ RoundOf(c) = RoundOf(pos - 1)

OnItsWay(b) ==
  \E c \in ChunksOf(b, lbn) :
    InRound(c) /\ RoundOf(c) + 1 = Done(b, pos) /\ ftl_buf[b] = MapPageOf(lbn, c, ver)

MapQueueAt(b) ==
  /\ pc = "map" /\ queue[b] # <<>> =>
       /\ OnItsWay(b)
       /\ queue[b] = <<Program(map_vpn[b][lbn])>>
       /\ flash[b][MapVbn(lbn)][Cur(b, lbn)] = Erased
  /\ pc \notin {"map", "misc"} => queue[b] = <<>>

\* The misc. log.
Waiting(b)  == pc # "misc" \/ pos <= b
Prepared(b) == pc = "misc" /\ b < pos /\ pos <= NumBanks + b
Issued(b)   == pc = "misc" /\ NumBanks + b < pos

OldMisc(b, vpn) ==
  [kind |-> "misc", ver |-> flushed, misc_vpn |-> vpn,
   map_vpn |-> [i \in Lbns |-> map_vpn[b][i] - Logged(b, i)]]

MiscWaiting(b) ==
  /\ MCur(b) \in 0 .. Over
  /\ pc # "map" => queue[b] = <<>>
  /\ flushed = None => MCur(b) = 0 /\ \A p \in Pages : flash[b][MISCBLK_VBN][p] = Erased
  /\ flushed # None => flash[b][MISCBLK_VBN][MCur(b)] = OldMisc(b, misc_vpn[b])

MiscOnItsWay(b) ==
  ftl_buf[b] = MiscPageOf(b, ver) /\ flash[b][MISCBLK_VBN][MCur(b)] = Erased

MiscIssued(b) ==
  \/ queue[b] = <<Program(misc_vpn[b])>> /\ MiscOnItsWay(b)
  \/ queue[b] = <<>> /\ flash[b][MISCBLK_VBN][MCur(b)] = MiscPageOf(b, ver)

MiscLogAt(b) ==
  /\ misc_vpn[b] \in Nat
  /\ ErasedAbove(b, MISCBLK_VBN, MCur(b))
  /\ Waiting(b) => MiscWaiting(b)
  /\ ~Waiting(b) =>
       /\ MCur(b) \in 1 .. flushes
       /\ flushed # None => flash[b][MISCBLK_VBN][MCur(b) - 1] = OldMisc(b, misc_vpn[b] - 1)
  /\ Prepared(b) => queue[b] = <<>> /\ MiscOnItsWay(b)
  /\ Issued(b) => MiscIssued(b)

Types ==
  /\ NandTypeOK(Contents)
  /\ misc_vpn \in [Banks -> Nat] /\ map_vpn \in [Banks -> [Lbns -> Nat]]

MapLog   == \A b \in Banks, i \in Lbns : MapLogAt(b, i)
MapQueue == \A b \in Banks : MapQueueAt(b)
MiscLog  == \A b \in Banks : MiscLogAt(b)

\* A drive that is up, or has been flushed to the end.
Live == Types /\ CtlOK /\ MapLog /\ MapQueue /\ MiscLog

\* No flush of a marked drive was cut.
CleanInv ==
  /\ Types
  /\ pc = "off" => \A b \in Banks : queue[b] = <<>>
  /\ pc # "off" \/ mark => Live

\* One was cut, and no flush has followed.
CutInv ==
  /\ Types
  /\ mark /\ pc \in {"off", "idle"} /\ \A b \in Banks : queue[b] = <<>>
  /\ \A b \in Banks : Saved(b) \in MiscPages /\ \E v \in Versions : BankImage(b, v)
  /\ pc = "idle" => /\ flushed \in Versions \union {Mixed}
                    /\ flushed # Mixed => Image(flushed)
                    /\ \A b \in Banks : /\ Saved(b).misc_vpn = misc_vpn[b]
                                        /\ Saved(b).map_vpn = map_vpn[b]

IInv ==
  /\ cut \in {"no", "cut", "over"} /\ mark \in BOOLEAN
  /\ cut = "no" => CleanInv
  /\ cut = "cut" => CutInv
  /\ cut = "over" => mark

-----------------------------------------------------------------------------
(***************************************************************************)
(* Arithmetic: pages and blocks of a vpn.                                  *)
(***************************************************************************)
\* Division with remainder.
LEMMA DivMod ==
  ASSUME NEW n \in Nat, NEW d \in Nat \ {0}
  PROVE  n \div d \in Nat /\ n % d \in 0 .. d - 1 /\ n = d * (n \div d) + (n % d)
<1>1. n % d \in 0 .. d - 1
  OBVIOUS
<1>2. n = d * (n \div d) + (n % d)
  OBVIOUS
<1>3. n \div d \in Int
  OBVIOUS
<1>4. ASSUME n \div d < 0 PROVE FALSE
  <2>1. d * (n \div d) <= d * (-1)
    BY <1>3, <1>4
  <2>. QED BY <1>1, <1>2, <1>3, <2>1
<1>. QED BY <1>1, <1>2, <1>3, <1>4

\* Quotient and remainder are determined by the sum.
LEMMA DivModIs ==
  ASSUME NEW d \in Nat \ {0}, NEW q \in Nat, NEW r \in 0 .. d - 1
  PROVE  (d * q + r) \div d = q /\ (d * q + r) % d = r
  OBVIOUS

\* A vpn names a page of a block.
LEMMA VpnPage ==
  ASSUME NEW vpn \in Nat
  PROVE  vpn % PagesPerBlk \in Pages /\ vpn \div PagesPerBlk \in Nat
<1>1. PagesPerBlk \in Nat \ {0}
  BY NandAssumption
<1>2. vpn % PagesPerBlk \in 0 .. PagesPerBlk - 1 /\ vpn \div PagesPerBlk \in Nat
  BY <1>1, DivMod
<1>. QED BY <1>2 DEF Pages

-----------------------------------------------------------------------------
(***************************************************************************)
(* Commands.                                                               *)
(***************************************************************************)
\* The commands of a queue of one or two.
LEMMA ShortQueue ==
  ASSUME NEW x, NEW y
  PROVE  /\ Head(<<x>>) = x /\ Tail(<<x>>) = <<>> /\ <<x>> # <<>>
         /\ Head(<<x, y>>) = x /\ Tail(<<x, y>>) = <<y>> /\ <<x, y>> # <<>>
         /\ <<x>> # <<x, y>> /\ <<y>> # <<x, y>>
  OBVIOUS

\* Appending to an empty queue, and to a queue of one.
LEMMA ShortConcat ==
  ASSUME NEW S, NEW x \in S, NEW y \in S
  PROVE  <<>> \o <<y>> = <<y>> /\ <<x>> \o <<y>> = <<x, y>>
<1>1. <<x>> \in Seq(S) /\ <<y>> \in Seq(S) /\ <<>> \in Seq(S) /\ <<x, y>> \in Seq(S)
  OBVIOUS
<1>2. <<>> \o <<y>> = <<y>>
  BY <1>1
<1>3. <<x>> \o <<y>> \in Seq(S) /\ Len(<<x>> \o <<y>>) = 2
      /\ (<<x>> \o <<y>>)[1] = x /\ (<<x>> \o <<y>>)[2] = y
  BY <1>1, ConcatProperties
<1>4. <<x>> \o <<y>> = <<x, y>>
  <2> DEFINE s == <<x>> \o <<y>>  t == <<x, y>>
  <2>1. s \in Seq(S) /\ t \in Seq(S) /\ Len(s) = Len(t) /\ Len(s) = 2
        /\ s[1] = t[1] /\ s[2] = t[2]
    BY <1>1, <1>3
  <2> HIDE DEF s, t
  <2>2. \A i \in 1 .. Len(s) : s[i] = t[i]
    <3>1. \A i \in 1 .. 2 : i = 1 \/ i = 2
      OBVIOUS
    <3>. QED BY <2>1, <3>1
  <2>3. s = t
    BY <2>1, <2>2, SeqEqual
  <2>. QED BY <2>3 DEF s, t
<1>. QED BY <1>2, <1>4

\* What the oldest command of a bank does to the flash.
LEMMA ExecuteEffect ==
  ASSUME NEW C, Erased \in C, Spoiled \in C, NandTypeOK(C), NEW b \in Banks, Execute(b)
  PROVE  /\ queue[b] # <<>> /\ Head(queue[b]) \in Commands
         /\ NandTypeOK(C)' /\ ftl_buf' = ftl_buf
         /\ queue'[b] = Tail(queue[b])
         /\ \A a \in Banks : a # b => flash'[a] = flash[a] /\ queue'[a] = queue[a]
         /\ \A v \in Blks : v # Head(queue[b]).blk => flash'[b][v] = flash[b][v]
         /\ \A p \in Pages : flash'[b][Head(queue[b]).blk][p] =
              IF Head(queue[b]).op = "erase" THEN Erased
              ELSE IF p # Head(queue[b]).pg THEN flash[b][Head(queue[b]).blk][p]
              ELSE IF flash[b][Head(queue[b]).blk][p] = Erased THEN ftl_buf[b] ELSE Spoiled
<1> DEFINE c == Head(queue[b])
           new == [p \in Pages |->
                     IF c.op = "erase" THEN Erased
                     ELSE IF p # c.pg THEN flash[b][c.blk][p]
                     ELSE IF flash[b][c.blk][p] = Erased THEN ftl_buf[b] ELSE Spoiled]
<1>1. queue[b] # <<>> /\ queue[b] \in Seq(Commands) /\ c \in Commands
  BY DEF Execute, NandTypeOK
<1>2. c.blk \in Blks /\ c.op \in {"erase", "program"}
  BY <1>1 DEF Commands
<1>3. flash' = [flash EXCEPT ![b][c.blk] = new]
  BY DEF Execute
<1>4. /\ queue' = [queue EXCEPT ![b] = Tail(queue[b])] /\ ftl_buf' = ftl_buf
      /\ Tail(queue[b]) \in Seq(Commands)
  BY <1>1 DEF Execute
<1>5. new \in [Pages -> C]
  BY <1>2 DEF NandTypeOK
<1> HIDE DEF new, c
<1>6. flash \in [Banks -> [Blks -> [Pages -> C]]]
  BY DEF NandTypeOK
<1>7. /\ flash' \in [Banks -> [Blks -> [Pages -> C]]]
      /\ flash'[b][c.blk] = new
      /\ \A a \in Banks : a # b => flash'[a] = flash[a]
      /\ \A v \in Blks : v # c.blk => flash'[b][v] = flash[b][v]
  BY <1>2, <1>3, <1>5, <1>6
<1>8. /\ queue' \in [Banks -> Seq(Commands)] /\ queue'[b] = Tail(queue[b])
      /\ \A a \in Banks : a # b => queue'[a] = queue[a]
  BY <1>4 DEF NandTypeOK
<1>9. NandTypeOK(C)'
  BY <1>4, <1>7, <1>8 DEF NandTypeOK
<1>10. \A p \in Pages : flash'[b][c.blk][p] = new[p]
  BY <1>7
<1>. QED BY <1>1, <1>4, <1>7, <1>8, <1>9, <1>10 DEF new, c

\* The page that load_misc_metadata takes is the one at the misc. cursor.
LEMMA NewestIs ==
  ASSUME NEW b \in Banks, NEW vpn \in Nat, NEW blk, blk = vpn \div PagesPerBlk,
         NEW page, page # Erased, Written(b, vpn, page)
  PROVE  Programmed(b, blk) # {} /\ Newest(b, blk) = page
<1> DEFINE g == vpn % PagesPerBlk
           S == Programmed(b, blk)
<1>1. g \in Pages /\ flash[b][blk][g] = page
      /\ \A p \in Pages : p > g => flash[b][blk][p] = Erased
  BY VpnPage DEF Written, PageAt, BlankAbove
<1>2. S \subseteq Pages /\ g \in S /\ \A q \in S : ~(q > g)
  BY <1>1 DEF Programmed
<1>3. \A p \in Pages : p \in Int
  BY DEF Pages
<1>4. \A q \in S : q \in Int /\ q <= g
  BY <1>1, <1>2, <1>3
<1>5. \A p \in S : (\A q \in S : q <= p) => p = g
  BY <1>2, <1>4
<1>6. (CHOOSE p \in S : \A q \in S : q <= p) = g
  BY <1>2, <1>4, <1>5
<1>. QED BY <1>1, <1>2, <1>6 DEF Newest

-----------------------------------------------------------------------------
(***************************************************************************)
(* Arithmetic: the rounds of a flush and the pages of a block.             *)
(***************************************************************************)
\* Chunk p is the next of its bank, and the others are not touched by it.
LEMMA DoneStep ==
  ASSUME NEW b \in Banks, NEW p \in Nat
  PROVE  /\ Done(b, p) \in Nat /\ BankOf(p) \in Banks /\ RoundOf(p) \in Nat
         /\ Done(b, p + 1) = IF BankOf(p) = b THEN Done(b, p) + 1 ELSE Done(b, p)
         /\ BankOf(p) = b => RoundOf(p) = Done(b, p)
<1>1. NumBanks \in Nat \ {0} /\ b \in 0 .. NumBanks - 1
  BY NandAssumption DEF Banks
<1>2. PICK n \in Nat \ {0} : n = NumBanks
  BY <1>1
<1>3. PICK q \in Nat : q = p \div n
  BY <1>2, DivMod
<1>4. PICK r \in 0 .. n - 1 : r = p % n
  BY <1>2, DivMod
<1>5. p = n * q + r /\ b \in 0 .. n - 1
  BY <1>1, <1>2, <1>3, <1>4, DivMod
<1>6. Done(b, p) = q + (IF b < r THEN 1 ELSE 0) /\ BankOf(p) = r /\ RoundOf(p) = q
  BY <1>2, <1>3, <1>4 DEF Done, BankOf, RoundOf
<1>7. CASE r + 1 < n
  <2>1. PICK s \in 0 .. n - 1 : s = r + 1
    BY <1>7
  <2>2. p + 1 = n * q + s
    BY <1>5, <2>1
  <2>3. (n * q + s) \div n = q /\ (n * q + s) % n = s
    BY DivModIs
  <2>4. Done(b, p + 1) = q + (IF b < s THEN 1 ELSE 0)
    BY <1>2, <2>2, <2>3 DEF Done
  <2>. QED BY <1>1, <1>2, <1>5, <1>6, <2>1, <2>4 DEF Banks
<1>8. CASE r + 1 >= n
  <2>1. r = n - 1
    BY <1>8
  <2>2. PICK k \in Nat : k = q + 1
    OBVIOUS
  <2>3. n * k = n * q + n
    BY <2>2
  <2>4. p + 1 = n * k + 0 /\ 0 \in 0 .. n - 1
    BY <1>5, <2>1, <2>3
  <2>5. (n * k + 0) \div n = k /\ (n * k + 0) % n = 0
    BY <2>4, DivModIs
  <2>6. Done(b, p + 1) = k + (IF b < 0 THEN 1 ELSE 0)
    BY <1>2, <2>4, <2>5 DEF Done
  <2>. QED BY <1>1, <1>2, <1>5, <1>6, <2>1, <2>2, <2>6 DEF Banks
<1>. QED BY <1>7, <1>8

\* The chunks of a bank before p are those of its first Done(b, p) rounds.
LEMMA DoneChunks ==
  ASSUME NEW b \in Banks, NEW p \in Nat, NEW c \in Nat, BankOf(c) = b
  PROVE  c < p <=> RoundOf(c) < Done(b, p)
<1> DEFINE n == NumBanks  q == p \div n  r == p % n  k == c \div n
<1>1. n \in Nat \ {0} /\ b \in 0 .. n - 1
  BY NandAssumption DEF Banks
<1>2. q \in Nat /\ r \in 0 .. n - 1 /\ p = n * q + r
  BY <1>1, DivMod
<1>3. k \in Nat /\ c = n * k + b
  BY <1>1, DivMod DEF BankOf
<1>4. Done(b, p) = q + (IF b < r THEN 1 ELSE 0) /\ RoundOf(c) = k
  BY DEF Done, RoundOf
<1> HIDE DEF q, r, k, n
<1>5. CASE k < q
  <2>1. n * k + n <= n * q
    <3>1. k + 1 <= q
      BY <1>2, <1>3, <1>5
    <3>2. n * (k + 1) <= n * q
      BY <1>1, <1>2, <1>3, <3>1
    <3>3. n * (k + 1) = n * k + n
      BY <1>1, <1>3
    <3>. QED BY <3>2, <3>3
  <2>2. n * k \in Nat /\ n * q \in Nat
    BY <1>1, <1>2, <1>3
  <2>. QED BY <1>1, <1>2, <1>3, <1>4, <1>5, <2>1, <2>2
<1>6. CASE k = q
  <2>1. n * q \in Nat
    BY <1>1, <1>2
  <2>. QED BY <1>1, <1>2, <1>3, <1>4, <1>6, <2>1
<1>7. CASE k > q
  <2>1. n * q + n <= n * k
    <3>1. q + 1 <= k
      BY <1>2, <1>3, <1>7
    <3>2. n * (q + 1) <= n * k
      BY <1>1, <1>2, <1>3, <3>1
    <3>3. n * (q + 1) = n * q + n
      BY <1>1, <1>2
    <3>. QED BY <3>2, <3>3
  <2>2. n * k \in Nat /\ n * q \in Nat
    BY <1>1, <1>2, <1>3
  <2>. QED BY <1>1, <1>2, <1>3, <1>4, <1>7, <2>1, <2>2
<1>. QED BY <1>2, <1>3, <1>5, <1>6, <1>7

\* Nothing is done at first, and never more than the table has.
LEMMA DoneBounds ==
  ASSUME NEW b \in Banks, NEW i \in Lbns
  PROVE  /\ TablePages[i] \in Nat /\ Done(b, 0) = 0
         /\ Count(b, i) \in Nat /\ PerBank(i) \in Nat /\ PerBank(i) >= 1 /\ Count(b, i) <= PerBank(i)
         /\ \A p \in 0 .. TablePages[i] : Done(b, p) \in Nat /\ Done(b, p) <= Count(b, i)
         /\ \A c \in ChunksOf(b, i) : /\ c \in Nat /\ BankOf(c) = b /\ RoundOf(c) \in Nat
                                      /\ RoundOf(c) < Count(b, i) /\ c < TablePages[i]
<1> DEFINE n == NumBanks  T == TablePages[i]  q == T \div n  r == T % n
<1>1. n \in Nat \ {0} /\ b \in 0 .. n - 1 /\ T \in Nat /\ T > 0
  BY NandAssumption, RecoveryAssumption DEF Banks
<1>2. q \in Nat /\ r \in 0 .. n - 1 /\ T = n * q + r
  BY <1>1, DivMod
<1>3. Count(b, i) = q + (IF b < r THEN 1 ELSE 0) /\ PerBank(i) = q + (IF r = 0 THEN 0 ELSE 1)
  BY DEF Count, Done, PerBank
<1>4. Done(b, 0) = 0
  <2>1. 0 \in 0 .. n - 1 /\ 0 = n * 0 + 0
    BY <1>1
  <2>2. 0 \div n = 0 /\ 0 % n = 0
    BY <1>1, <2>1, DivModIs
  <2>. QED BY <1>1, <2>2 DEF Done
<1>5. ASSUME NEW p \in 0 .. T
      PROVE  Done(b, p) \in Nat /\ Done(b, p) <= Count(b, i)
  <2> DEFINE s == p \div n  t == p % n
  <2>1. p \in Nat /\ p <= T
    BY <1>1
  <2>2. s \in Nat /\ t \in 0 .. n - 1 /\ p = n * s + t
    BY <1>1, <2>1, DivMod
  <2>3. Done(b, p) = s + (IF b < t THEN 1 ELSE 0)
    BY DEF Done
  <2> HIDE DEF s, t, q, r, n, T
  <2>4. CASE s > q
    <3>1. n * (q + 1) <= n * s
      BY <1>1, <1>2, <2>2, <2>4
    <3>2. n * (q + 1) = n * q + n /\ n * q \in Nat /\ n * s \in Nat
      BY <1>1, <1>2, <2>2
    <3>. QED BY <1>1, <1>2, <2>1, <2>2, <3>1, <3>2
  <2>5. CASE s = q
    <3>1. n * q \in Nat
      BY <1>1, <1>2
    <3>. QED BY <1>1, <1>2, <1>3, <2>1, <2>2, <2>3, <2>5, <3>1
  <2>6. CASE s < q
    BY <1>1, <1>2, <1>3, <2>2, <2>3, <2>6
  <2>. QED BY <1>2, <2>2, <2>4, <2>5, <2>6
<1>6. ASSUME NEW c \in ChunksOf(b, i)
      PROVE  /\ c \in Nat /\ BankOf(c) = b /\ RoundOf(c) \in Nat
             /\ RoundOf(c) < Count(b, i) /\ c < T
  <2>1. c \in Nat /\ c < T /\ BankOf(c) = b
    BY <1>1 DEF ChunksOf
  <2>. QED BY <1>1, <2>1, DoneStep, DoneChunks DEF Count
<1>7. PerBank(i) >= 1
  <2>1. CASE q = 0
    <3>1. n * q = 0
      BY <1>1, <2>1
    <3> HIDE DEF q, r, n, T
    <3>. QED BY <1>1, <1>2, <1>3, <2>1, <3>1
  <2>2. CASE q > 0
    BY <1>1, <1>2, <1>3, <2>2
  <2>. QED BY <1>2, <2>1, <2>2
<1> HIDE DEF q, r
<1>. QED BY <1>1, <1>2, <1>3, <1>4, <1>5, <1>6, <1>7

\* The flushes that the bound allows stay inside the block.
LEMMA Room ==
  ASSUME Fits, NEW i \in Lbns, NEW f \in 0 .. MaxFlushes
  PROVE  /\ f * PerBank(i) \in Nat /\ f * PerBank(i) < PagesPerBlk /\ f < PagesPerBlk
         /\ f > 0 => (f - 1) * PerBank(i) + PerBank(i) = f * PerBank(i)
<1>1. MaxFlushes \in Nat /\ PagesPerBlk \in Nat /\ NumBanks \in Nat \ {0}
  BY NandAssumption, RecoveryAssumption
<1>2. 0 \in Banks
  BY <1>1 DEF Banks
<1>3. PerBank(i) \in Nat /\ PerBank(i) >= 1
  BY <1>2, DoneBounds
<1>4. MaxFlushes * PerBank(i) < PagesPerBlk
  BY DEF Fits
<1>5. PICK P \in Nat : P = PerBank(i)
  BY <1>3
<1>6. f * P <= MaxFlushes * P /\ f * P \in Nat /\ MaxFlushes * P \in Nat
  BY <1>1
<1>7. f <= f * P
  BY <1>1, <1>3, <1>5
<1>8. f > 0 => (f - 1) * P + P = f * P
  BY <1>1
<1>. QED BY <1>1, <1>4, <1>5, <1>6, <1>7, <1>8

\* A vpn is a page of the block that it is counted from.
LEMMA PageOfBlk ==
  ASSUME NEW blk \in Nat, NEW vpn \in Int, vpn - blk * PagesPerBlk \in 0 .. PagesPerBlk - 1
  PROVE  /\ vpn \in Nat /\ vpn \div PagesPerBlk = blk /\ vpn % PagesPerBlk = vpn - blk * PagesPerBlk
         /\ vpn - blk * PagesPerBlk \in Pages
<1>1. PICK o \in 0 .. PagesPerBlk - 1 : o = vpn - blk * PagesPerBlk
  OBVIOUS
<1>2. PagesPerBlk \in Nat \ {0} /\ blk * PagesPerBlk \in Nat /\ PagesPerBlk * blk = blk * PagesPerBlk
  BY NandAssumption
<1>3. vpn = PagesPerBlk * blk + o
  BY <1>1, <1>2
<1>4. (PagesPerBlk * blk + o) \div PagesPerBlk = blk /\ (PagesPerBlk * blk + o) % PagesPerBlk = o
  BY <1>2, DivModIs
<1>. QED BY <1>1, <1>2, <1>3, <1>4 DEF Pages

\* The metadata blocks are apart.
LEMMA MetaBlks ==
  /\ MISCBLK_VBN \in Blks /\ MISCBLK_VBN \in Nat
  /\ \A i \in Lbns : MapVbn(i) \in Blks /\ MapVbn(i) \in Nat /\ MapVbn(i) # MISCBLK_VBN
  /\ \A i, j \in Lbns : i # j => MapVbn(i) # MapVbn(j)
  BY RecoveryAssumption, NandAssumption DEF Blks, MapVbn, MISCBLK_VBN, Lbns
\* A bank has one chunk in a round.
LEMMA ChunkIs ==
  ASSUME NEW c \in Nat, NEW d \in Nat, BankOf(c) = BankOf(d), RoundOf(c) = RoundOf(d)
  PROVE  c = d
<1>1. NumBanks \in Nat \ {0}
  BY NandAssumption
<1>2. c = NumBanks * (c \div NumBanks) + (c % NumBanks)
  BY <1>1, DivMod
<1>3. d = NumBanks * (d \div NumBanks) + (d % NumBanks)
  BY <1>1, DivMod
<1>. QED BY <1>2, <1>3 DEF BankOf, RoundOf

\* A chunk that is not the first of its round follows one of the same round.
LEMMA SameRound ==
  ASSUME NEW p \in Nat, BankOf(p) # 0
  PROVE  p - 1 \in Nat /\ RoundOf(p - 1) = RoundOf(p)
<1>1. PICK n \in Nat \ {0} : n = NumBanks
  BY NandAssumption
<1>2. PICK q \in Nat : q = p \div n
  BY <1>1, DivMod
<1>3. PICK r \in 0 .. n - 1 : r = p % n
  BY <1>1, DivMod
<1>4. p = n * q + r /\ r # 0
  BY <1>1, <1>2, <1>3, DivMod DEF BankOf
<1>5. PICK s \in 0 .. n - 1 : s = r - 1
  BY <1>4
<1>6. p - 1 = n * q + s /\ n * q \in Nat
  BY <1>4, <1>5
<1>7. (n * q + s) \div n = q
  BY DivModIs
<1>. QED BY <1>1, <1>2, <1>6, <1>7 DEF RoundOf

-----------------------------------------------------------------------------
(***************************************************************************)
(* The logs.                                                               *)
(***************************************************************************)
\* The cursors of the logs stay in their blocks, and a flush finds room.
LEMMA Cursors ==
  ASSUME Fits, Live, NEW b \in Banks, NEW i \in Lbns
  PROVE  /\ Logged(b, i) \in Nat /\ Logged(b, i) <= Count(b, i)
         /\ Base(b, i) \in Nat /\ Cur(b, i) = Base(b, i) + Logged(b, i)
         /\ Base(b, i) + PerBank(i) < PagesPerBlk \/ ~Flushing
         /\ Cur(b, i) \in Pages /\ Base(b, i) \in Pages
         /\ Over \in 0 .. MaxFlushes
<1>1. CtlOK /\ MapLogAt(b, i)
  BY DEF Live, MapLog
<1>2. TablePages[i] \in Nat /\ Count(b, i) \in Nat /\ PerBank(i) \in Nat /\ Count(b, i) <= PerBank(i)
      /\ \A p \in 0 .. TablePages[i] : Done(b, p) \in Nat /\ Done(b, p) <= Count(b, i)
  BY DoneBounds
<1>3. Logged(b, i) \in Nat /\ Logged(b, i) <= Count(b, i) /\ (~Flushing => Logged(b, i) = 0)
  BY <1>1, <1>2 DEF Logged, CtlOK, Flushing
<1>4. MaxFlushes \in Nat /\ flushes \in 1 .. MaxFlushes /\ Over \in 0 .. MaxFlushes
      /\ (Flushing => Over = flushes - 1) /\ (~Flushing => Over = flushes)
  BY <1>1, RecoveryAssumption DEF CtlOK, Over
<1>5. map_vpn[b][i] \in Nat /\ MapVbn(i) * PagesPerBlk \in Nat
  BY <1>1, NandAssumption, MetaBlks DEF MapLogAt
<1>6. Cur(b, i) \in Int /\ Cur(b, i) = Base(b, i) + Logged(b, i)
  BY <1>3, <1>5 DEF Cur, Base
<1>7. PICK f \in 0 .. MaxFlushes : f = flushes
  BY <1>4
<1>8. f * PerBank(i) \in Nat /\ f * PerBank(i) < PagesPerBlk
      /\ (f - 1) * PerBank(i) + PerBank(i) = f * PerBank(i)
  BY <1>4, <1>7, Room
<1>9. Base(b, i) \in 0 .. Over * PerBank(i)
  BY <1>1 DEF MapLogAt
<1>10. CASE Flushing
  <2>1. Base(b, i) \in 0 .. (f - 1) * PerBank(i)
    BY <1>4, <1>7, <1>9, <1>10
  <2>2. (f - 1) * PerBank(i) \in Int
    BY <1>2
  <2>3. Base(b, i) + PerBank(i) <= f * PerBank(i)
    BY <1>2, <1>8, <2>1, <2>2
  <2>. QED BY <1>2, <1>3, <1>4, <1>6, <1>8, <2>1, <2>3, NandAssumption DEF Pages
<1>11. CASE ~Flushing
  <2>1. Base(b, i) \in 0 .. f * PerBank(i) /\ Logged(b, i) = 0
    BY <1>3, <1>4, <1>7, <1>9, <1>11
  <2>. QED BY <1>3, <1>4, <1>6, <1>8, <1>11, <2>1, NandAssumption DEF Pages
<1>. QED BY <1>10, <1>11

\* So does the misc. cursor.
LEMMA MiscCursor ==
  ASSUME Fits, Live, NEW b \in Banks
  PROVE  /\ MCur(b) \in Pages /\ MCur(b) <= flushes /\ flushes < PagesPerBlk
         /\ ~Waiting(b) => MCur(b) - 1 \in Pages
         /\ Flushing /\ Waiting(b) => MCur(b) + 1 <= flushes
<1>1. CtlOK /\ MiscLogAt(b)
  BY DEF Live, MiscLog
<1>2. flushes \in 1 .. MaxFlushes /\ MaxFlushes \in Nat /\ PagesPerBlk \in Nat
  BY <1>1, RecoveryAssumption, NandAssumption DEF CtlOK
<1>3. flushes < PagesPerBlk
  <2>1. PICK f \in 0 .. MaxFlushes : f = flushes
    BY <1>2
  <2>2. 0 \in Lbns
    BY DEF Lbns
  <2>. QED BY <2>1, <2>2, Room
<1>4. MCur(b) \in 0 .. flushes /\ (~Waiting(b) => MCur(b) \in 1 .. flushes)
  BY <1>1, <1>2 DEF MiscLogAt, MiscWaiting, Over
<1>5. Flushing /\ Waiting(b) => MCur(b) + 1 <= flushes
  BY <1>1, <1>2 DEF MiscLogAt, MiscWaiting, Over
<1>. QED BY <1>2, <1>3, <1>4, <1>5 DEF Pages

\* A misc. page, the last of its block, leads to the pages of the tables that lie right
\* below its cursors.
LEMMA ImageOf ==
  ASSUME NEW b \in Banks, NEW k \in Pages, NEW v,
         NEW m, m \in MiscPages, m.ver = v,
         flash[b][MISCBLK_VBN][k] = m, ErasedAbove(b, MISCBLK_VBN, k),
         \A i \in Lbns :
           /\ m.map_vpn[i] - MapVbn(i) * PagesPerBlk \in Pages
           /\ m.map_vpn[i] - MapVbn(i) * PagesPerBlk >= Count(b, i)
           /\ TableAt(b, i, m.map_vpn[i] - MapVbn(i) * PagesPerBlk - Count(b, i) + 1, Count(b, i), v)
  PROVE  Programmed(b, MISCBLK_VBN) # {} /\ Saved(b) = m /\ BankImage(b, v)
<1>1. PICK vpn \in Nat : vpn = MISCBLK_VBN * PagesPerBlk + k
  BY NandAssumption DEF Pages, MISCBLK_VBN
<1>2. vpn \div PagesPerBlk = MISCBLK_VBN /\ vpn % PagesPerBlk = k
  <2>1. vpn - MISCBLK_VBN * PagesPerBlk = k /\ k \in 0 .. PagesPerBlk - 1
    BY <1>1, NandAssumption DEF Pages, MISCBLK_VBN
  <2>. QED BY <2>1, PageOfBlk, MetaBlks
<1>3. Written(b, vpn, m) /\ m # Erased
  BY <1>2, PageAssumption DEF Written, PageAt, BlankAbove, ErasedAbove
<1>4. Programmed(b, MISCBLK_VBN) # {} /\ Saved(b) = m
  BY <1>2, <1>3, NewestIs DEF Saved
<1>5. m.kind = "misc"
  BY DEF MiscPages
<1>6. ASSUME NEW i \in Lbns, NEW c \in ChunksOf(b, i)
      PROVE  LoadedPage(i, c) = [kind |-> "map", lbn |-> i, chunk |-> c, ver |-> v]
  <2>1. c \in Nat /\ BankOf(c) = b /\ RoundOf(c) \in Nat /\ RoundOf(c) < Count(b, i)
        /\ Count(b, i) \in Nat /\ TablePages[i] \in Nat
    BY DoneBounds
  <2>2. PICK o \in Pages : o = m.map_vpn[i] - MapVbn(i) * PagesPerBlk
    OBVIOUS
  <2>3. m.map_vpn[i] \in Nat /\ MapVbn(i) \in Nat /\ MapVbn(i) * PagesPerBlk \in Nat /\ PagesPerBlk \in Nat
    BY MetaBlks, NandAssumption DEF MiscPages
  <2>4. FirstLoaded(b, i) = m.map_vpn[i] - Count(b, i) + 1
    <3>1. TablePages[i] \div NumBanks \in Int
      <4>1. PICK n \in Nat \ {0} : n = NumBanks
        BY NandAssumption
      <4>2. PICK T \in Nat : T = TablePages[i]
        BY <2>1
      <4>. QED BY <4>1, <4>2, DivMod
    <3>2. Count(b, i) = TablePages[i] \div NumBanks + (IF b < TablePages[i] % NumBanks THEN 1 ELSE 0)
      BY DEF Count, Done
    <3>. QED BY <1>4, <2>3, <3>1, <3>2 DEF FirstLoaded
  <2>5. PICK w \in Int : w = FirstLoaded(b, i) + RoundOf(c)
    BY <2>1, <2>3, <2>4
  <2>6. w - MapVbn(i) * PagesPerBlk = o - Count(b, i) + 1 + RoundOf(c)
    BY <2>1, <2>2, <2>3, <2>4, <2>5
  <2>7. o - Count(b, i) + 1 + RoundOf(c) \in 0 .. PagesPerBlk - 1
    BY <2>1, <2>2, NandAssumption DEF Pages
  <2>8. w \div PagesPerBlk = MapVbn(i) /\ w % PagesPerBlk = o - Count(b, i) + 1 + RoundOf(c)
    BY <2>3, <2>6, <2>7, PageOfBlk
  <2>9. flash[b][MapVbn(i)][o - Count(b, i) + 1 + RoundOf(c)] = MapPageOf(i, c, v)
    BY <2>1, <2>2 DEF TableAt
  <2>. QED BY <2>1, <2>5, <2>8, <2>9 DEF LoadedPage, PageAt, MapPageOf
<1>. QED BY <1>4, <1>5, <1>6 DEF BankImage

\* The image that a finished flush left in bank b, until its next misc. page is there.
LEMMA OldImage ==
  ASSUME Fits, Live, NEW b \in Banks, flushed # None,
         Waiting(b) \/ Prepared(b) \/ queue[b] # <<>>
  PROVE  /\ Programmed(b, MISCBLK_VBN) # {} /\ BankImage(b, flushed)
         /\ Saved(b) = OldMisc(b, IF Waiting(b) THEN misc_vpn[b] ELSE misc_vpn[b] - 1)
         /\ Saved(b) \in MiscPages
<1>1. CtlOK /\ MiscLogAt(b) /\ Types /\ \A i \in Lbns : MapLogAt(b, i)
  BY DEF Live, MiscLog, MapLog
<1>2. flushed \in Versions
  BY <1>1 DEF CtlOK
<1>3. misc_vpn[b] \in Nat /\ MISCBLK_VBN * PagesPerBlk \in Nat
  BY <1>1, NandAssumption DEF Types, MISCBLK_VBN
<1>4. PICK k \in Pages, vpn \in Int :
        /\ flash[b][MISCBLK_VBN][k] = OldMisc(b, vpn) /\ ErasedAbove(b, MISCBLK_VBN, k)
        /\ vpn = IF Waiting(b) THEN misc_vpn[b] ELSE misc_vpn[b] - 1
        /\ vpn \in Nat
  <2>1. CASE Waiting(b)
    BY <1>1, <1>3, <2>1, MiscCursor DEF MiscLogAt, MiscWaiting
  <2>2. CASE ~Waiting(b)
    <3>1. MCur(b) - 1 \in Pages /\ MCur(b) \in 1 .. flushes
          /\ flash[b][MISCBLK_VBN][MCur(b) - 1] = OldMisc(b, misc_vpn[b] - 1)
      BY <1>1, <2>2, MiscCursor DEF MiscLogAt
    <3>2. flash[b][MISCBLK_VBN][MCur(b)] = Erased
      <4>1. pc = "misc" /\ pos \in Nat /\ b \in Nat /\ NumBanks \in Nat
        BY <1>1, <2>2, NandAssumption DEF Waiting, CtlOK, Banks
      <4>2. Prepared(b) \/ Issued(b)
        BY <2>2, <4>1 DEF Waiting, Prepared, Issued
      <4>. QED BY <1>1, <2>2, <4>2 DEF MiscLogAt, MiscIssued, MiscOnItsWay
    <3>3. ErasedAbove(b, MISCBLK_VBN, MCur(b) - 1)
      <4>1. \A p \in Pages : p > MCur(b) - 1 => p = MCur(b) \/ p > MCur(b)
        BY <3>1 DEF Pages
      <4>. QED BY <1>1, <3>2, <4>1 DEF MiscLogAt, ErasedAbove
    <3>4. misc_vpn[b] - 1 \in Nat
      BY <1>3, <3>1 DEF MCur
    <3>. QED BY <2>2, <3>1, <3>3, <3>4
  <2>. QED BY <2>1, <2>2
<1>5. ASSUME NEW i \in Lbns
      PROVE  /\ map_vpn[b][i] - Logged(b, i) \in Nat
             /\ map_vpn[b][i] - Logged(b, i) - MapVbn(i) * PagesPerBlk = Base(b, i)
  <2>1. map_vpn[b][i] \in Nat /\ MapVbn(i) * PagesPerBlk \in Nat
    BY <1>1, NandAssumption, MetaBlks DEF MapLogAt
  <2>2. Logged(b, i) \in Nat /\ Base(b, i) \in Nat
    BY Cursors
  <2>. QED BY <2>1, <2>2 DEF Base, Cur
<1>6. PICK m : m = OldMisc(b, vpn)
  OBVIOUS
<1>7. m \in MiscPages /\ m.ver = flushed
      /\ \A i \in Lbns : m.map_vpn[i] = map_vpn[b][i] - Logged(b, i)
  BY <1>2, <1>4, <1>5, <1>6 DEF OldMisc, MiscPages
<1>8. \A i \in Lbns :
        /\ m.map_vpn[i] - MapVbn(i) * PagesPerBlk = Base(b, i)
        /\ Base(b, i) \in Pages /\ Base(b, i) >= Count(b, i)
        /\ TableAt(b, i, Base(b, i) - Count(b, i) + 1, Count(b, i), flushed)
  BY <1>1, <1>5, <1>7, Cursors DEF MapLogAt
<1>9. Programmed(b, MISCBLK_VBN) # {} /\ Saved(b) = m /\ BankImage(b, flushed)
  BY <1>4, <1>6, <1>7, <1>8, ImageOf
<1>. QED BY <1>4, <1>6, <1>7, <1>9

\* The image of a bank whose misc. page of this flush is on flash.
LEMMA NewImage ==
  ASSUME Fits, Live, NEW b \in Banks, Issued(b), queue[b] = <<>>
  PROVE  /\ Programmed(b, MISCBLK_VBN) # {} /\ BankImage(b, ver)
         /\ Saved(b) = MiscPageOf(b, ver) /\ Saved(b) \in MiscPages
<1>1. CtlOK /\ MiscLogAt(b) /\ Types /\ \A i \in Lbns : MapLogAt(b, i)
  BY DEF Live, MiscLog, MapLog
<1>2. pc = "misc" /\ Flushing /\ MCur(b) \in Pages
  BY MiscCursor DEF Issued, Flushing
<1>3. flash[b][MISCBLK_VBN][MCur(b)] = MiscPageOf(b, ver) /\ ErasedAbove(b, MISCBLK_VBN, MCur(b))
  BY <1>1, ShortQueue DEF MiscLogAt, MiscIssued
<1>4. PICK m : m = MiscPageOf(b, ver)
  OBVIOUS
<1>5. m \in MiscPages /\ m.ver = ver /\ \A i \in Lbns : m.map_vpn[i] = map_vpn[b][i]
  BY <1>1, <1>4 DEF MiscPageOf, MiscPages, Types, CtlOK
<1>6. ASSUME NEW i \in Lbns
      PROVE  /\ Cur(b, i) \in Pages /\ Cur(b, i) >= Count(b, i)
             /\ TableAt(b, i, Cur(b, i) - Count(b, i) + 1, Count(b, i), ver)
  <2>1. Logged(b, i) = Count(b, i) /\ OnFlash(b, i) = Count(b, i)
    BY <1>2 DEF Logged, OnFlash
  <2>2. Cur(b, i) \in Pages /\ Base(b, i) \in Nat /\ Cur(b, i) = Base(b, i) + Count(b, i)
        /\ Count(b, i) \in Nat
    BY <2>1, Cursors, DoneBounds
  <2>3. Base(b, i) + 1 = Cur(b, i) - Count(b, i) + 1 /\ Cur(b, i) >= Count(b, i)
    BY <2>2
  <2>. QED BY <1>1, <1>2, <2>1, <2>2, <2>3 DEF MapLogAt
<1>7. \A i \in Lbns : m.map_vpn[i] - MapVbn(i) * PagesPerBlk = Cur(b, i)
  BY <1>5 DEF Cur
<1>. QED BY <1>2, <1>3, <1>4, <1>5, <1>6, <1>7, ImageOf
-----------------------------------------------------------------------------
(***************************************************************************)
(* What a step that does not touch a log leaves true of it.                *)
(***************************************************************************)
\* The log of a table.
LEMMA MapFrame ==
  ASSUME NEW b \in Banks, NEW i \in Lbns, MapLogAt(b, i),
         map_vpn'[b][i] = map_vpn[b][i], flash'[b][MapVbn(i)] = flash[b][MapVbn(i)],
         Logged(b, i)' = Logged(b, i), Over' = Over, flushed' = flushed,
         Flushing' => \/ OnFlash(b, i)' = 0
                      \/ Flushing /\ ver' = ver /\ OnFlash(b, i)' = OnFlash(b, i)
  PROVE  MapLogAt(b, i)'
<1>1. Cur(b, i)' = Cur(b, i) /\ Base(b, i)' = Base(b, i)
  BY DEF Cur, Base
<1>2. ErasedAbove(b, MapVbn(i), Cur(b, i))'
  BY <1>1 DEF MapLogAt, ErasedAbove
<1>3. flushed' # None => /\ Base(b, i)' >= Count(b, i)
                         /\ TableAt(b, i, Base(b, i) - Count(b, i) + 1, Count(b, i), flushed)'
  BY <1>1 DEF MapLogAt, TableAt, MapPageOf
<1>4. Flushing' => TableAt(b, i, Base(b, i) + 1, OnFlash(b, i), ver)'
  <2>1. CASE OnFlash(b, i)' = 0
    <3>1. \A c \in ChunksOf(b, i) : ~(RoundOf(c) < 0)
      <4>1. \A c \in ChunksOf(b, i) : RoundOf(c) \in Nat
        BY DoneBounds
      <4>2. \A n \in Nat : ~(n < 0)
        OBVIOUS
      <4>. QED BY <4>1, <4>2
    <3>. QED BY <2>1, <3>1 DEF TableAt
  <2>2. CASE Flushing /\ ver' = ver /\ OnFlash(b, i)' = OnFlash(b, i)
    BY <1>1, <2>2 DEF MapLogAt, TableAt, MapPageOf
  <2>. QED BY <2>1, <2>2
<1>. QED BY <1>1, <1>2, <1>3, <1>4 DEF MapLogAt

\* The misc. log of a bank whose turn has not come.
LEMMA MiscFrame ==
  ASSUME NEW b \in Banks, pos' \in Nat, MiscLogAt(b), Waiting(b), Waiting(b)',
         misc_vpn'[b] = misc_vpn[b], flash'[b][MISCBLK_VBN] = flash[b][MISCBLK_VBN],
         flushed' = flushed, Over' = Over,
         \A i \in Lbns : (map_vpn[b][i] - Logged(b, i))' = map_vpn[b][i] - Logged(b, i),
         pc' # "map" => queue'[b] = <<>>
  PROVE  MiscLogAt(b)'
<1>1. MCur(b)' = MCur(b) /\ OldMisc(b, misc_vpn[b])' = OldMisc(b, misc_vpn[b])
  BY DEF MCur, OldMisc
<1>2. MiscWaiting(b)'
  BY <1>1 DEF MiscLogAt, MiscWaiting
<1>3. ErasedAbove(b, MISCBLK_VBN, MCur(b))'
  BY <1>1 DEF MiscLogAt, ErasedAbove
<1>4. ~Prepared(b)' /\ ~Issued(b)'
  <2>1. b \in Nat /\ NumBanks \in Nat
    BY NandAssumption DEF Banks
  <2>. QED BY <2>1 DEF Waiting, Prepared, Issued
<1>. QED BY <1>2, <1>3, <1>4 DEF MiscLogAt

\* The misc. log of a bank that has its page of this flush.
LEMMA MiscDoneFrame ==
  ASSUME NEW b \in Banks, MiscLogAt(b), ~Waiting(b), pc = "misc", pc' = "misc",
         Waiting(b)' = Waiting(b), Prepared(b)' = Prepared(b), Issued(b)' = Issued(b),
         misc_vpn'[b] = misc_vpn[b], flash'[b][MISCBLK_VBN] = flash[b][MISCBLK_VBN],
         ftl_buf'[b] = ftl_buf[b], queue'[b] = queue[b], map_vpn' = map_vpn,
         flushed' = flushed, flushes' = flushes, ver' = ver
  PROVE  MiscLogAt(b)'
<1>1. MCur(b)' = MCur(b) /\ MiscPageOf(b, ver)' = MiscPageOf(b, ver)
  BY DEF MCur, MiscPageOf
<1>2. \A i \in Lbns : Logged(b, i)' = Logged(b, i)
  BY DEF Logged
<1>3. OldMisc(b, misc_vpn[b] - 1)' = OldMisc(b, misc_vpn[b] - 1)
  BY <1>2 DEF OldMisc
<1>4. ErasedAbove(b, MISCBLK_VBN, MCur(b))'
  BY <1>1 DEF MiscLogAt, ErasedAbove
<1>5. MiscOnItsWay(b)' = MiscOnItsWay(b)
  BY <1>1 DEF MiscOnItsWay
<1>6. MiscIssued(b)' = MiscIssued(b)
  BY <1>1, <1>5 DEF MiscIssued
<1>. QED BY <1>1, <1>3, <1>4, <1>5, <1>6 DEF MiscLogAt

\* The logs of a drive that neither flushes before the step nor has begun to log after it.
LEMMA QuietFrame ==
  ASSUME Live, pc \in {"off", "idle", "mark"},
         pc' \in {"off", "idle"} \/ (pc' = "check" /\ lbn' = 1), pos' \in Nat,
         flash' = flash, queue' = [b \in Banks |-> <<>>] \/ queue' = queue,
         misc_vpn' = misc_vpn, map_vpn' = map_vpn, flushed' = flushed, Over' = Over
  PROVE  MapLog' /\ MapQueue' /\ MiscLog'
<1>1. \A b \in Banks : queue[b] = <<>> /\ queue'[b] = <<>>
  BY DEF Live, MapQueue, MapQueueAt
<1>2. \A b \in Banks, i \in Lbns : Logged(b, i) = 0 /\ Logged(b, i)' = 0 /\ OnFlash(b, i)' = 0
  BY DEF Logged, OnFlash, Flushing
<1>3. \A b \in Banks : Waiting(b) /\ Waiting(b)'
  BY DEF Waiting
<1>4. \A b \in Banks, i \in Lbns : MapLogAt(b, i)'
  BY <1>2, MapFrame DEF Live, MapLog
<1>5. \A b \in Banks : MiscLogAt(b)'
  BY <1>1, <1>2, <1>3, MiscFrame DEF Live, MiscLog
<1>6. \A b \in Banks : MapQueueAt(b)'
  BY <1>1 DEF MapQueueAt
<1>. QED BY <1>4, <1>5, <1>6 DEF MapLog, MapQueue, MiscLog

-----------------------------------------------------------------------------
(***************************************************************************)
(* Format, start, power-off.                                               *)
(***************************************************************************)
\* A format begins a flush to empty logs.
LEMMA FormatInv ==
  ASSUME Fits, CleanInv, mark \in BOOLEAN, format
  PROVE  Live' /\ pc' = "check" /\ cut' = "no" /\ mark' = FALSE
<1>1. Types /\ \A b \in Banks : queue'[b] = <<>>
  BY DEF CleanInv, format
<1>2. /\ \A i \in Lbns : MapVbn(i) * PagesPerBlk \in Nat
      /\ MISCBLK_VBN * PagesPerBlk \in Nat /\ 0 \in Banks
  BY MetaBlks, NandAssumption DEF Banks
<1>3. Types'
  <2>1. CleanFlash \in [Banks -> [Blks -> [Pages -> Contents]]]
    BY DEF CleanFlash, Contents
  <2>. QED BY <1>1, <1>2, <2>1 DEF Types, NandTypeOK, format
<1>4. CtlOK'
  BY <1>2, RecoveryAssumption DEF format, CtlOK, Lbns, Versions, Flushing
<1>5. Over' = 0 /\ Flushing'
  BY DEF format, Over, Flushing
<1>6. ASSUME NEW b \in Banks, NEW i \in Lbns
      PROVE  MapLogAt(b, i)' /\ MapQueueAt(b)' /\ MiscLogAt(b)'
  <2>1. map_vpn'[b][i] = MapVbn(i) * PagesPerBlk /\ misc_vpn'[b] = MISCBLK_VBN * PagesPerBlk
    BY DEF format
  <2>2. Logged(b, i)' = 0 /\ OnFlash(b, i)' = 0
    BY DEF format, Logged, OnFlash, Flushing
  <2>3. Cur(b, i)' = 0 /\ Base(b, i)' = 0 /\ MCur(b)' = 0
    BY <1>2, <2>1, <2>2 DEF Cur, Base, MCur
  <2>4. \A blk \in Blks, p \in Pages : flash'[b][blk][p] = Erased
    BY DEF format, CleanFlash
  <2>5. MapVbn(i) \in Blks /\ MISCBLK_VBN \in Blks /\ flushed' = None
    BY MetaBlks DEF format
  <2>6. MapLogAt(b, i)'
    <3>1. 0 * PerBank(i) = 0
      BY DoneBounds
    <3>2. \A c \in ChunksOf(b, i) : ~(RoundOf(c) < 0)
      <4>1. \A c \in ChunksOf(b, i) : RoundOf(c) \in Nat
        BY DoneBounds
      <4>2. \A n \in Nat : ~(n < 0)
        OBVIOUS
      <4>. QED BY <4>1, <4>2
    <3>3. ErasedAbove(b, MapVbn(i), Cur(b, i))'
      BY <2>4, <2>5 DEF ErasedAbove
    <3>4. TableAt(b, i, Base(b, i) + 1, OnFlash(b, i), ver)'
      BY <2>2, <3>2 DEF TableAt
    <3>. QED BY <1>2, <1>5, <2>1, <2>3, <2>5, <3>1, <3>3, <3>4 DEF MapLogAt
  <2>7. MapQueueAt(b)'
    BY <1>1 DEF format, MapQueueAt
  <2>8. MiscLogAt(b)'
    <3>1. Waiting(b)' /\ ~Prepared(b)' /\ ~Issued(b)'
      BY DEF format, Waiting, Prepared, Issued
    <3>2. MiscWaiting(b)'
      BY <1>1, <1>5, <2>3, <2>4, <2>5 DEF MiscWaiting
    <3>3. ErasedAbove(b, MISCBLK_VBN, MCur(b))'
      BY <2>4, <2>5 DEF ErasedAbove
    <3>. QED BY <1>2, <2>1, <3>1, <3>2, <3>3 DEF MiscLogAt
  <2>. QED BY <2>6, <2>7, <2>8
<1>7. 0 \in Lbns
  BY DEF Lbns
<1>. QED BY <1>3, <1>4, <1>6, <1>7 DEF Live, MapLog, MapQueue, MiscLog, format

\* What a start loads is the last finished flush, and so are the cursors.
LEMMA Loaded ==
  ASSUME Fits, Live, pc \in {"off", "idle"}
  PROVE  /\ flushed \in Versions /\ Image(flushed)
         /\ \A v \in Versions : Image(v) => v = flushed
         /\ \A b \in Banks : /\ Programmed(b, MISCBLK_VBN) # {}
                             /\ Saved(b).misc_vpn = misc_vpn[b] /\ Saved(b).map_vpn = map_vpn[b]
<1>1. flushed \in Versions /\ flushed # None
  BY RecoveryAssumption DEF Live, CtlOK, Flushing
<1>2. ASSUME NEW b \in Banks
      PROVE  /\ Programmed(b, MISCBLK_VBN) # {} /\ BankImage(b, flushed)
             /\ Saved(b) = OldMisc(b, misc_vpn[b])
  <2>1. Waiting(b)
    BY DEF Waiting
  <2>. QED BY <1>1, <2>1, OldImage
<1>3. ASSUME NEW b \in Banks
      PROVE  Saved(b).misc_vpn = misc_vpn[b] /\ Saved(b).map_vpn = map_vpn[b] /\ Saved(b).ver = flushed
  <2>1. \A i \in Lbns : Logged(b, i) = 0
    BY DEF Logged, Flushing
  <2>2. map_vpn[b] \in [Lbns -> Nat]
    BY DEF Live, Types
  <2>3. [i \in Lbns |-> map_vpn[b][i] - Logged(b, i)] = map_vpn[b]
    BY <2>1, <2>2
  <2>. QED BY <1>2, <2>3 DEF OldMisc
<1>4. 0 \in Banks
  BY NandAssumption DEF Banks
<1>. QED BY <1>1, <1>2, <1>3, <1>4 DEF Image, BankImage

\* A start after a clean power-off goes on where the last flush ended.
LEMMA LoadInv ==
  ASSUME Fits, Live, load_metadata
  PROVE  Live' /\ pc' = "idle"
<1>1. pc = "off" /\ mark /\ pc' = "idle" /\ flash' = flash /\ queue' = queue /\ ftl_buf' = ftl_buf
      /\ UNCHANGED <<mark, lbn, pos, flushes>>
  BY DEF load_metadata, nandVars
<1>2. /\ flushed \in Versions /\ Image(flushed)
      /\ \A v \in Versions : Image(v) => v = flushed
      /\ \A b \in Banks : Saved(b).misc_vpn = misc_vpn[b] /\ Saved(b).map_vpn = map_vpn[b]
  BY <1>1, Loaded
<1>3. ver' = flushed /\ flushed' = flushed
  <2>1. (CHOOSE v \in Versions : Image(v)) = flushed
    BY <1>2
  <2>. QED BY <1>2, <2>1 DEF load_metadata
<1>4. misc_vpn' = misc_vpn /\ map_vpn' = map_vpn
  <2>1. misc_vpn' = [b \in Banks |-> misc_vpn[b]] /\ map_vpn' = [b \in Banks |-> map_vpn[b]]
    BY <1>2 DEF load_metadata
  <2>. QED BY <2>1 DEF Live, Types
<1>5. Over' = Over /\ pos' \in Nat
  BY <1>1 DEF Over, Flushing, Live, CtlOK
<1>6. MapLog' /\ MapQueue' /\ MiscLog'
  BY <1>1, <1>3, <1>4, <1>5, QuietFrame
<1>7. Types'
  BY <1>1, <1>4 DEF Live, Types, NandTypeOK
<1>8. CtlOK'
  BY <1>1, <1>2, <1>3 DEF Live, CtlOK, Flushing
<1>. QED BY <1>1, <1>6, <1>7, <1>8 DEF Live

\* The mark, host writes, the begin of a flush, and a power-off between two flushes.
LEMMA QuietInv ==
  ASSUME Fits, Live,
         \/ write_format_mark \/ Change \/ (ftl_flush /\ cut' # "over")
         \/ (PowerLoss /\ pc \in {"idle", "mark"})
  PROVE  Live'
<1>1. /\ flash' = flash /\ ftl_buf' = ftl_buf
      /\ misc_vpn' = misc_vpn /\ map_vpn' = map_vpn /\ flushed' = flushed
  BY DEF write_format_mark, Change, ftl_flush, PowerLoss, nandVars, ctl
<1>2. /\ pc \in {"idle", "mark"}
      /\ pc' \in {"off", "idle"} \/ (pc' = "check" /\ lbn' = 1)
  BY DEF write_format_mark, Change, ftl_flush, PowerLoss, ctl
<1>3. queue' = queue /\ queue = [b \in Banks |-> <<>>]
  <2>1. queue' = queue \/ queue' = [b \in Banks |-> <<>>]
    BY DEF write_format_mark, Change, ftl_flush, PowerLoss, nandVars
  <2>2. \A b \in Banks : queue[b] = <<>>
    BY <1>2 DEF Live, MapQueue, MapQueueAt
  <2>3. queue \in [Banks -> Seq(Commands)]
    BY DEF Live, Types, NandTypeOK
  <2>4. queue = [b \in Banks |-> <<>>]
    BY <2>2, <2>3
  <2>. QED BY <2>1, <2>4
<1>4. ver' \in Versions
  <2>1. ver \in Nat /\ NumVersions \in Nat \ {0} /\ ver # Mixed
    BY RecoveryAssumption DEF Live, CtlOK, Versions
  <2>2. (ver + 1) % NumVersions \in 0 .. NumVersions - 1
    BY <2>1, DivMod
  <2>3. ver \in Versions
    BY DEF Live, CtlOK
  <2>. QED BY <2>1, <2>2, <2>3 DEF write_format_mark, Change, ftl_flush, PowerLoss, Versions
<1>5. flushed \in Versions /\ flushed # None
  BY <1>2, RecoveryAssumption DEF Live, CtlOK, Flushing
<1>6. /\ lbn' \in Lbns /\ pos' \in Nat /\ (pc' = "check" => pos' \in Banks)
      /\ flushes' \in 1 .. MaxFlushes /\ Over' = Over
      /\ pc' = "idle" => mark'
      /\ pc' = "check" => mark'
  <2>1. 0 \in Banks /\ 1 \in Lbns
    BY NandAssumption DEF Banks, Lbns
  <2>. QED BY <1>2, <2>1, RecoveryAssumption
       DEF write_format_mark, Change, ftl_flush, PowerLoss, Live, CtlOK, Flushing, Over, ctl
<1>7. CtlOK'
  BY <1>1, <1>2, <1>4, <1>5, <1>6 DEF CtlOK, Flushing
<1>8. Types'
  BY <1>1, <1>3 DEF Live, Types, NandTypeOK
<1>9. MapLog' /\ MapQueue' /\ MiscLog'
  <2>1. pc \in {"off", "idle", "mark"}
    BY <1>2
  <2>. QED BY <1>1, <1>2, <1>3, <1>6, <2>1, QuietFrame
<1>. QED BY <1>7, <1>8, <1>9 DEF Live

\* At every moment each bank of a marked drive has its old image or its new one.
LEMMA EveryBankLoads ==
  ASSUME Fits, Live, mark, NEW b \in Banks
  PROVE  Saved(b) \in MiscPages /\ \E v \in Versions : BankImage(b, v)
<1>1. flushed # None /\ flushed \in Versions /\ ver \in Versions
  BY DEF Live, CtlOK
<1>2. CASE Waiting(b) \/ Prepared(b) \/ queue[b] # <<>>
  BY <1>1, <1>2, OldImage
<1>3. CASE ~Waiting(b) /\ ~Prepared(b) /\ queue[b] = <<>>
  <2>1. pos \in Nat /\ b \in Nat /\ NumBanks \in Nat
    BY NandAssumption DEF Live, CtlOK, Banks
  <2>2. Issued(b)
    BY <1>3, <2>1 DEF Waiting, Prepared, Issued
  <2>. QED BY <1>1, <1>3, <2>2, NewImage
<1>. QED BY <1>2, <1>3

\* The images are a matter of the flash only.
LEMMA ImageFrame ==
  ASSUME flash' = flash
  PROVE  /\ \A b \in Banks : Saved(b)' = Saved(b)
         /\ \A b \in Banks, v \in Versions : BankImage(b, v)' = BankImage(b, v)
         /\ \A v \in Versions : Image(v)' = Image(v)
  BY DEF Image, BankImage, Programmed, Saved, Newest, LoadedPage, FirstLoaded, PageAt

-----------------------------------------------------------------------------
(***************************************************************************)
(* The flush.                                                              *)
(***************************************************************************)
\* A step between the parts of a flush, when the banks are idle.
LEMMA StillFrame ==
  ASSUME Live, Flushing, Flushing', flash_finish, queue' = queue, flash' = flash,
         map_vpn' = map_vpn, misc_vpn' = misc_vpn, ver' = ver, flushed' = flushed,
         flushes' = flushes, pos' \in Nat, pc # "misc", pc' # "misc" \/ pos' = 0,
         \A b \in Banks, i \in Lbns : Logged(b, i)' = Logged(b, i)
  PROVE  MapLog' /\ MapQueue' /\ MiscLog'
<1>1. \A b \in Banks : queue[b] = <<>> /\ queue'[b] = <<>>
  BY DEF flash_finish
<1>2. \A b \in Banks, i \in Lbns : OnFlash(b, i)' = OnFlash(b, i)
  BY <1>1 DEF OnFlash
<1>3. Over' = Over
  BY DEF Over
<1>4. \A b \in Banks : Waiting(b) /\ Waiting(b)'
  <2>1. \A b \in Banks : 0 <= b
    BY DEF Banks
  <2>. QED BY <2>1 DEF Waiting
<1>5. \A b \in Banks, i \in Lbns : MapLogAt(b, i)'
  BY <1>2, <1>3, MapFrame DEF Live, MapLog
<1>6. \A b \in Banks : MiscLogAt(b)'
  BY <1>1, <1>3, <1>4, MiscFrame DEF Live, MiscLog
<1>7. \A b \in Banks : MapQueueAt(b)'
  BY <1>1 DEF MapQueueAt
<1>. QED BY <1>5, <1>6, <1>7 DEF MapLog, MapQueue, MiscLog

\* The test for a full block never holds: no map block is erased.
LEMMA NeverFull ==
  ASSUME NEW b \in Banks, NEW i \in Lbns, map_vpn[b][i] \in Nat
  PROVE  ~MapBlockFull(b, i)
<1>1. PICK n \in Nat \ {0} : n = NumBanks /\ n > 1
  BY NandAssumption, RecoveryAssumption
<1>2. (n * 0 + 1) \div n = 0
  <2>1. 1 \in 0 .. n - 1
    BY <1>1
  <2>. QED BY <2>1, DivModIs
<1>3. PagesNeeded(i) = 0
  BY <1>1, <1>2 DEF PagesNeeded
<1>4. map_vpn[b][i] % PagesPerBlk \in 0 .. PagesPerBlk - 1
  BY VpnPage DEF Pages
<1>. QED BY <1>3, <1>4, NandAssumption DEF MapBlockFull

\* The check of a map block.
LEMMA EraseFullInv ==
  ASSUME Live, EraseFullMapBlock
  PROVE  Live'
<1>1. pc = "check" /\ pos \in Banks /\ CtlOK /\ lbn \in Lbns
  BY DEF EraseFullMapBlock, Live, CtlOK
<1>2. map_vpn[pos][lbn] \in Nat
  BY <1>1 DEF Live, Types
<1>3. ~MapBlockFull(pos, lbn)
  BY <1>1, <1>2, NeverFull
<1>4. /\ flash' = flash /\ queue' = queue /\ ftl_buf' = ftl_buf /\ map_vpn' = map_vpn
      /\ UNCHANGED <<mark, ver, misc_vpn, lbn, flushes, flushed>>
  BY <1>3 DEF EraseFullMapBlock
<1>5. \/ pos = NumBanks - 1 /\ pos' = 0 /\ pc' = "map"
      \/ pos # NumBanks - 1 /\ pos' = pos + 1 /\ pc' = "check"
  BY DEF EraseFullMapBlock
<1>6. pos' \in Nat /\ (pc' = "check" => pos' \in Banks)
  BY <1>1, <1>5, NandAssumption DEF Banks
<1>7. flash_finish /\ Flushing /\ Flushing'
  BY <1>1, <1>5 DEF flash_finish, Live, MapQueue, MapQueueAt, Flushing
<1>8. \A b \in Banks, i \in Lbns : Logged(b, i)' = Logged(b, i)
  <2>1. \A b \in Banks : Done(b, 0) = 0
    BY <1>1, DoneBounds
  <2>. QED BY <1>1, <1>4, <1>5, <2>1 DEF Logged, Flushing
<1>9. MapLog' /\ MapQueue' /\ MiscLog'
  BY <1>1, <1>4, <1>5, <1>6, <1>7, <1>8, StillFrame
<1>10. CtlOK'
  <2>1. TablePages[lbn] \in Nat
    BY <1>1, DoneBounds
  <2>. QED BY <1>1, <1>4, <1>5, <1>6, <1>7, <2>1 DEF CtlOK, Flushing
<1>. QED BY <1>4, <1>9, <1>10 DEF Live, Types, NandTypeOK

\* The end of a table.
LEMMA FlushedTableInv ==
  ASSUME Live, FlushedTable
  PROVE  Live'
<1>1. pc = "map" /\ pos = TablePages[lbn] /\ flash_finish /\ CtlOK /\ lbn \in Lbns
  BY DEF FlushedTable, Live, CtlOK
<1>2. /\ flash' = flash /\ queue' = queue /\ ftl_buf' = ftl_buf /\ map_vpn' = map_vpn
      /\ UNCHANGED <<mark, ver, misc_vpn, flushes, flushed>>
      /\ lbn' = 0 /\ pos' = 0
  BY DEF FlushedTable, nandVars
<1>3. (lbn = 1 /\ pc' = "check") \/ (lbn = 0 /\ pc' = "misc")
  <2>1. lbn = 0 \/ lbn = 1
    BY <1>1 DEF Lbns
  <2>2. pc' = IF lbn = 1 THEN "check" ELSE "misc"
    BY DEF FlushedTable, AfterTable
  <2>. QED BY <2>1, <2>2
<1>4. \A b \in Banks, i \in Lbns : Logged(b, i)' = Logged(b, i)
  <2>1. \A b \in Banks : Done(b, TablePages[lbn]) = Count(b, lbn)
    BY DEF Count
  <2>. QED BY <1>1, <1>2, <1>3, <2>1 DEF Logged, Flushing, Lbns
<1>5. 0 \in Banks /\ 0 \in 0 .. 2 * NumBanks
  BY NandAssumption DEF Banks
<1>6. MapLog' /\ MapQueue' /\ MiscLog'
  BY <1>1, <1>2, <1>3, <1>4, StillFrame DEF Flushing
<1>7. CtlOK'
  BY <1>1, <1>2, <1>3, <1>5 DEF CtlOK, Flushing, Lbns
<1>. QED BY <1>2, <1>6, <1>7 DEF Live, Types, NandTypeOK

\* A bank is idle when its page of a round is logged: the first page of the round waited.
LEMMA BankIsIdle ==
  ASSUME Live, pc = "map", RoundStart, NEW b \in Banks, queue[b] # <<>>
  PROVE  /\ BankOf(pos) # b /\ BankOf(pos) # 0
         /\ RoundOf(pos - 1) = RoundOf(pos)
<1>1. pos \in Nat /\ lbn \in Lbns /\ MapQueueAt(b)
  BY DEF Live, CtlOK, MapQueue
<1>2. BankOf(pos) # 0
  BY DEF RoundStart, flash_finish
<1>3. RoundOf(pos - 1) = RoundOf(pos)
  BY <1>1, <1>2, SameRound
<1>4. PICK c \in ChunksOf(b, lbn) : c < pos /\ RoundOf(c) = RoundOf(pos - 1)
  BY <1>1 DEF MapQueueAt, OnItsWay, InRound
<1>5. c \in Nat /\ BankOf(c) = b
  BY <1>1, DoneBounds
<1>6. BankOf(pos) # b
  BY <1>1, <1>3, <1>4, <1>5, ChunkIs
<1>. QED BY <1>2, <1>3, <1>6

\* The next page of a table.
LEMMA FlushPageInv ==
  ASSUME Fits, Live, FlushPage
  PROVE  Live'
<1>1. PICK c \in Nat, d \in Banks, j \in Lbns : c = pos /\ d = BankOf(pos) /\ j = lbn
  <2>1. 0 \in Banks
    BY NandAssumption DEF Banks
  <2>2. pos \in Nat /\ lbn \in Lbns
    BY DEF Live, CtlOK
  <2>3. BankOf(pos) \in Banks
    BY <2>1, <2>2, DoneStep
  <2>. QED BY <2>2, <2>3
<1>2. PICK w : w = map_vpn[d][j] + 1
  OBVIOUS
<1>3. /\ pc = "map" /\ c < TablePages[j] /\ RoundStart /\ CtlOK /\ Types
      /\ map_vpn' = [map_vpn EXCEPT ![d][j] = w]
      /\ ftl_buf' = [ftl_buf EXCEPT ![d] = MapPage(j, c)]
      /\ queue' = [queue EXCEPT ![d] = @ \o <<Program(w)>>]
      /\ pos' = c + 1
      /\ UNCHANGED <<flash, mark, ver, misc_vpn, pc, lbn, flushes, flushed>>
  BY <1>1, <1>2 DEF FlushPage, Live, inc_mapblk_vpn, Issue
<1>4. queue[d] = <<>>
  BY <1>1, <1>3, BankIsIdle
<1>5. Flushing /\ Flushing' /\ c \in 0 .. TablePages[j] /\ c + 1 \in 0 .. TablePages[j]
      /\ TablePages[j] \in Nat
  BY <1>1, <1>3, DoneBounds DEF Flushing, CtlOK
<1>6. /\ Cur(d, j) \in Pages /\ Base(d, j) \in Nat /\ Base(d, j) + PerBank(j) < PagesPerBlk
      /\ Cur(d, j) = Base(d, j) + Done(d, c) /\ Done(d, c) \in Nat
      /\ Done(d, c + 1) = Done(d, c) + 1 /\ RoundOf(c) = Done(d, c)
      /\ Done(d, c + 1) <= PerBank(j) /\ PerBank(j) \in Nat
  <2>1. Logged(d, j) = Done(d, c)
    BY <1>1, <1>3, <1>5 DEF Logged
  <2>2. Done(d, c + 1) <= Count(d, j) /\ Count(d, j) <= PerBank(j) /\ PerBank(j) \in Nat
        /\ Count(d, j) \in Nat
    BY <1>5, DoneBounds
  <2>3. Done(d, c + 1) = Done(d, c) + 1 /\ RoundOf(c) = Done(d, c) /\ Done(d, c) \in Nat
    BY <1>1, DoneStep
  <2>. QED BY <1>5, <2>1, <2>2, <2>3, Cursors
<1>7. Cur(d, j) + 1 \in Pages
  BY <1>6, NandAssumption DEF Pages
<1>8. map_vpn[d][j] \in Nat /\ w \in Nat /\ w - MapVbn(j) * PagesPerBlk = Cur(d, j) + 1
      /\ MapVbn(j) * PagesPerBlk \in Nat
  <2>1. map_vpn[d][j] \in Nat /\ MapVbn(j) * PagesPerBlk \in Nat
    BY <1>3, NandAssumption, MetaBlks DEF Types
  <2>. QED BY <1>2, <2>1 DEF Cur
<1>9. Program(w) \in Commands
  <2>1. w \div PagesPerBlk = MapVbn(j) /\ w % PagesPerBlk \in Pages
    <3>1. w - MapVbn(j) * PagesPerBlk \in 0 .. PagesPerBlk - 1
      BY <1>7, <1>8 DEF Pages
    <3>. QED BY <1>8, <3>1, PageOfBlk, MetaBlks
  <2>. QED BY <2>1, MetaBlks DEF Program, Commands
<1>10. /\ queue'[d] = <<Program(w)>>
       /\ \A a \in Banks : a # d => queue'[a] = queue[a] /\ ftl_buf'[a] = ftl_buf[a]
       /\ ftl_buf'[d] = MapPageOf(j, c, ver)
  <2>1. <<>> \o <<Program(w)>> = <<Program(w)>>
    BY <1>9, ShortConcat
  <2>. QED BY <1>3, <1>4, <2>1 DEF Types, NandTypeOK, MapPage, MapPageOf
<1>11. /\ map_vpn'[d][j] = w
       /\ \A b \in Banks, i \in Lbns : b # d \/ i # j => map_vpn'[b][i] = map_vpn[b][i]
       /\ map_vpn' \in [Banks -> [Lbns -> Nat]]
  BY <1>3, <1>8 DEF Types
<1>12. Types'
  <2>1. MapPage(j, c) \in Contents
    BY <1>3 DEF MapPage, MapPages, Contents, CtlOK
  <2>2. queue' \in [Banks -> Seq(Commands)]
    <3>1. <<Program(w)>> \in Seq(Commands)
      BY <1>9
    <3>2. \A a \in Banks : queue'[a] \in Seq(Commands)
      BY <1>3, <1>10, <3>1 DEF Types, NandTypeOK
    <3>3. queue' = [a \in Banks |-> queue'[a]]
      BY <1>3 DEF Types, NandTypeOK
    <3>. QED BY <3>2, <3>3
  <2>. QED BY <1>3, <1>11, <2>1, <2>2 DEF Types, NandTypeOK
<1>13. \A b \in Banks, i \in Lbns :
         /\ Logged(b, i)' = IF b = d /\ i = j THEN Logged(b, i) + 1 ELSE Logged(b, i)
         /\ b # d \/ i # j => OnFlash(b, i)' = OnFlash(b, i)
         /\ b = d /\ i = j => OnFlash(b, i) = Logged(b, i) /\ OnFlash(b, i)' = Logged(b, i)
         /\ Logged(b, i) \in Nat
  <2> SUFFICES ASSUME NEW b \in Banks, NEW i \in Lbns
               PROVE /\ Logged(b, i)' = IF b = d /\ i = j THEN Logged(b, i) + 1 ELSE Logged(b, i)
                     /\ b # d \/ i # j => OnFlash(b, i)' = OnFlash(b, i)
                     /\ b = d /\ i = j => OnFlash(b, i) = Logged(b, i) /\ OnFlash(b, i)' = Logged(b, i)
                     /\ Logged(b, i) \in Nat
    OBVIOUS
  <2>1. Done(b, c + 1) = IF d = b THEN Done(b, c) + 1 ELSE Done(b, c)
    BY <1>1, DoneStep
  <2>2. Logged(b, i) \in Nat
    BY Cursors
  <2>3. /\ Logged(b, i)  = IF lbn = 0 /\ i = 1 THEN Count(b, i) ELSE IF lbn = i THEN Done(b, c) ELSE 0
        /\ Logged(b, i)' = IF lbn = 0 /\ i = 1 THEN Count(b, i) ELSE IF lbn = i THEN Done(b, c + 1) ELSE 0
    BY <1>1, <1>3 DEF Logged, Flushing
  <2>4. Logged(b, i)' = IF b = d /\ i = j THEN Logged(b, i) + 1 ELSE Logged(b, i)
    BY <1>1, <2>1, <2>3
  <2>5. /\ OnFlash(b, i)  = IF lbn = i /\ queue[b] # <<>> THEN Logged(b, i) - 1 ELSE Logged(b, i)
        /\ OnFlash(b, i)' = IF lbn = i /\ queue'[b] # <<>> THEN Logged(b, i)' - 1 ELSE Logged(b, i)'
    BY <1>3 DEF OnFlash
  <2>6. queue'[d] # <<>>
    BY <1>10, ShortQueue
  <2>7. b # d => OnFlash(b, i)' = OnFlash(b, i)
    BY <1>10, <2>4, <2>5
  <2>8. i # j => OnFlash(b, i)' = OnFlash(b, i)
    BY <1>1, <2>4, <2>5
  <2>9. b = d /\ i = j => OnFlash(b, i) = Logged(b, i) /\ OnFlash(b, i)' = Logged(b, i)
    BY <1>1, <1>4, <2>2, <2>4, <2>5, <2>6
  <2>. QED BY <2>2, <2>4, <2>7, <2>8, <2>9
<1>14. Over' = Over
  BY <1>3, <1>5 DEF Over
<1>15. \A b \in Banks, i \in Lbns : MapLogAt(b, i)'
  <2> SUFFICES ASSUME NEW b \in Banks, NEW i \in Lbns PROVE MapLogAt(b, i)'
    OBVIOUS
  <2>1. MapLogAt(b, i)
    BY DEF Live, MapLog
  <2>2. CASE b # d \/ i # j
    BY <1>3, <1>5, <1>11, <1>13, <1>14, <2>1, <2>2, MapFrame
  <2>3. CASE b = d /\ i = j
    <3>1. Cur(b, i)' = Cur(b, i) + 1 /\ Base(b, i)' = Base(b, i)
      <4>1. Cur(b, i)' = Cur(b, i) + 1 /\ Cur(b, i) \in Int
        BY <1>6, <1>8, <1>11, <2>3 DEF Cur, Pages
      <4>2. Logged(b, i)' = Logged(b, i) + 1 /\ Logged(b, i) \in Nat
        BY <1>13, <2>3
      <4>. QED BY <4>1, <4>2 DEF Base
    <3>2. OnFlash(b, i)' = OnFlash(b, i)
      BY <1>13, <2>3
    <3>3. ErasedAbove(b, MapVbn(i), Cur(b, i))'
      <4>1. Cur(b, i) \in Int /\ Pages \subseteq Int
        BY <1>6, <2>3 DEF Pages
      <4>. QED BY <1>3, <2>1, <3>1, <4>1 DEF MapLogAt, ErasedAbove
    <3>4. flushed' # None => /\ Base(b, i)' >= Count(b, i)
                             /\ TableAt(b, i, Base(b, i) - Count(b, i) + 1, Count(b, i), flushed)'
      BY <1>3, <2>1, <3>1 DEF MapLogAt, TableAt, MapPageOf
    <3>5. TableAt(b, i, Base(b, i) + 1, OnFlash(b, i), ver)'
      BY <1>3, <1>5, <2>1, <3>1, <3>2 DEF MapLogAt, TableAt, MapPageOf
    <3>6. map_vpn'[b][i] \in Nat
      BY <1>8, <1>11, <2>3
    <3>. QED BY <1>14, <2>1, <3>1, <3>3, <3>4, <3>5, <3>6 DEF MapLogAt
  <2>. QED BY <2>2, <2>3
<1>16. \A b \in Banks : MapQueueAt(b)'
  <2> SUFFICES ASSUME NEW b \in Banks, queue'[b] # <<>>
               PROVE  /\ OnItsWay(b)'
                      /\ queue'[b] = <<Program(map_vpn'[b][j])>>
                      /\ flash[b][MapVbn(j)][Cur(b, j)'] = Erased
    BY <1>1, <1>3 DEF MapQueueAt
  <2>1. CASE b = d
    <3>1. c \in ChunksOf(d, j)
      BY <1>1, <1>3, <1>5 DEF ChunksOf
    <3>2. c < c + 1 /\ (c + 1) - 1 = c
      OBVIOUS
    <3>3. OnItsWay(b)'
      <4>1. c < pos' /\ RoundOf(c) = RoundOf(pos' - 1)
        BY <1>3, <3>2
      <4>2. RoundOf(c) + 1 = Done(b, pos') /\ ftl_buf'[b] = MapPageOf(lbn', c, ver')
        BY <1>1, <1>3, <1>6, <1>10, <2>1
      <4>3. c \in ChunksOf(b, lbn')
        BY <1>1, <1>3, <2>1, <3>1
      <4>. QED BY <4>1, <4>2, <4>3 DEF OnItsWay, InRound, MapPageOf
    <3>4. Cur(b, j)' = Cur(d, j) + 1
      BY <1>8, <1>11, <2>1 DEF Cur
    <3>5. flash[b][MapVbn(j)][Cur(b, j)'] = Erased
      <4>1. ErasedAbove(d, MapVbn(j), Cur(d, j))
        BY DEF Live, MapLog, MapLogAt
      <4>2. Cur(d, j) + 1 > Cur(d, j)
        BY <1>6 DEF Pages
      <4>. QED BY <1>7, <2>1, <3>4, <4>1, <4>2 DEF ErasedAbove
    <3>. QED BY <1>10, <1>11, <2>1, <3>3, <3>5
  <2>2. CASE b # d
    <3>1. queue[b] # <<>> /\ queue'[b] = queue[b] /\ ftl_buf'[b] = ftl_buf[b]
          /\ map_vpn'[b][j] = map_vpn[b][j]
      BY <1>10, <1>11, <2>2
    <3>2. RoundOf(c - 1) = RoundOf(c)
      BY <1>1, <1>3, <3>1, BankIsIdle
    <3>3. MapQueueAt(b)
      BY DEF Live, MapQueue
    <3>4. Done(b, c + 1) = Done(b, c)
      BY <1>1, <2>2, DoneStep
    <3>5. PICK e \in ChunksOf(b, j) : /\ e < c /\ RoundOf(e) = RoundOf(c - 1)
                                      /\ RoundOf(e) + 1 = Done(b, c)
                                      /\ ftl_buf[b] = MapPageOf(j, e, ver)
      BY <1>1, <1>3, <3>1, <3>3 DEF MapQueueAt, OnItsWay, InRound
    <3>6. e \in Nat /\ e < c + 1 /\ (c + 1) - 1 = c
      BY <3>5, DoneBounds
    <3>7. OnItsWay(b)'
      <4>1. e < pos' /\ RoundOf(e) = RoundOf(pos' - 1)
        BY <1>3, <3>2, <3>5, <3>6
      <4>2. RoundOf(e) + 1 = Done(b, pos') /\ ftl_buf'[b] = MapPageOf(lbn', e, ver')
        BY <1>1, <1>3, <3>1, <3>4, <3>5
      <4>3. e \in ChunksOf(b, lbn')
        BY <1>1, <1>3
      <4>. QED BY <4>1, <4>2, <4>3 DEF OnItsWay, InRound, MapPageOf
    <3>8. Cur(b, j)' = Cur(b, j)
      BY <3>1 DEF Cur
    <3>. QED BY <1>1, <1>3, <3>1, <3>3, <3>7, <3>8 DEF MapQueueAt
  <2>. QED BY <2>1, <2>2
<1>17. \A b \in Banks : MiscLogAt(b)'
  <2> SUFFICES ASSUME NEW b \in Banks PROVE MiscLogAt(b)'
    OBVIOUS
  <2>1. Waiting(b) /\ Waiting(b)'
    BY <1>3 DEF Waiting
  <2>2. \A i \in Lbns : (map_vpn[b][i] - Logged(b, i))' = map_vpn[b][i] - Logged(b, i)
    <3> SUFFICES ASSUME NEW i \in Lbns
                 PROVE  (map_vpn[b][i] - Logged(b, i))' = map_vpn[b][i] - Logged(b, i)
      OBVIOUS
    <3>1. CASE b = d /\ i = j
      <4>1. map_vpn'[b][i] = map_vpn[b][i] + 1 /\ Logged(b, i)' = Logged(b, i) + 1
            /\ Logged(b, i) \in Nat /\ map_vpn[b][i] \in Nat
        BY <1>2, <1>8, <1>11, <1>13, <3>1
      <4>. QED BY <4>1
    <3>2. CASE b # d \/ i # j
      BY <1>11, <1>13, <3>2
    <3>. QED BY <3>1, <3>2
  <2>3. pos' \in Nat /\ pc' = "map"
    BY <1>3
  <2>. QED BY <1>3, <1>14, <2>1, <2>2, <2>3, MiscFrame DEF Live, MiscLog
<1>18. CtlOK'
  BY <1>1, <1>3, <1>5 DEF CtlOK, Flushing
<1>. QED BY <1>12, <1>15, <1>16, <1>17, <1>18 DEF Live, MapLog, MapQueue, MiscLog
\* The logs of the tables are not touched while the misc. pages are written.
LEMMA MiscStepFrame ==
  ASSUME Live, pc = "misc", pc' = "misc", map_vpn' = map_vpn, ver' = ver, flushed' = flushed,
         flushes' = flushes, \A b \in Banks, i \in Lbns : flash'[b][MapVbn(i)] = flash[b][MapVbn(i)]
  PROVE  /\ MapLog' /\ MapQueue' /\ Over' = Over
         /\ \A b \in Banks, i \in Lbns :
              (map_vpn[b][i] - Logged(b, i))' = map_vpn[b][i] - Logged(b, i)
<1>1. \A b \in Banks, i \in Lbns : Logged(b, i)' = Logged(b, i) /\ OnFlash(b, i)' = OnFlash(b, i)
  BY DEF Logged, OnFlash
<1>2. Over' = Over /\ Flushing
  BY DEF Over, Flushing
<1>3. \A b \in Banks, i \in Lbns : MapLogAt(b, i)'
  BY <1>1, <1>2, MapFrame DEF Live, MapLog
<1>. QED BY <1>1, <1>2, <1>3 DEF MapLog, MapQueue, MapQueueAt

\* The misc. page of a bank.
LEMMA PrepareMiscInv ==
  ASSUME Fits, Live, PrepareMisc
  PROVE  Live'
<1>1. PICK d \in Banks : d = pos
  BY DEF PrepareMisc
<1>2. /\ pc = "misc" /\ CtlOK /\ Types /\ pos' = d + 1
      /\ UNCHANGED <<flash, mark, ver, map_vpn, pc, lbn, flushes, flushed>>
  BY <1>1 DEF PrepareMisc, Live
<1>3. d \in Nat /\ d < NumBanks /\ NumBanks \in Nat /\ \A a \in Banks : a \in Nat /\ a < NumBanks
  BY NandAssumption DEF Banks
<1>4. Waiting(d) /\ Flushing
  BY <1>1, <1>3 DEF Waiting, Flushing, PrepareMisc
<1>5. misc_vpn[d] \in Nat /\ MISCBLK_VBN * PagesPerBlk \in Nat
  BY <1>2, NandAssumption DEF Types, MISCBLK_VBN
<1>6. MCur(d) \in Pages /\ MCur(d) + 1 <= flushes /\ flushes < PagesPerBlk /\ flushes \in Nat
      /\ MCur(d) + 1 \in Pages /\ MCur(d) \in Nat
  <2>1. MCur(d) \in Pages /\ MCur(d) + 1 <= flushes /\ flushes < PagesPerBlk /\ flushes \in Nat
    BY <1>2, <1>4, MiscCursor, RecoveryAssumption DEF CtlOK
  <2>. QED BY <2>1, NandAssumption DEF Pages
<1>7. ~MiscBlockFull(d)
  <2>1. (misc_vpn[d] + 1) - MISCBLK_VBN * PagesPerBlk \in 0 .. PagesPerBlk - 1
    BY <1>5, <1>6 DEF MCur, Pages
  <2>2. (misc_vpn[d] + 1) \div PagesPerBlk = MISCBLK_VBN
    BY <1>5, <2>1, MetaBlks, PageOfBlk
  <2>. QED BY <2>2 DEF MiscBlockFull
<1>8. MiscLogAt(d) /\ queue[d] = <<>>
  BY <1>2, <1>4 DEF Live, MiscLog, MiscLogAt, MiscWaiting
<1>9. queue' = queue
  <2>1. queue' = [queue EXCEPT ![d] = @ \o <<>>]
    BY <1>1, <1>7 DEF PrepareMisc, Issue
  <2>2. queue[d] \o <<>> = queue[d]
    BY <1>8
  <2>. QED BY <1>2, <2>1, <2>2 DEF Types, NandTypeOK
<1>10. /\ misc_vpn' = [misc_vpn EXCEPT ![d] = misc_vpn[d] + 1]
       /\ ftl_buf' = [ftl_buf EXCEPT ![d] =
            [kind |-> "misc", ver |-> ver, misc_vpn |-> misc_vpn[d] + 1, map_vpn |-> map_vpn[d]]]
  BY <1>1, <1>7 DEF PrepareMisc, NextMiscVpn, MiscPage
<1>11. Types'
  <2>1. [kind |-> "misc", ver |-> ver, misc_vpn |-> misc_vpn[d] + 1, map_vpn |-> map_vpn[d]]
          \in Contents
    BY <1>2, <1>5 DEF Contents, MiscPages, Types, CtlOK
  <2>. QED BY <1>2, <1>5, <1>9, <1>10, <2>1 DEF Types, NandTypeOK
<1>12. /\ misc_vpn'[d] = misc_vpn[d] + 1
       /\ ftl_buf'[d] = [kind |-> "misc", ver |-> ver, misc_vpn |-> misc_vpn[d] + 1, map_vpn |-> map_vpn[d]]
       /\ \A a \in Banks : a # d => misc_vpn'[a] = misc_vpn[a] /\ ftl_buf'[a] = ftl_buf[a]
  BY <1>2, <1>10 DEF Types, NandTypeOK
<1>13. /\ MapLog' /\ MapQueue' /\ Over' = Over
       /\ \A b \in Banks, i \in Lbns :
              (map_vpn[b][i] - Logged(b, i))' = map_vpn[b][i] - Logged(b, i)
  BY <1>2, MiscStepFrame
<1>14. ASSUME NEW b \in Banks PROVE MiscLogAt(b)'
  <2>1. MiscLogAt(b)
    BY DEF Live, MiscLog
  <2>2. CASE b # d
    <3>1. /\ Waiting(b)' = Waiting(b) /\ Prepared(b)' = Prepared(b) /\ Issued(b)' = Issued(b)
      BY <1>1, <1>2, <1>3, <2>2 DEF Waiting, Prepared, Issued
    <3>2. CASE Waiting(b)
      <4>1. queue'[b] = <<>>
        BY <1>2, <1>9, <2>1, <3>2 DEF MiscLogAt, MiscWaiting
      <4>2. pos' \in Nat
        BY <1>2, <1>3
      <4>. QED BY <1>2, <1>12, <1>13, <2>1, <2>2, <3>1, <3>2, <4>1, <4>2, MiscFrame
    <3>3. CASE ~Waiting(b)
      BY <1>2, <1>9, <1>12, <2>1, <2>2, <3>1, <3>3, MiscDoneFrame
    <3>. QED BY <3>2, <3>3
  <2>3. CASE b = d
    <3>1. ~Waiting(b)' /\ Prepared(b)' /\ ~Issued(b)'
      BY <1>2, <1>3, <2>3 DEF Waiting, Prepared, Issued
    <3>2. MCur(b)' = MCur(b) + 1 /\ misc_vpn'[b] \in Nat /\ misc_vpn'[b] - 1 = misc_vpn[b]
          /\ MCur(b)' - 1 = MCur(b)
      BY <1>5, <1>6, <1>12, <2>3 DEF MCur
    <3>3. ErasedAbove(b, MISCBLK_VBN, MCur(b))' /\ flash[b][MISCBLK_VBN][MCur(b) + 1] = Erased
      <4>1. \A p \in Pages : p \in Int
        BY DEF Pages
      <4>2. MCur(b) \in Nat /\ MCur(b) + 1 \in Pages
        BY <1>6, <2>3
      <4>3. \A p \in Pages : p > MCur(b) => flash[b][MISCBLK_VBN][p] = Erased
        BY <2>1 DEF MiscLogAt, ErasedAbove
      <4>4. MCur(b) + 1 > MCur(b) /\ \A p \in Pages : p > MCur(b) + 1 => p > MCur(b)
        BY <4>1, <4>2
      <4>. QED BY <1>2, <3>2, <4>2, <4>3, <4>4 DEF ErasedAbove
    <3>4. MiscOnItsWay(b)'
      <4>1. MiscPageOf(b, ver)' = ftl_buf'[b]
        BY <1>2, <1>12, <2>3 DEF MiscPageOf
      <4>. QED BY <1>2, <3>2, <3>3, <4>1 DEF MiscOnItsWay
    <3>5. (flushed # None => flash[b][MISCBLK_VBN][MCur(b) - 1] = OldMisc(b, misc_vpn[b] - 1))'
      <4>1. OldMisc(b, misc_vpn[b] - 1)' = OldMisc(b, misc_vpn[b])
        <5>1. [i \in Lbns |-> (map_vpn[b][i] - Logged(b, i))'] = [i \in Lbns |-> map_vpn[b][i] - Logged(b, i)]
          BY <1>13
        <5>2. (misc_vpn[b] - 1)' = misc_vpn[b] /\ flushed' = flushed
          BY <1>2, <3>2
        <5>. QED BY <5>1, <5>2 DEF OldMisc
      <4>. QED BY <1>2, <1>4, <2>1, <2>3, <3>2, <4>1 DEF MiscLogAt, MiscWaiting
    <3>6. MCur(b)' \in 1 .. flushes'
      BY <1>2, <1>6, <2>3, <3>2
    <3>7. queue'[b] = <<>>
      BY <1>8, <1>9, <2>3
    <3>. QED BY <3>1, <3>2, <3>3, <3>4, <3>5, <3>6, <3>7 DEF MiscLogAt
  <2>. QED BY <2>2, <2>3
<1>15. CtlOK'
  BY <1>1, <1>2, <1>3 DEF CtlOK, Flushing
<1>. QED BY <1>11, <1>13, <1>14, <1>15 DEF Live, MiscLog

\* Its program command.
LEMMA ProgramMiscInv ==
  ASSUME Fits, Live, ProgramMisc
  PROVE  Live'
<1>1. PICK d \in Banks : d = pos - NumBanks
  <2>1. pos - NumBanks \in Banks
    BY NandAssumption DEF ProgramMisc, Banks
  <2>. QED BY <2>1
<1>2. /\ pc = "misc" /\ CtlOK /\ Types /\ pos \in Nat
      /\ queue' = [queue EXCEPT ![d] = @ \o <<Program(misc_vpn[d])>>]
      /\ UNCHANGED <<flash, ftl_buf, mark, ver, misc_vpn, map_vpn, pc, lbn, flushes, flushed>>
  BY <1>1 DEF ProgramMisc, Issue, Live, CtlOK
<1>3. /\ d \in Nat /\ d < NumBanks /\ NumBanks \in Nat /\ \A a \in Banks : a \in Nat /\ a < NumBanks
      /\ pos = NumBanks + d /\ pos' = NumBanks + d + 1
  BY <1>1, <1>2, NandAssumption DEF Banks, ProgramMisc
<1>4. Prepared(d) /\ ~Waiting(d) /\ ~Issued(d)
  BY <1>2, <1>3 DEF Prepared, Waiting, Issued
<1>5. MiscLogAt(d) /\ queue[d] = <<>> /\ MiscOnItsWay(d)
  BY <1>4 DEF Live, MiscLog, MiscLogAt
<1>6. Program(misc_vpn[d]) \in Commands
  <2>1. MCur(d) \in 0 .. PagesPerBlk - 1 /\ misc_vpn[d] \in Nat
    BY <1>2, MiscCursor DEF Pages, Types
  <2>2. misc_vpn[d] \div PagesPerBlk = MISCBLK_VBN /\ misc_vpn[d] % PagesPerBlk \in Pages
    BY <2>1, MetaBlks, PageOfBlk DEF MCur
  <2>. QED BY <2>2, MetaBlks DEF Program, Commands
<1>7. /\ queue'[d] = <<Program(misc_vpn[d])>>
      /\ \A a \in Banks : a # d => queue'[a] = queue[a]
  <2>1. <<>> \o <<Program(misc_vpn[d])>> = <<Program(misc_vpn[d])>>
    BY <1>6, ShortConcat
  <2>. QED BY <1>2, <1>5, <2>1 DEF Types, NandTypeOK
<1>8. Types'
  <2>1. queue' \in [Banks -> Seq(Commands)]
    <3>1. <<Program(misc_vpn[d])>> \in Seq(Commands)
      BY <1>6
    <3>2. \A a \in Banks : queue'[a] \in Seq(Commands)
      BY <1>2, <1>7, <3>1 DEF Types, NandTypeOK
    <3>3. queue' = [a \in Banks |-> queue'[a]]
      BY <1>2 DEF Types, NandTypeOK
    <3>. QED BY <3>2, <3>3
  <2>. QED BY <1>2, <2>1 DEF Types, NandTypeOK
<1>9. MapLog' /\ MapQueue'
  BY <1>2, MiscStepFrame
<1>10. ASSUME NEW b \in Banks PROVE MiscLogAt(b)'
  <2>1. MiscLogAt(b)
    BY DEF Live, MiscLog
  <2>2. ~Waiting(b) /\ ~Waiting(b)'
    BY <1>2, <1>3 DEF Waiting
  <2>3. CASE b # d
    <3>1. Waiting(b)' = Waiting(b) /\ Prepared(b)' = Prepared(b) /\ Issued(b)' = Issued(b)
      BY <1>2, <1>3, <2>3 DEF Waiting, Prepared, Issued
    <3>. QED BY <1>2, <1>7, <2>1, <2>2, <2>3, <3>1, MiscDoneFrame
  <2>4. CASE b = d
    <3>1. ~Prepared(b)' /\ Issued(b)'
      BY <1>2, <1>3, <2>4 DEF Prepared, Issued
    <3>2. MCur(b)' = MCur(b) /\ MiscPageOf(b, ver)' = MiscPageOf(b, ver)
      BY <1>2 DEF MCur, MiscPageOf
    <3>3. MiscOnItsWay(b)'
      BY <1>2, <1>5, <2>4, <3>2 DEF MiscOnItsWay
    <3>4. OldMisc(b, misc_vpn[b] - 1)' = OldMisc(b, misc_vpn[b] - 1)
      <4>1. \A i \in Lbns : Logged(b, i)' = Logged(b, i)
        BY <1>2 DEF Logged
      <4>. QED BY <1>2, <4>1 DEF OldMisc
    <3>5. ErasedAbove(b, MISCBLK_VBN, MCur(b))'
      BY <1>2, <2>1, <3>2 DEF MiscLogAt, ErasedAbove
    <3>6. MiscIssued(b)'
      BY <1>2, <1>7, <2>4, <3>3 DEF MiscIssued
    <3>. QED BY <1>2, <2>1, <2>2, <3>1, <3>2, <3>4, <3>5, <3>6 DEF MiscLogAt
  <2>. QED BY <2>3, <2>4
<1>11. CtlOK'
  BY <1>2, <1>3 DEF CtlOK, Flushing
<1>. QED BY <1>8, <1>9, <1>10, <1>11 DEF Live, MiscLog

\* The end of the flush.
LEMMA FlushEndInv ==
  ASSUME Fits, Live, FlushEnd
  PROVE  Live'
<1>1. /\ pc = "misc" /\ pos = 2 * NumBanks /\ flash_finish /\ CtlOK /\ Types
      /\ pc' = (IF mark THEN "idle" ELSE "mark") /\ lbn' = 1 /\ pos' = 0 /\ flushed' = ver
      /\ flash' = flash /\ queue' = queue /\ ftl_buf' = ftl_buf
      /\ UNCHANGED <<mark, ver, misc_vpn, map_vpn, flushes>>
  BY DEF FlushEnd, Live, nandVars
<1>2. /\ ver \in Versions /\ ver # None /\ flushes \in 1 .. MaxFlushes /\ MaxFlushes \in Nat
      /\ Flushing /\ ~Flushing'
  BY <1>1, RecoveryAssumption DEF CtlOK, Flushing
<1>3. Over' = flushes /\ Over = flushes - 1
  BY <1>1, <1>2 DEF Over
<1>4. \A b \in Banks : Issued(b) /\ ~Waiting(b) /\ queue[b] = <<>>
  <2>1. NumBanks \in Nat /\ \A b \in Banks : b \in Nat /\ b < NumBanks
    BY NandAssumption DEF Banks
  <2>. QED BY <1>1, <2>1 DEF Issued, Waiting, flash_finish
<1>5. \A b \in Banks, i \in Lbns :
        Logged(b, i) = Count(b, i) /\ OnFlash(b, i) = Count(b, i) /\ Logged(b, i)' = 0
  BY <1>1, <1>2 DEF Logged, OnFlash, Flushing
<1>6. ASSUME NEW b \in Banks, NEW i \in Lbns PROVE MapLogAt(b, i)'
  <2>1. MapLogAt(b, i)
    BY DEF Live, MapLog
  <2>2. Base(b, i) \in Nat /\ Cur(b, i) = Base(b, i) + Count(b, i) /\ Count(b, i) \in Nat
        /\ Count(b, i) <= PerBank(i) /\ PerBank(i) \in Nat
    BY <1>5, Cursors, DoneBounds
  <2>3. Cur(b, i)' = Cur(b, i)
    BY <1>1 DEF Cur
  <2>4. Base(b, i)' = Base(b, i) + Count(b, i)
    BY <1>5, <2>2, <2>3 DEF Base
  <2>5. Base(b, i)' \in 0 .. Over' * PerBank(i)
    <3>1. PICK f \in 0 .. MaxFlushes : f = flushes /\ f > 0
      BY <1>2
    <3>2. (f - 1) * PerBank(i) + PerBank(i) = f * PerBank(i) /\ (f - 1) * PerBank(i) \in Int
          /\ f * PerBank(i) \in Nat
      BY <3>1, <2>2, <1>2
    <3>3. Base(b, i) <= (f - 1) * PerBank(i)
      BY <1>3, <2>1, <3>1 DEF MapLogAt
    <3>4. Base(b, i) + Count(b, i) \in 0 .. f * PerBank(i)
      BY <2>2, <3>2, <3>3
    <3>. QED BY <1>3, <2>4, <3>1, <3>4
  <2>6. ErasedAbove(b, MapVbn(i), Cur(b, i))'
    BY <1>1, <2>1, <2>3 DEF MapLogAt, ErasedAbove
  <2>7. Base(b, i)' - Count(b, i) + 1 = Base(b, i) + 1 /\ Base(b, i)' >= Count(b, i)
    BY <2>2, <2>4
  <2>8. TableAt(b, i, Base(b, i) + 1, Count(b, i), ver)
    BY <1>2, <1>5, <2>1 DEF MapLogAt
  <2>9. TableAt(b, i, Base(b, i) - Count(b, i) + 1, Count(b, i), flushed)'
    BY <1>1, <2>7, <2>8 DEF TableAt, MapPageOf
  <2>. QED BY <1>1, <1>2, <2>1, <2>5, <2>6, <2>7, <2>9 DEF MapLogAt
<1>7. ASSUME NEW b \in Banks PROVE MiscLogAt(b)'
  <2>1. MiscLogAt(b)
    BY DEF Live, MiscLog
  <2>2. flash[b][MISCBLK_VBN][MCur(b)] = MiscPageOf(b, ver) /\ MCur(b) \in 1 .. flushes
    BY <1>4, <2>1, ShortQueue DEF MiscLogAt, MiscIssued
  <2>3. MCur(b)' = MCur(b)
    BY <1>1 DEF MCur
  <2>4. OldMisc(b, misc_vpn[b])' = MiscPageOf(b, ver)
    <3>1. map_vpn[b] \in [Lbns -> Nat]
      BY <1>1 DEF Types
    <3>2. [i \in Lbns |-> (map_vpn[b][i] - Logged(b, i))'] = map_vpn[b]
      BY <1>1, <1>5, <3>1
    <3>. QED BY <1>1, <3>2 DEF OldMisc, MiscPageOf
  <2>5. Waiting(b)' /\ ~Prepared(b)' /\ ~Issued(b)'
    BY <1>1 DEF Waiting, Prepared, Issued
  <2>6. MiscWaiting(b)'
    BY <1>1, <1>2, <1>3, <1>4, <2>2, <2>3, <2>4 DEF MiscWaiting
  <2>7. ErasedAbove(b, MISCBLK_VBN, MCur(b))'
    BY <1>1, <2>1, <2>3 DEF MiscLogAt, ErasedAbove
  <2>. QED BY <1>1, <2>1, <2>5, <2>6, <2>7 DEF MiscLogAt
<1>8. \A b \in Banks : MapQueueAt(b)'
  BY <1>1, <1>4 DEF MapQueueAt
<1>9. CtlOK'
  BY <1>1, <1>2 DEF CtlOK, Flushing, Lbns
<1>. QED BY <1>1, <1>6, <1>7, <1>8, <1>9 DEF Live, MapLog, MapQueue, MiscLog, Types, NandTypeOK
\* A bank programs the page in its buffer on an erased page.
LEMMA ExecuteProgram ==
  ASSUME NandTypeOK(Contents), NEW b \in Banks, Execute(b),
         NEW blk \in Blks, NEW o \in Pages, NEW vpn \in Nat, vpn - blk * PagesPerBlk = o,
         queue[b] = <<Program(vpn)>>, flash[b][blk][o] = Erased
  PROVE  /\ NandTypeOK(Contents)' /\ ftl_buf' = ftl_buf /\ queue'[b] = <<>>
         /\ \A a \in Banks : a # b => flash'[a] = flash[a] /\ queue'[a] = queue[a]
         /\ \A v \in Blks : v # blk => flash'[b][v] = flash[b][v]
         /\ \A p \in Pages : flash'[b][blk][p] = IF p = o THEN ftl_buf[b] ELSE flash[b][blk][p]
<1>1. blk \in Nat /\ o \in 0 .. PagesPerBlk - 1
  BY NandAssumption DEF Blks, Pages
<1>2. vpn \div PagesPerBlk = blk /\ vpn % PagesPerBlk = o
  BY <1>1, PageOfBlk
<1>3. Head(queue[b]) = Program(vpn) /\ Tail(queue[b]) = <<>>
  BY ShortQueue
<1>4. PICK h : h = Head(queue[b])
  OBVIOUS
<1>5. h.op = "program" /\ h.blk = blk /\ h.pg = o
  BY <1>2, <1>3, <1>4 DEF Program
<1>6. Erased \in Contents /\ Spoiled \in Contents
  BY DEF Contents
<1>7. /\ NandTypeOK(Contents)' /\ ftl_buf' = ftl_buf
      /\ queue'[b] = Tail(queue[b])
      /\ \A a \in Banks : a # b => flash'[a] = flash[a] /\ queue'[a] = queue[a]
      /\ \A v \in Blks : v # h.blk => flash'[b][v] = flash[b][v]
      /\ \A p \in Pages : flash'[b][h.blk][p] =
           IF h.op = "erase" THEN Erased
           ELSE IF p # h.pg THEN flash[b][h.blk][p]
           ELSE IF flash[b][h.blk][p] = Erased THEN ftl_buf[b] ELSE Spoiled
  <2>1. PICK C : C = Contents
    OBVIOUS
  <2>2. NandTypeOK(C) /\ Erased \in C /\ Spoiled \in C
    BY <1>6, <2>1
  <2>. QED BY ZenonT(60), <1>4, <2>1, <2>2, ExecuteEffect
<1>. QED BY <1>3, <1>5, <1>7

\* A page of a table.
LEMMA ExecuteMapInv ==
  ASSUME Fits, Live, NEW d \in Banks, Execute(d), pc = "map",
         UNCHANGED <<mark, ver, misc_vpn, map_vpn, ctl>>
  PROVE  Live'
<1>1. /\ CtlOK /\ Types /\ pos \in Nat /\ MapQueueAt(d) /\ queue[d] # <<>>
      /\ UNCHANGED <<mark, ver, misc_vpn, map_vpn, pc, lbn, pos, flushes, flushed>>
  BY DEF Live, CtlOK, MapQueue, Execute, ctl
<1>2. PICK j \in Lbns : j = lbn
  BY <1>1 DEF CtlOK
<1>3. PICK c \in ChunksOf(d, j) : /\ RoundOf(c) + 1 = Done(d, pos)
                                  /\ ftl_buf[d] = MapPageOf(j, c, ver)
  BY <1>1, <1>2 DEF MapQueueAt, OnItsWay
<1>4. PICK o \in Pages : o = Cur(d, j)
  BY Cursors
<1>5. queue[d] = <<Program(map_vpn[d][j])>> /\ flash[d][MapVbn(j)][o] = Erased
  BY <1>1, <1>2, <1>4 DEF MapQueueAt
<1>6. PICK k \in Blks : k = MapVbn(j) /\ k # MISCBLK_VBN
  BY MetaBlks
<1>7. PICK w \in Nat : w = map_vpn[d][j]
  BY <1>1 DEF Types
<1>8. /\ NandTypeOK(Contents)' /\ ftl_buf' = ftl_buf /\ queue'[d] = <<>>
      /\ \A a \in Banks : a # d => flash'[a] = flash[a] /\ queue'[a] = queue[a]
      /\ \A v \in Blks : v # k => flash'[d][v] = flash[d][v]
      /\ \A p \in Pages : flash'[d][k][p] = IF p = o THEN ftl_buf[d] ELSE flash[d][k][p]
  <2>1. w - k * PagesPerBlk = o
    BY <1>4, <1>6, <1>7 DEF Cur
  <2>2. NandTypeOK(Contents)
    BY <1>1 DEF Types
  <2>3. queue[d] = <<Program(w)>> /\ flash[d][k][o] = Erased
    BY <1>5, <1>6, <1>7
  <2>. QED BY <2>1, <2>2, <2>3, ExecuteProgram
<1>9. Flushing /\ Flushing' /\ Over' = Over
  BY <1>1 DEF Flushing, Over
<1>10. \A b \in Banks, i \in Lbns :
         /\ Logged(b, i)' = Logged(b, i) /\ Logged(b, i) \in Nat
         /\ b # d \/ i # j => OnFlash(b, i)' = OnFlash(b, i)
         /\ b = d /\ i = j => OnFlash(b, i) = Logged(b, i) - 1 /\ OnFlash(b, i)' = Logged(b, i)
                              /\ Logged(b, i) = Done(d, pos)
  <2> SUFFICES ASSUME NEW b \in Banks, NEW i \in Lbns
               PROVE /\ Logged(b, i)' = Logged(b, i) /\ Logged(b, i) \in Nat
                     /\ b # d \/ i # j => OnFlash(b, i)' = OnFlash(b, i)
                     /\ b = d /\ i = j => OnFlash(b, i) = Logged(b, i) - 1 /\ OnFlash(b, i)' = Logged(b, i)
                                          /\ Logged(b, i) = Done(d, pos)
    OBVIOUS
  <2>1. Logged(b, i)' = Logged(b, i) /\ Logged(b, i) \in Nat
    BY <1>1, Cursors DEF Logged, Flushing
  <2>2. /\ OnFlash(b, i)  = IF lbn = i /\ queue[b] # <<>> THEN Logged(b, i) - 1 ELSE Logged(b, i)
        /\ OnFlash(b, i)' = IF lbn = i /\ queue'[b] # <<>> THEN Logged(b, i) - 1 ELSE Logged(b, i)
    BY <1>1, <2>1 DEF OnFlash
  <2>3. b # d => queue'[b] = queue[b]
    BY <1>8
  <2>4. CASE b # d
    BY <2>1, <2>2, <2>3, <2>4
  <2>5. CASE b = d /\ i # j
    BY <1>2, <2>1, <2>2, <2>5
  <2>6. CASE b = d /\ i = j
    <3>1. Logged(b, i) = Done(d, pos)
      <4>1. ~(lbn = 0 /\ i = 1) /\ lbn = i
        BY <1>2, <2>6
      <4>. QED BY <2>6, <4>1 DEF Logged
    <3>. QED BY <1>1, <1>2, <1>8, <2>1, <2>2, <2>6, <3>1
  <2>. QED BY <2>4, <2>5, <2>6
<1>11. \A b \in Banks, i \in Lbns : b # d \/ i # j => flash'[b][MapVbn(i)] = flash[b][MapVbn(i)]
  BY <1>6, <1>8, MetaBlks
<1>12. ASSUME NEW b \in Banks, NEW i \in Lbns PROVE MapLogAt(b, i)'
  <2>1. MapLogAt(b, i)
    BY DEF Live, MapLog
  <2>2. CASE b # d \/ i # j
    BY <1>1, <1>9, <1>10, <1>11, <2>1, <2>2, MapFrame
  <2>3. CASE b = d /\ i = j
    <3>1. Cur(b, i)' = Cur(b, i) /\ Base(b, i)' = Base(b, i)
      BY <1>1, <1>10 DEF Cur, Base
    <3>2. ErasedAbove(b, MapVbn(i), Cur(b, i))'
      <4>1. \A p \in Pages : p > o => p # o /\ flash[d][k][p] = Erased
        BY <1>4, <1>6, <2>1, <2>3 DEF MapLogAt, ErasedAbove, Pages
      <4>. QED BY <1>4, <1>6, <1>8, <2>3, <3>1, <4>1 DEF ErasedAbove
    <3>3. /\ Base(b, i) \in Nat /\ o = Base(b, i) + Logged(b, i) /\ Logged(b, i) = RoundOf(c) + 1
          /\ OnFlash(b, i) = RoundOf(c) /\ OnFlash(b, i)' = RoundOf(c) + 1
          /\ RoundOf(c) \in Nat /\ c \in Nat /\ BankOf(c) = b
          /\ Logged(b, i) <= Count(b, i) /\ Count(b, i) \in Nat
      <4>1. RoundOf(c) \in Nat /\ c \in Nat /\ BankOf(c) = b /\ Count(b, i) \in Nat
        BY <2>3, DoneBounds
      <4>2. Base(b, i) \in Nat /\ Cur(b, i) = Base(b, i) + Logged(b, i) /\ Logged(b, i) <= Count(b, i)
        BY Cursors
      <4>3. Logged(b, i) = RoundOf(c) + 1 /\ OnFlash(b, i) = Logged(b, i) - 1
            /\ OnFlash(b, i)' = Logged(b, i)
        BY <1>3, <1>10, <2>3
      <4>. QED BY <1>4, <2>3, <4>1, <4>2, <4>3
    <3>4. \A e \in ChunksOf(b, i) : e \in Nat /\ RoundOf(e) \in Nat /\ BankOf(e) = b
                                    /\ RoundOf(e) < Count(b, i)
      BY DoneBounds
    <3>5. flushed' # None => TableAt(b, i, Base(b, i) - Count(b, i) + 1, Count(b, i), flushed)'
      <4> SUFFICES ASSUME flushed # None, NEW e \in ChunksOf(b, i)
                   PROVE  flash'[b][k][Base(b, i) - Count(b, i) + 1 + RoundOf(e)] = MapPageOf(i, e, flushed)
        BY <1>1, <1>6, <2>3, <3>1 DEF TableAt, MapPageOf
      <4>1. Base(b, i) >= Count(b, i)
            /\ flash[b][k][Base(b, i) - Count(b, i) + 1 + RoundOf(e)] = MapPageOf(i, e, flushed)
        BY <1>6, <2>1, <2>3, <3>4 DEF MapLogAt, TableAt
      <4>2. PICK g : g = Base(b, i) - Count(b, i) + 1 + RoundOf(e)
        OBVIOUS
      <4>3. g \in Int /\ 0 <= g /\ g < o
        BY <3>3, <3>4, <4>1, <4>2
      <4>4. g \in Pages /\ g # o
        BY <1>4, <4>3, NandAssumption DEF Pages
      <4>. QED BY <1>8, <2>3, <4>1, <4>2, <4>4
    <3>6. TableAt(b, i, Base(b, i) + 1, OnFlash(b, i), ver)'
      <4> SUFFICES ASSUME NEW e \in ChunksOf(b, i), RoundOf(e) < RoundOf(c) + 1
                   PROVE  flash'[b][k][Base(b, i) + 1 + RoundOf(e)] = MapPageOf(i, e, ver)
        BY <1>1, <1>6, <2>3, <3>1, <3>3 DEF TableAt, MapPageOf
      <4>1. CASE RoundOf(e) < RoundOf(c)
        <5>1. flash[b][k][Base(b, i) + 1 + RoundOf(e)] = MapPageOf(i, e, ver)
          BY <1>6, <1>9, <2>1, <2>3, <3>3, <4>1 DEF MapLogAt, TableAt
        <5>2. PICK g : g = Base(b, i) + 1 + RoundOf(e)
          OBVIOUS
        <5>3. g \in Int /\ 0 <= g /\ g < o
          BY <3>3, <3>4, <4>1, <5>2
        <5>4. g \in Pages /\ g # o
          BY <1>4, <5>3, NandAssumption DEF Pages
        <5>. QED BY <1>8, <2>3, <5>1, <5>2, <5>4
      <4>2. CASE RoundOf(e) = RoundOf(c)
        <5>1. e = c
          BY <3>3, <3>4, <4>2, ChunkIs
        <5>2. Base(b, i) + 1 + RoundOf(e) = o
          BY <3>3, <4>2
        <5>. QED BY <1>3, <1>4, <1>8, <2>3, <5>1, <5>2
      <4>. QED BY <3>3, <3>4, <4>1, <4>2
    <3>. QED BY <1>1, <1>9, <2>1, <3>1, <3>2, <3>5, <3>6 DEF MapLogAt
  <2>. QED BY <2>2, <2>3
<1>13. ASSUME NEW b \in Banks PROVE MapQueueAt(b)'
  <2>1. CASE b = d
    BY <1>8, <2>1 DEF MapQueueAt
  <2>2. CASE b # d
    <3>1. MapQueueAt(b) /\ queue'[b] = queue[b] /\ flash'[b] = flash[b] /\ ftl_buf' = ftl_buf
      BY <1>8, <2>2 DEF Live, MapQueue
    <3>2. Cur(b, lbn)' = Cur(b, lbn) /\ OnItsWay(b)' = OnItsWay(b)
      BY <1>1, <3>1 DEF Cur, OnItsWay, InRound, MapPageOf
    <3>. QED BY <1>1, <3>1, <3>2 DEF MapQueueAt
  <2>. QED BY <2>1, <2>2
<1>14. ASSUME NEW b \in Banks PROVE MiscLogAt(b)'
  <2>1. Waiting(b) /\ Waiting(b)' /\ pos' \in Nat /\ pc' = "map"
    BY <1>1 DEF Waiting
  <2>2. flash'[b][MISCBLK_VBN] = flash[b][MISCBLK_VBN]
    BY <1>6, <1>8, MetaBlks
  <2>3. \A i \in Lbns : (map_vpn[b][i] - Logged(b, i))' = map_vpn[b][i] - Logged(b, i)
    BY <1>1, <1>10
  <2>. QED BY <1>1, <1>9, <2>1, <2>2, <2>3, MiscFrame DEF Live, MiscLog
<1>15. CtlOK'
  BY <1>1 DEF CtlOK, Flushing
<1>. QED BY <1>1, <1>8, <1>12, <1>13, <1>14, <1>15 DEF Live, MapLog, MapQueue, MiscLog, Types

\* A misc. page.
LEMMA ExecuteMiscInv ==
  ASSUME Fits, Live, NEW d \in Banks, Execute(d), pc = "misc",
         UNCHANGED <<mark, ver, misc_vpn, map_vpn, ctl>>
  PROVE  Live'
<1>1. /\ CtlOK /\ Types /\ pos \in Nat /\ MiscLogAt(d) /\ queue[d] # <<>>
      /\ UNCHANGED <<mark, ver, misc_vpn, map_vpn, pc, lbn, pos, flushes, flushed>>
  BY DEF Live, CtlOK, MiscLog, Execute, ctl
<1>2. Issued(d) /\ ~Waiting(d) /\ ~Prepared(d)
  <2>1. ~Waiting(d) /\ ~Prepared(d)
    BY <1>1 DEF MiscLogAt, MiscWaiting
  <2>2. d \in Nat /\ NumBanks \in Nat
    BY NandAssumption DEF Banks
  <2>. QED BY <1>1, <2>1, <2>2 DEF Issued, Waiting, Prepared
<1>3. queue[d] = <<Program(misc_vpn[d])>> /\ MiscOnItsWay(d)
  BY <1>1, <1>2 DEF MiscLogAt, MiscIssued
<1>4. PICK o \in Pages : o = MCur(d) /\ MCur(d) - 1 \in Pages
  BY <1>2, MiscCursor
<1>5. PICK w \in Nat : w = misc_vpn[d]
  BY <1>1 DEF Types
<1>6. /\ NandTypeOK(Contents)' /\ ftl_buf' = ftl_buf /\ queue'[d] = <<>>
      /\ \A a \in Banks : a # d => flash'[a] = flash[a] /\ queue'[a] = queue[a]
      /\ \A v \in Blks : v # MISCBLK_VBN => flash'[d][v] = flash[d][v]
      /\ \A p \in Pages : flash'[d][MISCBLK_VBN][p] =
                            IF p = o THEN ftl_buf[d] ELSE flash[d][MISCBLK_VBN][p]
  <2>1. w - MISCBLK_VBN * PagesPerBlk = o
    BY <1>4, <1>5 DEF MCur
  <2>2. NandTypeOK(Contents) /\ MISCBLK_VBN \in Blks
    BY <1>1, MetaBlks DEF Types
  <2>3. queue[d] = <<Program(w)>> /\ flash[d][MISCBLK_VBN][o] = Erased
    BY <1>3, <1>4, <1>5 DEF MiscOnItsWay
  <2>. QED BY <2>1, <2>2, <2>3, ExecuteProgram
<1>7. \A b \in Banks, i \in Lbns : flash'[b][MapVbn(i)] = flash[b][MapVbn(i)]
  BY <1>6, MetaBlks
<1>8. /\ MapLog' /\ MapQueue' /\ Over' = Over
      /\ \A b \in Banks, i \in Lbns :
           (map_vpn[b][i] - Logged(b, i))' = map_vpn[b][i] - Logged(b, i)
  BY <1>1, <1>7, MiscStepFrame
<1>9. ASSUME NEW b \in Banks PROVE MiscLogAt(b)'
  <2>1. MiscLogAt(b)
    BY DEF Live, MiscLog
  <2>2. Waiting(b)' = Waiting(b) /\ Prepared(b)' = Prepared(b) /\ Issued(b)' = Issued(b)
    BY <1>1 DEF Waiting, Prepared, Issued
  <2>3. CASE b # d
    <3>1. queue'[b] = queue[b] /\ flash'[b] = flash[b] /\ ftl_buf' = ftl_buf
      BY <1>6, <2>3
    <3>2. CASE Waiting(b)
      <4>1. queue'[b] = <<>> /\ pos' \in Nat
        BY <1>1, <2>1, <3>1, <3>2 DEF MiscLogAt, MiscWaiting
      <4>. QED BY <1>1, <1>8, <2>1, <2>2, <3>1, <3>2, <4>1, MiscFrame
    <3>3. CASE ~Waiting(b)
      BY <1>1, <2>1, <2>2, <3>1, <3>3, MiscDoneFrame
    <3>. QED BY <3>2, <3>3
  <2>4. CASE b = d
    <3>1. MCur(b)' = MCur(b) /\ MiscPageOf(b, ver)' = MiscPageOf(b, ver)
      BY <1>1 DEF MCur, MiscPageOf
    <3>2. ErasedAbove(b, MISCBLK_VBN, MCur(b))'
      <4>1. \A p \in Pages : p > o => p # o /\ flash[d][MISCBLK_VBN][p] = Erased
        BY <1>4, <2>1, <2>4 DEF MiscLogAt, ErasedAbove, Pages
      <4>. QED BY <1>4, <1>6, <2>4, <3>1, <4>1 DEF ErasedAbove
    <3>3. MiscIssued(b)'
      BY <1>3, <1>4, <1>6, <2>4, <3>1 DEF MiscIssued, MiscOnItsWay
    <3>4. (flushed # None => flash[b][MISCBLK_VBN][MCur(b) - 1] = OldMisc(b, misc_vpn[b] - 1))'
      <4>1. OldMisc(b, misc_vpn[b] - 1)' = OldMisc(b, misc_vpn[b] - 1)
        <5>1. [i \in Lbns |-> (map_vpn[b][i] - Logged(b, i))'] = [i \in Lbns |-> map_vpn[b][i] - Logged(b, i)]
          BY <1>8
        <5>. QED BY <1>1, <5>1 DEF OldMisc
      <4>2. flash'[b][MISCBLK_VBN][MCur(b) - 1] = flash[b][MISCBLK_VBN][MCur(b) - 1]
        <5>1. MCur(b) - 1 # o
          BY <1>4, <2>4 DEF Pages
        <5>. QED BY <1>4, <1>6, <2>4, <5>1
      <4>. QED BY <1>1, <1>2, <2>1, <2>4, <3>1, <4>1, <4>2 DEF MiscLogAt
    <3>5. /\ Issued(b)' /\ ~Waiting(b)' /\ ~Prepared(b)'
          /\ misc_vpn'[b] \in Nat /\ MCur(b)' \in 1 .. flushes'
      BY <1>1, <1>2, <2>1, <2>2, <2>4, <3>1 DEF MiscLogAt
    <3>. QED BY <3>2, <3>3, <3>4, <3>5 DEF MiscLogAt
  <2>. QED BY <2>3, <2>4
<1>10. CtlOK'
  BY <1>1 DEF CtlOK, Flushing
<1>. QED BY <1>1, <1>6, <1>8, <1>9, <1>10 DEF Live, MiscLog, Types
-----------------------------------------------------------------------------
(***************************************************************************)
(* The invariant.                                                          *)
(***************************************************************************)
\* A drive that was never started.
LEMMA InitInv == Init => IInv
<1> SUFFICES ASSUME Init PROVE IInv
  OBVIOUS
<1>1. Types
  <2>1. CleanFlash \in [Banks -> [Blks -> [Pages -> Contents]]]
    BY DEF CleanFlash, Contents
  <2>. QED BY <2>1 DEF Init, NandInit, Types, NandTypeOK, Contents
<1>. QED BY <1>1 DEF Init, NandInit, IInv, CleanInv

\* No flush of a marked drive was cut before the step.
LEMMA CleanStep ==
  ASSUME Fits, IInv, cut = "no", Next
  PROVE  IInv'
<1>1. CleanInv /\ Types /\ mark \in BOOLEAN
  BY DEF IInv, CleanInv
<1>2. ASSUME format PROVE IInv'
  <2>1. Live' /\ pc' = "check" /\ cut' = "no" /\ mark' = FALSE
    BY <1>1, <1>2, FormatInv
  <2>. QED BY <2>1 DEF IInv, CleanInv, Live
<1>3. ASSUME ~format PROVE Live
  <2>1. CASE pc = "off" /\ ~mark
    <3>1. \A b \in Banks : queue[b] = <<>>
      BY <1>1, <2>1 DEF CleanInv
    <3>. QED BY <1>3, <2>1, <3>1 DEF Next, load_metadata, write_format_mark, PowerLoss, Change,
           ftl_flush, EraseFullMapBlock, FlushPage, FlushedTable, PrepareMisc, ProgramMisc,
           FlushEnd, Execute
  <2>. QED BY <1>1, <2>1 DEF CleanInv
<1>4. ASSUME Live', pc' # "off" \/ mark', cut' = "no", mark' \in BOOLEAN PROVE IInv'
  <2>1. Types' /\ \A b \in Banks : pc' = "off" => queue'[b] = <<>>
    BY <1>4 DEF Live, MapQueue, MapQueueAt
  <2>. QED BY <1>4, <2>1 DEF IInv, CleanInv
<1>5. ASSUME ~format, load_metadata PROVE IInv'
  BY <1>1, <1>3, <1>4, <1>5, LoadInv DEF load_metadata
<1>6. ASSUME ~format, write_format_mark \/ Change \/ ftl_flush PROVE IInv'
  <2>1. /\ cut' = "no" /\ pc' # "off" /\ mark' \in BOOLEAN
    BY <1>1, <1>6 DEF write_format_mark, Change, ftl_flush, ctl
  <2>. QED BY <1>3, <1>4, <1>6, <2>1, QuietInv
<1>7. ASSUME ~format, PowerLoss PROVE IInv'
  <2>1. /\ pc' = "off" /\ mark' = mark /\ flash' = flash /\ queue' = [b \in Banks |-> <<>>]
        /\ UNCHANGED <<ftl_buf, misc_vpn, map_vpn>>
        /\ cut' = IF mark /\ pc # "idle" THEN "cut" ELSE "no"
    BY <1>7 DEF PowerLoss
  <2>2. Live /\ Types'
    BY <1>1, <1>3, <1>7, <2>1 DEF Types, NandTypeOK
  <2>3. CASE ~mark
    BY <1>1, <2>1, <2>2, <2>3 DEF IInv, CleanInv
  <2>4. CASE mark /\ pc = "idle"
    BY <1>1, <1>4, <1>7, <2>1, <2>2, <2>4, QuietInv
  <2>5. CASE mark /\ pc # "idle"
    <3>1. \A b \in Banks : Saved(b) \in MiscPages /\ \E v \in Versions : BankImage(b, v)
      BY <2>2, <2>5, EveryBankLoads
    <3>2. \A b \in Banks : (Saved(b) \in MiscPages /\ \E v \in Versions : BankImage(b, v))'
      BY <2>1, <3>1, ImageFrame
    <3>. QED BY <1>1, <2>1, <2>2, <2>5, <3>2 DEF IInv, CutInv
  <2>. QED BY <2>3, <2>4, <2>5
<1>8. ASSUME ~format,
             \/ EraseFullMapBlock \/ FlushPage \/ FlushedTable
             \/ PrepareMisc \/ ProgramMisc \/ FlushEnd
      PROVE  IInv'
  <2>1. Live'
    BY <1>3, <1>8, EraseFullInv, FlushPageInv, FlushedTableInv, PrepareMiscInv, ProgramMiscInv,
       FlushEndInv
  <2>2. cut' = "no" /\ pc' # "off" /\ mark' \in BOOLEAN
    BY <1>1, <1>8 DEF EraseFullMapBlock, FlushPage, FlushedTable, PrepareMisc, ProgramMisc,
       FlushEnd, AfterTable
  <2>. QED BY <1>4, <2>1, <2>2
<1>9. ASSUME ~format, NEW b \in Banks, Execute(b), UNCHANGED <<mark, ver, misc_vpn, map_vpn, ctl>>
      PROVE  IInv'
  <2>1. queue[b] # <<>> /\ MapQueueAt(b) /\ Live
    BY <1>3, <1>9 DEF Execute, Live, MapQueue
  <2>2. pc = "map" \/ pc = "misc"
    BY <2>1 DEF MapQueueAt
  <2>3. Live'
    BY <1>9, <2>1, <2>2, ExecuteMapInv, ExecuteMiscInv
  <2>4. cut' = "no" /\ pc' # "off" /\ mark' \in BOOLEAN
    BY <1>1, <1>9, <2>2 DEF ctl
  <2>. QED BY <1>4, <2>3, <2>4
<1>. QED BY <1>2, <1>5, <1>6, <1>7, <1>8, <1>9 DEF Next

\* One was cut.
LEMMA CutStep ==
  ASSUME IInv, cut = "cut", Next
  PROVE  IInv'
<1>1. CutInv /\ Types /\ mark /\ mark \in BOOLEAN /\ pc \in {"off", "idle"}
      /\ \A b \in Banks : queue[b] = <<>>
  BY DEF IInv, CutInv
<1>2. load_metadata \/ PowerLoss \/ Change \/ ftl_flush
  BY <1>1 DEF Next, format, write_format_mark, EraseFullMapBlock, FlushPage, FlushedTable,
     PrepareMisc, ProgramMisc, FlushEnd, Execute
<1>3. ASSUME flash' = flash
      PROVE  \A b \in Banks : (Saved(b) \in MiscPages /\ \E v \in Versions : BankImage(b, v))'
  <2>1. \A b \in Banks : Saved(b) \in MiscPages /\ \E v \in Versions : BankImage(b, v)
    BY <1>1 DEF CutInv
  <2>. QED BY <1>3, <2>1, ImageFrame
<1>4. CASE load_metadata
  <2>1. /\ pc' = "idle" /\ mark' = mark /\ cut' = cut /\ flushed' = ver'
        /\ flash' = flash /\ queue' = queue /\ ftl_buf' = ftl_buf
        /\ misc_vpn' = [b \in Banks |-> Saved(b).misc_vpn]
        /\ map_vpn' = [b \in Banks |-> Saved(b).map_vpn]
    BY <1>4 DEF load_metadata, nandVars
  <2>2. \A b \in Banks : Saved(b) \in MiscPages
    BY <1>1 DEF CutInv
  <2>3. Types'
    BY <1>1, <2>1, <2>2 DEF Types, NandTypeOK, MiscPages
  <2>4. ver' \in Versions \union {Mixed} /\ (ver' # Mixed => Image(ver'))
    <3>1. CASE \E v \in Versions : Image(v)
      <4>1. ver' = CHOOSE v \in Versions : Image(v)
        BY <1>4, <3>1 DEF load_metadata
      <4>. QED BY <3>1, <4>1
    <3>2. CASE ~\E v \in Versions : Image(v)
      BY <1>4, <3>2 DEF load_metadata
    <3>. QED BY <3>1, <3>2
  <2>5. (flushed # Mixed => Image(flushed))'
    <3>1. PICK u \in Versions \union {Mixed} : u = ver' /\ (u # Mixed => Image(u))
      BY <2>4
    <3>2. u # Mixed => Image(u)'
      BY <2>1, <3>1, ImageFrame
    <3>. QED BY <2>1, <3>1, <3>2 DEF Image, BankImage
  <2>6. \A b \in Banks : (Saved(b).misc_vpn = misc_vpn[b] /\ Saved(b).map_vpn = map_vpn[b])'
    BY <2>1, ImageFrame
  <2>. QED BY <1>1, <1>3, <2>1, <2>3, <2>4, <2>5, <2>6 DEF IInv, CutInv
<1>5. CASE PowerLoss
  <2>1. /\ pc' = "off" /\ mark' = mark /\ cut' = cut /\ flash' = flash
        /\ queue' = [b \in Banks |-> <<>>] /\ UNCHANGED <<ftl_buf, misc_vpn, map_vpn>>
    BY <1>5 DEF PowerLoss
  <2>2. Types'
    BY <1>1, <2>1 DEF Types, NandTypeOK
  <2>. QED BY <1>1, <1>3, <2>1, <2>2 DEF IInv, CutInv
<1>6. CASE Change
  <2>1. /\ pc' = pc /\ pc = "idle" /\ mark' = mark /\ cut' = cut /\ flushed' = flushed
        /\ flash' = flash /\ queue' = queue /\ ftl_buf' = ftl_buf
        /\ misc_vpn' = misc_vpn /\ map_vpn' = map_vpn
    BY <1>6 DEF Change, nandVars, ctl
  <2>2. Types'
    BY <1>1, <2>1 DEF Types, NandTypeOK
  <2>3. /\ flushed \in Versions \union {Mixed}
        /\ flushed # Mixed => Image(flushed)
        /\ \A b \in Banks : Saved(b).misc_vpn = misc_vpn[b] /\ Saved(b).map_vpn = map_vpn[b]
    BY <1>1, <2>1 DEF CutInv
  <2>4. (flushed # Mixed => Image(flushed))'
    <3>1. PICK u \in Versions \union {Mixed} : u = flushed /\ (u # Mixed => Image(u))
      BY <2>3
    <3>2. u # Mixed => Image(u)'
      BY <2>1, <3>1, ImageFrame
    <3>. QED BY <2>1, <3>1, <3>2 DEF Image, BankImage
  <2>5. \A b \in Banks : (Saved(b).misc_vpn = misc_vpn[b] /\ Saved(b).map_vpn = map_vpn[b])'
    BY <2>1, <2>3, ImageFrame
  <2>. QED BY <1>1, <1>3, <2>1, <2>2, <2>3, <2>4, <2>5 DEF IInv, CutInv
<1>7. CASE ftl_flush
  BY <1>1, <1>7 DEF ftl_flush, IInv
<1>. QED BY <1>2, <1>4, <1>5, <1>6, <1>7

\* Another flush has followed: the mark stays, and nothing is claimed of the logs.
LEMMA OverStep ==
  ASSUME IInv, cut = "over", Next
  PROVE  IInv'
<1>1. mark /\ mark \in BOOLEAN
  BY DEF IInv
<1>2. cut' = "over" /\ mark' = TRUE
  BY <1>1 DEF Next, load_metadata, format, write_format_mark, PowerLoss, Change, ftl_flush,
     EraseFullMapBlock, FlushPage, FlushedTable, PrepareMisc, ProgramMisc, FlushEnd, ctl
<1>. QED BY <1>2 DEF IInv

\* Every step preserves the invariant.
LEMMA NextInv == Fits /\ IInv /\ [Next]_vars => IInv'
<1> SUFFICES ASSUME Fits, IInv, [Next]_vars PROVE IInv'
  OBVIOUS
<1>1. CASE Next
  BY <1>1, CleanStep, CutStep, OverStep DEF IInv
<1>2. CASE UNCHANGED vars
  <2>1. UNCHANGED <<flash, queue, ftl_buf, mark, ver, misc_vpn, map_vpn, pc, lbn, pos, flushes,
                    flushed, cut>>
    BY <1>2 DEF vars, nandVars, ctl
  <2>2. Types' = Types /\ CtlOK' = CtlOK
    BY <2>1 DEF Types, NandTypeOK, CtlOK, Flushing
  <2>3. \A b \in Banks, i \in Lbns : /\ Logged(b, i)' = Logged(b, i) /\ OnFlash(b, i)' = OnFlash(b, i)
                                     /\ Cur(b, i)' = Cur(b, i) /\ Base(b, i)' = Base(b, i)
    BY <2>1 DEF Logged, OnFlash, Cur, Base, Flushing
  <2>4. MapLog' = MapLog
    BY <2>1, <2>3 DEF MapLog, MapLogAt, ErasedAbove, TableAt, MapPageOf, Over, Flushing
  <2>5. MapQueue' = MapQueue
    BY <2>1 DEF MapQueue, MapQueueAt, OnItsWay, InRound, MapPageOf, Cur
  <2>6. \A b \in Banks : [i \in Lbns |-> (map_vpn[b][i] - Logged(b, i))'] =
                         [i \in Lbns |-> map_vpn[b][i] - Logged(b, i)]
    BY <2>1, <2>3
  <2>7. \A b \in Banks : /\ OldMisc(b, misc_vpn[b])' = OldMisc(b, misc_vpn[b])
                         /\ OldMisc(b, misc_vpn[b] - 1)' = OldMisc(b, misc_vpn[b] - 1)
                         /\ MCur(b)' = MCur(b) /\ MiscPageOf(b, ver)' = MiscPageOf(b, ver)
    BY <2>1, <2>6 DEF OldMisc, MCur, MiscPageOf
  <2>8. \A b \in Banks : /\ Waiting(b)' = Waiting(b) /\ Prepared(b)' = Prepared(b)
                         /\ Issued(b)' = Issued(b)
    BY <2>1 DEF Waiting, Prepared, Issued
  <2>9. \A b \in Banks : MiscWaiting(b)' = MiscWaiting(b) /\ MiscIssued(b)' = MiscIssued(b)
                         /\ MiscOnItsWay(b)' = MiscOnItsWay(b)
    BY <2>1, <2>7 DEF MiscWaiting, MiscIssued, MiscOnItsWay, Over, Flushing
  <2>10. MiscLog' = MiscLog
    <3>1. \A b \in Banks : ErasedAbove(b, MISCBLK_VBN, MCur(b))' = ErasedAbove(b, MISCBLK_VBN, MCur(b))
      BY <2>1, <2>7 DEF ErasedAbove
    <3>. QED BY <2>1, <2>7, <2>8, <2>9, <3>1 DEF MiscLog, MiscLogAt
  <2>11. CleanInv' = CleanInv
    BY <2>1, <2>2, <2>4, <2>5, <2>10 DEF CleanInv, Live
  <2>12. CutInv => CutInv'
    <3> SUFFICES ASSUME CutInv PROVE CutInv'
      OBVIOUS
    <3>1. \A b \in Banks : (Saved(b) \in MiscPages /\ \E v \in Versions : BankImage(b, v))'
      <4>1. \A b \in Banks : Saved(b) \in MiscPages /\ \E v \in Versions : BankImage(b, v)
        BY DEF CutInv
      <4>. QED BY <2>1, <4>1, ImageFrame
    <3>2. (flushed # Mixed => Image(flushed))' = (flushed # Mixed => Image(flushed))
      BY <2>1 DEF Image, BankImage, Programmed, Saved, Newest, LoadedPage, FirstLoaded, PageAt
    <3>3. \A b \in Banks : Saved(b)' = Saved(b)
      BY <2>1, ImageFrame
    <3>. QED BY <2>1, <2>2, <3>1, <3>2, <3>3 DEF CutInv
  <2>. QED BY <2>1, <2>11, <2>12 DEF IInv
<1>. QED BY <1>1, <1>2

\* The inductive invariant holds of every drive whose flushes fit the map blocks.
THEOREM RecoveryInvariant == ASSUME Fits PROVE Spec => []IInv
<1>1. Fits
  OBVIOUS
<1>2. IInv /\ [Next]_vars => IInv'
  BY <1>1, NextInv
<1>. QED BY <1>2, InitInv, PTL DEF Spec
-----------------------------------------------------------------------------
(***************************************************************************)
(* The properties.                                                         *)
(***************************************************************************)
\* A drive that is up, or has its mark, is in order as long as no flush was cut.
LEMMA IsLive ==
  ASSUME IInv, cut = "no", pc # "off" \/ mark
  PROVE  Live
  BY DEF IInv, CleanInv

\* The last flush is what a start loads.
LEMMA LoadedIs == Fits /\ IInv => FlushedIsLoaded
<1> SUFFICES ASSUME Fits, IInv, pc = "idle", cut # "over", flushed # Mixed
             PROVE  /\ Image(flushed)
                    /\ \A b \in Banks : Saved(b).misc_vpn = misc_vpn[b] /\ Saved(b).map_vpn = map_vpn[b]
  BY DEF FlushedIsLoaded, NoFlushAfterCut
<1>1. CASE cut = "no"
  BY <1>1, IsLive, Loaded
<1>2. CASE cut = "cut"
  BY <1>2 DEF IInv, CutInv
<1>. QED BY <1>1, <1>2 DEF IInv

\* A marked drive has an image in every bank.
LEMMA MarkMeans == Fits /\ IInv => MarkMeansLoadable
<1> SUFFICES ASSUME Fits, IInv, mark, cut # "over", NEW b \in Banks
             PROVE  \E v \in Versions : BankImage(b, v)
  BY DEF MarkMeansLoadable, NoFlushAfterCut
<1>1. CASE cut = "no"
  BY <1>1, IsLive, EveryBankLoads
<1>2. CASE cut = "cut"
  BY <1>2 DEF IInv, CutInv
<1>. QED BY <1>1, <1>2 DEF IInv

\* The tables of a flush do not hurt the image of the last one.
LEMMA OldImageIs == Fits /\ IInv => OldImageKept
<1> SUFFICES ASSUME Fits, IInv, mark, cut # "over", pc \in {"check", "map"}, NEW b \in Banks
             PROVE  BankImage(b, flushed)
  BY DEF OldImageKept, NoFlushAfterCut, Image
<1>1. cut = "no"
  BY DEF IInv, CutInv
<1>2. Live /\ Flushing
  BY <1>1, IsLive DEF Flushing
<1>3. flushed # None /\ Waiting(b)
  BY <1>2 DEF Live, CtlOK, Waiting
<1>. QED BY <1>2, <1>3, OldImage

\* A program command to the last erased pages of a block follows the rule of the flash.
LEMMA ProgramAllowed ==
  ASSUME NEW b \in Banks, NEW blk \in Blks, NEW o \in Pages, NEW vpn \in Nat,
         vpn - blk * PagesPerBlk = o, queue[b] = <<Program(vpn)>>,
         flash[b][blk][o] = Erased, ErasedAbove(b, blk, o)
  PROVE  CommandAllowed(b, Head(queue[b]))
<1>1. blk \in Nat /\ o \in 0 .. PagesPerBlk - 1
  BY NandAssumption DEF Blks, Pages
<1>2. vpn \div PagesPerBlk = blk /\ vpn % PagesPerBlk = o
  BY <1>1, PageOfBlk
<1>3. Head(queue[b]) = Program(vpn)
  BY ShortQueue
<1>4. Program(vpn).blk = blk /\ Program(vpn).pg = o
  BY <1>2 DEF Program
<1>5. \A p \in o .. PagesPerBlk - 1 : p \in Pages /\ (p = o \/ p > o)
  BY <1>1, NandAssumption DEF Pages
<1>6. \A p \in o .. PagesPerBlk - 1 : flash[b][blk][p] = Erased
  BY <1>5 DEF ErasedAbove
<1>. QED BY <1>3, <1>4, <1>6 DEF CommandAllowed

\* No page is programmed twice or out of order.
LEMMA RuleIs == Fits /\ IInv => NandRule
<1> SUFFICES ASSUME Fits, IInv, NEW b \in Banks, queue[b] # <<>>, cut # "over"
             PROVE  CommandAllowed(b, Head(queue[b]))
  BY DEF NandRule, NoFlushAfterCut
<1>1. cut = "no" /\ Live
  BY IsLive DEF IInv, CutInv, CleanInv
<1>2. CtlOK /\ Types /\ MapQueueAt(b) /\ MiscLogAt(b) /\ \A i \in Lbns : MapLogAt(b, i)
  BY <1>1 DEF Live, MapLog, MapQueue, MiscLog
<1>3. CASE pc = "map"
  <2>1. PICK j \in Lbns : j = lbn
    BY <1>2 DEF CtlOK
  <2>2. PICK w \in Nat, k \in Blks, o \in Pages :
          w = map_vpn[b][j] /\ k = MapVbn(j) /\ o = Cur(b, j)
    BY <1>1, <1>2, Cursors, MetaBlks DEF Types
  <2>3. queue[b] = <<Program(w)>> /\ flash[b][k][o] = Erased
    BY <1>2, <1>3, <2>1, <2>2 DEF MapQueueAt
  <2>4. ErasedAbove(b, k, o) /\ w - k * PagesPerBlk = o
    BY <1>2, <2>2 DEF MapLogAt, Cur
  <2>. QED BY <2>3, <2>4, ProgramAllowed
<1>4. CASE pc # "map"
  <2>1. PICK w \in Nat, k \in Blks, o \in Pages :
          w = misc_vpn[b] /\ k = MISCBLK_VBN /\ o = MCur(b)
    BY <1>1, <1>2, MiscCursor, MetaBlks DEF Types
  <2>2. Issued(b)
    <3>1. pc = "misc" /\ ~Waiting(b) /\ ~Prepared(b)
      BY <1>2, <1>4 DEF MapQueueAt, MiscLogAt, MiscWaiting
    <3>2. b \in Nat /\ NumBanks \in Nat /\ pos \in Nat
      BY <1>2, NandAssumption DEF Banks, CtlOK
    <3>. QED BY <3>1, <3>2 DEF Issued, Waiting, Prepared
  <2>3. queue[b] = <<Program(w)>> /\ flash[b][k][o] = Erased
    BY <1>2, <2>1, <2>2 DEF MiscLogAt, MiscIssued, MiscOnItsWay
  <2>4. ErasedAbove(b, k, o) /\ w - k * PagesPerBlk = o
    BY <1>2, <2>1 DEF MiscLogAt, MCur
  <2>. QED BY <2>3, <2>4, ProgramAllowed
<1>. QED BY <1>3, <1>4

\* As long as the flushes since the format fit the map blocks and none has followed one
\* that was cut: what ftl_flush saved is what ftl_open loads after a power-off between two
\* flushes, and what it loads after a cut flush, if of one version, is what the drive goes
\* on with, the cursors of the logs included.
THEOREM FlushedIsLoadedThm == ASSUME Fits PROVE Spec => []FlushedIsLoaded
<1>1. IInv => FlushedIsLoaded
  BY LoadedIs
<1>. QED BY <1>1, RecoveryInvariant, PTL

\* As long as the flushes since the format fit the map blocks and none has followed one
\* that was cut: the format mark is never on flash without an image in every bank, whenever
\* the power goes in a format or in one flush.
THEOREM MarkMeansLoadableThm == ASSUME Fits PROVE Spec => []MarkMeansLoadable
<1>1. IInv => MarkMeansLoadable
  BY MarkMeans
<1>. QED BY <1>1, RecoveryInvariant, PTL

\* As long as the flushes since the format fit the map blocks and none has followed one
\* that was cut: until the first misc. page of a flush is written, the image of the last
\* flush is whole.
THEOREM OldImageKeptThm == ASSUME Fits PROVE Spec => []OldImageKept
<1>1. IInv => OldImageKept
  BY OldImageIs
<1>. QED BY <1>1, RecoveryInvariant, PTL

\* As long as the flushes since the format fit the map blocks and none has followed one
\* that was cut: no page of a metadata block is programmed twice or out of order.
THEOREM NandRuleThm == ASSUME Fits PROVE Spec => []NandRule
<1>1. IInv => NandRule
  BY RuleIs
<1>. QED BY <1>1, RecoveryInvariant, PTL

=============================================================================
