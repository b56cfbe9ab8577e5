-------------------------- MODULE GreedyFlushProofs --------------------------
(***************************************************************************)
(* Proofs about GreedyFlush for every number of banks, pages of a block,   *)
(* table pages and versions, and every placement of the map blocks.        *)
(*                                                                         *)
(* The inductive invariant follows each log of a bank (one per map block,  *)
(* and the misc. block) from the page that is on flash to the page that is *)
(* queued.  The commands of a bank are at most one erase and one program,  *)
(* and ftl_buf is the page of that program: the waits of ftl_flush are     *)
(* just enough for that.                                                   *)
(***************************************************************************)
EXTENDS GreedyFlush, SequenceTheorems, TLAPS

MapPageOf(c, v) == [kind |-> "map", chunk |-> c, ver |-> v]
CursorOf(c)     == map_vpn[BankOf(c)][LbnOf(c)]

\* The chunk is one of the round that logging_pmap_table is in.
InRound(c) == c < pos /\ LbnOf(c) = LbnOf(pos - 1)

-----------------------------------------------------------------------------
Contents == MapPages \union MiscPages \union {Erased, Spoiled}

\* The types of all variables, and the range of pos in each loop.
FlushTypeOK ==
  /\ NandTypeOK(Contents)
  /\ ver \in Versions
  /\ misc_vpn \in [Banks -> Nat] /\ map_vpn \in [Banks -> [Lbns -> Nat]]
  /\ pc \in {"idle", "map", "misc"} /\ pos \in Nat
  /\ pc = "map" => pos \in 0 .. TablePages
  /\ pc = "misc" => pos \in 0 .. 2 * NumBanks
  /\ flushed \in Versions \union {None} /\ wrapped \in BOOLEAN
  /\ pc = "idle" => flushed # None

\* Every cursor of a map block stays in its block.
MapCursors == \A b \in Banks, i \in Lbns : map_vpn[b][i] \div PagesPerBlk = MapVbn[b][i]

\* What is at the cursor of a chunk's map block.
MapLog ==
  \A c \in Chunks :
    LET b == BankOf(c)
    IN  /\ pc = "map" /\ c < pos =>
             \/ Written(b, CursorOf(c), MapPageOf(c, ver)) /\ (InRound(c) => queue[b] = <<>>)
             \/ Queued(b, CursorOf(c), MapPageOf(c, ver)) /\ InRound(c)
        /\ pc = "map" /\ c >= pos /\ flushed = None => BlankAbove(b, CursorOf(c))
        /\ pc = "map" /\ c >= pos /\ flushed # None =>
             Written(b, CursorOf(c), MapPageOf(c, flushed))
        /\ pc = "misc" => Written(b, CursorOf(c), MapPageOf(c, ver))
        /\ pc = "idle" => Written(b, CursorOf(c), MapPageOf(c, flushed))

\* Commands wait only for a chunk of this round, and an erase sets wrapped.
MapQueue ==
  /\ pc = "map" => \A b \in Banks : queue[b] # <<>> =>
       \E c \in Chunks : /\ BankOf(c) = b /\ InRound(c)
                         /\ Queued(b, CursorOf(c), MapPageOf(c, ver))
                         /\ ~wrapped => queue[b] = <<Program(CursorOf(c))>>
  /\ pc = "idle" => \A b \in Banks : queue[b] = <<>>

\* The misc. page at vpn is of the last flush, and the map pages that it points to are
\* still those of that flush.
OldImage(b, vpn) ==
  LET m == PageAt(b, vpn)
  IN  /\ vpn \in Nat /\ vpn \div PagesPerBlk = MISCBLK_VBN
      /\ m \in MiscPages /\ m.ver = flushed
      /\ \A c \in Chunks : BankOf(c) = b =>
           /\ m.map_vpn[LbnOf(c)] \div PagesPerBlk = MapVbn[b][LbnOf(c)]
           /\ PageAt(b, m.map_vpn[LbnOf(c)]) = MapPageOf(c, flushed)

MiscPageOf(b, v) ==
  [kind |-> "misc", ver |-> v, misc_vpn |-> misc_vpn[b], map_vpn |-> map_vpn[b]]

\* The misc. page of bank b: of the last flush, in the buffer, or issued.
Waiting(b)  == pc # "misc" \/ pos <= b
Prepared(b) == pc = "misc" /\ b < pos /\ pos <= NumBanks + b
Issued(b)   == pc = "misc" /\ NumBanks + b < pos

MiscWaiting(b) ==
  /\ pc # "map" => queue[b] = <<>>
  /\ flushed = None => /\ misc_vpn[b] = MISCBLK_VBN * PagesPerBlk - 1
                       /\ \A p \in Pages : flash[b][MISCBLK_VBN][p] = Erased
  /\ flushed # None => /\ misc_vpn[b] \div PagesPerBlk = MISCBLK_VBN
                       /\ BlankAbove(b, misc_vpn[b])
                       /\ ~wrapped => OldImage(b, misc_vpn[b])
  /\ pc = "idle" => PageAt(b, misc_vpn[b]) = MiscPageOf(b, flushed)

MiscLog ==
  \A b \in Banks :
    /\ Waiting(b) => MiscWaiting(b)
    /\ ~Waiting(b) =>
         /\ misc_vpn[b] \div PagesPerBlk = MISCBLK_VBN
         /\ flushed = None => misc_vpn[b] = MISCBLK_VBN * PagesPerBlk
    /\ Prepared(b) =>
         /\ ftl_buf[b] = MiscPageOf(b, ver)
         /\ \/ queue[b] = <<>> /\ Blank(b, misc_vpn[b])
            \/ queue[b] = <<Erase(MISCBLK_VBN)>> /\ misc_vpn[b] = MISCBLK_VBN * PagesPerBlk
    /\ Issued(b) =>
         \/ queue[b] = <<>> /\ Written(b, misc_vpn[b], MiscPageOf(b, ver))
         \/ Queued(b, misc_vpn[b], MiscPageOf(b, ver))

\* Behind a misc. page that is not yet on flash the old one is still whole.
MiscOld ==
  \A b \in Banks :
    ~Waiting(b) /\ flushed # None /\ ~wrapped /\ misc_vpn[b] # MISCBLK_VBN * PagesPerBlk
      => OldImage(b, misc_vpn[b] - 1)

IInv == FlushTypeOK /\ MapCursors /\ MapLog /\ MapQueue /\ MiscLog /\ MiscOld

-----------------------------------------------------------------------------
(***************************************************************************)
(* Arithmetic: pages and blocks of a vpn.                                  *)
(***************************************************************************)
\* Division with remainder.
LEMMA DivMod ==
  ASSUME NEW n \in Nat, NEW d \in Nat \ {0}
  PROVE  n \div d \in Nat /\ n % d \in 0 .. d - 1 /\ n = d * (n \div d) + (n % d)
<1>1. n % d \in 0 .. d - 1
  OBVIOUS
<1>2. n = d * (n \div d) + (n % d)
  OBVIOUS
<1>3. n \div d \in Int
  OBVIOUS
<1>4. ASSUME n \div d < 0 PROVE FALSE
  <2>1. d * (n \div d) <= d * (-1)
    BY <1>3, <1>4
  <2>. QED BY <1>1, <1>2, <1>3, <2>1
<1>. QED BY <1>1, <1>2, <1>3, <1>4

\* Quotient and remainder are determined by the sum.
LEMMA DivModIs ==
  ASSUME NEW d \in Nat \ {0}, NEW q \in Nat, NEW r \in 0 .. d - 1
  PROVE  (d * q + r) \div d = q /\ (d * q + r) % d = r
  OBVIOUS

\* A vpn names a page of a block.
LEMMA VpnPage ==
  ASSUME NEW vpn \in Nat
  PROVE  vpn % PagesPerBlk \in Pages /\ vpn \div PagesPerBlk \in Nat
<1>1. PagesPerBlk \in Nat \ {0}
  BY NandAssumption
<1>2. vpn % PagesPerBlk \in 0 .. PagesPerBlk - 1 /\ vpn \div PagesPerBlk \in Nat
  BY <1>1, DivMod
<1>. QED BY <1>2 DEF Pages

\* The first page of a block.
LEMMA FirstPage ==
  ASSUME NEW k \in Nat
  PROVE  /\ k * PagesPerBlk \in Nat
         /\ (k * PagesPerBlk) \div PagesPerBlk = k
         /\ (k * PagesPerBlk) % PagesPerBlk = 0
<1>1. PagesPerBlk \in Nat \ {0} /\ 0 \in 0 .. PagesPerBlk - 1
  BY NandAssumption
<1>2. (PagesPerBlk * k + 0) \div PagesPerBlk = k /\ (PagesPerBlk * k + 0) % PagesPerBlk = 0
  BY <1>1, DivModIs
<1>3. k * PagesPerBlk \in Nat /\ PagesPerBlk * k + 0 = k * PagesPerBlk
  BY <1>1
<1>. QED BY <1>2, <1>3

\* A vpn is at page 0 of its block only if it is the block's first page.
LEMMA AtFirstPage ==
  ASSUME NEW vpn \in Nat, vpn % PagesPerBlk = 0
  PROVE  vpn = (vpn \div PagesPerBlk) * PagesPerBlk
<1>1. PagesPerBlk \in Nat \ {0}
  BY NandAssumption
<1>2. vpn = PagesPerBlk * (vpn \div PagesPerBlk) + (vpn % PagesPerBlk) /\ vpn \div PagesPerBlk \in Nat
  BY <1>1, DivMod
<1>. QED BY <1>1, <1>2

\* The next vpn is the next page of the block, or the block is full.
LEMMA NextPage ==
  ASSUME NEW vpn \in Nat
  PROVE  /\ (vpn + 1) % PagesPerBlk # 0 =>
              /\ (vpn + 1) \div PagesPerBlk = vpn \div PagesPerBlk
              /\ (vpn + 1) % PagesPerBlk = (vpn % PagesPerBlk) + 1
         /\ (vpn + 1) % PagesPerBlk = 0 => (vpn + 1) \div PagesPerBlk = vpn \div PagesPerBlk + 1
<1> DEFINE d == PagesPerBlk
           q == vpn \div d
           r == vpn % d
<1>1. d \in Nat \ {0} /\ d > 1
  BY NandAssumption
<1>2. q \in Nat /\ r \in 0 .. d - 1 /\ vpn = d * q + r
  BY <1>1, DivMod
<1>3. CASE r + 1 < d
  <2>1. r + 1 \in 0 .. d - 1 /\ vpn + 1 = d * q + (r + 1)
    BY <1>1, <1>2, <1>3
  <2>2. (d * q + (r + 1)) \div d = q /\ (d * q + (r + 1)) % d = r + 1
    BY <1>1, <1>2, <2>1, DivModIs
  <2>. QED BY <2>1, <2>2, <1>2
<1>4. CASE r + 1 >= d
  <2>1. 0 \in 0 .. d - 1 /\ vpn + 1 = d * (q + 1) + 0 /\ q + 1 \in Nat
    <3>1. r + 1 = d
      BY <1>1, <1>2, <1>4
    <3>2. d * (q + 1) = d * q + d
      BY <1>1, <1>2
    <3>. QED BY <1>1, <1>2, <3>1, <3>2
  <2>2. (d * (q + 1) + 0) \div d = q + 1 /\ (d * (q + 1) + 0) % d = 0
    BY <1>1, <2>1, DivModIs
  <2>. QED BY <2>1, <2>2
<1>. QED BY <1>1, <1>2, <1>3, <1>4

-----------------------------------------------------------------------------
(***************************************************************************)
(* Commands.                                                               *)
(***************************************************************************)
\* The commands of a queue of one or two.
LEMMA ShortQueue ==
  ASSUME NEW x, NEW y
  PROVE  /\ Head(<<x>>) = x /\ Tail(<<x>>) = <<>> /\ <<x>> # <<>>
         /\ Head(<<x, y>>) = x /\ Tail(<<x, y>>) = <<y>> /\ <<x, y>> # <<>>
         /\ <<x>> # <<x, y>> /\ <<y>> # <<x, y>>
  OBVIOUS

\* Appending to an empty queue, and to a queue of one.
LEMMA ShortConcat ==
  ASSUME NEW S, NEW x \in S, NEW y \in S
  PROVE  <<>> \o <<y>> = <<y>> /\ <<x>> \o <<y>> = <<x, y>>
<1>1. <<x>> \in Seq(S) /\ <<y>> \in Seq(S) /\ <<>> \in Seq(S) /\ <<x, y>> \in Seq(S)
  OBVIOUS
<1>2. <<>> \o <<y>> = <<y>>
  BY <1>1
<1>3. <<x>> \o <<y>> \in Seq(S) /\ Len(<<x>> \o <<y>>) = 2
      /\ (<<x>> \o <<y>>)[1] = x /\ (<<x>> \o <<y>>)[2] = y
  BY <1>1, ConcatProperties
<1>4. <<x>> \o <<y>> = <<x, y>>
  <2> DEFINE s == <<x>> \o <<y>>  t == <<x, y>>
  <2>1. s \in Seq(S) /\ t \in Seq(S) /\ Len(s) = Len(t) /\ Len(s) = 2
        /\ s[1] = t[1] /\ s[2] = t[2]
    BY <1>1, <1>3
  <2> HIDE DEF s, t
  <2>2. \A i \in 1 .. Len(s) : s[i] = t[i]
    <3>1. \A i \in 1 .. 2 : i = 1 \/ i = 2
      OBVIOUS
    <3>. QED BY <2>1, <3>1
  <2>3. s = t
    BY <2>1, <2>2, SeqEqual
  <2>. QED BY <2>3 DEF s, t
<1>. QED BY <1>2, <1>4

\* What the oldest command of a bank does to the flash.
LEMMA ExecuteEffect ==
  ASSUME NEW C, Erased \in C, Spoiled \in C, NandTypeOK(C), NEW b \in Banks, Execute(b)
  PROVE  /\ queue[b] # <<>> /\ Head(queue[b]) \in Commands
         /\ NandTypeOK(C)' /\ ftl_buf' = ftl_buf
         /\ queue'[b] = Tail(queue[b])
         /\ \A a \in Banks : a # b => flash'[a] = flash[a] /\ queue'[a] = queue[a]
         /\ \A v \in Blks : v # Head(queue[b]).blk => flash'[b][v] = flash[b][v]
         /\ \A p \in Pages : flash'[b][Head(queue[b]).blk][p] =
              IF Head(queue[b]).op = "erase" THEN Erased
              ELSE IF p # Head(queue[b]).pg THEN flash[b][Head(queue[b]).blk][p]
              ELSE IF flash[b][Head(queue[b]).blk][p] = Erased THEN ftl_buf[b] ELSE Spoiled
<1> DEFINE c == Head(queue[b])
           new == [p \in Pages |->
                     IF c.op = "erase" THEN Erased
                     ELSE IF p # c.pg THEN flash[b][c.blk][p]
                     ELSE IF flash[b][c.blk][p] = Erased THEN ftl_buf[b] ELSE Spoiled]
<1>1. queue[b] # <<>> /\ queue[b] \in Seq(Commands) /\ c \in Commands
  BY DEF Execute, NandTypeOK
<1>2. c.blk \in Blks /\ c.op \in {"erase", "program"}
  BY <1>1 DEF Commands
<1>3. flash' = [flash EXCEPT ![b][c.blk] = new]
  BY DEF Execute
<1>4. /\ queue' = [queue EXCEPT ![b] = Tail(queue[b])] /\ ftl_buf' = ftl_buf
      /\ Tail(queue[b]) \in Seq(Commands)
  BY <1>1 DEF Execute
<1>5. new \in [Pages -> C]
  BY <1>2 DEF NandTypeOK
<1> HIDE DEF new, c
<1>6. flash \in [Banks -> [Blks -> [Pages -> C]]]
  BY DEF NandTypeOK
<1>7. /\ flash' \in [Banks -> [Blks -> [Pages -> C]]]
      /\ flash'[b][c.blk] = new
      /\ \A a \in Banks : a # b => flash'[a] = flash[a]
      /\ \A v \in Blks : v # c.blk => flash'[b][v] = flash[b][v]
  BY <1>2, <1>3, <1>5, <1>6
<1>8. /\ queue' \in [Banks -> Seq(Commands)] /\ queue'[b] = Tail(queue[b])
      /\ \A a \in Banks : a # b => queue'[a] = queue[a]
  BY <1>4 DEF NandTypeOK
<1>9. NandTypeOK(C)'
  BY <1>4, <1>7, <1>8 DEF NandTypeOK
<1>10. \A p \in Pages : flash'[b][c.blk][p] = new[p]
  BY <1>7
<1>. QED BY <1>1, <1>4, <1>7, <1>8, <1>9, <1>10 DEF new, c

\* The next command of a queued page erases its block, or writes the page on a block
\* that is blank from there on; no other block is touched, and a program touches no
\* other page.
LEMMA ExecuteQueued ==
  ASSUME NEW C, Erased \in C, Spoiled \in C, NandTypeOK(C), NEW b \in Banks, Execute(b),
         NEW vpn \in Nat, vpn \div PagesPerBlk \in Blks,
         NEW page, Queued(b, vpn, page)
  PROVE  /\ \A v \in Blks : v # vpn \div PagesPerBlk => flash'[b][v] = flash[b][v]
         /\ \/ /\ queue[b] = <<Program(vpn)>> /\ queue'[b] = <<>>
               /\ PageAt(b, vpn)' = page /\ BlankAbove(b, vpn)'
               /\ \A p \in Pages : p # vpn % PagesPerBlk =>
                    flash'[b][vpn \div PagesPerBlk][p] = flash[b][vpn \div PagesPerBlk][p]
            \/ /\ queue[b] = <<Erase(vpn \div PagesPerBlk), Program(vpn)>>
               /\ queue'[b] = <<Program(vpn)>>
               /\ Queued(b, vpn, page)'
<1> DEFINE k == vpn \div PagesPerBlk  g == vpn % PagesPerBlk
           c == Head(queue[b])
<1>1. g \in Pages /\ Pages \subseteq Int
  BY VpnPage DEF Pages
<1>2. /\ Program(vpn).op = "program" /\ Program(vpn).blk = k /\ Program(vpn).pg = g
      /\ Erase(k).op = "erase" /\ Erase(k).blk = k
  BY DEF Program, Erase
<1>e. /\ ftl_buf' = ftl_buf /\ queue'[b] = Tail(queue[b])
      /\ \A v \in Blks : v # c.blk => flash'[b][v] = flash[b][v]
      /\ \A p \in Pages : flash'[b][c.blk][p] =
           IF c.op = "erase" THEN Erased
           ELSE IF p # c.pg THEN flash[b][c.blk][p]
           ELSE IF flash[b][c.blk][p] = Erased THEN ftl_buf[b] ELSE Spoiled
  BY ExecuteEffect
<1>b. ftl_buf[b] = page
  BY DEF Queued
<1>3. CASE queue[b] = <<Program(vpn)>> /\ Blank(b, vpn)
  <2>1. c = Program(vpn) /\ Tail(queue[b]) = <<>>
    BY <1>3, ShortQueue
  <2>2. /\ flash[b][k][g] = Erased
        /\ \A p \in Pages : p > g => flash[b][k][p] = Erased
    BY <1>3 DEF Blank, Written, BlankAbove, PageAt
  <2>c. c.op # "erase" /\ c.blk = k /\ c.pg = g
    BY <2>1, <1>2
  <2> HIDE DEF c, k, g
  <2>3. /\ queue'[b] = <<>>
        /\ \A v \in Blks : v # k => flash'[b][v] = flash[b][v]
        /\ \A p \in Pages : flash'[b][k][p] = IF p # g THEN flash[b][k][p] ELSE ftl_buf[b]
    BY <1>e, <2>1, <2>2, <2>c
  <2>4. flash'[b][k][g] = page /\ \A p \in Pages : p > g => flash'[b][k][p] = Erased
    BY <1>1, <1>b, <2>2, <2>3
  <2>5. PageAt(b, vpn)' = page /\ BlankAbove(b, vpn)'
    BY <2>4 DEF PageAt, BlankAbove, k, g
  <2>. QED BY <1>3, <2>3, <2>5 DEF k, g, c
<1>4. CASE queue[b] = <<Erase(k), Program(vpn)>> /\ g = 0
  <2>1. c = Erase(k) /\ Tail(queue[b]) = <<Program(vpn)>>
    BY <1>4, ShortConcat
  <2>c. c.op = "erase" /\ c.blk = k
    BY <2>1, <1>2
  <2> HIDE DEF c, k, g
  <2>2. /\ queue'[b] = <<Program(vpn)>> /\ ftl_buf'[b] = page
        /\ \A v \in Blks : v # k => flash'[b][v] = flash[b][v]
        /\ \A p \in Pages : flash'[b][k][p] = Erased
    BY <1>e, <1>b, <2>1, <2>c
  <2>3. Queued(b, vpn, page)'
    BY <1>1, <2>2 DEF Queued, Blank, Written, BlankAbove, PageAt, k, g
  <2>. QED BY <1>4, <2>2, <2>3 DEF k, g, c
<1>. QED BY <1>3, <1>4 DEF Queued

\* The next command of a queued page follows the rule of the flash.
LEMMA QueuedAllowed ==
  ASSUME NEW b \in Banks, NEW vpn \in Nat, NEW page, Queued(b, vpn, page)
  PROVE  CommandAllowed(b, Head(queue[b]))
<1>1. CASE queue[b] = <<Program(vpn)>> /\ Blank(b, vpn)
  <2> DEFINE k == vpn \div PagesPerBlk  g == vpn % PagesPerBlk
  <2>1. Head(queue[b]) = Program(vpn) /\ Program(vpn).blk = k /\ Program(vpn).pg = g
    BY <1>1, ShortQueue DEF Program
  <2>2. /\ flash[b][k][g] = Erased
        /\ \A p \in Pages : p > g => flash[b][k][p] = Erased
    BY <1>1 DEF Blank, Written, BlankAbove, PageAt
  <2>3. g \in Pages
    BY VpnPage
  <2> HIDE DEF k, g
  <2>4. \A p \in g .. PagesPerBlk - 1 : p \in Pages /\ (p = g \/ p > g)
    BY <2>3, NandAssumption DEF Pages
  <2>. QED BY <2>1, <2>2, <2>4 DEF CommandAllowed
<1>2. CASE queue[b] = <<Erase(vpn \div PagesPerBlk), Program(vpn)>>
  BY <1>2, ShortQueue DEF CommandAllowed, Erase
<1>. QED BY <1>1, <1>2 DEF Queued

\* The page that load_misc_metadata takes is the one at the misc. cursor.
LEMMA NewestIs ==
  ASSUME NEW b \in Banks, NEW vpn \in Nat, NEW blk, blk = vpn \div PagesPerBlk,
         NEW page, page # Erased, Written(b, vpn, page)
  PROVE  Programmed(b, blk) # {} /\ Newest(b, blk) = page
<1> DEFINE g == vpn % PagesPerBlk
           S == Programmed(b, blk)
<1>1. g \in Pages /\ flash[b][blk][g] = page
      /\ \A p \in Pages : p > g => flash[b][blk][p] = Erased
  BY VpnPage DEF Written, PageAt, BlankAbove
<1>2. S \subseteq Pages /\ g \in S /\ \A q \in S : ~(q > g)
  BY <1>1 DEF Programmed
<1>3. \A p \in Pages : p \in Int
  BY DEF Pages
<1>4. \A q \in S : q \in Int /\ q <= g
  BY <1>1, <1>2, <1>3
<1>5. \A p \in S : (\A q \in S : q <= p) => p = g
  BY <1>2, <1>4
<1>6. (CHOOSE p \in S : \A q \in S : q <= p) = g
  BY <1>2, <1>4, <1>5
<1>. QED BY <1>1, <1>2, <1>6 DEF Newest

-----------------------------------------------------------------------------
(***************************************************************************)
(* Arithmetic: banks and map blocks of a chunk.                            *)
(***************************************************************************)
\* The cursor of a map block moves within the block: to its next page, or to page 0
\* after an erase.
LEMMA NextMap ==
  ASSUME NEW vpn \in Nat
  PROVE  /\ NextMapVpn(vpn) \in Nat
         /\ NextMapVpn(vpn) \div PagesPerBlk = vpn \div PagesPerBlk
         /\ (vpn + 1) % PagesPerBlk = 0 => NextMapVpn(vpn) % PagesPerBlk = 0
         /\ (vpn + 1) % PagesPerBlk # 0 =>
              NextMapVpn(vpn) % PagesPerBlk = (vpn % PagesPerBlk) + 1
  BY NextPage, FirstPage, VpnPage DEF NextMapVpn

\* The misc. cursor moves within block 1: from before its first page, to the next
\* page, or to page 0 after an erase.
LEMMA NextMisc ==
  ASSUME NEW b \in Banks, misc_vpn[b] \in Nat
  PROVE  /\ NextMiscVpn(b) \in Nat /\ NextMiscVpn(b) \div PagesPerBlk = MISCBLK_VBN
         /\ misc_vpn[b] = MISCBLK_VBN * PagesPerBlk - 1 =>
              NextMiscVpn(b) = MISCBLK_VBN * PagesPerBlk /\ MiscErase(b) = <<>>
         /\ misc_vpn[b] \div PagesPerBlk = MISCBLK_VBN =>
              \/ /\ NextMiscVpn(b) = MISCBLK_VBN * PagesPerBlk
                 /\ MiscErase(b) = <<Erase(MISCBLK_VBN)>>
              \/ /\ NextMiscVpn(b) = misc_vpn[b] + 1 /\ MiscErase(b) = <<>>
                 /\ (misc_vpn[b] + 1) % PagesPerBlk = (misc_vpn[b] % PagesPerBlk) + 1
                 /\ NextMiscVpn(b) # MISCBLK_VBN * PagesPerBlk
<1> DEFINE m == misc_vpn[b]  f == MISCBLK_VBN * PagesPerBlk
<1>1. MISCBLK_VBN \in Nat /\ PagesPerBlk \in Nat /\ PagesPerBlk > 1
  BY FlushAssumption, NandAssumption DEF MISCBLK_VBN
<1>2. f \in Nat /\ f \div PagesPerBlk = MISCBLK_VBN /\ f % PagesPerBlk = 0
  BY <1>1, FirstPage
<1>3. ASSUME m = f - 1
      PROVE  NextMiscVpn(b) = f /\ MiscErase(b) = <<>>
  <2>1. m + 1 = f
    BY <1>2, <1>3
  <2>. QED BY <2>1, <1>2 DEF NextMiscVpn, MiscErase
<1>4. ASSUME m \div PagesPerBlk = MISCBLK_VBN
      PROVE  \/ NextMiscVpn(b) = f /\ MiscErase(b) = <<Erase(MISCBLK_VBN)>>
             \/ /\ NextMiscVpn(b) = m + 1 /\ MiscErase(b) = <<>>
                /\ (m + 1) % PagesPerBlk = (m % PagesPerBlk) + 1 /\ m + 1 # f
  <2>1. CASE (m + 1) % PagesPerBlk = 0
    <3>1. (m + 1) \div PagesPerBlk # MISCBLK_VBN
      BY <2>1, <1>4, NextPage, <1>1
    <3>. QED BY <3>1 DEF NextMiscVpn, MiscErase
  <2>2. CASE (m + 1) % PagesPerBlk # 0
    <3>1. /\ (m + 1) \div PagesPerBlk = MISCBLK_VBN
          /\ (m + 1) % PagesPerBlk = (m % PagesPerBlk) + 1
      BY <2>2, <1>4, NextPage
    <3>2. m + 1 # f
      BY <2>2, <1>2
    <3>. QED BY <3>1, <3>2 DEF NextMiscVpn, MiscErase
  <2>. QED BY <2>1, <2>2
<1>5. NextMiscVpn(b) \in Nat /\ NextMiscVpn(b) \div PagesPerBlk = MISCBLK_VBN
  BY <1>2 DEF NextMiscVpn
<1>. QED BY <1>3, <1>4, <1>5

\* The bank and the map block of a chunk name it.
LEMMA ChunkPlace ==
  ASSUME NEW c \in Chunks
  PROVE  c \in Nat /\ BankOf(c) \in Banks /\ LbnOf(c) \in Lbns
<1>1. NumBanks \in Nat \ {0} /\ MapBlksPerBank \in Nat /\ TablePages \in 1 .. NumBanks * MapBlksPerBank
  BY FlushAssumption, NandAssumption
<1>2. NumBanks * MapBlksPerBank \in Nat
  BY <1>1
<1>3. c \in Nat /\ c < NumBanks * MapBlksPerBank
  BY <1>1, <1>2 DEF Chunks
<1>4. /\ c \div NumBanks \in Nat /\ c % NumBanks \in 0 .. NumBanks - 1
      /\ c = NumBanks * (c \div NumBanks) + (c % NumBanks)
  BY <1>1, <1>3, DivMod
<1>5. c \div NumBanks < MapBlksPerBank
  <2>1. SUFFICES ASSUME c \div NumBanks >= MapBlksPerBank PROVE FALSE
    BY <1>1, <1>4
  <2>2. NumBanks * (c \div NumBanks) >= NumBanks * MapBlksPerBank
    BY <1>1, <1>4, <2>1
  <2>. QED BY <1>1, <1>2, <1>3, <1>4, <2>2
<1>. QED BY <1>1, <1>3, <1>4, <1>5 DEF BankOf, LbnOf, Banks, Lbns

\* Two chunks of one bank and one map block are the same chunk.
LEMMA ChunkNamed ==
  ASSUME NEW c \in Nat, NEW d \in Nat, BankOf(c) = BankOf(d), LbnOf(c) = LbnOf(d)
  PROVE  c = d
  BY FlushAssumption, NandAssumption, DivMod DEF BankOf, LbnOf

\* A round ends where the bank number returns to 0.
LEMMA SameRound ==
  ASSUME NEW n \in Nat, BankOf(n) # 0
  PROVE  n > 0 /\ LbnOf(n - 1) = LbnOf(n)
<1> DEFINE d == NumBanks
           q == n \div d
           r == n % d
<1>1. d \in Nat \ {0}
  BY FlushAssumption, NandAssumption
<1>2. q \in Nat /\ r \in 0 .. d - 1 /\ n = d * q + r /\ r # 0
  BY <1>1, DivMod DEF BankOf
<1>3. r - 1 \in 0 .. d - 1 /\ n - 1 = d * q + (r - 1) /\ n > 0
  <2>1. d * q \in Nat
    BY <1>1, <1>2
  <2>. QED BY <1>1, <1>2, <2>1
<1>4. (d * q + (r - 1)) \div d = q
  BY <1>1, <1>2, <1>3, DivModIs
<1>. QED BY <1>3, <1>4 DEF LbnOf

\* The blocks of the metadata: the map blocks of a bank are apart from each other and
\* from the misc. block.
LEMMA MetaBlks ==
  /\ MISCBLK_VBN \in Blks /\ MISCBLK_VBN \in Nat
  /\ \A b \in Banks, i \in Lbns : /\ MapVbn[b][i] \in Blks /\ MapVbn[b][i] # MISCBLK_VBN
                                  /\ MapVbn[b][i] \in Nat
<1>1. \A b \in Banks, i \in Lbns : /\ MapVbn[b][i] \in Blks /\ MapVbn[b][i] # MISCBLK_VBN
                                   /\ MapVbn[b][i] # 0
  BY FlushAssumption, NandAssumption
<1>2. BankOf(0) \in Banks /\ LbnOf(0) \in Lbns
  <2>1. 0 \in Chunks
    BY FlushAssumption, NandAssumption DEF Chunks
  <2>. QED BY <2>1, ChunkPlace
<1>3. PICK v \in Blks : v # 0 /\ v # 1
  BY <1>1, <1>2 DEF MISCBLK_VBN
<1>4. NumMetaBlks \in Nat
  BY FlushAssumption, NandAssumption
<1>5. MISCBLK_VBN \in Blks /\ MISCBLK_VBN \in Nat /\ \A w \in Blks : w \in Nat
  BY <1>3, <1>4 DEF Blks, MISCBLK_VBN
<1>. QED BY <1>1, <1>5

-----------------------------------------------------------------------------
(***************************************************************************)
(* The invariant is inductive: one lemma per action.                       *)
(***************************************************************************)
\* A version is not None, and a page of the log is neither erased nor spoiled.
LEMMA PageIsNoMark ==
  /\ \A v \in Versions : v # None
  /\ \A c \in Chunks, v \in Versions :
       MapPageOf(c, v) \in MapPages /\ MapPageOf(c, v) # Erased /\ MapPageOf(c, v) # Spoiled
  /\ FlushTypeOK => \A b \in Banks, v \in Versions :
       MiscPageOf(b, v) \in MiscPages /\ MiscPageOf(b, v) # Erased
<1>1. \A v \in Versions : v # None
  BY FlushAssumption, NandAssumption
<1>2. \A c \in Chunks, v \in Versions : MapPageOf(c, v) \in MapPages
  BY DEF MapPageOf, MapPages
<1>3. FlushTypeOK => \A b \in Banks, v \in Versions : MiscPageOf(b, v) \in MiscPages
  BY DEF FlushTypeOK, MiscPageOf, MiscPages
<1>. QED BY <1>1, <1>2, <1>3, PageAssumption

\* The state after format and init_metadata_sram.
Fresh ==
  /\ flash = CleanFlash /\ queue = [b \in Banks |-> <<>>] /\ ftl_buf \in [Banks -> Contents]
  /\ ver = Formatted.ver /\ misc_vpn = Formatted.misc_vpn /\ map_vpn = Formatted.map_vpn
  /\ pc = "map" /\ pos = 0
  /\ flushed = None /\ wrapped = FALSE

\* After the format every log is blank and every bank waits.
LEMMA FreshInv == Fresh => IInv
<1> SUFFICES ASSUME Fresh PROVE IInv
  OBVIOUS
<1>1. /\ flash = [b \in Banks |-> [v \in Blks |-> [p \in Pages |-> Erased]]]
      /\ ver = 0 /\ misc_vpn = [b \in Banks |-> MISCBLK_VBN * PagesPerBlk - 1]
      /\ map_vpn = [b \in Banks |-> [i \in Lbns |-> MapVbn[b][i] * PagesPerBlk]]
  BY DEF Fresh, Formatted, CleanFlash
<1>2. MISCBLK_VBN * PagesPerBlk - 1 \in Nat
  BY FlushAssumption, NandAssumption DEF MISCBLK_VBN
<1>3. \A b \in Banks, i \in Lbns :
        /\ MapVbn[b][i] \in Blks /\ MapVbn[b][i] * PagesPerBlk \in Nat
        /\ (MapVbn[b][i] * PagesPerBlk) \div PagesPerBlk = MapVbn[b][i]
  BY MetaBlks, FirstPage
<1>4. FlushTypeOK
  <2>1. NandTypeOK(Contents)
    BY <1>1 DEF Fresh, NandTypeOK, Contents
  <2>2. misc_vpn \in [Banks -> Nat] /\ map_vpn \in [Banks -> [Lbns -> Nat]]
    BY <1>1, <1>2, <1>3
  <2>3. 0 \in Versions /\ 0 \in 0 .. TablePages
    BY FlushAssumption, NandAssumption DEF Versions
  <2>. QED BY <1>1, <2>1, <2>2, <2>3 DEF Fresh, FlushTypeOK
<1>5. MapCursors
  BY <1>1, <1>3 DEF MapCursors
<1>6. MapLog
  <2> SUFFICES ASSUME NEW c \in Chunks
               PROVE  BlankAbove(BankOf(c), CursorOf(c)) /\ ~(c < pos)
    BY DEF Fresh, MapLog
  <2>1. BankOf(c) \in Banks /\ LbnOf(c) \in Lbns /\ c \in Nat
    BY ChunkPlace
  <2>. QED BY <1>1, <1>3, <2>1 DEF BlankAbove, CursorOf, Fresh
<1>7. MapQueue
  BY DEF MapQueue, Fresh
<1>8. MiscLog /\ MiscOld
  <2>1. \A b \in Banks : Waiting(b) /\ ~Prepared(b) /\ ~Issued(b)
    BY DEF Fresh, Waiting, Prepared, Issued
  <2>2. \A b \in Banks : MiscWaiting(b)
    BY <1>1, MetaBlks DEF Fresh, MiscWaiting
  <2>. QED BY <2>1, <2>2 DEF MiscLog, MiscOld
<1>. QED BY <1>4, <1>5, <1>6, <1>7, <1>8 DEF IInv

\* The first flush begins on a formatted flash.
LEMMA InitInv == Init => IInv
<1>1. Init => Fresh
  BY DEF Init, NandInit, Fresh, Contents
<1>. QED BY <1>1, FreshInv

\* A power loss throws the queues away, and ftl_open formats.
LEMMA PowerCycleInv ==
  ASSUME IInv, PowerCycle
  PROVE  IInv'
<1>1. Fresh'
  BY DEF PowerCycle, Fresh, IInv, FlushTypeOK, NandTypeOK
<1>2. Fresh' => IInv'
  BY FreshInv, PTL
<1>. QED BY <1>1, <1>2

\* Host writes between two flushes do not touch the logs.
LEMMA ChangeInv ==
  ASSUME IInv, Change
  PROVE  IInv'
<1>1. FlushTypeOK'
  <2>1. (ver + 1) % NumVersions \in Versions
    BY FlushAssumption, NandAssumption DEF IInv, FlushTypeOK, Versions
  <2>. QED BY <2>1 DEF Change, IInv, FlushTypeOK, NandTypeOK, nandVars
<1>2. MapCursors'
  BY DEF IInv, MapCursors, Change
<1>3. MapLog'
  BY DEF IInv, MapLog, Change, nandVars, Written, BlankAbove, PageAt, CursorOf
<1>4. MapQueue'
  BY DEF IInv, MapQueue, Change, nandVars
<1>5. \A b \in Banks : Waiting(b)' /\ MiscWaiting(b) /\ ~Prepared(b)' /\ ~Issued(b)'
  BY DEF IInv, MiscLog, Change, Waiting, Prepared, Issued
<1>6. \A b \in Banks : MiscWaiting(b)'
  BY <1>5 DEF Change, nandVars, MiscWaiting, BlankAbove, PageAt, OldImage, MiscPageOf
<1>7. MiscLog' /\ MiscOld'
  BY <1>5, <1>6 DEF MiscLog, MiscOld
<1>. QED BY <1>1, <1>2, <1>3, <1>4, <1>7 DEF IInv

\* When ftl_flush begins, the misc. pages of the last flush point to the map pages that
\* are at the cursors.
LEMMA FlushBeginInv ==
  ASSUME IInv, ftl_flush
  PROVE  IInv'
<1>u. /\ flash' = flash /\ queue' = queue /\ ftl_buf' = ftl_buf /\ ver' = ver
      /\ misc_vpn' = misc_vpn /\ map_vpn' = map_vpn /\ flushed' = flushed
      /\ pc = "idle" /\ pc' = "map" /\ pos' = 0 /\ wrapped' = FALSE
  BY DEF ftl_flush, nandVars
<1>0. flushed \in Versions /\ flushed # None
  BY <1>u DEF IInv, FlushTypeOK
<1>1. FlushTypeOK'
  <2>1. 0 \in 0 .. TablePages
    BY FlushAssumption, NandAssumption
  <2>. QED BY <1>u, <2>1 DEF IInv, FlushTypeOK, NandTypeOK
<1>2. MapCursors'
  BY <1>u DEF IInv, MapCursors
<1>3. MapLog'
  <2> SUFFICES ASSUME NEW c \in Chunks
               PROVE  Written(BankOf(c), CursorOf(c), MapPageOf(c, flushed))' /\ ~(c < pos')
    BY <1>u, <1>0 DEF MapLog
  <2>1. Written(BankOf(c), CursorOf(c), MapPageOf(c, flushed))
    BY <1>u DEF IInv, MapLog
  <2>2. c \in Nat
    BY ChunkPlace
  <2>. QED BY SMTT(30), <1>u, <2>1, <2>2 DEF Written, BlankAbove, PageAt, CursorOf, MapPageOf
<1>4. MapQueue'
  BY <1>u DEF IInv, MapQueue
<1>5. \A b \in Banks : Waiting(b)' /\ MiscWaiting(b) /\ ~Prepared(b)' /\ ~Issued(b)'
  BY <1>u DEF IInv, MiscLog, Waiting, Prepared, Issued
<1>6. ASSUME NEW b \in Banks
      PROVE  MiscWaiting(b)'
  <2>1. /\ queue[b] = <<>> /\ misc_vpn[b] \div PagesPerBlk = MISCBLK_VBN
        /\ BlankAbove(b, misc_vpn[b])
        /\ PageAt(b, misc_vpn[b]) = MiscPageOf(b, flushed)
    BY <1>5, <1>u, <1>0 DEF MiscWaiting
  <2>2. ASSUME NEW c \in Chunks, BankOf(c) = b
        PROVE  /\ map_vpn[b][LbnOf(c)] \div PagesPerBlk = MapVbn[b][LbnOf(c)]
               /\ PageAt(b, map_vpn[b][LbnOf(c)]) = MapPageOf(c, flushed)
    <3>1. Written(BankOf(c), CursorOf(c), MapPageOf(c, flushed)) /\ LbnOf(c) \in Lbns
      BY <1>u, ChunkPlace DEF IInv, MapLog
    <3>. QED BY <3>1, <2>2 DEF Written, CursorOf, IInv, MapCursors
  <2>3. OldImage(b, misc_vpn[b])
    <3>1. /\ MiscPageOf(b, flushed) \in MiscPages /\ MiscPageOf(b, flushed).ver = flushed
          /\ MiscPageOf(b, flushed).map_vpn = map_vpn[b] /\ misc_vpn[b] \in Nat
      BY <1>0, PageIsNoMark DEF IInv, MiscPageOf, FlushTypeOK
    <3>. QED BY <2>1, <2>2, <3>1 DEF OldImage
  <2>. QED BY <1>u, <1>0, <2>1, <2>3 DEF MiscWaiting, BlankAbove, PageAt, OldImage, MapPageOf
<1>7. MiscLog' /\ MiscOld'
  BY <1>5, <1>6 DEF MiscLog, MiscOld
<1>. QED BY <1>1, <1>2, <1>3, <1>4, <1>7 DEF IInv

\* The wait at the start of a round leaves the bank of the next chunk idle.
LEMMA BankIsIdle ==
  ASSUME IInv, logging_pmap_table
  PROVE  /\ queue[BankOf(pos)] = <<>>
         /\ \A a \in Banks : queue[a] # <<>> => pos > 0 /\ LbnOf(pos - 1) = LbnOf(pos)
<1>1. pos \in Chunks /\ pos \in Nat /\ BankOf(pos) \in Banks /\ RoundStart /\ pc = "map"
  BY ChunkPlace DEF logging_pmap_table
<1>2. CASE BankOf(pos) = 0
  <2>1. \A a \in Banks : queue[a] = <<>>
    BY <1>1, <1>2 DEF RoundStart, flash_finish
  <2>. QED BY <1>1, <2>1
<1>3. CASE BankOf(pos) # 0
  <2>1. pos > 0 /\ LbnOf(pos - 1) = LbnOf(pos)
    BY <1>1, <1>3, SameRound
  <2>2. SUFFICES ASSUME queue[BankOf(pos)] # <<>> PROVE FALSE
    BY <2>1
  <2>3. PICK c \in Chunks : BankOf(c) = BankOf(pos) /\ InRound(c)
    BY <1>1, <2>2 DEF IInv, MapQueue
  <2>4. c \in Nat /\ c < pos /\ LbnOf(c) = LbnOf(pos)
    BY <2>1, <2>3, ChunkPlace DEF InRound
  <2>5. c = pos
    BY <1>1, <2>3, <2>4, ChunkNamed
  <2>. QED BY <2>4, <2>5, <1>1
<1>. QED BY <1>2, <1>3

\* One iteration: the cursor of the chunk's map block moves, and the page of the chunk
\* is on its way there.
LEMMA LoggingEffect ==
  ASSUME IInv, logging_pmap_table,
         NEW c, c = pos, NEW b, b = BankOf(c), NEW i, i = LbnOf(c),
         NEW next, next = NextMapVpn(map_vpn[b][i])
  PROVE  /\ b \in Banks /\ i \in Lbns /\ c \in Chunks /\ c \in Nat
         /\ next \in Nat /\ next \div PagesPerBlk = MapVbn[b][i]
         /\ map_vpn' \in [Banks -> [Lbns -> Nat]] /\ map_vpn'[b][i] = next
         /\ \A a \in Banks, j \in Lbns : a # b \/ j # i => map_vpn'[a][j] = map_vpn[a][j]
         /\ queue' \in [Banks -> Seq(Commands)] /\ ftl_buf' \in [Banks -> Contents]
         /\ \A a \in Banks : a # b => queue'[a] = queue[a] /\ ftl_buf'[a] = ftl_buf[a]
         /\ Queued(b, next, MapPageOf(c, ver))'
         /\ ~wrapped' => ~wrapped /\ queue'[b] = <<Program(next)>>
         /\ wrapped' \in BOOLEAN
<1> DEFINE old == map_vpn[b][i]
<1>1. /\ b \in Banks /\ i \in Lbns /\ c \in Chunks /\ c \in Nat /\ queue[b] = <<>>
      /\ pc = "map" /\ ver \in Versions
  BY ChunkPlace, BankIsIdle DEF logging_pmap_table, IInv, FlushTypeOK
<1>2. old \in Nat /\ old \div PagesPerBlk = MapVbn[b][i]
  BY <1>1 DEF IInv, FlushTypeOK, MapCursors
<1>3. /\ next \in Nat /\ next \div PagesPerBlk = MapVbn[b][i]
      /\ (old + 1) % PagesPerBlk = 0 => next % PagesPerBlk = 0
      /\ (old + 1) % PagesPerBlk # 0 => next % PagesPerBlk = (old % PagesPerBlk) + 1
  BY <1>2, NextMap
<1>4. /\ map_vpn' = [map_vpn EXCEPT ![b][i] = next]
      /\ ftl_buf' = [ftl_buf EXCEPT ![b] = MapPage(c)]
      /\ queue' = [queue EXCEPT ![b] = queue[b] \o MapCommands(old)]
      /\ wrapped' = (wrapped \/ Len(MapCommands(old)) = 2)
      /\ flash' = flash /\ ver' = ver
  BY DEF logging_pmap_table, Issue
<1>5. BlankAbove(b, old)
  <2>1. CursorOf(c) = old /\ (flushed # None => Written(b, old, MapPageOf(c, flushed)))
    BY <1>1 DEF IInv, MapLog, CursorOf
  <2>. QED BY <2>1, <1>1 DEF IInv, MapLog, Written
<1>6. /\ MapVbn[b][i] \in Blks /\ next % PagesPerBlk \in Pages
      /\ old % PagesPerBlk \in Pages /\ Pages \subseteq Int
  BY <1>1, <1>2, <1>3, MetaBlks, VpnPage DEF Pages
<1>7. MapCommands(old) =
        IF (old + 1) % PagesPerBlk = 0 THEN <<Erase(next \div PagesPerBlk), Program(next)>>
                                       ELSE <<Program(next)>>
  BY <1>2, <1>3 DEF MapCommands
<1>8. Erase(next \div PagesPerBlk) \in Commands /\ Program(next) \in Commands
  <2>1. 0 \in Pages
    BY FlushAssumption, NandAssumption DEF Pages
  <2>. QED BY <1>3, <1>6, <2>1 DEF Erase, Program, Commands
<1>9. MapCommands(old) \in Seq(Commands) /\ queue[b] \o MapCommands(old) = MapCommands(old)
  BY <1>1, <1>7, <1>8
<1>10. MapPage(c) \in Contents /\ MapPage(c) = MapPageOf(c, ver)
  BY <1>1, PageIsNoMark DEF MapPage, MapPageOf, Contents
<1>11. /\ map_vpn' \in [Banks -> [Lbns -> Nat]] /\ map_vpn'[b][i] = next
       /\ \A a \in Banks, j \in Lbns : a # b \/ j # i => map_vpn'[a][j] = map_vpn[a][j]
  BY <1>1, <1>3, <1>4 DEF IInv, FlushTypeOK
<1>12. /\ queue' \in [Banks -> Seq(Commands)] /\ ftl_buf' \in [Banks -> Contents]
       /\ \A a \in Banks : a # b => queue'[a] = queue[a] /\ ftl_buf'[a] = ftl_buf[a]
       /\ queue'[b] = MapCommands(old) /\ ftl_buf'[b] = MapPageOf(c, ver)
  BY <1>1, <1>4, <1>9, <1>10 DEF IInv, FlushTypeOK, NandTypeOK
<1>13. /\ Queued(b, next, MapPageOf(c, ver))'
       /\ ~wrapped' => ~wrapped /\ queue'[b] = <<Program(next)>>
       /\ wrapped' \in BOOLEAN
  <2>1. CASE (old + 1) % PagesPerBlk = 0
    <3>1. queue'[b] = <<Erase(next \div PagesPerBlk), Program(next)>> /\ next % PagesPerBlk = 0
      BY <1>3, <1>7, <1>12, <2>1
    <3>2. Len(MapCommands(old)) = 2
      BY <1>7, <2>1
    <3>. QED BY <1>4, <1>12, <3>1, <3>2 DEF Queued, MapPageOf, IInv, FlushTypeOK
  <2>2. CASE (old + 1) % PagesPerBlk # 0
    <3>1. queue'[b] = <<Program(next)>> /\ next % PagesPerBlk = (old % PagesPerBlk) + 1
      BY <1>3, <1>7, <1>12, <2>2
    <3>2. Len(MapCommands(old)) # 2
      BY <1>7, <2>2
    <3>3. flash[b][next \div PagesPerBlk][next % PagesPerBlk] = Erased /\ BlankAbove(b, next)
      <4>0. old % PagesPerBlk \in Int /\ next % PagesPerBlk \in Int /\ \A p \in Pages : p \in Int
        BY <1>6
      <4>1. \A p \in Pages : p > old % PagesPerBlk => flash[b][next \div PagesPerBlk][p] = Erased
        BY <1>2, <1>3, <1>5 DEF BlankAbove
      <4>2. \A p \in Pages : p >= next % PagesPerBlk => p > old % PagesPerBlk
        BY <4>0, <3>1
      <4>3. \A p \in Pages : p > next % PagesPerBlk => p >= next % PagesPerBlk
        BY <4>0
      <4>4. next % PagesPerBlk >= next % PagesPerBlk
        BY <4>0
      <4>. QED BY <1>6, <4>1, <4>2, <4>3, <4>4, Zenon DEF BlankAbove
    <3>4. Blank(b, next)'
      BY <1>4, <3>3 DEF Blank, Written, PageAt, BlankAbove
    <3>. QED BY <1>4, <1>12, <3>1, <3>2, <3>4 DEF Queued, MapPageOf, IInv, FlushTypeOK
  <2>. QED BY <2>1, <2>2
<1>. QED BY <1>1, <1>3, <1>11, <1>12, <1>13

\* One iteration of logging_pmap_table: the chunk joins the round, the others stay.
LEMMA LoggingInv ==
  ASSUME IInv, logging_pmap_table
  PROVE  IInv'
<1>0. PICK c, b, i : c = pos /\ b = BankOf(c) /\ i = LbnOf(c)
  OBVIOUS
<1>n. PICK next : next = NextMapVpn(map_vpn[b][i])
  OBVIOUS
<1>u. /\ flash' = flash /\ ver' = ver /\ misc_vpn' = misc_vpn /\ pc' = pc /\ pc = "map"
      /\ flushed' = flushed /\ pos' = c + 1 /\ pos = c
  BY <1>0 DEF logging_pmap_table
<1>1. /\ b \in Banks /\ i \in Lbns /\ c \in Chunks /\ c \in Nat
      /\ next \in Nat /\ next \div PagesPerBlk = MapVbn[b][i]
      /\ map_vpn' \in [Banks -> [Lbns -> Nat]] /\ map_vpn'[b][i] = next
      /\ \A a \in Banks, j \in Lbns : a # b \/ j # i => map_vpn'[a][j] = map_vpn[a][j]
      /\ queue' \in [Banks -> Seq(Commands)] /\ ftl_buf' \in [Banks -> Contents]
      /\ \A a \in Banks : a # b => queue'[a] = queue[a] /\ ftl_buf'[a] = ftl_buf[a]
      /\ Queued(b, next, MapPageOf(c, ver))'
      /\ ~wrapped' => ~wrapped /\ queue'[b] = <<Program(next)>>
      /\ wrapped' \in BOOLEAN
  BY <1>0, <1>n, LoggingEffect
<1>2. /\ queue[b] = <<>>
      /\ \A a \in Banks : queue[a] # <<>> => c > 0 /\ LbnOf(c - 1) = LbnOf(c)
  BY <1>0, BankIsIdle
<1>3. \A d \in Chunks : InRound(d)' <=> d <= c /\ LbnOf(d) = i
  <2>1. pos' - 1 = c /\ \A d \in Chunks : d < pos' <=> d <= c
    BY <1>u, <1>1, ChunkPlace
  <2>. QED BY <1>0, <2>1 DEF InRound, LbnOf
<1>4. ASSUME NEW d \in Chunks, queue[BankOf(d)] # <<>>, InRound(d)
      PROVE  InRound(d)' /\ BankOf(d) # b
  <2>1. BankOf(d) \in Banks /\ d \in Nat /\ d < c /\ LbnOf(d) = LbnOf(c - 1)
    BY <1>4, <1>u, ChunkPlace DEF InRound
  <2>2. LbnOf(d) = i
    BY <1>0, <1>2, <1>4, <2>1
  <2>. QED BY <1>1, <1>2, <1>3, <1>4, <2>1, <2>2
<1>5. ASSUME NEW d \in Chunks, d # c
      PROVE  map_vpn'[BankOf(d)][LbnOf(d)] = map_vpn[BankOf(d)][LbnOf(d)]
  <2>1. BankOf(d) \in Banks /\ LbnOf(d) \in Lbns /\ d \in Nat
    BY ChunkPlace
  <2>2. BankOf(d) # b \/ LbnOf(d) # i
    BY <1>0, <1>1, <1>5, <2>1, ChunkNamed
  <2>. QED BY <1>1, <2>1, <2>2
<1>6. FlushTypeOK'
  <2>1. c + 1 \in 0 .. TablePages
    BY <1>1, FlushAssumption, NandAssumption DEF Chunks
  <2>. QED BY <1>u, <1>1, <2>1 DEF IInv, FlushTypeOK, NandTypeOK
<1>7. MapCursors'
  <2> SUFFICES ASSUME NEW a \in Banks, NEW j \in Lbns
               PROVE  map_vpn'[a][j] \div PagesPerBlk = MapVbn[a][j]
    BY DEF MapCursors
  <2>. QED BY <1>1 DEF IInv, MapCursors
<1>8. MapLog'
  <2> SUFFICES ASSUME NEW d \in Chunks
               PROVE  /\ d < pos' =>
                           \/ /\ Written(BankOf(d), CursorOf(d), MapPageOf(d, ver))'
                              /\ InRound(d)' => queue'[BankOf(d)] = <<>>
                           \/ /\ Queued(BankOf(d), CursorOf(d), MapPageOf(d, ver))'
                              /\ InRound(d)'
                      /\ d >= pos' /\ flushed = None => BlankAbove(BankOf(d), CursorOf(d))'
                      /\ d >= pos' /\ flushed # None =>
                           Written(BankOf(d), CursorOf(d), MapPageOf(d, flushed))'
    BY <1>u DEF MapLog
  <2>0. BankOf(d) \in Banks /\ LbnOf(d) \in Lbns /\ d \in Nat
    BY ChunkPlace
  <2>1. CASE d = c
    <3>1. Queued(BankOf(d), CursorOf(d), MapPageOf(d, ver))'
      BY <1>0, <1>1, <2>1 DEF Queued, CursorOf, Blank, Written, PageAt, BlankAbove, MapPageOf
    <3>2. InRound(d)'
      BY <1>0, <1>3, <1>1, <2>1
    <3>3. ~(d >= pos')
      BY <1>u, <1>1, <2>1
    <3>. QED BY <3>1, <3>2, <3>3
  <2>2. CASE d # c /\ d < pos'
    <3>1. d < pos
      BY <1>u, <1>1, <2>0, <2>2
    <3>2. CASE /\ Written(BankOf(d), CursorOf(d), MapPageOf(d, ver))
               /\ InRound(d) => queue[BankOf(d)] = <<>>
      <4>1. Written(BankOf(d), CursorOf(d), MapPageOf(d, ver))'
        BY <1>5, <1>u, <2>2, <3>2 DEF Written, PageAt, BlankAbove, MapPageOf, CursorOf
      <4>2. ASSUME InRound(d)' PROVE queue'[BankOf(d)] = <<>>
        <5>1. LbnOf(d) = i
          BY <1>3, <4>2
        <5>2. BankOf(d) # b
          BY <1>0, <1>1, <2>0, <2>2, <5>1, ChunkNamed
        <5>3. ASSUME queue[BankOf(d)] # <<>> PROVE FALSE
          <6>1. LbnOf(c - 1) = LbnOf(c)
            BY <1>2, <2>0, <5>3
          <6>2. InRound(d)
            BY <1>0, <1>u, <3>1, <5>1, <6>1 DEF InRound
          <6>. QED BY <3>2, <5>3, <6>2
        <5>. QED BY <1>1, <2>0, <5>2, <5>3
      <4>. QED BY <1>u, <1>1, <2>0, <2>2, <4>1, <4>2
    <3>3. CASE Queued(BankOf(d), CursorOf(d), MapPageOf(d, ver)) /\ InRound(d)
      <4>1. queue[BankOf(d)] # <<>>
        BY <3>3 DEF Queued
      <4>2. InRound(d)' /\ BankOf(d) # b
        BY <1>4, <3>3, <4>1
      <4>3. Queued(BankOf(d), CursorOf(d), MapPageOf(d, ver))'
        <5>1. queue'[BankOf(d)] = queue[BankOf(d)] /\ ftl_buf'[BankOf(d)] = ftl_buf[BankOf(d)]
          BY <1>1, <2>0, <4>2
        <5>. QED BY <1>5, <1>u, <2>2, <3>3, <5>1
                 DEF Queued, Blank, Written, PageAt, BlankAbove, MapPageOf, CursorOf
      <4>. QED BY <1>u, <1>1, <2>0, <2>2, <4>2, <4>3
    <3>. QED BY <1>u, <3>1, <3>2, <3>3 DEF IInv, MapLog
  <2>3. CASE d # c /\ ~(d < pos')
    <3>1. d >= pos /\ map_vpn'[BankOf(d)][LbnOf(d)] = map_vpn[BankOf(d)][LbnOf(d)]
      BY <1>u, <1>1, <1>5, <2>0, <2>3
    <3>2. /\ flushed = None => BlankAbove(BankOf(d), CursorOf(d))
          /\ flushed # None => Written(BankOf(d), CursorOf(d), MapPageOf(d, flushed))
      BY <1>u, <3>1 DEF IInv, MapLog
    <3>. QED BY <1>u, <2>3, <3>1, <3>2 DEF Written, PageAt, BlankAbove, MapPageOf, CursorOf
  <2>. QED BY <2>1, <2>2, <2>3
<1>9. MapQueue'
  <2> SUFFICES ASSUME NEW a \in Banks, queue'[a] # <<>>
               PROVE  \E d \in Chunks : /\ BankOf(d) = a /\ InRound(d)'
                                        /\ Queued(a, CursorOf(d), MapPageOf(d, ver))'
                                        /\ ~wrapped' => queue'[a] = <<Program(CursorOf(d)')>>
    BY <1>u DEF MapQueue
  <2>1. CASE a = b
    <3>1. BankOf(c) = a /\ InRound(c)' /\ CursorOf(c)' = next
      BY <1>0, <1>1, <1>3, <2>1 DEF CursorOf
    <3>2. Queued(a, CursorOf(c), MapPageOf(c, ver))'
      BY <1>1, <2>1, <3>1 DEF Queued, CursorOf, Blank, Written, PageAt, BlankAbove, MapPageOf
    <3>. QED BY <1>1, <2>1, <3>1, <3>2
  <2>2. CASE a # b
    <3>1. queue'[a] = queue[a] /\ ftl_buf'[a] = ftl_buf[a]
      BY <1>1, <2>2
    <3>2. PICK d \in Chunks : /\ BankOf(d) = a /\ InRound(d)
                              /\ Queued(a, CursorOf(d), MapPageOf(d, ver))
                              /\ ~wrapped => queue[a] = <<Program(CursorOf(d))>>
      BY <1>u, <3>1 DEF IInv, MapQueue
    <3>3. InRound(d)' /\ d # c
      BY <1>0, <1>4, <2>2, <3>1, <3>2
    <3>4. CursorOf(d)' = CursorOf(d)
      BY <1>5, <3>3 DEF CursorOf
    <3>5. Queued(a, CursorOf(d), MapPageOf(d, ver))'
      BY <1>u, <1>5, <3>1, <3>2, <3>3
         DEF Queued, Blank, Written, PageAt, BlankAbove, MapPageOf, CursorOf
    <3>. QED BY <1>1, <3>1, <3>2, <3>3, <3>4, <3>5
  <2>. QED BY <2>1, <2>2
<1>10. \A a \in Banks : Waiting(a)' /\ MiscWaiting(a) /\ ~Prepared(a)' /\ ~Issued(a)'
  BY <1>u DEF IInv, MiscLog, Waiting, Prepared, Issued
<1>11. \A a \in Banks : MiscWaiting(a)'
  BY ZenonT(60), <1>10, <1>u, <1>1 DEF MiscWaiting, BlankAbove, PageAt, OldImage, MapPageOf
<1>12. MiscLog' /\ MiscOld'
  BY <1>10, <1>11 DEF MiscLog, MiscOld
<1>. QED BY <1>6, <1>7, <1>8, <1>9, <1>12 DEF IInv

\* The second wait: every map page is on flash before the misc. pages are prepared.
LEMMA LoggedMapInv ==
  ASSUME IInv, LoggedMap
  PROVE  IInv'
<1>u. /\ flash' = flash /\ queue' = queue /\ ftl_buf' = ftl_buf /\ ver' = ver
      /\ misc_vpn' = misc_vpn /\ map_vpn' = map_vpn /\ flushed' = flushed
      /\ wrapped' = wrapped /\ pc = "map" /\ pc' = "misc" /\ pos' = 0 /\ pos = TablePages
      /\ \A b \in Banks : queue[b] = <<>>
  BY DEF LoggedMap, nandVars, flash_finish
<1>1. FlushTypeOK'
  <2>1. 0 \in 0 .. 2 * NumBanks
    BY FlushAssumption, NandAssumption
  <2>. QED BY <1>u, <2>1 DEF IInv, FlushTypeOK, NandTypeOK
<1>2. MapCursors'
  BY <1>u DEF IInv, MapCursors
<1>3. MapLog'
  <2> SUFFICES ASSUME NEW c \in Chunks
               PROVE  Written(BankOf(c), CursorOf(c), MapPageOf(c, ver))'
    BY <1>u DEF MapLog
  <2>1. c < pos /\ BankOf(c) \in Banks
    BY <1>u, ChunkPlace, FlushAssumption, NandAssumption DEF Chunks
  <2>2. ~Queued(BankOf(c), CursorOf(c), MapPageOf(c, ver))
    BY <1>u, <2>1 DEF Queued
  <2>3. Written(BankOf(c), CursorOf(c), MapPageOf(c, ver))
    BY <1>u, <2>1, <2>2 DEF IInv, MapLog
  <2>. QED BY <1>u, <2>3 DEF Written, BlankAbove, PageAt, CursorOf, MapPageOf
<1>4. MapQueue'
  BY <1>u DEF MapQueue
<1>5. \A b \in Banks : Waiting(b)' /\ MiscWaiting(b) /\ ~Prepared(b)' /\ ~Issued(b)'
  <2>1. \A b \in Banks : 0 <= b /\ ~(b < 0) /\ ~(NumBanks + b < 0)
    BY FlushAssumption, NandAssumption DEF Banks
  <2>. QED BY <1>u, <2>1 DEF IInv, MiscLog, Waiting, Prepared, Issued
<1>6. \A b \in Banks : MiscWaiting(b)'
  BY <1>5, <1>u DEF MiscWaiting, BlankAbove, PageAt, OldImage, MapPageOf
<1>7. MiscLog' /\ MiscOld'
  BY <1>5, <1>6 DEF MiscLog, MiscOld
<1>. QED BY <1>1, <1>2, <1>3, <1>4, <1>7 DEF IInv

\* The first loop of logging_misc_metadata: the buffer of the bank has its misc. page,
\* and the place of the page is blank or its block is to be erased.
LEMMA PrepareMiscInv ==
  ASSUME IInv, PrepareMisc
  PROVE  IInv'
<1>0. PICK b : b = pos
  OBVIOUS
<1>n. PICK next : next = NextMiscVpn(b)
  OBVIOUS
<1>u. /\ flash' = flash /\ ver' = ver /\ map_vpn' = map_vpn /\ flushed' = flushed
      /\ wrapped' = wrapped /\ pc = "misc" /\ pc' = "misc" /\ pos = b /\ pos' = b + 1
      /\ b \in Banks
  BY <1>0 DEF PrepareMisc
<1>1. /\ misc_vpn' = [misc_vpn EXCEPT ![b] = next]
      /\ queue' = [queue EXCEPT ![b] = queue[b] \o MiscErase(b)]
      /\ ftl_buf' = [ftl_buf EXCEPT ![b] = MiscPage(b)]
  BY <1>0, <1>n DEF PrepareMisc, Issue
<1>2. NumBanks \in Nat /\ \A a \in Banks : a \in Nat /\ a < NumBanks
  BY FlushAssumption, NandAssumption DEF Banks
<1>3. Waiting(b) /\ MiscWaiting(b) /\ queue[b] = <<>>
  BY <1>u, <1>2 DEF IInv, MiscLog, Waiting, MiscWaiting
<1>4. misc_vpn[b] \in Nat /\ map_vpn[b] \in [Lbns -> Nat] /\ ver \in Versions
  BY <1>u DEF IInv, FlushTypeOK
<1>5. /\ next \in Nat /\ next \div PagesPerBlk = MISCBLK_VBN
      /\ misc_vpn[b] = MISCBLK_VBN * PagesPerBlk - 1 =>
           next = MISCBLK_VBN * PagesPerBlk /\ MiscErase(b) = <<>>
      /\ misc_vpn[b] \div PagesPerBlk = MISCBLK_VBN =>
           \/ next = MISCBLK_VBN * PagesPerBlk /\ MiscErase(b) = <<Erase(MISCBLK_VBN)>>
           \/ /\ next = misc_vpn[b] + 1 /\ MiscErase(b) = <<>>
              /\ (misc_vpn[b] + 1) % PagesPerBlk = (misc_vpn[b] % PagesPerBlk) + 1
              /\ next # MISCBLK_VBN * PagesPerBlk
  BY <1>u, <1>n, <1>4, NextMisc
<1>6. /\ MiscErase(b) = <<>> \/ MiscErase(b) = <<Erase(MISCBLK_VBN)>>
      /\ MiscErase(b) \in Seq(Commands)
  <2>1. Erase(MISCBLK_VBN) \in Commands
    BY MetaBlks, FlushAssumption, NandAssumption DEF Erase, Commands, Pages
  <2>. QED BY <2>1 DEF MiscErase
<1>7. /\ queue' \in [Banks -> Seq(Commands)] /\ queue'[b] = MiscErase(b)
      /\ \A a \in Banks : a # b => queue'[a] = queue[a]
  <2>1. queue[b] \o MiscErase(b) = MiscErase(b)
    BY <1>3, <1>6
  <2>. QED BY <1>1, <1>6, <2>1, <1>u DEF IInv, FlushTypeOK, NandTypeOK
<1>8. /\ misc_vpn' \in [Banks -> Nat] /\ misc_vpn'[b] = next
      /\ \A a \in Banks : a # b => misc_vpn'[a] = misc_vpn[a]
  BY <1>1, <1>5, <1>u DEF IInv, FlushTypeOK
<1>9. /\ ftl_buf' \in [Banks -> Contents] /\ ftl_buf'[b] = MiscPageOf(b, ver)'
      /\ \A a \in Banks : a # b => ftl_buf'[a] = ftl_buf[a]
  <2>1. MiscPage(b) = [kind |-> "misc", ver |-> ver, misc_vpn |-> next, map_vpn |-> map_vpn[b]]
    BY <1>n DEF MiscPage
  <2>2. MiscPage(b) \in Contents
    BY <2>1, <1>4, <1>5 DEF Contents, MiscPages
  <2>3. MiscPage(b) = MiscPageOf(b, ver)'
    BY <2>1, <1>8, <1>u DEF MiscPageOf
  <2>. QED BY <1>1, <2>2, <2>3, <1>u DEF IInv, FlushTypeOK, NandTypeOK
<1>10. FlushTypeOK'
  <2>1. b + 1 \in 0 .. 2 * NumBanks /\ b + 1 \in Nat
    BY <1>u, <1>2
  <2>. QED BY <1>u, <1>7, <1>8, <1>9, <2>1 DEF IInv, FlushTypeOK, NandTypeOK
<1>11. MapCursors' /\ MapQueue'
  BY <1>u DEF IInv, MapCursors, MapQueue
<1>12. MapLog'
  BY <1>u DEF IInv, MapLog, Written, BlankAbove, PageAt, CursorOf, MapPageOf
<1>13. ASSUME NEW a \in Banks, a # b
       PROVE  /\ Waiting(a)' <=> Waiting(a)
              /\ ~Issued(a)' /\ (Prepared(a)' => Prepared(a))
  BY <1>13, <1>u, <1>2 DEF Waiting, Issued, Prepared
<1>14. ~Waiting(b)' /\ ~Issued(b)' /\ Prepared(b)'
  BY <1>u, <1>2 DEF Waiting, Issued, Prepared
<1>15. \/ queue'[b] = <<>> /\ Blank(b, next)
       \/ queue'[b] = <<Erase(MISCBLK_VBN)>> /\ next = MISCBLK_VBN * PagesPerBlk
  <2>1. CASE flushed = None
    <3>1. next % PagesPerBlk \in Pages
      BY <1>5, VpnPage
    <3>. QED BY <1>3, <1>5, <1>7, <2>1, <3>1 DEF MiscWaiting, Blank, Written, BlankAbove, PageAt
  <2>2. CASE flushed # None /\ MiscErase(b) # <<>>
    BY <1>3, <1>5, <1>7, <2>2 DEF MiscWaiting
  <2>3. CASE flushed # None /\ MiscErase(b) = <<>>
    <3>1. /\ misc_vpn[b] \div PagesPerBlk = MISCBLK_VBN /\ BlankAbove(b, misc_vpn[b])
          /\ next % PagesPerBlk = (misc_vpn[b] % PagesPerBlk) + 1
      BY <1>3, <1>5, <2>3 DEF MiscWaiting
    <3>2. \A p \in Pages : p > misc_vpn[b] % PagesPerBlk => flash[b][MISCBLK_VBN][p] = Erased
      BY <3>1 DEF BlankAbove
    <3>3. /\ misc_vpn[b] % PagesPerBlk \in Int /\ next % PagesPerBlk \in Int
          /\ next % PagesPerBlk \in Pages /\ \A p \in Pages : p \in Int
      BY <1>4, <1>5, VpnPage DEF Pages
    <3>4. \A p \in Pages : p >= next % PagesPerBlk => p > misc_vpn[b] % PagesPerBlk
      BY <3>1, <3>3
    <3>5. /\ next % PagesPerBlk >= next % PagesPerBlk
          /\ \A p \in Pages : p > next % PagesPerBlk => p >= next % PagesPerBlk
      BY <3>3
    <3>6. Blank(b, next)
      BY <1>5, <3>2, <3>3, <3>4, <3>5, Zenon DEF Blank, Written, BlankAbove, PageAt
    <3>. QED BY <1>7, <2>3, <3>6
  <2>. QED BY <2>1, <2>2, <2>3
<1>16. MiscLog'
  <2> SUFFICES ASSUME NEW a \in Banks
               PROVE  /\ Waiting(a)' => MiscWaiting(a)'
                      /\ ~Waiting(a)' =>
                           /\ misc_vpn'[a] \div PagesPerBlk = MISCBLK_VBN
                           /\ flushed = None => misc_vpn'[a] = MISCBLK_VBN * PagesPerBlk
                      /\ Prepared(a)' =>
                           /\ ftl_buf'[a] = MiscPageOf(a, ver)'
                           /\ \/ queue'[a] = <<>> /\ Blank(a, misc_vpn[a])'
                              \/ /\ queue'[a] = <<Erase(MISCBLK_VBN)>>
                                 /\ misc_vpn'[a] = MISCBLK_VBN * PagesPerBlk
                      /\ ~Issued(a)'
    BY <1>u DEF MiscLog
  <2>1. CASE a = b
    <3>1. /\ misc_vpn'[b] \div PagesPerBlk = MISCBLK_VBN
          /\ flushed = None => misc_vpn'[b] = MISCBLK_VBN * PagesPerBlk
      BY <1>3, <1>5, <1>8 DEF MiscWaiting
    <3>2. \/ queue'[b] = <<>> /\ Blank(b, misc_vpn[b])'
          \/ queue'[b] = <<Erase(MISCBLK_VBN)>> /\ misc_vpn'[b] = MISCBLK_VBN * PagesPerBlk
      BY <1>u, <1>8, <1>15 DEF Blank, Written, BlankAbove, PageAt
    <3>. QED BY <2>1, <1>9, <1>14, <3>1, <3>2
  <2>2. CASE a # b
    <3>1. queue'[a] = queue[a] /\ misc_vpn'[a] = misc_vpn[a] /\ ftl_buf'[a] = ftl_buf[a]
      BY <1>7, <1>8, <1>9, <2>2
    <3>2. /\ Waiting(a)' <=> Waiting(a)
          /\ ~Issued(a)' /\ (Prepared(a)' => Prepared(a))
      BY <1>13, <2>2
    <3>3. Waiting(a)' => MiscWaiting(a)'
      BY <1>u, <3>1, <3>2 DEF IInv, MiscLog, MiscWaiting, BlankAbove, PageAt, OldImage, MapPageOf
    <3>4. ~Waiting(a)' =>
            /\ misc_vpn'[a] \div PagesPerBlk = MISCBLK_VBN
            /\ flushed = None => misc_vpn'[a] = MISCBLK_VBN * PagesPerBlk
      BY <3>1, <3>2 DEF IInv, MiscLog
    <3>5. Prepared(a)' =>
            /\ ftl_buf'[a] = MiscPageOf(a, ver)'
            /\ \/ queue'[a] = <<>> /\ Blank(a, misc_vpn[a])'
               \/ /\ queue'[a] = <<Erase(MISCBLK_VBN)>>
                  /\ misc_vpn'[a] = MISCBLK_VBN * PagesPerBlk
      BY <1>u, <3>1, <3>2
         DEF IInv, MiscLog, Blank, Written, BlankAbove, PageAt, MiscPageOf
    <3>. QED BY <3>2, <3>3, <3>4, <3>5
  <2>. QED BY <2>1, <2>2
<1>17. MiscOld'
  <2> SUFFICES ASSUME NEW a \in Banks, ~Waiting(a)', flushed # None, ~wrapped,
                      misc_vpn'[a] # MISCBLK_VBN * PagesPerBlk
               PROVE  OldImage(a, misc_vpn[a] - 1)'
    BY <1>u DEF MiscOld
  <2>1. CASE a = b
    <3>1. OldImage(b, misc_vpn[b]) /\ misc_vpn'[b] = misc_vpn[b] + 1
      BY <1>3, <1>5, <1>8, <2>1 DEF MiscWaiting
    <3>2. misc_vpn'[b] - 1 = misc_vpn[b]
      BY <1>4, <3>1
    <3>. QED BY <1>u, <2>1, <3>1, <3>2 DEF OldImage, PageAt, MapPageOf
  <2>2. CASE a # b
    <3>1. OldImage(a, misc_vpn[a] - 1) /\ misc_vpn'[a] = misc_vpn[a]
      BY <1>8, <1>13, <2>2 DEF IInv, MiscOld
    <3>. QED BY <1>u, <3>1 DEF OldImage, PageAt, MapPageOf
  <2>. QED BY <2>1, <2>2
<1>. QED BY <1>10, <1>11, <1>12, <1>16, <1>17 DEF IInv

\* The second loop of logging_misc_metadata.
LEMMA ProgramMiscInv ==
  ASSUME IInv, ProgramMisc
  PROVE  IInv'
<1>0. PICK b : b = pos - NumBanks
  OBVIOUS
<1>n. PICK vpn : vpn = misc_vpn[b]
  OBVIOUS
<1>u. /\ flash' = flash /\ ftl_buf' = ftl_buf /\ ver' = ver /\ misc_vpn' = misc_vpn
      /\ map_vpn' = map_vpn /\ flushed' = flushed /\ wrapped' = wrapped
      /\ pc = "misc" /\ pc' = "misc" /\ pos' = pos + 1
      /\ queue' = [queue EXCEPT ![b] = queue[b] \o <<Program(vpn)>>]
  BY <1>0, <1>n DEF ProgramMisc, Issue
<1>1. /\ NumBanks \in Nat /\ NumBanks > 0 /\ b \in Banks /\ pos = NumBanks + b
      /\ \A a \in Banks : a \in Nat /\ a < NumBanks
  BY <1>0, FlushAssumption, NandAssumption DEF ProgramMisc, Banks
<1>2. ~Waiting(b) /\ Prepared(b) /\ Issued(b)' /\ ~Waiting(b)' /\ ~Prepared(b)'
  BY <1>u, <1>1 DEF Waiting, Prepared, Issued
<1>3. /\ vpn \in Nat /\ vpn \div PagesPerBlk = MISCBLK_VBN
      /\ ftl_buf[b] = MiscPageOf(b, ver)
      /\ \/ queue[b] = <<>> /\ Blank(b, vpn)
         \/ queue[b] = <<Erase(MISCBLK_VBN)>> /\ vpn = MISCBLK_VBN * PagesPerBlk
  BY <1>n, <1>1, <1>2 DEF IInv, MiscLog, FlushTypeOK
<1>4. Program(vpn) \in Commands /\ Erase(MISCBLK_VBN) \in Commands
  <2>1. MISCBLK_VBN \in Blks /\ vpn % PagesPerBlk \in Pages
    BY <1>3, MetaBlks, VpnPage
  <2>2. 0 \in Pages
    BY FlushAssumption, NandAssumption DEF Pages
  <2>. QED BY <1>3, <2>1, <2>2 DEF Program, Erase, Commands
<1>5. /\ queue' \in [Banks -> Seq(Commands)]
      /\ \/ queue'[b] = <<Program(vpn)>> /\ Blank(b, vpn)
         \/ queue'[b] = <<Erase(MISCBLK_VBN), Program(vpn)>> /\ vpn = MISCBLK_VBN * PagesPerBlk
      /\ \A a \in Banks : a # b => queue'[a] = queue[a]
  <2>1. /\ <<>> \o <<Program(vpn)>> = <<Program(vpn)>>
        /\ <<Erase(MISCBLK_VBN)>> \o <<Program(vpn)>> = <<Erase(MISCBLK_VBN), Program(vpn)>>
        /\ <<Program(vpn)>> \in Seq(Commands)
        /\ <<Erase(MISCBLK_VBN), Program(vpn)>> \in Seq(Commands)
    BY <1>4, ShortConcat
  <2>2. queue \in [Banks -> Seq(Commands)]
    BY DEF IInv, FlushTypeOK, NandTypeOK
  <2>. QED BY <1>1, <1>3, <1>u, <2>1, <2>2
<1>6. FlushTypeOK'
  <2>1. pos + 1 \in 0 .. 2 * NumBanks /\ pos + 1 \in Nat
    BY <1>1
  <2>. QED BY <1>u, <1>5, <2>1 DEF IInv, FlushTypeOK, NandTypeOK
<1>7. MapCursors' /\ MapQueue'
  BY <1>u DEF IInv, MapCursors, MapQueue
<1>8. MapLog'
  BY <1>u DEF IInv, MapLog, Written, BlankAbove, PageAt, CursorOf, MapPageOf
<1>9. ASSUME NEW a \in Banks
      PROVE  /\ Waiting(a)' <=> Waiting(a)
             /\ a # b => (Issued(a)' <=> Issued(a)) /\ (Prepared(a)' <=> Prepared(a))
  BY <1>u, <1>1 DEF Waiting, Issued, Prepared
<1>10. Queued(b, vpn, MiscPageOf(b, ver))'
  <2>1. CASE queue'[b] = <<Program(vpn)>> /\ Blank(b, vpn)
    <3>1. Blank(b, vpn)'
      BY <1>u, <2>1 DEF Blank, Written, BlankAbove, PageAt
    <3>. QED BY <1>u, <1>3, <2>1, <3>1 DEF Queued, MiscPageOf
  <2>2. CASE /\ queue'[b] = <<Erase(MISCBLK_VBN), Program(vpn)>>
             /\ vpn = MISCBLK_VBN * PagesPerBlk
    <3>1. vpn % PagesPerBlk = 0
      BY <2>2, FirstPage, MetaBlks
    <3>. QED BY <1>u, <1>3, <2>2, <3>1 DEF Queued, MiscPageOf
  <2>. QED BY <1>5, <2>1, <2>2
<1>11. MiscLog'
  <2> SUFFICES ASSUME NEW a \in Banks
               PROVE  /\ Waiting(a)' => MiscWaiting(a)'
                      /\ ~Waiting(a)' =>
                           /\ misc_vpn[a] \div PagesPerBlk = MISCBLK_VBN
                           /\ flushed = None => misc_vpn[a] = MISCBLK_VBN * PagesPerBlk
                      /\ Prepared(a)' =>
                           /\ ftl_buf[a] = MiscPageOf(a, ver)
                           /\ \/ queue'[a] = <<>> /\ Blank(a, misc_vpn[a])'
                              \/ /\ queue'[a] = <<Erase(MISCBLK_VBN)>>
                                 /\ misc_vpn[a] = MISCBLK_VBN * PagesPerBlk
                      /\ Issued(a)' =>
                           \/ queue'[a] = <<>> /\ Written(a, misc_vpn[a], MiscPageOf(a, ver))'
                           \/ Queued(a, misc_vpn[a], MiscPageOf(a, ver))'
    BY <1>u DEF MiscLog, MiscPageOf
  <2>1. CASE a = b
    <3>1. ~Waiting(b)' /\ ~Prepared(b)'
      BY <1>2
    <3>2. /\ misc_vpn[b] \div PagesPerBlk = MISCBLK_VBN
          /\ flushed = None => misc_vpn[b] = MISCBLK_VBN * PagesPerBlk
      BY <1>1, <1>2 DEF IInv, MiscLog
    <3>3. Queued(b, misc_vpn[b], MiscPageOf(b, ver))'
      BY <1>u, <1>n, <1>10
         DEF Queued, Blank, Written, BlankAbove, PageAt, MiscPageOf
    <3>. QED BY <2>1, <3>1, <3>2, <3>3
  <2>2. CASE a # b
    <3>1. queue'[a] = queue[a]
      BY <1>5, <2>2
    <3>2. Waiting(a)' => MiscWaiting(a)'
      BY <1>u, <1>9, <3>1
         DEF IInv, MiscLog, MiscWaiting, BlankAbove, PageAt, OldImage, MapPageOf
    <3>3. ~Waiting(a)' => /\ misc_vpn[a] \div PagesPerBlk = MISCBLK_VBN
                          /\ flushed = None => misc_vpn[a] = MISCBLK_VBN * PagesPerBlk
      BY <1>9 DEF IInv, MiscLog
    <3>4. Prepared(a)' =>
            /\ ftl_buf[a] = MiscPageOf(a, ver)
            /\ \/ queue'[a] = <<>> /\ Blank(a, misc_vpn[a])'
               \/ /\ queue'[a] = <<Erase(MISCBLK_VBN)>>
                  /\ misc_vpn[a] = MISCBLK_VBN * PagesPerBlk
      BY <1>u, <1>9, <2>2, <3>1 DEF IInv, MiscLog, Blank, Written, BlankAbove, PageAt
    <3>5. Issued(a)' =>
            \/ queue'[a] = <<>> /\ Written(a, misc_vpn[a], MiscPageOf(a, ver))'
            \/ Queued(a, misc_vpn[a], MiscPageOf(a, ver))'
      BY <1>u, <1>9, <2>2, <3>1
         DEF IInv, MiscLog, Queued, Blank, Written, BlankAbove, PageAt, MiscPageOf
    <3>. QED BY <3>2, <3>3, <3>4, <3>5
  <2>. QED BY <2>1, <2>2
<1>12. MiscOld'
  BY <1>u, <1>9 DEF IInv, MiscOld, OldImage, PageAt, MapPageOf
<1>. QED BY <1>6, <1>7, <1>8, <1>11, <1>12 DEF IInv

\* The third wait: the misc. pages are on flash.
LEMMA FlushEndInv ==
  ASSUME IInv, FlushEnd
  PROVE  IInv'
<1>u. /\ flash' = flash /\ queue' = queue /\ ftl_buf' = ftl_buf /\ ver' = ver
      /\ misc_vpn' = misc_vpn /\ map_vpn' = map_vpn /\ flushed' = ver
      /\ wrapped' = wrapped /\ pc = "misc" /\ pc' = "idle" /\ pos' = 0 /\ pos = 2 * NumBanks
      /\ \A b \in Banks : queue[b] = <<>>
  BY DEF FlushEnd, nandVars, flash_finish
<1>0. ver \in Versions /\ ver # None
  BY PageIsNoMark DEF IInv, FlushTypeOK
<1>1. FlushTypeOK'
  BY <1>u, <1>0 DEF IInv, FlushTypeOK, NandTypeOK
<1>2. MapCursors' /\ MapQueue'
  BY <1>u DEF IInv, MapCursors, MapQueue
<1>3. \A c \in Chunks : Written(BankOf(c), CursorOf(c), MapPageOf(c, ver))
  BY <1>u DEF IInv, MapLog
<1>4. MapLog'
  BY <1>u, <1>3 DEF MapLog, Written, BlankAbove, PageAt, CursorOf, MapPageOf
<1>5. \A b \in Banks : Waiting(b)' /\ ~Prepared(b)' /\ ~Issued(b)'
  BY <1>u DEF Waiting, Prepared, Issued
<1>6. ASSUME NEW b \in Banks
      PROVE  MiscWaiting(b)'
  <2>1. Issued(b) /\ ~Waiting(b)
    BY <1>u, FlushAssumption, NandAssumption DEF Issued, Waiting, Banks
  <2>2. ~Queued(b, misc_vpn[b], MiscPageOf(b, ver))
    <3>1. queue[b] = <<>>
      BY <1>u
    <3>. QED BY <3>1, ShortQueue, Zenon DEF Queued
  <2>3. /\ misc_vpn[b] \div PagesPerBlk = MISCBLK_VBN
        /\ PageAt(b, misc_vpn[b]) = MiscPageOf(b, ver) /\ BlankAbove(b, misc_vpn[b])
    BY <2>1, <2>2 DEF IInv, MiscLog, Written
  <2>4. ASSUME NEW c \in Chunks, BankOf(c) = b
        PROVE  /\ map_vpn[b][LbnOf(c)] \div PagesPerBlk = MapVbn[b][LbnOf(c)]
               /\ PageAt(b, map_vpn[b][LbnOf(c)]) = MapPageOf(c, ver)
    BY <1>3, <2>4, ChunkPlace DEF Written, CursorOf, IInv, MapCursors
  <2>5. /\ misc_vpn[b] \in Nat /\ MiscPageOf(b, ver) \in MiscPages
        /\ MiscPageOf(b, ver).ver = ver /\ MiscPageOf(b, ver).map_vpn = map_vpn[b]
    BY <1>0, PageIsNoMark DEF IInv, FlushTypeOK, MiscPageOf
  <2>6. OldImage(b, misc_vpn[b])'
    BY <1>u, <2>3, <2>4, <2>5 DEF OldImage, PageAt, MapPageOf
  <2>7. PageAt(b, misc_vpn[b])' = MiscPageOf(b, flushed)'
    BY <1>u, <2>3 DEF PageAt, MiscPageOf
  <2>8. BlankAbove(b, misc_vpn[b])'
    BY <1>u, <2>3 DEF BlankAbove
  <2>. QED BY <1>u, <1>0, <2>3, <2>6, <2>7, <2>8 DEF MiscWaiting
<1>7. MiscLog' /\ MiscOld'
  BY <1>5, <1>6 DEF MiscLog, MiscOld
<1>. QED BY <1>1, <1>2, <1>4, <1>7 DEF IInv

\* A bank executes a command while the map pages are logged.
LEMMA ExecuteMapInv ==
  ASSUME IInv, NEW b \in Banks, Execute(b), pc = "map",
         UNCHANGED <<ver, misc_vpn, map_vpn, pc, pos, flushed, wrapped>>
  PROVE  IInv'
<1>u. /\ ver' = ver /\ misc_vpn' = misc_vpn /\ map_vpn' = map_vpn /\ flushed' = flushed
      /\ wrapped' = wrapped /\ pc' = pc /\ pos' = pos /\ ver \in Versions
  BY DEF IInv, FlushTypeOK
<1>1. /\ NandTypeOK(Contents) /\ NandTypeOK(Contents)' /\ queue[b] # <<>> /\ ftl_buf' = ftl_buf
      /\ \A a \in Banks : a # b => flash'[a] = flash[a] /\ queue'[a] = queue[a]
  BY ExecuteEffect DEF IInv, FlushTypeOK, Contents
<1>2. PICK c \in Chunks : /\ BankOf(c) = b /\ InRound(c)
                          /\ Queued(b, CursorOf(c), MapPageOf(c, ver))
                          /\ ~wrapped => queue[b] = <<Program(CursorOf(c))>>
  BY <1>1 DEF IInv, MapQueue
<1>3. PICK vpn, page, i : vpn = CursorOf(c) /\ page = MapPageOf(c, ver) /\ i = LbnOf(c)
  OBVIOUS
<1>4. /\ i \in Lbns /\ vpn = map_vpn[b][i] /\ vpn \in Nat
      /\ vpn \div PagesPerBlk = MapVbn[b][i] /\ MapVbn[b][i] \in Blks
      /\ MapVbn[b][i] # MISCBLK_VBN
  BY <1>2, <1>3, ChunkPlace, MetaBlks DEF CursorOf, IInv, FlushTypeOK, MapCursors
<1>5. /\ Queued(b, vpn, page)
      /\ \A v \in Blks : v # vpn \div PagesPerBlk => flash'[b][v] = flash[b][v]
      /\ \/ /\ queue[b] = <<Program(vpn)>> /\ queue'[b] = <<>>
            /\ PageAt(b, vpn)' = page /\ BlankAbove(b, vpn)'
            /\ \A p \in Pages : p # vpn % PagesPerBlk =>
                 flash'[b][vpn \div PagesPerBlk][p] = flash[b][vpn \div PagesPerBlk][p]
         \/ /\ queue[b] = <<Erase(vpn \div PagesPerBlk), Program(vpn)>>
            /\ queue'[b] = <<Program(vpn)>>
            /\ Queued(b, vpn, page)'
  <2>1. Queued(b, vpn, page)
    BY <1>2, <1>3
  <2>. QED BY <1>1, <1>4, <2>1, ExecuteQueued DEF Contents
<1>6. ASSUME NEW d \in Chunks, d # c
      PROVE  /\ flash'[BankOf(d)][CursorOf(d) \div PagesPerBlk] =
                  flash[BankOf(d)][CursorOf(d) \div PagesPerBlk]
             /\ BankOf(d) = b => ~InRound(d)
  <2>1. BankOf(d) \in Banks /\ LbnOf(d) \in Lbns /\ d \in Nat /\ c \in Nat
    BY ChunkPlace
  <2>2. CursorOf(d) \div PagesPerBlk = MapVbn[BankOf(d)][LbnOf(d)]
        /\ MapVbn[BankOf(d)][LbnOf(d)] \in Blks
    BY <2>1, MetaBlks DEF CursorOf, IInv, MapCursors
  <2>3. CASE BankOf(d) # b
    BY <1>1, <2>1, <2>3
  <2>4. CASE BankOf(d) = b
    <3>1. LbnOf(d) # i
      BY <1>2, <1>3, <1>6, <2>1, <2>4, ChunkNamed
    <3>2. MapVbn[b][LbnOf(d)] # MapVbn[b][i]
      BY <1>4, <2>1, <3>1, FlushAssumption, NandAssumption
    <3>3. ~InRound(d)
      BY <1>2, <1>3, <3>1 DEF InRound
    <3>. QED BY <1>4, <1>5, <2>2, <2>4, <3>2, <3>3
  <2>. QED BY <2>3, <2>4
<1>7. FlushTypeOK' /\ MapCursors'
  BY <1>u, <1>1 DEF IInv, FlushTypeOK, MapCursors
<1>8. MapLog'
  <2> SUFFICES ASSUME NEW d \in Chunks
               PROVE  /\ d < pos =>
                           \/ /\ Written(BankOf(d), CursorOf(d), MapPageOf(d, ver))'
                              /\ InRound(d) => queue'[BankOf(d)] = <<>>
                           \/ /\ Queued(BankOf(d), CursorOf(d), MapPageOf(d, ver))'
                              /\ InRound(d)
                      /\ d >= pos /\ flushed = None => BlankAbove(BankOf(d), CursorOf(d))'
                      /\ d >= pos /\ flushed # None =>
                           Written(BankOf(d), CursorOf(d), MapPageOf(d, flushed))'
    BY <1>u DEF MapLog, InRound
  <2>0. BankOf(d) \in Banks /\ CursorOf(d)' = CursorOf(d) /\ d \in Nat /\ pos \in Nat
    BY <1>u, ChunkPlace DEF CursorOf, IInv, FlushTypeOK
  <2>1. CASE d = c
    <3>1. d < pos /\ ~(d >= pos)
      BY <1>2, <2>0, <2>1 DEF InRound
    <3>2. CASE queue'[b] = <<>> /\ PageAt(b, vpn)' = page /\ BlankAbove(b, vpn)'
      <4>1. Written(BankOf(d), CursorOf(d), MapPageOf(d, ver))'
        BY <1>u, <1>2, <1>3, <2>0, <2>1, <3>2
           DEF Written, PageAt, BlankAbove, MapPageOf, CursorOf
      <4>. QED BY <1>2, <2>1, <3>1, <3>2, <4>1
    <3>3. CASE Queued(b, vpn, page)'
      <4>1. Queued(BankOf(d), CursorOf(d), MapPageOf(d, ver))'
        BY <1>u, <1>2, <1>3, <2>0, <2>1, <3>3
           DEF Queued, Blank, Written, PageAt, BlankAbove, MapPageOf, CursorOf
      <4>. QED BY <1>2, <2>1, <3>1, <4>1
    <3>. QED BY <1>5, <3>2, <3>3
  <2>2. CASE d # c
    <3>1. flash'[BankOf(d)][CursorOf(d) \div PagesPerBlk] =
            flash[BankOf(d)][CursorOf(d) \div PagesPerBlk]
      BY <1>6, <2>2
    <3>2. /\ BlankAbove(BankOf(d), CursorOf(d))' <=> BlankAbove(BankOf(d), CursorOf(d))
          /\ Written(BankOf(d), CursorOf(d), MapPageOf(d, ver)) =>
               Written(BankOf(d), CursorOf(d), MapPageOf(d, ver))'
          /\ Written(BankOf(d), CursorOf(d), MapPageOf(d, flushed)) =>
               Written(BankOf(d), CursorOf(d), MapPageOf(d, flushed))'
      BY <1>u, <3>1 DEF Written, PageAt, BlankAbove, MapPageOf, CursorOf
    <3>3. InRound(d) => queue'[BankOf(d)] = queue[BankOf(d)]
      BY <1>1, <1>6, <2>0, <2>2
    <3>4. Queued(BankOf(d), CursorOf(d), MapPageOf(d, ver)) /\ InRound(d) =>
            Queued(BankOf(d), CursorOf(d), MapPageOf(d, ver))'
      BY <1>u, <1>1, <3>1, <3>3 DEF Queued, Blank, Written, PageAt, BlankAbove, MapPageOf, CursorOf
    <3>. QED BY <3>2, <3>3, <3>4 DEF IInv, MapLog
  <2>. QED BY <2>1, <2>2
<1>9. MapQueue'
  <2> SUFFICES ASSUME NEW a \in Banks, queue'[a] # <<>>
               PROVE  \E d \in Chunks : /\ BankOf(d) = a /\ InRound(d)
                                        /\ Queued(a, CursorOf(d), MapPageOf(d, ver))'
                                        /\ ~wrapped => queue'[a] = <<Program(CursorOf(d))>>
    BY <1>u DEF MapQueue, InRound, CursorOf
  <2>1. CASE a = b
    <3>1. queue'[b] = <<Program(vpn)>> /\ Queued(b, vpn, page)'
      BY <1>5, <2>1
    <3>2. Queued(a, CursorOf(c), MapPageOf(c, ver))'
      BY <1>u, <1>3, <2>1, <3>1
         DEF Queued, Blank, Written, PageAt, BlankAbove, MapPageOf, CursorOf
    <3>. QED BY <1>2, <1>3, <2>1, <3>1, <3>2
  <2>2. CASE a # b
    <3>1. queue'[a] = queue[a] /\ flash'[a] = flash[a]
      BY <1>1, <2>2
    <3>2. PICK d \in Chunks : /\ BankOf(d) = a /\ InRound(d)
                              /\ Queued(a, CursorOf(d), MapPageOf(d, ver))
                              /\ ~wrapped => queue[a] = <<Program(CursorOf(d))>>
      BY <3>1 DEF IInv, MapQueue
    <3>3. Queued(a, CursorOf(d), MapPageOf(d, ver))'
      BY <1>u, <1>1, <3>1, <3>2
         DEF Queued, Blank, Written, PageAt, BlankAbove, MapPageOf, CursorOf
    <3>. QED BY <3>1, <3>2, <3>3
  <2>. QED BY <2>1, <2>2
<1>10. \A a \in Banks : /\ Waiting(a)' /\ MiscWaiting(a) /\ ~Prepared(a)' /\ ~Issued(a)'
                        /\ flash'[a][MISCBLK_VBN] = flash[a][MISCBLK_VBN]
  <2>1. \A a \in Banks : Waiting(a) /\ Waiting(a)' /\ ~Prepared(a)' /\ ~Issued(a)'
    BY <1>u DEF Waiting, Prepared, Issued
  <2>. QED BY <1>1, <1>4, <1>5, <2>1, MetaBlks DEF IInv, MiscLog
<1>11. ASSUME NEW a \in Banks, flushed # None, ~wrapped
       PROVE  OldImage(a, misc_vpn[a])'
  <2>1. OldImage(a, misc_vpn[a])
    BY <1>10, <1>11 DEF MiscWaiting
  <2>2. PICK m : m = PageAt(a, misc_vpn[a])
    OBVIOUS
  <2>3. PageAt(a, misc_vpn[a])' = m
    BY <1>u, <1>10, <2>1, <2>2 DEF PageAt, OldImage
  <2>4. ASSUME NEW d \in Chunks, BankOf(d) = a
        PROVE  PageAt(a, m.map_vpn[LbnOf(d)])' = MapPageOf(d, flushed)
    <3>1. /\ LbnOf(d) \in Lbns /\ m.map_vpn[LbnOf(d)] \in Nat
          /\ m.map_vpn[LbnOf(d)] \div PagesPerBlk = MapVbn[a][LbnOf(d)]
          /\ PageAt(a, m.map_vpn[LbnOf(d)]) = MapPageOf(d, flushed)
      BY <2>1, <2>2, <2>4, ChunkPlace DEF OldImage, MiscPages
    <3>2. PICK w : w = m.map_vpn[LbnOf(d)]
      OBVIOUS
    <3>3. CASE d # c
      <4>1. flash'[a][MapVbn[a][LbnOf(d)]] = flash[a][MapVbn[a][LbnOf(d)]]
        BY <1>6, <2>4, <3>1, <3>3 DEF CursorOf, IInv, MapCursors
      <4>. QED BY <3>1, <3>2, <4>1, <2>3, <2>2 DEF PageAt
    <3>4. CASE d = c
      <4>1. /\ queue[b] = <<Program(vpn)>>
            /\ \A p \in Pages : p # vpn % PagesPerBlk =>
                 flash'[b][vpn \div PagesPerBlk][p] = flash[b][vpn \div PagesPerBlk][p]
        BY <1>2, <1>3, <1>5, <1>11, ShortQueue
      <4>2. flash[b][vpn \div PagesPerBlk][vpn % PagesPerBlk] = Erased
        BY <1>5, <4>1, ShortQueue DEF Queued, Blank, Written, PageAt
      <4>3. MapPageOf(d, flushed) # Erased
        BY <1>11, PageIsNoMark DEF IInv, FlushTypeOK
      <4>4. /\ a = b /\ w \div PagesPerBlk = vpn \div PagesPerBlk /\ w % PagesPerBlk \in Pages
            /\ flash[b][w \div PagesPerBlk][w % PagesPerBlk] = MapPageOf(d, flushed)
        BY <1>2, <1>3, <1>4, <2>4, <3>1, <3>2, <3>4, VpnPage DEF PageAt
      <4>5. flash'[b][w \div PagesPerBlk][w % PagesPerBlk] = MapPageOf(d, flushed)
        BY <4>1, <4>2, <4>3, <4>4
      <4>. QED BY <3>2, <4>4, <4>5 DEF PageAt
    <3>. QED BY <3>3, <3>4
  <2>. QED BY <1>u, <2>1, <2>2, <2>3, <2>4 DEF OldImage, MapPageOf, PageAt
<1>12. ASSUME NEW a \in Banks
       PROVE  MiscWaiting(a)'
  <2>1. MiscWaiting(a) /\ flash'[a][MISCBLK_VBN] = flash[a][MISCBLK_VBN]
    BY <1>10
  <2>. QED BY <1>u, <1>11, <2>1 DEF MiscWaiting, BlankAbove
<1>13. MiscLog' /\ MiscOld'
  BY <1>10, <1>12 DEF MiscLog, MiscOld
<1>. QED BY <1>7, <1>8, <1>9, <1>13 DEF IInv

\* A bank executes a command while the misc. pages are logged: only the misc. block
\* changes.
LEMMA ExecuteMiscInv ==
  ASSUME IInv, NEW b \in Banks, Execute(b), pc = "misc",
         UNCHANGED <<ver, misc_vpn, map_vpn, pc, pos, flushed, wrapped>>
  PROVE  IInv'
<1>u. /\ ver' = ver /\ misc_vpn' = misc_vpn /\ map_vpn' = map_vpn /\ flushed' = flushed
      /\ wrapped' = wrapped /\ pc' = pc /\ pos' = pos
  OBVIOUS
<1>1. /\ NandTypeOK(Contents) /\ NandTypeOK(Contents)' /\ queue[b] # <<>> /\ ftl_buf' = ftl_buf
      /\ \A a \in Banks : a # b => flash'[a] = flash[a] /\ queue'[a] = queue[a]
  BY ExecuteEffect DEF IInv, FlushTypeOK, Contents
<1>2. PICK vpn, page : vpn = misc_vpn[b] /\ page = MiscPageOf(b, ver)
  OBVIOUS
<1>3. ~Waiting(b) /\ (Prepared(b) \/ Issued(b)) /\ ~(Prepared(b) /\ Issued(b))
  <2>1. ~Waiting(b)
    BY <1>1 DEF IInv, MiscLog, MiscWaiting
  <2>2. b \in Nat /\ NumBanks \in Nat /\ pos \in Nat
    BY FlushAssumption, NandAssumption DEF Banks, IInv, FlushTypeOK
  <2>. QED BY <2>1, <2>2 DEF Waiting, Prepared, Issued
<1>4. /\ vpn \in Nat /\ vpn \div PagesPerBlk = MISCBLK_VBN
      /\ MISCBLK_VBN \in Blks /\ vpn % PagesPerBlk \in Pages
  BY <1>2, <1>3, MetaBlks, VpnPage DEF IInv, MiscLog, FlushTypeOK
<1>5. ASSUME Prepared(b)
      PROVE  /\ \A v \in Blks : v # MISCBLK_VBN => flash'[b][v] = flash[b][v]
             /\ vpn = MISCBLK_VBN * PagesPerBlk /\ ftl_buf[b] = page
             /\ queue'[b] = <<>> /\ Blank(b, vpn)'
  <2>1. /\ queue[b] = <<Erase(MISCBLK_VBN)>> /\ vpn = MISCBLK_VBN * PagesPerBlk
        /\ ftl_buf[b] = page
    BY <1>1, <1>2, <1>5 DEF IInv, MiscLog
  <2>2. /\ Head(queue[b]) = Erase(MISCBLK_VBN) /\ Tail(queue[b]) = <<>>
        /\ Erase(MISCBLK_VBN).op = "erase" /\ Erase(MISCBLK_VBN).blk = MISCBLK_VBN
    BY <2>1, ShortQueue DEF Erase
  <2>3. /\ queue'[b] = <<>>
        /\ \A v \in Blks : v # MISCBLK_VBN => flash'[b][v] = flash[b][v]
        /\ \A p \in Pages : flash'[b][MISCBLK_VBN][p] = Erased
    <3> DEFINE c == Head(queue[b])
    <3>1. /\ queue'[b] = Tail(queue[b])
          /\ \A v \in Blks : v # c.blk => flash'[b][v] = flash[b][v]
          /\ \A p \in Pages : flash'[b][c.blk][p] =
               IF c.op = "erase" THEN Erased
               ELSE IF p # c.pg THEN flash[b][c.blk][p]
               ELSE IF flash[b][c.blk][p] = Erased THEN ftl_buf[b] ELSE Spoiled
      BY <1>1, ExecuteEffect DEF Contents
    <3>2. c.op = "erase" /\ c.blk = MISCBLK_VBN
      BY <2>2
    <3> HIDE DEF c
    <3>. QED BY <2>2, <3>1, <3>2
  <2>4. Blank(b, vpn)'
    BY <1>4, <2>3 DEF Blank, Written, BlankAbove, PageAt
  <2>. QED BY <2>1, <2>3, <2>4
<1>6. ASSUME Issued(b)
      PROVE  /\ \A v \in Blks : v # MISCBLK_VBN => flash'[b][v] = flash[b][v]
             /\ \/ /\ queue[b] = <<Program(vpn)>> /\ queue'[b] = <<>>
                   /\ PageAt(b, vpn)' = page /\ BlankAbove(b, vpn)'
                   /\ \A p \in Pages : p # vpn % PagesPerBlk =>
                        flash'[b][MISCBLK_VBN][p] = flash[b][MISCBLK_VBN][p]
                \/ Queued(b, vpn, page)' /\ vpn = MISCBLK_VBN * PagesPerBlk
  <2>1. Queued(b, vpn, page)
    BY <1>1, <1>2, <1>6 DEF IInv, MiscLog
  <2>2. /\ \A v \in Blks : v # vpn \div PagesPerBlk => flash'[b][v] = flash[b][v]
        /\ \/ /\ queue[b] = <<Program(vpn)>> /\ queue'[b] = <<>>
              /\ PageAt(b, vpn)' = page /\ BlankAbove(b, vpn)'
              /\ \A p \in Pages : p # vpn % PagesPerBlk =>
                   flash'[b][vpn \div PagesPerBlk][p] = flash[b][vpn \div PagesPerBlk][p]
           \/ /\ queue[b] = <<Erase(vpn \div PagesPerBlk), Program(vpn)>>
              /\ queue'[b] = <<Program(vpn)>>
              /\ Queued(b, vpn, page)'
    BY <1>1, <1>4, <2>1, ExecuteQueued DEF Contents
  <2>3. queue[b] = <<Erase(vpn \div PagesPerBlk), Program(vpn)>> =>
          vpn = MISCBLK_VBN * PagesPerBlk
    <3>1. queue[b] = <<Erase(vpn \div PagesPerBlk), Program(vpn)>> => vpn % PagesPerBlk = 0
      BY <2>1, ShortQueue DEF Queued
    <3>. QED BY <1>4, <3>1, AtFirstPage
  <2>. QED BY <1>4, <2>2, <2>3
<1>7. \A v \in Blks : v # MISCBLK_VBN => flash'[b][v] = flash[b][v]
  BY <1>3, <1>5, <1>6
<1>8. FlushTypeOK' /\ MapCursors' /\ MapQueue'
  BY <1>u, <1>1 DEF IInv, FlushTypeOK, MapCursors, MapQueue
<1>9. \A a \in Banks, i \in Lbns : flash'[a][MapVbn[a][i]] = flash[a][MapVbn[a][i]]
  BY <1>1, <1>7, MetaBlks
<1>10. MapLog'
  <2> SUFFICES ASSUME NEW c \in Chunks
               PROVE  Written(BankOf(c), CursorOf(c), MapPageOf(c, ver))'
    BY <1>u DEF MapLog
  <2>1. Written(BankOf(c), CursorOf(c), MapPageOf(c, ver))
    BY DEF IInv, MapLog
  <2>2. CursorOf(c) \div PagesPerBlk = MapVbn[BankOf(c)][LbnOf(c)]
        /\ BankOf(c) \in Banks /\ LbnOf(c) \in Lbns
    BY ChunkPlace DEF IInv, MapCursors, CursorOf
  <2>3. flash'[BankOf(c)][CursorOf(c) \div PagesPerBlk] =
          flash[BankOf(c)][CursorOf(c) \div PagesPerBlk]
    BY <1>9, <2>2
  <2>. QED BY <1>u, <2>1, <2>3 DEF Written, PageAt, BlankAbove, MapPageOf, CursorOf
<1>11. ASSUME NEW a \in Banks
       PROVE  /\ Waiting(a)' <=> Waiting(a)
              /\ Prepared(a)' <=> Prepared(a)
              /\ Issued(a)' <=> Issued(a)
  BY <1>u DEF Waiting, Prepared, Issued
<1>12. ASSUME NEW a \in Banks, NEW w, OldImage(a, w),
              PageAt(a, w)' = PageAt(a, w)
       PROVE  OldImage(a, w)'
  <2>1. PICK m : m = PageAt(a, w)
    OBVIOUS
  <2>2. ASSUME NEW d \in Chunks, BankOf(d) = a
        PROVE  PageAt(a, m.map_vpn[LbnOf(d)])' = MapPageOf(d, flushed)
    <3>1. /\ m.map_vpn[LbnOf(d)] \div PagesPerBlk = MapVbn[a][LbnOf(d)]
          /\ PageAt(a, m.map_vpn[LbnOf(d)]) = MapPageOf(d, flushed) /\ LbnOf(d) \in Lbns
      BY <1>12, <2>1, <2>2, ChunkPlace DEF OldImage
    <3>. QED BY <1>9, <3>1 DEF PageAt
  <2>. QED BY <1>u, <1>12, <2>1, <2>2 DEF OldImage, MapPageOf
<1>13. MiscLog'
  <2> SUFFICES ASSUME NEW a \in Banks
               PROVE  /\ Waiting(a) => MiscWaiting(a)'
                      /\ ~Waiting(a) =>
                           /\ misc_vpn[a] \div PagesPerBlk = MISCBLK_VBN
                           /\ flushed = None => misc_vpn[a] = MISCBLK_VBN * PagesPerBlk
                      /\ Prepared(a) =>
                           /\ ftl_buf[a] = MiscPageOf(a, ver)
                           /\ \/ queue'[a] = <<>> /\ Blank(a, misc_vpn[a])'
                              \/ /\ queue'[a] = <<Erase(MISCBLK_VBN)>>
                                 /\ misc_vpn[a] = MISCBLK_VBN * PagesPerBlk
                      /\ Issued(a) =>
                           \/ queue'[a] = <<>> /\ Written(a, misc_vpn[a], MiscPageOf(a, ver))'
                           \/ Queued(a, misc_vpn[a], MiscPageOf(a, ver))'
    BY <1>u, <1>1, <1>11 DEF MiscLog, MiscPageOf
  <2>0. /\ ~Waiting(a) =>
             /\ misc_vpn[a] \div PagesPerBlk = MISCBLK_VBN
             /\ flushed = None => misc_vpn[a] = MISCBLK_VBN * PagesPerBlk
        /\ Prepared(a) => ftl_buf[a] = MiscPageOf(a, ver)
    BY DEF IInv, MiscLog
  <2>1. CASE a = b
    <3>1. Prepared(b) => queue'[b] = <<>> /\ Blank(b, misc_vpn[b])'
      BY <1>u, <1>2, <1>5 DEF Blank, Written, BlankAbove, PageAt
    <3>2. Issued(b) => \/ queue'[b] = <<>> /\ Written(b, misc_vpn[b], MiscPageOf(b, ver))'
                       \/ Queued(b, misc_vpn[b], MiscPageOf(b, ver))'
      BY <1>u, <1>2, <1>6 DEF Queued, Blank, Written, BlankAbove, PageAt, MiscPageOf
    <3>. QED BY <1>3, <2>0, <2>1, <3>1, <3>2
  <2>2. CASE a # b
    <3>1. queue'[a] = queue[a] /\ flash'[a] = flash[a]
      BY <1>1, <2>2
    <3>2. ASSUME Waiting(a) PROVE MiscWaiting(a)'
      <4>1. MiscWaiting(a)
        BY <3>2 DEF IInv, MiscLog
      <4>2. PICK w : w = misc_vpn[a]
        OBVIOUS
      <4>3. PageAt(a, w)' = PageAt(a, w)
        BY <3>1 DEF PageAt
      <4>4. ASSUME OldImage(a, w) PROVE OldImage(a, misc_vpn[a])'
        <5>1. OldImage(a, w)'
          BY <1>12, <4>3, <4>4
        <5>. QED BY <1>u, <4>2, <5>1 DEF OldImage, PageAt, MapPageOf
      <4>5. flushed # None /\ ~wrapped => OldImage(a, misc_vpn[a])'
        BY <4>1, <4>2, <4>4 DEF MiscWaiting
      <4>. QED BY <1>u, <3>1, <4>1, <4>5 DEF MiscWaiting, BlankAbove
    <3>3. Prepared(a) =>
            \/ queue'[a] = <<>> /\ Blank(a, misc_vpn[a])'
            \/ queue'[a] = <<Erase(MISCBLK_VBN)>> /\ misc_vpn[a] = MISCBLK_VBN * PagesPerBlk
      BY <1>u, <3>1 DEF IInv, MiscLog, Blank, Written, BlankAbove, PageAt
    <3>4. Issued(a) =>
            \/ queue'[a] = <<>> /\ Written(a, misc_vpn[a], MiscPageOf(a, ver))'
            \/ Queued(a, misc_vpn[a], MiscPageOf(a, ver))'
      BY <1>u, <1>1, <3>1
         DEF IInv, MiscLog, Queued, Blank, Written, BlankAbove, PageAt, MiscPageOf
    <3>. QED BY <2>0, <3>2, <3>3, <3>4
  <2>. QED BY <2>1, <2>2
<1>14. MiscOld'
  <2> SUFFICES ASSUME NEW a \in Banks, ~Waiting(a), flushed # None, ~wrapped,
                      misc_vpn[a] # MISCBLK_VBN * PagesPerBlk
               PROVE  OldImage(a, misc_vpn[a] - 1)'
    BY <1>u, <1>11 DEF MiscOld
  <2>1. PICK w : w = misc_vpn[a] - 1
    OBVIOUS
  <2>2. OldImage(a, w)
    BY <2>1 DEF IInv, MiscOld
  <2>3. PageAt(a, w)' = PageAt(a, w)
    <3>1. CASE a # b
      BY <1>1, <3>1 DEF PageAt
    <3>2. CASE a = b
      <4>1. /\ Issued(b)
            /\ \A p \in Pages : p # vpn % PagesPerBlk =>
                 flash'[b][MISCBLK_VBN][p] = flash[b][MISCBLK_VBN][p]
        BY <1>2, <1>3, <1>5, <1>6, <3>2
      <4>2. /\ w \in Nat /\ w + 1 = vpn /\ w \div PagesPerBlk = MISCBLK_VBN
            /\ w % PagesPerBlk \in Pages
        BY <1>2, <1>4, <2>1, <2>2, <3>2, VpnPage DEF OldImage
      <4>3. w % PagesPerBlk # vpn % PagesPerBlk
        <5>1. vpn % PagesPerBlk # 0
          BY <1>2, <1>4, <3>2, AtFirstPage
        <5>2. vpn % PagesPerBlk = (w % PagesPerBlk) + 1
          BY <4>2, <5>1, NextPage
        <5>. QED BY <4>2, <5>2 DEF Pages
      <4>. QED BY <3>2, <4>1, <4>2, <4>3 DEF PageAt
    <3>. QED BY <3>1, <3>2
  <2>4. OldImage(a, w)'
    BY <1>12, <2>2, <2>3
  <2>. QED BY <1>u, <2>1, <2>4 DEF OldImage, PageAt, MapPageOf
<1>. QED BY <1>8, <1>10, <1>13, <1>14 DEF IInv

\* No bank has anything to do between two flushes.
LEMMA ExecuteInv ==
  ASSUME IInv, NEW b \in Banks, Execute(b),
         UNCHANGED <<ver, misc_vpn, map_vpn, pc, pos, flushed, wrapped>>
  PROVE  IInv'
<1>1. pc # "idle"
  BY DEF IInv, MapQueue, Execute
<1>. QED BY <1>1, ExecuteMapInv, ExecuteMiscInv DEF IInv, FlushTypeOK

\* Every step preserves the invariant.
LEMMA NextInv == IInv /\ [Next]_vars => IInv'
<1> SUFFICES ASSUME IInv, [Next]_vars PROVE IInv'
  OBVIOUS
<1>1. CASE Next
  BY <1>1, PowerCycleInv, ChangeInv, FlushBeginInv, LoggingInv, LoggedMapInv, PrepareMiscInv,
     ProgramMiscInv, FlushEndInv, ExecuteInv, Zenon DEF Next
<1>2. CASE UNCHANGED vars
  <2>u. /\ flash' = flash /\ queue' = queue /\ ftl_buf' = ftl_buf /\ ver' = ver
        /\ misc_vpn' = misc_vpn /\ map_vpn' = map_vpn /\ flushed' = flushed
        /\ wrapped' = wrapped /\ pc' = pc /\ pos' = pos
    BY <1>2 DEF vars, nandVars
  <2>1. FlushTypeOK' /\ MapCursors'
    BY <2>u DEF IInv, FlushTypeOK, NandTypeOK, MapCursors
  <2>2. MapLog'
    BY ZenonT(60), <2>u DEF IInv, MapLog, Written, Blank, BlankAbove, Queued, PageAt, CursorOf, MapPageOf, InRound
  <2>3. MapQueue'
    BY <2>u DEF IInv, MapQueue, Written, Blank, BlankAbove, Queued, PageAt, CursorOf, MapPageOf, InRound
  <2>4. \A b \in Banks : MiscWaiting(b) => MiscWaiting(b)'
    BY ZenonT(60), <2>u DEF MiscWaiting, BlankAbove, PageAt, OldImage, MiscPageOf, MapPageOf
  <2>5. \A b \in Banks : /\ Waiting(b)' <=> Waiting(b)
                         /\ Prepared(b)' <=> Prepared(b)
                         /\ Issued(b)' <=> Issued(b)
    BY <2>u DEF Waiting, Prepared, Issued
  <2>6. MiscLog'
    BY <2>u, <2>4, <2>5 DEF IInv, MiscLog, Written, Blank, BlankAbove, Queued, PageAt, MiscPageOf
  <2>7. MiscOld'
    BY <2>u, <2>5 DEF IInv, MiscOld, OldImage, PageAt, MapPageOf
  <2>. QED BY <2>1, <2>2, <2>3, <2>6, <2>7 DEF IInv
<1>. QED BY <1>1, <1>2

\* Types, cursors, logs and queues are as the invariant says in every reachable state.
THEOREM FlushInvariant == Spec => []IInv
<1>1. Init => IInv
  BY InitInv
<1>2. IInv /\ [Next]_vars => IInv'
  BY NextInv
<1>. QED BY <1>1, <1>2, PTL DEF Spec

-----------------------------------------------------------------------------
(***************************************************************************)
(* What the invariant says of the log.                                     *)
(***************************************************************************)
\* A misc. page of this flush, with the map pages of this flush, is an image of ver.
LEMMA NewBankImage ==
  ASSUME IInv, pc = "misc", NEW b \in Banks,
         Written(b, misc_vpn[b], MiscPageOf(b, ver)), ~Waiting(b)
  PROVE  BankImage(b, ver)
<1>1. /\ misc_vpn[b] \in Nat /\ misc_vpn[b] \div PagesPerBlk = MISCBLK_VBN
      /\ MiscPageOf(b, ver) # Erased
  BY PageIsNoMark DEF IInv, FlushTypeOK, MiscLog
<1>2. Programmed(b, MISCBLK_VBN) # {} /\ Saved(b) = MiscPageOf(b, ver)
  BY <1>1, NewestIs DEF Saved
<1>3. ASSUME NEW c \in Chunks, BankOf(c) = b
      PROVE  LoadedChunk(c) = [kind |-> "map", chunk |-> c, ver |-> ver]
  <2>1. Written(BankOf(c), CursorOf(c), MapPageOf(c, ver))
    BY DEF IInv, MapLog
  <2>. QED BY <1>2, <1>3, <2>1 DEF LoadedChunk, Written, CursorOf, MapPageOf, MiscPageOf
<1>. QED BY <1>2, <1>3 DEF BankImage, MiscPageOf

\* An old image with nothing above its misc. page is the image of the last flush.
LEMMA OldBankImage ==
  ASSUME NEW b \in Banks, NEW vpn, OldImage(b, vpn), BlankAbove(b, vpn)
  PROVE  BankImage(b, flushed)
<1>1. PICK m : m = PageAt(b, vpn)
  OBVIOUS
<1>2. m \in MiscPages /\ m.ver = flushed /\ vpn \in Nat /\ vpn \div PagesPerBlk = MISCBLK_VBN
  BY <1>1 DEF OldImage
<1>3. m # Erased /\ m.kind = "misc"
  BY <1>2, PageAssumption DEF MiscPages
<1>4. Programmed(b, MISCBLK_VBN) # {} /\ Saved(b) = m
  BY <1>1, <1>2, <1>3, NewestIs DEF Written, Saved
<1>5. ASSUME NEW c \in Chunks, BankOf(c) = b
      PROVE  LoadedChunk(c) = [kind |-> "map", chunk |-> c, ver |-> flushed]
  BY <1>1, <1>4, <1>5 DEF LoadedChunk, OldImage, MapPageOf
<1>. QED BY <1>2, <1>3, <1>4, <1>5 DEF BankImage

\* What the invariant says while no flush runs.
LEMMA LoadedInv == IInv => FlushedIsLoaded
<1> SUFFICES ASSUME IInv, pc = "idle", NEW b \in Banks
             PROVE  /\ BankImage(b, flushed)
                    /\ Saved(b).misc_vpn = misc_vpn[b] /\ Saved(b).map_vpn = map_vpn[b]
  BY DEF FlushedIsLoaded, Image
<1>1. /\ flushed \in Versions /\ flushed # None
      /\ misc_vpn[b] \in Nat /\ Waiting(b)
  BY DEF IInv, FlushTypeOK, Waiting
<1>2. /\ misc_vpn[b] \div PagesPerBlk = MISCBLK_VBN /\ BlankAbove(b, misc_vpn[b])
      /\ PageAt(b, misc_vpn[b]) = MiscPageOf(b, flushed)
  BY <1>1 DEF IInv, MiscLog, MiscWaiting
<1>3. Programmed(b, MISCBLK_VBN) # {} /\ Saved(b) = MiscPageOf(b, flushed)
  BY <1>1, <1>2, PageIsNoMark, NewestIs DEF IInv, Written, Saved
<1>4. ASSUME NEW c \in Chunks, BankOf(c) = b
      PROVE  LoadedChunk(c) = [kind |-> "map", chunk |-> c, ver |-> flushed]
  <2>1. Written(BankOf(c), CursorOf(c), MapPageOf(c, flushed))
    BY DEF IInv, MapLog
  <2>. QED BY <1>3, <1>4, <2>1 DEF LoadedChunk, Written, CursorOf, MapPageOf, MiscPageOf
<1>. QED BY <1>3, <1>4 DEF BankImage, MiscPageOf

\* What the invariant says of the misc. pages of the current flush.
LEMMA MiscAfterMapInv == IInv => MiscAfterMap
<1> SUFFICES ASSUME IInv, NEW b \in Banks, pc = "misc", pos > NumBanks + b, queue[b] = <<>>
             PROVE  BankImage(b, ver)
  BY DEF MiscAfterMap
<1>1. Issued(b) /\ ~Waiting(b)
  BY FlushAssumption, NandAssumption DEF Issued, Waiting, Banks, IInv, FlushTypeOK
<1>2. ~Queued(b, misc_vpn[b], MiscPageOf(b, ver))
  BY ShortQueue, Zenon DEF Queued
<1>3. Written(b, misc_vpn[b], MiscPageOf(b, ver))
  BY <1>1, <1>2 DEF IInv, MiscLog
<1>. QED BY <1>1, <1>3, NewBankImage

\* What the invariant says of the image of the last flush.
LEMMA OldImageInv == IInv => OldImageKept
<1> SUFFICES ASSUME IInv, flushed # None, ~wrapped, NEW b \in Banks
             PROVE  /\ pc = "map" => BankImage(b, flushed)
                    /\ pc = "misc" /\ (pos > b => misc_vpn[b] # MISCBLK_VBN * PagesPerBlk)
                         => BankImage(b, flushed) \/ BankImage(b, ver)
  BY DEF OldImageKept, Image
<1>1. ASSUME Waiting(b) PROVE BankImage(b, flushed)
  <2>1. OldImage(b, misc_vpn[b]) /\ BlankAbove(b, misc_vpn[b])
    BY <1>1 DEF IInv, MiscLog, MiscWaiting
  <2>. QED BY <2>1, OldBankImage
<1>2. ASSUME pc = "misc", ~Waiting(b), misc_vpn[b] # MISCBLK_VBN * PagesPerBlk
      PROVE  BankImage(b, flushed) \/ BankImage(b, ver)
  <2>0. PICK vpn : vpn = misc_vpn[b]
    OBVIOUS
  <2>1. OldImage(b, vpn - 1) /\ vpn \in Nat /\ vpn \div PagesPerBlk = MISCBLK_VBN
    BY <1>2, <2>0 DEF IInv, MiscOld, MiscLog, FlushTypeOK
  <2>2. CASE Blank(b, vpn)
    <3>1. vpn - 1 \in Nat /\ (vpn - 1) + 1 = vpn
      BY <2>1 DEF OldImage
    <3>2. vpn % PagesPerBlk # 0
      BY <1>2, <2>0, <2>1, AtFirstPage
    <3>3. vpn % PagesPerBlk = ((vpn - 1) % PagesPerBlk) + 1
          /\ (vpn - 1) \div PagesPerBlk = MISCBLK_VBN
      BY <2>1, <3>1, <3>2, NextPage DEF OldImage
    <3>4. vpn % PagesPerBlk \in Int /\ (vpn - 1) % PagesPerBlk \in Int
          /\ \A p \in Pages : p \in Int
      BY <2>1, <3>1, VpnPage DEF Pages
    <3>5. \A p \in Pages : p > (vpn - 1) % PagesPerBlk =>
            p = vpn % PagesPerBlk \/ p > vpn % PagesPerBlk
      BY <3>3, <3>4
    <3>6. BlankAbove(b, vpn - 1)
      BY <2>1, <2>2, <3>3, <3>5 DEF Blank, Written, BlankAbove, PageAt
    <3>. QED BY <2>1, <3>6, OldBankImage
  <2>3. CASE ~Blank(b, vpn)
    <3>1. vpn % PagesPerBlk # 0
      BY <1>2, <2>0, <2>1, AtFirstPage
    <3>2. Issued(b)
      <4>1. ~Prepared(b)
        BY <1>2, <2>0, <2>3 DEF IInv, MiscLog
      <4>2. b \in Nat /\ NumBanks \in Nat /\ pos \in Nat
        BY FlushAssumption, NandAssumption DEF Banks, IInv, FlushTypeOK
      <4>. QED BY <1>2, <4>1, <4>2 DEF Waiting, Prepared, Issued
    <3>3. ~Queued(b, vpn, MiscPageOf(b, ver))
      BY <2>3, <3>1 DEF Queued
    <3>4. Written(b, vpn, MiscPageOf(b, ver))
      BY <2>0, <3>2, <3>3 DEF IInv, MiscLog
    <3>. QED BY <1>2, <2>0, <3>4, NewBankImage
  <2>. QED BY <2>2, <2>3
<1>3. /\ pc = "map" => Waiting(b)
      /\ pc = "misc" /\ ~Waiting(b) => pos > b
  <2>1. b \in Nat /\ pos \in Nat
    BY FlushAssumption, NandAssumption DEF Banks, IInv, FlushTypeOK
  <2>. QED BY <2>1 DEF Waiting
<1>. QED BY <1>1, <1>2, <1>3

\* Every command at the head of a queue follows the rule of the flash.
LEMMA NandRuleInv == IInv => NandRule
<1> SUFFICES ASSUME IInv, NEW b \in Banks, queue[b] # <<>>
             PROVE  CommandAllowed(b, Head(queue[b]))
  BY DEF NandRule
<1>1. CASE pc = "idle"
  BY <1>1 DEF IInv, MapQueue
<1>2. CASE pc = "map"
  <2>1. PICK c \in Chunks : /\ BankOf(c) = b
                            /\ Queued(b, CursorOf(c), MapPageOf(c, ver))
    BY <1>2 DEF IInv, MapQueue
  <2>2. CursorOf(c) \in Nat
    BY ChunkPlace DEF CursorOf, IInv, FlushTypeOK
  <2>. QED BY <2>1, <2>2, QueuedAllowed
<1>3. CASE pc = "misc"
  <2>1. misc_vpn[b] \in Nat /\ b \in Nat /\ NumBanks \in Nat /\ pos \in Nat
    BY FlushAssumption, NandAssumption DEF Banks, IInv, FlushTypeOK
  <2>2. CASE Waiting(b)
    BY <1>3, <2>2 DEF IInv, MiscLog, MiscWaiting
  <2>3. CASE Prepared(b)
    <3>1. queue[b] = <<Erase(MISCBLK_VBN)>>
      BY <2>3 DEF IInv, MiscLog
    <3>. QED BY <3>1, ShortQueue DEF CommandAllowed, Erase
  <2>4. CASE Issued(b)
    <3>1. Queued(b, misc_vpn[b], MiscPageOf(b, ver))
      BY <2>4 DEF IInv, MiscLog
    <3>. QED BY <2>1, <3>1, QueuedAllowed
  <2>. QED BY <1>3, <2>1, <2>2, <2>3, <2>4 DEF Waiting, Prepared, Issued
<1>. QED BY <1>1, <1>2, <1>3 DEF IInv, FlushTypeOK

-----------------------------------------------------------------------------
\* ftl_flush leaves on flash, when it returns, exactly what load_metadata needs to
\* restore the tables and the cursors that it saved.
THEOREM FlushedIsLoadedThm == Spec => []FlushedIsLoaded
  BY FlushInvariant, LoadedInv, PTL

\* A flush that erases no map block keeps the image of the last flush until the misc.
\* page of a bank replaces its part of it.
THEOREM OldImageKeptThm == Spec => []OldImageKept
  BY FlushInvariant, OldImageInv, PTL

\* No misc. page is on flash before the map pages that it points to.
THEOREM MiscAfterMapThm == Spec => []MiscAfterMap
  BY FlushInvariant, MiscAfterMapInv, PTL

\* logging_pmap_table and logging_misc_metadata never program a page twice, nor a page
\* below one that is programmed.
THEOREM NandRuleThm == Spec => []NandRule
  BY FlushInvariant, NandRuleInv, PTL
=============================================================================
