-------------------------- MODULE TutorialFTLProofs --------------------------
(***************************************************************************)
(* Proofs about TutorialFTL for every number of banks and of buffers, every *)
(* page size and every workload: the two buffer rings agree with the        *)
(* commands in flight, no program command runs before the holes of its      *)
(* buffer have been read, and the host gets its pages.                      *)
(*                                                                          *)
(* A ring is a window between a limit and a cursor whose buffers are those  *)
(* of the commands in flight and of the ones finished out of order.  The    *)
(* firmware waits for room in the read ring.  It never does in the write    *)
(* ring: that one does not overrun because consecutive pages go to the      *)
(* banks in turn, so that the oldest program holds up the bank of the       *)
(* youngest one.                                                            *)
(***************************************************************************)
EXTENDS TutorialFTL, FiniteSetTheorems, SequenceTheorems, NaturalsInduction, WellFoundedInduction, TLAPS

\* The buffers from a limit to the cursor before which it lies.
Window(limit, cursor, size) == {(limit + j) % size : j \in 0 .. Ahead(limit, cursor, size) - 1}

Bufs(out) == {c.buf : c \in out}

\* The window of a ring is shared by the commands in flight, one buffer each, and the
\* finished ones; the oldest buffer is not finished.
Ring(limit, cursor, size, out, done) ==
  /\ limit \in 0 .. size - 1 /\ cursor \in 0 .. size - 1
  /\ Bufs(out) \union done = Window(limit, cursor, size) /\ Bufs(out) \cap done = {}
  /\ limit \notin done
  /\ \A c, d \in out : c.buf = d.buf => c = d

-----------------------------------------------------------------------------
PageAddrs == [bank : Banks, row : Nat]

\* The types of the variables that the rings depend on, and what pc says of cmd.
RingTypeOK ==
  /\ wr \in Commands \union {None} /\ bank \in [Banks -> Commands \union {None}]
  /\ \A b \in Banks : bank[b] # None => bank[b].bank = b
  /\ rbuf_ptr \in 0 .. NumRdBuffers - 1
  /\ pc \in {"main", "read", "write", "left", "right", "program", "stopped"}
  /\ cmd \in [op : {"none", "read", "write"}, lba : Nat, n : Nat]
  /\ cmd.lba + cmd.n <= NumLpns * SectorsPerPage
  /\ pc = "read" => cmd.op = "read"
  /\ pc \in {"write", "left", "right", "program"} => cmd.op = "write"
  /\ pc \notin {"main", "stopped"} => cmd.n > 0
  /\ page_map \in [Lpns -> PageAddrs \union {NULL}] /\ new \in PageAddrs
  /\ g_target_bank \in Banks
  /\ g_target_row \in [Banks -> 0 .. VblksPerBank * PagesPerVblk]
  /\ eventq \in Seq(Requests)

\* The SATA hardware is behind the read limit.
ReadRing ==
  /\ Ring(rd_limit, g_ftl_read_buf_id, NumRdBuffers, OutFor("read"), rd_done)
  /\ Ahead(rbuf_ptr, g_ftl_read_buf_id, NumRdBuffers) =
       Ahead(rbuf_ptr, rd_limit, NumRdBuffers) + Ahead(rd_limit, g_ftl_read_buf_id, NumRdBuffers)

\* A buffer for each bank and one for the waiting room.
WriteRing ==
  /\ Ring(wr_limit, g_ftl_write_buf_id, NumWrBuffers, OutFor("program"), wr_done)
  /\ Ahead(wr_limit, g_ftl_write_buf_id, NumWrBuffers) <= NumBanks + 1
  /\ Ahead(wr_limit, g_ftl_write_buf_id, NumWrBuffers) = NumBanks + 1 =>
       wr # None /\ wr.op = "program"
  /\ wr # None /\ wr.op = "program" => Ahead(wr.buf, g_ftl_write_buf_id, NumWrBuffers) = 1

\* The waiting command is none that a bank executes.
WaitingApart == wr # None /\ wr.op # "hole" => \A b \in Banks : bank[b] # wr

\* The bank of the next page that is programmed, and the banks in turn.
Turn ==
  IF pc \in {"left", "right", "program"} THEN new.bank
  ELSE IF pc = "stopped" THEN (g_target_bank + NumBanks - 1) % NumBanks
  ELSE g_target_bank

InTurn ==
  /\ pc \in {"left", "right", "program"} => g_target_bank = (new.bank + 1) % NumBanks
  /\ \A c \in OutFor("program") :
       (c.bank + Ahead(c.buf, g_ftl_write_buf_id, NumWrBuffers)) % NumBanks = Turn

\* A hole in flight is of the page that is being prepared, or of the one whose program
\* waits for the bank that reads it.
HolesOfPage ==
  /\ pc \in {"left", "right"} => HasHoles
  /\ \A h \in OutFor("hole") :
       \/ /\ pc \in {"right", "program"} /\ HasHoles
          /\ h.buf = g_ftl_write_buf_id /\ h.bank = Old.bank
       \/ /\ wr # None /\ wr.op = "program" /\ h.buf = wr.buf /\ h.bank = wr.bank
          /\ bank[h.bank] = h

IInv == RingTypeOK /\ ReadRing /\ WriteRing /\ WaitingApart /\ InTurn /\ HolesOfPage

-----------------------------------------------------------------------------
(***************************************************************************)
(* Cursors of a ring.                                                      *)
(***************************************************************************)
\* The remainder of a number that is less than twice the divisor.
LEMMA ModIs ==
  ASSUME NEW d \in Nat \ {0}, NEW a \in 0 .. 2 * d - 1
  PROVE  a % d = IF a < d THEN a ELSE a - d
  OBVIOUS

\* The distance of two cursors, without the remainder.
LEMMA AheadIs ==
  ASSUME NEW size \in Nat \ {0}, NEW l \in 0 .. size - 1, NEW t \in 0 .. size - 1
  PROVE  /\ Ahead(l, t, size) = IF t >= l THEN t - l ELSE t - l + size
         /\ Ahead(l, t, size) \in 0 .. size - 1
<1>1. PICK a : a = t - l + size /\ a \in 0 .. 2 * size - 1
  OBVIOUS
<1>2. a % size = IF a < size THEN a ELSE a - size
  BY <1>1, ModIs
<1>. QED BY <1>1, <1>2 DEF Ahead

\* The cursor that is j buffers further.
LEMMA FurtherIs ==
  ASSUME NEW size \in Nat \ {0}, NEW l \in 0 .. size - 1, NEW j \in 0 .. size
  PROVE  /\ (l + j) % size = IF l + j < size THEN l + j ELSE l + j - size
         /\ (l + j) % size \in 0 .. size - 1
<1>1. PICK a : a = l + j /\ a \in 0 .. 2 * size - 1
  OBVIOUS
<1>2. a % size = IF a < size THEN a ELSE a - size
  BY <1>1, ModIs
<1>. QED BY <1>1, <1>2

\* A buffer is in the window if it is nearer to the limit than the cursor is.
LEMMA InWindow ==
  ASSUME NEW size \in Nat \ {0}, NEW l \in 0 .. size - 1, NEW t \in 0 .. size - 1
  PROVE  \A x : x \in Window(l, t, size) <=>
                x \in 0 .. size - 1 /\ Ahead(l, x, size) < Ahead(l, t, size)
<1> DEFINE A == Ahead(l, t, size)
<1>1. A \in 0 .. size - 1
  BY AheadIs
<1>2. ASSUME NEW j \in 0 .. A - 1
      PROVE  (l + j) % size \in 0 .. size - 1 /\ Ahead(l, (l + j) % size, size) = j
  <2>1. PICK x : x = (l + j) % size
    OBVIOUS
  <2>2. j \in 0 .. size
    BY <1>1
  <2>3. x = (IF l + j < size THEN l + j ELSE l + j - size) /\ x \in 0 .. size - 1
    BY <2>1, <2>2, FurtherIs
  <2>4. Ahead(l, x, size) = IF x >= l THEN x - l ELSE x - l + size
    BY <2>3, AheadIs
  <2>. QED BY <1>1, <2>1, <2>3, <2>4
<1>3. ASSUME NEW x \in 0 .. size - 1, Ahead(l, x, size) < A
      PROVE  Ahead(l, x, size) \in 0 .. A - 1 /\ (l + Ahead(l, x, size)) % size = x
  <2>1. PICK j : j = Ahead(l, x, size)
    OBVIOUS
  <2>2. j = (IF x >= l THEN x - l ELSE x - l + size) /\ j \in 0 .. size
    <3>1. j = (IF x >= l THEN x - l ELSE x - l + size) /\ j \in 0 .. size - 1
      BY <2>1, AheadIs, Zenon
    <3>. QED BY <3>1
  <2>3. (l + j) % size = IF l + j < size THEN l + j ELSE l + j - size
    BY <2>2, FurtherIs
  <2>. QED BY <1>1, <1>3, <2>1, <2>2, <2>3
<1>4. Window(l, t, size) = {(l + j) % size : j \in 0 .. A - 1}
  BY DEF Window
<1>. HIDE DEF A
<1>5. ASSUME NEW x PROVE x \in Window(l, t, size) <=> x \in 0 .. size - 1 /\ Ahead(l, x, size) < A
  <2>1. ASSUME x \in Window(l, t, size)
        PROVE  x \in 0 .. size - 1 /\ Ahead(l, x, size) < A
    <3>1. PICK j \in 0 .. A - 1 : x = (l + j) % size
      BY <1>4, <2>1
    <3>2. x \in 0 .. size - 1 /\ Ahead(l, x, size) = j
      BY <1>2, <3>1
    <3>. QED BY <1>1, <3>2
  <2>2. ASSUME x \in 0 .. size - 1, Ahead(l, x, size) < A
        PROVE  x \in Window(l, t, size)
    BY <1>3, <1>4, <2>2
  <2>. QED BY <2>1, <2>2
<1>. QED BY <1>5 DEF A

\* The next buffer: the distance grows by one, unless the ring is full.
LEMMA NextAhead ==
  ASSUME NEW size \in Nat \ {0}, NEW l \in 0 .. size - 1, NEW t \in 0 .. size - 1,
         Ahead(l, t, size) < size - 1
  PROVE  /\ (t + 1) % size \in 0 .. size - 1 /\ (t + 1) % size # l
         /\ Ahead(l, (t + 1) % size, size) = Ahead(l, t, size) + 1
<1>1. PICK x : x = (t + 1) % size
  OBVIOUS
<1>2. x = (IF t + 1 < size THEN t + 1 ELSE t + 1 - size) /\ x \in 0 .. size - 1
  BY <1>1, FurtherIs
<1>3. Ahead(l, x, size) = IF x >= l THEN x - l ELSE x - l + size
  BY <1>2, AheadIs
<1>4. Ahead(l, t, size) = IF t >= l THEN t - l ELSE t - l + size
  BY AheadIs
<1>. QED BY <1>1, <1>2, <1>3, <1>4

\* The cursor behind another one, when it moves up to at most that one.
LEMMA AheadOfFurther ==
  ASSUME NEW size \in Nat \ {0}, NEW l \in 0 .. size - 1, NEW t \in 0 .. size - 1,
         NEW k \in 0 .. Ahead(l, t, size)
  PROVE  /\ (l + k) % size \in 0 .. size - 1
         /\ Ahead((l + k) % size, t, size) = Ahead(l, t, size) - k
<1>1. PICK x, A : x = (l + k) % size /\ A = Ahead(l, t, size)
  OBVIOUS
<1>2. A = (IF t >= l THEN t - l ELSE t - l + size) /\ A \in 0 .. size - 1 /\ k \in 0 .. A
  BY <1>1, AheadIs
<1>3. x = (IF l + k < size THEN l + k ELSE l + k - size) /\ x \in 0 .. size - 1
  <2>1. k \in 0 .. size
    BY <1>2
  <2>. QED BY <1>1, <2>1, FurtherIs
<1>4. Ahead(x, t, size) = IF t >= x THEN t - x ELSE t - x + size
  BY <1>3, AheadIs
<1>. QED BY <1>1, <1>2, <1>3, <1>4

\* Distances add up, unless they go around.
LEMMA AheadSum ==
  ASSUME NEW size \in Nat \ {0}, NEW p \in 0 .. size - 1, NEW l \in 0 .. size - 1,
         NEW t \in 0 .. size - 1
  PROVE  Ahead(p, t, size) = Ahead(p, l, size) + Ahead(l, t, size)
           <=> Ahead(p, l, size) <= Ahead(p, t, size)
<1>1. /\ Ahead(p, t, size) = IF t >= p THEN t - p ELSE t - p + size
      /\ Ahead(p, l, size) = IF l >= p THEN l - p ELSE l - p + size
      /\ Ahead(l, t, size) = IF t >= l THEN t - l ELSE t - l + size
  BY AheadIs
<1>. QED BY <1>1

-----------------------------------------------------------------------------
(***************************************************************************)
(* What the operations do to a ring.                                       *)
(***************************************************************************)
\* The number of the naturals below n.
LEMMA CardBelow ==
  ASSUME NEW n \in Nat
  PROVE  IsFiniteSet(0 .. n - 1) /\ Cardinality(0 .. n - 1) = n
<1>1. PICK m : m = n - 1 /\ m \in Int
  OBVIOUS
<1>2. IsFiniteSet(0 .. m) /\ Cardinality(0 .. m) = IF 0 > m THEN 0 ELSE m - 0 + 1
  BY <1>1, FS_Interval
<1>. QED BY <1>1, <1>2

\* A non-empty set of naturals has a least element.
LEMMA LeastIn ==
  ASSUME NEW S \in SUBSET Nat, S # {}
  PROVE  \E k \in S : \A y \in S : k <= y
<1>1. PICK x \in S : \A y \in S : ~ (<<y, x>> \in OpToRel(<, Nat))
  BY NatLessThanWellFounded, WFMin, Zenon
<1>2. \A y \in S : ~(y < x)
  BY <1>1, Zenon DEF OpToRel
<1>. QED BY <1>2

\* A window has as many buffers as the distance of its ends.
LEMMA WindowSize ==
  ASSUME NEW size \in Nat \ {0}, NEW l \in 0 .. size - 1, NEW t \in 0 .. size - 1
  PROVE  /\ IsFiniteSet(Window(l, t, size))
         /\ Cardinality(Window(l, t, size)) = Ahead(l, t, size)
<1> DEFINE f == [j \in 0 .. Ahead(l, t, size) - 1 |-> (l + j) % size]
<1>1. PICK A : A = Ahead(l, t, size) /\ A \in 0 .. size - 1
  BY AheadIs
<1>2. ASSUME NEW i \in 0 .. A - 1, NEW j \in 0 .. A - 1, (l + i) % size = (l + j) % size
      PROVE  i = j
  <2>1. i \in 0 .. size /\ j \in 0 .. size
    BY <1>1
  <2>2. /\ (l + i) % size = IF l + i < size THEN l + i ELSE l + i - size
        /\ (l + j) % size = IF l + j < size THEN l + j ELSE l + j - size
    BY <2>1, FurtherIs
  <2>. QED BY <1>1, <1>2, <2>2
<1>3. f \in Bijection(0 .. A - 1, Window(l, t, size))
  BY <1>1, <1>2 DEF Bijection, Injection, Surjection, Window, IsInjective
<1>4. IsFiniteSet(0 .. A - 1) /\ Cardinality(0 .. A - 1) = A
  BY <1>1, CardBelow
<1>5. ExistsBijection(0 .. A - 1, Window(l, t, size))
  BY <1>3, Zenon DEF ExistsBijection
<1>. QED BY <1>1, <1>4, <1>5, FS_Bijection

\* The distance from the limit to the cursor is the number of the commands in flight
\* and of the finished buffers.
LEMMA RingCount ==
  ASSUME NEW size \in Nat \ {0}, NEW l, NEW t, NEW out, NEW done,
         Ring(l, t, size, out, done), IsFiniteSet(out)
  PROVE  Ahead(l, t, size) = Cardinality(out) + Cardinality(done)
<1> DEFINE f == [c \in out |-> c.buf]
<1>1. IsFiniteSet(Window(l, t, size)) /\ Cardinality(Window(l, t, size)) = Ahead(l, t, size)
  BY WindowSize DEF Ring
<1>2. f \in Bijection(out, Bufs(out))
  BY DEF Ring, Bijection, Injection, Surjection, IsInjective, Bufs
<1>3. ExistsBijection(out, Bufs(out))
  BY <1>2, Zenon DEF ExistsBijection
<1>4. IsFiniteSet(Bufs(out)) /\ Cardinality(Bufs(out)) = Cardinality(out)
  BY <1>3, FS_Bijection
<1>5. IsFiniteSet(done)
  BY <1>1, FS_Subset DEF Ring
<1>6. Cardinality(Bufs(out) \union done) =
        Cardinality(Bufs(out)) + Cardinality(done) - Cardinality(Bufs(out) \cap done)
  BY <1>4, <1>5, FS_Union
<1>7. Cardinality(Bufs(out) \cap done) = 0
  BY FS_EmptySet DEF Ring
<1>8. Cardinality(out) \in Nat /\ Cardinality(done) \in Nat
  BY <1>5, FS_CardinalityType
<1>9. Bufs(out) \union done = Window(l, t, size)
  BY DEF Ring
<1>10. Ahead(l, t, size) = Cardinality(Bufs(out)) + Cardinality(done) - 0
  BY <1>1, <1>6, <1>7, <1>9, Zenon
<1>. QED BY <1>4, <1>8, <1>10

\* As long as the window is not empty, the command of its first buffer is in flight.
LEMMA RingOldest ==
  ASSUME NEW size \in Nat \ {0}, NEW l, NEW t, NEW out, NEW done,
         Ring(l, t, size, out, done), Ahead(l, t, size) > 0
  PROVE  \E c \in out : c.buf = l
<1>1. Ahead(l, l, size) = 0
  BY AheadIs DEF Ring
<1>2. l \in Window(l, t, size)
  BY <1>1, InWindow DEF Ring
<1>. QED BY <1>2 DEF Ring, Bufs

\* Without commands in flight the window is empty.
LEMMA RingIdle ==
  ASSUME NEW size \in Nat \ {0}, NEW l, NEW t, NEW done, Ring(l, t, size, {}, done)
  PROVE  done = {} /\ t = l /\ Ahead(l, t, size) = 0
<1>1. /\ Ahead(l, t, size) = IF t >= l THEN t - l ELSE t - l + size
      /\ Ahead(l, t, size) \in 0 .. size - 1
  BY AheadIs DEF Ring
<1>2. ~(Ahead(l, t, size) > 0)
  BY RingOldest
<1>3. Window(l, t, size) = {}
  BY <1>1, <1>2 DEF Window
<1>. QED BY <1>1, <1>2, <1>3 DEF Ring

\* A ring with nothing in it.
LEMMA RingEmpty ==
  ASSUME NEW size \in Nat \ {0}, NEW l \in 0 .. size - 1
  PROVE  Ring(l, l, size, {}, {}) /\ Ahead(l, l, size) = 0
<1>1. Ahead(l, l, size) = 0
  BY AheadIs
<1>2. Window(l, l, size) = {}
  BY <1>1 DEF Window
<1>. QED BY <1>1, <1>2 DEF Ring, Bufs

\* A command is issued for the buffer at the cursor.
LEMMA RingIssue ==
  ASSUME NEW size \in Nat \ {0}, NEW l, NEW t, NEW out, NEW done, NEW c,
         Ring(l, t, size, out, done), Ahead(l, t, size) < size - 1, c.buf = t
  PROVE  /\ Ring(l, (t + 1) % size, size, out \union {c}, done)
         /\ Ahead(l, (t + 1) % size, size) = Ahead(l, t, size) + 1
<1>1. PICK u : u = (t + 1) % size
  OBVIOUS
<1>2. u \in 0 .. size - 1 /\ Ahead(l, u, size) = Ahead(l, t, size) + 1
  BY <1>1, NextAhead DEF Ring
<1>3. \A x : x \in Window(l, t, size) <=> x \in 0 .. size - 1 /\ Ahead(l, x, size) < Ahead(l, t, size)
  BY InWindow DEF Ring
<1>4. \A x : x \in Window(l, u, size) <=> x \in 0 .. size - 1 /\ Ahead(l, x, size) < Ahead(l, u, size)
  BY <1>2, InWindow DEF Ring
<1>5. \A x \in 0 .. size - 1 : /\ Ahead(l, x, size) = IF x >= l THEN x - l ELSE x - l + size
                               /\ Ahead(l, x, size) \in 0 .. size - 1
  BY AheadIs DEF Ring
<1>6. Window(l, u, size) = Window(l, t, size) \union {t}
  <2>1. \A x \in 0 .. size - 1 : Ahead(l, x, size) < Ahead(l, t, size) + 1
                                   <=> Ahead(l, x, size) < Ahead(l, t, size) \/ x = t
    BY <1>5 DEF Ring
  <2>2. t \in 0 .. size - 1
    BY DEF Ring
  <2>. QED BY <1>2, <1>3, <1>4, <2>1, <2>2
<1>7. t \notin Window(l, t, size)
  BY <1>3, <1>5 DEF Ring
<1>8. Bufs(out \union {c}) = Bufs(out) \union {t}
  BY DEF Bufs
<1>9. \A d \in out : d.buf # t
  BY <1>7 DEF Ring, Bufs
<1>10. Ring(l, u, size, out \union {c}, done)
  <2>1. /\ Bufs(out \union {c}) \union done = Window(l, u, size)
        /\ Bufs(out \union {c}) \cap done = {}
    BY ZenonT(60), <1>6, <1>7, <1>8 DEF Ring
  <2>2. \A d, e \in out \union {c} : d.buf = e.buf => d = e
    BY <1>9 DEF Ring
  <2>. QED BY <1>2, <2>1, <2>2 DEF Ring
<1>. QED BY <1>1, <1>2, <1>10

\* The limit passes the finished buffers up to the first one that is not.
LEMMA PassedIs ==
  ASSUME NEW size \in Nat \ {0}, NEW l \in 0 .. size - 1, NEW t \in 0 .. size - 1,
         NEW done \in SUBSET Window(l, t, size)
  PROVE  /\ Passed(l, done, size) \in 0 .. Ahead(l, t, size)
         /\ \A j \in 0 .. Passed(l, done, size) - 1 : (l + j) % size \in done
         /\ (l + Passed(l, done, size)) % size \notin done
<1> DEFINE P(k) == /\ \A j \in 0 .. k - 1 : (l + j) % size \in done
                   /\ (l + k) % size \notin done
<1>1. PICK A : A = Ahead(l, t, size) /\ A \in 0 .. size - 1
  BY AheadIs
<1>2. (l + A) % size \notin done
  <2>1. PICK x : x = (l + A) % size
    OBVIOUS
  <2>2. A \in 0 .. Ahead(l, t, size)
    BY <1>1
  <2>3. x \in 0 .. size - 1 /\ Ahead(x, t, size) = Ahead(l, t, size) - A
    BY <2>1, <2>2, AheadOfFurther
  <2>4. Ahead(x, t, size) = IF t >= x THEN t - x ELSE t - x + size
    BY <2>3, AheadIs
  <2>5. x = t
    BY <1>1, <2>3, <2>4
  <2>6. t \notin Window(l, t, size)
    BY <1>1, InWindow
  <2>. QED BY <2>1, <2>5, <2>6
<1>3. \E k \in 0 .. A : P(k)
  <2> DEFINE S == {k \in Nat : (l + k) % size \notin done}
  <2>1. A \in S /\ S \in SUBSET Nat
    BY <1>1, <1>2
  <2>2. PICK k \in S : \A y \in S : k <= y
    <3>. HIDE DEF S
    <3>. QED BY <2>1, LeastIn
  <2>3. k \in 0 .. A
    <3>1. k \in Nat /\ k <= A
      <4>. HIDE DEF S
      <4>. QED BY <2>1, <2>2
    <3>. QED BY <1>1, <3>1
  <2>4. ASSUME NEW j \in 0 .. k - 1 PROVE (l + j) % size \in done
    <3>1. j \in Nat /\ ~(k <= j)
      BY <2>3
    <3>2. j \notin S
      BY <2>2, <3>1
    <3>. QED BY <3>1, <3>2
  <2>. QED BY <2>2, <2>3, <2>4
<1>4. IsFiniteSet(done) /\ Cardinality(done) \in Nat
  BY WindowSize, FS_Subset, FS_CardinalityType
<1>5. ASSUME NEW k \in Nat, P(k) PROVE k <= A
  <2>1. ASSUME A < k PROVE FALSE
    <3>1. A \in 0 .. k - 1
      BY <1>1, <2>1
    <3>. QED BY <1>2, <1>5, <3>1
  <2>. QED BY <1>1, <2>1
<1>6. ASSUME NEW k \in 0 .. A, P(k) PROVE k <= Cardinality(done)
  <2> DEFINE f == [j \in 0 .. k - 1 |-> (l + j) % size]
  <2>1. ASSUME NEW i \in 0 .. k - 1, NEW j \in 0 .. k - 1, (l + i) % size = (l + j) % size
        PROVE  i = j
    <3>1. i \in 0 .. size /\ j \in 0 .. size
      BY <1>1
    <3>2. /\ (l + i) % size = IF l + i < size THEN l + i ELSE l + i - size
          /\ (l + j) % size = IF l + j < size THEN l + j ELSE l + j - size
      BY <3>1, FurtherIs
    <3>. QED BY <1>1, <2>1, <3>2
  <2>2. f \in Injection(0 .. k - 1, done)
    BY <1>6, <2>1 DEF Injection, IsInjective
  <2>3. Cardinality(0 .. k - 1) = k
    BY <1>1, CardBelow
  <2>4. Cardinality(0 .. k - 1) <= Cardinality(done)
    BY <1>4, <2>2, FS_Injection
  <2>. QED BY <2>3, <2>4
<1>. HIDE DEF P
<1>7. PICK k \in 0 .. Cardinality(done) : P(k)
  <2>1. PICK k \in 0 .. A : P(k)
    BY <1>3
  <2>2. k \in Nat /\ k <= Cardinality(done)
    BY <1>6, <2>1
  <2>3. k \in 0 .. Cardinality(done)
    BY <1>4, <2>2
  <2>. QED BY <2>1, <2>3
<1>8. /\ Passed(l, done, size) \in 0 .. Cardinality(done)
      /\ P(Passed(l, done, size))
  BY <1>7, Zenon DEF Passed, P
<1>9. PICK m : m = Passed(l, done, size)
  OBVIOUS
<1>10. m \in Nat /\ P(m)
  BY <1>4, <1>8, <1>9
<1>11. m \in 0 .. A
  BY <1>1, <1>5, <1>10
<1>. QED BY <1>1, <1>9, <1>10, <1>11 DEF P

\* A command finishes: the limit passes the buffers that are finished now.
LEMMA RingFinish ==
  ASSUME NEW size \in Nat \ {0}, NEW l, NEW t, NEW out, NEW done, NEW c \in out,
         Ring(l, t, size, out, done), NEW k,
         k = Passed(l, done \union {c.buf}, size)
  PROVE  /\ k \in 0 .. Ahead(l, t, size)
         /\ Ring((l + k) % size, t, size, out \ {c},
                 (done \union {c.buf}) \ Covered(l, done \union {c.buf}, size))
         /\ Ahead((l + k) % size, t, size) = Ahead(l, t, size) - k
<1>1. PICK all : all = done \union {c.buf}
  OBVIOUS
<1>2. PICK A : A = Ahead(l, t, size) /\ A \in 0 .. size - 1
  BY AheadIs DEF Ring
<1>3. l \in 0 .. size - 1 /\ t \in 0 .. size - 1
  BY DEF Ring
<1>4. all \in SUBSET Window(l, t, size)
  BY <1>1 DEF Ring, Bufs
<1>5. /\ k \in 0 .. A
      /\ \A j \in 0 .. k - 1 : (l + j) % size \in all
      /\ (l + k) % size \notin all
  BY <1>1, <1>2, <1>3, <1>4, PassedIs
<1>6. PICK m : m = (l + k) % size
  OBVIOUS
<1>7. m \in 0 .. size - 1 /\ Ahead(m, t, size) = A - k
  BY <1>2, <1>3, <1>5, <1>6, AheadOfFurther
<1>8. k \in 0 .. size /\ m = IF l + k < size THEN l + k ELSE l + k - size
  <2>1. k \in 0 .. size
    BY <1>2, <1>5
  <2>. QED BY <1>3, <1>6, <2>1, FurtherIs
<1>9. PICK gone : gone = Covered(l, all, size)
  OBVIOUS
<1>10. gone = {(l + j) % size : j \in 0 .. k - 1}
  BY <1>1, <1>9 DEF Covered
<1>11. gone \subseteq all
  BY <1>5, <1>10
<1>12. \A x \in 0 .. size - 1 : x \in gone <=> Ahead(l, x, size) < k
  <2>1. ASSUME NEW j \in 0 .. k - 1
        PROVE  (l + j) % size \in 0 .. size - 1 /\ Ahead(l, (l + j) % size, size) = j
    <3>1. PICK y : y = (l + j) % size
      OBVIOUS
    <3>2. j \in 0 .. size
      BY <1>8
    <3>3. y = (IF l + j < size THEN l + j ELSE l + j - size) /\ y \in 0 .. size - 1
      BY <1>3, <3>1, <3>2, FurtherIs
    <3>4. Ahead(l, y, size) = IF y >= l THEN y - l ELSE y - l + size
      BY <1>3, <3>3, AheadIs
    <3>. QED BY <1>2, <1>3, <1>5, <3>1, <3>3, <3>4
  <2>2. ASSUME NEW x \in 0 .. size - 1, Ahead(l, x, size) < k
        PROVE  Ahead(l, x, size) \in 0 .. k - 1 /\ (l + Ahead(l, x, size)) % size = x
    <3>1. PICK j : j = Ahead(l, x, size)
      OBVIOUS
    <3>2. j = IF x >= l THEN x - l ELSE x - l + size
      BY <1>3, <3>1, AheadIs
    <3>3. j \in 0 .. size
      BY <1>3, <3>2
    <3>4. (l + j) % size = IF l + j < size THEN l + j ELSE l + j - size
      BY <1>3, <3>3, FurtherIs
    <3>. QED BY <1>3, <1>8, <2>2, <3>1, <3>2, <3>3, <3>4
  <2>3. ASSUME NEW x \in 0 .. size - 1, x \in gone PROVE Ahead(l, x, size) < k
    <3>1. PICK j \in 0 .. k - 1 : x = (l + j) % size
      BY <1>10, <2>3
    <3>2. Ahead(l, x, size) = j
      BY <2>1, <3>1, Zenon
    <3>. QED BY <1>5, <3>2
  <2>4. ASSUME NEW x \in 0 .. size - 1, Ahead(l, x, size) < k PROVE x \in gone
    BY <1>10, <2>2, <2>4
  <2>. QED BY <2>3, <2>4
<1>13. Window(m, t, size) = Window(l, t, size) \ gone
  <2>1. \A x : x \in Window(l, t, size) <=> x \in 0 .. size - 1 /\ Ahead(l, x, size) < A
    BY <1>2, <1>3, InWindow
  <2>2. \A x : x \in Window(m, t, size) <=> x \in 0 .. size - 1 /\ Ahead(m, x, size) < A - k
    BY <1>3, <1>7, InWindow
  <2>3. ASSUME NEW x \in 0 .. size - 1
        PROVE  Ahead(m, x, size) < A - k <=> Ahead(l, x, size) < A /\ ~(Ahead(l, x, size) < k)
    <3>1. /\ Ahead(l, x, size) = IF x >= l THEN x - l ELSE x - l + size
          /\ Ahead(m, x, size) = IF x >= m THEN x - m ELSE x - m + size
      BY <1>3, <1>7, AheadIs
    <3>. QED BY <1>2, <1>3, <1>5, <1>7, <1>8, <3>1
  <2>. QED BY <1>12, <2>1, <2>2, <2>3
<1>14. Bufs(out) = Bufs(out \ {c}) \union {c.buf} /\ c.buf \notin Bufs(out \ {c})
  BY DEF Ring, Bufs
<1>15. /\ Bufs(out \ {c}) \union (all \ gone) = Window(m, t, size)
       /\ Bufs(out \ {c}) \cap (all \ gone) = {}
  <2>1. Bufs(out) \union done = Window(l, t, size) /\ Bufs(out) \cap done = {}
    BY DEF Ring
  <2>. QED BY <1>1, <1>11, <1>13, <1>14, <2>1
<1>16. Ring(m, t, size, out \ {c}, all \ gone)
  BY <1>3, <1>5, <1>6, <1>7, <1>15 DEF Ring
<1>. QED BY <1>1, <1>2, <1>5, <1>6, <1>7, <1>9, <1>16

-----------------------------------------------------------------------------
(***************************************************************************)
(* Commands in flight, and the pieces of a request.                        *)
(***************************************************************************)
\* What is in flight are commands, finitely many of them.
LEMMA InFlightType ==
  ASSUME RingTypeOK
  PROVE  InFlight \subseteq Commands /\ IsFiniteSet(InFlight)
<1> DEFINE T == {bank[b] : b \in Banks}
<1>1. InFlight \subseteq Commands
  BY DEF RingTypeOK, InFlight
<1>2. PICK m : m = NumBanks - 1 /\ m \in Int
  BY FlashAssumption
<1>3. IsFiniteSet(Banks)
  BY <1>2, FS_Interval DEF Banks
<1>4. bank \in Surjection(Banks, T)
  BY DEF RingTypeOK, Surjection
<1>5. IsFiniteSet(T)
  BY <1>3, <1>4, FS_Surjection
<1>6. IsFiniteSet(T \union {wr})
  BY <1>5, FS_AddElement
<1>7. InFlight \in SUBSET (T \union {wr})
  BY DEF InFlight
<1>. QED BY <1>1, <1>6, <1>7, FS_Subset

\* A command that is issued is in flight with the others.
LEMMA Issued ==
  ASSUME NEW c \in Commands, wr = None, wr' = c, bank' = bank
  PROVE  InFlight' = InFlight \union {c}
  BY NoneAssumption DEF InFlight

\* A bank that takes the waiting command changes nothing about what is in flight.
LEMMA Accepted ==
  ASSUME RingTypeOK, Accept
  PROVE  InFlight' = InFlight
<1>1. wr \in Commands /\ wr.bank \in Banks /\ bank[wr.bank] = None
  BY DEF RingTypeOK, Accept, Commands
<1>2. /\ wr' = None
      /\ \A b \in Banks : bank'[b] = IF b = wr.bank THEN wr ELSE bank[b]
  BY <1>1 DEF RingTypeOK, Accept
<1>. QED BY <1>1, <1>2, NoneAssumption DEF InFlight

\* A command that a bank has finished is no longer in flight, unless an equal command,
\* which must be one for a hole, is waiting.
LEMMA Finished ==
  ASSUME RingTypeOK, WaitingApart, NEW b \in Banks, NEW c, c = bank[b], c # None,
         bank' = [bank EXCEPT ![b] = None], wr' = wr
  PROVE  /\ InFlight' \subseteq InFlight /\ InFlight \ {c} \subseteq InFlight'
         /\ c.op # "hole" => InFlight' = InFlight \ {c}
<1>1. \A a \in Banks : bank'[a] = IF a = b THEN None ELSE bank[a]
  BY DEF RingTypeOK
<1>2. \A a \in Banks : a # b => bank[a] # c
  BY DEF RingTypeOK
<1>3. InFlight' \subseteq InFlight /\ InFlight \ {c} \subseteq InFlight'
  BY <1>1 DEF InFlight
<1>4. ASSUME c.op # "hole" PROVE c \notin InFlight'
  <2>1. wr # c
    BY <1>4 DEF WaitingApart
  <2>. QED BY <1>1, <1>2, <2>1 DEF InFlight
<1>. QED BY <1>3, <1>4

\* The first piece of a request lies in a logical page, and what remains is a request.
LEMMA PieceOf ==
  ASSUME NEW c \in [op : {"none", "read", "write"}, lba : Nat, n : Nat], c.n > 0,
         c.lba + c.n <= NumLpns * SectorsPerPage
  PROVE  /\ Lpn(c) \in Lpns /\ Offset(c) \in Sectors
         /\ PieceLen(c) \in 1 .. c.n /\ Offset(c) + PieceLen(c) <= SectorsPerPage
         /\ Rest(c) \in [op : {"none", "read", "write"}, lba : Nat, n : Nat]
         /\ Rest(c).op = c.op /\ Rest(c).lba + Rest(c).n = c.lba + c.n
<1>1. PICK S : S = SectorsPerPage /\ S \in Nat \ {0}
  BY FlashAssumption
<1>2. PICK a, k : a = c.lba /\ k = c.n /\ a \in Nat /\ k \in Nat /\ k > 0
  OBVIOUS
<1>3. PICK q, o : q = a \div S /\ o = a % S
  OBVIOUS
<1>4. o \in 0 .. S - 1 /\ q \in Int /\ a = S * q + o
  BY <1>1, <1>2, <1>3
<1>5. q \in Nat
  <2>1. ASSUME q < 0 PROVE FALSE
    <3>1. S * q <= S * (-1)
      BY <1>1, <1>4, <2>1
    <3>. QED BY <1>1, <1>2, <1>4, <3>1
  <2>. QED BY <1>4, <2>1
<1>6. q < NumLpns
  <2>1. NumLpns \in Nat
    BY TutorialAssumption
  <2>2. ASSUME q >= NumLpns PROVE FALSE
    <3>1. S * q >= S * NumLpns
      BY <1>1, <1>5, <2>1, <2>2
    <3>2. S * NumLpns = NumLpns * S
      BY <1>1, <2>1
    <3>3. a + k <= NumLpns * S
      BY <1>1, <1>2
    <3>. QED BY <1>1, <1>2, <1>4, <1>5, <2>1, <3>1, <3>2, <3>3
  <2>. QED BY <1>5, <2>1, <2>2
<1>7. Lpn(c) = q /\ Offset(c) = o
  BY <1>1, <1>2, <1>3 DEF Lpn, Offset
<1>8. PICK p : p = PieceLen(c)
  OBVIOUS
<1>9. p = IF o + k < S THEN k ELSE S - o
  BY <1>1, <1>2, <1>7, <1>8 DEF PieceLen
<1>10. p \in 1 .. k /\ o + p <= S
  BY <1>1, <1>2, <1>4, <1>9
<1>11. Rest(c) = [c EXCEPT !.lba = @ + p, !.n = @ - p]
  BY <1>8 DEF Rest
<1>12. Rest(c) \in [op : {"none", "read", "write"}, lba : Nat, n : Nat]
       /\ Rest(c).op = c.op /\ Rest(c).lba = a + p /\ Rest(c).n = k - p
  <2>1. PICK r : r = [c EXCEPT !.lba = @ + p, !.n = @ - p]
    OBVIOUS
  <2>2. r.op = c.op /\ r.lba = a + p /\ r.n = k - p /\ r = [op |-> r.op, lba |-> r.lba, n |-> r.n]
    BY <1>2, <2>1
  <2>3. r.op \in {"none", "read", "write"} /\ r.lba \in Nat /\ r.n \in Nat
    BY <1>2, <1>10, <2>2
  <2>4. r \in [op : {"none", "read", "write"}, lba : Nat, n : Nat]
    BY <2>2, <2>3
  <2>. QED BY <1>11, <2>1, <2>2, <2>4
<1>13. Lpn(c) \in Lpns /\ Offset(c) \in Sectors
  BY <1>1, <1>4, <1>5, <1>6, <1>7, TutorialAssumption DEF Lpns, Sectors
<1>14. Rest(c).lba + Rest(c).n = c.lba + c.n
  BY <1>2, <1>10, <1>12
<1>. QED BY <1>1, <1>2, <1>7, <1>8, <1>10, <1>12, <1>13, <1>14

-----------------------------------------------------------------------------
(***************************************************************************)
(* The invariant and the steps, one lemma for each action.                 *)
(***************************************************************************)
\* A step that touches neither commands nor cursors nor the FTL's place keeps the
\* invariant: a host that sends a command or the data of one, and a stuttering step.
LEMMA ElsewhereKeeps ==
  ASSUME IInv, eventq' \in Seq(Requests), rbuf_ptr' = rbuf_ptr,
         UNCHANGED <<wr, bank, rd_limit, rd_done, wr_limit, wr_done>>,
         UNCHANGED <<page_map, g_target_bank, g_target_row, g_ftl_read_buf_id,
                     g_ftl_write_buf_id, pc, cmd, new>>
  PROVE  IInv'
<1>1. InFlight' = InFlight /\ OutFor("read")' = OutFor("read")
      /\ OutFor("program")' = OutFor("program") /\ OutFor("hole")' = OutFor("hole")
  BY DEF InFlight, OutFor
<1>2. Turn' = Turn /\ Old' = Old /\ (HasHoles <=> HasHoles')
  BY DEF Turn, Old, HasHoles, LeftHole, RightHole
<1>3. RingTypeOK'
  BY DEF IInv, RingTypeOK
<1>4. ReadRing'
  BY <1>1 DEF IInv, ReadRing
<1>5. WriteRing' /\ WaitingApart'
  BY <1>1 DEF IInv, WriteRing, WaitingApart
<1>6. InTurn'
  BY <1>1, <1>2 DEF IInv, InTurn
<1>7. HolesOfPage'
  BY <1>1, <1>2 DEF IInv, HolesOfPage
<1>. QED BY <1>3, <1>4, <1>5, <1>6, <1>7 DEF IInv

\* The host may send a command at any time.
LEMMA HostSendsKeeps == ASSUME IInv, NEW r \in Requests, HostSends(r) PROVE IInv'
<1>1. eventq' \in Seq(Requests)
  BY DEF HostSends, IInv, RingTypeOK
<1>. QED BY <1>1, ElsewhereKeeps DEF HostSends, ctrlVars, ftlVars

\* The data of a write fill a write buffer.
LEMMA PageFromHostKeeps == ASSUME IInv, PageFromHost PROVE IInv'
<1>1. eventq' \in Seq(Requests)
  BY DEF PageFromHost, IInv, RingTypeOK
<1>. QED BY <1>1, ElsewhereKeeps DEF PageFromHost, FillBuffer, ftlVars

\* The SATA hardware sends a read buffer and stays behind the read limit.
LEMMA PageToHostKeeps == ASSUME IInv, PageToHost PROVE IInv'
<1>1. InFlight' = InFlight /\ OutFor("read")' = OutFor("read")
      /\ OutFor("program")' = OutFor("program") /\ OutFor("hole")' = OutFor("hole")
  BY DEF InFlight, OutFor, PageToHost, SendBuffer
<1>2. Turn' = Turn /\ Old' = Old /\ (HasHoles <=> HasHoles')
  BY DEF Turn, Old, HasHoles, LeftHole, RightHole, PageToHost, ftlVars
<1>3. PICK p, l, g, S : /\ p = rbuf_ptr /\ l = rd_limit /\ g = g_ftl_read_buf_id /\ S = NumRdBuffers
  OBVIOUS
<1>4. /\ S \in Nat \ {0} /\ p \in 0 .. S - 1 /\ l \in 0 .. S - 1 /\ g \in 0 .. S - 1 /\ p # l
      /\ Ahead(p, g, S) = Ahead(p, l, S) + Ahead(l, g, S)
  BY <1>3, FlashAssumption DEF IInv, RingTypeOK, ReadRing, Ring, PageToHost, SendBuffer
<1>5. PICK q : q = (p + 1) % S
  OBVIOUS
<1>6. rbuf_ptr' = q
  BY <1>3, <1>5 DEF PageToHost, SendBuffer, NextRd
<1>7. q \in 0 .. S - 1 /\ q = IF p + 1 < S THEN p + 1 ELSE p + 1 - S
  <2>1. 1 \in 0 .. S
    BY <1>4
  <2>. QED BY <1>4, <1>5, <2>1, FurtherIs
<1>8. Ahead(q, g, S) = Ahead(q, l, S) + Ahead(l, g, S)
  <2>1. /\ Ahead(p, g, S) = IF g >= p THEN g - p ELSE g - p + S
        /\ Ahead(p, l, S) = IF l >= p THEN l - p ELSE l - p + S
        /\ Ahead(l, g, S) = IF g >= l THEN g - l ELSE g - l + S
        /\ Ahead(q, g, S) = IF g >= q THEN g - q ELSE g - q + S
        /\ Ahead(q, l, S) = IF l >= q THEN l - q ELSE l - q + S
    BY <1>4, <1>7, AheadIs
  <2>. QED BY <1>4, <1>7, <2>1
<1>9. RingTypeOK'
  BY <1>3, <1>6, <1>7 DEF IInv, RingTypeOK, PageToHost, SendBuffer, ftlVars
<1>10. ReadRing'
  <2>1. rd_limit' = l /\ g_ftl_read_buf_id' = g /\ rd_done' = rd_done
    BY <1>3 DEF PageToHost, SendBuffer, ftlVars
  <2>. QED BY <1>1, <1>3, <1>6, <1>8, <2>1 DEF IInv, ReadRing
<1>11. WriteRing' /\ WaitingApart'
  BY <1>1 DEF IInv, WriteRing, WaitingApart, PageToHost, SendBuffer, ftlVars
<1>12. InTurn'
  BY <1>1, <1>2 DEF IInv, InTurn, PageToHost, SendBuffer, ftlVars
<1>13. HolesOfPage'
  BY <1>1, <1>2 DEF IInv, HolesOfPage, PageToHost, SendBuffer, ftlVars
<1>. QED BY <1>9, <1>10, <1>11, <1>12, <1>13 DEF IInv

\* Main takes the next command.
LEMMA MainKeeps == ASSUME IInv, Main PROVE IInv'
<1>1. PICK r \in Requests : /\ r = Head(eventq) /\ cmd' = r /\ pc' = r.op
                            /\ eventq' \in Seq(Requests)
  BY DEF IInv, RingTypeOK, Main
<1>2. /\ r \in [op : {"none", "read", "write"}, lba : Nat, n : Nat] /\ r.op \in {"read", "write"}
      /\ r.n > 0 /\ r.lba + r.n <= NumLpns * SectorsPerPage
  BY TutorialAssumption DEF Lbas
<1>3. UNCHANGED <<wr, bank, rd_limit, rd_done, wr_limit, wr_done, rbuf_ptr>>
  BY DEF Main, ctrlVars
<1>4. InFlight' = InFlight /\ OutFor("read")' = OutFor("read")
      /\ OutFor("program")' = OutFor("program") /\ OutFor("hole")' = OutFor("hole")
  BY <1>3 DEF InFlight, OutFor
<1>5. RingTypeOK'
  BY <1>1, <1>2, <1>3 DEF IInv, RingTypeOK, Main
<1>6. ReadRing'
  BY <1>3, <1>4 DEF IInv, ReadRing, Main
<1>7. WriteRing' /\ WaitingApart'
  BY <1>3, <1>4 DEF IInv, WriteRing, WaitingApart, Main
<1>8. InTurn'
  <2>1. pc' \notin {"left", "right", "program", "stopped"} /\ pc = "main"
    BY <1>1, <1>2 DEF Main
  <2>2. Turn' = Turn
    BY <2>1 DEF Turn, Main
  <2>. QED BY <1>4, <2>1, <2>2 DEF IInv, InTurn, Main
<1>9. HolesOfPage'
  BY <1>1, <1>2, <1>3, <1>4 DEF IInv, HolesOfPage, Main
<1>. QED BY <1>5, <1>6, <1>7, <1>8, <1>9 DEF IInv

\* What the end of a page leaves of the command.
LEMMA NextPageIs ==
  ASSUME RingTypeOK, cmd.n > 0, NextPage
  PROVE  /\ cmd' \in [op : {"none", "read", "write"}, lba : Nat, n : Nat]
         /\ cmd'.lba + cmd'.n <= NumLpns * SectorsPerPage /\ cmd'.op = cmd.op
         /\ pc' = "main" \/ (pc' = cmd.op /\ cmd'.n > 0)
<1>1. /\ cmd' \in [op : {"none", "read", "write"}, lba : Nat, n : Nat]
      /\ cmd'.op = cmd.op /\ cmd'.lba + cmd'.n = cmd.lba + cmd.n
  BY PieceOf DEF RingTypeOK, NextPage
<1>2. cmd.lba + cmd.n <= NumLpns * SectorsPerPage
  BY DEF RingTypeOK
<1>3. pc' = "main" \/ (pc' = cmd.op /\ cmd'.n > 0)
  BY <1>1 DEF NextPage
<1>. QED BY <1>1, <1>2, <1>3

\* No program and no hole is in flight that was not before, and the write ring, the
\* turns and the place of the FTL in a page are as they were.
LEMMA WriteSideKeeps ==
  ASSUME IInv, UNCHANGED <<wr_limit, wr_done, g_ftl_write_buf_id, g_target_bank>>,
         OutFor("program")' = OutFor("program"), OutFor("hole")' = OutFor("hole"),
         wr' # None => wr'.op = "read",
         wr = None, bank' = bank,
         pc = "read" /\ pc' \in {"main", "read"}
  PROVE  WriteRing' /\ InTurn' /\ HolesOfPage'
<1>1. WriteRing'
  <2>1. ~(wr' # None /\ wr'.op = "program")
    OBVIOUS
  <2>2. /\ Ring(wr_limit, g_ftl_write_buf_id, NumWrBuffers, OutFor("program"), wr_done)
        /\ Ahead(wr_limit, g_ftl_write_buf_id, NumWrBuffers) <= NumBanks + 1
        /\ Ahead(wr_limit, g_ftl_write_buf_id, NumWrBuffers) # NumBanks + 1
    BY DEF IInv, WriteRing
  <2>. QED BY <2>1, <2>2 DEF WriteRing
<1>2. Turn' = Turn
  BY DEF Turn
<1>3. InTurn'
  BY <1>2 DEF IInv, InTurn
<1>4. OutFor("hole") = {}
  BY DEF IInv, HolesOfPage
<1>5. HolesOfPage'
  BY <1>4 DEF HolesOfPage
<1>. QED BY <1>1, <1>3, <1>5

\* ftl_read reads a page into the next read buffer, as there is room.
LEMMA ReadMappedPageKeeps == ASSUME IInv, ReadMappedPage PROVE IInv'
<1>1. PICK g, S, c : /\ g = g_ftl_read_buf_id /\ S = NumRdBuffers
                     /\ c = Command("read", page_map[Lpn(cmd)].bank, page_map[Lpn(cmd)].row,
                                    Offset(cmd), PieceLen(cmd), g)
  OBVIOUS
<1>2. /\ wr = None /\ wr' = c /\ bank' = bank /\ cmd.n > 0 /\ NextPage /\ cmd.op = "read"
      /\ pc = "read" /\ cmd \in [op : {"none", "read", "write"}, lba : Nat, n : Nat]
      /\ cmd.lba + cmd.n <= NumLpns * SectorsPerPage
  BY <1>1 DEF ReadMappedPage, flash_issue_cmd, IInv, RingTypeOK
<1>3. S \in Nat \ {0} /\ g \in 0 .. S - 1
  BY <1>1, FlashAssumption DEF IInv, ReadRing, Ring
<1>4. c \in Commands /\ c.op = "read" /\ c.buf = g
  <2>1. /\ Lpn(cmd) \in Lpns /\ Offset(cmd) \in Sectors /\ PieceLen(cmd) \in 1 .. cmd.n
    BY <1>2, PieceOf
  <2>2. page_map[Lpn(cmd)] \in PageAddrs
    BY <2>1 DEF ReadMappedPage, IInv, RingTypeOK
  <2>3. Offset(cmd) \in Nat /\ PieceLen(cmd) \in Nat
    BY <1>2, <2>1, FlashAssumption DEF Sectors
  <2>. QED BY <1>1, <1>3, <2>2, <2>3 DEF Command, Commands, PageAddrs
<1>5. InFlight' = InFlight \union {c}
  BY <1>2, <1>4, Issued
<1>6. /\ OutFor("read")' = OutFor("read") \union {c}
      /\ OutFor("program")' = OutFor("program") /\ OutFor("hole")' = OutFor("hole")
  BY <1>4, <1>5 DEF OutFor
<1>7. pc' \in {"main", "read"}
  BY <1>2, NextPageIs DEF IInv
<1>8. WriteRing' /\ InTurn' /\ HolesOfPage'
  <2>1. UNCHANGED <<wr_limit, wr_done, g_ftl_write_buf_id, g_target_bank>>
    BY DEF ReadMappedPage
  <2>. QED BY <1>2, <1>4, <1>6, <1>7, <2>1, WriteSideKeeps
<1>9. PICK p, l : p = rbuf_ptr /\ l = rd_limit
  OBVIOUS
<1>10. /\ p \in 0 .. S - 1 /\ l \in 0 .. S - 1
       /\ Ahead(p, g, S) = Ahead(p, l, S) + Ahead(l, g, S) /\ (g + 1) % S # p
       /\ Ring(l, g, S, OutFor("read"), rd_done)
  BY <1>1, <1>9 DEF IInv, RingTypeOK, ReadRing, Ring, ReadMappedPage, ReadBufferFree, NextRd
<1>11. Ahead(p, g, S) < S - 1
  <2>1. PICK u : u = (g + 1) % S
    OBVIOUS
  <2>2. 1 \in 0 .. S
    BY <1>3
  <2>3. u = IF g + 1 < S THEN g + 1 ELSE g + 1 - S
    BY <1>3, <2>1, <2>2, FurtherIs
  <2>4. Ahead(p, g, S) = IF g >= p THEN g - p ELSE g - p + S
    BY <1>3, <1>10, AheadIs
  <2>. QED BY <1>3, <1>10, <2>1, <2>3, <2>4
<1>12. /\ Ahead(p, (g + 1) % S, S) = Ahead(p, g, S) + 1 /\ (g + 1) % S \in 0 .. S - 1
  BY <1>3, <1>10, <1>11, NextAhead
<1>13. Ahead(p, l, S) \in 0 .. S - 1 /\ Ahead(l, g, S) \in 0 .. S - 1
  BY <1>3, <1>10, AheadIs
<1>14. Ahead(l, g, S) < S - 1
  BY <1>3, <1>10, <1>11, <1>13
<1>15. /\ Ring(l, (g + 1) % S, S, OutFor("read") \union {c}, rd_done)
       /\ Ahead(l, (g + 1) % S, S) = Ahead(l, g, S) + 1
  BY <1>3, <1>4, <1>10, <1>14, RingIssue
<1>16. ReadRing'
  <2>1. /\ rbuf_ptr' = p /\ rd_limit' = l /\ g_ftl_read_buf_id' = (g + 1) % S /\ rd_done' = rd_done
    BY <1>1, <1>9 DEF ReadMappedPage, NextRd
  <2>2. Ahead(p, (g + 1) % S, S) = Ahead(p, l, S) + Ahead(l, (g + 1) % S, S)
    BY <1>10, <1>12, <1>13, <1>15
  <2>. QED BY <1>1, <1>6, <1>15, <2>1, <2>2 DEF ReadRing
<1>17. WaitingApart'
  <2>1. ASSUME NEW b \in Banks PROVE bank[b] # c
    <3>1. ASSUME bank[b] = c PROVE FALSE
      <4>1. c \in InFlight
        BY <1>4, <3>1, NoneAssumption DEF InFlight
      <4>2. g \in Bufs(OutFor("read"))
        BY <1>4, <4>1 DEF OutFor, Bufs
      <4>3. g \in Window(l, g, S)
        BY <1>10, <4>2 DEF Ring
      <4>. QED BY <1>3, <1>10, <4>3, InWindow, <1>13
    <3>. QED BY <3>1
  <2>. QED BY <1>2, <2>1 DEF WaitingApart
<1>18. RingTypeOK'
  <2>1. /\ cmd' \in [op : {"none", "read", "write"}, lba : Nat, n : Nat]
        /\ cmd'.lba + cmd'.n <= NumLpns * SectorsPerPage /\ cmd'.op = "read"
        /\ pc' = "main" \/ (pc' = "read" /\ cmd'.n > 0)
    BY <1>2, NextPageIs DEF IInv
  <2>. QED BY <1>2, <1>4, <2>1 DEF IInv, RingTypeOK, ReadMappedPage, hostVars
<1>. QED BY <1>8, <1>16, <1>17, <1>18 DEF IInv

\* ftl_read puts in a page that was never written when nothing is in flight.
LEMMA ReadUnmappedPageKeeps == ASSUME IInv, ReadUnmappedPage PROVE IInv'
<1>1. PICK p, l, g, S : /\ p = rbuf_ptr /\ l = rd_limit /\ g = g_ftl_read_buf_id /\ S = NumRdBuffers
  OBVIOUS
<1>2. /\ wr = None /\ wr' = wr /\ bank' = bank /\ cmd.n > 0 /\ NextPage /\ cmd.op = "read"
      /\ pc = "read" /\ \A b \in Banks : bank[b] = None
  BY DEF ReadUnmappedPage, flash_finish, IInv, RingTypeOK
<1>3. InFlight = {} /\ InFlight' = {}
  BY <1>2 DEF InFlight
<1>4. /\ OutFor("read") = {} /\ OutFor("read")' = {}
      /\ OutFor("program")' = OutFor("program") /\ OutFor("hole")' = OutFor("hole")
  BY <1>3 DEF OutFor
<1>5. pc' \in {"main", "read"}
  BY <1>2, NextPageIs DEF IInv
<1>6. WriteRing' /\ InTurn' /\ HolesOfPage'
  <2>1. UNCHANGED <<wr_limit, wr_done, g_ftl_write_buf_id, g_target_bank>>
    BY DEF ReadUnmappedPage
  <2>. QED BY <1>2, <1>4, <1>5, <2>1, WriteSideKeeps
<1>7. /\ S \in Nat \ {0} /\ p \in 0 .. S - 1 /\ l \in 0 .. S - 1 /\ g \in 0 .. S - 1
      /\ Ahead(p, g, S) = Ahead(p, l, S) + Ahead(l, g, S) /\ (g + 1) % S # p
      /\ Ring(l, g, S, {}, rd_done)
  <2>1. S \in Nat \ {0} /\ p \in 0 .. S - 1 /\ (g + 1) % S # p
    BY <1>1, FlashAssumption DEF IInv, RingTypeOK, ReadUnmappedPage, ReadBufferFree, NextRd
  <2>2. Ahead(p, g, S) = Ahead(p, l, S) + Ahead(l, g, S) /\ Ring(l, g, S, {}, rd_done)
    BY <1>1, <1>4 DEF IInv, ReadRing
  <2>3. l \in 0 .. S - 1 /\ g \in 0 .. S - 1
    BY <2>2 DEF Ring
  <2>. QED BY <2>1, <2>2, <2>3
<1>8. rd_done = {} /\ g = l
  BY <1>7, RingIdle
<1>9. PICK u : u = (g + 1) % S
  OBVIOUS
<1>10. u \in 0 .. S - 1
  <2>1. 1 \in 0 .. S
    BY <1>7
  <2>. QED BY <1>7, <1>9, <2>1, FurtherIs
<1>11. Ring(u, u, S, {}, {}) /\ Ahead(u, u, S) = 0
  BY <1>7, <1>10, RingEmpty
<1>12. Ahead(p, u, S) \in Nat
  <2>1. Ahead(p, u, S) \in 0 .. S - 1
    BY <1>7, <1>10, AheadIs
  <2>. QED BY <1>7, <2>1
<1>13. /\ rbuf_ptr' = p /\ rd_limit' = u /\ g_ftl_read_buf_id' = u /\ rd_done' = {}
  BY <1>1, <1>8, <1>9 DEF ReadUnmappedPage, NextRd, SetReadLimit
<1>14. ReadRing'
  <2>1. Ahead(p, u, S) = Ahead(p, u, S) + Ahead(u, u, S)
    BY <1>11, <1>12
  <2>. QED BY <1>1, <1>4, <1>11, <1>13, <2>1 DEF ReadRing
<1>15. WaitingApart'
  BY <1>2 DEF WaitingApart
<1>16. RingTypeOK'
  <2>1. /\ cmd' \in [op : {"none", "read", "write"}, lba : Nat, n : Nat]
        /\ cmd'.lba + cmd'.n <= NumLpns * SectorsPerPage /\ cmd'.op = "read"
        /\ pc' = "main" \/ (pc' = "read" /\ cmd'.n > 0)
    BY <1>2, NextPageIs DEF IInv
  <2>. QED BY <1>2, <2>1 DEF IInv, RingTypeOK, ReadUnmappedPage, hostVars
<1>. QED BY <1>6, <1>14, <1>15, <1>16 DEF IInv

\* The block that get_free_page chooses exists, if only behind the last one, and is none
\* of those before the next row.
LEMMA FreeBlkNat ==
  ASSUME RingTypeOK, NEW b \in Banks
  PROVE  FreeBlk(b) \in Nat /\ g_target_row[b] \div PagesPerVblk <= FreeBlk(b)
<1>1. PICK P, V, row : /\ P = PagesPerVblk /\ V = VblksPerBank /\ row = g_target_row[b]
  OBVIOUS
<1>2. P \in Nat \ {0} /\ V \in Nat \ {0} /\ row \in 0 .. V * P /\ V * P \in Nat
  BY <1>1, TutorialAssumption DEF RingTypeOK
<1>3. PICK q, r : q = row \div P /\ r = row % P
  OBVIOUS
<1>4. r \in 0 .. P - 1 /\ q \in Int /\ row = P * q + r
  BY <1>2, <1>3
<1>5. q \in Nat
  <2>1. ASSUME q < 0 PROVE FALSE
    <3>1. P * q <= P * (-1)
      BY <1>2, <1>4, <2>1
    <3>. QED BY <1>2, <1>4, <3>1
  <2>. QED BY <1>4, <2>1
<1>6. q <= V
  <2>1. ASSUME q > V PROVE FALSE
    <3>1. P * q >= P * (V + 1)
      BY <1>2, <1>5, <2>1
    <3>2. P * (V + 1) = V * P + P
      BY <1>2
    <3>. QED BY <1>2, <1>4, <1>5, <3>1, <3>2
  <2>. QED BY <1>2, <1>5, <2>1
<1> DEFINE Good == {v \in q .. V : v \notin BadBlks[b]}
<1>7. V \in Good /\ Good \in SUBSET Nat /\ \A v \in Good : q <= v
  <2>1. BadBlks[b] \subseteq 1 .. V - 1
    BY <1>1, TutorialAssumption
  <2>. QED BY <1>2, <1>5, <1>6, <2>1
<1>8. FreeBlk(b) = IF r = 0 THEN CHOOSE v \in Good : \A w \in Good : v <= w ELSE q
  BY <1>1, <1>3 DEF FreeBlk
<1>. HIDE DEF Good
<1>9. \E v \in Good : \A w \in Good : v <= w
  BY <1>7, LeastIn
<1>10. (CHOOSE v \in Good : \A w \in Good : v <= w) \in Good
  BY <1>9, Zenon
<1>11. FreeBlk(b) \in Good \/ FreeBlk(b) = q
  BY <1>8, <1>10
<1>12. FreeBlk(b) \in Nat /\ q <= FreeBlk(b)
  <2>1. q <= q
    BY <1>5
  <2>. QED BY <1>5, <1>7, <1>11, <2>1
<1>. QED BY <1>1, <1>3, <1>12

\* A page that get_free_page gives lies in the bank, and so does the row behind it.
LEMMA FreePageIn ==
  ASSUME RingTypeOK, NEW b \in Banks, FreeBlk(b) < VblksPerBank
  PROVE  get_free_page(b) \in Nat /\ get_free_page(b) + 1 \in 0 .. VblksPerBank * PagesPerVblk
<1>1. PICK P, V, r, F : /\ P = PagesPerVblk /\ V = VblksPerBank /\ F = FreeBlk(b)
                        /\ r = g_target_row[b] % P
  OBVIOUS
<1>2. /\ P \in Nat \ {0} /\ V \in Nat \ {0} /\ V * P \in Nat /\ r \in 0 .. P - 1
      /\ F \in Nat /\ F < V
  <2>1. P \in Nat \ {0} /\ V \in Nat \ {0} /\ V * P \in Nat
    BY <1>1, TutorialAssumption
  <2>2. g_target_row[b] \in Nat
    BY <1>1, <2>1 DEF RingTypeOK
  <2>. QED BY <1>1, <2>1, <2>2, FreeBlkNat
<1>3. get_free_page(b) = F * P + r
  BY <1>1 DEF get_free_page
<1>4. F * P \in Nat /\ F * P <= (V - 1) * P
  BY <1>2
<1>5. (V - 1) * P = V * P - P
  BY <1>2
<1>. QED BY <1>1, <1>2, <1>3, <1>4, <1>5

\* The turn before the bank that is next.
LEMMA TurnBack ==
  ASSUME NEW n \in Nat \ {0}, NEW b \in 0 .. n - 1
  PROVE  /\ (b + 1) % n \in 0 .. n - 1
         /\ (((b + 1) % n) + n - 1) % n = b
<1>1. PICK u : u = (b + 1) % n
  OBVIOUS
<1>2. 1 \in 0 .. n
  OBVIOUS
<1>3. u = (IF b + 1 < n THEN b + 1 ELSE b + 1 - n) /\ u \in 0 .. n - 1
  BY <1>1, <1>2, FurtherIs
<1>4. PICK a : a = u + n - 1 /\ a \in 0 .. 2 * n - 1
  BY <1>3
<1>5. a % n = IF a < n THEN a ELSE a - n
  BY <1>4, ModIs
<1>. QED BY <1>1, <1>3, <1>4, <1>5

\* ftl_write takes a page of the bank whose turn it is, or stops.
LEMMA WriteStartKeeps == ASSUME IInv, WriteStart PROVE IInv'
<1>1. UNCHANGED <<wr, bank, rd_limit, rd_done, wr_limit, wr_done, rbuf_ptr, page_map,
                  g_ftl_read_buf_id, g_ftl_write_buf_id, cmd, eventq>>
  BY DEF WriteStart, ctrlVars, hostVars
<1>2. InFlight' = InFlight /\ OutFor("read")' = OutFor("read")
      /\ OutFor("program")' = OutFor("program") /\ OutFor("hole")' = OutFor("hole")
  BY <1>1 DEF InFlight, OutFor
<1>3. PICK t : t = g_target_bank /\ t \in Banks
  BY DEF IInv, RingTypeOK
<1>4. /\ g_target_bank' = (t + 1) % NumBanks /\ g_target_bank' \in Banks
      /\ (g_target_bank' + NumBanks - 1) % NumBanks = t
  <2>1. NumBanks \in Nat \ {0} /\ t \in 0 .. NumBanks - 1
    BY <1>3, FlashAssumption DEF Banks
  <2>2. g_target_bank' = (t + 1) % NumBanks
    BY <1>3 DEF WriteStart
  <2>. QED BY <2>1, <2>2, TurnBack DEF Banks
<1>5. \/ pc' = "stopped" /\ UNCHANGED <<g_target_row, new>>
      \/ /\ FreeBlk(t) < VblksPerBank
         /\ new' = [bank |-> t, row |-> get_free_page(t)]
         /\ g_target_row' = [g_target_row EXCEPT ![t] = get_free_page(t) + 1]
         /\ pc' \in {"left", "right", "program"}
         /\ pc' \in {"left", "right"} => HasHoles
  <2>1. CASE FreeBlk(t) >= VblksPerBank
    BY <1>3, <2>1 DEF WriteStart
  <2>2. CASE ~(FreeBlk(t) >= VblksPerBank)
    <3>1. FreeBlk(t) \in Nat /\ VblksPerBank \in Nat
      BY <1>3, FreeBlkNat, TutorialAssumption DEF IInv
    <3>2. /\ new' = [bank |-> t, row |-> get_free_page(t)]
          /\ g_target_row' = [g_target_row EXCEPT ![t] = get_free_page(t) + 1]
          /\ pc' = IF ~HasHoles THEN "program" ELSE IF LeftHole # 0 THEN "left" ELSE "right"
      BY <1>3, <2>2 DEF WriteStart
    <3>. QED BY <2>2, <3>1, <3>2
  <2>. QED BY <2>1, <2>2
<1>6. RingTypeOK'
  <2>1. CASE pc' = "stopped" /\ UNCHANGED <<g_target_row, new>>
    BY <1>1, <1>4, <2>1 DEF IInv, RingTypeOK
  <2>2. CASE /\ FreeBlk(t) < VblksPerBank
             /\ new' = [bank |-> t, row |-> get_free_page(t)]
             /\ g_target_row' = [g_target_row EXCEPT ![t] = get_free_page(t) + 1]
             /\ pc' \in {"left", "right", "program"}
    <3>1. get_free_page(t) \in Nat /\ get_free_page(t) + 1 \in 0 .. VblksPerBank * PagesPerVblk
      BY <1>3, <2>2, FreePageIn DEF IInv
    <3>2. new' \in PageAddrs
      BY <1>3, <2>2, <3>1 DEF PageAddrs
    <3>3. g_target_row' \in [Banks -> 0 .. VblksPerBank * PagesPerVblk]
      BY <1>3, <2>2, <3>1 DEF IInv, RingTypeOK
    <3>4. pc = "write"
      BY DEF WriteStart
    <3>. QED BY <1>1, <1>4, <2>2, <3>2, <3>3, <3>4 DEF IInv, RingTypeOK
  <2>. QED BY <1>5, <2>1, <2>2
<1>7. ReadRing'
  BY <1>1, <1>2 DEF IInv, ReadRing
<1>8. WriteRing' /\ WaitingApart'
  BY <1>1, <1>2 DEF IInv, WriteRing, WaitingApart
<1>9. InTurn'
  <2>1. Turn = t
    BY <1>3 DEF Turn, WriteStart
  <2>2. Turn' = t
    BY <1>4, <1>5 DEF Turn
  <2>3. pc' \in {"left", "right", "program"} => g_target_bank' = (new'.bank + 1) % NumBanks
    BY <1>4, <1>5
  <2>. QED BY <1>1, <1>2, <2>1, <2>2, <2>3 DEF IInv, InTurn
<1>10. HolesOfPage'
  <2>1. HasHoles <=> HasHoles'
    BY <1>1 DEF HasHoles, Old, LeftHole, RightHole
  <2>2. pc = "write"
    BY DEF WriteStart
  <2>. QED BY <1>1, <1>2, <1>5, <2>1, <2>2 DEF IInv, HolesOfPage
<1>. QED BY <1>6, <1>7, <1>8, <1>9, <1>10 DEF IInv

\* A command for a hole of the current page changes neither ring.
LEMMA HoleKeeps ==
  ASSUME IInv, pc \in {"left", "right"}, pc' \in {"right", "program"},
         NEW n \in Nat, NEW off \in Nat,
         flash_issue_cmd(Command("hole", Old.bank, Old.row, off, n, g_ftl_write_buf_id)),
         UNCHANGED <<bank, rd_limit, rd_done, wr_limit, wr_done, rbuf_ptr, page_map, g_target_bank,
                     g_target_row, g_ftl_read_buf_id, g_ftl_write_buf_id, cmd, new, eventq>>
  PROVE  IInv'
<1>1. PICK c : c = Command("hole", Old.bank, Old.row, off, n, g_ftl_write_buf_id)
  OBVIOUS
<1>2. wr = None /\ wr' = c /\ HasHoles
  BY <1>1 DEF flash_issue_cmd, IInv, HolesOfPage
<1>3. Old \in PageAddrs
  <2>1. Lpn(cmd) \in Lpns
    BY PieceOf DEF IInv, RingTypeOK
  <2>. QED BY <1>2, <2>1 DEF HasHoles, Old, IInv, RingTypeOK
<1>4. c \in Commands /\ c.op = "hole" /\ c.bank = Old.bank /\ c.buf = g_ftl_write_buf_id
  <2>1. g_ftl_write_buf_id \in Nat
    BY FlashAssumption DEF IInv, WriteRing, Ring
  <2>. QED BY <1>1, <1>3, <2>1 DEF Command, Commands, PageAddrs
<1>5. InFlight' = InFlight \union {c}
  BY <1>2, <1>4, Issued
<1>6. /\ OutFor("read")' = OutFor("read") /\ OutFor("program")' = OutFor("program")
      /\ OutFor("hole")' = OutFor("hole") \union {c}
  BY <1>4, <1>5 DEF OutFor
<1>7. Old' = Old /\ (HasHoles <=> HasHoles')
  BY DEF Old, HasHoles, LeftHole, RightHole
<1>8. RingTypeOK'
  BY <1>2, <1>4 DEF IInv, RingTypeOK
<1>9. ReadRing'
  BY <1>6 DEF IInv, ReadRing
<1>10. WriteRing'
  <2>1. wr'.op # "program" /\ wr = None
    BY <1>2, <1>4
  <2>. QED BY <1>6, <2>1 DEF IInv, WriteRing
<1>11. WaitingApart'
  BY <1>2, <1>4 DEF WaitingApart
<1>12. InTurn'
  <2>1. Turn' = Turn
    BY DEF Turn
  <2>. QED BY <1>6, <2>1 DEF IInv, InTurn
<1>13. HolesOfPage'
  BY <1>2, <1>4, <1>6, <1>7 DEF IInv, HolesOfPage
<1>. QED BY <1>8, <1>9, <1>10, <1>11, <1>12, <1>13 DEF IInv

\* The holes of the page in work are as long as the sectors beside the piece.
LEMMA HoleSizes ==
  ASSUME IInv, pc \in {"left", "right"}
  PROVE  LeftHole \in Nat /\ RightHole \in Nat /\ SectorsPerPage - RightHole \in Nat
<1>1. cmd \in [op : {"none", "read", "write"}, lba : Nat, n : Nat] /\ cmd.n > 0
      /\ cmd.lba + cmd.n <= NumLpns * SectorsPerPage
  BY DEF IInv, RingTypeOK
<1>2. /\ Offset(cmd) \in Sectors /\ PieceLen(cmd) \in 1 .. cmd.n
      /\ Offset(cmd) + PieceLen(cmd) <= SectorsPerPage
  BY <1>1, PieceOf
<1>. QED BY <1>1, <1>2, FlashAssumption DEF Sectors, LeftHole, RightHole

\* read_old_data, the sectors before the piece.
LEMMA ReadLeftHoleKeeps == ASSUME IInv, ReadLeftHole PROVE IInv'
<1>1. pc \in {"left", "right"} /\ pc' \in {"right", "program"}
  BY DEF ReadLeftHole
<1>2. LeftHole \in Nat /\ 0 \in Nat
  BY <1>1, HoleSizes
<1>. QED BY <1>1, <1>2, HoleKeeps DEF ReadLeftHole, hostVars

\* read_old_data, the sectors behind the piece.
LEMMA ReadRightHoleKeeps == ASSUME IInv, ReadRightHole PROVE IInv'
<1>1. pc \in {"left", "right"} /\ pc' \in {"right", "program"}
  BY DEF ReadRightHole
<1>2. PICK off, n : off = SectorsPerPage - RightHole /\ n = RightHole /\ off \in Nat /\ n \in Nat
  BY <1>1, HoleSizes
<1>. QED BY <1>1, <1>2, HoleKeeps DEF ReadRightHole, hostVars

\* The buffer at the cursor is nobody's.
LEMMA CursorFree ==
  ASSUME NEW size \in Nat \ {0}, NEW l, NEW t, NEW out, NEW done, Ring(l, t, size, out, done)
  PROVE  \A c \in out : c.buf # t
<1>1. Ahead(l, t, size) \in 0 .. size - 1
  BY AheadIs DEF Ring
<1>2. t \notin Window(l, t, size)
  BY <1>1, InWindow DEF Ring
<1>. QED BY <1>2 DEF Ring, Bufs

\* The remainder of a multiple and a rest.
LEMMA RestIs ==
  ASSUME NEW n \in Nat \ {0}, NEW q \in Int, NEW r \in 0 .. n - 1
  PROVE  (n * q + r) % n = r
  OBVIOUS

\* Whose turn it is moves on as the cursor does.
LEMMA TurnOn ==
  ASSUME NEW n \in Nat \ {0}, NEW x \in Nat, NEW t \in Nat, x % n = t
  PROVE  (x + 1) % n = (t + 1) % n
<1>1. PICK q : q = x \div n
  OBVIOUS
<1>2. q \in Int /\ x = n * q + t /\ t \in 0 .. n - 1
  BY <1>1
<1>3. CASE t + 1 < n
  <2>1. x + 1 = n * q + (t + 1)
    BY <1>1, <1>2
  <2>2. (x + 1) % n = t + 1
    <3>1. PICK r : r = t + 1 /\ r \in 0 .. n - 1
      BY <1>3
    <3>2. (n * q + r) % n = r
      BY <1>2, <3>1, RestIs
    <3>. QED BY <2>1, <3>1, <3>2
  <2>3. (t + 1) % n = t + 1
    BY <1>3
  <2>. QED BY <1>1, <2>2, <2>3
<1>4. CASE t + 1 = n
  <2>1. x + 1 = n * (q + 1) + 0
    BY <1>1, <1>2, <1>4
  <2>2. (x + 1) % n = 0
    <3>1. PICK p : p = q + 1 /\ p \in Int
      BY <1>2
    <3>2. 0 \in 0 .. n - 1
      OBVIOUS
    <3>3. (n * p + 0) % n = 0
      BY <3>1, <3>2, RestIs
    <3>. QED BY <2>1, <3>1, <3>3
  <2>3. (t + 1) % n = 0
    BY <1>4
  <2>. QED BY <1>1, <2>2, <2>3
<1>. QED BY <1>2, <1>3, <1>4

\* Two programs whose distances differ by the number of banks are for the same bank.
LEMMA SameTurn ==
  ASSUME NEW n \in Nat \ {0}, NEW b \in 0 .. n - 1, NEW d \in 0 .. n - 1,
         (b + (n + 1)) % n = (d + 1) % n
  PROVE  b = d
<1>1. 1 \in 0 .. n
  OBVIOUS
<1>2. (d + 1) % n = IF d + 1 < n THEN d + 1 ELSE d + 1 - n
  BY <1>1, FurtherIs
<1>3. CASE b + 1 < n
  <2>1. b + (n + 1) = n * 1 + (b + 1)
    OBVIOUS
  <2>2. (n * 1 + (b + 1)) % n = b + 1
    BY <1>3
  <2>. QED BY <1>2, <1>3, <2>1, <2>2
<1>4. CASE b + 1 = n
  <2>1. b + (n + 1) = n * 2 + 0
    BY <1>4
  <2>2. (n * 2 + 0) % n = 0
    OBVIOUS
  <2>. QED BY <1>2, <1>4, <2>1, <2>2
<1>. QED BY <1>3, <1>4

\* ftl_write programs the page: the next bank in turn, the buffer at the cursor, and no
\* hole of this buffer that another bank could be reading.
LEMMA ProgramPageKeeps == ASSUME IInv, ProgramPage PROVE IInv'
<1>1. PICK g, l, S, c : /\ g = g_ftl_write_buf_id /\ l = wr_limit /\ S = NumWrBuffers
                        /\ c = Command("program", new.bank, new.row, 0, SectorsPerPage, g)
  OBVIOUS
<1>2. /\ wr = None /\ wr' = c /\ bank' = bank /\ cmd.n > 0 /\ NextPage /\ cmd.op = "write"
      /\ pc = "program" /\ new \in PageAddrs /\ Turn = new.bank
      /\ cmd \in [op : {"none", "read", "write"}, lba : Nat, n : Nat]
      /\ cmd.lba + cmd.n <= NumLpns * SectorsPerPage
  BY <1>1 DEF ProgramPage, flash_issue_cmd, IInv, RingTypeOK, Turn
<1>3. /\ S \in Nat \ {0} /\ NumBanks \in Nat \ {0} /\ S > NumBanks + 1 /\ SectorsPerPage \in Nat
      /\ Ring(l, g, S, OutFor("program"), wr_done) /\ l \in 0 .. S - 1 /\ g \in 0 .. S - 1
      /\ Ahead(l, g, S) <= NumBanks + 1 /\ Ahead(l, g, S) # NumBanks + 1
      /\ Ahead(l, g, S) \in 0 .. S - 1
  <2>1. /\ Ring(l, g, S, OutFor("program"), wr_done)
        /\ Ahead(l, g, S) <= NumBanks + 1 /\ Ahead(l, g, S) # NumBanks + 1
    BY <1>1, <1>2 DEF IInv, WriteRing
  <2>2. S \in Nat \ {0} /\ NumBanks \in Nat \ {0} /\ S > NumBanks + 1 /\ SectorsPerPage \in Nat
    BY <1>1, FlashAssumption
  <2>3. l \in 0 .. S - 1 /\ g \in 0 .. S - 1
    BY <2>1 DEF Ring
  <2>4. Ahead(l, g, S) \in 0 .. S - 1
    BY <2>2, <2>3, AheadIs
  <2>. QED BY <2>1, <2>2, <2>3, <2>4
<1>4. c \in Commands /\ c.op = "program" /\ c.buf = g /\ c.bank = new.bank
  BY <1>1, <1>2, <1>3 DEF Command, Commands, PageAddrs
<1>5. InFlight' = InFlight \union {c}
  BY <1>2, <1>4, Issued
<1>6. /\ OutFor("program")' = OutFor("program") \union {c}
      /\ OutFor("read")' = OutFor("read") /\ OutFor("hole")' = OutFor("hole")
  BY <1>4, <1>5 DEF OutFor
<1>7. PICK u : u = (g + 1) % S
  OBVIOUS
<1>8. Ring(l, u, S, OutFor("program") \union {c}, wr_done) /\ Ahead(l, u, S) = Ahead(l, g, S) + 1
  <2>1. Ahead(l, g, S) < S - 1
    BY <1>3
  <2>. QED BY <1>3, <1>4, <1>7, <2>1, RingIssue
<1>9. \A b \in OutFor("program") : b.buf # g /\ b.buf \in 0 .. S - 1
  <2>1. \A b \in OutFor("program") : b.buf # g
    BY <1>3, CursorFree
  <2>2. \A b \in OutFor("program") : b.buf \in 0 .. S - 1
    BY <1>3, InWindow DEF Ring, Bufs
  <2>. QED BY <2>1, <2>2
<1>10. Ahead(g, g, S) = 0 /\ Ahead(g, u, S) = 1 /\ u \in 0 .. S - 1
  <2>1. Ahead(g, g, S) = 0
    BY <1>3, AheadIs
  <2>2. Ahead(g, g, S) < S - 1
    BY <1>3, <2>1
  <2>. QED BY <1>3, <1>7, <2>1, <2>2, NextAhead
<1>11. wr_limit' = l /\ g_ftl_write_buf_id' = u /\ wr_done' = wr_done
  BY <1>1, <1>7 DEF ProgramPage, NextWr
<1>12. WriteRing'
  <2>1. Ahead(l, u, S) <= NumBanks + 1
    BY <1>3, <1>8
  <2>2. Ring(l, u, S, OutFor("program")', wr_done)
    BY <1>6, <1>8
  <2>3. wr' # None /\ wr'.op = "program" /\ wr'.buf = g
    BY <1>2, <1>4, NoneAssumption
  <2>. QED BY <1>1, <1>10, <1>11, <2>1, <2>2, <2>3 DEF WriteRing
<1>13. WaitingApart'
  <2>1. ASSUME NEW b \in Banks, bank[b] = c PROVE FALSE
    <3>1. c \in OutFor("program")
      BY <1>4, <2>1, NoneAssumption DEF InFlight, OutFor
    <3>. QED BY <1>4, <1>9, <3>1
  <2>. QED BY <1>2, <2>1 DEF WaitingApart
<1>14. pc' \in {"main", "write"}
  BY <1>2, NextPageIs DEF IInv
<1>15. RingTypeOK'
  <2>1. /\ cmd' \in [op : {"none", "read", "write"}, lba : Nat, n : Nat]
        /\ cmd'.lba + cmd'.n <= NumLpns * SectorsPerPage /\ cmd'.op = "write"
        /\ pc' = "main" \/ (pc' = "write" /\ cmd'.n > 0)
    BY <1>2, NextPageIs DEF IInv
  <2>2. page_map' \in [Lpns -> PageAddrs \union {NULL}]
    BY <1>2 DEF IInv, RingTypeOK, ProgramPage
  <2>. QED BY <1>2, <1>4, <2>1, <2>2 DEF IInv, RingTypeOK, ProgramPage, hostVars
<1>16. ReadRing'
  BY <1>6 DEF IInv, ReadRing, ProgramPage
<1>17. InTurn'
  <2>1. g_target_bank = (new.bank + 1) % NumBanks /\ g_target_bank' = g_target_bank
    BY <1>2 DEF IInv, InTurn, ProgramPage
  <2>2. Turn' = g_target_bank
    BY <1>14, <2>1 DEF Turn
  <2>3. ASSUME NEW b \in OutFor("program")
        PROVE  (b.bank + Ahead(b.buf, u, S)) % NumBanks = g_target_bank
    <3>1. (b.bank + Ahead(b.buf, g, S)) % NumBanks = new.bank
      BY <1>1, <1>2 DEF IInv, InTurn
    <3>2. Ahead(b.buf, u, S) = Ahead(b.buf, g, S) + 1
      <4>1. b.buf \in 0 .. S - 1 /\ b.buf # g
        BY <1>9
      <4>2. /\ Ahead(b.buf, g, S) = IF g >= b.buf THEN g - b.buf ELSE g - b.buf + S
            /\ Ahead(b.buf, g, S) \in 0 .. S - 1
        BY <1>3, <4>1, AheadIs
      <4>3. /\ Ahead(l, b.buf, S) = IF b.buf >= l THEN b.buf - l ELSE b.buf - l + S
            /\ Ahead(l, g, S) = IF g >= l THEN g - l ELSE g - l + S
        BY <1>3, <4>1, AheadIs
      <4>4. Ahead(l, b.buf, S) < Ahead(l, g, S)
        <5>1. b.buf \in Window(l, g, S)
          BY <1>3 DEF Ring, Bufs
        <5>. QED BY <1>3, <5>1, InWindow
      <4>5. Ahead(b.buf, g, S) < S - 1
        BY <1>3, <4>1, <4>2, <4>3, <4>4
      <4>. QED BY <1>3, <1>7, <4>1, <4>5, NextAhead
    <3>3. b.bank \in Nat /\ new.bank \in Nat /\ Ahead(b.buf, g, S) \in Nat
      <4>1. b \in Commands
        BY InFlightType DEF IInv, OutFor
      <4>2. Ahead(b.buf, g, S) \in 0 .. S - 1
        BY <1>3, <1>9, AheadIs
      <4>. QED BY <1>2, <1>3, <4>1, <4>2 DEF Commands, PageAddrs, Banks
    <3>4. (b.bank + (Ahead(b.buf, g, S) + 1)) % NumBanks = (new.bank + 1) % NumBanks
      <4>1. PICK a, t, d : a = Ahead(b.buf, g, S) /\ t = new.bank /\ d = b.bank
        OBVIOUS
      <4>2. (d + a) % NumBanks = t /\ d \in Nat /\ a \in Nat /\ t \in Nat
        BY <3>1, <3>3, <4>1
      <4>3. PICK n, x : n = NumBanks /\ x = d + a /\ n \in Nat \ {0} /\ x \in Nat
        BY <1>3, <4>2
      <4>4. (x + 1) % n = (t + 1) % n
        BY <4>2, <4>3, TurnOn
      <4>5. d + (a + 1) = x + 1
        BY <4>2, <4>3
      <4>. QED BY <4>1, <4>3, <4>4, <4>5
    <3>. QED BY <2>1, <3>2, <3>4
  <2>4. (c.bank + Ahead(c.buf, u, S)) % NumBanks = g_target_bank
    BY <1>4, <1>10, <2>1
  <2>5. \A b \in OutFor("program")' : (b.bank + Ahead(b.buf, u, S)) % NumBanks = g_target_bank
    BY <1>6, <2>3, <2>4
  <2>. QED BY <1>1, <1>11, <1>14, <2>2, <2>5 DEF InTurn
<1>18. HolesOfPage'
  <2>1. ASSUME NEW h \in OutFor("hole")
        PROVE  h.buf = c.buf /\ h.bank = c.bank /\ bank[h.bank] = h
    <3>1. HasHoles /\ h.buf = g /\ h.bank = Old.bank
      BY <1>1, <1>2 DEF IInv, HolesOfPage
    <3>2. PICK b \in Banks : bank[b] = h /\ h # None
      BY <1>2 DEF OutFor, InFlight
    <3>3. h.bank = b
      BY <3>2 DEF IInv, RingTypeOK
    <3>4. Old.bank = new.bank
      BY <3>1, <3>2, <3>3 DEF ProgramPage, HolesRead
    <3>. QED BY <1>4, <3>1, <3>2, <3>3, <3>4
  <2>2. wr' # None /\ wr'.op = "program"
    BY <1>2, <1>4, NoneAssumption
  <2>3. pc' \notin {"left", "right"}
    BY <1>14
  <2>. QED BY <1>2, <1>6, <2>1, <2>2, <2>3 DEF HolesOfPage
<1>. QED BY <1>12, <1>13, <1>15, <1>16, <1>17, <1>18 DEF IInv

\* A bank takes the waiting command.  If the write ring is as full as it gets, the oldest
\* program holds the bank of the waiting one.
LEMMA AcceptKeeps ==
  ASSUME IInv, Accept, UNCHANGED <<ftlVars, hostVars>>
  PROVE  IInv'
<1>1. InFlight' = InFlight
  BY Accepted DEF IInv
<1>2. /\ OutFor("read")' = OutFor("read") /\ OutFor("program")' = OutFor("program")
      /\ OutFor("hole")' = OutFor("hole")
  BY <1>1 DEF OutFor
<1>3. UNCHANGED <<rd_limit, rd_done, wr_limit, wr_done, rbuf_ptr, page_map, g_target_bank,
                  g_target_row, g_ftl_read_buf_id, g_ftl_write_buf_id, cmd, new, pc, eventq>>
  BY DEF Accept, ftlVars, hostVars
<1>4. /\ wr \in Commands /\ wr # None /\ wr.bank \in Banks /\ bank[wr.bank] = None /\ wr' = None
      /\ bank' = [bank EXCEPT ![wr.bank] = wr]
  BY DEF IInv, RingTypeOK, Accept, Commands
<1>5. RingTypeOK'
  BY <1>3, <1>4 DEF IInv, RingTypeOK
<1>6. ReadRing'
  BY <1>2, <1>3 DEF IInv, ReadRing
<1>7. WriteRing'
  <2>1. PICK g, l, S : g = g_ftl_write_buf_id /\ l = wr_limit /\ S = NumWrBuffers
    OBVIOUS
  <2>2. ASSUME Ahead(l, g, S) = NumBanks + 1 PROVE FALSE
    <3>1. wr.op = "program" /\ Ahead(wr.buf, g, S) = 1
      BY <1>4, <2>1, <2>2 DEF IInv, WriteRing
    <3>2. S \in Nat \ {0} /\ NumBanks \in Nat \ {0}
      BY <2>1, FlashAssumption
    <3>3. PICK c \in OutFor("program") : c.buf = l
      <4>1. Ring(l, g, S, OutFor("program"), wr_done)
        BY <2>1 DEF IInv, WriteRing
      <4>2. Ahead(l, g, S) > 0
        BY <2>2, <3>2
      <4>. QED BY <3>2, <4>1, <4>2, RingOldest
    <3>4. c # wr
      BY <2>2, <3>1, <3>2, <3>3
    <3>5. PICK b \in Banks : bank[b] = c /\ c # None
      BY <3>3, <3>4 DEF OutFor, InFlight
    <3>6. c.bank = b /\ c.bank \in 0 .. NumBanks - 1 /\ wr.bank \in 0 .. NumBanks - 1
      BY <1>4, <3>5 DEF IInv, RingTypeOK, Banks
    <3>7. (c.bank + (NumBanks + 1)) % NumBanks = Turn /\ (wr.bank + 1) % NumBanks = Turn
      <4>1. wr \in OutFor("program")
        BY <1>4, <3>1 DEF OutFor, InFlight
      <4>. QED BY <2>1, <2>2, <3>1, <3>3, <4>1 DEF IInv, InTurn
    <3>8. c.bank = wr.bank
      BY <3>2, <3>6, <3>7, SameTurn
    <3>. QED BY <1>4, <3>5, <3>6, <3>8
  <2>. QED BY <1>2, <1>3, <1>4, <2>1, <2>2 DEF IInv, WriteRing
<1>8. WaitingApart'
  BY <1>4 DEF WaitingApart
<1>9. InTurn'
  <2>1. Turn' = Turn
    BY <1>3 DEF Turn
  <2>. QED BY <1>2, <1>3, <2>1 DEF IInv, InTurn
<1>10. HolesOfPage'
  <2>1. Old' = Old /\ (HasHoles <=> HasHoles')
    BY <1>3 DEF Old, HasHoles, LeftHole, RightHole
  <2>2. ASSUME NEW h \in OutFor("hole"), h.bank = wr.bank, bank[h.bank] = h PROVE FALSE
    BY <1>4, <2>2 DEF OutFor, InFlight
  <2>. QED BY <1>2, <1>3, <2>1, <2>2 DEF IInv, HolesOfPage
<1>. QED BY <1>5, <1>6, <1>7, <1>8, <1>9, <1>10 DEF IInv

\* A bank finishes a hole.
LEMMA FinishHoleKeeps ==
  ASSUME IInv, NEW b \in Banks, Finish(b), ReadHole(bank[b]), UNCHANGED <<ftlVars, hostVars>>
  PROVE  IInv'
<1>1. PICK c : c = bank[b] /\ c # None /\ c.op = "hole" /\ c \in Commands
  BY DEF Finish, ReadHole, IInv, RingTypeOK
<1>2. /\ wr' = wr /\ bank' = [bank EXCEPT ![b] = None]
      /\ UNCHANGED <<rd_limit, rd_done, wr_limit, wr_done, rbuf_ptr, page_map, g_target_bank,
                     g_target_row, g_ftl_read_buf_id, g_ftl_write_buf_id, cmd, new, pc, eventq>>
  BY DEF Finish, ReadHole, ftlVars, hostVars
<1>3. \A a \in Banks : bank'[a] = IF a = b THEN None ELSE bank[a]
  BY <1>2 DEF IInv, RingTypeOK
<1>4. InFlight' \subseteq InFlight /\ InFlight \ {c} \subseteq InFlight'
  BY <1>1, <1>2, <1>3 DEF InFlight
<1>5. /\ OutFor("read")' = OutFor("read") /\ OutFor("program")' = OutFor("program")
      /\ OutFor("hole")' \subseteq OutFor("hole")
  BY <1>1, <1>4 DEF OutFor
<1>6. RingTypeOK'
  BY <1>2, <1>3 DEF IInv, RingTypeOK
<1>7. ReadRing' /\ WriteRing'
  BY <1>2, <1>5 DEF IInv, ReadRing, WriteRing
<1>8. WaitingApart'
  BY <1>2, <1>3 DEF IInv, WaitingApart
<1>9. InTurn'
  <2>1. Turn' = Turn
    BY <1>2 DEF Turn
  <2>. QED BY <1>2, <1>5, <2>1 DEF IInv, InTurn
<1>10. HolesOfPage'
  <2>1. Old' = Old /\ (HasHoles <=> HasHoles')
    BY <1>2 DEF Old, HasHoles, LeftHole, RightHole
  <2>2. ASSUME NEW h \in OutFor("hole")', wr # None, wr.op = "program", bank[h.bank] = h, h.bank = b
        PROVE  FALSE
    <3>1. h = c /\ h \in InFlight'
      BY <1>1, <2>2 DEF OutFor
    <3>2. wr # c
      BY <1>1, <2>2
    <3>3. \A a \in Banks : a # b => bank[a] # c
      BY <1>1 DEF IInv, RingTypeOK
    <3>. QED BY <1>1, <1>2, <1>3, <3>1, <3>2, <3>3 DEF InFlight
  <2>3. \A h \in OutFor("hole")' : h \in OutFor("hole") /\ h.bank \in Banks
    BY <1>5, InFlightType DEF IInv, OutFor, Commands
  <2>4. ASSUME NEW h \in OutFor("hole")', wr # None, wr.op = "program", h.buf = wr.buf,
               h.bank = wr.bank, bank[h.bank] = h
        PROVE  bank'[h.bank] = h
    BY <1>3, <2>2, <2>3, <2>4
  <2>. QED BY <1>2, <2>1, <2>3, <2>4 DEF IInv, HolesOfPage
<1>. QED BY <1>6, <1>7, <1>8, <1>9, <1>10 DEF IInv

\* The hole commands after one of another kind has finished.
LEMMA HolesStay ==
  ASSUME IInv, NEW b \in Banks, bank[b] # None, bank[b].op # "hole",
         wr' = wr, bank' = [bank EXCEPT ![b] = None], OutFor("hole")' = OutFor("hole"),
         UNCHANGED <<page_map, g_ftl_write_buf_id, cmd, new, pc>>
  PROVE  HolesOfPage'
<1>1. Old' = Old /\ (HasHoles <=> HasHoles')
  BY DEF Old, HasHoles, LeftHole, RightHole
<1>2. \A a \in Banks : bank'[a] = IF a = b THEN None ELSE bank[a]
  BY DEF IInv, RingTypeOK
<1>3. \A h \in OutFor("hole") : h.bank \in Banks /\ h.op = "hole"
  BY InFlightType DEF IInv, OutFor, Commands
<1>4. \A h \in OutFor("hole") : bank[h.bank] = h => bank'[h.bank] = h
  BY <1>2, <1>3
<1>. QED BY <1>1, <1>4 DEF IInv, HolesOfPage

\* A bank finishes a page for the host.
LEMMA FinishReadKeeps ==
  ASSUME IInv, NEW b \in Banks, Finish(b), ReadToHost(bank[b]), UNCHANGED <<ftlVars, hostVars>>
  PROVE  IInv'
<1>1. PICK c : c = bank[b] /\ c # None /\ c.op = "read" /\ c \in Commands
  BY DEF Finish, ReadToHost, IInv, RingTypeOK
<1>2. /\ wr' = wr /\ bank' = [bank EXCEPT ![b] = None]
      /\ UNCHANGED <<wr_limit, wr_done, rbuf_ptr, page_map, g_target_bank,
                     g_target_row, g_ftl_read_buf_id, g_ftl_write_buf_id, cmd, new, pc, eventq>>
  BY DEF Finish, ReadToHost, ftlVars, hostVars
<1>3. InFlight' = InFlight \ {c}
  BY <1>1, <1>2, Finished DEF IInv
<1>4. /\ OutFor("read")' = OutFor("read") \ {c} /\ OutFor("program")' = OutFor("program")
      /\ OutFor("hole")' = OutFor("hole")
  BY <1>1, <1>3 DEF OutFor
<1>5. \A a \in Banks : bank'[a] = IF a = b THEN None ELSE bank[a]
  BY <1>2 DEF IInv, RingTypeOK
<1>6. RingTypeOK'
  BY <1>2, <1>5 DEF IInv, RingTypeOK
<1>7. PICK p, l, g, S, k : /\ p = rbuf_ptr /\ l = rd_limit /\ g = g_ftl_read_buf_id
                           /\ S = NumRdBuffers /\ k = Passed(l, rd_done \union {c.buf}, S)
  OBVIOUS
<1>8. ReadRing'
  <2>1. /\ S \in Nat \ {0} /\ p \in 0 .. S - 1 /\ Ring(l, g, S, OutFor("read"), rd_done)
        /\ Ahead(p, g, S) = Ahead(p, l, S) + Ahead(l, g, S)
    BY <1>7, FlashAssumption DEF IInv, RingTypeOK, ReadRing
  <2>2. l \in 0 .. S - 1 /\ g \in 0 .. S - 1
    BY <2>1 DEF Ring
  <2>3. c \in OutFor("read")
    BY <1>1 DEF OutFor, InFlight
  <2>4. PICK m, d : /\ m = (l + k) % S
                    /\ d = (rd_done \union {c.buf}) \ Covered(l, rd_done \union {c.buf}, S)
    OBVIOUS
  <2>5. /\ k \in 0 .. Ahead(l, g, S) /\ Ring(m, g, S, OutFor("read") \ {c}, d)
        /\ Ahead(m, g, S) = Ahead(l, g, S) - k
    BY <1>7, <2>1, <2>3, <2>4, RingFinish
  <2>6. rd_limit' = m /\ rd_done' = d
    BY <1>1, <1>7, <2>4 DEF ReadToHost
  <2>7. m \in 0 .. S - 1
    BY <2>5 DEF Ring
  <2>8. Ahead(p, g, S) = Ahead(p, m, S) + Ahead(m, g, S)
    <3>1. /\ Ahead(p, g, S) = IF g >= p THEN g - p ELSE g - p + S
          /\ Ahead(p, l, S) = IF l >= p THEN l - p ELSE l - p + S
          /\ Ahead(p, m, S) = IF m >= p THEN m - p ELSE m - p + S
          /\ Ahead(l, g, S) = IF g >= l THEN g - l ELSE g - l + S
          /\ Ahead(m, g, S) = IF g >= m THEN g - m ELSE g - m + S
      BY <2>1, <2>2, <2>7, AheadIs
    <3>. QED BY <2>1, <2>2, <2>5, <2>7, <3>1
  <2>. QED BY <1>2, <1>4, <1>7, <2>5, <2>6, <2>8 DEF ReadRing
<1>9. WriteRing'
  BY <1>2, <1>4 DEF IInv, WriteRing
<1>10. WaitingApart'
  BY <1>2, <1>5 DEF IInv, WaitingApart
<1>11. InTurn'
  <2>1. Turn' = Turn
    BY <1>2 DEF Turn
  <2>. QED BY <1>2, <1>4, <2>1 DEF IInv, InTurn
<1>12. HolesOfPage'
  BY <1>1, <1>2, <1>4, HolesStay
<1>. QED BY <1>6, <1>8, <1>9, <1>10, <1>11, <1>12 DEF IInv

\* A bank finishes a program.
LEMMA FinishProgramKeeps ==
  ASSUME IInv, NEW b \in Banks, Finish(b), ProgramFromHost(bank[b]), UNCHANGED <<ftlVars, hostVars>>
  PROVE  IInv'
<1>1. PICK c : c = bank[b] /\ c # None /\ c.op = "program" /\ c \in Commands
  BY DEF Finish, ProgramFromHost, IInv, RingTypeOK
<1>2. /\ wr' = wr /\ bank' = [bank EXCEPT ![b] = None]
      /\ UNCHANGED <<rd_limit, rd_done, rbuf_ptr, page_map, g_target_bank,
                     g_target_row, g_ftl_read_buf_id, g_ftl_write_buf_id, cmd, new, pc, eventq>>
  BY DEF Finish, ProgramFromHost, ftlVars, hostVars
<1>3. InFlight' = InFlight \ {c}
  BY <1>1, <1>2, Finished DEF IInv
<1>4. /\ OutFor("program")' = OutFor("program") \ {c} /\ OutFor("read")' = OutFor("read")
      /\ OutFor("hole")' = OutFor("hole")
  BY <1>1, <1>3 DEF OutFor
<1>5. \A a \in Banks : bank'[a] = IF a = b THEN None ELSE bank[a]
  BY <1>2 DEF IInv, RingTypeOK
<1>6. RingTypeOK'
  BY <1>2, <1>5 DEF IInv, RingTypeOK
<1>7. ReadRing'
  BY <1>2, <1>4 DEF IInv, ReadRing
<1>8. PICK l, g, S, k : /\ l = wr_limit /\ g = g_ftl_write_buf_id
                        /\ S = NumWrBuffers /\ k = Passed(l, wr_done \union {c.buf}, S)
  OBVIOUS
<1>9. WriteRing'
  <2>1. /\ S \in Nat \ {0} /\ NumBanks \in Nat /\ Ring(l, g, S, OutFor("program"), wr_done)
        /\ Ahead(l, g, S) <= NumBanks + 1
        /\ Ahead(l, g, S) = NumBanks + 1 => wr # None /\ wr.op = "program"
    BY <1>8, FlashAssumption DEF IInv, WriteRing
  <2>2. Ahead(l, g, S) \in 0 .. S - 1
    BY <2>1, AheadIs DEF Ring
  <2>3. c \in OutFor("program")
    BY <1>1 DEF OutFor, InFlight
  <2>4. PICK m, d : /\ m = (l + k) % S
                    /\ d = (wr_done \union {c.buf}) \ Covered(l, wr_done \union {c.buf}, S)
    OBVIOUS
  <2>5. /\ k \in 0 .. Ahead(l, g, S) /\ Ring(m, g, S, OutFor("program") \ {c}, d)
        /\ Ahead(m, g, S) = Ahead(l, g, S) - k
    <3>1. S \in Nat \ {0} /\ Ring(l, g, S, OutFor("program"), wr_done)
      BY <2>1
    <3>2. /\ k \in 0 .. Ahead(l, g, S)
          /\ Ring((l + k) % S, g, S, OutFor("program") \ {c},
                  (wr_done \union {c.buf}) \ Covered(l, wr_done \union {c.buf}, S))
          /\ Ahead((l + k) % S, g, S) = Ahead(l, g, S) - k
      BY <1>8, <3>1, <2>3, RingFinish
    <3>. QED BY <2>4, <3>2
  <2>6. wr_limit' = m /\ wr_done' = d
    BY <1>1, <1>8, <2>4 DEF ProgramFromHost
  <2>7. /\ Ahead(m, g, S) <= NumBanks + 1
        /\ Ahead(m, g, S) = NumBanks + 1 => wr # None /\ wr.op = "program"
    BY <2>1, <2>2, <2>5
  <2>. QED BY <1>2, <1>4, <1>8, <2>5, <2>6, <2>7 DEF IInv, WriteRing
<1>10. WaitingApart'
  BY <1>2, <1>5 DEF IInv, WaitingApart
<1>11. InTurn'
  <2>1. Turn' = Turn
    BY <1>2 DEF Turn
  <2>. QED BY <1>2, <1>4, <2>1 DEF IInv, InTurn
<1>12. HolesOfPage'
  BY <1>1, <1>2, <1>4, HolesStay
<1>. QED BY <1>6, <1>7, <1>9, <1>10, <1>11, <1>12 DEF IInv

-----------------------------------------------------------------------------
(***************************************************************************)
(* The theorems.                                                           *)
(***************************************************************************)
\* The state that ftl_open leaves has empty rings.
LEMMA InitIInv == Init => IInv
<1> SUFFICES ASSUME Init PROVE IInv
  OBVIOUS
<1>1. InFlight = {}
  BY DEF Init, CtrlInit, InFlight
<1>2. OutFor("read") = {} /\ OutFor("program") = {} /\ OutFor("hole") = {}
  BY <1>1 DEF OutFor
<1>3. NumRdBuffers \in Nat \ {0} /\ NumWrBuffers \in Nat \ {0} /\ NumBanks \in Nat \ {0}
  BY FlashAssumption
<1>4. /\ Ring(0, 0, NumRdBuffers, {}, {}) /\ Ahead(0, 0, NumRdBuffers) = 0
      /\ Ring(0, 0, NumWrBuffers, {}, {}) /\ Ahead(0, 0, NumWrBuffers) = 0
  <2>1. 0 \in 0 .. NumRdBuffers - 1 /\ 0 \in 0 .. NumWrBuffers - 1
    BY <1>3
  <2>. QED BY <1>3, <2>1, RingEmpty
<1>5. RingTypeOK
  <2>1. PICK P, V : P = PagesPerVblk /\ V = VblksPerBank /\ P \in Nat \ {0} /\ V \in Nat \ {0}
    BY TutorialAssumption
  <2>2. V * P >= 1 * P /\ V * P \in Nat
    BY <2>1
  <2>3. P \in 0 .. V * P
    BY <2>1, <2>2
  <2>4. g_target_row \in [Banks -> 0 .. VblksPerBank * PagesPerVblk]
    BY <2>1, <2>3 DEF Init
  <2>5. cmd.lba + cmd.n <= NumLpns * SectorsPerPage
    <3>1. NumLpns * SectorsPerPage \in Nat
      BY FlashAssumption, TutorialAssumption
    <3>. QED BY <3>1 DEF Init, NoCmd
  <2>6. 0 \in Banks /\ 0 \in 0 .. NumRdBuffers - 1
    BY <1>3 DEF Banks
  <2>. QED BY <2>4, <2>5, <2>6 DEF Init, CtrlInit, RingTypeOK, NoCmd, PageAddrs
<1>6. ReadRing
  <2>1. /\ rd_limit = 0 /\ g_ftl_read_buf_id = 0 /\ rbuf_ptr = 0 /\ rd_done = {}
        /\ 0 = 0 + 0
    BY DEF Init, CtrlInit
  <2>. QED BY <1>2, <1>4, <2>1, Zenon DEF ReadRing
<1>7. WriteRing
  <2>1. 0 <= NumBanks + 1 /\ 0 # NumBanks + 1
    BY <1>3
  <2>. QED BY <1>2, <1>4, <2>1 DEF Init, CtrlInit, WriteRing
<1>8. WaitingApart /\ InTurn /\ HolesOfPage
  BY <1>2 DEF Init, CtrlInit, WaitingApart, InTurn, HolesOfPage
<1>. QED BY <1>5, <1>6, <1>7, <1>8 DEF IInv

\* Every step of the host, of the FTL and of the hardware keeps the invariant.
LEMMA StepKeeps == IInv /\ [Next]_vars => IInv'
<1> SUFFICES ASSUME IInv, [Next]_vars PROVE IInv'
  OBVIOUS
<1>1. ASSUME NEW r \in Requests, HostSends(r) PROVE IInv'
  BY <1>1, HostSendsKeeps
<1>2. CASE PageToHost \/ PageFromHost
  BY <1>2, PageToHostKeeps, PageFromHostKeeps
<1>3. CASE Ftl
  BY <1>3, MainKeeps, ReadMappedPageKeeps, ReadUnmappedPageKeeps, WriteStartKeeps,
     ReadLeftHoleKeeps, ReadRightHoleKeeps, ProgramPageKeeps DEF Ftl
<1>4. CASE Accept /\ UNCHANGED <<ftlVars, hostVars>>
  BY <1>4, AcceptKeeps
<1>5. ASSUME NEW b \in Banks, Finish(b), UNCHANGED <<ftlVars, hostVars>> PROVE IInv'
  <2>1. ReadHole(bank[b]) \/ ReadToHost(bank[b]) \/ ProgramFromHost(bank[b])
    BY <1>5 DEF Finish
  <2>. QED BY <1>5, <2>1, FinishHoleKeeps, FinishReadKeeps, FinishProgramKeeps
<1>6. CASE UNCHANGED vars
  <2>1. eventq' \in Seq(Requests)
    BY <1>6 DEF vars, hostVars, IInv, RingTypeOK
  <2>. QED BY <1>6, <2>1, ElsewhereKeeps DEF vars, ctrlVars, ftlVars
<1>. QED BY <1>1, <1>2, <1>3, <1>4, <1>5, <1>6 DEF Next

\* The inductive invariant of the two rings, the turns of the banks and the holes
\* (ftl_read, ftl_write and get_free_page of the tutorial FTL on the flash controller).
THEOREM RingInvariant == Spec => []IInv
<1>. QED BY InitIInv, StepKeeps, PTL DEF Spec

\* The invariant implies what the run checks: the distances in both rings are the
\* commands in flight and the finished ones, and no bank programs a buffer with a hole.
LEMMA RingsFollow == IInv => RingsAgree
<1> SUFFICES ASSUME IInv PROVE RingsAgree
  OBVIOUS
<1>1. IsFiniteSet(OutFor("read")) /\ IsFiniteSet(OutFor("program"))
  <2>1. OutFor("read") \in SUBSET InFlight /\ OutFor("program") \in SUBSET InFlight
    BY DEF OutFor
  <2>. QED BY <2>1, InFlightType, FS_Subset DEF IInv
<1>2. Ahead(rd_limit, g_ftl_read_buf_id, NumRdBuffers)
        = Cardinality(OutFor("read")) + Cardinality(rd_done)
  BY <1>1, RingCount, FlashAssumption DEF IInv, ReadRing
<1>3. Ahead(wr_limit, g_ftl_write_buf_id, NumWrBuffers)
        = Cardinality(OutFor("program")) + Cardinality(wr_done)
  BY <1>1, RingCount, FlashAssumption DEF IInv, WriteRing
<1>4. ASSUME NEW h \in OutFor("hole"), NEW c \in OutFor("program"), c.buf = h.buf
      PROVE  c.bank = h.bank /\ c = wr
  <2>1. Ring(wr_limit, g_ftl_write_buf_id, NumWrBuffers, OutFor("program"), wr_done)
    BY DEF IInv, WriteRing
  <2>2. c.buf # g_ftl_write_buf_id
    BY <2>1, CursorFree, FlashAssumption
  <2>3. wr # None /\ wr.op = "program" /\ h.buf = wr.buf /\ h.bank = wr.bank
    BY <1>4, <2>2 DEF IInv, HolesOfPage
  <2>4. wr \in OutFor("program")
    BY <2>3 DEF OutFor, InFlight
  <2>5. c = wr
    BY <1>4, <2>1, <2>3, <2>4 DEF Ring
  <2>. QED BY <2>3, <2>5
<1>. QED BY <1>2, <1>3, <1>4 DEF RingsAgree

\* For every number of banks and of buffers the rings agree with the commands in flight,
\* so that a full ring never looks empty, and a program waits for the holes of its buffer.
THEOREM RingsAgreeThm == Spec => []RingsAgree
<1>. QED BY RingInvariant, RingsFollow, PTL

-----------------------------------------------------------------------------
(***************************************************************************)
(* The data.  A history g lists all page transfers of the host so far, in  *)
(* the order in which it asked for them, and how far each side has come:   *)
(*   N        the page transfers so far, numbered from 1;                  *)
(*   f, h     the last page that the FTL has taken up, and the last one    *)
(*            that the SATA hardware has transferred;                      *)
(*   P, lp    a page transfer as on the link, and its logical page;        *)
(*   w, r     the pages written and read up to a transfer;                 *)
(*   L, M     the writes whose buffers are free again, the reads whose     *)
(*            buffers may be sent: the limits, as counts;                  *)
(*   last     the last transfer up to one that writes a logical page;      *)
(*   val      what its sectors then hold, 0 for never written;             *)
(*   loc      where the FTL has put a page it writes;                      *)
(*   st       the page before the first one of a command that waits.       *)
(* Cursors and limits of the rings are counts of the history, modulo the   *)
(* number of buffers.                                                      *)
(***************************************************************************)
\* What sectors of buffers and pages hold.
Vals == Nat \union {Erased, Stale}

\* The data of pages and buffers.
DataTypeOK ==
  /\ nand \in [Banks -> [Rows -> [Sectors -> Vals]]]
  /\ rbuf \in [0 .. NumRdBuffers - 1 -> [Sectors -> Vals]]
  /\ wbuf \in [0 .. NumWrBuffers - 1 -> [Sectors -> Vals]]
  /\ disk \in [Lbas -> Nat] /\ writes \in Nat
  /\ link \in Seq([op : {"read", "write"}, off : Nat, n : Nat, exp : [Sectors -> Vals]])

\* A transfer from or to the host, and the sectors of its page that it carries.
Writes(g, i) == g.P[i].op = "write"
Reads(g, i)  == g.P[i].op = "read"
Within(g, i) == g.P[i].off .. g.P[i].off + g.P[i].n - 1

\* A page transfer, and what it changes.
PageRec(g, i) ==
  /\ g.lp[i] \in Lpns /\ (Writes(g, i) \/ Reads(g, i))
  /\ g.P[i].off \in Nat /\ g.P[i].n \in Nat \ {0} /\ g.P[i].off + g.P[i].n <= SectorsPerPage
  /\ Writes(g, i) =>
       /\ g.w[i] = g.w[i-1] + 1 /\ g.r[i] = g.r[i-1]
       /\ \A l \in Lpns : g.last[i][l] = IF l = g.lp[i] THEN i ELSE g.last[i-1][l]
       /\ \A l \in Lpns, s \in Sectors :
            g.val[i][l][s] = IF l = g.lp[i] /\ s \in Within(g, i) THEN g.P[i].exp[s] ELSE g.val[i-1][l][s]
       /\ \A s \in Sectors : g.P[i].exp[s] = g.P[i].exp[0] /\ g.P[i].exp[s] \in Nat \ {0}
  /\ Reads(g, i) =>
       /\ g.w[i] = g.w[i-1] /\ g.r[i] = g.r[i-1] + 1
       /\ \A l \in Lpns : g.last[i][l] = g.last[i-1][l] /\ \A s \in Sectors : g.val[i][l][s] = g.val[i-1][l][s]
       /\ \A s \in Sectors : LET old(x) == g.val[i][g.lp[i]][x]
                             IN  g.P[i].exp[s] = IF old(s) # 0 THEN old(s)
                                                 ELSE IF \A x \in Sectors : old(x) = 0 THEN Erased ELSE Stale

\* A history: its counts grow, and the last write of a page is one and wrote what it holds.
History(g) ==
  /\ g.N \in Nat /\ g.f \in 0 .. g.N /\ g.h \in 0 .. g.N
  /\ \A i \in 0 .. g.N : g.w[i] \in Nat /\ g.r[i] \in Nat
  /\ \A i, j \in 0 .. g.N : i <= j => g.w[i] <= g.w[j] /\ g.r[i] <= g.r[j]
  /\ \A i \in 0 .. g.N, l \in Lpns :
       /\ g.last[i][l] \in 0 .. i
       /\ g.last[i][l] # 0 => Writes(g, g.last[i][l]) /\ g.lp[g.last[i][l]] = l
       /\ \A s \in Sectors : g.val[i][l][s] = g.val[g.last[i][l]][l][s]
  /\ \A l \in Lpns, s \in Sectors : g.val[0][l][s] = 0
  /\ \A i \in 1 .. g.N : PageRec(g, i)

\* The link holds what is not transferred yet; disk is the end of the history.
Sent(g) ==
  /\ Len(link) = g.N - g.h
  /\ \A k \in 1 .. Len(link) : link[k] = g.P[g.h + k]
  /\ \A l \in Lpns, s \in Sectors : disk[l * SectorsPerPage + s] = g.val[g.N][l][s]

\* The pages behind page i are those of command c.
PagesAre(g, c, i) ==
  \A k \in 1 .. NumPages(c) :
    LET l == Lpn(c) + k - 1
    IN  /\ g.P[i + k].op = c.op /\ g.lp[i + k] = l
        /\ g.P[i + k].off = First(c, l) /\ g.P[i + k].n = Final(c, l) - First(c, l) + 1

\* The pages that the FTL has not taken up are those of its command and of the waiting ones.
Queued(g) ==
  /\ \A k \in 1 .. Len(eventq) + 1 : g.st[k] \in 0 .. g.N
  /\ \A k \in 1 .. Len(eventq) : g.st[k+1] = g.st[k] + NumPages(eventq[k]) /\ PagesAre(g, eventq[k], g.st[k])
  /\ g.st[Len(eventq) + 1] = g.N
  /\ pc = "main" => g.st[1] = g.f
  /\ pc \notin {"main", "stopped"} => g.st[1] = g.f + NumPages(cmd) /\ PagesAre(g, cmd, g.f)

\* The FTL's cursors follow f, the hardware's h, and no ring is overrun.
Counters(g) ==
  /\ g.L \in Nat /\ g.L <= g.w[g.f] /\ g.L <= g.w[g.h]
  /\ g.w[g.f] - g.L < NumWrBuffers /\ g.w[g.h] - g.L < NumWrBuffers
  /\ g.M \in Nat /\ g.r[g.h] <= g.M /\ g.M <= g.r[g.f] /\ g.r[g.f] - g.r[g.h] < NumRdBuffers
  /\ g_ftl_read_buf_id = g.r[g.f] % NumRdBuffers /\ rbuf_ptr = g.r[g.h] % NumRdBuffers /\ rd_limit = g.M % NumRdBuffers
  /\ g_ftl_write_buf_id = g.w[g.f] % NumWrBuffers /\ wbuf_ptr = g.w[g.h] % NumWrBuffers /\ wr_limit = g.L % NumWrBuffers

\* The buffer of a page, the last write of its logical page before it, and the commands
\* that program it or read it from there; whether a page of the flash holds its data.
WBuf(g, i) == (g.w[i] - 1) % NumWrBuffers
RBuf(g, i) == (g.r[i] - 1) % NumRdBuffers
Source(g, i) == g.last[i-1][g.lp[i]]
ProgCmd(g, i) == Command("program", g.loc[i].bank, g.loc[i].row, 0, SectorsPerPage, WBuf(g, i))
ReadCmd(g, i) == Command("read", g.loc[Source(g, i)].bank, g.loc[Source(g, i)].row, g.P[i].off, g.P[i].n, RBuf(g, i))
HasData(page, g, i) == \A s \in Sectors : g.val[i][g.lp[i]][s] # 0 => page[s] = g.val[i][g.lp[i]][s]

\* ftl_write has chosen a page of the flash.
MidWrite == pc \in {"left", "right", "program"}

\* The writes that the FTL has taken up.
Written(g) == {i \in 1 .. g.f : Writes(g, i)}

\* Each is in a page of its own, below the next row, and the map has the last ones.
Places(g) ==
  /\ \A i \in Written(g) : /\ g.loc[i] \in [bank : Banks, row : Rows]
                           /\ g.loc[i].row < g_target_row[g.loc[i].bank]
  /\ \A i, j \in Written(g) : g.loc[i] = g.loc[j] => i = j
  /\ MidWrite => /\ new \in [bank : Banks, row : Rows] /\ new.row < g_target_row[new.bank]
                 /\ \A i \in Written(g) : g.loc[i] # new
  /\ \A l \in Lpns : page_map[l] = IF g.last[g.f][l] = 0 THEN NULL ELSE g.loc[g.last[g.f][l]]

\* A write is in flight, and its buffer still in use, or its data is in the flash.
Programs(g) ==
  /\ \A c \in OutFor("program") : \E i \in Written(g) : c = ProgCmd(g, i) /\ g.L < g.w[i]
  /\ \A i \in Written(g) : ProgCmd(g, i) \in InFlight \/ HasData(nand[g.loc[i].bank][g.loc[i].row], g, i)
  /\ \A x \in Nat : g.L < x /\ x <= g.w[g.f] /\ (x - 1) % NumWrBuffers \in wr_done => x <= g.w[g.h]

\* What the host has sent stays in the buffer until it is programmed.
Filled(g) ==
  \A i \in 1 .. g.h : Writes(g, i) /\ g.L < g.w[i] => \A s \in Within(g, i) : wbuf[WBuf(g, i)][s] = g.P[i].exp[s]

\* So do the old sectors beside it, or a command in flight will read them, or the FTL
\* is about to issue it.
Holes(g) ==
  \A i \in 1 .. g.N : Writes(g, i) /\ g.L < g.w[i] /\ (i <= g.f \/ (i = g.f + 1 /\ pc \in {"right", "program"})) =>
    \A s \in Sectors \ Within(g, i) : g.val[i][g.lp[i]][s] # 0 =>
      \/ wbuf[WBuf(g, i)][s] = g.val[i][g.lp[i]][s]
      \/ \E c \in OutFor("hole") : c.buf = WBuf(g, i) /\ s \in SectorsOf(c)
      \/ i = g.f + 1 /\ pc = "right" /\ s >= g.P[i].off + g.P[i].n

\* A command that reads old sectors reads them where the last write of the page is,
\* which is not waiting behind it, into no sector of the host's, and before the program.
HoleCmds(g) ==
  \A c \in OutFor("hole") : \E i \in 1 .. g.N :
    /\ Writes(g, i) /\ c.buf = WBuf(g, i) /\ SectorsOf(c) \cap Within(g, i) = {}
    /\ Source(g, i) # 0 /\ Source(g, i) <= g.f /\ c.bank = g.loc[Source(g, i)].bank /\ c.row = g.loc[Source(g, i)].row
    /\ ProgCmd(g, Source(g, i)) # wr
    /\ \/ i = g.f + 1 /\ pc \in {"right", "program"}
       \/ i <= g.f /\ ProgCmd(g, i) = wr

\* A command that reads for the host reads where the last write of the page is, which is
\* not waiting behind it, and its buffer is not sent yet.
ReadCmds(g) ==
  \A c \in OutFor("read") : \E i \in 1 .. g.f :
    /\ Reads(g, i) /\ g.M < g.r[i] /\ c = ReadCmd(g, i)
    /\ Source(g, i) # 0 /\ ProgCmd(g, Source(g, i)) # wr

\* A page that the host waits for is being read or in its buffer.
Fetched(g) ==
  \A i \in g.h + 1 .. g.f : Reads(g, i) =>
    \/ Source(g, i) # 0 /\ ReadCmd(g, i) \in InFlight
    \/ \A s \in Within(g, i) : g.P[i].exp[s] # Stale => rbuf[RBuf(g, i)][s] = g.P[i].exp[s]

\* The data agree with a history.
DataOK(g) ==
  /\ History(g) /\ Sent(g) /\ Queued(g) /\ Counters(g) /\ Places(g)
  /\ Programs(g) /\ Filled(g) /\ Holes(g) /\ HoleCmds(g) /\ ReadCmds(g) /\ Fetched(g)

-----------------------------------------------------------------------------
(***************************************************************************)
(* Counters, and the cursors that are their remainders.                    *)
(***************************************************************************)
\* A number is a multiple of the size and its remainder.
LEMMA SplitIs ==
  ASSUME NEW n \in Nat \ {0}, NEW a \in Int
  PROVE  a \div n \in Int /\ a % n \in 0 .. n - 1 /\ a = n * (a \div n) + (a % n)
  OBVIOUS

\* A remainder that moves on as its counter does.
LEMMA CursorAt ==
  ASSUME NEW n \in Nat \ {0}, NEW a \in Nat, NEW d \in 0 .. n
  PROVE  ((a % n) + d) % n = (a + d) % n
<1>1. PICK q, r : q = a \div n /\ r = a % n
  OBVIOUS
<1>2. q \in Int /\ r \in 0 .. n - 1 /\ a = n * q + r
  BY <1>1
<1>3. (r + d) % n = IF r + d < n THEN r + d ELSE r + d - n
  BY <1>2, FurtherIs
<1>4. CASE r + d < n
  <2>1. PICK x : x = r + d /\ x \in 0 .. n - 1
    BY <1>2, <1>4
  <2>2. (n * q + x) % n = x
    BY <1>2, <2>1, RestIs
  <2>3. a + d = n * q + x
    BY <1>2, <2>1
  <2>. QED BY <1>1, <1>3, <1>4, <2>1, <2>2, <2>3
<1>5. CASE r + d >= n
  <2>1. PICK x, p : x = r + d - n /\ x \in 0 .. n /\ p = q + 1 /\ p \in Int
    BY <1>2, <1>5
  <2>2. x \in 0 .. n - 1
    BY <1>2, <2>1
  <2>3. (n * p + x) % n = x
    BY <2>1, <2>2, RestIs
  <2>4. a + d = n * p + x
    <3>1. n * p = n * q + n
      BY <1>2, <2>1
    <3>. QED BY <1>2, <2>1, <3>1
  <2>. QED BY <1>1, <1>2, <1>3, <1>5, <2>1, <2>3, <2>4
<1>. QED BY <1>2, <1>4, <1>5

\* Counters that differ by less than the size are as far apart as their cursors.
LEMMA AheadOf ==
  ASSUME NEW n \in Nat \ {0}, NEW a \in Nat, NEW b \in Nat, a <= b, b - a < n
  PROVE  /\ Ahead(a % n, b % n, n) = b - a
         /\ a % n \in 0 .. n - 1 /\ b % n \in 0 .. n - 1
<1>1. PICK d : d = b - a /\ d \in 0 .. n - 1
  OBVIOUS
<1>2. PICK r : r = a % n /\ r \in 0 .. n - 1
  OBVIOUS
<1>3. b % n = (r + d) % n
  <2>1. d \in 0 .. n /\ b = a + d
    BY <1>1
  <2>. QED BY <1>2, <2>1, CursorAt
<1>4. PICK t : t = b % n
  OBVIOUS
<1>5. t = (IF r + d < n THEN r + d ELSE r + d - n) /\ t \in 0 .. n - 1
  <2>1. d \in 0 .. n
    BY <1>1
  <2>. QED BY <1>2, <1>3, <1>4, <2>1, FurtherIs
<1>6. Ahead(r, t, n) = IF t >= r THEN t - r ELSE t - r + n
  BY <1>2, <1>5, AheadIs
<1>7. Ahead(r, t, n) = d
  BY <1>1, <1>2, <1>5, <1>6
<1>. QED BY <1>1, <1>2, <1>4, <1>5, <1>7, Zenon

\* Equal cursors of counters that differ by less than the size.
LEMMA SameCursor ==
  ASSUME NEW n \in Nat \ {0}, NEW a \in Nat, NEW b \in Nat, a % n = b % n,
         a - b < n, b - a < n
  PROVE  a = b
<1>1. PICK r : r = a % n /\ r \in 0 .. n - 1
  OBVIOUS
<1>2. Ahead(r, r, n) = 0
  BY <1>1, AheadIs
<1>3. CASE a <= b
  <2>1. Ahead(a % n, b % n, n) = b - a
    BY <1>3, AheadOf
  <2>2. Ahead(a % n, b % n, n) = 0
    BY <1>1, <1>2, Zenon
  <2>3. b - a = 0
    BY <2>1, <2>2, Zenon
  <2>. QED BY <2>3
<1>4. CASE b <= a
  <2>1. Ahead(b % n, a % n, n) = a - b
    BY <1>4, AheadOf
  <2>2. Ahead(b % n, a % n, n) = 0
    BY <1>1, <1>2, Zenon
  <2>3. a - b = 0
    BY <2>1, <2>2, Zenon
  <2>. QED BY <2>3
<1>. QED BY <1>3, <1>4

\* The window between two counters.
LEMMA WindowOf ==
  ASSUME NEW n \in Nat \ {0}, NEW a \in Nat, NEW b \in Nat, a <= b, b - a < n
  PROVE  /\ \A x \in a .. b - 1 : x % n \in Window(a % n, b % n, n) /\ Ahead(a % n, x % n, n) = x - a
         /\ \A y \in Window(a % n, b % n, n) : \E x \in a .. b - 1 : y = x % n
<1>1. Ahead(a % n, b % n, n) = b - a
  BY AheadOf
<1>2. ASSUME NEW j \in 0 .. b - a - 1 PROVE ((a % n) + j) % n = (a + j) % n
  <2>1. j \in 0 .. n
    OBVIOUS
  <2>. QED BY <2>1, CursorAt
<1>3. Window(a % n, b % n, n) = {((a % n) + j) % n : j \in 0 .. b - a - 1}
  BY <1>1 DEF Window
<1>4. ASSUME NEW x \in a .. b - 1
      PROVE  x % n \in Window(a % n, b % n, n) /\ Ahead(a % n, x % n, n) = x - a
  <2>1. PICK j : j = x - a /\ j \in 0 .. b - a - 1
    OBVIOUS
  <2>2. ((a % n) + j) % n = x % n
    <3>1. a + j = x
      BY <2>1
    <3>. QED BY <1>2, <2>1, <3>1
  <2>3. x % n \in Window(a % n, b % n, n)
    BY <1>3, <2>1, <2>2
  <2>4. x \in Nat /\ a <= x /\ x - a < n
    OBVIOUS
  <2>. QED BY <2>3, <2>4, AheadOf
<1>5. ASSUME NEW y \in Window(a % n, b % n, n) PROVE \E x \in a .. b - 1 : y = x % n
  <2>1. PICK j \in 0 .. b - a - 1 : y = ((a % n) + j) % n
    BY <1>3
  <2>2. y = (a + j) % n
    BY <1>2, <2>1, Zenon
  <2>3. a + j \in a .. b - 1
    OBVIOUS
  <2>. QED BY <2>2, <2>3, Zenon
<1>. QED BY <1>4, <1>5

\* If the next buffer is not the limit, there is room for one more.
LEMMA RoomFor ==
  ASSUME NEW n \in Nat \ {0}, NEW a \in Nat, NEW b \in Nat, a <= b, b - a < n,
         ((b % n) + 1) % n # a % n
  PROVE  b + 1 - a < n /\ ((b % n) + 1) % n = (b + 1) % n
<1>1. 1 \in 0 .. n /\ n \in 0 .. n
  OBVIOUS
<1>2. ((b % n) + 1) % n = (b + 1) % n
  BY <1>1, CursorAt
<1>3. ASSUME b + 1 - a = n PROVE FALSE
  <2>1. b + 1 = a + n
    BY <1>3
  <2>2. ((a % n) + n) % n = (a + n) % n
    BY <1>1, CursorAt
  <2>3. PICK r : r = a % n /\ r \in 0 .. n - 1
    OBVIOUS
  <2>4. (r + n) % n = r
    <3>1. PICK d : d = n /\ d \in 0 .. n
      BY <1>1
    <3>2. (r + d) % n = IF r + d < n THEN r + d ELSE r + d - n
      BY <2>3, <3>1, FurtherIs
    <3>3. ~(r + d < n) /\ r + d - n = r
      BY <2>3, <3>1
    <3>. QED BY <3>1, <3>2, <3>3
  <2>. QED BY <1>2, <2>1, <2>2, <2>3, <2>4
<1>. QED BY <1>2, <1>3

-----------------------------------------------------------------------------
(***************************************************************************)
(* The history of the page transfers.                                      *)
(***************************************************************************)
\* The transfers are counted, writes and reads apart: a later one has a larger number.
LEMMA InOrder ==
  ASSUME NEW g, History(g)
  PROVE  /\ g.N \in Nat /\ g.f \in Nat /\ g.h \in Nat /\ g.f <= g.N /\ g.h <= g.N
         /\ \A i \in 1 .. g.N : /\ i - 1 \in 0 .. g.N /\ g.lp[i] \in Lpns
                                /\ Writes(g, i) \/ Reads(g, i)
         /\ \A i \in 1 .. g.N : Writes(g, i) =>
              /\ ~Reads(g, i) /\ g.w[i] \in Nat /\ g.w[i] - 1 \in Nat
              /\ \A j \in 0 .. g.N : g.w[i] <= g.w[j] <=> i <= j
         /\ \A i \in 1 .. g.N : Reads(g, i) =>
              /\ ~Writes(g, i) /\ g.r[i] \in Nat /\ g.r[i] - 1 \in Nat
              /\ \A j \in 0 .. g.N : g.r[i] <= g.r[j] <=> i <= j
<1>1. g.N \in Nat /\ g.f \in 0 .. g.N /\ g.h \in 0 .. g.N
  BY DEF History
<1>2. ASSUME NEW i \in 1 .. g.N
      PROVE  i - 1 \in 0 .. g.N /\ i \in 0 .. g.N /\ g.lp[i] \in Lpns /\ (Writes(g, i) \/ Reads(g, i))
  BY <1>1 DEF History, PageRec
<1>3. \A i, j \in 0 .. g.N : i <= j => g.w[i] <= g.w[j] /\ g.r[i] <= g.r[j]
  BY DEF History
<1>4. \A i \in 0 .. g.N : g.w[i] \in Nat /\ g.r[i] \in Nat
  BY DEF History
<1>5. ASSUME NEW i \in 1 .. g.N, Writes(g, i)
      PROVE  /\ ~Reads(g, i) /\ g.w[i] \in Nat /\ g.w[i] - 1 \in Nat
             /\ \A j \in 0 .. g.N : g.w[i] <= g.w[j] <=> i <= j
  <2>1. g.w[i] = g.w[i-1] + 1
    BY <1>5 DEF History, PageRec
  <2>2. ~Reads(g, i)
    BY <1>5 DEF Writes, Reads
  <2>3. ASSUME NEW j \in 0 .. g.N, ~(i <= j) PROVE ~(g.w[i] <= g.w[j])
    <3>1. j <= i - 1
      BY <1>1, <2>3
    <3>2. g.w[j] <= g.w[i-1]
      BY <1>2, <1>3, <3>1
    <3>. QED BY <1>2, <1>4, <2>1, <3>2
  <2>. QED BY <1>2, <1>3, <1>4, <2>1, <2>2, <2>3
<1>6. ASSUME NEW i \in 1 .. g.N, Reads(g, i)
      PROVE  /\ ~Writes(g, i) /\ g.r[i] \in Nat /\ g.r[i] - 1 \in Nat
             /\ \A j \in 0 .. g.N : g.r[i] <= g.r[j] <=> i <= j
  <2>1. g.r[i] = g.r[i-1] + 1
    BY <1>6 DEF History, PageRec
  <2>2. ~Writes(g, i)
    BY <1>6 DEF Writes, Reads
  <2>3. ASSUME NEW j \in 0 .. g.N, ~(i <= j) PROVE ~(g.r[i] <= g.r[j])
    <3>1. j <= i - 1
      BY <1>1, <2>3
    <3>2. g.r[j] <= g.r[i-1]
      BY <1>2, <1>3, <3>1
    <3>. QED BY <1>2, <1>4, <2>1, <3>2
  <2>. QED BY <1>2, <1>3, <1>4, <2>1, <2>2, <2>3
<1>. QED BY <1>1, <1>2, <1>5, <1>6

\* What a page held before a transfer was written by its last write.
LEMMA SourceIs ==
  ASSUME NEW g, History(g), NEW i \in 1 .. g.N
  PROVE  /\ Source(g, i) \in 0 .. i - 1
         /\ Source(g, i) # 0 => /\ Source(g, i) \in 1 .. g.N
                                /\ Writes(g, Source(g, i)) /\ g.lp[Source(g, i)] = g.lp[i]
         /\ \A s \in Sectors : g.val[i-1][g.lp[i]][s] = g.val[Source(g, i)][g.lp[i]][s]
         /\ Source(g, i) = 0 => \A s \in Sectors : g.val[i-1][g.lp[i]][s] = 0
         /\ Source(g, i) # 0 => \E s \in Sectors : g.val[i-1][g.lp[i]][s] # 0
<1>1. PICK k, l : k = Source(g, i) /\ l = g.lp[i]
  OBVIOUS
<1>2. l \in Lpns /\ i - 1 \in 0 .. g.N /\ g.N \in Nat
  BY <1>1, InOrder
<1>3. k = g.last[i-1][l]
  BY <1>1 DEF Source
<1>4. /\ k \in 0 .. i - 1
      /\ k # 0 => Writes(g, k) /\ g.lp[k] = l
      /\ \A s \in Sectors : g.val[i-1][l][s] = g.val[k][l][s]
  BY <1>2, <1>3 DEF History
<1>5. k # 0 => k \in 1 .. g.N
  BY <1>2, <1>4
<1>6. ASSUME k = 0 PROVE \A s \in Sectors : g.val[i-1][l][s] = 0
  BY <1>2, <1>4, <1>6 DEF History
<1>7. ASSUME k # 0 PROVE \E s \in Sectors : g.val[i-1][l][s] # 0
  <2>1. /\ g.P[k].off \in Nat /\ g.P[k].n \in Nat \ {0} /\ g.P[k].off + g.P[k].n <= SectorsPerPage
        /\ \A s \in Sectors : g.val[k][l][s] = IF s \in Within(g, k) THEN g.P[k].exp[s] ELSE g.val[k-1][l][s]
        /\ \A s \in Sectors : g.P[k].exp[s] \in Nat \ {0}
    BY <1>2, <1>4, <1>5, <1>7 DEF History, PageRec
  <2>2. PICK s : s = g.P[k].off
    OBVIOUS
  <2>3. s \in Sectors /\ s \in Within(g, k)
    BY <2>1, <2>2, FlashAssumption DEF Sectors, Within
  <2>. QED BY <1>4, <2>1, <2>3
<1>. QED BY <1>1, <1>4, <1>5, <1>6, <1>7

\* The read of a page returns what its last write left, merged with older sectors, and
\* 0xFF if there was none.
LEMMA ExpIs ==
  ASSUME NEW g, History(g), NEW i \in 1 .. g.N, Reads(g, i)
  PROVE  /\ Source(g, i) = 0 => \A s \in Sectors : g.P[i].exp[s] = Erased
         /\ Source(g, i) # 0 =>
              \A s \in Sectors : g.P[i].exp[s] # Stale =>
                /\ g.val[Source(g, i)][g.lp[i]][s] # 0
                /\ g.P[i].exp[s] = g.val[Source(g, i)][g.lp[i]][s]
<1>1. PICK k, l : k = Source(g, i) /\ l = g.lp[i]
  OBVIOUS
<1>2. l \in Lpns
  BY <1>1, InOrder
<1>3. /\ \A s \in Sectors : g.val[i][l][s] = g.val[i-1][l][s]
      /\ \A s \in Sectors : g.P[i].exp[s] = IF g.val[i][l][s] # 0 THEN g.val[i][l][s]
                                            ELSE IF \A x \in Sectors : g.val[i][l][x] = 0 THEN Erased ELSE Stale
  BY <1>1, <1>2 DEF History, PageRec
<1>4. /\ \A s \in Sectors : g.val[i-1][l][s] = g.val[k][l][s]
      /\ k = 0 => \A s \in Sectors : g.val[i-1][l][s] = 0
      /\ k # 0 => \E s \in Sectors : g.val[i-1][l][s] # 0
  BY <1>1, SourceIs
<1>. QED BY <1>1, <1>3, <1>4

\* Outside of its sectors a write leaves what the last write before it left.
LEMMA OldSectors ==
  ASSUME NEW g, History(g), NEW i \in 1 .. g.N, Writes(g, i)
  PROVE  /\ \A s \in Sectors : s \in Within(g, i) => g.val[i][g.lp[i]][s] = g.P[i].exp[s]
         /\ \A s \in Sectors : s \notin Within(g, i) =>
              /\ g.val[i][g.lp[i]][s] = g.val[Source(g, i)][g.lp[i]][s]
              /\ Source(g, i) = 0 => g.val[i][g.lp[i]][s] = 0
         /\ \A s \in Sectors : g.P[i].exp[s] = g.P[i].exp[0]
<1>1. PICK k, l : k = Source(g, i) /\ l = g.lp[i]
  OBVIOUS
<1>2. l \in Lpns
  BY <1>1, InOrder
<1>3. /\ \A s \in Sectors : g.val[i][l][s] = IF s \in Within(g, i) THEN g.P[i].exp[s] ELSE g.val[i-1][l][s]
      /\ \A s \in Sectors : g.P[i].exp[s] = g.P[i].exp[0]
  BY <1>1, <1>2 DEF History, PageRec
<1>4. /\ \A s \in Sectors : g.val[i-1][l][s] = g.val[k][l][s]
      /\ k = 0 => \A s \in Sectors : g.val[i-1][l][s] = 0
  BY <1>1, SourceIs
<1>. QED BY <1>1, <1>3, <1>4

\* A page transfer is one in every history that agrees on it and on the one before.
LEMMA SameRec ==
  ASSUME NEW g, NEW e, NEW i, PageRec(g, i),
         e.P[i] = g.P[i], e.lp[i] = g.lp[i], e.w[i] = g.w[i], e.r[i] = g.r[i],
         e.last[i] = g.last[i], e.val[i] = g.val[i],
         e.w[i-1] = g.w[i-1], e.r[i-1] = g.r[i-1], e.last[i-1] = g.last[i-1], e.val[i-1] = g.val[i-1]
  PROVE  PageRec(e, i)
<1>1. (Writes(e, i) <=> Writes(g, i)) /\ (Reads(e, i) <=> Reads(g, i)) /\ Within(e, i) = Within(g, i)
  BY DEF Writes, Reads, Within
<1>2. /\ e.lp[i] \in Lpns /\ (Writes(e, i) \/ Reads(e, i))
      /\ e.P[i].off \in Nat /\ e.P[i].n \in Nat \ {0} /\ e.P[i].off + e.P[i].n <= SectorsPerPage
  BY <1>1 DEF PageRec
<1>3. ASSUME Writes(g, i)
      PROVE  /\ e.w[i] = e.w[i-1] + 1 /\ e.r[i] = e.r[i-1]
             /\ \A l \in Lpns : e.last[i][l] = IF l = e.lp[i] THEN i ELSE e.last[i-1][l]
             /\ \A l \in Lpns, s \in Sectors :
                  e.val[i][l][s] = IF l = e.lp[i] /\ s \in Within(e, i) THEN e.P[i].exp[s] ELSE e.val[i-1][l][s]
             /\ \A s \in Sectors : e.P[i].exp[s] = e.P[i].exp[0] /\ e.P[i].exp[s] \in Nat \ {0}
  <2>1. /\ g.w[i] = g.w[i-1] + 1 /\ g.r[i] = g.r[i-1]
        /\ \A l \in Lpns : g.last[i][l] = IF l = g.lp[i] THEN i ELSE g.last[i-1][l]
        /\ \A l \in Lpns, s \in Sectors :
             g.val[i][l][s] = IF l = g.lp[i] /\ s \in Within(g, i) THEN g.P[i].exp[s] ELSE g.val[i-1][l][s]
        /\ \A s \in Sectors : g.P[i].exp[s] = g.P[i].exp[0] /\ g.P[i].exp[s] \in Nat \ {0}
    BY <1>3 DEF PageRec
  <2>. QED BY <1>1, <2>1
<1>4. ASSUME Reads(g, i)
      PROVE  /\ e.w[i] = e.w[i-1] /\ e.r[i] = e.r[i-1] + 1
             /\ \A l \in Lpns : e.last[i][l] = e.last[i-1][l] /\ \A s \in Sectors : e.val[i][l][s] = e.val[i-1][l][s]
             /\ \A s \in Sectors : LET old(x) == e.val[i][e.lp[i]][x]
                                   IN  e.P[i].exp[s] = IF old(s) # 0 THEN old(s)
                                                       ELSE IF \A x \in Sectors : old(x) = 0 THEN Erased ELSE Stale
  <2>1. /\ g.w[i] = g.w[i-1] /\ g.r[i] = g.r[i-1] + 1
        /\ \A l \in Lpns : g.last[i][l] = g.last[i-1][l] /\ \A s \in Sectors : g.val[i][l][s] = g.val[i-1][l][s]
    BY <1>4 DEF PageRec
  <2>2. \A s \in Sectors : LET old(x) == g.val[i][g.lp[i]][x]
                           IN  g.P[i].exp[s] = IF old(s) # 0 THEN old(s)
                                               ELSE IF \A x \in Sectors : old(x) = 0 THEN Erased ELSE Stale
    BY <1>4 DEF PageRec
  <2>3. PICK v, x : v = g.val[i][g.lp[i]] /\ x = g.P[i].exp
    OBVIOUS
  <2>4. \A s \in Sectors : x[s] = IF v[s] # 0 THEN v[s] ELSE IF \A y \in Sectors : v[y] = 0 THEN Erased ELSE Stale
    BY <2>2, <2>3
  <2>5. v = e.val[i][e.lp[i]] /\ x = e.P[i].exp
    BY <2>3
  <2>6. \A s \in Sectors : LET old(y) == e.val[i][e.lp[i]][y]
                           IN  e.P[i].exp[s] = IF old(s) # 0 THEN old(s)
                                               ELSE IF \A y \in Sectors : old(y) = 0 THEN Erased ELSE Stale
    BY <2>4, <2>5
  <2>7. e.w[i] = e.w[i-1] /\ e.r[i] = e.r[i-1] + 1
    BY <2>1
  <2>8. \A l \in Lpns : e.last[i][l] = e.last[i-1][l] /\ \A s \in Sectors : e.val[i][l][s] = e.val[i-1][l][s]
    BY <2>1
  <2>. QED BY <2>6, <2>7, <2>8
<1>. QED BY <1>1, <1>2, <1>3, <1>4 DEF PageRec

\* The history does not change when a page is transferred or processed.
LEMMA SameHistory ==
  ASSUME NEW g, NEW e, History(g), e.f \in 0 .. g.N, e.h \in 0 .. g.N,
         e.N = g.N, e.P = g.P, e.lp = g.lp, e.w = g.w, e.r = g.r, e.last = g.last, e.val = g.val
  PROVE  History(e)'
<1>1. \A i : (Writes(e, i) <=> Writes(g, i)) /\ (Reads(e, i) <=> Reads(g, i)) /\ Within(e, i) = Within(g, i)
  BY DEF Writes, Reads, Within
<1>2. \A i : PageRec(g, i) => PageRec(e, i)
  BY SameRec
<1>3. History(e)
  BY <1>1, <1>2 DEF History
<1>. QED BY <1>3 DEF History, PageRec, Writes, Reads, Within

-----------------------------------------------------------------------------
(***************************************************************************)
(* Buffers and commands of the transfers.                                  *)
(***************************************************************************)
\* The buffer of a counter.
Slot(a, n) == a % n

\* The limit of a ring moves on as its counter does; the buffers that remain in the
\* window are those of the later counts.
LEMMA LimitPasses ==
  ASSUME NEW n \in Nat \ {0}, NEW a \in Nat, NEW b \in Nat, a <= b, b - a < n, NEW k \in 0 .. b - a
  PROVE  /\ \A j \in 0 .. k : Slot(Slot(a, n) + j, n) = Slot(a + j, n)
         /\ \A x \in a .. b - 1 : Slot(x, n) \in Window(Slot(a + k, n), Slot(b, n), n) => a + k <= x
<1>1. ASSUME NEW j \in 0 .. k PROVE ((a % n) + j) % n = (a + j) % n
  <2>1. j \in 0 .. n
    OBVIOUS
  <2>. QED BY <2>1, CursorAt
<1>2. PICK m : m = a + k /\ m \in Nat /\ m <= b /\ b - m < n
  OBVIOUS
<1>3. ASSUME NEW x \in a .. b - 1, x % n \in Window(m % n, b % n, n) PROVE m <= x
  <2>1. PICK y \in m .. b - 1 : x % n = y % n
    <3>1. \A z \in Window(m % n, b % n, n) : \E y \in m .. b - 1 : z = y % n
      BY <1>2, WindowOf
    <3>. QED BY <1>3, <3>1, Zenon
  <2>2. x \in Nat /\ y \in Nat /\ x - y < n /\ y - x < n /\ m <= y
    BY <1>2
  <2>3. x = y
    BY <2>1, <2>2, SameCursor
  <2>. QED BY <2>2, <2>3
<1>. QED BY <1>1, <1>2, <1>3 DEF Slot

\* As long as a page waits to be programmed or to be sent, no other page of the same kind
\* has its buffer.
LEMMA OwnBuffers ==
  ASSUME NEW g, History(g), Counters(g)
  PROVE  /\ \A i \in 1 .. g.N : Writes(g, i) =>
              /\ WBuf(g, i) \in 0 .. NumWrBuffers - 1
              /\ i <= g.f + 1 \/ i <= g.h + 1 => g.w[i] <= g.L + NumWrBuffers
         /\ \A i, j \in 1 .. g.N :
              /\ Writes(g, i) /\ g.L < g.w[i] /\ g.w[i] <= g.L + NumWrBuffers
              /\ Writes(g, j) /\ g.L < g.w[j] /\ g.w[j] <= g.L + NumWrBuffers
              /\ WBuf(g, i) = WBuf(g, j)
              => i = j
         /\ \A i \in 1 .. g.N : Reads(g, i) =>
              /\ RBuf(g, i) \in 0 .. NumRdBuffers - 1
              /\ i <= g.f + 1 => g.r[i] <= g.r[g.h] + NumRdBuffers
         /\ \A i, j \in 1 .. g.N :
              /\ Reads(g, i) /\ g.r[g.h] < g.r[i] /\ i <= g.f + 1
              /\ Reads(g, j) /\ g.r[g.h] < g.r[j] /\ j <= g.f + 1
              /\ RBuf(g, i) = RBuf(g, j)
              => i = j
<1>1. PICK n, m : n = NumWrBuffers /\ m = NumRdBuffers /\ n \in Nat \ {0} /\ m \in Nat \ {0}
  BY FlashAssumption
<1>2. /\ g.N \in Nat /\ g.f \in 0 .. g.N /\ g.h \in 0 .. g.N
      /\ \A i \in 0 .. g.N : g.w[i] \in Nat /\ g.r[i] \in Nat
      /\ \A i, j \in 0 .. g.N : i <= j => g.w[i] <= g.w[j] /\ g.r[i] <= g.r[j]
  BY DEF History
<1>3. /\ g.L \in Nat /\ g.w[g.f] - g.L < n /\ g.w[g.h] - g.L < n
      /\ g.r[g.f] - g.r[g.h] < m
  BY <1>1 DEF Counters
<1>4. ASSUME NEW i \in 1 .. g.N
      PROVE  /\ i \in 0 .. g.N /\ i - 1 \in 0 .. g.N
             /\ Writes(g, i) => g.w[i] = g.w[i-1] + 1
             /\ Reads(g, i) => g.r[i] = g.r[i-1] + 1
  BY <1>2 DEF History, PageRec
<1>5. ASSUME NEW i \in 1 .. g.N, Writes(g, i)
      PROVE  g.w[i] - 1 \in Nat /\ WBuf(g, i) \in 0 .. n - 1
  <2>1. PICK x : x = g.w[i] - 1 /\ x \in Nat
    BY <1>2, <1>4, <1>5
  <2>2. x % n \in 0 .. n - 1
    BY <1>1, <2>1
  <2>. QED BY <1>1, <2>1, <2>2 DEF WBuf
<1>6. ASSUME NEW i \in 1 .. g.N, Writes(g, i), i <= g.f + 1 \/ i <= g.h + 1
      PROVE  g.w[i] <= g.L + n
  <2>1. g.w[i] = g.w[i-1] + 1
    BY <1>4, <1>6
  <2>2. i - 1 <= g.f \/ i - 1 <= g.h
    BY <1>2, <1>6
  <2>3. g.w[i-1] <= g.w[g.f] \/ g.w[i-1] <= g.w[g.h]
    BY <1>2, <1>4, <2>2
  <2>. QED BY <1>1, <1>2, <1>3, <1>4, <2>1, <2>3
<1>7. ASSUME NEW i \in 1 .. g.N, NEW j \in 1 .. g.N,
             Writes(g, i), g.L < g.w[i], g.w[i] <= g.L + n,
             Writes(g, j), g.L < g.w[j], g.w[j] <= g.L + n, WBuf(g, i) = WBuf(g, j)
      PROVE  i = j
  <2>1. PICK x, y : x = g.w[i] - 1 /\ y = g.w[j] - 1 /\ x \in Nat /\ y \in Nat
    BY <1>5, <1>7
  <2>2. x % n = y % n
    BY <1>1, <1>7, <2>1 DEF WBuf
  <2>3. x - y < n /\ y - x < n
    BY <1>1, <1>2, <1>3, <1>4, <1>7, <2>1
  <2>4. x = y
    BY <1>1, <2>1, <2>2, <2>3, SameCursor
  <2>5. g.w[i] = g.w[j]
    BY <1>2, <1>4, <2>1, <2>4
  <2>6. i <= j /\ j <= i
    BY <1>2, <1>4, <1>7, <2>5, InOrder
  <2>. QED BY <2>6
<1>8. ASSUME NEW i \in 1 .. g.N, Reads(g, i)
      PROVE  g.r[i] - 1 \in Nat /\ RBuf(g, i) \in 0 .. m - 1
  <2>1. PICK x : x = g.r[i] - 1 /\ x \in Nat
    BY <1>2, <1>4, <1>8
  <2>2. x % m \in 0 .. m - 1
    BY <1>1, <2>1
  <2>. QED BY <1>1, <2>1, <2>2 DEF RBuf
<1>9. ASSUME NEW i \in 1 .. g.N, Reads(g, i), i <= g.f + 1
      PROVE  g.r[i] <= g.r[g.h] + m
  <2>1. g.r[i] = g.r[i-1] + 1
    BY <1>4, <1>9
  <2>2. g.r[i-1] <= g.r[g.f]
    BY <1>2, <1>4, <1>9
  <2>. QED BY <1>1, <1>2, <1>3, <1>4, <2>1, <2>2
<1>10. ASSUME NEW i \in 1 .. g.N, NEW j \in 1 .. g.N,
              Reads(g, i), g.r[g.h] < g.r[i], i <= g.f + 1,
              Reads(g, j), g.r[g.h] < g.r[j], j <= g.f + 1, RBuf(g, i) = RBuf(g, j)
       PROVE  i = j
  <2>1. PICK x, y : x = g.r[i] - 1 /\ y = g.r[j] - 1 /\ x \in Nat /\ y \in Nat
    BY <1>8, <1>10
  <2>2. x % m = y % m
    BY <1>1, <1>10, <2>1 DEF RBuf
  <2>3. x - y < m /\ y - x < m
    BY <1>1, <1>2, <1>4, <1>9, <1>10, <2>1
  <2>4. x = y
    BY <1>1, <2>1, <2>2, <2>3, SameCursor
  <2>5. g.r[i] = g.r[j]
    BY <1>2, <1>4, <2>1, <2>4
  <2>6. i <= j /\ j <= i
    BY <1>2, <1>4, <1>10, <2>5, InOrder
  <2>. QED BY <2>6
<1>. QED BY <1>1, <1>5, <1>6, <1>7, <1>8, <1>9, <1>10

\* The program of a page is a command of its own.
LEMMA ProgCmdIs ==
  ASSUME NEW g, History(g), Counters(g), Places(g), NEW i \in Written(g)
  PROVE  /\ i \in 1 .. g.N /\ i <= g.f /\ Writes(g, i)
         /\ ProgCmd(g, i) \in Commands /\ ProgCmd(g, i) # None /\ ProgCmd(g, i).op = "program"
         /\ ProgCmd(g, i).buf = WBuf(g, i)
         /\ ProgCmd(g, i).bank = g.loc[i].bank /\ ProgCmd(g, i).row = g.loc[i].row
         /\ g.loc[i] \in [bank : Banks, row : Rows]
         /\ \A j \in Written(g) : ProgCmd(g, i) = ProgCmd(g, j) => i = j
<1>1. i \in 1 .. g.f /\ Writes(g, i) /\ i \in 1 .. g.N /\ i <= g.f
  BY DEF Written, History
<1>2. g.loc[i] \in [bank : Banks, row : Rows]
  BY DEF Places
<1>3. WBuf(g, i) \in Nat /\ SectorsPerPage \in Nat
  <2>1. WBuf(g, i) \in 0 .. NumWrBuffers - 1
    BY <1>1, OwnBuffers
  <2>. QED BY <2>1, FlashAssumption
<1>4. ProgCmd(g, i) \in Commands
  BY <1>2, <1>3, FlashAssumption DEF ProgCmd, Command, Commands, Rows
<1>5. /\ ProgCmd(g, i).op = "program" /\ ProgCmd(g, i).buf = WBuf(g, i)
      /\ ProgCmd(g, i).bank = g.loc[i].bank /\ ProgCmd(g, i).row = g.loc[i].row
  BY DEF ProgCmd, Command
<1>6. ASSUME NEW j \in Written(g), ProgCmd(g, i) = ProgCmd(g, j) PROVE i = j
  <2>1. ProgCmd(g, j).bank = g.loc[j].bank /\ ProgCmd(g, j).row = g.loc[j].row
    BY DEF ProgCmd, Command
  <2>2. g.loc[j] \in [bank : Banks, row : Rows]
    BY DEF Places
  <2>3. g.loc[i] = g.loc[j]
    BY <1>2, <1>5, <1>6, <2>1, <2>2
  <2>. QED BY <2>3 DEF Places
<1>. QED BY <1>1, <1>2, <1>4, <1>5, <1>6, NoneAssumption

\* A bank that is busy with a read has programmed every page of its own, unless the
\* program of the page still waits.
LEMMA PageProgrammed ==
  ASSUME RingTypeOK, NEW g, History(g), Counters(g), Places(g), Programs(g),
         NEW b \in Banks, bank[b] # None, bank[b].op # "program",
         NEW i \in Written(g), g.loc[i].bank = b, ProgCmd(g, i) # wr
  PROVE  HasData(nand[g.loc[i].bank][g.loc[i].row], g, i)
<1>1. ProgCmd(g, i).op = "program" /\ ProgCmd(g, i).bank = b
  BY ProgCmdIs
<1>2. ProgCmd(g, i) \notin InFlight
  BY <1>1 DEF InFlight, RingTypeOK
<1>. QED BY <1>2 DEF Programs

-----------------------------------------------------------------------------
(***************************************************************************)
(* The invariant implies what the run checks.                              *)
(***************************************************************************)
\* The page of the history at an index of the link.
LEMMA NextIndex ==
  ASSUME NEW h \in Nat, NEW m \in Nat, NEW n \in 1 .. m
  PROVE  h + n \in 1 .. h + m /\ h + n - 1 \in 0 .. h + m /\ h + n - 1 = h + (n - 1)
OBVIOUS

\* The reads among the first pages on the link, from the counts of the reads.
LEMMA ReadsCount ==
  ASSUME NEW g, History(g), Sent(g), NEW k \in 0 .. Len(link)
  PROVE  NumReads(k) = g.r[g.h + k] - g.r[g.h]
<1> DEFINE R(n) == {i \in 1 .. n : link[i].op = "read"}
           Holds(n) == IsFiniteSet(R(n)) /\ Cardinality(R(n)) = g.r[g.h + n] - g.r[g.h]
           Bad == {n \in 0 .. Len(link) : ~Holds(n)}
<1>1. PICK m : m = Len(link)
  OBVIOUS
<1>2. g.N \in Nat /\ g.h \in Nat /\ m = g.N - g.h /\ m \in Nat /\ g.h + m = g.N
  BY <1>1, InOrder DEF Sent
<1>3. \A n \in 0 .. g.N : g.r[n] \in Nat
  BY DEF History
<1>4. Holds(0)
  <2>1. R(0) = {}
    OBVIOUS
  <2>2. g.h + 0 = g.h /\ g.r[g.h] \in Nat /\ g.r[g.h] - g.r[g.h] = 0
    BY <1>2, <1>3
  <2>. QED BY <2>1, <2>2, FS_EmptySet
<1>5. ASSUME NEW n \in 1 .. m, Holds(n - 1) PROVE Holds(n)
  <2>1. PICK j : j = g.h + n /\ j \in 1 .. g.N /\ j - 1 \in 0 .. g.N /\ j - 1 = g.h + (n - 1)
    <3>1. PICK h : h = g.h /\ h \in Nat /\ m \in Nat /\ h + m = g.N
      BY <1>2
    <3>. QED BY <3>1, NextIndex
  <2>2. link[n] = g.P[j] /\ (Writes(g, j) \/ Reads(g, j))
    <3>1. Writes(g, j) \/ Reads(g, j)
      BY <2>1, InOrder
    <3>2. link[n] = g.P[g.h + n]
      BY <1>1 DEF Sent
    <3>. QED BY <2>1, <3>1, <3>2
  <2>3. IsFiniteSet(R(n - 1)) /\ Cardinality(R(n - 1)) = g.r[j - 1] - g.r[g.h]
    BY <1>5, <2>1
  <2>4. CASE Reads(g, j)
    <3>1. R(n) = R(n - 1) \union {n} /\ n \notin R(n - 1)
      BY <2>2, <2>4 DEF Reads
    <3>2. g.r[j] = g.r[j - 1] + 1
      BY <2>1, <2>4 DEF History, PageRec
    <3>. HIDE DEF R
    <3>3. IsFiniteSet(R(n)) /\ Cardinality(R(n)) = Cardinality(R(n - 1)) + 1
      <4>1. PICK A, B : A = R(n - 1) /\ B = R(n)
        OBVIOUS
      <4>2. IsFiniteSet(A) /\ B = A \union {n} /\ n \notin A
        BY <2>3, <3>1, <4>1
      <4>3. IsFiniteSet(B) /\ Cardinality(B) = Cardinality(A) + 1
        BY <4>2, FS_AddElement
      <4>. QED BY <4>1, <4>3
    <3>4. g.r[j] - g.r[g.h] = g.r[j - 1] - g.r[g.h] + 1
      <4>1. g.r[j - 1] \in Nat /\ g.r[g.h] \in Nat
        BY <1>2, <1>3, <2>1
      <4>. QED BY <3>2, <4>1
    <3>. QED BY <2>1, <2>3, <3>3, <3>4
  <2>5. CASE Writes(g, j)
    <3>1. R(n) = R(n - 1)
      BY <2>2, <2>5 DEF Writes
    <3>2. g.r[j] = g.r[j - 1]
      BY <2>1, <2>5 DEF History, PageRec
    <3>. HIDE DEF R
    <3>. QED BY <2>1, <2>3, <3>1, <3>2
  <2>. QED BY <2>2, <2>4, <2>5
<1>. HIDE DEF Holds
<1>6. Bad = {}
  <2>1. ASSUME Bad # {} PROVE FALSE
    <3>1. Bad \in SUBSET Nat
      OBVIOUS
    <3>. HIDE DEF Bad
    <3>2. PICK n \in Bad : \A y \in Bad : n <= y
      BY <2>1, <3>1, LeastIn
    <3>3. n \in 0 .. m /\ ~Holds(n) /\ n # 0
      BY <1>1, <1>4, <3>2 DEF Bad
    <3>4. n \in 1 .. m /\ n - 1 \in 0 .. m /\ n - 1 \in Nat /\ ~(n <= n - 1)
      BY <1>2, <3>3
    <3>5. ~Holds(n - 1)
      BY <1>5, <3>3, <3>4, Zenon
    <3>6. n - 1 \in Bad
      BY <1>1, <3>4, <3>5 DEF Bad
    <3>. QED BY <3>2, <3>4, <3>6
  <2>. QED BY <2>1
<1>7. Holds(k)
  BY <1>6, Zenon
<1>. QED BY <1>7 DEF NumReads, Holds

\* The buffers that may be sent hold the pages of the reads on the link.
LEMMA PagesArrive ==
  ASSUME DataTypeOK, NEW g, DataOK(g)
  PROVE  HostGetsItsPages
<1>1. History(g) /\ Sent(g) /\ Counters(g) /\ ReadCmds(g) /\ Fetched(g)
  BY DEF DataOK
<1>2. PICK n, R0 : n = NumRdBuffers /\ R0 = g.r[g.h] /\ n \in Nat \ {0}
  BY FlashAssumption
<1>3. /\ g.N \in Nat /\ g.f \in 0 .. g.N /\ g.h \in 0 .. g.N
      /\ \A i \in 0 .. g.N : g.r[i] \in Nat
      /\ \A i, j \in 0 .. g.N : i <= j => g.r[i] <= g.r[j]
  BY <1>1 DEF History
<1>4. /\ R0 \in Nat /\ g.r[g.f] \in Nat /\ g.r[g.N] \in Nat /\ g.M \in Nat /\ R0 <= g.M /\ g.M <= g.r[g.f] /\ g.r[g.f] - R0 < n
      /\ rbuf_ptr = R0 % n /\ rd_limit = g.M % n
  BY <1>1, <1>2, <1>3 DEF Counters
<1>5. PICK a : a = Ahead(rbuf_ptr, rd_limit, NumRdBuffers)
  OBVIOUS
<1>6. a = g.M - R0
  <2>1. g.M - R0 < n
    BY <1>2, <1>4
  <2>2. Ahead(R0 % n, g.M % n, n) = g.M - R0
    BY <1>2, <1>4, <2>1, AheadOf
  <2>. QED BY <1>2, <1>4, <1>5, <2>2
<1>7. Len(link) = g.N - g.h /\ \A k \in 1 .. Len(link) : link[k] = g.P[g.h + k]
  BY <1>1 DEF Sent
<1>8. a <= NumReads(Len(link))
  <2>1. PICK m : m = Len(link) /\ m \in 0 .. Len(link) /\ g.h + m = g.N
    BY <1>3, <1>7
  <2>2. NumReads(m) = g.r[g.N] - R0
    BY <1>1, <1>2, <2>1, ReadsCount
  <2>3. g.r[g.f] <= g.r[g.N]
    BY <1>3
  <2>. QED BY <1>4, <1>6, <2>1, <2>2, <2>3
<1>9. ASSUME NEW k \in DOMAIN link, link[k].op = "read", NumReads(k) <= a,
             NEW s \in link[k].off .. link[k].off + link[k].n - 1, link[k].exp[s] # Stale
      PROVE  rbuf[(rbuf_ptr + NumReads(k) - 1) % NumRdBuffers][s] = link[k].exp[s]
  <2>1. k \in 1 .. Len(link)
    <3>1. link \in Seq([op : {"read", "write"}, off : Nat, n : Nat, exp : [Sectors -> Vals]])
      BY DEF DataTypeOK
    <3>. QED BY <3>1
  <2>2. PICK i : i = g.h + k /\ i \in 1 .. g.N /\ i \in g.h + 1 .. g.N /\ k \in 0 .. Len(link)
    BY <1>3, <1>7, <2>1
  <2>3. link[k] = g.P[i] /\ Reads(g, i) /\ s \in Within(g, i)
    BY <1>7, <1>9, <2>1, <2>2 DEF Reads, Within
  <2>4. NumReads(k) = g.r[i] - R0
    BY <1>1, <1>2, <2>2, ReadsCount
  <2>5. g.r[i] \in Nat /\ g.r[i] <= g.M /\ i <= g.f /\ R0 < g.r[i]
    <3>1. g.r[i] \in Nat
      BY <1>3, <2>2
    <3>2. g.r[i] <= g.M
      BY <1>4, <1>6, <1>9, <2>4, <3>1
    <3>3. i <= g.f
      <4>1. g.r[i] <= g.r[g.f]
        BY <1>4, <3>1, <3>2
      <4>2. \A j \in 0 .. g.N : g.r[i] <= g.r[j] <=> i <= j
        BY <1>1, <2>2, <2>3, InOrder
      <4>. QED BY <1>3, <4>1, <4>2
    <3>4. ~(g.r[i] <= g.r[g.h])
      <4>1. \A j \in 0 .. g.N : g.r[i] <= g.r[j] <=> i <= j
        BY <1>1, <2>2, <2>3, InOrder
      <4>2. ~(i <= g.h)
        BY <1>3, <2>2
      <4>. QED BY <1>3, <4>1, <4>2
    <3>. QED BY <1>2, <1>4, <3>1, <3>2, <3>3, <3>4
  <2>6. ReadCmd(g, i) \notin InFlight
    <3>1. ASSUME ReadCmd(g, i) \in InFlight PROVE FALSE
      <4>1. ReadCmd(g, i) \in OutFor("read") /\ ReadCmd(g, i).buf = RBuf(g, i)
        BY <3>1 DEF OutFor, ReadCmd, Command
      <4>2. PICK j \in 1 .. g.f : Reads(g, j) /\ g.M < g.r[j] /\ ReadCmd(g, i) = ReadCmd(g, j)
        BY <1>1, <4>1 DEF ReadCmds
      <4>3. RBuf(g, j) = RBuf(g, i)
        BY <4>1, <4>2 DEF ReadCmd, Command
      <4>4. j \in 1 .. g.N /\ j <= g.f + 1 /\ i <= g.f + 1 /\ g.r[j] \in Nat
        <5>1. j \in 1 .. g.N /\ j \in 0 .. g.N /\ j <= g.f + 1
          BY <1>3, <4>2
        <5>2. i <= g.f + 1
          BY <1>3, <2>2, <2>5
        <5>. QED BY <1>3, <5>1, <5>2
      <4>5. g.r[g.h] < g.r[i] /\ g.r[g.h] < g.r[j]
        BY <1>2, <1>4, <2>5, <4>2, <4>4
      <4>6. i = j
        BY <1>1, <2>2, <2>3, <4>2, <4>3, <4>4, <4>5, OwnBuffers
      <4>. QED BY <1>4, <2>5, <4>2, <4>6
    <3>. QED BY <3>1
  <2>7. rbuf[RBuf(g, i)][s] = g.P[i].exp[s]
    <3>1. i \in g.h + 1 .. g.f
      BY <1>3, <2>2, <2>5
    <3>. QED BY <1>1, <1>9, <2>3, <2>6, <3>1 DEF Fetched
  <2>8. (rbuf_ptr + NumReads(k) - 1) % NumRdBuffers = RBuf(g, i)
    <3>1. PICK d : d = g.r[i] - R0 - 1 /\ d \in 0 .. n /\ R0 + d = g.r[i] - 1
      <4>1. g.r[i] - R0 < n
        BY <1>2, <1>4, <2>5
      <4>. QED BY <1>2, <1>4, <2>5, <4>1
    <3>2. ((R0 % n) + d) % n = (R0 + d) % n
      BY <1>2, <1>4, <3>1, CursorAt
    <3>3. PICK p : p = R0 % n /\ p \in 0 .. n - 1
      BY <1>2, <1>4
    <3>4. p + NumReads(k) - 1 = p + d
      BY <1>4, <2>4, <2>5, <3>1, <3>3
    <3>. QED BY <1>2, <1>4, <3>1, <3>2, <3>3, <3>4 DEF RBuf
  <2>. QED BY <2>3, <2>7, <2>8
<1>. QED BY <1>5, <1>8, <1>9 DEF HostGetsItsPages

-----------------------------------------------------------------------------
(***************************************************************************)
(* The pages of a command.                                                 *)
(***************************************************************************)
\* Sector addresses are ordered by page and by sector of the page.
LEMMA AddrOrder ==
  ASSUME NEW n \in Nat \ {0}, NEW p \in Int, NEW q \in Int, NEW r \in 0 .. n - 1, NEW s \in 0 .. n - 1
  PROVE  n * p + r <= n * q + s <=> p < q \/ (p = q /\ r <= s)
<1>1. CASE p < q
  <2>1. n * (p + 1) <= n * q
    BY <1>1
  <2>2. n * (p + 1) = n * p + n
    OBVIOUS
  <2>. QED BY <1>1, <2>1, <2>2
<1>2. CASE q < p
  <2>1. n * (q + 1) <= n * p
    BY <1>2
  <2>2. n * (q + 1) = n * q + n
    OBVIOUS
  <2>. QED BY <1>2, <2>1, <2>2
<1>3. CASE p = q
  BY <1>3
<1>. QED BY <1>1, <1>2, <1>3

\* An address is that of one sector of one page.
LEMMA AddrOf ==
  ASSUME NEW n \in Nat \ {0}, NEW p \in Int, NEW q \in Int, NEW r \in 0 .. n - 1, NEW s \in 0 .. n - 1,
         n * p + r = n * q + s
  PROVE  p = q /\ r = s
<1>1. n * p \in Int /\ n * q \in Int
  OBVIOUS
<1>2. n * p + r <= n * q + s /\ n * q + s <= n * p + r
  BY <1>1
<1>. QED BY <1>2, AddrOrder

\* The sector of a page has an address.
LEMMA SectorAddr ==
  ASSUME NEW l \in Lpns, NEW s \in Sectors
  PROVE  l * SectorsPerPage + s \in Lbas
<1>1. PICK n, m : n = SectorsPerPage /\ m = NumLpns /\ n \in Nat \ {0} /\ m \in Nat \ {0}
  BY FlashAssumption, TutorialAssumption
<1>2. l \in 0 .. m - 1 /\ s \in 0 .. n - 1
  BY <1>1 DEF Lpns, Sectors
<1>3. n * l + s <= n * (m - 1) + (n - 1)
  <2>1. n - 1 \in 0 .. n - 1 /\ m - 1 \in Int /\ l <= m - 1
    BY <1>1, <1>2
  <2>. QED BY <1>1, <1>2, <2>1, AddrOrder
<1>4. n * (m - 1) + (n - 1) = m * n - 1 /\ n * l = l * n /\ n * l \in Nat /\ m * n \in Nat
  BY <1>1, <1>2
<1>5. l * n + s \in 0 .. m * n - 1
  BY <1>2, <1>3, <1>4
<1>. QED BY <1>1, <1>5 DEF Lbas

\* Every page of a command is a logical page, and its sectors are those of the command.
LEMMA PagesOf ==
  ASSUME NEW c \in [op : {"none", "read", "write"}, lba : Nat, n : Nat], c.n > 0,
         c.lba + c.n <= NumLpns * SectorsPerPage
  PROVE  /\ Lpn(c) \in Lpns /\ LastLpn(c) \in Lpns /\ Lpn(c) <= LastLpn(c)
         /\ NumPages(c) \in Nat \ {0} /\ NumPages(c) = LastLpn(c) - Lpn(c) + 1
         /\ \A l \in Lpn(c) .. LastLpn(c) :
              /\ l \in Lpns /\ First(c, l) \in Nat /\ Final(c, l) - First(c, l) + 1 \in Nat \ {0}
              /\ Final(c, l) \in Sectors
         /\ \A l \in Lpns, s \in Sectors :
              l * SectorsPerPage + s \in c.lba .. c.lba + c.n - 1
                <=> l \in Lpn(c) .. LastLpn(c) /\ s \in First(c, l) .. Final(c, l)
<1>1. PICK n, m, a, e : /\ n = SectorsPerPage /\ m = NumLpns /\ n \in Nat \ {0} /\ m \in Nat \ {0}
                        /\ a = c.lba /\ e = c.lba + c.n - 1 /\ a \in Nat /\ e \in Nat /\ a <= e
                        /\ e < m * n /\ m * n \in Nat /\ m * n = n * m
  BY FlashAssumption, TutorialAssumption
<1>2. PICK q, o, p, t : q = a \div n /\ o = a % n /\ p = e \div n /\ t = e % n
  OBVIOUS
<1>3. /\ q \in Int /\ o \in 0 .. n - 1 /\ a = n * q + o
      /\ p \in Int /\ t \in 0 .. n - 1 /\ e = n * p + t
  <2>1. a \in Int /\ e \in Int
    BY <1>1
  <2>2. a \div n \in Int /\ a % n \in 0 .. n - 1 /\ a = n * (a \div n) + (a % n)
    BY <1>1, <2>1, SplitIs
  <2>3. e \div n \in Int /\ e % n \in 0 .. n - 1 /\ e = n * (e \div n) + (e % n)
    BY <1>1, <2>1, SplitIs
  <2>. QED BY <1>2, <2>2, <2>3, Zenon
<1>4. Lpn(c) = q /\ Offset(c) = o /\ LastLpn(c) = p /\ (c.lba + c.n - 1) % SectorsPerPage = t
  BY <1>1, <1>2 DEF Lpn, Offset, LastLpn
<1>5. q <= p /\ (q = p => o <= t)
  BY <1>1, <1>3, AddrOrder
<1>6. 0 <= q
  <2>1. PICK z : z = 0 /\ z \in Int /\ z \in 0 .. n - 1 /\ n * z + z <= n * q + o
    BY <1>1, <1>3
  <2>2. z < q \/ (z = q /\ z <= o)
    BY <1>1, <1>3, <2>1, AddrOrder
  <2>. QED BY <1>3, <2>1, <2>2
<1>7. p < m
  <2>1. 0 \in 0 .. n - 1 /\ ~(n * m + 0 <= n * p + t)
    BY <1>1, <1>3
  <2>2. ~(m < p \/ (m = p /\ 0 <= t))
    BY <1>1, <1>3, <2>1, AddrOrder
  <2>. QED BY <1>1, <1>3, <2>2
<1>8. q \in 0 .. m - 1 /\ p \in 0 .. m - 1
  BY <1>1, <1>3, <1>5, <1>6, <1>7
<1>9. /\ \A l : First(c, l) = IF l = q THEN o ELSE 0
      /\ \A l : Final(c, l) = IF l = p THEN t ELSE n - 1
  BY <1>1, <1>4 DEF First, Final
<1>10. ASSUME NEW l \in q .. p
       PROVE  /\ l \in 0 .. m - 1 /\ First(c, l) \in Nat /\ Final(c, l) - First(c, l) + 1 \in Nat \ {0}
              /\ Final(c, l) \in 0 .. n - 1
  BY <1>1, <1>3, <1>5, <1>8, <1>9
<1>11. ASSUME NEW l \in 0 .. m - 1, NEW s \in 0 .. n - 1
       PROVE  l * n + s \in a .. e <=> l \in q .. p /\ s \in First(c, l) .. Final(c, l)
  <2>1. PICK x : x = n * l + s /\ x \in Int /\ l * n + s = x
    BY <1>1
  <2>0. l \in Int
    BY <1>1
  <2>2. a <= x <=> q < l \/ (q = l /\ o <= s)
    <3>1. n * q + o <= n * l + s <=> q < l \/ (q = l /\ o <= s)
      BY <1>1, <1>3, <2>0, AddrOrder
    <3>. QED BY <1>3, <2>1, <3>1, Zenon
  <2>3. x <= e <=> l < p \/ (l = p /\ s <= t)
    <3>1. n * l + s <= n * p + t <=> l < p \/ (l = p /\ s <= t)
      BY <1>1, <1>3, <2>0, AddrOrder
    <3>. QED BY <1>3, <2>1, <3>1, Zenon
  <2>. QED BY <1>1, <1>3, <1>8, <1>9, <2>1, <2>2, <2>3
<1>12. NumPages(c) = p - q + 1 /\ p - q + 1 \in Nat \ {0}
  BY <1>3, <1>4, <1>5 DEF NumPages
<1>. QED BY <1>1, <1>4, <1>5, <1>8, <1>10, <1>11, <1>12 DEF Lpns, Sectors

\* The first piece of a command is its first page; what remains are the other pages.
LEMMA NextPiece ==
  ASSUME NEW c \in [op : {"none", "read", "write"}, lba : Nat, n : Nat], c.n > 0,
         c.lba + c.n <= NumLpns * SectorsPerPage
  PROVE  /\ First(c, Lpn(c)) = Offset(c) /\ Final(c, Lpn(c)) - First(c, Lpn(c)) + 1 = PieceLen(c)
         /\ Rest(c).n = 0 => NumPages(c) = 1
         /\ Rest(c).n # 0 =>
              /\ Lpn(Rest(c)) = Lpn(c) + 1 /\ NumPages(Rest(c)) = NumPages(c) - 1
              /\ \A l \in Int : l > Lpn(c) => /\ First(Rest(c), l) = First(c, l)
                                              /\ Final(Rest(c), l) = Final(c, l)
<1>1. PICK n, a, k, e : /\ n = SectorsPerPage /\ n \in Nat \ {0} /\ a = c.lba /\ k = c.n
                        /\ e = c.lba + c.n - 1 /\ a \in Nat /\ k \in Nat \ {0} /\ e \in Nat /\ e = a + k - 1
  BY FlashAssumption
<1>2. PICK q, o, p, t : q = a \div n /\ o = a % n /\ p = e \div n /\ t = e % n
  OBVIOUS
<1>3. /\ q \in Int /\ o \in 0 .. n - 1 /\ a = n * q + o
      /\ p \in Int /\ t \in 0 .. n - 1 /\ e = n * p + t
  <2>1. a \in Int /\ e \in Int
    BY <1>1
  <2>2. a \div n \in Int /\ a % n \in 0 .. n - 1 /\ a = n * (a \div n) + (a % n)
    BY <1>1, <2>1, SplitIs
  <2>3. e \div n \in Int /\ e % n \in 0 .. n - 1 /\ e = n * (e \div n) + (e % n)
    BY <1>1, <2>1, SplitIs
  <2>. QED BY <1>2, <2>2, <2>3, Zenon
<1>4. Lpn(c) = q /\ Offset(c) = o /\ LastLpn(c) = p /\ (c.lba + c.n - 1) % SectorsPerPage = t
  BY <1>1, <1>2 DEF Lpn, Offset, LastLpn
<1>5. q <= p /\ (q = p => o <= t)
  BY <1>1, <1>3, AddrOrder
<1>6. PICK d : d = PieceLen(c)
  OBVIOUS
<1>7. d = IF o + k < n THEN k ELSE n - o
  BY <1>1, <1>4, <1>6 DEF PieceLen
<1>8. /\ \A l : First(c, l) = IF l = q THEN o ELSE 0
      /\ \A l : Final(c, l) = IF l = p THEN t ELSE n - 1
  BY <1>1, <1>4 DEF First, Final
<1>9. Rest(c) = [c EXCEPT !.lba = @ + d, !.n = @ - d]
  BY <1>6 DEF Rest
<1>10. Rest(c).lba = a + d /\ Rest(c).n = k - d
  BY <1>1, <1>9
<1>11. n * q \in Int /\ n * p \in Int
  BY <1>1, <1>3
<1>12. CASE q = p
  <2>1. k = t - o + 1
    BY <1>1, <1>3, <1>11, <1>12
  <2>2. d = k
    BY <1>1, <1>3, <1>7, <2>1
  <2>3. Final(c, q) - First(c, q) + 1 = d /\ First(c, q) = o
    BY <1>1, <1>3, <1>8, <1>12, <2>1, <2>2
  <2>4. Rest(c).n = 0 /\ NumPages(c) = 1
    BY <1>1, <1>3, <1>4, <1>10, <1>12, <2>2 DEF NumPages
  <2>. QED BY <1>4, <1>6, <2>3, <2>4
<1>13. CASE q < p
  <2>1. n * q + n <= n * p
    <3>1. n * (q + 1) <= n * p /\ n * (q + 1) = n * q + n
      BY <1>1, <1>3, <1>13
    <3>. QED BY <1>11, <3>1
  <2>2. k > n - o
    BY <1>1, <1>3, <1>11, <2>1
  <2>3. d = n - o /\ d < k
    BY <1>1, <1>3, <1>7, <2>2
  <2>4. Final(c, q) - First(c, q) + 1 = d /\ First(c, q) = o
    BY <1>1, <1>3, <1>8, <1>13, <2>3
  <2>5. PICK u : u = q + 1 /\ u \in Int
    BY <1>3
  <2>6. Rest(c).lba = n * u + 0 /\ Rest(c).lba + Rest(c).n - 1 = e /\ Rest(c).n # 0
    <3>1. n * u = n * q + n
      BY <1>1, <1>3, <2>5
    <3>. QED BY <1>1, <1>3, <1>10, <1>11, <2>3, <3>1
  <2>7. Lpn(Rest(c)) = u /\ Offset(Rest(c)) = 0
    <3>1. PICK x : x = Rest(c).lba /\ x = n * u + 0 /\ x \in Int
      BY <1>1, <2>5, <2>6
    <3>2. x \div n \in Int /\ x % n \in 0 .. n - 1 /\ x = n * (x \div n) + (x % n)
      BY <1>1, <3>1, SplitIs
    <3>3. 0 \in 0 .. n - 1
      BY <1>1
    <3>4. x \div n = u /\ x % n = 0
      <4>1. PICK y, z : y = x \div n /\ z = x % n
        OBVIOUS
      <4>2. PICK w : w = 0 /\ w \in 0 .. n - 1
        BY <3>3
      <4>3. y \in Int /\ z \in 0 .. n - 1 /\ n * y + z = n * u + w
        BY <3>1, <3>2, <4>1, <4>2, Zenon
      <4>4. y = u /\ z = w
        BY <1>1, <2>5, <4>2, <4>3, AddrOf
      <4>. QED BY <4>1, <4>2, <4>4, Zenon
    <3>. QED BY <1>1, <3>1, <3>4 DEF Lpn, Offset
  <2>8. LastLpn(Rest(c)) = p
    BY <1>1, <1>2, <2>6 DEF LastLpn
  <2>9. NumPages(Rest(c)) = NumPages(c) - 1
    BY <1>3, <1>4, <2>5, <2>7, <2>8 DEF NumPages
  <2>10. ASSUME NEW l \in Int, l > q
         PROVE  First(Rest(c), l) = First(c, l) /\ Final(Rest(c), l) = Final(c, l)
    <3>1. First(Rest(c), l) = 0
      BY <2>7 DEF First
    <3>2. Final(Rest(c), l) = IF l = p THEN t ELSE n - 1
      BY <1>1, <1>2, <2>6, <2>8 DEF Final
    <3>. QED BY <1>3, <1>8, <2>10, <3>1, <3>2
  <2>. QED BY <1>4, <1>6, <2>4, <2>5, <2>6, <2>7, <2>9, <2>10
<1>. QED BY <1>3, <1>5, <1>12, <1>13

-----------------------------------------------------------------------------
(***************************************************************************)
(* The steps.                                                              *)
(***************************************************************************)
\* Before the first command there is no history.
LEMMA InitData == Init => DataTypeOK /\ \E g : DataOK(g)
<1> SUFFICES ASSUME Init PROVE DataTypeOK /\ \E g : DataOK(g)
  OBVIOUS
<1>1. PICK g : g = [N |-> 0, f |-> 0, h |-> 0, L |-> 0, M |-> 0, P |-> <<>>, lp |-> <<>>,
                    w |-> [i \in {0} |-> 0], r |-> [i \in {0} |-> 0], loc |-> <<>>,
                    st |-> [i \in {1} |-> 0], last |-> [i \in {0} |-> [l \in Lpns |-> 0]],
                    val |-> [i \in {0} |-> [l \in Lpns |-> [s \in Sectors |-> 0]]]]
  OBVIOUS
<1>2. /\ g.N = 0 /\ g.f = 0 /\ g.h = 0 /\ g.L = 0 /\ g.M = 0 /\ g.w[0] = 0 /\ g.r[0] = 0
      /\ g.st[1] = 0 /\ \A l \in Lpns : g.last[0][l] = 0 /\ \A s \in Sectors : g.val[0][l][s] = 0
  BY <1>1
<1>3. 0 .. 0 = {0} /\ 1 .. 0 = {} /\ 0 .. 0 - 1 = {}
  OBVIOUS
<1>4. History(g)
  BY <1>2, <1>3 DEF History
<1>5. Sent(g)
  BY <1>2, SectorAddr DEF Sent, Init
<1>6. Queued(g)
  BY <1>2 DEF Queued, Init
<1>7. Counters(g)
  <2>1. NumRdBuffers \in Nat \ {0} /\ NumWrBuffers \in Nat \ {0}
    BY FlashAssumption
  <2>2. 0 % NumRdBuffers = 0 /\ 0 % NumWrBuffers = 0
    BY <2>1
  <2>. QED BY <1>2, <2>1, <2>2 DEF Counters, Init, CtrlInit
<1>8. InFlight = {} /\ \A op : OutFor(op) = {}
  BY DEF Init, CtrlInit, InFlight, OutFor
<1>9. Written(g) = {}
  BY <1>2 DEF Written
<1>10. Places(g)
  BY <1>2, <1>9 DEF Places, Init, MidWrite
<1>11. Programs(g) /\ Filled(g) /\ Holes(g) /\ HoleCmds(g) /\ ReadCmds(g) /\ Fetched(g)
  BY <1>2, <1>3, <1>8, <1>9 DEF Programs, Filled, Holes, HoleCmds, ReadCmds, Fetched, Init, CtrlInit
<1>12. DataTypeOK
  <2>1. Stale \in Vals /\ Erased \in Vals /\ 0 \in Nat
    BY DEF Vals
  <2>2. /\ nand \in [Banks -> [Rows -> [Sectors -> Vals]]]
        /\ rbuf \in [0 .. NumRdBuffers - 1 -> [Sectors -> Vals]]
        /\ wbuf \in [0 .. NumWrBuffers - 1 -> [Sectors -> Vals]]
    BY <2>1 DEF Init, CtrlInit
  <2>3. /\ disk \in [Lbas -> Nat] /\ writes \in Nat
        /\ link \in Seq([op : {"read", "write"}, off : Nat, n : Nat, exp : [Sectors -> Vals]])
    BY <2>1 DEF Init
  <2>. QED BY <2>2, <2>3 DEF DataTypeOK
<1>. QED BY <1>4, <1>5, <1>6, <1>7, <1>10, <1>11, <1>12 DEF DataOK

\* What each part of the invariant depends on: e is the history after the step.
LEMMA SameSent ==
  ASSUME NEW g, NEW e, Sent(g), UNCHANGED <<link, disk>>,
         e.N = g.N, e.h = g.h, e.P = g.P, e.val = g.val
  PROVE  Sent(e)'
BY DEF Sent

\* The commands that wait, and the one that Main has taken.
LEMMA SameQueued ==
  ASSUME NEW g, NEW e, Queued(g), UNCHANGED <<eventq, cmd>>, pc' = "main" => pc = "main",
         pc' \notin {"main", "stopped"} => pc \notin {"main", "stopped"},
         e.N = g.N, e.f = g.f, e.P = g.P, e.lp = g.lp, e.st = g.st
  PROVE  Queued(e)'
BY DEF Queued, PagesAre, NumPages, LastLpn, Lpn, First, Final, Offset

\* Cursors and limits.
LEMMA SameCounters ==
  ASSUME NEW g, NEW e, Counters(g),
         UNCHANGED <<g_ftl_read_buf_id, rbuf_ptr, rd_limit, g_ftl_write_buf_id, wbuf_ptr, wr_limit>>,
         e.f = g.f, e.h = g.h, e.L = g.L, e.M = g.M, e.w = g.w, e.r = g.r
  PROVE  Counters(e)'
BY DEF Counters

\* Where the pages are.
LEMMA SamePlaces ==
  ASSUME NEW g, NEW e, Places(g), UNCHANGED <<page_map, new, g_target_row>>, MidWrite' => MidWrite,
         e.f = g.f, e.P = g.P, e.loc = g.loc, e.last = g.last
  PROVE  Places(e)'
BY DEF Places, Written, Writes, MidWrite

\* The programs in flight and the pages they have written.
LEMMA SamePrograms ==
  ASSUME NEW g, NEW e, Programs(g), OutFor("program")' = OutFor("program"), UNCHANGED <<nand, wr_done>>,
         g.w[g.h] \in Nat, g.w[e.h] \in Nat, g.w[g.h] <= g.w[e.h],
         e.f = g.f, e.L = g.L, e.P = g.P, e.lp = g.lp, e.w = g.w, e.loc = g.loc, e.val = g.val
  PROVE  Programs(e)'
<1>1. \A i : /\ (Writes(e, i) <=> Writes(g, i)) /\ ProgCmd(e, i) = ProgCmd(g, i)
             /\ \A page : HasData(page, e, i) <=> HasData(page, g, i)
  BY DEF Writes, WBuf, ProgCmd, HasData
<1>2. Written(e) = Written(g)
  BY <1>1 DEF Written
<1>3. \A i : ProgCmd(g, i).op = "program"
  BY DEF ProgCmd, Command
<1>4. \A i : ProgCmd(g, i) \in InFlight' <=> ProgCmd(g, i) \in InFlight
  BY <1>3 DEF OutFor
<1>. QED BY <1>1, <1>2, <1>4 DEF Programs

\* The data of the host.
LEMMA SameFilled ==
  ASSUME NEW g, NEW e, Filled(g), wbuf' = wbuf, \A i \in 1 .. g.h : e.L < g.w[i] => g.L < g.w[i],
         e.h = g.h, e.P = g.P, e.w = g.w
  PROVE  Filled(e)'
BY DEF Filled, Writes, Within, WBuf

\* The old sectors beside them.
LEMMA SameHoles ==
  ASSUME NEW g, NEW e, Holes(g), wbuf' = wbuf, OutFor("hole")' = OutFor("hole"),
         g.f \in Nat, \A i \in 1 .. g.N : e.L < g.w[i] => g.L < g.w[i], pc' \in {"right", "program"} => pc' = pc,
         e.N = g.N, e.f = g.f, e.P = g.P, e.lp = g.lp, e.w = g.w, e.val = g.val
  PROVE  Holes(e)'
<1>1. \A i : (Writes(e, i) <=> Writes(g, i)) /\ Within(e, i) = Within(g, i) /\ WBuf(e, i) = WBuf(g, i)
  BY DEF Writes, Within, WBuf
<1> SUFFICES ASSUME NEW i \in 1 .. g.N, Writes(g, i), e.L < g.w[i],
                    i <= g.f \/ (i = g.f + 1 /\ pc' \in {"right", "program"}),
                    NEW s \in Sectors \ Within(g, i), g.val[i][g.lp[i]][s] # 0
             PROVE  \/ wbuf[WBuf(g, i)][s] = g.val[i][g.lp[i]][s]
                    \/ \E c \in OutFor("hole") : c.buf = WBuf(g, i) /\ s \in SectorsOf(c)
                    \/ i = g.f + 1 /\ pc' = "right" /\ s >= g.P[i].off + g.P[i].n
  BY <1>1 DEF Holes, SectorsOf
<1>2. g.L < g.w[i] /\ (i <= g.f \/ (i = g.f + 1 /\ pc \in {"right", "program"} /\ pc' = pc))
  OBVIOUS
<1>3. i = g.f + 1 => pc' = pc
  BY <1>2
<1>. QED BY <1>2, <1>3 DEF Holes

\* The commands that read them.
LEMMA SameHoleCmds ==
  ASSUME NEW g, NEW e, HoleCmds(g), OutFor("hole")' \subseteq OutFor("hole"), wr' = wr,
         pc \in {"right", "program"} => pc' = pc,
         e.N = g.N, e.f = g.f, e.P = g.P, e.lp = g.lp, e.w = g.w, e.loc = g.loc, e.last = g.last
  PROVE  HoleCmds(e)'
<1>1. \A i : /\ (Writes(e, i) <=> Writes(g, i)) /\ Within(e, i) = Within(g, i) /\ WBuf(e, i) = WBuf(g, i)
             /\ Source(e, i) = Source(g, i) /\ ProgCmd(e, i) = ProgCmd(g, i)
  BY DEF Writes, Within, WBuf, Source, ProgCmd
<1>. QED BY <1>1 DEF HoleCmds, SectorsOf

\* The commands that read pages for the host.
LEMMA SameReadCmds ==
  ASSUME NEW g, NEW e, ReadCmds(g), OutFor("read")' = OutFor("read"), wr' # wr => wr'.op # "program",
         e.f = g.f, e.M = g.M, e.P = g.P, e.lp = g.lp, e.w = g.w, e.r = g.r, e.loc = g.loc, e.last = g.last
  PROVE  ReadCmds(e)'
<1>1. \A i : /\ (Reads(e, i) <=> Reads(g, i)) /\ Source(e, i) = Source(g, i)
             /\ ProgCmd(e, i) = ProgCmd(g, i) /\ ReadCmd(e, i) = ReadCmd(g, i)
             /\ ProgCmd(g, i).op = "program"
  BY DEF Reads, RBuf, WBuf, Source, ReadCmd, ProgCmd, Command
<1>. QED BY <1>1 DEF ReadCmds

\* The pages that wait for the host.
LEMMA SameFetched ==
  ASSUME NEW g, NEW e, Fetched(g), rbuf' = rbuf, OutFor("read") \subseteq OutFor("read")', g.h \in Nat, e.h \in Nat, g.h <= e.h,
         e.f = g.f, e.P = g.P, e.lp = g.lp, e.r = g.r, e.loc = g.loc, e.last = g.last
  PROVE  Fetched(e)'
<1>1. \A i : /\ (Reads(e, i) <=> Reads(g, i)) /\ Within(e, i) = Within(g, i) /\ RBuf(e, i) = RBuf(g, i)
             /\ Source(e, i) = Source(g, i) /\ ReadCmd(e, i) = ReadCmd(g, i)
  BY DEF Reads, Within, RBuf, Source, ReadCmd
<1>2. ASSUME NEW i \in e.h + 1 .. e.f PROVE i \in g.h + 1 .. g.f
  OBVIOUS
<1>3. \A i : ReadCmd(g, i).op = "read"
  BY DEF ReadCmd, Command
<1>4. \A i : ReadCmd(g, i) \in InFlight => ReadCmd(g, i) \in InFlight'
  BY <1>3 DEF OutFor
<1>. QED BY <1>1, <1>2, <1>4 DEF Fetched

\* A step that leaves alone all that the data depend on.
LEMMA StutterData ==
  ASSUME DataTypeOK, NEW g, DataOK(g), UNCHANGED vars
  PROVE  DataTypeOK' /\ DataOK(g)'
<1>1. InFlight' = InFlight /\ \A op : OutFor(op)' = OutFor(op)
  BY DEF vars, ctrlVars, InFlight, OutFor
<1>2. /\ UNCHANGED <<wr, bank, nand, rbuf, wbuf, rd_limit, rd_done, wr_limit, wr_done, rbuf_ptr, wbuf_ptr>>
      /\ UNCHANGED <<page_map, g_target_row, g_ftl_read_buf_id, g_ftl_write_buf_id, pc, cmd, new>>
      /\ UNCHANGED <<eventq, link, disk, writes>>
  BY DEF vars, ctrlVars, ftlVars, hostVars
<1>3. DataTypeOK'
  BY <1>2 DEF DataTypeOK
<1>4. History(g)' /\ Sent(g)' /\ Queued(g)' /\ Counters(g)' /\ Places(g)'
  BY <1>2, SameHistory, SameSent, SameQueued, SameCounters, SamePlaces DEF DataOK, History, MidWrite
<1>5. Programs(g)' /\ Filled(g)' /\ Holes(g)' /\ HoleCmds(g)' /\ ReadCmds(g)' /\ Fetched(g)'
  <2>1. g.h \in Nat /\ g.f \in Nat
    BY InOrder DEF DataOK
  <2>2. g.h <= g.h /\ g.w[g.h] \in Nat /\ g.w[g.h] <= g.w[g.h]
    BY <2>1 DEF DataOK, History
  <2>3. Programs(g)' /\ Filled(g)' /\ Holes(g)'
    BY <1>1, <1>2, <2>1, <2>2, SamePrograms, SameFilled, SameHoles DEF DataOK
  <2>. QED BY <2>3, <1>1, <1>2, <2>1, <2>2, SameHoleCmds, SameReadCmds, SameFetched DEF DataOK
<1>. QED BY <1>3, <1>4, <1>5 DEF DataOK

\* The history after a step: how far the FTL and the link have come, and the limits.
After(g, f, h, L, M, loc, st) ==
  [N |-> g.N, f |-> f, h |-> h, L |-> L, M |-> M, P |-> g.P, lp |-> g.lp, w |-> g.w, r |-> g.r,
   loc |-> loc, st |-> st, last |-> g.last, val |-> g.val]

\* The pages themselves are as before.
LEMMA AfterIs ==
  ASSUME NEW g, NEW f, NEW h, NEW L, NEW M, NEW loc, NEW st, NEW e, e = After(g, f, h, L, M, loc, st)
  PROVE  /\ e.f = f /\ e.h = h /\ e.L = L /\ e.M = M /\ e.loc = loc /\ e.st = st
         /\ e.N = g.N /\ e.P = g.P /\ e.lp = g.lp /\ e.w = g.w /\ e.r = g.r /\ e.last = g.last /\ e.val = g.val
BY DEF After

\* The page at the head of the link is the next one of the history.
LEMMA HeadOfLink ==
  ASSUME NEW g, History(g), Sent(g), DataTypeOK, link # <<>>, link' = Tail(link), disk' = disk,
         NEW e, e.N = g.N, e.h = g.h + 1, e.P = g.P, e.val = g.val
  PROVE  /\ g.h + 1 \in 1 .. g.N /\ Head(link) = g.P[g.h + 1] /\ Sent(e)'
         /\ link' \in Seq([op : {"read", "write"}, off : Nat, n : Nat, exp : [Sectors -> Vals]])
<1>1. PICK T : T = [op : {"read", "write"}, off : Nat, n : Nat, exp : [Sectors -> Vals]]
  OBVIOUS
<1>2. link \in Seq(T)
  BY <1>1 DEF DataTypeOK
<1>3. PICK m : m = Len(link) /\ m \in Nat \ {0}
  BY <1>2
<1>4. /\ Head(link) = link[1] /\ link' \in Seq(T) /\ Len(link') = m - 1
      /\ \A k \in 1 .. m - 1 : link'[k] = link[k + 1]
  BY <1>2, <1>3
<1>5. g.N \in Nat /\ g.h \in Nat /\ m = g.N - g.h /\ \A k \in 1 .. m : link[k] = g.P[g.h + k]
  BY <1>3, InOrder DEF Sent
<1>6. g.h + 1 \in 1 .. g.N /\ Head(link) = g.P[g.h + 1]
  <2>1. 1 \in 1 .. m /\ g.h + 1 \in 1 .. g.N
    BY <1>3, <1>5
  <2>. QED BY <1>4, <1>5, <2>1
<1>7. Sent(e)'
  <2>1. Len(link') = e.N - e.h
    BY <1>3, <1>4, <1>5
  <2>2. ASSUME NEW k \in 1 .. Len(link') PROVE link'[k] = g.P[(g.h + 1) + k]
    <3>1. k \in 1 .. m - 1
      BY <1>4
    <3>2. k + 1 \in 1 .. m /\ g.h + (k + 1) = (g.h + 1) + k
      <4>1. k + 1 \in 1 .. m
        BY <1>3, <3>1
      <4>2. g.h \in Nat /\ k \in Nat
        BY <1>5, <3>1
      <4>. QED BY <4>1, <4>2
    <3>. QED BY <1>4, <1>5, <3>1, <3>2
  <2>. QED BY <2>1, <2>2 DEF Sent
<1>. QED BY <1>1, <1>4, <1>6, <1>7

\* The SATA hardware sends the next page that the host waits for.
LEMMA PageToHostData ==
  ASSUME IInv, DataTypeOK, NEW g, DataOK(g), PageToHost
  PROVE  DataTypeOK' /\ \E e : DataOK(e)'
<1>1. PICK e : e = After(g, g.f, g.h + 1, g.L, g.M, g.loc, g.st)
  OBVIOUS
<1>2. /\ e.f = g.f /\ e.h = g.h + 1 /\ e.L = g.L /\ e.M = g.M /\ e.loc = g.loc /\ e.st = g.st /\ e.N = g.N
      /\ e.P = g.P /\ e.lp = g.lp /\ e.w = g.w /\ e.r = g.r /\ e.last = g.last /\ e.val = g.val
  BY <1>1, AfterIs
<1>3. /\ UNCHANGED <<wr, bank, nand, rbuf, wbuf, rd_limit, rd_done, wr_limit, wr_done, wbuf_ptr>>
      /\ UNCHANGED <<page_map, g_target_row, g_ftl_read_buf_id, g_ftl_write_buf_id, pc, cmd, new>>
      /\ UNCHANGED <<eventq, disk, writes>>
      /\ link # <<>> /\ link' = Tail(link) /\ Head(link).op = "read"
      /\ rbuf_ptr # rd_limit /\ rbuf_ptr' = (rbuf_ptr + 1) % NumRdBuffers
  BY DEF PageToHost, SendBuffer, ftlVars, NextRd
<1>4. InFlight' = InFlight /\ \A op : OutFor(op)' = OutFor(op)
  BY <1>3 DEF InFlight, OutFor
<1>5. History(g) /\ Sent(g) /\ Queued(g) /\ Counters(g) /\ Places(g) /\ Programs(g) /\ Filled(g)
      /\ Holes(g) /\ HoleCmds(g) /\ ReadCmds(g) /\ Fetched(g)
  BY DEF DataOK
<1>6. PICK i : i = g.h + 1
  OBVIOUS
<1>7. /\ i \in 1 .. g.N /\ Reads(g, i) /\ Sent(e)'
      /\ link' \in Seq([op : {"read", "write"}, off : Nat, n : Nat, exp : [Sectors -> Vals]])
  BY <1>2, <1>3, <1>5, <1>6, HeadOfLink DEF Reads
<1>8. /\ g.N \in Nat /\ g.f \in Nat /\ g.h \in Nat /\ g.f \in 0 .. g.N /\ g.h \in 0 .. g.N /\ i \in 0 .. g.N
      /\ g.r[g.h] \in Nat /\ g.r[i] = g.r[g.h] + 1 /\ g.w[g.h] \in Nat /\ g.w[i] = g.w[g.h] /\ g.r[g.f] \in Nat
  <2>1. g.N \in Nat /\ g.f \in 0 .. g.N /\ g.h \in 0 .. g.N
    BY <1>5 DEF History
  <2>2. g.f \in Nat /\ g.h \in Nat /\ i \in 0 .. g.N /\ i - 1 = g.h
    BY <1>6, <1>7, <2>1
  <2>3. g.r[g.h] \in Nat /\ g.w[g.h] \in Nat /\ g.r[g.f] \in Nat
    BY <1>5, <2>1 DEF History
  <2>4. PageRec(g, i)
    BY <1>5, <1>7 DEF History
  <2>5. g.r[i] = g.r[i-1] + 1 /\ g.w[i] = g.w[i-1]
    BY <1>7, <2>4 DEF PageRec
  <2>. QED BY <2>1, <2>2, <2>3, <2>5
<1>9. DataTypeOK'
  BY <1>3, <1>7 DEF DataTypeOK
<1>10. History(e)'
  BY <1>2, <1>5, <1>6, <1>8, SameHistory
<1>11. Counters(e)'
  <2>1. PICK n : n = NumRdBuffers /\ n \in Nat \ {0}
    BY FlashAssumption
  <2>2. /\ g.M \in Nat /\ g.r[g.h] <= g.M /\ g.M <= g.r[g.f] /\ g.r[g.f] - g.r[g.h] < n
        /\ rbuf_ptr = g.r[g.h] % n /\ rd_limit = g.M % n
    BY <1>5, <2>1 DEF Counters
  <2>3. g.r[g.h] # g.M
    BY <1>3, <2>2
  <2>4. g.r[i] <= g.M /\ g.r[g.f] - g.r[i] < n
    <3>1. PICK a, z, k : a = g.r[g.h] /\ z = g.r[g.f] /\ k = g.r[i] /\ a \in Nat /\ z \in Nat /\ k = a + 1
      BY <1>8
    <3>2. g.M \in Nat /\ a <= g.M /\ a # g.M /\ z - a < n
      BY <2>2, <2>3, <3>1
    <3>3. k <= g.M /\ z - k < n
      BY <2>1, <3>1, <3>2
    <3>. QED BY <3>1, <3>3
  <2>5. rbuf_ptr' = g.r[i] % n
    <3>1. 1 \in 0 .. n
      BY <2>1
    <3>2. ((g.r[g.h] % n) + 1) % n = (g.r[g.h] + 1) % n
      BY <1>8, <2>1, <3>1, CursorAt
    <3>. QED BY <1>3, <1>8, <2>1, <2>2, <3>2
  <2>. QED BY <1>2, <1>3, <1>5, <1>6, <1>8, <2>1, <2>4, <2>5 DEF Counters
<1>12. Queued(e)' /\ Places(e)'
  BY <1>2, <1>3, <1>5, SameQueued, SamePlaces DEF MidWrite
<1>13. Programs(e)'
  <2>1. g.w[e.h] = g.w[g.h] /\ g.w[g.h] <= g.w[g.h]
    BY <1>2, <1>6, <1>8
  <2>. QED BY <1>2, <1>3, <1>4, <1>5, <1>8, <2>1, SamePrograms
<1>14. Filled(e)'
  <2>1. ASSUME NEW j \in 1 .. e.h, Writes(g, j) PROVE j \in 1 .. g.h
    <3>1. j # i
      BY <1>7, <2>1 DEF Reads, Writes
    <3>. QED BY <1>2, <1>6, <1>8, <3>1
  <2>2. \A j : (Writes(e, j) <=> Writes(g, j)) /\ Within(e, j) = Within(g, j) /\ WBuf(e, j) = WBuf(g, j)
    BY <1>2 DEF Writes, Within, WBuf
  <2>. QED BY <1>2, <1>3, <1>5, <2>1, <2>2 DEF Filled
<1>15. Holes(e)' /\ HoleCmds(e)' /\ ReadCmds(e)'
  BY <1>2, <1>3, <1>4, <1>5, <1>8, SameHoles, SameHoleCmds, SameReadCmds
<1>16. Fetched(e)'
  <2>1. e.h \in Nat /\ g.h <= e.h
    BY <1>2, <1>8
  <2>. QED BY <1>2, <1>3, <1>4, <1>5, <1>8, <2>1, SameFetched
<1>17. DataOK(e)'
  BY <1>7, <1>10, <1>11, <1>12, <1>13, <1>14, <1>15, <1>16 DEF DataOK
<1>. QED BY <1>9, <1>17

\* The data of a write land in the buffer that the page will be programmed from.
LEMMA PageFromHostData ==
  ASSUME IInv, DataTypeOK, NEW g, DataOK(g), PageFromHost
  PROVE  DataTypeOK' /\ \E e : DataOK(e)'
<1>1. PICK e : e = After(g, g.f, g.h + 1, g.L, g.M, g.loc, g.st)
  OBVIOUS
<1>2. /\ e.f = g.f /\ e.h = g.h + 1 /\ e.L = g.L /\ e.M = g.M /\ e.loc = g.loc /\ e.st = g.st /\ e.N = g.N
      /\ e.P = g.P /\ e.lp = g.lp /\ e.w = g.w /\ e.r = g.r /\ e.last = g.last /\ e.val = g.val
  BY <1>1, AfterIs
<1>3. /\ UNCHANGED <<wr, bank, nand, rbuf, rd_limit, rd_done, wr_limit, wr_done, rbuf_ptr>>
      /\ UNCHANGED <<page_map, g_target_row, g_ftl_read_buf_id, g_ftl_write_buf_id, pc, cmd, new>>
      /\ UNCHANGED <<eventq, disk, writes>>
      /\ link # <<>> /\ link' = Tail(link) /\ Head(link).op = "write"
      /\ (wbuf_ptr + 1) % NumWrBuffers # wr_limit /\ wbuf_ptr' = (wbuf_ptr + 1) % NumWrBuffers
      /\ wbuf' = [wbuf EXCEPT ![wbuf_ptr] =
           [s \in Sectors |-> IF s \in Head(link).off .. Head(link).off + Head(link).n - 1
                              THEN Head(link).exp[0] ELSE @[s]]]
  BY DEF PageFromHost, FillBuffer, ftlVars, NextWr
<1>4. InFlight' = InFlight /\ \A op : OutFor(op)' = OutFor(op)
  BY <1>3 DEF InFlight, OutFor
<1>5. History(g) /\ Sent(g) /\ Queued(g) /\ Counters(g) /\ Places(g) /\ Programs(g) /\ Filled(g)
      /\ Holes(g) /\ HoleCmds(g) /\ ReadCmds(g) /\ Fetched(g)
  BY DEF DataOK
<1>6. PICK i : i = g.h + 1
  OBVIOUS
<1>7. /\ i \in 1 .. g.N /\ Writes(g, i) /\ Sent(e)' /\ Head(link) = g.P[i]
      /\ link' \in Seq([op : {"read", "write"}, off : Nat, n : Nat, exp : [Sectors -> Vals]])
  BY <1>2, <1>3, <1>5, <1>6, HeadOfLink DEF Writes
<1>8. /\ g.N \in Nat /\ g.f \in Nat /\ g.h \in Nat /\ g.f \in 0 .. g.N /\ g.h \in 0 .. g.N /\ i \in 0 .. g.N
      /\ g.r[g.h] \in Nat /\ g.r[i] = g.r[g.h] /\ g.w[g.h] \in Nat /\ g.w[i] = g.w[g.h] + 1 /\ g.w[g.f] \in Nat
  <2>1. g.N \in Nat /\ g.f \in 0 .. g.N /\ g.h \in 0 .. g.N
    BY <1>5 DEF History
  <2>2. g.f \in Nat /\ g.h \in Nat /\ i \in 0 .. g.N /\ i - 1 = g.h
    BY <1>6, <1>7, <2>1
  <2>3. g.r[g.h] \in Nat /\ g.w[g.h] \in Nat /\ g.w[g.f] \in Nat
    BY <1>5, <2>1 DEF History
  <2>4. PageRec(g, i)
    BY <1>5, <1>7 DEF History
  <2>5. g.r[i] = g.r[i-1] /\ g.w[i] = g.w[i-1] + 1
    BY <1>7, <2>4 DEF PageRec
  <2>. QED BY <2>1, <2>2, <2>3, <2>5
<1>9. /\ wbuf_ptr = WBuf(g, i) /\ wbuf_ptr \in 0 .. NumWrBuffers - 1
      /\ g.L \in Nat /\ g.L < g.w[i] /\ g.w[i] - g.L < NumWrBuffers /\ wbuf_ptr' = g.w[i] % NumWrBuffers
  <2>1. PICK n : n = NumWrBuffers /\ n \in Nat \ {0}
    BY FlashAssumption
  <2>2. /\ g.L \in Nat /\ g.L <= g.w[g.h] /\ g.w[g.h] - g.L < n
        /\ wbuf_ptr = g.w[g.h] % n /\ wr_limit = g.L % n
    BY <1>5, <2>1 DEF Counters
  <2>3. g.w[g.h] + 1 - g.L < n /\ ((g.w[g.h] % n) + 1) % n = (g.w[g.h] + 1) % n
    BY <1>3, <1>8, <2>1, <2>2, RoomFor
  <2>4. g.w[i] - 1 = g.w[g.h]
    BY <1>8
  <2>5. wbuf_ptr = WBuf(g, i)
    BY <2>1, <2>2, <2>4 DEF WBuf
  <2>6. wbuf_ptr \in 0 .. n - 1
    BY <1>8, <2>1, <2>2
  <2>7. g.L < g.w[i] /\ g.w[i] - g.L < n
    BY <1>8, <2>1, <2>2, <2>3
  <2>8. wbuf_ptr' = g.w[i] % n
    BY <1>3, <1>8, <2>1, <2>2, <2>3
  <2>. QED BY <2>1, <2>2, <2>5, <2>6, <2>7, <2>8
<1>10. /\ g.P[i].exp \in [Sectors -> Vals] /\ \A s \in Sectors : g.P[i].exp[s] = g.P[i].exp[0]
       /\ \A s \in Sectors, x \in 0 .. NumWrBuffers - 1 :
            wbuf'[x][s] = IF x = WBuf(g, i) /\ s \in Within(g, i) THEN g.P[i].exp[s] ELSE wbuf[x][s]
  <2>1. g.P[i].exp \in [Sectors -> Vals]
    <3>1. link \in Seq([op : {"read", "write"}, off : Nat, n : Nat, exp : [Sectors -> Vals]])
      BY DEF DataTypeOK
    <3>2. PICK T : T = [op : {"read", "write"}, off : Nat, n : Nat, exp : [Sectors -> Vals]]
      OBVIOUS
    <3>3. Head(link) \in T
      <4>1. link \in Seq(T) /\ link # <<>>
        BY <1>3, <3>1, <3>2
      <4>. QED BY <4>1
    <3>. QED BY <1>7, <3>2, <3>3
  <2>2. \A s \in Sectors : g.P[i].exp[s] = g.P[i].exp[0]
    BY <1>5, <1>7, OldSectors
  <2>. QED BY <1>3, <1>7, <1>9, <2>1, <2>2 DEF DataTypeOK, Within
<1>11. DataTypeOK'
  <2>1. 0 \in Sectors
    BY FlashAssumption DEF Sectors
  <2>2. wbuf' \in [0 .. NumWrBuffers - 1 -> [Sectors -> Vals]]
    BY <1>3, <1>7, <1>9, <1>10, <2>1 DEF DataTypeOK
  <2>. QED BY <1>3, <1>7, <2>2 DEF DataTypeOK
<1>12. History(e)'
  BY <1>2, <1>5, <1>6, <1>8, SameHistory
<1>13. Counters(e)'
  <2>1. g.L <= g.w[i]
    BY <1>8, <1>9
  <2>. QED BY <1>2, <1>3, <1>5, <1>6, <1>8, <1>9, <2>1 DEF Counters
<1>14. Queued(e)' /\ Places(e)'
  BY <1>2, <1>3, <1>5, SameQueued, SamePlaces DEF MidWrite
<1>15. Programs(e)'
  <2>1. g.w[e.h] \in Nat /\ g.w[g.h] <= g.w[e.h]
    BY <1>2, <1>6, <1>8
  <2>. QED BY <1>2, <1>3, <1>4, <1>5, <1>8, <2>1, SamePrograms
<1>16. \A j : (Writes(e, j) <=> Writes(g, j)) /\ Within(e, j) = Within(g, j) /\ WBuf(e, j) = WBuf(g, j)
  BY <1>2 DEF Writes, Within, WBuf
<1>17. \A j \in 1 .. g.N : Writes(g, j) /\ g.L < g.w[j] /\ (j <= g.f + 1 \/ j <= g.h + 1) /\ WBuf(g, j) = WBuf(g, i)
                             => j = i
  <2>1. g.w[i] <= g.L + NumWrBuffers
    BY <1>8, <1>9, FlashAssumption
  <2>. QED BY <1>5, <1>7, <1>9, <2>1, OwnBuffers
<1>18. \A j \in 1 .. g.N : Writes(g, j) => WBuf(g, j) \in 0 .. NumWrBuffers - 1
  BY <1>5, OwnBuffers
<1>19. Filled(e)'
  <2> SUFFICES ASSUME NEW j \in 1 .. g.h + 1, Writes(g, j), g.L < g.w[j], NEW s \in Within(g, j)
               PROVE  wbuf'[WBuf(g, j)][s] = g.P[j].exp[s]
    BY <1>2, <1>16 DEF Filled
  <2>1. j \in 1 .. g.N /\ j <= g.h + 1 /\ WBuf(g, j) \in 0 .. NumWrBuffers - 1
    BY <1>6, <1>7, <1>8, <1>18
  <2>2. s \in Sectors
    <3>1. g.P[j].off \in Nat /\ g.P[j].n \in Nat /\ g.P[j].off + g.P[j].n <= SectorsPerPage
      BY <1>5, <2>1 DEF History, PageRec
    <3>. QED BY <3>1, FlashAssumption DEF Within, Sectors
  <2>3. CASE j = i
    BY <1>10, <2>1, <2>2, <2>3
  <2>4. CASE j # i
    <3>1. j \in 1 .. g.h
      BY <1>6, <1>8, <2>4
    <3>2. WBuf(g, j) # WBuf(g, i)
      BY <1>17, <2>1, <2>4
    <3>. QED BY <1>5, <1>10, <2>1, <2>2, <3>1, <3>2 DEF Filled
  <2>. QED BY <2>3, <2>4
<1>20. Holes(e)'
  <2> SUFFICES ASSUME NEW j \in 1 .. g.N, Writes(g, j), g.L < g.w[j],
                      j <= g.f \/ (j = g.f + 1 /\ pc \in {"right", "program"}),
                      NEW s \in Sectors \ Within(g, j), g.val[j][g.lp[j]][s] # 0
               PROVE  \/ wbuf'[WBuf(g, j)][s] = g.val[j][g.lp[j]][s]
                      \/ \E c \in OutFor("hole") : c.buf = WBuf(g, j) /\ s \in SectorsOf(c)
                      \/ j = g.f + 1 /\ pc = "right" /\ s >= g.P[j].off + g.P[j].n
    BY <1>2, <1>3, <1>4, <1>16 DEF Holes, SectorsOf
  <2>1. j <= g.f + 1 /\ WBuf(g, j) \in 0 .. NumWrBuffers - 1
    BY <1>8, <1>18
  <2>2. wbuf'[WBuf(g, j)][s] = wbuf[WBuf(g, j)][s]
    BY <1>10, <1>17, <2>1
  <2>. QED BY <1>5, <2>2 DEF Holes
<1>21. HoleCmds(e)' /\ ReadCmds(e)'
  BY <1>2, <1>3, <1>4, <1>5, <1>8, SameHoleCmds, SameReadCmds
<1>22. Fetched(e)'
  <2>1. e.h \in Nat /\ g.h <= e.h
    BY <1>2, <1>8
  <2>. QED BY <1>2, <1>3, <1>4, <1>5, <1>8, <2>1, SameFetched
<1>23. DataOK(e)'
  BY <1>7, <1>12, <1>13, <1>14, <1>15, <1>19, <1>20, <1>21, <1>22 DEF DataOK
<1>. QED BY <1>11, <1>23

\* The queue after a step, in terms of its commands.
LEMMA QueuedNext ==
  ASSUME NEW e,
         \A k \in 1 .. Len(eventq') + 1 : e.st[k] \in 0 .. e.N,
         \A k \in 1 .. Len(eventq') : /\ e.st[k+1] = e.st[k] + NumPages(eventq'[k])
                                      /\ PagesAre(e, eventq'[k], e.st[k]),
         e.st[Len(eventq') + 1] = e.N,
         pc' = "main" => e.st[1] = e.f,
         pc' \notin {"main", "stopped"} => e.st[1] = e.f + NumPages(cmd') /\ PagesAre(e, cmd', e.f)
  PROVE  Queued(e)'
BY DEF Queued, PagesAre, NumPages, LastLpn, Lpn, First, Final, Offset

\* The pages of a command depend on nothing but the pages.
LEMMA SamePages ==
  ASSUME NEW g, NEW e, e.P = g.P, e.lp = g.lp, NEW c, NEW i, PagesAre(g, c, i)
  PROVE  PagesAre(e, c, i)
BY DEF PagesAre

\* Main takes the next command.
LEMMA MainData ==
  ASSUME IInv, DataTypeOK, NEW g, DataOK(g), Main
  PROVE  DataTypeOK' /\ \E e : DataOK(e)'
<1>1. PICK e : e = After(g, g.f, g.h, g.L, g.M, g.loc, [k \in 1 .. Len(eventq) |-> g.st[k+1]])
  OBVIOUS
<1>2. /\ e.f = g.f /\ e.h = g.h /\ e.L = g.L /\ e.M = g.M /\ e.loc = g.loc /\ e.N = g.N
      /\ e.P = g.P /\ e.lp = g.lp /\ e.w = g.w /\ e.r = g.r /\ e.last = g.last /\ e.val = g.val
      /\ e.st = [k \in 1 .. Len(eventq) |-> g.st[k+1]]
  BY <1>1, AfterIs
<1>3. /\ UNCHANGED <<wr, bank, nand, rbuf, wbuf, rd_limit, rd_done, wr_limit, wr_done, rbuf_ptr, wbuf_ptr>>
      /\ UNCHANGED <<page_map, g_target_row, g_ftl_read_buf_id, g_ftl_write_buf_id, new>>
      /\ UNCHANGED <<link, disk, writes>>
      /\ pc = "main" /\ eventq # <<>> /\ cmd' = Head(eventq) /\ pc' = Head(eventq).op /\ eventq' = Tail(eventq)
  BY DEF Main, ctrlVars
<1>4. InFlight' = InFlight /\ \A op : OutFor(op)' = OutFor(op)
  BY <1>3 DEF InFlight, OutFor
<1>5. History(g) /\ Sent(g) /\ Queued(g) /\ Counters(g) /\ Places(g) /\ Programs(g) /\ Filled(g)
      /\ Holes(g) /\ HoleCmds(g) /\ ReadCmds(g) /\ Fetched(g)
  BY DEF DataOK
<1>6. PICK m : m = Len(eventq) /\ m \in Nat \ {0}
  BY <1>3, SMTT(30) DEF IInv, RingTypeOK
<1>7. /\ Head(eventq) = eventq[1] /\ Len(eventq') = m - 1 /\ eventq[1] \in Requests
      /\ \A k \in 1 .. m - 1 : eventq'[k] = eventq[k + 1]
  <2>1. eventq \in Seq(Requests) /\ eventq' = Tail(eventq)
    BY <1>3 DEF IInv, RingTypeOK
  <2>2. PICK q : q = eventq /\ q \in Seq(Requests) /\ Len(q) = m
    BY <1>6, <2>1
  <2>3. /\ Head(q) = q[1] /\ Len(Tail(q)) = m - 1 /\ q[1] \in Requests
        /\ \A k \in 1 .. m - 1 : Tail(q)[k] = q[k + 1]
    BY <1>6, <2>2
  <2>. QED BY <2>1, <2>2, <2>3
<1>8. pc' \in {"read", "write"}
  BY <1>3, <1>7, TutorialAssumption
<1>9. /\ \A k \in 1 .. m + 1 : g.st[k] \in 0 .. g.N
      /\ \A k \in 1 .. m : g.st[k+1] = g.st[k] + NumPages(eventq[k]) /\ PagesAre(g, eventq[k], g.st[k])
      /\ g.st[m + 1] = g.N /\ g.st[1] = g.f
  BY <1>3, <1>5, <1>6 DEF Queued
<1>10. Queued(e)'
  <2>1. \A k \in 1 .. m : e.st[k] = g.st[k+1]
    BY <1>2, <1>6
  <2>2. ASSUME NEW k \in 1 .. Len(eventq') + 1 PROVE e.st[k] \in 0 .. e.N
    <3>1. k \in 1 .. m /\ k + 1 \in 1 .. m + 1
      BY <1>6, <1>7
    <3>. QED BY <1>2, <1>9, <2>1, <3>1
  <2>3. ASSUME NEW k \in 1 .. Len(eventq')
        PROVE  /\ e.st[k+1] = e.st[k] + NumPages(eventq'[k])
               /\ PagesAre(e, eventq'[k], e.st[k])
    <3>1. PICK j : j = k + 1 /\ j \in 1 .. m /\ k \in 1 .. m /\ k \in 1 .. m - 1
      BY <1>6, <1>7
    <3>2. g.st[j+1] = g.st[j] + NumPages(eventq[j]) /\ PagesAre(g, eventq[j], g.st[j])
      BY <1>9, <3>1
    <3>3. eventq'[k] = eventq[j] /\ e.st[k+1] = g.st[j+1] /\ e.st[k] = g.st[j]
      BY <1>7, <2>1, <3>1
    <3>. QED BY <1>2, <3>2, <3>3, SamePages
  <2>4. e.st[Len(eventq') + 1] = e.N
    <3>1. Len(eventq') + 1 = m /\ m \in 1 .. m
      BY <1>6, <1>7
    <3>. QED BY <1>2, <1>9, <2>1, <3>1
  <2>5. e.st[1] = e.f + NumPages(cmd') /\ PagesAre(e, cmd', e.f)
    <3>1. 1 \in 1 .. m
      BY <1>6
    <3>2. g.st[1 + 1] = g.st[1] + NumPages(eventq[1]) /\ PagesAre(g, eventq[1], g.st[1])
      BY <1>9, <3>1
    <3>. QED BY <1>2, <1>3, <1>7, <1>9, <2>1, <3>1, <3>2, SamePages
  <2>. QED BY <1>8, <2>2, <2>3, <2>4, <2>5, QueuedNext
<1>11. g.f \in Nat /\ g.h \in Nat /\ g.h <= g.h /\ g.w[g.h] \in Nat /\ g.w[g.h] <= g.w[g.h]
  <2>1. g.f \in Nat /\ g.h \in Nat /\ g.h \in 0 .. g.N
    BY <1>5, InOrder DEF History
  <2>2. g.w[g.h] \in Nat
    BY <1>5, <2>1 DEF History
  <2>. QED BY <2>1, <2>2
<1>12. DataTypeOK'
  BY <1>3 DEF DataTypeOK
<1>13. History(e)' /\ Sent(e)'
  <2>1. g.f \in 0 .. g.N /\ g.h \in 0 .. g.N
    BY <1>5 DEF History
  <2>2. History(e)'
    BY <1>2, <1>5, <2>1, SameHistory
  <2>3. Sent(e)'
    BY <1>2, <1>3, <1>5, SameSent
  <2>. QED BY <2>2, <2>3
<1>14. Counters(e)' /\ Places(e)'
  BY <1>2, <1>3, <1>5, <1>8, SameCounters, SamePlaces DEF MidWrite
<1>15. Programs(e)' /\ Filled(e)' /\ Holes(e)'
  BY <1>2, <1>3, <1>4, <1>5, <1>8, <1>11, SamePrograms, SameFilled, SameHoles
<1>16. HoleCmds(e)' /\ ReadCmds(e)' /\ Fetched(e)'
  BY <1>2, <1>3, <1>4, <1>5, <1>8, <1>11, SameHoleCmds, SameReadCmds, SameFetched
<1>17. DataOK(e)'
  BY <1>10, <1>13, <1>14, <1>15, <1>16 DEF DataOK
<1>. QED BY <1>12, <1>17

\* A bank takes the waiting command: a hole of its page would have kept the bank busy.
LEMMA AcceptData ==
  ASSUME IInv, DataTypeOK, NEW g, DataOK(g), Accept, UNCHANGED <<ftlVars, hostVars>>
  PROVE  DataTypeOK' /\ \E e : DataOK(e)'
<1>1. /\ UNCHANGED <<nand, rbuf, wbuf, rd_limit, rd_done, wr_limit, wr_done, rbuf_ptr, wbuf_ptr>>
      /\ UNCHANGED <<page_map, g_target_row, g_ftl_read_buf_id, g_ftl_write_buf_id, pc, cmd, new>>
      /\ UNCHANGED <<eventq, link, disk, writes>>
      /\ wr # None /\ bank[wr.bank] = None /\ wr' = None
  BY DEF Accept, ftlVars, hostVars
<1>2. InFlight' = InFlight
  BY Accepted DEF IInv
<1>3. \A op : OutFor(op)' = OutFor(op)
  BY <1>2 DEF OutFor
<1>4. History(g) /\ Sent(g) /\ Queued(g) /\ Counters(g) /\ Places(g) /\ Programs(g) /\ Filled(g)
      /\ Holes(g) /\ HoleCmds(g) /\ ReadCmds(g) /\ Fetched(g)
  BY DEF DataOK
<1>5. /\ g.N \in Nat /\ g.f \in Nat /\ g.h \in Nat /\ g.f <= g.N
      /\ g.h <= g.h /\ g.w[g.h] \in Nat /\ g.w[g.h] <= g.w[g.h]
  <2>1. g.N \in Nat /\ g.f \in Nat /\ g.h \in Nat /\ g.h \in 0 .. g.N /\ g.f <= g.N
    BY <1>4, InOrder DEF History
  <2>2. g.w[g.h] \in Nat
    BY <1>4, <2>1 DEF History
  <2>. QED BY <2>1, <2>2
<1>6. DataTypeOK'
  BY <1>1 DEF DataTypeOK
<1>7. History(g)' /\ Sent(g)' /\ Queued(g)'
  BY <1>1, <1>4, SameHistory, SameSent, SameQueued DEF History
<1>8. Counters(g)' /\ Places(g)'
  BY <1>1, <1>4, SameCounters, SamePlaces DEF MidWrite
<1>9. Programs(g)' /\ Filled(g)' /\ Holes(g)'
  BY <1>1, <1>2, <1>3, <1>4, <1>5, SamePrograms, SameFilled, SameHoles
<1>10. Fetched(g)'
  BY <1>1, <1>3, <1>4, <1>5, SameFetched
<1>11. \A j \in Written(g) : ProgCmd(g, j) # wr'
  BY <1>1, <1>4, ProgCmdIs
<1>12. HoleCmds(g)'
  <2> SUFFICES ASSUME NEW c \in OutFor("hole")
               PROVE  \E i \in 1 .. g.N :
                        /\ Writes(g, i) /\ c.buf = WBuf(g, i) /\ SectorsOf(c) \cap Within(g, i) = {}
                        /\ Source(g, i) # 0 /\ Source(g, i) <= g.f
                        /\ c.bank = g.loc[Source(g, i)].bank /\ c.row = g.loc[Source(g, i)].row
                        /\ ProgCmd(g, Source(g, i)) # wr'
                        /\ \/ i = g.f + 1 /\ pc \in {"right", "program"}
                           \/ i <= g.f /\ ProgCmd(g, i) = wr'
    BY <1>1, <1>3 DEF HoleCmds, SectorsOf
  <2>1. PICK i \in 1 .. g.N :
                        /\ Writes(g, i) /\ c.buf = WBuf(g, i) /\ SectorsOf(c) \cap Within(g, i) = {}
                        /\ Source(g, i) # 0 /\ Source(g, i) <= g.f
                        /\ c.bank = g.loc[Source(g, i)].bank /\ c.row = g.loc[Source(g, i)].row
                        /\ ProgCmd(g, Source(g, i)) # wr
                        /\ \/ i = g.f + 1 /\ pc \in {"right", "program"}
                           \/ i <= g.f /\ ProgCmd(g, i) = wr
    BY <1>4 DEF HoleCmds
  <2>2. Source(g, i) \in Written(g)
    <3>1. Source(g, i) \in 1 .. g.N /\ Writes(g, Source(g, i))
      BY <1>4, <2>1, SourceIs
    <3>2. Source(g, i) \in 1 .. g.f
      BY <1>5, <2>1, <3>1
    <3>. QED BY <3>1, <3>2 DEF Written
  <2>3. ~(i <= g.f /\ ProgCmd(g, i) = wr)
    <3>1. ASSUME i <= g.f, ProgCmd(g, i) = wr PROVE FALSE
      <4>1. i \in Written(g)
        BY <1>5, <2>1, <3>1 DEF Written
      <4>2. wr \in OutFor("program") /\ wr.buf = c.buf
        BY <1>1, <1>4, <2>1, <3>1, <4>1, ProgCmdIs DEF OutFor, InFlight
      <4>3. wr.buf # g_ftl_write_buf_id
        <5>1. Ring(wr_limit, g_ftl_write_buf_id, NumWrBuffers, OutFor("program"), wr_done)
          BY DEF IInv, WriteRing
        <5>. QED BY <4>2, <5>1, CursorFree, FlashAssumption
      <4>4. c.bank = wr.bank /\ bank[c.bank] = c
        BY <4>2, <4>3 DEF IInv, HolesOfPage
      <4>5. c # None
        BY DEF OutFor, InFlight
      <4>. QED BY <1>1, <4>4, <4>5
    <3>. QED BY <3>1
  <2>. QED BY <1>11, <2>1, <2>2, <2>3
<1>13. ReadCmds(g)'
  <2> SUFFICES ASSUME NEW c \in OutFor("read")
               PROVE  \E i \in 1 .. g.f : /\ Reads(g, i) /\ g.M < g.r[i] /\ c = ReadCmd(g, i)
                                          /\ Source(g, i) # 0 /\ ProgCmd(g, Source(g, i)) # wr'
    BY <1>3 DEF ReadCmds
  <2>1. PICK i \in 1 .. g.f : /\ Reads(g, i) /\ g.M < g.r[i] /\ c = ReadCmd(g, i)
                              /\ Source(g, i) # 0 /\ ProgCmd(g, Source(g, i)) # wr
    BY <1>4 DEF ReadCmds
  <2>2. i \in 1 .. g.N
    BY <1>5
  <2>3. Source(g, i) \in 1 .. g.f /\ Writes(g, Source(g, i))
    BY <1>4, <1>5, <2>1, <2>2, SourceIs
  <2>4. Source(g, i) \in Written(g)
    BY <2>3 DEF Written
  <2>. QED BY <1>11, <2>1, <2>4
<1>14. DataOK(g)'
  BY <1>7, <1>8, <1>9, <1>10, <1>12, <1>13 DEF DataOK
<1>. QED BY <1>6, <1>14

\* A command for a hole belongs to a page whose buffer is in the ring, and to an old page
\* that has been programmed or is being programmed.
LEMMA HoleOf ==
  ASSUME NEW g, History(g), Counters(g), Places(g), Programs(g), HoleCmds(g),
         NEW c \in OutFor("hole")
  PROVE  \E i \in 1 .. g.N :
           /\ Writes(g, i) /\ g.L < g.w[i] /\ g.w[i] <= g.L + NumWrBuffers
           /\ c.buf = WBuf(g, i) /\ SectorsOf(c) \cap Within(g, i) = {}
           /\ Source(g, i) \in Written(g) /\ Source(g, i) # 0
           /\ c.bank = g.loc[Source(g, i)].bank /\ c.row = g.loc[Source(g, i)].row
           /\ ProgCmd(g, Source(g, i)) # wr
<1>1. PICK i \in 1 .. g.N :
        /\ Writes(g, i) /\ c.buf = WBuf(g, i) /\ SectorsOf(c) \cap Within(g, i) = {}
        /\ Source(g, i) # 0 /\ Source(g, i) <= g.f
        /\ c.bank = g.loc[Source(g, i)].bank /\ c.row = g.loc[Source(g, i)].row
        /\ ProgCmd(g, Source(g, i)) # wr
        /\ \/ i = g.f + 1 /\ pc \in {"right", "program"}
           \/ i <= g.f /\ ProgCmd(g, i) = wr
  BY DEF HoleCmds
<1>2. g.N \in Nat /\ g.f \in Nat /\ g.f <= g.N /\ g.f \in 0 .. g.N
  BY InOrder DEF History
<1>3. Source(g, i) \in Written(g)
  <2>1. Source(g, i) \in 1 .. g.N /\ Writes(g, Source(g, i))
    BY <1>1, SourceIs
  <2>2. Source(g, i) \in 1 .. g.f
    BY <1>1, <1>2, <2>1
  <2>. QED BY <2>1, <2>2 DEF Written
<1>4. g.w[i] <= g.L + NumWrBuffers
  <2>1. i <= g.f + 1
    BY <1>1, <1>2
  <2>. QED BY <1>1, <2>1, OwnBuffers
<1>5. g.L < g.w[i]
  <2>1. CASE i = g.f + 1
    <3>1. g.L <= g.w[g.f] /\ g.w[i] \in Nat /\ g.w[g.f] \in Nat /\ g.L \in Nat
      BY <1>1, <1>2, InOrder DEF Counters, History
    <3>2. ~(i <= g.f)
      BY <1>2, <2>1
    <3>3. ~(g.w[i] <= g.w[g.f])
      BY <1>1, <1>2, <3>2, InOrder
    <3>. QED BY <3>1, <3>3
  <2>2. CASE i <= g.f /\ ProgCmd(g, i) = wr
    <3>1. i \in Written(g)
      BY <1>1, <1>2, <2>2 DEF Written
    <3>2. wr \in OutFor("program")
      BY <2>2, <3>1, ProgCmdIs DEF OutFor, InFlight
    <3>3. PICK j \in Written(g) : wr = ProgCmd(g, j) /\ g.L < g.w[j]
      BY <3>2 DEF Programs
    <3>4. i = j
      BY <2>2, <3>1, <3>3, ProgCmdIs
    <3>. QED BY <3>3, <3>4
  <2>. QED BY <1>1, <2>1, <2>2
<1>. QED BY <1>1, <1>3, <1>4, <1>5

\* A bank has read old sectors into the write buffer of a page.
LEMMA FinishHoleData ==
  ASSUME IInv, DataTypeOK, NEW g, DataOK(g), NEW b \in Banks, bank[b] # None, ReadHole(bank[b]),
         bank' = [bank EXCEPT ![b] = None], UNCHANGED <<wr, rbuf_ptr, wbuf_ptr>>,
         UNCHANGED <<ftlVars, hostVars>>
  PROVE  DataTypeOK' /\ \E e : DataOK(e)'
<1>1. PICK c : c = bank[b]
  OBVIOUS
<1>2. /\ UNCHANGED <<wr, nand, rbuf, rd_limit, rd_done, wr_limit, wr_done, rbuf_ptr, wbuf_ptr>>
      /\ UNCHANGED <<page_map, g_target_row, g_ftl_read_buf_id, g_ftl_write_buf_id, pc, cmd, new>>
      /\ UNCHANGED <<eventq, link, disk, writes>>
      /\ c # None /\ c.op = "hole" /\ c.bank = b
      /\ wbuf' = [wbuf EXCEPT ![c.buf] = Merged(@, nand[c.bank][c.row], c)]
  BY <1>1 DEF ReadHole, ftlVars, hostVars, IInv, RingTypeOK
<1>3. InFlight' \subseteq InFlight /\ InFlight \ {c} \subseteq InFlight'
  <2>1. RingTypeOK /\ WaitingApart /\ wr' = wr /\ bank' = [bank EXCEPT ![b] = None]
    BY DEF IInv
  <2>. QED BY <1>1, <1>2, <2>1, Finished
<1>4. /\ OutFor("program")' = OutFor("program") /\ OutFor("read")' = OutFor("read")
      /\ OutFor("hole")' \subseteq OutFor("hole") /\ OutFor("hole") \ {c} \subseteq OutFor("hole")'
      /\ c \in OutFor("hole")
  <2>1. c \in InFlight
    BY <1>1, <1>2 DEF InFlight
  <2>. QED BY <1>2, <1>3, <2>1 DEF OutFor
<1>5. History(g) /\ Sent(g) /\ Queued(g) /\ Counters(g) /\ Places(g) /\ Programs(g) /\ Filled(g)
      /\ Holes(g) /\ HoleCmds(g) /\ ReadCmds(g) /\ Fetched(g)
  BY DEF DataOK
<1>6. /\ g.N \in Nat /\ g.f \in Nat /\ g.h \in Nat /\ g.f <= g.N /\ g.h <= g.N
      /\ g.h <= g.h /\ g.w[g.h] \in Nat /\ g.w[g.h] <= g.w[g.h] /\ g.f \in 0 .. g.N /\ g.h \in 0 .. g.N
  <2>1. g.N \in Nat /\ g.f \in Nat /\ g.h \in Nat /\ g.h \in 0 .. g.N /\ g.f <= g.N /\ g.h <= g.N /\ g.f \in 0 .. g.N
    BY <1>5, InOrder DEF History
  <2>2. g.w[g.h] \in Nat
    BY <1>5, <2>1 DEF History
  <2>. QED BY <2>1, <2>2
<1>7. PICK i \in 1 .. g.N :
           /\ Writes(g, i) /\ g.L < g.w[i] /\ g.w[i] <= g.L + NumWrBuffers
           /\ c.buf = WBuf(g, i) /\ SectorsOf(c) \cap Within(g, i) = {}
           /\ Source(g, i) \in Written(g) /\ Source(g, i) # 0
           /\ c.bank = g.loc[Source(g, i)].bank /\ c.row = g.loc[Source(g, i)].row
           /\ ProgCmd(g, Source(g, i)) # wr
  BY <1>4, <1>5, HoleOf
<1>8. HasData(nand[c.bank][c.row], g, Source(g, i))
  BY <1>1, <1>2, <1>5, <1>7, PageProgrammed DEF IInv
<1>9. c.buf \in 0 .. NumWrBuffers - 1
  BY <1>5, <1>7, OwnBuffers
<1>10. \A s \in Sectors, x \in 0 .. NumWrBuffers - 1 :
         wbuf'[x][s] = IF x = c.buf /\ s \in SectorsOf(c) THEN nand[c.bank][c.row][s] ELSE wbuf[x][s]
  BY <1>2, <1>9 DEF DataTypeOK, Merged
<1>11. nand[c.bank][c.row] \in [Sectors -> Vals]
  <2>1. g.loc[Source(g, i)] \in [bank : Banks, row : Rows]
    BY <1>5, <1>7 DEF Places
  <2>2. c.bank \in Banks /\ c.row \in Rows
    BY <1>7, <2>1
  <2>. QED BY <2>2 DEF DataTypeOK
<1>12. DataTypeOK'
  <2>1. wbuf' \in [0 .. NumWrBuffers - 1 -> [Sectors -> Vals]]
    BY <1>2, <1>9, <1>11 DEF DataTypeOK, Merged
  <2>. QED BY <1>2, <2>1 DEF DataTypeOK
<1>13. History(g)' /\ Sent(g)' /\ Queued(g)'
  BY <1>2, <1>5, <1>6, SameHistory, SameSent, SameQueued
<1>14. Counters(g)' /\ Places(g)'
  BY <1>2, <1>5, SameCounters, SamePlaces DEF MidWrite
<1>15. Programs(g)' /\ HoleCmds(g)' /\ ReadCmds(g)' /\ Fetched(g)'
  <2>1. Programs(g)'
    BY <1>2, <1>4, <1>5, <1>6, SamePrograms
  <2>. QED BY <1>2, <1>4, <1>5, <1>6, <2>1, SameHoleCmds, SameReadCmds, SameFetched
<1>16. \A j \in 1 .. g.N : Writes(g, j) /\ g.L < g.w[j] /\ (j <= g.f + 1 \/ j <= g.h + 1) /\ WBuf(g, j) = c.buf
                             => j = i
  BY <1>5, <1>7, OwnBuffers
<1>17. \A j \in 1 .. g.N : Writes(g, j) => WBuf(g, j) \in 0 .. NumWrBuffers - 1
  BY <1>5, OwnBuffers
<1>18. Filled(g)'
  <2> SUFFICES ASSUME NEW j \in 1 .. g.h, Writes(g, j), g.L < g.w[j], NEW s \in Within(g, j)
               PROVE  wbuf'[WBuf(g, j)][s] = g.P[j].exp[s]
    BY DEF Filled
  <2>1. j \in 1 .. g.N /\ j <= g.h + 1 /\ WBuf(g, j) \in 0 .. NumWrBuffers - 1
    BY <1>6, <1>17
  <2>2. s \in Sectors
    <3>1. g.P[j].off \in Nat /\ g.P[j].n \in Nat /\ g.P[j].off + g.P[j].n <= SectorsPerPage
      BY <1>5, <2>1 DEF History, PageRec
    <3>. QED BY <3>1, FlashAssumption DEF Within, Sectors
  <2>3. wbuf[WBuf(g, j)][s] = g.P[j].exp[s]
    BY <1>5 DEF Filled
  <2>4. ~(WBuf(g, j) = c.buf /\ s \in SectorsOf(c))
    BY <1>7, <1>16, <2>1
  <2>. QED BY <1>10, <2>1, <2>2, <2>3, <2>4
<1>19. Holes(g)'
  <2> SUFFICES ASSUME NEW j \in 1 .. g.N, Writes(g, j), g.L < g.w[j],
                      j <= g.f \/ (j = g.f + 1 /\ pc \in {"right", "program"}),
                      NEW s \in Sectors \ Within(g, j), g.val[j][g.lp[j]][s] # 0
               PROVE  \/ wbuf'[WBuf(g, j)][s] = g.val[j][g.lp[j]][s]
                      \/ \E d \in OutFor("hole")' : d.buf = WBuf(g, j) /\ s \in SectorsOf(d)
                      \/ j = g.f + 1 /\ pc = "right" /\ s >= g.P[j].off + g.P[j].n
    BY <1>2 DEF Holes, SectorsOf
  <2>1. j <= g.f + 1 /\ WBuf(g, j) \in 0 .. NumWrBuffers - 1
    BY <1>6, <1>17
  <2>2. CASE WBuf(g, j) = c.buf /\ s \in SectorsOf(c)
    <3>1. j = i
      BY <1>16, <2>1, <2>2
    <3>2. g.val[i][g.lp[i]][s] = g.val[Source(g, i)][g.lp[i]][s]
      BY <1>5, <1>7, <3>1, OldSectors
    <3>3. g.lp[Source(g, i)] = g.lp[i]
      BY <1>5, <1>7, SourceIs
    <3>4. nand[c.bank][c.row][s] = g.val[Source(g, i)][g.lp[i]][s]
      BY <1>8, <3>1, <3>2, <3>3 DEF HasData
    <3>. QED BY <1>10, <2>1, <2>2, <3>1, <3>2, <3>4
  <2>3. CASE ~(WBuf(g, j) = c.buf /\ s \in SectorsOf(c))
    <3>1. wbuf'[WBuf(g, j)][s] = wbuf[WBuf(g, j)][s]
      BY <1>10, <2>1, <2>3
    <3>2. \/ wbuf[WBuf(g, j)][s] = g.val[j][g.lp[j]][s]
          \/ \E d \in OutFor("hole") : d.buf = WBuf(g, j) /\ s \in SectorsOf(d)
          \/ j = g.f + 1 /\ pc = "right" /\ s >= g.P[j].off + g.P[j].n
      BY <1>5 DEF Holes
    <3>3. ASSUME NEW d \in OutFor("hole"), d.buf = WBuf(g, j), s \in SectorsOf(d) PROVE d \in OutFor("hole")'
      BY <1>4, <2>3, <3>3
    <3>. QED BY <3>1, <3>2, <3>3
  <2>. QED BY <2>2, <2>3
<1>20. DataOK(g)'
  BY <1>13, <1>14, <1>15, <1>18, <1>19 DEF DataOK
<1>. QED BY <1>12, <1>20

\* A command of a ring finishes: the counter of the limit moves over the buffers that are
\* finished, and what remains in flight is past it.
LEMMA LimitStep ==
  ASSUME NEW n \in Nat \ {0}, NEW a \in Nat, NEW b \in Nat, a <= b, b - a < n,
         NEW l, NEW t, l = Slot(a, n), t = Slot(b, n), NEW out, NEW done, NEW c \in out,
         Ring(l, t, n, out, done), NEW k, k = Passed(l, done \union {c.buf}, n)
  PROVE  /\ k \in 0 .. b - a
         /\ Slot(l + k, n) = Slot(a + k, n)
         /\ \A x \in a .. a + k - 1 : Slot(x, n) \in done \union {c.buf}
         /\ \A d \in out \ {c}, x \in a .. b - 1 : d.buf = Slot(x, n) => a + k <= x
<1>1. PICK A, all, m, d : /\ A = b - a /\ all = done \union {c.buf} /\ m = (l + k) % n
                          /\ d = (done \union {c.buf}) \ Covered(l, done \union {c.buf}, n)
  OBVIOUS
<1>2. Ahead(l, t, n) = A /\ l \in 0 .. n - 1 /\ t \in 0 .. n - 1
  BY <1>1, AheadOf DEF Slot
<1>3. Ring(l, t, n, out, done) /\ k = Passed(l, all, n)
  BY <1>1
<1>4. k \in 0 .. Ahead(l, t, n) /\ Ring(m, t, n, out \ {c}, d)
  BY <1>1, RingFinish
<1>5. k \in 0 .. b - a
  BY <1>1, <1>2, <1>4
<1>6. /\ \A j \in 0 .. k : Slot(Slot(a, n) + j, n) = Slot(a + j, n)
      /\ \A x \in a .. b - 1 : Slot(x, n) \in Window(Slot(a + k, n), Slot(b, n), n) => a + k <= x
  <2>1. \A j \in 0 .. k : Slot(Slot(a, n) + j, n) = Slot(a + j, n)
    <3> SUFFICES ASSUME NEW j \in 0 .. k PROVE ((a % n) + j) % n = (a + j) % n
      BY DEF Slot
    <3>1. j \in 0 .. n
      BY <1>5
    <3>. QED BY <3>1, CursorAt
  <2>2. \A x \in a .. b - 1 : Slot(x, n) \in Window(Slot(a + k, n), Slot(b, n), n) => a + k <= x
    BY <1>5, LimitPasses, Zenon
  <2>. QED BY <2>1, <2>2
<1>7. Slot(l + k, n) = Slot(a + k, n)
  <2>1. k \in 0 .. k
    BY <1>5
  <2>. QED BY <1>6, <2>1
<1>8. ASSUME NEW x \in a .. a + k - 1 PROVE Slot(x, n) \in done \union {c.buf}
  <2>1. all \in SUBSET Window(l, t, n)
    BY <1>1, <1>3 DEF Ring, Bufs
  <2>2. \A j \in 0 .. k - 1 : (l + j) % n \in all
    BY <1>2, <1>3, <2>1, PassedIs
  <2>3. PICK j : j = x - a /\ j \in 0 .. k - 1 /\ j \in 0 .. k /\ a + j = x
    BY <1>5
  <2>4. Slot(l + j, n) = Slot(x, n)
    BY <1>6, <2>3
  <2>5. (l + j) % n \in all
    BY <2>2, <2>3
  <2>. QED BY <1>1, <2>4, <2>5 DEF Slot
<1>9. ASSUME NEW e \in out \ {c}, NEW x \in a .. b - 1, e.buf = Slot(x, n) PROVE a + k <= x
  <2>1. e.buf \in Window(m, t, n)
    BY <1>4 DEF Ring, Bufs
  <2>2. Slot(x, n) \in Window(Slot(a + k, n), Slot(b, n), n)
    <3>1. m = Slot(l + k, n)
      BY <1>1 DEF Slot
    <3>. QED BY <1>7, <1>9, <2>1, <3>1
  <2>. QED BY <1>6, <2>2
<1>. QED BY <1>5, <1>7, <1>8, <1>9

\* The buffer of a page whose sectors are all there is programmed, and the limit of the
\* write ring moves on.
LEMMA FinishProgramData ==
  ASSUME IInv, DataTypeOK, NEW g, DataOK(g), NEW b \in Banks, bank[b] # None, ProgramFromHost(bank[b]),
         bank' = [bank EXCEPT ![b] = None], UNCHANGED <<wr, rbuf_ptr, wbuf_ptr>>,
         UNCHANGED <<ftlVars, hostVars>>
  PROVE  DataTypeOK' /\ \E e : DataOK(e)'
<1>1. PICK c, n, k : /\ c = bank[b] /\ n = NumWrBuffers /\ n \in Nat \ {0}
                     /\ k = Passed(wr_limit, wr_done \union {c.buf}, n)
  BY FlashAssumption
<1>2. /\ UNCHANGED <<wr, rbuf, wbuf, rd_limit, rd_done, rbuf_ptr, wbuf_ptr>>
      /\ UNCHANGED <<page_map, g_target_row, g_ftl_read_buf_id, g_ftl_write_buf_id, pc, cmd, new>>
      /\ UNCHANGED <<eventq, link, disk, writes>>
      /\ c # None /\ c.op = "program" /\ c.bank = b
      /\ Ahead(wr_limit, c.buf, n) < Ahead(wr_limit, wbuf_ptr, n)
      /\ nand' = [nand EXCEPT ![c.bank][c.row] = Merged(@, wbuf[c.buf], c)]
      /\ wr_limit' = (wr_limit + k) % n /\ wr_done' \subseteq wr_done \union {c.buf}
  BY <1>1 DEF ProgramFromHost, ftlVars, hostVars, IInv, RingTypeOK
<1>3. InFlight' = InFlight \ {c}
  <2>1. RingTypeOK /\ WaitingApart /\ wr' = wr /\ bank' = [bank EXCEPT ![b] = None] /\ c.op # "hole"
    BY <1>2 DEF IInv
  <2>. QED BY <1>1, <1>2, <2>1, Finished
<1>4. /\ OutFor("program")' = OutFor("program") \ {c} /\ OutFor("read")' = OutFor("read")
      /\ OutFor("hole")' = OutFor("hole") /\ c \in OutFor("program")
  <2>1. c \in InFlight
    BY <1>1, <1>2 DEF InFlight
  <2>. QED BY <1>2, <1>3, <2>1 DEF OutFor
<1>5. History(g) /\ Sent(g) /\ Queued(g) /\ Counters(g) /\ Places(g) /\ Programs(g) /\ Filled(g)
      /\ Holes(g) /\ HoleCmds(g) /\ ReadCmds(g) /\ Fetched(g)
  BY DEF DataOK
<1>6. PICK e : e = After(g, g.f, g.h, g.L + k, g.M, g.loc, g.st)
  OBVIOUS
<1>7. /\ e.f = g.f /\ e.h = g.h /\ e.L = g.L + k /\ e.M = g.M /\ e.loc = g.loc /\ e.st = g.st /\ e.N = g.N
      /\ e.P = g.P /\ e.lp = g.lp /\ e.w = g.w /\ e.r = g.r /\ e.last = g.last /\ e.val = g.val
  BY <1>6, AfterIs
<1>8. /\ g.N \in Nat /\ g.f \in Nat /\ g.h \in Nat /\ g.f <= g.N /\ g.h <= g.N /\ g.f \in 0 .. g.N /\ g.h \in 0 .. g.N
      /\ g.h <= g.h
  BY <1>5, InOrder DEF History
<1>9. PICK L, F, H : L = g.L /\ F = g.w[g.f] /\ H = g.w[g.h]
  OBVIOUS
<1>10. /\ L \in Nat /\ F \in Nat /\ H \in Nat /\ L <= F /\ L <= H /\ F - L < n /\ H - L < n
       /\ wr_limit = L % n /\ g_ftl_write_buf_id = F % n /\ wbuf_ptr = H % n
  <2>1. F \in Nat /\ H \in Nat
    BY <1>5, <1>8, <1>9 DEF History
  <2>. QED BY <1>1, <1>5, <1>9, <2>1 DEF Counters
<1>11. PICK i \in Written(g) : c = ProgCmd(g, i) /\ L < g.w[i]
  BY <1>4, <1>5, <1>9 DEF Programs
<1>12. /\ i \in 1 .. g.N /\ i <= g.f /\ Writes(g, i) /\ c.buf = WBuf(g, i)
       /\ c.bank = g.loc[i].bank /\ c.row = g.loc[i].row /\ g.loc[i] \in [bank : Banks, row : Rows]
       /\ \A j \in Written(g) : ProgCmd(g, j) = c => j = i
  BY <1>5, <1>11, ProgCmdIs
<1>13. \A j \in Written(g) : /\ j \in 1 .. g.N /\ Writes(g, j) /\ g.w[j] \in Nat /\ g.w[j] - 1 \in Nat /\ g.w[j] <= F
                             /\ L < g.w[j] => g.w[j] - 1 \in L .. F - 1
  <2> SUFFICES ASSUME NEW j \in Written(g)
               PROVE  /\ j \in 1 .. g.N /\ Writes(g, j) /\ g.w[j] \in Nat /\ g.w[j] - 1 \in Nat /\ g.w[j] <= F
                      /\ L < g.w[j] => g.w[j] - 1 \in L .. F - 1
    OBVIOUS
  <2>1. j \in 1 .. g.N /\ Writes(g, j) /\ j <= g.f
    BY <1>8 DEF Written
  <2>2. g.w[j] \in Nat /\ g.w[j] - 1 \in Nat /\ g.w[j] <= F
    BY <1>5, <1>8, <1>9, <2>1, InOrder
  <2>. QED BY <1>10, <2>1, <2>2
<1>14. g.w[i] <= H
  <2>1. PICK x : x = g.w[i] - 1 /\ x \in Nat /\ L <= x /\ x - L < n /\ g.w[i] = x + 1
    BY <1>1, <1>10, <1>11, <1>13
  <2>2. c.buf = x % n
    BY <1>1, <1>12, <2>1 DEF WBuf
  <2>3. Ahead(L % n, x % n, n) = x - L /\ Ahead(L % n, H % n, n) = H - L
    BY <1>1, <1>10, <2>1, AheadOf
  <2>4. x - L < H - L
    BY <1>2, <1>10, <2>2, <2>3
  <2>. QED BY <1>10, <2>1, <2>4
<1>15. \A x \in L .. F - 1 : x % n = c.buf => x + 1 = g.w[i]
  <2> SUFFICES ASSUME NEW x \in L .. F - 1, x % n = c.buf PROVE x + 1 = g.w[i]
    OBVIOUS
  <2>1. PICK y : y = g.w[i] - 1 /\ y \in L .. F - 1 /\ g.w[i] = y + 1
    BY <1>10, <1>11, <1>13
  <2>2. x % n = y % n
    BY <1>1, <1>12, <2>1 DEF WBuf
  <2>3. x \in Nat /\ y \in Nat /\ x - y < n /\ y - x < n
    BY <1>1, <1>10, <2>1
  <2>4. x = y
    BY <1>1, <2>2, <2>3, SameCursor
  <2>. QED BY <2>1, <2>4
<1>16. /\ k \in 0 .. F - L /\ wr_limit' = (L + k) % n
       /\ \A x \in L .. L + k - 1 : x % n \in wr_done \union {c.buf}
       /\ \A d \in OutFor("program") \ {c}, x \in L .. F - 1 : d.buf = x % n => L + k <= x
  <2>1. Ring(wr_limit, g_ftl_write_buf_id, n, OutFor("program"), wr_done)
    BY <1>1, <1>10 DEF IInv, WriteRing
  <2>2. L \in Nat /\ F \in Nat /\ L <= F /\ F - L < n /\ c \in OutFor("program")
    BY <1>4, <1>10
  <2>3. /\ k \in 0 .. F - L
        /\ (wr_limit + k) % n = (L + k) % n
        /\ \A x \in L .. L + k - 1 : x % n \in wr_done \union {c.buf}
        /\ \A d \in OutFor("program") \ {c}, x \in L .. F - 1 : d.buf = x % n => L + k <= x
    <3>1. wr_limit = Slot(L, n) /\ g_ftl_write_buf_id = Slot(F, n) /\ k = Passed(wr_limit, wr_done \union {c.buf}, n)
      BY <1>1, <1>10 DEF Slot
    <3>2. n \in Nat \ {0}
      BY <1>1
    <3>3. /\ k \in 0 .. F - L
          /\ Slot(wr_limit + k, n) = Slot(L + k, n)
          /\ \A x \in L .. L + k - 1 : Slot(x, n) \in wr_done \union {c.buf}
          /\ \A d \in OutFor("program") \ {c}, x \in L .. F - 1 : d.buf = Slot(x, n) => L + k <= x
      BY <2>1, <2>2, <3>1, <3>2, LimitStep
    <3>. QED BY <3>3 DEF Slot
  <2>4. wr_limit' = (L + k) % n
    BY <1>2, <1>10, <2>3
  <2>. QED BY <2>3, <2>4
<1>17. \A x \in L .. F - 1 : x % n \in wr_done \union {c.buf} => x + 1 <= H
  <2> SUFFICES ASSUME NEW x \in L .. F - 1, x % n \in wr_done \union {c.buf} PROVE x + 1 <= H
    OBVIOUS
  <2>1. CASE x % n \in wr_done
    <3>1. PICK y : y = x + 1 /\ y \in Nat /\ L < y /\ y <= F /\ y - 1 = x
      BY <1>10
    <3>2. y <= H
      BY <1>1, <1>5, <1>9, <2>1, <3>1 DEF Programs
    <3>. QED BY <3>1, <3>2
  <2>2. CASE x % n = c.buf
    BY <1>14, <1>15, <2>2
  <2>. QED BY <2>1, <2>2
<1>18. L + k \in Nat /\ L + k <= H /\ L + k <= F /\ L <= L + k
  <2>1. L + k \in Nat /\ L + k <= F /\ L <= L + k
    BY <1>10, <1>16
  <2>2. CASE k = 0
    BY <1>10, <2>1, <2>2
  <2>3. CASE k # 0
    <3>1. PICK x : x = L + k - 1 /\ x \in L .. L + k - 1 /\ x \in L .. F - 1 /\ x + 1 = L + k
      BY <1>10, <1>16, <2>3
    <3>2. x + 1 <= H
      BY <1>16, <1>17, <3>1
    <3>. QED BY <2>1, <3>1, <3>2
  <2>. QED BY <2>1, <2>2, <2>3
<1>19. Counters(e)'
  <2>1. F - (L + k) < n /\ H - (L + k) < n
    BY <1>1, <1>10, <1>18
  <2>. QED BY <1>1, <1>2, <1>5, <1>7, <1>9, <1>16, <1>18, <2>1 DEF Counters
<1>20. \A r \in Banks, x \in Rows, s \in Sectors :
         nand'[r][x][s] = IF r = c.bank /\ x = c.row THEN wbuf[c.buf][s] ELSE nand[r][x][s]
  <2>1. c.bank \in Banks /\ c.row \in Rows
    BY <1>12
  <2>2. SectorsOf(c) = 0 .. SectorsPerPage - 1
    <3>1. c.off = 0 /\ c.n = SectorsPerPage
      BY <1>11 DEF ProgCmd, Command
    <3>. QED BY <3>1, FlashAssumption DEF SectorsOf
  <2>. QED BY <1>2, <2>1, <2>2 DEF DataTypeOK, Merged, Sectors
<1>21. DataTypeOK'
  <2>1. c.bank \in Banks /\ c.row \in Rows
    BY <1>12
  <2>2. c.buf \in 0 .. NumWrBuffers - 1
    BY <1>5, <1>12, OwnBuffers
  <2>3. Merged(nand[c.bank][c.row], wbuf[c.buf], c) \in [Sectors -> Vals]
    BY <2>1, <2>2 DEF DataTypeOK, Merged
  <2>4. nand' \in [Banks -> [Rows -> [Sectors -> Vals]]]
    BY <1>2, <2>1, <2>3 DEF DataTypeOK
  <2>. QED BY <1>2, <2>4 DEF DataTypeOK
<1>22. HasData(wbuf[c.buf], g, i)
  <2> SUFFICES ASSUME NEW s \in Sectors, g.val[i][g.lp[i]][s] # 0
               PROVE  wbuf[c.buf][s] = g.val[i][g.lp[i]][s]
    BY DEF HasData
  <2>1. CASE s \in Within(g, i)
    <3>1. i \in 1 .. g.h
      <4>1. g.w[i] <= g.w[g.h]
        BY <1>9, <1>14
      <4>2. i <= g.h
        BY <1>5, <1>8, <1>12, <4>1, InOrder
      <4>. QED BY <1>8, <1>12, <4>2
    <3>2. wbuf[c.buf][s] = g.P[i].exp[s]
      <4>1. c.buf = WBuf(g, i) /\ Writes(g, i) /\ g.L < g.w[i]
        BY <1>5, <1>9, <1>11, <1>12
      <4>2. Filled(g)
        BY <1>5
      <4>3. \A j \in 1 .. g.h : Writes(g, j) /\ g.L < g.w[j] =>
              \A x \in Within(g, j) : wbuf[WBuf(g, j)][x] = g.P[j].exp[x]
        BY <4>2 DEF Filled
      <4>4. \A x \in Within(g, i) : wbuf[WBuf(g, i)][x] = g.P[i].exp[x]
        BY <3>1, <4>1, <4>3, Zenon
      <4>. QED BY <2>1, <4>1, <4>4
    <3>. QED BY <1>5, <1>12, <2>1, <3>2, OldSectors
  <2>2. CASE s \notin Within(g, i)
    <3>1. \/ wbuf[WBuf(g, i)][s] = g.val[i][g.lp[i]][s]
          \/ \E d \in OutFor("hole") : d.buf = WBuf(g, i) /\ s \in SectorsOf(d)
          \/ i = g.f + 1 /\ pc = "right" /\ s >= g.P[i].off + g.P[i].n
      BY <1>5, <1>9, <1>11, <1>12, <2>2 DEF Holes
    <3>2. i # g.f + 1
      BY <1>8, <1>12
    <3>3. ASSUME NEW d \in OutFor("hole"), d.buf = c.buf PROVE FALSE
      <4>1. Ring(wr_limit, g_ftl_write_buf_id, n, OutFor("program"), wr_done)
        BY <1>1 DEF IInv, WriteRing
      <4>2. c.buf # g_ftl_write_buf_id
        BY <1>1, <1>4, <4>1, CursorFree
      <4>3. wr # None /\ wr.op = "program" /\ d.buf = wr.buf
        BY <3>3, <4>2 DEF IInv, HolesOfPage
      <4>4. wr \in OutFor("program")
        BY <4>3 DEF OutFor, InFlight
      <4>5. wr = c
        BY <1>4, <3>3, <4>1, <4>3, <4>4 DEF Ring
      <4>. QED BY <1>1, <4>3, <4>5 DEF IInv, WaitingApart
    <3>. QED BY <1>12, <3>1, <3>2, <3>3
  <2>. QED BY <2>1, <2>2
<1>23. /\ Written(e) = Written(g)
       /\ \A j : /\ (Writes(e, j) <=> Writes(g, j)) /\ ProgCmd(e, j) = ProgCmd(g, j)
                 /\ \A page : HasData(page, e, j) <=> HasData(page, g, j)
  BY <1>7 DEF Written, Writes, WBuf, ProgCmd, HasData
<1>24. Programs(e)'
  <2>1. ASSUME NEW d \in OutFor("program")' PROVE \E j \in Written(g) : d = ProgCmd(g, j) /\ L + k < g.w[j]
    <3>1. d \in OutFor("program") \ {c}
      BY <1>4
    <3>2. PICK j \in Written(g) : d = ProgCmd(g, j) /\ L < g.w[j]
      BY <1>5, <1>9, <3>1 DEF Programs
    <3>3. PICK x : x = g.w[j] - 1 /\ x \in L .. F - 1 /\ g.w[j] = x + 1
      BY <1>10, <1>13, <3>2
    <3>4. d.buf = x % n
      BY <1>1, <3>2, <3>3 DEF ProgCmd, Command, WBuf
    <3>5. L + k <= x
      BY <1>16, <3>1, <3>3, <3>4
    <3>6. L + k < g.w[j]
      BY <1>10, <1>18, <3>3, <3>5
    <3>. QED BY <3>2, <3>6
  <2>2. ASSUME NEW j \in Written(g)
        PROVE  ProgCmd(g, j) \in InFlight' \/ HasData(nand'[g.loc[j].bank][g.loc[j].row], g, j)
    <3>1. g.loc[j] \in [bank : Banks, row : Rows]
      BY <1>5 DEF Places
    <3>2. CASE j = i
      <4>1. \A s \in Sectors : nand'[g.loc[i].bank][g.loc[i].row][s] = wbuf[c.buf][s]
        BY <1>12, <1>20
      <4>. QED BY <1>22, <3>2, <4>1 DEF HasData
    <3>3. CASE j # i
      <4>1. g.loc[j] # g.loc[i]
        BY <1>5, <3>3 DEF Places
      <4>2. ~(g.loc[j].bank = c.bank /\ g.loc[j].row = c.row)
        BY <1>12, <3>1, <4>1
      <4>3. \A s \in Sectors : nand'[g.loc[j].bank][g.loc[j].row][s] = nand[g.loc[j].bank][g.loc[j].row][s]
        BY <1>20, <3>1, <4>2
      <4>4. ProgCmd(g, j) # c
        BY <1>12, <3>3
      <4>5. ProgCmd(g, j) \in InFlight \/ HasData(nand[g.loc[j].bank][g.loc[j].row], g, j)
        BY <1>5 DEF Programs
      <4>. QED BY <1>3, <4>3, <4>4, <4>5 DEF HasData
    <3>. QED BY <3>2, <3>3
  <2>3. ASSUME NEW y \in Nat, L + k < y, y <= F, (y - 1) % n \in wr_done' PROVE y <= H
    <3>1. PICK x : x = y - 1 /\ x \in L .. F - 1 /\ y = x + 1
      BY <1>10, <1>18, <2>3
    <3>2. x % n \in wr_done \union {c.buf}
      BY <1>2, <2>3, <3>1
    <3>. QED BY <1>17, <3>1, <3>2
  <2>. QED BY <1>1, <1>7, <1>9, <1>23, <2>1, <2>2, <2>3 DEF Programs
<1>25. \A j \in 1 .. g.N : e.L < g.w[j] => g.L < g.w[j]
  <2> SUFFICES ASSUME NEW j \in 1 .. g.N, e.L < g.w[j] PROVE g.L < g.w[j]
    OBVIOUS
  <2>1. g.w[j] \in Nat
    <3>1. j \in 0 .. g.N
      BY <1>8
    <3>. QED BY <1>5, <3>1 DEF History
  <2>. QED BY <1>7, <1>9, <1>10, <1>18, <2>1
<1>26. Filled(e)' /\ Holes(e)'
  <2>1. \A j \in 1 .. g.h : e.L < g.w[j] => g.L < g.w[j]
    BY <1>8, <1>25
  <2>. QED BY <1>2, <1>4, <1>5, <1>7, <1>8, <1>25, <2>1, SameFilled, SameHoles
<1>27. History(e)' /\ Sent(e)' /\ Queued(e)' /\ Places(e)'
  BY <1>2, <1>5, <1>7, <1>8, SameHistory, SameSent, SameQueued, SamePlaces DEF MidWrite
<1>28. HoleCmds(e)' /\ ReadCmds(e)' /\ Fetched(e)'
  <2>1. e.h \in Nat /\ g.h <= e.h
    BY <1>7, <1>8
  <2>. QED BY <1>2, <1>4, <1>5, <1>7, <1>8, <2>1, SameHoleCmds, SameReadCmds, SameFetched
<1>29. DataOK(e)'
  BY <1>19, <1>24, <1>26, <1>27, <1>28 DEF DataOK
<1>. QED BY <1>21, <1>29

\* A bank has read a page into its read buffer, and the limit of the read ring moves on.
LEMMA FinishReadData ==
  ASSUME IInv, DataTypeOK, NEW g, DataOK(g), NEW b \in Banks, bank[b] # None, ReadToHost(bank[b]),
         bank' = [bank EXCEPT ![b] = None], UNCHANGED <<wr, rbuf_ptr, wbuf_ptr>>,
         UNCHANGED <<ftlVars, hostVars>>
  PROVE  DataTypeOK' /\ \E e : DataOK(e)'
<1>1. PICK c, n, k : /\ c = bank[b] /\ n = NumRdBuffers /\ n \in Nat \ {0}
                     /\ k = Passed(rd_limit, rd_done \union {c.buf}, n)
  BY FlashAssumption
<1>2. /\ UNCHANGED <<wr, nand, wbuf, wr_limit, wr_done, rbuf_ptr, wbuf_ptr>>
      /\ UNCHANGED <<page_map, g_target_row, g_ftl_read_buf_id, g_ftl_write_buf_id, pc, cmd, new>>
      /\ UNCHANGED <<eventq, link, disk, writes>>
      /\ c # None /\ c.op = "read" /\ c.bank = b
      /\ rbuf' = [rbuf EXCEPT ![c.buf] = Merged(@, nand[c.bank][c.row], c)]
      /\ rd_limit' = (rd_limit + k) % n
  BY <1>1 DEF ReadToHost, ftlVars, hostVars, IInv, RingTypeOK
<1>3. InFlight' = InFlight \ {c}
  <2>1. RingTypeOK /\ WaitingApart /\ wr' = wr /\ bank' = [bank EXCEPT ![b] = None] /\ c.op # "hole"
    BY <1>2 DEF IInv
  <2>. QED BY <1>1, <1>2, <2>1, Finished
<1>4. /\ OutFor("read")' = OutFor("read") \ {c} /\ OutFor("program")' = OutFor("program")
      /\ OutFor("hole")' = OutFor("hole") /\ c \in OutFor("read")
  <2>1. c \in InFlight
    BY <1>1, <1>2 DEF InFlight
  <2>. QED BY <1>2, <1>3, <2>1 DEF OutFor
<1>5. History(g) /\ Sent(g) /\ Queued(g) /\ Counters(g) /\ Places(g) /\ Programs(g) /\ Filled(g)
      /\ Holes(g) /\ HoleCmds(g) /\ ReadCmds(g) /\ Fetched(g)
  BY DEF DataOK
<1>6. PICK e : e = After(g, g.f, g.h, g.L, g.M + k, g.loc, g.st)
  OBVIOUS
<1>7. /\ e.f = g.f /\ e.h = g.h /\ e.L = g.L /\ e.M = g.M + k /\ e.loc = g.loc /\ e.st = g.st /\ e.N = g.N
      /\ e.P = g.P /\ e.lp = g.lp /\ e.w = g.w /\ e.r = g.r /\ e.last = g.last /\ e.val = g.val
  BY <1>6, AfterIs
<1>8. /\ g.N \in Nat /\ g.f \in Nat /\ g.h \in Nat /\ g.f <= g.N /\ g.h <= g.N /\ g.f \in 0 .. g.N /\ g.h \in 0 .. g.N
      /\ g.h <= g.h
  BY <1>5, InOrder DEF History
<1>9. PICK M, F, H : M = g.M /\ F = g.r[g.f] /\ H = g.r[g.h]
  OBVIOUS
<1>10. /\ M \in Nat /\ F \in Nat /\ H \in Nat /\ H <= M /\ M <= F /\ F - H < n /\ F - M < n
       /\ rd_limit = M % n /\ g_ftl_read_buf_id = F % n
  <2>1. F \in Nat /\ H \in Nat
    BY <1>5, <1>8, <1>9 DEF History
  <2>2. /\ M \in Nat /\ H <= M /\ M <= F /\ F - H < n /\ rd_limit = M % n /\ g_ftl_read_buf_id = F % n
    BY <1>1, <1>5, <1>9, <2>1 DEF Counters
  <2>3. F - M < n
    BY <1>1, <2>1, <2>2
  <2>. QED BY <2>1, <2>2, <2>3
<1>11. PICK i \in 1 .. g.f : /\ Reads(g, i) /\ M < g.r[i] /\ c = ReadCmd(g, i)
                             /\ Source(g, i) # 0 /\ ProgCmd(g, Source(g, i)) # wr
  BY <1>4, <1>5, <1>9 DEF ReadCmds
<1>12. /\ i \in 1 .. g.N /\ Source(g, i) \in Written(g) /\ g.lp[Source(g, i)] = g.lp[i]
       /\ c.buf = RBuf(g, i) /\ SectorsOf(c) = Within(g, i) /\ c.buf \in 0 .. n - 1
       /\ c.bank = g.loc[Source(g, i)].bank /\ c.row = g.loc[Source(g, i)].row
  <2>1. i \in 1 .. g.N
    BY <1>8
  <2>2. Source(g, i) \in 1 .. g.f /\ Writes(g, Source(g, i)) /\ g.lp[Source(g, i)] = g.lp[i]
    BY <1>5, <1>8, <1>11, <2>1, SourceIs
  <2>3. /\ c.buf = RBuf(g, i) /\ c.off = g.P[i].off /\ c.n = g.P[i].n
        /\ c.bank = g.loc[Source(g, i)].bank /\ c.row = g.loc[Source(g, i)].row
    BY <1>11 DEF ReadCmd, Command
  <2>4. SectorsOf(c) = Within(g, i)
    BY <2>3 DEF SectorsOf, Within
  <2>5. RBuf(g, i) \in 0 .. n - 1
    BY <1>1, <1>5, <1>11, <2>1, OwnBuffers
  <2>. QED BY <2>1, <2>2, <2>3, <2>4, <2>5 DEF Written
<1>13. HasData(nand[c.bank][c.row], g, Source(g, i))
  BY <1>1, <1>2, <1>5, <1>11, <1>12, PageProgrammed DEF IInv
<1>14. ASSUME NEW j \in 1 .. g.f, Reads(g, j), M < g.r[j]
       PROVE  \E x \in M .. F - 1 : g.r[j] = x + 1 /\ RBuf(g, j) = Slot(x, n)
  <2>1. j \in 1 .. g.N /\ j <= g.f
    BY <1>8
  <2>2. g.r[j] \in Nat /\ g.r[j] <= F
    BY <1>5, <1>8, <1>9, <1>14, <2>1, InOrder
  <2>3. PICK x : x = g.r[j] - 1 /\ x \in M .. F - 1 /\ g.r[j] = x + 1
    BY <1>10, <1>14, <2>2
  <2>. QED BY <1>1, <2>3 DEF RBuf, Slot
<1>15. /\ k \in 0 .. F - M /\ rd_limit' = (M + k) % n
       /\ \A d \in OutFor("read") \ {c}, x \in M .. F - 1 : d.buf = Slot(x, n) => M + k <= x
  <2>1. Ring(rd_limit, g_ftl_read_buf_id, n, OutFor("read"), rd_done)
    BY <1>1, <1>10 DEF IInv, ReadRing
  <2>2. M \in Nat /\ F \in Nat /\ M <= F /\ F - M < n /\ c \in OutFor("read")
    BY <1>4, <1>10
  <2>3. rd_limit = Slot(M, n) /\ g_ftl_read_buf_id = Slot(F, n) /\ k = Passed(rd_limit, rd_done \union {c.buf}, n)
    BY <1>1, <1>10 DEF Slot
  <2>4. n \in Nat \ {0}
    BY <1>1
  <2>5. /\ k \in 0 .. F - M
        /\ Slot(rd_limit + k, n) = Slot(M + k, n)
        /\ \A d \in OutFor("read") \ {c}, x \in M .. F - 1 : d.buf = Slot(x, n) => M + k <= x
    BY <2>1, <2>2, <2>3, <2>4, LimitStep
  <2>6. rd_limit' = (M + k) % n
    BY <1>2, <2>5 DEF Slot
  <2>. QED BY <2>5, <2>6
<1>16. M + k \in Nat /\ H <= M + k /\ M + k <= F
  BY <1>10, <1>15
<1>17. Counters(e)'
  BY <1>1, <1>2, <1>5, <1>7, <1>9, <1>15, <1>16 DEF Counters
<1>18. \A s \in Sectors, x \in 0 .. n - 1 :
         rbuf'[x][s] = IF x = c.buf /\ s \in SectorsOf(c) THEN nand[c.bank][c.row][s] ELSE rbuf[x][s]
  BY <1>1, <1>2, <1>12 DEF DataTypeOK, Merged
<1>19. DataTypeOK'
  <2>1. nand[c.bank][c.row] \in [Sectors -> Vals]
    <3>1. g.loc[Source(g, i)] \in [bank : Banks, row : Rows]
      BY <1>5, <1>12 DEF Places
    <3>2. c.bank \in Banks /\ c.row \in Rows
      BY <1>12, <3>1
    <3>. QED BY <3>2 DEF DataTypeOK
  <2>2. rbuf' \in [0 .. NumRdBuffers - 1 -> [Sectors -> Vals]]
    BY <1>1, <1>2, <1>12, <2>1 DEF DataTypeOK, Merged
  <2>. QED BY <1>2, <2>2 DEF DataTypeOK
<1>20. /\ \A j : /\ (Reads(e, j) <=> Reads(g, j)) /\ Within(e, j) = Within(g, j) /\ RBuf(e, j) = RBuf(g, j)
                 /\ Source(e, j) = Source(g, j) /\ ReadCmd(e, j) = ReadCmd(g, j) /\ ProgCmd(e, j) = ProgCmd(g, j)
                 /\ ReadCmd(g, j).buf = RBuf(g, j)
  BY <1>7 DEF Reads, Within, RBuf, Source, ReadCmd, ProgCmd, WBuf, Command
<1>21. ReadCmds(e)'
  <2> SUFFICES ASSUME NEW d \in OutFor("read") \ {c}
               PROVE  \E j \in 1 .. g.f : /\ Reads(g, j) /\ M + k < g.r[j] /\ d = ReadCmd(g, j)
                                          /\ Source(g, j) # 0 /\ ProgCmd(g, Source(g, j)) # wr
    BY <1>2, <1>4, <1>7, <1>9, <1>20 DEF ReadCmds
  <2>1. PICK j \in 1 .. g.f : /\ Reads(g, j) /\ M < g.r[j] /\ d = ReadCmd(g, j)
                              /\ Source(g, j) # 0 /\ ProgCmd(g, Source(g, j)) # wr
    BY <1>5, <1>9 DEF ReadCmds
  <2>2. PICK x \in M .. F - 1 : g.r[j] = x + 1 /\ RBuf(g, j) = Slot(x, n)
    BY <1>14, <2>1
  <2>3. M + k <= x
    BY <1>15, <1>20, <2>1, <2>2
  <2>4. M + k < g.r[j]
    BY <1>10, <1>16, <2>2, <2>3
  <2>. QED BY <2>1, <2>4
<1>22. ASSUME NEW j \in g.h + 1 .. g.f, Reads(g, j)
       PROVE  /\ j \in 1 .. g.N /\ RBuf(g, j) \in 0 .. n - 1
              /\ RBuf(g, j) = RBuf(g, i) => j = i
  <2>1. j \in 1 .. g.N /\ j <= g.f + 1 /\ i <= g.f + 1
    BY <1>8
  <2>2. RBuf(g, j) \in 0 .. n - 1
    BY <1>1, <1>5, <1>22, <2>1, OwnBuffers
  <2>3. g.r[g.h] < g.r[j]
    <3>1. ~(j <= g.h)
      BY <1>8
    <3>2. ~(g.r[j] <= g.r[g.h]) /\ g.r[j] \in Nat
      BY <1>5, <1>8, <1>22, <2>1, <3>1, InOrder
    <3>. QED BY <1>9, <1>10, <3>2
  <2>4. g.r[g.h] < g.r[i]
    <3>1. g.r[i] \in Nat
      BY <1>5, <1>11, <1>12, InOrder
    <3>. QED BY <1>9, <1>10, <1>11, <3>1
  <2>5. RBuf(g, j) = RBuf(g, i) => j = i
    BY <1>5, <1>11, <1>12, <1>22, <2>1, <2>3, <2>4, OwnBuffers
  <2>. QED BY <2>1, <2>2, <2>5
<1>23. Fetched(e)'
  <2> SUFFICES ASSUME NEW j \in g.h + 1 .. g.f, Reads(g, j)
               PROVE  \/ Source(g, j) # 0 /\ ReadCmd(g, j) \in InFlight'
                      \/ \A s \in Within(g, j) : g.P[j].exp[s] # Stale => rbuf'[RBuf(g, j)][s] = g.P[j].exp[s]
    BY <1>7, <1>20 DEF Fetched
  <2>1. j \in 1 .. g.N /\ RBuf(g, j) \in 0 .. n - 1 /\ (RBuf(g, j) = RBuf(g, i) => j = i)
    BY <1>22
  <2>2. \A s \in Within(g, j) : s \in Sectors
    <3>1. g.P[j].off \in Nat /\ g.P[j].n \in Nat /\ g.P[j].off + g.P[j].n <= SectorsPerPage
      BY <1>5, <2>1 DEF History, PageRec
    <3>. QED BY <3>1, FlashAssumption DEF Within, Sectors
  <2>3. CASE j = i
    <3>1. ASSUME NEW s \in Within(g, i), g.P[i].exp[s] # Stale PROVE rbuf'[RBuf(g, i)][s] = g.P[i].exp[s]
      <4>1. s \in Sectors /\ s \in SectorsOf(c)
        BY <1>12, <2>2, <2>3
      <4>2. /\ g.val[Source(g, i)][g.lp[i]][s] # 0 /\ g.P[i].exp[s] = g.val[Source(g, i)][g.lp[i]][s]
        BY <1>5, <1>11, <1>12, <3>1, <4>1, ExpIs
      <4>3. nand[c.bank][c.row][s] = g.P[i].exp[s]
        BY <1>12, <1>13, <4>1, <4>2 DEF HasData
      <4>. QED BY <1>12, <1>18, <4>1, <4>3
    <3>. QED BY <2>3, <3>1
  <2>4. CASE j # i
    <3>1. ReadCmd(g, j) # c /\ RBuf(g, j) # c.buf
      BY <1>12, <1>20, <2>1, <2>4
    <3>2. \A s \in Sectors : rbuf'[RBuf(g, j)][s] = rbuf[RBuf(g, j)][s]
      BY <1>18, <2>1, <3>1
    <3>. QED BY <1>3, <1>5, <2>2, <3>1, <3>2 DEF Fetched
  <2>. QED BY <2>3, <2>4
<1>24. History(e)' /\ Sent(e)' /\ Queued(e)' /\ Places(e)'
  BY <1>2, <1>5, <1>7, <1>8, SameHistory, SameSent, SameQueued, SamePlaces DEF MidWrite
<1>25. Programs(e)' /\ Filled(e)' /\ Holes(e)' /\ HoleCmds(e)'
  <2>1. g.w[g.h] \in Nat /\ g.w[e.h] \in Nat /\ g.w[g.h] <= g.w[e.h]
    <3>1. g.w[g.h] \in Nat
      BY <1>5, <1>8 DEF History
    <3>. QED BY <1>7, <3>1
  <2>. QED BY <1>2, <1>4, <1>5, <1>7, <1>8, <2>1, SamePrograms, SameFilled, SameHoles, SameHoleCmds
<1>26. DataOK(e)'
  BY <1>17, <1>21, <1>23, <1>24, <1>25 DEF DataOK
<1>. QED BY <1>19, <1>26

\* The page that the FTL works on is the next one of the history.
LEMMA CmdPage ==
  ASSUME RingTypeOK, NEW g, History(g), Queued(g), pc \notin {"main", "stopped"},
         NEW i, i = g.f + 1
  PROVE  /\ i \in 1 .. g.N /\ i - 1 = g.f /\ g.P[i].op = cmd.op /\ g.lp[i] = Lpn(cmd) /\ Lpn(cmd) \in Lpns
         /\ g.P[i].off = Offset(cmd) /\ g.P[i].n = PieceLen(cmd)
         /\ Within(g, i) = Offset(cmd) .. Offset(cmd) + PieceLen(cmd) - 1
         /\ Source(g, i) = g.last[g.f][Lpn(cmd)]
<1>1. PICK c : c = cmd
  OBVIOUS
<1>2. /\ c \in [op : {"none", "read", "write"}, lba : Nat, n : Nat] /\ c.n > 0
      /\ c.lba + c.n <= NumLpns * SectorsPerPage
  BY <1>1 DEF RingTypeOK
<1>3. g.N \in Nat /\ g.f \in Nat
  BY InOrder
<1>4. PICK m : m = NumPages(c) /\ m \in Nat \ {0}
  BY <1>2, PagesOf
<1>5. /\ First(c, Lpn(c)) = Offset(c) /\ Final(c, Lpn(c)) - First(c, Lpn(c)) + 1 = PieceLen(c)
      /\ Lpn(c) \in Lpns
  BY <1>2, NextPiece, PagesOf
<1>6. g.st[1] \in 0 .. g.N
  <2>1. Len(eventq) \in Nat
    BY DEF RingTypeOK
  <2>2. 1 \in 1 .. Len(eventq) + 1
    BY <2>1
  <2>. QED BY <2>2 DEF Queued
<1>7. g.st[1] = g.f + m /\ PagesAre(g, c, g.f)
  BY <1>1, <1>4 DEF Queued
<1>8. i \in 1 .. g.N /\ i - 1 = g.f
  BY <1>3, <1>4, <1>6, <1>7
<1>9. Lpn(c) \in Int /\ Lpn(c) + 1 - 1 = Lpn(c) /\ 1 \in 1 .. m
  BY <1>4, <1>5 DEF Lpns
<1>10. /\ g.P[i].op = c.op /\ g.lp[i] = Lpn(c)
       /\ g.P[i].off = First(c, Lpn(c)) /\ g.P[i].n = Final(c, Lpn(c)) - First(c, Lpn(c)) + 1
  BY <1>4, <1>7, <1>9 DEF PagesAre
<1>. QED BY <1>1, <1>5, <1>8, <1>10 DEF Within, Source

\* The queue once that page is done: the other pages of the command remain.
LEMMA NextQueued ==
  ASSUME RingTypeOK, NEW g, History(g), Queued(g), pc \notin {"main", "stopped"}, NextPage, eventq' = eventq,
         cmd.op \notin {"main", "stopped"},
         NEW e, e.N = g.N, e.f = g.f + 1, e.P = g.P, e.lp = g.lp, e.st = g.st
  PROVE  Queued(e)'
<1>1. PICK c, d : c = cmd /\ d = Rest(cmd)
  OBVIOUS
<1>2. /\ c \in [op : {"none", "read", "write"}, lba : Nat, n : Nat] /\ c.n > 0
      /\ c.lba + c.n <= NumLpns * SectorsPerPage
  BY <1>1 DEF RingTypeOK
<1>3. g.N \in Nat /\ g.f \in Nat
  BY InOrder
<1>4. PICK m, q : m = NumPages(c) /\ m \in Nat \ {0} /\ q = Lpn(c) /\ q \in Int
  BY <1>2, PagesOf DEF Lpns
<1>5. cmd' = d /\ pc' = IF d.n = 0 THEN "main" ELSE c.op
  BY <1>1 DEF NextPage
<1>6. /\ d.n = 0 => m = 1
      /\ d.n # 0 => /\ Lpn(d) = q + 1 /\ NumPages(d) = m - 1
                    /\ \A l \in Int : l > q => First(d, l) = First(c, l) /\ Final(d, l) = Final(c, l)
      /\ d.op = c.op
  BY <1>1, <1>2, <1>4, NextPiece DEF Rest
<1>7. g.st[1] = g.f + m /\ PagesAre(g, c, g.f)
  BY <1>1, <1>4 DEF Queued
<1>8. /\ \A k \in 1 .. Len(eventq) + 1 : g.st[k] \in 0 .. g.N
      /\ \A k \in 1 .. Len(eventq) : g.st[k+1] = g.st[k] + NumPages(eventq[k]) /\ PagesAre(g, eventq[k], g.st[k])
      /\ g.st[Len(eventq) + 1] = g.N
  BY DEF Queued
<1>9. \A k \in 1 .. Len(eventq) : PagesAre(e, eventq[k], e.st[k])
  BY <1>8, SamePages
<1>10. ASSUME pc' = "main" PROVE e.st[1] = e.f
  <2>1. d.n = 0
    BY <1>1, <1>5, <1>10
  <2>. QED BY <1>6, <1>7, <2>1
<1>11. ASSUME pc' \notin {"main", "stopped"}
       PROVE  e.st[1] = e.f + NumPages(d) /\ PagesAre(e, d, e.f)
  <2>1. d.n # 0
    BY <1>5, <1>11
  <2>2. /\ Lpn(d) = q + 1 /\ NumPages(d) = m - 1
        /\ \A l \in Int : l > q => First(d, l) = First(c, l) /\ Final(d, l) = Final(c, l)
    BY <1>6, <2>1
  <2>3. e.st[1] = e.f + NumPages(d)
    BY <1>3, <1>4, <1>7, <2>2
  <2>4. ASSUME NEW k \in 1 .. NumPages(d)
        PROVE  LET l == Lpn(d) + k - 1
               IN  /\ g.P[g.f + 1 + k].op = d.op /\ g.lp[g.f + 1 + k] = l
                   /\ g.P[g.f + 1 + k].off = First(d, l) /\ g.P[g.f + 1 + k].n = Final(d, l) - First(d, l) + 1
    <3>1. k \in 1 .. m - 1
      BY <2>2
    <3>2. PICK j : j = k + 1 /\ j \in 1 .. m /\ g.f + 1 + k = g.f + j
      BY <1>3, <1>4, <3>1
    <3>3. PICK l : l = q + j - 1 /\ l \in Int /\ l > q /\ Lpn(d) + k - 1 = l
      BY <1>4, <2>2, <3>1, <3>2
    <3>4. /\ g.P[g.f + j].op = c.op /\ g.lp[g.f + j] = l
          /\ g.P[g.f + j].off = First(c, l) /\ g.P[g.f + j].n = Final(c, l) - First(c, l) + 1
      BY <1>4, <1>7, <3>2, <3>3 DEF PagesAre
    <3>5. First(d, l) = First(c, l) /\ Final(d, l) = Final(c, l)
      BY <2>2, <3>3
    <3>. QED BY <1>6, <3>2, <3>3, <3>4, <3>5
  <2>5. PagesAre(e, d, e.f)
    BY <2>4 DEF PagesAre
  <2>. QED BY <2>3, <2>5
<1>. QED BY <1>5, <1>8, <1>9, <1>10, <1>11, QueuedNext

\* A page that is read has no place of its own and no buffer with holes.
LEMMA PlacesAfterRead ==
  ASSUME NEW g, NEW e, Places(g), page_map' = page_map, g_target_row' = g_target_row, ~MidWrite',
         Written(e) = Written(g), e.loc = g.loc, \A l \in Lpns : e.last[e.f][l] = g.last[g.f][l]
  PROVE  Places(e)'
BY DEF Places

\* No hole is being read then.
LEMMA HolesAfterRead ==
  ASSUME NEW g, NEW e, Holes(g), OutFor("hole") = {}, pc # "right", pc' \notin {"right", "program"}, wbuf' = wbuf,
         g.f \in Nat, e.f = g.f + 1, ~Writes(g, e.f),
         e.N = g.N, e.L = g.L, e.P = g.P, e.lp = g.lp, e.w = g.w, e.val = g.val
  PROVE  Holes(e)'
<1>1. \A j : (Writes(e, j) <=> Writes(g, j)) /\ Within(e, j) = Within(g, j) /\ WBuf(e, j) = WBuf(g, j)
  BY DEF Writes, WBuf, Within
<1> SUFFICES ASSUME NEW j \in 1 .. g.N, Writes(g, j), g.L < g.w[j], j <= e.f,
                    NEW s \in Sectors \ Within(g, j), g.val[j][g.lp[j]][s] # 0
             PROVE  wbuf[WBuf(g, j)][s] = g.val[j][g.lp[j]][s]
  BY <1>1 DEF Holes
<1>2. j <= g.f
  OBVIOUS
<1>. QED BY <1>2 DEF Holes

\* The FTL has taken a page of a read: what does not depend on whether the page was ever
\* written.
LEMMA ReadPageNext ==
  ASSUME IInv, NEW g, DataOK(g), pc = "read", NextPage, ReadBufferFree, wr = None,
         g_ftl_read_buf_id' = NextRd(g_ftl_read_buf_id),
         UNCHANGED <<nand, wbuf, wr_limit, wr_done, rbuf_ptr, wbuf_ptr>>,
         UNCHANGED <<page_map, g_target_row, g_ftl_write_buf_id, new>>, UNCHANGED hostVars,
         OutFor("program")' = OutFor("program"), OutFor("hole")' = OutFor("hole"), InFlight \subseteq InFlight',
         NEW i, i = g.f + 1, NEW M, M \in Nat, g.M <= M, M <= g.r[g.f] + 1, rd_limit' = Slot(M, NumRdBuffers),
         NEW e, e = After(g, i, g.h, g.L, M, g.loc, g.st)
  PROVE  /\ Reads(g, i) /\ g.r[i] = g.r[g.f] + 1 /\ g.r[g.f] \in Nat
         /\ g.r[g.h] \in Nat /\ g.r[g.h] <= g.M /\ g.M <= g.r[g.f] /\ g.M \in Nat
         /\ RBuf(g, i) = g_ftl_read_buf_id
         /\ History(e)' /\ Sent(e)' /\ Queued(e)' /\ Counters(e)' /\ Places(e)'
         /\ Programs(e)' /\ Filled(e)' /\ Holes(e)' /\ HoleCmds(e)'
<1>1. /\ e.f = i /\ e.h = g.h /\ e.L = g.L /\ e.M = M /\ e.loc = g.loc /\ e.st = g.st /\ e.N = g.N
      /\ e.P = g.P /\ e.lp = g.lp /\ e.w = g.w /\ e.r = g.r /\ e.last = g.last /\ e.val = g.val
  BY AfterIs
<1>2. History(g) /\ Sent(g) /\ Queued(g) /\ Counters(g) /\ Places(g) /\ Programs(g) /\ Filled(g)
      /\ Holes(g) /\ HoleCmds(g) /\ ReadCmds(g) /\ Fetched(g)
  BY DEF DataOK
<1>3. /\ g.N \in Nat /\ g.f \in Nat /\ g.h \in Nat /\ g.f \in 0 .. g.N /\ g.h \in 0 .. g.N /\ g.h <= g.N
  BY <1>2, InOrder DEF History
<1>4. RingTypeOK /\ cmd.op = "read" /\ pc \notin {"main", "stopped"} /\ pc' \in {"main", "read"}
  <2>1. RingTypeOK /\ cmd.op = "read"
    BY DEF IInv, RingTypeOK
  <2>. QED BY <2>1 DEF NextPage
<1>5. /\ i \in 1 .. g.N /\ i \in 0 .. g.N /\ i - 1 = g.f /\ Reads(g, i) /\ g.lp[i] = Lpn(cmd)
  <2>1. i \in 1 .. g.N /\ i - 1 = g.f /\ g.P[i].op = cmd.op /\ g.lp[i] = Lpn(cmd)
    BY <1>2, <1>4, CmdPage
  <2>. QED BY <1>3, <1>4, <2>1 DEF Reads
<1>6. ~Writes(g, i)
  BY <1>5 DEF Reads, Writes
<1>7. /\ g.w[i] = g.w[g.f] /\ g.r[i] = g.r[g.f] + 1 /\ g.r[g.f] \in Nat /\ g.r[g.h] \in Nat /\ g.w[g.f] \in Nat /\ g.w[g.h] \in Nat
      /\ \A l \in Lpns : g.last[i][l] = g.last[g.f][l]
  <2>1. PageRec(g, i)
    BY <1>2, <1>5 DEF History
  <2>2. g.w[i] = g.w[i-1] /\ g.r[i] = g.r[i-1] + 1 /\ \A l \in Lpns : g.last[i][l] = g.last[i-1][l]
    BY <1>5, <2>1 DEF PageRec
  <2>3. g.r[g.f] \in Nat /\ g.r[g.h] \in Nat /\ g.w[g.f] \in Nat /\ g.w[g.h] \in Nat
    BY <1>2, <1>3 DEF History
  <2>. QED BY <1>5, <2>2, <2>3
<1>8. PICK n, F, H : n = NumRdBuffers /\ n \in Nat \ {0} /\ F = g.r[g.f] /\ H = g.r[g.h]
  <2>1. NumRdBuffers \in Nat \ {0}
    BY FlashAssumption
  <2>. QED BY <2>1
<1>9. /\ F \in Nat /\ H \in Nat /\ g.M \in Nat /\ H <= g.M /\ g.M <= F /\ H <= F /\ F - H < n
      /\ g_ftl_read_buf_id = F % n /\ rbuf_ptr = H % n
  <2>1. /\ g.M \in Nat /\ H <= g.M /\ g.M <= F /\ F - H < n
        /\ g_ftl_read_buf_id = F % n /\ rbuf_ptr = H % n
    BY <1>2, <1>8 DEF Counters
  <2>2. F \in Nat /\ H \in Nat
    BY <1>7, <1>8
  <2>3. H <= F
    BY <2>1, <2>2
  <2>. QED BY <2>1, <2>2, <2>3
<1>10. F + 1 - H < n /\ ((F % n) + 1) % n = (F + 1) % n
  <2>1. ((F % n) + 1) % n # H % n
    BY <1>8, <1>9 DEF ReadBufferFree, NextRd
  <2>. QED BY <1>8, <1>9, <2>1, RoomFor
<1>11. g_ftl_read_buf_id' = g.r[i] % NumRdBuffers
  BY <1>7, <1>8, <1>9, <1>10 DEF NextRd
<1>12. RBuf(g, i) = g_ftl_read_buf_id
  <2>1. g.r[i] - 1 = F
    BY <1>7, <1>8
  <2>. QED BY <1>8, <1>9, <2>1 DEF RBuf
<1>13. Counters(e)'
  <2>1. g.r[g.h] <= M /\ M <= g.r[i] /\ g.r[i] - g.r[g.h] < NumRdBuffers
    <3>1. H <= M /\ M <= F + 1
      BY <1>8, <1>9
    <3>. QED BY <1>7, <1>8, <1>10, <3>1
  <2>2. /\ g.L \in Nat /\ g.L <= g.w[i] /\ g.L <= g.w[g.h]
        /\ g.w[i] - g.L < NumWrBuffers /\ g.w[g.h] - g.L < NumWrBuffers
        /\ rbuf_ptr = g.r[g.h] % NumRdBuffers
        /\ g_ftl_write_buf_id = g.w[i] % NumWrBuffers /\ wbuf_ptr = g.w[g.h] % NumWrBuffers /\ wr_limit = g.L % NumWrBuffers
    BY <1>2, <1>7 DEF Counters
  <2>. QED BY <1>1, <1>11, <2>1, <2>2 DEF Counters, Slot
<1>14. History(e)' /\ Sent(e)' /\ Queued(e)'
  <2>1. UNCHANGED <<eventq, link, disk>>
    BY DEF hostVars
  <2>2. Queued(e)'
    BY <1>1, <1>2, <1>4, <2>1, NextQueued
  <2>. QED BY <1>1, <1>2, <1>3, <1>5, <2>1, <2>2, SameHistory, SameSent
<1>15. Written(e) = Written(g)
  <2>1. \A j : Writes(e, j) <=> Writes(g, j)
    BY <1>1 DEF Writes
  <2>2. \A j : j \in 1 .. e.f /\ Writes(g, j) <=> j \in 1 .. g.f /\ Writes(g, j)
    BY <1>1, <1>3, <1>6
  <2>. QED BY <2>1, <2>2 DEF Written
<1>16. Places(e)'
  <2>1. ~MidWrite' /\ page_map' = page_map /\ g_target_row' = g_target_row
    BY <1>4 DEF MidWrite
  <2>. QED BY <1>1, <1>2, <1>7, <1>15, <2>1, PlacesAfterRead
<1>18. Programs(e)'
  <2>1. \A j : /\ ProgCmd(e, j) = ProgCmd(g, j)
               /\ \A page : HasData(page, e, j) <=> HasData(page, g, j)
    <3>1. \A j : WBuf(e, j) = WBuf(g, j)
      BY <1>1 DEF WBuf
    <3>2. \A j : ProgCmd(e, j) = ProgCmd(g, j)
      BY <1>1, <3>1 DEF ProgCmd
    <3>3. \A j : \A page : HasData(page, e, j) <=> HasData(page, g, j)
      <4>1. e.val = g.val /\ e.lp = g.lp
        BY <1>1
      <4>. QED BY <4>1 DEF HasData
    <3>. QED BY <3>2, <3>3
  <2>2. /\ \A c \in OutFor("program") : \E j \in Written(g) : c = ProgCmd(g, j) /\ g.L < g.w[j]
        /\ \A j \in Written(g) : ProgCmd(g, j) \in InFlight \/ HasData(nand[g.loc[j].bank][g.loc[j].row], g, j)
    BY <1>2 DEF Programs
  <2>3. \A x \in Nat : g.L < x /\ x <= g.w[i] /\ (x - 1) % NumWrBuffers \in wr_done => x <= g.w[g.h]
    BY <1>2, <1>7 DEF Programs
  <2>4. wr_done' = wr_done /\ nand' = nand
    OBVIOUS
  <2>5. /\ e.L = g.L /\ e.w = g.w /\ e.f = i /\ e.h = g.h /\ e.loc = g.loc
        /\ OutFor("program")' = OutFor("program") /\ \A j : ProgCmd(g, j) \in InFlight => ProgCmd(g, j) \in InFlight'
    BY <1>1
  <2>. QED BY <1>15, <2>1, <2>2, <2>3, <2>4, <2>5 DEF Programs
<1>19. Filled(e)'
  BY <1>1, <1>2, SameFilled
<1>20. OutFor("hole") = {}
  BY <1>4 DEF IInv, HolesOfPage
<1>21. HoleCmds(e)'
  BY <1>20 DEF HoleCmds
<1>22. Holes(e)'
  <2>1. pc' \notin {"right", "program"} /\ pc # "right" /\ wbuf' = wbuf /\ e.f = g.f + 1 /\ ~Writes(g, e.f)
    BY <1>1, <1>4, <1>6
  <2>. QED BY <1>1, <1>2, <1>3, <1>20, <2>1, HolesAfterRead
<1>. QED BY <1>5, <1>7, <1>8, <1>9, <1>12, <1>13, <1>14, <1>16, <1>18, <1>19, <1>21, <1>22

\* ftl_read of a page that has been written.
LEMMA ReadMappedPageData ==
  ASSUME IInv, DataTypeOK, NEW g, DataOK(g), ReadMappedPage
  PROVE  DataTypeOK' /\ \E e : DataOK(e)'
<1>1. PICK i, e, p, c : /\ i = g.f + 1 /\ e = After(g, i, g.h, g.L, g.M, g.loc, g.st) /\ p = page_map[Lpn(cmd)]
                        /\ c = Command("read", p.bank, p.row, Offset(cmd), PieceLen(cmd), g_ftl_read_buf_id)
  OBVIOUS
<1>2. /\ e.f = i /\ e.h = g.h /\ e.L = g.L /\ e.M = g.M /\ e.loc = g.loc /\ e.st = g.st /\ e.N = g.N
      /\ e.P = g.P /\ e.lp = g.lp /\ e.w = g.w /\ e.r = g.r /\ e.last = g.last /\ e.val = g.val
  BY <1>1, AfterIs
<1>3. /\ pc = "read" /\ p # NULL /\ ReadBufferFree /\ wr = None /\ wr' = c /\ bank' = bank /\ NextPage
      /\ g_ftl_read_buf_id' = NextRd(g_ftl_read_buf_id)
      /\ UNCHANGED <<nand, rbuf, wbuf, rd_limit, rd_done, wr_limit, wr_done, rbuf_ptr, wbuf_ptr>>
      /\ UNCHANGED <<page_map, g_target_row, g_ftl_write_buf_id, new>> /\ UNCHANGED hostVars
  BY <1>1 DEF ReadMappedPage, flash_issue_cmd
<1>4. History(g) /\ Sent(g) /\ Queued(g) /\ Counters(g) /\ Places(g) /\ Programs(g) /\ Filled(g)
      /\ Holes(g) /\ HoleCmds(g) /\ ReadCmds(g) /\ Fetched(g)
  BY DEF DataOK
<1>5. g.N \in Nat /\ g.f \in Nat /\ g.h \in Nat
  BY <1>4, InOrder
<1>6. /\ i \in 1 .. g.N /\ g.P[i].off = Offset(cmd) /\ g.P[i].n = PieceLen(cmd)
      /\ Source(g, i) = g.last[g.f][Lpn(cmd)] /\ Lpn(cmd) \in Lpns
  BY <1>1, <1>3, <1>4, CmdPage DEF IInv
<1>7. Source(g, i) # 0 /\ p = g.loc[Source(g, i)]
  BY <1>1, <1>3, <1>4, <1>6 DEF Places
<1>8. c.op = "read" /\ c # None
  <2>1. c.op = "read"
    BY <1>1 DEF Command
  <2>2. Source(g, i) \in Written(g)
    <3>1. Source(g, i) \in 0 .. i - 1 /\ Source(g, i) \in 1 .. g.N /\ Writes(g, Source(g, i))
      BY <1>4, <1>6, <1>7, SourceIs
    <3>2. Source(g, i) \in 1 .. g.f
      BY <1>1, <1>5, <3>1
    <3>. QED BY <3>1, <3>2 DEF Written
  <2>3. p \in [bank : Banks, row : Rows]
    BY <1>4, <1>7, <2>2 DEF Places
  <2>4. /\ cmd \in [op : {"none", "read", "write"}, lba : Nat, n : Nat] /\ cmd.n > 0
        /\ cmd.lba + cmd.n <= NumLpns * SectorsPerPage /\ g_ftl_read_buf_id \in 0 .. NumRdBuffers - 1
    BY <1>3 DEF IInv, RingTypeOK, ReadRing, Ring
  <2>5. Offset(cmd) \in Sectors /\ PieceLen(cmd) \in 1 .. cmd.n
    BY <2>4, PieceOf
  <2>6. Offset(cmd) \in Nat /\ PieceLen(cmd) \in Nat /\ g_ftl_read_buf_id \in Nat
    BY <2>4, <2>5, FlashAssumption DEF Sectors
  <2>7. c \in Commands
    BY <1>1, <2>3, <2>6, FlashAssumption DEF Command, Commands, Rows
  <2>. QED BY <2>1, <2>7, NoneAssumption
<1>9. InFlight' = InFlight \union {c}
  BY <1>3, <1>8 DEF InFlight
<1>10. /\ OutFor("program")' = OutFor("program") /\ OutFor("hole")' = OutFor("hole")
       /\ OutFor("read")' = OutFor("read") \union {c}
  BY <1>8, <1>9 DEF OutFor
<1>11. /\ Reads(g, i) /\ g.r[i] = g.r[g.f] + 1 /\ g.r[g.f] \in Nat /\ g.M <= g.r[g.f] /\ g.M \in Nat
       /\ RBuf(g, i) = g_ftl_read_buf_id
       /\ History(e)' /\ Sent(e)' /\ Queued(e)' /\ Counters(e)' /\ Places(e)'
       /\ Programs(e)' /\ Filled(e)' /\ Holes(e)' /\ HoleCmds(e)'
  <2>1. g.M \in Nat /\ g.M <= g.M /\ g.M <= g.r[g.f] + 1 /\ rd_limit' = Slot(g.M, NumRdBuffers)
    <3>1. g.r[g.f] \in Nat
      BY <1>4 DEF History
    <3>. QED BY <1>3, <1>4, <3>1 DEF Counters, Slot
  <2>. QED BY <1>1, <1>3, <1>9, <1>10, <2>1, ReadPageNext
<1>12. c = ReadCmd(g, i)
  BY <1>1, <1>6, <1>7, <1>11 DEF ReadCmd
<1>13. \A j : /\ (Reads(e, j) <=> Reads(g, j)) /\ Within(e, j) = Within(g, j) /\ RBuf(e, j) = RBuf(g, j)
              /\ Source(e, j) = Source(g, j) /\ ReadCmd(e, j) = ReadCmd(g, j) /\ ProgCmd(e, j) = ProgCmd(g, j)
              /\ ProgCmd(g, j).op = "program"
  BY <1>2 DEF Reads, Within, RBuf, Source, ReadCmd, ProgCmd, WBuf, Command
<1>14. ReadCmds(e)'
  <2> SUFFICES ASSUME NEW d \in OutFor("read") \union {c}
               PROVE  \E j \in 1 .. i : /\ Reads(g, j) /\ g.M < g.r[j] /\ d = ReadCmd(g, j)
                                        /\ Source(g, j) # 0 /\ ProgCmd(g, Source(g, j)) # c
    BY <1>2, <1>3, <1>10, <1>13 DEF ReadCmds
  <2>1. CASE d = c
    <3>1. i \in 1 .. i /\ g.M < g.r[i]
      BY <1>6, <1>11
    <3>. QED BY <1>7, <1>8, <1>11, <1>12, <1>13, <2>1, <3>1
  <2>2. CASE d \in OutFor("read")
    <3>1. PICK j \in 1 .. g.f : /\ Reads(g, j) /\ g.M < g.r[j] /\ d = ReadCmd(g, j) /\ Source(g, j) # 0
      BY <1>4, <2>2 DEF ReadCmds
    <3>2. j \in 1 .. i
      BY <1>1, <1>5
    <3>. QED BY <1>8, <1>13, <3>1, <3>2
  <2>. QED BY <2>1, <2>2
<1>15. Fetched(e)'
  <2> SUFFICES ASSUME NEW j \in g.h + 1 .. i, Reads(g, j)
               PROVE  \/ Source(g, j) # 0 /\ ReadCmd(g, j) \in InFlight'
                      \/ \A s \in Within(g, j) : g.P[j].exp[s] # Stale => rbuf[RBuf(g, j)][s] = g.P[j].exp[s]
    BY <1>2, <1>3, <1>13 DEF Fetched
  <2>1. CASE j = i
    BY <1>7, <1>9, <1>12, <2>1
  <2>2. CASE j # i
    <3>1. j \in g.h + 1 .. g.f
      BY <1>1, <1>5, <2>2
    <3>. QED BY <1>4, <1>9, <3>1 DEF Fetched
  <2>. QED BY <2>1, <2>2
<1>16. DataTypeOK'
  BY <1>3 DEF DataTypeOK, hostVars
<1>17. DataOK(e)'
  BY <1>11, <1>14, <1>15 DEF DataOK
<1>. QED BY <1>16, <1>17

\* ftl_read of a page that has never been written.
LEMMA ReadUnmappedPageData ==
  ASSUME IInv, DataTypeOK, NEW g, DataOK(g), ReadUnmappedPage
  PROVE  DataTypeOK' /\ \E e : DataOK(e)'
<1>1. PICK i, e, F, n : /\ i = g.f + 1 /\ F = g.r[g.f] /\ e = After(g, i, g.h, g.L, F + 1, g.loc, g.st)
                        /\ n = NumRdBuffers
  OBVIOUS
<1>2. /\ e.f = i /\ e.h = g.h /\ e.L = g.L /\ e.M = F + 1 /\ e.loc = g.loc /\ e.st = g.st /\ e.N = g.N
      /\ e.P = g.P /\ e.lp = g.lp /\ e.w = g.w /\ e.r = g.r /\ e.last = g.last /\ e.val = g.val
  BY <1>1, AfterIs
<1>3. /\ pc = "read" /\ page_map[Lpn(cmd)] = NULL /\ ReadBufferFree /\ wr = None /\ NextPage
      /\ \A b \in Banks : bank[b] = None
      /\ rbuf' = [rbuf EXCEPT ![g_ftl_read_buf_id] =
           [s \in Sectors |-> IF s \in Offset(cmd) .. Offset(cmd) + PieceLen(cmd) - 1 THEN Erased ELSE @[s]]]
      /\ rd_limit' = NextRd(g_ftl_read_buf_id) /\ g_ftl_read_buf_id' = NextRd(g_ftl_read_buf_id)
      /\ UNCHANGED <<wr, bank, nand, wbuf, wr_limit, wr_done, rbuf_ptr, wbuf_ptr>>
      /\ UNCHANGED <<page_map, g_target_row, g_ftl_write_buf_id, new>> /\ UNCHANGED hostVars
  BY DEF ReadUnmappedPage, flash_finish, SetReadLimit
<1>4. History(g) /\ Sent(g) /\ Queued(g) /\ Counters(g) /\ Places(g) /\ Programs(g) /\ Filled(g)
      /\ Holes(g) /\ HoleCmds(g) /\ ReadCmds(g) /\ Fetched(g)
  BY DEF DataOK
<1>5. g.N \in Nat /\ g.f \in Nat /\ g.h \in Nat /\ g.h <= g.N /\ g.h \in 0 .. g.N /\ g.f \in 0 .. g.N
  BY <1>4, InOrder DEF History
<1>6. /\ i \in 1 .. g.N /\ g.lp[i] = Lpn(cmd) /\ Within(g, i) = Offset(cmd) .. Offset(cmd) + PieceLen(cmd) - 1
      /\ Source(g, i) = g.last[g.f][Lpn(cmd)] /\ Lpn(cmd) \in Lpns
  BY <1>1, <1>3, <1>4, CmdPage DEF IInv
<1>7. Source(g, i) = 0
  <2>1. ASSUME Source(g, i) # 0 PROVE FALSE
    <3>1. Source(g, i) \in Written(g)
      <4>1. Source(g, i) \in 0 .. i - 1 /\ Source(g, i) \in 1 .. g.N /\ Writes(g, Source(g, i))
        BY <1>4, <1>6, <2>1, SourceIs
      <4>2. Source(g, i) \in 1 .. g.f
        BY <1>1, <1>5, <4>1
      <4>. QED BY <4>1, <4>2 DEF Written
    <3>2. g.loc[Source(g, i)] \in [bank : Banks, row : Nat]
      BY <1>4, <3>1, FlashAssumption DEF Places, Rows
    <3>3. page_map[Lpn(cmd)] = g.loc[Source(g, i)]
      BY <1>4, <1>6, <2>1 DEF Places
    <3>. QED BY <1>3, <3>2, <3>3, TutorialAssumption
  <2>. QED BY <2>1
<1>8. InFlight = {} /\ InFlight' = {}
  BY <1>3 DEF InFlight
<1>9. \A op : OutFor(op) = {} /\ OutFor(op)' = {}
  BY <1>8 DEF OutFor
<1>10. n \in Nat \ {0} /\ F \in Nat /\ g.M \in Nat /\ g.M <= F /\ rd_limit' = Slot(F + 1, n)
  <2>1. n \in Nat \ {0}
    BY <1>1, FlashAssumption
  <2>2. /\ g.M \in Nat /\ g.M <= F /\ F \in Nat /\ g_ftl_read_buf_id = F % n
    BY <1>1, <1>4, <1>5 DEF Counters, History
  <2>3. 1 \in 0 .. n
    BY <2>1
  <2>4. ((F % n) + 1) % n = (F + 1) % n
    BY <2>1, <2>2, <2>3, CursorAt
  <2>. QED BY <1>1, <1>3, <2>1, <2>2, <2>4 DEF Slot, NextRd
<1>11. /\ Reads(g, i) /\ g.r[i] = F + 1 /\ g.r[g.h] \in Nat /\ g.r[g.h] <= g.M
       /\ RBuf(g, i) = g_ftl_read_buf_id
       /\ History(e)' /\ Sent(e)' /\ Queued(e)' /\ Counters(e)' /\ Places(e)'
       /\ Programs(e)' /\ Filled(e)' /\ Holes(e)' /\ HoleCmds(e)'
  <2>1. F + 1 \in Nat /\ g.M <= F + 1 /\ F + 1 <= g.r[g.f] + 1 /\ rd_limit' = Slot(F + 1, NumRdBuffers)
    BY <1>1, <1>10
  <2>2. OutFor("program")' = OutFor("program") /\ OutFor("hole")' = OutFor("hole") /\ InFlight \subseteq InFlight'
    BY <1>8, <1>9
  <2>. QED BY <1>1, <1>3, <2>1, <2>2, ReadPageNext
<1>12. \A j : /\ (Reads(e, j) <=> Reads(g, j)) /\ Within(e, j) = Within(g, j) /\ RBuf(e, j) = RBuf(g, j)
              /\ Source(e, j) = Source(g, j) /\ ReadCmd(e, j) = ReadCmd(g, j)
  BY <1>2 DEF Reads, Within, RBuf, Source, ReadCmd
<1>13. ReadCmds(e)'
  BY <1>9 DEF ReadCmds
<1>14. g_ftl_read_buf_id \in 0 .. n - 1
  BY <1>1 DEF IInv, ReadRing, Ring
<1>15. \A s \in Sectors, x \in 0 .. n - 1 :
         rbuf'[x][s] = IF x = RBuf(g, i) /\ s \in Within(g, i) THEN Erased ELSE rbuf[x][s]
  BY <1>1, <1>3, <1>6, <1>11, <1>14 DEF DataTypeOK
<1>16. DataTypeOK'
  <2>1. Erased \in Vals
    BY DEF Vals
  <2>2. rbuf' \in [0 .. NumRdBuffers - 1 -> [Sectors -> Vals]]
    BY <1>1, <1>3, <1>14, <2>1 DEF DataTypeOK
  <2>3. UNCHANGED <<nand, wbuf, disk, writes, link>>
    BY <1>3 DEF hostVars
  <2>. QED BY <2>2, <2>3 DEF DataTypeOK
<1>17. Fetched(e)'
  <2> SUFFICES ASSUME NEW j \in g.h + 1 .. i, Reads(g, j)
               PROVE  \A s \in Within(g, j) : g.P[j].exp[s] # Stale => rbuf'[RBuf(g, j)][s] = g.P[j].exp[s]
    BY <1>2, <1>12 DEF Fetched
  <2>1. j \in 1 .. g.N /\ j <= g.f + 1 /\ i <= g.f + 1
    BY <1>1, <1>5, <1>6
  <2>2. \A s \in Within(g, j) : s \in Sectors
    <3>1. g.P[j].off \in Nat /\ g.P[j].n \in Nat /\ g.P[j].off + g.P[j].n <= SectorsPerPage
      BY <1>4, <2>1 DEF History, PageRec
    <3>. QED BY <3>1, FlashAssumption DEF Within, Sectors
  <2>3. RBuf(g, j) \in 0 .. n - 1
    BY <1>1, <1>4, <2>1, OwnBuffers
  <2>4. CASE j = i
    <3>1. \A s \in Sectors : g.P[i].exp[s] = Erased
      BY <1>4, <1>6, <1>7, <1>11, ExpIs
    <3>. QED BY <1>15, <2>2, <2>3, <2>4, <3>1
  <2>5. CASE j # i
    <3>1. j \in g.h + 1 .. g.f
      BY <1>1, <1>5, <2>1, <2>5
    <3>2. \A s \in Within(g, j) : g.P[j].exp[s] # Stale => rbuf[RBuf(g, j)][s] = g.P[j].exp[s]
      BY <1>4, <1>8, <3>1 DEF Fetched
    <3>3. g.r[g.h] < g.r[j]
      <4>1. ~(j <= g.h)
        BY <1>5, <3>1
      <4>2. ~(g.r[j] <= g.r[g.h]) /\ g.r[j] \in Nat
        BY <1>4, <1>5, <2>1, <4>1, InOrder
      <4>. QED BY <1>11, <4>2
    <3>4. g.r[g.h] < g.r[i]
      BY <1>10, <1>11
    <3>5. RBuf(g, j) # RBuf(g, i)
      BY <1>4, <1>6, <1>11, <2>1, <2>5, <3>3, <3>4, OwnBuffers
    <3>. QED BY <1>15, <2>2, <2>3, <3>2, <3>5
  <2>. QED BY <2>4, <2>5
<1>18. DataOK(e)'
  BY <1>11, <1>13, <1>17 DEF DataOK
<1>. QED BY <1>16, <1>18

\* get_free_page gives a row that was not given before, and one of the bank.
LEMMA FreePageNew ==
  ASSUME RingTypeOK, NEW b \in Banks, FreeBlk(b) < VblksPerBank
  PROVE  get_free_page(b) \in Rows /\ g_target_row[b] <= get_free_page(b)
<1>1. PICK P, V, row, F : /\ P = PagesPerVblk /\ V = VblksPerBank /\ row = g_target_row[b] /\ F = FreeBlk(b)
  OBVIOUS
<1>2. PICK R : R = RowsPerBank /\ R \in Nat
  BY FlashAssumption
<1>3. P \in Nat \ {0} /\ V \in Nat \ {0} /\ V * P \in Nat /\ row \in Nat
  <2>1. P \in Nat \ {0} /\ V \in Nat \ {0} /\ V * P \in Nat
    BY <1>1, TutorialAssumption
  <2>2. row \in Nat
    BY <1>1, <2>1 DEF RingTypeOK
  <2>. QED BY <2>1, <2>2
<1>4. PICK q, r : q = row \div P /\ r = row % P /\ q \in Int /\ r \in 0 .. P - 1 /\ row = P * q + r
  <2>1. row \in Int
    BY <1>3
  <2>2. row \div P \in Int /\ row % P \in 0 .. P - 1 /\ row = P * (row \div P) + (row % P)
    BY <1>3, <2>1, SplitIs
  <2>. QED BY <2>2
<1>5. F \in Nat /\ q <= F
  BY <1>1, <1>4, FreeBlkNat
<1>6. get_free_page(b) = F * P + r
  BY <1>1, <1>4 DEF get_free_page
<1>7. row <= F * P + r
  <2>1. P * q <= P * F
    BY <1>3, <1>4, <1>5
  <2>2. P * F = F * P /\ P * q \in Int /\ F * P \in Int
    BY <1>3, <1>4, <1>5
  <2>. QED BY <1>4, <2>1, <2>2
<1>8. V * P <= R
  <2>1. V = R \div P
    BY <1>1, <1>2 DEF VblksPerBank
  <2>2. R % P \in 0 .. P - 1 /\ R = P * (R \div P) + (R % P)
    BY <1>2, <1>3, SplitIs
  <2>3. R = P * V + (R % P) /\ P * V = V * P
    BY <1>3, <2>1, <2>2
  <2>. QED BY <1>2, <1>3, <2>2, <2>3
<1>9. get_free_page(b) \in Nat /\ get_free_page(b) + 1 <= V * P
  BY <1>1, FreePageIn
<1>. QED BY <1>1, <1>2, <1>3, <1>6, <1>7, <1>8, <1>9 DEF Rows

\* ftl_write takes a page that none of the earlier writes has, or stops.
LEMMA WriteStartData ==
  ASSUME IInv, DataTypeOK, NEW g, DataOK(g), WriteStart
  PROVE  DataTypeOK' /\ \E e : DataOK(e)'
<1>1. /\ UNCHANGED <<wr, bank, nand, rbuf, wbuf, rd_limit, rd_done, wr_limit, wr_done, rbuf_ptr, wbuf_ptr>>
      /\ UNCHANGED <<page_map, g_ftl_read_buf_id, g_ftl_write_buf_id, cmd>>
      /\ UNCHANGED <<eventq, link, disk, writes>> /\ pc = "write"
  BY DEF WriteStart, ctrlVars, hostVars
<1>2. InFlight' = InFlight /\ \A op : OutFor(op)' = OutFor(op)
  BY <1>1 DEF InFlight, OutFor
<1>3. History(g) /\ Sent(g) /\ Queued(g) /\ Counters(g) /\ Places(g) /\ Programs(g) /\ Filled(g)
      /\ Holes(g) /\ HoleCmds(g) /\ ReadCmds(g) /\ Fetched(g)
  BY DEF DataOK
<1>4. PICK i, t : i = g.f + 1 /\ t = g_target_bank /\ t \in Banks
  BY DEF IInv, RingTypeOK
<1>5. \/ pc' = "stopped" /\ UNCHANGED <<g_target_row, new>>
      \/ /\ FreeBlk(t) < VblksPerBank
         /\ new' = [bank |-> t, row |-> get_free_page(t)]
         /\ g_target_row' = [g_target_row EXCEPT ![t] = get_free_page(t) + 1]
         /\ pc' = IF ~HasHoles THEN "program" ELSE IF LeftHole # 0 THEN "left" ELSE "right"
  <2>1. FreeBlk(t) \in Nat /\ VblksPerBank \in Nat
    BY <1>4, FreeBlkNat, TutorialAssumption DEF IInv
  <2>2. CASE FreeBlk(t) >= VblksPerBank
    BY <1>4, <2>2 DEF WriteStart
  <2>3. CASE ~(FreeBlk(t) >= VblksPerBank)
    BY <1>4, <2>1, <2>3 DEF WriteStart
  <2>. QED BY <2>2, <2>3
<1>6. /\ g.N \in Nat /\ g.f \in Nat /\ g.h \in Nat /\ g.h \in 0 .. g.N /\ g.f \in 0 .. g.N /\ g.f <= g.N
      /\ g.h <= g.h /\ g.w[g.h] \in Nat /\ g.w[g.h] <= g.w[g.h]
  <2>1. /\ g.N \in Nat /\ g.f \in Nat /\ g.h \in Nat /\ g.h \in 0 .. g.N /\ g.f \in 0 .. g.N /\ g.f <= g.N
    BY <1>3, InOrder DEF History
  <2>2. g.w[g.h] \in Nat
    BY <1>3, <2>1 DEF History
  <2>. QED BY <2>1, <2>2
<1>7. /\ i \in 1 .. g.N /\ g.P[i].off = Offset(cmd) /\ g.P[i].n = PieceLen(cmd)
      /\ Within(g, i) = Offset(cmd) .. Offset(cmd) + PieceLen(cmd) - 1
      /\ Source(g, i) = g.last[g.f][Lpn(cmd)] /\ Lpn(cmd) \in Lpns /\ g.lp[i] = Lpn(cmd)
  BY <1>1, <1>3, <1>4, CmdPage DEF IInv
<1>8. DataTypeOK'
  BY <1>1 DEF DataTypeOK
<1>9. pc' \in {"stopped", "left", "right", "program"}
  BY <1>5
<1>10. History(g)' /\ Sent(g)' /\ Queued(g)' /\ Counters(g)'
  BY <1>1, <1>3, <1>6, <1>9, SameHistory, SameSent, SameQueued, SameCounters
<1>11. Programs(g)' /\ Filled(g)' /\ HoleCmds(g)' /\ ReadCmds(g)' /\ Fetched(g)'
  BY <1>1, <1>2, <1>3, <1>6, SamePrograms, SameFilled, SameHoleCmds, SameReadCmds, SameFetched
<1>12. Places(g)'
  <2>1. CASE pc' = "stopped" /\ UNCHANGED <<g_target_row, new>>
    BY <1>1, <1>3, <2>1, SamePlaces DEF MidWrite
  <2>2. CASE /\ FreeBlk(t) < VblksPerBank
             /\ new' = [bank |-> t, row |-> get_free_page(t)]
             /\ g_target_row' = [g_target_row EXCEPT ![t] = get_free_page(t) + 1]
    <3>1. PICK p : p = get_free_page(t) /\ p \in Rows /\ p \in Nat /\ g_target_row[t] <= p
      <4>1. get_free_page(t) \in Rows /\ g_target_row[t] <= get_free_page(t)
        BY <1>4, <2>2, FreePageNew DEF IInv
      <4>. QED BY <4>1, FlashAssumption DEF Rows
    <3>2. \A b \in Banks : g_target_row[b] \in Nat
      <4>1. VblksPerBank * PagesPerVblk \in Nat
        BY TutorialAssumption
      <4>. QED BY <4>1 DEF IInv, RingTypeOK
    <3>3. \A b \in Banks : g_target_row'[b] = IF b = t THEN p + 1 ELSE g_target_row[b]
      BY <2>2, <3>1 DEF IInv, RingTypeOK
    <3>4. new' = [bank |-> t, row |-> p]
      BY <2>2, <3>1
    <3>5. new' \in [bank : Banks, row : Rows] /\ new'.row < g_target_row'[new'.bank]
      BY <1>4, <3>1, <3>3, <3>4
    <3>6. ASSUME NEW j \in Written(g)
          PROVE  /\ g.loc[j] \in [bank : Banks, row : Rows] /\ g.loc[j].row < g_target_row'[g.loc[j].bank]
                 /\ g.loc[j] # new'
      <4>1. g.loc[j] \in [bank : Banks, row : Rows] /\ g.loc[j].row < g_target_row[g.loc[j].bank]
        BY <1>3 DEF Places
      <4>2. PICK b, x : b = g.loc[j].bank /\ x = g.loc[j].row /\ b \in Banks /\ x \in Nat /\ x < g_target_row[b]
        BY <4>1, FlashAssumption DEF Rows
      <4>3. x < g_target_row'[b] /\ ~(b = t /\ x = p)
        BY <3>1, <3>2, <3>3, <4>2
      <4>. QED BY <3>4, <4>1, <4>2, <4>3
    <3>7. /\ \A j, k \in Written(g) : g.loc[j] = g.loc[k] => j = k
          /\ \A l \in Lpns : page_map[l] = IF g.last[g.f][l] = 0 THEN NULL ELSE g.loc[g.last[g.f][l]]
      BY <1>3 DEF Places
    <3>8. page_map' = page_map
      BY <1>1
    <3>. QED BY <3>5, <3>6, <3>7, <3>8 DEF Places
  <2>. QED BY <1>5, <2>1, <2>2
<1>13. ASSUME pc' \in {"right", "program"}, Writes(g, i), NEW s \in Sectors \ Within(g, i), g.val[i][g.lp[i]][s] # 0
       PROVE  pc' = "right" /\ s >= g.P[i].off + g.P[i].n
  <2>1. /\ Offset(cmd) \in Nat /\ PieceLen(cmd) \in Nat /\ s \in 0 .. SectorsPerPage - 1 /\ SectorsPerPage \in Nat
        /\ Offset(cmd) + PieceLen(cmd) <= SectorsPerPage
    <3>1. /\ cmd \in [op : {"none", "read", "write"}, lba : Nat, n : Nat] /\ cmd.n > 0
          /\ cmd.lba + cmd.n <= NumLpns * SectorsPerPage
      BY <1>1 DEF IInv, RingTypeOK
    <3>2. Offset(cmd) \in Sectors /\ PieceLen(cmd) \in 1 .. cmd.n /\ Offset(cmd) + PieceLen(cmd) <= SectorsPerPage
      BY <3>1, PieceOf
    <3>. QED BY <3>1, <3>2, FlashAssumption DEF Sectors
  <2>2. HasHoles
    <3>1. Old # NULL
      <4>1. Source(g, i) # 0
        <5>1. s \in Sectors /\ s \notin Within(g, i) /\ Writes(g, i) /\ i \in 1 .. g.N /\ History(g)
          BY <1>3, <1>7, <1>13
        <5>2. Source(g, i) = 0 => g.val[i][g.lp[i]][s] = 0
          BY <5>1, OldSectors
        <5>. QED BY <1>13, <5>2
      <4>2. Source(g, i) \in Written(g)
        <5>1. Source(g, i) \in 0 .. i - 1 /\ Source(g, i) \in 1 .. g.N /\ Writes(g, Source(g, i))
          BY <1>3, <1>7, <4>1, SourceIs
        <5>2. Source(g, i) \in 1 .. g.f
          BY <1>4, <1>6, <5>1
        <5>. QED BY <5>1, <5>2 DEF Written
      <4>3. g.loc[Source(g, i)] \in [bank : Banks, row : Nat]
        BY <1>3, <4>2, FlashAssumption DEF Places, Rows
      <4>4. Old = g.loc[Source(g, i)]
        BY <1>3, <1>7, <4>1 DEF Places, Old
      <4>. QED BY <4>3, <4>4, TutorialAssumption
    <3>2. LeftHole + RightHole > 0
      <4>1. PICK o, k, S : o = Offset(cmd) /\ k = PieceLen(cmd) /\ S = SectorsPerPage
        OBVIOUS
      <4>2. o \in Nat /\ k \in Nat /\ s \in 0 .. S - 1 /\ S \in Nat /\ o + k <= S /\ s \notin o .. o + k - 1
        BY <1>7, <1>13, <2>1, <4>1
      <4>3. o + (S - o - k) > 0
        BY <4>2
      <4>. QED BY <4>1, <4>3 DEF LeftHole, RightHole
    <3>. QED BY <3>1, <3>2 DEF HasHoles
  <2>3. pc' = "right" /\ LeftHole = 0
    BY <1>5, <1>13, <2>2
  <2>. QED BY <1>7, <1>13, <2>1, <2>3 DEF LeftHole
<1>14. Holes(g)'
  <2> SUFFICES ASSUME NEW j \in 1 .. g.N, Writes(g, j), g.L < g.w[j],
                      j <= g.f \/ (j = g.f + 1 /\ pc' \in {"right", "program"}),
                      NEW s \in Sectors \ Within(g, j), g.val[j][g.lp[j]][s] # 0
               PROVE  \/ wbuf[WBuf(g, j)][s] = g.val[j][g.lp[j]][s]
                      \/ \E d \in OutFor("hole") : d.buf = WBuf(g, j) /\ s \in SectorsOf(d)
                      \/ j = g.f + 1 /\ pc' = "right" /\ s >= g.P[j].off + g.P[j].n
    BY <1>1, <1>2 DEF Holes, SectorsOf
  <2>1. CASE j <= g.f
    <3>1. j # g.f + 1
      BY <1>6, <2>1
    <3>. QED BY <1>3, <2>1, <3>1 DEF Holes
  <2>2. CASE j = g.f + 1 /\ pc' \in {"right", "program"}
    BY <1>4, <1>13, <2>2
  <2>. QED BY <2>1, <2>2
<1>15. DataOK(g)'
  BY <1>10, <1>11, <1>12, <1>14 DEF DataOK
<1>. QED BY <1>8, <1>15

\* The page that ftl_write works on, its buffer and the page that holds its old sectors.
LEMMA WritePageIs ==
  ASSUME IInv, NEW g, DataOK(g), pc \in {"write", "left", "right", "program"}, NEW i, i = g.f + 1
  PROVE  /\ i \in 1 .. g.N /\ i - 1 = g.f /\ Writes(g, i) /\ ~Reads(g, i)
         /\ g.w[i] = g.w[g.f] + 1 /\ g.r[i] = g.r[g.f] /\ g.w[g.f] \in Nat /\ g.r[g.f] \in Nat
         /\ \A l \in Lpns : g.last[i][l] = IF l = g.lp[i] THEN i ELSE g.last[g.f][l]
         /\ g.lp[i] = Lpn(cmd) /\ g.P[i].off = Offset(cmd) /\ g.P[i].n = PieceLen(cmd)
         /\ WBuf(g, i) = g_ftl_write_buf_id
         /\ IF Source(g, i) = 0 THEN Old = NULL
            ELSE /\ Old # NULL /\ Old = g.loc[Source(g, i)] /\ Old \in [bank : Banks, row : Rows]
                 /\ Source(g, i) \in Written(g) /\ Source(g, i) <= g.f /\ Source(g, i) # i
<1>1. History(g) /\ Queued(g) /\ Counters(g) /\ Places(g)
  BY DEF DataOK
<1>2. RingTypeOK /\ cmd.op = "write" /\ pc \notin {"main", "stopped"}
  BY DEF IInv, RingTypeOK
<1>3. g.N \in Nat /\ g.f \in Nat
  BY <1>1, InOrder
<1>4. /\ i \in 1 .. g.N /\ i - 1 = g.f /\ g.P[i].op = cmd.op /\ g.lp[i] = Lpn(cmd) /\ Lpn(cmd) \in Lpns
      /\ g.P[i].off = Offset(cmd) /\ g.P[i].n = PieceLen(cmd) /\ Source(g, i) = g.last[g.f][Lpn(cmd)]
  BY <1>1, <1>2, CmdPage
<1>5. Writes(g, i) /\ ~Reads(g, i)
  BY <1>2, <1>4 DEF Writes, Reads
<1>6. /\ g.w[i] = g.w[g.f] + 1 /\ g.r[i] = g.r[g.f] /\ g.w[g.f] \in Nat /\ g.r[g.f] \in Nat
      /\ \A l \in Lpns : g.last[i][l] = IF l = g.lp[i] THEN i ELSE g.last[g.f][l]
  <2>1. PageRec(g, i)
    BY <1>1, <1>4 DEF History
  <2>2. /\ g.w[i] = g.w[i-1] + 1 /\ g.r[i] = g.r[i-1]
        /\ \A l \in Lpns : g.last[i][l] = IF l = g.lp[i] THEN i ELSE g.last[i-1][l]
    BY <1>5, <2>1 DEF PageRec
  <2>3. g.f \in 0 .. g.N
    BY <1>1 DEF History
  <2>4. g.w[g.f] \in Nat /\ g.r[g.f] \in Nat
    BY <1>1, <2>3 DEF History
  <2>. QED BY <1>4, <2>2, <2>4
<1>7. WBuf(g, i) = g_ftl_write_buf_id
  <2>1. g.w[i] - 1 = g.w[g.f]
    BY <1>6
  <2>. QED BY <1>1, <2>1 DEF WBuf, Counters
<1>8. Old = IF Source(g, i) = 0 THEN NULL ELSE g.loc[Source(g, i)]
  BY <1>1, <1>4 DEF Places, Old
<1>9. ASSUME Source(g, i) # 0
      PROVE  /\ Old # NULL /\ Old \in [bank : Banks, row : Rows]
             /\ Source(g, i) \in Written(g) /\ Source(g, i) <= g.f /\ Source(g, i) # i
  <2>1. Source(g, i) \in 0 .. i - 1 /\ Source(g, i) \in 1 .. g.N /\ Writes(g, Source(g, i))
    BY <1>1, <1>4, <1>9, SourceIs
  <2>2. Source(g, i) \in 1 .. g.f /\ Source(g, i) <= g.f /\ Source(g, i) # i
    BY <1>3, <2>1
  <2>3. Source(g, i) \in Written(g)
    BY <2>1, <2>2 DEF Written
  <2>4. Old \in [bank : Banks, row : Rows]
    BY <1>1, <1>8, <1>9, <2>3 DEF Places
  <2>5. Old \in [bank : Banks, row : Nat]
    BY <2>4, FlashAssumption DEF Rows
  <2>. QED BY <2>2, <2>3, <2>4, <2>5, TutorialAssumption
<1>. QED BY <1>4, <1>5, <1>6, <1>7, <1>8, <1>9

\* A command of read_old_data: it reads o .. o + n - 1 beside the sectors of the page.
LEMMA HoleData ==
  ASSUME IInv, DataTypeOK, NEW g, DataOK(g), pc \in {"left", "right"}, pc' \in {"right", "program"},
         NEW o \in Nat, NEW n \in Nat,
         flash_issue_cmd(Command("hole", Old.bank, Old.row, o, n, g_ftl_write_buf_id)),
         UNCHANGED <<bank, nand, rbuf, wbuf, rd_limit, rd_done, wr_limit, wr_done, rbuf_ptr, wbuf_ptr>>,
         UNCHANGED <<page_map, g_target_row, g_ftl_read_buf_id, g_ftl_write_buf_id, cmd, new>>,
         UNCHANGED <<eventq, link, disk, writes>>,
         NEW W, W = Offset(cmd) .. Offset(cmd) + PieceLen(cmd) - 1, (o .. o + n - 1) \cap W = {},
         \A s \in Sectors \ W : \/ s \in o .. o + n - 1
                                \/ pc = "right" /\ ~(s >= Offset(cmd) + PieceLen(cmd))
                                \/ pc' = "right" /\ s >= Offset(cmd) + PieceLen(cmd)
  PROVE  DataTypeOK' /\ \E e : DataOK(e)'
<1>1. PICK c, i, q : /\ c = Command("hole", Old.bank, Old.row, o, n, g_ftl_write_buf_id)
                     /\ i = g.f + 1 /\ q = Source(g, i)
  OBVIOUS
<1>2. History(g) /\ Sent(g) /\ Queued(g) /\ Counters(g) /\ Places(g) /\ Programs(g) /\ Filled(g)
      /\ Holes(g) /\ HoleCmds(g) /\ ReadCmds(g) /\ Fetched(g)
  BY DEF DataOK
<1>3. /\ g.N \in Nat /\ g.f \in Nat /\ g.h \in Nat /\ g.h \in 0 .. g.N /\ g.f \in 0 .. g.N
      /\ g.h <= g.h /\ g.w[g.h] \in Nat /\ g.w[g.h] <= g.w[g.h]
  <2>1. g.N \in Nat /\ g.f \in Nat /\ g.h \in Nat /\ g.h \in 0 .. g.N /\ g.f \in 0 .. g.N
    BY <1>2, InOrder DEF History
  <2>2. g.w[g.h] \in Nat
    BY <1>2, <2>1 DEF History
  <2>. QED BY <2>1, <2>2
<1>4. /\ i \in 1 .. g.N /\ Writes(g, i) /\ g.P[i].off = Offset(cmd) /\ g.P[i].n = PieceLen(cmd)
      /\ WBuf(g, i) = g_ftl_write_buf_id
      /\ IF q = 0 THEN Old = NULL
         ELSE /\ Old = g.loc[q] /\ Old \in [bank : Banks, row : Rows]
              /\ q \in Written(g) /\ q <= g.f
  BY <1>1, WritePageIs
<1>5. Within(g, i) = W
  BY <1>4 DEF Within
<1>6. wr = None /\ wr' = c /\ q # 0
  BY <1>1, <1>4 DEF flash_issue_cmd, IInv, HolesOfPage, HasHoles
<1>7. /\ c \in Commands /\ c.op = "hole" /\ c.bank = g.loc[q].bank /\ c.row = g.loc[q].row
      /\ c.buf = WBuf(g, i) /\ SectorsOf(c) = o .. o + n - 1
  <2>1. g_ftl_write_buf_id \in Nat
    BY FlashAssumption DEF IInv, WriteRing, Ring
  <2>. QED BY <1>1, <1>4, <1>6, <2>1, FlashAssumption DEF Command, Commands, Rows, SectorsOf
<1>8. InFlight' = InFlight \union {c}
  BY <1>6, <1>7, Issued
<1>9. /\ OutFor("read")' = OutFor("read") /\ OutFor("program")' = OutFor("program")
      /\ OutFor("hole")' = OutFor("hole") \union {c}
  BY <1>7, <1>8 DEF OutFor
<1>10. DataTypeOK'
  BY DEF DataTypeOK
<1>11. History(g)' /\ Sent(g)' /\ Queued(g)' /\ Counters(g)' /\ Places(g)'
  BY <1>2, <1>3, SameHistory, SameSent, SameQueued, SameCounters, SamePlaces DEF MidWrite
<1>12. Programs(g)' /\ Filled(g)' /\ ReadCmds(g)' /\ Fetched(g)'
  <2>1. wr'.op # "program"
    BY <1>6, <1>7
  <2>. QED BY <1>2, <1>3, <1>9, <2>1, SamePrograms, SameFilled, SameReadCmds, SameFetched
<1>13. Holes(g)'
  <2> SUFFICES ASSUME NEW j \in 1 .. g.N, Writes(g, j), g.L < g.w[j],
                      j <= g.f \/ (j = g.f + 1 /\ pc' \in {"right", "program"}),
                      NEW s \in Sectors \ Within(g, j), g.val[j][g.lp[j]][s] # 0
               PROVE  \/ wbuf[WBuf(g, j)][s] = g.val[j][g.lp[j]][s]
                      \/ \E d \in OutFor("hole")' : d.buf = WBuf(g, j) /\ s \in SectorsOf(d)
                      \/ j = g.f + 1 /\ pc' = "right" /\ s >= g.P[j].off + g.P[j].n
    BY DEF Holes, SectorsOf
  <2>1. ASSUME j <= g.f \/ (j = g.f + 1 /\ pc = "right" /\ ~(s >= g.P[j].off + g.P[j].n))
        PROVE  \/ wbuf[WBuf(g, j)][s] = g.val[j][g.lp[j]][s]
               \/ \E d \in OutFor("hole") : d.buf = WBuf(g, j) /\ s \in SectorsOf(d)
    <3>1. j <= g.f => j # g.f + 1
      BY <1>3
    <3>. QED BY <1>2, <2>1, <3>1 DEF Holes
  <2>2. CASE j <= g.f
    BY <1>9, <2>1, <2>2
  <2>3. CASE j = g.f + 1
    <3>1. j = i /\ s \in Sectors \ W /\ g.P[j].off = Offset(cmd) /\ g.P[j].n = PieceLen(cmd)
      BY <1>1, <1>4, <1>5, <2>3
    <3>2. CASE s \in o .. o + n - 1
      BY <1>7, <1>9, <3>1, <3>2
    <3>3. CASE pc = "right" /\ ~(s >= Offset(cmd) + PieceLen(cmd))
      BY <1>9, <2>1, <2>3, <3>1, <3>3
    <3>4. CASE pc' = "right" /\ s >= Offset(cmd) + PieceLen(cmd)
      BY <2>3, <3>1, <3>4
    <3>. QED BY <3>1, <3>2, <3>3, <3>4
  <2>. QED BY <2>2, <2>3
<1>14. HoleCmds(g)'
  <2> SUFFICES ASSUME NEW d \in OutFor("hole") \union {c}
               PROVE  \E j \in 1 .. g.N :
                        /\ Writes(g, j) /\ d.buf = WBuf(g, j) /\ SectorsOf(d) \cap Within(g, j) = {}
                        /\ Source(g, j) # 0 /\ Source(g, j) <= g.f
                        /\ d.bank = g.loc[Source(g, j)].bank /\ d.row = g.loc[Source(g, j)].row
                        /\ ProgCmd(g, Source(g, j)) # c
                        /\ \/ j = g.f + 1 /\ pc' \in {"right", "program"}
                           \/ j <= g.f /\ ProgCmd(g, j) = c
    BY <1>6, <1>9 DEF HoleCmds, SectorsOf
  <2>1. \A j : ProgCmd(g, j) # c
    BY <1>7 DEF ProgCmd, Command
  <2>2. CASE d = c
    BY <1>1, <1>4, <1>5, <1>6, <1>7, <2>1, <2>2
  <2>3. CASE d \in OutFor("hole")
    <3>1. PICK j \in 1 .. g.N :
            /\ Writes(g, j) /\ d.buf = WBuf(g, j) /\ SectorsOf(d) \cap Within(g, j) = {}
            /\ Source(g, j) # 0 /\ Source(g, j) <= g.f
            /\ d.bank = g.loc[Source(g, j)].bank /\ d.row = g.loc[Source(g, j)].row
            /\ \/ j = g.f + 1 /\ pc \in {"right", "program"}
               \/ j <= g.f /\ ProgCmd(g, j) = wr
      BY <1>2, <2>3 DEF HoleCmds
    <3>2. ASSUME j <= g.f, ProgCmd(g, j) = wr PROVE FALSE
      <4>1. j \in 1 .. g.f
        BY <1>3, <3>2
      <4>2. j \in Written(g)
        BY <3>1, <4>1 DEF Written
      <4>. QED BY <1>2, <1>6, <3>2, <4>2, ProgCmdIs
    <3>3. j = g.f + 1
      BY <3>1, <3>2
    <3>. QED BY <2>1, <3>1, <3>3
  <2>. QED BY <2>2, <2>3
<1>15. DataOK(g)'
  BY <1>11, <1>12, <1>13, <1>14 DEF DataOK
<1>. QED BY <1>10, <1>15

\* The sectors beside the piece of the command.
LEMMA PieceSectors ==
  ASSUME IInv, pc \in {"left", "right"}
  PROVE  /\ Offset(cmd) \in Nat /\ PieceLen(cmd) \in Nat /\ SectorsPerPage \in Nat
         /\ Offset(cmd) + PieceLen(cmd) <= SectorsPerPage
<1>1. cmd \in [op : {"none", "read", "write"}, lba : Nat, n : Nat] /\ cmd.n > 0
      /\ cmd.lba + cmd.n <= NumLpns * SectorsPerPage
  BY DEF IInv, RingTypeOK
<1>2. /\ Offset(cmd) \in Sectors /\ PieceLen(cmd) \in 1 .. cmd.n
      /\ Offset(cmd) + PieceLen(cmd) <= SectorsPerPage
  BY <1>1, PieceOf
<1>. QED BY <1>1, <1>2, FlashAssumption DEF Sectors

\* read_old_data, the sectors before the piece.
LEMMA ReadLeftHoleData ==
  ASSUME IInv, DataTypeOK, NEW g, DataOK(g), ReadLeftHole
  PROVE  DataTypeOK' /\ \E e : DataOK(e)'
<1>1. PICK a, k, S, o, n : /\ a = Offset(cmd) /\ k = PieceLen(cmd) /\ S = SectorsPerPage /\ o = 0 /\ n = LeftHole
  OBVIOUS
<1>2. pc = "left" /\ pc' = IF RightHole # 0 THEN "right" ELSE "program"
  BY DEF ReadLeftHole
<1>3. a \in Nat /\ k \in Nat /\ S \in Nat /\ a + k <= S /\ n = a /\ RightHole = S - a - k /\ Sectors = 0 .. S - 1
  BY <1>1, <1>2, PieceSectors DEF LeftHole, RightHole, Sectors
<1>4. (o .. o + n - 1) \cap (a .. a + k - 1) = {}
  BY <1>1, <1>3
<1>5. ASSUME NEW s \in Sectors \ (a .. a + k - 1)
      PROVE  s \in o .. o + n - 1 \/ (pc' = "right" /\ s >= a + k)
  <2>1. s \in 0 .. S - 1 /\ s \notin a .. a + k - 1
    BY <1>3
  <2>2. s < a \/ s >= a + k
    BY <1>3, <2>1
  <2>3. CASE s < a
    BY <1>1, <1>3, <2>1, <2>3
  <2>4. CASE s >= a + k
    <3>1. S - a - k # 0
      BY <1>3, <2>1, <2>4
    <3>. QED BY <1>2, <1>3, <2>4, <3>1
  <2>. QED BY <2>2, <2>3, <2>4
<1>6. o \in Nat /\ n \in Nat
  BY <1>1, <1>3
<1>7. /\ flash_issue_cmd(Command("hole", Old.bank, Old.row, o, n, g_ftl_write_buf_id))
      /\ UNCHANGED <<bank, nand, rbuf, wbuf, rd_limit, rd_done, wr_limit, wr_done, rbuf_ptr, wbuf_ptr>>
      /\ UNCHANGED <<page_map, g_target_row, g_ftl_read_buf_id, g_ftl_write_buf_id, cmd, new>>
      /\ UNCHANGED <<eventq, link, disk, writes>>
  BY <1>1 DEF ReadLeftHole, hostVars
<1>8. pc \in {"left", "right"} /\ pc' \in {"right", "program"}
  BY <1>2
<1>. QED BY <1>1, <1>4, <1>5, <1>6, <1>7, <1>8, HoleData

\* read_old_data, the sectors behind the piece.
LEMMA ReadRightHoleData ==
  ASSUME IInv, DataTypeOK, NEW g, DataOK(g), ReadRightHole
  PROVE  DataTypeOK' /\ \E e : DataOK(e)'
<1>1. PICK a, k, S, o, n : /\ a = Offset(cmd) /\ k = PieceLen(cmd) /\ S = SectorsPerPage
                           /\ o = SectorsPerPage - RightHole /\ n = RightHole
  OBVIOUS
<1>2. pc = "right" /\ pc' = "program"
  BY DEF ReadRightHole
<1>3. a \in Nat /\ k \in Nat /\ S \in Nat /\ a + k <= S /\ n = S - a - k /\ o = a + k /\ Sectors = 0 .. S - 1
  <2>1. a \in Nat /\ k \in Nat /\ S \in Nat /\ a + k <= S /\ n = S - a - k /\ Sectors = 0 .. S - 1
    BY <1>1, <1>2, PieceSectors DEF RightHole, Sectors
  <2>2. o = S - n
    BY <1>1
  <2>. QED BY <2>1, <2>2
<1>4. (o .. o + n - 1) \cap (a .. a + k - 1) = {}
  BY <1>3
<1>5. ASSUME NEW s \in Sectors \ (a .. a + k - 1)
      PROVE  s \in o .. o + n - 1 \/ (pc = "right" /\ ~(s >= a + k))
  <2>1. s \in 0 .. S - 1 /\ s \notin a .. a + k - 1
    BY <1>3
  <2>2. s >= a + k => s \in o .. o + n - 1
    BY <1>3, <2>1
  <2>. QED BY <1>2, <2>2
<1>6. o \in Nat /\ n \in Nat
  BY <1>3
<1>7. /\ flash_issue_cmd(Command("hole", Old.bank, Old.row, o, n, g_ftl_write_buf_id))
      /\ UNCHANGED <<bank, nand, rbuf, wbuf, rd_limit, rd_done, wr_limit, wr_done, rbuf_ptr, wbuf_ptr>>
      /\ UNCHANGED <<page_map, g_target_row, g_ftl_read_buf_id, g_ftl_write_buf_id, cmd, new>>
      /\ UNCHANGED <<eventq, link, disk, writes>>
  BY <1>1 DEF ReadRightHole, hostVars
<1>8. pc \in {"left", "right"} /\ pc' \in {"right", "program"}
  BY <1>2
<1>. QED BY <1>1, <1>4, <1>5, <1>6, <1>7, <1>8, HoleData

\* Behind the waiting room and the banks there is one more write buffer, and nothing that
\* was finished is at the cursor.
LEMMA WriteRoom ==
  ASSUME IInv, NEW g, History(g), Counters(g), wr = None
  PROVE  /\ g.w[g.f] \in Nat /\ g.L \in Nat /\ g.L <= g.w[g.f] /\ g.w[g.f] + 1 - g.L < NumWrBuffers
         /\ NextWr(g_ftl_write_buf_id) = (g.w[g.f] + 1) % NumWrBuffers
         /\ g.w[g.f] % NumWrBuffers \notin wr_done
<1>1. PICK n, F, L : n = NumWrBuffers /\ F = g.w[g.f] /\ L = g.L
  OBVIOUS
<1>2. n \in Nat \ {0} /\ NumBanks \in Nat \ {0} /\ n > NumBanks + 1
  BY <1>1, FlashAssumption
<1>3. F \in Nat /\ L \in Nat /\ L <= F /\ F - L < n /\ g_ftl_write_buf_id = F % n /\ wr_limit = L % n
  <2>1. F \in Nat
    BY <1>1 DEF History
  <2>. QED BY <1>1, <2>1 DEF Counters
<1>4. PICK t, l : t = F % n /\ l = L % n
  OBVIOUS
<1>5. Ahead(l, t, n) = F - L /\ t \in 0 .. n - 1 /\ l \in 0 .. n - 1
  BY <1>2, <1>3, <1>4, AheadOf
<1>6. Ring(l, t, n, OutFor("program"), wr_done) /\ Ahead(l, t, n) <= NumBanks + 1 /\ Ahead(l, t, n) # NumBanks + 1
  BY <1>1, <1>3, <1>4 DEF IInv, WriteRing
<1>7. F + 1 - L < n
  BY <1>2, <1>3, <1>5, <1>6
<1>8. t \notin wr_done
  <2>1. Ahead(l, t, n) \in Int
    BY <1>3, <1>5
  <2>2. ~(Ahead(l, t, n) < Ahead(l, t, n))
    BY <2>1
  <2>3. t \notin Window(l, t, n)
    BY <1>2, <1>5, <2>2, InWindow
  <2>. QED BY <1>6, <2>3 DEF Ring
<1>9. (t + 1) % n = (F + 1) % n
  <2>1. 1 \in 0 .. n
    BY <1>2
  <2>. QED BY <1>2, <1>3, <1>4, <2>1, CursorAt
<1>. QED BY <1>1, <1>3, <1>4, <1>7, <1>8, <1>9 DEF NextWr

\* ftl_write programs the page.
LEMMA ProgramPageData ==
  ASSUME IInv, DataTypeOK, NEW g, DataOK(g), ProgramPage
  PROVE  DataTypeOK' /\ \E e : DataOK(e)'
<1>1. PICK i, c, loc, e : /\ i = g.f + 1
                          /\ c = Command("program", new.bank, new.row, 0, SectorsPerPage, g_ftl_write_buf_id)
                          /\ loc = [j \in 1 .. i |-> IF j = i THEN new ELSE g.loc[j]]
                          /\ e = After(g, i, g.h, g.L, g.M, loc, g.st)
  OBVIOUS
<1>2. /\ e.f = i /\ e.h = g.h /\ e.L = g.L /\ e.M = g.M /\ e.loc = loc /\ e.st = g.st /\ e.N = g.N
      /\ e.P = g.P /\ e.lp = g.lp /\ e.w = g.w /\ e.r = g.r /\ e.last = g.last /\ e.val = g.val
  BY <1>1, AfterIs
<1>3. /\ wr = None /\ wr' = c /\ bank' = bank /\ NextPage /\ pc = "program"
      /\ page_map' = [page_map EXCEPT ![Lpn(cmd)] = new]
      /\ g_ftl_write_buf_id' = NextWr(g_ftl_write_buf_id)
      /\ UNCHANGED <<nand, rbuf, wbuf, rd_limit, rd_done, wr_limit, wr_done, rbuf_ptr, wbuf_ptr>>
      /\ UNCHANGED <<g_target_row, g_ftl_read_buf_id, new>> /\ UNCHANGED <<eventq, link, disk, writes>>
  BY <1>1 DEF ProgramPage, flash_issue_cmd, hostVars
<1>4. History(g) /\ Sent(g) /\ Queued(g) /\ Counters(g) /\ Places(g) /\ Programs(g) /\ Filled(g)
      /\ Holes(g) /\ HoleCmds(g) /\ ReadCmds(g) /\ Fetched(g)
  BY DEF DataOK
<1>5. /\ g.N \in Nat /\ g.f \in Nat /\ g.h \in Nat /\ g.f \in 0 .. g.N /\ g.h \in 0 .. g.N /\ g.h <= g.h
      /\ g.w[g.h] \in Nat /\ g.r[g.h] \in Nat
  <2>1. g.N \in Nat /\ g.f \in Nat /\ g.h \in Nat /\ g.f \in 0 .. g.N /\ g.h \in 0 .. g.N
    BY <1>4, InOrder DEF History
  <2>2. g.w[g.h] \in Nat /\ g.r[g.h] \in Nat
    BY <1>4, <2>1 DEF History
  <2>. QED BY <2>1, <2>2
<1>6. /\ RingTypeOK /\ cmd.op = "write" /\ pc \notin {"main", "stopped"} /\ pc' \in {"main", "write"}
      /\ cmd.op \notin {"main", "stopped"}
  <2>1. RingTypeOK /\ cmd.op = "write"
    BY <1>3 DEF IInv, RingTypeOK
  <2>. QED BY <1>3, <2>1 DEF NextPage
<1>7. /\ i \in 1 .. g.N /\ i - 1 = g.f /\ Writes(g, i) /\ ~Reads(g, i)
      /\ g.w[i] = g.w[g.f] + 1 /\ g.r[i] = g.r[g.f] /\ g.w[g.f] \in Nat /\ g.r[g.f] \in Nat
      /\ \A l \in Lpns : g.last[i][l] = IF l = g.lp[i] THEN i ELSE g.last[g.f][l]
      /\ g.lp[i] = Lpn(cmd) /\ WBuf(g, i) = g_ftl_write_buf_id
  BY <1>1, <1>3, <1>4, WritePageIs
<1>8. /\ g.L \in Nat /\ g.L <= g.w[g.f] /\ g.w[g.f] + 1 - g.L < NumWrBuffers
      /\ NextWr(g_ftl_write_buf_id) = (g.w[g.f] + 1) % NumWrBuffers
      /\ g.w[g.f] % NumWrBuffers \notin wr_done
  BY <1>3, <1>4, WriteRoom
<1>9. /\ new \in [bank : Banks, row : Rows] /\ new.row < g_target_row[new.bank]
      /\ \A j \in Written(g) : g.loc[j] # new
  BY <1>3, <1>4 DEF Places, MidWrite
<1>10. c \in Commands /\ c.op = "program" /\ c.bank = new.bank /\ c.row = new.row
  <2>1. g_ftl_write_buf_id \in Nat
    BY FlashAssumption DEF IInv, WriteRing, Ring
  <2>. QED BY <1>1, <1>9, <2>1, FlashAssumption DEF Command, Commands, Rows
<1>11. InFlight' = InFlight \union {c}
  BY <1>3, <1>10, Issued
<1>12. /\ OutFor("program")' = OutFor("program") \union {c}
       /\ OutFor("read")' = OutFor("read") /\ OutFor("hole")' = OutFor("hole")
  BY <1>10, <1>11 DEF OutFor
<1>13. /\ loc[i] = new /\ \A j : j \in 1 .. g.f => loc[j] = g.loc[j] /\ j \in 1 .. i /\ j # i
       /\ \A j : j \in 1 .. i <=> j = i \/ j \in 1 .. g.f
  <2>1. i \in 1 .. i /\ \A j : j \in 1 .. g.f => j \in 1 .. i /\ j # i
    BY <1>1, <1>5
  <2>2. \A j : j \in 1 .. i <=> j = i \/ j \in 1 .. g.f
    BY <1>1, <1>5
  <2>. QED BY <1>1, <2>1, <2>2
<1>14. /\ \A j : /\ (Writes(e, j) <=> Writes(g, j)) /\ (Reads(e, j) <=> Reads(g, j)) /\ Within(e, j) = Within(g, j)
                 /\ WBuf(e, j) = WBuf(g, j) /\ RBuf(e, j) = RBuf(g, j) /\ Source(e, j) = Source(g, j)
                 /\ \A page : HasData(page, e, j) <=> HasData(page, g, j)
       /\ \A j \in 1 .. g.f : ProgCmd(e, j) = ProgCmd(g, j)
       /\ ProgCmd(e, i) = c
  <2>1. \A j : /\ (Writes(e, j) <=> Writes(g, j)) /\ (Reads(e, j) <=> Reads(g, j)) /\ Within(e, j) = Within(g, j)
               /\ WBuf(e, j) = WBuf(g, j) /\ RBuf(e, j) = RBuf(g, j) /\ Source(e, j) = Source(g, j)
               /\ \A page : HasData(page, e, j) <=> HasData(page, g, j)
    BY <1>2 DEF Writes, Reads, Within, WBuf, RBuf, Source, HasData
  <2>2. \A j : /\ ProgCmd(e, j) = Command("program", loc[j].bank, loc[j].row, 0, SectorsPerPage, WBuf(g, j))
               /\ ProgCmd(g, j) = Command("program", g.loc[j].bank, g.loc[j].row, 0, SectorsPerPage, WBuf(g, j))
    BY <1>2, <2>1 DEF ProgCmd
  <2>3. ProgCmd(e, i) = c
    BY <1>1, <1>7, <1>13, <2>2
  <2>4. \A j \in 1 .. g.f : ProgCmd(e, j) = ProgCmd(g, j)
    BY <1>13, <2>2
  <2>. QED BY <2>1, <2>3, <2>4
<1>15. Written(e) = Written(g) \union {i} /\ Written(g) \subseteq 1 .. g.f
  <2>1. Written(g) \subseteq 1 .. g.f
    BY DEF Written
  <2>2. \A j : j \in 1 .. e.f /\ Writes(e, j) <=> (j \in 1 .. g.f /\ Writes(g, j)) \/ j = i
    BY <1>2, <1>7, <1>13, <1>14
  <2>. QED BY <2>1, <2>2 DEF Written
<1>16. History(e)' /\ Sent(e)' /\ Queued(e)'
  <2>1. e.f \in 0 .. g.N /\ e.h \in 0 .. g.N
    BY <1>2, <1>5, <1>7
  <2>2. Queued(e)'
    BY <1>1, <1>2, <1>3, <1>4, <1>6, NextQueued
  <2>. QED BY <1>2, <1>3, <1>4, <2>1, <2>2, SameHistory, SameSent
<1>17. Counters(e)'
  <2>1. /\ g.L <= g.w[g.h] /\ g.w[g.h] - g.L < NumWrBuffers
        /\ g.M \in Nat /\ g.r[g.h] <= g.M /\ g.M <= g.r[g.f] /\ g.r[g.f] - g.r[g.h] < NumRdBuffers
        /\ g_ftl_read_buf_id = g.r[g.f] % NumRdBuffers /\ rbuf_ptr = g.r[g.h] % NumRdBuffers /\ rd_limit = g.M % NumRdBuffers
        /\ wbuf_ptr = g.w[g.h] % NumWrBuffers /\ wr_limit = g.L % NumWrBuffers
    BY <1>4 DEF Counters
  <2>2. g.L <= g.w[i] /\ g.w[i] - g.L < NumWrBuffers
    BY <1>7, <1>8
  <2>3. g_ftl_write_buf_id' = g.w[i] % NumWrBuffers
    BY <1>3, <1>7, <1>8
  <2>. QED BY <1>2, <1>3, <1>7, <1>8, <2>1, <2>2, <2>3 DEF Counters
<1>18. Places(e)'
  <2>1. ~MidWrite'
    BY <1>6 DEF MidWrite
  <2>2. ASSUME NEW j \in Written(e)
        PROVE  loc[j] \in [bank : Banks, row : Rows] /\ loc[j].row < g_target_row[loc[j].bank]
    <3>1. CASE j = i
      BY <1>9, <1>13, <3>1
    <3>2. CASE j \in Written(g)
      BY <1>4, <1>13, <1>15, <3>2 DEF Places
    <3>. QED BY <1>15, <3>1, <3>2
  <2>3. ASSUME NEW j \in Written(e), NEW k \in Written(e), loc[j] = loc[k] PROVE j = k
    <3>1. \A x \in Written(g) : loc[x] = g.loc[x] /\ loc[x] # loc[i]
      BY <1>9, <1>13, <1>15
    <3>2. \A x, y \in Written(g) : g.loc[x] = g.loc[y] => x = y
      BY <1>4 DEF Places
    <3>. QED BY <1>15, <2>3, <3>1, <3>2
  <2>4. ASSUME NEW l \in Lpns
        PROVE  page_map'[l] = IF g.last[i][l] = 0 THEN NULL ELSE loc[g.last[i][l]]
    <3>1. page_map'[l] = IF l = Lpn(cmd) THEN new ELSE page_map[l]
      BY <1>3 DEF IInv, RingTypeOK
    <3>2. CASE l = Lpn(cmd)
      <4>1. g.last[i][l] = i /\ i # 0
        BY <1>7, <3>2
      <4>. QED BY <1>13, <3>1, <3>2, <4>1
    <3>3. CASE l # Lpn(cmd)
      <4>1. g.last[i][l] = g.last[g.f][l]
        BY <1>7, <3>3
      <4>2. g.last[g.f][l] \in 0 .. g.f
        BY <1>4, <1>5 DEF History
      <4>3. page_map[l] = IF g.last[g.f][l] = 0 THEN NULL ELSE g.loc[g.last[g.f][l]]
        BY <1>4 DEF Places
      <4>4. g.last[g.f][l] # 0 => g.last[g.f][l] \in 1 .. g.f
        BY <1>5, <4>2
      <4>. QED BY <1>13, <3>1, <3>3, <4>1, <4>3, <4>4
    <3>. QED BY <3>2, <3>3
  <2>5. g_target_row' = g_target_row
    BY <1>3
  <2>. QED BY <1>2, <2>1, <2>2, <2>3, <2>4, <2>5 DEF Places
<1>19. Programs(e)'
  <2>1. ASSUME NEW d \in OutFor("program")'
        PROVE  \E j \in Written(e) : d = ProgCmd(e, j) /\ g.L < g.w[j]
    <3>1. CASE d = c
      <4>1. g.L < g.w[i]
        BY <1>7, <1>8
      <4>. QED BY <1>14, <1>15, <3>1, <4>1
    <3>2. CASE d \in OutFor("program")
      BY <1>4, <1>14, <1>15, <3>2 DEF Programs
    <3>. QED BY <1>12, <3>1, <3>2
  <2>2. ASSUME NEW j \in Written(e)
        PROVE  ProgCmd(e, j) \in InFlight' \/ HasData(nand[loc[j].bank][loc[j].row], g, j)
    <3>1. CASE j = i
      BY <1>11, <1>14, <3>1
    <3>2. CASE j \in Written(g)
      BY <1>4, <1>11, <1>13, <1>14, <1>15, <3>2 DEF Programs
    <3>. QED BY <1>15, <3>1, <3>2
  <2>3. ASSUME NEW x \in Nat, g.L < x, x <= g.w[i], (x - 1) % NumWrBuffers \in wr_done PROVE x <= g.w[g.h]
    <3>1. x # g.w[g.f] + 1
      <4>1. x = g.w[g.f] + 1 => x - 1 = g.w[g.f]
        BY <1>7
      <4>. QED BY <1>8, <2>3, <4>1
    <3>2. x <= g.w[g.f]
      BY <1>7, <2>3, <3>1
    <3>. QED BY <1>4, <2>3, <3>2 DEF Programs
  <2>4. wr_done' = wr_done /\ nand' = nand
    BY <1>3
  <2>. QED BY <1>2, <1>14, <2>1, <2>2, <2>3, <2>4 DEF Programs
<1>20. Filled(e)'
  BY <1>2, <1>3, <1>4, SameFilled
<1>21. Holes(e)'
  <2> SUFFICES ASSUME NEW j \in 1 .. g.N, Writes(g, j), g.L < g.w[j],
                      j <= i \/ (j = i + 1 /\ pc' \in {"right", "program"}),
                      NEW s \in Sectors \ Within(g, j), g.val[j][g.lp[j]][s] # 0
               PROVE  \/ wbuf[WBuf(g, j)][s] = g.val[j][g.lp[j]][s]
                      \/ \E d \in OutFor("hole") : d.buf = WBuf(g, j) /\ s \in SectorsOf(d)
    BY <1>2, <1>3, <1>12, <1>14 DEF Holes, SectorsOf
  <2>1. j <= g.f \/ (j = g.f + 1 /\ pc \in {"right", "program"})
    BY <1>1, <1>3, <1>5, <1>6
  <2>2. pc # "right"
    BY <1>3
  <2>. QED BY <1>4, <2>1, <2>2 DEF Holes
<1>22. \A j \in 1 .. g.N : Source(g, j) # 0 /\ Source(g, j) <= g.f =>
         /\ Source(g, j) \in 1 .. g.f /\ loc[Source(g, j)] = g.loc[Source(g, j)] /\ ProgCmd(e, Source(g, j)) # c
  <2> SUFFICES ASSUME NEW j \in 1 .. g.N, Source(g, j) # 0, Source(g, j) <= g.f
               PROVE  /\ Source(g, j) \in 1 .. g.f /\ loc[Source(g, j)] = g.loc[Source(g, j)]
                      /\ ProgCmd(e, Source(g, j)) # c
    OBVIOUS
  <2>1. Source(g, j) \in 1 .. g.N /\ Writes(g, Source(g, j))
    BY <1>4, SourceIs
  <2>2. Source(g, j) \in 1 .. g.f
    BY <1>5, <2>1
  <2>3. Source(g, j) \in Written(g)
    BY <2>1, <2>2 DEF Written
  <2>4. /\ g.loc[Source(g, j)] # new /\ g.loc[Source(g, j)] \in [bank : Banks, row : Rows]
        /\ ProgCmd(g, Source(g, j)).bank = g.loc[Source(g, j)].bank
        /\ ProgCmd(g, Source(g, j)).row = g.loc[Source(g, j)].row
    BY <1>4, <1>9, <2>3, ProgCmdIs
  <2>5. ProgCmd(g, Source(g, j)) # c
    BY <1>9, <1>10, <2>4
  <2>. QED BY <1>13, <1>14, <2>2, <2>5
<1>23. HoleCmds(e)'
  <2> SUFFICES ASSUME NEW d \in OutFor("hole")
               PROVE  \E j \in 1 .. g.N :
                        /\ Writes(g, j) /\ d.buf = WBuf(g, j) /\ SectorsOf(d) \cap Within(g, j) = {}
                        /\ Source(g, j) # 0 /\ Source(g, j) <= i
                        /\ d.bank = loc[Source(g, j)].bank /\ d.row = loc[Source(g, j)].row
                        /\ ProgCmd(e, Source(g, j)) # c
                        /\ j <= i /\ ProgCmd(e, j) = c
    BY <1>2, <1>3, <1>12, <1>14 DEF HoleCmds, SectorsOf
  <2>1. PICK j \in 1 .. g.N :
          /\ Writes(g, j) /\ d.buf = WBuf(g, j) /\ SectorsOf(d) \cap Within(g, j) = {}
          /\ Source(g, j) # 0 /\ Source(g, j) <= g.f
          /\ d.bank = g.loc[Source(g, j)].bank /\ d.row = g.loc[Source(g, j)].row
          /\ \/ j = g.f + 1 /\ pc \in {"right", "program"}
             \/ j <= g.f /\ ProgCmd(g, j) = wr
    BY <1>4 DEF HoleCmds
  <2>2. ASSUME j <= g.f, ProgCmd(g, j) = wr PROVE FALSE
    <3>1. j \in 1 .. g.f
      BY <1>5, <2>2
    <3>2. j \in Written(g)
      BY <2>1, <3>1 DEF Written
    <3>. QED BY <1>3, <1>4, <2>2, <3>2, ProgCmdIs
  <2>3. j = i
    BY <1>1, <2>1, <2>2
  <2>4. Source(g, j) <= i /\ j <= i
    <3>1. Source(g, j) \in 1 .. g.f
      BY <1>22, <2>1
    <3>. QED BY <1>1, <1>5, <2>3, <3>1
  <2>. QED BY <1>14, <1>22, <2>1, <2>3, <2>4
<1>24. \A j \in 1 .. g.f : Reads(g, j) /\ Source(g, j) # 0 => ReadCmd(e, j) = ReadCmd(g, j) /\ ProgCmd(e, Source(g, j)) # c
  <2> SUFFICES ASSUME NEW j \in 1 .. g.f, Source(g, j) # 0
               PROVE  ReadCmd(e, j) = ReadCmd(g, j) /\ ProgCmd(e, Source(g, j)) # c
    OBVIOUS
  <2>1. j \in 1 .. g.N
    BY <1>5
  <2>2. Source(g, j) \in 0 .. j - 1
    BY <1>4, <2>1, SourceIs
  <2>3. Source(g, j) <= g.f
    BY <1>5, <2>2
  <2>4. loc[Source(g, j)] = g.loc[Source(g, j)] /\ ProgCmd(e, Source(g, j)) # c
    BY <1>22, <2>1, <2>3
  <2>. QED BY <1>2, <1>14, <2>4 DEF ReadCmd
<1>25. ReadCmds(e)'
  <2> SUFFICES ASSUME NEW d \in OutFor("read")
               PROVE  \E j \in 1 .. i : /\ Reads(g, j) /\ g.M < g.r[j] /\ d = ReadCmd(e, j)
                                        /\ Source(g, j) # 0 /\ ProgCmd(e, Source(g, j)) # c
    BY <1>2, <1>3, <1>12, <1>14 DEF ReadCmds
  <2>1. PICK j \in 1 .. g.f : /\ Reads(g, j) /\ g.M < g.r[j] /\ d = ReadCmd(g, j) /\ Source(g, j) # 0
    BY <1>4 DEF ReadCmds
  <2>. QED BY <1>13, <1>24, <2>1
<1>26. Fetched(e)'
  <2> SUFFICES ASSUME NEW j \in g.h + 1 .. i, Reads(g, j)
               PROVE  \/ Source(g, j) # 0 /\ ReadCmd(e, j) \in InFlight \union {c}
                      \/ \A s \in Within(g, j) : g.P[j].exp[s] # Stale => rbuf[RBuf(g, j)][s] = g.P[j].exp[s]
    BY <1>2, <1>3, <1>11, <1>14 DEF Fetched
  <2>1. j # i
    BY <1>7
  <2>2. j \in g.h + 1 .. g.f /\ j \in 1 .. g.f
    BY <1>1, <1>5, <2>1
  <2>3. \/ Source(g, j) # 0 /\ ReadCmd(g, j) \in InFlight
        \/ \A s \in Within(g, j) : g.P[j].exp[s] # Stale => rbuf[RBuf(g, j)][s] = g.P[j].exp[s]
    BY <1>4, <2>2 DEF Fetched
  <2>. QED BY <1>24, <2>2, <2>3
<1>27. DataTypeOK'
  BY <1>3 DEF DataTypeOK
<1>28. DataOK(e)'
  BY <1>16, <1>17, <1>18, <1>19, <1>20, <1>21, <1>23, <1>25, <1>26 DEF DataOK
<1>. QED BY <1>27, <1>28

-----------------------------------------------------------------------------
(***************************************************************************)
(* A command of the host: the history grows by its pages.                  *)
(***************************************************************************)
\* The history so far is as it was.
Continues(g, e) ==
  /\ e.f = g.f /\ e.h = g.h /\ e.L = g.L /\ e.M = g.M /\ e.loc = g.loc
  /\ \A i \in 1 .. g.N : e.P[i] = g.P[i] /\ e.lp[i] = g.lp[i]
  /\ \A i \in 0 .. g.N : e.w[i] = g.w[i] /\ e.r[i] = g.r[i] /\ e.last[i] = g.last[i] /\ e.val[i] = g.val[i]

\* The logical pages and the sectors that the first k pages of a command write.
WrittenBy(r, k, l) == r.op = "write" /\ l \in Lpn(r) .. Lpn(r) + k - 1
AddrIn(r, l, s)    == l * SectorsPerPage + s \in r.lba .. r.lba + r.n - 1

\* Behind it come the pages of command r.
Appends(g, e, r) ==
  /\ e.N = g.N + NumPages(r)
  /\ \A k \in 1 .. NumPages(r) : /\ e.P[g.N + k] = PageOf(r, Lpn(r) + k - 1, writes + 1)
                                 /\ e.lp[g.N + k] = Lpn(r) + k - 1
  /\ \A k \in 0 .. NumPages(r) :
       /\ e.w[g.N + k] = IF r.op = "write" THEN g.w[g.N] + k ELSE g.w[g.N]
       /\ e.r[g.N + k] = IF r.op = "write" THEN g.r[g.N] ELSE g.r[g.N] + k
       /\ \A l \in Lpns :
            /\ e.last[g.N + k][l] = IF WrittenBy(r, k, l) THEN g.N + (l - Lpn(r)) + 1 ELSE g.last[g.N][l]
            /\ \A s \in Sectors : e.val[g.N + k][l][s] = IF WrittenBy(r, k, l) /\ AddrIn(r, l, s) THEN writes + 1
                                                         ELSE g.val[g.N][l][s]
  /\ \A k \in 1 .. Len(eventq) + 1 : e.st[k] = g.st[k]
  /\ e.st[Len(eventq) + 2] = e.N

\* There is such a history.
LEMMA HistoryGrows ==
  ASSUME NEW g, History(g), NEW r, NumPages(r) \in Nat, Lpn(r) \in Int, Len(eventq) \in Nat
  PROVE  \E e : Continues(g, e) /\ Appends(g, e, r)
<1>1. PICK N, m, a, q : N = g.N /\ m = NumPages(r) /\ a = Lpn(r) /\ q = Len(eventq)
  OBVIOUS
<1>2. N \in Nat /\ m \in Nat /\ a \in Int /\ q \in Nat /\ g.w[N] \in Nat /\ g.r[N] \in Nat
  <2>1. N \in Nat /\ N \in 0 .. N
    BY <1>1 DEF History
  <2>. QED BY <1>1, <2>1 DEF History
<1>3. PICK P, lp : /\ P = [i \in 1 .. N + m |-> IF i <= N THEN g.P[i] ELSE PageOf(r, a + (i - N) - 1, writes + 1)]
                   /\ lp = [i \in 1 .. N + m |-> IF i <= N THEN g.lp[i] ELSE a + (i - N) - 1]
  OBVIOUS
<1>4. PICK w, rd : /\ w = [i \in 0 .. N + m |-> IF i <= N THEN g.w[i]
                                                ELSE IF r.op = "write" THEN g.w[N] + (i - N) ELSE g.w[N]]
                   /\ rd = [i \in 0 .. N + m |-> IF i <= N THEN g.r[i]
                                                 ELSE IF r.op = "write" THEN g.r[N] ELSE g.r[N] + (i - N)]
  OBVIOUS
<1>5. PICK last : last = [i \in 0 .. N + m |-> IF i <= N THEN g.last[i]
                            ELSE [l \in Lpns |-> IF WrittenBy(r, i - N, l) THEN N + (l - a) + 1 ELSE g.last[N][l]]]
  OBVIOUS
<1>6. PICK val : val = [i \in 0 .. N + m |-> IF i <= N THEN g.val[i]
                          ELSE [l \in Lpns |-> [s \in Sectors |->
                                 IF WrittenBy(r, i - N, l) /\ AddrIn(r, l, s) THEN writes + 1 ELSE g.val[N][l][s]]]]
  OBVIOUS
<1>7. PICK st : st = [k \in 1 .. q + 2 |-> IF k <= q + 1 THEN g.st[k] ELSE N + m]
  OBVIOUS
<1>8. PICK e : e = [N |-> N + m, f |-> g.f, h |-> g.h, L |-> g.L, M |-> g.M, P |-> P, lp |-> lp, w |-> w, r |-> rd,
                    loc |-> g.loc, st |-> st, last |-> last, val |-> val]
  OBVIOUS
<1>9. /\ e.N = N + m /\ e.f = g.f /\ e.h = g.h /\ e.L = g.L /\ e.M = g.M /\ e.loc = g.loc
      /\ e.P = P /\ e.lp = lp /\ e.w = w /\ e.r = rd /\ e.st = st /\ e.last = last /\ e.val = val
  BY <1>8
<1>10. /\ \A i \in 1 .. N : i \in 1 .. N + m /\ i <= N
       /\ \A i \in 0 .. N : i \in 0 .. N + m /\ i <= N
       /\ \A k \in 1 .. m : N + k \in 1 .. N + m /\ N + k \in 0 .. N + m /\ ~(N + k <= N) /\ (N + k) - N = k
  BY <1>2
<1>11. Continues(g, e)
  <2>1. \A i \in 1 .. N : P[i] = g.P[i] /\ lp[i] = g.lp[i]
    BY <1>3, <1>10
  <2>2. \A i \in 0 .. N : w[i] = g.w[i] /\ rd[i] = g.r[i] /\ last[i] = g.last[i] /\ val[i] = g.val[i]
    BY <1>4, <1>5, <1>6, <1>10
  <2>. QED BY <1>1, <1>9, <2>1, <2>2 DEF Continues
<1>12. \A k \in 1 .. m : P[N + k] = PageOf(r, a + k - 1, writes + 1) /\ lp[N + k] = a + k - 1
  BY <1>3, <1>10
<1>13. ASSUME NEW k \in 0 .. m
       PROVE  /\ w[N + k] = IF r.op = "write" THEN g.w[N] + k ELSE g.w[N]
              /\ rd[N + k] = IF r.op = "write" THEN g.r[N] ELSE g.r[N] + k
              /\ \A l \in Lpns :
                   /\ last[N + k][l] = IF WrittenBy(r, k, l) THEN N + (l - a) + 1 ELSE g.last[N][l]
                   /\ \A s \in Sectors : val[N + k][l][s] = IF WrittenBy(r, k, l) /\ AddrIn(r, l, s) THEN writes + 1
                                                            ELSE g.val[N][l][s]
  <2>1. CASE k = 0
    <3>1. N + k = N /\ N \in 0 .. N /\ g.w[N] + k = g.w[N] /\ g.r[N] + k = g.r[N]
      BY <1>2, <2>1
    <3>2. \A l \in Lpns : ~WrittenBy(r, k, l)
      BY <1>1, <1>2, <2>1 DEF WrittenBy, Lpns
    <3>3. w[N] = g.w[N] /\ rd[N] = g.r[N] /\ last[N] = g.last[N] /\ val[N] = g.val[N]
      BY <1>4, <1>5, <1>6, <1>10, <3>1
    <3>. QED BY <3>1, <3>2, <3>3
  <2>2. CASE k # 0
    <3>1. k \in 1 .. m
      BY <1>2, <2>2
    <3>2. N + k \in 0 .. N + m /\ ~(N + k <= N) /\ (N + k) - N = k
      BY <1>10, <3>1
    <3>3. /\ w[N + k] = IF r.op = "write" THEN g.w[N] + k ELSE g.w[N]
          /\ rd[N + k] = IF r.op = "write" THEN g.r[N] ELSE g.r[N] + k
      BY <1>4, <3>2
    <3>4. \A l \in Lpns : last[N + k][l] = IF WrittenBy(r, k, l) THEN N + (l - a) + 1 ELSE g.last[N][l]
      BY <1>5, <3>2
    <3>5. \A l \in Lpns, s \in Sectors : val[N + k][l][s] = IF WrittenBy(r, k, l) /\ AddrIn(r, l, s) THEN writes + 1
                                                            ELSE g.val[N][l][s]
      BY <1>6, <3>2
    <3>. QED BY <3>3, <3>4, <3>5
  <2>. QED BY <2>1, <2>2
<1>14. (\A k \in 1 .. q + 1 : st[k] = g.st[k]) /\ st[q + 2] = N + m
  BY <1>2, <1>7
<1>15. Appends(g, e, r)
  BY <1>1, <1>9, <1>12, <1>13, <1>14 DEF Appends
<1>. QED BY <1>11, <1>15

\* What was said of the pages so far stays true.
LEMMA SameSoFar ==
  ASSUME NEW g, NEW e, g.N \in Nat, Continues(g, e), NEW i \in 1 .. g.N
  PROVE  /\ e.P[i] = g.P[i] /\ e.lp[i] = g.lp[i] /\ e.w[i] = g.w[i] /\ e.r[i] = g.r[i]
         /\ e.last[i] = g.last[i] /\ e.val[i] = g.val[i]
         /\ (Writes(e, i) <=> Writes(g, i)) /\ (Reads(e, i) <=> Reads(g, i)) /\ Within(e, i) = Within(g, i)
         /\ WBuf(e, i) = WBuf(g, i) /\ RBuf(e, i) = RBuf(g, i) /\ Source(e, i) = Source(g, i)
         /\ ProgCmd(e, i) = ProgCmd(g, i) /\ ReadCmd(e, i) = ReadCmd(g, i)
         /\ \A page : HasData(page, e, i) <=> HasData(page, g, i)
<1>1. i \in 0 .. g.N /\ i - 1 \in 0 .. g.N
  OBVIOUS
<1>2. /\ e.P[i] = g.P[i] /\ e.lp[i] = g.lp[i] /\ e.w[i] = g.w[i] /\ e.r[i] = g.r[i]
      /\ e.last[i] = g.last[i] /\ e.val[i] = g.val[i] /\ e.last[i-1] = g.last[i-1] /\ e.loc = g.loc
  BY <1>1 DEF Continues
<1>3. /\ (Writes(e, i) <=> Writes(g, i)) /\ (Reads(e, i) <=> Reads(g, i)) /\ Within(e, i) = Within(g, i)
      /\ WBuf(e, i) = WBuf(g, i) /\ RBuf(e, i) = RBuf(g, i) /\ Source(e, i) = Source(g, i)
      /\ \A page : HasData(page, e, i) <=> HasData(page, g, i)
  BY <1>2 DEF Writes, Reads, Within, WBuf, RBuf, Source, HasData
<1>. QED BY <1>2, <1>3 DEF ProgCmd, ReadCmd

\* A page transfer so far.
LEMMA PageSoFar ==
  ASSUME NEW g, NEW e, g.N \in Nat, Continues(g, e), NEW i \in 1 .. g.N, PageRec(g, i)
  PROVE  PageRec(e, i)
<1>1. i \in 0 .. g.N /\ i - 1 \in 0 .. g.N
  OBVIOUS
<1>2. /\ e.P[i] = g.P[i] /\ e.lp[i] = g.lp[i] /\ e.w[i] = g.w[i] /\ e.r[i] = g.r[i]
      /\ e.last[i] = g.last[i] /\ e.val[i] = g.val[i]
      /\ e.w[i-1] = g.w[i-1] /\ e.r[i-1] = g.r[i-1] /\ e.last[i-1] = g.last[i-1] /\ e.val[i-1] = g.val[i-1]
  BY <1>1 DEF Continues
<1>. QED BY <1>2, SameRec

\* What a page of a new command is.
LEMMA PageAppended ==
  ASSUME NEW g, NEW e, NEW r, Appends(g, e, r), NEW k \in 1 .. NumPages(r),
         r.op \in {"read", "write"}
  PROVE  /\ e.lp[g.N + k] = Lpn(r) + k - 1
         /\ e.P[g.N + k].op = r.op
         /\ e.P[g.N + k].off = First(r, Lpn(r) + k - 1)
         /\ e.P[g.N + k].n = Final(r, Lpn(r) + k - 1) - First(r, Lpn(r) + k - 1) + 1
         /\ \A s \in Sectors : e.P[g.N + k].exp[s] = IF r.op = "read" THEN Expected(Lpn(r) + k - 1)[s] ELSE writes + 1
         /\ (Writes(e, g.N + k) <=> r.op = "write") /\ (Reads(e, g.N + k) <=> r.op = "read")
<1>1. e.P[g.N + k] = PageOf(r, Lpn(r) + k - 1, writes + 1) /\ e.lp[g.N + k] = Lpn(r) + k - 1
  BY DEF Appends
<1>. QED BY <1>1 DEF PageOf, Writes, Reads

\* A page of a new command is the transfer that the host expects.
LEMMA NewPage ==
  ASSUME NEW g, NEW e, g.N \in Nat, g.w[g.N] \in Nat, g.r[g.N] \in Nat, writes \in Nat, Sent(g),
         NEW r \in [op : {"none", "read", "write"}, lba : Nat, n : Nat], r.op \in {"read", "write"}, r.n > 0,
         r.lba + r.n <= NumLpns * SectorsPerPage,
         Appends(g, e, r), NEW k \in 1 .. NumPages(r)
  PROVE  PageRec(e, g.N + k)
<1>1. PICK N, m, a, i, l : N = g.N /\ m = NumPages(r) /\ a = Lpn(r) /\ i = g.N + k /\ l = a + k - 1
  OBVIOUS
<1>2. /\ a \in Int /\ m \in Nat \ {0} /\ m = LastLpn(r) - a + 1 /\ LastLpn(r) \in Int
      /\ \A x \in a .. LastLpn(r) : /\ x \in Lpns /\ First(r, x) \in Nat
                                    /\ Final(r, x) - First(r, x) + 1 \in Nat \ {0} /\ Final(r, x) \in Sectors
      /\ \A x \in Lpns, s \in Sectors : AddrIn(r, x, s) <=> x \in a .. LastLpn(r) /\ s \in First(r, x) .. Final(r, x)
  <2>1. a \in Lpns /\ LastLpn(r) \in Lpns
    BY <1>1, PagesOf
  <2>. QED BY <1>1, <2>1, PagesOf DEF AddrIn, Lpns
<1>3. N \in Nat /\ k \in 1 .. m /\ i - 1 = N + (k - 1) /\ k - 1 \in 0 .. m /\ k \in 0 .. m /\ k \in Nat
      /\ l \in a .. LastLpn(r) /\ l \in Int
  BY <1>1, <1>2
<1>4. l \in Lpns
  BY <1>2, <1>3
<1>5. PICK p, z : p = First(r, l) /\ z = Final(r, l) /\ p \in Nat /\ z \in Nat /\ z - p + 1 \in Nat \ {0}
                  /\ z < SectorsPerPage /\ SectorsPerPage \in Nat
  <2>1. First(r, l) \in Nat /\ Final(r, l) - First(r, l) + 1 \in Nat \ {0} /\ Final(r, l) \in Sectors
    BY <1>2, <1>3
  <2>2. SectorsPerPage \in Nat
    BY FlashAssumption
  <2>. QED BY <2>1, <2>2 DEF Sectors
<1>6. /\ e.lp[i] = l /\ e.P[i].op = r.op /\ e.P[i].off = p /\ e.P[i].n = z - p + 1
      /\ \A s \in Sectors : e.P[i].exp[s] = IF r.op = "read" THEN Expected(l)[s] ELSE writes + 1
      /\ (Writes(e, i) <=> r.op = "write") /\ (Reads(e, i) <=> r.op = "read")
  BY <1>1, <1>5, PageAppended
<1>7. Within(e, i) = p .. z
  <2>1. p + (z - p + 1) - 1 = z
    BY <1>5
  <2>. QED BY <1>6, <2>1 DEF Within
<1>8. \A j \in 0 .. m :
        /\ e.w[N + j] = IF r.op = "write" THEN g.w[N] + j ELSE g.w[N]
        /\ e.r[N + j] = IF r.op = "write" THEN g.r[N] ELSE g.r[N] + j
        /\ \A x \in Lpns :
             /\ e.last[N + j][x] = IF WrittenBy(r, j, x) THEN N + (x - a) + 1 ELSE g.last[N][x]
             /\ \A s \in Sectors : e.val[N + j][x][s] = IF WrittenBy(r, j, x) /\ AddrIn(r, x, s) THEN writes + 1
                                                        ELSE g.val[N][x][s]
  BY <1>1 DEF Appends
<1>9. /\ e.w[i] = IF r.op = "write" THEN g.w[N] + k ELSE g.w[N]
      /\ e.r[i] = IF r.op = "write" THEN g.r[N] ELSE g.r[N] + k
      /\ e.w[i-1] = IF r.op = "write" THEN g.w[N] + (k - 1) ELSE g.w[N]
      /\ e.r[i-1] = IF r.op = "write" THEN g.r[N] ELSE g.r[N] + (k - 1)
  BY <1>1, <1>3, <1>8
<1>10. \A x \in Lpns :
         /\ e.last[i][x] = IF WrittenBy(r, k, x) THEN N + (x - a) + 1 ELSE g.last[N][x]
         /\ e.last[i-1][x] = IF WrittenBy(r, k - 1, x) THEN N + (x - a) + 1 ELSE g.last[N][x]
         /\ \A s \in Sectors :
              /\ e.val[i][x][s] = IF WrittenBy(r, k, x) /\ AddrIn(r, x, s) THEN writes + 1 ELSE g.val[N][x][s]
              /\ e.val[i-1][x][s] = IF WrittenBy(r, k - 1, x) /\ AddrIn(r, x, s) THEN writes + 1 ELSE g.val[N][x][s]
  BY <1>1, <1>3, <1>8
<1>11. \A x \in Lpns : /\ r.op # "write" => ~WrittenBy(r, k, x) /\ ~WrittenBy(r, k - 1, x)
                       /\ r.op = "write" => /\ x = l => WrittenBy(r, k, x) /\ ~WrittenBy(r, k - 1, x)
                                            /\ x # l => (WrittenBy(r, k, x) <=> WrittenBy(r, k - 1, x))
  BY <1>1, <1>2, <1>3 DEF WrittenBy, Lpns
<1>12. e.lp[i] \in Lpns /\ (Writes(e, i) \/ Reads(e, i)) /\ e.P[i].off \in Nat /\ e.P[i].n \in Nat \ {0}
       /\ e.P[i].off + e.P[i].n <= SectorsPerPage
  BY <1>4, <1>5, <1>6
<1>13. g.w[N] \in Nat /\ g.r[N] \in Nat
  BY <1>1
<1>14. ASSUME r.op = "write"
       PROVE  /\ e.w[i] = e.w[i-1] + 1 /\ e.r[i] = e.r[i-1]
              /\ \A x \in Lpns : e.last[i][x] = IF x = l THEN i ELSE e.last[i-1][x]
              /\ \A x \in Lpns, s \in Sectors :
                   e.val[i][x][s] = IF x = l /\ s \in p .. z THEN e.P[i].exp[s] ELSE e.val[i-1][x][s]
              /\ \A s \in Sectors : e.P[i].exp[s] = e.P[i].exp[0] /\ e.P[i].exp[s] \in Nat \ {0}
  <2>1. e.w[i] = e.w[i-1] + 1 /\ e.r[i] = e.r[i-1]
    BY <1>3, <1>9, <1>13, <1>14
  <2>2. \A x \in Lpns : e.last[i][x] = IF x = l THEN i ELSE e.last[i-1][x]
    <3>1. N + (l - a) + 1 = i
      BY <1>1, <1>2, <1>3
    <3>. QED BY <1>10, <1>11, <1>14, <3>1
  <2>3. ASSUME NEW x \in Lpns, NEW s \in Sectors
        PROVE  e.val[i][x][s] = IF x = l /\ s \in p .. z THEN e.P[i].exp[s] ELSE e.val[i-1][x][s]
    <3>1. CASE x = l
      <4>1. AddrIn(r, x, s) <=> s \in p .. z
        BY <1>2, <1>3, <1>5, <3>1
      <4>2. e.P[i].exp[s] = writes + 1
        BY <1>6, <1>14
      <4>. QED BY <1>10, <1>11, <1>14, <3>1, <4>1, <4>2
    <3>2. CASE x # l
      BY <1>10, <1>11, <1>14, <3>2
    <3>. QED BY <3>1, <3>2
  <2>4. \A s \in Sectors : e.P[i].exp[s] = e.P[i].exp[0] /\ e.P[i].exp[s] \in Nat \ {0}
    <3>1. 0 \in Sectors
      BY FlashAssumption DEF Sectors
    <3>2. \A s \in Sectors : e.P[i].exp[s] = writes + 1
      BY <1>6, <1>14
    <3>. QED BY <3>1, <3>2
  <2>. QED BY <2>1, <2>2, <2>3, <2>4
<1>15. ASSUME r.op = "read"
       PROVE  /\ e.w[i] = e.w[i-1] /\ e.r[i] = e.r[i-1] + 1
              /\ \A x \in Lpns : e.last[i][x] = e.last[i-1][x] /\ \A s \in Sectors : e.val[i][x][s] = e.val[i-1][x][s]
              /\ \A s \in Sectors : LET old(x) == e.val[i][l][x]
                                    IN  e.P[i].exp[s] = IF old(s) # 0 THEN old(s)
                                                        ELSE IF \A x \in Sectors : old(x) = 0 THEN Erased ELSE Stale
  <2>1. e.w[i] = e.w[i-1] /\ e.r[i] = e.r[i-1] + 1
    BY <1>3, <1>9, <1>13, <1>15
  <2>2. \A x \in Lpns : e.last[i][x] = e.last[i-1][x] /\ \A s \in Sectors : e.val[i][x][s] = e.val[i-1][x][s]
    BY <1>10, <1>11, <1>15
  <2>3. \A x \in Sectors : e.val[i][l][x] = disk[l * SectorsPerPage + x]
    <3>1. \A x \in Sectors : e.val[i][l][x] = g.val[N][l][x]
      BY <1>4, <1>10, <1>11, <1>15
    <3>. QED BY <1>1, <1>4, <3>1 DEF Sent
  <2>4. \A s \in Sectors : Expected(l)[s] = IF disk[l * SectorsPerPage + s] # 0 THEN disk[l * SectorsPerPage + s]
                             ELSE IF \A x \in Sectors : disk[l * SectorsPerPage + x] = 0 THEN Erased ELSE Stale
    BY DEF Expected
  <2>5. \A s \in Sectors : e.P[i].exp[s] = Expected(l)[s]
    BY <1>6, <1>15
  <2>. QED BY <2>1, <2>2, <2>3, <2>4, <2>5
<1>16. PageRec(e, i)
  <2>1. CASE r.op = "write"
    BY <1>6, <1>7, <1>12, <1>14, <2>1 DEF PageRec
  <2>2. CASE r.op = "read"
    BY <1>6, <1>7, <1>12, <1>15, <2>2 DEF PageRec
  <2>. QED BY <2>1, <2>2
<1>. QED BY <1>1, <1>16

\* The longer history is one.
LEMMA HistoryContinues ==
  ASSUME NEW g, NEW e, History(g), writes \in Nat, Sent(g), Continues(g, e),
         NEW r \in [op : {"none", "read", "write"}, lba : Nat, n : Nat], r.op \in {"read", "write"}, r.n > 0,
         r.lba + r.n <= NumLpns * SectorsPerPage, Appends(g, e, r)
  PROVE  History(e)
<1>1. PICK N, m, a : N = g.N /\ m = NumPages(r) /\ a = Lpn(r)
  OBVIOUS
<1>2. /\ N \in Nat /\ g.f \in 0 .. N /\ g.h \in 0 .. N /\ N \in 0 .. N
      /\ \A i \in 0 .. N : g.w[i] \in Nat /\ g.r[i] \in Nat
      /\ \A i, j \in 0 .. N : i <= j => g.w[i] <= g.w[j] /\ g.r[i] <= g.r[j]
      /\ \A i \in 0 .. N, l \in Lpns :
           /\ g.last[i][l] \in 0 .. i
           /\ g.last[i][l] # 0 => Writes(g, g.last[i][l]) /\ g.lp[g.last[i][l]] = l
           /\ \A s \in Sectors : g.val[i][l][s] = g.val[g.last[i][l]][l][s]
      /\ \A l \in Lpns, s \in Sectors : g.val[0][l][s] = 0
      /\ \A i \in 1 .. N : PageRec(g, i)
  BY <1>1 DEF History
<1>3. m \in Nat \ {0} /\ a \in Int
  <2>1. a \in Lpns /\ m \in Nat \ {0}
    BY <1>1, PagesOf
  <2>. QED BY <2>1 DEF Lpns
<1>4. e.N = N + m /\ e.f = g.f /\ e.h = g.h
  BY <1>1 DEF Appends, Continues
<1>5. \A i \in 0 .. N : e.w[i] = g.w[i] /\ e.r[i] = g.r[i] /\ e.last[i] = g.last[i] /\ e.val[i] = g.val[i]
  BY <1>1 DEF Continues
<1>6. \A j \in 0 .. m :
        /\ e.w[N + j] = IF r.op = "write" THEN g.w[N] + j ELSE g.w[N]
        /\ e.r[N + j] = IF r.op = "write" THEN g.r[N] ELSE g.r[N] + j
        /\ \A x \in Lpns :
             /\ e.last[N + j][x] = IF WrittenBy(r, j, x) THEN N + (x - a) + 1 ELSE g.last[N][x]
             /\ \A s \in Sectors : e.val[N + j][x][s] = IF WrittenBy(r, j, x) /\ AddrIn(r, x, s) THEN writes + 1
                                                        ELSE g.val[N][x][s]
  BY <1>1 DEF Appends
<1>7. \A i \in 0 .. N + m : i \in 0 .. N \/ \E k \in 1 .. m : i = N + k
  <2> SUFFICES ASSUME NEW i \in 0 .. N + m, ~(i \in 0 .. N) PROVE \E k \in 1 .. m : i = N + k
    OBVIOUS
  <2>1. i - N \in 1 .. m /\ i = N + (i - N)
    BY <1>2, <1>3
  <2>. QED BY <2>1
<1>8. g.w[N] \in Nat /\ g.r[N] \in Nat
  BY <1>2
<1>9. ASSUME NEW k \in 1 .. m
      PROVE  /\ e.w[N + k] \in Nat /\ g.w[N] <= e.w[N + k] /\ e.r[N + k] \in Nat /\ g.r[N] <= e.r[N + k]
             /\ \A j \in 1 .. k : e.w[N + j] <= e.w[N + k] /\ e.r[N + j] <= e.r[N + k]
  <2>1. \A j \in 1 .. k : j \in 0 .. m
    BY <1>3
  <2>2. k \in 0 .. m
    OBVIOUS
  <2>3. CASE r.op = "write"
    <3>1. \A j \in 1 .. k : e.w[N + j] = g.w[N] + j /\ e.r[N + j] = g.r[N]
      BY <1>6, <2>1, <2>3
    <3>2. k \in 1 .. k
      BY <1>3
    <3>. QED BY <1>8, <3>1, <3>2
  <2>4. CASE r.op # "write"
    <3>1. \A j \in 1 .. k : e.w[N + j] = g.w[N] /\ e.r[N + j] = g.r[N] + j
      BY <1>6, <2>1, <2>4
    <3>2. k \in 1 .. k
      BY <1>3
    <3>. QED BY <1>8, <3>1, <3>2
  <2>. QED BY <2>3, <2>4
<1>10. \A i \in 0 .. e.N : e.w[i] \in Nat /\ e.r[i] \in Nat
  BY <1>2, <1>4, <1>5, <1>7, <1>9
<1>11. ASSUME NEW i \in 0 .. e.N, NEW j \in 0 .. e.N, i <= j
       PROVE  e.w[i] <= e.w[j] /\ e.r[i] <= e.r[j]
  <2>1. CASE j \in 0 .. N
    <3>1. i \in 0 .. N
      BY <1>2, <1>11, <2>1
    <3>. QED BY <1>2, <1>5, <1>11, <2>1, <3>1
  <2>2. CASE \E k \in 1 .. m : j = N + k
    <3>1. PICK k \in 1 .. m : j = N + k
      BY <2>2
    <3>2. CASE i \in 0 .. N
      <4>1. /\ g.w[i] <= g.w[N] /\ g.r[i] <= g.r[N] /\ g.w[i] \in Nat /\ g.r[i] \in Nat
            /\ e.w[i] = g.w[i] /\ e.r[i] = g.r[i]
        BY <1>2, <1>5, <3>2
      <4>2. g.w[N] <= e.w[j] /\ g.r[N] <= e.r[j] /\ e.w[j] \in Nat /\ e.r[j] \in Nat
        BY <1>9, <3>1
      <4>. QED BY <1>8, <4>1, <4>2
    <3>3. CASE \E x \in 1 .. m : i = N + x
      <4>1. PICK x \in 1 .. m : i = N + x
        BY <3>3
      <4>2. x \in 1 .. k
        BY <1>2, <1>11, <3>1, <4>1
      <4>. QED BY <1>9, <3>1, <4>1, <4>2
    <3>. QED BY <1>4, <1>7, <3>2, <3>3
  <2>. QED BY <1>4, <1>7, <2>1, <2>2
<1>12. \A k \in 1 .. m : /\ e.lp[N + k] = a + k - 1
                         /\ (Writes(e, N + k) <=> r.op = "write")
  BY <1>1, PageAppended
<1>13. \A l \in Lpns : /\ g.last[N][l] \in 0 .. N
                       /\ g.last[N][l] # 0 => Writes(e, g.last[N][l]) /\ e.lp[g.last[N][l]] = l
                       /\ \A s \in Sectors : g.val[N][l][s] = e.val[g.last[N][l]][l][s]
  <2> SUFFICES ASSUME NEW l \in Lpns
               PROVE  /\ g.last[N][l] \in 0 .. N
                      /\ g.last[N][l] # 0 => Writes(e, g.last[N][l]) /\ e.lp[g.last[N][l]] = l
                      /\ \A s \in Sectors : g.val[N][l][s] = e.val[g.last[N][l]][l][s]
    OBVIOUS
  <2>0. PICK k : k = g.last[N][l]
    OBVIOUS
  <2>1. /\ k \in 0 .. N
        /\ k # 0 => Writes(g, k) /\ g.lp[k] = l
        /\ \A s \in Sectors : g.val[N][l][s] = g.val[k][l][s]
    BY <1>2, <2>0
  <2>2. k # 0 => k \in 1 .. g.N
    BY <1>1, <1>2, <2>1
  <2>3. k # 0 => (Writes(e, k) <=> Writes(g, k)) /\ e.lp[k] = g.lp[k]
    BY <1>1, <1>2, <2>2, SameSoFar
  <2>4. e.val[k] = g.val[k]
    BY <1>5, <2>1
  <2>. QED BY <2>0, <2>1, <2>3, <2>4
<1>14. ASSUME NEW i \in 0 .. e.N, NEW l \in Lpns
       PROVE  /\ e.last[i][l] \in 0 .. i
              /\ e.last[i][l] # 0 => Writes(e, e.last[i][l]) /\ e.lp[e.last[i][l]] = l
              /\ \A s \in Sectors : e.val[i][l][s] = e.val[e.last[i][l]][l][s]
  <2>1. CASE i \in 0 .. N
    <3>1. PICK k : k = g.last[i][l] /\ e.last[i][l] = k /\ e.val[i] = g.val[i]
      BY <1>5, <2>1
    <3>2. /\ k \in 0 .. i
          /\ k # 0 => Writes(g, k) /\ g.lp[k] = l
          /\ \A s \in Sectors : g.val[i][l][s] = g.val[k][l][s]
      BY <1>2, <2>1, <3>1
    <3>3. k \in 0 .. N /\ (k # 0 => k \in 1 .. g.N)
      BY <1>1, <1>2, <2>1, <3>2
    <3>4. k # 0 => (Writes(e, k) <=> Writes(g, k)) /\ e.lp[k] = g.lp[k]
      BY <1>1, <1>2, <3>3, SameSoFar
    <3>5. e.val[k] = g.val[k]
      BY <1>5, <3>3
    <3>. QED BY <3>1, <3>2, <3>4, <3>5
  <2>2. CASE \E k \in 1 .. m : i = N + k
    <3>1. PICK k \in 1 .. m : i = N + k
      BY <2>2
    <3>2. k \in 0 .. m /\ k \in Nat
      BY <3>1
    <3>3. CASE WrittenBy(r, k, l)
      <4>1. r.op = "write" /\ l \in a .. a + k - 1 /\ l \in Int
        BY <1>1, <1>3, <3>2, <3>3 DEF WrittenBy, Lpns
      <4>2. PICK j : j = l - a + 1 /\ j \in 1 .. m /\ j \in 0 .. m /\ j \in 1 .. k /\ a + j - 1 = l /\ N + (l - a) + 1 = N + j
        BY <1>2, <1>3, <3>2, <4>1
      <4>3. e.last[i][l] = N + j
        BY <1>6, <3>1, <3>2, <3>3, <4>2
      <4>4. WrittenBy(r, j, l)
        BY <1>1, <1>3, <4>1, <4>2 DEF WrittenBy
      <4>5. Writes(e, N + j) /\ e.lp[N + j] = l
        BY <1>12, <4>1, <4>2
      <4>6. \A s \in Sectors : e.val[i][l][s] = e.val[N + j][l][s]
        BY <1>6, <3>1, <3>2, <3>3, <4>2, <4>4
      <4>7. N + j \in 0 .. i
        BY <1>2, <3>1, <4>2
      <4>. QED BY <4>3, <4>5, <4>6, <4>7
    <3>4. CASE ~WrittenBy(r, k, l)
      <4>1. e.last[i][l] = g.last[N][l] /\ \A s \in Sectors : e.val[i][l][s] = g.val[N][l][s]
        BY <1>6, <3>1, <3>2, <3>4
      <4>2. \A x \in 0 .. N : x \in 0 .. i
        BY <1>2, <3>1
      <4>. QED BY <1>13, <4>1, <4>2
    <3>. QED BY <3>3, <3>4
  <2>. QED BY <1>4, <1>7, <2>1, <2>2
<1>15. \A l \in Lpns, s \in Sectors : e.val[0][l][s] = 0
  <2>1. 0 \in 0 .. N
    BY <1>2
  <2>. QED BY <1>2, <1>5, <2>1
<1>16. \A i \in 1 .. e.N : PageRec(e, i)
  <2> SUFFICES ASSUME NEW i \in 1 .. e.N PROVE PageRec(e, i)
    OBVIOUS
  <2>1. CASE i \in 1 .. N
    <3>1. PageRec(g, i)
      BY <1>2, <2>1
    <3>. QED BY <1>1, <1>2, <2>1, <3>1, PageSoFar
  <2>2. CASE ~(i \in 1 .. N)
    <3>1. PICK k \in 1 .. m : i = N + k
      <4>1. i \in 0 .. N + m /\ i \notin 0 .. N
        BY <1>2, <1>3, <1>4, <2>2
      <4>. QED BY <1>7, <4>1
    <3>. QED BY <1>1, <1>2, <1>8, <3>1, NewPage
  <2>. QED BY <2>1, <2>2
<1>17. e.N \in Nat /\ e.f \in 0 .. e.N /\ e.h \in 0 .. e.N
  BY <1>2, <1>3, <1>4
<1>. QED BY <1>10, <1>11, <1>14, <1>15, <1>16, <1>17 DEF History

\* A function on 1 .. m is a sequence.
LEMMA IsSeq ==
  ASSUME NEW T, NEW m \in Nat, NEW t \in [1 .. m -> T]
  PROVE  t \in Seq(T)
OBVIOUS

\* The transfers of a command are transfers.
LEMMA TransfersType ==
  ASSUME DataTypeOK, NEW r \in [op : {"none", "read", "write"}, lba : Nat, n : Nat], r.op \in {"read", "write"}, r.n > 0,
         r.lba + r.n <= NumLpns * SectorsPerPage, NEW m, m = NumPages(r), NEW t, t = Transfers(r, writes + 1)
  PROVE  /\ m \in Nat \ {0} /\ t \in Seq([op : {"read", "write"}, off : Nat, n : Nat, exp : [Sectors -> Vals]])
         /\ Len(t) = m /\ \A k \in 1 .. m : t[k] = PageOf(r, Lpn(r) + k - 1, writes + 1)
<1>1. PICK a : a = Lpn(r)
  OBVIOUS
<1>2. /\ a \in Int /\ m \in Nat \ {0} /\ m = LastLpn(r) - a + 1 /\ LastLpn(r) \in Int
      /\ \A x \in a .. LastLpn(r) : /\ x \in Lpns /\ First(r, x) \in Nat
                                    /\ Final(r, x) - First(r, x) + 1 \in Nat \ {0}
  <2>1. a \in Lpns /\ LastLpn(r) \in Lpns
    BY <1>1, PagesOf
  <2>. QED BY <1>1, <2>1, PagesOf DEF Lpns
<1>3. t = [k \in 1 .. m |-> PageOf(r, a + k - 1, writes + 1)]
  BY <1>1 DEF Transfers
<1>4. ASSUME NEW k \in 1 .. m
      PROVE  PageOf(r, a + k - 1, writes + 1) \in [op : {"read", "write"}, off : Nat, n : Nat, exp : [Sectors -> Vals]]
  <2>1. PICK l : l = a + k - 1 /\ l \in a .. LastLpn(r)
    BY <1>2
  <2>2. l \in Lpns /\ First(r, l) \in Nat /\ Final(r, l) - First(r, l) + 1 \in Nat
    BY <1>2, <2>1
  <2>3. Expected(l) \in [Sectors -> Vals]
    <3>1. \A s \in Sectors : disk[l * SectorsPerPage + s] \in Nat
      BY <2>2, SectorAddr DEF DataTypeOK
    <3>. QED BY <3>1 DEF Expected, Vals
  <2>4. [s \in Sectors |-> writes + 1] \in [Sectors -> Vals]
    BY DEF DataTypeOK, Vals
  <2>. QED BY <2>1, <2>2, <2>3, <2>4 DEF PageOf
<1>5. PICK T : T = [op : {"read", "write"}, off : Nat, n : Nat, exp : [Sectors -> Vals]]
  OBVIOUS
<1>6. t \in [1 .. m -> T] /\ DOMAIN t = 1 .. m /\ \A k \in 1 .. m : t[k] = PageOf(r, a + k - 1, writes + 1)
  <2>1. \A k \in 1 .. m : PageOf(r, a + k - 1, writes + 1) \in T
    BY <1>4, <1>5
  <2>2. t \in [1 .. m -> T]
    BY <1>3, <2>1
  <2>3. \A k \in 1 .. m : t[k] = PageOf(r, a + k - 1, writes + 1)
    BY <1>3
  <2>. QED BY <2>2, <2>3
<1>7. t \in Seq(T)
  <2>1. m \in Nat /\ t \in [1 .. m -> T]
    BY <1>2, <1>6
  <2>. QED BY <2>1, IsSeq
<1>8. Len(t) = m
  <2>1. m \in Nat /\ DOMAIN t = 1 .. m
    BY <1>2, <1>6
  <2>. QED BY <1>7, <2>1, LenProperties
<1>. QED BY <1>1, <1>2, <1>5, <1>6, <1>7, <1>8

\* The link and the disk are those of the longer history.
LEMMA SentContinues ==
  ASSUME DataTypeOK, NEW g, NEW e, History(g), Sent(g), Continues(g, e),
         NEW r \in [op : {"none", "read", "write"}, lba : Nat, n : Nat], r.op \in {"read", "write"}, r.n > 0,
         r.lba + r.n <= NumLpns * SectorsPerPage, Appends(g, e, r), HostSends(r)
  PROVE  /\ Sent(e)'
         /\ link' \in Seq([op : {"read", "write"}, off : Nat, n : Nat, exp : [Sectors -> Vals]])
         /\ disk' \in [Lbas -> Nat] /\ writes' \in Nat
<1>1. PICK N, h, m, a, T, t, q : /\ N = g.N /\ h = g.h /\ m = NumPages(r) /\ a = Lpn(r) /\ q = Len(link)
                                 /\ T = [op : {"read", "write"}, off : Nat, n : Nat, exp : [Sectors -> Vals]]
                                 /\ t = Transfers(r, writes + 1)
  OBVIOUS
<1>2. /\ N \in Nat /\ h \in Nat /\ h <= N /\ q = N - h /\ q \in Nat
      /\ \A k \in 1 .. q : link[k] = g.P[h + k]
      /\ \A l \in Lpns, s \in Sectors : disk[l * SectorsPerPage + s] = g.val[N][l][s]
  <2>1. N \in Nat /\ h \in Nat /\ h <= N
    BY <1>1, InOrder
  <2>. QED BY <1>1, <2>1 DEF Sent
<1>3. /\ link \in Seq(T) /\ t \in Seq(T) /\ Len(t) = m /\ m \in Nat \ {0}
      /\ \A k \in 1 .. m : t[k] = PageOf(r, a + k - 1, writes + 1)
  <2>1. /\ m \in Nat \ {0} /\ t \in Seq(T) /\ Len(t) = m
        /\ \A k \in 1 .. m : t[k] = PageOf(r, a + k - 1, writes + 1)
    <3>1. m = NumPages(r) /\ t = Transfers(r, writes + 1)
      BY <1>1
    <3>2. /\ m \in Nat \ {0} /\ t \in Seq([op : {"read", "write"}, off : Nat, n : Nat, exp : [Sectors -> Vals]])
          /\ Len(t) = m /\ \A k \in 1 .. m : t[k] = PageOf(r, Lpn(r) + k - 1, writes + 1)
      BY <3>1, TransfersType, ZenonT(60)
    <3>. QED BY <1>1, <3>2
  <2>2. link \in Seq(T)
    BY <1>1 DEF DataTypeOK
  <2>. QED BY <2>1, <2>2
<1>4. link' = link \o t /\ writes' = IF r.op = "write" THEN writes + 1 ELSE writes
  BY <1>1 DEF HostSends
<1>5. /\ link' \in Seq(T) /\ Len(link') = q + m
      /\ \A k \in 1 .. q + m : link'[k] = IF k <= q THEN link[k] ELSE t[k - q]
  <2>1. PICK u : u = link /\ u \in Seq(T) /\ Len(u) = q
    BY <1>1, <1>3
  <2>2. link' = u \o t
    BY <1>4, <2>1
  <2>3. /\ u \o t \in Seq(T) /\ Len(u \o t) = q + m
        /\ \A k \in 1 .. q + m : (u \o t)[k] = IF k <= q THEN u[k] ELSE t[k - q]
    <3>1. u \in Seq(T) /\ t \in Seq(T)
      BY <1>3, <2>1
    <3>2. /\ u \o t \in Seq(T) /\ Len(u \o t) = Len(u) + Len(t)
          /\ \A k \in 1 .. Len(u) + Len(t) : (u \o t)[k] = IF k <= Len(u) THEN u[k] ELSE t[k - Len(u)]
      BY <3>1, ConcatProperties
    <3>. QED BY <1>3, <2>1, <3>2
  <2>. QED BY <2>1, <2>2, <2>3
<1>6. e.N = N + m /\ e.h = h
  BY <1>1 DEF Appends, Continues
<1>7. ASSUME NEW k \in 1 .. q + m PROVE link'[k] = e.P[h + k]
  <2>1. CASE k <= q
    <3>1. k \in 1 .. q /\ h + k \in 1 .. N
      BY <1>2, <1>3, <2>1
    <3>. QED BY <1>1, <1>2, <1>5, <2>1, <3>1 DEF Continues
  <2>2. CASE ~(k <= q)
    <3>1. PICK j : j = k - q /\ j \in 1 .. m /\ h + k = N + j
      BY <1>2, <1>3, <2>2
    <3>2. e.P[N + j] = PageOf(r, a + j - 1, writes + 1)
      BY <1>1, <3>1 DEF Appends
    <3>. QED BY <1>3, <1>5, <2>2, <3>1, <3>2
  <2>. QED BY <2>1, <2>2
<1>8. ASSUME NEW l \in Lpns, NEW s \in Sectors PROVE disk'[l * SectorsPerPage + s] = e.val[N + m][l][s]
  <2>1. e.val[N + m][l][s] = IF WrittenBy(r, m, l) /\ AddrIn(r, l, s) THEN writes + 1 ELSE g.val[N][l][s]
    <3>1. m \in 0 .. m
      BY <1>3
    <3>. QED BY <1>1, <3>1 DEF Appends
  <2>2. l * SectorsPerPage + s \in Lbas
    BY SectorAddr
  <2>6. disk[l * SectorsPerPage + s] = g.val[N][l][s]
    BY <1>2, Zenon
  <2>7. PICK x : x = l * SectorsPerPage + s
    OBVIOUS
  <2>5. x = l * SectorsPerPage + s /\ x \in Lbas /\ disk[x] = g.val[N][l][s]
    BY <2>2, <2>6, <2>7, Zenon
  <2>3. CASE r.op = "read"
    <3>1. disk' = disk
      BY <2>3 DEF HostSends
    <3>2. ~WrittenBy(r, m, l)
      BY <2>3 DEF WrittenBy
    <3>. QED BY <2>1, <2>5, <3>1, <3>2
  <2>4. CASE r.op = "write"
    <3>1. disk'[x] = IF AddrIn(r, l, s) THEN writes + 1 ELSE disk[x]
      <4>1. disk' = [y \in Lbas |-> IF y \in r.lba .. r.lba + r.n - 1 THEN writes + 1 ELSE disk[y]]
        BY <2>4 DEF HostSends
      <4>. QED BY <2>5, <4>1 DEF AddrIn
    <3>2. AddrIn(r, l, s) => WrittenBy(r, m, l)
      <4>1. /\ AddrIn(r, l, s) => l \in a .. LastLpn(r)
            /\ m = LastLpn(r) - a + 1 /\ a \in Lpns /\ LastLpn(r) \in Lpns
        BY <1>1, PagesOf DEF AddrIn
      <4>2. a + m - 1 = LastLpn(r)
        BY <1>3, <4>1 DEF Lpns
      <4>. QED BY <1>1, <2>4, <4>1, <4>2 DEF WrittenBy
    <3>. QED BY <2>1, <2>5, <3>1, <3>2
  <2>. QED BY <2>3, <2>4
<1>9. Sent(e)'
  <2>1. Len(link') = e.N - e.h
    BY <1>2, <1>3, <1>5, <1>6
  <2>2. \A k \in 1 .. Len(link') : link'[k] = e.P[e.h + k]
    BY <1>5, <1>6, <1>7
  <2>3. \A l \in Lpns, s \in Sectors : disk'[l * SectorsPerPage + s] = e.val[e.N][l][s]
    BY <1>6, <1>8
  <2>. QED BY <2>1, <2>2, <2>3 DEF Sent
<1>10. disk' \in [Lbas -> Nat] /\ writes' \in Nat
  BY <1>4 DEF HostSends, DataTypeOK
<1>. QED BY <1>1, <1>5, <1>9, <1>10

\* The new command waits behind the others.
LEMMA QueuedContinues ==
  ASSUME RingTypeOK, NEW g, NEW e, History(g), Queued(g), Continues(g, e),
         NEW r \in Requests, r.op \in {"read", "write"}, NumPages(r) \in Nat, Appends(g, e, r), HostSends(r)
  PROVE  Queued(e)'
<1>1. PICK N, m, q, a : N = g.N /\ m = NumPages(r) /\ q = Len(eventq) /\ a = Lpn(r)
  OBVIOUS
<1>2. N \in Nat /\ g.f \in Nat /\ m \in Nat /\ q \in Nat /\ e.N = N + m /\ e.f = g.f
  <2>1. N \in Nat /\ g.f \in Nat
    BY <1>1, InOrder
  <2>. QED BY <1>1, <2>1 DEF Appends, Continues, RingTypeOK
<1>3. /\ Len(eventq') = q + 1 /\ eventq'[q + 1] = r /\ \A k \in 1 .. q : eventq'[k] = eventq[k]
      /\ pc' = pc /\ cmd' = cmd
  BY <1>1 DEF HostSends, RingTypeOK, ftlVars
<1>4. /\ \A k \in 1 .. q + 1 : g.st[k] \in 0 .. N
      /\ \A k \in 1 .. q : g.st[k+1] = g.st[k] + NumPages(eventq[k]) /\ PagesAre(g, eventq[k], g.st[k])
      /\ g.st[q + 1] = N
      /\ pc = "main" => g.st[1] = g.f
      /\ pc \notin {"main", "stopped"} => g.st[1] = g.f + NumPages(cmd) /\ PagesAre(g, cmd, g.f)
  BY <1>1 DEF Queued
<1>5. (\A k \in 1 .. q + 1 : e.st[k] = g.st[k]) /\ e.st[q + 2] = N + m
  BY <1>1, <1>2 DEF Appends
<1>6. ASSUME NEW c, NEW i \in Nat, NumPages(c) \in Nat, i + NumPages(c) \in 0 .. N, PagesAre(g, c, i)
      PROVE  PagesAre(e, c, i)
  <2>1. ASSUME NEW k \in 1 .. NumPages(c) PROVE e.P[i + k] = g.P[i + k] /\ e.lp[i + k] = g.lp[i + k]
    <3>1. i + k \in 1 .. g.N
      BY <1>1, <1>2, <1>6
    <3>. QED BY <3>1 DEF Continues
  <2>. QED BY <1>6, <2>1 DEF PagesAre
<1>7. \A k \in 1 .. q : NumPages(eventq[k]) \in Nat
  <2> SUFFICES ASSUME NEW k \in 1 .. q PROVE NumPages(eventq[k]) \in Nat
    OBVIOUS
  <2>1. eventq[k] \in Requests
    BY <1>1 DEF RingTypeOK
  <2>2. PICK c : c = eventq[k] /\ c \in [op : {"none", "read", "write"}, lba : Nat, n : Nat] /\ c.n > 0
                 /\ c.lba + c.n <= NumLpns * SectorsPerPage
    BY <2>1, TutorialAssumption DEF Lbas
  <2>. QED BY <2>2, PagesOf
<1>8. pc \notin {"main", "stopped"} => NumPages(cmd) \in Nat
  BY PagesOf DEF RingTypeOK
<1>9. ASSUME NEW k \in 1 .. Len(eventq') + 1 PROVE e.st[k] \in 0 .. e.N
  <2>1. k \in 1 .. q + 1 \/ k = q + 2
    BY <1>2, <1>3
  <2>2. \A x \in 0 .. N : x \in 0 .. N + m
    BY <1>2
  <2>3. N + m \in 0 .. N + m
    BY <1>2
  <2>. QED BY <1>2, <1>4, <1>5, <2>1, <2>2, <2>3
<1>10. ASSUME NEW k \in 1 .. Len(eventq')
       PROVE  e.st[k+1] = e.st[k] + NumPages(eventq'[k]) /\ PagesAre(e, eventq'[k], e.st[k])
  <2>1. CASE k \in 1 .. q
    <3>1. k \in 1 .. q + 1 /\ k + 1 \in 1 .. q + 1
      BY <1>2, <2>1
    <3>2. g.st[k+1] = g.st[k] + NumPages(eventq[k]) /\ PagesAre(g, eventq[k], g.st[k]) /\ eventq'[k] = eventq[k]
      BY <1>3, <1>4, <2>1
    <3>3. g.st[k] \in Nat /\ g.st[k+1] \in 0 .. N /\ NumPages(eventq[k]) \in Nat
      BY <1>2, <1>4, <1>7, <2>1, <3>1
    <3>4. PagesAre(e, eventq[k], g.st[k])
      BY <1>6, <3>2, <3>3
    <3>. QED BY <1>5, <3>1, <3>2, <3>4
  <2>2. CASE k = q + 1
    <3>1. q + 1 \in 1 .. q + 1 /\ k + 1 = q + 2
      BY <1>2, <2>2
    <3>2. e.st[k] = N /\ e.st[k + 1] = N + m /\ eventq'[k] = r
      BY <1>3, <1>4, <1>5, <2>2, <3>1
    <3>3. PagesAre(e, r, N)
      <4> SUFFICES ASSUME NEW j \in 1 .. m
                   PROVE  /\ e.P[N + j].op = r.op /\ e.lp[N + j] = a + j - 1
                          /\ e.P[N + j].off = First(r, a + j - 1)
                          /\ e.P[N + j].n = Final(r, a + j - 1) - First(r, a + j - 1) + 1
        BY <1>1 DEF PagesAre
      <4>. QED BY <1>1, PageAppended
    <3>. QED BY <1>1, <3>2, <3>3
  <2>. QED BY <1>2, <1>3, <2>1, <2>2
<1>11. e.st[Len(eventq') + 1] = e.N
  <2>1. q + 1 + 1 = q + 2
    BY <1>2
  <2>. QED BY <1>2, <1>3, <1>5, <2>1
<1>12. e.st[1] = g.st[1]
  <2>1. 1 \in 1 .. q + 1
    BY <1>2
  <2>. QED BY <1>5, <2>1
<1>13. ASSUME pc' \notin {"main", "stopped"}
       PROVE  e.st[1] = e.f + NumPages(cmd') /\ PagesAre(e, cmd', e.f)
  <2>1. g.st[1] = g.f + NumPages(cmd) /\ PagesAre(g, cmd, g.f) /\ NumPages(cmd) \in Nat
    BY <1>3, <1>4, <1>8, <1>13
  <2>2. g.f + NumPages(cmd) \in 0 .. N
    <3>1. 1 \in 1 .. q + 1
      BY <1>2
    <3>. QED BY <1>4, <2>1, <3>1
  <2>3. PagesAre(e, cmd, g.f)
    BY <1>2, <1>6, <2>1, <2>2
  <2>. QED BY <1>2, <1>3, <1>12, <2>1, <2>3
<1>14. pc' = "main" => e.st[1] = e.f
  BY <1>2, <1>3, <1>4, <1>12
<1>. QED BY <1>9, <1>10, <1>11, <1>13, <1>14, QueuedNext

\* What waits for the FTL, the banks and the SATA hardware is as it was.
LEMMA RestContinues ==
  ASSUME RingTypeOK, NEW g, NEW e, DataOK(g), Continues(g, e), e.N \in Nat, g.N <= e.N, UNCHANGED <<ctrlVars, ftlVars>>
  PROVE  /\ Counters(e)' /\ Places(e)' /\ Programs(e)' /\ Filled(e)'
         /\ Holes(e)' /\ HoleCmds(e)' /\ ReadCmds(e)' /\ Fetched(e)'
<1>1. /\ UNCHANGED <<wr, bank, nand, rbuf, wbuf, rd_limit, rd_done, wr_limit, wr_done, rbuf_ptr, wbuf_ptr>>
      /\ UNCHANGED <<page_map, g_target_row, g_ftl_read_buf_id, g_ftl_write_buf_id, pc, cmd, new>>
  BY DEF ctrlVars, ftlVars
<1>2. InFlight' = InFlight /\ (\A op : OutFor(op)' = OutFor(op)) /\ (MidWrite' <=> MidWrite)
  BY <1>1 DEF InFlight, OutFor, MidWrite
<1>3. History(g) /\ Queued(g) /\ Counters(g) /\ Places(g) /\ Programs(g) /\ Filled(g)
      /\ Holes(g) /\ HoleCmds(g) /\ ReadCmds(g) /\ Fetched(g)
  BY DEF DataOK
<1>4. /\ e.f = g.f /\ e.h = g.h /\ e.L = g.L /\ e.M = g.M /\ e.loc = g.loc
      /\ g.N \in Nat /\ g.f \in Nat /\ g.h \in Nat /\ g.f <= g.N /\ g.h <= g.N
  BY <1>3, InOrder DEF Continues
<1>5. /\ e.w[g.f] = g.w[g.f] /\ e.w[g.h] = g.w[g.h] /\ e.r[g.f] = g.r[g.f] /\ e.r[g.h] = g.r[g.h]
      /\ e.last[g.f] = g.last[g.f]
  <2>1. g.f \in 0 .. g.N /\ g.h \in 0 .. g.N
    BY <1>4
  <2>. QED BY <2>1 DEF Continues
<1>6. \A i \in 1 .. g.N :
         /\ e.P[i] = g.P[i] /\ e.lp[i] = g.lp[i] /\ e.w[i] = g.w[i] /\ e.r[i] = g.r[i]
         /\ e.last[i] = g.last[i] /\ e.val[i] = g.val[i]
         /\ (Writes(e, i) <=> Writes(g, i)) /\ (Reads(e, i) <=> Reads(g, i)) /\ Within(e, i) = Within(g, i)
         /\ WBuf(e, i) = WBuf(g, i) /\ RBuf(e, i) = RBuf(g, i) /\ Source(e, i) = Source(g, i)
         /\ ProgCmd(e, i) = ProgCmd(g, i) /\ ReadCmd(e, i) = ReadCmd(g, i)
         /\ \A page : HasData(page, e, i) <=> HasData(page, g, i)
  BY <1>4, SameSoFar
<1>7. \A i \in 1 .. g.N : Source(g, i) # 0 => Source(g, i) \in 1 .. g.N
  BY <1>3, SourceIs
<1>8. /\ \A i \in 1 .. g.f : i \in 1 .. g.N
      /\ \A i \in 1 .. g.h : i \in 1 .. g.N
      /\ \A i \in g.h + 1 .. g.f : i \in 1 .. g.N
      /\ \A i \in 1 .. g.N : i \in 1 .. e.N
  BY <1>4
<1>9. Written(e) = Written(g) /\ \A i \in Written(g) : i \in 1 .. g.N
  BY <1>4, <1>6, <1>8 DEF Written
<1>10. Counters(e)'
  BY <1>1, <1>3, <1>4, <1>5 DEF Counters
<1>11. Places(e)'
  BY <1>1, <1>2, <1>3, <1>4, <1>5, <1>9 DEF Places
<1>12. Programs(e)'
  BY <1>1, <1>2, <1>3, <1>4, <1>5, <1>6, <1>9 DEF Programs
<1>13. Filled(e)'
  BY <1>1, <1>3, <1>4, <1>6, <1>8 DEF Filled
<1>14. Holes(e)'
  <2> SUFFICES ASSUME NEW i \in 1 .. e.N, Writes(e, i), g.L < e.w[i],
                      i <= g.f \/ (i = g.f + 1 /\ pc \in {"right", "program"}),
                      NEW s \in Sectors \ Within(e, i), e.val[i][e.lp[i]][s] # 0
               PROVE  \/ wbuf[WBuf(e, i)][s] = e.val[i][e.lp[i]][s]
                      \/ \E c \in OutFor("hole") : c.buf = WBuf(e, i) /\ s \in SectorsOf(c)
                      \/ i = g.f + 1 /\ pc = "right" /\ s >= e.P[i].off + e.P[i].n
    BY <1>1, <1>2, <1>4 DEF Holes, SectorsOf
  <2>1. i \in 1 .. g.N
    <3>1. CASE i <= g.f
      BY <1>4, <3>1
    <3>2. CASE i = g.f + 1 /\ pc \in {"right", "program"}
      BY <1>3, <3>2, CmdPage
    <3>. QED BY <3>1, <3>2
  <2>2. /\ e.P[i] = g.P[i] /\ e.lp[i] = g.lp[i] /\ e.w[i] = g.w[i] /\ e.val[i] = g.val[i]
        /\ Writes(g, i) /\ Within(e, i) = Within(g, i) /\ WBuf(e, i) = WBuf(g, i)
    BY <1>6, <2>1
  <2>. QED BY <1>3, <2>1, <2>2 DEF Holes
<1>15. HoleCmds(e)'
  <2> SUFFICES ASSUME NEW c \in OutFor("hole")
               PROVE  \E i \in 1 .. e.N :
                        /\ Writes(e, i) /\ c.buf = WBuf(e, i) /\ SectorsOf(c) \cap Within(e, i) = {}
                        /\ Source(e, i) # 0 /\ Source(e, i) <= g.f
                        /\ c.bank = g.loc[Source(e, i)].bank /\ c.row = g.loc[Source(e, i)].row
                        /\ ProgCmd(e, Source(e, i)) # wr
                        /\ \/ i = g.f + 1 /\ pc \in {"right", "program"}
                           \/ i <= g.f /\ ProgCmd(e, i) = wr
    BY <1>1, <1>2, <1>4 DEF HoleCmds, SectorsOf
  <2>1. PICK i \in 1 .. g.N :
                        /\ Writes(g, i) /\ c.buf = WBuf(g, i) /\ SectorsOf(c) \cap Within(g, i) = {}
                        /\ Source(g, i) # 0 /\ Source(g, i) <= g.f
                        /\ c.bank = g.loc[Source(g, i)].bank /\ c.row = g.loc[Source(g, i)].row
                        /\ ProgCmd(g, Source(g, i)) # wr
                        /\ \/ i = g.f + 1 /\ pc \in {"right", "program"}
                           \/ i <= g.f /\ ProgCmd(g, i) = wr
    BY <1>3 DEF HoleCmds
  <2>2. /\ Writes(e, i) /\ Within(e, i) = Within(g, i) /\ WBuf(e, i) = WBuf(g, i)
        /\ Source(e, i) = Source(g, i) /\ ProgCmd(e, i) = ProgCmd(g, i)
    BY <1>6, <2>1
  <2>3. ProgCmd(e, Source(g, i)) = ProgCmd(g, Source(g, i))
    BY <1>6, <1>7, <2>1
  <2>. QED BY <1>8, <2>1, <2>2, <2>3
<1>16. ReadCmds(e)'
  <2> SUFFICES ASSUME NEW c \in OutFor("read")
               PROVE  \E i \in 1 .. g.f : /\ Reads(e, i) /\ g.M < e.r[i] /\ c = ReadCmd(e, i)
                                          /\ Source(e, i) # 0 /\ ProgCmd(e, Source(e, i)) # wr
    BY <1>1, <1>2, <1>4 DEF ReadCmds
  <2>1. PICK i \in 1 .. g.f : /\ Reads(g, i) /\ g.M < g.r[i] /\ c = ReadCmd(g, i)
                              /\ Source(g, i) # 0 /\ ProgCmd(g, Source(g, i)) # wr
    BY <1>3 DEF ReadCmds
  <2>2. /\ Reads(e, i) /\ e.r[i] = g.r[i] /\ ReadCmd(e, i) = ReadCmd(g, i) /\ Source(e, i) = Source(g, i)
    BY <1>6, <1>8, <2>1
  <2>3. ProgCmd(e, Source(g, i)) = ProgCmd(g, Source(g, i))
    BY <1>6, <1>7, <1>8, <2>1
  <2>. QED BY <2>1, <2>2, <2>3
<1>17. Fetched(e)'
  BY <1>1, <1>2, <1>3, <1>4, <1>6, <1>8 DEF Fetched
<1>. QED BY <1>10, <1>11, <1>12, <1>13, <1>14, <1>15, <1>16, <1>17

\* The host sends a command.
LEMMA HostSendsData ==
  ASSUME IInv, DataTypeOK, NEW g, DataOK(g), NEW r \in Requests, HostSends(r)
  PROVE  DataTypeOK' /\ \E e : DataOK(e)'
<1>1. /\ r \in [op : {"none", "read", "write"}, lba : Nat, n : Nat] /\ r.op \in {"read", "write"} /\ r.n > 0
      /\ r.lba + r.n <= NumLpns * SectorsPerPage
  BY TutorialAssumption DEF Lbas
<1>2. Lpn(r) \in Int /\ NumPages(r) \in Nat \ {0}
  <2>1. Lpn(r) \in Lpns /\ NumPages(r) \in Nat \ {0}
    BY <1>1, PagesOf
  <2>. QED BY <2>1 DEF Lpns
<1>3. History(g) /\ Sent(g) /\ Queued(g) /\ g.N \in Nat
  BY InOrder DEF DataOK
<1>4. PICK e : Continues(g, e) /\ Appends(g, e, r)
  <2>1. Len(eventq) \in Nat
    BY DEF IInv, RingTypeOK
  <2>. QED BY <1>2, <1>3, <2>1, HistoryGrows
<1>5. History(e)
  BY <1>1, <1>3, <1>4, HistoryContinues DEF DataTypeOK
<1>6. /\ Sent(e)'
      /\ link' \in Seq([op : {"read", "write"}, off : Nat, n : Nat, exp : [Sectors -> Vals]])
      /\ disk' \in [Lbas -> Nat] /\ writes' \in Nat
  BY <1>1, <1>3, <1>4, SentContinues
<1>7. Queued(e)'
  BY <1>1, <1>2, <1>3, <1>4, QueuedContinues DEF IInv
<1>8. UNCHANGED <<ctrlVars, ftlVars>> /\ UNCHANGED <<nand, rbuf, wbuf>>
  BY DEF HostSends, ctrlVars
<1>9. e.N \in Nat /\ g.N <= e.N
  BY <1>2, <1>3, <1>4 DEF Appends
<1>10. /\ Counters(e)' /\ Places(e)' /\ Programs(e)' /\ Filled(e)'
       /\ Holes(e)' /\ HoleCmds(e)' /\ ReadCmds(e)' /\ Fetched(e)'
  BY <1>4, <1>8, <1>9, RestContinues DEF IInv
<1>11. DataTypeOK'
  BY <1>6, <1>8 DEF DataTypeOK
<1>12. History(e)'
  BY <1>5 DEF History, PageRec, Writes, Reads, Within
<1>13. DataOK(e)'
  BY <1>6, <1>7, <1>10, <1>12 DEF DataOK
<1>. QED BY <1>11, <1>13

-----------------------------------------------------------------------------
\* Every step continues the history.
LEMMA DataStep ==
  ASSUME IInv, DataTypeOK, NEW g, DataOK(g), [Next]_vars
  PROVE  DataTypeOK' /\ \E e : DataOK(e)'
<1>1. ASSUME NEW r \in Requests, HostSends(r) PROVE DataTypeOK' /\ \E e : DataOK(e)'
  BY <1>1, HostSendsData
<1>2. CASE PageToHost \/ PageFromHost
  BY <1>2, PageToHostData, PageFromHostData
<1>3. CASE Ftl
  BY <1>3, MainData, ReadMappedPageData, ReadUnmappedPageData, WriteStartData,
     ReadLeftHoleData, ReadRightHoleData, ProgramPageData DEF Ftl
<1>4. CASE Accept /\ UNCHANGED <<ftlVars, hostVars>>
  BY <1>4, AcceptData
<1>5. ASSUME NEW b \in Banks, Finish(b), UNCHANGED <<ftlVars, hostVars>>
      PROVE  DataTypeOK' /\ \E e : DataOK(e)'
  <2>1. /\ bank[b] # None /\ bank' = [bank EXCEPT ![b] = None]
        /\ UNCHANGED <<wr, rbuf_ptr, wbuf_ptr>>
        /\ ReadHole(bank[b]) \/ ReadToHost(bank[b]) \/ ProgramFromHost(bank[b])
    BY <1>5 DEF Finish
  <2>. QED BY <1>5, <2>1, FinishHoleData, FinishReadData, FinishProgramData
<1>6. CASE UNCHANGED vars
  BY <1>6, StutterData
<1>. QED BY <1>1, <1>2, <1>3, <1>4, <1>5, <1>6 DEF Next

\* The data of a history of pages: what every page transfer of the host, in its order,
\* writes or expects, is what is in the pages of the flash, in the buffers of both
\* rings and in the commands under way.
HasHistory == DataTypeOK /\ \E g : DataOK(g)

\* Whatever the order in which banks finish, there is such a history, for every
\* number of banks, buffers, pages and sectors.
THEOREM DataInvariant == Spec => []HasHistory
<1>1. Init => HasHistory
  BY InitData DEF HasHistory
<1>2. IInv /\ HasHistory /\ [Next]_vars => HasHistory'
  <2> SUFFICES ASSUME IInv, HasHistory, [Next]_vars PROVE HasHistory'
    OBVIOUS
  <2>1. DataTypeOK /\ \E g : DataOK(g)
    BY DEF HasHistory
  <2>2. PICK g : DataOK(g)
    BY <2>1
  <2>3. DataTypeOK' /\ \E e : DataOK(e)'
    BY <2>1, <2>2, DataStep
  <2>. QED BY <2>3 DEF HasHistory
<1>. QED BY <1>1, <1>2, RingInvariant, PTL DEF Spec

\* The buffers that the SATA hardware may send hold the data of the pages that the
\* host waits for, in their order (ftl_read, ftl_tutorial/ftl.c:188-272).
THEOREM HostGetsItsPagesThm == Spec => []HostGetsItsPages
<1>1. HasHistory => HostGetsItsPages
  BY PagesArrive DEF HasHistory
<1>. QED BY <1>1, DataInvariant, PTL
=============================================================================
