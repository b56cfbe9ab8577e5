--------------------------- MODULE BadBlockProofs ----------------------------
(***************************************************************************)
(* Proofs about the bad blocks of a drive.  About Installer: whatever the  *)
(* geometry and whichever blocks are bad, in every bank that was not once  *)
(* erased or saved without a list of its own (Unlisted) erasing spares     *)
(* them, and a bank that boots has them in its list.  About BadBlkList:    *)
(* what is_bad_block then answers for such a list.                         *)
(***************************************************************************)
EXTENDS Installer, FiniteSetTheorems, TLAPS

Steps == {"off", "menu", "save", "erase", "program", "verify", "stamp", "image"}
Pages == FoundLists \cup Blanks

Types ==
  /\ step \in Steps /\ bank \in Banks /\ blk \in Nat /\ installing \in BOOLEAN
  /\ up \in BOOLEAN /\ scan_list_loaded \in BOOLEAN /\ scan_list \in [Banks -> FoundLists]
  /\ dir \in [Banks -> Pages] /\ page0 \in [Banks -> Pages]
  /\ marks \subseteq Banks \X Chips \X PBlks /\ stamp \subseteq Banks
  /\ given \subseteq Banks /\ flawed \in BOOLEAN /\ unlisted \subseteq Banks

\* What a list must be, wherever it is kept.
Sound(l, b) == Covers(l, b) /\ (l.kind = "list" => l.num_entries <= ScanListItems)

\* Of a bank that was unlisted once nothing is claimed, nor of a list in memory that was
\* not given: after a missing file such lists count as loaded.
ListsSound  == \A b \in given \ unlisted : Sound(scan_list[b], b)
AllGiven    == scan_list_loaded /\ ~flawed => given = Banks
CopiesSound == \A b \in Banks \ unlisted : Sound(page0[b], b) /\ Sound(dir[b], b)
WorksOnList ==
  /\ step \in {"save", "program", "verify", "stamp", "image"} => scan_list_loaded
  /\ step = "erase" /\ installing => scan_list_loaded
\* install erases block 0 of every bank before it programs the first list.
AllErased   ==
  /\ step = "program" => Banks = given \cup unlisted
  /\ step = "erase" /\ installing => \A b \in Banks : b < bank => b \in given \cup unlisted
StampedList == \A b \in stamp : page0[b].kind = "list"
StampsLast  == step \in {"stamp", "image"} => page0 = scan_list
\* install takes the stamps away, bank by bank, before it writes the first list.
StampsGone  ==
  /\ step = "program" => stamp = {}
  /\ step = "erase" /\ installing => blk = 0 /\ \A b \in stamp : b >= bank

IInv ==
  /\ Types /\ MarksSurvive
  /\ ListsSound /\ AllGiven /\ CopiesSound
  /\ WorksOnList /\ AllErased
  /\ StampedList /\ StampsLast /\ StampsGone

-----------------------------------------------------------------------------
\* The geometry.
LEMMA Sizes == NumBanks \in Nat \ {0} /\ PBlksPerBank \in Nat \ {0} /\ ScanListItems \in Nat
  BY InstallerAssumption DEF Geometry, PBlksPerBank

\* Block addresses.
LEMMA BanksNat == Banks \subseteq Nat /\ 0 \in Banks /\ \A b \in Banks : b + 1 \in Nat /\ (b + 1) % NumBanks \in Banks
<1>1. NumBanks \in Nat /\ NumBanks > 0
  BY Sizes
<1>2. \A b \in 0 .. NumBanks - 1 : (b + 1) % NumBanks \in 0 .. NumBanks - 1
  BY <1>1, SMT
<1> QED
  BY <1>1, <1>2, SMT DEF Banks

\* A list that was scanned is a scan list, and holds the marks of its bank.
LEMMA ScannedList ==
  ASSUME Types, NEW b \in Banks
  PROVE  /\ Scanned(b) \in FoundLists
         /\ Scanned(b).bad = scan_list[b].bad \cup MarksIn(b)
<1>1. IsFiniteSet(Chips \X PBlks)
  <2>1. IsFiniteSet(Chips)
    <3>1. IsFiniteSet({"low"}) /\ IsFiniteSet({"high"})
      BY FS_Singleton
    <3>2. Chips = {"low"} \cup {"high"}
      BY DEF Chips
    <3> QED
      BY <3>1, <3>2, FS_Union
  <2>2. IsFiniteSet(PBlks)
    BY FS_Interval, Sizes DEF PBlks
  <2> QED
    BY <2>1, <2>2, FS_Product
<1>2. MarksIn(b) \subseteq Chips \X PBlks
  BY DEF MarksIn
<1>3. Cardinality(MarksIn(b)) \in Nat
  BY <1>1, <1>2, FS_Subset, FS_CardinalityType
<1>4. scan_list[b] \in FoundLists
  BY DEF Types
<1>5. /\ scan_list[b].kind = "list" /\ scan_list[b].num_entries \in Nat
      /\ scan_list[b].bad \subseteq Chips \X PBlks
      /\ scan_list[b] = [kind |-> "list", num_entries |-> scan_list[b].num_entries, bad |-> scan_list[b].bad]
  BY <1>4 DEF FoundLists
<1>6. Scanned(b) = [kind |-> "list", num_entries |-> scan_list[b].num_entries + Cardinality(MarksIn(b)),
                    bad |-> scan_list[b].bad \cup MarksIn(b)]
  BY <1>5 DEF Scanned
<1>7. scan_list[b].num_entries + Cardinality(MarksIn(b)) \in Nat
  BY <1>3, <1>5
<1>8. scan_list[b].bad \cup MarksIn(b) \in SUBSET (Chips \X PBlks)
  BY <1>2, <1>5
<1> QED
  BY <1>6, <1>7, <1>8 DEF FoundLists

\* As long as the marks of a bank are there, the list of a scan is complete.
LEMMA ScannedCovers ==
  ASSUME Types, MarksSurvive, NEW b \in Banks \ unlisted
  PROVE  Covers(Scanned(b), b)
<1>1. ASSUME NEW c \in Chips, NEW p \in PBlks, <<b, c, p>> \in Bad
      PROVE  <<c, p>> \in Scanned(b).bad
  <2>1. <<b, c, p>> \in marks
    BY <1>1 DEF MarksSurvive
  <2>2. <<c, p>> \in MarksIn(b)
    BY <2>1 DEF MarksIn
  <2> QED
    BY <2>2, ScannedList
<1> QED
  BY <1>1 DEF Covers

\* The constants that stand for lists and pages.
LEMMA PageTypes ==
  /\ NoEntries \in FoundLists /\ NoEntries.num_entries = 0
  /\ Blank \in Pages /\ Corrupt \in Pages /\ Empty \in Pages
  /\ \A b \in Banks : Sound(Blank, b) /\ Sound(Corrupt, b) /\ Sound(Empty, b)
  /\ \A l \in FoundLists : l.kind = "list"
  /\ \A l \in Pages : l.kind = "list" => l \in FoundLists
  BY DEF NoEntries, FoundLists, Pages, Blanks, Blank, Corrupt, Empty, Sound, Covers

\* A bank is given, or the tool has told that it is not.
LEMMA GivenOrTold ==
  ASSUME Types, AllGiven, NEW b \in Banks, b \notin Unlisted(b)
  PROVE  b \in given
  BY DEF Types, AllGiven, Unlisted

\* Only the bank itself becomes unlisted.
LEMMA UnlistedBank == \A b \in Banks : Unlisted(b) \subseteq {b}
  BY DEF Unlisted

\* Erasing spares what a complete list names.
LEMMA EraseSpares ==
  ASSUME Types, MarksSurvive, ListsSound, AllGiven,
         marks' = marks \ {<<bank, c, blk>> : c \in Erased(bank, blk)},
         unlisted' = unlisted \cup Unlisted(bank)
  PROVE  MarksSurvive'
<1> SUFFICES ASSUME NEW m \in Bad, m[1] \notin unlisted', m \notin marks'
             PROVE  FALSE
  BY DEF MarksSurvive
<1>1. m \in marks /\ m[1] \notin unlisted
  BY DEF MarksSurvive
<1>2. PICK c \in Erased(bank, blk) : m = <<bank, c, blk>>
  BY <1>1
<1>3. c \in Chips /\ <<c, blk>> \notin scan_list[bank].bad
  BY <1>2 DEF Erased
<1>4. m \in Banks \X Chips \X PBlks
  BY InstallerAssumption
<1>5. blk \in PBlks /\ bank \in Banks /\ m[1] = bank
  BY <1>2, <1>4
<1>6. bank \in given \ unlisted
  BY <1>1, <1>5, GivenOrTold
<1>7. Covers(scan_list[bank], bank)
  BY <1>6 DEF ListsSound, Sound
<1>8. scan_list[bank].kind = "list"
  BY <1>5, PageTypes DEF Types
<1> QED
  BY <1>2, <1>3, <1>5, <1>7, <1>8 DEF Covers

-----------------------------------------------------------------------------
\* The invariant holds before the tool is first started.
LEMMA InitIInv == Init => IInv
<1> SUFFICES ASSUME Init PROVE IInv
  OBVIOUS
<1>1. Types
  BY PageTypes, BanksNat, InstallerAssumption, Sizes DEF Init, Types, Steps
<1>2. CopiesSound
  BY PageTypes DEF Init, CopiesSound
<1> QED
  BY <1>1, <1>2 DEF Init, IInv, MarksSurvive, ListsSound, AllGiven, WorksOnList, AllErased,
     StampedList, StampsLast, StampsGone

\* One step per operation of the tool.
LEMMA NextIInv == IInv /\ [Next]_vars => IInv'
<1> SUFFICES ASSUME IInv, [Next]_vars PROVE IInv'
  OBVIOUS
<1> USE DEF IInv, Sound
<1>1. CASE Start
  <2>1. Types'
    BY <1>1, PageTypes DEF Start, loop, flash, Types, Steps
  <2> QED
    BY <1>1, <2>1 DEF Start, loop, flash, MarksSurvive, ListsSound, AllGiven, CopiesSound, Covers,
       WorksOnList, AllErased, StampedList, StampsLast, StampsGone
<1>2. CASE Stop
  <2>1. Types'
    BY <1>2, PageTypes, BanksNat DEF Stop, tool, flash, hist, Types, Steps
  <2>2. CopiesSound'
    BY <1>2, PageTypes DEF Stop, flash, hist, CopiesSound, Types, Covers
  <2> QED
    BY <1>2, <2>1, <2>2 DEF Stop, tool, flash, hist, MarksSurvive, ListsSound, AllGiven, Covers,
       WorksOnList, AllErased, StampedList, StampsLast, StampsGone
<1>3. CASE Initialize
  BY <1>3 DEF Initialize, loop, flash, hist, Types, Steps, MarksSurvive, ListsSound, AllGiven,
     CopiesSound, Covers, WorksOnList, AllErased, StampedList, StampsLast, StampsGone
<1>4. CASE scan_bad_blks
  <2>1. /\ step = "menu" /\ step' = step /\ scan_list_loaded' = TRUE
        /\ UNCHANGED <<loop, up, dir, flash, unlisted>>
    BY <1>4 DEF scan_bad_blks
  <2>2. Types' /\ ListsSound' /\ AllGiven'
    <3>1. CASE ScanFits /\ scan_list' = [b \in Banks |-> Scanned(b)] /\ given' = Banks /\ flawed' = flawed
      <4>1. Types'
        BY <2>1, <3>1, ScannedList DEF loop, flash, Types
      <4>2. ListsSound'
        <5> SUFFICES ASSUME NEW b \in Banks \ unlisted PROVE Sound(Scanned(b), b)
          BY <2>1, <3>1 DEF ListsSound, Covers
        <5> QED
          BY <3>1, ScannedCovers DEF ScanFits
      <4> QED
        BY <3>1, <4>1, <4>2 DEF AllGiven
    <3>2. CASE ~ScanFits /\ scan_list' \in [Banks -> Overrun] /\ given' = {} /\ flawed' = TRUE
      <4>1. Overrun \subseteq FoundLists
        <5>1. {0, ScanListItems + 1} \subseteq Nat
          BY Sizes
        <5> QED
          BY <5>1 DEF Overrun, FoundLists
      <4>2. Types'
        BY <2>1, <3>2, <4>1 DEF loop, flash, Types
      <4> QED
        BY <3>2, <4>2 DEF ListsSound, AllGiven
    <3> QED
      BY <1>4, <3>1, <3>2 DEF scan_bad_blks
  <2> QED
    BY <2>1, <2>2 DEF loop, flash, MarksSurvive, CopiesSound, Covers,
       WorksOnList, AllErased, StampedList, StampsLast, StampsGone
<1>5. CASE load_scan_list_from_nand
  <2>1. /\ \A b \in Banks : scan_list'[b] = IF page0[b].kind = "list" THEN page0[b] ELSE scan_list[b]
        /\ given' = given \cup {b \in Banks : page0[b].kind = "list"}
    BY <1>5 DEF load_scan_list_from_nand
  <2>2. Types'
    BY <1>5, PageTypes DEF load_scan_list_from_nand, loop, flash, Types
  <2>3. ListsSound'
    BY <1>5, <2>1 DEF load_scan_list_from_nand, ListsSound, CopiesSound, Types, Covers
  <2>4. AllGiven'
    BY <1>5, <2>1 DEF load_scan_list_from_nand, AllListsFound, AllGiven, Types
  <2> QED
    BY <1>5, <2>2, <2>3, <2>4 DEF load_scan_list_from_nand, loop, flash, MarksSurvive, CopiesSound,
       Covers, WorksOnList, AllErased, StampedList, StampsLast, StampsGone
<1>6. CASE save_scan
  <2>1. Types' /\ CopiesSound'
    BY <1>6, PageTypes, BanksNat DEF save_scan, tool, flash, hist, Types, Steps, CopiesSound, Covers
  <2> QED
    BY <1>6, <2>1 DEF save_scan, tool, flash, hist, MarksSurvive, ListsSound, AllGiven, Covers,
       WorksOnList, AllErased, StampedList, StampsLast, StampsGone
<1>7. CASE SaveBank
  <2>1. /\ step = "save" /\ bank' = (bank + 1) % NumBanks /\ step' \in {"save", "menu"}
        /\ dir' = [dir EXCEPT ![bank] = scan_list[bank]] /\ unlisted' = unlisted \cup Unlisted(bank)
        /\ UNCHANGED <<blk, installing, tool, flash, given, flawed>>
    BY <1>7 DEF SaveBank
  <2>2. bank' \in Banks /\ unlisted' \subseteq Banks /\ unlisted \subseteq unlisted'
    BY <2>1, BanksNat, UnlistedBank DEF Types
  <2>3. Types'
    BY <2>1, <2>2 DEF tool, flash, Types, Steps, Pages
  <2>4. CopiesSound'
    <3> SUFFICES ASSUME NEW b \in Banks \ unlisted' PROVE Sound(page0'[b], b) /\ Sound(dir'[b], b)
      BY DEF CopiesSound, Covers
    <3>1. CASE b = bank
      <4>1. b \in given \ unlisted
        BY <2>1, <3>1, GivenOrTold
      <4> QED
        BY <2>1, <2>2, <3>1, <4>1 DEF flash, Types, ListsSound, CopiesSound
    <3>2. CASE b # bank
      BY <2>1, <2>2, <3>2 DEF flash, Types, CopiesSound
    <3> QED
      BY <3>1, <3>2
  <2>5. MarksSurvive' /\ ListsSound'
    BY <2>1, <2>2 DEF tool, flash, MarksSurvive, ListsSound, Covers
  <2> QED
    BY <2>1, <2>3, <2>4, <2>5 DEF tool, flash, AllGiven,
       WorksOnList, AllErased, StampedList, StampsLast, StampsGone
<1>8. CASE load_scan_list_from_file
  <2> DEFINE Opened == {b \in Banks : \A a \in 0 .. b : dir[a].kind # "blank"}
             Read   == {b \in Opened : dir[b].kind = "list"}
  <2>1. /\ scan_list' = [b \in Banks |-> IF b \in Read THEN dir[b] ELSE scan_list[b]]
        /\ scan_list_loaded' = (scan_list_loaded \/ Opened # {})
        /\ given' = given \cup Read /\ flawed' = (flawed \/ Read # Banks)
        /\ step = "menu" /\ UNCHANGED <<step, loop, up, dir, flash, unlisted>>
    BY <1>8 DEF load_scan_list_from_file
  <2>2. Read \subseteq Banks /\ \A b \in Read : dir[b].kind = "list"
    OBVIOUS
  <2> HIDE DEF Opened, Read
  <2>3. Types'
    <3>1. scan_list_loaded' \in BOOLEAN /\ flawed' \in BOOLEAN
      BY <2>1 DEF Types
    <3>2. scan_list' \in [Banks -> FoundLists]
      BY <2>1, <2>2, PageTypes DEF Types
    <3> QED
      BY <2>1, <2>2, <3>1, <3>2 DEF loop, flash, Types
  <2>4. ListsSound'
    BY <2>1, <2>2 DEF ListsSound, CopiesSound, Types, Covers
  <2>5. AllGiven'
    BY <2>1 DEF AllGiven, Types
  <2> QED
    BY <2>1, <2>3, <2>4, <2>5 DEF loop, flash, MarksSurvive, CopiesSound, Covers,
       WorksOnList, AllErased, StampedList, StampsLast, StampsGone
<1>9. CASE EraseAll \/ install
  <2>1. bank' = 0 /\ blk' = 0 /\ stamp' = stamp /\ step' = "erase" /\ UNCHANGED <<tool, dir, flash, hist>>
    BY <1>9 DEF EraseAll, install, flash
  <2>2. installing' \in BOOLEAN /\ (installing' => scan_list_loaded)
    BY <1>9 DEF EraseAll, install
  <2>3. Types'
    BY <2>1, <2>2, BanksNat DEF tool, flash, hist, Types, Steps
  <2>4. StampsGone'
    <3>1. \A b \in stamp : b \in Nat
      BY BanksNat DEF Types
    <3>2. \A b \in stamp : b >= 0
      BY <3>1, SMT
    <3> QED
      BY <2>1, <3>2 DEF StampsGone
  <2>5. AllErased'
    <3>1. \A b \in Banks : ~(b < 0)
      BY BanksNat, SMT
    <3> QED
      BY <2>1, <3>1 DEF AllErased
  <2> QED
    BY <2>1, <2>2, <2>3, <2>4, <2>5 DEF tool, flash, hist, MarksSurvive, ListsSound, AllGiven,
       CopiesSound, Covers, WorksOnList, StampedList, StampsLast
<1>10. CASE erase_flash
  <2>1. /\ step = "erase" /\ unlisted' = unlisted \cup Unlisted(bank)
        /\ marks' = marks \ {<<bank, c, blk>> : c \in Erased(bank, blk)}
        /\ bank' = (bank + 1) % NumBanks
        /\ blk' = IF bank = NumBanks - 1 THEN (blk + 1) % (LastBlk + 1) ELSE blk
        /\ UNCHANGED <<installing, tool, dir, given, flawed>>
    BY <1>10 DEF erase_flash
  <2>2. MarksSurvive'
    BY <2>1, EraseSpares
  <2>3. bank' \in Banks /\ blk' \in Nat /\ step' \in {"erase", "program", "menu"}
    <3>1. LastBlk \in Nat
      BY Sizes DEF LastBlk
    <3>2. blk \in Nat
      BY DEF Types
    <3>3. (blk + 1) % (LastBlk + 1) \in Nat
      BY <3>1, <3>2, SMT
    <3> QED
      BY <1>10, <2>1, <3>2, <3>3, BanksNat DEF erase_flash, Types
  <2>4. unlisted' \subseteq Banks /\ unlisted \subseteq unlisted' /\ marks' \subseteq marks
    BY <2>1, UnlistedBank DEF Types
  <2>5. Types'
    BY <1>10, <2>1, <2>3, <2>4, PageTypes DEF erase_flash, tool, Types, Steps
  <2>6. CopiesSound' /\ ListsSound'
    BY <1>10, <2>1, <2>4, PageTypes DEF erase_flash, tool, CopiesSound, ListsSound, Types, Covers
  <2>7. StampedList'
    BY <1>10 DEF erase_flash, StampedList, Types
  <2>8. AllErased'
    <3> SUFFICES ASSUME installing, step' \in {"erase", "program"} PROVE AllErased'
      <4>1. installing' = installing /\ (step' = "program" => installing)
        BY <1>10, <2>1 DEF erase_flash
      <4> QED
        BY <2>3, <4>1 DEF AllErased
    <3>1. bank \in given \cup unlisted'
      BY <2>1, GivenOrTold DEF Types
    <3>2. \A b \in Banks : b < bank => b \in given \cup unlisted'
      BY <2>1, <2>4 DEF AllErased
    <3>3. bank \in Nat /\ NumBanks \in Nat /\ bank <= NumBanks - 1 /\ \A b \in Banks : b \in Nat /\ b <= NumBanks - 1
      BY Sizes, SMT DEF Types, Banks
    <3>4. CASE bank = NumBanks - 1
      <4>1. \A b \in Banks : b = bank \/ b < bank
        BY <3>3, <3>4, SMT
      <4>2. Banks = given \cup unlisted'
        BY <2>4, <3>1, <3>2, <4>1 DEF Types
      <4> QED
        BY <2>1, <4>2 DEF AllErased
    <3>5. CASE bank # NumBanks - 1
      <4>1. bank' = bank + 1
        BY <2>1, <3>3, <3>5, SMT
      <4>2. \A b \in Banks : b < bank + 1 => b = bank \/ b < bank
        BY <3>3, SMT
      <4>3. step' = "erase"
        BY <1>10, <2>1, <3>5 DEF erase_flash
      <4> QED
        BY <2>1, <3>1, <3>2, <4>1, <4>2, <4>3 DEF AllErased
    <3> QED
      BY <3>4, <3>5
  <2>9. StampsGone'
    <3>1. CASE installing
      <4>0. (0 + 1) % (0 + 1) = 0
        BY SMT
      <4>1. /\ blk = 0 /\ LastBlk = 0 /\ stamp' = stamp \ {bank} /\ blk' = blk
            /\ bank' = (bank + 1) % NumBanks /\ \A b \in stamp : b >= bank
            /\ step' = IF bank = NumBanks - 1 THEN "program" ELSE "erase"
        BY <1>10, <3>1, <4>0 DEF erase_flash, StampsGone, LastBlk, Types
      <4>2. \A b \in stamp' : b \in Banks /\ b > bank
        BY <4>1, BanksNat DEF Types
      <4>3. CASE bank = NumBanks - 1
        <5>1. \A b \in Banks : ~(b > bank)
          BY <4>3, Sizes, SMT DEF Banks
        <5> QED
          BY <4>1, <4>2, <4>3, <5>1 DEF StampsGone
      <4>4. CASE bank # NumBanks - 1
        <5>1. (bank + 1) % NumBanks = bank + 1
          BY <4>4, Sizes, SMT DEF Types, Banks
        <5>2. \A b \in stamp' : b >= bank + 1
          <6>1. bank \in Nat /\ \A b \in stamp' : b \in Nat /\ b > bank
            BY <4>2, BanksNat DEF Types
          <6> QED
            BY <6>1, SMT
        <5> QED
          BY <4>1, <4>4, <5>1, <5>2 DEF StampsGone
      <4> QED
        BY <4>3, <4>4
    <3>2. CASE ~installing
      BY <1>10, <3>2 DEF erase_flash, StampsGone
    <3> QED
      BY <3>1, <3>2
  <2>10. WorksOnList' /\ StampsLast'
    <3>1. step' = "program" => installing
      BY <1>10, <2>1 DEF erase_flash
    <3>2. installing => scan_list_loaded
      BY <2>1 DEF WorksOnList
    <3> QED
      BY <2>1, <2>3, <3>1, <3>2 DEF tool, WorksOnList, StampsLast
  <2>11. AllGiven'
    BY <2>1 DEF tool, AllGiven
  <2> QED
    BY <2>2, <2>5, <2>6, <2>7, <2>8, <2>9, <2>10, <2>11
<1>11. CASE ProgramList
  <2>1. /\ step = "program" /\ bank' = (bank + 1) % NumBanks /\ step' \in {"program", "verify"}
        /\ UNCHANGED <<blk, installing, tool, dir, marks, stamp, hist>>
        /\ \/ page0' = [page0 EXCEPT ![bank] = scan_list[bank]]
           \/ page0' = [page0 EXCEPT ![bank] = Corrupt]
    BY <1>11 DEF ProgramList
  <2>2. bank' \in Banks
    BY <2>1, BanksNat DEF Types
  <2>3. Types'
    BY <2>1, <2>2, PageTypes DEF tool, hist, Types, Steps, Pages
  <2>4. CopiesSound'
    <3>1. bank \in given \cup unlisted
      BY <2>1 DEF AllErased, Types
    <3>2. bank \notin unlisted => Sound(scan_list[bank], bank)
      BY <3>1 DEF ListsSound
    <3> QED
      BY <2>1, <3>2, PageTypes DEF hist, CopiesSound, Types, Covers
  <2>5. StampedList'
    BY <2>1 DEF StampedList, StampsGone
  <2> QED
    BY <2>1, <2>3, <2>4, <2>5 DEF tool, hist, MarksSurvive, ListsSound, AllGiven, Covers,
       WorksOnList, AllErased, StampsLast, StampsGone
<1>12. CASE VerifyLists
  BY <1>12 DEF VerifyLists, ListsVerified, loop, tool, flash, hist, Types, Steps, MarksSurvive, ListsSound, AllGiven, CopiesSound, Covers,
     WorksOnList, AllErased, StampedList, StampsLast, StampsGone
<1>13. CASE WriteStamp
  <2>1. bank' \in Banks /\ step' \in {"stamp", "image"}
    BY <1>13, BanksNat DEF WriteStamp, Types
  <2>2. Types'
    BY <1>13, <2>1 DEF WriteStamp, tool, hist, Types, Steps
  <2>3. StampedList'
    BY <1>13, PageTypes DEF WriteStamp, StampedList, StampsLast, Types
  <2> QED
    BY <1>13, <2>1, <2>2, <2>3 DEF WriteStamp, tool, hist, MarksSurvive, ListsSound, AllGiven,
       CopiesSound, Covers, WorksOnList, AllErased, StampsLast, StampsGone
<1>14. CASE WriteFailed \/ WriteImage
  BY <1>14 DEF WriteFailed, WriteImage, loop, tool, flash, hist, Types, Steps, MarksSurvive, ListsSound, AllGiven, CopiesSound, Covers,
     WorksOnList, AllErased, StampedList, StampsLast, StampsGone
<1>15. CASE UNCHANGED vars
  BY <1>15 DEF vars, Types, Steps, MarksSurvive, ListsSound, AllGiven, CopiesSound, Covers,
     WorksOnList, AllErased, StampedList, StampsLast, StampsGone
<1> QED
  BY <1>1, <1>2, <1>3, <1>4, <1>5, <1>6, <1>7, <1>8, <1>9, <1>10, <1>11, <1>12, <1>13, <1>14, <1>15
     DEF Next

-----------------------------------------------------------------------------
\* So it always holds.
LEMMA SpecIInv == Spec => []IInv
  BY InitIInv, NextIInv, PTL DEF Spec

\* Erasing never loses the mark of a bad block, over any sequence of operations that
\* are interrupted, fail or use lists of different origin, except in banks that were
\* unlisted once (erase_flash, installer-linux.c:931-1007).
THEOREM BadBlksSpared == Spec => []MarksSurvive
<1>1. IInv => MarksSurvive
  BY DEF IInv
<1> QED
  BY <1>1, SpecIInv, PTL

\* A bank that the ROM can boot from, and that was never unlisted, holds a list of all
\* its bad blocks that the firmware accepts (install_block_zero,
\* installer-linux.c:1305-1470).
THEOREM BootsWithList == Spec => []ListedWhereStamped
<1>1. IInv => ListedWhereStamped
  BY DEF IInv, CopiesSound, Sound, StampedList, ListedWhereStamped, Types
<1> QED
  BY <1>1, SpecIInv, PTL

-----------------------------------------------------------------------------
(***************************************************************************)
(* The scan list.                                                          *)
(***************************************************************************)
\* The blocks taken for bad are those with an entry for one of their two physical
\* blocks, although the search also finds the header word, if the list is trusted
\* (mem_search_equ_dram over num_entries + 1 items, ftl_greedy/ftl.c:250-262).
THEOREM TrustedListExact ==
  ASSUME Geometry, NEW l \in ScanLists, Trusted(l)
  PROVE  BadIn(l) = {v \in VBlks : \E e \in Entries(l) : e \div 2 = v}
<1>1. Searched(l) = {0} \cup Entries(l)
  BY DEF Searched
<1>2. Entries(l) \subseteq Int
  BY DEF Trusted, Geometry, PBlksPerBank
<1>3. ASSUME NEW v \in VBlks
      PROVE  (2 * v \in Searched(l) \/ 2 * v + 1 \in Searched(l)) <=> \E e \in Entries(l) : e \div 2 = v
  <2>1. v \in Int /\ v > 0
    BY DEF VBlks, Geometry
  <2>2. ASSUME NEW e \in Int
        PROVE  e \div 2 = v <=> e = 2 * v \/ e = 2 * v + 1
    BY <2>1
  <2>3. 2 * v # 0 /\ 2 * v + 1 # 0
    BY <2>1
  <2>4. \A e \in Entries(l) : e \div 2 = v <=> e = 2 * v \/ e = 2 * v + 1
    BY <1>2, <2>2
  <2>. QED BY <1>1, <2>3, <2>4
<1>. QED BY <1>3 DEF BadIn

\* A list that is not trusted still makes one block bad: the number of its entries is
\* taken for the number of a physical block (the header is zeroed in the other branch
\* only, ftl_greedy/ftl.c:232-239).
THEOREM RejectedListHeader ==
  ASSUME Geometry, NEW l \in ScanLists, ~Trusted(l)
  PROVE  BadIn(l) = {v \in VBlks : v = l.num_entries \div 2}
<1>1. Searched(l) = {l.num_entries} /\ l.num_entries \in Nat
  BY DEF Searched, ScanLists
<1>2. ASSUME NEW v \in VBlks
      PROVE  (2 * v = l.num_entries \/ 2 * v + 1 = l.num_entries) <=> v = l.num_entries \div 2
  BY <1>1 DEF VBlks, Geometry
<1>. QED BY <1>1, <1>2 DEF BadIn

-----------------------------------------------------------------------------
(***************************************************************************)
(* The bitmap.                                                             *)
(***************************************************************************)
\* A word and a bit in it are a bit number.
LEMMA BitNumber ==
  ASSUME NEW base \in Nat, NEW offset \in Nat
  PROVE  /\ Bit(base, offset)[1] \in Nat /\ Bit(base, offset)[2] \in Nat
         /\ 32 * Bit(base, offset)[1] + Bit(base, offset)[2] = base * 8 + offset
<1> DEFINE n == base * 8 + offset
<1>1. n \in Nat /\ base + offset \div 8 = n \div 8
  OBVIOUS
<1>2. Bit(base, offset) = <<(n \div 8) \div 4, n % 32>>
  BY <1>1 DEF Bit
<1> HIDE DEF n
<1>3. 32 * ((n \div 8) \div 4) + (n % 32) = n /\ (n \div 8) \div 4 \in Nat /\ n % 32 \in Nat
  <2>1. PICK a \in Nat, r \in 0 .. 31 : n = 32 * a + r
    <3>1. n \div 32 \in Nat /\ n % 32 \in 0 .. 31 /\ n = 32 * (n \div 32) + (n % 32)
      BY <1>1
    <3>. QED BY <3>1
  <2>2. n % 32 = r /\ (n \div 8) \div 4 = a
    BY <2>1
  <2>. QED BY <2>1, <2>2
<1>. QED BY <1>2, <1>3 DEF n

\* The stride is large enough: no two blocks, of one bank or of two, share a bit.
LEMMA BitsApart ==
  ASSUME Geometry, NEW b \in Banks, NEW c \in Banks, NEW v \in VBlks, NEW w \in VBlks,
         BitOf(b, v) = BitOf(c, w)
  PROVE  b = c /\ v = w
<1> DEFINE stride == VBlksPerBank \div 8 + 1
<1>1. stride \in Nat /\ 8 * stride > VBlksPerBank
  BY DEF Geometry
<1>2. b \in Nat /\ c \in Nat /\ v \in Nat /\ w \in Nat /\ v < VBlksPerBank /\ w < VBlksPerBank
  BY DEF Banks, VBlks, Geometry
<1>3. Base(b) \in Nat /\ Base(c) \in Nat /\ Base(b) = b * stride /\ Base(c) = c * stride
  BY <1>1, <1>2 DEF Base
<1>4. Base(b) * 8 + v = Base(c) * 8 + w
  <2>1. Bit(Base(b), v) = Bit(Base(c), w)
    BY DEF BitOf
  <2>2. /\ 32 * Bit(Base(b), v)[1] + Bit(Base(b), v)[2] = Base(b) * 8 + v
        /\ 32 * Bit(Base(c), w)[1] + Bit(Base(c), w)[2] = Base(c) * 8 + w
    BY <1>2, <1>3, BitNumber
  <2>. QED BY <2>1, <2>2
<1> HIDE DEF stride
<1>5. b <= c
  <2>1. SUFFICES ASSUME b >= c + 1 PROVE FALSE
    BY <1>2
  <2>2. b * stride >= (c + 1) * stride
    BY <1>1, <1>2, <2>1
  <2>3. (c + 1) * stride = c * stride + stride
    BY <1>1, <1>2
  <2>4. VBlksPerBank \in Nat
    BY DEF Geometry
  <2>. QED BY <1>1, <1>2, <1>3, <1>4, <2>2, <2>3, <2>4
<1>6. c <= b
  <2>1. SUFFICES ASSUME c >= b + 1 PROVE FALSE
    BY <1>2
  <2>2. c * stride >= (b + 1) * stride
    BY <1>1, <1>2, <2>1
  <2>3. (b + 1) * stride = b * stride + stride
    BY <1>1, <1>2
  <2>4. VBlksPerBank \in Nat
    BY DEF Geometry
  <2>. QED BY <1>1, <1>2, <1>3, <1>4, <2>2, <2>3, <2>4
<1>. QED BY <1>2, <1>3, <1>4, <1>5, <1>6

\* After format, is_bad_block answers by the scan list for every block whose bit is in
\* the bitmap, and no for every other block (ftl_greedy/ftl.c:276, 752-760, 888).
THEOREM BitmapExact ==
  ASSUME Geometry, NEW lists \in [Banks -> ScanLists], NEW b \in Banks, NEW v \in VBlks
  PROVE  is_bad_block(AfterFormat(build_bad_blk_list(lists)), b, v)
           <=> v \in BadIn(lists[b]) /\ InBitmap(b, v)
<1>1. BitOf(b, v) \in build_bad_blk_list(lists) <=> v \in BadIn(lists[b])
  <2>1. ASSUME NEW c \in Banks, NEW w \in BadIn(lists[c]), BitOf(b, v) = BitOf(c, w)
        PROVE  v \in BadIn(lists[b])
    <3>1. w \in VBlks
      BY DEF BadIn
    <3>. QED BY <2>1, <3>1, BitsApart
  <2>. QED BY <2>1 DEF build_bad_blk_list
<1>. QED BY <1>1 DEF is_bad_block, AfterFormat, InBitmap

\* The bitmap of a geometry in which a block count is a multiple of 8 and the bitmaps
\* without the extra byte per bank fill whole ECC units ends before the bits of the
\* last bank's last blocks: eight for every bank before it.  They are never taken for
\* bad.  The shipped geometry is one, with 2048 blocks in each of 8 banks
\* (include/nand.h:74, include/jasmine.h:22-27, ftl_greedy/ftl.h:75).
THEOREM LastBitsLost ==
  ASSUME Geometry, NEW lists \in [Banks -> ScanLists],
         NEW q \in Nat, VBlksPerBank = 8 * q,
         NEW k \in Nat, NumBanks * q = EccUnit * k, EccUnit % 4 = 0,
         NEW v \in VBlks, v \div 8 >= q - (NumBanks - 1)
  PROVE  ~is_bad_block(AfterFormat(build_bad_blk_list(lists)), NumBanks - 1, v)
<1> DEFINE last == NumBanks - 1
<1>1. /\ NumBanks \in Nat /\ NumBanks > 0 /\ last \in Banks /\ EccUnit \in Nat /\ EccUnit > 0
      /\ v \in Nat
  BY DEF Geometry, Banks, VBlks
<1>2. BitmapBytes = NumBanks * q
  <2>1. (NumBanks * VBlksPerBank) \div 8 = NumBanks * q
    <3>1. NumBanks * VBlksPerBank = 8 * (NumBanks * q) /\ NumBanks * q \in Nat
      BY <1>1
    <3>. QED BY <3>1
  <2>2. (EccUnit * k + EccUnit - 1) \div EccUnit = k
    <3>1. EccUnit * k + EccUnit - 1 = EccUnit * k + (EccUnit - 1) /\ EccUnit - 1 \in 0 .. EccUnit - 1
      BY <1>1
    <3>. QED BY <1>1, <3>1
  <2>3. k * EccUnit = NumBanks * q
    BY <1>1
  <2>4. BitmapBytes = ((EccUnit * k + EccUnit - 1) \div EccUnit) * EccUnit
    BY <2>1 DEF BitmapBytes
  <2>. QED BY <2>2, <2>3, <2>4
<1>3. Base(last) = NumBanks * q - q + NumBanks - 1
  <2>1. VBlksPerBank \div 8 = q
    OBVIOUS
  <2>2. (NumBanks - 1) * (q + 1) = NumBanks * q - q + NumBanks - 1
    BY <1>1
  <2>. QED BY <2>1, <2>2 DEF Base
<1>4. Base(last) + v \div 8 >= BitmapBytes
  <2>1. NumBanks * q \in Nat /\ v \div 8 \in Nat
    BY <1>1
  <2>. QED BY <1>1, <1>2, <1>3, <2>1
<1>5. PICK m \in Nat : BitmapBytes = 4 * m
  <2>1. PICK e \in Nat : EccUnit = 4 * e
    BY <1>1
  <2>2. EccUnit * k = 4 * (e * k) /\ e * k \in Nat
    BY <2>1
  <2>. QED BY <1>2, <2>2
<1>6. 4 * BitOf(last, v)[1] >= BitmapBytes
  <2>1. BitOf(last, v)[1] = (Base(last) + v \div 8) \div 4
    BY DEF BitOf, Bit
  <2>2. Base(last) + v \div 8 \in Nat
    <3>1. NumBanks * q \in Nat /\ NumBanks * q - q >= 0
      BY <1>1
    <3>. QED BY <1>1, <1>3, <3>1
  <2>. QED BY <1>4, <1>5, <2>1, <2>2
<1>7. BitmapBytes \in Nat /\ BitOf(last, v)[1] \in Int
  <2>1. Base(last) \in Nat /\ v \in Nat
    <3>1. NumBanks * q \in Nat /\ NumBanks * q - q >= 0
      BY <1>1
    <3>. QED BY <1>1, <1>3, <3>1
  <2>2. Bit(Base(last), v)[1] \in Nat
    BY <2>1, BitNumber
  <2>. QED BY <1>1, <1>5, <2>2 DEF BitOf
<1>8. ~InBitmap(last, v)
  BY <1>6, <1>7 DEF InBitmap
<1>. QED BY <1>1, <1>8, BitmapExact
=============================================================================
