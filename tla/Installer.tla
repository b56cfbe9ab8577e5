------------------------------ MODULE Installer ------------------------------
(***************************************************************************)
(* The factory installer: a host tool with a menu that scans a drive for   *)
(* the blocks its maker marked bad, keeps them in one scan list per bank,  *)
(* erases the flash, and writes scan list, stamp and firmware image into   *)
(* block 0 of every bank.  The firmware takes the bad blocks from there    *)
(* (BadBlkList) and from nowhere else, and a mark is gone once its block   *)
(* is erased: tool memory, files, marks and block 0 must never all lose    *)
(* a bad block, with the power failing between any two flash commands.     *)
(* Tool and firmware share the geometry, which BadBlkList declares.        *)
(***************************************************************************)
EXTENDS BadBlkList, FiniteSets

CONSTANT
  Bad             \* <<bank, chip, block>> that the maker of the flash marked bad

Chips  == {"low", "high"}     \* the two chips of a bank work on the same row
PBlks  == 1 .. PBlksPerBank - 1
Blanks == [kind : {"blank", "corrupt", "empty"}]

ASSUME InstallerAssumption ==
  /\ Geometry
  /\ Bad \subseteq Banks \X Chips \X PBlks    \* block 0 is good in every flash chip

\* What a scan list tells: the number of its entries, and which blocks they name.
FoundLists == [kind : {"list"}, num_entries : Nat, bad : SUBSET (Chips \X PBlks)]

VARIABLES
  step,        \* what the tool does: "off", "menu", or a step of an operation
  bank, blk,   \* loop variables of that step
  installing,  \* erase_flash was called by install
  up, scan_list_loaded, scan_list,   \* hc
  dir,         \* the scan_<bank>.bin files in the last directory written
  marks,       \* the marks still found in the spare areas
  page0,       \* scan list page of block 0 of each bank
  stamp,       \* the banks whose block 0 has the stamp that the ROM boots from
  \* History, for the properties:
  given,       \* the banks whose list was scanned or read since the tool was started
  flawed,      \* since then a file was missing or empty, or a scan overran a list
  unlisted     \* the banks once erased or saved without being given (see Unlisted)

tool  == <<up, scan_list_loaded, scan_list>>
flash == <<marks, page0, stamp>>
loop  == <<bank, blk, installing>>
hist  == <<given, flawed, unlisted>>
vars  == <<step, bank, blk, installing, up, scan_list_loaded, scan_list, dir, marks, page0, stamp,
           given, flawed, unlisted>>

NoEntries == [kind |-> "list", num_entries |-> 0, bad |-> {}]
Blank     == [kind |-> "blank"]
Corrupt   == [kind |-> "corrupt"]
Empty     == [kind |-> "empty"]

Init ==
  /\ step = "off" /\ bank = 0 /\ blk = 0 /\ installing = FALSE
  /\ up = FALSE /\ scan_list_loaded = FALSE /\ scan_list = [b \in Banks |-> NoEntries]
  /\ dir = [b \in Banks |-> Blank]
  /\ marks = Bad /\ page0 = [b \in Banks |-> Blank] /\ stamp = {}
  /\ given = {} /\ flawed = FALSE /\ unlisted = {}

-----------------------------------------------------------------------------
(***************************************************************************)
(* The menu.                                                               *)
(***************************************************************************)
\* main clears the scan lists.
Start ==
  /\ step = "off"
  /\ step' = "menu"
  /\ up' = FALSE /\ scan_list_loaded' = FALSE /\ scan_list' = [b \in Banks |-> NoEntries]
  /\ given' = {} /\ flawed' = FALSE
  /\ UNCHANGED <<loop, dir, flash, unlisted>>

\* The operator exits, tool or drive lose power, or the tool ends on an error (ERR_EXIT:
\* more bad blocks than the ROM can report, a file that cannot be written).  A file that
\* was just opened to be written is then empty.
Stop ==
  /\ step # "off"
  /\ step' = "off" /\ bank' = 0 /\ blk' = 0 /\ installing' = FALSE
  /\ \/ UNCHANGED dir
     \/ step = "save" /\ dir' = [dir EXCEPT ![bank] = Empty]
  /\ UNCHANGED <<tool, flash, hist>>

\* The flash chips answer with the identity the firmware was built for, or not.
Initialize ==
  /\ step = "menu"
  /\ up' \in BOOLEAN
  /\ UNCHANGED <<step, loop, scan_list_loaded, scan_list, dir, flash, hist>>

MarksIn(b) == {m \in Chips \X PBlks : <<b, m[1], m[2]>> \in marks}

\* One entry for each mark, behind the entries that a list has already.
Scanned(b) ==
  [kind        |-> "list",
   num_entries |-> scan_list[b].num_entries + Cardinality(MarksIn(b)),
   bad         |-> scan_list[b].bad \cup MarksIn(b)]

ScanFits == \A b \in Banks : Scanned(b).num_entries <= ScanListItems

\* What the lists may be after entries were written past the end of one of them, over the
\* count and the entries of the next: nothing they name can be relied on.
Overrun == [kind : {"list"}, num_entries : {0, ScanListItems + 1}, bad : {{}}]

\* Nothing compares the number of entries with the size of a list.
scan_bad_blks ==
  /\ step = "menu" /\ up
  /\ \/ ScanFits /\ scan_list' = [b \in Banks |-> Scanned(b)] /\ given' = Banks /\ flawed' = flawed
     \/ ~ScanFits /\ scan_list' \in [Banks -> Overrun] /\ given' = {} /\ flawed' = TRUE
  /\ scan_list_loaded' = TRUE
  /\ UNCHANGED <<step, loop, up, dir, flash, unlisted>>

AllListsFound_Any == \E b \in Banks : page0[b].kind = "list"     \* mutant
AllListsFound     == \A b \in Banks : page0[b].kind = "list"

\* Lists found on flash are taken over even if those of other banks are missing.
load_scan_list_from_nand ==
  /\ step = "menu" /\ up
  /\ scan_list' = [b \in Banks |-> IF page0[b].kind = "list" THEN page0[b] ELSE scan_list[b]]
  /\ scan_list_loaded' = (scan_list_loaded \/ AllListsFound)
  /\ given' = given \cup {b \in Banks : page0[b].kind = "list"}
  /\ UNCHANGED <<step, loop, up, dir, flash, flawed, unlisted>>

\* Bank b is saved or erased although no list was read for it, after the tool said so:
\* it has warned that the bad blocks will be erased, which it does when no list counts as
\* loaded, or a file was missing or empty or a list overrun.
Unlisted(b) == IF b \notin given /\ (~scan_list_loaded \/ flawed) THEN {b} ELSE {}

-----------------------------------------------------------------------------
(***************************************************************************)
(* Files.                                                                  *)
(***************************************************************************)
\* The directory must be a new one; then one file per bank.
save_scan ==
  /\ step = "menu" /\ scan_list_loaded
  /\ step' = "save" /\ bank' = 0
  /\ dir' = [b \in Banks |-> Blank]
  /\ UNCHANGED <<blk, installing, tool, flash, hist>>

SaveBank ==
  /\ step = "save"
  /\ dir' = [dir EXCEPT ![bank] = scan_list[bank]]
  /\ bank' = (bank + 1) % NumBanks
  /\ step' = IF bank = NumBanks - 1 THEN "menu" ELSE step
  /\ unlisted' = unlisted \cup Unlisted(bank)
  /\ UNCHANGED <<blk, installing, tool, flash, given, flawed>>

\* Stops at the first file that is missing; the lists read so far stay, and count as
\* loaded.  Of an empty file nothing is read, which is not noticed.
load_scan_list_from_file ==
  /\ step = "menu"
  /\ LET Opened == {b \in Banks : \A a \in 0 .. b : dir[a].kind # "blank"}
         Read   == {b \in Opened : dir[b].kind = "list"} IN
       /\ scan_list' = [b \in Banks |-> IF b \in Read THEN dir[b] ELSE scan_list[b]]
       /\ scan_list_loaded' = (scan_list_loaded \/ Opened # {})
       /\ given' = given \cup Read
       /\ flawed' = (flawed \/ Read # Banks)
  /\ UNCHANGED <<step, loop, up, dir, flash, unlisted>>

-----------------------------------------------------------------------------
(***************************************************************************)
(* Erasing.                                                                *)
(***************************************************************************)
\* The operator says yes to the warning, which is another one when no list is loaded.
EraseAll ==
  /\ step = "menu"
  /\ step' = "erase" /\ bank' = 0 /\ blk' = 0 /\ installing' = FALSE
  /\ UNCHANGED <<tool, dir, flash, hist>>

\* The firmware image could be read from its file.
install ==
  /\ step = "menu" /\ up /\ scan_list_loaded
  /\ step' = "erase" /\ bank' = 0 /\ blk' = 0 /\ installing' = TRUE
  /\ UNCHANGED <<tool, dir, flash, hist>>

\* Erasing everything goes one block too far, to a row no flash chip has.
LastBlk == IF installing THEN 0 ELSE PBlksPerBank

\* The chips of a bank whose block is erased: those with no bad block there.
Erased(b, p) == {c \in Chips : <<c, p>> \notin scan_list[b].bad}

erase_flash ==
  /\ step = "erase"
  /\ marks' = marks \ {<<bank, c, blk>> : c \in Erased(bank, blk)}
  /\ page0' = IF blk = 0 THEN [page0 EXCEPT ![bank] = Blank] ELSE page0
  /\ stamp' = IF blk = 0 THEN stamp \ {bank} ELSE stamp
  /\ bank' = (bank + 1) % NumBanks
  /\ blk' = IF bank = NumBanks - 1 THEN (blk + 1) % (LastBlk + 1) ELSE blk
  /\ step' = IF bank = NumBanks - 1 /\ blk = LastBlk
             THEN (IF installing THEN "program" ELSE "menu") ELSE step
  /\ unlisted' = unlisted \cup Unlisted(bank)
  /\ UNCHANGED <<installing, tool, dir, given, flawed>>

-----------------------------------------------------------------------------
(***************************************************************************)
(* Writing block 0 after it was erased.                                    *)
(***************************************************************************)
\* The scan list of a bank, programmed well or not.
ProgramList ==
  /\ step = "program"
  /\ page0' = [page0 EXCEPT ![bank] = scan_list[bank]] \/ page0' = [page0 EXCEPT ![bank] = Corrupt]
  /\ bank' = (bank + 1) % NumBanks
  /\ step' = IF bank = NumBanks - 1 THEN "verify" ELSE step
  /\ UNCHANGED <<blk, installing, tool, dir, marks, stamp, hist>>

ListsVerified_Skipped == TRUE                                  \* mutant
ListsVerified         == page0 = scan_list

\* All lists are read back before anything else is written.
VerifyLists ==
  /\ step = "verify"
  /\ step' = IF ListsVerified THEN "stamp" ELSE "menu"
  /\ UNCHANGED <<loop, tool, dir, flash, hist>>

\* Dummy pages and the stamp with the size of the image.  A stamp that cannot be read
\* back does not keep the other banks from theirs, a dummy page does.
WriteStamp ==
  /\ step = "stamp"
  /\ stamp' = stamp \cup {bank} \/ stamp' = stamp
  /\ bank' = (bank + 1) % NumBanks
  /\ step' = IF bank = NumBanks - 1 THEN "image" ELSE step
  /\ UNCHANGED <<blk, installing, tool, dir, marks, page0, hist>>

\* write_to_flash failed for a dummy page, the stamp of a bank, or a page of the image.
WriteFailed ==
  /\ (step = "stamp" /\ bank = 0) \/ step = "image"
  /\ step' = "menu"
  /\ UNCHANGED <<loop, tool, dir, flash, hist>>

\* The image itself, in all banks; the drive is reset and the tool ends.
WriteImage ==
  /\ step = "image" /\ stamp = Banks
  /\ step' = "off"
  /\ UNCHANGED <<loop, tool, dir, flash, hist>>

Next ==
  \/ Start \/ Stop \/ Initialize
  \/ scan_bad_blks \/ load_scan_list_from_nand
  \/ save_scan \/ SaveBank \/ load_scan_list_from_file
  \/ EraseAll \/ install \/ erase_flash
  \/ ProgramList \/ VerifyLists \/ WriteStamp \/ WriteFailed \/ WriteImage

Spec == Init /\ [][Next]_vars

-----------------------------------------------------------------------------
(***************************************************************************)
(* Properties.                                                             *)
(***************************************************************************)
\* A list, if it is one, names every block that the maker marked.
Covers(l, b) == l.kind = "list" => \A c \in Chips, p \in PBlks : <<b, c, p>> \in Bad => <<c, p>> \in l.bad

\* Erasing, even interrupted, repeated or with lists from different sources, spares
\* every bad block, so its mark can always be scanned again: in every bank but those
\* erased, or saved to a file, when no list of theirs had been read and either the tool
\* warned of it (installer-linux.c:1646) or a load of files had met a missing or empty
\* one, or a scan had overrun a list (erase_flash, :963-990; the ways a list comes into
\* memory and counts as loaded, :906-926, :1091-1102, :1142-1157).
MarksSurvive == \A m \in Bad : m[1] \in unlisted \/ m \in marks

\* A bank that the ROM can boot from has a list of all its bad blocks, whose size the
\* firmware accepts, whatever installation was cut short, failed or was repeated before,
\* with the same exception as MarksSurvive (install_block_zero verifies the lists before
\* it writes a stamp, installer-linux.c:1366, and erase_flash takes both away together).
ListedWhereStamped ==
  \A b \in stamp \ unlisted :
    page0[b].kind = "list" /\ Covers(page0[b], b) /\ page0[b].num_entries <= ScanListItems
==============================================================================
