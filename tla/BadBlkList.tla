----------------------------- MODULE BadBlkList -----------------------------
(***************************************************************************)
(* The initial bad blocks of the greedy FTL (those of the other FTLs are   *)
(* found in the same way): build_bad_blk_list reads the scan list of every *)
(* bank and sets a bit for every bad virtual block in a bitmap in DRAM,    *)
(* format clears the tables behind it and then asks is_bad_block.          *)
(*                                                                         *)
(* Nothing here is a state machine: the functions are operators, and       *)
(* theorems (BadBlockProofs) say for every geometry what is_bad_block      *)
(* answers.                                                                *)
(***************************************************************************)
EXTENDS Integers

CONSTANTS
  NumBanks,       \* NUM_BANKS
  VBlksPerBank,   \* VBLKS_PER_BANK, of two physical blocks each (OPTION_2_PLANE)
  ScanListItems,  \* SCAN_LIST_ITEMS
  EccUnit         \* DRAM_ECC_UNIT

Banks        == 0 .. NumBanks - 1
VBlks        == 1 .. VBlksPerBank - 1      \* block 0 holds the scan list itself
PBlksPerBank == 2 * VBlksPerBank

Geometry ==
  /\ NumBanks \in Nat \ {0} /\ VBlksPerBank \in Nat \ {0}
  /\ ScanListItems \in Nat /\ EccUnit \in Nat \ {0}

\* A scan list as the flash controller delivers it.
ScanLists == [corrupt : BOOLEAN, num_entries : Nat, list : [0 .. ScanListItems - 1 -> Nat]]

-----------------------------------------------------------------------------
\* The low 15 bits of an entry are the number of a physical block.
PblkOffset(entry) == entry % 32768
Entries(l)        == {PblkOffset(l.list[i]) : i \in 0 .. l.num_entries - 1}

Trusted(l) ==
  /\ ~l.corrupt
  /\ l.num_entries <= ScanListItems
  /\ Entries(l) \subseteq 1 .. PBlksPerBank - 1

\* The items that mem_search_equ_dram looks at: the word before the list, which is
\* zeroed in a list that is trusted, and the entries of such a list.
Searched(l) == IF Trusted(l) THEN {0} \cup Entries(l) ELSE {l.num_entries}

BadIn(l) == {v \in VBlks : 2 * v \in Searched(l) \/ 2 * v + 1 \in Searched(l)}

-----------------------------------------------------------------------------
\* set_bit_dram and tst_bit_dram take a byte address and a bit offset, and access a
\* word: here its number in the bitmap, and the bit in it.
Bit(base, offset) == <<(base + offset \div 8) \div 4, (base * 8 + offset) % 32>>

Base(bank)      == bank * (VBlksPerBank \div 8 + 1)
BitOf(bank, v)  == Bit(Base(bank), v)
BitmapBytes     == (((NumBanks * VBlksPerBank) \div 8 + EccUnit - 1) \div EccUnit) * EccUnit

build_bad_blk_list(lists) == UNION {{BitOf(b, v) : v \in BadIn(lists[b])} : b \in Banks}

\* format clears PAGE_MAP and what follows it, from the end of the bitmap on.
AfterFormat(bitmap) == {bit \in bitmap : 4 * bit[1] < BitmapBytes}

is_bad_block(bitmap, bank, v) == BitOf(bank, v) \in bitmap

InBitmap(bank, v) == 4 * BitOf(bank, v)[1] < BitmapBytes
=============================================================================
