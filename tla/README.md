# Verification of the Jasmine OpenSSD firmware

The repository holds two copies of the Jasmine OpenSSD 1.1.0 firmware for the
Indilinx Barefoot SSD controller: `OpenSSD-1.1.0.aes.gatbonton`, whose greedy
flash translation layer encrypts what the host writes, and
`OpenSSD-1.1.0.greedy.patched`, the same firmware without encryption. The
Makefile builds `FTL = greedy`; the tutorial, DAC and FASTer FTLs are the
alternatives. Paths below are relative to
`src/OpenSSD-1.1.0.aes.gatbonton/`.

## 1. Inventory

### The parts and how they meet

    host --SATA--> fiq_handler (FIQ) --event queue, slow_cmd--> Main()
    Main() --ftl_read / ftl_write / ftl_flush--> FTL (greedy, dac, faster, tutorial)
    FTL --flash_issue_cmd--> waiting room --> per-bank FSM --> NAND
    SATA hardware <--read / write buffer rings in DRAM--> flash controller
    FTL tables in DRAM and SRAM, saved to NAND by ftl_flush
    installer --scan lists in block 0--> build_bad_blk_list, at power-on

There is one processor and no operating system. `Main()` serves one command at a
time and is interrupted only by the SATA FIQ and the flash IRQ; concurrency is
with the interrupt handler, the SATA hardware that fills and drains the buffers,
and the flash banks that execute commands on their own.

| Component | State it keeps | Operations | What makes it correct |
|---|---|---|---|
| Greedy FTL, `ftl_greedy/ftl.c` | PAGE_MAP, VCOUNT, per bank cur_write_vpn, gc_vblock, free_blk_cnt, lpn_list_of_cur_vblock; the NAND blocks | ftl_read, ftl_write, write_page, assign_new_write_vpn, garbage_collection | reads return the last write; a live page is never erased; counts exact; one erased block in reserve; pages programmed once and in order; every command ends |
| Power-off recovery, same file | cur_miscblk_vpn, cur_mapblk_vpn; misc. and map blocks | ftl_flush, load_metadata, format, format mark | what was flushed is what is loaded, at every point a power loss can hit |
| Bad-block list, same file | BAD_BLK_BMP, g_bad_blk_count | build_bad_blk_list, is_bad_block | bitmap equals the scan list; banks do not overlap |
| Host interface, `sata/*.c` | event queue, slow_cmd, eq_full, g_sata_action_flags, srst | fiq_handler, handle_got_cfis, handle_srst, Main, eventq_get, ATA functions | every command is answered once; transfer flags delivered once; resets are never lost |
| Flash controller, `target_spw/flash*.c` | waiting room, bank FSMs, buffer ids and limits | flash_issue_cmd, flash_finish, nand_* wrappers | order per bank; no buffer overwritten while in use; ring never overrun |
| Encryption, in write_page | AES context, the write buffer | the loop of write_page, AES_ECB_encrypt | what is stored is the encryption of what the host sent |
| Hash table, `target_spw/shashtbl.c` | buckets, node arena, free list | init, insert, get, remove, update | a finite map; a node is in one list |
| Memory utility, `target_spw/mem_util.c` | none (hardware search, DRAM words) | copy, search, 8/16-bit and bit access | equals its definition on words |
| Tutorial FTL | g_target_bank, g_target_row, PAGE_MAP | ftl_read, ftl_write, get_free_page | reads return the last write, 0xFF elsewhere |
| DAC FTL | as greedy, per region, ages | as greedy, cost-benefit GC | as greedy |
| FASTer FTL | data, log and isolation block maps, valid bitmaps, hash table | log writes, merges, second-chance GC | one valid copy per page; bitmap agrees with the hash table |
| Installer, `installer/installer-linux.c` | scan lists in memory, files, block 0 of every bank, marks of bad blocks | scan, load, save, erase, install | bad blocks are never erased; a drive that boots knows its bad blocks |
| Dummy FTL, start-up, UART, test driver | - | - | not modelled, see section 8 |

Hard behaviours: garbage collection in the middle of a write; stale owners in
the LPN lists; the interrupt handler between two steps of `Main()`; buffers that
the SATA hardware and the processor touch together; power loss inside a flush;
tables at their limits (last page of a block, last free block, 16-bit counts).
`PROJECT.json` lists each of them at its source line.

## 2. Modules

| Module | What it is |
|---|---|
| `GreedyFTL` | ftl_read, ftl_write, write_page, assign_new_write_vpn and garbage_collection over the blocks of every bank; the properties |
| `BlockDevice` | the abstract disk that an FTL promises: a function from sectors to contents, commands that touch it front to back |
| `GreedyFTLProofs` | the inductive invariant, the theorems about it, and the refinement of `BlockDevice` |
| `BadBlkList` | build_bad_blk_list, the bitmap and is_bad_block as operators |
| `Installer` | the host tool that scans for bad blocks, erases, and writes block 0; the properties |
| `BadBlockProofs` | its inductive invariant and theorems; the theorems about `BadBlkList` |
| `MetaNand` | the flash as a metadata log sees it: banks that execute queued commands in order, a buffer per bank that is read when the command runs, and the page of a log on its way there |
| `GreedyFlush` | ftl_flush of the greedy FTL on `MetaNand`, power loss at every step, and what load_metadata would read |
| `DacRecovery` | ftl_open, format, ftl_flush and load_metadata of the DAC FTL on `MetaNand` |
| `GreedyFlushProofs`, `DacRecoveryProofs` | the inductive invariants of both logs and their theorems |
| `FlashCtrl` | the waiting room, the banks, and the two buffer rings between flash and SATA |
| `TutorialFTL` | ftl_read and ftl_write of the tutorial FTL on `FlashCtrl`, next to a host that transfers pages |
| `TutorialFTLProofs` | the inductive invariants of both rings and of the data in them, and their theorems |
| `DacFTL` | one bank of the DAC FTL: regions, promotion, demotion, cost-benefit garbage collection |
| `DacFTLProofs` | its inductive invariant and its theorems |
| `SHashTbl` | the static hash table: chains, node arena, pool of removed nodes |
| `FasterFTL` | one bank of the FASTer FTL on `SHashTbl`: log blocks, three merges, second chance, isolation area |
| `FasterFTLProofs` | the inductive invariant of its block tables and cursors, and its theorems |
| `SataHost` | the FIQ handler, the main loop with the event queue, the ATA functions, and the host and SATA hardware around them; the properties |
| `SataHostProofs` | the inductive invariant of `SataHost` and its theorems |
| `MC...` | the instances of the runs: layouts, hosts, workloads |

### GreedyFTL and the code

A virtual page number `vblock * PAGES_PER_BLK + page` is a record `[blk, pg]`,
`NULL` is page 0 of block 0. `nand` holds the data pages, `last_page` the LPN list
in the last page of each block (`Erased` if not programmed).

| Action | Code |
|---|---|
| `ftl_write`, `ftl_read` | entry of the function: the cut of lba into page and offset, the choice to encrypt |
| `ReadPage` | one iteration of the loop of ftl_read |
| `AssignNextPage`, `AssignNextBlock`, `AssignByGc` | the three ways through assign_new_write_vpn, called first in write_page |
| `ProgramPage(enc, lost)` | the rest of write_page, and the end of the loop of ftl_write |

The initial state is what `ftl_open` leaves: it always formats. The free-block
count starts from the formula of `init_metadata_sram`; that it equals the number
of data blocks is a lemma (`UserAreaCount`). The guard of `AssignNextBlock` that a
next block exists stands for the `do ... while` search and its ASSERT;
`FreeCountExact` and `CommandsEnd` say that it is always met. Victims are all the
blocks of minimal count, since the memory utility does not say which it returns.

The holes of a partial write come from the old copy; a page without one is
programmed partially and keeps 0xFF there. A command of exactly 256 sectors
(`EncSectors`) is encrypted in the write buffer while the hardware may still be
storing it, piece by piece: a piece of 128 bytes is read, encrypted and copied back.
A sector that was there in time is stored encrypted (`enc`), one that arrives after
its turn as it came, and one that arrives between read and copy back is overwritten
by the ciphertext of what the buffer held before: it is lost (`lost`, `Garbled`), as
is one whose pieces met different fates. The model has no smaller unit than the
sector. `ftl_read` never decrypts, so `BlockDevice` promises of such a write any of
the three, sector by sector, and of all other sectors what the host sent.

Flash commands of one bank take effect in the order they are issued, so each is
a step here. `FlashCtrl` says why: the waiting room holds one command and a bank
executes one, so the commands of a bank cannot pass each other.

### GreedyFlush, DacRecovery and the code

A flash command is issued to a queue of its bank and executed later; a program
command reads FTL_BUF when it is executed. The tables are one version number,
cyclic: what counts is which flush a page on flash comes from.

In `GreedyFlush`, `logging_pmap_table` is one iteration of the loop of that
function, `PrepareMisc` and `ProgramMisc` those of the two loops of
logging_misc_metadata, `LoggedMap` and `FlushEnd` the waits. `ftl_open` calls
`format` whatever it finds (`if (TRUE)`), so load_metadata is an operator, `Image`,
and a power loss leads to the formatted state. In `DacRecovery` the format mark
decides, and load_metadata is an action.

### FlashCtrl, TutorialFTL and the code

`Accept` and `Finish` are the hardware: a bank takes the command of the waiting
room when it is idle. The hardware is not in the repository. Modelled from the
firmware's use of it: `bm_read_limit` and `bm_write_limit` move over finished
buffers in the order of the buffers, the SATA link serves the page transfers in
the order of the commands, a program command waits for the data of its buffer.
`WriteStart`, `ReadLeftHole`, `ReadRightHole`, `ProgramPage` are one page of
ftl_write, `ReadMappedPage` and `ReadUnmappedPage` one page of ftl_read.

`Transfers` lists the pages of a command in closed form, from its first sector to its
last; `PieceLen` and `Rest` are the step by step cut that ftl_read and ftl_write make.
That both agree is part of the proof (section 5).

A partial write to a page that was never written programs whatever the write
buffer holds beside the host's sectors; `Expected` leaves these sectors
unchecked (`Stale`).

### DacFTL and the code

One bank, bank 0 or another: `Lpns` are the logical pages it keeps, among them 0 only
in bank 0. An unused entry of an lpn list is 0, and garbage collection looks it up as
logical page 0 like any other (`LivePages`), so page_map has an entry for it in every
bank (`Mapped`); in a bank other than 0 that entry moves as bank 0 pleases
(`PageZeroMoved`), within `ZeroVpns`. `write_page` stands for the beginning of the function; the three ways through
assign_new_write_vpn are `NextPageInBlk`, `CloseBlk` then `NextPageAfterGc` or
`NextFreeBlk`; `SelectVictim`, `CopyPage` (one valid page) and `EraseVictim`, or
`EraseEmptyVictim`, are garbage_collection; `ProgramPage` is the end of write_page.
The data of a page is the logical page whose last write it is, or `Old`.

### FasterFTL and the code

One bank. `write_to_log_block` and what follows up to `Program` is the function of
that name with prepare_to_new_write and assign_cur_write_rwlog_lpn;
`GiveAllSecondChance`, `KeepFewValid`, `SplitValid`, `MigrateColdPage` and
`KeepWarmPages` are garbage_collection, `SwitchMerge`, `MergeOtherStream`,
`NextVictim`, `MergeStreamOfVictim` and `FullMerge` the merges, `Tune` the end of a
write. The firmware of this model is built with its assertions
(`OPTION_ENABLE_ASSERT`, 0 as shipped): `StopAtAssert` is what an assertion does.
Without them the isolation area overflows into its own victim, since a garbage
collection migrates up to one page less than a block while writes that ran it do
no merge (`ftl_faster/ftl.c:1741`, `1759`). Banks do not influence each other
except by the shared merge period, which is the same expression in each.

`SHashTbl` has a chain per bucket as a sequence of nodes; the free list threaded
through `next` is the sequence `free_node_pool`.

### BadBlkList and the code

`Trusted` and `Searched` are the checks of a scan list and what the search looks at,
`Bit` the word and bit that set_bit_dram and tst_bit_dram access, `AfterFormat` the
clearing of PAGE_MAP.

### Installer and the code

`step` is "menu" or the loop that the chosen entry is in; a scan and the two loads
change the memory of the tool only and are one action each. `erase_flash` is one
block of one bank, `ProgramList`, `VerifyLists`, `WriteStamp` and `WriteImage` are the
steps of install_block_zero, each of which may fail; `Stop` is the end of the tool
or of the power at any of them, after which `Start` finds the memory cleared. A
scan list is the number of its entries and the set of blocks they name; that the
firmware takes exactly these for bad is `TrustedListExact` of `BadBlockProofs`.

Nothing is assumed of the operator: he may erase after the warning that bad blocks
will be erased too, and go on after a file could not be opened, which leaves
scan_list_loaded set if an earlier one could. A file whose writing was cut off is
there and empty, and reading it is not noticed. A scan that writes past the end of
a list leaves lists that say anything (`Overrun`). Three history variables follow
this: `given` are the banks whose list was read or scanned in this session, `flawed`
is set by a missing or empty file and by an overrun list, and `unlisted` collects the
banks that were erased or saved without being given, after the warning or in a flawed
session. There the code does lose marks; the properties are about all other banks.
Of the flash it is assumed that an erased block has lost its mark, and that blocks
which are in use do not look marked.

### SataHost and the code

`host` is what the host waits for. `int_stat` holds latched interrupts with their
FIS in `fis`; `eq` is the hardware's event queue; `xfer` the transfer that a store
to SATA_CTRL_2 started.

| Action | Code |
|---|---|
| `handle_got_cfis`, `handle_srst`, `PhyOnline` | the branches of fiq_handler, each to its end |
| `eventq_get`, `ServeFtl` | the first branch of Main; eventq_get masks FIQ |
| `LookAtSlow` | the test of the event queue that found it empty; the handler may run before the next test |
| `PollSlow`, `NothingSlow`, `StartSlow`, `ata_function`, `PioStart`, `PioEnd`, `EndSlow` | the second branch of Main, up to the store of NONE |
| `Issue`, `SoftReset`, `SoftResetEnd`, `ComReset`, `LinkUp`, `TransferDone` | host and hardware, external |

The handler interrupts the main loop between any two of its steps, except in
eventq_get and pio_sector_transfer. `slow_cmd` is not volatile: the source reads
`code` after it stored BUSY, the object file kept in `build_gnu` before, and
`StartSlow` allows both. `late` is history: a write was queued, and a slow command
posted, between the two tests. Commands are kept by class: read, write, flush (also
standby and idle), the two PIO sector transfers, any other, and one whose range
the handler refuses.

Assumed of the hardware: it completes what it started, a reset ends a
transfer, and the data of an aborted read is not given to a later one. Also
that the data of a write finds room in the write buffer.

## 3. Runs

| Run | Configuration | Checks |
|---|---|---|
| `greedy_two_banks` | 2 banks, 6 blocks of 3 data pages, bad blocks in one bank, commands of up to 2 pages | all invariants, the two action properties, `CommandsEnd` |
| `greedy_partial` | 1 bank, 2 logical pages of 2 sectors, commands of up to 3 sectors, those of 3 encrypted, in time, late or lost | `ImplementsDisk`: GreedyFTL refines BlockDevice |
| `greedy_phantom` | 2 banks, logical page 0 in use | a counterexample to `GcCopiesVcount` (section 6) |
| `greedy_flush` | 2 banks, blocks of 3 pages that wrap, a table of 3 pages, 3 versions | the log after every step of ftl_flush |
| `sata_patient` | an event queue of 3, resets by an idle host or during a transfer | all invariants of `SataHost`, `RequestsAnswered` |
| `sata_reset` | an event queue of 2, a host that resets during slow commands | a counterexample to `SrstExecuted` (section 6) |
| `tutorial` | 2 banks, rings of 3 read and 4 write buffers, 3 sectors a page, 3 writes sent ahead with reads | order and content of every page, both rings, `CommandsServed` |
| `dac_recovery` | 2 banks, blocks of 9 pages, tables that are not a multiple of the banks, up to 4 flushes | format mark, images, flash rule |
| `dac_map_full` | as `dac_recovery`, with blocks of 4 pages, more flushes than a map block holds | a counterexample to `MapInOwnBlock` (section 6) |
| `dac` | a bank other than 0 with 9 good blocks of 3 data pages, 3 regions, 12 logical pages, 24 workloads of 95 writes, logical page 0 moving in bank 0 | all invariants of `DacFTL`, `WriteEnds` |
| `installer` | 2 banks of 3 blocks and block 0, three marks in two chips, lists of up to 4 entries; missing and empty files, overrun lists | both invariants of `Installer` |
| `faster` | one bank, 14 workloads of sequential streams, hot and cold pages | all invariants of `FasterFTL` with `SHashTbl`, `WriteEnds` |

Bounds, and why they are enough. Blocks of the greedy FTL have three data pages:
a first, an inner and a last one, which the rules about the last page, the
compaction of a victim and the skipped page 0 need. One bank has one data block
more than its logical pages fill, the other none to spare: garbage collection
begins within a few writes and then runs on every block change, so every order of
overwrites, stale owners and victims comes up. Two banks and commands of two
pages are enough for a command to cross banks. Two sectors per page give a left
and a right hole; commands of three sectors begin and end inside a page. The
state spaces are finite and complete: nothing counts up.

The metadata blocks of `greedy_flush` wrap every third flush, the map blocks and
the misc. block in different flushes; a table of three pages over two banks
makes one bank log twice. Its state space is complete. `DacRecovery` counts its
flushes, since the passing run has to stop before a map block is full
(`MaxFlushes`); a table that is no multiple of the banks gives banks with
different numbers of pages, which the loader counts back from.

`tutorial`: three read buffers are the fewest with which the ring can be full
while the banks finish out of order; a host with up to four pages outstanding
(`MaxPending`) gets ahead of the firmware. One bank has one good block, so writes
run until the FTL stops.

`DacFTL` and `FasterFTL` have too many states for a free host: a state is
reached only after tens of writes. Their hosts follow workloads, fixed sequences
from uniform to hot with a few places of choice, and every step in between is
the model's own. In `dac`, pages are written first once each and then in
an order that looks random; the working sets of 3, 6, 9 and 12 pages bring up
promotion to the top, demotion in garbage collection, blocks without valid
pages and blocks full of them. `ZeroVpns` are two places for bank 0's logical page 0
at which this bank has a programmed page or none; the place that breaks
`ReadsLastWrite` (section 6) is not among them. Every action is taken, including the
stop at an assertion (section 6). `WriteEnds` holds on these workloads and is
not a fact about the code: longer ones on a fuller drive reach a search that does
not end (section 6). In `faster` the workloads
force each merge, both outcomes of the second chance, migration, and the two
assertions of section 2.

In `installer` one bank has a block that is bad in both chips, the other one that is
bad in one chip; a list has room for a bank to be scanned twice, and a third scan of
one session overruns it. The state space is complete.

An event queue of three fills with completed writes, defers the next command,
and drains while a reset is posted. `Impatient` names the situations in which
the host may send a reset, and `QuickHost` whether its next request can come before
the main loop has stored NONE, a few instructions after the answer was handed
to the hardware. The passing run excludes a host that gives up on a slow command
(section 6), one that gives up on a command whose flags are deferred (eventq_get
would then start a transfer nobody waits for; what the hardware makes of it
cannot be read from the source), and the quick host. The proofs name the same
restriction, `Patient`.

Deadlock is checked where the system never stops: the greedy FTL, its flush, SATA.
`tutorial`, `dac` and `faster` may stop: the drive is full, the workload is
over, an assertion failed.

Fairness. `Main()` is a loop on a processor of its own: a step that is possible is
taken (`FairSpec`, weak fairness of the firmware's own steps). Nothing is assumed
about the host of the greedy, DAC and FASTer FTL, which may never send a
command. In `SataHost` the handler, the main loop and each action of the hardware
are weakly fair; in `TutorialFTL` a bank finishes what it began, and the host
takes and sends the data of its commands.

## 4. Properties

- `MapOwned`: a mapped page is a programmed page of a data block of its bank, and
  the list that garbage collection will read names the logical page as its owner.
  Sharing a page, losing a live page with a victim, or mapping into the reserve
  would all break it.
- `VcountExact`, `FreeCountExact`: the counts that choose the victim and start the
  collection are exact in every state.
- `GcReserve`: one block per bank is erased, out of the victim search, and not the
  write front; the blocks with `VC_MAX` are exactly those out of use.
- `WriteFront`: the unused data blocks are all ahead of the front, or there are
  none; what the front has not reached is erased.
- `OwnersHere`: the owners recorded for a bank belong to it, or are the 0 of a
  cleared list.
- `GcCopiesVcount`, `NandDiscipline`: action properties - the copies of a
  collection against the count, and the rules of NAND programming and erasing.
- `CommandsEnd`: liveness of the command loops. `ImplementsDisk`: refinement.

`SataHost`:

- `FlagsOnce`: the transfer flags of a read or write are latched, deferred, or with
  the hardware, in one of the three; handler and main loop neither both
  deliver them nor leave them to each other.
- `SlowOnce`: the same for a slow command or a reset, between interrupt, `slow_cmd`
  and main loop; none is lost or done twice.
- `SlowIsLast`: a flush or a reset is executed with the queue drained and every write
  before it handed to the FTL, except in the one case of section 6 (`late`).
- `EqBounded`: the deferral is what keeps the queue within its size.
- `RequestsAnswered`: liveness. `SrstExecuted`: a posted reset is executed.

Flush and recovery (`GreedyFlush`, `DacRecovery`):

- `FlushedIsLoaded`: what the loader would read after ftl_flush is what was saved,
  however often the blocks have wrapped. In `DacRecovery` this, and the three properties
  below that it shares or has of its own, holds up to the first flush that is begun
  after a power loss cut one short (`NoFlushAfterCut`); section 6 says what comes then.
- `OldImageKept`: during a flush every bank keeps its part of the old image or
  has its part of the new one. Not so while a full block is being rewritten:
  there is only one, and the code erases it first.
- `MiscAfterMap`: a misc. page never points to table pages that are not on flash.
  It depends on the waits between rounds, which keep FTL_BUF for the commands
  that read it.
- `MarkMeansLoadable`: the format mark implies a loadable image.
- `NandRule`: no page programmed twice or out of order. `MapInOwnBlock`: the log
  of a table stays in its block.

`Installer`:

- `MarksSurvive`: whatever was scanned, loaded, erased, installed, repeated or cut
  short, no bad block has been erased, so a new scan finds all of them, in every bank
  that is not `unlisted` (section 2).
- `ListedWhereStamped`: a bank that the ROM can boot from has a complete list which
  build_bad_blk_list accepts, if it is not `unlisted`. It depends on the order of install: both are erased
  together, the lists of all banks are read back before the first stamp.

`TutorialFTL`:

- `HostGetsItsPages`: the buffers between SATA_RBUF_PTR and the read limit hold the
  pages of the pending reads, in their order and with the data of the last
  write before each.
- `RingsAgree`: the distances in both rings are the commands in flight; no bank
  programs a buffer that another command still reads old sectors into.
- `CommandsServed`: liveness across the shared waiting room.

`DacFTL`:

- `ReadsLastWrite`: every page but the one being written is mapped to its data
  (`OwnPagesKept`), and a bank other than 0 leaves logical page 0 where bank 0 put it
  (`PageZeroKept`), as long as that is not the first page of a region's first block
  (`NoPhantom` of the proofs; section 6).
- `CountsCoverLive`: a count is never below the number of valid pages. It may be
  above, since garbage collection counts the old copy of the page that is being
  written.
- `BlocksInRole`: free blocks are erased, every region has one active block of its
  own, free_blk_cnt is exact, nothing is programmed twice.
- `WriteEnds`: both loops of assign_new_write_vpn end, on the workloads of the run
  (section 6 has one on which they do not).

`FasterFTL`:

- `ReadsLastWrite`: get_vpn finds the last write of every page, in the sequential
  log, the random log, the isolation area or the data block.
- `TableAgrees`: the hash table names exactly the pages that live in log blocks,
  and is well formed: no node in two chains, none lost, within the arena.
- `BlocksApart`: the block maps and the free list hold every good block once, and a
  free block is erased.
- `CountsExact`, `NandRule`, `WriteEnds` as above.

## 5. Proofs

`GreedyFTLProofs` proves, for every geometry that meets the assumptions of
`GreedyFTL`, every invariant of the run and both action properties.

Assumptions: `SizeAssumption`, `LayoutAssumption` (bad blocks spare block 0 and the
misc. block, two data blocks remain), `DataAssumption`, `CapacityAssumption` (every
bank has more data pages, the reserve not counted, than logical pages; the
firmware keeps 7% of the sectors back for this), and `NoPhantom`: one bank only, or
a host that leaves logical page 0 alone. Section 6 says why it is needed.

The invariant `IInv` is the conjunction of `TypeOK`, `MapOwned`, `VcountExact`,
`GcReserve`, `FreeCountExact`, `WriteFront` and `OwnersHere`. None of the first
five is inductive alone: the exactness of the counts needs the owners, the
owners need the shape of the write front, and the reserve needs the exact free
count. `ByBank` splits it into one part per bank, since a step touches one bank.

- *Room*. When garbage collection starts every data block but the reserve is full,
  so if all their pages were valid there would be at least as many logical pages
  as data pages, against `CapacityAssumption`; a victim of minimal count has an
  invalid page, and the front gets a page (`Room`, a pigeonhole over the sum
  written as the cardinality of a product).
- *The victim's count*. Its live pages and the logical pages that map to it are in
  bijection through the owners (`VictimCount`), so as many pages are copied as the
  count says.
- *The compaction*. `Rank` and `Nth` number the live pages (`RankNth`); relocation
  and the compacted list agree through them.

`IsDisk` proves that the greedy FTL implements `BlockDevice`, for every geometry
and page size, with `NoPhantom`. Which sectors of a write of 256 sectors are spoiled is
the choice of `enc` and `lost`; that no others are is part of the theorem. The mapping (`content`, `op`, `request` of
`GreedyFTL`) reads a sector through PAGE_MAP, so that:

- garbage collection must leave the contents alone (`GcKeeps`): a page that is moved is
  found at its new place because `Relocate` and the erase and copy of `CopyBack` agree
  through `Rank`, and because its owner is the page's only one;
- the program of a page changes exactly the sectors of the piece (`ProgramPuts`), the
  holes come from the old copy, and the new place was nobody's;
- a piece is what the disk may touch next (`Piece`, `RunOf`): the cut of a command
  into pages visits its sectors front to back without gap or overlap. This is the
  arithmetic of `lba / SECTORS_PER_PAGE` and its remainder (`DivMod`);
- the step that assigns the place of a page (`AssignStutters`) is a stutter, also when
  it collects garbage.

`GreedyFlushProofs` and `DacRecoveryProofs` prove every invariant of the two
metadata logs; both begin with lemmas on vpns, short queues and the commands of `MetaNand`. A page of a log is either on flash
(`Written`) or still queued with its contents in FTL_BUF (`Queued`), and a queue
is empty, one program, or an erase and a program. The waits between rounds enter
only here: a bank whose queue was empty when the round began gets one page in it, so
FTL_BUF still holds that page when the command runs.

- `GreedyFlush`: the invariant says for each table page whether the cursor of its map
  block shows the new version or the last one (`MapLog`), the same for the misc. pages,
  and that the old image is intact as long as nothing was erased. The assumptions are
  those of `GreedyFlush`: one page of the table per bank and map block, distinct map blocks.
- `DacRecovery`: the invariant counts the pages that a flush has logged in a map block
  (`Logged`), and says that the last flush's pages lie right below them and nothing above.
  The theorems assume `Fits`: all flushes fit the map block. The code never erases a
  full one with two banks or more, so without `Fits` they are false, and `dac_map_full`
  is the counterexample. `dac_recovery` satisfies `Fits`. The properties themselves have
  the hypothesis `NoFlushAfterCut`, without which they are false too (section 6).

`TutorialFTLProofs` proves `RingsAgree` for any number of banks and buffers, with
more than `NumBanks + 1` write buffers (`FlashAssumption`) and `NoneAssumption` (None
is no command). A ring is a window (`Ring`): its buffers are those of the commands in
flight, one each, and those finished out of order, and the oldest is not finished.
The lemmas on rings (`RingIssue`, `RingFinish`, `RingCount`) know nothing of the FTL.
ftl_read waits for room in its ring, which gives the read side. ftl_write does not wait:
there the invariant says that programs go to the banks in turn (`InTurn`), so when the
window is one longer than the number of banks, its oldest program, which holds up the
limit, is in the bank that the waiting program needs (`SameTurn`), and none can be
accepted or issued before it has finished. `HolesOfPage` is the order of reading old
sectors and programming: the wait on the other bank, or the order of one bank.

It also proves `HostGetsItsPages`, for any number of banks, buffers, pages and sectors and
every workload (`TutorialAssumption`: commands stay within the drive; the marks for no
mapping, erased and unchecked sectors are told apart from addresses and data). The
invariant, `DataOK`, says that there is a history `g`: the list of all page transfers that
the host has asked for, with a number for each. Its parts say what the list means for
the state:

- *Counts for cursors* (`Counters`). The cursors of FTL and SATA hardware are the reads and
  writes of the list up to the page each has come to, modulo the ring; so are the limits.
  Since no ring is overrun, a buffer number names one page of the list (`OwnBuffers`).
- *Where a write is* (`Places`, `Programs`, `Filled`). Each write has a page of the flash of
  its own. It is in flight, and its buffer still holds what the host sent, or the flash
  holds its data. A limit moves over finished buffers only, so a buffer is filled again
  only after its program.
- *Old sectors* (`Holes`, `HoleCmds`). Beside the host's sectors the buffer holds what the last
  write of the same logical page left there, or a command in flight will read it from that
  write's page, or ftl_write is about to issue it.
- *Reads* (`ReadCmds`, `Fetched`). A read that the host waits for is in flight to the buffer
  of its number, from the page of the last write before it, or is in the buffer.
- *The chain*. A read, or the read of a hole, may be issued while the write it needs is
  still in flight. The waiting room holds one command, so that write is in its bank by then,
  and the bank executes it first: `ProgCmd(g, Source(g, i)) # wr` in both command parts.
- *The cut into pages* (`Queued`, `NextPiece`). The pages of the list behind those the FTL has
  taken up are those of its command and of the waiting ones, one by one.

HostSends is the one step that makes the list longer (`HistoryGrows`); every other step
moves a count (`After`). One lemma per action, `...Data`.

`FasterFTLProofs` proves `BlocksApart` for any number of data, log and isolation
blocks, for any page count of at least four, for every workload, and with assertions or
without. data_bmt, log_bmt, isol_bmt and the free list together are one function
from places to blocks (`BlockAt`), and the invariant says that it is one-to-one and
onto the good blocks (`Blocks`), that the two free blocks are erased (`Unused`), and
where the cursors are (`CursorsOK`): the random cursor in a random log block, the
isolation cursors in the ring. A switch, partial or full merge rotates three places
or swaps two (`Rotated`, `Exchanged`), and so does garbage collection when it
takes a block for the isolation area. The block that a merge gives up and erases is the
new second free one; the first one, into which it copied, has left the list
(`SwapErased`). The cursors are needed because the block that is written or replaced is
looked up through them: outside the table the code would read INVALID and put it on the
free list. Nothing is assumed of the hash table or of the valid bitmaps, so a wrong
entry there cannot lose a block.

`DacFTLProofs` proves `OwnPagesKept`, `CountsCoverLive` and `BlocksInRole` for any bank, any
number of regions, blocks, logical pages and workloads and blocks of three pages or more,
from `DacAssumption`: the good blocks outnumber the regions by more than one, and the
marks (`VC_FREE` and so on, the contents of pages that are no data) are told apart from
numbers and from each other. Nothing is assumed of how full the drive is: whether a
write ends is another matter (`WriteEnds`, section 6). `ReadsLastWrite` needs `NoPhantom`
besides: the bank is bank 0, or bank 0's logical page 0 is never at the number of the
first page of a region's first block. Safety rests on these parts of `IInv`:

- *The dead write pointer* (`Roles`). Only the region that is being given a block can have
  a pointer whose block is not active, and then it is the last data page of the block just
  closed; `vblock` still names it. Garbage collection may erase that block or keep it.
- *Ages* (`GcOK`). Nothing in get_vt_vblock_by_cost_benefit excludes the block just closed.
  Its age is the present, so its cost is 0 (`CostRange`) and it is no victim while
  another block costs more (`VictimIs`). Otherwise no block is worth anything
  (`NoWorth`) and the victim is the first block. If that is the block just closed, it may
  become the one kept for garbage collection; the next choice is the first block again,
  which is no candidate then, and the assertion at `ftl_dac/ftl.c:1404` stops the firmware.
  So the theorems are about a firmware built with its assertions.
- *Out of blocks* (`FullMeansDead`). is_full_all_blks compares free_blk_cnt with the number
  of regions. Free blocks, active blocks and the one kept all have an erased last page,
  one-to-one, so when the test says full no block is free and the pointer is dead: a
  victim's pages never meet a region with an active block and a free one to spare.
- *Room for the copies* (`GcOK`, `CopyStep`). Once the block kept is in use, the pages still
  to be copied have higher page numbers in the victim than the pointer in it, so it is
  never full before the victim is.
- *Counts and lists* (`Counts`, `Mapping`). A count covers the valid pages of its block whether
  it is kept in SRAM or in `vcount`, and the lpn list of a valid page names it, so an empty
  `LivePages` means an empty victim. An entry of a written page is its owner, and the first
  page of a region's first block is the only one below a write pointer whose entry is 0
  without an owner (`ListsOK`), so those pages are all that can pass for logical page 0.

`SataHostProofs` proves the invariants of `SataHost` for an event queue of any size,
assuming `Patient`, and that under `Patient` the property which `sata_reset` violates
holds (`SrstKept`). `SlowLast` is about the two tests of Main as two steps, with the
handler in between. None of the invariants is inductive. `IInv` adds three
parts: `LatchedFor` (one interrupt at a time, and what it means for the host),
`SlowFollows` (`slow_cmd` is BUSY exactly while the main loop executes it, and what
is posted or executed is what the host waits for) and `QueueFull` (flags are
deferred exactly when the queue reached its size). One lemma per action.

`BadBlockProofs` proves both properties of `Installer` for every geometry and every set of bad
blocks. The invariant says what a list must be wherever it is kept: complete and of
an accepted size in block 0 and in the file of every bank that is not `unlisted`
(`CopiesSound`), the same in memory if the bank is `given` (`ListsSound`); that
scan_list_loaded means all banks are given unless the session is `flawed` (`AllGiven`); and
that install has erased every bank, and so taken the stamps away, before it writes the
first list (`AllErased`, `StampsGone`). Only then is erasing harmless, and the next copy
sound.

It also proves what is_bad_block answers in every geometry. A bit is a bit
number (`BitNumber`), the stride keeps the bits of two banks apart (`BitsApart`), so
the bitmap is exact as far as it reaches (`BitmapExact`); where it does not reach is
`LastBitsLost`. `BadBlkList` has no run of its own: there are no steps in it.

Model-checked only:

- Liveness (`CommandsEnd`, `RequestsAnswered`, `CommandsServed`, `WriteEnds`), out of the
  prover's reach. `WriteEnds` of `DacFTL` is also false in general (section 6): the run
  shows it for its workloads.
- `NandRule`, `CountsExact`, `TableAgrees` and `ReadsLastWrite` of `FasterFTL`. Before the
  first full merge cur_vt_isol_lpn is -1, so the assertion that the isolation
  cursor stays off its oldest block compares with nothing. That the ring does not
  overflow on this first lap follows from the sizes of the areas and from how many
  pages can be cold at all, not from anything a step checks. `TableAgrees` needs also what
  chains of the hash table hold, which data decide.

## 6. Findings

`greedy_phantom`. The first data block of a bank is written from page 1 on, because
assign_new_write_vpn advances the front before its first use. Page 0 stays
erased and its entry in the LPN list is 0. Garbage collection asks only whether
the recorded owner, logical page 0, maps to this block and page number; with
several banks logical page 0 lives in bank 0, where the same block and page
number may hold it. Then the other bank copies an erased page, redirects
logical page 0 to a block of bank 0 it does not belong to, and the assertion
`free_vpn % PAGES_PER_BLK == vcount` (compiled out, `OPTION_ENABLE_ASSERT` is 0)
would fail. The passing runs with two banks keep the host off logical page 0.

`sata_reset`. `Main()` stores NONE into `slow_cmd.status` when an ATA function
returns. If the host resets the drive meanwhile, say during the flush of a standby
command, the handler posts ATA_SRST in the same variable and the store wipes
it out: the signature is never sent and the drive stays silent until the next
reset. `include/sata.h:185` says the request is treated like an ATA command.

`dac_map_full`. flush_dram_metadata_into_mapblk erases a map block `if remained pages
are not sufficient` (`ftl_dac/ftl.c:544`), but compares a number that was cut to one
page before with the pages left: with two banks or more it is 0, the block is
never erased, and the log of the page map runs into map block 1, then into
the block kept for garbage collection.

Found by proof (`LastBitsLost`): the bitmap of bad blocks has `VBLKS_PER_BANK/8 + 1` bytes
per bank but room for `NUM_VBLKS/8` only. With the shipped 8 banks of 2048 blocks the
bits of blocks 1992 to 2047 of bank 7 lie in PAGE_MAP, which format clears: bad
blocks among them are erased and used, although the free-block count leaves
them out.

Met while modelling, not a run:

- In the DAC FTL, when all pages of the block just closed were rewritten already,
  garbage collection erases it at once. If no other block is free the search returns to
  it, `vblock != (write_vpn / PAGES_PER_BLK)` takes it for the block still being
  written, and the next page is its last one, in a block that stays `VC_FREE`; the
  page after that lies in the next physical block. The assertion of
  `ftl_dac/ftl.c:1159` says otherwise. One page written over and over on a fresh drive
  gets there; the `dac` run stops at that assertion (`StopAtAssert`).
- The comment at `ftl_dac/ftl.c:1383` says that the search for a victim skips "full
  valid blocks"; the test below it skips bad, free and active ones. An old
  block of the region above, all of whose pages are valid, may be the victim. If its
  pages go to the region of the block just closed, they fill the block kept for
  garbage collection exactly, the victim is the next one kept, no block is
  free, and the loop at `:1129` ends with the region at the end of a block again. The
  search at `:1139` for a block that is `VC_FREE` then never ends. Fourteen
  logical pages on nine good blocks of three data pages with three regions, three
  of them written a few times and then left alone, the others written at random, get
  there after about 160 writes.
- The encryption loop of write_page loses data (`ftl_greedy/ftl.c:607-644`). Each
  piece is read from the write buffer, encrypted, and copied back, and nothing waits for
  the SATA hardware to have stored it: the wait (`FO_B_SATA_W`) belongs to the program
  command after the loop. Data that arrives between the read and the copy back is
  overwritten by the ciphertext of what the buffer held before, and acknowledged. Data
  that arrives after it is stored in the clear. `BlockDevice` has both as outcomes of
  such a write, so that `ImplementsDisk` shows everything else to be untouched.
- A flush can overtake a write (`sata_main.c:91`, `:108`). Main finds the event queue
  empty; before it looks at `slow_cmd` the handler queues a write, the host gets the
  data over and is told it is done, and posts a flush; Main executes the flush first. The
  run reaches it (`late`), and `SlowIsLast` says that it is the only way.
- The DAC FTL has the bug of `greedy_phantom` too. The first block of each region is
  written from page 1 on (`ftl_dac/ftl.c:473`), the list entry of its first page is 0,
  and garbage collection looks it up as logical page 0 without asking for the bank
  (`:1249-1254`). In a bank other than 0, if bank 0 has logical page 0 at the same
  block and page number, an erased page is copied and logical page 0 mapped to it. With
  such a place in `ZeroVpns` TLC finds `ReadsLastWrite` violated by `PageZeroKept`.
- In the DAC FTL a power loss during a flush leaves programmed pages behind the last
  complete image. The next load takes the cursors of that image, and the next flush
  continues from there (`ftl_dac/ftl.c:563`): it programs those pages a second time, and
  what it completes need not be loadable. Without `NoFlushAfterCut` TLC finds all four
  properties of `dac_recovery` violated. The comments call the flush one "for normal POR"
  (`:482`), so a power loss between flushes may be all that is meant.
- The installer counts its lists as loaded after the first of several files
  (`installer-linux.c:1102`), and returns to the menu when a later one is missing.
  Erasing everything then erases the bad blocks of the banks whose list is missing
  without the warning of `:1646`, and install writes an empty list next to the stamp of
  such a bank. Scans append to a list without comparing with its size (`:906`), over
  the list of the next bank. `Unlisted` names these banks. Erasing everything
  goes one block past the last (`installer-linux.c:936-939`).
- In the FASTer FTL, full_merge returns early when the partial merge it starts has settled
  its page; if that page was the last of an isolation block, the block is never
  given back (`ftl_faster/ftl.c:1557`).

## 7. Plan

Done in this order: the greedy data path with its proofs, the host interface with
its proofs, the metadata logs, the flash controller with the tutorial FTL, the DAC
FTL, the hash table with the FASTer FTL, the bad-block bitmap, the installer with its
proofs, the proofs of both metadata logs, of the refinement, of the buffer rings and the data
in them, of the block tables of the FASTer FTL and of the DAC FTL.
What is left:

1. `WellFormed` of `SHashTbl` for each operation.
2. The greedy data path on `FlashCtrl`, in place of its assumption on the order of
   commands.

## 8. Not modelled, and why

Register programming at start-up, UART and LED output, the installer's search for the
device and controller set-up, the dummy FTL (keeps no data), vendored AES (a permutation here), the
host scripts, and flash errors: `ftl_isr` prints them and changes nothing, except
that format of the DAC FTL marks a block bad whose erase failed. The flush and load
of the FASTer tables log in the same way as those of the DAC FTL. The second firmware
tree repeats the files of the first one but for the encryption.
