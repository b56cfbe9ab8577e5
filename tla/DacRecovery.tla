----------------------------- MODULE DacRecovery -----------------------------
(***************************************************************************)
(* Power-off recovery of the DAC FTL: ftl_open loads the metadata if the   *)
(* format mark is found and formats otherwise; ftl_flush logs the ages and *)
(* regions (map block 1), the page map (map block 0) and the misc. page of *)
(* every bank.  Both tables are striped over the banks, page by page, one  *)
(* cursor per bank and map block; the loader counts back from the cursor.  *)
(* The power may go at any step.                                           *)
(*                                                                         *)
(* The tables are one cyclic version number, Mixed when pieces of several  *)
(* flushes were loaded together.                                           *)
(***************************************************************************)
EXTENDS MetaNand

CONSTANTS
  TablePages,     \* the pages of the table logged in map block 0 and in map block 1
  NumVersions,    \* bound: versions of the tables that are told apart
  MaxFlushes,     \* bound: flushes since the format
  None,           \* no flush since the format
  Mixed           \* tables made of pieces of several versions

Lbns     == {0, 1}                 \* MAPBLKS_PER_BANK is 2
Versions == 0 .. NumVersions - 1

ASSUME RecoveryAssumption ==
  /\ NumBanks > 1
  /\ NumMetaBlks > MISCBLK_VBN + 2
  /\ TablePages \in [Lbns -> Nat \ {0}]
  /\ NumVersions \in Nat /\ NumVersions > 1 /\ MaxFlushes \in Nat \ {0}
  /\ None \notin Versions /\ Mixed \notin Versions /\ None # Mixed

MapVbn(i) == MISCBLK_VBN + 1 + i   \* no bad block among the first ones

BankOf(c)  == c % NumBanks
RoundOf(c) == c \div NumBanks

\* The pages that ftl_flush writes; an erased or a spoiled page is none of them.
MapPages  == [kind : {"map"}, lbn : Lbns, chunk : Nat, ver : Versions]
MiscPages == [kind : {"misc"}, ver : Versions, misc_vpn : Nat, map_vpn : [Lbns -> Nat]]

ASSUME PageAssumption ==
  Erased \notin MapPages \union MiscPages /\ Spoiled \notin MapPages \union MiscPages

VARIABLES
  mark,           \* the format mark is on flash
  ver,            \* the tables in DRAM and SRAM
  misc_vpn,       \* cur_miscblk_vpn
  map_vpn,        \* cur_mapblk_vpn
  pc,             \* "off", "idle", or the part of ftl_flush or format that runs
  lbn, pos,       \* the map block being logged, the loop counter
  flushes,        \* flushes since the format
  flushed,        \* history: the version last flushed to the end, or last loaded
  cut             \* history: "cut" once the power went during a flush of a marked
                  \* drive, "over" once another flush followed, "no" otherwise

ctl  == <<pc, lbn, pos, flushes, flushed, cut>>
vars == <<nandVars, mark, ver, misc_vpn, map_vpn, ctl>>

Init ==   \* a drive that was never started: it holds no mark
  /\ NandInit
  /\ mark = FALSE /\ ver = 0
  /\ misc_vpn = [b \in Banks |-> 0] /\ map_vpn = [b \in Banks |-> [i \in Lbns |-> 0]]
  /\ pc = "off" /\ lbn = 1 /\ pos = 0 /\ flushes = 0 /\ flushed = None
  /\ cut = "no"

-----------------------------------------------------------------------------
(***************************************************************************)
(* load_misc_metadata takes the highest programmed page of the misc. block *)
(* of a bank; load_dram_metadata_from_mapblk then starts as many pages     *)
(* before the cursor as that bank has of the table.                        *)
(***************************************************************************)
Saved(b) == Newest(b, MISCBLK_VBN)

FirstLoaded_NoRest(b, i) ==                                        \* mutant
  Saved(b).map_vpn[i] - TablePages[i] \div NumBanks + 1
FirstLoaded(b, i) ==
  Saved(b).map_vpn[i] - TablePages[i] \div NumBanks
    + (IF b < TablePages[i] % NumBanks THEN 0 ELSE 1)

LoadedPage(i, c) == PageAt(BankOf(c), FirstLoaded(BankOf(c), i) + RoundOf(c))

ChunksOf(b, i) == {c \in 0 .. TablePages[i] - 1 : BankOf(c) = b}

\* Everything that is loaded through the misc. page of bank b is of version v.
BankImage(b, v) ==
  /\ Programmed(b, MISCBLK_VBN) # {}
  /\ Saved(b).kind = "misc" /\ Saved(b).ver = v
  /\ \A i \in Lbns : \A c \in ChunksOf(b, i) :
       LoadedPage(i, c) = [kind |-> "map", lbn |-> i, chunk |-> c, ver |-> v]

Image(v) == \A b \in Banks : BankImage(b, v)

load_metadata ==   \* its ASSERT: a misc. page in every bank
  /\ pc = "off" /\ mark
  /\ \A b \in Banks : Programmed(b, MISCBLK_VBN) # {}
  /\ ver' = IF \E v \in Versions : Image(v) THEN CHOOSE v \in Versions : Image(v) ELSE Mixed
  /\ misc_vpn' = [b \in Banks |-> Saved(b).misc_vpn]
  /\ map_vpn' = [b \in Banks |-> Saved(b).map_vpn]
  /\ flushed' = ver'
  /\ pc' = "idle"
  /\ UNCHANGED <<nandVars, mark, lbn, pos, flushes, cut>>

(***************************************************************************)
(* format: all blocks erased, the cursors of init_metadata_sram, ftl_flush *)
(* and, at the very end, the mark.                                         *)
(***************************************************************************)
format ==
  /\ pc = "off" /\ ~mark
  /\ flash' = CleanFlash /\ UNCHANGED <<queue, ftl_buf>>
  /\ ver' = 0
  /\ misc_vpn' = [b \in Banks |-> MISCBLK_VBN * PagesPerBlk]
  /\ map_vpn' = [b \in Banks |-> [i \in Lbns |-> MapVbn(i) * PagesPerBlk]]
  /\ UNCHANGED mark
  /\ pc' = "check" /\ lbn' = 1 /\ pos' = 0 /\ flushes' = 1 /\ flushed' = None
  /\ cut' = "no"

write_format_mark ==
  /\ pc = "mark"
  /\ mark' = TRUE
  /\ pc' = "idle"
  /\ UNCHANGED <<nandVars, ver, misc_vpn, map_vpn, lbn, pos, flushes, flushed, cut>>

\* The power goes: commands that no bank has executed are lost.
PowerLoss ==
  /\ pc # "off"
  /\ pc' = "off" /\ lbn' = 1 /\ pos' = 0
  /\ queue' = [b \in Banks |-> <<>>]
  /\ cut' = IF mark /\ pc # "idle" /\ cut = "no" THEN "cut" ELSE cut
  /\ UNCHANGED <<flash, ftl_buf, mark, ver, misc_vpn, map_vpn, flushes, flushed>>

-----------------------------------------------------------------------------
Change ==   \* host writes between two flushes
  /\ pc = "idle"
  /\ ver' = IF ver = Mixed THEN Mixed ELSE (ver + 1) % NumVersions
  /\ UNCHANGED <<nandVars, mark, misc_vpn, map_vpn, ctl>>

ftl_flush ==
  /\ pc = "idle" /\ flushes < MaxFlushes
  /\ pc' = "check" /\ lbn' = 1 /\ pos' = 0 /\ flushes' = flushes + 1
  /\ cut' = IF cut = "cut" THEN "over" ELSE cut
  /\ UNCHANGED <<nandVars, mark, ver, misc_vpn, map_vpn, flushed>>

(***************************************************************************)
(* flush_dram_metadata_into_mapblk, first loop.  num_bytes is cut to one   *)
(* page before it is compared, so its pages per bank are 1 \div NumBanks.  *)
(***************************************************************************)
PagesNeeded(i) == 1 \div NumBanks

MapBlockFull(b, i) == PagesNeeded(i) >= PagesPerBlk - (map_vpn[b][i] % PagesPerBlk)

EraseFullMapBlock ==
  LET b == pos  blk == map_vpn[b][lbn] \div PagesPerBlk
  IN  /\ pc = "check" /\ pos \in Banks
      /\ IF MapBlockFull(b, lbn)
           THEN /\ Issue(b, <<Erase(blk)>>)
                /\ map_vpn' = [map_vpn EXCEPT ![b][lbn] = blk * PagesPerBlk - 1]
           ELSE UNCHANGED <<queue, map_vpn>>
      /\ pos' = IF pos = NumBanks - 1 THEN 0 ELSE pos + 1
      /\ pc' = IF pos = NumBanks - 1 THEN "map" ELSE "check"
      /\ UNCHANGED <<flash, ftl_buf, mark, ver, misc_vpn, lbn, flushes, flushed, cut>>

MapPage(i, c) == [kind |-> "map", lbn |-> i, chunk |-> c, ver |-> ver]

RoundStart_NoWait == TRUE                                          \* mutant
RoundStart == BankOf(pos) = 0 => flash_finish

inc_mapblk_vpn_Late(b, i) == map_vpn[b][i]                         \* mutant
inc_mapblk_vpn(b, i) == map_vpn[b][i] + 1

FlushPage ==
  LET b == BankOf(pos)  vpn == inc_mapblk_vpn(b, lbn)
  IN  /\ pc = "map" /\ pos < TablePages[lbn]
      /\ RoundStart
      /\ map_vpn' = [map_vpn EXCEPT ![b][lbn] = vpn]
      /\ ftl_buf' = [ftl_buf EXCEPT ![b] = MapPage(lbn, pos)]
      /\ Issue(b, <<Program(vpn)>>)
      /\ pos' = pos + 1
      /\ UNCHANGED <<flash, mark, ver, misc_vpn, pc, lbn, flushes, flushed, cut>>

\* ftl_flush: the ages and regions, then the page map, then the misc. pages.
AfterTable_NoPageMap(i) == "misc"                                  \* mutant
AfterTable(i) == IF i = 1 THEN "check" ELSE "misc"

FlushedTable ==
  /\ pc = "map" /\ pos = TablePages[lbn]
  /\ flash_finish
  /\ pc' = AfterTable(lbn)
  /\ lbn' = 0 /\ pos' = 0
  /\ UNCHANGED <<nandVars, mark, ver, misc_vpn, map_vpn, flushes, flushed, cut>>

-----------------------------------------------------------------------------
(***************************************************************************)
(* flush_misc_metadata.                                                    *)
(***************************************************************************)
MiscBlockFull(b) == (misc_vpn[b] + 1) \div PagesPerBlk # MISCBLK_VBN

NextMiscVpn(b) == IF MiscBlockFull(b) THEN MISCBLK_VBN * PagesPerBlk ELSE misc_vpn[b] + 1

MiscPage(b) ==
  [kind |-> "misc", ver |-> ver, misc_vpn |-> NextMiscVpn(b), map_vpn |-> map_vpn[b]]

PrepareMisc ==
  /\ pc = "misc" /\ pos \in Banks
  /\ misc_vpn' = [misc_vpn EXCEPT ![pos] = NextMiscVpn(pos)]
  /\ Issue(pos, IF MiscBlockFull(pos) THEN <<Erase(MISCBLK_VBN)>> ELSE <<>>)
  /\ ftl_buf' = [ftl_buf EXCEPT ![pos] = MiscPage(pos)]
  /\ pos' = pos + 1
  /\ UNCHANGED <<flash, mark, ver, map_vpn, pc, lbn, flushes, flushed, cut>>

ProgramMisc ==
  /\ pc = "misc" /\ pos \in NumBanks .. 2 * NumBanks - 1
  /\ Issue(pos - NumBanks, <<Program(misc_vpn[pos - NumBanks])>>)
  /\ pos' = pos + 1
  /\ UNCHANGED <<flash, ftl_buf, mark, ver, misc_vpn, map_vpn, pc, lbn, flushes, flushed, cut>>

FlushEnd ==
  /\ pc = "misc" /\ pos = 2 * NumBanks
  /\ flash_finish
  /\ pc' = IF mark THEN "idle" ELSE "mark"    \* format calls write_format_mark
  /\ lbn' = 1 /\ pos' = 0
  /\ flushed' = ver
  /\ UNCHANGED <<nandVars, mark, ver, misc_vpn, map_vpn, flushes, cut>>

-----------------------------------------------------------------------------
Next ==
  \/ load_metadata \/ format \/ write_format_mark \/ PowerLoss
  \/ Change \/ ftl_flush
  \/ EraseFullMapBlock \/ FlushPage \/ FlushedTable \/ PrepareMisc \/ ProgramMisc \/ FlushEnd
  \/ \E b \in Banks : Execute(b) /\ UNCHANGED <<mark, ver, misc_vpn, map_vpn, ctl>>

Spec == Init /\ [][Next]_vars

-----------------------------------------------------------------------------
\* ftl_flush is there "for normal POR" (ftl_dac/ftl.c:482).  The image survives a flush
\* that is cut, but the cursors that are loaded then lag behind the pages that it had
\* programmed.  The next flush goes on from them (563), programs these pages again, and
\* is not what a start loads: after a flush that follows a cut one all four invariants
\* below are false, and say nothing.
NoFlushAfterCut == cut # "over"

\* What ftl_flush saved is what a start after a clean power-off loads, and what a start
\* loads after a flush that was cut is what it goes on with, the cursors of the logs
\* included; unless a flush has followed a cut one, or pieces of two versions were loaded.
FlushedIsLoaded ==
  NoFlushAfterCut /\ pc = "idle" /\ flushed # Mixed =>
    /\ Image(flushed)
    /\ \A b \in Banks : Saved(b).misc_vpn = misc_vpn[b] /\ Saved(b).map_vpn = map_vpn[b]

\* The mark is on flash only if every bank has a misc. page and, behind it, the table
\* pages of one flush: a format that was cut short, at whatever moment, is repeated, and
\* the first flush that is cut leaves each bank old or new.  Not so after a flush that
\* follows a cut one.
MarkMeansLoadable ==
  NoFlushAfterCut /\ mark => \A b \in Banks : \E v \in Versions : BankImage(b, v)

\* Until the first misc. page of a flush is written, a power loss costs that flush only;
\* unless the flush follows a cut one.
OldImageKept ==
  NoFlushAfterCut /\ mark /\ pc \in {"check", "map"} /\ flushed # Mixed => Image(flushed)

\* No page of a metadata block is programmed twice or out of order, unless a flush
\* follows one that was cut.
NandRule ==
  NoFlushAfterCut => \A b \in Banks : queue[b] # <<>> => CommandAllowed(b, Head(queue[b]))

\* "if remained pages are not sufficient flush metadata, then erase block to obtain
\* cleaned block": a table is logged inside the map block that it was given.
MapInOwnBlock ==
  \A b \in Banks :
    queue[b] # <<>> /\ ftl_buf[b].kind = "map" /\ Head(queue[b]).op = "program"
      => Head(queue[b]).blk = MapVbn(ftl_buf[b].lbn)
=============================================================================
