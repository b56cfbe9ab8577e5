----------------------------- MODULE GreedyFlush -----------------------------
(***************************************************************************)
(* ftl_flush of the greedy FTL: logging_pmap_table appends every page of   *)
(* the mapping table to the map block of its own, then                     *)
(* logging_misc_metadata appends to block 1 of every bank a page with the  *)
(* counts and the places of the newest map pages.  A full block is erased  *)
(* before its next page is written.  A power loss may come at any step;    *)
(* ftl_open then formats.                                                  *)
(*                                                                         *)
(* Image is what load_metadata reads from the flash.  ftl_open never calls *)
(* it (its condition is the constant TRUE), so it is an operator here and  *)
(* no action: it says what the log is worth at each moment.                *)
(*                                                                         *)
(* The tables are one version number, cyclic: what matters is which flush  *)
(* a page on flash comes from.                                             *)
(***************************************************************************)
EXTENDS MetaNand

CONSTANTS
  MapVbn,         \* the map blocks of a bank, by mapblk_lbn, as init_metadata_sram
                  \* finds them among the good blocks
  MapBlksPerBank, \* MAPBLKS_PER_BANK
  TablePages,     \* the pages of PAGE_MAP
  NumVersions,    \* bound: versions of the tables that are told apart
  None            \* no flush since the format

Lbns     == 0 .. MapBlksPerBank - 1
Versions == 0 .. NumVersions - 1
Chunks   == 0 .. TablePages - 1    \* chunk c goes to bank c % NumBanks

BankOf(c) == c % NumBanks
LbnOf(c)  == c \div NumBanks

ASSUME FlushAssumption ==
  /\ MapBlksPerBank \in Nat
  /\ NumVersions \in Nat /\ NumVersions > 1 /\ None \notin Versions
  /\ TablePages \in 1 .. NumBanks * MapBlksPerBank
  /\ MapVbn \in [Banks -> [Lbns -> Blks \ {0, MISCBLK_VBN}]]
  /\ \A b \in Banks, i, j \in Lbns : i # j => MapVbn[b][i] # MapVbn[b][j]

\* The pages that ftl_flush writes; an erased or a spoiled page is none of them.
MapPages  == [kind : {"map"}, chunk : Chunks, ver : Versions]
MiscPages == [kind : {"misc"}, ver : Versions, misc_vpn : Nat, map_vpn : [Lbns -> Nat]]

ASSUME PageAssumption ==
  Erased \notin MapPages \union MiscPages /\ Spoiled \notin MapPages \union MiscPages

VARIABLES
  ver,            \* the tables in DRAM and SRAM
  misc_vpn,       \* cur_miscblk_vpn
  map_vpn,        \* cur_mapblk_vpn
  pc,             \* "idle", or the part of ftl_flush that runs
  pos,            \* its loop counter
  flushed,        \* history: the version that the last completed flush saved
  wrapped         \* history: the current flush has issued the erase of a map block

vars == <<nandVars, ver, misc_vpn, map_vpn, pc, pos, flushed, wrapped>>

-----------------------------------------------------------------------------
(***************************************************************************)
(* format erases every block, init_metadata_sram sets the cursors (map     *)
(* blocks start at page 1, the misc. block at page 0), and ftl_flush runs. *)
(***************************************************************************)
Formatted ==
  [ver |-> 0, misc_vpn |-> [b \in Banks |-> MISCBLK_VBN * PagesPerBlk - 1],
   map_vpn |-> [b \in Banks |-> [i \in Lbns |-> MapVbn[b][i] * PagesPerBlk]]]

Init ==
  /\ NandInit
  /\ ver = Formatted.ver /\ misc_vpn = Formatted.misc_vpn /\ map_vpn = Formatted.map_vpn
  /\ pc = "map" /\ pos = 0
  /\ flushed = None /\ wrapped = FALSE

\* The power goes at any moment; at the next start ftl_open formats.
PowerCycle ==
  /\ flash' = CleanFlash /\ queue' = [b \in Banks |-> <<>>] /\ UNCHANGED ftl_buf
  /\ ver' = Formatted.ver /\ misc_vpn' = Formatted.misc_vpn /\ map_vpn' = Formatted.map_vpn
  /\ pc' = "map" /\ pos' = 0
  /\ flushed' = None /\ wrapped' = FALSE

\* Host writes between two flushes.
Change ==
  /\ pc = "idle"
  /\ ver' = (ver + 1) % NumVersions
  /\ UNCHANGED <<nandVars, misc_vpn, map_vpn, pc, pos, flushed, wrapped>>

ftl_flush ==
  /\ pc = "idle"
  /\ pc' = "map" /\ pos' = 0 /\ wrapped' = FALSE
  /\ UNCHANGED <<nandVars, ver, misc_vpn, map_vpn, flushed>>

-----------------------------------------------------------------------------
(***************************************************************************)
(* One iteration of the inner loop of logging_pmap_table.                  *)
(***************************************************************************)
MapPage(c) == [kind |-> "map", chunk |-> c, ver |-> ver]

RoundStart_NoWait == TRUE                                          \* mutant
RoundStart == BankOf(pos) = 0 => flash_finish

NextMapVpn(old) ==   \* past the last page: page 0 of the same block, once erased
  IF (old + 1) % PagesPerBlk = 0 THEN (old \div PagesPerBlk) * PagesPerBlk ELSE old + 1

MapCommands_NoErase(old) == <<Program(NextMapVpn(old))>>           \* mutant
MapCommands(old) ==
  IF (old + 1) % PagesPerBlk = 0
    THEN <<Erase(old \div PagesPerBlk), Program(NextMapVpn(old))>>
    ELSE <<Program(NextMapVpn(old))>>

logging_pmap_table ==
  LET b == BankOf(pos)  i == LbnOf(pos)  old == map_vpn[b][i]
  IN  /\ pc = "map" /\ pos \in Chunks
      /\ RoundStart
      /\ map_vpn' = [map_vpn EXCEPT ![b][i] = NextMapVpn(old)]
      /\ ftl_buf' = [ftl_buf EXCEPT ![b] = MapPage(pos)]
      /\ Issue(b, MapCommands(old))
      /\ wrapped' = (wrapped \/ Len(MapCommands(old)) = 2)
      /\ pos' = pos + 1
      /\ UNCHANGED <<flash, ver, misc_vpn, pc, flushed>>

LoggedMap ==
  /\ pc = "map" /\ pos = TablePages
  /\ flash_finish
  /\ pc' = "misc" /\ pos' = 0
  /\ UNCHANGED <<nandVars, ver, misc_vpn, map_vpn, flushed, wrapped>>

-----------------------------------------------------------------------------
(***************************************************************************)
(* The two loops of logging_misc_metadata: the page is prepared in the     *)
(* buffer of every bank, with the cursors as they now are, and then        *)
(* programmed.                                                             *)
(***************************************************************************)
NextMiscVpn(b) ==
  IF (misc_vpn[b] + 1) \div PagesPerBlk # MISCBLK_VBN
    THEN MISCBLK_VBN * PagesPerBlk ELSE misc_vpn[b] + 1

MiscErase(b) ==
  IF (misc_vpn[b] + 1) \div PagesPerBlk # MISCBLK_VBN THEN <<Erase(MISCBLK_VBN)>> ELSE <<>>

MiscPage_Old(b) ==                                                 \* mutant
  [kind |-> "misc", ver |-> ver, misc_vpn |-> misc_vpn[b], map_vpn |-> map_vpn[b]]
MiscPage(b) ==
  [kind |-> "misc", ver |-> ver, misc_vpn |-> NextMiscVpn(b), map_vpn |-> map_vpn[b]]

PrepareMisc ==
  /\ pc = "misc" /\ pos \in Banks
  /\ misc_vpn' = [misc_vpn EXCEPT ![pos] = NextMiscVpn(pos)]
  /\ Issue(pos, MiscErase(pos))
  /\ ftl_buf' = [ftl_buf EXCEPT ![pos] = MiscPage(pos)]
  /\ pos' = pos + 1
  /\ UNCHANGED <<flash, ver, map_vpn, pc, flushed, wrapped>>

ProgramMisc ==
  /\ pc = "misc" /\ pos \in NumBanks .. 2 * NumBanks - 1
  /\ Issue(pos - NumBanks, <<Program(misc_vpn[pos - NumBanks])>>)
  /\ pos' = pos + 1
  /\ UNCHANGED <<flash, ftl_buf, ver, misc_vpn, map_vpn, pc, flushed, wrapped>>

FlushEnd ==
  /\ pc = "misc" /\ pos = 2 * NumBanks
  /\ flash_finish
  /\ pc' = "idle" /\ pos' = 0
  /\ flushed' = ver
  /\ UNCHANGED <<nandVars, ver, misc_vpn, map_vpn, wrapped>>

-----------------------------------------------------------------------------
Next ==
  \/ PowerCycle \/ Change \/ ftl_flush
  \/ logging_pmap_table \/ LoggedMap \/ PrepareMisc \/ ProgramMisc \/ FlushEnd
  \/ \E b \in Banks : Execute(b) /\ UNCHANGED <<ver, misc_vpn, map_vpn, pc, pos, flushed, wrapped>>

Spec == Init /\ [][Next]_vars

-----------------------------------------------------------------------------
(***************************************************************************)
(* What load_misc_metadata and load_pmap_table read: the highest           *)
(* programmed misc. page of a bank, and the map pages that it points to.   *)
(***************************************************************************)
Saved(b) == Newest(b, MISCBLK_VBN)

LoadedChunk(c) == PageAt(BankOf(c), Saved(BankOf(c)).map_vpn[LbnOf(c)])

\* The newest misc. page of bank b is of version v, with the cursors that the
\* firmware has, and so is every map page of that bank.
BankImage(b, v) ==
  /\ Programmed(b, MISCBLK_VBN) # {}
  /\ Saved(b).kind = "misc" /\ Saved(b).ver = v
  /\ \A c \in Chunks : BankOf(c) = b => LoadedChunk(c) = [kind |-> "map", chunk |-> c, ver |-> v]

Image(v) == \A b \in Banks : BankImage(b, v)

-----------------------------------------------------------------------------
\* Once ftl_flush has returned, load_metadata would restore exactly the tables and
\* the cursors that were saved, however often the blocks have wrapped.
FlushedIsLoaded ==
  pc = "idle" =>
    /\ Image(flushed)
    /\ \A b \in Banks : Saved(b).misc_vpn = misc_vpn[b] /\ Saved(b).map_vpn = map_vpn[b]

\* A power loss during a flush that had to erase no map block: before the misc. pages
\* the image of the last flush is whole; from then on every bank whose misc. block is
\* not being erased has its part of the old image or its part of the new one.
OldImageKept ==
  flushed # None /\ ~wrapped =>
    /\ pc = "map" => Image(flushed)
    /\ pc = "misc" => \A b \in Banks :
         (pos > b => misc_vpn[b] # MISCBLK_VBN * PagesPerBlk)
           => BankImage(b, flushed) \/ BankImage(b, ver)

\* A misc. page that the current flush has written points to map pages of this flush:
\* the table is on flash before the page that refers to it.
MiscAfterMap ==
  \A b \in Banks :
    pc = "misc" /\ pos > NumBanks + b /\ queue[b] = <<>> => BankImage(b, ver)

\* No page of a metadata block is programmed twice or out of order.
NandRule == \A b \in Banks : queue[b] # <<>> => CommandAllowed(b, Head(queue[b]))
=============================================================================
