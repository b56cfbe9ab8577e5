------------------------------ MODULE SataHost ------------------------------
(***************************************************************************)
(* The host interface: the FIQ handler of sata/sata_isr.c, the main loop   *)
(* of sata/sata_main.c with its event queue, the ATA functions of          *)
(* sata/sata_cmd.c, and the host and the SATA hardware they talk to.       *)
(*                                                                         *)
(* The processor runs the FIQ handler to its end between two steps of the  *)
(* main loop, so the handler is one step and the main loop is several;     *)
(* pc says where the main loop stands.  What it does with FIQ masked       *)
(* (eventq_get) is one step too.                                           *)
(*                                                                         *)
(* The host has one command outstanding (no NCQ).  A write is over for it  *)
(* when the hardware has taken its data, so writes pile up in the queue.   *)
(***************************************************************************)
EXTENDS Integers, Sequences, FiniteSets

CONSTANTS
  EqFull,     \* the entries at which the event queue reports that it is full
  Impatient,  \* bound: the situations in which the host may send a reset
  QuickHost   \* bound: may the host act before the main loop stores NONE?

FtlCommands  == {"read", "write"}
PioCommands  == {"read_buffer", "write_buffer"}
SlowCommands == PioCommands \union {"flush", "other"}
Situations   == {"idle", "active", "deferred", "slow"}
Interrupts   == {"CMD_RECV", "REG_FIS_RECV", "PHY_ONLINE"}

ASSUME HostAssumption ==
  /\ EqFull \in Nat \ {0}
  /\ Impatient \subseteq Situations
  /\ QuickHost \in BOOLEAN

\* A host that never gives up on what slow_cmd or the full queue holds, and
\* that needs longer for its next request than the main loop to end the last.
Patient == Impatient \subseteq {"idle", "active"} /\ ~QuickHost

VARIABLES
  host,         \* what the host waits for, or "idle"
  link,         \* SATA_PHY_STATUS: is the link up?
  fis,          \* SATA_FIS_H2D: the last FIS of the host
  int_stat,     \* SATA_INT_STAT
  int_enable,   \* SATA_INT_ENABLE
  eq,           \* the event queue
  xfer,         \* the transfer that SATA_CTRL_2 activated
  filled,       \* has ftl_read delivered the data of the host's read?
  eq_full,      \* g_sata_context.eq_full
  action_flags, \* g_sata_action_flags
  srst,         \* g_sata_context.srst
  slow_cmd,     \* g_sata_context.slow_cmd
  pc,           \* where the main loop stands
  cur,          \* the command it serves
  late          \* history: does slow_cmd overtake what was queued after Main looked?

hostVars == <<host, link, fis>>
hwVars   == <<eq, xfer, filled>>
isrVars  == <<int_enable, eq_full, action_flags, srst, slow_cmd>>
mainVars == <<pc, cur>>
vars     == <<hostVars, hwVars, isrVars, mainVars, int_stat, late>>

Slow(status, code) == [status |-> status, code |-> code]

\* sata_reset has brought the link up; nothing has told the host so yet.
Init ==
  /\ host = "reset" /\ link = TRUE /\ fis = "none"
  /\ int_stat = {"PHY_ONLINE"} /\ int_enable = {"PHY_ONLINE"}
  /\ eq = <<>> /\ xfer = "none" /\ filled = FALSE
  /\ eq_full = FALSE /\ action_flags = "none" /\ srst = FALSE
  /\ slow_cmd = Slow("NONE", "none")
  /\ pc = "poll" /\ cur = "none" /\ late = FALSE

-----------------------------------------------------------------------------
(***************************************************************************)
(* The host and the link, external to the source.  A reset is a software   *)
(* reset (two control FISes; the link layer holds the second back until    *)
(* the first is acknowledged) or a COMRESET, which takes the link down and *)
(* up again and ends what the hardware was transferring.                   *)
(***************************************************************************)
HostMayAct == QuickHost \/ slow_cmd.status # "BUSY"

Issue(c) ==
  /\ host = "idle" /\ link /\ HostMayAct
  /\ host' = c /\ fis' = c
  /\ int_stat' = int_stat \union {"CMD_RECV"}
  /\ filled' = FALSE
  /\ UNCHANGED <<link, eq, xfer, isrVars, mainVars, late>>

Situation ==
  CASE host = "idle"          -> "idle"
    [] host \in SlowCommands  -> "slow"
    [] OTHER -> IF eq_full THEN "deferred" ELSE "active"

\* The host is more patient than an interrupt takes to be served.
MayReset ==
  /\ host # "reset" /\ link /\ int_stat = {}
  /\ Situation \in Impatient
  /\ host = "idle" => HostMayAct

SoftReset ==
  /\ MayReset
  /\ host' = "reset" /\ fis' = "srst_on"
  /\ int_stat' = int_stat \union {"REG_FIS_RECV"}
  /\ UNCHANGED <<link, hwVars, isrVars, mainVars, late>>

SoftResetEnd ==
  /\ host = "reset" /\ fis = "srst_on" /\ "REG_FIS_RECV" \notin int_stat
  /\ fis' = "srst_off"
  /\ int_stat' = int_stat \union {"REG_FIS_RECV"}
  /\ UNCHANGED <<host, link, hwVars, isrVars, mainVars, late>>

ComReset ==
  /\ MayReset
  /\ host' = "reset" /\ link' = FALSE /\ fis' = "none" /\ xfer' = "none"
  /\ UNCHANGED <<int_stat, eq, filled, isrVars, mainVars, late>>

LinkUp ==
  /\ ~link
  /\ link' = TRUE
  /\ int_stat' = int_stat \union {"PHY_ONLINE"}
  /\ UNCHANGED <<host, fis, hwVars, isrVars, mainVars, late>>

\* COMPLETE: at the end of the transfer the hardware sends the status itself.
TransferDone ==
  /\ xfer # "none" /\ link
  /\ xfer = "read" => filled
  /\ xfer' = "none"
  /\ host' = IF host = xfer THEN "idle" ELSE host
  /\ UNCHANGED <<link, fis, eq, filled, int_stat, isrVars, mainVars, late>>

\* SEND_NON_DATA_FIS: the host takes the answer to the request it waits for.
Answer(c) ==
  host' = IF link /\ host = c THEN "idle" ELSE host

-----------------------------------------------------------------------------
(***************************************************************************)
(* fiq_handler: one cause per call, in this order of priority.             *)
(***************************************************************************)
Masked == int_stat \intersect int_enable

FiqEnabled == pc # "pio"

\* slow_cmd is set by the handler, at whatever point of Main it interrupts.
Post(c) ==
  /\ slow_cmd' = Slow("PENDING", c)
  /\ late' = (pc = "looked" /\ eq # <<>>)

EventqFull_Late(q) == Len(q) > EqFull

EventqFull(q) == Len(q) >= EqFull

InsertEq(c) ==
  /\ eq' = Append(eq, c)
  /\ IF EventqFull(eq')
     THEN eq_full' = TRUE /\ action_flags' = c /\ UNCHANGED xfer
     ELSE xfer' = c /\ UNCHANGED <<eq_full, action_flags>>
  /\ UNCHANGED <<host, slow_cmd, late>>

PostSlow(c) ==
  /\ Post(c)
  /\ UNCHANGED <<host, eq, xfer, eq_full, action_flags>>

RefuseRange_Unchecked == PostSlow("beyond")

\* An LBA range beyond MAX_LBA is refused by the handler itself (B_IDNF).
RefuseRange ==
  /\ Answer("beyond")
  /\ UNCHANGED <<eq, xfer, eq_full, action_flags, slow_cmd, late>>

handle_got_cfis ==
  /\ FiqEnabled /\ "CMD_RECV" \in Masked
  /\ int_stat' = int_stat \ {"CMD_RECV"}
  /\ CASE fis = "beyond"        -> RefuseRange
       [] fis \in FtlCommands   -> InsertEq(fis)
       [] OTHER                 -> PostSlow(fis)
  /\ UNCHANGED <<link, fis, filled, int_enable, srst, mainVars>>

AbortTransfer_Missing == UNCHANGED xfer

\* The end of the reset flushes the hardware's FIFOs and what it transfers.
AbortTransfer == xfer' = "none"

handle_srst ==
  /\ FiqEnabled /\ "CMD_RECV" \notin Masked /\ "REG_FIS_RECV" \in Masked
  /\ int_stat' = int_stat \ {"REG_FIS_RECV"}
  /\ CASE fis = "srst_on" -> srst' = TRUE /\ UNCHANGED <<xfer, slow_cmd, late>>
       [] fis # "srst_on" /\ srst ->
            /\ srst' = FALSE
            /\ AbortTransfer
            /\ Post("reset")
       [] OTHER -> UNCHANGED <<srst, xfer, slow_cmd, late>>
  /\ UNCHANGED <<hostVars, eq, filled, int_enable, eq_full, action_flags,
                 mainVars>>

PhyOnline ==
  /\ FiqEnabled /\ Masked = {"PHY_ONLINE"}
  /\ int_stat' = {}
  /\ int_enable' = Interrupts
  /\ Post("reset")
  /\ UNCHANGED <<hostVars, hwVars, eq_full, action_flags, srst, mainVars>>

-----------------------------------------------------------------------------
(***************************************************************************)
(* Main: the event queue first, then, if that is empty, the slow command.  *)
(* FIQ is enabled between the two tests, so what the handler puts into the *)
(* queue or posts in between comes too late for the first one only.        *)
(***************************************************************************)
DeliverFlags_Sticky ==
  /\ UNCHANGED eq_full
  /\ xfer' = IF eq_full /\ link THEN action_flags ELSE xfer

DeliverFlags_Lost == eq_full' = FALSE /\ UNCHANGED xfer

\* The flags of a command that found the queue full are delivered now.
DeliverFlags ==
  /\ eq_full' = FALSE
  /\ xfer' = IF eq_full /\ link THEN action_flags ELSE xfer

eventq_get ==
  /\ pc = "poll" /\ eq # <<>>
  /\ cur' = Head(eq) /\ eq' = Tail(eq)
  /\ DeliverFlags
  /\ pc' = "ftl"
  /\ UNCHANGED <<hostVars, filled, int_stat, int_enable, action_flags, srst,
                 slow_cmd, late>>

\* ftl_read returns when the data is on its way; ftl_write asks nobody.
ServeFtl ==
  /\ pc = "ftl"
  /\ filled' = (filled \/ cur = "read")
  /\ pc' = "poll"
  /\ UNCHANGED <<hostVars, eq, xfer, isrVars, cur, int_stat, late>>

SlowTurn_Early == TRUE

\* The main loop goes on to slow_cmd when it finds the event queue empty.
SlowTurn == eq = <<>>

LookAtSlow ==
  /\ pc = "poll" /\ SlowTurn
  /\ pc' = "looked"
  /\ UNCHANGED <<hostVars, hwVars, isrVars, cur, int_stat, late>>

PollSlow ==
  /\ pc = "looked" /\ slow_cmd.status = "PENDING"
  /\ cur' = slow_cmd.code
  /\ pc' = "start"
  /\ UNCHANGED <<hostVars, hwVars, isrVars, int_stat, late>>

NothingSlow ==
  /\ pc = "looked" /\ slow_cmd.status # "PENDING"
  /\ pc' = "poll"
  /\ UNCHANGED <<hostVars, hwVars, isrVars, cur, int_stat, late>>

TakeSlow_Pending == UNCHANGED slow_cmd

TakeSlow == slow_cmd' = [slow_cmd EXCEPT !.status = "BUSY"]

(***************************************************************************)
(* slow_cmd is shared with the handler without volatile: the source reads  *)
(* code after it stored BUSY, the object file of build_gnu before.         *)
(***************************************************************************)
StartSlow ==
  /\ pc = "start"
  /\ TakeSlow
  /\ cur' \in {cur, slow_cmd.code}
  /\ pc' = "exec"
  /\ UNCHANGED <<hostVars, hwVars, int_enable, eq_full, action_flags, srst,
                 int_stat, late>>

\* The functions that only flush the FTL, or nothing, before they answer.
ata_function ==
  /\ pc \in {"exec", "status"}
  /\ pc = "exec" => cur \notin PioCommands
  /\ Answer(cur)
  /\ pc' = "done"
  /\ UNCHANGED <<link, fis, hwVars, isrVars, cur, int_stat, late>>

\* pio_sector_transfer masks FIQ until the hardware is done with the sector.
PioStart ==
  /\ pc = "exec" /\ cur \in PioCommands
  /\ pc' = "pio"
  /\ UNCHANGED <<hostVars, hwVars, isrVars, cur, int_stat, late>>

PioEnd ==
  /\ pc = "pio"
  /\ IF cur = "read_buffer"
     THEN Answer(cur) /\ pc' = "done"
     ELSE pc' = "status" /\ UNCHANGED host
  /\ UNCHANGED <<link, fis, hwVars, isrVars, cur, int_stat, late>>

EndSlow ==
  /\ pc = "done"
  /\ slow_cmd' = [slow_cmd EXCEPT !.status = "NONE"]
  /\ pc' = "poll"
  /\ UNCHANGED <<hostVars, hwVars, int_enable, eq_full, action_flags, srst,
                 cur, int_stat, late>>

-----------------------------------------------------------------------------
Host == SoftReset \/ ComReset \/
        \E c \in FtlCommands \union SlowCommands \union {"beyond"} : Issue(c)

Hardware == SoftResetEnd \/ LinkUp \/ TransferDone

fiq_handler == handle_got_cfis \/ handle_srst \/ PhyOnline

Main == eventq_get \/ ServeFtl \/ LookAtSlow \/ PollSlow \/ NothingSlow \/ StartSlow
        \/ ata_function \/ PioStart \/ PioEnd \/ EndSlow

Next == Host \/ Hardware \/ fiq_handler \/ Main

Spec == Init /\ [][Next]_vars

(***************************************************************************)
(* The handler and the main loop run on a processor of their own, and the  *)
(* hardware finishes what it has begun.  The host may never ask anything.  *)
(***************************************************************************)
FairSpec == Spec /\ WF_vars(SoftResetEnd) /\ WF_vars(LinkUp)
                 /\ WF_vars(TransferDone)
                 /\ WF_vars(fiq_handler) /\ WF_vars(Main)

-----------------------------------------------------------------------------
HostTypeOK ==
  /\ host \in FtlCommands \union SlowCommands \union {"beyond", "idle", "reset"}
  /\ link \in BOOLEAN
  /\ fis \in FtlCommands \union SlowCommands
             \union {"none", "beyond", "srst_on", "srst_off"}

HardwareTypeOK ==
  /\ int_stat \subseteq Interrupts /\ int_enable \subseteq Interrupts
  /\ eq \in Seq(FtlCommands)
  /\ xfer \in FtlCommands \union {"none"} /\ filled \in BOOLEAN

FirmwareTypeOK ==
  /\ eq_full \in BOOLEAN /\ action_flags \in FtlCommands \union {"none"}
  /\ srst \in BOOLEAN
  /\ slow_cmd.status \in {"NONE", "PENDING", "BUSY"}
  /\ slow_cmd.code \in SlowCommands \union {"none", "reset"}
  /\ late \in BOOLEAN
  /\ pc \in {"poll", "looked", "ftl", "start", "exec", "pio", "status", "done"}
  /\ cur \in FtlCommands \union SlowCommands \union {"none", "reset"}

\* Every register and variable keeps its type: no request but a slow one or a
\* reset gets into slow_cmd (the class and range tests of handle_got_cfis), and
\* only reads and writes into the event queue.
TypeOK == HostTypeOK /\ HardwareTypeOK /\ FirmwareTypeOK

\* The places where the request of the host can be.
Latched   == int_stat # {} \/ ~link \/ srst
Deferred  == eq_full
Active    == xfer # "none"
PostedFor(c) == slow_cmd = Slow("PENDING", c)
ServedBy(c)  == pc \in {"exec", "pio", "status"} /\ cur = c
                /\ slow_cmd.status = "BUSY"

(***************************************************************************)
(* The flags of a read or write are in one place: with the interrupt that  *)
(* has not been handled, deferred because the event queue was full, or     *)
(* with the hardware.  Handler and main loop never deliver them twice, and *)
(* never leave them to each other; once the host has its answer there are  *)
(* none left.  (The test for a full queue in handle_got_cfis, eq_full in   *)
(* eventq_get.)                                                            *)
(***************************************************************************)
FlagsOnce ==
  /\ host \in FtlCommands =>
       \/ Latched /\ ~Deferred /\ ~Active
       \/ ~Latched /\ Deferred /\ ~Active /\ action_flags = host
       \/ ~Latched /\ ~Deferred /\ xfer = host
  /\ host \notin FtlCommands => ~Deferred /\ (Active => host = "reset" /\ Latched)

(***************************************************************************)
(* A slow command or a reset is on its way to its answer, in one place: it *)
(* is not lost between the interrupt handler, slow_cmd and the main loop,  *)
(* and it is not done twice.                                               *)
(***************************************************************************)
SlowOnce ==
  \A c \in SlowCommands \union {"reset"} :
    IF host = c
    THEN \/ Latched /\ ~PostedFor(c) /\ ~ServedBy(c)
         \/ ~Latched /\ PostedFor(c) /\ ~ServedBy(c)
         \/ ~Latched /\ ~PostedFor(c) /\ ServedBy(c)
    ELSE ~PostedFor(c) /\ ~ServedBy(c)

(***************************************************************************)
(* A slow command is executed when the FTL has been given every write that *)
(* the host believes done: a flush covers them, and the answer to a reset  *)
(* finds nothing of the commands before it.  (The order of the tests in    *)
(* Main.)  The one exception is a write that is queued, and a flush posted *)
(* when that write is done for the host, both between the two tests: they  *)
(* change places (late).                                                   *)
(***************************************************************************)
SlowIsLast ==
  pc \in {"exec", "pio", "status"} =>
    ~eq_full /\ xfer = "none" /\ (eq = <<>> \/ late)

(***************************************************************************)
(* The deferral of flags is the only thing that keeps the host from        *)
(* sending writes faster than the main loop takes them from the queue.     *)
(***************************************************************************)
EqBounded == Len(eq) <= EqFull

(***************************************************************************)
(* A reset that the handler posted stays posted until the main loop takes  *)
(* it: it "is regarded as if it were an ATA command" (include/sata.h).     *)
(***************************************************************************)
SrstExecuted ==
  [][PostedFor("reset") => PostedFor("reset")' \/ slow_cmd'.status = "BUSY"]_vars

\* Every command and every reset of the host is answered.
RequestsAnswered == (host # "idle") ~> (host = "idle")
=============================================================================
