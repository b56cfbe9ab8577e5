--------------------------- MODULE SataHostProofs ---------------------------
(***************************************************************************)
(* Proofs about SataHost for an event queue of every size, and a host that *)
(* gives up only on transfers that the hardware has begun.                 *)
(*                                                                         *)
(* The inductive invariant says what a latched interrupt means for the     *)
(* host (LatchedFor), how slow_cmd follows the main loop (SlowFollows) and *)
(* when the queue may be full (QueueFull).                                 *)
(***************************************************************************)
EXTENDS SataHost, TLAPS

Requests == FtlCommands \union SlowCommands \union {"beyond"}

\* One interrupt is latched at a time, and the host waits for what it brings.
LatchedFor ==
  /\ int_stat = {} \/ \E i \in Interrupts : int_stat = {i}
  /\ int_stat # {} => link
  /\ "CMD_RECV" \in int_stat => host = fis /\ host \in Requests
  /\ "REG_FIS_RECV" \in int_stat =>
       host = "reset" /\ ((fis = "srst_on" /\ ~srst) \/ (fis = "srst_off" /\ srst))
  /\ "PHY_ONLINE" \in int_stat \/ ~link =>
       host = "reset" /\ fis # "srst_on" /\ ~srst /\ xfer = "none"
  /\ host = "beyond" => "CMD_RECV" \in int_stat
  /\ srst => host = "reset" /\ link
  /\ srst /\ int_stat = {} => fis = "srst_on"
  /\ host = "reset" /\ fis = "srst_on" /\ int_stat = {} => srst
  /\ int_enable = Interrupts \/ (int_enable = {"PHY_ONLINE"} /\ int_stat = {"PHY_ONLINE"})

\* slow_cmd is BUSY exactly while the main loop executes it, and what is
\* posted or executed is what the host waits for; only what was posted between the
\* two tests of Main (late) may find commands in the queue.
SlowFollows ==
  /\ slow_cmd.status = "BUSY" <=> pc \in {"exec", "pio", "status", "done"}
  /\ slow_cmd.status = "PENDING" => host = slow_cmd.code /\ ~Latched
  /\ pc = "start" => slow_cmd.status = "PENDING" /\ cur = slow_cmd.code
  /\ pc \in {"start", "exec", "pio", "status"} =>
       /\ host = cur /\ cur \in SlowCommands \union {"reset"} /\ ~Latched
  /\ (pc \in {"start", "exec", "pio", "status"}
        \/ (pc = "looked" /\ slow_cmd.status = "PENDING")) => eq = <<>> \/ late
  /\ pc = "pio" => cur \in PioCommands
  /\ pc = "done" => host = "idle"
  /\ pc = "ftl" => cur \in FtlCommands

\* Flags are deferred while the queue is full, and only then.
QueueFull ==
  /\ Len(eq) <= EqFull
  /\ ~eq_full => Len(eq) < EqFull
  /\ eq_full => eq # <<>> /\ pc \in {"poll", "looked", "ftl"}

IInv == TypeOK /\ LatchedFor /\ SlowFollows /\ FlagsOnce /\ SlowOnce /\ QueueFull

-----------------------------------------------------------------------------
\* The initial state, the link just up, satisfies the invariant.
LEMMA InitOK == Init => IInv
<1> SUFFICES ASSUME Init PROVE IInv
  OBVIOUS
<1> USE HostAssumption DEF Init, FtlCommands, SlowCommands, PioCommands, Interrupts,
     Latched, Deferred, Active, PostedFor, ServedBy, Slow
<1>1. TypeOK
  <2>1. eq \in Seq({"read", "write"})
    OBVIOUS
  <2>2. HostTypeOK
    BY DEF HostTypeOK
  <2>3. HardwareTypeOK
    BY <2>1 DEF HardwareTypeOK
  <2>4. FirmwareTypeOK
    BY DEF FirmwareTypeOK
  <2>. QED BY <2>2, <2>3, <2>4 DEF TypeOK
<1>2. LatchedFor
  BY DEF LatchedFor, Requests
<1>3. SlowFollows
  BY DEF SlowFollows
<1>4. FlagsOnce /\ SlowOnce
  BY DEF FlagsOnce, SlowOnce
<1>5. QueueFull
  BY DEF QueueFull
<1>. QED BY <1>1, <1>2, <1>3, <1>4, <1>5 DEF IInv

\* The event queue gives a read or a write, and what is left is shorter.
LEMMA HeadTailOfSeq ==
  ASSUME eq \in Seq(FtlCommands), eq # <<>>
  PROVE  Head(eq) \in FtlCommands /\ Tail(eq) \in Seq(FtlCommands)
         /\ Len(Tail(eq)) = Len(eq) - 1
  OBVIOUS

\* Issue preserves the invariant.
LEMMA IssueStep ==
  ASSUME Patient, IInv, NEW c \in Requests, Issue(c)
  PROVE  IInv'
<1> USE HostAssumption DEF Issue, HostMayAct, hostVars, hwVars, isrVars, mainVars,
     IInv, FtlCommands, SlowCommands, PioCommands, Interrupts, Slow
<1>1. TypeOK'
  <2>. USE DEF TypeOK, HostTypeOK, HardwareTypeOK, FirmwareTypeOK
  <2>1. HostTypeOK'
    BY DEF Requests
  <2>2. HardwareTypeOK'
    BY DEF LatchedFor, Requests
  <2>3. FirmwareTypeOK'
    BY DEF LatchedFor, Requests
  <2>. QED BY <2>1, <2>2, <2>3
<1>2. LatchedFor'
  BY DEF TypeOK, HostTypeOK, HardwareTypeOK, FirmwareTypeOK,
     LatchedFor, SlowFollows, FlagsOnce, Requests, Latched, Patient
<1>3. SlowFollows'
  BY DEF TypeOK, HostTypeOK, HardwareTypeOK, FirmwareTypeOK,
     LatchedFor, SlowFollows, FlagsOnce, SlowOnce, Requests, Latched, Deferred, Active, PostedFor, ServedBy, Patient, QueueFull
<1>4. FlagsOnce'
  BY DEF TypeOK, HostTypeOK, HardwareTypeOK, FirmwareTypeOK,
     LatchedFor, SlowFollows, FlagsOnce, Requests, Latched, Deferred, Active, Patient
<1>5. SlowOnce'
  BY DEF TypeOK, HostTypeOK, HardwareTypeOK, FirmwareTypeOK,
     LatchedFor, SlowFollows, SlowOnce, Requests, Latched, PostedFor, ServedBy, Patient
<1>6. QueueFull'
  BY DEF TypeOK, HostTypeOK, HardwareTypeOK, FirmwareTypeOK,
     LatchedFor, SlowFollows, FlagsOnce, QueueFull, Requests, Latched, Deferred, Active
<1>. QED BY <1>1, <1>2, <1>3, <1>4, <1>5, <1>6 DEF IInv

\* SoftReset preserves the invariant.
LEMMA SoftResetStep ==
  ASSUME Patient, IInv, SoftReset
  PROVE  IInv'
<1> USE HostAssumption DEF SoftReset, MayReset, Situation, HostMayAct, hostVars, hwVars, isrVars, mainVars,
     IInv, FtlCommands, SlowCommands, PioCommands, Interrupts, Slow
<1>1. TypeOK'
  <2>. USE DEF TypeOK, HostTypeOK, HardwareTypeOK, FirmwareTypeOK
  <2>1. HostTypeOK'
    BY DEF Requests
  <2>2. HardwareTypeOK'
    BY DEF LatchedFor, Requests
  <2>3. FirmwareTypeOK'
    BY DEF LatchedFor, Requests
  <2>. QED BY <2>1, <2>2, <2>3
<1>2. LatchedFor'
  BY DEF TypeOK, HostTypeOK, HardwareTypeOK, FirmwareTypeOK,
     LatchedFor, SlowFollows, FlagsOnce, Requests, Latched, Patient
<1>3. SlowFollows'
  BY DEF TypeOK, HostTypeOK, HardwareTypeOK, FirmwareTypeOK,
     LatchedFor, SlowFollows, FlagsOnce, SlowOnce, Requests, Latched, Deferred, Active, PostedFor, ServedBy, Patient, QueueFull
<1>4. FlagsOnce'
  BY DEF TypeOK, HostTypeOK, HardwareTypeOK, FirmwareTypeOK,
     LatchedFor, SlowFollows, FlagsOnce, Requests, Latched, Deferred, Active, Patient
<1>5. SlowOnce'
  BY DEF TypeOK, HostTypeOK, HardwareTypeOK, FirmwareTypeOK,
     LatchedFor, SlowFollows, SlowOnce, Requests, Latched, PostedFor, ServedBy, Patient
<1>6. QueueFull'
  BY DEF TypeOK, HostTypeOK, HardwareTypeOK, FirmwareTypeOK,
     LatchedFor, SlowFollows, FlagsOnce, QueueFull, Requests, Latched, Deferred, Active
<1>. QED BY <1>1, <1>2, <1>3, <1>4, <1>5, <1>6 DEF IInv

\* SoftResetEnd preserves the invariant.
LEMMA SoftResetEndStep ==
  ASSUME Patient, IInv, SoftResetEnd
  PROVE  IInv'
<1> USE HostAssumption DEF SoftResetEnd, hostVars, hwVars, isrVars, mainVars,
     IInv, FtlCommands, SlowCommands, PioCommands, Interrupts, Slow
<1>1. TypeOK'
  <2>. USE DEF TypeOK, HostTypeOK, HardwareTypeOK, FirmwareTypeOK
  <2>1. HostTypeOK'
    BY DEF Requests
  <2>2. HardwareTypeOK'
    BY DEF LatchedFor, Requests
  <2>3. FirmwareTypeOK'
    BY DEF LatchedFor, Requests
  <2>. QED BY <2>1, <2>2, <2>3
<1>2. LatchedFor'
  BY DEF TypeOK, HostTypeOK, HardwareTypeOK, FirmwareTypeOK,
     LatchedFor, SlowFollows, FlagsOnce, Requests, Latched, Patient
<1>3. SlowFollows'
  BY DEF TypeOK, HostTypeOK, HardwareTypeOK, FirmwareTypeOK,
     LatchedFor, SlowFollows, FlagsOnce, SlowOnce, Requests, Latched, Deferred, Active, PostedFor, ServedBy, Patient, QueueFull
<1>4. FlagsOnce'
  BY DEF TypeOK, HostTypeOK, HardwareTypeOK, FirmwareTypeOK,
     LatchedFor, SlowFollows, FlagsOnce, Requests, Latched, Deferred, Active, Patient
<1>5. SlowOnce'
  BY DEF TypeOK, HostTypeOK, HardwareTypeOK, FirmwareTypeOK,
     LatchedFor, SlowFollows, SlowOnce, Requests, Latched, PostedFor, ServedBy, Patient
<1>6. QueueFull'
  BY DEF TypeOK, HostTypeOK, HardwareTypeOK, FirmwareTypeOK,
     LatchedFor, SlowFollows, FlagsOnce, QueueFull, Requests, Latched, Deferred, Active
<1>. QED BY <1>1, <1>2, <1>3, <1>4, <1>5, <1>6 DEF IInv

\* ComReset preserves the invariant.
LEMMA ComResetStep ==
  ASSUME Patient, IInv, ComReset
  PROVE  IInv'
<1> USE HostAssumption DEF ComReset, MayReset, Situation, HostMayAct, hostVars, hwVars, isrVars, mainVars,
     IInv, FtlCommands, SlowCommands, PioCommands, Interrupts, Slow
<1>1. TypeOK'
  <2>. USE DEF TypeOK, HostTypeOK, HardwareTypeOK, FirmwareTypeOK
  <2>1. HostTypeOK'
    BY DEF Requests
  <2>2. HardwareTypeOK'
    BY DEF LatchedFor, Requests
  <2>3. FirmwareTypeOK'
    BY DEF LatchedFor, Requests
  <2>. QED BY <2>1, <2>2, <2>3
<1>2. LatchedFor'
  BY DEF TypeOK, HostTypeOK, HardwareTypeOK, FirmwareTypeOK,
     LatchedFor, SlowFollows, FlagsOnce, Requests, Latched, Patient
<1>3. SlowFollows'
  BY DEF TypeOK, HostTypeOK, HardwareTypeOK, FirmwareTypeOK,
     LatchedFor, SlowFollows, FlagsOnce, SlowOnce, Requests, Latched, Deferred, Active, PostedFor, ServedBy, Patient, QueueFull
<1>4. FlagsOnce'
  BY DEF TypeOK, HostTypeOK, HardwareTypeOK, FirmwareTypeOK,
     LatchedFor, SlowFollows, FlagsOnce, Requests, Latched, Deferred, Active, Patient
<1>5. SlowOnce'
  BY DEF TypeOK, HostTypeOK, HardwareTypeOK, FirmwareTypeOK,
     LatchedFor, SlowFollows, SlowOnce, Requests, Latched, PostedFor, ServedBy, Patient
<1>6. QueueFull'
  BY DEF TypeOK, HostTypeOK, HardwareTypeOK, FirmwareTypeOK,
     LatchedFor, SlowFollows, FlagsOnce, QueueFull, Requests, Latched, Deferred, Active
<1>. QED BY <1>1, <1>2, <1>3, <1>4, <1>5, <1>6 DEF IInv

\* LinkUp preserves the invariant.
LEMMA LinkUpStep ==
  ASSUME Patient, IInv, LinkUp
  PROVE  IInv'
<1> USE HostAssumption DEF LinkUp, hostVars, hwVars, isrVars, mainVars,
     IInv, FtlCommands, SlowCommands, PioCommands, Interrupts, Slow
<1>1. TypeOK'
  <2>. USE DEF TypeOK, HostTypeOK, HardwareTypeOK, FirmwareTypeOK
  <2>1. HostTypeOK'
    BY DEF Requests
  <2>2. HardwareTypeOK'
    BY DEF LatchedFor, Requests
  <2>3. FirmwareTypeOK'
    BY DEF LatchedFor, Requests
  <2>. QED BY <2>1, <2>2, <2>3
<1>2. LatchedFor'
  BY DEF TypeOK, HostTypeOK, HardwareTypeOK, FirmwareTypeOK,
     LatchedFor, SlowFollows, FlagsOnce, Requests, Latched, Patient
<1>3. SlowFollows'
  BY DEF TypeOK, HostTypeOK, HardwareTypeOK, FirmwareTypeOK,
     LatchedFor, SlowFollows, FlagsOnce, SlowOnce, Requests, Latched, Deferred, Active, PostedFor, ServedBy, Patient, QueueFull
<1>4. FlagsOnce'
  BY DEF TypeOK, HostTypeOK, HardwareTypeOK, FirmwareTypeOK,
     LatchedFor, SlowFollows, FlagsOnce, Requests, Latched, Deferred, Active, Patient
<1>5. SlowOnce'
  BY DEF TypeOK, HostTypeOK, HardwareTypeOK, FirmwareTypeOK,
     LatchedFor, SlowFollows, SlowOnce, Requests, Latched, PostedFor, ServedBy, Patient
<1>6. QueueFull'
  BY DEF TypeOK, HostTypeOK, HardwareTypeOK, FirmwareTypeOK,
     LatchedFor, SlowFollows, FlagsOnce, QueueFull, Requests, Latched, Deferred, Active
<1>. QED BY <1>1, <1>2, <1>3, <1>4, <1>5, <1>6 DEF IInv

\* TransferDone preserves the invariant.
LEMMA TransferDoneStep ==
  ASSUME Patient, IInv, TransferDone
  PROVE  IInv'
<1> USE HostAssumption DEF TransferDone, hostVars, hwVars, isrVars, mainVars,
     IInv, FtlCommands, SlowCommands, PioCommands, Interrupts, Slow
<1>1. TypeOK'
  <2>. USE DEF TypeOK, HostTypeOK, HardwareTypeOK, FirmwareTypeOK
  <2>1. HostTypeOK'
    BY DEF Requests
  <2>2. HardwareTypeOK'
    BY DEF LatchedFor, Requests
  <2>3. FirmwareTypeOK'
    BY DEF LatchedFor, Requests
  <2>. QED BY <2>1, <2>2, <2>3
<1>2. LatchedFor'
  BY DEF TypeOK, HostTypeOK, HardwareTypeOK, FirmwareTypeOK,
     LatchedFor, SlowFollows, FlagsOnce, Requests, Latched, Active, Patient
<1>3. SlowFollows'
  BY DEF TypeOK, HostTypeOK, HardwareTypeOK, FirmwareTypeOK,
     LatchedFor, SlowFollows, FlagsOnce, SlowOnce, Requests, Latched, Deferred, Active, PostedFor, ServedBy, Patient, QueueFull
<1>4. FlagsOnce'
  BY DEF TypeOK, HostTypeOK, HardwareTypeOK, FirmwareTypeOK,
     LatchedFor, SlowFollows, FlagsOnce, Requests, Latched, Deferred, Active, Patient
<1>5. SlowOnce'
  BY DEF TypeOK, HostTypeOK, HardwareTypeOK, FirmwareTypeOK,
     LatchedFor, SlowFollows, SlowOnce, Requests, Latched, PostedFor, ServedBy, Patient
<1>6. QueueFull'
  BY DEF TypeOK, HostTypeOK, HardwareTypeOK, FirmwareTypeOK,
     LatchedFor, SlowFollows, FlagsOnce, QueueFull, Requests, Latched, Deferred, Active
<1>. QED BY <1>1, <1>2, <1>3, <1>4, <1>5, <1>6 DEF IInv

\* handle_got_cfis preserves the invariant.
LEMMA Handle_got_cfisStep ==
  ASSUME Patient, IInv, handle_got_cfis
  PROVE  IInv'
<1> USE HostAssumption DEF handle_got_cfis, RefuseRange, InsertEq, PostSlow, Post, Answer, EventqFull, FiqEnabled, Masked, hostVars, hwVars, isrVars, mainVars,
     IInv, FtlCommands, SlowCommands, PioCommands, Interrupts, Slow
<1>1. TypeOK'
  <2>. USE DEF TypeOK, HostTypeOK, HardwareTypeOK, FirmwareTypeOK
  <2>1. HostTypeOK'
    BY DEF Requests
  <2>2. HardwareTypeOK'
    BY DEF LatchedFor, Requests
  <2>3. FirmwareTypeOK'
    <3>1. CASE fis = "beyond"
      BY <3>1
    <3>2. CASE fis \in FtlCommands
      <4>1. fis # "beyond" /\ InsertEq(fis)
        BY <3>2
      <4>2. slow_cmd'.status = slow_cmd.status /\ slow_cmd'.code = slow_cmd.code
        BY <4>1
      <4>3. eq_full' \in BOOLEAN /\ action_flags' \in FtlCommands \union {"none"}
        BY <4>1, <3>2
      <4>. QED BY <4>2, <4>3
    <3>3. CASE fis \in SlowCommands
      <4>1. PostSlow(fis)
        BY <3>3
      <4>2. slow_cmd'.status = "PENDING" /\ slow_cmd'.code = fis /\ late' \in BOOLEAN
        BY <4>1
      <4>3. eq_full' \in BOOLEAN /\ action_flags' \in FtlCommands \union {"none"}
        BY <4>1
      <4>. QED BY <3>3, <4>2, <4>3
    <3>. QED BY <3>1, <3>2, <3>3 DEF LatchedFor, Requests
  <2>. QED BY <2>1, <2>2, <2>3
<1>2. LatchedFor'
  BY DEF TypeOK, HostTypeOK, HardwareTypeOK, FirmwareTypeOK,
     LatchedFor, SlowFollows, FlagsOnce, Requests, Latched, Patient
<1>3. SlowFollows'
  BY DEF TypeOK, HostTypeOK, HardwareTypeOK, FirmwareTypeOK,
     LatchedFor, SlowFollows, FlagsOnce, SlowOnce, Requests, Latched, Deferred, Active, PostedFor, ServedBy, Patient, QueueFull
<1>4. FlagsOnce'
  BY DEF TypeOK, HostTypeOK, HardwareTypeOK, FirmwareTypeOK,
     LatchedFor, SlowFollows, FlagsOnce, Requests, Latched, Deferred, Active, Patient
<1>5. SlowOnce'
  BY DEF TypeOK, HostTypeOK, HardwareTypeOK, FirmwareTypeOK,
     LatchedFor, SlowFollows, SlowOnce, Requests, Latched, PostedFor, ServedBy, Patient
<1>6. QueueFull'
  BY DEF TypeOK, HostTypeOK, HardwareTypeOK, FirmwareTypeOK,
     LatchedFor, SlowFollows, FlagsOnce, QueueFull, Requests, Latched, Deferred, Active
<1>. QED BY <1>1, <1>2, <1>3, <1>4, <1>5, <1>6 DEF IInv

\* handle_srst preserves the invariant.
LEMMA Handle_srstStep ==
  ASSUME Patient, IInv, handle_srst
  PROVE  IInv'
<1> USE HostAssumption DEF handle_srst, AbortTransfer, Post, FiqEnabled, Masked, hostVars, hwVars, isrVars, mainVars,
     IInv, FtlCommands, SlowCommands, PioCommands, Interrupts, Slow
<1>1. TypeOK'
  <2>. USE DEF TypeOK, HostTypeOK, HardwareTypeOK, FirmwareTypeOK
  <2>1. HostTypeOK'
    BY DEF Requests
  <2>2. HardwareTypeOK'
    BY DEF LatchedFor, Requests
  <2>3. FirmwareTypeOK'
    <3>1. CASE slow_cmd' = slow_cmd
      <4>1. srst' \in BOOLEAN
        OBVIOUS
      <4>2. slow_cmd'.status = slow_cmd.status /\ slow_cmd'.code = slow_cmd.code
        BY ONLY <3>1
      <4>. QED BY <4>1, <4>2
    <3>2. CASE slow_cmd' = Slow("PENDING", "reset")
      BY <3>2
    <3>. QED BY <3>1, <3>2
  <2>. QED BY <2>1, <2>2, <2>3
<1>2. LatchedFor'
  BY DEF TypeOK, HostTypeOK, HardwareTypeOK, FirmwareTypeOK,
     LatchedFor, SlowFollows, FlagsOnce, Requests, Latched, Patient
<1>3. SlowFollows'
  BY DEF TypeOK, HostTypeOK, HardwareTypeOK, FirmwareTypeOK,
     LatchedFor, SlowFollows, FlagsOnce, SlowOnce, Requests, Latched, Deferred, Active, PostedFor, ServedBy, Patient, QueueFull
<1>4. FlagsOnce'
  BY DEF TypeOK, HostTypeOK, HardwareTypeOK, FirmwareTypeOK,
     LatchedFor, SlowFollows, FlagsOnce, Requests, Latched, Deferred, Active, Patient
<1>5. SlowOnce'
  BY DEF TypeOK, HostTypeOK, HardwareTypeOK, FirmwareTypeOK,
     LatchedFor, SlowFollows, SlowOnce, Requests, Latched, PostedFor, ServedBy, Patient
<1>6. QueueFull'
  BY DEF TypeOK, HostTypeOK, HardwareTypeOK, FirmwareTypeOK,
     LatchedFor, SlowFollows, FlagsOnce, QueueFull, Requests, Latched, Deferred, Active
<1>. QED BY <1>1, <1>2, <1>3, <1>4, <1>5, <1>6 DEF IInv

\* PhyOnline preserves the invariant.
LEMMA PhyOnlineStep ==
  ASSUME Patient, IInv, PhyOnline
  PROVE  IInv'
<1> USE HostAssumption DEF PhyOnline, Post, FiqEnabled, Masked, hostVars, hwVars, isrVars, mainVars,
     IInv, FtlCommands, SlowCommands, PioCommands, Interrupts, Slow
<1>1. TypeOK'
  <2>. USE DEF TypeOK, HostTypeOK, HardwareTypeOK, FirmwareTypeOK
  <2>1. HostTypeOK'
    BY DEF Requests
  <2>2. HardwareTypeOK'
    BY DEF LatchedFor, Requests
  <2>3. FirmwareTypeOK'
    BY DEF LatchedFor, Requests
  <2>. QED BY <2>1, <2>2, <2>3
<1>2. LatchedFor'
  BY DEF TypeOK, HostTypeOK, HardwareTypeOK, FirmwareTypeOK,
     LatchedFor, SlowFollows, FlagsOnce, Requests, Latched, Patient
<1>3. SlowFollows'
  BY DEF TypeOK, HostTypeOK, HardwareTypeOK, FirmwareTypeOK,
     LatchedFor, SlowFollows, FlagsOnce, SlowOnce, Requests, Latched, Deferred, Active, PostedFor, ServedBy, Patient, QueueFull
<1>4. FlagsOnce'
  BY DEF TypeOK, HostTypeOK, HardwareTypeOK, FirmwareTypeOK,
     LatchedFor, SlowFollows, FlagsOnce, Requests, Latched, Deferred, Active, Patient
<1>5. SlowOnce'
  BY DEF TypeOK, HostTypeOK, HardwareTypeOK, FirmwareTypeOK,
     LatchedFor, SlowFollows, SlowOnce, Requests, Latched, PostedFor, ServedBy, Patient
<1>6. QueueFull'
  BY DEF TypeOK, HostTypeOK, HardwareTypeOK, FirmwareTypeOK,
     LatchedFor, SlowFollows, FlagsOnce, QueueFull, Requests, Latched, Deferred, Active
<1>. QED BY <1>1, <1>2, <1>3, <1>4, <1>5, <1>6 DEF IInv

\* eventq_get preserves the invariant.
LEMMA Eventq_getStep ==
  ASSUME Patient, IInv, eventq_get
  PROVE  IInv'
<1> USE HostAssumption DEF eventq_get, DeliverFlags, hostVars, hwVars, isrVars, mainVars,
     IInv, FtlCommands, SlowCommands, PioCommands, Interrupts, Slow
<1>1. TypeOK'
  <2>. USE DEF TypeOK, HostTypeOK, HardwareTypeOK, FirmwareTypeOK
  <2>1. HostTypeOK'
    BY DEF Requests
  <2>2. HardwareTypeOK'
    BY DEF LatchedFor, Requests
  <2>3. FirmwareTypeOK'
    <3>1. Head(eq) \in FtlCommands
      BY Zenon, HeadTailOfSeq
    <3>. QED BY <3>1
  <2>. QED BY <2>1, <2>2, <2>3
<1>2. LatchedFor'
  BY DEF TypeOK, HostTypeOK, HardwareTypeOK, FirmwareTypeOK,
     LatchedFor, SlowFollows, FlagsOnce, Requests, Latched, Deferred, Patient
<1>3. SlowFollows'
  BY DEF TypeOK, HostTypeOK, HardwareTypeOK, FirmwareTypeOK,
     LatchedFor, SlowFollows, FlagsOnce, SlowOnce, Requests, Latched, Deferred, Active, PostedFor, ServedBy, Patient, QueueFull
<1>4. FlagsOnce'
  BY DEF TypeOK, HostTypeOK, HardwareTypeOK, FirmwareTypeOK,
     LatchedFor, SlowFollows, FlagsOnce, Requests, Latched, Deferred, Active, Patient
<1>5. SlowOnce'
  BY DEF TypeOK, HostTypeOK, HardwareTypeOK, FirmwareTypeOK,
     LatchedFor, SlowFollows, SlowOnce, Requests, Latched, PostedFor, ServedBy, Patient
<1>6. QueueFull'
  BY DEF TypeOK, HostTypeOK, HardwareTypeOK, FirmwareTypeOK,
     LatchedFor, SlowFollows, FlagsOnce, QueueFull, Requests, Latched, Deferred, Active
<1>. QED BY <1>1, <1>2, <1>3, <1>4, <1>5, <1>6 DEF IInv

\* ServeFtl preserves the invariant.
LEMMA ServeFtlStep ==
  ASSUME Patient, IInv, ServeFtl
  PROVE  IInv'
<1> USE HostAssumption DEF ServeFtl, hostVars, hwVars, isrVars, mainVars,
     IInv, FtlCommands, SlowCommands, PioCommands, Interrupts, Slow
<1>1. TypeOK'
  <2>. USE DEF TypeOK, HostTypeOK, HardwareTypeOK, FirmwareTypeOK
  <2>1. HostTypeOK'
    BY DEF Requests
  <2>2. HardwareTypeOK'
    BY DEF LatchedFor, Requests
  <2>3. FirmwareTypeOK'
    BY DEF LatchedFor, Requests
  <2>. QED BY <2>1, <2>2, <2>3
<1>2. LatchedFor'
  BY DEF TypeOK, HostTypeOK, HardwareTypeOK, FirmwareTypeOK,
     LatchedFor, SlowFollows, FlagsOnce, Requests, Latched, Patient
<1>3. SlowFollows'
  BY DEF TypeOK, HostTypeOK, HardwareTypeOK, FirmwareTypeOK,
     LatchedFor, SlowFollows, FlagsOnce, SlowOnce, Requests, Latched, Deferred, Active, PostedFor, ServedBy, Patient, QueueFull
<1>4. FlagsOnce'
  BY DEF TypeOK, HostTypeOK, HardwareTypeOK, FirmwareTypeOK,
     LatchedFor, SlowFollows, FlagsOnce, Requests, Latched, Deferred, Active, Patient
<1>5. SlowOnce'
  BY DEF TypeOK, HostTypeOK, HardwareTypeOK, FirmwareTypeOK,
     LatchedFor, SlowFollows, SlowOnce, Requests, Latched, PostedFor, ServedBy, Patient
<1>6. QueueFull'
  BY DEF TypeOK, HostTypeOK, HardwareTypeOK, FirmwareTypeOK,
     LatchedFor, SlowFollows, FlagsOnce, QueueFull, Requests, Latched, Deferred, Active
<1>. QED BY <1>1, <1>2, <1>3, <1>4, <1>5, <1>6 DEF IInv

\* LookAtSlow preserves the invariant.
LEMMA LookAtSlowStep ==
  ASSUME Patient, IInv, LookAtSlow
  PROVE  IInv'
<1> USE HostAssumption DEF LookAtSlow, SlowTurn, hostVars, hwVars, isrVars, mainVars,
     IInv, FtlCommands, SlowCommands, PioCommands, Interrupts, Slow
<1>1. TypeOK'
  <2>. USE DEF TypeOK, HostTypeOK, HardwareTypeOK, FirmwareTypeOK
  <2>1. HostTypeOK'
    BY DEF Requests
  <2>2. HardwareTypeOK'
    BY DEF LatchedFor, Requests
  <2>3. FirmwareTypeOK'
    BY DEF LatchedFor, Requests
  <2>. QED BY <2>1, <2>2, <2>3
<1>2. LatchedFor'
  BY DEF TypeOK, HostTypeOK, HardwareTypeOK, FirmwareTypeOK,
     LatchedFor, SlowFollows, FlagsOnce, Requests, Latched, Patient
<1>3. SlowFollows'
  BY DEF TypeOK, HostTypeOK, HardwareTypeOK, FirmwareTypeOK,
     LatchedFor, SlowFollows, FlagsOnce, SlowOnce, Requests, Latched, Deferred, Active, PostedFor, ServedBy, Patient, QueueFull
<1>4. FlagsOnce'
  BY DEF TypeOK, HostTypeOK, HardwareTypeOK, FirmwareTypeOK,
     LatchedFor, SlowFollows, FlagsOnce, Requests, Latched, Deferred, Active, Patient
<1>5. SlowOnce'
  BY DEF TypeOK, HostTypeOK, HardwareTypeOK, FirmwareTypeOK,
     LatchedFor, SlowFollows, SlowOnce, Requests, Latched, PostedFor, ServedBy, Patient
<1>6. QueueFull'
  BY DEF TypeOK, HostTypeOK, HardwareTypeOK, FirmwareTypeOK,
     LatchedFor, SlowFollows, FlagsOnce, QueueFull, Requests, Latched, Deferred, Active
<1>. QED BY <1>1, <1>2, <1>3, <1>4, <1>5, <1>6 DEF IInv

\* PollSlow preserves the invariant.
LEMMA PollSlowStep ==
  ASSUME Patient, IInv, PollSlow
  PROVE  IInv'
<1> USE HostAssumption DEF PollSlow, hostVars, hwVars, isrVars, mainVars,
     IInv, FtlCommands, SlowCommands, PioCommands, Interrupts, Slow
<1>1. TypeOK'
  <2>. USE DEF TypeOK, HostTypeOK, HardwareTypeOK, FirmwareTypeOK
  <2>1. HostTypeOK'
    BY DEF Requests
  <2>2. HardwareTypeOK'
    BY DEF LatchedFor, Requests
  <2>3. FirmwareTypeOK'
    BY DEF LatchedFor, Requests
  <2>. QED BY <2>1, <2>2, <2>3
<1>2. LatchedFor'
  BY DEF TypeOK, HostTypeOK, HardwareTypeOK, FirmwareTypeOK,
     LatchedFor, SlowFollows, FlagsOnce, Requests, Latched, Patient
<1>3. SlowFollows'
  BY DEF TypeOK, HostTypeOK, HardwareTypeOK, FirmwareTypeOK,
     LatchedFor, SlowFollows, FlagsOnce, SlowOnce, Requests, Latched, Deferred, Active, PostedFor, ServedBy, Patient, QueueFull
<1>4. FlagsOnce'
  BY DEF TypeOK, HostTypeOK, HardwareTypeOK, FirmwareTypeOK,
     LatchedFor, SlowFollows, FlagsOnce, Requests, Latched, Deferred, Active, Patient
<1>5. SlowOnce'
  BY DEF TypeOK, HostTypeOK, HardwareTypeOK, FirmwareTypeOK,
     LatchedFor, SlowFollows, SlowOnce, Requests, Latched, PostedFor, ServedBy, Patient
<1>6. QueueFull'
  BY DEF TypeOK, HostTypeOK, HardwareTypeOK, FirmwareTypeOK,
     LatchedFor, SlowFollows, FlagsOnce, QueueFull, Requests, Latched, Deferred, Active
<1>. QED BY <1>1, <1>2, <1>3, <1>4, <1>5, <1>6 DEF IInv

\* NothingSlow preserves the invariant.
LEMMA NothingSlowStep ==
  ASSUME Patient, IInv, NothingSlow
  PROVE  IInv'
<1> USE HostAssumption DEF NothingSlow, hostVars, hwVars, isrVars, mainVars,
     IInv, FtlCommands, SlowCommands, PioCommands, Interrupts, Slow
<1>1. TypeOK'
  <2>. USE DEF TypeOK, HostTypeOK, HardwareTypeOK, FirmwareTypeOK
  <2>1. HostTypeOK'
    BY DEF Requests
  <2>2. HardwareTypeOK'
    BY DEF LatchedFor, Requests
  <2>3. FirmwareTypeOK'
    BY DEF LatchedFor, Requests
  <2>. QED BY <2>1, <2>2, <2>3
<1>2. LatchedFor'
  BY DEF TypeOK, HostTypeOK, HardwareTypeOK, FirmwareTypeOK,
     LatchedFor, SlowFollows, FlagsOnce, Requests, Latched, Patient
<1>3. SlowFollows'
  BY DEF TypeOK, HostTypeOK, HardwareTypeOK, FirmwareTypeOK,
     LatchedFor, SlowFollows, FlagsOnce, SlowOnce, Requests, Latched, Deferred, Active, PostedFor, ServedBy, Patient, QueueFull
<1>4. FlagsOnce'
  BY DEF TypeOK, HostTypeOK, HardwareTypeOK, FirmwareTypeOK,
     LatchedFor, SlowFollows, FlagsOnce, Requests, Latched, Deferred, Active, Patient
<1>5. SlowOnce'
  BY DEF TypeOK, HostTypeOK, HardwareTypeOK, FirmwareTypeOK,
     LatchedFor, SlowFollows, SlowOnce, Requests, Latched, PostedFor, ServedBy, Patient
<1>6. QueueFull'
  BY DEF TypeOK, HostTypeOK, HardwareTypeOK, FirmwareTypeOK,
     LatchedFor, SlowFollows, FlagsOnce, QueueFull, Requests, Latched, Deferred, Active
<1>. QED BY <1>1, <1>2, <1>3, <1>4, <1>5, <1>6 DEF IInv

\* StartSlow preserves the invariant.
LEMMA StartSlowStep ==
  ASSUME Patient, IInv, StartSlow
  PROVE  IInv'
<1> USE HostAssumption DEF StartSlow, TakeSlow, hostVars, hwVars, isrVars, mainVars,
     IInv, FtlCommands, SlowCommands, PioCommands, Interrupts, Slow
<1>1. TypeOK'
  <2>. USE DEF TypeOK, HostTypeOK, HardwareTypeOK, FirmwareTypeOK
  <2>1. HostTypeOK'
    BY DEF Requests
  <2>2. HardwareTypeOK'
    BY DEF LatchedFor, Requests
  <2>3. FirmwareTypeOK'
    BY DEF LatchedFor, Requests
  <2>. QED BY <2>1, <2>2, <2>3
<1>2. LatchedFor'
  BY DEF TypeOK, HostTypeOK, HardwareTypeOK, FirmwareTypeOK,
     LatchedFor, SlowFollows, FlagsOnce, Requests, Latched, Patient
<1>3. SlowFollows'
  BY DEF TypeOK, HostTypeOK, HardwareTypeOK, FirmwareTypeOK,
     LatchedFor, SlowFollows, FlagsOnce, SlowOnce, Requests, Latched, Deferred, Active, PostedFor, ServedBy, Patient, QueueFull
<1>4. FlagsOnce'
  BY DEF TypeOK, HostTypeOK, HardwareTypeOK, FirmwareTypeOK,
     LatchedFor, SlowFollows, FlagsOnce, Requests, Latched, Deferred, Active, Patient
<1>5. SlowOnce'
  BY DEF TypeOK, HostTypeOK, HardwareTypeOK, FirmwareTypeOK,
     LatchedFor, SlowFollows, SlowOnce, Requests, Latched, PostedFor, ServedBy, Patient
<1>6. QueueFull'
  BY DEF TypeOK, HostTypeOK, HardwareTypeOK, FirmwareTypeOK,
     LatchedFor, SlowFollows, FlagsOnce, QueueFull, Requests, Latched, Deferred, Active
<1>. QED BY <1>1, <1>2, <1>3, <1>4, <1>5, <1>6 DEF IInv

\* ata_function preserves the invariant.
LEMMA Ata_functionStep ==
  ASSUME Patient, IInv, ata_function
  PROVE  IInv'
<1> USE HostAssumption DEF ata_function, Answer, hostVars, hwVars, isrVars, mainVars,
     IInv, FtlCommands, SlowCommands, PioCommands, Interrupts, Slow
<1>1. TypeOK'
  <2>. USE DEF TypeOK, HostTypeOK, HardwareTypeOK, FirmwareTypeOK
  <2>1. HostTypeOK'
    BY DEF Requests
  <2>2. HardwareTypeOK'
    BY DEF LatchedFor, Requests
  <2>3. FirmwareTypeOK'
    BY DEF LatchedFor, Requests
  <2>. QED BY <2>1, <2>2, <2>3
<1>2. LatchedFor'
  BY DEF TypeOK, HostTypeOK, HardwareTypeOK, FirmwareTypeOK,
     LatchedFor, SlowFollows, FlagsOnce, Requests, Latched, Patient
<1>3. SlowFollows'
  BY DEF TypeOK, HostTypeOK, HardwareTypeOK, FirmwareTypeOK,
     LatchedFor, SlowFollows, FlagsOnce, SlowOnce, Requests, Latched, Deferred, Active, PostedFor, ServedBy, Patient, QueueFull
<1>4. FlagsOnce'
  BY DEF TypeOK, HostTypeOK, HardwareTypeOK, FirmwareTypeOK,
     LatchedFor, SlowFollows, FlagsOnce, Requests, Latched, Deferred, Active, Patient
<1>5. SlowOnce'
  BY DEF TypeOK, HostTypeOK, HardwareTypeOK, FirmwareTypeOK,
     LatchedFor, SlowFollows, SlowOnce, Requests, Latched, PostedFor, ServedBy, Patient
<1>6. QueueFull'
  BY DEF TypeOK, HostTypeOK, HardwareTypeOK, FirmwareTypeOK,
     LatchedFor, SlowFollows, FlagsOnce, QueueFull, Requests, Latched, Deferred, Active
<1>. QED BY <1>1, <1>2, <1>3, <1>4, <1>5, <1>6 DEF IInv

\* PioStart preserves the invariant.
LEMMA PioStartStep ==
  ASSUME Patient, IInv, PioStart
  PROVE  IInv'
<1> USE HostAssumption DEF PioStart, hostVars, hwVars, isrVars, mainVars,
     IInv, FtlCommands, SlowCommands, PioCommands, Interrupts, Slow
<1>1. TypeOK'
  <2>. USE DEF TypeOK, HostTypeOK, HardwareTypeOK, FirmwareTypeOK
  <2>1. HostTypeOK'
    BY DEF Requests
  <2>2. HardwareTypeOK'
    BY DEF LatchedFor, Requests
  <2>3. FirmwareTypeOK'
    BY DEF LatchedFor, Requests
  <2>. QED BY <2>1, <2>2, <2>3
<1>2. LatchedFor'
  BY DEF TypeOK, HostTypeOK, HardwareTypeOK, FirmwareTypeOK,
     LatchedFor, SlowFollows, FlagsOnce, Requests, Latched, Patient
<1>3. SlowFollows'
  BY DEF TypeOK, HostTypeOK, HardwareTypeOK, FirmwareTypeOK,
     LatchedFor, SlowFollows, FlagsOnce, SlowOnce, Requests, Latched, Deferred, Active, PostedFor, ServedBy, Patient, QueueFull
<1>4. FlagsOnce'
  BY DEF TypeOK, HostTypeOK, HardwareTypeOK, FirmwareTypeOK,
     LatchedFor, SlowFollows, FlagsOnce, Requests, Latched, Deferred, Active, Patient
<1>5. SlowOnce'
  BY DEF TypeOK, HostTypeOK, HardwareTypeOK, FirmwareTypeOK,
     LatchedFor, SlowFollows, SlowOnce, Requests, Latched, PostedFor, ServedBy, Patient
<1>6. QueueFull'
  BY DEF TypeOK, HostTypeOK, HardwareTypeOK, FirmwareTypeOK,
     LatchedFor, SlowFollows, FlagsOnce, QueueFull, Requests, Latched, Deferred, Active
<1>. QED BY <1>1, <1>2, <1>3, <1>4, <1>5, <1>6 DEF IInv

\* PioEnd preserves the invariant.
LEMMA PioEndStep ==
  ASSUME Patient, IInv, PioEnd
  PROVE  IInv'
<1> USE HostAssumption DEF PioEnd, Answer, hostVars, hwVars, isrVars, mainVars,
     IInv, FtlCommands, SlowCommands, PioCommands, Interrupts, Slow
<1>1. TypeOK'
  <2>. USE DEF TypeOK, HostTypeOK, HardwareTypeOK, FirmwareTypeOK
  <2>1. HostTypeOK'
    BY DEF Requests
  <2>2. HardwareTypeOK'
    BY DEF LatchedFor, Requests
  <2>3. FirmwareTypeOK'
    BY DEF LatchedFor, Requests
  <2>. QED BY <2>1, <2>2, <2>3
<1>2. LatchedFor'
  BY DEF TypeOK, HostTypeOK, HardwareTypeOK, FirmwareTypeOK,
     LatchedFor, SlowFollows, FlagsOnce, Requests, Latched, Patient
<1>3. SlowFollows'
  BY DEF TypeOK, HostTypeOK, HardwareTypeOK, FirmwareTypeOK,
     LatchedFor, SlowFollows, FlagsOnce, SlowOnce, Requests, Latched, Deferred, Active, PostedFor, ServedBy, Patient, QueueFull
<1>4. FlagsOnce'
  BY DEF TypeOK, HostTypeOK, HardwareTypeOK, FirmwareTypeOK,
     LatchedFor, SlowFollows, FlagsOnce, Requests, Latched, Deferred, Active, Patient
<1>5. SlowOnce'
  BY DEF TypeOK, HostTypeOK, HardwareTypeOK, FirmwareTypeOK,
     LatchedFor, SlowFollows, SlowOnce, Requests, Latched, PostedFor, ServedBy, Patient
<1>6. QueueFull'
  BY DEF TypeOK, HostTypeOK, HardwareTypeOK, FirmwareTypeOK,
     LatchedFor, SlowFollows, FlagsOnce, QueueFull, Requests, Latched, Deferred, Active
<1>. QED BY <1>1, <1>2, <1>3, <1>4, <1>5, <1>6 DEF IInv

\* EndSlow preserves the invariant.
LEMMA EndSlowStep ==
  ASSUME Patient, IInv, EndSlow
  PROVE  IInv'
<1> USE HostAssumption DEF EndSlow, hostVars, hwVars, isrVars, mainVars,
     IInv, FtlCommands, SlowCommands, PioCommands, Interrupts, Slow
<1>1. TypeOK'
  <2>. USE DEF TypeOK, HostTypeOK, HardwareTypeOK, FirmwareTypeOK
  <2>1. HostTypeOK'
    BY DEF Requests
  <2>2. HardwareTypeOK'
    BY DEF LatchedFor, Requests
  <2>3. FirmwareTypeOK'
    BY DEF LatchedFor, Requests
  <2>. QED BY <2>1, <2>2, <2>3
<1>2. LatchedFor'
  BY DEF TypeOK, HostTypeOK, HardwareTypeOK, FirmwareTypeOK,
     LatchedFor, SlowFollows, FlagsOnce, Requests, Latched, Patient
<1>3. SlowFollows'
  BY DEF TypeOK, HostTypeOK, HardwareTypeOK, FirmwareTypeOK,
     LatchedFor, SlowFollows, FlagsOnce, SlowOnce, Requests, Latched, Deferred, Active, PostedFor, ServedBy, Patient, QueueFull
<1>4. FlagsOnce'
  BY DEF TypeOK, HostTypeOK, HardwareTypeOK, FirmwareTypeOK,
     LatchedFor, SlowFollows, FlagsOnce, Requests, Latched, Deferred, Active, Patient
<1>5. SlowOnce'
  BY DEF TypeOK, HostTypeOK, HardwareTypeOK, FirmwareTypeOK,
     LatchedFor, SlowFollows, SlowOnce, Requests, Latched, PostedFor, ServedBy, Patient
<1>6. QueueFull'
  BY DEF TypeOK, HostTypeOK, HardwareTypeOK, FirmwareTypeOK,
     LatchedFor, SlowFollows, FlagsOnce, QueueFull, Requests, Latched, Deferred, Active
<1>. QED BY <1>1, <1>2, <1>3, <1>4, <1>5, <1>6 DEF IInv

-----------------------------------------------------------------------------
\* Every step of the host, the hardware, the handler and the main loop.
LEMMA NextStep ==
  ASSUME Patient, IInv, [Next]_vars
  PROVE  IInv'
<1>1. CASE Host
  BY <1>1, IssueStep, SoftResetStep, ComResetStep DEF Host, Requests
<1>2. CASE Hardware
  BY <1>2, SoftResetEndStep, LinkUpStep, TransferDoneStep DEF Hardware
<1>3. CASE fiq_handler
  BY <1>3, Handle_got_cfisStep, Handle_srstStep, PhyOnlineStep DEF fiq_handler
<1>4. CASE Main
  BY <1>4, Eventq_getStep, ServeFtlStep, LookAtSlowStep, PollSlowStep, NothingSlowStep,
     StartSlowStep, Ata_functionStep, PioStartStep, PioEndStep, EndSlowStep DEF Main
<1>5. CASE UNCHANGED vars
  <2>1. UNCHANGED <<host, link, fis, eq, xfer, filled, int_stat, int_enable>>
    BY <1>5 DEF vars, hostVars, hwVars, isrVars
  <2>2. UNCHANGED <<eq_full, action_flags, srst, slow_cmd, pc, cur, late>>
    BY <1>5 DEF vars, isrVars, mainVars
  <2>. QED
    BY <2>1, <2>2 DEF IInv, TypeOK, HostTypeOK, HardwareTypeOK, FirmwareTypeOK,
       LatchedFor, SlowFollows, FlagsOnce, SlowOnce, QueueFull, Latched, Deferred,
       Active, PostedFor, ServedBy
<1>. QED BY <1>1, <1>2, <1>3, <1>4, <1>5 DEF Next

\* The inductive invariant holds in every reachable state.
LEMMA Invariance ==
  ASSUME Patient
  PROVE  Spec => []IInv
<1>1. IInv /\ [Next]_vars => IInv'
  BY NextStep
<1>. QED BY <1>1, InitOK, PTL DEF Spec

\* What is in slow_cmd, the event queue and the registers keeps its type, whatever
\* the order of interrupts and main loop.
THEOREM TypeCorrect ==
  ASSUME Patient
  PROVE  Spec => []TypeOK
<1>1. IInv => TypeOK
  BY DEF IInv
<1>. QED BY <1>1, Invariance, PTL

\* The flags of a read or write are in exactly one place and reach the hardware once.
THEOREM FlagsSafe ==
  ASSUME Patient
  PROVE  Spec => []FlagsOnce
<1>1. IInv => FlagsOnce
  BY DEF IInv
<1>. QED BY <1>1, Invariance, PTL

\* A slow command or a reset is in exactly one place until its answer.
THEOREM SlowSafe ==
  ASSUME Patient
  PROVE  Spec => []SlowOnce
<1>1. IInv => SlowOnce
  BY DEF IInv
<1>. QED BY <1>1, Invariance, PTL

\* A slow command that was not posted between the two tests of Main, over a command
\* queued there, is executed with the event queue drained; every one is executed
\* with no transfer running and no flags deferred.
THEOREM SlowLast ==
  ASSUME Patient
  PROVE  Spec => []SlowIsLast
<1>1. IInv => SlowIsLast
  <2> SUFFICES ASSUME IInv, pc \in {"exec", "pio", "status"}
               PROVE  ~eq_full /\ xfer = "none" /\ (eq = <<>> \/ late)
    BY DEF SlowIsLast
  <2>1. /\ eq = <<>> \/ late
        /\ ~Latched /\ host = cur /\ cur \in SlowCommands \union {"reset"}
    BY DEF IInv, SlowFollows
  <2>2. host \notin FtlCommands
    BY <2>1 DEF FtlCommands, SlowCommands, PioCommands
  <2>. QED BY <2>1, <2>2 DEF IInv, FlagsOnce, Deferred, Active
<1>. QED BY <1>1, Invariance, PTL

\* The deferral of flags keeps the event queue within its size.
THEOREM QueueBounded ==
  ASSUME Patient
  PROVE  Spec => []EqBounded
<1>1. IInv => EqBounded
  BY DEF IInv, QueueFull, EqBounded
<1>. QED BY <1>1, Invariance, PTL

\* With a host that gives up on nothing slow_cmd holds, no posted reset is lost: the
\* assumption is exactly what the violation run drops.
THEOREM SrstKept ==
  ASSUME Patient
  PROVE  Spec => SrstExecuted
<1>1. IInv /\ IInv' /\ [Next]_vars
      => (PostedFor("reset") => PostedFor("reset")' \/ slow_cmd'.status = "BUSY")
  <2> SUFFICES ASSUME IInv, [Next]_vars, PostedFor("reset"),
                      slow_cmd' # slow_cmd
               PROVE  slow_cmd'.status = "BUSY"
    BY DEF PostedFor
  <2>1. int_stat = {} /\ pc # "done"
    BY DEF IInv, SlowFollows, Latched, PostedFor, Slow
  <2>2. ~Host /\ ~Hardware
    BY DEF Host, Hardware, Issue, SoftReset, ComReset, SoftResetEnd, LinkUp, TransferDone,
       isrVars
  <2>3. ~fiq_handler
    BY <2>1 DEF fiq_handler, handle_got_cfis, handle_srst, PhyOnline, Masked
  <2>4. slow_cmd = Slow("PENDING", "reset") /\ vars' # vars
    BY DEF PostedFor, vars, isrVars
  <2>5. StartSlow
    BY <2>1, <2>2, <2>3, <2>4 DEF Next, Main, eventq_get, ServeFtl, LookAtSlow, PollSlow, NothingSlow, ata_function,
       PioStart, PioEnd, EndSlow, isrVars
  <2>. QED BY <2>4, <2>5 DEF StartSlow, TakeSlow, Slow
<1>. QED BY <1>1, Invariance, PTL DEF Spec, SrstExecuted
=============================================================================
