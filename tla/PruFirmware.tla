------------------------------ MODULE PruFirmware ------------------------------
(***************************************************************************)
(* The firmware of the two PRU cores and the hardware they share.          *)
(*                                                                         *)
(* PRU0 (firmware/main_pru0.c) polls two system events: the doorbell of    *)
(* the ARM and the doorbell of PRU1.  On the first it takes one control    *)
(* message out of vring1, copies it into the shared RAM and rings PRU1; on *)
(* the second it moves sampled data from the scratch pad to the ARM.       *)
(*                                                                         *)
(* PRU1 (firmware/main_pru1_def.asm) waits for PRU0's doorbell, loads the  *)
(* configuration and either takes one raw sample or samples block after    *)
(* block, rotating over the scratch pad banks and ringing PRU0 for each.   *)
(*                                                                         *)
(* A block of DATA_SIZE samples is one value, the two timing words of the  *)
(* configuration are one value, and instructions that touch only the       *)
(* private state of a core are joined to the shared access before them.    *)
(***************************************************************************)
EXTENDS Naturals, Sequences

CONSTANTS
  NumBanks,      \* scratch pad banks in the rotation: SP_BANK_0 .. SP_BANK_2
  BlocksPerMsg,  \* blocks of DATA_SIZE bytes that fill one large buffer
  NumBufs,       \* receive buffers the ARM lends to the PRU on vring0
  Timings,       \* timing words (sampling periods) the ARM may ask for
  MaxQueue       \* messages vring1 can hold: rpmsg_send waits for a free buffer

ASSUME FirmwareAssumption ==
  /\ NumBanks \in Nat /\ NumBanks >= 3
  /\ BlocksPerMsg \in Nat \ {0}
  /\ NumBufs \in Nat \ {0}
  /\ MaxQueue \in Nat \ {0}
  /\ {"unset", "clobbered"} \cap Timings = {}

Modes == {"raw", "block"}      \* RAW_READ, BLOCK_READ
Banks == 0 .. NumBanks - 1

(* Mutant: the last bank is never used. *)
NextBankOfTwo(b) == IF b >= NumBanks - 2 THEN 0 ELSE b + 1

(* SP_BANK_n -> SP_BANK_n+1, the last one -> SP_BANK_0. *)
NextBank(b) == IF b = NumBanks - 1 THEN 0 ELSE b + 1

(***************************************************************************)
(* Control messages.  A long one (12 bytes) carries timing words, read     *)
(* mode and start bit; the kernel driver always sets the start bit.  A     *)
(* short one (fewer bytes) only clears or sets the start bit.              *)
(***************************************************************************)
LongMsgs  == [len : {"long"}, timing : Timings, mode : Modes, start : {TRUE}]
ShortMsgs == [len : {"short"}, start : BOOLEAN]
Messages  == LongMsgs \cup ShortMsgs

(* The three words of a configuration, as msg_from_kernel, the shared RAM  *)
(* and the registers of PRU1 hold them.                                    *)
ConfigWords == [timing : Timings \cup {"unset", "clobbered"},
                mode   : Modes,
                start  : BOOLEAN]
NoConfig    == [timing |-> "unset", mode |-> "raw", start |-> FALSE]

VARIABLES
  toPru,     \* vring1: control messages made available by the ARM, not received
  kickOwed,  \* the ARM has added a message and has not rung the doorbell yet
  armEvt,    \* INT_ARM_to_P0 is pending
  channel,   \* the ARM has received the announcement and probed the driver
  avail,     \* vring0 buffers the PRU may take
  used,      \* vring0 buffers handed back to the ARM, not yet recycled
  pc0,       \* where PRU0 is in its loop
  msg,       \* msg_from_kernel
  bank,      \* bank_to_use
  count,     \* blocks copied to the large buffer that is open (counter)
  shm,       \* the shared RAM at SHARED_MEM_ADDR
  p1Evt,     \* INT_P0_to_P1 is pending
  p0Evt,     \* INT_P1_to_P0 is pending
  pc1,       \* where PRU1 is in its program
  cfg,       \* SAMPLING_CONFIG_0 .. 2
  bank1,     \* the bank SAMPLE_CYCLE_8 is collecting for
  hold,      \* history: what each bank holds that PRU0 has not read
  sync       \* history: see InStep below

armVars  == <<toPru, kickOwed, armEvt, channel>>
rxVars   == <<avail, used>>
pru0Vars == <<pc0, msg, bank, count>>
pru1Vars == <<pc1, cfg, bank1>>
vars == <<armVars, rxVars, pru0Vars, shm, p1Evt, p0Evt, pru1Vars, hold, sync>>

(* PRU0 between receiving a message and ringing PRU1 for it. *)
Updating == pc0 \in {"write_timing", "write_misc", "tell_pru1"}
(* PRU1 in MANAGE_INTERRUPT. *)
Loading  == pc1 \in {"manage", "load_timing", "load_misc"}
(* PRU1 in SAMPLE_CYCLE_8. *)
Sampling == pc1 \in {"sample", "last", "xout", "tell"}

(***************************************************************************)
(* Both cores are initialised, the device is up (VIRTIO_CONFIG_S_DRIVER_OK)*)
(* with its receive buffers in vring0 and the kick for them still to come, *)
(* and the channel is not announced.  Neither the shared RAM nor the       *)
(* configuration registers are read before they are written; NoConfig      *)
(* stands for what they contain.                                           *)
(***************************************************************************)
Init ==
  /\ toPru = <<>> /\ kickOwed = TRUE /\ armEvt = FALSE /\ channel = FALSE
  /\ avail = NumBufs /\ used = 0
  /\ pc0 = "announce" /\ msg = NoConfig /\ bank = 0 /\ count = 0
  /\ shm = NoConfig /\ p1Evt = FALSE /\ p0Evt = FALSE
  /\ pc1 = "int_loop" /\ cfg = NoConfig /\ bank1 = 0
  /\ hold = [b \in Banks |-> "none"] /\ sync = FALSE

--------------------------------------------------------------------------------
(***************************************************************************)
(* The ARM: the rpmsg bus under the kernel driver.                         *)
(***************************************************************************)

(* rpmsg_send adds a buffer to vring1 ... *)
ArmSend(m) ==
  /\ channel /\ ~kickOwed /\ Len(toPru) < MaxQueue
  /\ toPru' = Append(toPru, m)
  /\ kickOwed' = TRUE
  /\ UNCHANGED <<armEvt, channel, rxVars, pru0Vars, shm, p1Evt, p0Evt, pru1Vars, hold,
                 sync>>

(* ... and rings INT_ARM_to_P0. *)
ArmKick ==
  /\ kickOwed
  /\ kickOwed' = FALSE
  /\ armEvt' = TRUE
  /\ UNCHANGED <<toPru, channel, rxVars, pru0Vars, shm, p1Evt, p0Evt, pru1Vars, hold,
                 sync>>

(* The receive callback consumes a used buffer, makes it available again   *)
(* and rings the same doorbell.  The first one is the announcement.        *)
ArmRecycle ==
  /\ used > 0
  /\ used' = used - 1
  /\ avail' = avail + 1
  /\ armEvt' = TRUE /\ channel' = TRUE
  /\ UNCHANGED <<toPru, kickOwed, pru0Vars, shm, p1Evt, p0Evt, pru1Vars, hold, sync>>

--------------------------------------------------------------------------------
(***************************************************************************)
(* PRU0.                                                                   *)
(***************************************************************************)

(* pru_rpmsg_channel, until it finds a buffer for the announcement. *)
Announce ==
  /\ pc0 = "announce" /\ avail > 0
  /\ avail' = avail - 1 /\ used' = used + 1
  /\ pc0' = "poll_arm"
  /\ UNCHANGED <<armVars, msg, bank, count, shm, p1Evt, p0Evt, pru1Vars, hold, sync>>

(* Top of the loop: look at the ARM doorbell and clear it. *)
PollArm ==
  /\ pc0 = "poll_arm"
  /\ pc0' = IF armEvt THEN "receive" ELSE "poll_pru1"
  /\ armEvt' = FALSE
  /\ UNCHANGED <<toPru, kickOwed, channel, rxVars, msg, bank, count, shm, p1Evt, p0Evt,
                 pru1Vars, hold, sync>>

(* pru_rpmsg_receive found no buffer in vring1. *)
ReceiveNothing ==
  /\ pc0 = "receive" /\ toPru = <<>>
  /\ pc0' = "poll_pru1"
  /\ UNCHANGED <<armVars, rxVars, msg, bank, count, shm, p1Evt, p0Evt, pru1Vars,
                 hold, sync>>

(* Mutant: a short message stores all three words. *)
ReceiveStoresAll ==
  /\ pc0 = "receive" /\ toPru # <<>>
  /\ LET m == Head(toPru)
     IN  msg' = IF m.len = "long"
                THEN [timing |-> m.timing, mode |-> m.mode, start |-> m.start]
                ELSE [msg EXCEPT !.timing = "clobbered", !.start = m.start]
  /\ pc0' = "write_timing"
  /\ toPru' = Tail(toPru)
  /\ UNCHANGED <<kickOwed, armEvt, channel, rxVars, bank, count, shm, p1Evt, p0Evt,
                 pru1Vars, hold, sync>>

(***************************************************************************)
(* pru_rpmsg_receive delivers one message, however many are waiting.  A    *)
(* long one replaces msg_from_kernel.  A short one overwrites its first    *)
(* byte, which belongs to the timing words, and then only the start bit of *)
(* word 2 is changed: clearing masks everything but bit 0, the read mode.  *)
(***************************************************************************)
Receive ==
  /\ pc0 = "receive" /\ toPru # <<>>
  /\ LET m == Head(toPru)
     IN  IF m.len = "long"
         THEN /\ msg' = [timing |-> m.timing, mode |-> m.mode, start |-> m.start]
              /\ pc0' = "write_timing"
         ELSE /\ msg' = [msg EXCEPT !.timing = "clobbered", !.start = m.start]
              /\ pc0' = "write_misc"
  /\ toPru' = Tail(toPru)
  /\ UNCHANGED <<kickOwed, armEvt, channel, rxVars, bank, count, shm, p1Evt, p0Evt,
                 pru1Vars, hold, sync>>

(* Words 0 and 1 of the shared RAM, for a long message only. *)
WriteTiming ==
  /\ pc0 = "write_timing"
  /\ shm' = [shm EXCEPT !.timing = msg.timing]
  /\ pc0' = "write_misc"
  /\ UNCHANGED <<armVars, rxVars, msg, bank, count, p1Evt, p0Evt, pru1Vars, hold, sync>>

(* Word 2 of the shared RAM. *)
WriteMisc ==
  /\ pc0 = "write_misc"
  /\ shm' = [shm EXCEPT !.mode = msg.mode, !.start = msg.start]
  /\ pc0' = "tell_pru1"
  /\ UNCHANGED <<armVars, rxVars, msg, bank, count, p1Evt, p0Evt, pru1Vars, hold, sync>>

(* Mutant: a new request also starts a new large buffer. *)
TellPru1ResetsCounter ==
  /\ pc0 = "tell_pru1"
  /\ p1Evt' = TRUE
  /\ bank' = 0
  /\ count' = 0
  /\ sync' = FALSE
  /\ pc0' = "poll_pru1"
  /\ UNCHANGED <<armVars, rxVars, msg, shm, p0Evt, pru1Vars, hold>>

(* Ring INT_P0_to_P1 and go back to the first bank. *)
TellPru1 ==
  /\ pc0 = "tell_pru1"
  /\ p1Evt' = TRUE
  /\ bank' = 0
  /\ sync' = FALSE
  /\ pc0' = "poll_pru1"
  /\ UNCHANGED <<armVars, rxVars, msg, count, shm, p0Evt, pru1Vars, hold>>

(* Mutant: both events are cleared. *)
PollPru1ClearsAll ==
  /\ pc0 = "poll_pru1"
  /\ pc0' = IF p0Evt THEN "acquire" ELSE "poll_arm"
  /\ p0Evt' = FALSE /\ armEvt' = FALSE
  /\ UNCHANGED <<toPru, kickOwed, channel, rxVars, msg, bank, count, shm, p1Evt, pru1Vars,
                 hold, sync>>

(* Second half of the loop: look at the PRU1 doorbell and clear it. *)
PollPru1 ==
  /\ pc0 = "poll_pru1"
  /\ pc0' = IF p0Evt THEN "acquire" ELSE "poll_arm"
  /\ p0Evt' = FALSE
  /\ UNCHANGED <<armVars, rxVars, msg, bank, count, shm, p1Evt, pru1Vars, hold, sync>>

(* The bank the next __xin reads. *)
ReadBank == IF msg.mode = "raw" THEN 0 ELSE bank

(* __xin from that bank; in block mode bank_to_use moves on. *)
Acquire ==
  /\ pc0 = "acquire"
  /\ hold' = [hold EXCEPT ![ReadBank] = "none"]
  /\ bank' = IF msg.mode = "raw" THEN bank ELSE NextBank(bank)
  /\ pc0' = "send"
  /\ UNCHANGED <<armVars, rxVars, msg, count, shm, p1Evt, p0Evt, pru1Vars, sync>>

(* pru_rpmsg_send: a buffer of its own for the sample, or the sample is    *)
(* dropped.                                                                *)
SendRaw ==
  /\ pc0 = "send" /\ msg.mode = "raw"
  /\ IF avail > 0
     THEN avail' = avail - 1 /\ used' = used + 1
     ELSE UNCHANGED rxVars
  /\ pc0' = "poll_arm"
  /\ UNCHANGED <<armVars, msg, bank, count, shm, p1Evt, p0Evt, pru1Vars, hold, sync>>

(* Mutant: every block, not only the first, needs a free buffer. *)
SendBlockAlwaysAsks ==
  /\ pc0 = "send" /\ msg.mode = "block"
  /\ IF avail = 0
     THEN UNCHANGED <<rxVars, count>>
     ELSE /\ avail' = IF count = 0 THEN avail - 1 ELSE avail
          /\ count' = IF count + 1 < BlocksPerMsg THEN count + 1 ELSE 0
          /\ used'  = IF count + 1 < BlocksPerMsg THEN used ELSE used + 1
  /\ pc0' = "poll_arm"
  /\ UNCHANGED <<armVars, msg, bank, shm, p1Evt, p0Evt, pru1Vars, hold, sync>>

(***************************************************************************)
(* pru_rpmsg_send_large_buffer: the first block takes a buffer (and is     *)
(* dropped when there is none), the last one hands it to the ARM.          *)
(***************************************************************************)
SendBlock ==
  /\ pc0 = "send" /\ msg.mode = "block"
  /\ IF count = 0 /\ avail = 0
     THEN UNCHANGED <<rxVars, count>>
     ELSE /\ avail' = IF count = 0 THEN avail - 1 ELSE avail
          /\ count' = IF count + 1 < BlocksPerMsg THEN count + 1 ELSE 0
          /\ used'  = IF count + 1 < BlocksPerMsg THEN used ELSE used + 1
  /\ pc0' = "poll_arm"
  /\ UNCHANGED <<armVars, msg, bank, shm, p1Evt, p0Evt, pru1Vars, hold, sync>>

--------------------------------------------------------------------------------
(***************************************************************************)
(* PRU1.                                                                   *)
(***************************************************************************)

(* Mutant: no CHECK_INT between the samples of a block. *)
TakeInterruptIdle ==
  /\ p1Evt
  /\ pc1 = "int_loop"
  /\ pc1' = "manage"
  /\ UNCHANGED <<armVars, rxVars, pru0Vars, shm, p1Evt, p0Evt, cfg, bank1, hold, sync>>

(* CHECK_INT and CHECK_INT_LOOP: the doorbell of PRU0 is pending and the   *)
(* core is at an instruction that looks at it.  The last sample for the    *)
(* last bank has no CHECK_INT.                                             *)
TakeInterrupt ==
  /\ p1Evt
  /\ \/ pc1 \in {"int_loop", "sample"}
     \/ pc1 = "last" /\ bank1 # NumBanks - 1
  /\ pc1' = "manage"
  /\ UNCHANGED <<armVars, rxVars, pru0Vars, shm, p1Evt, p0Evt, cfg, bank1, hold, sync>>

(* MANAGE_INTERRUPT clears the doorbell first ... *)
ClearInterrupt ==
  /\ pc1 = "manage"
  /\ p1Evt' = FALSE
  /\ pc1' = "load_timing"
  /\ UNCHANGED <<armVars, rxVars, pru0Vars, shm, p0Evt, cfg, bank1, hold, sync>>

(* ... then loads the three words, which PRU0 may be rewriting. *)
LoadTiming ==
  /\ pc1 = "load_timing"
  /\ cfg' = [cfg EXCEPT !.timing = shm.timing]
  /\ pc1' = "load_misc"
  /\ UNCHANGED <<armVars, rxVars, pru0Vars, shm, p1Evt, p0Evt, bank1, hold, sync>>

(* Mutant: the start bit is not looked at. *)
DispatchAlways(c) == IF c.mode = "raw" THEN "raw" ELSE "sample"

(* The program after the last word: one raw sample, a run of blocks that   *)
(* starts at the first bank, or back to waiting.                           *)
Dispatch(c) == IF c.mode = "raw" THEN "raw"
               ELSE IF c.start THEN "sample" ELSE "int_loop"

(* Mutant: the doorbell is cleared after the words are loaded. *)
LoadMiscThenClear ==
  /\ pc1 = "load_misc"
  /\ cfg' = [cfg EXCEPT !.mode = shm.mode, !.start = shm.start]
  /\ pc1' = Dispatch(shm)
  /\ p1Evt' = FALSE
  /\ bank1' = 0
  /\ hold' = [b \in Banks |-> "none"]
  /\ sync' = (~p1Evt /\ ~p0Evt /\ pc0 # "acquire" /\ bank = 0)
  /\ UNCHANGED <<armVars, rxVars, pru0Vars, shm, p0Evt>>

(* Mutant: a new run goes on with the bank the last one stopped at. *)
LoadMiscSameBank ==
  /\ pc1 = "load_misc"
  /\ cfg' = [cfg EXCEPT !.mode = shm.mode, !.start = shm.start]
  /\ pc1' = Dispatch(shm)
  /\ hold' = [b \in Banks |-> "none"]
  /\ sync' = (~p1Evt /\ ~p0Evt /\ pc0 # "acquire" /\ bank = 0)
  /\ UNCHANGED <<armVars, rxVars, pru0Vars, shm, p1Evt, p0Evt, bank1>>

(* What is left in the banks belongs to an earlier request.  The new one   *)
(* starts in step if nothing that could disturb it is on its way.          *)
LoadMisc ==
  /\ pc1 = "load_misc"
  /\ cfg' = [cfg EXCEPT !.mode = shm.mode, !.start = shm.start]
  /\ pc1' = Dispatch(shm)
  /\ bank1' = 0
  /\ hold' = [b \in Banks |-> "none"]
  /\ sync' = (~p1Evt /\ ~p0Evt /\ pc0 # "acquire" /\ bank = 0)
  /\ UNCHANGED <<armVars, rxVars, pru0Vars, shm, p1Evt, p0Evt>>

(* take_raw: one sample, transferred to the first bank. *)
TakeRaw ==
  /\ pc1 = "raw"
  /\ hold' = [hold EXCEPT ![0] = "raw"]
  /\ pc1' = "raw_tell"
  /\ UNCHANGED <<armVars, rxVars, pru0Vars, shm, p1Evt, p0Evt, cfg, bank1, sync>>

(* SAMPLE_CYCLE_8: all samples of a block but the last, no interrupt. *)
CollectBlock ==
  /\ pc1 = "sample" /\ ~p1Evt
  /\ pc1' = "last"
  /\ UNCHANGED <<armVars, rxVars, pru0Vars, shm, p1Evt, p0Evt, cfg, bank1, hold, sync>>

(* The last sample of the block. *)
CollectLast ==
  /\ pc1 = "last" /\ (bank1 = NumBanks - 1 \/ ~p1Evt)
  /\ pc1' = "xout"
  /\ UNCHANGED <<armVars, rxVars, pru0Vars, shm, p1Evt, p0Evt, cfg, bank1, hold, sync>>

(* TRANSFER_AND_TELL, first instruction: the block goes into the bank. *)
TransferBlock ==
  /\ pc1 = "xout"
  /\ hold' = [hold EXCEPT ![bank1] = "block"]
  /\ pc1' = "tell"
  /\ UNCHANGED <<armVars, rxVars, pru0Vars, shm, p1Evt, p0Evt, cfg, bank1, sync>>

(***************************************************************************)
(* TRANSFER_AND_TELL, second instruction: ring INT_P1_to_P0.  A doorbell   *)
(* that is still pending absorbs the new one.                              *)
(***************************************************************************)
TellPru0 ==
  /\ \/ pc1 = "raw_tell" /\ pc1' = "int_loop" /\ UNCHANGED bank1
     \/ pc1 = "tell" /\ pc1' = "sample" /\ bank1' = NextBank(bank1)
  /\ p0Evt' = TRUE
  /\ sync' = (sync /\ ~p0Evt)
  /\ UNCHANGED <<armVars, rxVars, pru0Vars, shm, p1Evt, cfg, hold>>

--------------------------------------------------------------------------------
Pru0Step == \/ Announce \/ PollArm \/ ReceiveNothing \/ Receive \/ WriteTiming \/ WriteMisc
            \/ TellPru1 \/ PollPru1 \/ Acquire \/ SendRaw \/ SendBlock

Pru1Step == \/ TakeInterrupt \/ ClearInterrupt \/ LoadTiming \/ LoadMisc \/ TakeRaw
            \/ CollectBlock \/ CollectLast \/ TransferBlock \/ TellPru0

Next == \/ \E m \in Messages : ArmSend(m)
        \/ ArmKick \/ ArmRecycle \/ Pru0Step \/ Pru1Step

Spec == Init /\ [][Next]_vars

(* Both cores execute instructions for ever, and the kernel finishes what  *)
(* it began: it rings after adding, it runs the callback for a used        *)
(* buffer.  Nothing makes it send.                                         *)
Fairness == /\ WF_vars(Pru0Step) /\ WF_vars(Pru1Step)
            /\ WF_vars(ArmKick) /\ WF_vars(ArmRecycle)

FairSpec == Spec /\ Fairness

--------------------------------------------------------------------------------
(***************************************************************************)
(* Properties.                                                             *)
(***************************************************************************)

(* The type invariant. *)
TypeOK ==
  /\ toPru \in Seq(Messages) /\ Len(toPru) <= MaxQueue
  /\ kickOwed \in BOOLEAN /\ armEvt \in BOOLEAN /\ channel \in BOOLEAN
  /\ avail \in 0 .. NumBufs /\ used \in 0 .. NumBufs
  /\ pc0 \in {"announce", "poll_arm", "receive", "write_timing", "write_misc", "tell_pru1",
              "poll_pru1", "acquire", "send"}
  /\ msg \in ConfigWords /\ shm \in ConfigWords /\ cfg \in ConfigWords
  /\ bank \in Banks /\ bank1 \in Banks
  /\ count \in 0 .. BlocksPerMsg - 1
  /\ p1Evt \in BOOLEAN /\ p0Evt \in BOOLEAN
  /\ pc1 \in {"int_loop", "manage", "load_timing", "load_misc", "raw", "raw_tell",
              "sample", "last", "xout", "tell"}
  /\ hold \in [Banks -> {"none", "raw", "block"}]
  /\ sync \in BOOLEAN

(* Every vring0 buffer is available, handed back, or the one large buffer  *)
(* PRU0 is filling: none is leaked or handed back twice, whatever is       *)
(* stopped, restarted or dropped in between.                               *)
BufferConservation == avail + used + (IF count > 0 THEN 1 ELSE 0) = NumBufs

(* No request is on its way from PRU0 to PRU1. *)
Settled == ~Updating /\ ~p1Evt /\ ~Loading

(* Once a request has settled, PRU1 works with exactly the words in the    *)
(* shared RAM, and these are the mode and the start bit of the last        *)
(* message, although PRU1 may load while PRU0 rewrites them for the next   *)
(* one: because PRU1 clears the doorbell before it loads.                  *)
ConfigAgreement ==
  Settled => cfg = shm /\ cfg.mode = msg.mode /\ cfg.start = msg.start

(* The byte of a short message, which lands on the timing words in         *)
(* msg_from_kernel, never reaches the shared RAM or PRU1.                  *)
TimingPreserved == shm.timing # "clobbered" /\ cfg.timing # "clobbered"

(* While the cores are in step (the run began with no doorbell under way   *)
(* and none was absorbed since) PRU0 reads unread data of the kind asked   *)
(* for: a fresh sample in raw mode, the next block in block mode.          *)
SyncedRead == sync /\ pc0 = "acquire" => hold[ReadBank] = msg.mode

(* ... and PRU1 never transfers a block into a bank PRU0 has still to      *)
(* read, although PRU0 may be a block behind: this is why there are three  *)
(* banks.                                                                  *)
SyncedWrite == sync /\ pc1 = "xout" => hold[bank1] = "none"

(* Why: the banks that hold unread blocks, and the one PRU1 fills next.    *)
Unread == IF p0Evt /\ pc0 = "acquire" THEN {bank, NextBank(bank)}
          ELSE IF p0Evt \/ pc0 = "acquire" THEN {bank} ELSE {}
Ahead  == IF p0Evt /\ pc0 = "acquire" THEN NextBank(NextBank(bank))
          ELSE IF p0Evt \/ pc0 = "acquire" THEN NextBank(bank) ELSE bank

(* In block mode the two cores' banks differ by the doorbells PRU0 has not *)
(* served, and unread data is exactly in the banks between them.           *)
BlocksInStep ==
  Sampling =>
    /\ cfg.mode = "block"
    /\ bank1 = Ahead
    /\ hold = [b \in Banks |->
                 IF b \in Unread \/ (pc1 = "tell" /\ b = bank1) THEN "block" ELSE "none"]

(* In raw mode there is at most one sample, and it is in the first bank    *)
(* whenever PRU0 has been told of it; in block mode a waiting PRU1 has     *)
(* left nothing to read.                                                   *)
RawInStep ==
  ~Sampling =>
    /\ pc1 # "int_loop" => cfg.mode = "raw" /\ Unread = {}
    /\ pc1 = "raw_tell" => hold[0] = "raw"
    /\ Unread # {} => cfg.mode = "raw" /\ hold[0] = "raw"
    /\ ~(p0Evt /\ pc0 = "acquire")

(* PRU0 has stored the message in the shared RAM. *)
Stored == pc0 \notin {"write_timing", "write_misc"} =>
            shm.mode = msg.mode /\ shm.start = msg.start

(* The inductive invariant behind SyncedRead and SyncedWrite.              *)
InStep ==
  /\ Stored
  /\ sync => /\ ~p1Evt /\ ~Loading
             /\ ~Updating => msg.mode = cfg.mode
             /\ BlocksInStep /\ RawInStep

(* What the two cores promise the ARM, as one device: see ScopeFirmware.   *)
(* A message PRU0 has rung for or has still to ring for is pending until   *)
(* PRU1 has loaded it; what PRU1 loads is what the shared RAM holds.       *)
RequestIn(c) == [mode |-> c.mode, start |-> c.start]
Pending == ~Settled
Work == IF pc1 \in {"raw", "raw_tell"} THEN "raw" ELSE IF Sampling THEN "block" ELSE "idle"
Rings == IF armEvt /\ pc0 = "receive" THEN 2
         ELSE IF armEvt \/ pc0 = "receive" THEN 1 ELSE 0
Due   == IF p0Evt /\ pc0 \in {"acquire", "send"} THEN 2
         ELSE IF p0Evt \/ pc0 \in {"acquire", "send"} THEN 1 ELSE 0

(* The announcement counts as made: the device has no state before it. *)
Spare  == IF pc0 = "announce" THEN avail - 1 ELSE avail
Handed == IF pc0 = "announce" THEN used + 1 ELSE used

Contract == INSTANCE ScopeFirmware
  WITH inbox <- toPru, rings <- Rings, request <- RequestIn(msg), stored <- RequestIn(shm),
       pending <- Pending, work <- Work, due <- Due, avail <- Spare, used <- Handed

(* The handshakes between the cores, the banks and the words loaded one    *)
(* after the other add up to that device.                                  *)
ImplementsContract == Contract!Spec

(* PRU1 as it is here is the program PruSampler has cycle by cycle.        *)
Place   == IF pc1 \in {"load_timing", "load_misc"} THEN "load" ELSE pc1
RunBank == IF Sampling THEN bank1 ELSE 0
Program == INSTANCE Pru1Program
  WITH pc <- Place, bank <- RunBank, evt <- p1Evt, request <- RequestIn(cfg)

RunsProgram == Program!Spec

(* Every doorbell PRU0 rings is answered: PRU1 clears it, even in the      *)
(* middle of a run that would otherwise never end.                         *)
DoorbellServed == p1Evt ~> ~p1Evt

(* A request to stop that is not followed by another start ends the run.   *)
StopStops == <>[](shm.mode = "block" /\ ~shm.start) => <>[]~Sampling

(* Block mode is asked for and nothing else is under way. *)
Running == shm.mode = "block" /\ shm.start /\ toPru = <<>> /\ ~p1Evt

(* A run that is left alone delivers buffers to the ARM for ever, even     *)
(* when blocks are dropped for want of a buffer.                           *)
RunRuns == <>[]Running => []<>(used > 0)

(* A message is in vring1, its doorbell has been rung and consumed, and    *)
(* PRU0 is not about to receive it.                                        *)
Forgotten == toPru # <<>> /\ ~kickOwed /\ ~armEvt /\ pc0 # "receive"

(* Doorbells merge and PRU0 takes one message for each, so messages may be *)
(* left in vring1 (EveryMessageReceived does not hold): but never so many  *)
(* that vring1 is full and nobody is about to take one.  A call waiting in *)
(* rpmsg_send for a buffer is therefore never waiting for itself.          *)
FullRingServed ==
  Len(toPru) = MaxQueue => kickOwed \/ armEvt \/ pc0 = "receive"

(* PRU0 takes every message the ARM has rung for (the comment above the    *)
(* loop: on every INT_ARM_to_P0 the message is received and saved).        *)
EveryMessageReceived == []<>~Forgotten

(* Block mode: on every doorbell PRU0 reads a block of the run from        *)
(* bank_to_use (the comment above the second half of the loop).            *)
FreshBlock == pc0 = "acquire" /\ msg.mode = "block" => hold[ReadBank] = "block"

(* Raw mode: on every doorbell PRU0 reads the sample PRU1 took (same       *)
(* comment, and the definition of RAW_READ).                               *)
FreshRaw == pc0 = "acquire" /\ msg.mode = "raw" => hold[ReadBank] = "raw"

================================================================================
