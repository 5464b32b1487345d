--------------------------- MODULE BeaglescopeDriver ---------------------------
(***************************************************************************)
(* The BeagleScope kernel driver (beaglescope/beaglescope_driver.c) after  *)
(* probe, with the three kinds of callers that share its state without a   *)
(* lock: readers of the raw attribute, writers of the sampling frequency   *)
(* and the user of the IIO buffer; the rpmsg callback; and, as far as the  *)
(* driver can tell, the firmware behind the rpmsg channel.                 *)
(*                                                                         *)
(* Every access to beaglescope_state another caller can come between is a  *)
(* step: the |= of the enable bit loads and stores, and a message is       *)
(* copied word by word, each word as it is then.                           *)
(* Words 0 and 1 of pru_config hold a frequency each; they agree when one  *)
(* call of set_beaglescope_sampling_frequency wrote both.  The store one   *)
(* byte at a time to "enable bit" 31 bytes behind word 2 hits padding of   *)
(* the allocation and is left out; the |= 1<<31 after it sets the bit.     *)
(***************************************************************************)
EXTENDS Naturals, Sequences, FiniteSets

CONSTANTS
  Readers,      \* threads that read in_voltage0_raw
  BufferUsers,  \* the thread that enables and disables the buffer, or none
  Writers,      \* threads that write the sampling frequency
  Freqs,        \* frequencies they ask for
  Presets,      \* the one written before we look, or "unset"
  Overlap,      \* may a raw read overlap another call, or an enabled buffer?
  Faults,       \* what may go wrong: "send", "signal", "remove"
  NumBufs,      \* vring0 buffers: messages to the driver under way
  MaxQueue,     \* bound: vring1 buffers, messages to the firmware under way
  BlockLen,     \* samples in a block
  FifoLen,      \* samples the kfifo holds
  MaxSamples    \* bound: messages told apart; later ones get this number

ASSUME DriverAssumption ==
  /\ Readers \cap BufferUsers = {} /\ IsFiniteSet(Readers \cup BufferUsers)
  /\ "unset" \notin Freqs
  /\ Presets \subseteq Freqs \cup {"unset"}
  /\ Overlap \in BOOLEAN
  /\ Faults \subseteq {"send", "signal", "remove"}
  /\ {NumBufs, MaxQueue, BlockLen, FifoLen, MaxSamples} \subseteq Nat \ {0}

Modes  == {"raw", "block"}   \* BEAGLESCOPE_RAW_READ, BEAGLESCOPE_BLOCK_READ
Users  == Readers \cup BufferUsers
Timing == [between : Freqs \cup {"unset"}, halves : Freqs \cup {"unset"}]
Misc   == [mode : Modes, enable : BOOLEAN]

(* rpmsg messages: the configuration or the stop byte one way, a sample or *)
(* a block, numbered as sent, the other.                                   *)
Config == [len : {"long"}, timing : Timing, misc : Misc]
Stop   == [len |-> "short"]
Data   == [kind : Modes, n : 1 .. MaxSamples]

(* The u16 values in a message: a block, or the two halves of one word.    *)
Length(d) == IF d.kind = "raw" THEN 2 ELSE BlockLen

VARIABLES
  timing,     \* pru_config[0] and [1]
  misc,       \* pru_config[2]
  raw_data,   \* what the word in raw_data was the start of
  got_raw,
  reported,   \* sampling_frequency: the timing it was computed from
  pc,         \* where each user is in its call
  held,       \* what it has loaded of pru_config: a mode to store back,
              \* the timing words copied into its message
  wpc,        \* where each writer is in its call, and its locals
  active,     \* the IIO core passes pushed samples on to the kfifo
  fifo,
  cb,         \* the callback: where it is, its message, its count
  released,   \* beaglescope_driver_remove has run
  toPru,      \* messages in vring1
  doorbell,   \* the firmware's INT_ARM_to_P0 is pending
  pruMode,    \* the firmware's read mode
  work,       \* what PRU1 is at: nothing, a raw sample, block after block,
              \* or a block with a delay that will not end, or in that delay
  fromPru,    \* messages in vring0
  next,       \* number of the next message of the firmware
  answered,   \* history: readers whose read has seen the callback save data
  overlapped, \* history: users preparing a configuration another one's call fell into
  clash,      \* history: frequency writes have overlapped, and none was alone since
  unsaved,    \* history: users whose send began before a frequency was ever saved
  early       \* history: one of them asked for block mode

stVars  == <<timing, misc, raw_data, got_raw, reported>>
iioVars == <<active, fifo>>
pruVars == <<pruMode, work, fromPru, next>>
history == <<overlapped, clash, unsaved, early>>
vars == <<stVars, pc, held, wpc, iioVars, cb, released, toPru, doorbell, pruVars,
          answered, history>>

Counts(f)  == [between |-> f, halves |-> f]
NoCallback == [at |-> "idle", msg |-> [kind |-> "raw", n |-> 1], count |-> 0]
NothingHeld == [mode |-> "raw", timing |-> Counts("unset")]
NotWriting == [at |-> "idle", freq |-> "unset", result |-> Counts("unset")]

(* Probe has run: the state is zeroed, nothing was sent.  A frequency may  *)
(* have been written.                                                      *)
Init ==
  /\ \E f \in Presets : timing = Counts(f) /\ reported = Counts(f)
  /\ misc = [mode |-> "raw", enable |-> FALSE]
  /\ raw_data = "unset" /\ got_raw = FALSE
  /\ pc = [u \in Users |-> "idle"] /\ held = [u \in Users |-> NothingHeld]
  /\ wpc = [w \in Writers |-> NotWriting]
  /\ active = FALSE /\ fifo = <<>>
  /\ cb = NoCallback
  /\ released = FALSE
  /\ toPru = <<>> /\ doorbell = FALSE
  /\ pruMode = "raw" /\ work = "idle" /\ fromPru = <<>> /\ next = 1
  /\ answered = {} /\ overlapped = {} /\ clash = FALSE /\ unsaved = {} /\ early = FALSE

--------------------------------------------------------------------------------
(***************************************************************************)
(* Raw reads and postenable: set_beaglescope_read_mode, then               *)
(* beaglescope_read_from_pru.  Neither the attribute nor the IIO core      *)
(* holds a lock across a raw read.                                         *)
(***************************************************************************)
Goto(u, l) == pc' = [pc EXCEPT ![u] = l]

(* The discipline of callers that know better than the driver. *)
Turn(u) ==
  Overlap \/ /\ \A v \in Users \ {u} : pc[v] = "idle"
             /\ u \in Readers => ~active

(* Users between their first store to word 2 and their last look at it.    *)
Preparing ==
  {u \in Users : pc[u] \in {"mode", "enable", "or", "send", "copy", "post", "check"}}

(* Both begin by clearing word 2, which is read mode RAW. *)
ClearMisc(u) ==
  /\ misc' = [mode |-> "raw", enable |-> FALSE]
  /\ Goto(u, "mode")
  /\ overlapped' = IF Preparing = {} THEN {} ELSE Preparing \cup {u}
  /\ UNCHANGED <<clash, unsaved, early>>

(* beaglescope_read_raw with IIO_CHAN_INFO_RAW. *)
ReadRaw(r) ==
  /\ pc[r] = "idle" /\ Turn(r)
  /\ ClearMisc(r)
  /\ UNCHANGED <<timing, raw_data, got_raw, reported, held, wpc, iioVars, cb, released,
                 toPru, doorbell, pruVars, answered>>

(* Mutant: all three words are cleared. *)
EnableBufferClearsAll(b) ==
  /\ pc[b] = "idle" /\ ~active /\ ~released /\ Turn(b)
  /\ active' = TRUE
  /\ ClearMisc(b)
  /\ timing' = Counts("unset")
  /\ UNCHANGED <<raw_data, got_raw, reported, held, wpc, fifo, cb, released,
                 toPru, doorbell, pruVars, answered>>

(* The IIO core activates the buffer and calls postenable. *)
EnableBuffer(b) ==
  /\ pc[b] = "idle" /\ ~active /\ ~released /\ Turn(b)
  /\ active' = TRUE
  /\ ClearMisc(b)
  /\ UNCHANGED <<timing, raw_data, got_raw, reported, held, wpc, fifo, cb, released,
                 toPru, doorbell, pruVars, answered>>

(* The mode is stored into the low byte ... *)
StoreMode(u) ==
  /\ pc[u] = "mode"
  /\ misc' = [misc EXCEPT !.mode = IF u \in Readers THEN "raw" ELSE "block"]
  /\ Goto(u, "enable")
  /\ UNCHANGED <<timing, raw_data, got_raw, reported, held, wpc, iioVars, cb, released,
                 toPru, doorbell, pruVars, answered, history>>

(* ... and the enable bit is set, by a load of the word ... *)
LoadMisc(u) ==
  /\ pc[u] = "enable"
  /\ held' = [held EXCEPT ![u].mode = misc.mode]
  /\ Goto(u, "or")
  /\ UNCHANGED <<stVars, wpc, iioVars, cb, released, toPru, doorbell, pruVars, answered,
                 history>>

(* Mutant: only the byte behind word 2 is stored. *)
StoreEnableBehind(u) ==
  /\ pc[u] = "or"
  /\ held' = [held EXCEPT ![u] = NothingHeld]
  /\ Goto(u, "send")
  /\ UNCHANGED <<stVars, wpc, iioVars, cb, released, toPru, doorbell, pruVars, answered,
                 history>>

(* ... and its store, which undoes what others have stored in between.     *)
StoreEnable(u) ==
  /\ pc[u] = "or"
  /\ misc' = [mode |-> held[u].mode, enable |-> TRUE]
  /\ held' = [held EXCEPT ![u] = NothingHeld]
  /\ Goto(u, "send")
  /\ UNCHANGED <<timing, raw_data, got_raw, reported, wpc, iioVars, cb, released,
                 toPru, doorbell, pruVars, answered, history>>

(* rpmsg_send takes a vring1 buffer, waiting for one the firmware hands    *)
(* back, copies the message into it, puts it into vring1 and rings.  A     *)
(* ring without a free buffer has a doorbell under way, or a caller that   *)
(* is about to ring (see FullRingServed in PruFirmware).                   *)
Copying == {u \in Users : pc[u] \in {"copy", "post"}}
Taken   == Len(toPru) + Cardinality(Copying)

Post(m) == toPru' = Append(toPru, m) /\ doorbell' = TRUE

(***************************************************************************)
(* beaglescope_read_from_pru sends pru_config, one word after the other as *)
(* it is when that word is copied.  st->rpdev is never reset, so the check *)
(* before it passes even when the channel is released; st is freed memory  *)
(* then, of which this is what an allocator that has not reused it yet     *)
(* shows.  An error of the send is only logged.                            *)
(***************************************************************************)
SendConfig(u) ==
  /\ pc[u] = "send"
  /\ \/ /\ Taken < MaxQueue
        /\ held' = [held EXCEPT ![u].timing.between = timing.between]
        /\ unsaved' = IF "unset" \in {reported.between, reported.halves}
                      THEN unsaved \cup {u} ELSE unsaved
        /\ Goto(u, "copy")
     \/ /\ "send" \in Faults
        /\ Goto(u, "check")
        /\ UNCHANGED <<held, unsaved>>
  /\ UNCHANGED <<stVars, wpc, iioVars, cb, released, toPru, doorbell, pruVars, answered,
                 overlapped, clash, early>>

CopyHalves(u) ==
  /\ pc[u] = "copy"
  /\ held' = [held EXCEPT ![u].timing.halves = timing.halves]
  /\ Goto(u, "post")
  /\ UNCHANGED <<stVars, wpc, iioVars, cb, released, toPru, doorbell, pruVars, answered,
                 history>>

PostConfig(u) ==
  /\ pc[u] = "post"
  /\ Post([len |-> "long", timing |-> held[u].timing, misc |-> misc])
  /\ held' = [held EXCEPT ![u] = NothingHeld]
  /\ Goto(u, "check")
  /\ early' = (early \/ (misc.mode = "block" /\ u \in unsaved))
  /\ unsaved' = unsaved \ {u}
  /\ UNCHANGED <<stVars, wpc, iioVars, cb, released, pruVars, answered, overlapped, clash>>

(* Whether to wait is decided by the mode in the shared state. *)
CheckMode(u) ==
  /\ pc[u] = "check"
  /\ Goto(u, IF misc.mode = "raw" THEN "wait" ELSE "done")
  /\ overlapped' = overlapped \ {u}
  /\ UNCHANGED <<stVars, held, wpc, iioVars, cb, released, toPru, doorbell, pruVars,
                 answered, clash, unsaved, early>>

(* wait_event_interruptible: the condition is evaluated after the thread   *)
(* has put itself on the wait list.                                        *)
WaitRaw(u) ==
  /\ pc[u] = "wait"
  /\ Goto(u, IF got_raw THEN "done" ELSE "asleep")
  /\ UNCHANGED <<stVars, held, wpc, iioVars, cb, released, toPru, doorbell, pruVars,
                 answered, history>>

(* Mutant: what wait_event_interruptible returns is not looked at. *)
InterruptIgnored(u) ==
  /\ "signal" \in Faults
  /\ pc[u] = "asleep"
  /\ Goto(u, "done")
  /\ UNCHANGED <<stVars, held, wpc, iioVars, cb, released, toPru, doorbell, pruVars,
                 answered, history>>

(* A signal: the read fails; a postenable that fails makes the IIO core    *)
(* deactivate the buffer.                                                  *)
Interrupt(u) ==
  /\ "signal" \in Faults
  /\ pc[u] = "asleep"
  /\ Goto(u, "idle")
  /\ active' = (active /\ u \in Readers)
  /\ answered' = answered \ {u}
  /\ UNCHANGED <<stVars, held, wpc, fifo, cb, released, toPru, doorbell, pruVars,
                 history>>

(* The call returns, a raw read with raw_data. *)
Return(u) ==
  /\ pc[u] = "done"
  /\ Goto(u, "idle")
  /\ answered' = answered \ {u}
  /\ UNCHANGED <<stVars, held, wpc, iioVars, cb, released, toPru, doorbell, pruVars,
                 history>>

--------------------------------------------------------------------------------
(* Mutant: the buffer is deactivated, the stop byte never sent. *)
StopSamplingSilently(b) ==
  /\ pc[b] = "idle" /\ active /\ Turn(b)
  /\ Goto(b, "disable")
  /\ UNCHANGED <<stVars, held, wpc, iioVars, cb, released, toPru, doorbell, pruVars,
                 answered, history>>

(* beaglescope_buffer_predisable: send the stop byte ... *)
StopSampling(b) ==
  /\ pc[b] = "idle" /\ active /\ Turn(b)
  /\ \/ Taken < MaxQueue /\ Post(Stop)
     \/ "send" \in Faults /\ UNCHANGED <<toPru, doorbell>>
  /\ Goto(b, "disable")
  /\ UNCHANGED <<stVars, held, wpc, iioVars, cb, released, pruVars, answered, history>>

(* ... upon which the IIO core deactivates the buffer, error or not. *)
Deactivate(b) ==
  /\ pc[b] = "disable"
  /\ active' = FALSE
  /\ Goto(b, "idle")
  /\ UNCHANGED <<stVars, held, wpc, fifo, cb, released, toPru, doorbell, pruVars,
                 answered, history>>

(* A user process takes a sample out of the kfifo. *)
UserRead ==
  /\ fifo # <<>>
  /\ fifo' = Tail(fifo)
  /\ UNCHANGED <<stVars, pc, held, wpc, active, cb, released, toPru, doorbell, pruVars,
                 answered, history>>

--------------------------------------------------------------------------------
(***************************************************************************)
(* set_beaglescope_sampling_frequency: word 0, the halves of word 1 (and   *)
(* with them the last use of its argument), the frequency computed back    *)
(* from the words as they are then, its store.                             *)
(***************************************************************************)
WriteFreq(w, f) ==
  /\ wpc[w].at = "idle"
  /\ timing' = [timing EXCEPT !.between = f]
  /\ wpc' = [wpc EXCEPT ![w].at = "halves", ![w].freq = f]
  /\ clash' = (\E v \in Writers \ {w} : wpc[v].at # "idle")
  /\ UNCHANGED <<misc, raw_data, got_raw, reported, pc, held, iioVars, cb, released,
                 toPru, doorbell, pruVars, answered, overlapped, unsaved, early>>

StoreHalves(w) ==
  /\ wpc[w].at = "halves"
  /\ timing' = [timing EXCEPT !.halves = wpc[w].freq]
  /\ wpc' = [wpc EXCEPT ![w].at = "compute", ![w].freq = "unset"]
  /\ UNCHANGED <<misc, raw_data, got_raw, reported, pc, held, iioVars, cb, released,
                 toPru, doorbell, pruVars, answered, history>>

Compute(w) ==
  /\ wpc[w].at = "compute"
  /\ wpc' = [wpc EXCEPT ![w].at = "save", ![w].result = timing]
  /\ UNCHANGED <<stVars, pc, held, iioVars, cb, released, toPru, doorbell, pruVars,
                 answered, history>>

Save(w) ==
  /\ wpc[w].at = "save"
  /\ reported' = wpc[w].result
  /\ wpc' = [wpc EXCEPT ![w] = NotWriting]
  /\ UNCHANGED <<timing, misc, raw_data, got_raw, pc, held, iioVars, cb, released,
                 toPru, doorbell, pruVars, answered, history>>

--------------------------------------------------------------------------------
(***************************************************************************)
(* beaglescope_driver_cb, run by the rpmsg bus for one message at a time.  *)
(***************************************************************************)

(* What to do with the message is decided by the mode in the shared state. *)
CbStart ==
  /\ cb.at = "idle" /\ fromPru # <<>> /\ ~released
  /\ cb' = [at |-> IF misc.mode = "raw" THEN "store" ELSE "push",
            msg |-> Head(fromPru), count |-> 0]
  /\ fromPru' = Tail(fromPru)
  /\ UNCHANGED <<stVars, pc, held, wpc, iioVars, released, toPru, doorbell, pruMode, work,
                 next, answered, history>>

CbRaw(from, to) == cb.at = from /\ cb' = [cb EXCEPT !.at = to]

(* raw_data: the first word of the message, whatever it is. *)
CbStore ==
  /\ CbRaw("store", "flag")
  /\ raw_data' = cb.msg.kind
  /\ answered' = {r \in Readers : pc[r] # "idle"}
  /\ UNCHANGED <<timing, misc, got_raw, reported, pc, held, wpc, iioVars, released,
                 toPru, doorbell, pruVars, history>>

(* Mutant: nobody is woken. *)
CbFlagNoWake ==
  /\ CbRaw("flag", "return")
  /\ got_raw' = TRUE
  /\ UNCHANGED <<timing, misc, raw_data, reported, pc, held, wpc, iioVars, released,
                 toPru, doorbell, pruVars, answered, history>>

(* got_raw, which nothing ever resets. *)
CbFlag ==
  /\ CbRaw("flag", "wake")
  /\ got_raw' = TRUE
  /\ UNCHANGED <<timing, misc, raw_data, reported, pc, held, wpc, iioVars, released,
                 toPru, doorbell, pruVars, answered, history>>

(* wake_up_interruptible. *)
CbWake ==
  /\ CbRaw("wake", "return")
  /\ pc' = [u \in Users |-> IF pc[u] = "asleep" THEN "wait" ELSE pc[u]]
  /\ UNCHANGED <<stVars, held, wpc, iioVars, released, toPru, doorbell, pruVars,
                 answered, history>>

(* Mutant: always the first value of the message. *)
CbPushFirst ==
  /\ cb.at = "push"
  /\ cb' = [cb EXCEPT !.count = cb.count + 1,
                      !.at = IF cb.count + 1 < Length(cb.msg) THEN "push" ELSE "return"]
  /\ fifo' = IF active /\ Len(fifo) < FifoLen
             THEN Append(fifo, <<cb.msg.n, 0>>) ELSE fifo
  /\ UNCHANGED <<stVars, pc, held, wpc, active, released, toPru, doorbell, pruVars,
                 answered, history>>

(* iio_push_to_buffers: one u16 after the other, dropped when no buffer is *)
(* active or the kfifo is full.                                            *)
CbPush ==
  /\ cb.at = "push"
  /\ cb' = [cb EXCEPT !.count = cb.count + 1,
                      !.at = IF cb.count + 1 < Length(cb.msg) THEN "push" ELSE "return"]
  /\ fifo' = IF active /\ Len(fifo) < FifoLen
             THEN Append(fifo, <<cb.msg.n, cb.count>>) ELSE fifo
  /\ UNCHANGED <<stVars, pc, held, wpc, active, released, toPru, doorbell, pruVars,
                 answered, history>>

(* The rpmsg bus recycles the vring0 buffer and rings the firmware. *)
CbReturn ==
  /\ cb.at = "return" /\ cb' = NoCallback
  /\ doorbell' = TRUE
  /\ UNCHANGED <<stVars, pc, held, wpc, iioVars, released, toPru, pruVars, answered,
                 history>>

(* beaglescope_driver_remove, and the end of the rpmsg endpoint: the state *)
(* is freed, its sysfs attributes stay.                                    *)
Remove ==
  /\ "remove" \in Faults /\ ~released
  /\ released' = TRUE
  /\ UNCHANGED <<stVars, pc, held, wpc, iioVars, cb, toPru, doorbell, pruVars,
                 answered, history>>

--------------------------------------------------------------------------------
(***************************************************************************)
(* The firmware, as one: PruFirmware with its cores' doorbells served at   *)
(* once.                                                                   *)
(***************************************************************************)

(* One message for each doorbell of the ARM.  The stop byte clears the     *)
(* start bit and leaves the read mode alone, and in raw mode the start bit *)
(* is not looked at.  A core that is hung never loads the message.         *)
PruReceive ==
  /\ doorbell
  /\ doorbell' = FALSE
  /\ IF toPru = <<>>
     THEN UNCHANGED <<toPru, pruMode, work>>
     ELSE LET m == Head(toPru)
              start == m.len = "long" /\ m.misc.enable
          IN  /\ pruMode' = IF m.len = "long" THEN m.misc.mode ELSE pruMode
              /\ work' = IF work = "hung" THEN "hung"
                         ELSE IF pruMode' = "raw" THEN "raw"
                         ELSE IF ~start THEN "idle"
                         ELSE IF "unset" \in {m.timing.between, m.timing.halves}
                              THEN "endless" ELSE "block"
              /\ toPru' = Tail(toPru)
  /\ UNCHANGED <<stVars, pc, held, wpc, iioVars, cb, released, fromPru, next,
                 answered, history>>

(* Mutant: pru_virtqueue_get_avail_buf's error is not looked at. *)
PruSendUnchecked ==
  /\ work \in Modes
  /\ work' = IF work = "raw" THEN "idle" ELSE work
  /\ fromPru' = Append(fromPru, [kind |-> work, n |-> next])
  /\ next' = IF next < MaxSamples THEN next + 1 ELSE next
  /\ UNCHANGED <<stVars, pc, held, wpc, iioVars, cb, released, toPru, doorbell, pruMode,
                 answered, history>>

(* A sample, or a block and on to the next one; without a vring0 buffer it *)
(* is dropped.                                                             *)
PruSend ==
  /\ work \in Modes
  /\ work' = IF work = "raw" THEN "idle" ELSE work
  /\ IF Len(fromPru) + (IF cb.at = "idle" THEN 0 ELSE 1) < NumBufs
     THEN /\ fromPru' = Append(fromPru, [kind |-> work, n |-> next])
          /\ next' = IF next < MaxSamples THEN next + 1 ELSE next
     ELSE UNCHANGED <<fromPru, next>>
  /\ UNCHANGED <<stVars, pc, held, wpc, iioVars, cb, released, toPru, doorbell, pruMode,
                 answered, history>>

--------------------------------------------------------------------------------
(* The first sample takes PRU1 into THE_DELAY with a count of zero, which  *)
(* counts down by two from an odd number and looks for zero.               *)
PruHang ==
  /\ work = "endless"
  /\ work' = "hung"
  /\ UNCHANGED <<stVars, pc, held, wpc, iioVars, cb, released, toPru, doorbell, pruMode,
                 fromPru, next, answered, history>>

(* A call of a user goes on. *)
Continue(u) == \/ StoreMode(u) \/ LoadMisc(u) \/ StoreEnable(u) \/ SendConfig(u)
               \/ CopyHalves(u) \/ PostConfig(u) \/ CheckMode(u) \/ WaitRaw(u)
               \/ Return(u) \/ Deactivate(u)

Callback == CbStart \/ CbStore \/ CbFlag \/ CbWake \/ CbPush \/ CbReturn

Next == \/ \E r \in Readers : ReadRaw(r)
        \/ \E b \in BufferUsers : EnableBuffer(b) \/ StopSampling(b)
        \/ \E u \in Users : Continue(u) \/ Interrupt(u)
        \/ \E w \in Writers : \/ \E f \in Freqs : WriteFreq(w, f)
                               \/ StoreHalves(w) \/ Compute(w) \/ Save(w)
        \/ UserRead \/ Callback \/ Remove
        \/ PruReceive \/ PruSend \/ PruHang

Spec == Init /\ [][Next]_vars

(* A call that has begun is scheduled until it sleeps or returns, and one  *)
(* that competes for a vring1 buffer gets one in the end; the bus runs the *)
(* callback for a message that has arrived, and the firmware never stops   *)
(* executing.  Nobody has to begin a call, or drain the kfifo.             *)
Fairness == /\ \A u \in Users : WF_vars(Continue(u)) /\ SF_vars(SendConfig(u))
            /\ WF_vars(Callback)
            /\ WF_vars(PruReceive) /\ WF_vars(PruSend)

FairSpec == Spec /\ Fairness

--------------------------------------------------------------------------------
(***************************************************************************)
(* Properties.                                                             *)
(***************************************************************************)

(* The type invariant. *)
TypeOK ==
  /\ timing \in Timing /\ reported \in Timing /\ misc \in Misc
  /\ raw_data \in Modes \cup {"unset"} /\ got_raw \in BOOLEAN
  /\ pc \in [Users -> {"idle", "mode", "enable", "or", "send", "copy", "post", "check",
                       "wait", "asleep", "done", "disable"}]
  /\ held \in [Users -> [mode : Modes, timing : Timing]]
  /\ wpc \in [Writers -> [at : {"idle", "halves", "compute", "save"},
                          freq : Freqs \cup {"unset"}, result : Timing]]
  /\ active \in BOOLEAN
  /\ fifo \in Seq((1 .. MaxSamples) \X Nat) /\ Len(fifo) <= FifoLen
  /\ cb \in [at : {"idle", "store", "flag", "wake", "push", "return"},
             msg : Data, count : Nat]
  /\ released \in BOOLEAN /\ doorbell \in BOOLEAN
  /\ toPru \in Seq(Config \cup {Stop}) /\ Taken <= MaxQueue
  /\ pruMode \in Modes /\ work \in Modes \cup {"idle", "endless", "hung"}
  /\ fromPru \in Seq(Data) /\ Len(fromPru) <= NumBufs
  /\ next \in 1 .. MaxSamples
  /\ answered \subseteq Readers /\ overlapped \subseteq Users
  /\ clash \in BOOLEAN /\ unsaved \subseteq Users /\ early \in BOOLEAN

(* What the user finds in the kfifo is in the order it was sampled in and  *)
(* without repetition, whatever was dropped: across calls that stop and    *)
(* start the buffer, messages of the wrong kind and a kfifo that is full.  *)
(* (Messages from MaxSamples on have the same number.)                     *)
Before(s, t) == \/ s[1] < t[1]
                \/ s[1] = t[1] /\ (s[1] = MaxSamples \/ s[2] < t[2])
FifoInOrder == \A i \in 1 .. Len(fifo) - 1 : Before(fifo[i], fifo[i + 1])

(* A call sleeps on the wait list only as long as nothing has set got_raw, *)
(* or the callback that has is about to wake it.                           *)
NoLostWakeup == \A u \in Users : pc[u] = "asleep" /\ got_raw => cb.at = "wake"

(* A call that nobody else's falls into sends, and then looks at, its own  *)
(* configuration: the mode it asks for with the enable bit.  Readers and   *)
(* the buffer user store to one word, one after the other.                 *)
PreparedAlone ==
  \A u \in Preparing \ overlapped :
    pc[u] \in {"send", "copy", "post", "check"} =>
      misc = [mode |-> IF u \in Readers THEN "raw" ELSE "block", enable |-> TRUE]

(* Interleaved frequency writes may leave words of two frequencies, and    *)
(* report a third (ReportedIsConfigured does not hold).  The next one that *)
(* no other overlaps mends it.                                             *)
LoneWrite ==
  ~clash /\ (\A w \in Writers : wpc[w].at = "idle") =>
    timing.between = timing.halves /\ reported = timing

(* PRU1 hangs in a delay only if block mode was asked for by a send that   *)
(* had begun before the first frequency write returned, whatever other     *)
(* calls were doing, and whatever was stored while the message was copied. *)
HungEarly == work \in {"endless", "hung"} => early

(* A raw read returns a sample: neither memory that was never written nor  *)
(* the beginning of a block.                                               *)
RawReadIsRaw == \A r \in Readers : pc[r] = "done" => raw_data = "raw"

(* A raw read that has begun returns. *)
RawReadReturns == \A r \in Readers : pc[r] = "mode" ~> pc[r] = "idle"

(* Once the buffer is disabled for good the firmware stops sampling, even  *)
(* if it was disabled before the firmware had heard that it was enabled.   *)
(* (Without counts it hangs instead, which is no sampling either.)         *)
StopsAfterDisable == <>[]~active => <>[](work # "block")

(* The comment above beaglescope_read_from_pru: a raw read "returns only   *)
(* after the data from the callback has been saved into the raw_data       *)
(* field".                                                                 *)
RawReadAnswered == \A r \in Readers : pc[r] = "done" => r \in answered

(* Same comment: what is sent is the configuration "prepared by call to    *)
(* set_beaglescope_sampling_frequency() and set_pru_read_mode()".          *)
ConfigPrepared ==
  \A i \in 1 .. Len(toPru) :
    toPru[i].len = "long" => /\ toPru[i].timing.between = toPru[i].timing.halves
                             /\ toPru[i].misc.enable

(* The comment above set_beaglescope_sampling_frequency: the frequency     *)
(* saved is that of the resultant configuration value.                     *)
ReportedIsConfigured == (\A w \in Writers : wpc[w].at = "idle") => reported = timing

(* The same comment: the three counts "need to be odd (this is PRU's       *)
(* requirement)".  PRU1 never waits for a count that is not.               *)
NeverHangs == work # "hung"

(* The comment above beaglescope_read_from_pru: "If it has been released,  *)
(* the driver would return with an error", so nothing is sent.             *)
NothingSentReleased == [][released => Len(toPru') <= Len(toPru)]_vars

================================================================================
