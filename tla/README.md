# BeagleScope in TLA+

BeagleScope makes an oscilloscope out of a BeagleBone: PRU1 clocks an ADC and
samples it, PRU0 moves the samples to Linux over an rpmsg channel, a kernel
driver hands them to user space through IIO.  Beside them the repository has a
bus for parallel interfaces and an example device.  This directory holds a formal
model of all of these: TLA+ modules, the configurations TLC checks them with, and
theorems with proofs checked by TLAPS.  Source paths below are relative to the
repository.  `PROJECT.json` has the line by line map from definitions to source,
the runs, the mutants, the findings, the hazards and the theorems.

## 1. The system

```
  user ── IIO core ── beaglescope_driver.c ── rpmsg bus ── vring0/vring1 ── PRU0 ── shared RAM ──> PRU1 ── ADC
                       (kernel, ARM)            (kernel)    + doorbells        └── scratch pad banks <──┘
```

| component | source | state it keeps | operations | correct when |
|---|---|---|---|---|
| PRU0 firmware | `firmware/main_pru0.c`, `common_pru_defs.h` | last control message, bank to read next, large buffer under construction | announce the channel; receive a control message and pass it on; on PRU1's doorbell read a bank and send it | no receive buffer is lost; the bank read is the one PRU1 filled; PRU1 gets the last message whole |
| PRU1 firmware | `firmware/main_pru1_def.asm`, `main_pru1.c` | configuration registers, block under construction, bank, clock pin | one raw sample; block after block; doorbell check between samples | the sampling clock never stutters; delays are exact; a doorbell ends a run promptly |
| virtqueue library | `examples/lib/src/rpmsg_lib/pru_virtqueue.c` | index of the last buffer taken; the rings in shared memory | take an available buffer, hand a used one back | every buffer has one owner; first in, first out |
| rpmsg library | `examples/lib/src/rpmsg_lib/pru_rpmsg.c` | none of its own | announce, receive, send | a message is sent whole or not at all |
| kernel driver | `beaglescope/beaglescope_driver.c` | `pru_config`, `raw_data`, `got_raw`, frequency, wait queue | raw read, buffer on and off, frequency write, rpmsg callback, probe, remove | a raw read returns its own sample; the buffer's data is in order; what is off stops; nobody sleeps for ever |
| frequency arithmetic | same file, `set_beaglescope_sampling_frequency` | none | frequency to three cycle counts and back | counts odd; their sum is the period; monotonic |
| parallel interface bus | `driver/pi-bus.c`, `parallel_interface.c`, `dc782a.c` | a host device, its children and their drivers, OF flags | channel up and down; register and unregister host and children; match, probe, remove; load and unload a driver | flags follow devices; a device with a driver has been probed; what fails is noticed |
| n-blinky example | `examples/kernel_examples/n-blinky` | `dev_lock`, `buf_lock`, one static buffer; the firmware's vring | open, write, release, callback, probe, remove; receive and echo | one owner; one message under way; a locked buffer is unlocked |
| firmware examples | `examples/firmware_exmples` | next to none | pin loops | - |
| headers, resource tables, build, device tree, docs | `examples/include`, `*.cmd`, `dtc`, `docs` | none | - | - |

How they interact: the ARM and PRU0 share two vrings and one system event each
way; PRU0 and PRU1 share three words of RAM, three scratch pad banks and one
system event each way.  A system event is a flag, not a counter: two doorbells
before the other side looks are one.  The driver's callers (sysfs readers and
writers, the buffer user) and the rpmsg callback share `beaglescope_state`
without a lock.  On the bus, the thread that binds the channel (and registers
the children) meets the one that loads a driver (and walks the children); what
they share is `dev->driver`, which the bus's match stores without the device's
lock.  In n-blinky, processes, the callback and the firmware meet on two flags
that are tested and set in separate steps.

What is hard here: merged doorbells; a doorbell that belongs to an earlier
request; configuration words stored and loaded one at a time by two cores; a
rotation of banks with nothing but timing between writer and reader; ring
indices of two widths; a callback that interprets a message by the mode set
*now*; `got_raw` and the wait queue; a channel that goes away under a call;
truncations in the frequency arithmetic; hand-counted cycles in the assembly; a
match with a side effect; flags used as locks.

## 2. The plan

In the order written, with what each was for:

1. `PruFirmware` - both cores, the heart of the system; its proofs.
2. `PruSampler` - PRU1 again, instruction by instruction; its proofs.
3. `PruVirtqueue` and the abstract `BufferLoan` it implements; its proofs.
4. `BeaglescopeDriver` - the driver and its callers; its proofs.
5. `SamplingFrequency` - the arithmetic; its proofs.
6. `ScopeFirmware` - the two cores as the one device the ARM knows, which
   `PruFirmware` implements: the interface at which firmware and driver compose.
7. `NBlinky` - the example's two flags under concurrent opens, writes, closes
   and late echoes, with its firmware at the other end; its proofs.
8. `PiBus` - host, children and a driver of the bus, with a failure at every
   step; its proofs.
9. `Pru1Program` - the control flow of PRU1, which both `PruSampler` and
   `PruFirmware` implement: what is proved of cycles and what is proved of the
   two cores is about one program.

What could still be done: `BeaglescopeDriver` over the variables of
`ScopeFirmware` itself instead of a coarser copy of it, which needs an instance
beyond TLC in a few minutes.  In the meantime `SafeWithAnyFirmware` says which of
the driver's properties do not depend on that copy.

## 3. The modules

### PruFirmware (`MCPruFirmware`, `PruFirmwareProofs`)

PRU0 is `main` from the moment the device is up: `Announce` is the call of
`pru_rpmsg_channel` that finds a buffer, the rest the loop.  The announcement
comes back like any receive buffer, and only then (`channel`) is there a driver
that sends.  The kick for the receive buffers is still owed at the start, so
that PRU0's first receive may find nothing.  PRU1 is the program of
`main_pru1_def.asm`, each with a program counter (`pc0`, `pc1`).  A step ends
with an access to something the other side sees: an event, the shared RAM, a
bank, a vring.  So PRU0's message goes out in `WriteTiming`, `WriteMisc`,
`TellPru1`, and PRU1 takes it in `TakeInterrupt`, `ClearInterrupt`,
`LoadTiming`, `LoadMisc`; what happens between them is what the properties
are about.  A block of 44 samples is one value, of which only the kind
matters; the two timing words are one value; a short message clobbers the
timing word of `msg_from_kernel` as the byte of the code does.  The ARM
(`ArmSend`, `ArmKick`, `ArmRecycle`) sends any message the driver can send.

`hold` and `sync` are history variables: what each bank holds that PRU0 has not
read, and whether the present run began with no doorbell under way and absorbed
none since.  Nothing reads them but the properties.

### ScopeFirmware (`PruContractProofs`)

The firmware as the ARM knows it, without cores: it answers a ring of its
doorbell by taking one message (`Take`), works at a request some time later
(`Store`, `GiveUp`, `Load`), samples (`Sample`) and hands over what is due
(`HandOver`).  A doorbell absorbs a second ring, hence `OneMore`.  The mapping
is `Contract` in `PruFirmware`: a request is pending from its receipt until
PRU1 has loaded it; `rings` and `due` count the event and the one being served;
the announcement counts as made.  `BeaglescopeDriver`'s firmware is this one
with `Take`, `Store`, `GiveUp` and `Load` in one step (`PruReceive`) and
`Sample` and `HandOver` in one (`PruSend`).

### Pru1Program (`PruSamplerProofs`, `PruContractProofs`)

The program of PRU1 as its control flow alone: where it looks at PRU0's
doorbell (not in the last sample for the last bank), that it clears the doorbell
before it loads the request, what it does with a request and which bank a block
goes to.  `PruSampler` implements it instruction by instruction and
`PruFirmware` with PRU0 and the shared memory around it; `Program` and
`RunsProgram` in each are the mapping and the claim.  In `PruSampler` a place of
the program is the instruction that is next (`Place`): behind a load it is
decided where the branches go, and a jump belongs to the place it jumps to.

### PruSampler (`PruSamplerProofs`)

Every step is an instruction, so cycles can be counted.  `Code` is the
sequence of instructions of one sample in `SAMPLE_CYCLE_8`, which depends on
the phase (inside the loop, second last, last) and on the bank; `DelayNext` is
the control flow of `THE_DELAY`.  `data`, `taken`, `since`, `waiting` are
history: what each byte of the register file is, samples of the block, cycles
since the last rising edge and since the doorbell rang.

### PruVirtqueue and BufferLoan (`PruVirtqueueProofs`)

One vring with the ring's slots, the free running 16 bit indices and the PRU's
own 32 bit `last_avail_idx`, in the direction-neutral form the library has it.
The store of `used->idx` and that of the used element are two steps;
`StoreOrders` says in which order, since the C source leaves it to the compiler.
Five variables are history, to be set against the indices, which wrap: `posts`,
`taken` and `reclaimed` count buffers; `stray`: the PRU took a buffer nobody had
made available; `early`: the ARM consumed a used element not stored yet.
`BufferLoan` is what the rings promise: buffers are lent, taken, given back and
reclaimed in order, and are always in one place.  `ImplementsLoan` states the
refinement.

### BeaglescopeDriver (`BeaglescopeDriverProofs`)

Every call is a sequence of steps, one for each load or store of
`beaglescope_state` that another caller can come between:

| code | actions |
|---|---|
| `read_raw` (RAW) | `ReadRaw`, `StoreMode`, `LoadMisc`, `StoreEnable` (the `\|=`), `SendConfig`, `CopyHalves`, `PostConfig`, `CheckMode`, `WaitRaw`, (`Interrupt`), `Return` |
| `postenable` | `EnableBuffer`, then the same; the wait too, if the mode was changed under it |
| `predisable` | `StopSampling`, `Deactivate` |
| `write_raw` (frequency) | `WriteFreq`, `StoreHalves`, `Compute`, `Save` |
| `beaglescope_driver_cb` | `CbStart`, then `CbStore`, `CbFlag`, `CbWake` or `CbPush` per value, `CbReturn` |
| `remove` | `Remove` |

`rpmsg_send` waits for a buffer of vring1 or fails by fault (`SendConfig`), copies
the words one after the other, each as it is at that moment, and then puts the
buffer into the ring and rings (`Post`); `held` is what a caller has loaded and not
stored yet, `Taken` counts the messages in vring1 and the buffers being copied into.
The stop byte comes from a constant, so `StopSampling` does all of this at once.
`rpmsg_send` has a timeout as well, of 15 seconds, which is left out because it never
ends: when all of vring1 is taken, a doorbell is under way whose message PRU0 takes,
or another caller is about to ring (`FullRingServed` of the firmware, `FullRingRung`
of the driver; both are proved).  `PruReceive`, `PruSend` and
`PruHang` are the firmware as far as a driver can tell: one message per
doorbell, raw mode without regard of the start bit, blocks dropped without a
buffer, a delay that never ends when a count is zero.  `Turn` is a discipline
the driver does not impose (`Overlap` FALSE): callers that never overlap, and
no raw reads while the buffer is on.

Five variables are history; nothing reads them but the properties.  `answered`:
the readers whose read has seen the callback save data.  `overlapped`: the users
another one's call fell into between their first store to word 2 and their last
look at it.  `clash`: frequency writes have overlapped and none was alone since.
`unsaved`: the users whose send began to copy before a frequency was ever saved;
`early`: one of them asked for block mode.

### SamplingFrequency (`MCSamplingFrequency`, `SamplingFrequencyProofs`)

`PruCycles`, `Between`, `After`, `BeforeS` are the assignments of the function,
`Frequency` the value it reports.  Nanoseconds per second, `2^32` and `2^16`
are constants, so that a small instance meets every wrap.

### NBlinky (`NBlinkyProofs`)

| code | actions |
|---|---|
| probe, remove | `ProbeCreate` (the device can be opened), `ProbeLink` (`rpmsg_dev` set), `ProbeReady` (driver data set); `Remove`, `CallAfterRemove` |
| open, release | `OpenCheck`, `OpenSet`; `Release` |
| write | `WriteCheck`, `Copy`, `WriteLock`, `Send` or `SendTimeout` and `WriteFailed`, `SendToNobody` |
| callback, rpmsg bus | `Callback`, `Recycle` |
| firmware `main_pru1.c` | `FwAnswerDoorbell`, `FwReceive`, `FwEcho`, `FwEmptied` |

A message is the process that sent it; `given` is the processes whose write has
copied a byte of theirs.  The documented use,
`echo 3 > /dev/...`, closes the file under its own message: `Release` clears
both flags at once, whatever is under way.  It also asks for two bytes.
`Copy` chooses how many a write has, up to `Longest`; `driver_buf` is a static buffer
of one.  The test of the size (`rpmsg_pru_parallel_example.c:82`) never fires, its
limit being an unsigned `1 - sizeof(struct rpmsg_hdr)`; a count of zero copies nothing
and sends what an earlier write has left, and one above one stores behind the buffer
(`overrun`), where the numbers and the class of the devices may lie: the next probe or
remove may oops.  Four variables are history.  `raced`: `dev_lock` was
tested while another open was between its test and its store, and a file has been open
since.  `abandoned`: a
file was closed under a message and its messages have not all come back.
`hasty`: a file was opened before the probe under way has ended.  `stale`: that
probe began with messages of an earlier load under way.

### PiBus (`PiBusProofs`)

`ChannelUp` to `HostReady` is the thread that registers the host and, for each
child node, `SkipNode`, `AddChild`, `RefuseNode` or `NoMemory`, and then `AttachBound`,
`AttachMatch`, `AttachProbe`, the second half of `device_register`.
`ChannelDown`, `RemoveChild`, `RemoveHost` take it down.  `Load`, `WalkMatch`,
`WalkCheck`, `WalkDone` and `Unload` are the driver's module.  The match and
its store to `dev->driver` is a step before the driver core takes the lock:
`WalkMatch` for a walk of `driver_register`.  All children have the name
`pidev`, so that one at a time is on the bus; the others, and a node without a
modalias, are refused with a NULL the caller takes for a device (`RefuseNode`).
Memory is another matter: the result of `devm_kzalloc` is not tested
(`parallel_interface.c:242-245`), and `of_modalias_node` writes behind a NULL
pointer, an oops (`NoMemory`).  The driver core is external, with the
order of steps the Linux of the time (4.4) has.  Four variables are history:
`late` (a driver was registered over a device nobody had bound), `refused` (nodes),
`hostFailed` and `noMemory`.

## 4. The runs

### That pass

| run | instance | shows |
|---|---|---|
| `firmware_safety` | 3 banks, 2 blocks per message, 1 buffer, 2 timings, queue of 2 | `BufferConservation`: no buffer leaked or returned twice. `ConfigAgreement`: a settled PRU1 works with the last message, though loads and stores interleave. `TimingPreserved`: the short message's byte stays in `msg_from_kernel`. `SyncedRead`, `SyncedWrite`: cores in step never miss each other's bank. `FullRingServed`: doorbells merge and messages are left over, but a full vring1 has a doorbell under way, so nobody waits for a buffer in vain |
| `firmware_liveness` | 3 banks, 2 blocks per message, 1 buffer, 1 timing, queue of 1, fair | `DoorbellServed`: every doorbell is served in the middle of a run; `StopStops`: a stop that stands ends it; `RunRuns`: a run left alone delivers for ever. `ImplementsContract`: the cores are the device of `ScopeFirmware`. `RunsProgram`: PRU1 runs `Pru1Program` |
| `sampler` | blocks of 5, 3 banks, delays 1, 3, 5, 7 in every combination, fair | `UniformPeriod`: the clock is the same across loop, seams, banks and jumps back. `ExactEdges`: delays are exact. `ClockLowOutside`: whatever is interrupted leaves the clock low. `BlockComplete`: a block transferred is made of its own samples. `BoundedLatency`: a doorbell waits at most two periods. `KeepsDelivering`: every delay ends, an undisturbed run delivers. `RunsProgram`: the instructions run `Pru1Program` |
| `virtqueue` | 2 descriptors, 18 posts, ring indices mod 4, the PRU's mod 16, both store orders | slots and indices of both widths wrap. `AvailableMeansOffered`: an available buffer is never overlooked, and before the shorter index has wrapped (taken 2^16 buffers) none is seen that is not there. `SingleOwner`, `ImplementsLoan`: until the PRU takes a stray buffer or the ARM consumes an element not stored yet, one owner per buffer, and the rings implement `BufferLoan` |
| `driver_safety` | 1 reader, 1 buffer user, all faults, queue of 1, blocks of 2, 2 numbers | `NoLostWakeup`: no wake-up is lost. `PreparedAlone`: a call no other falls into sends its own mode with the enable bit, and waits or not accordingly. `FifoInOrder`: the kfifo is in order, whatever is dropped or stopped. `TypeOK`: among the types, that no channel is overbooked |
| `driver_raw` | 2 readers, 1 writer, signals, fair | `RawReadReturns`, `RawReadIsRaw`: a raw read returns, and with a sample |
| `driver_turns` | 1 reader, 1 buffer user taking turns, 1 writer at any time, no frequency set before, queue of 3, fair | `StopsAfterDisable`: once off for good, sampling ends, although the stop byte may share a doorbell. `HungEarly`: PRU1 hangs only if block mode was asked for by a send that began before a frequency was saved, whatever was stored in the middle of a copy |
| `frequency` | second of 4000 ns, 12 bit word, 5 bit half | for all frequencies counts are odd and no wider than a word, what `PruSampler` assumes of its delays; the period kept and monotonic in range |
| `nblinky` | 2 processes, 2 buffers per vring, writes of up to 2 bytes, fair | `LockHasHolder`: a locked buffer always has a message or a write that will unlock it, although echoes are dropped when vring0 is full: one is dropped only behind others. `LockReleased`: it is unlocked. `OwnerAlone`: a second owner takes an open that tests `dev_lock` between another's test and store; every other is turned away by the test, and then a write that has a byte sends its own. `OneUnderWay`: with one owner who closes nothing under a message the lock is exact. `OopsExplained`: an oops has one of four causes |
| `pibus` | 3 nodes, 2 of which match | `PopulatedOnce`: flags and devices agree through failures and restarts, memory permitting. `DriverMeansProbed`: a driver loaded before the device is bound by its own probe. `OopsTraced`: an oops has one of three causes |

The types of the variables are part of the run `driver_safety` and, as a part of
what the others rest on, of all the proofs; the type invariant of every module
holds in its run as well, but is not listed there unless a bug could show in it
alone.

Four more configurations are kept beside the runs and pass; each takes up to two
minutes.  `BeaglescopeDriverLoneWrite` (two writers, two frequencies): `LoneWrite`, a
frequency write that no other overlaps leaves one frequency in both words and reports
that one.  `BeaglescopeDriverTwoSenders` has a queue of two, so that two callers copy a
message at once, `BeaglescopeDriverEarly` checks `HungEarly` with calls that overlap, and
`PruFirmwareTwoBuffers` has two receive buffers, and both timings in the refinements.

### Counterexamples

Each of these configurations checks one property, nearly all taken from a
comment of the repository, and TLC finds it violated by what the code does.  The
first two are runs and findings in `PROJECT.json` (`raw_read_answered`,
`pibus_registered`), with the quoted lines; the others are kept beside them and
run the same way.

| configuration | property | the comment | the code |
|---|---|---|---|
| `BeaglescopeDriverRawReadAnswered` | `RawReadAnswered` | a raw read "returns only after the data from the callback has been saved" (`beaglescope_driver.c:180`) | `got_raw` is never reset: only the first raw read waits |
| `PiBusReadyMeansRegistered` | `ReadyMeansRegistered` | returns 0 "if all the child devices are registered successfully, and 0 otherwise" (`parallel_interface.c:280`; its last words contradict it) | a child that could not be registered is NULL, which `IS_ERR` does not see: the host comes up with some or none |
| `PiBusRemoveAfterProbe` | `RemoveAfterProbe` | a driver's remove undoes its probe | the match sets `dev->driver` of a device already on the bus, the core takes it for bound and never probes; `remove` is called all the same |
| `PiBusNoOops` | `NoOops` | - | with a host and memory for every child: the same device, removed while its driver is not in the driver's list |
| `NBlinkyOneOwner`, `NBlinkyOwnByte` | `OneOwner`, `OwnByte` | "Failed to open already open device" | two opens between test and store of `dev_lock`: two owners, who overwrite each other's byte |
| `NBlinkyLockCoversMessage` | `LockCoversMessage` | "Buffer is locked" | closing the file clears `buf_lock` under a message |
| `NBlinkyNoOops` | `NoOops` | - | written before the probe has set `rpmsg_dev`; used after the channel is gone; an echo of before a reload that arrives before the driver data is set; a probe or remove after a write longer than the buffer |
| `BeaglescopeDriverNeverHangs` | `NeverHangs` | the counts "need to be odd" (`:84`) | a buffer enabled before a frequency was written sends zeros, and PRU1 never leaves its first delay |
| `PruFirmwareEveryMessageReceived` | `EveryMessageReceived` | on each doorbell the message is received (`main_pru0.c:258`) | merged doorbells, one `pru_rpmsg_receive`: a message stays in vring1 |
| `PruVirtqueueWrap` | `NeverStray` | the indices match when there is no new buffer (`pru_virtqueue.h:143`) | after 65536 buffers the 32 bit index never equals the 16 bit one: an empty ring looks full |
| `PruVirtqueueEarly` | `NeverEarly` | a used element is the start of a used chain (`pru_virtio_ring.h:79`) | the index is visible before the element is stored |
| `PruFirmwareFreshBlock`, `PruFirmwareFreshRaw` | `FreshBlock`, `FreshRaw` | on PRU1's doorbell the new data is read (`main_pru0.c:301`) | a doorbell for an earlier request is served in the new mode, from a bank without its data |
| `PruSamplerDocumentedPeriod` | `DocumentedPeriod` | the period is the three counts and 5 (`firmware/README.md:44`) | it is the counts and 6 |
| `PruSamplerRawWordFresh` | `RawWordFresh` | a raw read sends "a single instantaneous sample" (`common_pru_defs.h:118`) | three of the four bytes sent are old |
| `SamplingFrequencyParts` | `PartsOfPeriod` | the cycles of the period are divided into three parts (`beaglescope_driver.c:79`) | below 763 Hz, above 22 MHz and above 40 MHz the counts wrap |
| `BeaglescopeDriverLateBlock` | `RawReadIsRaw` | raw data is what the callback saved for the read (`:180`) | a block still under way when the buffer is disabled is returned as a raw sample, even if callers take turns |
| `BeaglescopeDriverConfigPrepared` | `ConfigPrepared` | what is sent was prepared by the two setters (`:173`) | a frequency write is half done when a read sends the words |
| `BeaglescopeDriverTwoWriters` | `ReportedIsConfigured` | the frequency saved is the resultant one (`:84`) | two writers: that of the other one's counts |
| `BeaglescopeDriverReleased` | `NothingSentReleased` | a released channel makes the call fail (`:176`) | the pointer checked is never cleared |
| `BeaglescopeDriverNeverStops` | `StopsAfterDisable` | sampling stops "immediately" (`:217`) | a raw read under way sends the block mode again after the stop byte |

What does hold where these fail is stated beside them, with the condition under
which the promise is kept, and is proved: `PreparedAlone` for `ConfigPrepared`,
`LoneWrite` for `ReportedIsConfigured`, `HungEarly` for `NeverHangs`, `OopsExplained`
and `OwnerAlone` for n-blinky's `NoOops` and `OneOwner`, `FullRingServed` for
`EveryMessageReceived` (a message may be left behind, but never so many that
the ring is full), `SyncedRead` for `FreshBlock`, `OopsTraced` for the bus's `NoOops`.

### Why the bounds are enough

* Three banks are the program's; two blocks per large buffer have a first and a
  last one; one or two receive buffers make "none left" common.  A queue of
  one control message with the kick as a step of its own has the message and
  its doorbell at any distance, which is what the words in shared RAM are exposed to;
  two are needed to merge doorbells and to leave a message over, and `firmware_safety`
  and the configuration that fails have two.
* A block of 5 samples has two that loop and each of the special ones (the
  jump back, second last, last).  1 and 3 are the special delays, 5 and 7 take
  one and two rounds.
* Two slots, indices mod 4 in shared memory and mod 16 in the PRU wrap nine times,
  four times and once within the 18 posts of `virtqueue`: from the fourth buffer on
  an empty ring looks full, so that stray buffers are met (`PruVirtqueueWrap`), and every
  comparison of the two indices is made on either side of both wraps.
* Two processes make a race, and a vring of two holds one echo that is
  delivered and one that is not; a third buffer only delays the full ring.  Writes of
  no, one and two bytes leave the static buffer alone, fill and overrun it.
  Three nodes are one the driver matches on the bus, one refused for its
  name, and one of another driver.
* One message each way makes buffers run out at once; one reader and one
  buffer user already interleave at every load and store.  Samples are numbered
  up to `MaxSamples`, after which two are no longer told apart: in `driver_safety` the
  first from all later ones, which must not come before it, nor it twice; blocks of two
  values have an order of their own.  Larger kfifos and more samples are covered by the
  proof.  `driver_turns` starts without a frequency and
  has one writer, whose two stores fall anywhere into a call.
* 4000 ns and the narrow words put the limits of the range (`763 Hz`, `22 MHz`,
  `40 MHz` in the program) inside 1..4000.

`CHECK_DEADLOCK FALSE` stands where the system may stop: the vring model runs
out of posts; n-blinky and the bus stop with an oops, or a channel that is
gone under open files; in the driver, the message a firmware leaves in vring1 waits for
a doorbell that only a sleeping reader could have caused.  For that reason
`RawReadReturns` is checked without a buffer user: with one it does not hold,
and the message left in vring1 (`EveryMessageReceived`) is the cause.

### Fairness

Weak fairness of each core's steps: a core executes an instruction in each
cycle and never stops.  Weak fairness of `ArmKick` and `ArmRecycle`: the kick
follows the send in the same kernel function, and the rpmsg bus runs the
callback for every message.  In the driver, weak fairness of a call that has
begun (it is scheduled) and of the callback, and strong fairness of
`SendConfig`, which competes for a ring buffer other callers take as well:
`rpmsg_send` waits in a queue for one.  In n-blinky, weak fairness of the
firmware's polling loop, of the rpmsg bus, of a probe and of a write that has
begun.  Nobody has to begin a call, open, send a message or drain the kfifo.

## 5. The proofs

The theorems hold for every value of the constants the assumptions allow
(`FirmwareAssumption`, `SamplerAssumption`, `VringAssumption`,
`DriverAssumption`, `FrequencyAssumption`, `NBlinkyAssumption`,
`PiBusAssumption`, which TLC evaluates in the runs).  Every safety property of a
passing run is proved, and so are the three refinements (`ScopeFirmware`,
`BufferLoan`, `Pru1Program`).

* `PruFirmwareProofs`. `TypeCorrect` and `BuffersConserved` go together: that
  `avail` and `used` stay below `NumBufs` needs the sum, and the sum needs
  the type of `count`.  `Agreement` needs two facts more: what PRU0 has stored
  (`Stored`) and what PRU1 has loaded of it, unless its doorbell rings again
  (`Loaded`).  `TimingKept`: a clobbered timing word never comes to be stored,
  because PRU0 stores timing only right after a long message.  `CoresInStep` is
  the invariant `InStep`: in block mode PRU1's bank is ahead of PRU0's by the
  doorbells not served, and the unread blocks are exactly in between;
  `ReadInStep` and `WriteInStep` follow from it, the latter with three or more
  banks.  `RingServedWhenFull` needs no more than that PRU0 consumes a doorbell
  only to take a message, and is inductive with the types.
* `PruContractProofs`. `CoresImplementContract`, the refinement: types and
  `Stored` are enough for every step of the cores to be a step of the device or
  one nobody sees.  `OnlyWhatIsAsked` is proved of the device (a request no
  longer pending is the only thing worked at) and carried over.
  `CoreRunsProgram`: PRU1's steps are those of `Pru1Program`, PRU0's ring is its
  only other one.
* `PruSamplerProofs`. The invariant has five parts.  `Control`: where the
  program is, and that an odd delay reaches zero in steps of two.  `Cycled`: the
  cycles since the rising edge are the sum of the costs of the instructions
  since; all kinds of samples, for all banks, have the same nine costs, which
  is what makes `UniformPeriod` (`ClockNeverStutters`) and `ExactEdges`
  (`DelaysAreExact`) hold for all block lengths and delays.  `Clocked`: the pin
  is high exactly between the edges (`ClockLeftLow`).  `Filling`: the pointer,
  the counter and the samples taken agree, in each of the three phases of a
  block (`BlocksAreComplete`).  `Waited`: the cycles a doorbell has waited
  are bounded by the position in the code, with one sample without a check
  (`DoorbellIsNoticed`).  `InstructionsImplementProgram`: from
  `Control`, every instruction moves to the next place of `Pru1Program` or stays
  in it, and a bank changes only with the jump behind its transfer; what has to
  be added is that the start bit is looked at in block mode only (`Chosen`).
* `PruVirtqueueProofs`. `TypeCorrect` and all the others hold through every wrap of
  every index.  `Exact` says what the indices count: each is its number of buffers
  modulo its width, and these numbers are never more than a ring apart, since each post
  used up a descriptor of the ARM's; a few lemmas on remainders take the comparisons and
  slots from the indices to the numbers.  `Exact` holds until the PRU takes a stray
  buffer, which takes `IdxMod` buffers before (`ComparisonExact`): the 32 bit count then
  differs from the 16 bit index for ever, and never equals it while there is a
  buffer, because the two are less than `IdxMod` apart.
  `Owned`: the posts the ARM has not reclaimed
  have different descriptors, none of them the ARM's, found in the used ring,
  with the PRU or in the available ring according to their number.  A store
  into a slot touches no other post because they are less than a ring apart.
  `OneOwner` and the refinement `RingsImplementLoan` follow, both up to an
  element consumed too early or a stray buffer.
* `BeaglescopeDriverProofs`. Most of these are proved of `AnySpec`, the driver
  with a firmware that takes a message or none and sends one of either kind or none,
  rung or not.  `FirmwareIsAny` carries them over to `Spec`, and
  `SafeWithAnyFirmware` collects what is said of the driver alone: the firmware in
  `BeaglescopeDriver` serves a doorbell in one step, the cores do not, and these
  properties cannot tell.
  `TypeCorrect` (any number of callers, buffers, messages) needs the count of those who
  copy a message: `RoomInVring1`, a message and a caller in the middle of one each have
  a buffer (`CopyingCount`, which is why the callers are finitely many).  `WakeupNotLost`: given the types, `NoLostWakeup` is inductive,
  since a caller sleeps only while `got_raw` is false and the callback that
  sets it wakes before anything else.  `SamplesInOrder`: its invariant
  (`Ordered`) follows the samples from the firmware through vring0 and the
  callback into the kfifo, each part in order and behind the next.
  `RawWithoutBuffer`: if nobody uses the
  buffer, raw reads return raw samples. Its invariant says that RAW is the
  mode everywhere (shared word, messages both ways, firmware) and that a
  set `got_raw` means a saved sample; `BeaglescopeDriverLateBlock` shows that the
  assumption is needed.  `AloneSendsItsOwn`: its invariant (`Undisturbed`) follows
  word 2, and the mode loaded from it for the `|=`, through the steps of the one user
  nobody has overlapped.
  `LoneWriteMends`: unless writes have overlapped at most one is under way, and
  the words are what it has made of them so far (`AloneWriting`).  `HungOnlyEarly`:
  no write takes a count away (`WritersSet`), so that once a frequency is saved both
  words hold counts for good (`SavedIsSet`); a send that begins after that copies counts,
  word by word (`CopiedLate`), and a message without them is an early one
  (`UnsetSentEarly`).  `FullRingRung`: the driver's half of `RingServedWhenFull`, and
  inductive, since the doorbell and the message come in one step and only a
  caller's buffer not posted yet can fill the ring without one.
* `SamplingFrequencyProofs`. `OddCounts` for all widths and frequencies: what
  `SamplerAssumption` asks of a delay is true of every count the driver can
  compute.  (The period it is within one cycle of is the documented one; the clock's
  own is one longer, so that in whole cycles it is never shorter than the period
  asked for and at most two longer.)
  `PeriodIsKept` and `HigherFrequencyIsFaster` in range.  The invariant
  (`Remembered`) is that the configuration is the one computed from the last
  frequency asked for; the rest is arithmetic in lemmas on division.
* `NBlinkyProofs`. `LockNeverStranded`: a message leaves `UnderWay` through a
  callback, which unlocks, or as an echo without buffer, which means others are
  ahead of it (`Ring >= 2` keeps one of them undelivered).
  `OneOwnerUnlessRaced`: without a race one process at most is past the test
  (`OnePasses`): an open is turned away by `dev_lock` while another is open, and one
  that passes while another is still opening is the race; a write that copies is then
  the only one, so that `driver_buf` holds its byte.
  `LockCountsMessages` joins the two with the count of messages.
  `OopsHasCause`: while a probe is under way that began with nothing on the rings
  and that no open has overtaken, no file is open and nothing is on its way
  (`Undisturbed`), and a device whose probe has ended and whose buffer nothing has
  overrun has no bad pointer.
* `PiBusProofs`. The theorems share one invariant, `Inv`: `TypeOK`,
  `PopulatedOnce`, `DriverMeansProbed`, `OneChild` and `NoneRefusedOnBus` (one name, one
  device, and none for a node that was refused), `StopsWithoutMemory` (nothing follows
  `NoMemory`) and `Registration` (children are added and probed only while
  the host's probe runs; one that is being probed matches, has its driver set,
  and the driver is loaded; the one the walk looks at matches).  `OopsTraced`
  rests on it: a device removed while its driver does not list it takes a late driver,
  and what is left are the host and the memory.

Only model-checked: liveness (`DoorbellServed`, `StopStops`, `RunRuns`,
`KeepsDelivering`, `RawReadReturns`, `StopsAfterDisable`, `LockReleased`), since
fairness and ENABLED are beyond the prover.

## 6. What is not modelled

* The contents of samples, messages and the announcement beyond
  what the properties tell apart.
* The byte stored 31 bytes behind word 2 of `pru_config`
  (`beaglescope_driver.c:143,148`): it is neither in the state structure nor read by
  anything; the statement after it sets the bit.
* The two halves of timing word 1 are one store; each is computed from the same frequency.
* A frequency of zero (a division by zero), and what freed memory contains
  after `remove`: the model keeps the state as it was, the mildest outcome.
* The timeout of `rpmsg_send` (section 3, `BeaglescopeDriver`).
* `NEED_WAKEUP`-style flags of the vring: the ARM may look at the ring any time.
* In n-blinky, which of its neighbours the bytes behind the one byte buffer hit: an
  oops when the numbers or the class of the devices are used next stands for all of it
  (the two locks are in a structure elsewhere); and a failing `device_create` (the code tests another variable).
* In the bus, reference counts (`put_device` inside `release`, the node
  reference of the loop), the host device as a candidate for a match, and a
  second driver.
* The example `pru1_to_pru0_to_arm`: after the first message PRU0 stays in an
  inner loop that sends a fixed string for each interrupt; the pin state
  reader, blinky, inline assembly and replicating examples: loops over pins.
  Each has at most one variable and no other actor, so that no property could
  be about more than an assignment.
* Register headers, resource tables, linker scripts, build files, device tree
  and documents: declarations.  They are most of the repository's lines (the
  register layouts of nine devices alone some nineteen thousand), which
  no model can translate.

## 7. Running

```
tlc -workers 2 -config PruFirmware.cfg MCPruFirmware.tla
tlc -workers 2 -config BeaglescopeDriver.cfg BeaglescopeDriver.tla
tlc -workers 2 -config PruFirmwareLive.cfg MCPruFirmware.tla    # one of the longest, about three minutes
tlapm PruFirmwareProofs.tla
```

A definition whose comment begins with "Mutant" is a bug of the kind a property
is there to catch.  Substituted for the definition `PROJECT.json` names with it,
it makes TLC find that property violated; nothing else uses it.
