-------------------------------- MODULE NBlinky --------------------------------
(***************************************************************************)
(* The n-blinky example: its character device                              *)
(* (rpmsg_pru_parallel_example.c) and the firmware that answers it         *)
(* (main_pru1.c).  One byte is sent at a time: buf_lock is taken by write  *)
(* and given back by the callback, when the firmware has toggled the pins  *)
(* and echoed the byte; dev_lock admits one open file.  Neither is a lock  *)
(* of the kernel: both are read and then stored by the callers.            *)
(*                                                                         *)
(* One step is what a call does up to the next access to shared state.     *)
(***************************************************************************)
EXTENDS Naturals, Sequences, Functions

CONSTANTS
  Procs,   \* the processes that use the device, one thread per open file
  NoByte,  \* the zero in driver_buf before the first write and after a failed copy
  Ring,    \* buffers of each vring
  Longest  \* bound: bytes of the longest write

ASSUME NBlinkyAssumption ==
  NoByte \notin Procs /\ Ring \in Nat /\ Ring >= 2 /\ Longest \in Nat

VARIABLES
  node,        \* how far the probe has come
  dev_lock, buf_lock,
  driver_buf,  \* whose byte the static buffer, of one byte, holds
  overrun,     \* a write has stored behind the static buffer
  pc,          \* where each process is
  given,       \* processes whose write under way has copied a byte of theirs
  toPru,       \* vring 1: messages the firmware has not received
  held,        \* the message the firmware is toggling for
  fromPru,     \* vring 0: echoes the callback has not seen
  recycling,   \* a buffer of vring 0 whose callback is done, not yet given back
  doorbell,    \* system event 19 is pending
  fw,          \* the firmware: polling R31, or emptying vring 1
  oops,        \* a NULL or freed pointer was followed
  raced,       \* history: dev_lock was tested while another open was between
               \* its test and its store, and files are open since
  abandoned,   \* history: a file was closed under a message, and the messages
               \* have not all come back since
  hasty,       \* history: a file was opened before the probe under way has ended
  stale        \* history: the probe under way began under an earlier load's messages

static == <<driver_buf, overrun>>
files == <<node, dev_lock, static, pc, given>>
rings == <<toPru, held, fromPru, recycling, doorbell, fw>>
unready == <<hasty, stale>>
history == <<raced, abandoned, unready>>
vars == <<files, buf_lock, rings, oops, history>>

(* A message, of one byte, is known by the process that sent it. *)
Message == Procs

(* Every message between rpmsg_send and its callback, oldest first. *)
UnderWay == fromPru \o held \o toPru
Senders == Range(fromPru) \cup Range(held) \cup Range(toPru)

Recycling == IF recycling THEN 1 ELSE 0

InWrite == {"copying", "locking", "sending", "failing"}
Sending == \E p \in Procs : pc[p] \in {"sending", "failing"}
Opened == {p \in Procs : pc[p] \in {"open"} \cup InWrite}

(* The bytes a write asks to send.  One fits; the documented use, an echo  *)
(* to the device, writes two, of which the second is a newline.            *)
Counts == 0 .. Longest

(* The firmware has announced the channel, nothing is probed; the event    *)
(* may be pending from the kicks of the announcement.                      *)
Init ==
  /\ node = "announced" /\ dev_lock = FALSE /\ buf_lock = FALSE
  /\ driver_buf = NoByte /\ overrun = FALSE
  /\ pc = [p \in Procs |-> "closed"] /\ given = {}
  /\ toPru = <<>> /\ held = <<>> /\ fromPru = <<>> /\ recycling = FALSE
  /\ doorbell \in BOOLEAN /\ fw = "polling"
  /\ oops = FALSE /\ raced = FALSE /\ abandoned = FALSE
  /\ hasty = FALSE /\ stale = FALSE

Goto(p, l) == pc' = [pc EXCEPT ![p] = l]
OnlyGoto(p, l) ==
  Goto(p, l) /\ UNCHANGED <<node, dev_lock, static, given, buf_lock, rings, oops, history>>
At(p, l) == pc[p] = l /\ node # "removed" /\ ~oops

--------------------------------------------------------------------------------
(* rpmsg_pru_parallel_example_probe.  The device is there to be opened     *)
(* before rpmsg_dev is set, and rpmsg_dev before the driver data.  The     *)
(* module has been loaded again, or was there all the time.  The numbers   *)
(* and the class of the device may be what a write too long has hit.       *)
ProbeCreate ==
  /\ node = "announced" /\ ~oops
  /\ node' = "created"
  /\ dev_lock' = FALSE /\ buf_lock' = FALSE
  /\ \/ UNCHANGED static
     \/ driver_buf' = NoByte /\ overrun' = FALSE
  /\ oops' \in {FALSE, overrun'}
  /\ stale' = (UnderWay # <<>>)
  /\ UNCHANGED <<pc, given, rings, raced, abandoned, hasty>>

ProbeLink ==
  /\ node = "created" /\ ~oops
  /\ node' = "linked"
  /\ UNCHANGED <<dev_lock, static, pc, given, buf_lock, rings, oops, history>>

ProbeReady ==
  /\ node = "linked" /\ ~oops
  /\ node' = "ready"
  /\ hasty' = FALSE /\ stale' = FALSE
  /\ UNCHANGED <<dev_lock, static, pc, given, buf_lock, rings, oops, raced, abandoned>>

(* Mutant: the module can be unloaded under open files. *)
RemoveUnderFiles ==
  /\ node = "ready" /\ ~oops
  /\ node' = "announced"
  /\ UNCHANGED <<dev_lock, static, pc, given, buf_lock, rings, oops, history>>

(* rpmsg_pru_parallel_example_remove, and the devm memory freed after it.  *)
(* With no file open the module may be unloaded, or the driver unbound,    *)
(* and probe again; files that are open do not keep the channel from going *)
(* away.  The class and the numbers of the devices lie with driver_buf: a  *)
(* write too long may have hit them, or the bytes between.                 *)
Remove ==
  /\ node = "ready" /\ ~oops
  /\ node' = IF \A p \in Procs : pc[p] = "closed" THEN "announced" ELSE "removed"
  /\ oops' \in {FALSE, overrun}
  /\ UNCHANGED <<dev_lock, static, pc, given, buf_lock, rings, history>>

(* Any call on a file that outlived its device uses the freed structure. *)
CallAfterRemove(p) ==
  /\ node = "removed" /\ pc[p] # "closed" /\ ~oops
  /\ oops' = TRUE
  /\ UNCHANGED <<files, buf_lock, rings, history>>

--------------------------------------------------------------------------------
(* rpmsg_pru_parallel_example_open: dev_lock is tested, and then stored.   *)
Overtaking(p) == \E q \in Procs \ {p} : pc[q] = "opening"

(* Mutant: dev_lock is not tested. *)
OpenCheckNothing(p) ==
  /\ At(p, "closed") /\ node # "announced"
  /\ hasty' = (hasty \/ node # "ready")
  /\ raced' = (raced \/ Overtaking(p))
  /\ Goto(p, "opening")
  /\ UNCHANGED <<node, dev_lock, static, given, buf_lock, rings, oops, abandoned, stale>>

OpenCheck(p) ==
  /\ At(p, "closed") /\ node # "announced" /\ ~dev_lock
  /\ hasty' = (hasty \/ node # "ready")
  /\ raced' = (raced \/ Overtaking(p))
  /\ Goto(p, "opening")
  /\ UNCHANGED <<node, dev_lock, static, given, buf_lock, rings, oops, abandoned, stale>>

OpenSet(p) ==
  /\ At(p, "opening")
  /\ dev_lock' = TRUE
  /\ Goto(p, "open")
  /\ UNCHANGED <<node, static, given, buf_lock, rings, oops, history>>

(* rpmsg_pru_parallel_example_release clears both locks, whatever is under *)
(* way and whoever else has the device open.                               *)
Release(p) ==
  /\ At(p, "open")
  /\ buf_lock' = FALSE /\ dev_lock' = FALSE
  /\ Goto(p, "closed")
  /\ raced' = (raced /\ \E q \in Procs \ {p} : pc[q] # "closed")
  /\ abandoned' = (UnderWay # <<>>)
  /\ UNCHANGED <<node, static, given, rings, oops, unready>>

--------------------------------------------------------------------------------
(* Mutant: buf_lock is not tested. *)
WriteCheckNothing(p) ==
  /\ At(p, "open")
  /\ OnlyGoto(p, "copying")

(* rpmsg_pru_parallel_example_write.  A write that finds the buffer locked *)
(* changes nothing.  The test of the size (line 82) never fires: its limit *)
(* is an unsigned 1 - sizeof(struct rpmsg_hdr), far above any count.       *)
WriteCheck(p) ==
  /\ At(p, "open") /\ ~buf_lock
  /\ OnlyGoto(p, "copying")

(* copy_from_user: nothing for a count of zero, which leaves the byte of   *)
(* an earlier write; for more than one it stores behind the buffer as well. *)
(* A copy that fails fills up with zeros what it could not read.           *)
Copy(p) ==
  /\ At(p, "copying")
  /\ \E count \in Counts :
       /\ overrun' = (overrun \/ count > 1)
       /\ \/ /\ driver_buf' = IF count = 0 THEN driver_buf ELSE p
             /\ given' = IF count = 0 THEN given \ {p} ELSE given \cup {p}
             /\ Goto(p, "locking")
          \/ /\ count > 0
             /\ driver_buf' \in {p, NoByte}
             /\ Goto(p, "open") /\ UNCHANGED given
  /\ UNCHANGED <<node, dev_lock, buf_lock, rings, oops, history>>

WriteLock(p) ==
  /\ At(p, "locking")
  /\ buf_lock' = TRUE
  /\ Goto(p, "sending")
  /\ UNCHANGED <<node, dev_lock, static, given, rings, oops, history>>

(* rpmsg_send: a free buffer of vring 1 is filled, with the one byte of    *)
(* driver_buf whatever the count was, and the PRU kicked.                  *)
Send(p) ==
  /\ At(p, "sending") /\ node # "created" /\ Len(toPru) < Ring
  /\ toPru' = Append(toPru, p)
  /\ doorbell' = TRUE
  /\ Goto(p, "open") /\ given' = given \ {p}
  /\ UNCHANGED <<node, dev_lock, static, buf_lock, held, fromPru, recycling, fw, oops, history>>

(* No buffer became free within the fifteen seconds rpmsg_send waits. *)
SendTimeout(p) ==
  /\ At(p, "sending") /\ node # "created" /\ Len(toPru) = Ring
  /\ Goto(p, "failing") /\ given' = given \ {p}
  /\ UNCHANGED <<node, dev_lock, static, buf_lock, rings, oops, history>>

(* A file opened and written before the probe has set rpmsg_dev. *)
SendToNobody(p) ==
  /\ At(p, "sending") /\ node = "created"
  /\ oops' = TRUE
  /\ UNCHANGED <<files, buf_lock, rings, history>>

WriteFailed(p) ==
  /\ At(p, "failing")
  /\ buf_lock' = FALSE
  /\ Goto(p, "open")
  /\ UNCHANGED <<node, dev_lock, static, given, rings, oops, history>>

--------------------------------------------------------------------------------
(* The firmware: the event is cleared first, then vring 1 is emptied. *)
FwAnswerDoorbell ==
  /\ fw = "polling" /\ doorbell
  /\ doorbell' = FALSE
  /\ fw' = "emptying"
  /\ UNCHANGED <<files, buf_lock, toPru, held, fromPru, recycling, oops, history>>

FwReceive ==
  /\ fw = "emptying" /\ held = <<>> /\ toPru # <<>>
  /\ held' = <<Head(toPru)>>
  /\ toPru' = Tail(toPru)
  /\ UNCHANGED <<files, buf_lock, fromPru, recycling, doorbell, fw, oops, history>>

(* pru_rpmsg_send is tried once: without a buffer the echo is lost. *)
HasBuffer == Len(fromPru) + Recycling < Ring
FwEcho ==
  /\ held # <<>>
  /\ fromPru' = IF HasBuffer THEN fromPru \o held ELSE fromPru
  /\ held' = <<>>
  /\ UNCHANGED <<files, buf_lock, toPru, recycling, doorbell, fw, oops, history>>

(* Mutant: vring 1 need not be empty, as if a doorbell stood for a message. *)
FwEmptiedEarly ==
  /\ fw = "emptying" /\ held = <<>>
  /\ fw' = "polling"
  /\ UNCHANGED <<files, buf_lock, toPru, held, fromPru, recycling, doorbell, oops, history>>

FwEmptied ==
  /\ fw = "emptying" /\ held = <<>> /\ toPru = <<>>
  /\ fw' = "polling"
  /\ UNCHANGED <<files, buf_lock, toPru, held, fromPru, recycling, doorbell, oops, history>>

--------------------------------------------------------------------------------
(* With this message the last one is back, and no write is half way. *)
Settled == Len(UnderWay) = 1 /\ \A p \in Procs : pc[p] \notin InWrite

(* Mutant: the callback leaves the buffer locked. *)
CallbackKeeps ==
  /\ fromPru # <<>> /\ ~recycling /\ ~oops
  /\ fromPru' = Tail(fromPru)
  /\ recycling' = TRUE
  /\ abandoned' = (abandoned /\ ~Settled)
  /\ UNCHANGED <<files, buf_lock, toPru, held, doorbell, fw, oops, raced, unready>>

(* rpmsg_recv_single: the callback, if the channel has a driver, and then  *)
(* the buffer goes back.  The endpoint exists from the start of the probe, *)
(* the driver data the callback follows only from its end.                 *)
Callback ==
  /\ fromPru # <<>> /\ ~recycling /\ ~oops
  /\ fromPru' = Tail(fromPru)
  /\ recycling' = TRUE
  /\ buf_lock' = (buf_lock /\ node # "ready")
  /\ oops' = (node \in {"created", "linked"})
  /\ abandoned' = (abandoned /\ ~Settled)
  /\ UNCHANGED <<files, toPru, held, doorbell, fw, raced, unready>>

Recycle ==
  /\ recycling /\ ~oops
  /\ recycling' = FALSE
  /\ UNCHANGED <<files, buf_lock, toPru, held, fromPru, doorbell, fw, oops, history>>

--------------------------------------------------------------------------------
Probe == ProbeCreate \/ ProbeLink \/ ProbeReady
Writing(p) ==
  Copy(p) \/ WriteLock(p) \/ Send(p) \/ SendTimeout(p) \/ SendToNobody(p) \/ WriteFailed(p)
Call(p) == OpenCheck(p) \/ OpenSet(p) \/ WriteCheck(p) \/ Writing(p) \/ Release(p)
Fw == FwAnswerDoorbell \/ FwReceive \/ FwEcho \/ FwEmptied
Bus == Callback \/ Recycle

Next ==
  \/ Probe \/ Remove \/ Fw \/ Bus
  \/ \E p \in Procs : Call(p) \/ CallAfterRemove(p)

Spec == Init /\ [][Next]_vars

(* The firmware never stops polling, the kernel delivers what arrives, and *)
(* a probe or a write that has begun goes on.  Nobody has to open, write   *)
(* or close.                                                               *)
FairSpec ==
  /\ Spec
  /\ WF_vars(Fw) /\ WF_vars(Bus) /\ WF_vars(ProbeLink \/ ProbeReady)
  /\ \A p \in Procs : WF_vars(Writing(p))

--------------------------------------------------------------------------------
(* The types; no vring ever holds more than it has buffers. *)
TypeOK ==
  /\ node \in {"announced", "created", "linked", "ready", "removed"}
  /\ dev_lock \in BOOLEAN /\ buf_lock \in BOOLEAN
  /\ driver_buf \in Procs \cup {NoByte} /\ overrun \in BOOLEAN
  /\ pc \in [Procs -> {"closed", "opening", "open"} \cup InWrite]
  /\ given \subseteq Procs
  /\ toPru \in Seq(Message) /\ held \in Seq(Message) /\ fromPru \in Seq(Message)
  /\ Len(toPru) <= Ring /\ Len(held) <= 1
  /\ Len(fromPru) + Recycling <= Ring
  /\ recycling \in BOOLEAN /\ doorbell \in BOOLEAN /\ fw \in {"polling", "emptying"}
  /\ oops \in BOOLEAN /\ raced \in BOOLEAN /\ abandoned \in BOOLEAN
  /\ hasty \in BOOLEAN /\ stale \in BOOLEAN

(* buf_lock is never left behind: as long as it is set there is a message  *)
(* whose callback will clear it, or a write about to send one or to give   *)
(* up.  Echoes that found no buffer, races between two owners and stale    *)
(* echoes of earlier owners do not break it, since an echo is lost only    *)
(* behind others that still have to be delivered.                          *)
LockHasHolder ==
  buf_lock /\ node # "removed" /\ ~oops =>
    UnderWay # <<>> \/ Sending

(* What a write sends is the byte its caller gave it, if it gave one. *)
OwnByte ==
  \A p \in given : pc[p] \in {"locking", "sending"} => driver_buf = p

(* As long as no open tests dev_lock while another is between its test and *)
(* its store, one file is open at most, dev_lock says whether there is     *)
(* one, and a write that has a byte sends its own.  All files closed, the  *)
(* device is back in order.                                                *)
OwnerAlone ==
  ~raced /\ node # "removed" =>
    /\ Opened = {} <=> ~dev_lock
    /\ \A p, q \in Opened : p = q
    /\ OwnByte

(* A device with one owner, who has not closed it under a message: as long *)
(* as buf_lock is set there is exactly one message, of that owner, and     *)
(* while it is clear there is none: the lock alone orders the messages.    *)
OneUnderWay ==
  ~raced /\ ~abandoned /\ node # "removed" /\ ~oops =>
    /\ Len(UnderWay) = IF buf_lock /\ ~Sending THEN 1 ELSE 0
    /\ Senders \subseteq Opened

(* A bad pointer is followed for one of four reasons only: a file was      *)
(* opened while the probe had not ended, echoes of messages sent before    *)
(* the driver was reloaded arrived during its probe, the channel went away *)
(* under an open file, or a write of two bytes or more overran driver_buf. *)
(* No interleaving of open, close, callback and writes of one byte on a    *)
(* device whose probe has ended does it.                                   *)
OopsExplained == oops => hasty \/ stale \/ node = "removed" \/ overrun

(* A locked buffer is unlocked: every write that was accepted is answered  *)
(* or given up, unless the kernel follows a bad pointer first or the       *)
(* channel goes away.                                                      *)
LockReleased == buf_lock ~> (~buf_lock \/ oops \/ node = "removed")

--------------------------------------------------------------------------------
(* What the code does not keep; each has a cfg whose run shows how.        *)

(* One process at a time has the device open ("Failed to open already open *)
(* device").                                                               *)
OneOwner == \A p, q \in Opened : p = q

(* A message under way keeps the buffer locked ("Buffer is locked"). *)
LockCoversMessage == UnderWay # <<>> /\ node = "ready" => buf_lock

(* No call or callback follows a NULL or a freed pointer. *)
NoOops == ~oops
================================================================================
