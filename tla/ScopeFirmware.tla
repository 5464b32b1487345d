----------------------------- MODULE ScopeFirmware -----------------------------
(***************************************************************************)
(* The firmware as the ARM knows it: one device that takes one message for *)
(* each ring of its doorbell, does what a message asked for some time      *)
(* later, and hands over buffers for what it has sampled.  PruFirmware     *)
(* implements it with two cores; the firmware in BeaglescopeDriver is this *)
(* one with the steps of a message, and those of a sample, taken at once.  *)
(*                                                                         *)
(* A doorbell remembers one ring while another is being served, so that    *)
(* rings and due count to two.                                             *)
(***************************************************************************)
EXTENDS Naturals, Sequences

CONSTANTS
  Messages,      \* long ones with a read mode and a start bit, short ones without mode
  BlocksPerMsg,  \* blocks that fill a buffer
  NumBufs        \* buffers the ARM lends

VARIABLES
  inbox,    \* messages not taken
  rings,    \* rings of the doorbell not answered
  request,  \* the last message taken, and the ones before it as far as they count
  stored,   \* the request a Load would find
  pending,  \* the last request is not the one worked at yet
  work,     \* what is being sampled: nothing, one sample, block after block
  due,      \* samples or blocks that have not been looked at
  avail,    \* buffers at the firmware's disposal
  used,     \* buffers handed over
  count     \* blocks in the buffer that is being filled

bufVars == <<avail, used, count>>
vars == <<inbox, rings, request, stored, pending, work, due, bufVars>>

(* One buffer has been handed over: the announcement of the channel. *)
Init ==
  /\ inbox = <<>> /\ rings = 0
  /\ request = [mode |-> "raw", start |-> FALSE] /\ stored = request /\ pending = FALSE
  /\ work = "idle" /\ due = 0
  /\ avail = NumBufs - 1 /\ used = 1 /\ count = 0

(* The doorbell counts one more ring, or loses it to the one before. *)
OneMore(n) == {n, n + 1} \cap 1 .. 2

--------------------------------------------------------------------------------
(* The ARM adds a message, rings, and gives a buffer back, which rings. *)
Ask(m) ==
  /\ inbox' = Append(inbox, m)
  /\ UNCHANGED <<rings, request, stored, pending, work, due, bufVars>>

Ring ==
  /\ rings' \in OneMore(rings)
  /\ UNCHANGED <<inbox, request, stored, pending, work, due, bufVars>>

Recycle ==
  /\ used > 0 /\ used' = used - 1 /\ avail' = avail + 1
  /\ rings' \in OneMore(rings)
  /\ UNCHANGED <<inbox, request, stored, pending, work, due, count>>

(* One message for each ring; a short one does not change the mode. *)
Take ==
  /\ rings > 0 /\ rings' = rings - 1
  /\ IF inbox = <<>>
     THEN UNCHANGED <<inbox, request, pending>>
     ELSE LET m == Head(inbox)
          IN  /\ request' = [mode  |-> IF m.len = "long" THEN m.mode ELSE request.mode,
                             start |-> m.start]
              /\ pending' = TRUE
              /\ inbox' = Tail(inbox)
  /\ UNCHANGED <<stored, work, due, bufVars>>

(* A request is worked at some time later, and what was worked at before   *)
(* is given up; a Load in between may find either of the two.              *)
Store ==
  /\ pending /\ stored' = request
  /\ UNCHANGED <<inbox, rings, request, pending, work, due, bufVars>>

GiveUp ==
  /\ pending /\ work' = "idle"
  /\ UNCHANGED <<inbox, rings, request, stored, pending, due, bufVars>>

Wanted(r) == IF r.mode = "raw" THEN "raw" ELSE IF r.start THEN "block" ELSE "idle"

Load ==
  /\ pending /\ work = "idle" /\ work' = Wanted(stored)
  /\ pending' \in {TRUE, stored # request}
  /\ UNCHANGED <<inbox, rings, request, stored, due, bufVars>>

(* A sample, or one more block. *)
Sample ==
  /\ work # "idle" /\ due' \in OneMore(due)
  /\ work' = IF work = "raw" THEN "idle" ELSE work
  /\ UNCHANGED <<inbox, rings, request, stored, pending, bufVars>>

(* It is handed over in the way of the last request: a sample in a buffer  *)
(* of its own, a block with the others that fill one.  Without a buffer it *)
(* is dropped.                                                             *)
SampleOut ==
  /\ request.mode = "raw" /\ avail > 0
  /\ avail' = avail - 1 /\ used' = used + 1 /\ UNCHANGED count

BlockOut ==
  /\ request.mode = "block" /\ (avail > 0 \/ count > 0)
  /\ avail' = IF count = 0 THEN avail - 1 ELSE avail
  /\ count' = IF count + 1 < BlocksPerMsg THEN count + 1 ELSE 0
  /\ used' = IF count + 1 < BlocksPerMsg THEN used ELSE used + 1

Dropped ==
  /\ avail = 0 /\ (request.mode = "block" => count = 0)
  /\ UNCHANGED bufVars

HandOver ==
  /\ due > 0 /\ due' = due - 1
  /\ SampleOut \/ BlockOut \/ Dropped
  /\ UNCHANGED <<inbox, rings, request, stored, pending, work>>

Next ==
  \/ \E m \in Messages : Ask(m)
  \/ Ring \/ Recycle \/ Take \/ Store \/ GiveUp \/ Load \/ Sample \/ HandOver

Spec == Init /\ [][Next]_vars

--------------------------------------------------------------------------------
(* Once a request is no longer pending, nothing is sampled but what it     *)
(* asks for: after a stop, nothing, and two blocks at most are still due.  *)
InForce == ~pending => work \in {"idle", Wanted(request)}
================================================================================
