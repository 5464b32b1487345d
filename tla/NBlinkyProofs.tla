----------------------------- MODULE NBlinkyProofs -----------------------------
(***************************************************************************)
(* Safety of the n-blinky device and its firmware for every set of         *)
(* processes and every number of buffers, two or more.                     *)
(***************************************************************************)
EXTENDS NBlinky, TLAPS

USE NBlinkyAssumption

LEMMA RecyclingType ==
  /\ Recycling \in 0 .. 1
  /\ recycling' = recycling => Recycling' = Recycling
BY DEF Recycling

(* The messages under way are those of the three places. *)
LEMMA UnderWayLen ==
  ASSUME TypeOK
  PROVE  /\ Len(UnderWay) = Len(fromPru) + Len(held) + Len(toPru)
         /\ UnderWay = <<>> <=> fromPru = <<>> /\ held = <<>> /\ toPru = <<>>
BY DEF TypeOK, UnderWay, Message

(* The types hold: no vring overflows, since a send waits for a buffer and *)
(* an echo without one is dropped.                                         *)
LEMMA TypeInit == Init => TypeOK
<1> SUFFICES ASSUME Init PROVE TypeOK
  OBVIOUS
<1>1. Len(fromPru) + Recycling <= Ring
  BY DEF Init, Recycling
<1>2. toPru \in Seq(Message) /\ held \in Seq(Message) /\ fromPru \in Seq(Message)
  BY DEF Init
<1>3. Len(toPru) <= Ring /\ Len(held) <= 1
  BY DEF Init
<1>4. given \subseteq Procs
  BY DEF Init
<1> QED  BY <1>1, <1>2, <1>3, <1>4 DEF Init, TypeOK, InWrite

LEMMA TypeNext == TypeOK /\ [Next]_vars => TypeOK'
<1> SUFFICES ASSUME TypeOK, [Next]_vars PROVE TypeOK'
  OBVIOUS
<1> USE RecyclingType
    DEF TypeOK, Goto, OnlyGoto, At, static, files, rings, history, unready,
        Message, InWrite
<1>1. CASE Probe
  BY <1>1 DEF Probe, ProbeCreate, ProbeLink, ProbeReady
<1>2. CASE Remove
  BY <1>2 DEF Remove
<1>3. ASSUME NEW p \in Procs, Call(p) \/ CallAfterRemove(p) PROVE TypeOK'
  <2>1. CASE OpenCheck(p) \/ OpenSet(p)
    <3>1. CASE OpenCheck(p)
      BY <3>1 DEF OpenCheck
    <3>2. CASE OpenSet(p)
      BY <3>2 DEF OpenSet
    <3> QED  BY <2>1, <3>1, <3>2
  <2>2. CASE WriteCheck(p) \/ Release(p) \/ CallAfterRemove(p)
    <3>1. CASE WriteCheck(p)
      BY <3>1 DEF WriteCheck
    <3>2. CASE Release(p)
      BY <3>2 DEF Release
    <3>3. CASE CallAfterRemove(p)
      BY <3>3 DEF CallAfterRemove
    <3> QED  BY <2>2, <3>1, <3>2, <3>3
  <2>5. CASE WriteLock(p) \/ WriteFailed(p)
    <3>1. CASE WriteLock(p)
      BY <3>1 DEF WriteLock
    <3>2. CASE WriteFailed(p)
      BY <3>2 DEF WriteFailed
    <3> QED  BY <2>5, <3>1, <3>2
  <2>6. CASE SendTimeout(p) \/ SendToNobody(p)
    <3>1. CASE SendTimeout(p)
      BY <3>1 DEF SendTimeout
    <3>2. CASE SendToNobody(p)
      BY <3>2 DEF SendToNobody
    <3> QED  BY <2>6, <3>1, <3>2
  <2>3. CASE Send(p)
    <3>1. toPru' \in Seq(Message) /\ Len(toPru') <= Ring
      BY <2>3 DEF Send
    <3>2. given' \subseteq Procs
      BY <2>3 DEF Send
    <3> QED  BY <2>3, <3>1, <3>2 DEF Send
  <2>4. CASE Copy(p)
    <3>1. driver_buf' \in Procs \cup {NoByte} /\ given' \subseteq Procs
      BY <2>4 DEF Copy
    <3>2. overrun' \in BOOLEAN /\ (Goto(p, "locking") \/ Goto(p, "open"))
      BY <2>4 DEF Copy
    <3> QED  BY <2>4, <3>1, <3>2 DEF Copy
  <2> QED  BY <1>3, <2>1, <2>2, <2>3, <2>4, <2>5, <2>6 DEF Call, Writing
<1>4. CASE Fw
  <2>1. CASE FwEcho
    <3>1. fromPru' \in Seq(Message) /\ Len(fromPru') + Recycling <= Ring
      <4>1. CASE HasBuffer
        <5>1. Len(fromPru \o held) = Len(fromPru) + Len(held)
          OBVIOUS
        <5> QED  BY <2>1, <4>1, <5>1 DEF FwEcho, HasBuffer
      <4> QED  BY <2>1, <4>1 DEF FwEcho
    <3> QED  BY <2>1, <3>1 DEF FwEcho
  <2>2. CASE FwReceive
    <3>1. /\ held' \in Seq(Message) /\ Len(held') = 1
          /\ toPru' \in Seq(Message) /\ Len(toPru') <= Ring
      BY <2>2 DEF FwReceive
    <3> QED  BY <2>2, <3>1 DEF FwReceive
  <2>3. CASE FwAnswerDoorbell
    BY <2>3 DEF FwAnswerDoorbell
  <2>4. CASE FwEmptied
    BY <2>4 DEF FwEmptied
  <2> QED  BY <1>4, <2>1, <2>2, <2>3, <2>4 DEF Fw
<1>5. CASE Bus
  <2>1. CASE Callback
    <3>1. fromPru' \in Seq(Message) /\ Len(fromPru') = Len(fromPru) - 1
      BY <2>1 DEF Callback
    <3>2. oops' \in BOOLEAN /\ buf_lock' \in BOOLEAN /\ abandoned' \in BOOLEAN
      BY <2>1 DEF Callback
    <3> QED  BY <2>1, <3>1, <3>2 DEF Callback, Recycling
  <2>2. CASE Recycle
    <3>1. Len(fromPru) + Recycling' <= Ring
      BY <2>2 DEF Recycle, Recycling
    <3> QED  BY <2>2, <3>1 DEF Recycle
  <2> QED  BY <1>5, <2>1, <2>2 DEF Bus
<1>6. CASE UNCHANGED vars
  BY <1>6 DEF vars
<1> QED  BY <1>1, <1>2, <1>3, <1>4, <1>5, <1>6 DEF Next

(* The set of variables keeps its types, for every Procs and Ring.         *)
THEOREM TypeCorrect == Spec => []TypeOK
BY TypeInit, TypeNext, PTL DEF Spec

--------------------------------------------------------------------------------
(* The buffer lock.  It is set only while somebody has the device open,    *)
(* and a channel without a driver has no open file: so an echo that finds  *)
(* no driver is nobody's.                                                  *)
ClosedWhenAnnounced == node = "announced" => \A p \in Procs : pc[p] = "closed"
LockOpened == buf_lock => Opened # {}
LockInv == ClosedWhenAnnounced /\ LockOpened /\ LockHasHolder

(* A race excepted, one process at most is past the test of dev_lock, and  *)
(* no other than it opens, writes or closes.                               *)
OnePasses == ~raced => \A p, q \in Procs : pc[p] # "closed" /\ pc[q] # "closed" => p = q
OwnerInv == ClosedWhenAnnounced /\ OnePasses /\ OwnerAlone

(* While the messages are in order, a write that has seen the lock free    *)
(* finds it free, and none fails.                                          *)
Clean == ~raced /\ ~abandoned /\ node # "removed" /\ ~oops
WriteAlone ==
  Clean => \A p \in Procs : /\ pc[p] \in {"copying", "locking"} => ~buf_lock
                            /\ pc[p] = "sending" => buf_lock
                            /\ pc[p] # "failing"
OneInv == OwnerInv /\ LockOpened /\ WriteAlone /\ OneUnderWay

(* What each kind of step leaves alone or changes.                         *)
LEMMA GotoEffect ==
  ASSUME TypeOK, NEW p \in Procs, NEW l, Goto(p, l)
  PROVE  pc'[p] = l /\ \A q \in Procs : q # p => pc'[q] = pc[q]
BY DEF TypeOK, Goto

LEMMA UnderWayLenNext ==
  ASSUME TypeOK'
  PROVE  /\ Len(UnderWay') = Len(fromPru') + Len(held') + Len(toPru')
         /\ UnderWay' = <<>> <=> fromPru' = <<>> /\ held' = <<>> /\ toPru' = <<>>
BY DEF TypeOK, UnderWay, Message

(* A step on the rings leaves something under way, but for the callback:   *)
(* an echo is lost only while an earlier one still is.                     *)
LEMMA StaysUnderWay ==
  ASSUME TypeOK, TypeOK'
  PROVE  /\ Fw => (UnderWay' = <<>> <=> UnderWay = <<>>)
         /\ \A p \in Procs : Send(p) => UnderWay' # <<>>
<1> USE UnderWayLen, UnderWayLenNext DEF TypeOK, Message
<1>1. FwReceive => (UnderWay' = <<>> <=> UnderWay = <<>>)
  BY DEF FwReceive
<1>2. ASSUME FwEcho PROVE UnderWay' = <<>> <=> UnderWay = <<>>
  <2>1. CASE HasBuffer
    BY <1>2, <2>1 DEF FwEcho
  <2>2. CASE ~HasBuffer
    <3>1. Len(fromPru) >= 1
      BY <2>2, RecyclingType DEF HasBuffer
    <3> QED  BY <1>2, <2>2, <3>1 DEF FwEcho
  <2> QED  BY <2>1, <2>2
<1>3. FwAnswerDoorbell \/ FwEmptied => (UnderWay' = <<>> <=> UnderWay = <<>>)
  BY DEF FwAnswerDoorbell, FwEmptied
<1>4. ASSUME NEW p \in Procs, Send(p) PROVE UnderWay' # <<>>
  BY <1>4 DEF Send
<1> QED  BY <1>1, <1>2, <1>3, <1>4 DEF Fw

LEMMA LockInit == Init => LockInv
BY DEF Init, LockInv, ClosedWhenAnnounced, LockOpened, LockHasHolder

LEMMA LockNext == TypeOK /\ TypeOK' /\ LockInv /\ [Next]_vars => LockInv'
<1> SUFFICES ASSUME TypeOK, TypeOK', LockInv, [Next]_vars
             PROVE  ClosedWhenAnnounced' /\ LockOpened' /\ LockHasHolder'
  BY DEF LockInv
<1> USE DEF LockInv, ClosedWhenAnnounced, LockOpened, LockHasHolder, Opened, Sending, InWrite
<1>1. ASSUME NEW p \in Procs, Call(p)
      PROVE  ClosedWhenAnnounced' /\ LockOpened' /\ LockHasHolder'
  <2>1. CASE OpenCheck(p) \/ WriteCheck(p) \/ SendTimeout(p)
    BY <2>1, GotoEffect DEF OpenCheck, WriteCheck, SendTimeout, OnlyGoto, At, rings, UnderWay
  <2>2. CASE OpenSet(p)
    BY <2>2, GotoEffect DEF OpenSet, At, rings, UnderWay
  <2>3. CASE Release(p) \/ WriteFailed(p)
    BY <2>3, GotoEffect DEF Release, WriteFailed, At
  <2>4. CASE Copy(p)
    BY <2>4, GotoEffect DEF Copy, At, rings, UnderWay
  <2>5. CASE WriteLock(p)
    BY <2>5, GotoEffect DEF WriteLock, At
  <2>6. CASE Send(p)
    BY <2>6, GotoEffect, StaysUnderWay DEF Send, At
  <2>7. CASE SendToNobody(p)
    BY <2>7 DEF SendToNobody, files
  <2> QED  BY <1>1, <2>1, <2>2, <2>3, <2>4, <2>5, <2>6, <2>7 DEF Call, Writing
<1>2. CASE Fw
  <2>1. UNCHANGED <<node, pc, buf_lock, oops>>
    BY <1>2 DEF Fw, FwAnswerDoorbell, FwReceive, FwEcho, FwEmptied, files
  <2> QED  BY <1>2, <2>1, StaysUnderWay
<1>3. CASE Callback
  BY <1>3 DEF Callback, files, TypeOK
<1>4. CASE Recycle \/ UNCHANGED vars
  BY <1>4 DEF Recycle, vars, files, rings, UnderWay
<1>5. CASE Probe
  <2>1. CASE ProbeCreate
    BY <2>1 DEF ProbeCreate
  <2>2. CASE ProbeLink \/ ProbeReady
    BY <2>2 DEF ProbeLink, ProbeReady, rings, UnderWay
  <2> QED  BY <1>5, <2>1, <2>2 DEF Probe
<1>6. CASE Remove
  BY <1>6 DEF Remove, rings, UnderWay
<1>7. ASSUME NEW p \in Procs, CallAfterRemove(p)
      PROVE  ClosedWhenAnnounced' /\ LockOpened' /\ LockHasHolder'
  BY <1>7 DEF CallAfterRemove, files
<1> QED  BY <1>1, <1>2, <1>3, <1>4, <1>5, <1>6, <1>7 DEF Next, Bus

(* buf_lock is never left behind: every locked state has a message whose   *)
(* callback unlocks it, or a write on its way to send one.                 *)
THEOREM LockNeverStranded == Spec => []LockHasHolder
<1>1. LockInv => LockHasHolder
  BY DEF LockInv
<1> QED  BY <1>1, TypeInit, TypeNext, LockInit, LockNext, PTL DEF Spec

--------------------------------------------------------------------------------
(* One owner. *)
LEMMA OwnerInit == Init => OwnerInv
BY DEF Init, OwnerInv, ClosedWhenAnnounced, OnePasses, OwnerAlone, OwnByte, Opened, InWrite

LEMMA OwnerNext == TypeOK /\ OwnerInv /\ [Next]_vars => OwnerInv'
<1> SUFFICES ASSUME TypeOK, OwnerInv, [Next]_vars
             PROVE  ClosedWhenAnnounced' /\ OnePasses' /\ OwnerAlone'
  BY DEF OwnerInv
<1> USE DEF OwnerInv, ClosedWhenAnnounced, OnePasses, OwnerAlone, OwnByte, Opened, InWrite, static,
           TypeOK
<1>1. ASSUME NEW p \in Procs, Call(p) PROVE ClosedWhenAnnounced' /\ OnePasses' /\ OwnerAlone'
  <2>1. CASE OpenCheck(p)
    <3>1. UNCHANGED <<node, dev_lock, driver_buf, given>> /\ ~dev_lock /\ node # "announced"
      BY <2>1 DEF OpenCheck, At
    <3>2. pc[p] = "closed" /\ pc'[p] = "opening" /\ \A q \in Procs : q # p => pc'[q] = pc[q]
      BY <2>1, GotoEffect DEF OpenCheck, At
    <3>3. ~raced' => ~raced /\ \A q \in Procs : q # p => pc[q] # "opening"
      BY <2>1 DEF OpenCheck, Overtaking
    <3>4. ~raced' /\ node # "removed" => \A q \in Procs : pc[q] = "closed"
      BY <3>1, <3>2, <3>3
    <3>5. OnePasses'
      <4>1. CASE node = "removed"
        BY <2>1, <4>1 DEF OpenCheck, At
      <4> QED  BY <3>2, <3>4, <4>1
    <3> QED  BY <3>1, <3>2, <3>4, <3>5
  <2>2. CASE OpenSet(p)
    <3>1. UNCHANGED <<node, driver_buf, given, raced>> /\ dev_lock'
      BY <2>2 DEF OpenSet, history
    <3>2. pc[p] = "opening" /\ pc'[p] = "open" /\ \A q \in Procs : q # p => pc'[q] = pc[q]
      BY <2>2, GotoEffect DEF OpenSet, At
    <3> QED  BY <3>1, <3>2
  <2>3. CASE Release(p)
    <3>1. pc[p] = "open" /\ pc'[p] = "closed" /\ \A q \in Procs : q # p => pc'[q] = pc[q]
      BY <2>3, GotoEffect DEF Release, At
    <3>2. ~raced' => \A q \in Procs : pc'[q] = "closed"
      <4>1. CASE ~raced
        BY <3>1, <4>1
      <4>2. CASE raced
        BY <2>3, <3>1, <4>2 DEF Release
      <4> QED  BY <4>1, <4>2
    <3>3. UNCHANGED <<node, driver_buf, given>> /\ ~dev_lock'
      BY <2>3 DEF Release
    <3> QED  BY <3>1, <3>2, <3>3
  <2>4. CASE WriteCheck(p) \/ SendTimeout(p)
    BY <2>4, GotoEffect DEF WriteCheck, SendTimeout, OnlyGoto, At, history
  <2>5. CASE Copy(p)
    <3>1. UNCHANGED <<node, dev_lock, raced>>
      BY <2>5 DEF Copy, history
    <3>2. /\ pc[p] = "copying" /\ pc'[p] \in {"locking", "open"}
          /\ \A q \in Procs : q # p => pc'[q] = pc[q]
      BY <2>5, GotoEffect DEF Copy, At
    <3>3. \/ driver_buf' = driver_buf /\ given' = given \ {p}
          \/ driver_buf' = p /\ given' = given \cup {p}
          \/ pc'[p] = "open" /\ given' = given
      BY <2>5, GotoEffect DEF Copy, At
    <3>4. ClosedWhenAnnounced' /\ OnePasses'
      BY <3>1, <3>2
    <3>5. Opened' = Opened
      BY <3>2
    <3>6. ~raced' => OwnByte'
      BY <3>1, <3>2, <3>3
    <3> QED  BY <3>1, <3>4, <3>5, <3>6
  <2>6. CASE WriteLock(p) \/ WriteFailed(p)
    BY <2>6, GotoEffect DEF WriteLock, WriteFailed, At, history
  <2>8. CASE Send(p)
    <3>1. UNCHANGED <<node, dev_lock, driver_buf, raced>> /\ given' = given \ {p}
      BY <2>8 DEF Send, history
    <3>2. pc[p] = "sending" /\ pc'[p] = "open" /\ \A q \in Procs : q # p => pc'[q] = pc[q]
      BY <2>8, GotoEffect DEF Send, At
    <3> QED  BY <3>1, <3>2
  <2>7. CASE SendToNobody(p)
    BY <2>7 DEF SendToNobody, files, history
  <2> QED  BY <1>1, <2>1, <2>2, <2>3, <2>4, <2>5, <2>6, <2>7, <2>8 DEF Call, Writing
<1>2. CASE Fw \/ Bus \/ UNCHANGED vars
  BY <1>2 DEF Fw, FwAnswerDoorbell, FwReceive, FwEcho, FwEmptied, Bus, Callback, Recycle,
              vars, files, history
<1>3. CASE Probe
  <2>1. CASE ProbeCreate
    BY <2>1 DEF ProbeCreate
  <2>2. CASE ProbeLink \/ ProbeReady
    BY <2>2 DEF ProbeLink, ProbeReady, history
  <2> QED  BY <1>3, <2>1, <2>2 DEF Probe
<1>4. CASE Remove
  BY <1>4 DEF Remove, history
<1>5. ASSUME NEW p \in Procs, CallAfterRemove(p) PROVE ClosedWhenAnnounced' /\ OnePasses' /\ OwnerAlone'
  BY <1>5 DEF CallAfterRemove, files, history
<1> QED  BY <1>1, <1>2, <1>3, <1>4, <1>5 DEF Next

(* Only an open that tests dev_lock while another is between its test and  *)
(* its store lets a second owner in, and only until all files are closed;  *)
(* the test turns every other away.  Without a race every write that has a *)
(* byte sends its own.                                                     *)
THEOREM OneOwnerUnlessRaced == Spec => []OwnerAlone
<1>1. OwnerInv => OwnerAlone
  BY DEF OwnerInv
<1> QED  BY <1>1, TypeInit, TypeNext, OwnerInit, OwnerNext, PTL DEF Spec

--------------------------------------------------------------------------------
(* One message.  The messages of the three places, as numbers and senders. *)
LEMMA SendersMove ==
  ASSUME TypeOK
  PROVE  /\ Fw => Senders' \subseteq Senders
         /\ Callback => Senders' \subseteq Senders
         /\ \A p \in Procs : Send(p) => Senders' \subseteq Senders \cup {p}
<1> USE DEF TypeOK, Message, Senders, Range
<1>1. FwReceive => Senders' \subseteq Senders
  BY DEF FwReceive
<1>2. FwEcho => Senders' \subseteq Senders
  BY DEF FwEcho
<1>3. FwAnswerDoorbell \/ FwEmptied => Senders' \subseteq Senders
  BY DEF FwAnswerDoorbell, FwEmptied
<1>4. Callback => Senders' \subseteq Senders
  BY DEF Callback
<1>5. \A p \in Procs : Send(p) => Senders' \subseteq Senders \cup {p}
  BY DEF Send
<1> QED  BY <1>1, <1>2, <1>3, <1>4, <1>5 DEF Fw

LEMMA OnlyTheMiddle ==
  \A a, b, c \in Nat : a + b + c \in 0 .. 1 /\ b # 0 => a = 0 /\ b = 1 /\ c = 0
OBVIOUS

LEMMA UnderWayCount ==
  ASSUME TypeOK, TypeOK'
  PROVE  /\ Len(UnderWay) \in Nat
         /\ Fw /\ Len(UnderWay) \in 0 .. 1 => Len(UnderWay') = Len(UnderWay)
         /\ \A p \in Procs : Send(p) => Len(UnderWay') = Len(UnderWay) + 1
         /\ Callback => Len(UnderWay') = Len(UnderWay) - 1
<1>0. /\ Len(UnderWay) = Len(fromPru) + Len(held) + Len(toPru)
      /\ Len(UnderWay') = Len(fromPru') + Len(held') + Len(toPru')
      /\ Len(fromPru) \in Nat /\ Len(held) \in Nat /\ Len(toPru) \in Nat
  BY UnderWayLen, UnderWayLenNext DEF TypeOK
<1>1. Len(UnderWay) \in Nat
  BY <1>0
<1>2. FwReceive => Len(UnderWay') = Len(UnderWay)
  BY <1>0 DEF FwReceive, TypeOK, Message
<1>3. ASSUME FwEcho, Len(UnderWay) \in 0 .. 1 PROVE Len(UnderWay') = Len(UnderWay)
  <2>1. Len(held) # 0
    BY <1>3 DEF FwEcho, TypeOK
  <2>2. Len(held) = 1 /\ Len(fromPru) = 0 /\ Len(toPru) = 0
    <3>1. Len(fromPru) + Len(held) + Len(toPru) \in 0 .. 1
      BY <1>0, <1>3
    <3> QED  BY <1>0, <2>1, <3>1, OnlyTheMiddle
  <2>3. HasBuffer
    BY <2>2, RecyclingType DEF HasBuffer
  <2>4. Len(fromPru') = Len(fromPru) + Len(held) /\ held' = <<>> /\ toPru' = toPru
    BY <1>3, <2>3 DEF FwEcho, TypeOK
  <2> QED  BY <1>0, <2>2, <2>4
<1>4. FwAnswerDoorbell \/ FwEmptied => Len(UnderWay') = Len(UnderWay)
  BY <1>0 DEF FwAnswerDoorbell, FwEmptied
<1>5. \A p \in Procs : Send(p) => Len(UnderWay') = Len(UnderWay) + 1
  BY <1>0 DEF Send, TypeOK, Message
<1>6. Callback => Len(UnderWay') = Len(UnderWay) - 1
  BY <1>0 DEF Callback, TypeOK, Message
<1> QED  BY <1>1, <1>2, <1>3, <1>4, <1>5, <1>6 DEF Fw

(* In order, there is one message at most. *)
LEMMA AtMostOne == TypeOK /\ OneUnderWay /\ Clean => Len(UnderWay) \in 0 .. 1
BY DEF OneUnderWay, Clean

(* A send that finds no buffer has two messages, or more, before it. *)
LEMMA FullRing ==
  ASSUME TypeOK, NEW p \in Procs, SendTimeout(p)
  PROVE  Len(UnderWay) \notin 0 .. 1
<1>1. Len(toPru) = Ring
  BY DEF SendTimeout
<1>2. Len(UnderWay) = Len(fromPru) + Len(held) + Ring
  BY <1>1, UnderWayLen
<1>3. Len(fromPru) \in Nat /\ Len(held) \in Nat
  BY DEF TypeOK
<1> QED  BY <1>2, <1>3

LEMMA NothingUnderWay ==
  /\ TypeOK /\ Len(UnderWay) = 0 => Senders = {}
  /\ TypeOK' /\ Len(UnderWay') = 0 => Senders' = {}
BY UnderWayLen, UnderWayLenNext DEF TypeOK, Message, Senders, Range

LEMMA OneInit == Init => OneInv
<1> SUFFICES ASSUME Init PROVE OneInv
  OBVIOUS
<1>1. UnderWay = <<>> /\ Senders = {}
  BY DEF Init, UnderWay, Senders, Range
<1> QED
  BY <1>1, OwnerInit DEF Init, OneInv, LockOpened, WriteAlone, OneUnderWay, Clean

LEMMA OneNext == TypeOK /\ TypeOK' /\ OneInv /\ [Next]_vars => OneInv'
<1> SUFFICES ASSUME TypeOK, TypeOK', OneInv, [Next]_vars, OwnerInv'
             PROVE  LockOpened' /\ WriteAlone' /\ OneUnderWay'
  BY OwnerNext DEF OneInv
<1>a. Fw /\ Clean => Len(UnderWay') = Len(UnderWay)
  <2> SUFFICES ASSUME Fw, Clean PROVE Len(UnderWay') = Len(UnderWay)
    OBVIOUS
  <2>1. Len(UnderWay) \in 0 .. 1
    BY AtMostOne DEF OneInv
  <2> QED  BY <2>1, UnderWayCount
<1>b. Callback /\ Clean => Len(UnderWay) = 1
  <2>1. Callback => Len(UnderWay) # 0
    BY UnderWayLen DEF Callback, TypeOK
  <2> QED  BY <2>1, AtMostOne DEF OneInv
<1> USE DEF OneInv, OwnerInv, OnePasses, ClosedWhenAnnounced, OwnerAlone, OwnByte, LockOpened, WriteAlone,
        OneUnderWay, Clean, Opened, Sending, InWrite, static
<1>1. ASSUME NEW p \in Procs, Call(p) PROVE LockOpened' /\ WriteAlone' /\ OneUnderWay'
  <2>1. CASE OpenCheck(p)
    <3>1. UnderWay' = UnderWay /\ Senders' = Senders
      BY <2>1 DEF OpenCheck, rings, UnderWay, Senders
    <3>2. UNCHANGED <<node, buf_lock, oops, abandoned>> /\ (~raced' => ~raced)
      BY <2>1 DEF OpenCheck
    <3>3. pc[p] = "closed" /\ pc'[p] = "opening" /\ \A q \in Procs : q # p => pc'[q] = pc[q]
      BY <2>1, GotoEffect DEF OpenCheck, At
    <3> QED  BY <3>1, <3>2, <3>3
  <2>10. CASE WriteCheck(p)
    <3>1. UnderWay' = UnderWay /\ Senders' = Senders
      BY <2>10 DEF WriteCheck, OnlyGoto, rings, UnderWay, Senders
    <3>2. UNCHANGED <<node, buf_lock, oops, abandoned, raced>> /\ ~buf_lock
      BY <2>10 DEF WriteCheck, OnlyGoto, history
    <3>3. pc[p] = "open" /\ pc'[p] = "copying" /\ \A q \in Procs : q # p => pc'[q] = pc[q]
      BY <2>10, GotoEffect DEF WriteCheck, OnlyGoto, At
    <3> QED  BY <3>1, <3>2, <3>3
  <2>2. CASE OpenSet(p)
    <3>1. UnderWay' = UnderWay /\ Senders' = Senders
      BY <2>2 DEF OpenSet, rings, UnderWay, Senders
    <3>2. UNCHANGED <<node, buf_lock, oops, abandoned, raced>>
      BY <2>2 DEF OpenSet, history
    <3>3. pc[p] = "opening" /\ pc'[p] = "open" /\ \A q \in Procs : q # p => pc'[q] = pc[q]
      BY <2>2, GotoEffect DEF OpenSet, At
    <3> QED  BY <3>1, <3>2, <3>3
  <2>3. CASE Release(p)
    <3>1. UnderWay' = UnderWay /\ Senders' = Senders
      BY <2>3 DEF Release, rings, UnderWay, Senders
    <3>2. ~abandoned' => Len(UnderWay) = 0 /\ Senders = {}
      BY <2>3, NothingUnderWay DEF Release
    <3>3. ~raced' => \A q \in Procs : pc'[q] \in {"closed", "opening"}
      BY <2>3, GotoEffect DEF Release, At, TypeOK
    <3> QED  BY <2>3, <3>1, <3>2, <3>3, GotoEffect DEF Release, At
  <2>4. CASE Copy(p)
    <3>1. UnderWay' = UnderWay /\ Senders' = Senders
      BY <2>4 DEF Copy, rings, UnderWay, Senders
    <3> QED  BY <2>4, <3>1, GotoEffect DEF Copy, At, history
  <2>5. CASE WriteLock(p)
    <3>1. UnderWay' = UnderWay /\ Senders' = Senders
      BY <2>5 DEF WriteLock, rings, UnderWay, Senders
    <3> QED  BY <2>5, <3>1, GotoEffect DEF WriteLock, At, history
  <2>6. CASE Send(p)
    <3>1. Len(UnderWay') = Len(UnderWay) + 1 /\ Senders' \subseteq Senders \cup {p}
      BY <2>6, UnderWayCount, SendersMove
    <3> QED  BY <2>6, <3>1, GotoEffect DEF Send, At, history
  <2>7. CASE SendTimeout(p)
    <3>1. Len(UnderWay) \notin 0 .. 1
      BY <2>7, FullRing
    <3>2. ~Clean
      BY <3>1, AtMostOne
    <3> QED  BY <2>7, <3>2, GotoEffect DEF SendTimeout, At, history, rings, UnderWay, Senders
  <2>8. CASE SendToNobody(p)
    BY <2>8 DEF SendToNobody, files
  <2>9. CASE WriteFailed(p)
    BY <2>9, GotoEffect DEF WriteFailed, At, history
  <2> QED
    BY <1>1, <2>1, <2>2, <2>3, <2>4, <2>5, <2>6, <2>7, <2>8, <2>9, <2>10 DEF Call, Writing
<1>2. CASE Fw
  <2>1. UNCHANGED <<node, pc, buf_lock, oops, raced, abandoned>>
    BY <1>2 DEF Fw, FwAnswerDoorbell, FwReceive, FwEcho, FwEmptied, files, history
  <2>2. Clean => Len(UnderWay') = Len(UnderWay)
    BY <1>2, <1>a
  <2> QED  BY <1>2, <2>1, <2>2, SendersMove
<1>3. CASE Callback
  <2>1. Len(UnderWay') = Len(UnderWay) - 1 /\ Senders' \subseteq Senders
    BY <1>3, UnderWayCount, SendersMove
  <2>2. Len(UnderWay') = 0 => Senders' = {}
    BY NothingUnderWay
  <2>3. UNCHANGED <<node, pc, raced>> /\ (buf_lock' => buf_lock)
    BY <1>3 DEF Callback, files, TypeOK
  <2>4. ASSUME Clean'
        PROVE  Len(UnderWay') = 0 /\ ~buf_lock' /\ \A p \in Procs : ~(pc[p] \in {"sending", "failing"})
    <3>1. ~buf_lock'
      BY <1>3, <2>4 DEF Callback, files, TypeOK
    <3>2. CASE Clean
      BY <1>3, <1>b, <2>1, <3>1, <3>2
    <3>3. CASE Settled
      BY <2>1, <3>1, <3>3 DEF Settled
    <3>4. ~(abandoned /\ ~Settled)
      BY <1>3, <2>4 DEF Callback
    <3>5. Clean \/ Settled
      BY <1>3, <2>3, <2>4, <3>4 DEF Callback
    <3> QED  BY <3>2, <3>3, <3>5
  <2> QED  BY <2>2, <2>3, <2>4
<1>4. CASE Recycle \/ UNCHANGED vars
  <2>1. UnderWay' = UnderWay /\ Senders' = Senders
    BY <1>4 DEF Recycle, vars, rings, UnderWay, Senders
  <2> QED  BY <1>4, <2>1 DEF Recycle, vars, files, history
<1>5. CASE Probe \/ Remove
  <2>1. UnderWay' = UnderWay /\ Senders' = Senders
    BY <1>5 DEF Probe, ProbeCreate, ProbeLink, ProbeReady, Remove, rings,
                UnderWay, Senders
  <2>2. CASE ProbeCreate
    BY <2>1, <2>2 DEF ProbeCreate
  <2>3. CASE ProbeLink \/ ProbeReady
    BY <2>1, <2>3 DEF ProbeLink, ProbeReady, history
  <2>4. CASE Remove
    BY <2>1, <2>4 DEF Remove, history
  <2> QED  BY <1>5, <2>2, <2>3, <2>4 DEF Probe
<1>6. ASSUME NEW p \in Procs, CallAfterRemove(p)
      PROVE  LockOpened' /\ WriteAlone' /\ OneUnderWay'
  BY <1>6 DEF CallAfterRemove, files
<1> QED  BY <1>1, <1>2, <1>3, <1>4, <1>5, <1>6 DEF Next, Bus

(* With one owner who closes nothing under a message, the lock and the     *)
(* messages agree exactly: one while it is set, none while it is clear.    *)
THEOREM LockCountsMessages == Spec => []OneUnderWay
<1>1. OneInv => OneUnderWay
  BY DEF OneInv
<1> QED  BY <1>1, TypeInit, TypeNext, OneInit, OneNext, PTL DEF Spec
--------------------------------------------------------------------------------
(***************************************************************************)
(* Bad pointers.  While a probe is under way that began with nothing on    *)
(* the rings and that no open has overtaken, there is nobody to write and  *)
(* nothing for the callback; a probed device has none to follow.           *)
(***************************************************************************)
Undisturbed ==
  /\ node \in {"created", "linked"} /\ ~hasty => \A p \in Procs : pc[p] = "closed"
  /\ node \in {"created", "linked"} /\ ~hasty /\ ~stale => UnderWay = <<>>

OopsInv == ClosedWhenAnnounced /\ Undisturbed /\ OopsExplained

LEMMA OopsInit == Init => OopsInv
BY DEF Init, OopsInv, ClosedWhenAnnounced, Undisturbed, OopsExplained

LEMMA OopsNext == TypeOK /\ TypeOK' /\ LockInv' /\ OopsInv /\ [Next]_vars => OopsInv'
<1> SUFFICES ASSUME TypeOK, TypeOK', OopsInv, [Next]_vars
             PROVE  Undisturbed' /\ OopsExplained'
  BY DEF LockInv, OopsInv
<1> USE DEF OopsInv, ClosedWhenAnnounced, Undisturbed, OopsExplained
<1>1. ASSUME NEW p \in Procs, Call(p) PROVE Undisturbed' /\ OopsExplained'
  <2>1. CASE OpenCheck(p)
    <3>1. node' = node /\ oops' = oops /\ (node \in {"created", "linked"} => hasty')
          /\ (hasty => hasty') /\ stale' = stale /\ overrun' = overrun
          /\ (~hasty' /\ node \in {"created", "linked"} => FALSE) /\ UnderWay' = UnderWay
      BY <2>1 DEF OpenCheck, static, rings, UnderWay
    <3> QED  BY <3>1
  <2>2. ASSUME pc[p] # "closed", UNCHANGED <<node, hasty, stale>>, overrun => overrun',
               oops' = oops \/ node = "created"
        PROVE  Undisturbed' /\ OopsExplained'
    BY <2>2
  <2>3. CASE OpenSet(p) \/ WriteCheck(p) \/ Release(p)
    BY <2>2, <2>3 DEF OpenSet, WriteCheck, OnlyGoto, Release, At, static, history, unready
  <2>4. CASE Writing(p)
    BY <2>2, <2>4 DEF Writing, Copy, WriteLock, Send, SendTimeout, SendToNobody, WriteFailed,
                      At, static, files, static, history, unready
  <2> QED  BY <1>1, <2>1, <2>3, <2>4 DEF Call
<1>2. CASE Fw
  <2>1. UNCHANGED <<node, pc, oops, hasty, stale, overrun>>
    BY <1>2 DEF Fw, FwAnswerDoorbell, FwReceive, FwEcho, FwEmptied, files, static, history, unready
  <2>2. UnderWay' = <<>> <=> UnderWay = <<>>
    BY <1>2, StaysUnderWay
  <2> QED  BY <2>1, <2>2
<1>3. CASE Callback
  <2>1. UnderWay # <<>> /\ UNCHANGED <<node, pc, hasty, stale, overrun>>
        /\ (oops' => node \in {"created", "linked"})
    BY <1>3, UnderWayLen DEF Callback, files, static, unready
  <2> QED  BY <2>1
<1>4. CASE Recycle \/ UNCHANGED vars
  <2>1. UnderWay' = UnderWay /\ UNCHANGED <<node, pc, oops, hasty, stale, overrun>>
    BY <1>4 DEF Recycle, vars, files, static, rings, history, unready, UnderWay
  <2> QED  BY <2>1
<1>5. CASE Probe
  <2>1. UnderWay' = UnderWay /\ pc' = pc
    BY <1>5 DEF Probe, ProbeCreate, ProbeLink, ProbeReady, rings, UnderWay
  <2>2. CASE ProbeCreate
    <3>1. oops' => overrun'
      BY <2>2 DEF ProbeCreate, TypeOK
    <3> QED  BY <2>1, <2>2, <3>1 DEF ProbeCreate
  <2>3. CASE ProbeLink
    BY <2>1, <2>3 DEF ProbeLink, history, unready
  <2>4. CASE ProbeReady
    BY <2>1, <2>4 DEF ProbeReady
  <2> QED  BY <1>5, <2>2, <2>3, <2>4 DEF Probe
<1>6. CASE Remove
  <2>1. UNCHANGED <<overrun, hasty, stale>>
    BY <1>6 DEF Remove, static, history, unready
  <2>3. oops' => overrun
    BY <1>6 DEF Remove, TypeOK
  <2>2. node' \notin {"created", "linked"}
    BY <1>6 DEF Remove
  <2> QED  BY <2>1, <2>2, <2>3
<1>7. ASSUME NEW p \in Procs, CallAfterRemove(p) PROVE Undisturbed' /\ OopsExplained'
  BY <1>7 DEF CallAfterRemove, files, static, history, unready
<1> QED  BY <1>1, <1>2, <1>3, <1>4, <1>5, <1>6, <1>7 DEF Next, Bus

(* A bad pointer is followed only after an open that overtakes the probe,  *)
(* an echo older than the probe, a channel that went away under a file, or *)
(* a write longer than the buffer: a device whose probe has ended and that *)
(* is written one byte at a time gives none of its own.                    *)
THEOREM OopsHasCause == Spec => []OopsExplained
<1>1. OopsInv => OopsExplained
  BY DEF OopsInv
<1> QED  BY <1>1, TypeInit, TypeNext, LockInit, LockNext, OopsInit, OopsNext, PTL DEF Spec
================================================================================
