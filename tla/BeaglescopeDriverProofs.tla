----------------------- MODULE BeaglescopeDriverProofs -----------------------
(***************************************************************************)
(* Safety of the driver for any number of readers, writers and buffer      *)
(* users, any faults and any bounds.                                       *)
(***************************************************************************)
EXTENDS BeaglescopeDriver, FiniteSetTheorems, TLAPS

USE DriverAssumption

(***************************************************************************)
(* Most of what the driver promises does not hang on what the firmware     *)
(* does.  AnyFirmware takes a message or none and sends one of either kind *)
(* or none whenever it likes, rung or not; all it keeps is the order of    *)
(* what it sends and the number of its buffers.                            *)
(***************************************************************************)
Works == Modes \cup {"idle", "endless", "hung"}

AnySend ==
  \/ UNCHANGED <<fromPru, next>>
  \/ /\ Len(fromPru) < NumBufs
     /\ \E k \in Modes : fromPru' = Append(fromPru, [kind |-> k, n |-> next])
     /\ next' = IF next < MaxSamples THEN next + 1 ELSE next

AnyFirmware ==
  /\ toPru' = toPru \/ (toPru # <<>> /\ toPru' = Tail(toPru))
  /\ doorbell' \in BOOLEAN /\ pruMode' \in Modes /\ work' \in Works
  /\ AnySend
  /\ UNCHANGED <<stVars, pc, held, wpc, iioVars, cb, released, answered, history>>

AnyNext == Next \/ AnyFirmware
AnySpec == Init /\ [][AnyNext]_vars

(* The driver with its firmware is one of the drivers with any.            *)
LEMMA FirmwareIsAny == Spec => AnySpec
<1>1. [Next]_vars => [AnyNext]_vars
  BY DEF AnyNext
<1> QED  BY <1>1, PTL DEF Spec, AnySpec

(* A whole word 2 is a word 2, whichever part of it is stored.             *)
LEMMA MiscType ==
  /\ [mode |-> "raw", enable |-> FALSE] \in Misc
  /\ \A m \in Misc : /\ [m EXCEPT !.enable = TRUE] \in Misc
                     /\ \A d \in Modes : [m EXCEPT !.mode = d] \in Misc
BY DEF Misc, Modes

(* So are the timing words, after a whole call or half a store behind.     *)
LEMMA CountsType == \A f \in Freqs \cup {"unset"} : Counts(f) \in Timing
BY DEF Counts, Timing

LEMMA TimingType ==
  \A t \in Timing, f \in Freqs \cup {"unset"} :
       [t EXCEPT !.between = f] \in Timing /\ [t EXCEPT !.halves = f] \in Timing
BY DEF Timing

(* The bounds are numbers. *)
LEMMA Bounds ==
  NumBufs \in Nat /\ MaxQueue \in Nat /\ BlockLen \in Nat /\ FifoLen \in Nat
  /\ MaxSamples \in Nat \ {0}
OBVIOUS

(* Between two callbacks the callback's record has its type. *)
LEMMA NoCallbackType ==
  NoCallback \in [at : {"idle", "store", "flag", "wake", "push", "return"},
                  msg : Data, count : Nat]
<1>1. [kind |-> "raw", n |-> 1] \in Data
  BY DEF Data, Modes
<1> QED  BY <1>1 DEF NoCallback

Locations == {"idle", "mode", "enable", "or", "send", "copy", "post", "check", "wait",
              "asleep", "done", "disable"}

(* What a user has loaded: a mode and two timing words.                    *)
Held == [mode : Modes, timing : Timing]

(* What a writer keeps of its call. *)
Calls == [at : {"idle", "halves", "compute", "save"},
          freq : Freqs \cup {"unset"}, result : Timing]

(* A step of a user's call leaves every user somewhere.                    *)
LEMMA GotoType ==
  ASSUME pc \in [Users -> Locations], NEW u, NEW l \in Locations, Goto(u, l)
  PROVE  pc' \in [Users -> Locations]
BY DEF Goto

(* Neither does what it loads spoil what it holds.                         *)
LEMMA HeldType ==
  ASSUME held \in [Users -> Held], NEW u \in Users
  PROVE  /\ \A d \in Modes : [held EXCEPT ![u].mode = d] \in [Users -> Held]
         /\ \A f \in Freqs \cup {"unset"} :
              /\ [held EXCEPT ![u].timing.between = f] \in [Users -> Held]
              /\ [held EXCEPT ![u].timing.halves = f] \in [Users -> Held]
<1>1. ASSUME NEW d \in Modes PROVE [held EXCEPT ![u].mode = d] \in [Users -> Held]
  BY DEF Held
<1>2. ASSUME NEW f \in Freqs \cup {"unset"}
      PROVE  /\ [held EXCEPT ![u].timing.between = f] \in [Users -> Held]
             /\ [held EXCEPT ![u].timing.halves = f] \in [Users -> Held]
  BY DEF Held, Timing
<1> QED  BY <1>1, <1>2

(* What is posted is one more message in vring1.                           *)
LEMMA PostType ==
  ASSUME NEW m \in Config \cup {Stop}, Post(m), toPru \in Seq(Config \cup {Stop})
  PROVE  /\ toPru' \in Seq(Config \cup {Stop}) /\ Len(toPru') = Len(toPru) + 1
         /\ doorbell' = TRUE
<1> DEFINE M == Config \cup {Stop}
<1>1. toPru \in Seq(M) /\ m \in M /\ toPru' = Append(toPru, m)
  BY DEF Post
<1> HIDE DEF M
<1>2. toPru' \in Seq(M) /\ Len(toPru') = Len(toPru) + 1
  BY <1>1
<1> QED  BY <1>2 DEF Post, M

(* Users are finitely many, so those copying can be counted.               *)
LEMMA CopyingCount ==
  IsFiniteSet(Copying) /\ IsFiniteSet(Copying')
  /\ Cardinality(Copying) \in Nat /\ Cardinality(Copying') \in Nat
<1>1. Copying \subseteq Users /\ Copying' \subseteq Users /\ IsFiniteSet(Users)
  BY DriverAssumption DEF Copying, Users
<1> QED  BY <1>1, FS_Subset, FS_CardinalityType

(* A step of a user that neither begins nor ends a copy leaves them alone. *)
LEMMA CopyingKept ==
  ASSUME pc \in [Users -> Locations], NEW u \in Users, NEW l, Goto(u, l),
         pc[u] \notin {"copy", "post"}, l \notin {"copy", "post"}
  PROVE  Copying' = Copying
BY DEF Goto, Copying

(* What a channel loses makes room.                                        *)
LEMMA TakenKept ==
  ASSUME toPru \in Seq(Config \cup {Stop}), Taken <= MaxQueue, Copying' = Copying,
         toPru' = toPru \/ (toPru # <<>> /\ toPru' = Tail(toPru))
  PROVE  Taken' <= MaxQueue
<1> DEFINE M == Config \cup {Stop}
<1>1. toPru \in Seq(M)
  OBVIOUS
<1> HIDE DEF M
<1>2. Len(toPru) \in Nat /\ Len(toPru') \in Nat /\ Len(toPru') <= Len(toPru)
  BY <1>1
<1> QED  BY <1>2, CopyingCount, Bounds DEF Taken

(* So does the first store of a call, which begins to prepare.             *)
LEMMA ClearMiscType ==
  ASSUME TypeOK, NEW u \in Users, ClearMisc(u)
  PROVE  /\ misc' \in Misc /\ pc' \in [Users -> Locations]
         /\ overlapped' \subseteq Users /\ UNCHANGED <<clash, unsaved, early>>
<1>1. Preparing \subseteq Users
  BY DEF Preparing
<1>2. overlapped' \subseteq Users
  BY <1>1 DEF ClearMisc
<1>3. pc' \in [Users -> Locations]
  BY DEF ClearMisc, Goto, TypeOK, Locations
<1> QED  BY <1>2, <1>3, MiscType DEF ClearMisc

(***************************************************************************)
(* No more messages are in vring1, or being copied into buffers of it,     *)
(* than it has buffers for.                                                *)
(***************************************************************************)
LEMMA RoomInVring1 ==
  ASSUME TypeOK, [AnyNext]_vars
  PROVE  Taken' <= MaxQueue
<1>0. /\ pc \in [Users -> Locations] /\ Readers \subseteq Users /\ BufferUsers \subseteq Users
      /\ toPru \in Seq(Config \cup {Stop}) /\ Taken <= MaxQueue
      /\ misc \in Misc /\ held \in [Users -> Held]
  BY DEF TypeOK, Locations, Users, Held
<1>l. Len(toPru) \in Nat
  <2> DEFINE M == Config \cup {Stop}
  <2>1. toPru \in Seq(M)
    BY <1>0
  <2> HIDE DEF M
  <2> QED  BY <2>1
<1>1. ASSUME UNCHANGED <<toPru, pc>> PROVE Taken' <= MaxQueue
  <2>1. Copying' = Copying
    BY <1>1 DEF Copying
  <2> QED  BY <1>0, <1>1, <2>1, TakenKept
<1>2. ASSUME toPru' = toPru, NEW u \in Users, NEW l, Goto(u, l),
             pc[u] \notin {"copy", "post"}, l \notin {"copy", "post"}
      PROVE  Taken' <= MaxQueue
  <2>1. Copying' = Copying
    BY <1>0, <1>2, CopyingKept
  <2> QED  BY <1>0, <1>2, <2>1, TakenKept
<1>3. ASSUME NEW u \in Users,
             \/ u \in Readers /\ ReadRaw(u)
             \/ u \in BufferUsers /\ EnableBuffer(u)
             \/ StoreMode(u) \/ LoadMisc(u) \/ StoreEnable(u) \/ CheckMode(u)
             \/ WaitRaw(u) \/ Return(u) \/ Deactivate(u) \/ Interrupt(u)
      PROVE  Taken' <= MaxQueue
  BY <1>2, <1>3 DEF ReadRaw, EnableBuffer, ClearMisc, StoreMode, LoadMisc, StoreEnable,
                    CheckMode, WaitRaw, Return, Deactivate, Interrupt
<1>4. ASSUME NEW b \in BufferUsers, StopSampling(b) PROVE Taken' <= MaxQueue
  <2>1. CASE toPru' = toPru
    BY <1>0, <1>2, <1>4, <2>1 DEF StopSampling
  <2>2. CASE toPru' # toPru
    <3>1. Taken < MaxQueue /\ Post(Stop)
      BY <1>4, <2>2 DEF StopSampling
    <3>2. Copying' = Copying
      BY <1>0, <1>4, CopyingKept DEF StopSampling
    <3>3. Len(toPru') = Len(toPru) + 1
      BY <1>0, <3>1, PostType
    <3> QED  BY <1>l, <3>1, <3>2, <3>3, CopyingCount, Bounds DEF Taken
  <2> QED  BY <2>1, <2>2
<1>5. ASSUME NEW u \in Users, SendConfig(u) PROVE Taken' <= MaxQueue
  <2>1. CASE Goto(u, "check")
    BY <1>2, <1>5, <2>1 DEF SendConfig
  <2>2. CASE Taken < MaxQueue /\ Goto(u, "copy")
    <3>1. Copying' = Copying \cup {u} /\ u \notin Copying
      BY <1>0, <1>5, <2>2 DEF SendConfig, Goto, Copying
    <3>2. Cardinality(Copying') = Cardinality(Copying) + 1
      BY <3>1, CopyingCount, FS_AddElement
    <3>3. toPru' = toPru
      BY <1>5 DEF SendConfig
    <3> QED  BY <1>l, <2>2, <3>2, <3>3, CopyingCount, Bounds DEF Taken
  <2> QED  BY <1>5, <2>1, <2>2 DEF SendConfig
<1>6. ASSUME NEW u \in Users, CopyHalves(u) PROVE Taken' <= MaxQueue
  <2>1. Copying' = Copying
    BY <1>0, <1>6 DEF CopyHalves, Goto, Copying
  <2> QED  BY <1>0, <1>6, <2>1, TakenKept DEF CopyHalves
<1>7. ASSUME NEW u \in Users, PostConfig(u) PROVE Taken' <= MaxQueue
  <2> DEFINE m == [len |-> "long", timing |-> held[u].timing, misc |-> misc]
  <2>1. Copying' = Copying \ {u} /\ u \in Copying
    BY <1>0, <1>7 DEF PostConfig, Goto, Copying
  <2>2. Cardinality(Copying') = Cardinality(Copying) - 1
    BY <2>1, CopyingCount, FS_RemoveElement
  <2>3. m \in Config \cup {Stop} /\ Post(m)
    BY <1>0, <1>7 DEF PostConfig, Config, Held
  <2>4. Len(toPru') = Len(toPru) + 1
    BY <1>0, <2>3, PostType
  <2> QED  BY <1>0, <1>l, <2>2, <2>4, CopyingCount, Bounds DEF Taken
<1>8. ASSUME NEW w \in Writers, (\E f \in Freqs : WriteFreq(w, f)) \/ StoreHalves(w)
                                \/ Compute(w) \/ Save(w)
      PROVE  Taken' <= MaxQueue
  BY <1>1, <1>8 DEF WriteFreq, StoreHalves, Compute, Save
<1>9. CASE UserRead \/ Remove \/ PruSend \/ PruHang \/ CbStart \/ CbStore \/ CbFlag
           \/ CbPush \/ CbReturn \/ UNCHANGED vars
  BY <1>1, <1>9 DEF UserRead, Remove, PruSend, PruHang, CbStart, CbStore, CbFlag, CbPush,
                    CbReturn, vars
<1>10. CASE CbWake
  <2>1. Copying' = Copying /\ toPru' = toPru
    BY <1>0, <1>10 DEF CbWake, Copying
  <2> QED  BY <1>0, <2>1, TakenKept
<1>11. CASE PruReceive \/ AnyFirmware
  <2>1. /\ toPru' = toPru \/ (toPru # <<>> /\ toPru' = Tail(toPru))
        /\ pc' = pc
    BY <1>11 DEF PruReceive, AnyFirmware
  <2>2. Copying' = Copying
    BY <2>1 DEF Copying
  <2> QED  BY <1>0, <2>1, <2>2, TakenKept
<1> QED
  BY <1>0, <1>3, <1>4, <1>5, <1>6, <1>7, <1>8, <1>9, <1>10, <1>11
  DEF AnyNext, Next, Continue, Callback

--------------------------------------------------------------------------------
(* The variables keep their types. *)
LEMMA AnyTypeCorrect == AnySpec => []TypeOK
<1>1. Init => TypeOK
  <2> SUFFICES ASSUME Init PROVE TypeOK
    OBVIOUS
  <2>2. NotWriting \in [at : {"idle", "halves", "compute", "save"},
                        freq : Freqs \cup {"unset"}, result : Timing]
    BY CountsType DEF NotWriting
  <2>3. /\ fifo \in Seq((1 .. MaxSamples) \X Nat) /\ Len(fifo) = 0
        /\ toPru \in Seq(Config \cup {Stop}) /\ Len(toPru) = 0
        /\ fromPru \in Seq(Data) /\ Len(fromPru) = 0
    BY DEF Init
  <2>4. cb \in [at : {"idle", "store", "flag", "wake", "push", "return"}, msg : Data, count : Nat]
    BY NoCallbackType DEF Init
  <2>5. wpc \in [Writers -> [at : {"idle", "halves", "compute", "save"},
                             freq : Freqs \cup {"unset"}, result : Timing]]
    BY <2>2 DEF Init
  <2>6. timing \in Timing /\ reported \in Timing /\ misc \in Misc
    BY MiscType, CountsType, DriverAssumption DEF Init
  <2>7. /\ Len(fifo) <= FifoLen /\ Len(fromPru) <= NumBufs /\ next \in 1 .. MaxSamples
        /\ Taken <= MaxQueue
    <3>1. Copying = {}
      BY DEF Init, Copying
    <3>2. Cardinality(Copying) = 0
      BY <3>1, FS_EmptySet
    <3> QED  BY <2>3, <3>2, Bounds DEF Init, Taken
  <2>8. /\ pc \in [Users -> Locations] /\ held \in [Users -> Held]
        /\ raw_data \in Modes \cup {"unset"} /\ pruMode \in Modes
        /\ work \in Modes \cup {"idle"} /\ answered \subseteq Readers
    BY CountsType DEF Init, Locations, Modes, Held, NothingHeld
  <2>9. /\ got_raw \in BOOLEAN /\ active \in BOOLEAN /\ released \in BOOLEAN
        /\ doorbell \in BOOLEAN
        /\ overlapped \subseteq Users /\ clash \in BOOLEAN
        /\ unsaved \subseteq Users /\ early \in BOOLEAN
    BY DEF Init
  <2> QED  BY <2>3, <2>4, <2>5, <2>6, <2>7, <2>8, <2>9 DEF TypeOK, Locations, Held
<1>2. TypeOK /\ [AnyNext]_vars => TypeOK'
  <2> SUFFICES ASSUME TypeOK, [AnyNext]_vars PROVE TypeOK'
    OBVIOUS
  <2>t. Taken' <= MaxQueue
    BY RoomInVring1
  <2> USE <2>t DEF TypeOK, history
  <2>0. pc \in [Users -> Locations] /\ Readers \subseteq Users /\ BufferUsers \subseteq Users
    BY DEF Locations, Users
  <2>h. held \in [Users -> Held] /\ NothingHeld \in Held
    BY CountsType DEF Held, NothingHeld, Modes
  <2>w. wpc \in [Writers -> Calls]
    BY DEF Calls
  <2>1. ASSUME NEW r \in Readers, ReadRaw(r) PROVE TypeOK'
    <3>1. ClearMisc(r)
      BY <2>1 DEF ReadRaw
    <3> QED  BY <2>0, <2>1, <3>1, ClearMiscType DEF ReadRaw, Locations, iioVars, pruVars
  <2>2. ASSUME NEW b \in BufferUsers, EnableBuffer(b) PROVE TypeOK'
    <3>1. ClearMisc(b)
      BY <2>2 DEF EnableBuffer
    <3> QED  BY <2>0, <2>2, <3>1, ClearMiscType DEF EnableBuffer, Locations, pruVars
  <2>3. ASSUME NEW b \in BufferUsers, StopSampling(b) PROVE TypeOK'
    <3>1. Post(Stop) \/ UNCHANGED <<toPru, doorbell>>
      BY <2>3 DEF StopSampling
    <3>2. toPru' \in Seq(Config \cup {Stop}) /\ doorbell' \in BOOLEAN
      BY <3>1, PostType
    <3> QED  BY <2>3, <3>2 DEF StopSampling, Goto, stVars, iioVars, pruVars
  <2>4. ASSUME NEW u \in Users, StoreMode(u) PROVE TypeOK'
    <3>1. misc' \in Misc
      BY <2>4, MiscType DEF StoreMode, Modes
    <3>2. pc' \in [Users -> Locations]
      BY <2>0, <2>4, GotoType DEF StoreMode, Locations
    <3> QED  BY <2>4, <3>1, <3>2 DEF StoreMode, Locations, iioVars, pruVars
  <2>4a. ASSUME NEW u \in Users, LoadMisc(u) PROVE TypeOK'
    <3>1. held' \in [Users -> Held]
      BY <2>4a, <2>h, HeldType DEF LoadMisc, Misc
    <3>2. pc' \in [Users -> Locations]
      BY <2>0, <2>4a, GotoType DEF LoadMisc, Locations
    <3> QED  BY <2>4a, <3>1, <3>2 DEF LoadMisc, Locations, Held, stVars, iioVars, pruVars
  <2>5. ASSUME NEW u \in Users, StoreEnable(u) PROVE TypeOK'
    <3>1. misc' \in Misc
      BY <2>5, <2>h DEF StoreEnable, Misc, Held
    <3>2. pc' \in [Users -> Locations] /\ held' \in [Users -> Held]
      BY <2>0, <2>5, <2>h, GotoType DEF StoreEnable, Locations
    <3> QED  BY <2>5, <3>1, <3>2 DEF StoreEnable, Locations, Held, iioVars, pruVars
  <2>6. ASSUME NEW u \in Users, SendConfig(u) PROVE TypeOK'
    <3>1. held' \in [Users -> Held]
      <4>1. timing.between \in Freqs \cup {"unset"}
        BY DEF Timing
      <4>2. held' = held \/ held' = [held EXCEPT ![u].timing.between = timing.between]
        BY <2>6 DEF SendConfig
      <4>3. ASSUME NEW f \in Freqs \cup {"unset"}
            PROVE  [held EXCEPT ![u].timing.between = f] \in [Users -> Held]
        BY <2>h, HeldType
      <4> QED  BY <2>h, <4>1, <4>2, <4>3
    <3>2. pc' \in [Users -> Locations]
      BY <2>0, <2>6, GotoType DEF SendConfig, Locations
    <3>3. unsaved' \subseteq Users
      BY <2>6 DEF SendConfig
    <3> QED  BY <2>6, <3>1, <3>2, <3>3 DEF SendConfig, Locations, Held, stVars, iioVars, pruVars
  <2>6a. ASSUME NEW u \in Users, CopyHalves(u) PROVE TypeOK'
    <3>1. held' \in [Users -> Held]
      BY <2>6a, <2>h, HeldType DEF CopyHalves, Timing
    <3>2. pc' \in [Users -> Locations]
      BY <2>0, <2>6a, GotoType DEF CopyHalves, Locations
    <3> QED  BY <2>6a, <3>1, <3>2 DEF CopyHalves, Locations, Held, stVars, iioVars, pruVars
  <2>6b. ASSUME NEW u \in Users, PostConfig(u) PROVE TypeOK'
    <3> DEFINE m == [len |-> "long", timing |-> held[u].timing, misc |-> misc]
    <3>1. m \in Config /\ Post(m)
      BY <2>6b, <2>h DEF PostConfig, Config, Held
    <3>2. toPru' \in Seq(Config \cup {Stop}) /\ doorbell' \in BOOLEAN
      BY <3>1, PostType
    <3>3. pc' \in [Users -> Locations] /\ held' \in [Users -> Held]
      BY <2>0, <2>6b, <2>h, GotoType DEF PostConfig, Locations
    <3>4. early' \in BOOLEAN /\ unsaved' \subseteq Users
      BY <2>6b DEF PostConfig
    <3> QED  BY <2>6b, <3>2, <3>3, <3>4 DEF PostConfig, Locations, Held, stVars, iioVars, pruVars
  <2>7. ASSUME NEW u \in Users, CheckMode(u) PROVE TypeOK'
    BY <2>7 DEF CheckMode, Goto, stVars, iioVars, pruVars
  <2>8. ASSUME NEW u \in Users, WaitRaw(u) PROVE TypeOK'
    BY <2>8 DEF WaitRaw, Goto, stVars, iioVars, pruVars
  <2>9. ASSUME NEW u \in Users, Return(u) PROVE TypeOK'
    BY <2>9 DEF Return, Goto, stVars, iioVars, pruVars
  <2>10. ASSUME NEW u \in Users, Deactivate(u) PROVE TypeOK'
    BY <2>10 DEF Deactivate, Goto, stVars, pruVars
  <2>11. ASSUME NEW u \in Users, Interrupt(u) PROVE TypeOK'
    BY <2>11 DEF Interrupt, Goto, stVars, pruVars
  <2>12. CASE UserRead
    <3> DEFINE S == (1 .. MaxSamples) \X Nat
    <3>1. fifo \in Seq(S) /\ Len(fifo) <= FifoLen /\ fifo # <<>> /\ fifo' = Tail(fifo)
      BY <2>12 DEF UserRead
    <3> HIDE DEF S
    <3>2. fifo' \in Seq(S) /\ Len(fifo') = Len(fifo) - 1 /\ Len(fifo) \in Nat
      BY <3>1
    <3>3. Len(fifo') <= FifoLen
      BY <3>1, <3>2, DriverAssumption
    <3>4. fifo' \in Seq((1 .. MaxSamples) \X Nat)
      BY <3>2 DEF S
    <3> QED  BY <2>12, <3>3, <3>4 DEF UserRead, stVars, pruVars
  <2>13. ASSUME NEW w \in Writers, NEW f \in Freqs, WriteFreq(w, f) PROVE TypeOK'
    <3>1. timing' \in Timing
      BY <2>13, TimingType DEF WriteFreq
    <3>2. wpc' \in [Writers -> Calls]
      BY <2>13, <2>w DEF WriteFreq, Calls
    <3>3. clash' \in BOOLEAN
      BY <2>13 DEF WriteFreq
    <3> QED  BY <2>13, <3>1, <3>2, <3>3 DEF WriteFreq, Calls, iioVars, pruVars
  <2>14. ASSUME NEW w \in Writers, StoreHalves(w) PROVE TypeOK'
    <3>1. timing' \in Timing
      BY <2>14, TimingType DEF StoreHalves
    <3>2. wpc' \in [Writers -> Calls]
      BY <2>14, <2>w DEF StoreHalves, Calls
    <3> QED  BY <2>14, <3>1, <3>2 DEF StoreHalves, Calls, iioVars, pruVars
  <2>15. ASSUME NEW w \in Writers, Compute(w) PROVE TypeOK'
    <3>1. wpc' \in [Writers -> Calls]
      BY <2>15, <2>w DEF Compute, Calls
    <3> QED  BY <2>15, <3>1 DEF Compute, Calls, stVars, iioVars, pruVars
  <2>16. ASSUME NEW w \in Writers, Save(w) PROVE TypeOK'
    BY <2>16, CountsType DEF Save, NotWriting, iioVars, pruVars
  <2>17. CASE CbStart
    BY <2>17 DEF CbStart, stVars, iioVars
  <2>18. CASE CbStore
    BY <2>18 DEF CbStore, CbRaw, Data, Modes, iioVars, pruVars
  <2>19. CASE CbFlag
    BY <2>19 DEF CbFlag, CbRaw, iioVars, pruVars
  <2>20. CASE CbWake
    BY <2>20 DEF CbWake, CbRaw, stVars, iioVars, pruVars
  <2>21. CASE CbPush
    <3>1. <<cb.msg.n, cb.count>> \in (1 .. MaxSamples) \X Nat
      BY DEF Data
    <3>2. fifo' \in Seq((1 .. MaxSamples) \X Nat) /\ Len(fifo') <= FifoLen
      <4> DEFINE S == (1 .. MaxSamples) \X Nat  e == <<cb.msg.n, cb.count>>
      <4>1. fifo \in Seq(S) /\ e \in S
        BY <3>1
      <4> HIDE DEF S, e
      <4>2. Append(fifo, e) \in Seq(S) /\ Len(Append(fifo, e)) = Len(fifo) + 1 /\ Len(fifo) \in Nat
        BY <4>1
      <4>3. \/ fifo' = fifo
            \/ Len(fifo) < FifoLen /\ fifo' = Append(fifo, e)
        BY <2>21 DEF CbPush, e
      <4>4. CASE Len(fifo) < FifoLen /\ fifo' = Append(fifo, e)
        <5>1. Len(Append(fifo, e)) <= FifoLen
          BY <4>2, <4>4, Bounds
        <5> QED  BY <4>2, <4>4, <5>1 DEF S
      <4>5. CASE fifo' = fifo
        BY <4>5
      <4> QED  BY <4>3, <4>4, <4>5
    <3>3. cb' \in [at : {"idle", "store", "flag", "wake", "push", "return"},
                   msg : Data, count : Nat]
      <4>1. PICK l \in {"push", "return"} : cb' = [cb EXCEPT !.count = cb.count + 1, !.at = l]
        BY <2>21 DEF CbPush
      <4>2. cb.count + 1 \in Nat
        OBVIOUS
      <4> QED  BY <4>1, <4>2
    <3> QED  BY <2>21, <3>2, <3>3 DEF CbPush, stVars, pruVars
  <2>22. CASE CbReturn
    BY <2>22, NoCallbackType DEF CbReturn, CbRaw, stVars, iioVars, pruVars
  <2>23. CASE Remove
    BY <2>23 DEF Remove, stVars, iioVars, pruVars
  <2>24. CASE PruReceive
    <3>1. CASE toPru = <<>>
      BY <2>24, <3>1 DEF PruReceive, stVars, iioVars
    <3>2. CASE toPru # <<>>
      <4> DEFINE m == Head(toPru)
      <4>1. m \in Config \cup {Stop} /\ Tail(toPru) \in Seq(Config \cup {Stop})
        <5> DEFINE M == Config \cup {Stop}
        <5>1. toPru \in Seq(M)
          OBVIOUS
        <5> HIDE DEF M
        <5>2. Head(toPru) \in M /\ Tail(toPru) \in Seq(M)
          BY <3>2, <5>1
        <5> QED  BY <5>2 DEF M
      <4>2. m.len = "long" => m.misc.mode \in Modes
        BY <4>1 DEF Config, Stop, Misc
      <4>3. pruMode' \in Modes
        BY <2>24, <3>2, <4>2 DEF PruReceive
      <4>4. work' \in {"raw", "block", "idle", "endless", "hung"} /\ toPru' = Tail(toPru) /\ doorbell' = FALSE
        BY <2>24, <3>2 DEF PruReceive
      <4> QED  BY <2>24, <4>1, <4>3, <4>4 DEF PruReceive, Modes, stVars, iioVars
    <3> QED  BY <3>1, <3>2
  <2>25. CASE PruSend
    <3>1. work \in Modes /\ [kind |-> work, n |-> next] \in Data
      BY <2>25 DEF PruSend, Data, Modes
    <3>2. fromPru' \in Seq(Data) /\ Len(fromPru') <= NumBufs
      <4> DEFINE d == [kind |-> work, n |-> next]  f == Append(fromPru, d)
      <4> HIDE DEF d
      <4>1. f \in Seq(Data) /\ Len(f) = Len(fromPru) + 1 /\ Len(fromPru) \in Nat
        BY <3>1 DEF d
      <4>2. \/ fromPru' = fromPru
            \/ fromPru' = f /\ Len(fromPru) + (IF cb.at = "idle" THEN 0 ELSE 1) < NumBufs
        BY <2>25 DEF PruSend, d
      <4> HIDE DEF f
      <4>3. CASE fromPru' = fromPru
        BY <4>3
      <4>4. CASE fromPru' = f /\ Len(fromPru) + (IF cb.at = "idle" THEN 0 ELSE 1) < NumBufs
        <5>1. Len(f) <= NumBufs
          BY <4>1, <4>4, Bounds
        <5> QED  BY <4>1, <4>4, <5>1
      <4> QED  BY <4>2, <4>3, <4>4
    <3>3. next' \in 1 .. MaxSamples /\ work' \in Modes \cup {"idle"}
      BY <2>25, Bounds DEF PruSend
    <3> QED  BY <2>25, <3>2, <3>3 DEF PruSend, stVars, iioVars
  <2>26. CASE UNCHANGED vars
    BY <2>26 DEF vars, stVars, iioVars, pruVars
  <2>27. CASE PruHang
    BY <2>27 DEF PruHang, stVars, iioVars
  <2>28. CASE AnyFirmware
    <3>1. toPru' \in Seq(Config \cup {Stop})
      <4> DEFINE M == Config \cup {Stop}
      <4>1. toPru \in Seq(M)
        OBVIOUS
      <4> HIDE DEF M
      <4>2. toPru' = toPru \/ (toPru # <<>> /\ toPru' = Tail(toPru))
        BY <2>28 DEF AnyFirmware
      <4>3. ASSUME toPru # <<>>, toPru' = Tail(toPru) PROVE toPru' \in Seq(M)
        BY <4>1, <4>3
      <4>4. toPru' \in Seq(M)
        BY <4>1, <4>2, <4>3
      <4> QED  BY <4>4 DEF M
    <3>2. /\ fromPru' \in Seq(Data) /\ Len(fromPru') <= NumBufs /\ next' \in 1 .. MaxSamples
      <4>1. CASE UNCHANGED <<fromPru, next>>
        BY <4>1
      <4>2. ASSUME NEW k \in Modes, fromPru' = Append(fromPru, [kind |-> k, n |-> next]),
                   Len(fromPru) < NumBufs, next' = IF next < MaxSamples THEN next + 1 ELSE next
            PROVE  /\ fromPru' \in Seq(Data) /\ Len(fromPru') <= NumBufs
                   /\ next' \in 1 .. MaxSamples
        <5> DEFINE d == [kind |-> k, n |-> next]
        <5>1. d \in Data
          BY DEF Data
        <5> HIDE DEF d
        <5>2. Append(fromPru, d) \in Seq(Data) /\ Len(Append(fromPru, d)) = Len(fromPru) + 1
              /\ Len(fromPru) \in Nat
          BY <5>1
        <5>3. fromPru' = Append(fromPru, d)
          BY <4>2 DEF d
        <5> QED  BY <4>2, <5>2, <5>3, Bounds
      <4> QED  BY <2>28, <4>1, <4>2 DEF AnyFirmware, AnySend
    <3> QED  BY <2>28, <3>1, <3>2 DEF AnyFirmware, Works, stVars, iioVars
  <2> QED
    BY <2>1, <2>2, <2>3, <2>4, <2>4a, <2>5, <2>6, <2>6a, <2>6b, <2>7, <2>8, <2>9, <2>10, <2>11, <2>12, <2>13,
       <2>14, <2>15, <2>16, <2>17, <2>18, <2>19, <2>20, <2>21, <2>22, <2>23, <2>24, <2>25,
       <2>26, <2>27, <2>28 DEF AnyNext, Next, Continue, Callback
<1> QED  BY <1>1, <1>2, PTL DEF AnySpec

(* So they do with the firmware of the model. *)
THEOREM TypeCorrect == Spec => []TypeOK
BY FirmwareIsAny, AnyTypeCorrect, PTL

--------------------------------------------------------------------------------
(***************************************************************************)
(* No caller is left asleep by a callback that has come and gone.  The     *)
(* invariant is inductive given the types: a caller goes to sleep only     *)
(* while got_raw is false, and the callback that sets it goes on to wake   *)
(* everyone before it does anything else.                                  *)
(***************************************************************************)
LEMMA AnyWakeupNotLost == AnySpec => []NoLostWakeup
<1>1. Init => NoLostWakeup
  BY DEF Init, NoLostWakeup
<1>2. TypeOK /\ NoLostWakeup /\ [AnyNext]_vars => NoLostWakeup'
  <2> SUFFICES ASSUME TypeOK, NoLostWakeup, [AnyNext]_vars PROVE NoLostWakeup'
    OBVIOUS
  <2> USE DEF NoLostWakeup
  <2>0. pc \in [Users -> Locations] /\ Readers \subseteq Users /\ BufferUsers \subseteq Users
        /\ cb \in [at : {"idle", "store", "flag", "wake", "push", "return"}, msg : Data, count : Nat]
    BY DEF TypeOK, Locations, Users
  <2>1. ASSUME UNCHANGED <<got_raw, cb>>, NEW u \in Users, NEW l, l # "asleep", Goto(u, l)
        PROVE  NoLostWakeup'
    BY <2>0, <2>1 DEF Goto
  <2>2. ASSUME UNCHANGED <<got_raw, cb, pc>> PROVE NoLostWakeup'
    BY <2>2
  <2>3. ASSUME NEW r \in Readers, ReadRaw(r) PROVE NoLostWakeup'
    BY <2>0, <2>1, <2>3 DEF ReadRaw, ClearMisc
  <2>4. ASSUME NEW b \in BufferUsers, EnableBuffer(b) \/ StopSampling(b) PROVE NoLostWakeup'
    BY <2>0, <2>1, <2>4 DEF EnableBuffer, StopSampling, ClearMisc, stVars
  <2>5. ASSUME NEW u \in Users,
               \/ StoreMode(u) \/ LoadMisc(u) \/ StoreEnable(u) \/ SendConfig(u)
               \/ CopyHalves(u) \/ PostConfig(u) \/ CheckMode(u)
               \/ Return(u) \/ Deactivate(u) \/ Interrupt(u)
        PROVE  NoLostWakeup'
    BY <2>1, <2>5 DEF StoreMode, LoadMisc, StoreEnable, SendConfig, CopyHalves, PostConfig,
                      CheckMode, Return, Deactivate, Interrupt, stVars
  <2>6. ASSUME NEW u \in Users, WaitRaw(u) PROVE NoLostWakeup'
    <3>1. CASE got_raw
      BY <2>1, <2>6, <3>1 DEF WaitRaw, stVars
    <3>2. CASE ~got_raw
      BY <2>6, <3>2 DEF WaitRaw, stVars
    <3> QED  BY <3>1, <3>2
  <2>7. ASSUME NEW w \in Writers, (\E f \in Freqs : WriteFreq(w, f)) \/ StoreHalves(w)
                                  \/ Compute(w) \/ Save(w)
        PROVE  NoLostWakeup'
    BY <2>2, <2>7 DEF WriteFreq, StoreHalves, Compute, Save, stVars
  <2>8. CASE UserRead \/ Remove \/ PruReceive \/ PruSend \/ PruHang \/ AnyFirmware
             \/ UNCHANGED vars
    BY <2>2, <2>8 DEF UserRead, Remove, PruReceive, PruSend, PruHang, AnyFirmware, vars, stVars
  <2>9. CASE CbStart \/ CbStore \/ CbPush \/ CbReturn
    <3>1. UNCHANGED <<got_raw, pc>> /\ cb.at # "wake"
      BY <2>9 DEF CbStart, CbStore, CbPush, CbReturn, CbRaw, stVars
    <3> QED  BY <3>1
  <2>10. CASE CbFlag
    BY <2>0, <2>10 DEF CbFlag, CbRaw
  <2>11. CASE CbWake
    BY <2>11 DEF CbWake
  <2> QED
    BY <2>3, <2>4, <2>5, <2>6, <2>7, <2>8, <2>9, <2>10, <2>11
    DEF AnyNext, Next, Continue, Callback
<1> QED  BY <1>1, <1>2, AnyTypeCorrect, PTL DEF AnySpec

(* No caller is left asleep by a callback that has come and gone.          *)
THEOREM WakeupNotLost == Spec => []NoLostWakeup
BY FirmwareIsAny, AnyWakeupNotLost, PTL

--------------------------------------------------------------------------------
(***************************************************************************)
(* Without a user of the buffer the read mode is RAW wherever it is kept   *)
(* and everything the firmware is asked for and sends is a raw sample, so  *)
(* raw_data is one once got_raw is set.                                    *)
(***************************************************************************)
RawConfig == {m \in Config : m.misc.mode = "raw"}
RawData   == {d \in Data : d.kind = "raw"}

RawEverywhere ==
  /\ misc.mode = "raw" /\ \A u \in Users : held[u].mode = "raw"
  /\ toPru \in Seq(RawConfig)
  /\ pruMode = "raw" /\ work \in {"idle", "raw"} /\ fromPru \in Seq(RawData)
  /\ cb.at # "push" /\ (cb.at # "idle" => cb.msg.kind = "raw")

RawSaved ==
  /\ cb.at \in {"flag", "wake"} \/ got_raw => raw_data = "raw"
  /\ \A r \in Readers : pc[r] = "done" => got_raw

(* Neither kind of step of a raw read stores anything but mode RAW.        *)
LEMMA RawStores ==
  ASSUME TypeOK, RawEverywhere, BufferUsers = {}, [Next]_vars
  PROVE  RawEverywhere'
<1> USE DEF RawEverywhere
<1>0. Users = Readers /\ misc \in [mode : Modes, enable : BOOLEAN]
      /\ cb \in [at : {"idle", "store", "flag", "wake", "push", "return"}, msg : Data, count : Nat]
      /\ next \in 1 .. MaxSamples /\ held \in [Users -> Held]
  BY DEF Users, TypeOK, Misc, Held
<1>1. ASSUME UNCHANGED <<misc, held, toPru, pruVars, cb>> PROVE RawEverywhere'
  BY <1>1 DEF pruVars
<1>2. ASSUME NEW r \in Readers, ReadRaw(r) PROVE RawEverywhere'
  BY <1>2 DEF ReadRaw, ClearMisc, pruVars
<1>3. ASSUME NEW u \in Users, StoreMode(u) \/ LoadMisc(u) \/ StoreEnable(u) \/ SendConfig(u)
                              \/ CopyHalves(u)
      PROVE  RawEverywhere'
  <2>1. UNCHANGED <<toPru, pruVars, cb>>
    BY <1>3 DEF StoreMode, LoadMisc, StoreEnable, SendConfig, CopyHalves
  <2>2. misc'.mode = "raw"
    BY <1>0, <1>3 DEF StoreMode, LoadMisc, StoreEnable, SendConfig, CopyHalves, stVars
  <2>3. \A v \in Users : held'[v].mode = "raw"
    <3>1. CASE StoreMode(u)
      BY <3>1 DEF StoreMode
    <3>2. CASE LoadMisc(u)
      BY <1>0, <3>2 DEF LoadMisc, Held
    <3>3. CASE StoreEnable(u)
      BY <1>0, <3>3 DEF StoreEnable, NothingHeld
    <3>4. CASE SendConfig(u)
      BY <1>0, <3>4 DEF SendConfig, Held
    <3>5. CASE CopyHalves(u)
      BY <1>0, <3>5 DEF CopyHalves, Held
    <3> QED  BY <1>3, <3>1, <3>2, <3>3, <3>4, <3>5
  <2> QED  BY <2>1, <2>2, <2>3 DEF pruVars
<1>4. ASSUME NEW u \in Users, PostConfig(u) PROVE RawEverywhere'
  <2> DEFINE m == [len |-> "long", timing |-> held[u].timing, misc |-> misc]
  <2>1. m \in RawConfig
    BY <1>0 DEF RawConfig, Config, Misc, Held
  <2>2. toPru' = Append(toPru, m)
    BY <1>4 DEF PostConfig, Post
  <2> HIDE DEF m
  <2>3. toPru \in Seq(RawConfig)
    OBVIOUS
  <2>4. UNCHANGED <<misc, pruVars, cb>> /\ \A v \in Users : held'[v].mode = "raw"
    BY <1>0, <1>4 DEF PostConfig, NothingHeld, stVars
  <2> HIDE DEF RawEverywhere
  <2>5. toPru' \in Seq(RawConfig)
    BY <2>1, <2>2, <2>3
  <2> QED  BY <2>4, <2>5 DEF RawEverywhere, pruVars
<1>5. ASSUME NEW u \in Users, CheckMode(u) \/ WaitRaw(u) \/ Return(u) \/ Deactivate(u) \/ Interrupt(u)
      PROVE  RawEverywhere'
  BY <1>1, <1>5 DEF CheckMode, WaitRaw, Return, Deactivate, Interrupt, stVars
<1>6. ASSUME NEW w \in Writers, (\E f \in Freqs : WriteFreq(w, f)) \/ StoreHalves(w)
                                \/ Compute(w) \/ Save(w)
      PROVE  RawEverywhere'
  BY <1>1, <1>6 DEF WriteFreq, StoreHalves, Compute, Save, stVars
<1>7. CASE UserRead \/ Remove \/ UNCHANGED vars
  BY <1>1, <1>7 DEF UserRead, Remove, vars, stVars
<1>8. CASE CbStart
  <2>1. Head(fromPru) \in RawData /\ Tail(fromPru) \in Seq(RawData)
    BY <1>8 DEF CbStart
  <2> QED  BY <1>8, <2>1 DEF CbStart, stVars, RawData
<1>9. CASE CbStore \/ CbFlag \/ CbWake \/ CbReturn
  BY <1>0, <1>9 DEF CbStore, CbFlag, CbWake, CbReturn, CbRaw, NoCallback, stVars, pruVars
<1>10. CASE CbPush
  BY <1>10 DEF CbPush
<1>11. CASE PruReceive
  <2>1. CASE toPru = <<>>
    BY <1>11, <2>1 DEF PruReceive, stVars
  <2>2. CASE toPru # <<>>
    <3>1. Head(toPru) \in RawConfig /\ Tail(toPru) \in Seq(RawConfig)
      BY <2>2
    <3>2. Head(toPru).len = "long" /\ Head(toPru).misc.mode = "raw"
      BY <3>1 DEF RawConfig, Config
    <3>3. pruMode' = "raw"
      BY <1>11, <2>2, <3>2 DEF PruReceive
    <3>4. work' = "raw"
      BY <1>11, <2>2, <3>3 DEF PruReceive
    <3> QED  BY <1>11, <2>2, <3>1, <3>3, <3>4 DEF PruReceive, stVars
  <2> QED  BY <2>1, <2>2
<1>12. CASE PruSend
  <2> DEFINE d == [kind |-> work, n |-> next]
  <2>1. work = "raw" /\ work' = "idle"
    BY <1>12 DEF PruSend, Modes
  <2>2. d \in RawData
    BY <1>0, <2>1 DEF RawData, Data, Modes
  <2>3. fromPru' = Append(fromPru, d) \/ fromPru' = fromPru
    BY <1>12 DEF PruSend
  <2> HIDE DEF d
  <2>4. fromPru' \in Seq(RawData)
    BY <2>2, <2>3
  <2> QED  BY <1>12, <2>1, <2>4 DEF PruSend, stVars
<1>13. CASE PruHang
  BY <1>13 DEF PruHang
<1> QED
  BY <1>2, <1>3, <1>4, <1>5, <1>6, <1>7, <1>8, <1>9, <1>10, <1>11, <1>12, <1>13
  DEF Next, Continue, Callback

(* A raw read that returns has been given a sample, not what was in        *)
(* raw_data before, as long as nobody uses the buffer.                     *)
THEOREM RawWithoutBuffer == ASSUME BufferUsers = {} PROVE Spec => []RawReadIsRaw
<1> DEFINE I == RawEverywhere /\ RawSaved
<1>1. Init => I
  BY DEF Init, NoCallback, NothingHeld, RawEverywhere, RawSaved, Users
<1>2. TypeOK /\ I /\ [Next]_vars => I'
  <2> SUFFICES ASSUME TypeOK, RawEverywhere, RawSaved, [Next]_vars PROVE RawSaved'
    BY RawStores
  <2> USE DEF RawSaved
  <2>0. pc \in [Readers -> Locations] /\ Users = Readers
        /\ cb \in [at : {"idle", "store", "flag", "wake", "push", "return"}, msg : Data, count : Nat]
    BY DEF TypeOK, Locations, Users
  <2>1. ASSUME UNCHANGED <<got_raw, raw_data, cb>>, NEW r \in Readers, NEW l, l # "done", Goto(r, l)
        PROVE  RawSaved'
    BY <2>0, <2>1 DEF Goto
  <2>2. ASSUME UNCHANGED <<got_raw, raw_data, cb, pc>> PROVE RawSaved'
    BY <2>2
  <2>3. ASSUME NEW r \in Readers, ReadRaw(r) PROVE RawSaved'
    BY <2>1, <2>3 DEF ReadRaw, ClearMisc
  <2>4. ASSUME NEW r \in Users,
               \/ StoreMode(r) \/ LoadMisc(r) \/ StoreEnable(r) \/ SendConfig(r)
               \/ CopyHalves(r) \/ PostConfig(r)
               \/ Return(r) \/ Deactivate(r) \/ Interrupt(r)
        PROVE  RawSaved'
    BY <2>0, <2>1, <2>4 DEF StoreMode, LoadMisc, StoreEnable, SendConfig, CopyHalves, PostConfig,
                            Return, Deactivate, Interrupt, stVars
  <2>5. ASSUME NEW r \in Users, CheckMode(r) PROVE RawSaved'
    <3>1. misc.mode = "raw"
      BY DEF RawEverywhere
    <3> QED  BY <2>0, <2>1, <2>5, <3>1 DEF CheckMode, stVars
  <2>6. ASSUME NEW r \in Users, WaitRaw(r) PROVE RawSaved'
    <3>1. CASE got_raw
      BY <2>0, <2>6, <3>1 DEF WaitRaw, Goto, stVars
    <3>2. CASE ~got_raw
      BY <2>0, <2>1, <2>6, <3>2 DEF WaitRaw, stVars
    <3> QED  BY <3>1, <3>2
  <2>7. ASSUME NEW w \in Writers, (\E f \in Freqs : WriteFreq(w, f)) \/ StoreHalves(w)
                                  \/ Compute(w) \/ Save(w)
        PROVE  RawSaved'
    BY <2>2, <2>7 DEF WriteFreq, StoreHalves, Compute, Save, stVars
  <2>8. CASE UserRead \/ Remove \/ PruReceive \/ PruSend \/ PruHang \/ UNCHANGED vars
    BY <2>2, <2>8 DEF UserRead, Remove, PruReceive, PruSend, PruHang, vars, stVars
  <2>9. CASE CbStart \/ CbPush \/ CbReturn
    <3>1. UNCHANGED <<got_raw, raw_data, pc>>
      BY <2>9 DEF CbStart, CbPush, CbReturn, stVars
    <3>2. ~CbPush
      BY DEF CbPush, RawEverywhere
    <3>3. cb'.at \notin {"flag", "wake"}
      BY <2>0, <2>9, <3>2 DEF CbStart, CbReturn, CbRaw, NoCallback
    <3> QED  BY <3>1, <3>3
  <2>10. CASE CbStore
    <3>1. cb.msg.kind = "raw"
      BY <2>10 DEF CbStore, CbRaw, RawEverywhere
    <3> QED  BY <2>10, <3>1 DEF CbStore
  <2>11. CASE CbFlag
    BY <2>11 DEF CbFlag, CbRaw
  <2>12. CASE CbWake
    BY <2>0, <2>12 DEF CbWake, CbRaw, stVars
  <2> QED
    BY <2>3, <2>4, <2>5, <2>6, <2>7, <2>8, <2>9, <2>10, <2>11, <2>12 DEF Next, Continue, Callback
<1>3. I => RawReadIsRaw
  BY DEF RawSaved, RawReadIsRaw
<1> QED  BY <1>1, <1>2, <1>3, TypeCorrect, PTL DEF Spec

--------------------------------------------------------------------------------
(***************************************************************************)
(* The order of samples.  A message keeps its place on its way from the    *)
(* firmware through vring0 and the callback, and what is in the kfifo is   *)
(* behind: older messages, or earlier values of the one being pushed.      *)
(***************************************************************************)
Follows(a, b) == a < b \/ (a = MaxSamples /\ b = MaxSamples)

InVring ==
  /\ \A i \in 1 .. Len(fromPru) : Follows(fromPru[i].n, next)
  /\ \A i, j \in 1 .. Len(fromPru) : i < j => Follows(fromPru[i].n, fromPru[j].n)

InCallback ==
  cb.at # "idle" => /\ Follows(cb.msg.n, next)
                    /\ \A i \in 1 .. Len(fromPru) : Follows(cb.msg.n, fromPru[i].n)

InFifo ==
  \A k \in 1 .. Len(fifo) :
    /\ Follows(fifo[k][1], next)
    /\ \A i \in 1 .. Len(fromPru) : Follows(fifo[k][1], fromPru[i].n)
    /\ cb.at = "push" => Before(fifo[k], <<cb.msg.n, cb.count>>)

Ordered == InVring /\ InCallback /\ InFifo /\ FifoInOrder

(* What the order depends on. *)
Stream == <<fromPru, next, cb, fifo>>

LEMMA OrderedUnchanged == Ordered /\ UNCHANGED Stream => Ordered'
BY DEF Ordered, Stream, InVring, InCallback, InFifo, FifoInOrder

LEMMA FollowsTransitive ==
  ASSUME NEW a \in 1 .. MaxSamples, NEW b \in 1 .. MaxSamples, NEW c \in 1 .. MaxSamples,
         Follows(a, b), Follows(b, c)
  PROVE  Follows(a, c)
BY DEF Follows

LEMMA StreamType ==
  ASSUME TypeOK
  PROVE  /\ next \in 1 .. MaxSamples /\ MaxSamples \in Nat
         /\ Len(fromPru) \in Nat /\ Len(fifo) \in Nat
         /\ cb.msg.n \in 1 .. MaxSamples /\ cb.count \in Nat
         /\ \A i \in 1 .. Len(fromPru) : fromPru[i].n \in 1 .. MaxSamples
         /\ \A k \in 1 .. Len(fifo) : fifo[k][1] \in 1 .. MaxSamples /\ fifo[k][2] \in Nat
<1>1. fromPru \in Seq(Data) /\ fifo \in Seq((1 .. MaxSamples) \X Nat)
  BY DEF TypeOK
<1>2. \A i \in 1 .. Len(fromPru) : fromPru[i] \in Data
  BY <1>1
<1>3. \A k \in 1 .. Len(fifo) : fifo[k] \in (1 .. MaxSamples) \X Nat
  BY <1>1
<1>4. \A d \in Data : d.n \in 1 .. MaxSamples
  BY DEF Data
<1>5. cb.msg \in Data /\ cb.count \in Nat
  BY DEF TypeOK
<1> QED  BY <1>1, <1>2, <1>3, <1>4, <1>5, Bounds DEF TypeOK

(* The firmware numbers what it sends. *)
LEMMA OrderedSend ==
  ASSUME TypeOK, Ordered, UNCHANGED <<cb, fifo>>, AnySend
  PROVE  Ordered'
<1>1. CASE UNCHANGED <<fromPru, next>>
  BY <1>1, OrderedUnchanged DEF Stream
<1>2. ASSUME NEW k \in Modes, fromPru' = Append(fromPru, [kind |-> k, n |-> next]),
             next' = IF next < MaxSamples THEN next + 1 ELSE next
      PROVE  Ordered'
  <2> DEFINE L == Len(fromPru)
  <2>1. /\ L \in Nat /\ Len(fromPru') = L + 1
        /\ \A i \in 1 .. L : fromPru'[i].n = fromPru[i].n
        /\ fromPru'[L + 1].n = next
    BY <1>2 DEF TypeOK
  <2>2. next \in 1 .. MaxSamples /\ MaxSamples \in Nat /\ next' \in 1 .. MaxSamples
        /\ Follows(next, next')
    BY <1>2, StreamType DEF Follows
  <2>3. \A a \in 1 .. MaxSamples : Follows(a, next) => Follows(a, next')
    BY <2>2, FollowsTransitive
  <2>4. UNCHANGED <<cb, fifo>>
    OBVIOUS
  <2> HIDE DEF L
  <2>5. \A i \in 1 .. L + 1 : i \in 1 .. L \/ i = L + 1
    BY <2>1
  <2>6. InVring'
    <3>1. \A i \in 1 .. L : Follows(fromPru[i].n, next') /\ Follows(fromPru[i].n, next)
      BY <2>3, StreamType DEF Ordered, InVring, L
    <3>2. ASSUME NEW i \in 1 .. L + 1 PROVE Follows(fromPru'[i].n, next')
      BY <2>1, <2>2, <2>5, <3>1
    <3>3. ASSUME NEW i \in 1 .. L + 1, NEW j \in 1 .. L + 1, i < j
          PROVE  Follows(fromPru'[i].n, fromPru'[j].n)
      <4>1. i \in 1 .. L
        BY <2>1, <3>3
      <4>2. CASE j \in 1 .. L
        BY <2>1, <3>3, <4>1, <4>2 DEF Ordered, InVring, L
      <4>3. CASE j = L + 1
        BY <2>1, <3>1, <4>1, <4>3
      <4> QED  BY <2>5, <4>2, <4>3
    <3> QED  BY <2>1, <3>2, <3>3 DEF InVring
  <2>7. InCallback'
    <3> SUFFICES ASSUME cb.at # "idle"
                 PROVE  /\ Follows(cb.msg.n, next')
                        /\ \A i \in 1 .. L + 1 : Follows(cb.msg.n, fromPru'[i].n)
      BY <2>1, <2>4 DEF InCallback
    <3>1. Follows(cb.msg.n, next) /\ \A i \in 1 .. L : Follows(cb.msg.n, fromPru[i].n)
      BY DEF Ordered, InCallback, L
    <3> QED  BY <2>1, <2>3, <2>5, <3>1, StreamType
  <2>8. InFifo'
    <3> SUFFICES ASSUME NEW l \in 1 .. Len(fifo)
                 PROVE  /\ Follows(fifo[l][1], next')
                        /\ \A i \in 1 .. L + 1 : Follows(fifo[l][1], fromPru'[i].n)
                        /\ cb.at = "push" => Before(fifo[l], <<cb.msg.n, cb.count>>)
      BY <2>1, <2>4 DEF InFifo
    <3>1. /\ Follows(fifo[l][1], next) /\ \A i \in 1 .. L : Follows(fifo[l][1], fromPru[i].n)
          /\ cb.at = "push" => Before(fifo[l], <<cb.msg.n, cb.count>>)
      BY DEF Ordered, InFifo, L
    <3> QED  BY <2>1, <2>3, <2>5, <3>1, StreamType
  <2>9. FifoInOrder'
    BY <2>4 DEF Ordered, FifoInOrder
  <2> QED  BY <2>6, <2>7, <2>8, <2>9 DEF Ordered
<1> QED  BY <1>1, <1>2 DEF AnySend

(* The callback takes the oldest message. *)
LEMMA OrderedStart ==
  ASSUME TypeOK, Ordered, CbStart
  PROVE  Ordered'
<1> DEFINE L == Len(fromPru)
<1>1. /\ L \in Nat /\ L >= 1 /\ Len(fromPru') = L - 1
      /\ \A i \in 1 .. L - 1 : fromPru'[i] = fromPru[i + 1]
      /\ cb'.msg = fromPru[1] /\ cb'.count = 0
      /\ UNCHANGED <<next, fifo>>
  BY DEF CbStart, TypeOK, iioVars
<1> HIDE DEF L
<1>2. \A i \in 1 .. L - 1 : i + 1 \in 1 .. L /\ 1 < i + 1
  BY <1>1
<1>3. 1 \in 1 .. L
  BY <1>1
<1>4. InVring'
  <2>1. \A i \in 1 .. L - 1 : Follows(fromPru'[i].n, next)
    BY <1>1, <1>2 DEF Ordered, InVring, L
  <2>2. ASSUME NEW i \in 1 .. L - 1, NEW j \in 1 .. L - 1, i < j
        PROVE  Follows(fromPru'[i].n, fromPru'[j].n)
    <3>1. i + 1 \in 1 .. L /\ j + 1 \in 1 .. L /\ i + 1 < j + 1
      BY <1>1, <2>2
    <3> QED  BY <1>1, <3>1 DEF Ordered, InVring, L
  <2> QED  BY <1>1, <2>1, <2>2 DEF InVring
<1>5. InCallback'
  <2>1. Follows(fromPru[1].n, next) /\ \A i \in 1 .. L - 1 : Follows(fromPru[1].n, fromPru[i + 1].n)
    BY <1>2, <1>3 DEF Ordered, InVring, L
  <2> QED  BY <1>1, <2>1 DEF InCallback
<1>6. InFifo'
  <2> SUFFICES ASSUME NEW k \in 1 .. Len(fifo')
               PROVE  /\ Follows(fifo'[k][1], next')
                      /\ \A i \in 1 .. Len(fromPru') : Follows(fifo'[k][1], fromPru'[i].n)
                      /\ Before(fifo'[k], <<cb'.msg.n, cb'.count>>)
    BY DEF InFifo
  <2>1. k \in 1 .. Len(fifo) /\ fifo' = fifo /\ next' = next
    BY <1>1
  <2>2. Follows(fifo[k][1], next) /\ \A i \in 1 .. L : Follows(fifo[k][1], fromPru[i].n)
    BY <2>1 DEF Ordered, InFifo, L
  <2>3. \A i \in 1 .. L - 1 : Follows(fifo[k][1], fromPru'[i].n)
    BY <1>1, <1>2, <2>2
  <2>4. Before(fifo[k], <<fromPru[1].n, 0>>)
    BY <1>3, <2>2 DEF Before, Follows
  <2>5. <<cb'.msg.n, cb'.count>> = <<fromPru[1].n, 0>>
    BY <1>1
  <2>6. Before(fifo'[k], <<cb'.msg.n, cb'.count>>)
    BY <2>1, <2>4, <2>5
  <2>7. \A i \in 1 .. Len(fromPru') : Follows(fifo'[k][1], fromPru'[i].n)
    <3>1. Len(fromPru') = L - 1
      BY <1>1
    <3> QED  BY <2>1, <2>3, <3>1
  <2> QED  BY <2>1, <2>2, <2>6, <2>7
<1>7. FifoInOrder'
  BY <1>1 DEF Ordered, FifoInOrder
<1> QED  BY <1>4, <1>5, <1>6, <1>7 DEF Ordered

(* A value is pushed behind those before it. *)
LEMMA OrderedPush ==
  ASSUME TypeOK, Ordered, CbPush
  PROVE  Ordered'
<1> DEFINE e == <<cb.msg.n, cb.count>>  K == Len(fifo)
<1>1. /\ UNCHANGED <<fromPru, next>> /\ cb.at = "push"
      /\ cb'.msg = cb.msg /\ cb'.count = cb.count + 1
  BY DEF CbPush, TypeOK, pruVars
<1>2. K \in Nat /\ cb.msg.n \in 1 .. MaxSamples /\ cb.count \in Nat /\ MaxSamples \in Nat
  BY StreamType
<1>3. InVring' /\ InCallback'
  BY <1>1 DEF Ordered, InVring, InCallback
<1>4. /\ Follows(e[1], next) /\ \A i \in 1 .. Len(fromPru) : Follows(e[1], fromPru[i].n)
      /\ Before(e, <<cb.msg.n, cb.count + 1>>)
  BY <1>1, <1>2 DEF Ordered, InCallback, Before
<1>5. ASSUME NEW k \in 1 .. K
      PROVE  /\ Follows(fifo[k][1], next)
             /\ \A i \in 1 .. Len(fromPru) : Follows(fifo[k][1], fromPru[i].n)
             /\ Before(fifo[k], e) /\ Before(fifo[k], <<cb.msg.n, cb.count + 1>>)
  <2>1. /\ Follows(fifo[k][1], next) /\ Before(fifo[k], e)
        /\ \A i \in 1 .. Len(fromPru) : Follows(fifo[k][1], fromPru[i].n)
    BY <1>1 DEF Ordered, InFifo
  <2>2. fifo[k][1] \in 1 .. MaxSamples /\ fifo[k][2] \in Nat
    BY StreamType
  <2>3. Before(fifo[k], <<cb.msg.n, cb.count + 1>>)
    BY <1>2, <2>1, <2>2 DEF Before
  <2> QED  BY <2>1, <2>3
<1>6. CASE fifo' = fifo
  <2>1. InFifo'
    BY <1>1, <1>5, <1>6 DEF InFifo
  <2> QED  BY <1>3, <1>6, <2>1 DEF Ordered, FifoInOrder
<1>7. CASE fifo' = Append(fifo, e)
  <2>1. /\ Len(fifo') = K + 1 /\ fifo'[K + 1] = e
        /\ \A k \in 1 .. K : fifo'[k] = fifo[k]
    BY <1>7 DEF TypeOK
  <2> HIDE DEF e, K
  <2>2. \A k \in 1 .. K + 1 : k \in 1 .. K \/ k = K + 1
    BY <1>2
  <2>3. InFifo'
    <3> SUFFICES ASSUME NEW k \in 1 .. K + 1
                 PROVE  /\ Follows(fifo'[k][1], next)
                        /\ \A i \in 1 .. Len(fromPru) : Follows(fifo'[k][1], fromPru[i].n)
                        /\ Before(fifo'[k], <<cb.msg.n, cb.count + 1>>)
      BY <1>1, <2>1 DEF InFifo
    <3>1. CASE k \in 1 .. K
      BY <1>5, <2>1, <3>1
    <3>2. CASE k = K + 1
      BY <1>4, <2>1, <3>2
    <3> QED  BY <2>2, <3>1, <3>2
  <2>4. FifoInOrder'
    <3> SUFFICES ASSUME NEW k \in 1 .. K PROVE Before(fifo'[k], fifo'[k + 1])
      BY <1>2, <2>1 DEF FifoInOrder
    <3>1. CASE k = K
      BY <1>5, <2>1, <3>1
    <3>2. CASE k # K
      <4>1. k \in 1 .. K - 1 /\ k + 1 \in 1 .. K
        BY <1>2, <3>2
      <4> QED  BY <2>1, <4>1 DEF Ordered, FifoInOrder, K
    <3> QED  BY <3>1, <3>2
  <2> QED  BY <1>3, <2>3, <2>4 DEF Ordered
<1> QED  BY <1>6, <1>7 DEF CbPush

(* The process takes from the other end. *)
LEMMA OrderedRead ==
  ASSUME TypeOK, Ordered, UserRead
  PROVE  Ordered'
<1> DEFINE K == Len(fifo)
<1>1. /\ K \in Nat /\ K >= 1 /\ Len(fifo') = K - 1
      /\ \A k \in 1 .. K - 1 : fifo'[k] = fifo[k + 1]
      /\ UNCHANGED <<fromPru, next, cb>>
  BY DEF UserRead, TypeOK, pruVars
<1> HIDE DEF K
<1>2. \A k \in 1 .. K - 1 : k + 1 \in 1 .. K
  BY <1>1
<1>3. InVring' /\ InCallback'
  BY <1>1 DEF Ordered, InVring, InCallback
<1>4. InFifo'
  BY <1>1, <1>2 DEF Ordered, InFifo, K
<1>5. FifoInOrder'
  <2> SUFFICES ASSUME NEW k \in 1 .. K - 2 PROVE Before(fifo'[k], fifo'[k + 1])
    BY <1>1 DEF FifoInOrder
  <2>1. k \in 1 .. K - 1 /\ k + 1 \in 1 .. K - 1
    BY <1>1
  <2> QED  BY <1>1, <2>1 DEF Ordered, FifoInOrder, K
<1> QED  BY <1>3, <1>4, <1>5 DEF Ordered

(***************************************************************************)
(* What a process finds in the kfifo is in order and without repetition,   *)
(* whatever is dropped, stopped or started in between.                     *)
(***************************************************************************)
LEMMA AnySamplesInOrder == AnySpec => []FifoInOrder
<1>1. Init => Ordered
  <2> SUFFICES ASSUME Init PROVE Ordered
    OBVIOUS
  <2>1. Len(fromPru) = 0 /\ Len(fifo) = 0 /\ cb.at = "idle"
    BY DEF Init, NoCallback
  <2> QED  BY <2>1 DEF Ordered, InVring, InCallback, InFifo, FifoInOrder
<1>2. TypeOK /\ Ordered /\ [AnyNext]_vars => Ordered'
  <2> SUFFICES ASSUME TypeOK, Ordered, [AnyNext]_vars PROVE Ordered'
    OBVIOUS
  <2>0. ASSUME PruSend \/ AnyFirmware PROVE AnySend /\ UNCHANGED <<cb, fifo>>
    <3>1. PruSend => AnySend
      BY Bounds DEF PruSend, AnySend, TypeOK
    <3> QED  BY <2>0, <3>1 DEF PruSend, AnyFirmware, iioVars
  <2>1. CASE PruSend \/ AnyFirmware \/ CbStart \/ CbPush \/ UserRead
    BY <2>0, <2>1, OrderedSend, OrderedStart, OrderedPush, OrderedRead
  <2>2. ASSUME NEW u \in Users,
               \/ u \in Readers /\ ReadRaw(u)
               \/ u \in BufferUsers /\ (EnableBuffer(u) \/ StopSampling(u))
               \/ Continue(u) \/ Interrupt(u)
        PROVE  UNCHANGED Stream
    BY <2>2 DEF ReadRaw, EnableBuffer, StopSampling, Continue, Interrupt, StoreMode, LoadMisc,
                StoreEnable, SendConfig, CopyHalves, PostConfig, CheckMode, WaitRaw, Return,
                Deactivate, Stream, pruVars, iioVars
  <2>3. ASSUME NEW w \in Writers, (\E f \in Freqs : WriteFreq(w, f)) \/ StoreHalves(w)
                                  \/ Compute(w) \/ Save(w)
        PROVE  UNCHANGED Stream
    BY <2>3 DEF WriteFreq, StoreHalves, Compute, Save, Stream, pruVars, iioVars
  <2>4. CASE Remove \/ PruReceive \/ PruHang \/ UNCHANGED vars
    <3>1. UNCHANGED Stream
      BY <2>4 DEF Remove, PruReceive, PruHang, vars, Stream, pruVars, iioVars
    <3> QED  BY <3>1, OrderedUnchanged
  <2>5. CASE CbStore \/ CbFlag \/ CbWake \/ CbReturn
    <3>1. UNCHANGED <<fromPru, next, fifo>>
      BY <2>5 DEF CbStore, CbFlag, CbWake, CbReturn, pruVars, iioVars
    <3>2. cb'.at # "push" /\ (cb'.at # "idle" => cb.at # "idle" /\ cb'.msg = cb.msg)
      BY <2>5 DEF CbStore, CbFlag, CbWake, CbReturn, CbRaw, NoCallback, TypeOK
    <3> QED
      BY <3>1, <3>2 DEF Ordered, InVring, InCallback, InFifo, FifoInOrder
  <2> QED
    BY <2>1, <2>2, <2>3, <2>4, <2>5, OrderedUnchanged DEF AnyNext, Next, Callback, Users
<1>3. Ordered => FifoInOrder
  BY DEF Ordered
<1> QED  BY <1>1, <1>2, <1>3, AnyTypeCorrect, PTL DEF AnySpec

(* The kfifo holds samples in the order they were sent in.                 *)
THEOREM SamplesInOrder == Spec => []FifoInOrder
BY FirmwareIsAny, AnySamplesInOrder, PTL

--------------------------------------------------------------------------------
(***************************************************************************)
(* What the missing lock costs, and what it does not.  First word 2: a     *)
(* user that prepares a configuration without another one's call falling   *)
(* into it is the only one preparing, and word 2 is what its own stores    *)
(* have made of it.                                                        *)
(***************************************************************************)
Own(u) == IF u \in Readers THEN "raw" ELSE "block"

Undisturbed ==
  \A u \in Preparing \ overlapped :
    /\ \A v \in Preparing : v = u
    /\ pc[u] = "mode" => misc = [mode |-> "raw", enable |-> FALSE]
    /\ pc[u] = "enable" => misc = [mode |-> Own(u), enable |-> FALSE]
    /\ pc[u] = "or" => /\ misc = [mode |-> Own(u), enable |-> FALSE]
                       /\ held[u].mode = Own(u)
    /\ pc[u] \in {"send", "copy", "post", "check"} => misc = [mode |-> Own(u), enable |-> TRUE]

(* Users outside Preparing disturb nobody who is in it.                    *)
LEMMA UndisturbedAside ==
  ASSUME Undisturbed, UNCHANGED <<misc, held, overlapped>>,
         \A u \in Users :
           {pc[u], pc'[u]} \cap {"mode", "enable", "or", "send", "copy", "post", "check"} # {}
             => pc'[u] = pc[u]
  PROVE  Undisturbed'
<1>1. Preparing' = Preparing
  BY DEF Preparing
<1>2. \A u \in Preparing : pc'[u] = pc[u] /\ Own(u)' = Own(u)
  BY DEF Preparing, Own
<1> QED  BY <1>1, <1>2 DEF Undisturbed

(* The first store makes the caller the only one, or is noticed.           *)
LEMMA UndisturbedClear ==
  ASSUME TypeOK, Undisturbed, NEW u \in Users, pc[u] = "idle", ClearMisc(u)
  PROVE  Undisturbed'
<1>1. /\ pc' = [pc EXCEPT ![u] = "mode"] /\ pc \in [Users -> Locations]
      /\ misc' = [mode |-> "raw", enable |-> FALSE]
      /\ overlapped' = IF Preparing = {} THEN {} ELSE Preparing \cup {u}
  BY DEF ClearMisc, Goto, TypeOK, Locations
<1>2. Preparing' = Preparing \cup {u} /\ pc'[u] = "mode"
  BY <1>1 DEF Preparing
<1>3. CASE Preparing = {}
  BY <1>1, <1>2, <1>3 DEF Undisturbed
<1>4. CASE Preparing # {}
  BY <1>1, <1>2, <1>4 DEF Undisturbed
<1> QED  BY <1>3, <1>4

(* The stores and the send of a caller in Preparing.                       *)
LEMMA UndisturbedStore ==
  ASSUME TypeOK, Undisturbed, NEW u \in Users,
         \/ StoreMode(u) \/ LoadMisc(u) \/ StoreEnable(u) \/ SendConfig(u)
         \/ CopyHalves(u) \/ PostConfig(u)
  PROVE  Undisturbed'
<1>1. /\ u \in Preparing /\ pc \in [Users -> Locations]
      /\ misc \in [mode : Modes, enable : BOOLEAN] /\ held \in [Users -> Held]
  BY DEF StoreMode, LoadMisc, StoreEnable, SendConfig, CopyHalves, PostConfig, Preparing,
         TypeOK, Locations, Misc, Held
<1>2. Preparing' = Preparing /\ overlapped' = overlapped
  BY <1>1 DEF StoreMode, LoadMisc, StoreEnable, SendConfig, CopyHalves, PostConfig, Goto,
              Preparing, history
<1> SUFFICES ASSUME NEW x \in Preparing \ overlapped
             PROVE  /\ \A v \in Preparing : v = x
                    /\ pc'[x] = "mode" => misc' = [mode |-> "raw", enable |-> FALSE]
                    /\ pc'[x] = "enable" => misc' = [mode |-> Own(x), enable |-> FALSE]
                    /\ pc'[x] = "or" => /\ misc' = [mode |-> Own(x), enable |-> FALSE]
                                        /\ held'[x].mode = Own(x)
                    /\ pc'[x] \in {"send", "copy", "post", "check"}
                         => misc' = [mode |-> Own(x), enable |-> TRUE]
  BY <1>2 DEF Undisturbed, Own
<1>3. x = u /\ \A v \in Preparing : v = u
  BY <1>1 DEF Undisturbed
<1>4. CASE StoreMode(u)
  <2>1. misc = [mode |-> "raw", enable |-> FALSE]
    BY <1>3, <1>4 DEF StoreMode, Undisturbed
  <2>2. pc'[u] = "enable" /\ misc' = [misc EXCEPT !.mode = Own(u)]
    BY <1>1, <1>4 DEF StoreMode, Goto, Own
  <2> QED  BY <1>3, <2>1, <2>2
<1>5. CASE LoadMisc(u)
  <2>1. misc = [mode |-> Own(u), enable |-> FALSE]
    BY <1>3, <1>5 DEF LoadMisc, Undisturbed
  <2>2. pc'[u] = "or" /\ misc' = misc /\ held'[u].mode = misc.mode
    BY <1>1, <1>5 DEF LoadMisc, Goto, Held, stVars
  <2> QED  BY <1>3, <2>1, <2>2
<1>6. CASE StoreEnable(u)
  <2>1. held[u].mode = Own(u)
    BY <1>3, <1>6 DEF StoreEnable, Undisturbed
  <2>2. pc'[u] = "send" /\ misc' = [mode |-> held[u].mode, enable |-> TRUE]
    BY <1>1, <1>6 DEF StoreEnable, Goto
  <2> QED  BY <1>3, <2>1, <2>2
<1>7. CASE SendConfig(u) \/ CopyHalves(u) \/ PostConfig(u)
  <2>1. misc = [mode |-> Own(u), enable |-> TRUE]
    BY <1>3, <1>7 DEF SendConfig, CopyHalves, PostConfig, Undisturbed
  <2>2. pc'[u] \in {"copy", "post", "check"} /\ misc' = misc
    BY <1>1, <1>7 DEF SendConfig, CopyHalves, PostConfig, Goto, stVars
  <2> QED  BY <1>3, <2>1, <2>2
<1> QED  BY <1>4, <1>5, <1>6, <1>7

(* A call that no other user's call falls into sends its own configuration *)
(* and decides by its own mode whether to wait.                            *)
LEMMA AnyAloneSendsItsOwn == AnySpec => []PreparedAlone
<1>1. Init => Undisturbed
  BY DEF Init, Undisturbed, Preparing
<1>2. TypeOK /\ Undisturbed /\ [AnyNext]_vars => Undisturbed'
  <2> SUFFICES ASSUME TypeOK, Undisturbed, [AnyNext]_vars PROVE Undisturbed'
    OBVIOUS
  <2>0. pc \in [Users -> Locations] /\ Readers \subseteq Users /\ BufferUsers \subseteq Users
    BY DEF TypeOK, Locations, Users
  <2>1. ASSUME UNCHANGED <<misc, held, overlapped, pc>> PROVE Undisturbed'
    BY <2>1, UndisturbedAside
  <2>2. ASSUME NEW u \in Users, (u \in Readers /\ ReadRaw(u)) \/ (u \in BufferUsers /\ EnableBuffer(u))
        PROVE  Undisturbed'
    BY <2>2, UndisturbedClear DEF ReadRaw, EnableBuffer
  <2>3. ASSUME NEW u \in Users,
               \/ StoreMode(u) \/ LoadMisc(u) \/ StoreEnable(u) \/ SendConfig(u)
               \/ CopyHalves(u) \/ PostConfig(u)
        PROVE  Undisturbed'
    BY <2>3, UndisturbedStore
  <2>4. ASSUME NEW u \in Users, CheckMode(u) PROVE Undisturbed'
    <3>1. pc'[u] \in {"wait", "done"} /\ u \in Preparing
      BY <2>0, <2>4 DEF CheckMode, Goto, Preparing
    <3>2. Preparing' = Preparing \ {u} /\ overlapped' = overlapped \ {u}
      BY <2>0, <2>4, <3>1 DEF CheckMode, Goto, Preparing
    <3>3. Preparing' \ overlapped' = {}
      BY <3>1, <3>2 DEF Undisturbed
    <3> QED  BY <3>3 DEF Undisturbed
  <2>5. ASSUME NEW u \in Users,
               \/ WaitRaw(u) \/ Return(u) \/ Deactivate(u) \/ Interrupt(u)
               \/ u \in BufferUsers /\ StopSampling(u)
        PROVE  Undisturbed'
    <3>1. /\ UNCHANGED <<misc, held, overlapped>>
          /\ \A v \in Users \ {u} : pc'[v] = pc[v]
          /\ {pc[u], pc'[u]} \subseteq {"idle", "wait", "asleep", "done", "disable"}
      BY <2>0, <2>5 DEF WaitRaw, Return, Deactivate, Interrupt, StopSampling, Goto, stVars, history
    <3> QED  BY <3>1, UndisturbedAside
  <2>6. ASSUME NEW w \in Writers, (\E f \in Freqs : WriteFreq(w, f)) \/ StoreHalves(w)
                                  \/ Compute(w) \/ Save(w)
        PROVE  Undisturbed'
    BY <2>1, <2>6 DEF WriteFreq, StoreHalves, Compute, Save, stVars, history
  <2>7. CASE UserRead \/ Remove \/ PruReceive \/ PruSend \/ PruHang \/ AnyFirmware
             \/ UNCHANGED vars
    BY <2>1, <2>7 DEF UserRead, Remove, PruReceive, PruSend, PruHang, AnyFirmware, vars, stVars,
                      history
  <2>8. CASE CbStart \/ CbStore \/ CbFlag \/ CbPush \/ CbReturn
    BY <2>1, <2>8 DEF CbStart, CbStore, CbFlag, CbPush, CbReturn, stVars, history
  <2>9. CASE CbWake
    BY <2>0, <2>9, UndisturbedAside DEF CbWake, stVars, history
  <2> QED
    BY <2>0, <2>2, <2>3, <2>4, <2>5, <2>6, <2>7, <2>8, <2>9 DEF AnyNext, Next, Continue, Callback
<1>3. Undisturbed => PreparedAlone
  BY DEF Undisturbed, PreparedAlone, Own
<1> QED  BY <1>1, <1>2, <1>3, AnyTypeCorrect, PTL DEF AnySpec

(* A call that nobody falls into sends the configuration it prepared.      *)
THEOREM AloneSendsItsOwn == Spec => []PreparedAlone
BY FirmwareIsAny, AnyAloneSendsItsOwn, PTL

--------------------------------------------------------------------------------
(***************************************************************************)
(* Then words 0 and 1.  Unless frequency writes have overlapped at most    *)
(* one is under way, and the words are what it has made of them so far.    *)
(***************************************************************************)
AloneWriting ==
  ~clash =>
    /\ \A v, w \in Writers : wpc[v].at # "idle" /\ wpc[w].at # "idle" => v = w
    /\ \A w \in Writers :
         /\ wpc[w].at = "halves" => timing.between = wpc[w].freq
         /\ wpc[w].at \in {"compute", "save"} => timing.between = timing.halves
         /\ wpc[w].at = "save" => wpc[w].result = timing
    /\ (\A w \in Writers : wpc[w].at = "idle") =>
         timing.between = timing.halves /\ reported = timing

(* A write that no other overlaps leaves one frequency in the words and    *)
(* reports it, whatever was there before.                                  *)
LEMMA AnyLoneWriteMends == AnySpec => []LoneWrite
<1>1. Init => AloneWriting
  BY DEF Init, AloneWriting, NotWriting, Counts
<1>2. TypeOK /\ AloneWriting /\ [AnyNext]_vars => AloneWriting'
  <2> SUFFICES ASSUME TypeOK, AloneWriting, [AnyNext]_vars, ~clash' PROVE AloneWriting'
    BY DEF AloneWriting
  <2>0. wpc \in [Writers -> Calls] /\ timing \in [between : Freqs \cup {"unset"}, halves : Freqs \cup {"unset"}]
    BY DEF TypeOK, Calls, Timing
  <2>1. ASSUME UNCHANGED <<timing, reported, wpc, clash>> PROVE AloneWriting'
    BY <2>1 DEF AloneWriting
  <2>2. ASSUME NEW w \in Writers, NEW f \in Freqs, WriteFreq(w, f) PROVE AloneWriting'
    <3>1. \A v \in Writers \ {w} : wpc[v].at = "idle"
      BY <2>2 DEF WriteFreq
    <3>2. /\ \A v \in Writers \ {w} : wpc'[v].at = "idle"
          /\ wpc'[w].at = "halves" /\ wpc'[w].freq = f /\ timing'.between = f
      BY <2>0, <2>2, <3>1 DEF WriteFreq, Calls
    <3> QED  BY <3>2 DEF AloneWriting
  <2>3. ASSUME NEW w \in Writers, wpc[w].at # "idle", ~clash
        PROVE  \A v \in Writers \ {w} : wpc[v].at = "idle"
    BY <2>3 DEF AloneWriting
  <2>4. ASSUME NEW w \in Writers, StoreHalves(w) PROVE AloneWriting'
    <3>1. ~clash /\ timing.between = wpc[w].freq /\ \A v \in Writers \ {w} : wpc[v].at = "idle"
      BY <2>3, <2>4 DEF StoreHalves, history, AloneWriting
    <3>2. /\ \A v \in Writers \ {w} : wpc'[v].at = "idle"
          /\ wpc'[w].at = "compute" /\ timing'.between = timing'.halves
      BY <2>0, <2>4, <3>1 DEF StoreHalves, Calls
    <3> QED  BY <3>2 DEF AloneWriting
  <2>5. ASSUME NEW w \in Writers, Compute(w) PROVE AloneWriting'
    <3>1. ~clash /\ timing.between = timing.halves /\ \A v \in Writers \ {w} : wpc[v].at = "idle"
      BY <2>3, <2>5 DEF Compute, history, AloneWriting
    <3>2. /\ \A v \in Writers \ {w} : wpc'[v].at = "idle"
          /\ wpc'[w].at = "save" /\ wpc'[w].result = timing /\ timing' = timing
      BY <2>0, <2>5, <3>1 DEF Compute, Calls, stVars
    <3> QED  BY <3>1, <3>2 DEF AloneWriting
  <2>6. ASSUME NEW w \in Writers, Save(w) PROVE AloneWriting'
    <3>1. /\ ~clash /\ timing.between = timing.halves /\ wpc[w].result = timing
          /\ \A v \in Writers \ {w} : wpc[v].at = "idle"
      BY <2>3, <2>6 DEF Save, history, AloneWriting
    <3>2. \A v \in Writers : wpc'[v].at = "idle"
      BY <2>0, <2>6, <3>1 DEF Save, NotWriting
    <3>3. timing' = timing /\ reported' = timing
      BY <2>6, <3>1 DEF Save
    <3> QED  BY <3>1, <3>2, <3>3 DEF AloneWriting
  <2>7. ASSUME NEW u \in Users,
               \/ u \in Readers /\ ReadRaw(u)
               \/ u \in BufferUsers /\ (EnableBuffer(u) \/ StopSampling(u))
               \/ Continue(u) \/ Interrupt(u)
        PROVE  AloneWriting'
    BY <2>1, <2>7 DEF ReadRaw, EnableBuffer, ClearMisc, StopSampling, Continue, Interrupt, StoreMode,
                      LoadMisc, StoreEnable, SendConfig, CopyHalves, PostConfig, CheckMode, WaitRaw,
                      Return, Deactivate, stVars, history
  <2>8. CASE UserRead \/ Remove \/ PruReceive \/ PruSend \/ PruHang \/ AnyFirmware \/ Callback
             \/ UNCHANGED vars
    BY <2>1, <2>8 DEF UserRead, Remove, PruReceive, PruSend, PruHang, AnyFirmware, Callback, CbStart,
                      CbStore, CbFlag, CbWake, CbPush, CbReturn, vars, stVars, history
  <2> QED
    BY <2>2, <2>4, <2>5, <2>6, <2>7, <2>8 DEF AnyNext, Next, Users
<1>3. AloneWriting => LoneWrite
  BY DEF AloneWriting, LoneWrite
<1> QED  BY <1>1, <1>2, <1>3, AnyTypeCorrect, PTL DEF AnySpec

(* A write that no other overlaps mends the words and the frequency.       *)
THEOREM LoneWriteMends == Spec => []LoneWrite
BY FirmwareIsAny, AnyLoneWriteMends, PTL

(***************************************************************************)
(* What of all this holds whatever the firmware does: order in the kfifo,  *)
(* no lost wakeup, and both halves of what callers alone can rely on.      *)
(***************************************************************************)
THEOREM SafeWithAnyFirmware ==
  AnySpec => [](FifoInOrder /\ NoLostWakeup /\ PreparedAlone /\ LoneWrite)
BY AnySamplesInOrder, AnyWakeupNotLost, AnyAloneSendsItsOwn, AnyLoneWriteMends, PTL

--------------------------------------------------------------------------------
(***************************************************************************)
(* Once a frequency write has returned, words 0 and 1 hold counts for      *)
(* good, however writes interleave: only a block asked for before then     *)
(* carries none, and only that one hangs PRU1.                             *)
(***************************************************************************)
Whole(t) == t.between # "unset" /\ t.halves # "unset"

WritersSet ==
  \A w \in Writers :
    /\ wpc[w].at = "halves" => wpc[w].freq # "unset"
    /\ wpc[w].at # "idle" => timing.between # "unset"
    /\ wpc[w].at \in {"compute", "save"} => timing.halves # "unset"
    /\ wpc[w].at = "save" => Whole(wpc[w].result)

SavedIsSet == Whole(reported) => Whole(timing)

(* A send that began after a frequency was saved finds counts to copy.     *)
CopiedLate ==
  \A u \in Users \ unsaved :
    /\ pc[u] = "copy" => held[u].timing.between # "unset" /\ Whole(timing)
    /\ pc[u] = "post" => Whole(held[u].timing)

UnsetSentEarly ==
  /\ \A i \in 1 .. Len(toPru) :
       toPru[i].len = "long" /\ toPru[i].misc.mode = "block" /\ ~Whole(toPru[i].timing) => early
  /\ work \in {"endless", "hung"} => early

(* Writers never take a count away.                                        *)
LEMMA SetByWriters ==
  ASSUME TypeOK, WritersSet, SavedIsSet, NEW w \in Writers,
         (\E f \in Freqs : WriteFreq(w, f)) \/ StoreHalves(w) \/ Compute(w) \/ Save(w)
  PROVE  WritersSet' /\ SavedIsSet' /\ (Whole(timing) => Whole(timing'))
<1>0. /\ wpc \in [Writers -> Calls]
      /\ timing \in [between : Freqs \cup {"unset"}, halves : Freqs \cup {"unset"}]
  BY DEF TypeOK, Calls, Timing
<1> USE DEF WritersSet, SavedIsSet, Whole
<1>1. ASSUME NEW f \in Freqs, WriteFreq(w, f)
      PROVE  WritersSet' /\ SavedIsSet' /\ (Whole(timing) => Whole(timing'))
  <2>1. f # "unset"
    BY DriverAssumption
  <2>2. /\ timing'.between = f /\ timing'.halves = timing.halves /\ reported' = reported
        /\ \A v \in Writers \ {w} : wpc'[v] = wpc[v]
        /\ wpc'[w].at = "halves" /\ wpc'[w].freq = f
    <3>1. /\ timing' = [timing EXCEPT !.between = f] /\ reported' = reported
          /\ wpc' = [wpc EXCEPT ![w].at = "halves", ![w].freq = f]
      BY <1>1 DEF WriteFreq
    <3>2. timing'.between = f /\ timing'.halves = timing.halves
      BY <1>0, <3>1
    <3> QED  BY <1>0, <3>1, <3>2 DEF Calls
  <2> QED  BY <2>1, <2>2
<1>2. CASE StoreHalves(w)
  <2>1. wpc[w].freq # "unset" /\ timing.between # "unset"
    BY <1>2 DEF StoreHalves
  <2>2. /\ timing'.between = timing.between /\ timing'.halves = wpc[w].freq /\ reported' = reported
        /\ \A v \in Writers \ {w} : wpc'[v] = wpc[v]
        /\ wpc'[w].at = "compute"
    BY <1>0, <1>2 DEF StoreHalves, Calls
  <2> QED  BY <2>1, <2>2
<1>3. CASE Compute(w)
  <2>1. Whole(timing)
    BY <1>3 DEF Compute
  <2>2. /\ timing' = timing /\ reported' = reported
        /\ \A v \in Writers \ {w} : wpc'[v] = wpc[v]
        /\ wpc'[w].at = "save" /\ wpc'[w].result = timing
    BY <1>0, <1>3 DEF Compute, Calls, stVars
  <2> QED  BY <2>1, <2>2
<1>4. CASE Save(w)
  <2>1. Whole(timing)
    BY <1>4 DEF Save
  <2>2. /\ timing' = timing /\ wpc'[w].at = "idle"
        /\ \A v \in Writers \ {w} : wpc'[v] = wpc[v]
    BY <1>0, <1>4 DEF Save, NotWriting
  <2> QED  BY <2>1, <2>2
<1> QED  BY <1>1, <1>2, <1>3, <1>4

(* A send copies counts, or has begun before they were saved.              *)
LEMMA CopiedByUsers ==
  ASSUME TypeOK, SavedIsSet, CopiedLate, NEW u \in Users,
         \/ u \in Readers /\ ReadRaw(u)
         \/ u \in BufferUsers /\ (EnableBuffer(u) \/ StopSampling(u))
         \/ Continue(u) \/ Interrupt(u)
  PROVE  CopiedLate'
<1>0. /\ pc \in [Users -> Locations] /\ held \in [Users -> Held]
      /\ timing \in [between : Freqs \cup {"unset"}, halves : Freqs \cup {"unset"}]
  BY DEF TypeOK, Locations, Held, Timing
<1>1. timing' = timing /\ \A v \in Users \ {u} : pc'[v] = pc[v] /\ held'[v] = held[v]
  BY <1>0 DEF ReadRaw, EnableBuffer, ClearMisc, StopSampling, Continue, Interrupt, StoreMode,
              LoadMisc, StoreEnable, SendConfig, CopyHalves, PostConfig, CheckMode, WaitRaw,
              Return, Deactivate, Goto, stVars
<1>2. unsaved \ {u} \subseteq unsaved'
  BY DEF ReadRaw, EnableBuffer, ClearMisc, StopSampling, Continue, Interrupt, StoreMode,
         LoadMisc, StoreEnable, SendConfig, CopyHalves, PostConfig, CheckMode, WaitRaw,
         Return, Deactivate, history
<1>3. \A v \in Users \ unsaved' : v # u =>
        /\ pc'[v] = "copy" => held'[v].timing.between # "unset" /\ Whole(timing')
        /\ pc'[v] = "post" => Whole(held'[v].timing)
  BY <1>1, <1>2 DEF CopiedLate
<1>4. ASSUME u \notin unsaved'
      PROVE  /\ pc'[u] = "copy" => held'[u].timing.between # "unset" /\ Whole(timing')
             /\ pc'[u] = "post" => Whole(held'[u].timing)
  <2>1. CASE SendConfig(u)
    <3>1. pc'[u] \in {"copy", "check"}
      BY <1>0, <2>1 DEF SendConfig, Goto
    <3>2. ASSUME pc'[u] = "copy" PROVE held'[u].timing.between # "unset" /\ Whole(timing')
      <4>1. /\ held' = [held EXCEPT ![u].timing.between = timing.between]
            /\ "unset" \notin {reported.between, reported.halves}
        BY <1>0, <1>4, <2>1, <3>2 DEF SendConfig, Goto
      <4>2. Whole(timing)
        BY <4>1 DEF SavedIsSet, Whole
      <4>3. held'[u].timing.between = timing.between
        BY <1>0, <4>1 DEF Held, Timing
      <4> QED  BY <1>1, <4>2, <4>3 DEF Whole
    <3> QED  BY <3>1, <3>2
  <2>2. CASE CopyHalves(u)
    <3>1. /\ pc[u] = "copy" /\ pc'[u] = "post" /\ u \notin unsaved
          /\ held' = [held EXCEPT ![u].timing.halves = timing.halves]
      BY <1>0, <1>4, <2>2 DEF CopyHalves, Goto, history
    <3>2. held[u].timing.between # "unset" /\ Whole(timing)
      BY <3>1 DEF CopiedLate
    <3>3. held'[u].timing.between = held[u].timing.between /\ held'[u].timing.halves = timing.halves
      BY <1>0, <3>1 DEF Held, Timing
    <3> QED  BY <3>1, <3>2, <3>3 DEF Whole
  <2>3. CASE ~SendConfig(u) /\ ~CopyHalves(u)
    <3>1. pc'[u] \notin {"copy", "post"}
      BY <1>0, <2>3 DEF ReadRaw, EnableBuffer, ClearMisc, StopSampling, Continue, Interrupt,
              StoreMode, LoadMisc, StoreEnable, PostConfig, CheckMode, WaitRaw, Return,
              Deactivate, Goto
    <3> QED  BY <3>1
  <2> QED  BY <2>1, <2>2, <2>3
<1> QED  BY <1>3, <1>4 DEF CopiedLate

(* What is sent is what was copied, and early if that has a gap.           *)
LEMMA SentEarly ==
  ASSUME TypeOK, CopiedLate, UnsetSentEarly, NEW u \in Users, PostConfig(u)
  PROVE  UnsetSentEarly'
<1> DEFINE m == [len |-> "long", timing |-> held[u].timing, misc |-> misc]
           L == Len(toPru)
<1>1. L \in Nat /\ work' = work /\ (early => early') /\ toPru' = Append(toPru, m)
  BY DEF PostConfig, Post, TypeOK, pruVars
<1>2. /\ Len(toPru') = L + 1 /\ toPru'[L + 1] = m
      /\ \A i \in 1 .. L : toPru'[i] = toPru[i]
  BY <1>1 DEF TypeOK
<1>3. misc.mode = "block" /\ ~Whole(held[u].timing) => early'
  BY DEF PostConfig, CopiedLate
<1> HIDE DEF L
<1>4. \A i \in 1 .. L + 1 : i \in 1 .. L \/ i = L + 1
  BY <1>1
<1>5. ASSUME NEW i \in 1 .. L + 1, toPru'[i].len = "long", toPru'[i].misc.mode = "block",
             ~Whole(toPru'[i].timing)
      PROVE  early'
  <2>1. CASE i \in 1 .. L
    BY <1>1, <1>2, <1>5, <2>1 DEF UnsetSentEarly, L
  <2>2. CASE i = L + 1
    BY <1>2, <1>3, <1>5, <2>2
  <2> QED  BY <1>4, <2>1, <2>2
<1> QED  BY <1>1, <1>2, <1>5 DEF UnsetSentEarly, Whole

(* The firmware takes over what is early, and nothing else.                *)
LEMMA ReceivedEarly ==
  ASSUME TypeOK, UnsetSentEarly, PruReceive
  PROVE  UnsetSentEarly'
<1>1. early' = early
  BY DEF PruReceive, history
<1>2. CASE toPru = <<>>
  BY <1>1, <1>2 DEF PruReceive, UnsetSentEarly
<1>3. CASE toPru # <<>>
  <2> DEFINE L == Len(toPru)  m == toPru[1]
  <2>1. /\ L \in Nat /\ L >= 1 /\ Head(toPru) = m
        /\ toPru' = Tail(toPru) /\ Len(toPru') = L - 1
        /\ \A i \in 1 .. L - 1 : toPru'[i] = toPru[i + 1] /\ i + 1 \in 1 .. L
    <3> DEFINE M == Config \cup {Stop}
    <3>1. toPru \in Seq(M) /\ toPru' = Tail(toPru)
      BY <1>3 DEF PruReceive, TypeOK
    <3> HIDE DEF M
    <3> QED  BY <1>3, <3>1
  <2>2. \A i \in 1 .. L - 1 :
          toPru'[i].len = "long" /\ toPru'[i].misc.mode = "block" /\ ~Whole(toPru'[i].timing)
          => early
    BY <2>1 DEF UnsetSentEarly
  <2>3. ASSUME work' = "endless" PROVE early
    <3>1. m.len = "long" /\ pruMode' # "raw" /\ pruMode' = m.misc.mode /\ ~Whole(m.timing)
      BY <1>3, <2>1, <2>3 DEF PruReceive, Whole
    <3>2. m.misc.mode = "block"
      <4>1. m \in Config \cup {Stop}
        BY <2>1 DEF TypeOK
      <4>2. m.misc \in Misc
        BY <3>1, <4>1 DEF Config, Stop
      <4> QED  BY <3>1, <4>2 DEF Misc, Modes
    <3> QED  BY <2>1, <3>1, <3>2 DEF UnsetSentEarly
  <2>4. work' = "hung" => work = "hung"
    BY <1>3 DEF PruReceive
  <2> QED  BY <1>1, <2>1, <2>2, <2>3, <2>4 DEF UnsetSentEarly, Whole
<1> QED  BY <1>2, <1>3

(* PRU1 hangs only if block mode was asked for before a frequency write    *)
(* had returned.                                                           *)
THEOREM HungOnlyEarly == Spec => []HungEarly
<1> DEFINE I == WritersSet /\ SavedIsSet /\ CopiedLate /\ UnsetSentEarly
<1>1. Init => I
  <2> SUFFICES ASSUME Init PROVE I
    OBVIOUS
  <2>1. timing = reported /\ \A w \in Writers : wpc[w].at = "idle"
    BY DEF Init, NotWriting
  <2>2. Len(toPru) = 0 /\ work = "idle"
    BY DEF Init
  <2>3. \A u \in Users : pc[u] = "idle"
    BY DEF Init
  <2> QED  BY <2>1, <2>2, <2>3 DEF WritersSet, SavedIsSet, CopiedLate, UnsetSentEarly
<1>2. TypeOK /\ I /\ [Next]_vars => I'
  <2> SUFFICES ASSUME TypeOK, WritersSet, SavedIsSet, CopiedLate, UnsetSentEarly, [Next]_vars
               PROVE  I'
    OBVIOUS
  <2>1. ASSUME UNCHANGED <<timing, reported, wpc>> PROVE WritersSet' /\ SavedIsSet'
    BY <2>1 DEF WritersSet, SavedIsSet, Whole
  <2>2. ASSUME UNCHANGED <<toPru, work, early>> PROVE UnsetSentEarly'
    BY <2>2 DEF UnsetSentEarly, Whole
  <2>c. ASSUME UNCHANGED <<pc, held, unsaved>>, Whole(timing) => Whole(timing')
        PROVE  CopiedLate'
    BY <2>c DEF CopiedLate, Whole
  <2>3. ASSUME NEW w \in Writers, (\E f \in Freqs : WriteFreq(w, f)) \/ StoreHalves(w)
                                  \/ Compute(w) \/ Save(w)
        PROVE  I'
    <3>1. UNCHANGED <<toPru, work, early, pc, held, unsaved>>
      BY <2>3 DEF WriteFreq, StoreHalves, Compute, Save, stVars, pruVars, history
    <3> QED  BY <2>2, <2>3, <2>c, <3>1, SetByWriters
  <2>4. ASSUME NEW u \in Users, PostConfig(u) PROVE I'
    <3>1. UNCHANGED <<timing, reported, wpc>>
      BY <2>4 DEF PostConfig, stVars
    <3> QED  BY <2>1, <2>4, <3>1, SentEarly, CopiedByUsers DEF Continue
  <2>5. CASE PruReceive
    <3>1. UNCHANGED <<timing, reported, wpc, pc, held, unsaved>>
      BY <2>5 DEF PruReceive, stVars, history
    <3> QED  BY <2>1, <2>5, <2>c, <3>1, ReceivedEarly
  <2>6. CASE PruHang
    <3>1. UNCHANGED <<timing, reported, wpc, pc, held, unsaved, toPru, early>> /\ work = "endless"
      BY <2>6 DEF PruHang, stVars, history
    <3>2. UnsetSentEarly'
      BY <3>1 DEF UnsetSentEarly, Whole
    <3> QED  BY <2>1, <2>c, <3>1, <3>2
  <2>7. CASE PruSend
    <3>1. /\ UNCHANGED <<timing, reported, wpc, pc, held, unsaved, toPru, early>>
          /\ work' \notin {"endless", "hung"}
      BY <2>7 DEF PruSend, Modes, stVars, history
    <3>2. UnsetSentEarly'
      BY <3>1 DEF UnsetSentEarly, Whole
    <3> QED  BY <2>1, <2>c, <3>1, <3>2
  <2>8. ASSUME NEW b \in BufferUsers, StopSampling(b) PROVE I'
    <3>1. UNCHANGED <<timing, reported, wpc, work, early>>
          /\ (toPru' = toPru \/ toPru' = Append(toPru, Stop))
      BY <2>8 DEF StopSampling, Post, stVars, pruVars, history
    <3>0. CopiedLate'
      BY <2>8, CopiedByUsers DEF Users
    <3>2. CASE toPru' = toPru
      BY <2>1, <2>2, <3>0, <3>1, <3>2
    <3>3. CASE toPru' = Append(toPru, Stop)
      <4> DEFINE L == Len(toPru)
      <4>1. /\ L \in Nat /\ Len(toPru') = L + 1 /\ toPru'[L + 1] = Stop
            /\ \A i \in 1 .. L : toPru'[i] = toPru[i]
        BY <3>3 DEF TypeOK
      <4>2. toPru'[L + 1].len # "long"
        BY <4>1 DEF Stop
      <4> HIDE DEF L
      <4>3. \A i \in 1 .. L + 1 : i \in 1 .. L \/ i = L + 1
        BY <4>1
      <4>4. UnsetSentEarly'
        BY <3>1, <4>1, <4>2, <4>3 DEF UnsetSentEarly, Whole, L
      <4> QED  BY <2>1, <3>0, <3>1, <4>4
    <3> QED  BY <3>1, <3>2, <3>3
  <2>9. ASSUME NEW u \in Users,
               \/ u \in Readers /\ ReadRaw(u)
               \/ u \in BufferUsers /\ EnableBuffer(u)
               \/ StoreMode(u) \/ LoadMisc(u) \/ StoreEnable(u) \/ SendConfig(u) \/ CopyHalves(u)
               \/ CheckMode(u) \/ WaitRaw(u) \/ Return(u) \/ Deactivate(u) \/ Interrupt(u)
        PROVE  I'
    <3>1. UNCHANGED <<timing, reported, wpc, toPru, work, early>>
      BY <2>9 DEF ReadRaw, EnableBuffer, ClearMisc, StoreMode, LoadMisc, StoreEnable, SendConfig,
                  CopyHalves, CheckMode, WaitRaw, Return, Deactivate, Interrupt, stVars, pruVars,
                  history
    <3> QED  BY <2>1, <2>2, <2>9, <3>1, CopiedByUsers DEF Continue
  <2>10. CASE UserRead \/ Remove \/ Callback \/ UNCHANGED vars
    <3>1. UNCHANGED <<timing, reported, wpc, held, unsaved, toPru, work, early>>
      BY <2>10 DEF UserRead, Remove, Callback, CbStart, CbStore, CbFlag, CbWake, CbPush, CbReturn,
                   vars, stVars, pruVars, history
    <3>2. \A u \in Users : pc'[u] \in {"copy", "post"} => pc'[u] = pc[u]
      BY <2>10 DEF UserRead, Remove, Callback, CbStart, CbStore, CbFlag, CbWake, CbPush, CbReturn,
                   vars
    <3>3. CopiedLate'
      BY <3>1, <3>2 DEF CopiedLate, Whole
    <3> QED  BY <2>1, <2>2, <3>1, <3>3
  <2> QED
    BY <2>3, <2>4, <2>5, <2>6, <2>7, <2>8, <2>9, <2>10 DEF Next, Continue, Users
<1>3. I => HungEarly
  BY DEF UnsetSentEarly, HungEarly
<1> QED  BY <1>1, <1>2, <1>3, TypeCorrect, PTL DEF Spec

--------------------------------------------------------------------------------
(***************************************************************************)
(* A sender that finds no free buffer in vring1 waits for one, and one is  *)
(* on its way back: the doorbell of the message that filled the ring is    *)
(* pending, or another sender is copying a message and will ring for it.   *)
(* So the one send that SendConfig leaves out, which times out, is not due. *)
(***************************************************************************)
SenderServed == Taken = MaxQueue => doorbell \/ Copying # {}

THEOREM FullRingRung == Spec => []SenderServed
<1>1. Init => SenderServed
  <2> SUFFICES ASSUME Init, Copying = {} PROVE Taken # MaxQueue
    BY DEF SenderServed
  <2>1. Len(toPru) = 0 /\ Cardinality(Copying) = 0
    BY FS_EmptySet DEF Init
  <2> QED  BY <2>1, DriverAssumption DEF Taken
<1>2. TypeOK /\ SenderServed /\ [Next]_vars => SenderServed'
  <2> SUFFICES ASSUME TypeOK, SenderServed, [Next]_vars PROVE SenderServed'
    OBVIOUS
  <2>0. /\ pc \in [Users -> Locations] /\ BufferUsers \subseteq Users
        /\ toPru \in Seq(Config \cup {Stop}) /\ Taken <= MaxQueue
    BY DEF TypeOK, Locations, Users
  <2>1. ASSUME doorbell' \/ Copying' # {} PROVE SenderServed'
    BY <2>1 DEF SenderServed
  <2>2. ASSUME UNCHANGED <<toPru, doorbell>>, Copying' = Copying PROVE SenderServed'
    BY <2>2 DEF SenderServed, Taken
  <2>3. ASSUME NEW u \in Users, NEW l, Goto(u, l), UNCHANGED <<toPru, doorbell>>,
               pc[u] \notin {"copy", "post"}, l \notin {"copy", "post"}
        PROVE  SenderServed'
    BY <2>0, <2>2, <2>3, CopyingKept
  <2>4. ASSUME NEW u \in Users,
               \/ u \in Readers /\ ReadRaw(u)
               \/ u \in BufferUsers /\ EnableBuffer(u)
               \/ StoreMode(u) \/ LoadMisc(u) \/ StoreEnable(u) \/ CheckMode(u)
               \/ WaitRaw(u) \/ Return(u) \/ Deactivate(u) \/ Interrupt(u)
        PROVE  SenderServed'
    BY <2>3, <2>4 DEF ReadRaw, EnableBuffer, ClearMisc, StoreMode, LoadMisc, StoreEnable,
                      CheckMode, WaitRaw, Return, Deactivate, Interrupt
  <2>5. ASSUME NEW b \in BufferUsers, StopSampling(b) PROVE SenderServed'
    BY <2>0, <2>1, <2>3, <2>5 DEF StopSampling, Post
  <2>6. ASSUME NEW u \in Users, SendConfig(u) PROVE SenderServed'
    <3>1. CASE Goto(u, "check")
      BY <2>3, <2>6, <3>1 DEF SendConfig
    <3>2. CASE Goto(u, "copy")
      BY <2>0, <2>1, <3>2 DEF Goto, Copying
    <3> QED  BY <2>6, <3>1, <3>2 DEF SendConfig
  <2>7. ASSUME NEW u \in Users, CopyHalves(u) \/ PostConfig(u) PROVE SenderServed'
    <3>1. CASE CopyHalves(u)
      BY <2>0, <2>1, <3>1 DEF CopyHalves, Goto, Copying
    <3>2. CASE PostConfig(u)
      BY <2>1, <3>2 DEF PostConfig, Post
    <3> QED  BY <2>7, <3>1, <3>2
  <2>8. CASE PruReceive
    <3>0. Copying' = Copying
      BY <2>8 DEF PruReceive, Copying
    <3>1. CASE Copying # {}
      BY <2>1, <3>0, <3>1
    <3>2. CASE Copying = {}
      <4>1. Cardinality(Copying') = 0
        BY <3>0, <3>2, FS_EmptySet
      <4>2. Len(toPru') \in Nat /\ Len(toPru') < MaxQueue
        <5>1. CASE toPru = <<>>
          BY <2>8, <5>1, DriverAssumption DEF PruReceive
        <5>2. CASE toPru # <<>>
          <6> DEFINE M == Config \cup {Stop}
          <6>1. toPru \in Seq(M) /\ toPru' = Tail(toPru)
            BY <2>0, <2>8, <5>2 DEF PruReceive
          <6>2. Len(toPru) <= MaxQueue
            <7>1. Cardinality(Copying) = 0
              BY <3>2, FS_EmptySet
            <7> QED  BY <2>0, <7>1 DEF Taken
          <6> HIDE DEF M
          <6>3. Len(toPru') = Len(toPru) - 1 /\ Len(toPru) \in Nat
            BY <5>2, <6>1
          <6> QED  BY <6>2, <6>3, Bounds
        <5> QED  BY <5>1, <5>2
      <4> QED  BY <4>1, <4>2, Bounds DEF SenderServed, Taken
    <3> QED  BY <3>1, <3>2
  <2>9. ASSUME NEW w \in Writers, (\E f \in Freqs : WriteFreq(w, f)) \/ StoreHalves(w)
                                  \/ Compute(w) \/ Save(w)
        PROVE  SenderServed'
    BY <2>2, <2>9 DEF WriteFreq, StoreHalves, Compute, Save, Copying
  <2>10. CASE UserRead \/ Remove \/ PruSend \/ PruHang \/ CbStart \/ CbStore \/ CbFlag
              \/ CbPush \/ UNCHANGED vars
    BY <2>2, <2>10 DEF UserRead, Remove, PruSend, PruHang, CbStart, CbStore, CbFlag, CbPush,
                       vars, Copying
  <2>11. CASE CbWake
    <3>1. Copying' = Copying
      BY <2>0, <2>11 DEF CbWake, Copying
    <3> QED  BY <2>2, <2>11, <3>1 DEF CbWake
  <2>12. CASE CbReturn
    BY <2>1, <2>12 DEF CbReturn
  <2> QED
    BY <2>4, <2>5, <2>6, <2>7, <2>8, <2>9, <2>10, <2>11, <2>12 DEF Next, Continue, Callback, Users
<1> QED  BY <1>1, <1>2, TypeCorrect, PTL DEF Spec

================================================================================
