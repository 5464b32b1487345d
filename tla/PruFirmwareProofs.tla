--------------------------- MODULE PruFirmwareProofs ---------------------------
(***************************************************************************)
(* Safety of the two cores for every number of banks (three or more),      *)
(* blocks per buffer, buffers, timing words and queued messages.           *)
(***************************************************************************)
EXTENDS PruFirmware, TLAPS

USE FirmwareAssumption

(* The rotation stays within the banks. *)
LEMMA NextBankType == 0 \in Banks /\ \A b \in Banks : NextBank(b) \in Banks
BY DEF Banks, NextBank

(* With three banks or more, the two after a bank differ from it and from  *)
(* each other.                                                             *)
LEMMA NextBankFresh ==
  \A b \in Banks : /\ NextBank(b) # b
                   /\ NextBank(NextBank(b)) # b
                   /\ NextBank(NextBank(b)) # NextBank(b)
BY DEF Banks, NextBank

(* Copying words from one configuration to another gives a configuration.  *)
LEMMA ConfigType ==
  ASSUME NEW c \in ConfigWords, NEW d \in ConfigWords, NEW b \in BOOLEAN
  PROVE  /\ [c EXCEPT !.timing = d.timing] \in ConfigWords
         /\ [c EXCEPT !.timing = "clobbered", !.start = b] \in ConfigWords
         /\ [c EXCEPT !.mode = d.mode, !.start = d.start] \in ConfigWords
         /\ Dispatch(d) \in {"raw", "sample", "int_loop"}
BY DEF ConfigWords, Dispatch

LEMMA MessageType ==
  ASSUME NEW m \in Messages
  PROVE  /\ m.start \in BOOLEAN
         /\ m.len = "long" =>
              [timing |-> m.timing, mode |-> m.mode, start |-> m.start] \in ConfigWords
BY DEF Messages, LongMsgs, ShortMsgs, ConfigWords

--------------------------------------------------------------------------------
(* The variables keep their types and no buffer is lost: that avail and    *)
(* used stay within NumBufs needs the conservation, which needs the types. *)
THEOREM Buffers == Spec => [](TypeOK /\ BufferConservation)
<1>1. Init => TypeOK /\ BufferConservation
  <2> SUFFICES ASSUME Init PROVE TypeOK /\ BufferConservation
    OBVIOUS
  <2>1. NoConfig \in ConfigWords
    BY DEF NoConfig, ConfigWords, Modes
  <2>2. toPru \in Seq(Messages) /\ Len(toPru) = 0
    BY DEF Init
  <2> QED
    BY <2>1, <2>2 DEF Init, TypeOK, BufferConservation, Banks
<1>2. TypeOK /\ BufferConservation /\ [Next]_vars => TypeOK' /\ BufferConservation'
  <2> SUFFICES ASSUME TypeOK, BufferConservation, [Next]_vars
               PROVE  TypeOK' /\ BufferConservation'
    OBVIOUS
  <2> USE DEF TypeOK, BufferConservation
  <2>1. ASSUME NEW m \in Messages, ArmSend(m) PROVE TypeOK' /\ BufferConservation'
    BY <2>1 DEF ArmSend, rxVars, pru0Vars, pru1Vars
  <2>2. CASE ArmKick
    BY <2>2 DEF ArmKick, rxVars, pru0Vars, pru1Vars
  <2>3. CASE ArmRecycle
    BY <2>3 DEF ArmRecycle, pru0Vars, pru1Vars
  <2>4. CASE PollArm
    BY <2>4 DEF PollArm, rxVars, pru1Vars
  <2>5. CASE ReceiveNothing
    BY <2>5 DEF ReceiveNothing, armVars, rxVars, pru1Vars
  <2>6. CASE Receive
    <3>1. Head(toPru) \in Messages /\ Tail(toPru) \in Seq(Messages)
          /\ Len(Tail(toPru)) <= MaxQueue
      BY <2>6 DEF Receive
    <3>2. msg' \in ConfigWords
      BY <2>6, <3>1, MessageType, ConfigType DEF Receive
    <3> QED
      BY <2>6, <3>1, <3>2 DEF Receive, rxVars, pru1Vars
  <2>7. CASE WriteTiming
    BY <2>7, ConfigType DEF WriteTiming, armVars, rxVars, pru1Vars
  <2>8. CASE WriteMisc
    BY <2>8, ConfigType DEF WriteMisc, armVars, rxVars, pru1Vars
  <2>9. CASE TellPru1
    BY <2>9, NextBankType DEF TellPru1, armVars, rxVars, pru1Vars
  <2>10. CASE PollPru1
    BY <2>10 DEF PollPru1, armVars, rxVars, pru1Vars
  <2>11. CASE Acquire
    BY <2>11, NextBankType DEF Acquire, armVars, rxVars, pru1Vars
  <2>12. CASE SendRaw \/ Announce
    BY <2>12 DEF SendRaw, Announce, armVars, rxVars, pru1Vars
  <2>13. CASE SendBlock
    BY <2>13 DEF SendBlock, armVars, rxVars, pru1Vars
  <2>14. CASE TakeInterrupt
    BY <2>14 DEF TakeInterrupt, armVars, rxVars, pru0Vars
  <2>15. CASE ClearInterrupt
    BY <2>15 DEF ClearInterrupt, armVars, rxVars, pru0Vars
  <2>16. CASE LoadTiming
    BY <2>16, ConfigType DEF LoadTiming, armVars, rxVars, pru0Vars
  <2>17. CASE LoadMisc
    <3>1. sync' \in BOOLEAN
      BY <2>17, Zenon DEF LoadMisc
    <3>2. hold' \in [Banks -> {"none", "raw", "block"}] /\ bank1' \in Banks
      BY <2>17 DEF LoadMisc, Banks
    <3> QED
      BY <2>17, <3>1, <3>2, ConfigType DEF LoadMisc, armVars, rxVars, pru0Vars
  <2>18. CASE TakeRaw
    BY <2>18 DEF TakeRaw, armVars, rxVars, pru0Vars
  <2>19. CASE CollectBlock
    BY <2>19 DEF CollectBlock, armVars, rxVars, pru0Vars
  <2>20. CASE CollectLast
    BY <2>20 DEF CollectLast, armVars, rxVars, pru0Vars
  <2>21. CASE TransferBlock
    BY <2>21 DEF TransferBlock, armVars, rxVars, pru0Vars
  <2>22. CASE TellPru0
    BY <2>22, NextBankType DEF TellPru0, armVars, rxVars, pru0Vars
  <2>23. CASE UNCHANGED vars
    BY <2>23 DEF vars, armVars, rxVars, pru0Vars, pru1Vars
  <2> QED
    BY <2>1, <2>2, <2>3, <2>4, <2>5, <2>6, <2>7, <2>8, <2>9, <2>10, <2>11, <2>12,
       <2>13, <2>14, <2>15, <2>16, <2>17, <2>18, <2>19, <2>20, <2>21, <2>22, <2>23
       DEF Next, Pru0Step, Pru1Step
<1> QED
  BY <1>1, <1>2, PTL DEF Spec

COROLLARY TypeCorrect == Spec => []TypeOK
BY Buffers, PTL

COROLLARY BuffersConserved == Spec => []BufferConservation
BY Buffers, PTL

--------------------------------------------------------------------------------
(***************************************************************************)
(* Agreement on the configuration.  The doorbell is cleared before the     *)
(* words are loaded, so a word written after its load comes with a         *)
(* doorbell that is still pending or with a PRU0 that has still to ring.   *)
(***************************************************************************)
Loaded ==
  ~p1Evt /\ ~Updating =>
    /\ pc1 = "load_misc" => cfg.timing = shm.timing
    /\ ~Loading => cfg = shm

(* A configuration is determined by its words.                             *)
LEMMA SameConfig ==
  ASSUME NEW c \in ConfigWords, NEW d \in ConfigWords, c.timing = d.timing
  PROVE  [c EXCEPT !.mode = d.mode, !.start = d.start] = d
BY DEF ConfigWords

LEMMA AgreementInductive == Spec => [](Stored /\ Loaded)
<1>1. Init => Stored /\ Loaded
  BY DEF Init, Stored, Loaded
<1>2. TypeOK /\ Stored /\ Loaded /\ [Next]_vars => Stored' /\ Loaded'
  <2> SUFFICES ASSUME TypeOK, Stored, Loaded, [Next]_vars PROVE Stored' /\ Loaded'
    OBVIOUS
  <2> USE DEF Stored, Loaded, Updating, Loading, armVars, rxVars, pru0Vars, pru1Vars
  <2>1. ASSUME NEW m \in Messages, ArmSend(m) PROVE Stored' /\ Loaded'
    BY <2>1 DEF ArmSend
  <2>2. CASE ArmKick \/ ArmRecycle
    BY <2>2 DEF ArmKick, ArmRecycle
  <2>3. CASE Announce \/ PollArm \/ ReceiveNothing \/ PollPru1 \/ Acquire \/ SendRaw \/ SendBlock
    BY <2>3 DEF Announce, PollArm, ReceiveNothing, PollPru1, Acquire, SendRaw, SendBlock
  <2>4. CASE Receive
    BY <2>4 DEF Receive
  <2>5. CASE WriteTiming
    BY <2>5 DEF WriteTiming
  <2>6. CASE WriteMisc
    BY <2>6 DEF WriteMisc, TypeOK, ConfigWords
  <2>7. CASE TellPru1
    BY <2>7 DEF TellPru1
  <2>8. CASE TakeInterrupt \/ ClearInterrupt
    BY <2>8 DEF TakeInterrupt, ClearInterrupt
  <2>9. CASE LoadTiming
    BY <2>9 DEF LoadTiming, TypeOK, ConfigWords
  <2>10. CASE LoadMisc
    <3>1. ~p1Evt /\ ~Updating => cfg' = shm
      BY <2>10, SameConfig DEF LoadMisc, TypeOK
    <3> QED
      BY <2>10, <3>1 DEF LoadMisc
  <2>11. CASE TakeRaw \/ CollectBlock \/ CollectLast \/ TransferBlock \/ TellPru0
    BY <2>11 DEF TakeRaw, CollectBlock, CollectLast, TransferBlock, TellPru0
  <2>12. CASE UNCHANGED vars
    BY <2>12 DEF vars
  <2> QED
    BY <2>1, <2>2, <2>3, <2>4, <2>5, <2>6, <2>7, <2>8, <2>9, <2>10, <2>11, <2>12
       DEF Next, Pru0Step, Pru1Step
<1> QED
  BY <1>1, <1>2, TypeCorrect, PTL DEF Spec

(* Once a request has settled, PRU1 works with the words PRU0 stored for   *)
(* the last message.                                                       *)
THEOREM Agreement == Spec => []ConfigAgreement
<1>1. Stored /\ Loaded => ConfigAgreement
  BY DEF Stored, Loaded, ConfigAgreement, Settled, Updating, Loading
<1> QED
  BY <1>1, AgreementInductive, PTL

--------------------------------------------------------------------------------
(* What fills vring1 is a message, whose doorbell is still to come; what   *)
(* uses up a doorbell takes a message out.                                 *)
THEOREM RingServedWhenFull == Spec => []FullRingServed
<1>1. Init => FullRingServed
  BY DEF Init, FullRingServed
<1>2. TypeOK /\ TypeOK' /\ FullRingServed /\ [Next]_vars => FullRingServed'
  <2> SUFFICES ASSUME TypeOK, TypeOK', FullRingServed, [Next]_vars PROVE FullRingServed'
    OBVIOUS
  <2> USE DEF FullRingServed, armVars, pru0Vars
  <2>1. ASSUME NEW m \in Messages, ArmSend(m) PROVE FullRingServed'
    BY <2>1 DEF ArmSend
  <2>2. CASE ArmKick \/ ArmRecycle
    BY <2>2 DEF ArmKick, ArmRecycle
  <2>3. CASE Announce \/ WriteTiming \/ WriteMisc \/ TellPru1 \/ PollPru1 \/ Acquire
             \/ SendRaw \/ SendBlock
    BY <2>3 DEF Announce, WriteTiming, WriteMisc, TellPru1, PollPru1, Acquire, SendRaw,
       SendBlock
  <2>4. CASE PollArm
    BY <2>4 DEF PollArm
  <2>5. CASE ReceiveNothing
    <3>1. Len(toPru') = 0
      BY <2>5 DEF ReceiveNothing
    <3> QED  BY <3>1
  <2>6. CASE Receive
    <3>1. Len(toPru') < MaxQueue
      BY <2>6 DEF Receive, TypeOK
    <3> QED  BY <3>1
  <2>7. CASE Pru1Step
    BY <2>7 DEF Pru1Step, TakeInterrupt, ClearInterrupt, LoadTiming, LoadMisc, TakeRaw,
       CollectBlock, CollectLast, TransferBlock, TellPru0
  <2>8. CASE UNCHANGED vars
    BY <2>8 DEF vars
  <2> QED
    BY <2>1, <2>2, <2>3, <2>4, <2>5, <2>6, <2>7, <2>8 DEF Next, Pru0Step
<1> QED
  BY <1>1, <1>2, TypeCorrect, PTL DEF Spec

--------------------------------------------------------------------------------
(* The words a short message spoils stay in msg_from_kernel: PRU0 stores   *)
(* its timing words only behind a long message, which has brought its own. *)
THEOREM TimingKept == Spec => []TimingPreserved
<1> DEFINE Clean == TimingPreserved /\ (pc0 = "write_timing" => msg.timing # "clobbered")
<1>1. Init => Clean
  BY DEF Init, NoConfig, TimingPreserved
<1>2. TypeOK /\ Clean /\ [Next]_vars => Clean'
  <2> SUFFICES ASSUME TypeOK, Clean, [Next]_vars PROVE Clean'
    OBVIOUS
  <2> USE DEF TimingPreserved, armVars, rxVars, pru0Vars, pru1Vars
  <2>0. shm \in ConfigWords /\ cfg \in ConfigWords
    BY DEF TypeOK
  <2>1. ASSUME NEW m \in Messages, ArmSend(m) PROVE Clean'
    BY <2>1 DEF ArmSend
  <2>2. CASE ArmKick \/ ArmRecycle \/ UNCHANGED vars
    BY <2>2 DEF ArmKick, ArmRecycle, vars
  <2>3. CASE Announce \/ PollArm \/ ReceiveNothing \/ TellPru1 \/ PollPru1 \/ Acquire \/ SendRaw \/ SendBlock
    BY <2>3 DEF Announce, PollArm, ReceiveNothing, TellPru1, PollPru1, Acquire, SendRaw, SendBlock
  <2>4. CASE Receive
    <3>1. Head(toPru) \in Messages
      BY <2>4 DEF Receive, TypeOK
    <3>2. Head(toPru).len = "long" => Head(toPru).timing # "clobbered"
      BY <3>1 DEF Messages, LongMsgs, ShortMsgs
    <3> QED
      BY <2>4, <3>2 DEF Receive
  <2>5. CASE WriteTiming \/ WriteMisc
    BY <2>0, <2>5 DEF WriteTiming, WriteMisc, ConfigWords
  <2>6. CASE LoadTiming \/ LoadMisc
    BY <2>0, <2>6 DEF LoadTiming, LoadMisc, ConfigWords
  <2>7. CASE \/ TakeInterrupt \/ ClearInterrupt \/ TakeRaw \/ CollectBlock \/ CollectLast
             \/ TransferBlock \/ TellPru0
    BY <2>7 DEF TakeInterrupt, ClearInterrupt, TakeRaw, CollectBlock, CollectLast,
       TransferBlock, TellPru0
  <2> QED
    BY <2>1, <2>2, <2>3, <2>4, <2>5, <2>6, <2>7 DEF Next, Pru0Step, Pru1Step
<1> QED
  BY <1>1, <1>2, TypeCorrect, PTL DEF Spec

--------------------------------------------------------------------------------
(***************************************************************************)
(* The cores stay in step.  sync' is true only after LoadMisc, with no     *)
(* doorbell under way, or when it was true before: every step but LoadMisc *)
(* may assume that the cores were in step.                                 *)
(***************************************************************************)
LEMMA InStepInductive == TypeOK /\ InStep /\ [Next]_vars => InStep'
<1> SUFFICES ASSUME TypeOK, InStep, [Next]_vars PROVE InStep'
  OBVIOUS
<1> DEFINE Locked == /\ ~p1Evt /\ ~Loading
                     /\ ~Updating => msg.mode = cfg.mode
                     /\ BlocksInStep /\ RawInStep
<1>a. InStep = (Stored /\ (sync => Locked))
  BY DEF InStep
<1>b. InStep' = (Stored' /\ (sync' => Locked'))
  BY DEF InStep
<1>1. Stored'
  <2> USE DEF InStep, Stored, armVars, rxVars, pru0Vars, pru1Vars
  <2>1. CASE \E m \in Messages : ArmSend(m)
    BY <2>1 DEF ArmSend
  <2>2. CASE ArmKick \/ ArmRecycle
    BY <2>2 DEF ArmKick, ArmRecycle
  <2>3. CASE WriteMisc
    BY <2>3 DEF WriteMisc, TypeOK, ConfigWords
  <2>4. CASE Pru0Step /\ ~WriteMisc
    BY <2>4 DEF Pru0Step, Announce, PollArm, ReceiveNothing, Receive, WriteTiming, TellPru1,
                PollPru1, Acquire, SendRaw, SendBlock
  <2>5. CASE Pru1Step
    BY <2>5 DEF Pru1Step, TakeInterrupt, ClearInterrupt, LoadTiming, LoadMisc, TakeRaw,
                CollectBlock, CollectLast, TransferBlock, TellPru0
  <2>6. CASE UNCHANGED vars
    BY <2>6 DEF vars
  <2> QED
    BY <2>1, <2>2, <2>3, <2>4, <2>5, <2>6 DEF Next
<1>2. ASSUME sync' PROVE Locked'
  <2> USE <1>2 DEF Updating, Loading, Sampling, BlocksInStep, RawInStep, Unread, Ahead,
                   armVars, rxVars, pru0Vars, pru1Vars
  <2>1. CASE LoadMisc
    <3>1. shm.mode = msg.mode \/ Updating
      BY <1>a DEF Stored
    <3>2. /\ cfg'.mode = shm.mode
          /\ pc1' = "raw" => shm.mode = "raw"
          /\ pc1' = "sample" => shm.mode = "block"
          /\ pc1' \in {"raw", "sample", "int_loop"}
      BY <2>1 DEF LoadMisc, Dispatch, TypeOK, ConfigWords, Modes
    <3>3. ~p1Evt /\ ~p0Evt /\ pc0 # "acquire" /\ bank = 0
      BY <2>1 DEF LoadMisc
    <3> QED
      BY <2>1, <3>1, <3>2, <3>3 DEF LoadMisc
  <2>2. CASE ~LoadMisc
    <3>1. sync
      BY <2>2 DEF Next, vars, Pru0Step, Pru1Step, ArmSend, ArmKick, ArmRecycle,
         Announce, PollArm, ReceiveNothing, Receive, WriteTiming, WriteMisc, TellPru1, PollPru1,
         Acquire, SendRaw, SendBlock, TakeInterrupt, ClearInterrupt, LoadTiming,
         TakeRaw, CollectBlock, CollectLast, TransferBlock, TellPru0
    <3>2. Locked
      BY <1>a, <3>1
    <3>f. ASSUME UNCHANGED <<p1Evt, p0Evt, bank, pc1, cfg, bank1, hold>>,
                 (pc0' = "acquire") = (pc0 = "acquire"),
                 ~Updating' => ~Updating /\ UNCHANGED msg
          PROVE  Locked'
      BY <3>2, <3>f
    <3>3. CASE \E m \in Messages : ArmSend(m)
      BY <3>f, <3>3 DEF ArmSend
    <3>4. CASE ArmKick \/ ArmRecycle
      BY <3>f, <3>4 DEF ArmKick, ArmRecycle
    <3>5. CASE Announce \/ PollArm \/ ReceiveNothing \/ Receive
      BY <3>f, <3>5 DEF Announce, PollArm, ReceiveNothing, Receive
    <3>6. CASE WriteTiming \/ WriteMisc \/ TellPru1
      <4>1. ~TellPru1
        BY <1>2 DEF TellPru1
      <4> QED
        BY <3>f, <3>6, <4>1 DEF WriteTiming, WriteMisc
    <3>7. CASE PollPru1
      BY <3>2, <3>7 DEF PollPru1
    <3>8. CASE Acquire
      BY <3>2, <3>8, NextBankType, NextBankFresh DEF Acquire, ReadBank, TypeOK
    <3>9. CASE SendRaw \/ SendBlock
      BY <3>f, <3>9 DEF SendRaw, SendBlock
    <3>10. CASE TakeInterrupt \/ ClearInterrupt \/ LoadTiming
      BY <3>2, <3>10 DEF TakeInterrupt, ClearInterrupt, LoadTiming
    <3>11. CASE TakeRaw
      BY <3>2, <3>11, NextBankType DEF TakeRaw, TypeOK
    <3>12. CASE CollectBlock \/ CollectLast
      <4>1. pc1 \in {"sample", "last"} /\ pc1' \in {"last", "xout"}
        BY <3>12 DEF CollectBlock, CollectLast
      <4>2. UNCHANGED <<p1Evt, p0Evt, pc0, msg, bank, cfg, bank1, hold>>
        BY <3>12 DEF CollectBlock, CollectLast
      <4> QED
        BY <3>2, <4>1, <4>2
    <3>13. CASE TransferBlock
      BY <3>2, <3>13 DEF TransferBlock, TypeOK
    <3>14. CASE TellPru0
      BY <3>2, <3>14 DEF TellPru0, TypeOK
    <3>15. CASE UNCHANGED vars
      BY <3>2, <3>15 DEF vars
    <3> QED
      BY <2>2, <3>3, <3>4, <3>5, <3>6, <3>7, <3>8, <3>9, <3>10, <3>11, <3>12, <3>13,
         <3>14, <3>15 DEF Next, Pru0Step, Pru1Step
  <2> QED
    BY <2>1, <2>2
<1> QED
  BY <1>b, <1>1, <1>2

(* The cores are in step whenever sync says so. *)
THEOREM CoresInStep == Spec => []InStep
<1>1. Init => InStep
  BY DEF Init, InStep, Stored
<1> QED
  BY <1>1, InStepInductive, TypeCorrect, PTL DEF Spec

(* In step, PRU0 reads unread data of the kind asked for. *)
THEOREM ReadInStep == Spec => []SyncedRead
<1>1. TypeOK /\ InStep => SyncedRead
  <2> SUFFICES ASSUME TypeOK, InStep, sync, pc0 = "acquire"
               PROVE  hold[ReadBank] = msg.mode
    BY DEF SyncedRead
  <2>1. msg.mode = cfg.mode /\ bank \in Unread
    BY DEF InStep, Updating, Unread
  <2>2. CASE Sampling
    BY <2>1, <2>2 DEF InStep, BlocksInStep, ReadBank, TypeOK
  <2>3. CASE ~Sampling
    BY <2>1, <2>3 DEF InStep, RawInStep, ReadBank
  <2> QED
    BY <2>2, <2>3
<1> QED
  BY <1>1, CoresInStep, TypeCorrect, PTL

(* In step, PRU1 never overwrites a block PRU0 has still to read: at most  *)
(* two are unread, and with three banks or more the next one is neither.   *)
THEOREM WriteInStep == Spec => []SyncedWrite
<1>1. TypeOK /\ InStep => SyncedWrite
  <2> SUFFICES ASSUME TypeOK, InStep, sync, pc1 = "xout" PROVE hold[bank1] = "none"
    BY DEF SyncedWrite
  <2>1. BlocksInStep /\ Sampling
    BY DEF InStep, Sampling
  <2>2. bank1 \notin Unread
    BY <2>1, NextBankFresh, NextBankType DEF BlocksInStep, Ahead, Unread, TypeOK
  <2> QED
    BY <2>1, <2>2 DEF BlocksInStep, TypeOK
<1> QED
  BY <1>1, CoresInStep, TypeCorrect, PTL

================================================================================
