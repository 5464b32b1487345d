--------------------------- MODULE PruContractProofs ---------------------------
(***************************************************************************)
(* The two cores implement ScopeFirmware, for every value of the           *)
(* constants.  Most steps of the cores are steps of a handshake between    *)
(* them and map to a stutter; the others map to the step of the device     *)
(* that the ARM would notice.  Agreement on the configuration              *)
(* (PruFirmwareProofs) is what makes a Load that ends the pending request  *)
(* a Load of that request.                                                 *)
(***************************************************************************)
EXTENDS PruFirmwareProofs

(* A doorbell remembers at most one ring besides the one being served.     *)
LEMMA Remembers == /\ 1 \in Contract!OneMore(0) /\ 1 \in Contract!OneMore(1)
                   /\ 2 \in Contract!OneMore(1) /\ 2 \in Contract!OneMore(2)
BY DEF Contract!OneMore

(* Initially the device is idle too. *)
LEMMA ContractInit == Init => Contract!Init
BY DEF Init, Contract!Init, NoConfig, RequestIn, Rings, Due, Pending, Settled, Updating,
   Loading, Work, Sampling, Spare, Handed

Unseen ==
  UNCHANGED <<toPru, Rings, RequestIn(msg), RequestIn(shm), Pending, Work, Due, Spare, Handed,
              count>>

LEMMA UnseenStutters == Unseen => UNCHANGED Contract!vars
BY DEF Unseen, Contract!vars, Contract!bufVars, rxVars

(* The steps the device makes on its own, and those nobody can see. *)
LEMMA ContractStep ==
  TypeOK /\ Stored /\ [Next]_vars => [Contract!Next]_(Contract!vars)
<1> SUFFICES ASSUME TypeOK, Stored, [Next]_vars
             PROVE  Contract!Next \/ UNCHANGED Contract!vars
  OBVIOUS
<1> USE DEF Rings, Due, Spare, Handed, Pending, Work, RequestIn, Settled, Updating, Loading, Sampling
<1>a. CASE Announce
  BY <1>a, UnseenStutters DEF Announce, Unseen, TypeOK, armVars, pru1Vars
<1>0. armEvt \in BOOLEAN /\ p0Evt \in BOOLEAN /\ p1Evt \in BOOLEAN
  BY DEF TypeOK
<1>1. ASSUME NEW m \in Messages, ArmSend(m) PROVE Contract!Ask(m)
  BY <1>1 DEF ArmSend, Contract!Ask, Contract!bufVars, rxVars, pru0Vars, pru1Vars
<1>2. CASE ArmKick
  <2>1. Rings' \in Contract!OneMore(Rings)
    BY <1>0, <1>2, Remembers DEF ArmKick, pru0Vars
  <2> QED BY <1>2, <2>1 DEF ArmKick, Contract!Next, Contract!Ring, Contract!bufVars, rxVars, pru0Vars, pru1Vars
<1>3. CASE ArmRecycle
  <2>1. Rings' \in Contract!OneMore(Rings)
    BY <1>0, <1>3, Remembers DEF ArmRecycle, pru0Vars
  <2>2. Handed > 0 /\ Handed' = Handed - 1 /\ Spare' = Spare + 1
    <3>1. avail \in Nat /\ used \in Nat /\ used > 0 /\ avail' = avail + 1 /\ used' = used - 1
          /\ pc0' = pc0
      BY <1>3 DEF ArmRecycle, pru0Vars, TypeOK
    <3> QED BY ONLY <3>1 DEF Handed, Spare
  <2>3. UNCHANGED <<toPru, RequestIn(msg), RequestIn(shm), Pending, Work, Due, count>>
    BY <1>3 DEF ArmRecycle, pru0Vars, pru1Vars
  <2> HIDE DEF Rings, Due, Spare, Handed, Pending, Work, RequestIn
  <2> QED BY <2>1, <2>2, <2>3 DEF Contract!Next, Contract!Recycle
<1>4. CASE PollArm
  <2>1. Rings' = Rings
    BY <1>0, <1>4, Remembers DEF PollArm
  <2> QED BY <1>4, <2>1, UnseenStutters DEF PollArm, Unseen, rxVars, pru1Vars
<1>5. CASE ReceiveNothing \/ Receive
  <2>1. Rings > 0 /\ Rings' = Rings - 1
    BY <1>0, <1>5, Remembers DEF ReceiveNothing, Receive, armVars
  <2>2. CASE ReceiveNothing
    BY <2>1, <2>2 DEF ReceiveNothing, Contract!Next, Contract!Take, Contract!bufVars, armVars, rxVars, pru1Vars
  <2>3. CASE Receive
    <3>1. RequestIn(msg)' = [mode |-> IF Head(toPru).len = "long" THEN Head(toPru).mode ELSE RequestIn(msg).mode,
                             start |-> Head(toPru).start]
      <4>1. CASE Head(toPru).len = "long"
        BY <2>3, <4>1 DEF Receive
      <4>2. CASE Head(toPru).len # "long"
        BY <2>3, <4>2 DEF Receive, TypeOK, ConfigWords
      <4> QED BY <4>1, <4>2
    <3>2. Pending' = TRUE
      BY <2>3 DEF Receive
    <3>3. UNCHANGED <<Due, Work, RequestIn(shm), Spare, Handed, count>>
      BY <2>3 DEF Receive, rxVars, pru1Vars
    <3>4. toPru # <<>> /\ toPru' = Tail(toPru)
      BY <2>3 DEF Receive
    <3> HIDE DEF Rings, Due, Spare, Handed, Pending, Work, RequestIn
    <3> QED BY <2>1, <3>1, <3>2, <3>3, <3>4 DEF Contract!Next, Contract!Take, Contract!bufVars
  <2> QED BY <1>5, <2>2, <2>3
<1>6. CASE WriteTiming
  BY <1>6, UnseenStutters DEF WriteTiming, Unseen, TypeOK, ConfigWords, armVars, rxVars, pru1Vars
<1>7. CASE WriteMisc
  <2>1. Contract!Store
    BY <1>7 DEF WriteMisc, Contract!Store, Contract!bufVars, TypeOK, ConfigWords, armVars, rxVars, pru1Vars
  <2> QED BY <2>1 DEF Contract!Next
<1>8. CASE TellPru1
  BY <1>8, UnseenStutters DEF TellPru1, Unseen, armVars, rxVars, pru1Vars
<1>9. CASE PollPru1
  <2>1. Due' = Due
    BY <1>0, <1>9, Remembers DEF PollPru1
  <2> QED BY <1>9, <2>1, UnseenStutters DEF PollPru1, Unseen, armVars, rxVars, pru1Vars
<1>10. CASE Acquire
  BY <1>10, UnseenStutters DEF Acquire, Unseen, armVars, rxVars, pru1Vars
<1>11. CASE SendRaw \/ SendBlock
  <2>1. Due > 0 /\ Due' = Due - 1
    BY <1>0, <1>11, Remembers DEF SendRaw, SendBlock
  <2>2. Contract!SampleOut \/ Contract!BlockOut \/ Contract!Dropped
    BY <1>11 DEF SendRaw, SendBlock, Contract!SampleOut, Contract!BlockOut, Contract!Dropped,
       Contract!bufVars, rxVars, TypeOK
  <2>3. UNCHANGED <<toPru, Rings, RequestIn(msg), RequestIn(shm), Pending, Work>>
    BY <1>11 DEF SendRaw, SendBlock, armVars, pru1Vars
  <2> HIDE DEF Rings, Due, Spare, Handed, Pending, Work, RequestIn
  <2> QED BY <2>1, <2>2, <2>3 DEF Contract!Next, Contract!HandOver
<1>12. CASE TakeInterrupt
  <2>1. Contract!GiveUp
    BY <1>12 DEF TakeInterrupt, Contract!GiveUp, Contract!bufVars, armVars, rxVars, pru0Vars
  <2> QED BY <2>1 DEF Contract!Next
<1>13. CASE ClearInterrupt \/ LoadTiming
  BY <1>13, UnseenStutters DEF ClearInterrupt, LoadTiming, Unseen, armVars, rxVars, pru0Vars
<1>14. CASE LoadMisc
  <2>1. Pending = TRUE /\ Work = "idle" /\ Work' = Contract!Wanted(RequestIn(shm))
    BY <1>14 DEF LoadMisc, Dispatch, Contract!Wanted, TypeOK, ConfigWords, Modes
  <2>2. Pending' \in {TRUE, RequestIn(shm) # RequestIn(msg)}
    BY <1>14 DEF LoadMisc, Stored, pru0Vars
  <2>3. UNCHANGED <<toPru, Rings, RequestIn(msg), RequestIn(shm), Due, Spare, Handed, count>>
    BY <1>14 DEF LoadMisc, armVars, rxVars, pru0Vars
  <2> HIDE DEF Rings, Due, Spare, Handed, Pending, Work, RequestIn
  <2> QED BY <2>1, <2>2, <2>3 DEF Contract!Next, Contract!Load, Contract!bufVars
<1>15. CASE TakeRaw \/ CollectBlock \/ CollectLast \/ TransferBlock
  BY <1>15, UnseenStutters DEF TakeRaw, CollectBlock, CollectLast, TransferBlock, Unseen,
     armVars, rxVars, pru0Vars
<1>16. CASE TellPru0
  <2>1. Due' \in Contract!OneMore(Due)
    BY <1>0, <1>16, Remembers DEF TellPru0, pru0Vars
  <2>2. Work # "idle" /\ Work' = IF Work = "raw" THEN "idle" ELSE Work
    BY <1>16 DEF TellPru0
  <2>3. UNCHANGED <<toPru, Rings, RequestIn(msg), RequestIn(shm), Pending, Spare, Handed, count>>
    BY <1>16 DEF TellPru0, armVars, rxVars, pru0Vars
  <2> HIDE DEF Rings, Due, Spare, Handed, Pending, Work, RequestIn
  <2> QED BY <2>1, <2>2, <2>3 DEF Contract!Next, Contract!Sample, Contract!bufVars
<1>17. CASE UNCHANGED vars
  BY <1>17, UnseenStutters DEF vars, Unseen, armVars, rxVars, pru0Vars, pru1Vars
<1> QED
  BY <1>1, <1>2, <1>3, <1>4, <1>5, <1>6, <1>7, <1>8, <1>9, <1>10, <1>11, <1>12, <1>13, <1>14,
     <1>15, <1>16, <1>17, <1>a DEF Next, Pru0Step, Pru1Step, Contract!Next

--------------------------------------------------------------------------------
(* Every behaviour of the two cores is one of the device. *)
THEOREM CoresImplementContract == Spec => ImplementsContract
<1>1. Spec => [](TypeOK /\ Stored)
  BY TypeCorrect, AgreementInductive, PTL
<1> QED
  BY <1>1, ContractInit, ContractStep, PTL DEF Spec, Contract!Spec, ImplementsContract

(* The device samples nothing but what the last request asks for, as soon  *)
(* as that request is no longer pending, and so do the cores: whatever is  *)
(* rewritten while it is loaded, a stop that has settled is a stop.        *)
THEOREM OnlyWhatIsAsked == Spec => []Contract!InForce
<1>1. Contract!Init => Contract!InForce
  BY DEF Contract!Init, Contract!InForce
<1>2. Contract!InForce /\ [Contract!Next]_(Contract!vars) => Contract!InForce'
  <2> SUFFICES ASSUME Contract!InForce, [Contract!Next]_(Contract!vars)
               PROVE  Contract!InForce'
    OBVIOUS
  <2> HIDE DEF RequestIn, Pending, Work, Rings, Due, Spare, Handed
  <2> QED
    BY DEF Contract!InForce, Contract!Next, Contract!Ask, Contract!Ring, Contract!Recycle,
       Contract!Take, Contract!Store, Contract!GiveUp, Contract!Load, Contract!Sample,
       Contract!HandOver, Contract!Wanted, Contract!vars
<1> QED
  BY <1>1, <1>2, CoresImplementContract, PTL DEF ImplementsContract, Contract!Spec
--------------------------------------------------------------------------------
(***************************************************************************)
(* PRU1 as PruFirmware has it is Pru1Program: nothing else touches its     *)
(* place, its bank, its doorbell but to ring it, or its registers.         *)
(***************************************************************************)
LEMMA ProgramStep == TypeOK /\ [Next]_vars => [Program!Next]_(Program!vars)
<1> SUFFICES ASSUME TypeOK, [Next]_vars
             PROVE  Program!Next \/ UNCHANGED Program!vars
  OBVIOUS
<1> USE DEF Program!vars
<1>0. /\ p1Evt \in BOOLEAN /\ bank1 \in Banks /\ shm \in ConfigWords /\ cfg \in ConfigWords
      /\ pc1 \in {"int_loop", "manage", "load_timing", "load_misc", "raw", "raw_tell",
                  "sample", "last", "xout", "tell"}
  BY DEF TypeOK
<1>1. ASSUME UNCHANGED <<pc1, cfg, bank1, p1Evt>> PROVE UNCHANGED Program!vars
  BY <1>1 DEF Place, RunBank, RequestIn, Sampling
<1>2. CASE (\E m \in Messages : ArmSend(m)) \/ ArmKick \/ ArmRecycle
  BY <1>1, <1>2 DEF ArmSend, ArmKick, ArmRecycle, pru1Vars
<1>3. CASE \/ Announce \/ PollArm \/ ReceiveNothing \/ Receive \/ WriteTiming \/ WriteMisc
           \/ PollPru1 \/ Acquire \/ SendRaw \/ SendBlock
  BY <1>1, <1>3 DEF Announce, PollArm, ReceiveNothing, Receive, WriteTiming, WriteMisc, PollPru1,
                    Acquire, SendRaw, SendBlock, pru1Vars
<1>4. CASE TellPru1
  BY <1>4 DEF TellPru1, Program!Next, Program!Ring, Place, RunBank, RequestIn, Sampling, pru1Vars
<1>5. CASE TakeInterrupt
  <2>1. /\ p1Evt /\ p1Evt' = p1Evt /\ RequestIn(cfg)' = RequestIn(cfg)
        /\ Place' = "manage" /\ RunBank' = 0
        /\ Place \in {"int_loop", "sample"} \/ (Place = "last" /\ RunBank # NumBanks - 1)
    BY <1>5 DEF TakeInterrupt, Place, RunBank, RequestIn, Sampling
  <2> QED  BY <2>1 DEF Program!Next, Program!Notice, Program!Looks, Program!LastBank
<1>6. CASE ClearInterrupt
  <2>1. /\ Place = "manage" /\ Place' = "load" /\ p1Evt' = FALSE
        /\ RunBank' = RunBank /\ RequestIn(cfg)' = RequestIn(cfg)
    BY <1>6 DEF ClearInterrupt, Place, RunBank, RequestIn, Sampling
  <2> QED  BY <2>1 DEF Program!Next, Program!Clear
<1>7. CASE LoadTiming
  BY <1>0, <1>7 DEF LoadTiming, Place, RunBank, RequestIn, Sampling, ConfigWords
<1>8. CASE LoadMisc
  <2>1. /\ Place = "load" /\ p1Evt' = p1Evt /\ RunBank = 0 /\ RunBank' = 0
        /\ Place' = Dispatch(shm)
    BY <1>8 DEF LoadMisc, Place, RunBank, Sampling, Dispatch
  <2>2. RequestIn(cfg)' = RequestIn(shm) /\ RequestIn(shm) \in Program!Requests
    BY <1>0, <1>8 DEF LoadMisc, RequestIn, ConfigWords, Modes, Program!Requests
  <2>3. Dispatch(shm) = Program!Dispatch(RequestIn(shm))
    BY DEF Dispatch, Program!Dispatch, RequestIn
  <2> QED  BY <2>1, <2>2, <2>3 DEF Program!Next, Program!Load
<1>9. CASE TakeRaw \/ CollectBlock \/ CollectLast \/ TransferBlock
  <2>1. p1Evt' = p1Evt /\ RequestIn(cfg)' = RequestIn(cfg) /\ RunBank' = RunBank
    BY <1>9 DEF TakeRaw, CollectBlock, CollectLast, TransferBlock, RunBank, RequestIn, Sampling
  <2>2. \/ Place = "raw" /\ Place' = "raw_tell"
        \/ Place = "sample" /\ ~p1Evt /\ Place' = "last"
        \/ Place = "last" /\ (RunBank = NumBanks - 1 \/ ~p1Evt) /\ Place' = "xout"
        \/ Place = "xout" /\ Place' = "tell"
    BY <1>9 DEF TakeRaw, CollectBlock, CollectLast, TransferBlock, Place, RunBank, Sampling
  <2> QED  BY <2>1, <2>2 DEF Program!Next, Program!Raw, Program!Block, Program!LastBank
<1>10. CASE TellPru0
  <2>1. p1Evt' = p1Evt /\ RequestIn(cfg)' = RequestIn(cfg)
    BY <1>10 DEF TellPru0, RequestIn
  <2>2. \/ Place = "raw_tell" /\ Place' = "int_loop" /\ RunBank' = RunBank
        \/ /\ Place = "tell" /\ Place' = "sample"
           /\ RunBank' = IF RunBank = NumBanks - 1 THEN 0 ELSE RunBank + 1
    BY <1>10 DEF TellPru0, Place, RunBank, Sampling, NextBank
  <2> QED  BY <2>1, <2>2 DEF Program!Next, Program!Raw, Program!Tell, Program!LastBank
<1>11. CASE UNCHANGED vars
  BY <1>1, <1>11 DEF vars, pru1Vars
<1> QED
  BY <1>2, <1>3, <1>4, <1>5, <1>6, <1>7, <1>8, <1>9, <1>10, <1>11 DEF Next, Pru0Step, Pru1Step

(* PRU1 among PRU0 and the shared memory runs the program that PruSampler  *)
(* implements instruction by instruction.                                  *)
THEOREM CoreRunsProgram == Spec => RunsProgram
<1>1. Init => Program!Init
  BY DEF Init, NoConfig, Program!Init, Place, RunBank, RequestIn, Sampling
<1> QED  BY <1>1, ProgramStep, TypeCorrect, PTL DEF Spec, RunsProgram, Program!Spec

================================================================================
