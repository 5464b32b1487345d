---------------------------- MODULE PruSamplerProofs ---------------------------
(***************************************************************************)
(* Proofs about PruSampler: the cycles, the clock pin and the bytes of a   *)
(* block, for every length of a block, number of banks and odd delay.      *)
(***************************************************************************)
EXTENDS PruSampler, TLAPS

Outside == {"int_loop", "clear", "load", "mode", "start", "raw_rise", "raw_take",
            "raw_fall", "raw_xout", "raw_tell", "raw_jump", "init_counter", "init_ptr"}
Phases  == {"loop", "second_last", "last"}

(* Where in a sample its delay, its doorbell check and its end stand.      *)
BetweenAt == IF phase = "loop" THEN 7 ELSE IF phase = "second_last" THEN 9 ELSE 6
XoutAt    == IF bank < NumBanks - 1 THEN 8 ELSE 7

(* Every kind of sample is nine instructions long. *)
LEMMA CodeLength == phase \in Phases => Len(Code) = 9
BY DEF Code, SampleHead, SampleTail, Phases

LEMMA CodeHead ==
  phase \in Phases => /\ Code[1] = "rise" /\ Code[2] = "before" /\ Code[3] = "take"
                      /\ Code[4] = "after" /\ Code[5] = "fall"
BY DEF Code, SampleHead, SampleTail, Phases

LEMMA CodeLoop ==
  phase = "loop" => /\ Code[6] = "check" /\ Code[7] = "between"
                    /\ Code[8] = "count" /\ Code[9] = "branch"
BY DEF Code, SampleHead, SampleTail

LEMMA CodeSecondLast ==
  phase = "second_last" => /\ Code[6] = "check" /\ Code[7] = "reset_counter"
                           /\ Code[8] = "reset_ptr" /\ Code[9] = "between"
BY DEF Code, SampleHead, SampleTail

LEMMA CodeLast ==
  phase = "last" =>
    /\ Code[6] = "between"
    /\ bank < NumBanks - 1 => Code[7] = "check" /\ Code[8] = "xout" /\ Code[9] = "tell"
    /\ ~(bank < NumBanks - 1) => Code[7] = "xout" /\ Code[8] = "tell" /\ Code[9] = "jump"
BY DEF Code, SampleHead, SampleTail

(* Which instruction stands where in a sample ... *)
LEMMA Position ==
  ASSUME at = "sample", phase \in Phases, step \in 1 .. 9
  PROVE  /\ Instr = "rise" <=> step = 1
         /\ Instr = "before" <=> step = 2
         /\ Instr = "take" <=> step = 3
         /\ Instr = "after" <=> step = 4
         /\ Instr = "fall" <=> step = 5
         /\ Instr = "between" <=> step = BetweenAt
         /\ Instr = "check" <=> \/ phase # "last" /\ step = 6
                                \/ phase = "last" /\ bank < NumBanks - 1 /\ step = 7
         /\ Instr = "count" <=> phase = "loop" /\ step = 8
         /\ Instr = "reset_counter" <=> phase = "second_last" /\ step = 7
         /\ Instr = "reset_ptr" <=> phase = "second_last" /\ step = 8
         /\ Instr = "xout" <=> phase = "last" /\ step = XoutAt
         /\ Instr = "tell" <=> phase = "last" /\ step = XoutAt + 1
         /\ Instr \in {"branch", "jump"} <=>
              \/ phase = "loop" /\ step = 9
              \/ phase = "last" /\ step = 9 /\ ~(bank < NumBanks - 1)
<1>1. Instr = Code[step]
  BY DEF Instr
<1>2. step \in {1, 2, 3, 4, 5, 6, 7, 8, 9}
  OBVIOUS
<1>3. CASE phase = "loop"
  BY <1>1, <1>2, <1>3, CodeHead, CodeLoop DEF BetweenAt
<1>4. CASE phase = "second_last"
  BY <1>1, <1>2, <1>4, CodeHead, CodeSecondLast DEF BetweenAt
<1>5. CASE phase = "last"
  <2>1. CASE bank < NumBanks - 1
    BY <1>1, <1>2, <1>5, <2>1, CodeHead, CodeLast DEF BetweenAt, XoutAt
  <2>2. CASE ~(bank < NumBanks - 1)
    BY <1>1, <1>2, <1>5, <2>2, CodeHead, CodeLast DEF BetweenAt, XoutAt
  <2> QED  BY <2>1, <2>2
<1> QED  BY <1>3, <1>4, <1>5 DEF Phases

(* ... and none of them outside. *)
LEMMA OutsideInstr == at \in Outside => Instr = at
BY DEF Instr, Outside

--------------------------------------------------------------------------------
(***************************************************************************)
(* Control: where the program is, and how far into a delay.                *)
(***************************************************************************)
Where ==
  /\ at \in Outside \cup {"sample"} /\ phase \in Phases
  /\ step \in 1 .. 9 /\ bank \in 0 .. NumBanks - 1
  /\ at # "sample" => phase = "loop" /\ step = 1 /\ bank = 0
  /\ cfg \in Requests

Delaying == at = "sample" /\ step \in {2, 4, BetweenAt}

(* The cycles an instruction takes. *)
Cost == IF step = 2 THEN cfg.before
        ELSE IF step = 4 THEN cfg.after
        ELSE IF step = BetweenAt THEN cfg.between ELSE 1

(* An odd delay reaches zero in steps of two. *)
Counting ==
  /\ d \in {"test_one", "sub_three", "test_zero", "sub_two", "loop"}
  /\ t \in 0 .. TempMod - 1
  /\ d # "test_one" => Delaying /\ Cost >= 3
  /\ d = "test_zero" => t = Cost - 3
  /\ d = "sub_two" => t % 2 = 0 /\ t >= 2 /\ t <= Cost - 3
  /\ d = "loop" => t % 2 = 0 /\ t <= Cost - 5

Control == Where /\ Counting

LEMMA DelayTypes == \A c \in Delays : c \in 1 .. TempMod - 1 /\ c % 2 = 1
BY SamplerAssumption

LEMMA CostType ==
  ASSUME Where
  PROVE  /\ Cost \in Nat \ {0}
         /\ Delaying => Cost \in Delays /\ Cycles = Cost
<1>1. cfg.before \in Delays /\ cfg.after \in Delays /\ cfg.between \in Delays
  BY DEF Where, Requests
<1>2. \A c \in Delays : c \in Nat \ {0}
  BY DelayTypes, SamplerAssumption
<1>3. Cost \in Nat \ {0}
  BY <1>1, <1>2 DEF Cost
<1>4. ASSUME Delaying PROVE Cost \in Delays /\ Cycles = Cost
  <2>1. BetweenAt \notin {2, 4}
    BY DEF BetweenAt
  <2>2. CASE step = 2
    BY <1>1, <1>4, <2>2, Position DEF Cost, Delaying, Where, Cycles
  <2>3. CASE step = 4
    BY <1>1, <1>4, <2>3, Position DEF Cost, Delaying, Where, Cycles
  <2>4. CASE step = BetweenAt
    <3>1. Instr = "between"
      BY <1>4, <2>4, Position DEF Delaying, Where
    <3> QED  BY <1>1, <2>1, <2>4, <3>1 DEF Cost, Cycles
  <2> QED  BY <1>4, <2>2, <2>3, <2>4 DEF Delaying
<1> QED  BY <1>3, <1>4

(* Subtracting without going below zero. *)
LEMMA Subtract ==
  ASSUME NEW m \in Nat \ {0}, NEW x \in 0 .. m - 1, NEW k \in 0 .. m, k <= x
  PROVE  (x + m - k) % m = x - k
<1> DEFINE y == x - k
<1>1. y \in Nat /\ y < m /\ x + m - k = m + y
  OBVIOUS
<1> HIDE DEF y
<1>2. (m + y) % m = y
  BY <1>1
<1> QED  BY <1>1, <1>2 DEF y

(* The instructions of a sample: each moves on, or takes one more cycle    *)
(* of a delay, or leaves with a doorbell.                                  *)
SampleStep == Rise \/ Fall \/ Take \/ Delay \/ CheckInt \/ Registers \/ Branch \/ Tell

MovesOn ==
  /\ at' = at
  /\ \/ step < 9 /\ step' = step + 1 /\ phase' = phase /\ bank' = bank
     \/ /\ step = 9 /\ step' = 1 /\ phase' = NextPhase
        /\ bank' = IF phase = "last" THEN (bank + 1) % NumBanks ELSE bank

Lingers == /\ Delaying /\ d' # "test_one"
           /\ at' = at /\ step' = step /\ phase' = phase /\ bank' = bank
Leaves  == /\ evt /\ CheckInt
           /\ at' = "clear" /\ phase' = "loop" /\ step' = 1 /\ bank' = 0

LEMMA Advancing == Where /\ Advance => MovesOn
<1> SUFFICES ASSUME Where, Advance PROVE MovesOn
  OBVIOUS
<1>1. Len(Code) = 9
  BY CodeLength DEF Where
<1>2. CASE step < Len(Code)
  BY <1>1, <1>2 DEF Advance, MovesOn
<1>3. CASE ~(step < Len(Code))
  BY <1>1, <1>3 DEF Advance, MovesOn, Where
<1> QED  BY <1>2, <1>3

(* Cycles of the delay that are over. *)
Spent == IF d = "sub_three" THEN 1
         ELSE IF d = "test_zero" THEN 2
         ELSE IF d = "sub_two" THEN Cost - t
         ELSE IF d = "loop" THEN Cost - t - 1 ELSE 0

LEMMA InsideSample ==
  ASSUME Where, SampleStep
  PROVE  at = "sample"
<1>1. Instr \in {"rise", "before", "take", "after", "fall", "between", "check", "count",
                "reset_counter", "reset_ptr", "branch", "jump", "xout", "tell"}
  BY DEF SampleStep, Rise, Fall, Take, Delay, CheckInt, Registers, Branch, Tell
<1>2. ASSUME at \in Outside PROVE FALSE
  BY <1>1, <1>2, OutsideInstr DEF Outside
<1> QED  BY <1>2 DEF Where

(* The five instructions of the macro: it ends when its cycles are over,   *)
(* never earlier and never later.                                          *)
LEMMA DelayStep ==
  ASSUME Control, Delay
  PROVE  /\ Delaying /\ cfg' = cfg /\ t' \in 0 .. TempMod - 1
         /\ \/ Advance /\ d' = "test_one" /\ Spent + 1 = Cost
            \/ Lingers /\ Counting' /\ Spent' = Spent + 1
<1>1. at = "sample"
  BY InsideSample DEF SampleStep, Control
<1>2. Delaying
  BY <1>1, Position DEF Delay, Delaying, Control, Where
<1>3. Cost \in 1 .. TempMod - 1 /\ Cost % 2 = 1 /\ Cycles = Cost /\ cfg' = cfg
  BY <1>2, CostType, DelayTypes DEF Control, Delay, regs
<1>4. TempMod \in Nat \ {0} /\ t \in 0 .. TempMod - 1
  BY <1>3, SamplerAssumption DEF Control, Counting
<1>5. ASSUME DelayNext # "done"
      PROVE  /\ d' = DelayNext /\ at' = at /\ step' = step /\ phase' = phase /\ bank' = bank
             /\ Cost' = Cost /\ Delaying'
  BY <1>2, <1>3, <1>5 DEF Delay, Cost, Delaying, BetweenAt
<1>6. CASE d = "test_one"
  <2>1. t' = t
    BY <1>6 DEF Delay
  <2>2. CASE Cost = 1
    <3>1. DelayNext = "done"
      BY <1>3, <1>6, <2>2 DEF DelayNext
    <3> QED  BY <1>2, <1>3, <1>4, <1>6, <2>1, <2>2, <3>1 DEF Delay, Spent
  <2>3. CASE Cost # 1
    <3>1. DelayNext = "sub_three"
      BY <1>3, <1>6, <2>3 DEF DelayNext
    <3>2. Cost >= 3
      BY <1>3, <2>3
    <3> QED
      BY <1>2, <1>3, <1>4, <1>5, <1>6, <2>1, <3>1, <3>2 DEF Lingers, Counting, Spent
  <2> QED  BY <2>2, <2>3
<1>7. CASE d = "sub_three"
  <2>1. Cost >= 3
    BY <1>7 DEF Control, Counting
  <2>2. t' = Cost - 3
    <3>1. t' = (Cost + TempMod - 3) % TempMod
      BY <1>3, <1>7 DEF Delay
    <3>2. (Cost + TempMod - 3) % TempMod = Cost - 3
      BY <1>3, <1>4, <2>1, Subtract
    <3> QED  BY <3>1, <3>2
  <2>3. DelayNext = "test_zero"
    BY <1>7 DEF DelayNext
  <2> QED
    BY <1>2, <1>3, <1>4, <1>5, <1>7, <2>1, <2>2, <2>3 DEF Lingers, Counting, Spent
<1>8. CASE d = "test_zero"
  <2>1. t' = t /\ t = Cost - 3 /\ Cost >= 3
    BY <1>8 DEF Delay, Control, Counting
  <2>2. CASE t = 0
    <3>1. DelayNext = "done"
      BY <1>8, <2>2 DEF DelayNext
    <3> QED  BY <1>2, <1>3, <1>4, <1>8, <2>1, <2>2, <3>1 DEF Delay, Spent
  <2>3. CASE t # 0
    <3>1. DelayNext = "sub_two"
      BY <1>8, <2>3 DEF DelayNext
    <3>2. t % 2 = 0 /\ t >= 2
      BY <1>3, <1>4, <2>1, <2>3
    <3> QED
      BY <1>2, <1>3, <1>4, <1>5, <1>8, <2>1, <3>1, <3>2 DEF Lingers, Counting, Spent
  <2> QED  BY <2>2, <2>3
<1>9. CASE d = "sub_two"
  <2>1. t % 2 = 0 /\ t >= 2 /\ t <= Cost - 3 /\ Cost >= 3
    BY <1>9 DEF Control, Counting
  <2>2. t' = t - 2
    <3>1. t' = (t + TempMod - 2) % TempMod
      BY <1>9 DEF Delay
    <3>2. (t + TempMod - 2) % TempMod = t - 2
      BY <1>4, <2>1, Subtract
    <3> QED  BY <3>1, <3>2
  <2>3. DelayNext = "loop"
    BY <1>9 DEF DelayNext
  <2>4. t' % 2 = 0 /\ t' <= Cost - 5 /\ t' \in 0 .. TempMod - 1
    BY <1>3, <1>4, <2>1, <2>2
  <2> QED
    BY <1>2, <1>3, <1>4, <1>5, <1>9, <2>1, <2>2, <2>3, <2>4 DEF Lingers, Counting, Spent
<1>10. CASE d = "loop"
  <2>1. t' = t /\ t % 2 = 0 /\ t <= Cost - 5 /\ Cost >= 3
    BY <1>10 DEF Delay, Control, Counting
  <2>2. CASE t = 0
    <3>1. DelayNext = "done"
      BY <1>10, <2>2 DEF DelayNext
    <3> QED  BY <1>2, <1>3, <1>4, <1>10, <2>1, <2>2, <3>1 DEF Delay, Spent
  <2>3. CASE t # 0
    <3>1. DelayNext = "sub_two"
      BY <1>10, <2>3 DEF DelayNext
    <3>2. t >= 2
      BY <1>4, <2>1, <2>3
    <3> QED
      BY <1>2, <1>3, <1>4, <1>5, <1>10, <2>1, <3>1, <3>2 DEF Lingers, Counting, Spent
  <2> QED  BY <2>2, <2>3
<1> QED  BY <1>6, <1>7, <1>8, <1>9, <1>10 DEF Control, Counting

(* Every other instruction takes one cycle. *)
LEMMA NoDelay ==
  ASSUME Control, at = "sample", step \notin {2, 4}, step # BetweenAt
  PROVE  Cost = 1 /\ Spent = 0 /\ d = "test_one" /\ t \in 0 .. TempMod - 1
BY DEF Control, Counting, Delaying, Cost, Spent

LEMMA Sampling ==
  ASSUME Control, SampleStep
  PROVE  /\ at = "sample" /\ cfg' = cfg /\ t' \in 0 .. TempMod - 1
         /\ \/ MovesOn /\ d' = "test_one" /\ Spent + 1 = Cost
            \/ Lingers /\ Counting' /\ Spent' = Spent + 1
            \/ Leaves /\ d' = "test_one"
<1>1. at = "sample"
  BY InsideSample DEF Control
<1>2. Where
  BY DEF Control
<1>3. ASSUME Advance, step \notin {2, 4}, step # BetweenAt, cfg' = cfg, UNCHANGED <<d, t>>
      PROVE  /\ at = "sample" /\ cfg' = cfg /\ t' \in 0 .. TempMod - 1
             /\ MovesOn /\ d' = "test_one" /\ Spent + 1 = Cost
  BY <1>1, <1>2, <1>3, NoDelay, Advancing
<1>4. CASE Rise
  <2>1. step = 1
    BY <1>1, <1>2, <1>4, Position DEF Rise, Where
  <2> QED  BY <1>3, <1>4, <2>1 DEF Rise, BetweenAt
<1>5. CASE Fall
  <2>1. step = 5
    BY <1>1, <1>2, <1>5, Position DEF Fall, Where
  <2> QED  BY <1>3, <1>5, <2>1 DEF Fall, BetweenAt
<1>6. CASE Take
  <2>1. step = 3
    BY <1>1, <1>2, <1>6, Position DEF Take, Where
  <2> QED  BY <1>3, <1>6, <2>1 DEF Take, BetweenAt
<1>7. CASE Delay
  BY <1>1, <1>2, <1>7, DelayStep, Advancing
<1>8. CASE CheckInt
  <2>1. step \in {6, 7} /\ step # BetweenAt
    BY <1>1, <1>2, <1>8, Position DEF CheckInt, Where, BetweenAt
  <2>2. CASE evt
    <3>1. d = "test_one" /\ t \in 0 .. TempMod - 1
      BY <1>1, <2>1, NoDelay
    <3> QED  BY <1>1, <1>8, <2>2, <3>1 DEF CheckInt, Leaves, regs
  <2>3. CASE ~evt
    BY <1>3, <1>8, <2>1, <2>3 DEF CheckInt, regs
  <2> QED  BY <2>2, <2>3
<1>9. CASE Registers
  <2>1. step \in {7, 8} /\ step # BetweenAt
    BY <1>1, <1>2, <1>9, Position DEF Registers, Where, BetweenAt
  <2> QED  BY <1>3, <1>9, <2>1 DEF Registers
<1>10. CASE Branch
  <2>1. step \in {7, 8, 9} /\ step # BetweenAt
    <3>1. CASE Instr = "xout"
      BY <1>1, <1>2, <3>1, Position DEF Where, XoutAt, BetweenAt
    <3>2. CASE Instr \in {"branch", "jump"}
      BY <1>1, <1>2, <3>2, Position DEF Where, BetweenAt
    <3> QED  BY <1>10, <3>1, <3>2 DEF Branch
  <2> QED  BY <1>3, <1>10, <2>1 DEF Branch, regs
<1>11. CASE Tell
  <2>1. step \in {8, 9} /\ step # BetweenAt
    BY <1>1, <1>2, <1>11, Position DEF Tell, Where, XoutAt, BetweenAt
  <2> QED  BY <1>3, <1>11, <2>1 DEF Tell, regs
<1> QED
  BY <1>4, <1>5, <1>6, <1>7, <1>8, <1>9, <1>10, <1>11 DEF SampleStep

(* Outside a sample: waiting, attending, the raw sample, and getting ready.*)
OutsideStep == \/ IntLoop \/ Clear \/ Mode \/ Start \/ RawClock \/ RawTake \/ RawFinish
               \/ InitRun \/ \E r \in Requests : Load(r)

LEMMA StepSplit == Step <=> SampleStep \/ OutsideStep
BY DEF Step, SampleStep, OutsideStep

LEMMA BankType == NumBanks \in Nat \ {0} /\ 0 \in 0 .. NumBanks - 1
BY SamplerAssumption

LEMMA ControlInit == Init => Control
<1> SUFFICES ASSUME Init PROVE Control
  OBVIOUS
<1>1. cfg \in Requests
  BY DEF Init, Requests
<1>2. TempMod \in Nat \ {0} /\ 0 \in 0 .. TempMod - 1
  <2>1. PICK c \in Delays : c = cfg.before
    BY <1>1 DEF Requests
  <2> QED  BY <2>1, DelayTypes, SamplerAssumption
<1> QED
  BY <1>1, <1>2, BankType DEF Init, Control, Where, Counting, Outside, Phases

LEMMA Staying ==
  ASSUME Control, run' = run, at # "sample", at' \in Outside \cup {"sample"}, cfg' \in Requests
  PROVE  Control'
BY DEF Control, Where, Counting, run, Delaying, Cost

LEMMA ControlNext == Control /\ [Next]_vars => Control'
<1> SUFFICES ASSUME Control, [Next]_vars PROVE Control'
  OBVIOUS
<1>1. CASE SampleStep
  <2>1. at = "sample" /\ cfg' = cfg /\ t' \in 0 .. TempMod - 1
    BY <1>1, Sampling
  <2>2. CASE MovesOn /\ d' = "test_one"
    <3>1. Where'
      <4>1. step' \in 1 .. 9 /\ phase' \in Phases
        BY <2>2 DEF MovesOn, NextPhase, Control, Where, Phases
      <4>2. bank' \in 0 .. NumBanks - 1
        <5>1. (bank + 1) % NumBanks \in 0 .. NumBanks - 1
          BY BankType DEF Control, Where
        <5> QED  BY <2>2, <5>1 DEF MovesOn, Control, Where
      <4> QED  BY <2>1, <2>2, <4>1, <4>2 DEF MovesOn, Control, Where
    <3> QED  BY <2>1, <2>2, <3>1 DEF Control, Counting
  <2>3. CASE Lingers /\ Counting'
    BY <2>1, <2>3 DEF Control, Where, Lingers
  <2>4. CASE Leaves /\ d' = "test_one"
    BY <2>1, <2>4, BankType DEF Control, Where, Counting, Leaves, Outside, Phases
  <2> QED  BY <1>1, <2>2, <2>3, <2>4, Sampling
<1>2. CASE OutsideStep
  <2>1. run' = run /\ at # "sample" /\ at' \in Outside \cup {"sample"} /\ cfg' \in Requests
    <3> USE DEF Control, Where, Outside, regs
    <3>1. CASE IntLoop \/ Clear \/ Mode \/ Start
      BY <3>1 DEF IntLoop, Clear, Mode, Start
    <3>2. CASE RawClock \/ RawTake \/ RawFinish
      BY <3>2 DEF RawClock, RawTake, RawFinish
    <3>3. CASE InitRun \/ \E r \in Requests : Load(r)
      BY <3>3 DEF InitRun, Load
    <3> QED  BY <1>2, <3>1, <3>2, <3>3 DEF OutsideStep
  <2> QED  BY <2>1, Staying
<1>3. CASE Doorbell \/ UNCHANGED vars
  BY <1>3 DEF Doorbell, vars, run, regs, Control, Where, Counting, Delaying, Cost, BetweenAt
<1> QED  BY <1>1, <1>2, <1>3, StepSplit DEF Next

--------------------------------------------------------------------------------
(***************************************************************************)
(* Cycles: how far into a sample, and what it takes to get there.          *)
(***************************************************************************)
Elapsed == (step - 1) + (IF step > 2 THEN cfg.before - 1 ELSE 0)
                      + (IF step > 4 THEN cfg.after - 1 ELSE 0)
                      + (IF step > BetweenAt THEN cfg.between - 1 ELSE 0)
Pos == Elapsed + Spent

LEMMA PeriodType ==
  ASSUME Where
  PROVE  /\ cfg.before \in Nat \ {0} /\ cfg.after \in Nat \ {0} /\ cfg.between \in Nat \ {0}
         /\ Period \in Nat /\ Period >= 9 /\ Period <= MaxCount /\ MaxCount \in Nat
<1>1. cfg.before \in Delays /\ cfg.after \in Delays /\ cfg.between \in Delays
  BY DEF Where, Requests
<1>2. \A c \in Delays : c \in Nat \ {0}
  BY DelayTypes, SamplerAssumption
<1>3. Period <= MaxCount
  BY <1>1, SamplerAssumption DEF Period
<1>4. cfg.before \in Nat \ {0} /\ cfg.after \in Nat \ {0} /\ cfg.between \in Nat \ {0}
  BY <1>1, <1>2
<1>5. Period \in Nat /\ Period >= 9
  BY <1>4 DEF Period
<1> QED  BY <1>3, <1>4, <1>5, SamplerAssumption

LEMMA ElapsedType ==
  ASSUME Where
  PROVE  /\ Elapsed \in Nat /\ Elapsed + Cost <= Period
         /\ step = 1 => Elapsed = 0
         /\ step # 1 => Elapsed >= 1
         /\ step = 9 => Elapsed + Cost = Period
         /\ step = 3 => Elapsed = cfg.before + 1
         /\ step = 5 => Elapsed = cfg.before + cfg.after + 2
<1>1. step \in {1, 2, 3, 4, 5, 6, 7, 8, 9} /\ BetweenAt \in {6, 7, 9}
  BY DEF Where, BetweenAt
<1>2. /\ Elapsed \in Nat /\ Elapsed + Cost <= Period
      /\ step = 1 => Elapsed = 0
      /\ step = 9 => Elapsed + Cost = Period
      /\ step = 3 => Elapsed = cfg.before + 1
      /\ step = 5 => Elapsed = cfg.before + cfg.after + 2
  BY <1>1, PeriodType DEF Elapsed, Cost, Period
<1>3. step # 1 => Elapsed >= 1
  BY <1>1, PeriodType DEF Elapsed
<1> QED  BY <1>2, <1>3

LEMMA SpentType ==
  ASSUME Control
  PROVE  Spent \in 0 .. Cost - 1
BY CostType DEF Control, Counting, Spent

(* A sample is its Period of cycles, one after the other. *)
Inward == /\ at' = "sample" /\ phase' = phase /\ bank' = bank /\ Pos' = Pos + 1
          /\ \/ step' = step /\ Delaying
             \/ step' = step + 1 /\ step < 9
Onward == /\ at' = "sample" /\ phase' = NextPhase /\ step = 9 /\ step' = 1
          /\ Pos + 1 = Period /\ Pos' = 0

LEMMA Progress ==
  ASSUME Control, SampleStep
  PROVE  /\ at = "sample" /\ cfg' = cfg
         /\ Inward \/ Onward \/ Leaves
<1>1. at = "sample" /\ cfg' = cfg /\ Where
  BY Sampling DEF Control
<1>2. CASE MovesOn /\ d' = "test_one" /\ Spent + 1 = Cost
  <2>1. Spent' = 0 /\ Spent \in Nat /\ Cost \in Nat /\ Elapsed \in Nat
    BY <1>1, <1>2, SpentType, CostType, ElapsedType DEF Spent
  <2>2. CASE step < 9
    <3>1. step' = step + 1 /\ phase' = phase /\ bank' = bank /\ at' = "sample"
      BY <1>1, <1>2, <2>2 DEF MovesOn
    <3>2. Elapsed' = Elapsed + Cost
      <4>1. step \in {1, 2, 3, 4, 5, 6, 7, 8} /\ BetweenAt \in {6, 7, 9} /\ BetweenAt' = BetweenAt
        BY <2>2, <3>1, <1>1 DEF Where, BetweenAt
      <4> QED  BY <4>1, <3>1, <1>1, PeriodType DEF Elapsed, Cost
    <3> QED  BY <1>1, <1>2, <2>1, <2>2, <3>1, <3>2 DEF Inward, Pos
  <2>3. CASE step = 9
    <3>1. step' = 1 /\ phase' = NextPhase /\ at' = "sample"
      BY <1>1, <1>2, <2>3 DEF MovesOn
    <3>2. Elapsed' = 0
      <4>1. step' <= BetweenAt'
        BY <3>1 DEF BetweenAt
      <4> QED  BY <3>1, <4>1, PeriodType, <1>1 DEF Elapsed, BetweenAt
    <3>3. Elapsed + Cost = Period
      BY <1>1, <2>3, ElapsedType
    <3> QED  BY <1>1, <1>2, <2>1, <2>3, <3>1, <3>2, <3>3 DEF Onward, Pos
  <2> QED  BY <1>1, <1>2, <2>2, <2>3 DEF MovesOn
<1>3. CASE Lingers /\ Spent' = Spent + 1
  <2>1. Elapsed' = Elapsed
    BY <1>1, <1>3 DEF Lingers, Elapsed, BetweenAt
  <2>2. Spent \in Nat /\ Elapsed \in Nat
    BY <1>1, SpentType, ElapsedType, CostType
  <2> QED  BY <1>1, <1>3, <2>1, <2>2 DEF Inward, Pos, Lingers
<1> QED  BY <1>1, <1>2, <1>3, Sampling

LEMMA PosType ==
  ASSUME Control
  PROVE  /\ Pos \in 0 .. Period - 1
         /\ step = 1 => Pos = 0
<1>1. Where /\ Spent \in 0 .. Cost - 1 /\ Cost \in Nat /\ Elapsed \in Nat
  BY SpentType, CostType, ElapsedType DEF Control
<1>2. step = 1 => Spent = 0
  <2>1. step = 1 => ~Delaying
    BY DEF Delaying, BetweenAt
  <2> QED  BY <2>1 DEF Control, Counting, Spent
<1> QED  BY <1>1, <1>2, ElapsedType, PeriodType DEF Pos

(* Cycles since the rising edge are the cycles of the sample, and outside  *)
(* a run there was no edge.                                                *)
Cycled ==
  /\ since \in 0 .. MaxCount
  /\ at = "sample" => IF step = 1 THEN since \in {0, Period} ELSE since = Pos
  /\ at \notin {"sample", "clear"} => since = 0

LEMMA CycledInit == Init => Cycled
BY SamplerAssumption DEF Init, Cycled

LEMMA SinceStep ==
  ASSUME Control, Cycled, SampleStep
  PROVE  since' = IF step = 1 THEN 1 ELSE IF since = 0 THEN 0 ELSE More(since)
<1>1. at = "sample" /\ Where
  BY Progress DEF Control
<1>2. CASE Rise
  <2>1. step = 1
    BY <1>1, <1>2, Position DEF Rise, Where
  <2> QED  BY <1>2, <2>1 DEF Rise
<1>3. CASE ~Rise
  <2>1. Instr # "rise"
    BY <1>3 DEF SampleStep, Rise, Fall, Take, Delay, CheckInt, Registers, Branch, Tell
  <2>2. step # 1
    BY <1>1, <2>1, Position DEF Where
  <2>3. since' = IF since = 0 THEN 0 ELSE More(since)
    BY <1>3 DEF SampleStep, Fall, Take, Delay, CheckInt, Registers, Branch, Tell, Plain, Tick
  <2> QED  BY <2>2, <2>3
<1> QED  BY <1>2, <1>3

LEMMA CycledNext == Control /\ Cycled /\ [Next]_vars => Cycled'
<1> SUFFICES ASSUME Control, Cycled, [Next]_vars PROVE Cycled'
  OBVIOUS
<1>1. Where /\ MaxCount \in Nat /\ since \in 0 .. MaxCount /\ Pos \in 0 .. Period - 1
      /\ Period \in Nat /\ Period >= 9 /\ Period <= MaxCount
  BY PeriodType, PosType DEF Control, Cycled
<1>2. CASE SampleStep
  <2>1. at = "sample" /\ cfg' = cfg
    BY <1>2, Progress
  <2>2. Period' = Period
    BY <2>1 DEF Period
  <2>3. since' \in 0 .. MaxCount
    BY <1>1, <1>2, SinceStep DEF More
  <2>4. since' = Pos + 1
    <3>1. CASE step = 1
      BY <1>2, <3>1, SinceStep, PosType
    <3>2. CASE step # 1
      <4>1. since = Pos
        BY <2>1, <3>2 DEF Cycled
      <4>2. Pos >= 1
        <5>1. Elapsed >= 1 /\ Elapsed \in Nat /\ Spent \in Nat
          BY <1>1, <3>2, SpentType, ElapsedType, CostType
        <5> QED  BY <5>1 DEF Pos
      <4> QED  BY <1>1, <1>2, <3>2, <4>1, <4>2, SinceStep DEF More
    <3> QED  BY <3>1, <3>2
  <2>5. CASE Inward
    <3>1. step' # 1
      BY <1>1, <2>5 DEF Inward, Where, Delaying, BetweenAt
    <3> QED  BY <2>3, <2>4, <2>5, <3>1 DEF Cycled, Inward
  <2>6. CASE Onward
    BY <2>2, <2>3, <2>4, <2>6 DEF Cycled, Onward
  <2>7. CASE Leaves
    BY <2>3, <2>7 DEF Cycled, Leaves
  <2> QED  BY <1>2, <2>5, <2>6, <2>7, Progress
<1>3. CASE OutsideStep
  <2> USE <1>1 DEF Cycled, Plain, Tick
  <2>1. CASE IntLoop \/ Mode \/ Start \/ RawClock \/ RawTake \/ RawFinish \/ Clear
    BY <2>1 DEF IntLoop, Mode, Start, RawClock, RawTake, RawFinish, Clear
  <2>2. CASE InitRun \/ \E r \in Requests : Load(r)
    BY <2>2 DEF InitRun, Load, run, Where
  <2> QED  BY <1>3, <2>1, <2>2 DEF OutsideStep
<1>4. CASE Doorbell \/ UNCHANGED vars
  BY <1>4 DEF Doorbell, vars, run, regs, Cycled, Pos, Elapsed, Spent, Cost, BetweenAt, Period
<1> QED  BY <1>2, <1>3, <1>4, StepSplit DEF Next

--------------------------------------------------------------------------------
(***************************************************************************)
(* The clock pin: high from the rising edge of a sample to the falling one.*)
(***************************************************************************)
Clocked ==
  clk = IF (at = "sample" /\ step \in 2 .. 5) \/ at \in {"raw_take", "raw_fall"} THEN 1 ELSE 0

LEMMA ClockedInit == Init => Clocked
BY DEF Init, Clocked

LEMMA ClockedNext == Control /\ Clocked /\ [Next]_vars => Clocked'
<1> SUFFICES ASSUME Control, Clocked, [Next]_vars PROVE Clocked'
  OBVIOUS
<1>1. Where
  BY DEF Control
<1>2. CASE SampleStep
  <2>1. at = "sample" /\ step \in 1 .. 9
    BY <1>1, <1>2, Progress DEF Where
  <2>2. CASE Rise
    <3>1. step = 1
      BY <1>1, <2>1, <2>2, Position DEF Rise, Where
    <3> QED
      BY <1>1, <2>1, <2>2, <3>1, Advancing DEF Rise, Clocked, MovesOn
  <2>3. CASE Fall
    <3>1. step = 5
      BY <1>1, <2>1, <2>3, Position DEF Fall, Where
    <3> QED
      BY <1>1, <2>1, <2>3, <3>1, Advancing DEF Fall, Clocked, MovesOn
  <2>4. CASE ~Rise /\ ~Fall
    <3>1. clk' = clk
      BY <1>2, <2>4
         DEF SampleStep, Take, Delay, CheckInt, Registers, Branch, Tell, regs
    <3>2. Instr \notin {"rise", "fall"}
      BY <1>2, <2>4
         DEF SampleStep, Take, Delay, CheckInt, Registers, Branch, Tell
    <3>3. step \notin {1, 5}
      BY <1>1, <2>1, <3>2, Position DEF Where
    <3>4. CASE Inward
      BY <2>1, <3>1, <3>3, <3>4 DEF Inward, Clocked
    <3>5. CASE Onward
      BY <2>1, <3>1, <3>5 DEF Onward, Clocked
    <3>6. CASE Leaves
      <4>1. step \in {6, 7}
        BY <1>1, <2>1, <3>6, Position DEF Leaves, CheckInt, Where
      <4> QED  BY <2>1, <3>1, <3>6, <4>1 DEF Leaves, Clocked
    <3> QED  BY <1>2, <3>4, <3>5, <3>6, Progress
  <2> QED  BY <2>2, <2>3, <2>4
<1>3. CASE OutsideStep
  <2> USE <1>1 DEF Clocked, Where, run, regs
  <2>1. CASE IntLoop \/ Clear \/ Mode \/ Start
    BY <2>1 DEF IntLoop, Clear, Mode, Start
  <2>2. CASE RawClock \/ RawTake \/ RawFinish
    BY <2>2 DEF RawClock, RawTake, RawFinish
  <2>3. CASE InitRun \/ \E r \in Requests : Load(r)
    BY <2>3 DEF InitRun, Load
  <2> QED  BY <1>3, <2>1, <2>2, <2>3 DEF OutsideStep
<1>4. CASE Doorbell \/ UNCHANGED vars
  BY <1>4 DEF Doorbell, vars, run, regs, Clocked
<1> QED  BY <1>2, <1>3, <1>4, StepSplit DEF Next

--------------------------------------------------------------------------------
(***************************************************************************)
(* The block: counter, pointer and bytes follow the samples taken.         *)
(***************************************************************************)
Filled == data = [b \in Bytes |-> IF b <= taken THEN b ELSE 0]

InLoop ==
  /\ step <= 3 => ptr = counter /\ taken = counter /\ counter <= Samples - 3
  /\ step \in 4 .. 8 => ptr = counter + 1 /\ taken = ptr /\ counter <= Samples - 3
  /\ step = 9 => ptr = counter /\ taken = counter /\ counter >= 1
InSecondLast ==
  /\ counter = IF step <= 7 THEN Samples - 2 ELSE 0
  /\ ptr = IF step <= 8 THEN Samples - 2 ELSE 0
  /\ taken = IF step <= 3 THEN Samples - 2 ELSE Samples - 1
InLast ==
  /\ counter = 0 /\ ptr = 0
  /\ taken = IF step <= 3 THEN Samples - 1 ELSE IF step <= XoutAt + 1 THEN Samples ELSE 0

Filling ==
  /\ counter \in 0 .. Samples - 2 /\ ptr \in 0 .. Samples - 2 /\ taken \in 0 .. Samples
  /\ data \in [Bytes -> 0 .. Samples]
  /\ at \in {"sample", "load", "mode", "start", "init_counter", "init_ptr"} => Filled
  /\ at \in {"load", "mode", "start", "init_counter", "init_ptr"} => taken = 0
  /\ at = "init_ptr" => counter = 0
  /\ at = "sample" => CASE phase = "loop" -> InLoop
                         [] phase = "second_last" -> InSecondLast
                         [] phase = "last" -> InLast

LEMMA FillingInit == Init => Filling
BY SamplerAssumption DEF Init, Filling, Bytes

LEMMA SamplesType == Samples \in Nat /\ Samples >= 4 /\ Bytes = 1 .. Samples
BY SamplerAssumption DEF Bytes

(* One more byte, and none. *)
LEMMA FilledMore ==
  ASSUME Filled, taken \in 0 .. Samples - 1, taken' = taken + 1,
         data' = [b \in Bytes |-> IF b = taken + 1 THEN taken + 1 ELSE data[b]]
  PROVE  Filled' /\ data' \in [Bytes -> 0 .. Samples]
BY SamplesType DEF Filled

LEMMA FilledNone ==
  ASSUME taken' = 0, data' = [b \in Bytes |-> 0]
  PROVE  Filled' /\ data' \in [Bytes -> 0 .. Samples]
BY SamplesType DEF Filled

LEMMA FillingTake ==
  ASSUME Where, Filling, at = "sample", Take
  PROVE  Filling'
<1>1. step = 3
  BY Position DEF Take, Where
<1>2. at' = "sample" /\ step' = 4 /\ phase' = phase /\ bank' = bank /\ counter' = counter
  BY <1>1, Advancing DEF Take, MovesOn
<1>3. taken' = taken + 1
  BY DEF Take
<1>4. /\ taken \in 0 .. Samples - 1
      /\ (CASE phase = "loop" -> ptr + 1
            [] phase = "second_last" -> Samples - 1
            [] phase = "last" -> Samples) = taken + 1
  <2> USE <1>1, SamplesType DEF Filling
  <2>1. CASE phase = "loop"
    BY <2>1 DEF InLoop
  <2>2. CASE phase = "second_last"
    BY <2>2 DEF InSecondLast
  <2>3. CASE phase = "last"
    BY <2>3 DEF InLast
  <2> QED  BY <2>1, <2>2, <2>3 DEF Where, Phases
<1>5. data' = [b \in Bytes |-> IF b = taken + 1 THEN taken + 1 ELSE data[b]]
  BY <1>4 DEF Take
<1>6. Filled' /\ data' \in [Bytes -> 0 .. Samples]
  BY <1>3, <1>4, <1>5, FilledMore DEF Filling
<1>7. CASE phase = "loop"
  <2>1. ptr' = ptr + 1 /\ ptr = counter /\ taken = counter /\ counter <= Samples - 3
    BY <1>1, <1>7 DEF Take, Filling, InLoop
  <2> QED
    BY <1>2, <1>3, <1>6, <1>7, <2>1, SamplesType DEF Filling, InLoop
<1>8. CASE phase = "second_last"
  <2>1. ptr' = ptr /\ ptr = Samples - 2 /\ taken = Samples - 2 /\ counter = Samples - 2
    BY <1>1, <1>8 DEF Take, Filling, InSecondLast
  <2> QED
    BY <1>2, <1>3, <1>6, <1>8, <2>1, SamplesType DEF Filling, InSecondLast
<1>9. CASE phase = "last"
  <2>1. ptr' = ptr /\ ptr = 0 /\ taken = Samples - 1 /\ counter = 0
    BY <1>1, <1>9 DEF Take, Filling, InLast
  <2> QED
    BY <1>2, <1>3, <1>6, <1>9, <2>1, SamplesType DEF Filling, InLast, XoutAt
<1> QED  BY <1>7, <1>8, <1>9 DEF Where, Phases

LEMMA FillingRegisters ==
  ASSUME Where, Filling, at = "sample", Registers
  PROVE  Filling'
<1>1. taken' = taken /\ data' = data /\ Filled' /\ data \in [Bytes -> 0 .. Samples]
  BY DEF Registers, Plain, Filling, Filled
<1>2. CASE Instr = "count"
  <2>1. phase = "loop" /\ step = 8
    BY <1>2, Position DEF Where
  <2>2. at' = "sample" /\ step' = 9 /\ phase' = phase
    BY <2>1, Advancing DEF Registers, MovesOn
  <2>3. counter' = counter + 1 /\ ptr' = ptr
    BY <1>2 DEF Registers
  <2>4. ptr = counter + 1 /\ taken = ptr /\ counter \in 0 .. Samples - 3
    BY <2>1, SamplesType DEF Filling, InLoop
  <2> QED  BY <1>1, <2>1, <2>2, <2>3, <2>4, SamplesType DEF Filling, InLoop
<1>3. CASE Instr = "reset_counter"
  <2>1. phase = "second_last" /\ step = 7
    BY <1>3, Position DEF Where
  <2>2. at' = "sample" /\ step' = 8 /\ phase' = phase
    BY <2>1, Advancing DEF Registers, MovesOn
  <2>3. counter' = 0 /\ ptr' = ptr
    BY <1>3 DEF Registers
  <2>4. ptr = Samples - 2 /\ taken = Samples - 1
    BY <2>1 DEF Filling, InSecondLast
  <2> QED  BY <1>1, <2>1, <2>2, <2>3, <2>4, SamplesType DEF Filling, InSecondLast
<1>4. CASE Instr = "reset_ptr"
  <2>1. phase = "second_last" /\ step = 8
    BY <1>4, Position DEF Where
  <2>2. at' = "sample" /\ step' = 9 /\ phase' = phase
    BY <2>1, Advancing DEF Registers, MovesOn
  <2>3. counter' = counter /\ ptr' = 0
    BY <1>4 DEF Registers
  <2>4. counter = 0 /\ taken = Samples - 1
    BY <2>1 DEF Filling, InSecondLast
  <2> QED  BY <1>1, <2>1, <2>2, <2>3, <2>4, SamplesType DEF Filling, InSecondLast
<1> QED  BY <1>2, <1>3, <1>4 DEF Registers

LEMMA FillingTell ==
  ASSUME Where, Filling, at = "sample", Tell
  PROVE  Filling'
<1>1. counter' = counter /\ ptr' = ptr /\ taken' = 0 /\ Filled' /\ data' \in [Bytes -> 0 .. Samples]
  BY FilledNone DEF Tell, regs
<1>2. phase = "last" /\ step = XoutAt + 1
  BY Position DEF Tell, Where
<1>3. counter = 0 /\ ptr = 0
  BY <1>2 DEF Filling, InLast
<1>4. at' = "sample" /\ MovesOn
  BY Advancing DEF Tell, MovesOn
<1>5. CASE step < 9
  <2>1. phase' = "last" /\ bank' = bank /\ step' = XoutAt + 2 /\ step' > 3
    BY <1>2, <1>4, <1>5 DEF MovesOn, XoutAt
  <2> QED
    BY <1>1, <1>3, <1>4, <2>1, SamplesType DEF Filling, InLast, XoutAt
<1>6. CASE step = 9
  <2>1. phase' = "loop" /\ step' = 1
    BY <1>2, <1>4, <1>6 DEF MovesOn, NextPhase
  <2> QED  BY <1>1, <1>3, <1>4, <2>1, SamplesType DEF Filling, InLoop
<1> QED  BY <1>4, <1>5, <1>6 DEF MovesOn

(* Instructions that only move on. *)
LEMMA FillingMoves ==
  ASSUME Control, Filling, Inward \/ Onward, at = "sample",
         UNCHANGED <<counter, ptr, data, taken>>,
         step # 3, phase = "loop" => step # 8, phase = "second_last" => step \notin {7, 8},
         phase = "last" => step # XoutAt + 1
  PROVE  Filling'
<1>1. Where /\ Filled' /\ at' = "sample" /\ step \in 1 .. 9
  BY DEF Control, Where, Filling, Filled, Inward, Onward
<1>2. CASE phase = "loop"
  <2>1. CASE Inward
    <3>1. step' = step \/ step' = step + 1
      BY <2>1 DEF Inward
    <3> QED  BY <1>1, <1>2, <2>1, <3>1 DEF Inward, Filling, InLoop
  <2>2. CASE Onward
    <3>1. step = 9 /\ step' = 1 /\ ptr = counter /\ taken = counter /\ counter \in 1 .. Samples - 2
      BY <1>2, <2>2 DEF Onward, Filling, InLoop
    <3>2. CASE counter # Samples - 2
      <4>1. phase' = "loop" /\ counter <= Samples - 3
        BY <1>2, <2>2, <3>1, <3>2, SamplesType DEF Onward, NextPhase
      <4> QED  BY <1>1, <3>1, <4>1 DEF Filling, InLoop
    <3>3. CASE counter = Samples - 2
      <4>1. phase' = "second_last"
        BY <1>2, <2>2, <3>3 DEF Onward, NextPhase
      <4> QED  BY <1>1, <3>1, <3>3, <4>1 DEF Filling, InSecondLast
    <3> QED  BY <3>2, <3>3
  <2> QED  BY <2>1, <2>2
<1>3. CASE phase = "second_last"
  <2>1. CASE Inward
    <3>1. step' = step \/ step' = step + 1
      BY <2>1 DEF Inward
    <3> QED  BY <1>1, <1>3, <2>1, <3>1 DEF Inward, Filling, InSecondLast
  <2>2. CASE Onward
    <3>1. step = 9 /\ step' = 1 /\ phase' = "last"
      BY <1>3, <2>2 DEF Onward, NextPhase
    <3> QED  BY <1>1, <1>3, <3>1 DEF Filling, InSecondLast, InLast
  <2> QED  BY <2>1, <2>2
<1>4. CASE phase = "last"
  <2>1. CASE Inward
    <3>1. step' = step \/ step' = step + 1
      BY <2>1 DEF Inward
    <3>2. XoutAt' = XoutAt /\ XoutAt \in {7, 8}
      BY <2>1 DEF Inward, XoutAt
    <3> QED  BY <1>1, <1>4, <2>1, <3>1, <3>2 DEF Inward, Filling, InLast
  <2>2. CASE Onward
    <3>1. step = 9 /\ step' = 1 /\ phase' = "loop"
      BY <1>4, <2>2 DEF Onward, NextPhase
    <3>2. counter = 0 /\ ptr = 0 /\ taken = 0
      BY <1>4, <3>1 DEF Filling, InLast, XoutAt
    <3> QED  BY <1>1, <3>1, <3>2, SamplesType DEF Filling, InLoop
  <2> QED  BY <2>1, <2>2
<1> QED  BY <1>1, <1>2, <1>3, <1>4 DEF Where, Phases

LEMMA FillingNext == Control /\ Filling /\ [Next]_vars => Filling'
<1> SUFFICES ASSUME Control, Filling, [Next]_vars PROVE Filling'
  OBVIOUS
<1>1. Where
  BY DEF Control
<1>2. CASE SampleStep
  <2>1. at = "sample" /\ (Inward \/ Onward \/ Leaves)
    BY <1>2, Progress
  <2>2. CASE Take \/ Registers \/ Tell
    BY <1>1, <2>1, <2>2, FillingTake, FillingRegisters, FillingTell
  <2>3. CASE ~(Take \/ Registers \/ Tell)
    <3>1. UNCHANGED <<counter, ptr, data, taken>>
      BY <1>2, <2>3 DEF SampleStep, Rise, Fall, Delay, CheckInt, Branch, Plain, regs
    <3>2. Instr \notin {"take", "count", "reset_counter", "reset_ptr", "tell"}
      BY <1>2, <2>3 DEF SampleStep, Rise, Fall, Delay, CheckInt, Branch
    <3>3. /\ step # 3
          /\ phase = "loop" => step # 8
          /\ phase = "second_last" => step \notin {7, 8}
          /\ phase = "last" => step # XoutAt + 1
      BY <1>1, <2>1, <3>2, Position DEF Where
    <3>4. CASE Inward \/ Onward
      BY <2>1, <3>1, <3>3, <3>4, FillingMoves
    <3>5. CASE Leaves
      BY <3>1, <3>5 DEF Leaves, Filling
    <3> QED  BY <2>1, <3>4, <3>5
  <2> QED  BY <2>2, <2>3
<1>3. CASE OutsideStep
  <2>1. CASE IntLoop \/ Mode \/ Start \/ RawClock \/ RawFinish
    BY <2>1, SamplesType
       DEF IntLoop, Mode, Start, RawClock, RawFinish, Filling, Filled, Plain, regs
  <2>2. CASE RawTake
    BY <2>2, SamplesType DEF RawTake, Filling, regs
  <2>3. CASE Clear
    BY <2>3, FilledNone, SamplesType DEF Clear, Filling, regs
  <2>4. CASE \E r \in Requests : Load(r)
    BY <2>4, SamplesType DEF Load, Filling, Filled, Plain
  <2>5. CASE InitRun
    <3>1. Filled' /\ taken' = 0 /\ taken = 0 /\ data' = data
      BY <2>5 DEF InitRun, Plain, Filling, Filled
    <3>2. CASE at = "init_counter"
      BY <2>5, <3>1, <3>2, SamplesType DEF InitRun, Filling
    <3>3. CASE at # "init_counter"
      <4>1. counter' = 0 /\ ptr' = 0 /\ at' = "sample" /\ phase' = "loop" /\ step' = 1
        BY <1>1, <2>5, <3>3 DEF InitRun, Filling, Where, run
      <4> QED  BY <3>1, <4>1, SamplesType DEF Filling, InLoop
    <3> QED  BY <3>2, <3>3
  <2> QED  BY <1>3, <2>1, <2>2, <2>3, <2>4, <2>5 DEF OutsideStep
<1>4. CASE Doorbell \/ UNCHANGED vars
  <2>1. UNCHANGED <<at, phase, step, bank, counter, ptr, data, taken>>
    BY <1>4 DEF Doorbell, vars, run, regs
  <2>2. (InLoop => InLoop') /\ (InSecondLast => InSecondLast') /\ (InLast => InLast')
    BY <2>1 DEF InLoop, InSecondLast, InLast, XoutAt
  <2>3. (Filled => Filled') /\ phase \in Phases
    BY <2>1 DEF Filled, Control, Where
  <2> QED  BY <2>1, <2>2, <2>3 DEF Filling, Phases
<1> QED  BY <1>2, <1>3, <1>4, StepSplit DEF Next

--------------------------------------------------------------------------------
(***************************************************************************)
(* The doorbell: how long it can have been pending, anywhere.              *)
(***************************************************************************)
HeadTime == cfg.before + cfg.after + 3

(* The last check was in this sample or the one before, or, behind the     *)
(* last sample for the last bank, in the one before that.                  *)
Allowed ==
  IF phase = "loop" THEN (IF step <= 6 THEN 2 * Period ELSE 0)
  ELSE IF phase = "second_last" THEN (IF step <= 6 THEN Period ELSE 0)
  ELSE Period

Attending ==
  IF at = "clear" THEN 2 * Period ELSE IF at = "load" THEN 0 ELSE IF at = "mode" THEN 1
  ELSE IF at = "start" THEN 2 ELSE IF at = "raw_rise" THEN 2 ELSE IF at = "raw_take" THEN 3
  ELSE IF at = "raw_fall" THEN 4 ELSE IF at = "raw_xout" THEN 5 ELSE IF at = "raw_tell" THEN 6
  ELSE IF at = "raw_jump" THEN 7 ELSE IF at = "int_loop" THEN 8
  ELSE IF at = "init_counter" THEN 3 ELSE 4

Waited ==
  /\ waiting \in 0 .. MaxCount
  /\ waiting <= IF at = "sample" THEN Pos + Allowed - HeadTime - 1 ELSE Attending

LEMMA WaitedInit == Init => Waited
BY SamplerAssumption DEF Init, Waited, Attending

LEMMA TickOne ==
  ASSUME Waited, MaxCount \in Nat, TickWait
  PROVE  waiting' \in 0 .. MaxCount /\ waiting' <= waiting + 1 /\ (~evt => waiting' = 0)
BY DEF Waited, TickWait, More

LEMMA EveryTick == SampleStep => TickWait
BY DEF SampleStep, Rise, Fall, Take, Delay, CheckInt, Registers, Branch, Tell, Plain, Tick

(* Up to its check a sample is at most the head of it old. *)
LEMMA HeadPos ==
  ASSUME Control
  PROVE  /\ HeadTime \in Nat /\ HeadTime + 1 <= Period
         /\ step <= 5 => Pos + 1 <= HeadTime
         /\ step = 6 /\ phase # "last" => Pos = HeadTime
         /\ step = 7 /\ phase = "last" => Pos = HeadTime + cfg.between
<1>1. Where /\ Spent \in 0 .. Cost - 1 /\ BetweenAt \in {6, 7, 9} /\ Spent \in Nat
  BY SpentType, CostType DEF Control, BetweenAt
<1>2. cfg.before \in Nat \ {0} /\ cfg.after \in Nat \ {0} /\ cfg.between \in Nat \ {0}
  BY <1>1, PeriodType
<1>3. HeadTime \in Nat /\ HeadTime + 1 <= Period
  BY <1>2 DEF HeadTime, Period
<1>4. ASSUME step <= 5 PROVE Pos + 1 <= HeadTime
  <2>1. step \in {1, 2, 3, 4, 5}
    BY <1>1, <1>4 DEF Where
  <2>2. Elapsed + Cost <= HeadTime /\ Elapsed \in Nat
    BY <1>1, <1>2, <2>1 DEF Elapsed, Cost, HeadTime
  <2> QED  BY <1>1, <1>3, <2>2, CostType DEF Pos
<1>5. ASSUME step = 6, phase # "last" PROVE Pos = HeadTime
  <2>1. BetweenAt \in {7, 9}
    BY <1>1, <1>5 DEF BetweenAt, Where, Phases
  <2>2. Spent = 0
    BY <1>5, <2>1 DEF Control, Counting, Delaying, Spent
  <2> QED  BY <1>2, <1>5, <2>1, <2>2 DEF Pos, Elapsed, HeadTime
<1>6. ASSUME step = 7, phase = "last" PROVE Pos = HeadTime + cfg.between
  <2>1. BetweenAt = 6
    BY <1>6 DEF BetweenAt
  <2>2. Spent = 0
    BY <1>6, <2>1 DEF Control, Counting, Delaying, Spent
  <2> QED  BY <1>2, <1>6, <2>1, <2>2 DEF Pos, Elapsed, HeadTime
<1> QED  BY <1>3, <1>4, <1>5, <1>6

LEMMA WaitedNext == Control /\ Waited /\ [Next]_vars => Waited'
<1> SUFFICES ASSUME Control, Waited, [Next]_vars PROVE Waited'
  OBVIOUS
<1>1. /\ Where /\ Period \in Nat /\ Period >= 9 /\ MaxCount \in Nat
      /\ Pos \in 0 .. Period - 1 /\ waiting \in 0 .. MaxCount
      /\ cfg.between \in Nat /\ cfg.between + 6 <= Period /\ HeadTime \in Nat
      /\ HeadTime + cfg.between + 3 = Period
  <2>1. Where /\ waiting \in 0 .. MaxCount
    BY DEF Control, Waited
  <2>2. HeadTime \in Nat /\ cfg.between + 6 <= Period /\ HeadTime + cfg.between + 3 = Period
    BY <2>1, PeriodType DEF HeadTime, Period
  <2> QED  BY <2>1, <2>2, PeriodType, PosType
<1>2. CASE SampleStep
  <2>1. at = "sample" /\ cfg' = cfg /\ (Inward \/ Onward \/ Leaves)
    BY <1>2, Progress
  <2>2. Period' = Period /\ HeadTime' = HeadTime
    BY <2>1 DEF Period, HeadTime
  <2>3. waiting' \in 0 .. MaxCount /\ waiting' <= waiting + 1 /\ (~evt => waiting' = 0)
    BY <1>1, <1>2, TickOne, EveryTick
  <2>4. waiting <= Pos + Allowed - HeadTime - 1
    BY <2>1 DEF Waited
  <2>5. CASE Inward
    <3>1. at' = "sample" /\ phase' = phase /\ Pos' = Pos + 1 /\ (step' = step \/ step' = step + 1)
      BY <2>5 DEF Inward
    <3>2. CASE step = 6 /\ step' = 7 /\ phase # "last"
      <4>1. CheckInt
        <5>1. Instr = "check"
          BY <1>1, <2>1, <3>2, Position DEF Where
        <5> QED  BY <1>2, <5>1
                 DEF SampleStep, Rise, Fall, Take, Delay, Registers, Branch, Tell
      <4>2. ~evt
        BY <2>1, <3>1, <4>1 DEF CheckInt
      <4>3. Allowed' = 0 /\ Pos' = HeadTime + 1
        BY <1>1, <3>1, <3>2, HeadPos DEF Allowed, Where, Phases
      <4> QED  BY <1>1, <2>2, <2>3, <3>1, <4>2, <4>3 DEF Waited
    <3>3. CASE ~(step = 6 /\ step' = 7 /\ phase # "last")
      <4>1. Allowed' = Allowed /\ Allowed \in Nat
        BY <1>1, <2>2, <3>1, <3>3 DEF Allowed, Where, Phases
      <4> QED  BY <1>1, <2>2, <2>3, <2>4, <3>1, <4>1 DEF Waited
    <3> QED  BY <3>2, <3>3
  <2>6. CASE Onward
    <3>1. at' = "sample" /\ phase' = NextPhase /\ step = 9 /\ step' = 1 /\ Pos + 1 = Period /\ Pos' = 0
      BY <2>6 DEF Onward
    <3>2. Allowed' >= Period + Allowed /\ Allowed' \in Nat /\ Allowed \in Nat
      BY <1>1, <2>2, <3>1 DEF Allowed, Where, Phases, NextPhase
    <3>3. waiting + 1 <= Period + Allowed - HeadTime - 1
      BY <1>1, <2>4, <3>1, <3>2
    <3>4. waiting' <= 0 + Allowed' - HeadTime - 1
      <4> DEFINE w == waiting  v == waiting'  a == Allowed  b == Allowed'  h == HeadTime  q == Period
      <4>1. w \in Nat /\ v \in Nat /\ a \in Nat /\ b \in Nat /\ h \in Nat /\ q \in Nat
        BY <1>1, <2>3, <3>2
      <4>2. v <= w + 1 /\ w + 1 <= q + a - h - 1 /\ b >= q + a
        BY <2>3, <3>2, <3>3
      <4> HIDE DEF w, v, a, b, h, q
      <4>3. v <= 0 + b - h - 1
        BY <4>1, <4>2
      <4> QED  BY <4>3 DEF v, b, h
    <3>5. waiting' \in 0 .. MaxCount'
      BY <2>3
    <3>6. waiting' <= Pos' + Allowed' - HeadTime' - 1
      BY <2>2, <3>1, <3>4
    <3> QED  BY <3>1, <3>5, <3>6 DEF Waited
  <2>7. CASE Leaves
    <3>1. CheckInt /\ at' = "clear"
      BY <2>7 DEF Leaves
    <3>2. \/ step = 6 /\ phase # "last" /\ Pos = HeadTime /\ Allowed <= 2 * Period
          \/ phase = "last" /\ Pos = HeadTime + cfg.between /\ Allowed = Period
      <4>1. \/ step = 6 /\ phase # "last"
            \/ step = 7 /\ phase = "last"
        BY <1>1, <2>1, <3>1, Position DEF CheckInt, Where
      <4> QED  BY <1>1, <4>1, HeadPos DEF Allowed
    <3>3. Allowed \in Nat
      BY <1>1 DEF Allowed
    <3>4. waiting' <= 2 * Period
      BY <1>1, <2>3, <2>4, <3>2, <3>3
    <3> QED  BY <2>2, <2>3, <3>1, <3>4 DEF Waited, Attending
  <2> QED  BY <2>1, <2>5, <2>6, <2>7
<1>3. CASE OutsideStep
  <2>1. CASE Clear
    BY <1>1, <2>1 DEF Clear, Waited, Attending
  <2>2. CASE ~Clear
    <3>1. TickWait
      BY <1>3, <2>2 DEF OutsideStep, IntLoop, Mode, Start, RawClock, RawTake, RawFinish,
                        InitRun, Load, Plain, Tick
    <3>2. waiting' \in 0 .. MaxCount /\ waiting' <= waiting + 1
      BY <1>1, <3>1, TickOne
    <3>3. CASE IntLoop
      <4>1. Period' = Period
        BY <3>3 DEF IntLoop, regs, Period
      <4> QED  BY <1>1, <3>2, <3>3, <4>1 DEF IntLoop, Waited, Attending
    <3>4. CASE Mode \/ Start \/ RawTake
      BY <1>1, <3>2, <3>4 DEF Mode, Start, RawTake, Waited, Attending
    <3>5. CASE RawClock \/ RawFinish
      BY <1>1, <3>2, <3>5 DEF RawClock, RawFinish, Waited, Attending
    <3>6. CASE \E r \in Requests : Load(r)
      BY <1>1, <3>2, <3>6 DEF Load, Waited, Attending
    <3>7. CASE InitRun
      <4>1. CASE at = "init_counter"
        BY <1>1, <3>2, <3>7, <4>1 DEF InitRun, Waited, Attending
      <4>2. CASE at = "init_ptr"
        <5>1. waiting' <= 5
          BY <1>1, <3>2, <4>2 DEF Waited, Attending
        <5>2. at' = "sample" /\ phase' = "loop" /\ step' = 1 /\ d' = "test_one" /\ cfg' = cfg
          <6>1. d = "test_one"
            BY <4>2 DEF Control, Counting, Delaying
          <6> QED  BY <1>1, <3>7, <4>2, <6>1 DEF InitRun, run, Where
        <5>3. Period' = Period /\ HeadTime' = HeadTime /\ Allowed' = 2 * Period /\ Pos' = 0
          <6>1. Period' = Period /\ HeadTime' = HeadTime
            BY <5>2 DEF Period, HeadTime
          <6>2. Allowed' = 2 * Period
            BY <5>2, <6>1 DEF Allowed
          <6>3. Elapsed' = 0 /\ Spent' = 0
            BY <5>2 DEF Elapsed, Spent, BetweenAt
          <6> QED  BY <6>1, <6>2, <6>3 DEF Pos
        <5> QED  BY <1>1, <3>2, <5>1, <5>2, <5>3 DEF Waited
      <4> QED  BY <3>7, <4>1, <4>2 DEF InitRun
    <3> QED  BY <1>3, <2>2, <3>3, <3>4, <3>5, <3>6, <3>7 DEF OutsideStep
  <2> QED  BY <2>1, <2>2
<1>4. CASE Doorbell \/ UNCHANGED vars
  <2>1. UNCHANGED <<at, phase, step, bank, d, t, cfg, waiting>>
    BY <1>4 DEF Doorbell, vars, run, regs
  <2>2. Period' = Period /\ HeadTime' = HeadTime
    BY <2>1 DEF Period, HeadTime
  <2>3. Pos' = Pos /\ Allowed' = Allowed /\ Attending' = Attending
    BY <2>1, <2>2 DEF Pos, Elapsed, Spent, Cost, BetweenAt, Allowed, Attending
  <2> QED  BY <2>1, <2>2, <2>3 DEF Waited
<1> QED  BY <1>2, <1>3, <1>4, StepSplit DEF Next

--------------------------------------------------------------------------------
(***************************************************************************)
(* The theorems.                                                           *)
(***************************************************************************)
SamplerInv == Control /\ Cycled /\ Clocked /\ Filling /\ Waited

THEOREM SamplerInvariant == Spec => []SamplerInv
<1>1. Init => SamplerInv
  BY ControlInit, CycledInit, ClockedInit, FillingInit, WaitedInit DEF SamplerInv
<1>2. SamplerInv /\ [Next]_vars => SamplerInv'
  BY ControlNext, CycledNext, ClockedNext, FillingNext, WaitedNext DEF SamplerInv
<1> QED  BY <1>1, <1>2, PTL DEF Spec

(* The variables keep their types: no register overruns the bytes of a     *)
(* block, and no delay wraps below zero.                                   *)
THEOREM TypeCorrect == Spec => []TypeOK
<1>1. SamplerInv /\ evt \in BOOLEAN => TypeOK
  <2> SUFFICES ASSUME SamplerInv, evt \in BOOLEAN PROVE TypeOK
    OBVIOUS
  <2>1. Control /\ Cycled /\ Clocked /\ Filling /\ Waited /\ Where
    BY DEF SamplerInv, Control
  <2>2. step \in 1 .. Len(Code)
    BY <2>1, CodeLength DEF Where
  <2>3. clk \in {0, 1}
    BY <2>1 DEF Clocked
  <2>4. at \in Outside \cup {"sample"} /\ d \in {"test_one", "sub_three", "test_zero", "sub_two", "loop"}
        /\ t \in 0 .. TempMod - 1
    BY <2>1 DEF Control, Where, Counting
  <2> QED
    BY <2>1, <2>2, <2>3, <2>4 DEF Where, Filling, Cycled, Waited, TypeOK, Outside, Phases
<1>2. Init => evt \in BOOLEAN
  BY DEF Init
<1>3. evt \in BOOLEAN /\ [Next]_vars => (evt \in BOOLEAN)'
  BY DEF Next, Step, IntLoop, Clear, Mode, Start, RawClock, RawTake, RawFinish, InitRun,
         Rise, Fall, Take, Delay, CheckInt, Registers, Branch, Tell, Load, Doorbell, Plain, vars
<1>4. Spec => [](evt \in BOOLEAN)
  BY <1>2, <1>3, PTL DEF Spec
<1> QED  BY <1>1, <1>4, SamplerInvariant, PTL

LEMMA RiseOnly ==
  ASSUME Where, Instr \in {"rise", "take", "fall", "xout"}
  PROVE  at = "sample"
BY OutsideInstr DEF Where, Outside

(* The sampling clock never stutters, whatever the length of a block, the  *)
(* number of banks and the three odd delays.                               *)
THEOREM ClockNeverStutters == Spec => []UniformPeriod
<1>1. SamplerInv => UniformPeriod
  <2> SUFFICES ASSUME SamplerInv, Instr = "rise" PROVE since \in {0, Period}
    BY DEF UniformPeriod
  <2>1. Where
    BY DEF SamplerInv, Control
  <2>2. at = "sample"
    BY <2>1, RiseOnly
  <2>3. step = 1
    BY <2>1, <2>2, Position DEF Where
  <2> QED  BY <2>2, <2>3 DEF SamplerInv, Cycled
<1> QED  BY <1>1, SamplerInvariant, PTL

(* The input is read, and the clock falls, a fixed time after it rises.    *)
THEOREM DelaysAreExact == Spec => []ExactEdges
<1>1. SamplerInv => ExactEdges
  <2> SUFFICES ASSUME SamplerInv PROVE ExactEdges
    OBVIOUS
  <2>1. Control /\ Where /\ Cycled /\ Elapsed \in Nat
    BY ElapsedType DEF SamplerInv, Control
  <2>2. ASSUME Instr = "take" PROVE since = cfg.before + 1
    <3>1. at = "sample" /\ step = 3
      BY <2>1, <2>2, RiseOnly, Position DEF Where
    <3>2. Spent = 0
      BY <2>1, <3>1, NoDelay DEF BetweenAt
    <3> QED  BY <2>1, <3>1, <3>2, ElapsedType DEF Cycled, Pos
  <2>3. ASSUME Instr = "fall" PROVE since = cfg.before + cfg.after + 2
    <3>1. at = "sample" /\ step = 5
      BY <2>1, <2>3, RiseOnly, Position DEF Where
    <3>2. Spent = 0
      BY <2>1, <3>1, NoDelay DEF BetweenAt
    <3> QED  BY <2>1, <3>1, <3>2, ElapsedType DEF Cycled, Pos
  <2> QED  BY <2>2, <2>3 DEF ExactEdges
<1> QED  BY <1>1, SamplerInvariant, PTL

(* Whatever a doorbell interrupts leaves the clock low.                    *)
THEOREM ClockLeftLow == Spec => []ClockLowOutside
<1>1. SamplerInv => ClockLowOutside
  BY DEF SamplerInv, Clocked, ClockLowOutside
<1> QED  BY <1>1, SamplerInvariant, PTL

(* A block that is transferred holds its own samples, each once, in order. *)
THEOREM BlocksAreComplete == Spec => []BlockComplete
<1>1. SamplerInv => BlockComplete
  <2> SUFFICES ASSUME SamplerInv, Instr = "xout" PROVE data = [b \in Bytes |-> b]
    BY DEF BlockComplete
  <2>1. Where /\ Filling
    BY DEF SamplerInv, Control
  <2>2. at = "sample"
    BY <2>1, RiseOnly
  <2>3. phase = "last" /\ step = XoutAt
    BY <2>1, <2>2, Position DEF Where
  <2>4. taken = Samples /\ Filled
    BY <2>1, <2>2, <2>3, SamplesType DEF Filling, InLast, XoutAt
  <2> QED  BY <2>4, SamplesType DEF Filled
<1> QED  BY <1>1, SamplerInvariant, PTL

(* A doorbell is noticed within two sampling periods, wherever it falls.   *)
THEOREM DoorbellIsNoticed == Spec => []BoundedLatency
<1>1. SamplerInv => BoundedLatency
  <2> SUFFICES ASSUME SamplerInv PROVE waiting <= 2 * Period
    BY DEF BoundedLatency
  <2>1. Control /\ Where /\ Waited /\ waiting \in Nat
    BY PeriodType DEF SamplerInv, Control, Waited
  <2>2. Period \in Nat /\ Period >= 9 /\ HeadTime \in Nat /\ Pos \in 0 .. Period - 1
    BY <2>1, PeriodType, HeadPos, PosType
  <2>3. CASE at = "sample"
    <3>1. waiting <= Pos + Allowed - HeadTime - 1
      BY <2>1, <2>3 DEF Waited
    <3>2. \/ Allowed <= Period /\ Allowed \in Nat
          \/ step <= 6 /\ phase = "loop" /\ Allowed = 2 * Period
      BY <2>2 DEF Allowed
    <3>3. step <= 6 /\ phase = "loop" => Pos <= HeadTime
      BY <2>1, <2>2, HeadPos DEF Where
    <3> QED  BY <2>1, <2>2, <3>1, <3>2, <3>3
  <2>4. CASE at # "sample"
    BY <2>1, <2>2, <2>4 DEF Waited, Attending
  <2> QED  BY <2>3, <2>4
<1> QED  BY <1>1, SamplerInvariant, PTL

--------------------------------------------------------------------------------
(***************************************************************************)
(* The instructions are the program of Pru1Program.  Most of them are a    *)
(* stutter; the doorbell checks and the end of a block are what can be     *)
(* seen of a sample, and Where says at which instruction they stand.       *)
(***************************************************************************)
LEMMA PlaceInside ==
  Where /\ at = "sample" =>
    /\ Place = IF phase = "last" /\ step = XoutAt THEN "xout"
               ELSE IF phase = "last" /\ step = XoutAt + 1 THEN "tell"
               ELSE IF (phase = "last" /\ step < XoutAt) \/ (phase = "second_last" /\ step > 6)
                    THEN "last" ELSE "sample"
    /\ RunBank = IF phase = "last" /\ step > XoutAt + 1 THEN 0 ELSE bank
<1> SUFFICES ASSUME Where, at = "sample"
             PROVE  /\ Place = IF phase = "last" /\ step = XoutAt THEN "xout"
                               ELSE IF phase = "last" /\ step = XoutAt + 1 THEN "tell"
                               ELSE IF \/ phase = "last" /\ step < XoutAt
                                       \/ phase = "second_last" /\ step > 6
                                    THEN "last" ELSE "sample"
                    /\ RunBank = IF phase = "last" /\ step > XoutAt + 1 THEN 0 ELSE bank
  OBVIOUS
<1>1. /\ phase \in Phases /\ step \in 1 .. 9 /\ XoutAt \in {7, 8}
      /\ XoutAt = 7 <=> ~(bank < NumBanks - 1)
  BY DEF Where, XoutAt
<1>2. Instr = "jump" <=> phase = "last" /\ step > XoutAt + 1
  <2>1. Instr \in {"branch", "jump"} <=>
          (phase = "loop" /\ step = 9) \/ (phase = "last" /\ step = 9 /\ XoutAt = 7)
    BY <1>1, Position
  <2>2. phase = "loop" => Code[9] = "branch"
    BY CodeLoop
  <2>3. phase = "last" /\ XoutAt = 7 => Code[9] = "jump"
    BY <1>1, CodeLast
  <2> QED  BY <1>1, <2>1, <2>2, <2>3 DEF Instr
<1>3. /\ Instr = "xout" <=> phase = "last" /\ step = XoutAt
      /\ Instr = "tell" <=> phase = "last" /\ step = XoutAt + 1
  BY <1>1, Position
<1>4. Place = IF Instr \in {"xout", "tell"} THEN Instr
              ELSE IF Instr # "jump" /\ (phase = "last" \/ (phase = "second_last" /\ step > 6))
                   THEN "last" ELSE "sample"
  BY DEF Place
<1> QED  BY <1>1, <1>2, <1>3, <1>4 DEF RunBank, Phases

(* Outside a run the bank is the first. *)
LEMMA PlaceOutside ==
  Where /\ at \in Outside => RunBank = 0
BY OutsideInstr DEF RunBank, Where, Outside

(* An instruction that checks is a CheckInt, and nothing else touches the  *)
(* doorbell.                                                               *)
LEMMA Checking ==
  SampleStep => evt' = evt /\ (Instr = "check" => CheckInt)
BY DEF SampleStep, Rise, Fall, Take, Delay, CheckInt, Registers, Branch, Tell, Plain

LEMMA NextBankOf ==
  ASSUME NEW b \in 0 .. NumBanks - 1
  PROVE  (b + 1) % NumBanks = IF b = NumBanks - 1 THEN 0 ELSE b + 1
<1>1. NumBanks \in Nat \ {0} /\ b \in Nat
  BY BankType
<1>2. CASE b = NumBanks - 1
  <2>1. b + 1 = NumBanks
    BY <1>1, <1>2
  <2>2. NumBanks % NumBanks = 0
    BY <1>1
  <2> QED  BY <1>2, <2>1, <2>2
<1>3. CASE b # NumBanks - 1
  <2> DEFINE c == b + 1
  <2>1. c \in 0 .. NumBanks - 1
    BY <1>1, <1>3
  <2> HIDE DEF c
  <2>2. c % NumBanks = c
    BY <1>1, <2>1
  <2> QED  BY <1>3, <2>2 DEF c
<1> QED  BY <1>2, <1>3

LEMMA ProgramInside ==
  ASSUME Control, Control', SampleStep
  PROVE  Program!Next \/ UNCHANGED Program!vars
<1> DEFINE P(ph, st, x) == IF ph = "last" /\ st = x THEN "xout"
                          ELSE IF ph = "last" /\ st = x + 1 THEN "tell"
                          ELSE IF (ph = "last" /\ st < x) \/ (ph = "second_last" /\ st > 6)
                               THEN "last" ELSE "sample"
<1>1. /\ at = "sample" /\ Where /\ Where' /\ evt' = evt /\ Request' = Request
      /\ phase \in Phases /\ step \in 1 .. 9 /\ bank \in 0 .. NumBanks - 1
  BY Sampling, Checking DEF Control, Where, Request
<1>2. /\ Place = P(phase, step, XoutAt)
      /\ RunBank = IF phase = "last" /\ step > XoutAt + 1 THEN 0 ELSE bank
  BY <1>1, PlaceInside
<1>3. at' = "sample" => /\ Place' = P(phase', step', XoutAt')
                        /\ RunBank' = IF phase' = "last" /\ step' > XoutAt' + 1 THEN 0 ELSE bank'
  <2>1. (Where /\ at = "sample" =>
           /\ Place = P(phase, step, XoutAt)
           /\ RunBank = IF phase = "last" /\ step > XoutAt + 1 THEN 0 ELSE bank)'
    BY PlaceInside, PTL
  <2> QED  BY <1>1, <2>1
<1>4. /\ XoutAt \in {7, 8} /\ (XoutAt = 7 <=> bank = NumBanks - 1)
      /\ XoutAt' = IF bank' < NumBanks - 1 THEN 8 ELSE 7
  BY <1>1, BankType DEF XoutAt
<1> USE DEF Program!vars, Program!LastBank
<1>5. CASE MovesOn
  <2>1. at' = "sample"
    BY <1>1, <1>5 DEF MovesOn
  <2>2. CASE phase = "loop"
    <3>1. phase' \in {"loop", "second_last"} /\ (phase' = "second_last" => step' = 1) /\ bank' = bank
      BY <1>1, <1>5, <2>2 DEF MovesOn, NextPhase
    <3>2. Place = "sample" /\ RunBank = bank
      BY <1>2, <2>2
    <3>3. Place' = "sample" /\ RunBank' = bank'
      BY <1>3, <2>1, <3>1
    <3> QED  BY <1>1, <3>1, <3>2, <3>3
  <2>3. CASE phase = "second_last" /\ step # 6
    <3>1. /\ bank' = bank
          /\ \/ phase' = "second_last" /\ (step' > 6 <=> step > 6)
             \/ phase' = "last" /\ step' = 1 /\ step > 6
      BY <1>1, <1>5, <2>3 DEF MovesOn, NextPhase
    <3>2. XoutAt' = XoutAt
      BY <3>1 DEF XoutAt
    <3> QED  BY <1>1, <1>2, <1>3, <1>4, <2>1, <2>3, <3>1, <3>2
  <2>4. ASSUME Instr = "check" PROVE ~evt
    <3>1. CheckInt
      BY <2>4, Checking
    <3> QED  BY <1>1, <2>1, <3>1 DEF CheckInt
  <2>5. CASE phase = "second_last" /\ step = 6
    <3>1. phase' = phase /\ step' = 7 /\ bank' = bank
      BY <1>1, <1>5, <2>5 DEF MovesOn
    <3>2. ~evt
      BY <1>1, <2>4, <2>5, Position
    <3>3. Place = "sample" /\ Place' = "last" /\ RunBank' = RunBank
      BY <1>2, <1>3, <2>1, <2>5, <3>1
    <3> QED  BY <1>1, <3>2, <3>3 DEF Program!Next, Program!Block
  <2>6. CASE phase = "last" /\ step < 9
    <3>1. phase' = phase /\ step' = step + 1 /\ bank' = bank /\ XoutAt' = XoutAt
      BY <1>1, <1>5, <2>6 DEF MovesOn, XoutAt
    <3>2. CASE step < XoutAt - 1
      BY <1>1, <1>2, <1>3, <1>4, <2>1, <2>6, <3>1, <3>2
    <3>3. CASE step = XoutAt - 1
      <4>1. Place = "last" /\ Place' = "xout" /\ RunBank = bank /\ RunBank' = bank
        BY <1>1, <1>2, <1>3, <1>4, <2>1, <2>6, <3>1, <3>3
      <4>2. bank # NumBanks - 1 => ~evt
        <5>1. bank # NumBanks - 1 => bank < NumBanks - 1 /\ step = 7
          BY <1>1, <1>4, <3>3, BankType
        <5> QED  BY <1>1, <2>4, <2>6, <5>1, Position
      <4> QED  BY <1>1, <4>1, <4>2 DEF Program!Next, Program!Block
    <3>4. CASE step = XoutAt
      <4>1. Place = "xout" /\ Place' = "tell" /\ RunBank = bank /\ RunBank' = bank
        BY <1>1, <1>2, <1>3, <1>4, <2>1, <2>6, <3>1, <3>4
      <4> QED  BY <1>1, <4>1 DEF Program!Next, Program!Block
    <3>5. CASE step > XoutAt
      <4>1. XoutAt = 7 /\ step = 8 /\ bank = NumBanks - 1
        BY <1>1, <1>4, <2>6, <3>5
      <4>2. Place = "tell" /\ Place' = "sample" /\ RunBank = NumBanks - 1 /\ RunBank' = 0
        BY <1>2, <1>3, <2>1, <2>6, <3>1, <4>1
      <4> QED  BY <1>1, <4>2 DEF Program!Next, Program!Tell
    <3> QED  BY <1>1, <1>4, <3>2, <3>3, <3>4, <3>5
  <2>7. CASE phase = "last" /\ step = 9
    <3>1. phase' = "loop" /\ step' = 1 /\ bank' = IF bank = NumBanks - 1 THEN 0 ELSE bank + 1
      BY <1>1, <1>5, <2>7, NextBankOf DEF MovesOn, NextPhase
    <3>2. Place' = "sample" /\ RunBank' = bank'
      BY <1>3, <2>1, <3>1
    <3>3. CASE bank = NumBanks - 1
      <4>1. Place = "sample" /\ RunBank = 0
        BY <1>2, <1>4, <2>7, <3>3
      <4> QED  BY <1>1, <3>1, <3>2, <3>3, <4>1
    <3>4. CASE bank # NumBanks - 1
      <4>1. Place = "tell" /\ RunBank = bank
        BY <1>2, <1>4, <2>7, <3>4
      <4> QED  BY <1>1, <3>1, <3>2, <3>4, <4>1 DEF Program!Next, Program!Tell
    <3> QED  BY <3>3, <3>4
  <2> QED  BY <1>1, <2>2, <2>3, <2>5, <2>6, <2>7 DEF Phases
<1>6. CASE Lingers
  <2>1. at' = "sample" /\ step' = step /\ phase' = phase /\ bank' = bank /\ XoutAt' = XoutAt
    BY <1>1, <1>6 DEF Lingers, XoutAt
  <2> QED  BY <1>1, <1>2, <1>3, <2>1
<1>7. CASE Leaves
  <2>1. Place' = "manage" /\ RunBank' = 0
    <3>1. Where' /\ at' = "clear" /\ bank' = 0
      BY <1>1, <1>7 DEF Leaves
    <3> QED  BY <3>1 DEF Place, RunBank, Instr
  <2>2. \/ phase # "last" /\ step = 6
        \/ phase = "last" /\ bank < NumBanks - 1 /\ step = 7
    BY <1>1, <1>7, Position DEF Leaves, CheckInt
  <2>3. \/ Place = "sample"
        \/ Place = "last" /\ RunBank # NumBanks - 1
    BY <1>1, <1>2, <1>4, <2>2, BankType
  <2> QED  BY <1>1, <1>7, <2>1, <2>3 DEF Leaves, Program!Next, Program!Notice, Program!Looks
<1> QED  BY <1>5, <1>6, <1>7, Sampling

(* The start bit is looked at in block mode only. *)
Chosen == at = "start" => cfg.mode = "block"

LEMMA ChosenNext == Control /\ Chosen /\ [Next]_vars => Chosen'
<1> SUFFICES ASSUME Control, Chosen, [Next]_vars PROVE Chosen'
  OBVIOUS
<1>1. CASE SampleStep
  <2>1. at' \in {"sample", "clear"}
    BY <1>1, Sampling DEF MovesOn, Lingers, Leaves
  <2> QED  BY <2>1 DEF Chosen
<1>2. CASE OutsideStep
  <2>1. CASE Mode
    BY <2>1 DEF Mode, Chosen, regs
  <2>2. CASE RawFinish
    <3>1. at' # "start"
      BY <2>2 DEF RawFinish
    <3> QED  BY <3>1 DEF Chosen
  <2>3. ASSUME OutsideStep, ~Mode, ~RawFinish PROVE at' # "start"
    BY <2>3 DEF OutsideStep, IntLoop, Clear, Start, RawClock, RawTake, InitRun, Load
  <2> QED  BY <1>2, <2>1, <2>2, <2>3 DEF Chosen
<1>3. CASE Doorbell \/ UNCHANGED vars
  BY <1>3 DEF Doorbell, vars, regs, Chosen
<1> QED  BY <1>1, <1>2, <1>3, StepSplit DEF Next

(* A Load goes where its request says, however many branches it takes.     *)
LEMMA ProgramOutside ==
  ASSUME Control, Control', Chosen, OutsideStep
  PROVE  Program!Next \/ UNCHANGED Program!vars
<1>1. /\ at \in Outside /\ bank = 0 /\ phase = "loop" /\ step = 1 /\ run' = run
      /\ cfg \in Requests /\ cfg' \in Requests /\ Where /\ Where'
  <2>1. at # "sample" /\ run' = run
    BY DEF OutsideStep, IntLoop, Clear, Mode, Start, RawClock, RawTake, RawFinish, InitRun, Load
  <2> QED  BY <2>1 DEF Control, Where
<1>2. RunBank = 0 /\ RunBank' = 0
  <2>1. RunBank = 0
    BY <1>1, PlaceOutside
  <2>2. (Where /\ at \in Outside => RunBank = 0)'
    BY PlaceOutside, PTL
  <2>3. (Where /\ at = "sample" =>
           RunBank = IF phase = "last" /\ step > XoutAt + 1 THEN 0 ELSE bank)'
    BY PlaceInside, PTL
  <2>4. CASE at' = "sample"
    BY <1>1, <2>1, <2>3, <2>4 DEF run
  <2>5. CASE at' \in Outside
    BY <1>1, <2>1, <2>2, <2>5
  <2> QED  BY <1>1, <2>4, <2>5 DEF Where
<1>3. at' = "sample" => Place' = "sample"
  <2>1. (Where /\ at = "sample" =>
           Place = IF phase = "last" /\ step = XoutAt THEN "xout"
                   ELSE IF phase = "last" /\ step = XoutAt + 1 THEN "tell"
                   ELSE IF (phase = "last" /\ step < XoutAt) \/ (phase = "second_last" /\ step > 6)
                        THEN "last" ELSE "sample")'
    BY PlaceInside, PTL
  <2> QED  BY <1>1, <2>1 DEF run
<1> USE DEF Program!vars
<1>4. CASE IntLoop
  <2>1. Place = "int_loop" /\ Place' = "manage" /\ evt /\ evt' = evt /\ Request' = Request
    BY <1>4 DEF IntLoop, Place, Plain, Request, regs
  <2> QED  BY <1>2, <2>1 DEF Program!Next, Program!Notice, Program!Looks
<1>5. CASE Clear
  <2>1. Place = "manage" /\ Place' = "load" /\ evt' = FALSE /\ Request' = Request
    BY <1>5 DEF Clear, Place, Request, regs
  <2> QED  BY <1>2, <2>1 DEF Program!Next, Program!Clear
<1>6. ASSUME NEW r \in Requests, Load(r) PROVE Program!Next
  <2>1. Place = "load" /\ Place' = Dispatched' /\ evt' = evt
    BY <1>6 DEF Load, Place, Plain
  <2>2. Request' \in Program!Requests
    BY <1>1 DEF Request, Requests, Program!Requests
  <2>3. Dispatched' = Program!Dispatch(Request')
    BY DEF Dispatched, Program!Dispatch, Request
  <2> QED  BY <1>2, <2>1, <2>2, <2>3 DEF Program!Next, Program!Load
<1>7. CASE Mode
  <2>1. cfg.mode \in {"raw", "block"}
    BY <1>1 DEF Requests
  <2>2. Place' = Place
    BY <1>7, <2>1 DEF Mode, Place, Dispatched, regs
  <2> QED  BY <1>2, <1>7, <2>2 DEF Mode, Plain, Request, regs
<1>8. CASE Start
  <2>1. evt' = evt /\ Request' = Request
    BY <1>8 DEF Start, Plain, Request, regs
  <2>2. /\ at = "start" /\ at' = (IF cfg.start THEN "init_counter" ELSE "int_loop")
        /\ cfg.mode = "block"
    BY <1>8 DEF Start, Chosen
  <2> QED  BY <1>2, <2>1, <2>2 DEF Place, Dispatched
<1>9. CASE RawClock \/ RawTake
  <2>1. Place = "raw" /\ Place' = "raw" /\ evt' = evt /\ Request' = Request
    BY <1>9 DEF RawClock, RawTake, Plain, Place, Request, regs
  <2> QED  BY <1>2, <2>1
<1>10. CASE RawFinish
  <2>1. /\ evt' = evt /\ Request' = Request
        /\ \/ Place = "raw" /\ Place' = "raw_tell"
           \/ Place = "raw_tell" /\ Place' = "int_loop"
           \/ Place = "int_loop" /\ Place' = "int_loop"
    BY <1>10 DEF RawFinish, Plain, Place, Request, regs
  <2> QED  BY <1>2, <2>1 DEF Program!Next, Program!Raw
<1>11. CASE InitRun
  <2>1. Place = "sample" /\ Place' = "sample" /\ evt' = evt /\ Request' = Request
    BY <1>3, <1>11 DEF InitRun, Plain, Place, Request
  <2> QED  BY <1>2, <2>1
<1> QED  BY <1>4, <1>5, <1>6, <1>7, <1>8, <1>9, <1>10, <1>11 DEF OutsideStep

(* PRU1, instruction by instruction, is the program whose blocks are one   *)
(* step each: the three copies of the sampling code check for a doorbell   *)
(* where that program does, and its banks follow one another the same way. *)
THEOREM InstructionsImplementProgram == Spec => RunsProgram
<1>1. Init => Program!Init
  BY DEF Init, Program!Init, Place, RunBank, Request, Instr
<1>2. Control /\ Control' /\ Chosen /\ [Next]_vars => [Program!Next]_(Program!vars)
  <2> SUFFICES ASSUME Control, Control', Chosen, [Next]_vars
               PROVE  Program!Next \/ UNCHANGED Program!vars
    OBVIOUS
  <2>1. CASE Step
    BY <2>1, ProgramInside, ProgramOutside, StepSplit
  <2>2. CASE Doorbell
    <3>1. Place' = Place /\ RunBank' = RunBank /\ Request' = Request /\ evt' = TRUE
      <4>1. Instr' = Instr
        BY <2>2 DEF Doorbell, Instr, Code, SampleTail, run
      <4> QED  BY <2>2, <4>1 DEF Doorbell, Place, Dispatched, RunBank, Request, run, regs
    <3> QED  BY <3>1 DEF Program!Next, Program!Ring
  <2>3. CASE UNCHANGED vars
    <3>1. Instr' = Instr
      BY <2>3 DEF vars, Instr, Code, SampleTail, run
    <3> QED
      BY <2>3, <3>1 DEF vars, Place, Dispatched, RunBank, Request, run, regs, Program!vars
  <2> QED  BY <2>1, <2>2, <2>3 DEF Next
<1>3. Init => Chosen
  BY DEF Init, Chosen
<1>4. Spec => [](Control /\ Chosen)
  BY <1>3, ControlInit, ControlNext, ChosenNext, PTL DEF Spec
<1> QED  BY <1>1, <1>2, <1>4, PTL DEF Spec, RunsProgram, Program!Spec

================================================================================
