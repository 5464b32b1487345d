------------------------------- MODULE PruSampler ------------------------------
(***************************************************************************)
(* PRU1, instruction by instruction: firmware/main_pru1_def.asm.           *)
(*                                                                         *)
(* Every step is one instruction and takes one cycle; the instructions of  *)
(* MANAGE_INTERRUPT, whose cost nothing depends on, are joined in two.     *)
(* PruFirmware has the same program with a block as one step (Pru1Program, *)
(* which both implement); here are the clock pin, the delays and the       *)
(* register file that a block is built in.                                 *)
(***************************************************************************)
EXTENDS Naturals, Sequences

CONSTANTS
  Samples,   \* samples of a block: 44
  NumBanks,  \* copies of the sampling code, one per bank: 3
  Delays,    \* values of the three delay words of a configuration
  TempMod,   \* 2^32: TEMP_VARIABLE_0
  MaxCount   \* bound: cycles the history variables count

ASSUME SamplerAssumption ==
  /\ Samples \in Nat /\ Samples >= 4
  /\ NumBanks \in Nat \ {0}
  /\ TempMod \in Nat /\ TempMod % 2 = 0
  /\ MaxCount \in Nat
  /\ Delays \subseteq {c \in 1 .. TempMod - 1 : c % 2 = 1}
  /\ \A b, a, w \in Delays : b + a + w + 6 <= MaxCount

Requests == [before : Delays, after : Delays, between : Delays,
             mode : {"raw", "block"}, start : BOOLEAN]

VARIABLES
  at,        \* the part of the program, "sample" inside SAMPLE_CYCLE_8
  phase,     \* "loop", or one of the two samples taken after it
  step,      \* the instruction of the current sample
  bank,      \* which copy of the code: SP_BANK_0 ..
  d, t,      \* the instruction of THE_DELAY and TEMP_VARIABLE_0
  cfg,       \* SAMPLING_CONFIG_0 .. 2
  counter,   \* COUNTER_REG
  ptr,       \* MVI_POINTER, as an offset from DATA_START_REGISTER
  clk,       \* CLK_PIN of R30
  evt,       \* INT_P0_to_P1 is pending
  data,      \* history: which sample of this block or raw read each byte is, 0: older
  taken,     \* history: samples taken of this block
  since,     \* history: cycles since the last rising edge of this run, 0: none yet
  waiting    \* history: cycles the doorbell has been pending

run  == <<phase, step, bank, d, t>>
regs == <<cfg, counter, ptr, clk>>
vars == <<at, run, regs, evt, data, taken, since, waiting>>

Bytes == 1 .. Samples

(* INIT, and the wait for the first doorbell. *)
Init ==
  /\ at = "int_loop"
  /\ phase = "loop" /\ step = 1 /\ bank = 0 /\ d = "test_one" /\ t = 0
  /\ cfg \in [before : Delays, after : Delays, between : Delays,
              mode : {"raw"}, start : {FALSE}]
  /\ counter = 0 /\ ptr = 0 /\ clk = 0 /\ evt = FALSE
  /\ data = [b \in Bytes |-> 0] /\ taken = 0 /\ since = 0 /\ waiting = 0

--------------------------------------------------------------------------------
(***************************************************************************)
(* The code of one sample.  All three kinds are nine instructions long,    *)
(* counting a delay as one.                                                *)
(***************************************************************************)
SampleHead == <<"rise", "before", "take", "after", "fall">>

(* Mutant: the interrupt is only looked for between blocks. *)
SampleTailNoCheck(p, b) ==
  CASE p = "loop"        -> <<"branch", "between", "count", "branch">>
    [] p = "second_last" -> <<"branch", "reset_counter", "reset_ptr", "between">>
    [] p = "last" /\ b < NumBanks - 1 -> <<"between", "check", "xout", "tell">>
    [] OTHER             -> <<"between", "xout", "tell", "jump">>

(* Mutant: the last bank's code also checks, before it jumps. *)
SampleTailLong(p, b) ==
  CASE p = "loop"        -> <<"check", "between", "count", "branch">>
    [] p = "second_last" -> <<"check", "reset_counter", "reset_ptr", "between">>
    [] p = "last" /\ b < NumBanks - 1 -> <<"between", "check", "xout", "tell">>
    [] OTHER             -> <<"between", "check", "xout", "tell", "jump">>

SampleTail(p, b) ==
  CASE p = "loop"        -> <<"check", "between", "count", "branch">>
    [] p = "second_last" -> <<"check", "reset_counter", "reset_ptr", "between">>
    [] p = "last" /\ b < NumBanks - 1 -> <<"between", "check", "xout", "tell">>
    [] OTHER             -> <<"between", "xout", "tell", "jump">>

(* Mutant: the interrupt check comes before the clock is pulled low. *)
CodeCheckHigh ==
  LET c == SampleHead \o SampleTail(phase, bank)
  IN  IF phase = "last" THEN c ELSE [c EXCEPT ![5] = "check", ![6] = "fall"]

Code  == SampleHead \o SampleTail(phase, bank)
Instr == IF at = "sample" THEN Code[step] ELSE at

(* The sample that follows, when this one is complete. *)
NextPhase == CASE phase = "loop" -> IF counter # Samples - 2 THEN "loop" ELSE "second_last"
               [] phase = "second_last" -> "last"
               [] phase = "last" -> "loop"

Advance ==
  IF step < Len(Code)
  THEN step' = step + 1 /\ UNCHANGED <<at, phase, bank>>
  ELSE /\ step' = 1 /\ phase' = NextPhase /\ UNCHANGED at
       /\ bank' = IF phase = "last" THEN (bank + 1) % NumBanks ELSE bank

--------------------------------------------------------------------------------
(* What every instruction does to the counts of cycles. *)
More(n)  == IF n < MaxCount THEN n + 1 ELSE n
TickWait == waiting' = IF evt THEN More(waiting) ELSE 0
Tick     == since' = (IF since = 0 THEN 0 ELSE More(since)) /\ TickWait
Plain    == Tick /\ UNCHANGED <<evt, data, taken>>

(* CHECK_INT_LOOP. *)
IntLoop ==
  /\ at = "int_loop" /\ evt
  /\ at' = "clear"
  /\ Plain /\ UNCHANGED <<run, regs>>

(* MANAGE_INTERRUPT: clear the doorbell, then load the words that are in   *)
(* the shared RAM by now, whatever they are.  From here on what the bytes  *)
(* hold is older than the request.                                         *)
Clear ==
  /\ at = "clear"
  /\ at' = "load"
  /\ evt' = FALSE /\ waiting' = 0
  /\ data' = [b \in Bytes |-> 0] /\ taken' = 0 /\ since' = 0
  /\ UNCHANGED <<run, regs>>

Load(r) ==
  /\ at = "load"
  /\ cfg' = r
  /\ at' = "mode"
  /\ Plain /\ UNCHANGED <<run, counter, ptr, clk>>

(* QBEQ sample_start, READ_MODE, BLOCK_READ. *)
Mode ==
  /\ at = "mode"
  /\ at' = IF cfg.mode = "block" THEN "start" ELSE "raw_rise"
  /\ Plain /\ UNCHANGED <<run, regs>>

(* QBBC int_loop, SAMPLING_START_BIT. *)
Start ==
  /\ at = "start"
  /\ at' = IF cfg.start THEN "init_counter" ELSE "int_loop"
  /\ Plain /\ UNCHANGED <<run, regs>>

(* take_raw: TAKE_SAMPLE_8 toggles the clock around one MOV into BYTE_1. *)
RawClock ==
  /\ at \in {"raw_rise", "raw_fall"}
  /\ clk' = 1 - clk
  /\ at' = IF at = "raw_rise" THEN "raw_take" ELSE "raw_xout"
  /\ Plain /\ UNCHANGED <<run, cfg, counter, ptr>>

RawTake ==
  /\ at = "raw_take"
  /\ data' = [data EXCEPT ![1] = 1]
  /\ at' = "raw_fall"
  /\ Tick /\ UNCHANGED <<run, regs, evt, taken>>

(* TRANSFER_AND_TELL and the jump back. *)
RawFinish ==
  /\ at \in {"raw_xout", "raw_tell", "raw_jump"}
  /\ at' = CASE at = "raw_xout" -> "raw_tell"
             [] at = "raw_tell" -> "raw_jump"
             [] at = "raw_jump" -> "int_loop"
  /\ Plain /\ UNCHANGED <<run, regs>>

(* Mutant: a run starts with the pointer where the last one left it. *)
InitRunKeepsPointer ==
  \/ /\ at = "init_counter"
     /\ counter' = 0 /\ at' = "init_ptr"
     /\ Plain /\ UNCHANGED <<run, cfg, ptr, clk>>
  \/ /\ at = "init_ptr"
     /\ at' = "sample"
     /\ Plain /\ UNCHANGED <<run, cfg, counter, ptr, clk>>

(* The initialisation of SAMPLE_CYCLE_8. *)
InitRun ==
  \/ /\ at = "init_counter"
     /\ counter' = 0 /\ at' = "init_ptr"
     /\ Plain /\ UNCHANGED <<run, cfg, ptr, clk>>
  \/ /\ at = "init_ptr"
     /\ ptr' = 0 /\ at' = "sample"
     /\ Plain /\ UNCHANGED <<run, cfg, counter, clk>>

(* CLK_TOGGLE at the start of a sample ... *)
Rise ==
  /\ Instr = "rise"
  /\ clk' = 1 - clk
  /\ since' = 1
  /\ TickWait /\ Advance
  /\ UNCHANGED <<d, t, cfg, counter, ptr, evt, data, taken>>

(* ... and after it. *)
Fall ==
  /\ Instr = "fall"
  /\ clk' = 1 - clk
  /\ Advance /\ Plain /\ UNCHANGED <<d, t, cfg, counter, ptr>>

(* MVIB *MVI_POINTER++ in the loop, MOV BYTE_43 and BYTE_44 after it. *)
Take ==
  /\ Instr = "take"
  /\ LET byte == CASE phase = "loop" -> ptr + 1
                   [] phase = "second_last" -> Samples - 1
                   [] phase = "last" -> Samples
     IN  data' = [b \in Bytes |-> IF b = byte THEN taken + 1 ELSE data[b]]
  /\ ptr' = IF phase = "loop" THEN ptr + 1 ELSE ptr
  /\ taken' = taken + 1
  /\ Advance /\ Tick /\ UNCHANGED <<d, t, cfg, counter, clk, evt>>

(* The register a delay counts. *)
Cycles == cfg[Instr]

(* Where THE_DELAY goes from each of its five instructions, "done" when it *)
(* is complete.                                                            *)
DelayNext == CASE d = "test_one"  -> IF Cycles = 1 THEN "done" ELSE "sub_three"
               [] d = "sub_three" -> "test_zero"
               [] d = "test_zero" -> IF t = 0 THEN "done" ELSE "sub_two"
               [] d = "sub_two"   -> "loop"
               [] d = "loop"      -> IF t = 0 THEN "done" ELSE "sub_two"

(* Mutant: the delay of one cycle is not a special case. *)
DelayNoOne ==
  /\ Instr \in {"before", "after", "between"}
  /\ t' = CASE d \in {"test_one", "sub_three"} -> (Cycles + TempMod - 3) % TempMod
            [] d = "sub_two" -> (t + TempMod - 2) % TempMod
            [] OTHER -> t
  /\ LET n == IF d = "test_one" THEN "sub_three" ELSE DelayNext
     IN  IF n = "done"
         THEN d' = "test_one" /\ Advance
         ELSE d' = n /\ UNCHANGED <<at, phase, step, bank>>
  /\ Plain /\ UNCHANGED regs

(* Mutant: the macro forgets that it has used three cycles, not two. *)
DelaySubTwo ==
  /\ Instr \in {"before", "after", "between"}
  /\ t' = CASE d \in {"sub_three", "sub_two"} ->
                 ((IF d = "sub_two" THEN t ELSE Cycles) + TempMod - 2) % TempMod
            [] OTHER -> t
  /\ IF DelayNext = "done"
     THEN d' = "test_one" /\ Advance
     ELSE d' = DelayNext /\ UNCHANGED <<at, phase, step, bank>>
  /\ Plain /\ UNCHANGED regs

(* THE_DELAY, one instruction of it. *)
Delay ==
  /\ Instr \in {"before", "after", "between"}
  /\ t' = CASE d = "sub_three" -> (Cycles + TempMod - 3) % TempMod
            [] d = "sub_two" -> (t + TempMod - 2) % TempMod
            [] OTHER -> t
  /\ IF DelayNext = "done"
     THEN d' = "test_one" /\ Advance
     ELSE d' = DelayNext /\ UNCHANGED <<at, phase, step, bank>>
  /\ Plain /\ UNCHANGED regs

(* CHECK_INT.  What phase, step and bank stand for ends with the run. *)
CheckInt ==
  /\ Instr = "check"
  /\ IF evt
     THEN at' = "clear" /\ phase' = "loop" /\ step' = 1 /\ bank' = 0
     ELSE Advance
  /\ Plain /\ UNCHANGED <<d, t, regs>>

(* ADD COUNTER_REG, and LDI COUNTER_REG and MVI_POINTER, 0. *)
Registers ==
  /\ \/ Instr = "count" /\ counter' = counter + 1 /\ UNCHANGED ptr
     \/ Instr = "reset_counter" /\ counter' = 0 /\ UNCHANGED ptr
     \/ Instr = "reset_ptr" /\ ptr' = 0 /\ UNCHANGED counter
  /\ Advance /\ Plain /\ UNCHANGED <<d, t, cfg, clk>>

(* QBNE and JMP; XOUT; the LDI to R31 that rings PRU0.  With the doorbell  *)
(* the block is delivered and the next one begins.                         *)
Branch ==
  /\ Instr \in {"branch", "jump", "xout"}
  /\ Advance /\ Plain /\ UNCHANGED <<d, t, regs>>

Tell ==
  /\ Instr = "tell"
  /\ data' = [b \in Bytes |-> 0] /\ taken' = 0
  /\ Advance /\ Tick /\ UNCHANGED <<d, t, regs, evt>>

(* PRU0 rings, at any time. *)
Doorbell ==
  /\ ~evt
  /\ evt' = TRUE
  /\ UNCHANGED <<at, run, regs, data, taken, since, waiting>>

Step == \/ IntLoop \/ Clear \/ Mode \/ Start \/ RawClock \/ RawTake \/ RawFinish
        \/ InitRun \/ Rise \/ Fall \/ Take \/ Delay \/ CheckInt \/ Registers
        \/ Branch \/ Tell
        \/ \E r \in Requests : Load(r)

Next == Step \/ Doorbell
Spec == Init /\ [][Next]_vars
FairSpec == Spec /\ WF_vars(Step)

--------------------------------------------------------------------------------
(***************************************************************************)
(* Properties.                                                             *)
(***************************************************************************)
Period == cfg.before + cfg.after + cfg.between + 6

(* The type invariant. *)
TypeOK ==
  /\ at \in {"int_loop", "clear", "load", "mode", "start", "raw_rise", "raw_take",
             "raw_fall", "raw_xout", "raw_tell", "raw_jump", "init_counter",
             "init_ptr", "sample"}
  /\ phase \in {"loop", "second_last", "last"} /\ step \in 1 .. Len(Code)
  /\ bank \in 0 .. NumBanks - 1
  /\ d \in {"test_one", "sub_three", "test_zero", "sub_two", "loop"}
  /\ t \in 0 .. TempMod - 1 /\ cfg \in Requests
  /\ counter \in 0 .. Samples - 2 /\ ptr \in 0 .. Samples - 2
  /\ clk \in {0, 1} /\ evt \in BOOLEAN
  /\ data \in [Bytes -> 0 .. Samples] /\ taken \in 0 .. Samples
  /\ since \in 0 .. MaxCount /\ waiting \in 0 .. MaxCount

(* The sampling clock never stutters: from one rising edge of a run to the *)
(* next it is always the same number of cycles, inside the loop, across    *)
(* the two samples after it, from bank to bank and across the jump back.   *)
UniformPeriod == Instr = "rise" => since \in {0, Period}

(* Input is read a fixed time after the rising edge, and the clock is high *)
(* a fixed time: the delays are exact for every odd word.                  *)
ExactEdges == /\ Instr = "take" => since = cfg.before + 1
              /\ Instr = "fall" => since = cfg.before + cfg.after + 2

(* Whenever PRU1 waits or attends to a doorbell the clock is low, so that  *)
(* the toggles of the next sample are a rising and then a falling edge.    *)
ClockLowOutside == at \notin {"sample", "raw_take", "raw_fall"} => clk = 0

(* A block holds its samples in order, each once, none of them older, also *)
(* after a run that was interrupted in the middle of a block.              *)
BlockComplete == Instr = "xout" => data = [b \in Bytes |-> b]

(* A doorbell is noticed within two sampling periods, although the last    *)
(* sample for the last bank does not look for it.                          *)
BoundedLatency == waiting <= 2 * Period

(* The instruction that is next, as a place in Pru1Program.  Behind a Load *)
(* it is decided where the branches go; from the check in the second last  *)
(* sample on the block is due; and the jump back belongs to the next one.  *)
Dispatched == IF cfg.mode = "raw" THEN "raw" ELSE IF cfg.start THEN "sample" ELSE "int_loop"

Place ==
  CASE at \in {"int_loop", "raw_jump"} -> "int_loop"
    [] at = "clear" -> "manage"
    [] at \in {"load", "raw_tell"} -> at
    [] at \in {"mode", "start"} -> Dispatched
    [] at \in {"raw_rise", "raw_take", "raw_fall", "raw_xout"} -> "raw"
    [] at \in {"init_counter", "init_ptr"} -> "sample"
    [] at = "sample" ->
         IF Instr \in {"xout", "tell"} THEN Instr
         ELSE IF Instr # "jump" /\ (phase = "last" \/ (phase = "second_last" /\ step > 6))
              THEN "last" ELSE "sample"

RunBank == IF Instr = "jump" THEN 0 ELSE bank
Request == [mode |-> cfg.mode, start |-> cfg.start]
Program == INSTANCE Pru1Program WITH pc <- Place, bank <- RunBank, request <- Request

(* The unrolled copies of the sampling code, each with its own checks for  *)
(* the doorbell, are the program PruFirmware composes with PRU0.           *)
RunsProgram == Program!Spec

(* A run that no doorbell interrupts delivers block after block.           *)
KeepsDelivering == []<>(evt \/ at = "int_loop" \/ Instr = "xout")

(* The period the documentation gives (firmware/README.md:44), which the   *)
(* kernel driver computes with.                                            *)
DocumentedPeriod ==
  Instr = "rise" => since \in {0, cfg.before + cfg.after + cfg.between + 5}

(* PRU0 reads a word for a raw sample: none of its bytes is older than the *)
(* sample (firmware/common_pru_defs.h:118).                                *)
RawWordFresh == at = "raw_xout" => \A b \in 1 .. 4 : data[b] # 0

================================================================================
