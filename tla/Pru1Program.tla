------------------------------ MODULE Pru1Program ------------------------------
(***************************************************************************)
(* The program of PRU1 (main in firmware/main_pru1_def.asm) as its control *)
(* flow alone: where it looks at the doorbell of PRU0, what it does with a *)
(* request, and which bank a block goes to.  PruFirmware surrounds it with *)
(* PRU0 and the shared memory, PruSampler takes it apart into instructions *)
(* and cycles; both implement it, so that what is shown of either is said  *)
(* of one program.                                                         *)
(***************************************************************************)
EXTENDS Naturals

CONSTANT NumBanks   \* scratch pad banks in the rotation

VARIABLES
  pc,       \* where the program is
  bank,     \* the bank the block of a run will go to, 0 outside a run
  evt,      \* the doorbell of PRU0 is pending
  request   \* the read mode and the start bit loaded last

vars == <<pc, bank, evt, request>>

Requests == [mode : {"raw", "block"}, start : BOOLEAN]

Init ==
  /\ pc = "int_loop" /\ bank = 0 /\ evt = FALSE
  /\ request = [mode |-> "raw", start |-> FALSE]

Ring ==
  /\ evt' = TRUE
  /\ UNCHANGED <<pc, bank, request>>

--------------------------------------------------------------------------------
(* The doorbell is looked at while waiting and in every sample of a block, *)
(* except in the last one for the last bank.                               *)
LastBank == bank = NumBanks - 1
Looks == pc \in {"int_loop", "sample"} \/ (pc = "last" /\ ~LastBank)

Notice ==
  /\ Looks /\ evt
  /\ pc' = "manage" /\ bank' = 0
  /\ UNCHANGED <<evt, request>>

(* First the doorbell is cleared, then the words are loaded. *)
Clear ==
  /\ pc = "manage"
  /\ pc' = "load" /\ evt' = FALSE
  /\ UNCHANGED <<bank, request>>

Dispatch(r) == IF r.mode = "raw" THEN "raw" ELSE IF r.start THEN "sample" ELSE "int_loop"

Load ==
  /\ pc = "load"
  /\ request' \in Requests
  /\ pc' = Dispatch(request')
  /\ UNCHANGED <<bank, evt>>

(* A raw sample: transfer, tell, back to waiting. *)
Raw ==
  /\ \/ pc = "raw" /\ pc' = "raw_tell"
     \/ pc = "raw_tell" /\ pc' = "int_loop"
  /\ UNCHANGED <<bank, evt, request>>

(* A block: its samples, the last of them, transfer ... *)
Block ==
  /\ \/ pc = "sample" /\ ~evt /\ pc' = "last"
     \/ pc = "last" /\ (LastBank \/ ~evt) /\ pc' = "xout"
     \/ pc = "xout" /\ pc' = "tell"
  /\ UNCHANGED <<bank, evt, request>>

(* ... and tell, and the next block goes to the next bank. *)
Tell ==
  /\ pc = "tell"
  /\ pc' = "sample"
  /\ bank' = IF LastBank THEN 0 ELSE bank + 1
  /\ UNCHANGED <<evt, request>>

Next == Ring \/ Notice \/ Clear \/ Load \/ Raw \/ Block \/ Tell

Spec == Init /\ [][Next]_vars
================================================================================
