----------------------------- MODULE MCPruFirmware -----------------------------
(***************************************************************************)
(* PruFirmware on small instances.  The timing words are interchangeable:  *)
(* the program only copies them.                                           *)
(***************************************************************************)
EXTENDS PruFirmware, TLC

TimingSymmetry == Permutations(Timings)

================================================================================
