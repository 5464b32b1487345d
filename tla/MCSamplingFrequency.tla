-------------------------- MODULE MCSamplingFrequency --------------------------
(* SamplingFrequency with frequencies below, in and above the range.       *)
EXTENDS SamplingFrequency

MCVals == ((-3 .. 180) \ {0}) \cup {200, 250, 400, 1000, 4000}

================================================================================
