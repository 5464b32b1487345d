--------------------------- MODULE SamplingFrequency ---------------------------
(***************************************************************************)
(* set_beaglescope_sampling_frequency of the kernel driver: a frequency is *)
(* turned into three counts of PRU cycles, and the counts into the         *)
(* frequency that is reported.  The widths of the C types and the number   *)
(* of nanoseconds in a second are parameters, so that small instances      *)
(* meet every wrap-around of the real numbers.                             *)
(***************************************************************************)
EXTENDS Integers

CONSTANTS
  NsPerSec,  \* 1000000000
  W32,       \* 2^32: u32 arithmetic is modulo W32
  W16,       \* 2^16
  Vals       \* frequencies that are asked for

(* Zero is not among them: the first division is by it. *)
ASSUME FrequencyAssumption ==
  /\ {NsPerSec, W32, W16} \subseteq Nat \ {0}
  /\ W16 % 2 = 0 /\ W16 <= W32
  /\ NsPerSec + 5 < W32
  /\ Vals \subseteq Int \ {0}

(* C division: towards zero. *)
CDiv(a, b) == IF b > 0 THEN a \div b ELSE -(a \div (-b))

(* pru_cycles after the 5 cycles of the loop are taken off: less than 5    *)
(* of them wrap around.                                                    *)
PruCycles(val) == ((CDiv(NsPerSec, val) % W32) \div 5 - 5) % W32

(* Mutant: the remainder is dropped. *)
BetweenNoRemainder(c) == 2 * (c \div 4) + 1

(* Mutant: the wrong way round. *)
BetweenSwapped(c) == 2 * (c \div 4) + (IF c % 4 = 3 THEN 1 ELSE 3)

(* cycle_between_sample. *)
Between(c) == 2 * (c \div 4) + (IF c % 4 = 3 THEN 3 ELSE 1)

(* Mutant: an even quarter is used as it is. *)
AfterEven(c) == (c \div 4) % W16

(* cycle_after_sample and cycle_before_sample are u16. *)
After(c)  == LET q == c \div 4 IN (IF q % 2 = 1 THEN q ELSE q + 1) % W16
BeforeS(c) == LET q == c \div 4 IN (IF q % 2 = 1 THEN q ELSE q - 1) % W16

Counts(c) == [between |-> Between(c), after |-> After(c), before |-> BeforeS(c)]

Total(k) == k.between + k.before + k.after

(* sampling_frequency. *)
Frequency(k) == NsPerSec \div (((Total(k) + 5) * 5) % W32)

VARIABLES
  asked,   \* the frequency of the last call, 0 before the first
  config,  \* words 0 and 1 of pru_config
  freq     \* sampling_frequency

vars == <<asked, config, freq>>

Init == /\ asked = 0
        /\ config = [between |-> 0, after |-> 0, before |-> 0]
        /\ freq = 0

(* write_raw with IIO_CHAN_INFO_SAMP_FREQ. *)
WriteFreq(val) ==
  /\ asked' = val
  /\ config' = Counts(PruCycles(val))
  /\ freq' = Frequency(config')

Next == \E val \in Vals : WriteFreq(val)

Spec == Init /\ [][Next]_vars

--------------------------------------------------------------------------------
(***************************************************************************)
(* Properties.                                                             *)
(***************************************************************************)

(* The number of cycles to divide into three parts. *)
Wanted(val) == (NsPerSec \div val) \div 5 - 5

(* Frequencies whose parts neither underflow nor need more than 16 bits:   *)
(* 763 Hz to 22 MHz in the program.                                        *)
InRange(val) == val > 0 /\ Wanted(val) >= 4 /\ Wanted(val) \div 4 < W16 - 1

(* "These 3 values need to be odd": they are, and no wider than a word, for *)
(* every frequency, in and out of range.  It is what PRU1, which counts    *)
(* down by two and stops at one, takes for granted (SamplerAssumption).    *)
CountsOdd ==
  asked # 0 => \A n \in {config.between, config.before, config.after} :
                 n \in 1 .. W32 - 1 /\ n % 2 = 1

(* In range, the three parts are together within one cycle of the period   *)
(* asked for.                                                              *)
Kept(val, k) == Total(k) - Wanted(val) \in -1 .. 1
PeriodKept == InRange(asked) => Kept(asked, config)

(* In range, asking for more never gets less: neither do the parts get     *)
(* longer nor does the frequency reported get smaller.                     *)
HigherIsFaster ==
  [][InRange(asked) /\ InRange(asked') /\ asked <= asked'
     => Total(config') <= Total(config) /\ freq <= freq']_vars

(* The comment above the function: the number of PRU cycles "is then       *)
(* divided into 3 parts".                                                  *)
PartsOfPeriod == asked > 0 => Kept(asked, config)

================================================================================
