------------------------ MODULE SamplingFrequencyProofs ------------------------
(***************************************************************************)
(* Proofs about SamplingFrequency, for integer types of any even width and *)
(* any set of frequencies.                                                 *)
(***************************************************************************)
EXTENDS SamplingFrequency, TLAPS

(* The number of cycles is a word. *)
LEMMA CyclesType ==
  ASSUME NEW val \in Vals
  PROVE  PruCycles(val) \in 0 .. W32 - 1
<1>1. W32 \in Nat \ {0} /\ NsPerSec \in Nat /\ val \in Int /\ val # 0
  BY FrequencyAssumption
<1>2. CDiv(NsPerSec, val) \in Int
  <2>1. CASE val > 0
    BY <1>1, <2>1 DEF CDiv
  <2>2. CASE val < 0
    <3>1. -val \in Nat /\ -val > 0
      BY <1>1, <2>2
    <3>2. NsPerSec \div (-val) \in Int
      BY <1>1, <3>1
    <3> QED  BY <3>2, <2>2, <1>1 DEF CDiv
  <2> QED  BY <1>1, <2>1, <2>2
<1> DEFINE t == CDiv(NsPerSec, val) % W32
<1>3. t \in Nat
  BY <1>1, <1>2
<1> HIDE DEF t
<1>4. t \div 5 - 5 \in Int
  BY <1>3
<1> DEFINE u == t \div 5 - 5
<1> HIDE DEF u
<1>5. u % W32 \in 0 .. W32 - 1
  BY <1>1, <1>4 DEF u
<1> QED  BY <1>5 DEF PruCycles, t, u

(* Cutting an odd number to an even width leaves it odd. *)
LEMMA ModOdd ==
  ASSUME NEW h \in Nat \ {0}, h % 2 = 0, NEW x \in Int, x % 2 = 1
  PROVE  x % h \in 0 .. h - 1 /\ (x % h) % 2 = 1
<1> DEFINE d == x \div h  m == x % h  g == h \div 2
<1>1. d \in Int /\ m \in 0 .. h - 1 /\ x = h * d + m
  OBVIOUS
<1>2. g \in Int /\ h = 2 * g
  OBVIOUS
<1> HIDE DEF d, m, g
<1> DEFINE e == g * d
<1>3. e \in Int
  BY <1>1, <1>2
<1>4. h * d = 2 * e
  BY <1>1, <1>2
<1> HIDE DEF e
<1>5. x = 2 * e + m
  BY <1>1, <1>4, <1>3
<1>6. m % 2 = 1
  BY <1>1, <1>3, <1>5
<1> QED  BY <1>1, <1>6 DEF m

(* A number below the width is not cut. *)
LEMMA ModSmall ==
  ASSUME NEW h \in Nat \ {0}, NEW x \in Nat, x < h
  PROVE  x % h = x
OBVIOUS

(* Each of the three counts is odd, and a word. *)
LEMMA OddParts ==
  ASSUME NEW c \in 0 .. W32 - 1
  PROVE  \A n \in {Between(c), BeforeS(c), After(c)} : n \in 1 .. W32 - 1 /\ n % 2 = 1
<1> DEFINE q == c \div 4
           a == IF q % 2 = 1 THEN q ELSE q + 1
           b == IF q % 2 = 1 THEN q ELSE q - 1
<1>0. c \in Nat /\ c < W32 /\ W32 \in Nat /\ W32 > 6
  BY FrequencyAssumption
<1>1. q \in Nat
  BY <1>0
<1> HIDE DEF q
<1>2. a \in Int /\ a % 2 = 1 /\ b \in Int /\ b % 2 = 1
  BY <1>1
<1> HIDE DEF a, b
<1>3. W16 \in Nat \ {0} /\ W16 % 2 = 0 /\ W16 <= W32
  BY FrequencyAssumption
<1>4. a % W16 \in 0 .. W16 - 1 /\ (a % W16) % 2 = 1
  BY <1>2, <1>3, ModOdd
<1>5. b % W16 \in 0 .. W16 - 1 /\ (b % W16) % 2 = 1
  BY <1>2, <1>3, ModOdd
<1>6. Between(c) \in 1 .. W32 - 1 /\ Between(c) % 2 = 1
  BY <1>0 DEF Between
<1>7. /\ a % W16 \in 1 .. W32 - 1 /\ (a % W16) % 2 = 1
      /\ b % W16 \in 1 .. W32 - 1 /\ (b % W16) % 2 = 1
  BY <1>0, <1>3, <1>4, <1>5
<1>8. After(c) = a % W16 /\ BeforeS(c) = b % W16
  BY DEF After, BeforeS, a, b, q
<1> QED  BY <1>6, <1>7, <1>8

--------------------------------------------------------------------------------
(* Every configuration the driver computes has odd counts: no frequency,   *)
(* however absurd, makes PRU1 miss the end of a count.                     *)
THEOREM OddCounts == Spec => []CountsOdd
<1>1. Init => CountsOdd
  BY DEF Init, CountsOdd
<1>2. CountsOdd /\ [Next]_vars => CountsOdd'
  <2> SUFFICES ASSUME CountsOdd, [Next]_vars PROVE CountsOdd'
    OBVIOUS
  <2>1. ASSUME NEW val \in Vals, WriteFreq(val) PROVE CountsOdd'
    BY <2>1, CyclesType, OddParts DEF WriteFreq, Counts, CountsOdd
  <2>2. CASE UNCHANGED vars
    BY <2>2 DEF vars, CountsOdd
  <2> QED  BY <2>1, <2>2 DEF Next
<1> QED  BY <1>1, <1>2, PTL DEF Spec

--------------------------------------------------------------------------------
(* A larger divisor, a smaller quotient. *)
LEMMA DivAntitone ==
  ASSUME NEW n \in Nat, NEW a \in Nat \ {0}, NEW b \in Nat \ {0}, a <= b
  PROVE  n \div a \in Nat /\ n \div b \in Nat /\ n \div b <= n \div a
<1> DEFINE da == n \div a  db == n \div b
<1>1. da \in Nat /\ a * da <= n /\ n < a * (da + 1)
  OBVIOUS
<1>2. db \in Nat /\ b * db <= n /\ n < b * (db + 1)
  OBVIOUS
<1> HIDE DEF da, db
<1>3. ASSUME db > da PROVE FALSE
  <2>1. a * (da + 1) <= a * db
    BY <1>1, <1>2, <1>3
  <2>2. a * db <= b * db
    BY <1>2
  <2>3. a * (da + 1) \in Int /\ a * db \in Int /\ b * db \in Int
    BY <1>1, <1>2
  <2> QED  BY <1>1, <1>2, <2>1, <2>2, <2>3
<1> QED  BY <1>1, <1>2, <1>3 DEF da, db

(* In range nothing wraps around: the cycles are those that are wanted ... *)
LEMMA InRangeCycles ==
  ASSUME NEW val \in Vals, InRange(val)
  PROVE  /\ Wanted(val) \in Nat
         /\ PruCycles(val) = Wanted(val)
         /\ Wanted(val) < W32 /\ 5 * (Wanted(val) + 6) < W32
<1>1. W32 \in Nat \ {0} /\ NsPerSec \in Nat /\ NsPerSec + 5 < W32 /\ val \in Nat \ {0}
  BY FrequencyAssumption DEF InRange
<1> DEFINE t == NsPerSec \div val
<1>2. t \in Nat /\ t <= NsPerSec
  <2>1. NsPerSec \div 1 = NsPerSec
    BY <1>1
  <2> QED  BY <1>1, <2>1, DivAntitone
<1>3. CDiv(NsPerSec, val) = t
  BY <1>1 DEF CDiv
<1> HIDE DEF t
<1>4. t % W32 = t
  BY <1>1, <1>2
<1>5. t \div 5 - 5 >= 4
  BY DEF InRange, Wanted, t
<1>6. t \div 5 \in Nat /\ 5 * (t \div 5) <= t
  BY <1>2
<1> DEFINE w == t \div 5 - 5
<1>7. w \in Nat /\ w < W32 /\ 5 * (w + 6) < W32
  BY <1>1, <1>2, <1>5, <1>6
<1>8. w % W32 = w
  BY <1>1, <1>7
<1>9. Wanted(val) = w
  BY DEF Wanted, t
<1> QED  BY <1>3, <1>4, <1>7, <1>8, <1>9 DEF PruCycles

(* ... and the parts add up to them, within one cycle. *)
LEMMA InRangeTotal ==
  ASSUME NEW c \in Nat, c \div 4 < W16 - 1, c >= 4
  PROVE  Total(Counts(c)) = 4 * (c \div 4) + (IF c % 4 = 3 THEN 3 ELSE 1)
<1> DEFINE q == c \div 4
<1>1. q \in Nat /\ q >= 1 /\ W16 \in Nat \ {0} /\ q + 1 < W16
  BY FrequencyAssumption
<1> HIDE DEF q
<1>2. q % W16 = q /\ (q + 1) % W16 = q + 1 /\ (q - 1) % W16 = q - 1
  BY <1>1
<1>3. After(c) + BeforeS(c) = 2 * q
  BY <1>1, <1>2 DEF After, BeforeS, q
<1>4. After(c) \in Int /\ BeforeS(c) \in Int
  BY <1>1, <1>2 DEF After, BeforeS, q
<1> QED  BY <1>1, <1>3, <1>4 DEF Total, Counts, Between, q

(* In range, the period asked for is kept within one cycle. *)
THEOREM PeriodIsKept == Spec => []PeriodKept
<1>1. Init => PeriodKept
  BY DEF Init, PeriodKept, InRange
<1>2. PeriodKept /\ [Next]_vars => PeriodKept'
  <2> SUFFICES ASSUME PeriodKept, [Next]_vars PROVE PeriodKept'
    OBVIOUS
  <2>1. ASSUME NEW val \in Vals, WriteFreq(val), InRange(val) PROVE Kept(val, config')
    <3>1. Wanted(val) \in Nat /\ PruCycles(val) = Wanted(val)
      BY <2>1, InRangeCycles
    <3>2. config' = Counts(Wanted(val))
      BY <2>1, <3>1 DEF WriteFreq
    <3>3. Total(config') = 4 * (Wanted(val) \div 4) + (IF Wanted(val) % 4 = 3 THEN 3 ELSE 1)
      BY <2>1, <3>1, <3>2, InRangeTotal DEF InRange
    <3> QED  BY <3>1, <3>3 DEF Kept
  <2>2. ASSUME NEW val \in Vals, WriteFreq(val) PROVE PeriodKept'
    <3>1. asked' = val
      BY <2>2 DEF WriteFreq
    <3> QED  BY <2>1, <2>2, <3>1 DEF PeriodKept
  <2>3. CASE UNCHANGED vars
    BY <2>3 DEF vars, PeriodKept
  <2> QED  BY <2>2, <2>3 DEF Next
<1> QED  BY <1>1, <1>2, PTL DEF Spec

(* The sum of the parts, and the frequency reported for it, in range.      *)
LEMMA InRangeConfig ==
  ASSUME NEW val \in Vals, InRange(val)
  PROVE  LET k == Counts(PruCycles(val))  w == Wanted(val)
         IN  /\ Total(k) = 4 * (w \div 4) + (IF w % 4 = 3 THEN 3 ELSE 1)
             /\ Frequency(k) = NsPerSec \div ((Total(k) + 5) * 5)
<1> DEFINE w == Wanted(val)
           k == Counts(PruCycles(val))
           n == Total(k)
<1>1. w \in Nat /\ PruCycles(val) = w /\ 5 * (w + 6) < W32 /\ W32 \in Nat \ {0}
  BY InRangeCycles, FrequencyAssumption
<1>2. n = 4 * (w \div 4) + (IF w % 4 = 3 THEN 3 ELSE 1)
  BY <1>1, InRangeTotal DEF InRange
<1>3. n \in Nat /\ n <= w + 1
  BY <1>1, <1>2
<1>4. ((n + 5) * 5) % W32 = (n + 5) * 5
  <2> HIDE DEF n, w
  <2>1. (n + 5) * 5 \in Nat /\ (n + 5) * 5 < W32
    BY <1>1, <1>3
  <2> QED  BY <2>1, <1>1, ModSmall
<1> QED  BY <1>2, <1>4 DEF Frequency

(* In range, a higher frequency means no longer parts ... *)
LEMMA Monotone ==
  ASSUME NEW u \in Vals, NEW v \in Vals, InRange(u), InRange(v), u <= v
  PROVE  LET j == Counts(PruCycles(u))  k == Counts(PruCycles(v))
         IN  Total(k) <= Total(j) /\ Frequency(j) <= Frequency(k)
<1> DEFINE j == Counts(PruCycles(u))  k == Counts(PruCycles(v))
           x == Wanted(u)  y == Wanted(v)
<1>1. u \in Nat \ {0} /\ v \in Nat \ {0} /\ NsPerSec \in Nat
  BY FrequencyAssumption DEF InRange
<1>2. x \in Nat /\ y \in Nat
  BY InRangeCycles
<1>3. y <= x
  <2> DEFINE s == NsPerSec \div u  t == NsPerSec \div v
  <2>1. s \in Nat /\ t \in Nat /\ t <= s
    BY <1>1, DivAntitone
  <2> HIDE DEF s, t
  <2>2. t \div 5 <= s \div 5
    BY <2>1
  <2>3. t \div 5 \in Nat /\ s \div 5 \in Nat
    BY <2>1
  <2> QED  BY <2>2, <2>3 DEF Wanted, s, t
<1>4. /\ Total(j) = 4 * (x \div 4) + (IF x % 4 = 3 THEN 3 ELSE 1)
      /\ Total(k) = 4 * (y \div 4) + (IF y % 4 = 3 THEN 3 ELSE 1)
      /\ Frequency(j) = NsPerSec \div ((Total(j) + 5) * 5)
      /\ Frequency(k) = NsPerSec \div ((Total(k) + 5) * 5)
  BY InRangeConfig
<1> HIDE DEF x, y, j, k
<1>5. Total(j) \in Nat /\ Total(k) \in Nat /\ Total(k) <= Total(j)
  BY <1>2, <1>3, <1>4
<1> DEFINE a == (Total(k) + 5) * 5  b == (Total(j) + 5) * 5
<1>6. a \in Nat \ {0} /\ b \in Nat \ {0} /\ a <= b
  BY <1>5
<1> HIDE DEF a, b
<1>7. NsPerSec \div b <= NsPerSec \div a
  BY <1>1, <1>6, DivAntitone
<1> QED  BY <1>4, <1>5, <1>7 DEF a, b, j, k

(* The invariant behind it: the state is that of the last call. *)
Remembered ==
  asked # 0 => /\ asked \in Vals
               /\ config = Counts(PruCycles(asked))
               /\ freq = Frequency(config)

(* In range, asking for more never gets less. *)
THEOREM HigherFrequencyIsFaster == Spec => HigherIsFaster
<1>1. Init => Remembered
  BY DEF Init, Remembered
<1>2. Remembered /\ [Next]_vars => Remembered'
  <2> SUFFICES ASSUME Remembered, [Next]_vars PROVE Remembered'
    OBVIOUS
  <2>1. ASSUME NEW val \in Vals, WriteFreq(val) PROVE Remembered'
    BY <2>1 DEF WriteFreq, Remembered
  <2>2. CASE UNCHANGED vars
    BY <2>2 DEF vars, Remembered
  <2> QED  BY <2>1, <2>2 DEF Next
<1> DEFINE Faster == InRange(asked) /\ InRange(asked') /\ asked <= asked'
                       => Total(config') <= Total(config) /\ freq <= freq'
<1>3. Remembered /\ Remembered' => Faster
  <2> SUFFICES ASSUME Remembered, Remembered', InRange(asked), InRange(asked'),
                      asked <= asked'
               PROVE  Total(config') <= Total(config) /\ freq <= freq'
    OBVIOUS
  <2>1. asked # 0 /\ asked' # 0
    BY DEF InRange
  <2>2. /\ asked \in Vals /\ config = Counts(PruCycles(asked)) /\ freq = Frequency(config)
        /\ asked' \in Vals /\ config' = Counts(PruCycles(asked')) /\ freq' = Frequency(config')
    BY <2>1 DEF Remembered
  <2> QED  BY <2>2, Monotone
<1>4. Remembered /\ Remembered' => [Faster]_vars
  BY <1>3
<1> QED  BY <1>1, <1>2, <1>4, PTL DEF Spec, HigherIsFaster

================================================================================
