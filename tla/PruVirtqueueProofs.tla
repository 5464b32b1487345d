--------------------------- MODULE PruVirtqueueProofs --------------------------
(***************************************************************************)
(* Safety of a vring between the ARM and PRU0, for every number of         *)
(* descriptors, every number of buffers that passes (the indices wrap) and *)
(* both orders of the two stores of a used buffer.                         *)
(***************************************************************************)
EXTENDS PruVirtqueue, FiniteSetTheorems, TLAPS

LEMMA Constants ==
  /\ Num \in Nat \ {0} /\ IdxMod \in Nat \ {0} /\ LastMod \in Nat \ {0}
  /\ IdxMod > Num /\ LastMod >= IdxMod /\ MaxPosts \in Nat
  /\ Heads = 0 .. Num - 1
BY VringAssumption DEF Heads

--------------------------------------------------------------------------------
(***************************************************************************)
(* Counting modulo m.                                                      *)
(***************************************************************************)
LEMMA ModType ==
  ASSUME NEW m \in Nat \ {0}, NEW i \in Nat
  PROVE  i % m \in 0 .. m - 1 /\ (i < m => i % m = i)
OBVIOUS

LEMMA ModSplit ==
  ASSUME NEW m \in Nat \ {0}, NEW i \in Nat
  PROVE  \E d \in Nat : i = m * d + (i % m)
<1>1. i \div m \in Nat /\ i = m * (i \div m) + (i % m)
  OBVIOUS
<1> QED  BY <1>1

LEMMA ModUnique ==
  ASSUME NEW m \in Nat \ {0}, NEW d \in Int, NEW r \in 0 .. m - 1
  PROVE  (m * d + r) % m = r
OBVIOUS

(* An index that wraps goes on as the number it stands for does.           *)
LEMMA ModStep ==
  ASSUME NEW m \in Nat \ {0}, NEW d \in Nat, NEW r \in 0 .. m - 1
  PROVE  (m * d + r + 1) % m = (r + 1) % m
<1>1. CASE r + 1 \in 0 .. m - 1
  <2> DEFINE s == r + 1
  <2>1. s \in 0 .. m - 1 /\ d \in Int
    BY <1>1
  <2> HIDE DEF s
  <2>2. (m * d + s) % m = s /\ s % m = s
    BY <2>1, ModUnique, ModType
  <2>3. m * d + r + 1 = m * d + s
    BY DEF s
  <2> QED  BY <2>2, <2>3 DEF s
<1>2. CASE r + 1 = m
  <2>1. m * d + r + 1 = m * (d + 1) + 0 /\ r + 1 = m * 1 + 0
    BY <1>2
  <2>2. d + 1 \in Int /\ 1 \in Int /\ 0 \in 0 .. m - 1
    OBVIOUS
  <2> QED  BY <2>1, <2>2, ModUnique
<1> QED  BY <1>1, <1>2

LEMMA ModNext ==
  ASSUME NEW m \in Nat \ {0}, NEW i \in Nat
  PROVE  ((i % m) + 1) % m = (i + 1) % m
<1> DEFINE r == i % m
<1>1. r \in 0 .. m - 1
  BY ModType
<1>2. PICK d \in Nat : i = m * d + r
  BY ModSplit
<1> HIDE DEF r
<1>3. (m * d + r + 1) % m = (r + 1) % m
  BY <1>1, ModStep
<1> QED  BY <1>2, <1>3 DEF r

(* Numbers closer than m are told apart.                                   *)
LEMMA ModDistinct ==
  ASSUME NEW m \in Nat \ {0}, NEW i \in Nat, NEW j \in Nat, i < j, j - i < m
  PROVE  i % m # j % m
<1> SUFFICES ASSUME i % m = j % m PROVE FALSE
  OBVIOUS
<1> DEFINE r == i % m
<1>1. PICK d \in Nat : i = m * d + r
  BY ModSplit
<1>2. PICK e \in Nat : j = m * e + r
  BY ModSplit
<1>3. r \in Nat
  BY ModType
<1> HIDE DEF r
<1>4. j - i = m * (e - d)
  BY <1>1, <1>2, <1>3
<1>5. CASE e <= d
  BY <1>4, <1>5
<1>6. CASE e >= d + 1
  BY <1>4, <1>6
<1> QED  BY <1>5, <1>6

LEMMA NextDistinct ==
  ASSUME NEW m \in Nat \ {0}, NEW p \in 0 .. m - 1, NEW q \in 0 .. m - 1, p # q
  PROVE  (p + 1) % m # (q + 1) % m
<1>1. ASSUME NEW x \in 0 .. m - 1, NEW y \in 0 .. m - 1, x < y
      PROVE  (x + 1) % m # (y + 1) % m
  <2> DEFINE u == x + 1  v == y + 1
  <2>1. u \in Nat /\ v \in Nat /\ u < v /\ v - u < m
    BY <1>1
  <2> HIDE DEF u, v
  <2>2. u % m # v % m
    BY <2>1, ModDistinct
  <2> QED  BY <2>2 DEF u, v
<1>2. p < q \/ q < p
  OBVIOUS
<1> QED  BY <1>1, <1>2

LEMMA ModTwice ==
  ASSUME NEW m \in Nat \ {0}, NEW i \in Nat
  PROVE  i % m \in Nat /\ (i % m) % m = i % m
<1> DEFINE r == i % m
<1>1. r \in 0 .. m - 1
  BY ModType
<1> HIDE DEF r
<1>2. r % m = r /\ r \in Nat
  BY <1>1, ModType
<1> QED  BY <1>2 DEF r

LEMMA ModBack ==
  ASSUME NEW m \in Nat \ {0}, NEW i \in Nat, NEW j \in Nat, (i + 1) % m = (j + 1) % m
  PROVE  i % m = j % m
<1> DEFINE r == i % m  s == j % m
<1>1. r \in 0 .. m - 1 /\ s \in 0 .. m - 1
  BY ModType
<1>2. (r + 1) % m = (s + 1) % m
  BY ModNext
<1> HIDE DEF r, s
<1>3. r = s
  BY <1>1, <1>2, NextDistinct
<1> QED  BY <1>3 DEF r, s

(* Counting modulo a multiple of m loses nothing modulo m.                 *)
LEMMA ModOfMod ==
  ASSUME NEW m \in Nat \ {0}, NEW n \in Nat \ {0}, n % m = 0, NEW i \in Nat
  PROVE  (i % n) % m = i % m
<1> DEFINE r == i % n  s == r % m
<1>1. PICK d \in Nat : i = n * d + r
  BY ModSplit
<1>2. PICK q \in Nat : n = m * q + 0
  BY ModSplit
<1>3. r \in Nat
  BY ModType
<1>4. (\E e \in Nat : r = m * e + s) /\ s \in 0 .. m - 1
  BY <1>3, ModSplit, ModType
<1>5. PICK e \in Nat : r = m * e + s
  BY <1>4
<1> HIDE DEF r, s
<1>6. i = m * (q * d + e) + s
  BY <1>1, <1>2, <1>3, <1>4, <1>5
<1>7. i % m = s
  BY <1>4, <1>6, ModUnique
<1> QED  BY <1>7 DEF r, s

(* Slots are slots, neighbours closer than the ring is long have different *)
(* ones, and an index picks the slot of the number it stands for.          *)
LEMMA SlotType == \A i \in Nat : Slot(i) \in Heads
BY Constants, ModType DEF Slot

LEMMA SlotDistinct ==
  ASSUME NEW i \in Nat, NEW j \in Nat, i < j, j - i < Num
  PROVE  Slot(i) # Slot(j)
BY Constants, ModDistinct DEF Slot

LEMMA SlotSame ==
  ASSUME NEW i \in Nat, NEW j \in Nat, i % IdxMod = j % IdxMod
  PROVE  Slot(i) = Slot(j)
<1>1. (i % IdxMod) % Num = i % Num /\ (j % IdxMod) % Num = j % Num
  BY Constants, VringAssumption, ModOfMod
<1> QED  BY <1>1 DEF Slot

LEMMA SlotAdd ==
  ASSUME NEW i \in Nat, NEW j \in Nat, NEW n \in Nat, i % IdxMod = j % IdxMod
  PROVE  Slot(i + n) = Slot(j + n)
<1> DEFINE r == i % IdxMod  k == j + n  t == k % IdxMod
<1>1. PICK d \in Nat : i = IdxMod * d + r
  BY Constants, ModSplit
<1>2. PICK e \in Nat : j = IdxMod * e + r
  BY Constants, ModSplit
<1>3. k \in Nat /\ r \in Nat
  BY Constants, ModType
<1> HIDE DEF k
<1>4. PICK f \in Nat : k = IdxMod * f + t
  BY <1>3, Constants, ModSplit
<1>5. t \in 0 .. IdxMod - 1
  BY <1>3, Constants, ModType
<1> HIDE DEF r, t
<1>6. i + n = IdxMod * (f + d - e) + t /\ f + d - e \in Int
  BY <1>1, <1>2, <1>3, <1>4, <1>5, Constants DEF k
<1>7. (i + n) % IdxMod = t
  BY <1>5, <1>6, Constants, ModUnique
<1>8. Slot(i + n) = Slot(k)
  BY <1>3, <1>7, SlotSame DEF t
<1> QED  BY <1>8 DEF k

(* How far it is from a to b, less than the indices are wide, told from    *)
(* the indices of both.                                                    *)
LEMMA DistanceIs ==
  ASSUME NEW a \in Nat, NEW b \in Nat, a <= b, b - a < IdxMod,
         NEW i \in Nat, NEW j \in Nat, i % IdxMod = a % IdxMod, j % IdxMod = b % IdxMod
  PROVE  Distance(i, j) = b - a
<1> DEFINE r == a % IdxMod  s == b % IdxMod
<1>1. r \in 0 .. IdxMod - 1 /\ s \in 0 .. IdxMod - 1
  BY Constants, ModType
<1>2. PICK d \in Nat : a = IdxMod * d + r
  BY Constants, ModSplit
<1>3. PICK e \in Nat : b = IdxMod * e + s
  BY Constants, ModSplit
<1>4. PICK f \in Nat : j = IdxMod * f + s
  BY Constants, ModSplit
<1>5. i % IdxMod = r
  OBVIOUS
<1> HIDE DEF r, s
<1>6. j + IdxMod - r = IdxMod * (f + 1 - e + d) + (b - a)
  BY <1>1, <1>2, <1>3, <1>4, Constants
<1>7. f + 1 - e + d \in Int /\ b - a \in 0 .. IdxMod - 1
  BY Constants
<1>8. (j + IdxMod - r) % IdxMod = b - a
  BY <1>6, <1>7, Constants, ModUnique
<1> QED  BY <1>5, <1>8 DEF Distance

(* last_avail_idx has the bits of the shorter indices.                     *)
LEMMA LastLow ==
  \A i \in Nat : (i % LastMod) % IdxMod = i % IdxMod
BY Constants, VringAssumption, ModOfMod

LEMMA IdxType ==
  \A i \in Nat : i % IdxMod \in 0 .. IdxMod - 1 /\ i % LastMod \in 0 .. LastMod - 1
BY Constants, ModType

(* The types but for the histories, which are the only Booleans. *)
Types ==
  /\ availRing \in [Heads -> Heads] /\ usedRing \in [Heads -> Heads]
  /\ availIdx \in 0 .. IdxMod - 1 /\ usedIdx \in 0 .. IdxMod - 1
  /\ armSeen \in 0 .. IdxMod - 1 /\ lastAvail \in 0 .. LastMod - 1
  /\ pc \in {"idle", "holding", "index_stored", "element_stored"}
  /\ head \in Heads /\ armHas \in SUBSET Heads
  /\ posts \in 0 .. MaxPosts /\ taken \in 0 .. posts /\ reclaimed \in 0 .. posts

LEMMA TypesOnly == TypeOK <=> Types /\ stray \in BOOLEAN /\ early \in BOOLEAN
BY Zenon DEF TypeOK, Types

LEMMA Numbers ==
  Types => /\ availIdx \in Nat /\ usedIdx \in Nat /\ armSeen \in Nat /\ lastAvail \in Nat
           /\ posts \in Nat /\ taken \in Nat /\ reclaimed \in Nat
           /\ taken <= posts /\ reclaimed <= posts
BY Constants DEF Types

LEMMA CountedType ==
  ASSUME NEW n \in 0 .. posts, posts \in Nat
  PROVE  Counted(n) \in 0 .. posts
BY DEF Counted

(* What has happened early, or to a stray buffer, has happened. *)
LEMMA HistoryKept ==
  [Next]_vars => (early => early') /\ (stray => stray')
<1> SUFFICES ASSUME [Next]_vars PROVE (early => early') /\ (stray => stray')
  OBVIOUS
<1>1. early => early'
  BY DEF Next, ArmPost, ArmReclaim, GetAvail, StoreIndex, StoreElement, StoreElementFirst,
         StoreIndexLast, vars, armVars, pruVars
<1>2. stray => stray'
  BY DEF Next, ArmPost, ArmReclaim, GetAvail, StoreIndex, StoreElement, StoreElementFirst,
         StoreIndexLast, vars, armVars, pruVars
<1> QED  BY <1>1, <1>2

(* The types hold with every wrap of every index. *)
THEOREM TypeCorrect == Spec => []TypeOK
<1>1. Init => Types
  BY Constants DEF Init, Types
<1>2. Types /\ [Next]_vars => Types'
  <2> SUFFICES ASSUME Types, [Next]_vars PROVE Types'
    OBVIOUS
  <2> USE DEF Types, armVars, pruVars
  <2>1. /\ availIdx + 1 \in Nat /\ usedIdx + 1 \in Nat /\ armSeen \in Nat /\ armSeen + 1 \in Nat
        /\ lastAvail \in Nat /\ lastAvail + 1 \in Nat
        /\ posts \in Nat /\ taken \in 0 .. posts /\ reclaimed \in 0 .. posts
    BY Numbers
  <2>2. ASSUME NEW b \in Heads, ArmPost(b) PROVE Types'
    <3>1. (availIdx + 1) % IdxMod \in 0 .. IdxMod - 1
      BY <2>1, IdxType
    <3>2. posts + 1 \in 0 .. MaxPosts /\ taken \in 0 .. posts + 1 /\ reclaimed \in 0 .. posts + 1
      BY <2>2, Constants DEF ArmPost
    <3> QED  BY <2>2, <3>1, <3>2 DEF ArmPost
  <2>3. CASE ArmReclaim
    <3>1. (armSeen + 1) % IdxMod \in 0 .. IdxMod - 1
      BY <2>1, IdxType
    <3>2. usedRing[Slot(armSeen)] \in Heads
      BY <2>1, SlotType
    <3>3. Counted(reclaimed) \in 0 .. posts
      BY <2>1, CountedType
    <3> QED  BY <2>3, <3>1, <3>2, <3>3 DEF ArmReclaim
  <2>4. CASE GetAvail
    <3>1. (lastAvail + 1) % LastMod \in 0 .. LastMod - 1
      BY <2>1, IdxType
    <3>2. availRing[Slot(lastAvail)] \in Heads
      BY <2>1, SlotType
    <3>3. Counted(taken) \in 0 .. posts
      BY <2>1, CountedType
    <3> QED  BY <2>4, <3>1, <3>2, <3>3 DEF GetAvail
  <2>5. CASE StoreIndex \/ StoreIndexLast
    <3>1. (usedIdx + 1) % IdxMod \in 0 .. IdxMod - 1
      BY <2>1, IdxType
    <3> QED  BY <2>5, <3>1 DEF StoreIndex, StoreIndexLast
  <2>6. CASE StoreElement \/ StoreElementFirst
    BY <2>6 DEF StoreElement, StoreElementFirst
  <2>7. CASE UNCHANGED vars
    BY <2>7 DEF vars
  <2> QED  BY <2>2, <2>3, <2>4, <2>5, <2>6, <2>7 DEF Next
<1>3. Init => stray \in BOOLEAN /\ early \in BOOLEAN
  BY DEF Init
<1>4. stray \in BOOLEAN /\ [Next]_vars => (stray \in BOOLEAN)'
  BY DEF Next, ArmPost, ArmReclaim, GetAvail, StoreIndex, StoreElement, StoreElementFirst,
         StoreIndexLast, vars, armVars, pruVars
<1>5. early \in BOOLEAN /\ [Next]_vars => (early \in BOOLEAN)'
  BY DEF Next, ArmPost, ArmReclaim, GetAvail, StoreIndex, StoreElement, StoreElementFirst,
         StoreIndexLast, vars, armVars, pruVars
<1> QED  BY <1>1, <1>2, <1>3, <1>4, <1>5, TypesOnly, PTL DEF Spec

--------------------------------------------------------------------------------
(***************************************************************************)
(* Until the PRU takes a stray buffer every index is the count it stands   *)
(* for, modulo its width; and the counts are never a ring apart, early or  *)
(* not: each post used up a descriptor of the ARM's, each reclaim gave it  *)
(* one at most.                                                            *)
(***************************************************************************)
Done == IF pc = "idle" THEN taken ELSE taken - 1
Used == IF pc = "index_stored" THEN Done + 1 ELSE Done

Exact ==
  /\ availIdx = posts % IdxMod
  /\ lastAvail = taken % LastMod
  /\ usedIdx = Used % IdxMod
  /\ armSeen = reclaimed % IdxMod
  /\ reclaimed <= Used
  /\ Done \in Nat
  /\ Cardinality(armHas) + posts <= Num + reclaimed

ExactUnlessStray == stray \/ Exact

LEMMA HeadsFinite ==
  IsFiniteSet(Heads) /\ Cardinality(Heads) = Num
<1>1. IsFiniteSet(0 .. Num - 1) /\ Cardinality(0 .. Num - 1) = Num
  BY FS_Interval, Constants
<1> QED  BY <1>1, Constants

LEMMA ArmFinite ==
  Types => IsFiniteSet(armHas) /\ Cardinality(armHas) \in Nat
<1> SUFFICES ASSUME Types PROVE IsFiniteSet(armHas) /\ Cardinality(armHas) \in Nat
  OBVIOUS
<1>1. IsFiniteSet(armHas)
  BY HeadsFinite, FS_Subset DEF Types
<1> QED  BY <1>1, FS_CardinalityType

LEMMA ExactBounds ==
  ASSUME Types, Exact
  PROVE  /\ posts \in Nat /\ taken \in Nat /\ reclaimed \in Nat /\ Done \in Nat /\ Used \in Nat
         /\ reclaimed <= Used /\ Done <= Used /\ Used <= taken /\ taken <= posts
         /\ posts <= reclaimed + Num /\ posts - taken < IdxMod
<1>1. posts \in Nat /\ taken \in Nat /\ reclaimed \in Nat /\ taken <= posts
  BY Numbers
<1>2. /\ Done \in Nat /\ Used \in Nat /\ Done <= Used /\ Used <= taken /\ reclaimed <= Used
  BY <1>1 DEF Exact, Done, Used
<1>3. posts <= reclaimed + Num
  BY <1>1, ArmFinite, Constants DEF Exact
<1> QED  BY <1>1, <1>2, <1>3, Constants

LEMMA ExactInit == Init => Exact
<1> SUFFICES ASSUME Init PROVE Exact
  OBVIOUS
<1>1. 0 % IdxMod = 0 /\ 0 % LastMod = 0 /\ 0 \in Nat
  BY Constants
<1>2. Done = 0 /\ Used = 0 /\ Cardinality(armHas) = Num
  BY HeadsFinite DEF Init, Done, Used
<1> QED  BY <1>1, <1>2, Constants DEF Init, Exact

(* What each step does to the counts, from a state where they are exact.   *)
LEMMA CountPost ==
  ASSUME Types, Exact, NEW b \in Heads, ArmPost(b)
  PROVE  /\ Exact' /\ posts' = posts + 1 /\ UNCHANGED <<taken, reclaimed, Done, Used, stray>>
         /\ Cardinality(armHas') = Cardinality(armHas) - 1
         /\ b \in armHas /\ posts < reclaimed + Num
<1>1. /\ availIdx' = (availIdx + 1) % IdxMod /\ posts' = posts + 1
      /\ b \in armHas /\ armHas' = armHas \ {b}
      /\ UNCHANGED <<taken, reclaimed, lastAvail, usedIdx, armSeen, pc, stray>>
  BY DEF ArmPost, pruVars
<1>2. UNCHANGED <<Done, Used>>
  BY <1>1 DEF Done, Used
<1>3. availIdx' = posts' % IdxMod
  BY <1>1, Numbers, Constants, ModNext DEF Exact
<1>4. Cardinality(armHas') = Cardinality(armHas) - 1
  BY <1>1, ArmFinite, FS_RemoveElement
<1>5. Cardinality(armHas') \in Nat
  BY <1>1, ArmFinite, FS_RemoveElement, FS_CardinalityType
<1>c. /\ posts \in Nat /\ reclaimed \in Nat /\ Num \in Nat /\ Cardinality(armHas) \in Nat
      /\ Cardinality(armHas) + posts <= Num + reclaimed
  BY ExactBounds, ArmFinite, Constants DEF Exact
<1>6. posts < reclaimed + Num
  <2> DEFINE c == Cardinality(armHas)  n == Num
  <2>1. c \in Nat /\ n \in Nat /\ c - 1 \in Nat /\ c + posts <= n + reclaimed
    BY <1>4, <1>5, <1>c
  <2> HIDE DEF c, n
  <2>2. posts < reclaimed + n
    BY <2>1, <1>c
  <2> QED  BY <2>2 DEF n
<1>7. Cardinality(armHas') + posts' <= Num + reclaimed'
  <2> DEFINE c == Cardinality(armHas)  n == Num
  <2>1. c \in Nat /\ n \in Nat /\ c + posts <= n + reclaimed
    BY <1>c
  <2> HIDE DEF c, n
  <2>2. (c - 1) + (posts + 1) <= n + reclaimed
    BY <2>1, <1>c
  <2> QED  BY <1>1, <1>4, <2>2 DEF c, n
<1> QED  BY <1>1, <1>2, <1>3, <1>4, <1>6, <1>7 DEF Exact

LEMMA CountReclaim ==
  ASSUME Types, Exact, ArmReclaim
  PROVE  /\ Exact' /\ reclaimed' = reclaimed + 1 /\ UNCHANGED <<posts, taken, Done, Used, stray>>
         /\ early' = (early \/ (pc = "index_stored" /\ reclaimed' = Used))
<1>0. /\ posts \in Nat /\ taken \in Nat /\ reclaimed \in Nat /\ Used \in Nat
      /\ reclaimed <= Used /\ Used <= taken /\ taken <= posts /\ Used <= reclaimed + Num
  BY ExactBounds, Constants
<1>1. /\ armSeen # usedIdx /\ armSeen' = (armSeen + 1) % IdxMod
      /\ armHas' = armHas \cup {usedRing[Slot(armSeen)]}
      /\ reclaimed' = Counted(reclaimed)
      /\ early' = (early \/ (pc = "index_stored" /\ armSeen' = usedIdx))
      /\ UNCHANGED <<posts, taken, availIdx, lastAvail, usedIdx, pc, stray>>
  BY DEF ArmReclaim, pruVars
<1>2. UNCHANGED <<Done, Used>>
  BY <1>1 DEF Done, Used
<1>3. reclaimed < Used
  BY <1>0, <1>1 DEF Exact
<1>4. reclaimed' = reclaimed + 1
  BY <1>0, <1>1, <1>3 DEF Counted
<1>5. armSeen' = reclaimed' % IdxMod
  BY <1>0, <1>1, <1>4, Constants, ModNext DEF Exact
<1>6. armSeen' = usedIdx <=> reclaimed' = Used
  <2>1. CASE reclaimed + 1 < Used
    <3>1. reclaimed + 1 \in Nat /\ Used - (reclaimed + 1) < IdxMod
      BY <1>0, Constants
    <3>2. (reclaimed + 1) % IdxMod # Used % IdxMod
      BY <1>0, <2>1, <3>1, Constants, ModDistinct
    <3> QED  BY <1>0, <1>4, <1>5, <2>1, <3>2 DEF Exact
  <2>2. CASE reclaimed + 1 = Used
    BY <1>4, <1>5, <2>2 DEF Exact
  <2> QED  BY <1>0, <1>3, <2>1, <2>2
<1>7. Cardinality(armHas') + posts' <= Num + reclaimed'
  <2>1. Cardinality(armHas') <= Cardinality(armHas) + 1 /\ Cardinality(armHas') \in Nat
    <3>1. /\ IsFiniteSet(armHas') /\ \/ Cardinality(armHas') = Cardinality(armHas)
                                     \/ Cardinality(armHas') = Cardinality(armHas) + 1
      BY <1>1, ArmFinite, FS_AddElement
    <3> QED  BY <3>1, ArmFinite
  <2> QED  BY <1>0, <1>1, <1>4, <2>1, ArmFinite, Constants DEF Exact
<1> QED  BY <1>0, <1>1, <1>2, <1>3, <1>4, <1>5, <1>6, <1>7 DEF Exact

LEMMA CountTake ==
  ASSUME Types, Exact, GetAvail, ~stray'
  PROVE  /\ Exact' /\ taken < posts /\ taken' = taken + 1 /\ pc = "idle" /\ pc' = "holding"
         /\ UNCHANGED <<posts, reclaimed, Done, Used>>
<1>0. posts \in Nat /\ taken \in Nat /\ reclaimed \in Nat /\ taken <= posts
  BY Numbers
<1>1. /\ pc = "idle" /\ pc' = "holding" /\ lastAvail' = (lastAvail + 1) % LastMod
      /\ taken' = Counted(taken) /\ taken # posts
      /\ UNCHANGED <<posts, reclaimed, availIdx, usedIdx, armSeen, armHas>>
  BY DEF GetAvail, armVars
<1>2. taken < posts /\ taken' = taken + 1
  BY <1>0, <1>1 DEF Counted
<1>3. lastAvail' = taken' % LastMod
  BY <1>0, <1>1, <1>2, Constants, ModNext DEF Exact
<1>4. UNCHANGED <<Done, Used>> /\ Done' \in Nat
  BY <1>0, <1>1, <1>2 DEF Done, Used
<1> QED  BY <1>1, <1>2, <1>3, <1>4 DEF Exact

LEMMA CountStore ==
  ASSUME Types, Exact, StoreIndex \/ StoreElement \/ StoreElementFirst \/ StoreIndexLast
  PROVE  /\ Exact' /\ pc # "idle" /\ taken = Done + 1
         /\ UNCHANGED <<posts, taken, reclaimed, stray>>
         /\ pc' # "idle" => Done' = Done
         /\ pc' = "idle" => Done' = Done + 1
<1>0. /\ posts \in Nat /\ taken \in Nat /\ reclaimed \in Nat /\ Done \in Nat /\ Used \in Nat
      /\ reclaimed <= Used
  BY ExactBounds
<1>1. /\ pc # "idle" /\ UNCHANGED <<posts, taken, reclaimed, stray>>
      /\ UNCHANGED <<availIdx, lastAvail, armSeen, armHas>>
  BY DEF StoreIndex, StoreElement, StoreElementFirst, StoreIndexLast, armVars
<1>2. taken = Done + 1 /\ (pc' # "idle" => Done' = Done) /\ (pc' = "idle" => Done' = Done + 1)
  BY <1>0, <1>1 DEF Done
<1>3. CASE StoreIndex \/ StoreIndexLast
  <2>1. Used' = Used + 1 /\ usedIdx' = (usedIdx + 1) % IdxMod
    BY <1>0, <1>2, <1>3 DEF StoreIndex, StoreIndexLast, Used
  <2>2. usedIdx' = Used' % IdxMod
    BY <1>0, <2>1, Constants, ModNext DEF Exact
  <2> QED  BY <1>0, <1>1, <1>2, <2>1, <2>2 DEF Exact
<1>4. CASE StoreElement \/ StoreElementFirst
  <2>1. Used' = Used /\ usedIdx' = usedIdx
    BY <1>0, <1>2, <1>4 DEF StoreElement, StoreElementFirst, Used
  <2> QED  BY <1>0, <1>1, <1>2, <2>1 DEF Exact
<1> QED  BY <1>1, <1>2, <1>3, <1>4

LEMMA ExactNext ==
  ASSUME Types, ExactUnlessStray, [Next]_vars
  PROVE  ExactUnlessStray'
<1> SUFFICES ASSUME ~stray' PROVE Exact'
  BY DEF ExactUnlessStray
<1>1. Exact
  BY HistoryKept DEF ExactUnlessStray
<1>2. CASE UNCHANGED vars
  BY <1>1, <1>2 DEF vars, armVars, pruVars, Exact, Done, Used
<1> QED  BY <1>1, <1>2, CountPost, CountReclaim, CountTake, CountStore DEF Next

(***************************************************************************)
(* No available buffer is overlooked, and none is seen that is not there   *)
(* before the shorter index has wrapped.                                   *)
(***************************************************************************)
StrayLate == stray => taken >= IdxMod

LEMMA SameWhenNone ==
  ASSUME Types, Exact, taken < IdxMod, taken = posts
  PROVE  lastAvail = availIdx
<1>1. taken \in Nat /\ taken < LastMod
  BY Numbers, Constants
<1> QED  BY <1>1, Constants, ModType DEF Exact

LEMMA StrayLateNext ==
  ASSUME Types, ExactUnlessStray, StrayLate, [Next]_vars
  PROVE  StrayLate'
<1>0. taken \in Nat /\ posts \in Nat /\ IdxMod \in Nat
  BY Numbers, Constants
<1>1. ASSUME UNCHANGED <<taken, stray>> PROVE StrayLate'
  BY <1>1 DEF StrayLate
<1>2. CASE GetAvail
  <2>0. stray' => stray \/ taken = posts
    BY <1>2, Zenon DEF GetAvail
  <2>1. lastAvail # availIdx /\ taken' = Counted(taken) /\ taken' >= taken
    BY <1>0, <1>2 DEF GetAvail, Counted
  <2>2. CASE stray
    BY <1>0, <2>1, <2>2 DEF StrayLate, Counted
  <2>3. CASE ~stray /\ taken = posts
    BY <1>0, <2>1, <2>3, SameWhenNone DEF StrayLate, ExactUnlessStray, Counted
  <2>4. CASE ~stray /\ taken # posts
    BY <2>0, <2>4 DEF StrayLate
  <2> QED  BY <2>2, <2>3, <2>4
<1>3. ASSUME NEW b \in Heads, ArmPost(b) PROVE UNCHANGED <<taken, stray>>
  BY <1>3 DEF ArmPost, pruVars
<1>4. ASSUME ArmReclaim \/ StoreIndex \/ StoreElement \/ StoreElementFirst \/ StoreIndexLast
             \/ UNCHANGED vars
      PROVE  UNCHANGED <<taken, stray>>
  BY <1>4 DEF ArmReclaim, StoreIndex, StoreElement, StoreElementFirst, StoreIndexLast,
              vars, pruVars
<1> QED  BY <1>1, <1>2, <1>3, <1>4 DEF Next

LEMMA ComparisonIs ==
  ASSUME Types, ExactUnlessStray, StrayLate
  PROVE  AvailableMeansOffered
<1>0. taken \in Nat /\ posts \in Nat /\ taken <= posts /\ IdxMod \in Nat
  BY Numbers, Constants
<1>1. ASSUME ~stray, taken < posts PROVE lastAvail # availIdx
  <2>1. Exact /\ posts - taken < IdxMod
    BY <1>1, ExactBounds DEF ExactUnlessStray
  <2>2. taken % IdxMod # posts % IdxMod
    BY <1>0, <1>1, <2>1, Constants, ModDistinct
  <2>3. lastAvail % IdxMod = taken % IdxMod
    BY <1>0, <2>1, LastLow DEF Exact
  <2>4. availIdx % IdxMod = posts % IdxMod
    BY <1>0, <2>1, Constants, ModTwice DEF Exact
  <2> QED  BY <2>2, <2>3, <2>4
<1>2. ASSUME taken < IdxMod PROVE ~stray /\ (lastAvail # availIdx => taken < posts)
  <2>1. ~stray
    BY <1>0, <1>2 DEF StrayLate
  <2> QED  BY <1>0, <1>2, <2>1, SameWhenNone DEF ExactUnlessStray
<1> QED  BY <1>1, <1>2 DEF AvailableMeansOffered

--------------------------------------------------------------------------------
(***************************************************************************)
(* Who has the buffer of the i-th post: the used ring, the PRU or the      *)
(* available ring, until the ARM has it again.                             *)
(***************************************************************************)
Desc(i) == IF i < Done THEN usedRing[Slot(i)]
           ELSE IF i < taken THEN head ELSE availRing[Slot(i)]

Out == reclaimed .. posts - 1

Owned ==
  /\ reclaimed <= Done
  /\ pc = "element_stored" => usedRing[Slot(Done)] = head
  /\ \A i \in Out : Desc(i) \notin armHas
  /\ \A i, j \in Out : i < j => Desc(i) # Desc(j)
  /\ \A x \in Heads \ armHas : \E i \in Out : Desc(i) = x
  /\ Cardinality(armHas) = Num - (posts - reclaimed)

(* The slot of an index is the slot of the count it stands for.            *)
LEMMA SlotIs ==
  ASSUME Types, Exact
  PROVE  /\ Slot(availIdx) = Slot(posts) /\ Slot(lastAvail) = Slot(taken)
         /\ Slot(armSeen) = Slot(reclaimed) /\ Slot(usedIdx) = Slot(Used)
         /\ Used > 0 => Slot(usedIdx + IdxMod - 1) = Slot(Used - 1)
<1>0. /\ availIdx \in Nat /\ lastAvail \in Nat /\ armSeen \in Nat /\ usedIdx \in Nat
      /\ posts \in Nat /\ taken \in Nat /\ reclaimed \in Nat /\ Used \in Nat
  BY Numbers, ExactBounds
<1>1. ASSUME NEW i \in Nat PROVE Slot(i % IdxMod) = Slot(i)
  <2>1. i % IdxMod \in Nat /\ (i % IdxMod) % IdxMod = i % IdxMod
    BY Constants, ModTwice
  <2> QED  BY <2>1, SlotSame
<1>2. Slot(lastAvail) = Slot(taken)
  <2>1. lastAvail % IdxMod = taken % IdxMod
    BY <1>0, LastLow DEF Exact
  <2> QED  BY <1>0, <2>1, SlotSame
<1>3. ASSUME Used > 0 PROVE Slot(usedIdx + IdxMod - 1) = Slot(Used - 1)
  <2> DEFINE u == Used - 1  k == usedIdx + IdxMod - 1
  <2>1. u \in Nat /\ k \in Nat
    BY <1>0, <1>3, Constants
  <2>2. (k + 1) % IdxMod = (u + 1) % IdxMod
    <3>1. usedIdx \in 0 .. IdxMod - 1 /\ usedIdx = Used % IdxMod
      BY DEF Types, Exact
    <3>2. k + 1 = IdxMod * 1 + usedIdx /\ u + 1 = Used /\ 1 \in Int
      BY <1>0, Constants
    <3>3. (k + 1) % IdxMod = usedIdx
      BY <3>1, <3>2, Constants, ModUnique
    <3> QED  BY <3>1, <3>2, <3>3
  <2> HIDE DEF u, k
  <2>3. k % IdxMod = u % IdxMod
    BY <2>1, <2>2, Constants, ModBack
  <2> QED  BY <2>1, <2>3, SlotSame DEF u, k
<1> QED  BY <1>0, <1>1, <1>2, <1>3 DEF Exact

LEMMA OwnedInit == Init => Owned
<1> SUFFICES ASSUME Init PROVE Owned
  OBVIOUS
<1>1. reclaimed = 0 /\ posts = 0 /\ Done = 0 /\ armHas = Heads /\ pc = "idle"
  BY DEF Init, Done
<1>2. Out = {}
  BY <1>1 DEF Out
<1> QED  BY <1>1, <1>2, HeadsFinite, Constants DEF Owned

(* A step of the PRU moves a buffer on and leaves every buffer with its post.*)
LEMMA OwnedMoves ==
  ASSUME Owned, UNCHANGED <<armHas, reclaimed, posts>>,
         \A i \in Out : Desc(i)' = Desc(i),
         reclaimed <= Done', pc' = "element_stored" => usedRing'[Slot(Done')] = head'
  PROVE  Owned'
<1>1. Out' = Out
  BY DEF Out
<1> QED  BY <1>1 DEF Owned

LEMMA OwnedPost ==
  ASSUME Types, Exact, Owned, NEW b \in Heads, ArmPost(b)
  PROVE  /\ Owned' /\ availRing'[Slot(posts)] = b
         /\ \A i \in taken .. posts - 1 : availRing'[Slot(i)] = availRing[Slot(i)]
<1>0. /\ reclaimed \in Nat /\ posts \in Nat /\ taken \in Nat /\ Done \in Nat
      /\ reclaimed <= Done /\ Done <= taken /\ taken <= posts /\ reclaimed <= taken
      /\ Cardinality(armHas) \in Nat
  BY ExactBounds, ArmFinite DEF Owned
<1>1. /\ posts' = posts + 1 /\ b \in armHas /\ armHas' = armHas \ {b}
      /\ availRing' = [availRing EXCEPT ![Slot(posts)] = b]
      /\ UNCHANGED <<reclaimed, usedRing, usedIdx, taken, pc, head>>
  BY SlotIs DEF ArmPost, pruVars
<1>2. Done' = Done /\ posts < reclaimed + Num /\ Cardinality(armHas') = Cardinality(armHas) - 1
  BY CountPost
<1>3. availRing'[Slot(posts)] = b
  BY <1>0, <1>1, SlotType DEF Types
<1>4. ASSUME NEW i \in Out PROVE availRing'[Slot(i)] = availRing[Slot(i)]
  <2>1. i \in Nat /\ i < posts /\ posts - i < Num
    BY <1>0, <1>2, Constants DEF Out
  <2>2. Slot(i) # Slot(posts) /\ Slot(i) \in Heads
    BY <1>0, <2>1, SlotDistinct, SlotType
  <2> QED  BY <1>1, <2>2 DEF Types
<1>5. ASSUME NEW i \in Out PROVE Desc(i)' = Desc(i)
  BY <1>1, <1>2, <1>4 DEF Desc
<1>6. ASSUME NEW i \in Nat, i = posts PROVE Desc(i)' = b
  <2>1. ~(i < Done) /\ ~(i < taken)
    BY <1>0, <1>6
  <2>2. Desc(i)' = availRing'[Slot(i)]
    BY <1>1, <1>2, <2>1 DEF Desc
  <2> QED  BY <1>3, <1>6, <2>2
<1>7. Out' = Out \cup {posts} /\ posts \notin Out
  BY <1>0, <1>1 DEF Out
<1>8. Owned'
  <2>1. reclaimed' <= Done' /\ (pc' = "element_stored" => usedRing'[Slot(Done')] = head')
    BY <1>1, <1>2 DEF Owned
  <2>2. ASSUME NEW i \in Out' PROVE Desc(i)' \notin armHas'
    <3>1. CASE i \in Out
      BY <1>1, <1>5, <3>1 DEF Owned
    <3>2. CASE i = posts
      BY <1>0, <1>1, <1>6, <3>2
    <3> QED  BY <1>7, <3>1, <3>2
  <2>3. ASSUME NEW i \in Out', NEW j \in Out', i < j PROVE Desc(i)' # Desc(j)'
    <3>1. i \in Out
      BY <1>0, <1>1, <2>3 DEF Out
    <3>2. CASE j \in Out
      BY <1>5, <2>3, <3>1, <3>2 DEF Owned
    <3>3. CASE j = posts
      BY <1>0, <1>1, <1>5, <1>6, <3>1, <3>3 DEF Owned
    <3> QED  BY <1>7, <3>2, <3>3
  <2>4. ASSUME NEW x \in Heads \ armHas' PROVE \E i \in Out' : Desc(i)' = x
    <3>1. CASE x = b
      <4> DEFINE n == posts
      <4>1. n \in Nat /\ n \in Out'
        BY <1>0, <1>7
      <4> QED  BY <1>0, <1>6, <1>7, <3>1
    <3>2. CASE x # b
      <4>1. PICK i \in Out : Desc(i) = x
        BY <1>1, <3>2, <2>4 DEF Owned
      <4> QED  BY <1>5, <1>7, <4>1
    <3> QED  BY <3>1, <3>2
  <2>5. Cardinality(armHas') = Num - (posts' - reclaimed')
    BY <1>0, <1>1, <1>2, Constants DEF Owned
  <2> QED  BY <2>1, <2>2, <2>3, <2>4, <2>5 DEF Owned
<1>9. \A i \in taken .. posts - 1 : i \in Out
  BY <1>0 DEF Out
<1> QED  BY <1>3, <1>4, <1>8, <1>9

LEMMA OwnedReclaim ==
  ASSUME Types, Exact, Owned, ArmReclaim, ~early'
  PROVE  /\ Owned' /\ reclaimed < Done
         /\ armHas' = armHas \cup {usedRing[Slot(reclaimed)]}
<1>0. /\ reclaimed \in Nat /\ posts \in Nat /\ taken \in Nat /\ Done \in Nat
      /\ reclaimed <= Done /\ Done <= taken /\ taken <= posts
      /\ IsFiniteSet(armHas) /\ Cardinality(armHas) \in Nat
  BY ExactBounds, ArmFinite DEF Owned
<1>1. /\ armHas' = armHas \cup {usedRing[Slot(reclaimed)]}
      /\ UNCHANGED <<availRing, posts, usedRing, usedIdx, taken, pc, head>>
  BY SlotIs DEF ArmReclaim, pruVars
<1>2. /\ reclaimed' = reclaimed + 1 /\ Done' = Done /\ Used' = Used /\ reclaimed' <= Used'
      /\ ~(pc = "index_stored" /\ reclaimed' = Used)
  BY CountReclaim DEF Exact
<1>3. reclaimed < Done
  BY <1>0, <1>2 DEF Used
<1>4. \A i \in Nat : Desc(i)' = Desc(i)
  BY <1>1, <1>2 DEF Desc
<1> DEFINE d == usedRing[Slot(reclaimed)]
<1>5. /\ reclaimed \in Out /\ Desc(reclaimed) = d
      /\ Out' = Out \ {reclaimed} /\ Out \subseteq Nat
  BY <1>0, <1>1, <1>2, <1>3 DEF Out, Desc
<1>6. d \notin armHas
  BY <1>5 DEF Owned
<1>7. Cardinality(armHas') = Cardinality(armHas) + 1
  BY <1>0, <1>1, <1>6, FS_AddElement
<1> HIDE DEF d
<1>8. Owned'
  <2>1. reclaimed' <= Done' /\ (pc' = "element_stored" => usedRing'[Slot(Done')] = head')
    BY <1>0, <1>1, <1>2, <1>3 DEF Owned
  <2>2. ASSUME NEW i \in Out' PROVE Desc(i)' \notin armHas'
    <3>1. i \in Out /\ i \in Nat /\ reclaimed < i
      BY <1>0, <1>1, <1>2, <2>2 DEF Out
    <3>2. Desc(i) # d /\ Desc(i) \notin armHas
      BY <1>5, <3>1 DEF Owned
    <3> QED  BY <1>1, <1>4, <3>1, <3>2 DEF d
  <2>3. ASSUME NEW i \in Out', NEW j \in Out', i < j PROVE Desc(i)' # Desc(j)'
    BY <1>4, <1>5, <2>3 DEF Owned
  <2>4. ASSUME NEW x \in Heads \ armHas' PROVE \E i \in Out' : Desc(i)' = x
    <3>1. x \in Heads \ armHas /\ x # d
      BY <1>1, <2>4 DEF d
    <3>2. PICK i \in Out : Desc(i) = x
      BY <3>1 DEF Owned
    <3>3. i \in Out' /\ i \in Nat
      BY <1>5, <3>1, <3>2
    <3> QED  BY <1>4, <3>2, <3>3
  <2>5. Cardinality(armHas') = Num - (posts' - reclaimed')
    BY <1>0, <1>1, <1>2, <1>7, Constants DEF Owned
  <2> QED  BY <2>1, <2>2, <2>3, <2>4, <2>5 DEF Owned
<1> QED  BY <1>1, <1>3, <1>8

LEMMA OwnedTake ==
  ASSUME Types, Exact, Owned, GetAvail, ~stray'
  PROVE  Owned' /\ head' = availRing[Slot(taken)]
<1>0. taken \in Nat /\ Done \in Nat /\ posts \in Nat /\ reclaimed \in Nat
  BY ExactBounds
<1>1. /\ head' = availRing[Slot(taken)]
      /\ UNCHANGED <<availRing, usedRing, usedIdx, posts, reclaimed, armHas>>
  BY SlotIs DEF GetAvail, armVars
<1>2. pc = "idle" /\ pc' = "holding" /\ taken' = taken + 1 /\ Done' = Done /\ taken = Done
  BY CountTake DEF Done
<1>3. ASSUME NEW i \in Out PROVE Desc(i)' = Desc(i)
  <2>1. i \in Int
    BY <1>0 DEF Out
  <2>2. CASE i < Done
    BY <1>1, <1>2, <2>2 DEF Desc
  <2>3. CASE i = Done
    BY <1>0, <1>1, <1>2, <2>3 DEF Desc
  <2>4. CASE i > Done
    BY <1>0, <1>1, <1>2, <2>1, <2>4 DEF Desc
  <2> QED  BY <1>0, <2>1, <2>2, <2>3, <2>4
<1>4. reclaimed <= Done' /\ pc' # "element_stored"
  BY <1>2 DEF Owned
<1> QED  BY <1>1, <1>3, <1>4, OwnedMoves

(* A store of the element that follows those done does not touch them.     *)
LEMMA ElementSlot ==
  ASSUME Types, Exact, Owned, taken = Done + 1,
         usedRing' = [usedRing EXCEPT ![Slot(Done)] = head]
  PROVE  /\ usedRing'[Slot(Done)] = head
         /\ \A i \in reclaimed .. Done - 1 : usedRing'[Slot(i)] = usedRing[Slot(i)]
<1>0. /\ reclaimed \in Nat /\ posts \in Nat /\ Done \in Nat
      /\ Done + 1 <= posts /\ posts <= reclaimed + Num
  BY ExactBounds
<1>1. Slot(Done) \in Heads /\ usedRing \in [Heads -> Heads]
  BY <1>0, SlotType DEF Types
<1>2. ASSUME NEW i \in reclaimed .. Done - 1 PROVE usedRing'[Slot(i)] = usedRing[Slot(i)]
  <2>1. i \in Nat /\ i < Done /\ Done - i < Num
    BY <1>0, Constants
  <2>2. Slot(i) # Slot(Done) /\ Slot(i) \in Heads
    BY <1>0, <2>1, SlotDistinct, SlotType
  <2> QED  BY <1>1, <2>2
<1> QED  BY <1>1, <1>2

LEMMA OwnedStore ==
  ASSUME Types, Exact, Owned,
         StoreIndex \/ StoreElement \/ StoreElementFirst \/ StoreIndexLast
  PROVE  /\ Owned' /\ UNCHANGED <<head, availRing, armHas>>
         /\ pc' = "idle" => usedRing'[Slot(Done)] = head
         /\ \A i \in reclaimed .. Done - 1 : usedRing'[Slot(i)] = usedRing[Slot(i)]
<1>0. /\ reclaimed \in Nat /\ posts \in Nat /\ taken \in Nat /\ Done \in Nat /\ Used \in Nat
      /\ reclaimed <= Done /\ Out \subseteq Nat /\ (\A i \in Out : reclaimed <= i)
  BY ExactBounds DEF Out, Owned
<1>1. UNCHANGED <<head, availRing, armHas>>
  BY DEF StoreIndex, StoreElement, StoreElementFirst, StoreIndexLast, armVars
<1>2. /\ pc # "idle" /\ taken = Done + 1 /\ UNCHANGED <<posts, taken, reclaimed>>
      /\ pc' # "idle" => Done' = Done
      /\ pc' = "idle" => Done' = Done + 1
  BY CountStore
<1>3. CASE StoreIndex
  <2>1. pc' = "index_stored" /\ usedRing' = usedRing
    BY <1>3 DEF StoreIndex
  <2>2. \A i \in Out : Desc(i)' = Desc(i)
    BY <1>1, <1>2, <2>1 DEF Desc
  <2> QED  BY <1>0, <1>1, <1>2, <2>1, <2>2, OwnedMoves
<1>4. CASE StoreElement
  <2>1. /\ pc = "index_stored" /\ pc' = "idle"
        /\ usedRing' = [usedRing EXCEPT ![Slot(usedIdx + IdxMod - 1)] = head]
    BY <1>4 DEF StoreElement
  <2>2. Slot(usedIdx + IdxMod - 1) = Slot(Done)
    <3>1. Used = Done + 1 /\ Used > 0 /\ Used - 1 = Done
      BY <1>0, <2>1 DEF Used
    <3> QED  BY <3>1, SlotIs
  <2>3. /\ usedRing'[Slot(Done)] = head
        /\ \A i \in reclaimed .. Done - 1 : usedRing'[Slot(i)] = usedRing[Slot(i)]
    BY <1>2, <2>1, <2>2, ElementSlot
  <2>4. ASSUME NEW i \in Out PROVE Desc(i)' = Desc(i)
    <3>1. CASE i < Done
      BY <1>0, <1>2, <2>1, <2>3, <3>1 DEF Desc
    <3>2. CASE i = Done
      BY <1>0, <1>2, <2>1, <2>3, <3>2 DEF Desc
    <3>3. CASE i > Done
      BY <1>0, <1>1, <1>2, <2>1, <3>3 DEF Desc
    <3> QED  BY <1>0, <3>1, <3>2, <3>3
  <2> QED  BY <1>0, <1>1, <1>2, <2>1, <2>3, <2>4, OwnedMoves
<1>5. CASE StoreElementFirst
  <2>1. /\ pc = "holding" /\ pc' = "element_stored"
        /\ usedRing' = [usedRing EXCEPT ![Slot(usedIdx)] = head]
    BY <1>5 DEF StoreElementFirst
  <2>2. Slot(usedIdx) = Slot(Done) /\ Done' = Done
    <3>1. Used = Done
      BY <2>1 DEF Used
    <3> QED  BY <1>2, <2>1, <3>1, SlotIs
  <2>3. /\ usedRing'[Slot(Done)] = head
        /\ \A i \in reclaimed .. Done - 1 : usedRing'[Slot(i)] = usedRing[Slot(i)]
    BY <1>2, <2>1, <2>2, ElementSlot
  <2>4. ASSUME NEW i \in Out PROVE Desc(i)' = Desc(i)
    <3>1. CASE i < Done
      BY <1>0, <1>2, <2>2, <2>3, <3>1 DEF Desc
    <3>2. CASE ~(i < Done)
      BY <1>1, <1>2, <2>2, <3>2 DEF Desc
    <3> QED  BY <3>1, <3>2
  <2> QED  BY <1>0, <1>1, <1>2, <2>1, <2>2, <2>3, <2>4, OwnedMoves
<1>6. CASE StoreIndexLast
  <2>1. pc = "element_stored" /\ pc' = "idle" /\ usedRing' = usedRing
    BY <1>6 DEF StoreIndexLast
  <2>2. usedRing[Slot(Done)] = head
    BY <2>1 DEF Owned
  <2>3. ASSUME NEW i \in Out PROVE Desc(i)' = Desc(i)
    <3>1. CASE i < Done
      BY <1>0, <1>2, <2>1, <3>1 DEF Desc
    <3>2. CASE i = Done
      BY <1>0, <1>2, <2>1, <2>2, <3>2 DEF Desc
    <3>3. CASE i > Done
      BY <1>0, <1>1, <1>2, <2>1, <3>3 DEF Desc
    <3> QED  BY <1>0, <3>1, <3>2, <3>3
  <2> QED  BY <1>0, <1>1, <1>2, <2>1, <2>2, <2>3, OwnedMoves
<1> QED  BY <1>3, <1>4, <1>5, <1>6

(* The invariant: the posts the ARM has not seen done have different       *)
(* descriptors, none of them the ARM's.                                    *)
OwnedUnlessEarly == early \/ stray \/ Owned

LEMMA OwnedNext ==
  ASSUME Types, ExactUnlessStray, OwnedUnlessEarly, [Next]_vars
  PROVE  OwnedUnlessEarly'
<1> SUFFICES ASSUME ~early', ~stray' PROVE Owned'
  BY DEF OwnedUnlessEarly
<1>1. Exact /\ Owned
  BY HistoryKept DEF OwnedUnlessEarly, ExactUnlessStray
<1>2. CASE UNCHANGED vars
  <2>1. /\ UNCHANGED <<armHas, reclaimed, posts, pc, Done>> /\ (\A i \in Out : Desc(i)' = Desc(i))
        /\ usedRing'[Slot(Done')] = usedRing[Slot(Done)] /\ head' = head
    BY <1>2 DEF vars, armVars, pruVars, Desc, Done
  <2>2. reclaimed <= Done' /\ (pc' = "element_stored" => usedRing'[Slot(Done')] = head')
    BY <1>1, <2>1 DEF Owned
  <2> QED  BY <1>1, <2>1, <2>2, OwnedMoves
<1> QED  BY <1>1, <1>2, OwnedPost, OwnedReclaim, OwnedTake, OwnedStore DEF Next

--------------------------------------------------------------------------------
(***************************************************************************)
(* The windows the properties look through: n slots of a ring from index i.*)
(***************************************************************************)
Segment(ring, i, n) == [k \in 1 .. n |-> ring[Slot(i + k - 1)]]

LEMMA WindowIs ==
  ASSUME NEW ring, NEW a \in Nat, NEW b \in Nat, a <= b, b - a < IdxMod,
         NEW i \in Nat, NEW j \in Nat, i % IdxMod = a % IdxMod, j % IdxMod = b % IdxMod
  PROVE  Window(ring, i, j) = Segment(ring, a, b - a)
<1>1. Distance(i, j) = b - a
  BY DistanceIs
<1>2. ASSUME NEW k \in 1 .. b - a PROVE Slot(i + k - 1) = Slot(a + k - 1)
  <2> DEFINE n == k - 1
  <2>1. n \in Nat /\ i + k - 1 = i + n /\ a + k - 1 = a + n
    OBVIOUS
  <2> HIDE DEF n
  <2>2. Slot(i + n) = Slot(a + n)
    BY <2>1, SlotAdd
  <2> QED  BY <2>1, <2>2
<1> QED  BY <1>1, <1>2 DEF Window, Segment

LEMMA SegmentType ==
  ASSUME NEW ring \in [Heads -> Heads], NEW i \in Nat, NEW n \in Nat
  PROVE  /\ Segment(ring, i, n) \in Seq(Heads) /\ Len(Segment(ring, i, n)) = n
         /\ \A k \in 1 .. n : Segment(ring, i, n)[k] = ring[Slot(i + k - 1)]
BY SlotType DEF Segment

LEMMA AppendIs ==
  ASSUME NEW S, NEW u \in Seq(S), NEW b \in S
  PROVE  /\ Append(u, b) \in Seq(S) /\ Len(Append(u, b)) = Len(u) + 1
         /\ Append(u, b)[Len(u) + 1] = b
         /\ \A k \in 1 .. Len(u) : Append(u, b)[k] = u[k]
OBVIOUS

LEMMA SegmentAppend ==
  ASSUME NEW r \in [Heads -> Heads], NEW q \in [Heads -> Heads], NEW i \in Nat, NEW n \in Nat,
         \A k \in i .. i + n - 1 : q[Slot(k)] = r[Slot(k)]
  PROVE  Segment(q, i, n + 1) = Append(Segment(r, i, n), q[Slot(i + n)])
<1> DEFINE s == Segment(q, i, n + 1)  t == Append(Segment(r, i, n), q[Slot(i + n)])
<1>1. s \in Seq(Heads) /\ Len(s) = n + 1 /\ (\A k \in 1 .. n + 1 : s[k] = q[Slot(i + k - 1)])
  <2>1. n + 1 \in Nat
    OBVIOUS
  <2> QED  BY ONLY <2>1, SegmentType, q \in [Heads -> Heads], i \in Nat
<1>2. /\ t \in Seq(Heads) /\ Len(t) = n + 1 /\ t[n + 1] = q[Slot(i + n)]
      /\ \A k \in 1 .. n : t[k] = r[Slot(i + k - 1)]
  <2> DEFINE u == Segment(r, i, n)  b == q[Slot(i + n)]
  <2>1. u \in Seq(Heads) /\ Len(u) = n /\ (\A k \in 1 .. n : u[k] = r[Slot(i + k - 1)])
    BY SegmentType
  <2>2. b \in Heads
    BY SlotType
  <2>3. t = Append(u, b)
    OBVIOUS
  <2> HIDE DEF u, b, t
  <2>4. t \in Seq(Heads) /\ Len(t) = n + 1 /\ t[n + 1] = b /\ (\A k \in 1 .. n : t[k] = u[k])
    BY <2>1, <2>2, <2>3, AppendIs
  <2> QED  BY <2>1, <2>4 DEF b
<1> HIDE DEF s, t
<1>3. ASSUME NEW k \in 1 .. n + 1 PROVE s[k] = t[k]
  <2>1. CASE k = n + 1
    <3>1. i + (n + 1) - 1 = i + n /\ n + 1 \in 1 .. n + 1
      OBVIOUS
    <3>2. s[n + 1] = q[Slot(i + (n + 1) - 1)]
      BY <1>1, <3>1
    <3> QED  BY <1>2, <2>1, <3>1, <3>2
  <2>2. CASE k \in 1 .. n
    <3>1. i + k - 1 \in i .. i + n - 1
      BY <2>2
    <3> QED  BY <1>1, <1>2, <2>2, <3>1
  <2> QED  BY <2>1, <2>2
<1>4. s = t
  BY <1>1, <1>2, <1>3
<1> QED  BY <1>4 DEF s, t

LEMMA SegmentTail ==
  ASSUME NEW r \in [Heads -> Heads], NEW i \in Nat, NEW n \in Nat, n > 0
  PROVE  /\ Segment(r, i, n) # <<>> /\ Head(Segment(r, i, n)) = r[Slot(i)]
         /\ Segment(r, i + 1, n - 1) = Tail(Segment(r, i, n))
<1> DEFINE s == Segment(r, i + 1, n - 1)  u == Segment(r, i, n)  t == Tail(u)
<1>1. s \in Seq(Heads) /\ Len(s) = n - 1 /\ (\A k \in 1 .. n - 1 : s[k] = r[Slot(i + k)])
  <2> DEFINE j == i + 1  p == n - 1
  <2>1. j \in Nat /\ p \in Nat /\ (\A k \in 1 .. p : j + k - 1 = i + k)
    OBVIOUS
  <2> HIDE DEF j, p
  <2>2. /\ Segment(r, j, p) \in Seq(Heads) /\ Len(Segment(r, j, p)) = p
        /\ \A k \in 1 .. p : Segment(r, j, p)[k] = r[Slot(j + k - 1)]
    BY <2>1, SegmentType
  <2> QED  BY <2>1, <2>2 DEF j, p
<1>2. u \in Seq(Heads) /\ Len(u) = n /\ (\A k \in 1 .. n : u[k] = r[Slot(i + k - 1)])
  BY SegmentType
<1> HIDE DEF s, u
<1>3. u # <<>> /\ Head(u) = r[Slot(i)]
  BY <1>2
<1>4. t \in Seq(Heads) /\ Len(t) = n - 1 /\ (\A k \in 1 .. n - 1 : t[k] = u[k + 1])
  BY <1>2, <1>3
<1> HIDE DEF t
<1>5. ASSUME NEW k \in 1 .. n - 1 PROVE s[k] = t[k]
  <2>1. k + 1 \in 1 .. n /\ i + (k + 1) - 1 = i + k
    OBVIOUS
  <2>2. u[k + 1] = r[Slot(i + (k + 1) - 1)]
    BY <1>2, <2>1
  <2> QED  BY <1>1, <1>4, <2>1, <2>2
<1>6. s = t
  BY <1>1, <1>4, <1>5
<1> QED  BY <1>3, <1>6 DEF s, t, u

(* What is offered is what the ARM has posted and the PRU not taken.       *)
LEMMA OfferedIs ==
  ASSUME Types, Exact
  PROVE  Offered = Segment(availRing, taken, posts - taken)
<1>1. /\ posts \in Nat /\ taken \in Nat /\ taken <= posts /\ posts - taken < IdxMod
      /\ lastAvail \in Nat /\ availIdx \in Nat
  BY ExactBounds, Numbers
<1>2. lastAvail % IdxMod = taken % IdxMod /\ availIdx % IdxMod = posts % IdxMod
  BY <1>1, LastLow, Constants, ModTwice DEF Exact
<1> QED  BY <1>1, <1>2, WindowIs DEF Offered

(* What is returned is what the PRU has done with and the ARM not seen.    *)
LEMMA ReturnedIs ==
  ASSUME Types, Exact, Owned
  PROVE  Returned = Segment(usedRing, reclaimed, Done - reclaimed)
<1> DEFINE j == IF pc = "index_stored" THEN usedIdx + IdxMod - 1 ELSE usedIdx
<1>1. /\ reclaimed \in Nat /\ Done \in Nat /\ reclaimed <= Done /\ Done - reclaimed < IdxMod
      /\ armSeen \in Nat /\ usedIdx \in Nat /\ j \in Nat
  BY ExactBounds, Numbers, Constants DEF Owned
<1>2. armSeen % IdxMod = reclaimed % IdxMod
  BY <1>1, Constants, ModTwice DEF Exact
<1>3. j % IdxMod = Done % IdxMod
  <2>1. CASE pc = "index_stored"
    <3>1. Used = Done + 1 /\ (j + 1) % IdxMod = Used % IdxMod
      <4>1. Used = Done + 1 /\ usedIdx = Used % IdxMod
        BY <2>1 DEF Used, Exact
      <4>2. j + 1 = IdxMod * 1 + usedIdx /\ usedIdx \in 0 .. IdxMod - 1 /\ 1 \in Int
        BY <1>1, <2>1, Constants DEF Types
      <4> HIDE DEF j
      <4> QED  BY <4>1, <4>2, Constants, ModUnique
    <3> HIDE DEF j
    <3> QED  BY <1>1, <3>1, Constants, ModBack
  <2>2. CASE pc # "index_stored"
    BY <1>1, <2>2, Constants, ModTwice DEF Exact, Used
  <2> QED  BY <2>1, <2>2
<1>4. Returned = Window(usedRing, armSeen, j)
  BY DEF Returned
<1> HIDE DEF j
<1> QED  BY <1>1, <1>2, <1>3, <1>4, WindowIs

--------------------------------------------------------------------------------
(***************************************************************************)
(* Theorems.                                                               *)
(***************************************************************************)

(* What the comparison of pru_virtqueue_get_avail_buf is good for: an      *)
(* available buffer is never overlooked, however often the indices have    *)
(* wrapped, and none is seen that is not there before 2^16 were taken.     *)
THEOREM ComparisonExact == Spec => []AvailableMeansOffered
<1>1. Init => ExactUnlessStray /\ StrayLate
  BY ExactInit DEF ExactUnlessStray, StrayLate, Init
<1>2. Types /\ ExactUnlessStray /\ StrayLate /\ [Next]_vars => ExactUnlessStray' /\ StrayLate'
  BY ExactNext, StrayLateNext
<1>3. Types /\ ExactUnlessStray /\ StrayLate => AvailableMeansOffered
  BY ComparisonIs
<1> QED  BY <1>1, <1>2, <1>3, TypeCorrect, TypesOnly, PTL DEF Spec

(* Until the ARM consumes an element too early or the PRU takes a stray    *)
(* buffer, every descriptor is in one place.                               *)
THEOREM OneOwner == Spec => []SingleOwner
<1>1. Init => ExactUnlessStray /\ OwnedUnlessEarly
  BY ExactInit, OwnedInit DEF ExactUnlessStray, OwnedUnlessEarly
<1>2. Types /\ ExactUnlessStray /\ OwnedUnlessEarly /\ [Next]_vars
        => ExactUnlessStray' /\ OwnedUnlessEarly'
  BY ExactNext, OwnedNext
<1>3. Types /\ ExactUnlessStray /\ OwnedUnlessEarly => SingleOwner
  <2> SUFFICES ASSUME Types, Exact, Owned
               PROVE  /\ Cardinality(armHas) + Len(Offered) + Cardinality(Held) + Len(Returned) = Num
                      /\ armHas \cup Members(Offered) \cup Held \cup Members(Returned) = Heads
    BY DEF SingleOwner, OwnedUnlessEarly, ExactUnlessStray
  <2>0. /\ reclaimed \in Nat /\ posts \in Nat /\ taken \in Nat /\ Done \in Nat
        /\ reclaimed <= Done /\ Done <= taken /\ taken <= posts
        /\ Cardinality(armHas) \in Nat
    BY ExactBounds, ArmFinite DEF Owned
  <2> DEFINE n == posts - taken  m == Done - reclaimed
  <2>1. n \in Nat /\ m \in Nat
    BY <2>0
  <2>2. /\ Len(Offered) = n /\ Offered \in Seq(Heads)
        /\ \A k \in 1 .. n : Offered[k] = availRing[Slot(taken + k - 1)]
    <3>1. Offered = Segment(availRing, taken, n) /\ availRing \in [Heads -> Heads]
      BY OfferedIs DEF Types
    <3> QED  BY ONLY <2>0, <2>1, <3>1, SegmentType
  <2>3. /\ Len(Returned) = m /\ Returned \in Seq(Heads)
        /\ \A k \in 1 .. m : Returned[k] = usedRing[Slot(reclaimed + k - 1)]
    <3>1. Returned = Segment(usedRing, reclaimed, m) /\ usedRing \in [Heads -> Heads]
      BY <2>0, ReturnedIs DEF Types
    <3> QED  BY ONLY <2>0, <2>1, <3>1, SegmentType
  <2>4. Cardinality(Held) = taken - Done
    <3>1. CASE pc = "idle"
      BY <2>0, <3>1, FS_EmptySet DEF Held, Done
    <3>2. CASE pc # "idle"
      <4>1. Held = {head} /\ taken = Done + 1
        BY <2>0, <3>2 DEF Held, Done
      <4>2. Cardinality({head}) = 1
        BY FS_Singleton
      <4> QED  BY <2>0, <4>1, <4>2
    <3> QED  BY <3>1, <3>2
  <2>5. Cardinality(armHas) = Num - (posts - reclaimed)
    BY DEF Owned
  <2>6. Cardinality(armHas) + Len(Offered) + Cardinality(Held) + Len(Returned) = Num
    BY <2>0, <2>2, <2>3, <2>4, <2>5, Constants
  <2>7. armHas \cup Members(Offered) \cup Held \cup Members(Returned) \subseteq Heads
    BY <2>2, <2>3 DEF Members, Held, Types
  <2>8. ASSUME NEW x \in Heads, x \notin armHas
        PROVE  x \in Members(Offered) \cup Held \cup Members(Returned)
    <3>1. PICK i \in Out : Desc(i) = x
      BY <2>8 DEF Owned
    <3>2. i \in Nat /\ reclaimed <= i /\ i < posts
      BY <2>0, <3>1 DEF Out
    <3>3. CASE i < Done
      <4> DEFINE k == i - reclaimed + 1
      <4>1. k \in 1 .. m /\ reclaimed + k - 1 = i
        BY <2>0, <3>2, <3>3
      <4>2. Returned[k] = x
        BY <2>3, <3>1, <3>3, <4>1 DEF Desc
      <4> QED  BY <2>1, <2>3, <4>1, <4>2 DEF Members
    <3>4. CASE i >= Done /\ i < taken
      <4>1. pc # "idle" /\ x = head
        BY <2>0, <3>1, <3>2, <3>4 DEF Desc, Done
      <4> QED  BY <4>1 DEF Held
    <3>5. CASE i >= taken
      <4> DEFINE k == i - taken + 1
      <4>1. k \in 1 .. n /\ taken + k - 1 = i
        BY <2>0, <3>2, <3>5
      <4>2. Offered[k] = x
        BY <2>0, <2>2, <3>1, <3>2, <3>5, <4>1 DEF Desc
      <4> QED  BY <2>1, <2>2, <4>1, <4>2 DEF Members
    <3> QED  BY <2>0, <3>2, <3>3, <3>4, <3>5
  <2> QED  BY <2>6, <2>7, <2>8
<1> QED  BY <1>1, <1>2, <1>3, TypeCorrect, TypesOnly, PTL DEF Spec

--------------------------------------------------------------------------------
(***************************************************************************)
(* The rings implement the loan, step by step.                             *)
(***************************************************************************)
LEMMA SegmentSame ==
  ASSUME NEW r \in [Heads -> Heads], NEW q \in [Heads -> Heads], NEW i \in Nat, NEW n \in Nat,
         \A k \in i .. i + n - 1 : q[Slot(k)] = r[Slot(k)]
  PROVE  Segment(q, i, n) = Segment(r, i, n)
<1>1. ASSUME NEW k \in 1 .. n PROVE q[Slot(i + k - 1)] = r[Slot(i + k - 1)]
  <2>1. i + k - 1 \in i .. i + n - 1
    OBVIOUS
  <2> QED  BY <2>1
<1> QED  BY <1>1 DEF Segment

(* What the four parts of the loan are, before a step and after it.        *)
LoanIs ==
  /\ Offered = Segment(availRing, taken, posts - taken)
  /\ Returned = Segment(usedRing, reclaimed, Done - reclaimed)
  /\ reclaimed \in Nat /\ posts \in Nat /\ taken \in Nat /\ Done \in Nat
  /\ reclaimed <= Done /\ Done <= taken /\ taken <= posts
  /\ availRing \in [Heads -> Heads] /\ usedRing \in [Heads -> Heads]

LEMMA LoanHere ==
  Types /\ Exact /\ Owned => LoanIs
<1> SUFFICES ASSUME Types, Exact, Owned PROVE LoanIs
  OBVIOUS
<1>1. /\ reclaimed \in Nat /\ posts \in Nat /\ taken \in Nat /\ Done \in Nat
      /\ reclaimed <= Done /\ Done <= taken /\ taken <= posts
  BY ExactBounds DEF Owned
<1> QED  BY <1>1, OfferedIs, ReturnedIs DEF LoanIs, Types

LEMMA LoanPost ==
  ASSUME Types, Exact, Owned, LoanIs, LoanIs',
         NEW b \in Heads, ArmPost(b)
  PROVE  Loan!Lend(b)
<1> DEFINE n == posts - taken
<1>1. /\ posts' = posts + 1 /\ b \in armHas /\ armHas' = armHas \ {b}
      /\ UNCHANGED <<reclaimed, usedRing, usedIdx, taken, pc, head>>
      /\ availRing'[Slot(posts)] = b
      /\ \A i \in taken .. posts - 1 : availRing'[Slot(i)] = availRing[Slot(i)]
  BY OwnedPost, CountPost DEF ArmPost, pruVars
<1>2. n \in Nat /\ taken + n = posts /\ posts' - taken' = n + 1
  BY <1>1 DEF LoanIs
<1> HIDE DEF n
<1>3. Offered' = Segment(availRing', taken, n + 1)
  BY <1>1, <1>2 DEF LoanIs
<1>4. Segment(availRing', taken, n + 1) = Append(Segment(availRing, taken, n), b)
  <2>1. \A i \in taken .. taken + n - 1 : availRing'[Slot(i)] = availRing[Slot(i)]
    <3>1. taken + n - 1 = posts - 1
      BY <1>2 DEF LoanIs
    <3> QED  BY <1>1, <3>1
  <2>2. availRing'[Slot(taken + n)] = b
    BY <1>1, <1>2
  <2>3. availRing \in [Heads -> Heads] /\ availRing' \in [Heads -> Heads] /\ taken \in Nat
    BY DEF LoanIs
  <2> QED  BY <1>2, <2>1, <2>2, <2>3, SegmentAppend
<1>5. Offered = Segment(availRing, taken, n)
  BY DEF LoanIs, n
<1>6. Offered' = Append(Offered, b)
  BY <1>3, <1>4, <1>5
<1>7. Held' = Held /\ Returned' = Returned
  BY <1>1 DEF Held, LoanIs, Done
<1> QED  BY <1>1, <1>6, <1>7 DEF Loan!Lend

LEMMA LoanReclaim ==
  ASSUME Types, Exact, Owned, LoanIs, LoanIs', ArmReclaim, ~early'
  PROVE  Loan!Reclaim
<1> DEFINE m == Done - reclaimed
<1>1. /\ reclaimed < Done /\ reclaimed' = reclaimed + 1
      /\ armHas' = armHas \cup {usedRing[Slot(reclaimed)]}
      /\ UNCHANGED <<availRing, posts, usedRing, usedIdx, taken, pc, head>>
  BY OwnedReclaim, CountReclaim DEF ArmReclaim, pruVars
<1>2. Done' = Done
  BY <1>1 DEF Done
<1>3. m \in Nat /\ m > 0 /\ Done' - reclaimed' = m - 1
  BY <1>1, <1>2 DEF LoanIs
<1> HIDE DEF m
<1>4. Returned = Segment(usedRing, reclaimed, m) /\ Returned' = Segment(usedRing, reclaimed + 1, m - 1)
  BY <1>1, <1>3 DEF LoanIs, m
<1>5. usedRing \in [Heads -> Heads] /\ reclaimed \in Nat
  BY DEF LoanIs
<1>6. Returned # <<>> /\ Head(Returned) = usedRing[Slot(reclaimed)] /\ Returned' = Tail(Returned)
  BY <1>3, <1>4, <1>5, SegmentTail
<1>7. Held' = Held /\ Offered' = Offered
  BY <1>1 DEF Held, LoanIs
<1> QED  BY <1>1, <1>6, <1>7 DEF Loan!Reclaim

LEMMA LoanTake ==
  ASSUME Types, Exact, Owned, LoanIs, LoanIs', GetAvail, ~stray'
  PROVE  Loan!Take
<1> DEFINE n == posts - taken
<1>1. /\ taken < posts /\ taken' = taken + 1 /\ pc = "idle" /\ pc' = "holding"
      /\ head' = availRing[Slot(taken)]
      /\ UNCHANGED <<availRing, posts, armHas, usedRing, usedIdx, reclaimed>>
  BY OwnedTake, CountTake DEF GetAvail, armVars
<1>2. n \in Nat /\ n > 0 /\ posts' - taken' = n - 1
  BY <1>1 DEF LoanIs
<1> HIDE DEF n
<1>3. Offered = Segment(availRing, taken, n) /\ Offered' = Segment(availRing, taken + 1, n - 1)
  BY <1>1, <1>2 DEF LoanIs, n
<1>4. availRing \in [Heads -> Heads] /\ taken \in Nat
  BY DEF LoanIs
<1>5. Offered # <<>> /\ Head(Offered) = head' /\ Offered' = Tail(Offered)
  BY <1>1, <1>2, <1>3, <1>4, SegmentTail
<1>6. Held = {} /\ Held' = {head'}
  BY <1>1 DEF Held
<1>7. Returned' = Returned
  BY <1>1 DEF LoanIs, Done
<1> QED  BY <1>1, <1>5, <1>6, <1>7 DEF Loan!Take

(* The buffer is given back with the second of the two stores.             *)
LEMMA LoanStore ==
  ASSUME Types, Exact, Owned, LoanIs, LoanIs',
         StoreIndex \/ StoreElement \/ StoreElementFirst \/ StoreIndexLast
  PROVE  Loan!GiveBack(head) \/ UNCHANGED Loan!loan
<1> DEFINE m == Done - reclaimed
<1>1. /\ pc # "idle" /\ UNCHANGED <<head, taken, availRing, posts, reclaimed, armHas>>
      /\ pc' # "idle" => Done' = Done
      /\ pc' = "idle" => Done' = Done + 1 /\ usedRing'[Slot(Done)] = head
      /\ \A i \in reclaimed .. Done - 1 : usedRing'[Slot(i)] = usedRing[Slot(i)]
  BY OwnedStore, CountStore
<1>2. /\ m \in Nat /\ reclaimed + m = Done /\ reclaimed \in Nat
      /\ usedRing \in [Heads -> Heads] /\ usedRing' \in [Heads -> Heads]
  BY DEF LoanIs
<1>3. Offered' = Offered
  BY <1>1 DEF LoanIs
<1>4. Returned = Segment(usedRing, reclaimed, m)
  BY DEF LoanIs
<1> HIDE DEF m
<1>5. CASE pc' # "idle"
  <2>1. Returned' = Segment(usedRing', reclaimed, m)
    BY <1>1, <1>5 DEF LoanIs, m
  <2>2. Returned' = Returned
    BY <1>1, <1>2, <1>4, <2>1, SegmentSame
  <2>3. Held' = Held
    BY <1>1, <1>5 DEF Held
  <2> QED  BY <1>1, <1>3, <2>2, <2>3 DEF Loan!loan
<1>6. CASE pc' = "idle"
  <2>1. Done' - reclaimed' = m + 1
    BY <1>1, <1>2, <1>6 DEF LoanIs
  <2>2. Returned' = Segment(usedRing', reclaimed, m + 1)
    BY <1>1, <2>1 DEF LoanIs
  <2>3. Returned' = Append(Returned, head)
    <3>1. usedRing'[Slot(reclaimed + m)] = head
      BY <1>1, <1>2, <1>6
    <3>2. reclaimed + m - 1 = Done - 1
      BY <1>2
    <3>3. \A i \in reclaimed .. reclaimed + m - 1 : usedRing'[Slot(i)] = usedRing[Slot(i)]
      BY <1>1, <3>2
    <3> QED  BY <1>2, <1>4, <2>2, <3>1, <3>3, SegmentAppend
  <2>4. Held = {head} /\ Held' = {}
    BY <1>1, <1>6 DEF Held
  <2> QED  BY <1>1, <1>3, <2>3, <2>4 DEF Loan!GiveBack
<1> QED  BY <1>5, <1>6

(* First lent, first taken; first given back, first reclaimed: the rings   *)
(* of pru_virtqueue.c implement BufferLoan, however often the indices      *)
(* wrap, until the ARM consumes an element too early or the PRU takes a    *)
(* stray buffer.                                                           *)
THEOREM RingsImplementLoan == Spec => ImplementsLoan
<1> DEFINE Inv == Types /\ ExactUnlessStray /\ OwnedUnlessEarly
<1>1. Init => ExactUnlessStray /\ OwnedUnlessEarly
  BY ExactInit, OwnedInit DEF ExactUnlessStray, OwnedUnlessEarly
<1>2. Types /\ ExactUnlessStray /\ OwnedUnlessEarly /\ [Next]_vars
        => ExactUnlessStray' /\ OwnedUnlessEarly'
  BY ExactNext, OwnedNext
<1>3. Spec => []Inv
  BY <1>1, <1>2, TypeCorrect, TypesOnly, PTL DEF Spec
<1>4. Types /\ Exact /\ Owned => LoanIs
  BY LoanHere
<1>5. Types' /\ Exact' /\ Owned' => LoanIs'
  BY <1>4, PTL
<1>6. Init => Loan!Init
  <2> SUFFICES ASSUME Init PROVE Loan!Init
    OBVIOUS
  <2>1. armHas = Heads /\ Held = {}
    BY DEF Init, Held
  <2>2. Distance(0, 0) = 0
    <3>1. 0 % IdxMod = 0 /\ IdxMod % IdxMod = 0 /\ 0 + IdxMod - 0 = IdxMod
      BY Constants
    <3> QED  BY <3>1 DEF Distance
  <2>3. Offered = <<>> /\ Returned = <<>>
    BY <2>2 DEF Init, Offered, Returned, Window
  <2> QED  BY <2>1, <2>3 DEF Loan!Init
<1>7. Inv /\ Inv' /\ [Next]_vars => [~early' /\ ~stray' => Loan!Next]_(Loan!loan)
  <2> SUFFICES ASSUME Types, ExactUnlessStray, OwnedUnlessEarly,
                      Types', ExactUnlessStray', OwnedUnlessEarly',
                      [Next]_vars, ~early', ~stray'
               PROVE  Loan!Next \/ UNCHANGED Loan!loan
    OBVIOUS
  <2>1. Exact /\ Exact' /\ Owned /\ Owned'
    BY HistoryKept DEF ExactUnlessStray, OwnedUnlessEarly
  <2>2. LoanIs /\ LoanIs'
    BY <1>4, <1>5, <2>1
  <2>3. ASSUME NEW b \in Heads, ArmPost(b) PROVE Loan!Next
    BY <2>1, <2>2, <2>3, LoanPost DEF Loan!Next
  <2>4. CASE ArmReclaim
    BY <2>1, <2>2, <2>4, LoanReclaim DEF Loan!Next
  <2>5. CASE GetAvail
    BY <2>1, <2>2, <2>5, LoanTake DEF Loan!Next
  <2>6. CASE StoreIndex \/ StoreElement \/ StoreElementFirst \/ StoreIndexLast
    <3>1. Loan!GiveBack(head) \/ UNCHANGED Loan!loan
      BY <2>1, <2>2, <2>6, LoanStore
    <3>2. head \in Heads
      BY DEF Types
    <3> QED  BY <3>1, <3>2 DEF Loan!Next
  <2>7. CASE UNCHANGED vars
    BY <2>7 DEF vars, armVars, pruVars, Loan!loan, Offered, Held, Returned
  <2> QED  BY <2>3, <2>4, <2>5, <2>6, <2>7 DEF Next
<1> QED  BY <1>3, <1>6, <1>7, PTL DEF Spec, ImplementsLoan

================================================================================
