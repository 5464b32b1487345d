------------------------------ MODULE PruVirtqueue -----------------------------
(***************************************************************************)
(* One vring between the ARM and PRU0 (pru_virtqueue.c), as the rpmsg      *)
(* library uses it in both directions: get an available buffer, work on    *)
(* it, add it to the used ring.  A buffer is known by the index of its     *)
(* descriptor.                                                             *)
(*                                                                         *)
(* The two rings live in shared memory.  Their indices run freely in 16    *)
(* bits; the PRU's own last_avail_idx has 32.  The statement               *)
(*     used_elem = &used->ring[used->idx++ & (num - 1)];                   *)
(* stores the index before the element is filled in, but nothing in the    *)
(* program orders the two stores for the compiler: StoreOrders says which  *)
(* orders the binary may have.                                             *)
(***************************************************************************)
EXTENDS Naturals, Sequences, FiniteSets

CONSTANTS
  Num,          \* descriptors of the ring (a power of two)
  IdxMod,       \* 2^16: the indices in shared memory
  LastMod,      \* 2^32: last_avail_idx
  StoreOrders,  \* subset of {"index_first", "element_first"}
  MaxPosts      \* bound: buffers the ARM ever makes available

ASSUME VringAssumption ==
  /\ Num \in Nat \ {0} /\ IdxMod \in Nat /\ LastMod \in Nat
  /\ IdxMod % Num = 0 /\ LastMod % IdxMod = 0 /\ IdxMod > Num /\ LastMod >= IdxMod
  /\ StoreOrders \subseteq {"index_first", "element_first"}
  /\ MaxPosts \in Nat

Heads == 0 .. Num - 1        \* descriptor indices, and slots of a ring
Slot(i) == i % Num           \* i & (num - 1)

VARIABLES
  availRing, availIdx,   \* written by the ARM
  usedRing, usedIdx,     \* written by the PRU
  lastAvail,             \* vq->last_avail_idx
  pc,                    \* the PRU: no buffer, a buffer, in pru_virtqueue_add_used_buf
  head,                  \* the descriptor the PRU works on
  armSeen,               \* used elements the ARM has consumed (its last_used_idx)
  armHas,                \* descriptors the ARM considers its own
  \* History, to be set against the indices, which wrap:
  posts,                 \* buffers the ARM made available (bound: MaxPosts),
  taken,                 \* of these, the PRU has taken,
  reclaimed,             \* of these, the ARM has consumed again
  stray,                 \* the PRU took a buffer nobody had made available
  early                  \* the ARM consumed an element not yet stored

armVars == <<availRing, availIdx, armSeen, armHas, posts, reclaimed, early>>
pruVars == <<usedRing, usedIdx, lastAvail, pc, head, taken, stray>>
vars == <<armVars, pruVars>>

(* pru_virtqueue_init, over rings the ARM has cleared. *)
Init ==
  /\ availRing = [s \in Heads |-> 0] /\ availIdx = 0
  /\ usedRing = [s \in Heads |-> 0] /\ usedIdx = 0
  /\ lastAvail = 0 /\ pc = "idle" /\ head = 0
  /\ armSeen = 0 /\ armHas = Heads
  /\ posts = 0 /\ taken = 0 /\ reclaimed = 0 /\ stray = FALSE /\ early = FALSE

--------------------------------------------------------------------------------
(* One more of the posts; what is not one of them is not counted.          *)
Counted(n) == IF n < posts THEN n + 1 ELSE n

(* The ARM makes a buffer available: the slot, a barrier, the index. *)
ArmPost(b) ==
  /\ b \in armHas /\ posts < MaxPosts
  /\ availRing' = [availRing EXCEPT ![Slot(availIdx)] = b]
  /\ availIdx' = (availIdx + 1) % IdxMod
  /\ armHas' = armHas \ {b}
  /\ posts' = posts + 1
  /\ UNCHANGED <<armSeen, reclaimed, early, pruVars>>

(* The ARM consumes used elements for as long as its count differs from    *)
(* the used index; it does not wait for the kick that follows.             *)
ArmReclaim ==
  /\ armSeen # usedIdx
  /\ armHas' = armHas \cup {usedRing[Slot(armSeen)]}
  /\ armSeen' = (armSeen + 1) % IdxMod
  /\ reclaimed' = Counted(reclaimed)
  /\ early' = (early \/ (pc = "index_stored" /\ armSeen' = usedIdx))
  /\ UNCHANGED <<availRing, availIdx, posts, pruVars>>

--------------------------------------------------------------------------------
(* Mutant: the availability check is missing. *)
GetAvailUnchecked ==
  /\ pc = "idle"
  /\ head' = availRing[Slot(lastAvail)]
  /\ lastAvail' = (lastAvail + 1) % LastMod
  /\ pc' = "holding"
  /\ taken' = Counted(taken) /\ stray' = (stray \/ taken = posts)
  /\ UNCHANGED <<usedRing, usedIdx, armVars>>

(* Mutant: the index is incremented before the slot is read. *)
GetAvailPreIncrement ==
  /\ pc = "idle" /\ lastAvail # availIdx
  /\ head' = availRing[Slot(lastAvail + 1)]
  /\ lastAvail' = (lastAvail + 1) % LastMod
  /\ pc' = "holding"
  /\ taken' = Counted(taken) /\ stray' = (stray \/ taken = posts)
  /\ UNCHANGED <<usedRing, usedIdx, armVars>>

(* pru_virtqueue_get_avail_buf.  The comparison is between a 32 bit and a  *)
(* 16 bit index.                                                           *)
GetAvail ==
  /\ pc = "idle" /\ lastAvail # availIdx
  /\ head' = availRing[Slot(lastAvail)]
  /\ lastAvail' = (lastAvail + 1) % LastMod
  /\ pc' = "holding"
  /\ taken' = Counted(taken) /\ stray' = (stray \/ taken = posts)
  /\ UNCHANGED <<usedRing, usedIdx, armVars>>

(* pru_virtqueue_add_used_buf, index first: used->idx++ ...  (A head above *)
(* num is refused; the ARM never posts one.)                               *)
StoreIndex ==
  /\ pc = "holding" /\ "index_first" \in StoreOrders /\ head <= Num
  /\ usedIdx' = (usedIdx + 1) % IdxMod
  /\ pc' = "index_stored"
  /\ UNCHANGED <<usedRing, lastAvail, head, taken, stray, armVars>>

(* ... then used_elem->id. *)
StoreElement ==
  /\ pc = "index_stored"
  /\ usedRing' = [usedRing EXCEPT ![Slot(usedIdx + IdxMod - 1)] = head]
  /\ pc' = "idle"
  /\ UNCHANGED <<usedIdx, lastAvail, head, taken, stray, armVars>>

(* Mutant: the incremented index picks the slot. *)
StoreElementFirstPreIncrement ==
  /\ pc = "holding" /\ "element_first" \in StoreOrders /\ head <= Num
  /\ usedRing' = [usedRing EXCEPT ![Slot(usedIdx + 1)] = head]
  /\ pc' = "element_stored"
  /\ UNCHANGED <<usedIdx, lastAvail, head, taken, stray, armVars>>

(* The other order: used_elem->id ... *)
StoreElementFirst ==
  /\ pc = "holding" /\ "element_first" \in StoreOrders /\ head <= Num
  /\ usedRing' = [usedRing EXCEPT ![Slot(usedIdx)] = head]
  /\ pc' = "element_stored"
  /\ UNCHANGED <<usedIdx, lastAvail, head, taken, stray, armVars>>

(* ... then used->idx. *)
StoreIndexLast ==
  /\ pc = "element_stored"
  /\ usedIdx' = (usedIdx + 1) % IdxMod
  /\ pc' = "idle"
  /\ UNCHANGED <<usedRing, lastAvail, head, taken, stray, armVars>>

Next == \/ \E b \in Heads : ArmPost(b)
        \/ ArmReclaim \/ GetAvail
        \/ StoreIndex \/ StoreElement \/ StoreElementFirst \/ StoreIndexLast

Spec == Init /\ [][Next]_vars

--------------------------------------------------------------------------------
(***************************************************************************)
(* Properties.                                                             *)
(***************************************************************************)

(* From index i up to index j, as the 16 bit indices count. *)
Distance(i, j) == (j + IdxMod - (i % IdxMod)) % IdxMod
Window(ring, i, j) == [k \in 1 .. Distance(i, j) |-> ring[Slot(i + k - 1)]]

(* The state of the loan the rings encode.  Between the two stores of      *)
(* StoreIndex and StoreElement the buffer still belongs to the PRU.        *)
Offered  == Window(availRing, lastAvail, availIdx)
Held     == IF pc = "idle" THEN {} ELSE {head}
Returned == Window(usedRing, armSeen,
                   IF pc = "index_stored" THEN usedIdx + IdxMod - 1 ELSE usedIdx)

(* The type invariant. *)
TypeOK ==
  /\ availRing \in [Heads -> Heads] /\ usedRing \in [Heads -> Heads]
  /\ availIdx \in 0 .. IdxMod - 1 /\ usedIdx \in 0 .. IdxMod - 1
  /\ armSeen \in 0 .. IdxMod - 1 /\ lastAvail \in 0 .. LastMod - 1
  /\ pc \in {"idle", "holding", "index_stored", "element_stored"}
  /\ head \in Heads /\ armHas \in SUBSET Heads
  /\ posts \in 0 .. MaxPosts /\ taken \in 0 .. posts /\ reclaimed \in 0 .. posts
  /\ stray \in BOOLEAN /\ early \in BOOLEAN

Members(s) == {s[k] : k \in DOMAIN s}

(* Until the ARM consumes an element too early or the PRU takes a stray    *)
(* buffer, every descriptor is in exactly one place: with the ARM,         *)
(* available, in work at the PRU, or used; however often the indices wrap. *)
SingleOwner ==
  ~early /\ ~stray =>
    /\ Cardinality(armHas) + Len(Offered) + Cardinality(Held) + Len(Returned) = Num
    /\ armHas \cup Members(Offered) \cup Held \cup Members(Returned) = Heads

(* What pru_virtqueue_get_avail_buf's comparison of a 32 bit with a 16 bit *)
(* index is good for.  An available buffer never looks like none, whatever *)
(* has wrapped, and no buffer looks like one until 2^16 have been taken.   *)
AvailableMeansOffered ==
  /\ ~stray /\ taken < posts => lastAvail # availIdx
  /\ taken < IdxMod => ~stray /\ (lastAvail # availIdx => taken < posts)

(* The comparison tells all (pru_virtqueue.h: "If the two indices do not   *)
(* match then the host has added new buffers"): the PRU takes only what    *)
(* the ARM has made available.                                             *)
NeverStray == ~stray

(* Every element the ARM consumes has been stored by the PRU (the comment  *)
(* of struct vring_used_elem: the start of a chain which was used).        *)
NeverEarly == ~early

(* Until one of the two happens, the rings implement the loan: first lent, *)
(* first taken; first given back, first reclaimed.                         *)
Loan == INSTANCE BufferLoan WITH
          Buffers <- Heads, free <- armHas, offered <- Offered,
          held <- Held, returned <- Returned
ImplementsLoan == Loan!Init /\ [][~early' /\ ~stray' => Loan!Next]_(Loan!loan)

================================================================================
