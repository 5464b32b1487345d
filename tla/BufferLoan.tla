------------------------------- MODULE BufferLoan ------------------------------
(***************************************************************************)
(* What a vring promises to the two sides that share it, whichever way the *)
(* data flows (the summary at the head of pru_virtqueue.h): the ARM lends  *)
(* buffers, the PRU takes them in the order they were lent, one at a time, *)
(* and gives each back once; the ARM gets back what the PRU gave back.     *)
(***************************************************************************)
EXTENDS Sequences

CONSTANT Buffers

VARIABLES
  free,      \* buffers in the hands of the ARM
  offered,   \* lent, not taken yet, oldest first
  held,      \* the buffers the PRU works on: one or none
  returned   \* given back, not reclaimed yet, oldest first

loan == <<free, offered, held, returned>>

Init == free = Buffers /\ offered = <<>> /\ held = {} /\ returned = <<>>

Lend(b) == /\ b \in free
           /\ free' = free \ {b}
           /\ offered' = Append(offered, b)
           /\ UNCHANGED <<held, returned>>

Take == /\ held = {} /\ offered # <<>>
        /\ held' = {Head(offered)}
        /\ offered' = Tail(offered)
        /\ UNCHANGED <<free, returned>>

GiveBack(b) == /\ b \in held
               /\ held' = held \ {b}
               /\ returned' = Append(returned, b)
               /\ UNCHANGED <<free, offered>>

Reclaim == /\ returned # <<>>
           /\ free' = free \cup {Head(returned)}
           /\ returned' = Tail(returned)
           /\ UNCHANGED <<offered, held>>

Next == \/ \E b \in Buffers : Lend(b) \/ GiveBack(b)
        \/ Take \/ Reclaim

Spec == Init /\ [][Next]_loan

================================================================================
