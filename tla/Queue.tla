-------------------------------- MODULE Queue --------------------------------
(***************************************************************************)
(* What a FIFO of struct fifo_t promises its two users: a bounded queue.   *)
(* q    : the elements accepted and not yet taken;                         *)
(* arg  : what the writer has still to hand over in its current call;      *)
(* got  : what the reader's last completed call returned.                  *)
(***************************************************************************)
EXTENDS Naturals, Sequences

CONSTANTS Elem,     \* the elements
          Capacity  \* how many the queue holds

VARIABLES q, arg, got

Init == q = <<>> /\ arg = <<>> /\ got = <<>>

(* The writer calls with the elements s. *)
Call == /\ arg = <<>>
        /\ \E n \in 1..Capacity : arg' \in [1..n -> Elem]
        /\ UNCHANGED <<q, got>>

(* A prefix of the argument is accepted, in order. *)
Put == \E n \in 1..Len(arg) :
         /\ Len(q) + n <= Capacity
         /\ q' = q \o SubSeq(arg, 1, n)
         /\ arg' = SubSeq(arg, n + 1, Len(arg))
         /\ UNCHANGED got

(* A single element is refused, and only when the queue is full. *)
Refuse == /\ Len(arg) = 1
          /\ Len(q) = Capacity
          /\ arg' = <<>>
          /\ UNCHANGED <<q, got>>

(* The reader takes the n oldest elements. *)
Take == \E n \in 1..Len(q) :
          /\ got' = SubSeq(q, 1, n)
          /\ q' = SubSeq(q, n + 1, Len(q))
          /\ UNCHANGED arg

(* Both users agree to forget everything. *)
Clear == q' = <<>> /\ arg = <<>> /\ UNCHANGED <<arg, got>>

Next == Call \/ Put \/ Refuse \/ Take \/ Clear

Spec == Init /\ [][Next]_<<q, arg, got>>
===============================================================================
