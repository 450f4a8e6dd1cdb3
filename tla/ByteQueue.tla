------------------------------- MODULE ByteQueue -------------------------------
(***************************************************************************)
(* What the rings of bytes of console_task.c promise their users: a        *)
(* bounded queue that refuses a byte when it is full, and whose oldest     *)
(* bytes a write may set to 0 when there is little room left.              *)
(*                                                                         *)
(* q : the bytes accepted and not yet read;  result : what the last read   *)
(* of a queue that was not empty returned                                  *)
(***************************************************************************)
EXTENDS Integers, Sequences

CONSTANTS Byte, Zero,
          Capacity  \* e_num - 1

VARIABLES q, result

Room == Capacity - Len(q)

(* The three zero bytes after the byte stored fall into the free slots     *)
(* first, then onto the oldest bytes, or past the end of the array.        *)
Zeroed(h) == [k \in 1..Len(q) |-> IF k <= h THEN Zero ELSE q[k]]

Put(ch) == \E h \in 0..3 :
             /\ h = 0 \/ (h <= 3 - Room /\ h <= Len(q))
             /\ q' = IF Room = 0 THEN Zeroed(h) ELSE Append(Zeroed(h), ch)
             /\ UNCHANGED result

Take == /\ q # <<>>
        /\ result' = Head(q)
        /\ q' = Tail(q)

Init == q = <<>> /\ result = Zero

Next == (\E ch \in Byte : Put(ch)) \/ Take

Spec == Init /\ [][Next]_<<q, result>>
===============================================================================
