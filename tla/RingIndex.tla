------------------------------ MODULE RingIndex ------------------------------
(***************************************************************************)
(* awh_lib/fifo.c : what the ring computes from its two indices, rd (read) *)
(* and wr (write), and from e_num = N.  Pure: the modules that give the    *)
(* ring a memory and users extend this one.                                *)
(***************************************************************************)
EXTENDS Integers

CONSTANT N \* e_num

ASSUME NAssumption == N \in Nat /\ N >= 2

Slot == 0..N-1

Smaller(a, b) == IF a < b THEN a ELSE b

FIFO_EMPTY(r, w) == w = r

FIFO_FULL(r, w) == (w + 1) % N = r

fifo_get_available(r, w) == IF r > w THEN N - (r - w) ELSE w - r

(* Seeded fault: the wasted slot counted as room. *)
FreeSpaceAll(r, w) == N - fifo_get_available(r, w)

fifo_get_free_space(r, w) == N - fifo_get_available(r, w) - 1

fifo_get_read_size_cont(r, w) == IF w < r THEN N - r ELSE w - r

(* How much fifo_write_more copies in its first and its second block. *)
FirstBlock(cnt, r, w) == IF w >= r THEN Smaller(cnt, N - w) ELSE 0

(* Seeded fault: one element too few behind the reader. *)
SecondBlockShort(cnt, r, w) == IF r > w THEN Smaller(cnt, r - w - 2) ELSE 0

(* r - w - 1 is unsigned: for r = w it is no bound at all. *)
SecondBlock(cnt, r, w) ==
  CASE r > w -> Smaller(cnt, r - w - 1)
    [] r = w -> cnt
    [] OTHER -> 0

(* Seeded fault: the index is not reduced. *)
AdvanceUnreduced(i, n) == i + n

Advance(i, n) == (i + n) % N
===============================================================================
