------------------------------ MODULE ByteFifo ------------------------------
(***************************************************************************)
(* application/console_task.c : how the console, the keyboard and the      *)
(* joystick use a ring of bytes.  Both accessors go through a uint32_t     *)
(* pointer, so a write stores the byte and three zero bytes after it, past *)
(* the end of the array when the slot is one of the last three.  Nothing   *)
(* preempts a call: the main loop is the only user of these rings.         *)
(*                                                                         *)
(* rd, wr : the indices of the struct fifo_t;  mem : its N bytes and the   *)
(* three after them                                                        *)
(* owed : the bytes accepted and not yet read, oldest first; last : what   *)
(* the last successful read returned and what it should have (auxiliary)   *)
(***************************************************************************)
EXTENDS RingIndex, Sequences

CONSTANTS Byte, Zero,
          Garbage  \* what the memory may hold at the start

ASSUME ByteAssumption == Zero \in Byte /\ Garbage \subseteq Byte

VARIABLES rd, wr, mem, owed, last

ring == <<rd, wr, mem, owed, last>>

Memory == 0..N+2

(* Seeded fault: a pointer of the wrong width. *)
StoreLong(m, at, ch) ==
  [i \in Memory |-> IF i = at THEN ch ELSE IF i \in at+1..at+7 THEN Zero ELSE m[i]]

(* *write_addr = ch, little endian. *)
StoreWord(m, at, ch) ==
  [i \in Memory |-> IF i = at THEN ch ELSE IF i \in at+1..at+3 THEN Zero ELSE m[i]]

(* Seeded fault: a byte is counted although there was no slot for it. *)
WriteUnchecked(ch) ==
  /\ mem' = StoreWord(mem, wr, ch)
  /\ wr' = Advance(wr, 1)
  /\ owed' = Append(owed, ch)
  /\ UNCHANGED <<rd, last>>

(* console_string_buf_write, keyboard_write, joystick_write; the store *)
(* comes before fifo_write_done looks for room.                        *)
Write(ch) ==
  /\ mem' = StoreWord(mem, wr, ch)
  /\ IF FIFO_FULL(rd, wr)
     THEN UNCHANGED <<wr, owed>>
     ELSE wr' = Advance(wr, 1) /\ owed' = Append(owed, ch)
  /\ UNCHANGED <<rd, last>>

(* The byte console_string_buf_read, keyboard_read and joystick_read return. *)
ReadByte == mem[rd]

(* Seeded fault: the index is advanced before the address is taken. *)
ReadAfterAdvance ==
  /\ ~FIFO_EMPTY(rd, wr)
  /\ rd' = Advance(rd, 1)
  /\ last' = <<mem[Advance(rd, 1)], Head(owed)>>
  /\ owed' = Tail(owed)
  /\ UNCHANGED <<wr, mem>>

(* The address is taken before fifo_read_done and followed after it. *)
Read ==
  /\ ~FIFO_EMPTY(rd, wr)
  /\ rd' = Advance(rd, 1)
  /\ last' = <<ReadByte, Head(owed)>>
  /\ owed' = Tail(owed)
  /\ UNCHANGED <<wr, mem>>

(* An empty ring: fifo_read_done leaves the index, the read returns what *)
(* the slot still holds.                                                 *)
ReadEmpty == FIFO_EMPTY(rd, wr) /\ UNCHANGED ring

InitRing == /\ rd = 0
            /\ wr = 0
            /\ mem \in [Memory -> Garbage]  \* never cleared
            /\ owed = <<>>
            /\ last = <<Zero, Zero>>

NextRing == (\E ch \in Byte : Write(ch)) \/ Read \/ ReadEmpty

SpecRing == InitRing /\ [][NextRing]_ring

-------------------------------------------------------------------------------
(* The indices stay in the ring, the memory holds bytes. *)
TypeOK == /\ rd \in Slot
          /\ wr \in Slot
          /\ mem \in [Memory -> Byte]
          /\ owed \in Seq(Byte)
          /\ last \in Byte \X Byte

Contents == [k \in 1..fifo_get_available(rd, wr) |-> mem[Advance(rd, k - 1)]]

(* However the calls come, the ring never loses count of its bytes, and a  *)
(* write into a nearly full ring damages at most the three oldest bytes,   *)
(* which then read as 0 (console_task.c:139-144, 330-335).                 *)
Damaged == {k \in DOMAIN owed : Contents[k] # owed[k]}

DamageBounded == /\ Len(owed) = fifo_get_available(rd, wr)
                 /\ \A k \in Damaged : k <= 3 /\ Contents[k] = Zero

(* A read returns the byte that was written, or 0 in its place. *)
ReadsAreGenuine == last[1] \in {last[2], Zero}

(* A write that finds four slots unused damages nothing: the bound up to   *)
(* which the word store is harmless.                                       *)
RoomyWriteIsExact ==
  [][\A ch \in Byte :
       (Damaged = {} /\ fifo_get_available(rd, wr) <= N - 4 /\ Write(ch))
         => Damaged' = {}]_ring

(* To its users the ring is a queue of e_num - 1 bytes whose oldest bytes  *)
(* may read as 0: no byte comes twice, late or out of order, and nothing   *)
(* but the oldest is ever touched.                                         *)
Q == INSTANCE ByteQueue WITH q <- Contents, result <- last[1], Capacity <- N - 1

ImplementsByteQueue == Q!Spec

(* fifo.c:10 : "Fifo will hold up to e_size-1 elements. (one is always     *)
(* wasted)": what was accepted is there, unaltered, until it is read.      *)
HoldsWhatItAccepted == Contents = owed
===============================================================================
