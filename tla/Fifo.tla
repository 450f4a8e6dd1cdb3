-------------------------------- MODULE Fifo ---------------------------------
(***************************************************************************)
(* awh_lib/fifo.c : the lock-free ring used by one writer and one reader   *)
(* that may preempt each other between any two accesses to the shared      *)
(* indices.  Each action touches the other side's index at most once, so   *)
(* an action is as coarse as the accesses of the code allow.               *)
(*                                                                         *)
(* rd, wr, buf : struct fifo_t (read, write, buffer), e_num = N            *)
(* ppc, todo, snap : the writer's position, what it has still to write and *)
(*                   fifo_write_more's local copy r of b->read             *)
(* cpc, want, held, got : the reader's position, how many elements it is   *)
(*                   taking, those already copied out, and the result of   *)
(*                   its last completed read                               *)
(***************************************************************************)
EXTENDS RingIndex, Sequences

CONSTANT Elem \* elements

ASSUME ElemAssumption == Elem # {}

VARIABLES rd, wr, buf, ppc, todo, snap, cpc, want, held, got

vars == <<rd, wr, buf, ppc, todo, snap, cpc, want, held, got>>

-------------------------------------------------------------------------------
(* memcpy of the first c elements of s to the slots from w on. *)
Memcpy(b, w, s, c) == [i \in Slot |-> IF i >= w /\ i < w + c THEN s[i - w + 1] ELSE b[i]]

-------------------------------------------------------------------------------
(* The writer. *)

(* fifo_get_write_addr and the store through it, before anything is checked. *)
WriteOne == /\ ppc = "idle"
            /\ \E x \in Elem :
                 /\ todo' = <<x>>
                 /\ ppc' = "store"
            /\ UNCHANGED <<rd, wr, buf, snap, cpc, want, held, got>>

StoreOne == /\ ppc = "store"
            /\ buf' = [buf EXCEPT ![wr] = todo[1]]
            /\ ppc' = "check"
            /\ UNCHANGED <<rd, wr, todo, snap, cpc, want, held, got>>

(* fifo_write_done: the element is dropped when the ring is full. *)
WriteDoneFull == /\ ppc = "check"
                 /\ FIFO_FULL(rd, wr)
                 /\ todo' = <<>>
                 /\ ppc' = "idle"
                 /\ UNCHANGED <<rd, wr, buf, snap, cpc, want, held, got>>

(* Seeded fault: the ring is not asked whether it is full. *)
WriteDoneUnchecked == /\ ppc = "check"
                      /\ ppc' = "advance"
                      /\ UNCHANGED <<rd, wr, buf, todo, snap, cpc, want, held, got>>

WriteDoneCheck == /\ ppc = "check"
                  /\ ~FIFO_FULL(rd, wr)
                  /\ ppc' = "advance"
                  /\ UNCHANGED <<rd, wr, buf, todo, snap, cpc, want, held, got>>

WriteDone == /\ ppc = "advance"
             /\ wr' = Advance(wr, 1)
             /\ todo' = <<>>
             /\ ppc' = "idle"
             /\ UNCHANGED <<rd, buf, snap, cpc, want, held, got>>

(* fifo_write_more.  Its comment makes the caller answer for the room, *)
(* so the call is made with what fifo_get_free_space reports at most.  *)
WriteMore == /\ ppc = "idle"
             /\ \E n \in 1..fifo_get_free_space(rd, wr) :
                  todo' \in [1..n -> Elem]
             /\ ppc' = "more"
             /\ UNCHANGED <<rd, wr, buf, snap, cpc, want, held, got>>

(* Seeded fault: the copy is taken of the wrong index. *)
MoreSnapshotWrite == /\ ppc = "more"
                     /\ snap' = wr
                     /\ ppc' = "first"
                     /\ UNCHANGED <<rd, wr, buf, todo, cpc, want, held, got>>

MoreSnapshot == /\ ppc = "more"
                /\ snap' = rd
                /\ ppc' = "first"
                /\ UNCHANGED <<rd, wr, buf, todo, cpc, want, held, got>>

MoreCopy(from, to, c, fits) ==
  /\ ppc = from
  /\ todo # <<>>
  /\ fits
  /\ buf' = Memcpy(buf, wr, todo, c)
  /\ ppc' = to
  /\ UNCHANGED <<rd, wr, todo, snap, cpc, want, held, got>>

MorePublish(from, to, c) ==
  /\ ppc = from
  /\ wr' = Advance(wr, c)
  /\ todo' = SubSeq(todo, c + 1, Len(todo))
  /\ ppc' = to
  /\ UNCHANGED <<rd, buf, snap, cpc, want, held, got>>

First == FirstBlock(Len(todo), snap, wr)
Second == SecondBlock(Len(todo), snap, wr)

MoreCopyFirst == MoreCopy("first", "publish1", First, wr >= snap)
MorePublishFirst == MorePublish("publish1", "second", First)
MoreCopySecond == MoreCopy("second", "publish2", Second, snap >= wr)
MorePublishSecond == MorePublish("publish2", "return", Second)

(* A block whose condition does not hold is skipped. *)
MoreSkipFirst == /\ ppc = "first"
                 /\ ~(wr >= snap)
                 /\ ppc' = "second"
                 /\ UNCHANGED <<rd, wr, buf, todo, snap, cpc, want, held, got>>

MoreSkipSecond == /\ ppc = "second"
                  /\ ~(todo # <<>> /\ snap >= wr)
                  /\ ppc' = "return"
                  /\ UNCHANGED <<rd, wr, buf, todo, snap, cpc, want, held, got>>

(* What has not fitted by now is forgotten by the caller. *)
MoreReturn == /\ ppc = "return"
              /\ todo' = <<>>
              /\ ppc' = "idle"
              /\ UNCHANGED <<rd, wr, buf, snap, cpc, want, held, got>>

Writer == \/ WriteOne \/ StoreOne \/ WriteDoneFull \/ WriteDoneCheck \/ WriteDone
          \/ WriteMore \/ MoreSnapshot \/ MoreCopyFirst \/ MorePublishFirst
          \/ MoreCopySecond \/ MorePublishSecond \/ MoreSkipFirst \/ MoreSkipSecond
          \/ MoreReturn

-------------------------------------------------------------------------------
(* The reader. *)

(* fifo_empty / fifo_get_available, then one element by fifo_get_read_addr. *)
ReadOne == /\ cpc = "idle"
           /\ ~FIFO_EMPTY(rd, wr)
           /\ want' = 1
           /\ cpc' = "one"
           /\ UNCHANGED <<rd, wr, buf, ppc, todo, snap, held, got>>

(* fifo_get_read_size_cont, then a run of elements from fifo_get_read_addr on. *)
ReadMany == /\ cpc = "idle"
            /\ \E n \in 1..fifo_get_read_size_cont(rd, wr) : want' = n
            /\ cpc' = "many"
            /\ UNCHANGED <<rd, wr, buf, ppc, todo, snap, held, got>>

CopyOut == /\ cpc # "idle"
           /\ Len(held) < want
           /\ held' = Append(held, buf[rd + Len(held)])
           /\ UNCHANGED <<rd, wr, buf, ppc, todo, snap, cpc, want, got>>

(* fifo_read_done *)
ReadDone == /\ cpc = "one"
            /\ Len(held) = want
            /\ ~FIFO_EMPTY(rd, wr)
            /\ rd' = Advance(rd, 1)
            /\ got' = held
            /\ held' = <<>>
            /\ cpc' = "idle"
            /\ UNCHANGED <<wr, buf, ppc, todo, snap, want>>

(* fifo_read_done_size: takes the caller's size as it is *)
ReadDoneSize == /\ cpc = "many"
                /\ Len(held) = want
                /\ rd' = Advance(rd, want)
                /\ got' = held
                /\ held' = <<>>
                /\ cpc' = "idle"
                /\ UNCHANGED <<wr, buf, ppc, todo, snap, want>>

Reader == ReadOne \/ ReadMany \/ CopyOut \/ ReadDone \/ ReadDoneSize

-------------------------------------------------------------------------------
Init == /\ rd = 0
        /\ wr = 0
        /\ buf \in [Slot -> Elem]  \* fifo_init leaves the memory as it is
        /\ ppc = "idle"
        /\ todo = <<>>
        /\ snap = 0
        /\ cpc = "idle"
        /\ want = 0
        /\ held = <<>>
        /\ got = <<>>

(* fifo_reset writes both indices, so neither side may be in a call. *)
Reset == /\ ppc = "idle"
         /\ cpc = "idle"
         /\ rd' = 0
         /\ wr' = 0
         /\ UNCHANGED <<buf, ppc, todo, snap, cpc, want, held, got>>

Next == Writer \/ Reader \/ Reset

Spec == Init /\ [][Next]_vars

-------------------------------------------------------------------------------
(* Properties.  TypeOK : the indices stay in the ring and the locals in    *)
(* their ranges.                                                           *)

TypeOK ==
  /\ rd \in Slot
  /\ wr \in Slot
  /\ buf \in [Slot -> Elem]
  /\ ppc \in {"idle", "store", "check", "advance", "more", "first", "publish1",
              "second", "publish2", "return"}
  /\ todo \in Seq(Elem)
  /\ snap \in Slot
  /\ cpc \in {"idle", "one", "many"}
  /\ want \in 0..N-1
  /\ held \in Seq(Elem)
  /\ got \in Seq(Elem)

(* The elements between the indices, oldest first. *)
Window(r, w, b) == [k \in 1..fifo_get_available(r, w) |-> b[Advance(r, k - 1)]]

Contents == Window(rd, wr, buf)

(* The ring is a queue of e_num - 1 elements: nothing lost, duplicated,    *)
(* reordered or torn, a single write refused only when it is full          *)
(* (fifo.c:4-9, "creates more space").                                     *)
Q == INSTANCE Queue WITH q <- Contents, arg <- todo, Capacity <- N - 1

ImplementsQueue == Q!Spec

(* While the reader is between finding elements and releasing them, no     *)
(* step changes the slots it is copying from, although the writer stores   *)
(* before fifo_write_done has looked whether there is room.                *)
Reading == IF cpc = "idle" THEN {} ELSE rd..(rd + want - 1)

SpanStable == [][\A s \in Reading : buf'[s] = buf[s]]_vars

(* A call of fifo_write_more that was told there is room writes everything *)
(* (fifo.c:141-146), however the reader moves meanwhile.                   *)
MoreWritesAll == ppc = "return" => todo = <<>>

(* The room computed from a stale copy of the reader's index is never more *)
(* than there is: "it will create more space" (fifo.c:7-9).                *)
UsingSnapshot == ppc \in {"first", "publish1", "second", "publish2"}

StaleIsSafe ==
  UsingSnapshot => fifo_get_free_space(snap, wr) <= fifo_get_free_space(rd, wr)
===============================================================================
