----------------------------- MODULE DsiHeader -----------------------------
(***************************************************************************)
(* awh_lib/mipi_dsi.c : the headers of the packets the DSI host sends.  A  *)
(* header carries an error correcting code; the panel can use it only if   *)
(* the table it is computed with is the right one.                         *)
(*                                                                         *)
(* A 24 bit header is the set of its bits, a byte a number.                *)
(*                                                                         *)
(* header : the lower three bytes of the word a packet starts with         *)
(***************************************************************************)
EXTENDS Integers, Sequences, FiniteSets, FiniteSetsExt

VARIABLE header

BitsOf(v, from, n) == {from + i : i \in {k \in 0..(n - 1) : (v \div 2^k) % 2 = 1}}

-------------------------------------------------------------------------------
(* The code of the header *)

sun6i_dsi_ecc_array ==
  [i \in 0..5 |->
     CASE i = 0 -> {0, 1, 2, 4, 5, 7, 10, 11, 13, 16, 20, 21, 22, 23}
       [] i = 1 -> {0, 1, 3, 4, 6, 8, 10, 12, 14, 17, 20, 21, 22, 23}
       [] i = 2 -> {0, 2, 3, 5, 6, 9, 11, 12, 15, 18, 20, 21, 22}
       [] i = 3 -> {1, 2, 3, 7, 8, 9, 13, 14, 15, 19, 20, 21, 23}
       [] i = 4 -> {4, 5, 6, 7, 8, 9, 16, 17, 18, 19, 20, 22, 23}
       [] i = 5 -> {10, 11, 12, 13, 14, 15, 16, 17, 18, 19, 21, 22, 23}]

Odd(S) == Cardinality(S) % 2 = 1

(* Seeded fault: the loop over the bits ends before the last one. *)
EccShort(data) == {i \in 0..5 : Odd((data \cap sun6i_dsi_ecc_array[i]) \ {23})}

sun6i_dsi_ecc_compute(data) == {i \in 0..5 : Odd(data \cap sun6i_dsi_ecc_array[i])}

(* The bits of a header of type dt, with two bytes. *)
sun6i_dsi_build_sync_pkt(dt, vc, d0, d1) ==
  BitsOf(dt, 0, 6) \cup BitsOf(vc, 6, 2) \cup BitsOf(d0, 8, 8) \cup BitsOf(d1, 16, 8)

MIPI_DSI_BLANKING_PACKET == 25
MIPI_DSI_DCS_LONG_WRITE == 57
MIPI_DSI_DCS_SHORT_WRITE_PARAM == 21
MIPI_DSI_DCS_SHORT_WRITE == 5

sun6i_dsi_build_blk0_pkt(vc, wc) ==
  sun6i_dsi_build_sync_pkt(MIPI_DSI_BLANKING_PACKET, vc, wc % 256, wc \div 256)

(* The length of a long write; the command and parameter of a short one.   *)
sun6i_dsi_dcs_build_pkt_hdr(buf) ==
  LET len == Len(buf) IN
  CASE len = 1 -> BitsOf(MIPI_DSI_DCS_SHORT_WRITE, 0, 8) \cup BitsOf(buf[1], 8, 8)
    [] len = 2 -> BitsOf(MIPI_DSI_DCS_SHORT_WRITE_PARAM, 0, 8)
                    \cup BitsOf(buf[1], 8, 8) \cup BitsOf(buf[2], 16, 8)
    [] OTHER -> BitsOf(MIPI_DSI_DCS_LONG_WRITE, 0, 8)
                  \cup BitsOf(len, 8, 16) \cup BitsOf(len \div 256, 16, 16)

-------------------------------------------------------------------------------
(* What the receiver makes of them. *)

(* Bits 0 to 23 of a packet's first word are the header, the others its    *)
(* code; what a receiver sees of a set of flipped bits is the difference   *)
(* of the code it gets and the one it computes.                            *)
Syndrome(data, flipped) ==
  SymDiff(SymDiff(sun6i_dsi_ecc_compute(data), {b - 24 : b \in {f \in flipped : f >= 24}}),
          sun6i_dsi_ecc_compute(SymDiff(data, {f \in flipped : f < 24})))

OneFlip == {{b} : b \in 0..29}
TwoFlips == UNION {{{b, c} : c \in b+1..29} : b \in 0..29}

(* A header is told from every other one by at least the flips of three    *)
(* bits: a single wrong bit can be found and put right, two are noticed    *)
(* and not taken for one (mipi_dsi.c:694-739).                             *)
HeadersCorrectable ==
  LET single == {Syndrome(header, f) : f \in OneFlip}
  IN /\ Cardinality(single) = 30
     /\ {} \notin single
     /\ \A f \in TwoFlips : Syndrome(header, f) \notin single \cup {{}}
=============================================================================
