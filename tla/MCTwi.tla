-------------------------------- MODULE MCTwi --------------------------------
(* The three registers axp228.c changes, with the bits it changes, one bit *)
(* that is another rail's, and the calls in use.                           *)
EXTENDS Twi

CONSTANTS dcdc, eldo, dldo2, lcd, usb, rail, level, other

MCReg == {dcdc, eldo, dldo2}
MCBit == {lcd, usb, rail, level, other}
MCAddress == [r \in MCReg |-> CASE r = dcdc -> {other} [] r = eldo -> {rail, other}
                                [] r = dldo2 -> {level}]
MCRegs == [r \in MCReg |-> IF r = dcdc THEN {other} ELSE {}]

On(r, b) == [reg |-> r, write |-> TRUE, on |-> b, off |-> {}]
Off(r, b) == [reg |-> r, write |-> TRUE, on |-> {}, off |-> b]

MCPrograms ==
  {<<On(dcdc, {lcd})>>, <<Off(dcdc, {lcd})>>,
   <<On(dcdc, {usb}), On(dldo2, {level}), On(eldo, {rail})>>,
   <<Off(eldo, {rail}), Off(dldo2, {level})>>,
   <<[reg |-> eldo, write |-> FALSE, on |-> {}, off |-> {}]>>}
===============================================================================
