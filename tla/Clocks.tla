------------------------------- MODULE Clocks -------------------------------
(***************************************************************************)
(* The searches for clock dividers: tcon_find_clock of the RGB panels      *)
(* (awh_lib/tcon_lcd_rgb.c), twi_set_clock (awh_lib/twi.c) and the baud    *)
(* rate of uart_init (awh_lib/uart.c).                                     *)
(*                                                                         *)
(* All frequencies are in Hz.                                              *)
(***************************************************************************)
EXTENDS Integers, FiniteSets, FiniteSetsExt

ccu_clk_hosc24 == 24000000
ccu_clk_apb1 == 24000000

-------------------------------------------------------------------------------
(* The pixel clock *)

(* In the order of the three loops. *)
Candidates == (12..99) \X (1..2) \X (6..127)

(* osc * n / m / d: osc is even, and the product, which fits into the      *)
(* code's 32 bits, is not formed here.                                     *)
Freq(n, m, d) ==
  LET osc == ccu_clk_hosc24 \div m IN n * (osc \div d) + (n * (osc % d)) \div d

(* ABS of an unsigned difference is the difference: a frequency below the  *)
(* target is off by nearly 2^32, for which 2^30 stands here.               *)
ErrorOf(freq, tgt) == IF freq >= tgt THEN freq - tgt ELSE 2^30 - (tgt - freq)

(* The first candidate with the least error: pixclk is doubled. *)
tcon_find_clock(pixclk) ==
  LET err == [c \in Candidates |-> ErrorOf(Freq(c[1], c[2], c[3]), 2 * pixclk)]
      least == Min({err[c] : c \in Candidates})
      good == {c \in Candidates : err[c] = least}
      n == Min({c[1] : c \in good})
      m == Min({c[2] : c \in {g \in good : g[1] = n}})
  IN <<n, m, Min({c[3] : c \in {g \in good : g[1] = n /\ g[2] = m}})>>

(* Seeded fault: the clock searched for is twice the pixel clock, but the  *)
(* divider is left as it was found.                                        *)
DclkAsFound(pixclk) == tcon_find_clock(pixclk)[3]

(* What is written to the divider of LCD_DCLK_REG. *)
DclkDivider(pixclk) == 2 * tcon_find_clock(pixclk)[3]

-------------------------------------------------------------------------------
(* The other buses *)

(* The last n at which some m gives the frequency exactly, or the slowest. *)
twi_set_clock(tgtfreq) ==
  LET freq(n, m) == ccu_clk_apb1 \div (10 * (m + 1) * 2^n)
      exact == {n \in 0..7 : \E m \in 0..15 : freq(n, m) = tgtfreq}
  IN IF exact = {} THEN <<7, 15>>
     ELSE LET n == Max(exact) IN <<n, Min({m \in 0..15 : freq(n, m) = tgtfreq})>>

UartDivisor(baudrate) == (ccu_clk_apb1 \div 16) \div baudrate

-------------------------------------------------------------------------------
Distance(a, b) == IF a >= b THEN a - b ELSE b - a

(* DCLK, what the PLL and the divider make of the oscillator, is within a  *)
(* hundredth of the panel's pixel clock, and the divider fits into the     *)
(* seven bits of its register: "pixel_CLK is required to be consistent     *)
(* with the DCLK" (tcon_lcd_rgb.c:113).                                    *)
PixelClockMet(pixclk) ==
  LET c == tcon_find_clock(pixclk)
      dclk == Freq(c[1], c[2], DclkDivider(pixclk))
  IN DclkDivider(pixclk) < 2^7 /\ Distance(dclk, pixclk) <= pixclk \div 100

(* The bus clock is the one asked for, and the baud rate is at most a      *)
(* fiftieth off (twi.c:54-72, uart.c:67-81).                               *)
TwiClockMet(tgtfreq) ==
  LET c == twi_set_clock(tgtfreq)
      divider == 10 * (c[2] + 1) * 2^c[1]
  IN ccu_clk_apb1 % divider = 0 /\ ccu_clk_apb1 \div divider = tgtfreq

BaudRateMet(baudrate) ==
  Distance(16 * UartDivisor(baudrate) * baudrate, ccu_clk_apb1) <= ccu_clk_apb1 \div 50
=============================================================================
