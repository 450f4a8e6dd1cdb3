----------------------------- MODULE MCBringup -----------------------------
(* The computations made once at start-up, over the values they are made   *)
(* for and the ones around them: a state is one thing to compute.          *)
EXTENDS Dsi, Clocks

CONSTANTS PixelClocks,   \* of the RGB panels
          TwiClocks, BaudRates

VARIABLE job

(* The sync and blanking packets, and the headers of commands. *)
Headers ==
  {sun6i_dsi_build_sync_pkt(dt, 0, 0, 0) : dt \in {1, 17, 33, 49}}
    \cup {sun6i_dsi_build_blk0_pkt(0, wc) : wc \in {0, 10, 170, 516, 2148, 65454}}
    \cup {sun6i_dsi_dcs_build_pkt_hdr([k \in 1..n |-> 16 * k]) : n \in {1, 2, 3, 15}}

(* Every entry of the table is met by the second byte. *)
Payloads == {<<240, b, 255 - b>> : b \in 0..255}

Jobs == [do : {"payload"}, of : Payloads]
          \cup [do : {"pixel clock"}, of : PixelClocks]
          \cup [do : {"bus clock"}, of : TwiClocks \X BaudRates]

Init == \/ header \in Headers /\ job = [do |-> "send", of |-> header]
        \/ header = {} /\ job \in Jobs

Next == UNCHANGED <<header, job>>

Spec == Init /\ [][Next]_<<header, job>>

(* Every checksum is the standard's (mipi_dsi.c:741-791).                  *)
ChecksumsRight == job.do = "payload" => CrcIsCcitt(job.of)

(* Every device gets the clock it is set up for: the two RGB panels        *)
(* theirs, the TWI 100 or 400 kHz, the serial port config.h's baud rates   *)
(* (tcon_lcd_rgb.c:11-51, twi.c:54-72, uart.c:67-81).                      *)
ClocksMet == /\ job.do = "pixel clock" => PixelClockMet(job.of)
             /\ job.do = "bus clock" => TwiClockMet(job.of[1]) /\ BaudRateMet(job.of[2])
=============================================================================
