------------------------------- MODULE Scanout -------------------------------
(***************************************************************************)
(* awh_lib/tcon_lcd_lvds.c and de.c : what the timing controller scans out *)
(* and when.  The registers of the display engine are doubled: at a        *)
(* vertical blank with DBUFFER set, what has been written is taken over.   *)
(*                                                                         *)
(* scanning : the controller is on (LCD_GCTL_REG)                          *)
(* vb_enabled, vb_flag : bits 31 and 15 of LCD_GINT0_REG                   *)
(* dbuffer : DE_MUX_GLB->DBUFFER                                           *)
(* regs : how far the registers of the mixer have been written             *)
(* shown : what of them the mixer works with                               *)
(***************************************************************************)
VARIABLES scanning, vb_enabled, vb_flag, dbuffer, regs, shown

tconvars == <<scanning, vb_enabled, vb_flag>>
devars == <<dbuffer, regs, shown>>

(* "_part": some of the registers that belong together are written. *)
Registers == {"reset", "blender_part", "blender", "layers_part", "layers"}

InitScanout == /\ scanning = FALSE
               /\ vb_enabled = FALSE
               /\ vb_flag = FALSE
               /\ dbuffer = FALSE
               /\ regs = "reset"
               /\ shown = "reset"

VBlank == /\ scanning
          /\ vb_flag' = TRUE
          /\ shown' = IF dbuffer THEN regs ELSE shown
          /\ dbuffer' = FALSE
          /\ UNCHANGED <<scanning, vb_enabled, regs>>

VBlankRequest == vb_flag /\ vb_enabled

(* The end of tcon_lcd_init, which has switched the controller off first. *)
GintEnable == /\ vb_enabled' = TRUE
              /\ UNCHANGED <<scanning, vb_flag, devars>>

(* Seeded fault: tcon_lcd_enable is not called. *)
tcon_stays_off == UNCHANGED <<tconvars, devars>>

tcon_lcd_enable == /\ scanning' = TRUE
                   /\ UNCHANGED <<vb_enabled, vb_flag, devars>>

(* LCD_GINT0_REG = BV(15) stores the whole register and takes the enable   *)
(* bit with it; whether the flag is cleared by a 1 or by a 0 is the        *)
(* controller's.  So does BV(13), for which the controller may have raised *)
(* its flag as well.  de_int_vblank changes nothing: no layer has fb_dbl   *)
(* set.                                                                    *)
tcon_int_handler == /\ \/ /\ vb_flag
                          /\ vb_enabled' = FALSE
                          /\ vb_flag' \in BOOLEAN
                       \/ /\ ~vb_flag
                          /\ vb_enabled' \in {FALSE, vb_enabled}
                          /\ UNCHANGED vb_flag
                    /\ UNCHANGED <<scanning, devars>>

WriteRegs(r) == /\ regs' = r
                /\ UNCHANGED <<tconvars, dbuffer, shown>>

de_commit == /\ dbuffer' = TRUE
             /\ UNCHANGED <<tconvars, regs, shown>>

(* Seeded fault: the wait falls through. *)
no_commit_wait == UNCHANGED <<tconvars, devars>>

de_commit_wait == ~dbuffer /\ UNCHANGED <<tconvars, devars>>
===============================================================================
