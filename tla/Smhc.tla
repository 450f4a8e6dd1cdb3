-------------------------------- MODULE Smhc --------------------------------
(***************************************************************************)
(* awh_lib/smhc.c : the polled SD card host.  smhc_init, smhc_read and     *)
(* smhc_write are programs of commands; smhc_send_cmd gives one to the     *)
(* controller, moves its data through the FIFO, and waits for the bits of  *)
(* RINTSTS, every wait for a bounded number of turns.  The card may miss a *)
(* command, its answer may be lost or come after the wait, and its data    *)
(* may stop.                                                               *)
(*                                                                         *)
(* call, step, stage, ret : the function called, the command of its        *)
(*        program it is at, the place in smhc_send_cmd, the last result    *)
(* inited : the last smhc_init returned SMHC_OK, and its caller may read   *)
(* blocks, n : the blocks asked for, and those the CPU has still to move   *)
(* ready : bit 31 of smhc_cmd.resp[3], which a failed command leaves alone *)
(* cardtype, host_w : smhc_cardtype, and the bus width of SMHC_CTYPE       *)
(* wire, active, fifo, rint, resp : the controller: the command it has     *)
(*        still to send, whether a data transfer runs, the blocks in the   *)
(*        FIFO, RINTSTS, and bit 31 of SMHC_RESP3                          *)
(* card, app, left, card_w : the card: its state, whether the last command *)
(*        was APP_CMD, the blocks it has still to move, its bus width      *)
(* answered, gave_up, doubt : the card has acted on the command of this    *)
(*        step; a command has failed and the controller was not cleared    *)
(*        since; a command gave_up hangs over has succeeded since          *)
(*        smhc_init (auxiliary)                                            *)
(***************************************************************************)
EXTENDS Integers

CONSTANT MaxBlocks

ASSUME SmhcAssumption == MaxBlocks \in Nat \ {0}

VARIABLES call, step, stage, ret, inited, blocks, n, ready, cardtype, host_w,
          wire, active, fifo, rint, resp,
          card, app, left, card_w,
          answered, gave_up, doubt

host == <<ready, cardtype, host_w>>
program == <<call, step, blocks, ret, inited>>
controller == <<wire, active, fifo, rint, resp>>
device == <<card, app, left, card_w>>
auxiliary == <<answered, gave_up, doubt>>
vars == <<call, step, stage, ret, inited, blocks, n, ready, cardtype, host_w,
          wire, active, fifo, rint, resp, card, app, left, card_w, answered, gave_up, doubt>>

-------------------------------------------------------------------------------
(* The programs: the command of a step, and the steps a result leads to.   *)

Steps == {"reset", "volt", "app", "op", "reset2", "app2", "op2", "app3",
          "cid", "rca", "csd", "select", "appscr", "scr", "switch", "switch2",
          "appwidth", "width", "len", "deselect", "pick", "transfer", "release"}

ClockSteps == {"slow", "fast"}

Command(s) == CASE s \in {"reset", "reset2"} -> "GO_IDLE"
                [] s = "volt" -> "IF_COND"
                [] s \in {"app", "app2", "app3"} -> "APP to all"
                [] s \in {"appscr", "appwidth"} -> "APP"
                [] s \in {"op", "op2"} -> "OP_COND"
                [] s \in {"select", "pick"} -> "SELECT"
                [] s \in {"deselect", "release"} -> "DESELECT"
                [] s \in {"switch", "switch2", "width"} -> "SWITCH"
                [] s = "transfer" -> call
                [] OTHER -> s

Commands == {"GO_IDLE", "IF_COND", "APP to all", "APP", "OP_COND", "cid", "rca", "csd",
             "SELECT", "DESELECT", "scr", "SWITCH", "len", "read", "write"}

NoAnswer == {"GO_IDLE", "DESELECT"}                          \* SMHC_RESP_NONE
LongAnswer == {"OP_COND", "cid", "rca", "csd"}               \* SMHC_RESP_136
WithData(s) == s \in {"scr", "switch", "switch2", "transfer"}
WithBusy(s) == s \in {"len", "pick", "transfer"}             \* SMHC_RESP_BUSY

(* Seeded fault: a card that was read or written stays selected. *)
NoRelease == {"return ok"}

AfterTransfer == {"release"}

(* How a call may go on after a step that succeeded; what was read (SCR,   *)
(* the switch status) decides between several.                             *)
AfterOk(s) ==
  CASE s = "reset" -> {"volt"}      [] s = "volt" -> {"app"}
    [] s = "app" -> {"op"}          [] s = "reset2" -> {"app2"}
    [] s \in {"app2", "app3"} -> {"op2"}
    [] s = "op" -> IF ready' THEN {"cid"} ELSE {"app"}
    [] s = "op2" -> IF ready' THEN {"cid"} ELSE {"app3"}
    [] s = "cid" -> {"rca"}         [] s = "rca" -> {"csd"}
    [] s = "csd" -> {"select"}
    [] s = "select" -> IF cardtype = "SDHC" THEN {"appscr"} ELSE {"fast"}
    [] s = "appscr" -> {"scr"}      [] s = "scr" -> {"switch", "appwidth"}
    [] s = "switch" -> {"switch2", "appwidth"}
    [] s = "switch2" -> {"fast", "appwidth"}
    [] s = "appwidth" -> {"width"}  [] s = "width" -> {"len"}
    [] s = "len" -> {"deselect"}    [] s = "pick" -> {"transfer"}
    [] s = "transfer" -> AfterTransfer
    [] OTHER -> {"return ok"}

(* A failed switch of bus or speed is not smhc_init's result.              *)
AfterError(s) ==
  IF s \in {"reset", "app", "op", "reset2", "app3", "op2", "cid", "csd", "len"} THEN AfterOk(s)
  ELSE IF s = "volt" THEN {"reset2"}
  ELSE IF s \in {"switch", "switch2"} THEN {"appwidth"}
  ELSE IF s \in {"app2", "rca", "pick", "transfer", "release"} THEN {"return error"}
  ELSE {"return ok"}

-------------------------------------------------------------------------------
(* The calls *)

(* Seeded fault: the host keeps the bus width of the last card. *)
WidthKept == /\ call = "none"
             /\ call' = "init"
             /\ step' = "slow"
             /\ stage' = "issue"
             /\ doubt' = FALSE
             /\ UNCHANGED <<blocks, n, ret, inited, host, controller, device, answered, gave_up>>

smhc_init == /\ call = "none"
             /\ call' = "init"
             /\ step' = "slow"
             /\ stage' = "issue"
             /\ host_w' = 1
             /\ doubt' = FALSE
             /\ UNCHANGED <<blocks, n, ret, inited, ready, cardtype, controller, device,
                            answered, gave_up>>

smhc_read_or_write == /\ call = "none"
                      /\ inited
                      /\ call' \in {"read", "write"}
                      /\ blocks' \in 1..MaxBlocks
                      /\ step' = "pick"
                      /\ stage' = "issue"
                      /\ UNCHANGED <<n, ret, inited, host, controller, device, auxiliary>>

(* Goes to one of the given steps, or returns.  The card's kind is known   *)
(* when the loop of ACMD41 ends, by its answer or by an older one.         *)
GoTo(next) == /\ stage' = "issue"
              /\ step' \in next
              /\ IF step' \in {"return ok", "return error"}
                 THEN /\ call' = "none"
                      /\ ret' = step'
                      /\ inited' = IF call = "init" THEN step' = "return ok" ELSE inited
                 ELSE UNCHANGED <<call, ret, inited>>
              /\ cardtype' \in IF step' # "cid" THEN {cardtype}
                               ELSE IF step = "op" THEN {"SDSC", "SDHC"} ELSE {"SDSC"}
              /\ UNCHANGED blocks

(* smhc_clock_update clears RINTSTS when the controller takes the clock in *)
(* time.                                                                   *)
ClockUpdated == rint' = {}

(* smhc_clock_set : two updates, the first of which may be the only one.   *)
smhc_clock_set ==
  /\ call # "none"
  /\ step \in ClockSteps
  /\ \/ /\ ClockUpdated
        /\ GoTo(IF step = "slow" THEN {"reset"} ELSE {"appwidth"})
     \/ /\ ClockUpdated \/ UNCHANGED rint
        /\ GoTo(IF step = "slow" THEN {"reset"} ELSE {"return ok"})
  /\ UNCHANGED <<n, ready, host_w, wire, active, fifo, resp, device, auxiliary>>

-------------------------------------------------------------------------------
(* smhc_send_cmd *)

At(s) == call # "none" /\ step \in Steps /\ stage = s

(* Seeded fault: the CPU counts one block too many. *)
BlocksAndOne == IF step = "transfer" THEN blocks + 1 ELSE 1

BlocksToMove == IF step = "transfer" THEN blocks ELSE 1

(* A command that was not sent yet keeps the controller from this one, or  *)
(* gives way to it; with data the controller waits for a transfer's end.   *)
Issue == /\ At("issue")
         /\ wire' = Command(step) \/ (wire # "none" /\ UNCHANGED wire)
         /\ answered' = FALSE
         /\ IF WithData(step)
            THEN stage' = "data" /\ n' = BlocksToMove
            ELSE stage' = "cc" /\ UNCHANGED n
         /\ UNCHANGED <<program, host, active, fifo, rint, resp, device, gave_up, doubt>>

(* smhc_send_data : a block from the FIFO, or a block into it. *)
MoveBlock == /\ At("data")
             /\ n > 0
             /\ fifo' = IF call = "write" THEN fifo + 1 ELSE fifo - 1
             /\ fifo' \in 0..1
             /\ n' = n - 1
             /\ UNCHANGED <<program, stage, host, wire, active, rint, resp, device, auxiliary>>

DataMoved == /\ At("data")
             /\ n = 0
             /\ stage' = "cc"
             /\ UNCHANGED <<program, n, host, controller, device, auxiliary>>

(* The FIFO stays empty or full for too long: back at once, nothing reset. *)
DataTimeout == /\ At("data")
               /\ n > 0
               /\ IF call = "write" THEN fifo = 1 ELSE fifo = 0
               /\ gave_up' = TRUE
               /\ UNCHANGED <<ready, host_w>>
               /\ GoTo(AfterError(step))
               /\ UNCHANGED <<n, controller, device, answered, doubt>>

Over == IF step = "transfer" /\ blocks > 1 THEN "ACD" ELSE "DTC"

CommandComplete == /\ At("cc")
                   /\ "CC" \in rint
                   /\ stage' = IF WithData(step) THEN "over"
                               ELSE IF WithBusy(step) THEN "busy" ELSE "done"
                   /\ UNCHANGED <<program, n, host, controller, device, auxiliary>>

TransferOver == /\ At("over")
                /\ Over \in rint
                /\ stage' = IF WithBusy(step) THEN "busy" ELSE "done"
                /\ UNCHANGED <<program, n, host, controller, device, auxiliary>>

NotBusy == /\ At("busy")
           /\ card # "prg"
           /\ stage' = "done"
           /\ UNCHANGED <<program, n, host, controller, device, auxiliary>>

(* Seeded fault: the wait for the card's busy line has no end. *)
BusyForever == /\ \/ At("cc") /\ "CC" \notin rint
                  \/ At("over") /\ Over \notin rint
               /\ stage' = "reset"
               /\ gave_up' = TRUE
               /\ UNCHANGED <<program, n, host, controller, device, answered, doubt>>

(* A wait that lasts too long, and the flag may still come before CTRL.    *)
TimedOut == /\ \/ At("cc") /\ "CC" \notin rint
               \/ At("over") /\ Over \notin rint
               \/ At("busy") /\ card = "prg"
            /\ stage' = "reset"
            /\ gave_up' = TRUE
            /\ UNCHANGED <<program, n, host, controller, device, answered, doubt>>

(* Seeded fault: a failed command leaves the controller as it is. *)
ClockOnly == /\ At("reset")
             /\ ClockUpdated
             /\ gave_up' = FALSE
             /\ UNCHANGED <<ready, host_w>>
             /\ GoTo(AfterError(step))
             /\ UNCHANGED <<n, wire, active, fifo, resp, device, answered, doubt>>

(* CTRL drops the command, the transfer and the FIFO; the clock update     *)
(* that clears RINTSTS may time out itself.                                *)
Reset == /\ At("reset")
         /\ wire' = "none"
         /\ active' = FALSE
         /\ fifo' = 0
         /\ \/ ClockUpdated /\ gave_up' = FALSE
            \/ UNCHANGED <<rint, gave_up>>
         /\ UNCHANGED <<ready, host_w>>
         /\ GoTo(AfterError(step))
         /\ UNCHANGED <<n, resp, device, answered, doubt>>

(* The answer is taken, RINTSTS cleared and the FIFO reset. *)
Done == /\ At("done")
        /\ ready' = IF Command(step) \in LongAnswer THEN resp ELSE ready
        /\ host_w' = IF step = "width" THEN 4 ELSE host_w
        /\ GoTo(AfterOk(step))
        /\ rint' = {}
        /\ fifo' = 0
        /\ doubt' = (doubt \/ gave_up)
        /\ UNCHANGED <<n, wire, active, resp, device, answered, gave_up>>

Calls == smhc_init \/ smhc_read_or_write

Driver == \/ smhc_clock_set
          \/ Issue \/ MoveBlock \/ DataMoved \/ DataTimeout
          \/ CommandComplete \/ TransferOver \/ NotBusy \/ TimedOut \/ Reset \/ Done

-------------------------------------------------------------------------------
(* The controller and the card, as the driver uses them. *)

(* The states in which the card answers a command. *)
Listens(c) == CASE c \in NoAnswer -> TRUE
                [] c = "IF_COND" -> card = "idle"
                [] c = "APP to all" -> card = "idle"
                [] c = "OP_COND" -> card = "idle" /\ app
                [] c = "cid" -> card = "ready"
                [] c = "rca" -> card \in {"ident", "stby"}
                [] c \in {"csd", "SELECT"} -> card = "stby"
                [] c = "scr" -> card = "tran" /\ app
                [] OTHER -> card = "tran"

Selected == {"tran", "data", "rcv", "prg"}

(* What a command it answers makes of the card. *)
Obeys(c) ==
  /\ app' = (c \in {"APP", "APP to all"})
  /\ card_w' = IF c = "GO_IDLE" THEN 1 ELSE IF c = "SWITCH" /\ app THEN 4 ELSE card_w
  /\ CASE c = "GO_IDLE" -> card' = "idle"
       [] c = "OP_COND" -> card' \in {"idle", "ready"}
       [] c = "cid" -> card' = "ident"
       [] c = "rca" -> card' = "stby"
       [] c = "SELECT" -> card' = "tran"
       [] c = "DESELECT" -> card' = IF card \in Selected THEN "stby" ELSE card
       [] c \in {"scr", "read"} -> card' = "data"
       [] c = "SWITCH" -> card' = IF app THEN "tran" ELSE "data"
       [] c = "write" -> card' = "rcv"
       [] OTHER -> card' = card
  /\ left' = IF card' \notin {"data", "rcv"} THEN 0
             ELSE IF c \in {"read", "write"} THEN blocks ELSE 1

(* The card takes the command; the answer, if one is due, may be lost.     *)
(* SMHC_RESP3 is bit 31 of a long answer: of OCR, or of anything else.     *)
Answer == /\ wire # "none"
          /\ Listens(wire)
          /\ Obeys(wire)
          /\ wire' = "none"
          /\ answered' = (answered \/ wire = Command(step))
          /\ active' = (active \/ card' \in {"data", "rcv"})
          /\ \/ /\ rint' = rint \cup {"CC"}
                /\ resp' \in IF wire = "OP_COND" THEN {card' = "ready"}
                             ELSE IF wire \in LongAnswer THEN BOOLEAN ELSE {resp}
             \/ wire \notin NoAnswer /\ UNCHANGED <<rint, resp>>
          /\ UNCHANGED <<program, stage, n, host, fifo, gave_up, doubt>>

(* The card misses the command, or has no answer to it in its state.  The  *)
(* two commands without an answer are assumed to reach the card: CC shows  *)
(* only that they were sent.                                               *)
Missed == /\ wire \notin NoAnswer \cup {"none"}
          /\ wire' = "none"
          /\ UNCHANGED <<program, stage, n, host, active, fifo, rint, resp, device, auxiliary>>

(* A block passes between the card and the FIFO of a running transfer.     *)
(* The last one is DTC, and the controller stops a transfer of several.    *)
CardMoves == /\ active
             /\ card \in {"data", "rcv"}
             /\ left > 0
             /\ fifo' = IF card = "data" THEN fifo + 1 ELSE fifo - 1
             /\ fifo' \in 0..1
             /\ left' = left - 1
             /\ IF left' > 0 THEN UNCHANGED <<card, rint, active>>
                ELSE /\ card' = IF card = "data" THEN "tran" ELSE "prg"
                     /\ rint' = rint \cup {"DTC", Over}
                     /\ active' = FALSE
             /\ UNCHANGED <<program, stage, n, host, wire, resp, app, card_w, auxiliary>>

Programmed == /\ card = "prg"
              /\ card' = "tran"
              /\ UNCHANGED <<program, stage, n, host, controller, app, left, card_w, auxiliary>>

Card == Answer \/ Missed \/ CardMoves \/ Programmed

-------------------------------------------------------------------------------
Init == /\ call = "none" /\ step = "return ok" /\ stage = "issue" /\ ret = "return ok"
        /\ blocks = 1 /\ n = 0 /\ ready = FALSE /\ cardtype = "NONE" /\ host_w = 1
        /\ wire = "none" /\ active = FALSE /\ fifo = 0 /\ rint = {} /\ resp = FALSE
        /\ card = "idle" /\ app = FALSE /\ left = 0 /\ card_w = 1
        /\ inited = FALSE /\ answered = FALSE /\ gave_up = FALSE /\ doubt = FALSE

Next == Calls \/ Driver \/ Card

(* A call goes on; of the card and the controller nothing is assumed. *)
Spec == Init /\ [][Next]_vars /\ WF_vars(Driver)

-------------------------------------------------------------------------------
CallTypes == /\ call \in {"none", "init", "read", "write"}
             /\ step \in Steps \cup ClockSteps \cup {"return ok", "return error"}
             /\ stage \in {"issue", "data", "cc", "over", "busy", "reset", "done"}
             /\ ret \in {"return ok", "return error"}

CountTypes == /\ blocks \in 1..MaxBlocks
              /\ n \in 0..MaxBlocks
              /\ left \in 0..MaxBlocks
              /\ fifo \in 0..1
              /\ {host_w, card_w} \subseteq {1, 4}

BusTypes == /\ cardtype \in {"NONE", "SDSC", "SDHC"}
            /\ wire \in Commands \cup {"none"}

CardTypes == /\ rint \subseteq {"CC", "DTC", "ACD"}
             /\ card \in {"idle", "ready", "ident", "stby", "tran", "data", "rcv", "prg"}

FlagTypes == {ready, inited, active, resp, app, answered, gave_up, doubt} \subseteq BOOLEAN

(* The values of the variables, of the call, the controller and the card.  *)
TypeOK == CallTypes /\ CountTypes /\ BusTypes /\ CardTypes /\ FlagTypes

(* A command that succeeds was acted on by the card, and its data is       *)
(* through: no bit left over in RINTSTS ends a wait of a later command,    *)
(* unless a failure has left the controller uncleared (smhc.c:232-285).    *)
OkIsAnswered == call # "none" /\ stage = "done" /\ ~gave_up =>
                  answered /\ (WithData(step) => ~active)

(* Data passes only when host and card agree on the width of the bus,      *)
(* through lost answers, failed and repeated smhc_init (smhc.c:409, 436).  *)
(* Nothing is promised after a failure that left the controller uncleared  *)
(* (gave_up), nor when a command went through in spite of it (doubt): two  *)
(* failures in a row, of which the second is the clock update that should  *)
(* end the first, can leave host and card with different widths.           *)
WidthsAgree == At("data") /\ ~gave_up /\ ~doubt /\ answered => host_w = card_w

(* A read or a write that succeeds leaves the card in stand-by, where the  *)
(* next call's select finds it (smhc.c:616-622, 661-667).                  *)
CardGivenBack ==
  [][call' = "none" /\ call \in {"read", "write"} /\ ret' = "return ok" /\ ~gave_up
       => card' = "stby"]_vars

(* No call waits for ever: the program always comes back to its caller, or *)
(* to the loop that asks a card with ACMD41 until it is ready.             *)
CallsEnd == []<>(call = "none" \/ step \in {"app", "op", "app3", "op2"})
=============================================================================
