-------------------------------- MODULE Input --------------------------------
(***************************************************************************)
(* application/hid_app.c, command.c and the keys of doom_task.c : what is  *)
(* pressed on the keyboards goes as bytes through keyboard_fifo to the     *)
(* command line or, while it runs, to doom.                                *)
(*                                                                         *)
(* down, armed : the keys held on each keyboard, and whether a request for *)
(*        its next report is outstanding (external: tinyusb)               *)
(* prev : the keys of prev_report, one for all keyboards                   *)
(* typed, again : the keys typed since they were last pressed, or counted  *)
(*        as released, and whether one was typed twice (auxiliary)         *)
(* ring, symbol : keyboard_fifo, and what was last read from it            *)
(* pc : "loop" at the start of a turn of the main loop, "usb" in tuh_task, *)
(*        "report" at the keys todo of a report of the keyboard from,      *)
(*        "text" in run_command at the bytes text, "handler" in            *)
(*        console_command_handler, "frame" and "update" in doom_task_exec, *)
(*        "wild" where an uninitialized cmd_num led                        *)
(* report : the keys of the report being processed                         *)
(* served : the reports so far                                             *)
(* autorun : run_command is still to come;  line : command_string          *)
(* doom_run, key, previous_key, frame_cnt : as in doom_task.c              *)
(* held : the keys down for doom (external: PureDOOM)                      *)
(***************************************************************************)
EXTENDS Integers, Sequences, FiniteSets

CONSTANTS Keyboards, Key, Byte, Zero, Enter, Backspace, Esc, Ctrl,
          ErrorRollOver, \* keycode 0x01, in every place of a report of too many keys
          Ascii,       \* Ascii[k, shift] : keycode2ascii, 0 for many keys
          Commands,    \* the names in commands[], in their order
          Doom,        \* the name of doom_task_run
          Capacity, BUFF_SIZE,
          Rollover,    \* keys a report has room for
          Certain,     \* keys a keyboard always tells apart: of more it may not be sure
          Junk,        \* what may follow run_command's text in memory
          Served       \* a bound: most reports of a behaviour

Code == Key \cup {ErrorRollOver}

ASSUME InputAssumption ==
  /\ {Zero, Enter, Backspace, Esc, Ctrl} \subseteq Byte
  /\ ErrorRollOver \notin Key
  /\ Ascii \in [Code \X BOOLEAN -> Byte]
  /\ Commands \in Seq(Seq(Byte \ {Zero}))
  /\ Doom \in Seq(Byte) /\ Junk \subseteq Seq(Byte)
  /\ {Capacity, BUFF_SIZE, Rollover, Certain, Served} \subseteq Nat
  /\ Certain <= Rollover

VARIABLES down, armed, prev, typed, again, ring, symbol, pc, todo, text, from,
          report, served, autorun, line, doom_run, key, previous_key, frame_cnt, held

hid == <<down, armed, prev, typed, again, todo, from, report>>
queue == <<ring, symbol>>
shell == <<text, autorun, line>>
doom == <<doom_run, key, previous_key, frame_cnt, held>>
vars == <<down, armed, prev, typed, again, ring, symbol, pc, todo, text, from,
          report, served, autorun, line, doom_run, key, previous_key, frame_cnt, held>>

(* keyboard_fifo; ByteFifo shows that its rings are such queues. *)
Q == INSTANCE ByteQueue WITH q <- ring, result <- symbol

-------------------------------------------------------------------------------
(* The keyboards.  Nothing looks at them but a report, and a report is     *)
(* only taken in tuh_task: what happens there happens between two of them. *)

Press(d, k) == /\ pc = "usb"
               /\ k \notin down[d]
               /\ down' = [down EXCEPT ![d] = @ \cup {k}]
               /\ typed' = typed \ {<<d, k>>}
               /\ UNCHANGED <<armed, prev, again, queue, pc, todo, from, report,
                              served, shell, doom>>

Release(d, k) == /\ pc = "usb"
                 /\ k \in down[d]
                 /\ down' = [down EXCEPT ![d] = @ \ {k}]
                 /\ UNCHANGED <<armed, prev, typed, again, queue, pc, todo, from,
                                report, served, shell, doom>>

(* tuh_hid_umount_cb does nothing, tuh_hid_mount_cb asks for a report. *)
Unplug(d) == /\ pc = "usb"
             /\ down' = [down EXCEPT ![d] = {}]
             /\ armed' = [armed EXCEPT ![d] = FALSE]
             /\ UNCHANGED <<prev, typed, again, queue, pc, todo, from, report,
                            served, shell, doom>>

Mount(d) == /\ pc = "usb"
            /\ ~armed[d]
            /\ armed' = [armed EXCEPT ![d] = TRUE]
            /\ UNCHANGED <<down, prev, typed, again, queue, pc, todo, from, report,
                           served, shell, doom>>

-------------------------------------------------------------------------------
(* hid_app.c *)

Orders(S) == {s \in [1..Cardinality(S) -> S] : \A i, j \in DOMAIN s : s[i] = s[j] => i = j}

(* The keys of the report in any order.                                    *)
KeysOf(d) == /\ Cardinality(down[d]) <= Rollover
             /\ report' = down[d]
             /\ todo' \in Orders(down[d])
             /\ UNCHANGED typed

(* With more keys down than it has room for, or can tell apart, a keyboard *)
(* names none of them (external: HID's phantom state): process_kbd_report  *)
(* takes the keys held for released.                                       *)
TooManyOf(d) == /\ Cardinality(down[d]) > Certain
                /\ report' = {ErrorRollOver}
                /\ todo' = [i \in 1..Rollover |-> ErrorRollOver]
                /\ typed' = {t \in typed : t[1] # d}

(* tuh_hid_report_received_cb up to the loop of process_kbd_report. *)
ReportReceived(d) == /\ pc = "usb"
                     /\ armed[d]
                     /\ served < Served
                     /\ served' = served + 1
                     /\ armed' = [armed EXCEPT ![d] = FALSE]
                     /\ KeysOf(d) \/ TooManyOf(d)
                     /\ from' = d
                     /\ pc' = "report"
                     /\ UNCHANGED <<down, prev, again, queue, shell, doom>>

(* The loop of process_kbd_report, one key at a time. *)
KeyHeld == /\ pc = "report"
           /\ todo # <<>>
           /\ Head(todo) \in prev
           /\ todo' = Tail(todo)
           /\ UNCHANGED <<down, armed, prev, typed, again, queue, pc, from, report,
                          served, shell, doom>>

KeyPressed == /\ pc = "report"
              /\ todo # <<>>
              /\ Head(todo) \notin prev
              /\ \E shift \in BOOLEAN : Q!Put(Ascii[Head(todo), shift])
              /\ again' = (again \/ <<from, Head(todo)>> \in typed)
              /\ typed' = IF Head(todo) \in Key THEN typed \cup {<<from, Head(todo)>>} ELSE typed
              /\ todo' = Tail(todo)
              /\ UNCHANGED <<down, armed, prev, pc, from, report, served, shell, doom>>

(* Seeded fault: the report is not remembered, as with the mouse. *)
ReportForgotten == /\ pc = "report"
                   /\ todo = <<>>
                   /\ armed' \in {armed, [armed EXCEPT ![from] = TRUE]}
                   /\ pc' = "usb"
                   /\ UNCHANGED <<down, prev, typed, again, queue, todo, from, report,
                                  served, shell, doom>>

(* The next report is asked for; when that fails it is only logged. *)
ReportDone == /\ pc = "report"
              /\ todo = <<>>
              /\ prev' = report
              /\ armed' \in {armed, [armed EXCEPT ![from] = TRUE]}
              /\ pc' = "usb"
              /\ UNCHANGED <<down, typed, again, queue, todo, from, report, served,
                             shell, doom>>

(* process_mouse_report never remembers the buttons: every report with the *)
(* left one down is a press.                                               *)
MouseReport == /\ pc = "usb"
               /\ served < Served
               /\ served' = served + 1
               /\ Q!Put(Ctrl)
               /\ UNCHANGED <<hid, pc, shell, doom>>

-------------------------------------------------------------------------------
(* main.c, usb_task.c *)

(* run_command("doom") after 100 turns of a count that starts anywhere. It *)
(* takes the size of a pointer for the length: the name, its end, and what *)
(* comes after it in memory.                                               *)
RunCommand == /\ pc = "loop"
              /\ autorun
              /\ autorun' = FALSE
              /\ \E after \in Junk : text' = (Doom \o <<Zero>>) \o (after \o <<Enter>>)
              /\ pc' = "text"
              /\ UNCHANGED <<hid, queue, served, line, doom>>

TextByte == /\ pc = "text"
            /\ text # <<>>
            /\ Q!Put(Head(text))
            /\ text' = Tail(text)
            /\ UNCHANGED <<hid, pc, served, autorun, line, doom>>

TextDone == /\ pc = "text"
            /\ text = <<>>
            /\ pc' = "usb"
            /\ UNCHANGED <<hid, queue, served, shell, doom>>

TurnStarts == /\ pc = "loop"
              /\ pc' = "usb"
              /\ UNCHANGED <<hid, queue, served, shell, doom>>

UsbDone == /\ pc = "usb"
           /\ pc' = IF doom_run THEN "frame" ELSE "handler"
           /\ UNCHANGED <<hid, queue, served, shell, doom>>

-------------------------------------------------------------------------------
(* command.c *)

(* A string past its end. *)
At(s, k) == IF k <= Len(s) THEN s[k] ELSE Zero

(* strncmp of a name and what has been typed, over the length of the latter. *)
Matches(name) == \A k \in 1..Len(line) :
                   \/ At(name, k) = line[k]
                   \/ \E m \in 1..k-1 : At(name, m) = Zero

(* The last command that matches; without one, "not found" (0), or         *)
(* whatever cmd_found and cmd_num happen to hold (-1 : no command at all). *)
Outcomes == LET found == {j \in DOMAIN Commands : Matches(Commands[j])} IN
            CASE line = <<>> \/ At(line, 1) = Zero -> {0}
              [] found # {} -> {j \in found : \A i \in found : i <= j}
              [] OTHER -> {-1, 0} \cup DOMAIN Commands

(* console_find_command and the flush after it; doom is a call in between. *)
HandlerEnter ==
  /\ pc = "handler"
  /\ Q!Take
  /\ symbol' = Enter
  /\ \E j \in Outcomes :
       \/ /\ j > 0
          /\ Commands[j] = Doom
          /\ pc' = "usb"
          /\ doom_run' = TRUE
          /\ UNCHANGED line
       \/ /\ j >= 0
          /\ j > 0 => Commands[j] # Doom
          /\ line' = <<>>
          /\ UNCHANGED <<pc, doom_run>>
       \/ /\ j < 0
          /\ pc' = "wild"
          /\ UNCHANGED <<line, doom_run>>
  /\ UNCHANGED <<hid, served, text, autorun, key, previous_key, frame_cnt, held>>

HandlerBackspace ==
  /\ pc = "handler"
  /\ Q!Take
  /\ symbol' = Backspace
  /\ line # <<>>
  /\ line' = SubSeq(line, 1, Len(line) - 1)
  /\ UNCHANGED <<hid, pc, served, text, autorun, doom>>

(* Any other symbol, and a backspace with nothing before it; Esc is stored *)
(* as 0.                                                                   *)
HandlerSymbol ==
  /\ pc = "handler"
  /\ Q!Take
  /\ symbol' # Enter
  /\ ~(symbol' = Backspace /\ line # <<>>)
  /\ line' = IF Len(line) < BUFF_SIZE
             THEN Append(line, IF symbol' = Esc THEN Zero ELSE symbol')
             ELSE line
  /\ UNCHANGED <<hid, pc, served, text, autorun, doom>>

HandlerDone == /\ pc = "handler"
               /\ ring = <<>>
               /\ pc' = "loop"
               /\ UNCHANGED <<hid, queue, served, shell, doom>>

-------------------------------------------------------------------------------
(* doom_task.c *)

(* doom_task_exec up to doom_force_update. *)
DoomKey == /\ pc = "frame"
           /\ \/ /\ Q!Take
                 /\ key' = symbol'
                 /\ held' = held \cup {symbol'}
              \/ /\ ring = <<>>
                 /\ UNCHANGED <<queue, key, held>>
           /\ pc' = "update"
           /\ UNCHANGED <<hid, served, shell, doom_run, previous_key, frame_cnt>>

(* Seeded fault: one frame too many. *)
Third == frame_cnt + 1 = 3

Second == frame_cnt + 1 = 2

(* Seeded fault: a key is only released when another one follows. *)
ReleasesOnChange == previous_key # key

Releases == previous_key # Zero

(* Its rest.  The game may have called doom_exit_fnc. *)
DoomUpdate ==
  /\ pc = "update"
  /\ \/ /\ ~Releases
        /\ UNCHANGED <<frame_cnt, held>>
     \/ /\ Releases
        /\ frame_cnt' = IF Second THEN 0 ELSE frame_cnt + 1
        /\ held' = IF Second THEN held \ {previous_key} ELSE held
  /\ previous_key' = key
  /\ \/ pc' = "usb" /\ UNCHANGED <<doom_run, line>>
     \/ pc' = "handler" /\ doom_run' = FALSE /\ line' = <<>>
  /\ UNCHANGED <<hid, queue, served, text, autorun, key>>

-------------------------------------------------------------------------------
Init == /\ down = [d \in Keyboards |-> {}]
        /\ armed = [d \in Keyboards |-> FALSE]
        /\ prev = {} /\ typed = {} /\ again = FALSE
        /\ ring = <<>> /\ symbol = Zero
        /\ pc = "loop" /\ todo = <<>> /\ text = <<>>
        /\ from \in Keyboards /\ report = {}
        /\ served = 0 /\ autorun = TRUE /\ line = <<>>
        /\ doom_run = FALSE /\ key = Zero /\ previous_key = Zero
        /\ frame_cnt = 0 /\ held = {}

User == \E d \in Keyboards : \/ \E k \in Key : Press(d, k) \/ Release(d, k)
                             \/ Unplug(d) \/ Mount(d)

Reports == (\E d \in Keyboards : ReportReceived(d)) \/ MouseReport \/ RunCommand

Thread == \/ KeyHeld \/ KeyPressed \/ ReportDone \/ TextByte \/ TextDone \/ TurnStarts \/ UsbDone
          \/ HandlerEnter \/ HandlerBackspace \/ HandlerSymbol \/ HandlerDone
          \/ DoomKey \/ DoomUpdate

Next == User \/ Reports \/ Thread

(* The thread goes on; what is pressed and reported is not its to say. *)
Spec == Init /\ [][Next]_vars /\ WF_vars(Thread)

-------------------------------------------------------------------------------
KeyTypes == /\ down \in [Keyboards -> SUBSET Key]
            /\ armed \in [Keyboards -> BOOLEAN]
            /\ prev \subseteq Code /\ report \subseteq Code
            /\ typed \subseteq Keyboards \X Key
            /\ todo \in Seq(Code)
            /\ from \in Keyboards
            /\ served \in 0..Served

RingTypes == ring \in Seq(Byte) /\ Len(ring) <= Capacity /\ symbol \in Byte

ShellTypes == /\ text \in Seq(Byte)
              /\ line \in Seq(Byte) /\ Len(line) <= BUFF_SIZE

DoomTypes == /\ key \in Byte /\ previous_key \in Byte
             /\ frame_cnt \in 0..1
             /\ held \subseteq Byte

FlowTypes ==
  /\ pc \in {"loop", "usb", "report", "text", "handler", "frame", "update", "wild"}
  /\ {again, autorun, doom_run} \subseteq BOOLEAN

(* The values of the variables; the command never outgrows its buffer. *)
TypeOK == KeyTypes /\ RingTypes /\ ShellTypes /\ DoomTypes /\ FlowTypes

(* A key types at most one byte for one press, however often and in        *)
(* whatever order it is reported, unless a report of too many keys comes   *)
(* in between: "not existed in previous report means the current key is    *)
(* pressed" (hid_app.c:164).                                               *)
OncePerPress == ~again

(* When nothing more is typed, doom does not keep the last key down: some  *)
(* frame releases it (doom_task.c:163-168).                                *)
LastKeyReleased ==
  <>[](doom_run /\ ring = <<>>) => <>[](key = Zero \/ key \notin held)
===============================================================================
