SPECIFICATION Spec
CONSTANTS
  kbd = kbd
  kbd2 = kbd2
  D = D
  R = R
  over = over
  d = d
  zero = zero
  enter = enter
  back = back
  esc = esc
  ctrl = ctrl
  Keyboards = {kbd, kbd2}
  Key <- MCKey
  Byte <- MCByte
  ErrorRollOver = over
  Zero = zero
  Enter = enter
  Backspace = back
  Esc = esc
  Ctrl = ctrl
  Ascii <- MCAscii
  Commands <- MCCommands
  Doom <- MCDoom
  Capacity = 7
  BUFF_SIZE = 2
  Rollover = 2
  Certain = 2
  Junk <- MCJunk
  Served = 3
INVARIANT OncePerPress
CHECK_DEADLOCK FALSE
