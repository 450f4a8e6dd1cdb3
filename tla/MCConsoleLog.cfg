SPECIFICATION Spec
CONSTANTS
  zero = zero
  esc = esc
  m = m
  nl = nl
  a = a
  b = b
  Zero = zero
  Esc = esc
  EndOfColor = m
  NewLine = nl
  Byte <- MCByte
  Garbage <- MCGarbage
  Messages <- MCMessages
  N = 16
  col_num = 2
  row_num = 3
  TurnBytes = 7
  TurnCells = 8
INVARIANT NothingDamaged
INVARIANT ShowsWhatWasPrinted
PROPERTY RenderReturns
