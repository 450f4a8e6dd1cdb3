SPECIFICATION Spec
CONSTANTS
  a = a
  b = b
  blank = blank
  nl = nl
  cr = cr
  bs = bs
  other = other
  Glyph <- MCGlyph
  Blank = blank
  NewLine = nl
  Return = cr
  Backspace = bs
  Other = other
  Symbols <- Plain
  row_num = 3
  col_num = 3
  NewLineWords = 8
INVARIANT TypeOK
INVARIANT NewLineInMemory
INVARIANT MirrorComplete
PROPERTY ImplementsTerminal
