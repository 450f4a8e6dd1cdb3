SPECIFICATION SpecRing
CONSTANTS
  zero = zero
  a = a
  b = b
  Zero = zero
  Byte <- MCByte
  Garbage <- MCByte
  N = 6
INVARIANT HoldsWhatItAccepted
