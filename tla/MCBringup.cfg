SPECIFICATION Spec
CONSTANTS
  PixelClocks = {12000000, 54330000}
  TwiClocks = {100000, 400000}
  BaudRates = {115200, 500000}
INVARIANT HeadersCorrectable
INVARIANT ChecksumsRight
INVARIANT ClocksMet
