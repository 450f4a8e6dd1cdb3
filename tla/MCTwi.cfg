SPECIFICATION Spec
CONSTANTS
  dcdc = dcdc
  eldo = eldo
  dldo2 = dldo2
  lcd = lcd
  usb = usb
  rail = rail
  level = level
  other = other
  Reg <- MCReg
  Bit <- MCBit
  Address <- MCAddress
  Programs <- MCPrograms
  RegsAtReset <- MCRegs
INVARIANT TypeOK
INVARIANT BusGivenBack
PROPERTY WritesOnlyItsBits
PROPERTY CallsEnd
