SPECIFICATION Spec
CONSTANTS
  g2d = g2d
  lcd = lcd
  usb = usb
  NoIrq = NoIrq
  G2D_IRQn = g2d
  LCD_IRQn = lcd
  USB_IRQn = usb
  Irqs <- MCIrqs
INVARIANT TypeOK
INVARIANT NoStrayInterrupt
INVARIANT DoomLayerOff
INVARIANT LatchedWhole
PROPERTY WaitIsExact
PROPERTY WaitEnds
PROPERTY CommitWaitEnds
PROPERTY FlagAcknowledged
CHECK_DEADLOCK FALSE
