SPECIFICATION Spec
CONSTANTS
  Shapes <- MCShapes
  Scanlines = 2
  MaxFrames = 3
INVARIANTS TypeOK MessageIsFrame   FooterTells
CHECK_DEADLOCK FALSE
