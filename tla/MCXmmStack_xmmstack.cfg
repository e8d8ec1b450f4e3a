CONSTANTS
  Op <- MCOp
  Program <- MCProgram
  Top = 15
  Bytes = 16
  Room = 3
  MaxRun = 3
SPECIFICATION XmmSpec
INVARIANT NoWildJump
PROPERTY StackKept
CHECK_DEADLOCK FALSE
