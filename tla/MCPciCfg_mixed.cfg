CONSTANTS
  Reg = {"LPC", "LPC1", "RCBA", "other"}
  None = "none"
  Hook <- MCHooks
  Mixed = TRUE
  MaxWrites = 3
SPECIFICATION Spec
PROPERTY HookSeesWritten
CHECK_DEADLOCK FALSE
