CONSTANTS
  Port <- MemPort
  Nowhere = "nowhere"
  Filter <- MemFilter
  Bar <- MemBar
  Windows <- MCWindows
  Fixed <- MemFixed
  Movers <- MemMovers
  PreDoes <- MemPreDoes
  PostFakes <- MemPostFakes
  Setup <- MemSetup
  Runtime <- RamSetup
SPECIFICATION Spec
INVARIANTS ShieldHolds NothingLost
