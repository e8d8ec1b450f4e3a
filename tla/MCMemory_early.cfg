CONSTANTS
  Port <- MemPort
  Nowhere = "nowhere"
  Filter <- MemFilter
  Bar <- MemBar
  Windows <- MCWindows
  Fixed <- MemFixed
  Movers <- MemMovers
  PreDoes <- MemPreDoes
  PostFakes <- MemPostFakes
  RamFilters <- RamFilter
  RamPages <- MCRamPages
  CarPages <- MCCarPages
  Setup <- MCEarlySetup
  Runtime <- MCNoRuntime
SPECIFICATION MemSpec
INVARIANTS ReadsNewest
