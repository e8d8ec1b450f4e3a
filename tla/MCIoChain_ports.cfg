CONSTANTS
  Port <- IoPort
  Nowhere = "nowhere"
  Filter <- IoFilter
  Bar <- IoBar
  Fixed <- IoFixed
  Setup <- IoSetup
  Runtime <- MCNoRuntime
  Movers <- IoMovers
  PreDoes <- IoPreDoes
  PostFakes <- IoPostFakes
  CacheNvram = TRUE
  Windows <- MCWindows
SPECIFICATION Spec
INVARIANTS TypeOK NoDuplicates UartShielded NothingLost FakedStaysOff
