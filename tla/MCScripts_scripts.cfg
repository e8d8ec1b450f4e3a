CONSTANTS
  Reg = {"LPC", "BAR", "other"}
  None = "none"
  Hook <- MCHooks
  Mixed = FALSE
  MaxWrites = 3
  ChipKind = "winbond"
  Ldn = {4, 5}
  Contents = {0, 96}
  Indexes = {2, 7, 48, 96, 97}
  Words = {24578}
  MaxCopies = 4
  RtcIndex = {0}
  RamIndex = {14}
  CellValue = {0, 1}
  Slave = {"eeprom", "clock"}
  DataByte = {0, 1}
  BlockBytes = 2
SPECIFICATION MCSpec
INVARIANTS TypeOK BarFollows CopyFollows BarsFollow LogTells
PROPERTIES HookSeesWritten ProtectHolds PowerKept CacheIsMemory
CHECK_DEADLOCK FALSE
