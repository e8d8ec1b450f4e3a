CONSTANTS
  Digits = {"0", "1"}
  Romcc = FALSE
  FixedKey = "0"
  Guest <- MCGuest
  MaxReqs = 2
  MaxBoots = 0
  MaxKills = 0
SPECIFICATION FairWarmSpec
INVARIANTS NoReadbackError Lockstep
PROPERTIES Transparent Answered
CHECK_DEADLOCK FALSE
