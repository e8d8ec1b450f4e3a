CONSTANTS
  Digits = {"0", "1"}
  Romcc = FALSE
  FixedKey = "0"
  Guest <- MCGuest
  MaxReqs = 2
  MaxBoots = 1
  MaxKills = 1
SPECIFICATION FairFaultSpec
INVARIANTS TypeOK TornInLastField
PROPERTY NeverStuck
CHECK_DEADLOCK FALSE
