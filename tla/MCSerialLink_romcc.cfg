CONSTANTS
  Digits = {"0", "1"}
  Romcc = TRUE
  FixedKey = "0"
  Guest <- MCFew
  MaxReqs = 1
  MaxBoots = 0
  MaxKills = 0
SPECIFICATION WarmSpec
PROPERTY Transparent
CHECK_DEADLOCK FALSE
