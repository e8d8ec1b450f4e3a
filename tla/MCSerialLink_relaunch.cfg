CONSTANTS
  Digits = {"0", "1"}
  Romcc = FALSE
  FixedKey = "0"
  Guest <- MCFew
  MaxReqs = 1
  MaxBoots = 0
  MaxKills = 1
SPECIFICATION FairRelaunchSpec
PROPERTY HandshakeCompletes
CHECK_DEADLOCK FALSE
