CONSTANTS
  Digits = {"0", "1"}
  Romcc = TRUE
  FixedKey = "0"
  Guest <- MCKeyed
  MaxReqs = 2
  MaxBoots = 1
  MaxKills = 0
SPECIFICATION FairColdSpec
INVARIANT FewUnread
PROPERTIES Transparent SettledOnceActive HandshakeCompletes
CHECK_DEADLOCK FALSE
