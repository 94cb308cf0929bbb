SPECIFICATION DmSpec
CONSTANTS
  Peers = {"ann"}
  Limit = 1
  MaxHandlers <- TwoHandlers
  MaxReads = 2
  MaxSelects = 1
INVARIANT NewestIsShown
CHECK_DEADLOCK FALSE
