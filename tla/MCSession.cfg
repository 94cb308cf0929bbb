SPECIFICATION SessionSpec
CONSTANTS
  MaxSkipped = 1
  AtOnce = 2
  MaxSends <- OneSided
INVARIANT EachKeyOnce
CHECK_DEADLOCK FALSE
