SPECIFICATION DevicesSpec
CONSTANTS
  laptop = laptop
  t1 = t1
  t2 = t2
  Browsers = {laptop}
  Tasks = {t1, t2}
  BrowserOf <- OnLaptop
  MaxDevices = 2
  Threshold = 1
  Target = 1
  MaxEnrolled = 2
  MaxMinted = 2
INVARIANT KeyIdsApart
CHECK_DEADLOCK FALSE
