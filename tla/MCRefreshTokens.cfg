SPECIFICATION Spec
CONSTANTS
  u1 = u1
  b1 = b1
  b2 = b2
  r1 = r1
  r2 = r2
  t1 = t1
  t2 = t2
  t3 = t3
  Users <- OneUser
  Browsers <- TwoBrowsers
  Account <- BothOfOneUser
  Requests <- TwoRequests
  Tokens <- ThreeTokens
  NoToken = NoToken
INVARIANTS ReuseNeedsFault NoForgottenSession SomeoneGoesOn
PROPERTY SpentStaysUnused
CHECK_DEADLOCK FALSE
