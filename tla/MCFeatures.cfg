SPECIFICATION FairFeatures
CONSTANTS
  Channels = {"bob"}
  Listeners = {"tab1", "tab2"}
  ChannelOf <- DeviceOfTwo
  Payloads = {"e1"}
  RecipientOf <- ToBob
  SubscribeMayFail = TRUE
  Workers = {1, 2}
  MaxMade = 4
  MaxDevices = 2
  Users = {"ann", "bob"}
  Flows = {1, 2}
  MaxSignIns = 3
  MaxEnrolments = 2
  RoomUsers = {"olga", "umar"}
  NoUser = "nobody"
  Posts = {"p1", "p2"}
  NoPost = "none"
  AuthorOf <- PostAuthors
  SignerOf <- PostDevices
  SignedAt <- PostOrder
  SigningDevices = {"laptop"}
  WellSigned = {"p1", "p2"}
  PageLimit = 1
INVARIANTS
  HandoffComplete
  CaughtUp
  HeldOnlyInCall
  KeysReadable
  BackupServes
  SignInBinds
PROPERTIES
  NoRepeatAfterReplay
  ListenerIsNotPushed
  LiveDelivery
  OfferEnds
  OtherEndFollows
  MicGoesOff
CHECK_DEADLOCK FALSE
