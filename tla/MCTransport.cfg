SPECIFICATION FairTransport
CONSTANTS
  tab1 = tab1
  tab2 = tab2
  l1 = l1
  l2 = l2
  l3 = l3
  news = news
  p1 = p1
  NoListener = NoListener
  Listeners <- MCListeners
  Sockets <- MCSockets
  SocketOf <- MCSocketOf
  Channels <- MCChannels
  ChannelOf <- MCChannelOf
  Payloads <- MCPosts
  SubscribeMayFail = TRUE
  Nonces = {"n1", "n2"}
  Messages = {"m1", "m2"}
  Shards <- ShardsOf
  TooLarge = {"n2"}
  MaxSockets = 2
  MaxEntries = 2
INVARIANTS
  LevelsAgree
  ConnectionKept
  NothingLost
PROPERTIES
  PostReaches
  EventuallyAcknowledged
CHECK_DEADLOCK FALSE
