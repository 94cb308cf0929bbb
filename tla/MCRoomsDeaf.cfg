SPECIFICATION FairSpec
CONSTANTS
  tab1 = tab1
  tab2 = tab2
  l1 = l1
  l2 = l2
  l3 = l3
  news = news
  p1 = p1
  NoListener = NoListener
  Listeners <- MCListeners
  Sockets <- MCSockets
  SocketOf <- MCSocketOf
  Channels <- MCChannels
  ChannelOf <- MCChannelOf
  Payloads <- MCPosts
  SubscribeMayFail = TRUE
CHECK_DEADLOCK FALSE
INVARIANT SubscribedIsFed
