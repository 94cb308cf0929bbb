SPECIFICATION Spec
CONSTANTS
  alice = alice
  bob = bob
  message = message
  receipt = receipt
  c1 = c1
  c2 = c2
  c3 = c3
  Devices <- MCDevices
  Nonces <- MCNonces
  Calls <- MCCalls
  RecipientOf <- MCRecipientOf
  IsAck <- MCIsAck
  HasSession <- WithSession
  Burst = 1
SYMMETRY Symmetry
INVARIANTS OnePublishPerKey RefusalNeedsFault
PROPERTY ImplementsStore
CHECK_DEADLOCK FALSE
