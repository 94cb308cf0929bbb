SPECIFICATION Spec
CONSTANTS
  alice = alice
  bob = bob
  message = message
  receipt = receipt
  c1 = c1
  c2 = c2
  c3 = c3
  Devices <- MCDevices
  Nonces <- MCNonces
  Calls <- TwoCalls
  RecipientOf <- MCRecipientOf
  IsAck <- MCIsAck
  HasSession <- NoSession
  Burst = 2
INVARIANT RefusalNeedsFault
CHECK_DEADLOCK FALSE
