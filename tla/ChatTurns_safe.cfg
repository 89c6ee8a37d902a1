\* Two messages of one conversation and one of another, two slots.
SPECIFICATION FairSpec
CONSTANTS
  Sends = {1, 2, 3}
  Conversations = {1, 2}
  ConvOf <- MCConvOf
  MaxActive = 2
  MaxText = 1
INVARIANTS
  RunningTurnsAreOwned
  PutAwayConversationsAreIdle
PROPERTIES
  SlotsAreFreed
  ImplementsContract
