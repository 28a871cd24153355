CONSTANTS
  client = client
  server = server
  Ends <- Hosts
  CallbackEnds = {server}
  MaxSockets = 2
  MaxMessages = 2
  None = None
SPECIFICATION FairSpec
CHECK_DEADLOCK FALSE
INVARIANTS
  TypeOK
  NoGhosts
  MessagesInOrder
  LossNeedsAClose
PROPERTY ConnectReturns
