CONSTANTS
  client = client
  server = server
  Ends <- Hosts
  CallbackEnds = {server}
  MaxSockets = 1
  MaxMessages = 1
  None = None
SPECIFICATION Spec
CHECK_DEADLOCK FALSE
INVARIANT CallbackIsCalled
