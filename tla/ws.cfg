SPECIFICATION Spec
CONSTANTS
  Conns = {c1}
  MaxChats = 2
  MaxStarts = 2
  MaxHistory = 1
  InboxCap = 1
  SendCap = 1
  MaxConns = 2
  MaxReconnect = 2
  MaxDials = 3
  MaxAttempts = 0
CHECK_DEADLOCK FALSE
INVARIANTS HubShows NoSendOnClosed
PROPERTIES TuiSettles AgentKeeps
