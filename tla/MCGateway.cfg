SPECIFICATION FairSpec
CONSTANTS
  a = a
  b = b
  Clients = {a, b}
  MaxSessions = 1
  TUI = TRUE
  Greets = TRUE
  Reconnect = TRUE
  ReconnectMax = 1
INVARIANTS
  TypeOK
  SlotsCounted
  NothingLeftOpen
  RetriesAsConfigured
PROPERTIES
  CpaOpenedOnce
  DisconnectEndsSession
