SPECIFICATION Spec
CONSTANTS
  Modes = {"auto", "telnet", "raw"}
  Eols = {"cr", "crlf", "lf", "raw"}
  Enters = {"cr", "crlf", "crnul", "lf"}
  MaxTokens = 2
INVARIANTS
  TypeOK
  ConsoleAsTyped
  NegotiationSettles
  SizeIsLastReported
  KeysAsTyped
CHECK_DEADLOCK FALSE
