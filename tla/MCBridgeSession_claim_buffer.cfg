SPECIFICATION Spec
CONSTANTS
  Esc = Esc
  M = M
  Bytes = {Esc, M}
  Hotkeys <- MCShortHotkey
  Quits = {Esc}
  OutBufMax = 1
  MaxKeys = 3
  MaxOut = 1
  MaxConns = 2
INVARIANT
  ReplayOfThisTUI
