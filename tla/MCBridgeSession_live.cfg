SPECIFICATION ReadingSpec
CONSTANTS
  Esc = Esc
  M = M
  Bytes = {Esc, M}
  Hotkeys <- MCShortHotkey
  Quits = {Esc}
  OutBufMax = 1
  MaxKeys = 2
  MaxOut = 1
  MaxConns = 2
PROPERTIES
  TeardownEnds
  DropNoticed
  GoneClientEnds
