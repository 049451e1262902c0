SPECIFICATION Spec
CONSTANTS
  Esc = Esc
  M = M
  Bytes = {Esc, M}
  Hotkeys <- MCHotkeys
  Quits = {Esc}
  OutBufMax = 1
  MaxKeys = 3
  MaxOut = 2
  MaxConns = 2
INVARIANTS
  TypeOK
  ShownInOrder
  OutputAccounted
  HeldBackOnlyByTUI
  AtMostOneLeak
  KeysInOrder
  KeystrokesAccounted
  NoNilModel
  ScreenRestored
  StoppedIsNotACause
PROPERTIES
  LinkSpec
