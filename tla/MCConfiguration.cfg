SPECIFICATION Spec
CONSTANTS
  Words <- MCWords
  HotkeySpec <- MCHotkeySpec
  ResizeSpec <- MCResizeSpec
  Numerals <- MCNumerals
  Spellings <- MCSpellings
  MaxGiven = 3
INVARIANTS
  StartsAsConfigured
  HotkeyOpens
CHECK_DEADLOCK FALSE
