SPECIFICATION Spec
CONSTANTS
  Drives = {1, 2, 9}
  HardDrives = {9}
  Dsk = {1, 2}
  Hdd = {}
  OtherFiles = {4}
  PageSteps = {5}
  Lines = {2}
  MaxUsers = 2
  MaxOthers = 1
  MaxFailures = 1
INVARIANTS
  TypeOK
  SelectionsValid
  ConfirmNamesSelection
  StatusTruthful
  DisksCurrent
PROPERTY
  TwoEscapesLeave
