SPECIFICATION Spec
CONSTANTS
  Kinds = {"floppy", "hard", "other"}
  Users = {0, 15}
  Names = {1}
  Lengths = {129}
  Filled = {0, 4}
  MaxSlots = 5
INVARIANTS
  TypeOK
  ListingAsStored
PROPERTY
  OpensOnFiles
CHECK_DEADLOCK FALSE
