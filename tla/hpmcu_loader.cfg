\* Starts and stops in any order, with every call that may fail failing.
SPECIFICATION FairSpec
CONSTANTS
  Datas = {"p"}
  ByteMod = 4
  MayFail = TRUE
INVARIANTS
  TypeOK
  QuietWhenStopped
  TwoReads
  HonestStatus
PROPERTIES
  PowerOnly
  CommandsReturn
  BothReads
CHECK_DEADLOCK FALSE
