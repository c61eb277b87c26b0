\* What the settings of MCRfLink share; NSlots 2 is a table of two blocks.
SPECIFICATION MCSpec
CONSTANTS
  TxK = 2
  RxK = 2
  IdxMod = 8
  Mod = 64
  MaxFeed = 10
  SendMayFail = FALSE
  NSlots = 2
  EmitMayFail = FALSE
  Ordered = FALSE
  MaxDup = 1
  MaxGap = 64
  MaxLate = 64
  Restarts = {}
INVARIANTS
  Genuine
  RecoveredIsOut
  ProvenanceKept
  RepairedOutOfOrder
  CountedExactly
  RefusedAndReported
PROPERTIES
  DatagramService
CHECK_DEADLOCK FALSE
