\* The README promises repaired packets; the transmitter is restarted.
SPECIFICATION Spec
CONSTANTS
  TxK = 2
  RxK = 2
  IdxMod = 8
  Mod = 64
  MaxFeed = 5
  SendMayFail = FALSE
  NSlots = 2
  EmitMayFail = FALSE
  Ordered = TRUE
  MaxDup = 0
  MaxGap = 64
  MaxLate = 64
  Restarts = {"tx"}
INVARIANTS
  Genuine
CHECK_DEADLOCK FALSE
