\* The README promises a parity packet for every DATA data packets; sends may fail.
SPECIFICATION TxSpec
CONSTANTS
  TxK = 2
  RxK = 2
  IdxMod = 8
  Mod = 64
  MaxFeed = 6
  SendMayFail = TRUE
INVARIANTS
  ParityEveryBlock
CHECK_DEADLOCK FALSE
