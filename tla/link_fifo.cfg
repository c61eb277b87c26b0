\* FEC 3:1, a radio that loses any frames and keeps the order: one table entry is
\* enough.  Sequence numbers of three bits wrap around, block numbers do not.
SPECIFICATION UninterruptedSpec
CONSTANTS
  TxK = 3
  RxK = 3
  IdxMod = 8
  Mod = 8
  MaxFeed = 7
  SendMayFail = FALSE
  NSlots = 1
  EmitMayFail = FALSE
  Ordered = TRUE
  MaxDup = 0
  MaxGap = 64
  MaxLate = 64
  Restarts = {}
INVARIANTS
  TypeOK
  AtMostOnce
  OneLossRepaired
  OrderKeptAcrossBlocks
CHECK_DEADLOCK FALSE
