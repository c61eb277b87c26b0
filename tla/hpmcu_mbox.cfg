\* Pings and clears without a bound, of an MCU that is stopped and started.
SPECIFICATION PingsSpec
CONSTANTS
  Datas = {"p", "q"}
  QueueLen = 1
INVARIANTS
  PingsTypeOK
  SuccessIsAnswer
PROPERTIES
  NoFalseTimeout
CHECK_DEADLOCK FALSE
