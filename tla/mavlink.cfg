\* Datagrams longer than the buffer, a slow UART, a sendto that may fail.
SPECIFICATION Spec
CONSTANTS
  BufSize = 2
  Room = 3
  MaxLen = 3
  MaxUp = 3
  MaxDown = 6
  SendMayFail = TRUE
INVARIANTS
  TransparentToPeer
  CutAtTheEnd
CHECK_DEADLOCK FALSE
