\* Three submissions, or two and a reset by ioctl, or tasks that come in parts.
SPECIFICATION Spec
CONSTANTS
  None = None
  Bad = Bad
  Outside = Outside
  MaxLoad = 3
INVARIANTS
  WaitsInOnePlace
  CommitsOwner
  LeftBehind
  WorkConserving
  SuccessIsOwn
PROPERTIES
  SubmitsReturn
CHECK_DEADLOCK FALSE
