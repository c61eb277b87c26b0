\* A receiver of plain frames: files fail, the process is killed and started again.
SPECIFICATION Spec
CONSTANTS
  Mode = "rx"
  Kinds = {"plain"}
  Wait = 2
  Interval = 3
  Respawn = 2
  MayFail = TRUE
  MayCrash = TRUE
  MaxTime = 10
INVARIANTS
  WholeOrAbsent
  Fresh
CHECK_DEADLOCK FALSE
