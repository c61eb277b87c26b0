\* The README says the file is updated once per second; a receiver of FEC frames.
SPECIFICATION Spec
CONSTANTS
  Mode = "rx"
  Kinds = {"plain", "fec"}
  Wait = 2
  Interval = 3
  Respawn = 2
  MayFail = FALSE
  MayCrash = FALSE
  MaxTime = 10
INVARIANTS
  Fresh
CHECK_DEADLOCK FALSE
