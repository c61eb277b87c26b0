\* Two buffers, two frames of up to two partitions, two warm-up frames; the sequence
\* number and the timestamp wrap around.
SPECIFICATION Spec
CONSTANTS
  MaxPayload = 4
  Buffers = {b1, b2}
  NoBuffer = NoBuffer
  Frames = 2
  Skip = 2
  RtpSeqMod = 4
  RtpTimeMod = 5
  Step = 3
  Coded <- MCCoded
  MaxParts = 2
  MaxUnits = 3
INVARIANTS
  BuffersKept
  UnitsArrive
  MarkerEndsFrame
  TimestampPerFrame
  CleanStop
PROPERTIES
  StopEnds
CHECK_DEADLOCK FALSE
