\* Every mix of present, missing and garbled counts, and every small inbox: the status, and the event sent beside it.
SPECIFICATION Spec
CONSTANTS
  Absent = Absent
  Garbage = Garbage
  StallFailRuns = 2
  E1 = E1
  E2 = E2
  E3 = E3
  Envelopes <- Three
  DepthWarn = 2
  AgeWarn = 6
  AgeFail = 24
  NoAge = NoAge
  Inputs <- BoundedInputs
INVARIANTS NeverGreenOnBadNews OutageIsDown OnlyTheSumIsLaundered WaitingMailIsReported QueueFailIsEarned
CHECK_DEADLOCK FALSE
