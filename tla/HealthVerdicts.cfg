SPECIFICATION HSpec
CONSTANTS
  A = A
  B = B
  NoId = NoId
  Clients <- TwoAccounts
  Messages <- Three
  Owner <- TwoEach
  Kind <- OneSent
  MessageId <- SharedIds
  IngestSent = {A}
  IngestSelfSent = {}
  ReadOnly = {B}
  Archiving = {A, B}
  Unattributed = {}
  Poison = {}
  Broken = {}
  Modes = {"live", "dry", "invoke"}
  Faults = {"fetch", "profile", "archive", "write", "crash", "expire"}
  MaxFaults = 3
  ArriveMidRun = FALSE
  MaxRecord = 2
  MaxPerRun = 1
  MaxAttempts = 2
  RingMax = 4
  MaxTracked = 2
  QuarantineMax = 2
  IdCap = 1
  StallCap = 2
  Absent = Absent
  Garbage = Garbage
  StallFailRuns = 2
INVARIANTS TypeOK DropsAreAuditable ArchivedWasHandled
PROPERTIES LossIsReported CursorNeverRegresses GreenMeansNothingMissed DownIsEarned DryRunLeavesNoTrace
