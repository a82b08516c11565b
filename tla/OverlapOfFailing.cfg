\* A failing message is listed twice in one run.
SPECIFICATION Spec
CONSTANTS
  A = A
  B = B
  NoId = NoId
  Clients <- OneAccount
  Messages <- Three
  Owner <- AllToA
  Kind <- AllMail
  MessageId <- OwnIds
  IngestSent = {}
  IngestSelfSent = {}
  ReadOnly = {}
  Archiving = {}
  Unattributed = {}
  Poison = {}
  Broken = {}
  Modes = {"live"}
  Faults = {"handler", "overlap"}
  MaxFaults = 1
  ArriveMidRun = FALSE
  MaxRecord = 2
  MaxPerRun = 3
  MaxAttempts = 2
  RingMax = 3
  MaxTracked = 2
  QuarantineMax = 2
  IdCap = 2
  StallCap = 2
PROPERTIES TruncatedTurnLosesNothing
