\* A history record without an id at the head of the window.
SPECIFICATION FairSpec
CONSTANTS
  A = A
  B = B
  NoId = NoId
  Clients <- OneAccount
  Messages <- Three
  Owner <- AllToA
  Kind <- AllMail
  MessageId <- NoIds
  IngestSent = {}
  IngestSelfSent = {}
  ReadOnly = {}
  Archiving = {}
  Unattributed = {1}
  Poison = {}
  Broken = {}
  Modes = {"live"}
  Faults = {}
  MaxFaults = 0
  ArriveMidRun = FALSE
  MaxRecord = 2
  MaxPerRun = 1
  MaxAttempts = 2
  RingMax = 3
  MaxTracked = 2
  QuarantineMax = 2
  IdCap = 2
  StallCap = 2
PROPERTIES WedgesAreReported
