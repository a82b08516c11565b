SPECIFICATION FairHSpec
CONSTANTS
  A = A
  B = B
  NoId = NoId
  Clients <- OneAccount
  Messages <- Three
  Owner <- AllToA
  Kind <- AllMail
  MessageId <- OwnIds
  IngestSent = {}
  IngestSelfSent = {}
  ReadOnly = {}
  Archiving = {}
  Unattributed = {}
  Poison = {1, 2}
  Broken = {}
  Modes = {"live"}
  Faults = {"fetch", "gone", "mistaken", "overlap", "list"}
  MaxFaults = 2
  ArriveMidRun = TRUE
  MaxRecord = 2
  MaxPerRun = 3
  MaxAttempts = 3
  RingMax = 4
  MaxTracked = 1
  QuarantineMax = 2
  IdCap = 2
  StallCap = 2
  Absent = Absent
  Garbage = Garbage
  StallFailRuns = 2
INVARIANTS HandledAtMostOnce
PROPERTIES StuckStaysDown WedgesAreReported StallMeansBacklog
