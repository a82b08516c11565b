\* Two runs on one state file, in every interleaving of their steps, with one failing call.
SPECIFICATION FairTwinSpec
CONSTANTS
  A = A
  B = B
  NoId = NoId
  Clients <- BrokenFirst
  Messages <- Three
  Owner <- AllToA
  Kind <- AllMail
  MessageId <- NoIds
  IngestSent = {}
  IngestSelfSent = {}
  ReadOnly = {}
  Archiving = {}
  Unattributed = {}
  Poison = {2}
  Broken = {B}
  Modes = {"live"}
  Faults = {"profile", "write", "crash", "expire", "list", "state"}
  MaxFaults = 1
  MaxTwins = 1
  ArriveMidRun = TRUE
  MaxRecord = 2
  MaxPerRun = 1
  MaxAttempts = 2
  RingMax = 4
  MaxTracked = 2
  QuarantineMax = 2
  IdCap = 2
  StallCap = 2
INVARIANTS RepeatsAreAccounted
PROPERTIES HealthyAccountsDrain TruncatedTurnLosesNothing OverflowIsKept
