\* Six messages in records of one or two, pages of one or two records, the fifth message without a record id.
SPECIFICATION FairSpec
CONSTANTS
  Messages <- Six
  Unattributed = {5}
  IdCap = 3
  MaxRecord = 2
  PageMax = 2
  MaxTries = 3
INVARIANTS NoHoles
PROPERTIES AnswersAsOneListing CallReturns
