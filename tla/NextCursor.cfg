\* nextCursor's loop on every bounded input, the records in any order.
SPECIFICATION Spec
CONSTANTS
  Ids <- ThreeIds
  Listings <- SmallListings
  Numbers <- SmallNumbers
  Garbled = Garbled
  NoRecord = NoRecord
  Null = Null
INVARIANTS NeverPassesUnhandled NeverPassesUnlisted TakesAllItMay
CHECK_DEADLOCK FALSE
