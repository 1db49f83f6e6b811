SPECIFICATION FairRemovingSpec
CONSTANTS
  Keys = {"a", "b", "c", "d"}
  Data = {"x", "y"}
  Absent = "absent"
  hash <- MCHash
  INITIAL_SIZE = 4
  MAX_CHAIN_LENGTH = 2
  MaxTableSize = 32
INVARIANT TypeOK
INVARIANT RoomLeft
PROPERTY KeysStay
PROPERTY PutReturns
