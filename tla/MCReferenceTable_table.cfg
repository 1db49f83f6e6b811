SPECIFICATION TableSpec
CONSTANTS
  Keys = {"a", "b", "c", "d"}
  Expressions = {"x", "made"}
  Absent = "absent"
  Data = {"p1", "p2", "p3", "p4"}
  Created <- MCCreated
  hash <- MCHash
  INITIAL_SIZE = 4
  MAX_CHAIN_LENGTH = 2
  MaxTableSize = 32
CHECK_DEADLOCK FALSE
INVARIANT InItsChain
INVARIANT OneSlotPerKey
INVARIANT SlotsOwnElements
INVARIANT IndexesAgreeWithLookups
INVARIANT DestroyFreesWhatIsHeld
PROPERTY IsAMap
PROPERTY BindsNames
