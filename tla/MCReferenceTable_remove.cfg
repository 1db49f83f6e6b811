SPECIFICATION RemovingTableSpec
CONSTANTS
  Keys = {"a", "b", "c"}
  Expressions = {"x", "made"}
  Absent = "absent"
  Data = {"p1", "p2", "p3", "p4"}
  Created <- MCCreated
  hash <- MCHash
  INITIAL_SIZE = 4
  MAX_CHAIN_LENGTH = 2
  MaxTableSize = 8
CHECK_DEADLOCK FALSE
INVARIANT RemovedKeyIsGone
