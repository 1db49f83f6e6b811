SPECIFICATION TripSpec
CONSTANTS
  Radix = 4
  Wrap = 64
  Documents <- MCDocuments
  Nodes <- MCNodes
  MaxDepth = 2
  Behind <- MCBehind
  MaxDocument = 6
  MaxLeaf = 17
INVARIANT BinaryTypeOK
INVARIANT StaysInBuffer
INVARIANT ReadsBackBinary
PROPERTY ContainersEndWhereTheySay
PROPERTY OnlyReturnsAfterError
PROPERTY BinaryTerminates
