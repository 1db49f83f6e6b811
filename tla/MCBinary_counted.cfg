SPECIFICATION TripSpec
CONSTANTS
  Radix = 4
  Wrap = 64
  Documents = {}
  Nodes <- MCNodes
  MaxDepth = 2
  Behind <- MCBehind
  MaxDocument = 0
  MaxLeaf = 1
INVARIANT WritesOrSaysSo
