SPECIFICATION NodesSpec
CONSTANTS
  text = text
  other = other
  blob = blob
  Unset = Unset
  Memory = {n1, n2, n3, n4}
  Words <- MCWords
  Blobs <- MCBlobs
  MaxDepth = 4
SYMMETRY Same
INVARIANT HeldOnce
PROPERTY OwnsTrees
