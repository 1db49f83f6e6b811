SPECIFICATION RTSpec
CONSTANTS
  Words <- MCWords
  Blobs <- MCBlobs
  MaxDepth = 4
  Names = {}
  InvalidNames = {}
  NoKey = NoKey
  Inputs = {}
  ExternalTable = {}
  Created = {}
  Character <- MCCharacter
  Nodes <- MCNodes
  Indents = {0, 1}
  Unset = Unset
  Before <- MCBefore
  After <- MCAfter
  MaxWord = 3
  MaxBlob = 4
INVARIANT WriterTypeOK
INVARIANT EveryByteWritten
INVARIANT OverrunsOnlyAtKeys
INVARIANT ReadsBack
