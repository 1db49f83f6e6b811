SPECIFICATION TextSpec
CONSTANTS
  Words = {"a", "b"}
  Blobs = {"bytes"}
  MaxDepth = 8
  Names = {"", "r", "ext", "made", "bad"}
  Identifiers = {"r", "ext", "made"}
  InvalidNames = {"bad"}
  NoKey = NoKey
  Inputs <- AllTexts
  ExternalTable <- MCExternalTable
  Created <- MCCreated
  MaxText = 5
  MaxDocument = 0
INVARIANT InsertsWhatWasBound
