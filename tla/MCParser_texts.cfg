SPECIFICATION TextSpec
CONSTANTS
  Words = {"a", "b"}
  Blobs = {"bytes"}
  MaxDepth = 8
  Names = {"", "r", "ext", "made", "bad"}
  Identifiers = {"r", "ext", "made"}
  InvalidNames = {"bad"}
  NoKey = NoKey
  Inputs <- AllTexts
  ExternalTable <- MCExternalTable
  Created <- MCCreated
  MaxText = 5
  MaxDocument = 7
INVARIANT TypeOK
INVARIANT StackInOrder
INVARIANT NothingParsedAfterError
INVARIANT ResultOrError
INVARIANT PositionFollowsText
INVARIANT NestingFollowsText
INVARIANT ParsesTheGrammar
PROPERTY FirstErrorWins
PROPERTY NoBindingAfterError
PROPERTY Terminates
