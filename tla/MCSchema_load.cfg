SPECIFICATION SchemaSpec
CONSTANTS
  Qualified <- MCQualified
  SchemaDocuments <- MCDocuments
  Expressions <- MCExpressions
  MaxCalls = 13
  Depth <- MCDepth
INVARIANT SchemaTypeOK
INVARIANT OnlyResolvedTypes
INVARIANT FailuresAreExplained
INVARIANT SoundSchemasAreSafe
INVARIANT AnswersByMeaning
INVARIANT ErrorsAreReasons
PROPERTY ValidationReturns
