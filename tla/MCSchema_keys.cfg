SPECIFICATION SchemaSpec
CONSTANTS
  Qualified <- MCQualified
  SchemaDocuments <- MCDocuments
  Expressions <- MCExpressions
  MaxCalls = 13
  Depth <- MCDepth
INVARIANT MapKeysResolve
