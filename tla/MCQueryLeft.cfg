SPECIFICATION Spec
CONSTANTS
  Ints <- MCInts
  Texts <- MCTexts
  Code <- MCCode
  IntText <- MCIntText
  BoolText <- MCBoolText
  NilText <- MCNilText
  Exprs <- MCExprs
  ColumnsOf <- MCColumnsOf
  NoWhere = NoWhere
  Databases <- MCDatabases
  Queries <- MCLeftQueries
INVARIANTS
  LeftJoinKeepsRows
