SPECIFICATION Spec
CONSTANTS
  Ints <- MCInts
  Texts <- MCTexts
  Code <- MCCode
  IntText <- MCIntText
  BoolText <- MCBoolText
  NilText <- MCNilText
  Byte = 4
  Exprs <- MCExprs
  Depth <- MCDepth
  Columns <- MCColumns
  ColumnType <- MCColumnType
  NotNull <- MCNotNull
  PrimaryKeys <- MCPrimaryKeys
  NoColumn <- MCNoColumn
  RowId <- MCRowId
  NoWhere = NoWhere
  Inputs <- MCInputs
  Wheres <- MCWheres
  Changes <- MCChanges
  AssignsKey = FALSE
INVARIANTS
  TypeOK
  RowsFitColumns
  RowsUnderTheirKeys
  ScansSorted
PROPERTIES
  ImplementsSqlTable
