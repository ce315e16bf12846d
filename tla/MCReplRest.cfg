SPECIFICATION ReplSpec
CHECK_DEADLOCK FALSE
CONSTANTS
  Ints <- ReplInts
  Texts <- ReplTexts
  Code <- CodeOnce
  IntText <- ReplIntText
  BoolText <- MCBoolText
  NilText <- MCNilText
  Exprs <- ExprsOnce
  ColumnsOf <- MCColumnsOf
  NoWhere = NoWhere
  Databases <- DatabasesOnce
  Queries <- MCQueries
  Letters <- LettersOnce
  Upper <- UpperOnce
  Lower <- LowerOnce
  MaxInt <- MCMaxInt
  Lines <- LinesOnce
  Intended <- IntendedOnce
INVARIANTS
  WholeLineParsed
