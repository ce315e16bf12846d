CONSTANTS
  t = t
  u = u
  a = a
  b = b
  Tables = {t, u}
  RowIdTables = {u}
  Wheres <- MCWheres
  CatalogCapacity = 1
  Absent = Absent
  NoTable = NoTable
  MaxCrashes = 0
  Keys = {1, 2}
  Vals = {a}
  PageNums = {2, 3, 4, 5}
  MaxLeafCells = 1
  MaxInternalCells = 2
  PageBytes = 4096
  KeyBytes <- MCKeyBytes
  ValBytes <- MCValBytes
  MaxIOErrors = 0
SPECIFICATION DatabaseSpec
PROPERTIES
  SurvivesRestarts
