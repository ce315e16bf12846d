CONSTANTS
  t = t
  u = u
  a = a
  b = b
  Tables = {t}
  RowIdTables = {}
  Wheres <- MCWheres
  CatalogCapacity = 1
  Absent = Absent
  NoTable = NoTable
  MaxCrashes = 1
  Keys = {1, 2}
  Vals = {a, b}
  PageNums = {2, 3, 4}
  MaxLeafCells = 1
  MaxInternalCells = 2
  PageBytes = 4096
  KeyBytes <- MCKeyBytes
  ValBytes <- MCValBytes
  MaxIOErrors = 1
SPECIFICATION DatabaseSpec
INVARIANTS
  RowsAsAcknowledged
  TablesSound
