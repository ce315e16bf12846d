CONSTANTS
  Keys = {1, 2, 3, 4, 5}
  a = a
  b = b
  big = big
  Vals = {a, b}
  LongKeys = {}
  Absent = Absent
  PageNums = {2, 3, 4, 5, 6, 7, 8}
  MaxLeafCells = 2
  MaxInternalCells = 2
  PageBytes = 4096
  KeyBytes <- MCKeyBytes
  ValBytes <- MCValBytes
  MaxIOErrors = 0
SPECIFICATION HFairSpec
INVARIANTS
  TypeOK
  NodesInBounds
  TreeSound
PROPERTIES
  ImplementsMap
  CallsReturn
