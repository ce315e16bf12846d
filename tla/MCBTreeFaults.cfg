CONSTANTS
  Keys = {1, 2, 3, 4, 5}
  a = a
  b = b
  big = big
  Vals = {a}
  LongKeys = {3, 4}
  Absent = Absent
  PageNums = {2, 3, 4, 5, 6, 7}
  MaxLeafCells = 2
  MaxInternalCells = 2
  PageBytes = 4096
  KeyBytes <- MCKeyBytes
  ValBytes <- MCValBytes
  MaxIOErrors = 1
SPECIFICATION HSpec
CHECK_DEADLOCK FALSE
INVARIANTS
  NoDanglingPointers
  TreeSound
PROPERTIES
  ImplementsLossyMap
