CONSTANTS
  Keys = {1, 2, 3}
  a = a
  b = b
  big = big
  Vals = {a, big}
  LongKeys = {}
  Absent = Absent
  PageNums = {2, 3, 4, 5, 6, 7}
  MaxLeafCells = 2
  MaxInternalCells = 2
  PageBytes = 4096
  KeyBytes <- MCKeyBytes
  ValBytes <- MCValBytes
  MaxIOErrors = 0
SPECIFICATION HSpec
INVARIANTS
  NoPanic
