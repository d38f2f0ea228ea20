SPECIFICATION FairSpec
CONSTANTS
  Threads = {t1, t2, t3}
  Values = {v1, v2}
  Size = 2
  NoOne = NoOne
  NoValue = NoValue
  MaxPosition = 3
INVARIANTS WithinLap CellExclusive ItemsKept
PROPERTIES IsBoundedQueue CallsReturn
