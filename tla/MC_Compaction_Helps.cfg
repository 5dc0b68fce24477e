SPECIFICATION HistorySpec
CONSTANTS
  Keep = 2
  Wrap = 2
  Sizes = {1, 6}
  Limits = {0, 2, 5, 9}
  MaxMessages = 5
INVARIANT
  CompactionHelps
