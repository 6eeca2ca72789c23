\* Two dumps of up to three pages, streams that may fail at any byte, a page too long to be written.
SPECIFICATION Spec
CONSTANTS
  IntMax = 2
  ReadLimit = 8
  References = {{}, {1, 2}, {1, 2, 3}}
  MaxPages = 3
  MaxCalls = 2
  MaxReads = 4
INVARIANTS
  TypeOK
  NoGap
  ReadBack
  Consistent
  SoundCounts
  SameResult
CHECK_DEADLOCK FALSE
