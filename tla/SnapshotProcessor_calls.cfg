\* A snapshot of two lines and another of one, either in memory or to streams; any line may throw.
SPECIFICATION Spec
CONSTANTS
  Lines <- OrdinaryLines
  MayThrow = TRUE
  Languages <- KnownLanguages
  Numerals <- SmallNumerals
  UintSize = 4
  MaxLines <- TwoLinesAndOne
INVARIANTS
  TypeOK
  DeliveredOnce
  ReferencesResolved
  SeenAccounted
  CallResult
CHECK_DEADLOCK FALSE
