\* An author known by the ORCID alone.
SPECIFICATION Spec
CONSTANTS
  Lines <- OrcidLines
  MayThrow = FALSE
  Languages <- KnownLanguages
  Numerals <- SmallNumerals
  UintSize = 4
  MaxLines <- OneLine
INVARIANT OrcidIdentifies
CHECK_DEADLOCK FALSE
