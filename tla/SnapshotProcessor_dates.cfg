\* A work with a publication date.
SPECIFICATION Spec
CONSTANTS
  Lines <- DatedLines
  MayThrow = FALSE
  Languages <- KnownLanguages
  Numerals <- SmallNumerals
  UintSize = 4
  MaxLines <- OneLine
INVARIANT PublicationDateMatches
CHECK_DEADLOCK FALSE
