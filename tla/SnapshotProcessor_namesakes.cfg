\* An author and an institution, both without an id, of the same name.
SPECIFICATION Spec
CONSTANTS
  Lines <- NamesakeLines
  MayThrow = FALSE
  Languages <- KnownLanguages
  Numerals <- SmallNumerals
  UintSize = 4
  MaxLines <- OneLine
INVARIANT ReferencesResolved
CHECK_DEADLOCK FALSE
