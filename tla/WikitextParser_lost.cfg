\* A citation of the title of another, and one behind a template that does not match.
SPECIFICATION Spec
CONSTANTS
  Texts <- Lossy
  Types <- CiteOnly
  Numerals <- SmallNumerals
  IntMax = 7
INVARIANT AllCitationsReturned
CHECK_DEADLOCK FALSE
