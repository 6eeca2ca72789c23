\* Texts of a few pieces, well formed or not, with and without the filter.
SPECIFICATION Spec
CONSTANTS
  Texts <- UpToThree
  Types <- CiteOnly
  Numerals <- SmallNumerals
  IntMax = 7
INVARIANTS
  TypeOK
  TemplatesExact
  CitationsExact
  ThrowsExactly
PROPERTY Terminates
CHECK_DEADLOCK FALSE
