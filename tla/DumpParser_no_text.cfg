\* A revision without a text follows one that has a text.
SPECIFICATION Spec
CONSTANTS
  OddChunks = {}
  TextOptional = TRUE
  MaxPieces = 2
  MaxPages = 1
  MaxRevisions = 2
  MaxExtras = 2
INVARIANT OwnCitations
CHECK_DEADLOCK FALSE
