\* Two pages of two revisions that all have a text.
SPECIFICATION Spec
CONSTANTS
  OddChunks = {6}
  TextOptional = FALSE
  MaxPieces = 2
  MaxPages = 2
  MaxRevisions = 2
  MaxExtras = 3
INVARIANTS
  TypeOK
  FlagsTrackNesting
  PagesFaithful
CHECK_DEADLOCK FALSE
