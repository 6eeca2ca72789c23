\* Revisions of the same moment, on a page longer than the sort keeps stable.
SPECIFICATION Spec
CONSTANTS
  RevIds = {r1, r2}
  Titles = {a}
  Times = {1, 2}
  NoRev = NoRev
  StableLength = 2
  MaxRevisions = 3
  MaxPages = 1
PROPERTY TiesKeepDocumentOrder
CHECK_DEADLOCK FALSE
