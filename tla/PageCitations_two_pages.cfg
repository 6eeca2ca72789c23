\* Two pages that may share revision ids and titles.
SPECIFICATION Spec
CONSTANTS
  RevIds = {r1, r2}
  Titles = {a, b}
  Times = {1, 2}
  NoRev = NoRev
  StableLength = 0
  MaxRevisions = 2
  MaxPages = 2
INVARIANTS
  StoreExact
  OutputExact
PROPERTIES
  ImplementsHistory
  PageStored
CHECK_DEADLOCK FALSE
