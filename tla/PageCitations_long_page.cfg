\* One page with up to four revisions in any order, ids and times possibly repeated.
SPECIFICATION Spec
CONSTANTS
  RevIds = {r1, r2, r3}
  Titles = {a, b}
  Times = {1, 2}
  NoRev = NoRev
  StableLength = 0
  MaxRevisions = 4
  MaxPages = 1
SYMMETRY IdsAndTitles
INVARIANTS
  TypeOK
  RefCountExact
  StoreExact
  LookupSucceeds
  HistoryExact
CHECK_DEADLOCK FALSE
