SPECIFICATION Spec
CONSTANTS
  Ids = {1, 2, 3}
  Targets = {t1, t2}
  NoTarget = NoTarget
  Remotes = {1, 2}
  MaxLocal = 3
  Typed = {0, 1, 2}
  MaxActs = 4
SYMMETRY Symmetry
INVARIANTS TypeOK OneForwardEach RowsAreSaved
PROPERTIES RetryAddsRest
CHECK_DEADLOCK FALSE
