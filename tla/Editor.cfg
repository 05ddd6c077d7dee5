SPECIFICATION Spec
CONSTANTS
  Templates = {t1, t2}
  Knobs = {k1, k2}
  Gone = Gone
  Invalid = Invalid
  NoText = NoText
  MaxActs = 5
SYMMETRY Symmetry
INVARIANTS
  OwnWriteShown
PROPERTY NeverOverwrites
CHECK_DEADLOCK FALSE
