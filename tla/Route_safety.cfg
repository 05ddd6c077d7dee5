SPECIFICATION SceneSpec
CONSTANTS
  Callers = {k1, k2}
  Checkers = {q1}
  Answers = {a1, a2}
  Hops = 2
  MaxRuns = 2
  MaxLoads = 2
SYMMETRY Symmetry
INVARIANTS
  OneRun
  ClientsAreHeld
  ConnectedMeansClients
  ShownIsCurrent
  PromptIsLive
  CheckOwnLink
CHECK_DEADLOCK FALSE
