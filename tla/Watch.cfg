SPECIFICATION SceneSpec
CONSTANTS
  Keys = {namespaces}
  Fallback = {namespaces}
  Informers = {i1, i2}
  Reach = Reach
  NoInformer = NoInformer
  Links = {"dead", "flaky"}
  MaxVersion = 3
SYMMETRY Symmetry
INVARIANTS
  RunningIsRegistered
  ShownIsWatched
  ReachableIsNotDown
CHECK_DEADLOCK FALSE
