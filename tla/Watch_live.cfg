SPECIFICATION LiveSpec
CONSTANTS
  Keys = {namespaces}
  Fallback = {}
  Informers = {i1}
  Reach = Reach
  NoInformer = NoInformer
  Links = {"dead", "steady"}
  MaxVersion = 2
PROPERTY EndsCurrent
CHECK_DEADLOCK FALSE
