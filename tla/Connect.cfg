SPECIFICATION Spec
CONSTANTS
  Routes = {r1, r2}
  Clusters = {k1}
  Servers = {s1, s2}
  None = None
  Absent = Absent
  MaxActs = 5
SYMMETRY Symmetry
INVARIANTS
  TypeOK
  TypedForTarget
  ClusterRouteExists
PROPERTIES
  PickKept
CHECK_DEADLOCK FALSE
