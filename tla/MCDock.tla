------------------------------- MODULE MCDock -------------------------------
EXTENDS Dock
OneCluster == {"c"}
FourSources ==
  {[kind |-> "log", cluster |-> "c", target |-> t] : t \in {"a", "b"}}
  \cup {[kind |-> k, cluster |-> "c", target |-> "a"] : k \in {"shell", "terminal"}}
=============================================================================
