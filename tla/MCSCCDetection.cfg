SPECIFICATION FairSpec
CONSTANTS
  n1 = n1
  n2 = n2
  n3 = n3
  n4 = n4
  Node = {n1, n2, n3, n4}
  None = None
  Graphs <- MCGraphs
INVARIANTS
  TypeOK
  Decided
  ComponentsFound
  Topological
PROPERTY Returns
