SPECIFICATION FairSpec
CONSTANTS
  Data = {a, b, c, d, e}
INVARIANTS
  Mirror
PROPERTIES
  NoOvertaking
  Served
  ImplementsPendingSet
