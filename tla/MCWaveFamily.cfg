SPECIFICATION FairSpec
CONSTANTS
  a = a
  b = b
  p = p
  q = q
  r = r
  s = s
  z = z
  x = x
  y = y
  u = u
  v = v
  w = w
  h = h
  c = c
  bh = bh
  None = None
  Ptr = {a, b, p, q, r, s, z}
  Obj = {x, y, v, u, w, h, c, bh}
  InitFI = {h}
  BlackHole = {bh}
  ConstObj = {c}
  NonPointer <- MCNonPointer
  CallLimit = 2
  AnyOrder = TRUE
  Limit <- MCLimit
  Programs <- MCAll
INVARIANTS
  TypeOK
  RepsOnGraph
  Precision
  PropagatedArrived
  CachedConnected
  RevPtsComplete
  CollapsedEverywhere
  CopiesSatisfied
  UnmergedServed
  CallsSatisfied
PROPERTY Terminates
