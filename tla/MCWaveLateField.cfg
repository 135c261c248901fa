SPECIFICATION Spec
CONSTANTS
  a = a
  b = b
  p = p
  q = q
  r = r
  s = s
  z = z
  x = x
  y = y
  u = u
  v = v
  w = w
  h = h
  c = c
  bh = bh
  None = None
  Ptr = {a, b, p, q, r, s, z}
  Obj = {x, y, v}
  InitFI = {}
  BlackHole = {}
  ConstObj = {}
  NonPointer = {}
  CallLimit = 2
  AnyOrder = TRUE
  Limit <- MCLimit
  Programs <- MCLateField
INVARIANTS
  EveryCopySatisfied
