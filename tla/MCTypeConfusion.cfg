SPECIFICATION Spec
CONSTANTS
  A = A
  B = B
  BBase = BBase
  S = S
  C = C
  D = D
  W = W
  toB = toB
  toD = toD
  toVoid = toVoid
  oA = oA
  oS = oS
  oC = oC
  oW = oW
  vt = vt
  unknown = unknown
  None = None
  Struct <- MCStruct
  Fields <- MCFields
  BaseOf <- MCBaseOf
  CastCall = {toB, toD, toVoid}
  Kind <- MCKind
  Dst <- MCDst
  TopLevel = {toB, toD}
  Object = {oA, oS, oC, oW, vt, unknown}
  Type <- MCType
  VTable = {vt}
  Solutions <- TwoAnalyses
INVARIANTS
  TypeOK
  NeverBothVerdicts
  VerdictsHold
  ReportComplete
