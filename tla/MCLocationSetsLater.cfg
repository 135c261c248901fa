SPECIFICATION Spec
CONSTANTS
  Struct <- MCStruct
  Elem <- MCElem
  Size <- MCSize
  Objects <- MCLater
  Steps <- MCSteps
INVARIANT EveryWrongCastSeen
