SPECIFICATION Spec
CONSTANTS
  Struct <- MCStruct
  Elem <- MCElem
  Size <- MCSize
  Objects <- MCObjects
  Steps <- MCSteps
INVARIANTS
  TypeOK
  FieldRight
  NoFalseAlarm
  WrongCastSeen
