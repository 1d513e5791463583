SPECIFICATION Spec
CONSTANTS
  Missing = Missing
  Invalid = Invalid
  Values = {v1, v2, v3}
INVARIANTS
  TypeOK
  OldOrNew
  Acknowledged
PROPERTIES
  ImplementsRegister
