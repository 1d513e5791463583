SPECIFICATION Spec
CONSTANTS
  Values = {v1, v2, v3}
  Missing = Missing
  Invalid = Invalid
  Modes = {"publish", "publishAndVerify", "pending"}
  Faults = {"call", "late", "read"}
INVARIANTS
  TypeOK
  NotBlocked
  AcknowledgedOrLater
PROPERTIES
  ImplementsRegister
