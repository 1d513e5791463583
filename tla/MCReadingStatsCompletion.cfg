SPECIFICATION Spec
CONSTANTS
  Book = {b1, b2}
  Novel = {b1}
  Global = Global
  Marker = Marker
  Invalid = Invalid
  Missing = Missing
  None = None
  MaxReading = 1
INVARIANTS
  TypeOK
  CountedOnce
  PendingIsRecoverable
