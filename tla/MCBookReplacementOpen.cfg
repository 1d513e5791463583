SPECIFICATION Spec
CONSTANTS
  Books = {b1, b2}
  Missing = Missing
  Torn = Torn
INVARIANTS
  BookCanBeOpened
