SPECIFICATION Spec
CONSTANTS
  Books = {b1, b2, b3}
  Missing = Missing
  Torn = Torn
INVARIANTS
  TypeOK
  NeverInherits
  OldOrNewBook
  
PROPERTIES
  KeepsOwnState
SYMMETRY BooksSymmetry
