SPECIFICATION Spec
CONSTANTS
  Activity = {a1, a2, a3}
  None = None
  Modulus = 6
  MaySleep = TRUE
SYMMETRY Symmetry
INVARIANTS
  SleepIsShown
