SPECIFICATION CycleSpec
CONSTANTS
  MaxSeq = 5
  Screen = {s1, s2}
  Bundled = Bundled
  NoFrame = NoFrame
INVARIANTS
  CycleTypeOK
  NextBootIsSound
  FastWakeMatches
  FirstStartIsClean
