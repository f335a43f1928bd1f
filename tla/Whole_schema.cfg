\* Dumps while the rows of two tables come and go; resets, finished and abandoned.
CONSTANTS
  Null = Null
  Ids = {a, b}
  MaxChanges = 2
SPECIFICATION MCSpec
CONSTRAINT StillReading
SYMMETRY Interchangeable
INVARIANTS
  DumpsAreClosed
  ResetLeavesNoOrphans
PROPERTIES ResetForgetsNoTable
