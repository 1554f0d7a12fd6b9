\* Both methods, asked from a callback; a timeout of two seconds stands for the code's five.
CONSTANTS
  i1 = i1
  i2 = i2
  i3 = i3
  Instances = {i1, i2, i3}
  Hashes = {0, 1, 2, 3}
  Timeout = 2
  Methods = {"random", "one"}
  Overlap = FALSE
  Null = Null
SPECIFICATION Spec
SYMMETRY Symmetry
INVARIANTS
  TypeOK
  TotalIsSize
  SweepIsComplete
  LookUpFindsAll
PROPERTIES
  ChosenIsFresh
  TakesTurns
