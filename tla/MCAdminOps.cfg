SPECIFICATION Spec
CONSTANTS
  Calls = {c1, c2}
  Parts = {p1}
  PresetIds = {a}
  Policies = {"write", "delete"}
  MaxEntries = 2
  MaxEnd = 1
INVARIANTS LeakOnlyIfRaced LagNotUnderstated PresetFileExact
SYMMETRY Symmetry
