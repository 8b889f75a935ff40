SPECIFICATION Spec
CONSTANTS
  Lines = {l1, l2, l3}
  Inline = {a, b}
  Bad = {b}
  Saved = {d}
  Cap = 1
  MaxFlips = 1
INVARIANTS PoolMatchesTable DrainAnswersAll
PROPERTIES LineWorkedOff
