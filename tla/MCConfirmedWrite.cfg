CONSTANTS
  Calls = {k1, k2, k3}
  NoToken = NoToken
  Conns = {c1}
  Deletes = {d1, d2}
  Resets = {w1}
  Duplicates = {d2}
  Setters = {u1}
  DefaultTTL = 1
  TTLs = {2}
  MaxNow = 1
  MaxGen = 2
  MaxRestarts = 1
SPECIFICATION Spec
SYMMETRY Symmetry
INVARIANTS OneWritePerToken ConfirmsThePreview ForbiddenOnlyAfterReconnect EveryOutcomeAudited
CHECK_DEADLOCK FALSE
