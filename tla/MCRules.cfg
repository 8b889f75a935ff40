SPECIFICATION RulesSpec
CONSTANTS
  MaxBuckets = 3
  Lines = {x, y}
  MaxLines = 4
  MaxTs = 9
CHECK_DEADLOCK FALSE
INVARIANTS AcceptedComplete TestFaithful PasteAccepted DiffIsMinimalPatch DigestCountsAll
