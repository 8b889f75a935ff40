SPECIFICATION Spec
CONSTANTS
  Calls = {c1, c2}
  Schemas = {s1, s2}
  Profiles <- MCProfiles
  MaxVersion = 2
  MaxMsgs = 2
  MaxConnects = 1
INVARIANTS VersionHoldsSchema DecodedAsWritten OneSchemaPerSession ChangesAudited
SYMMETRY Symmetry
