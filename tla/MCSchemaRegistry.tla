--------------------------- MODULE MCSchemaRegistry ---------------------------
EXTENDS SchemaRegistry, TLC

P(switch, sr, glue, ro, del) == [switch |-> switch, sr |-> sr, glue |-> glue, readOnly |-> ro, allowDelete |-> del]
MCProfiles == {P("confluent", TRUE, FALSE, FALSE, TRUE), P("", TRUE, TRUE, FALSE, TRUE), P("none", TRUE, FALSE, TRUE, FALSE)}
Symmetry == Permutations(Calls) \cup Permutations(Schemas)
=============================================================================
