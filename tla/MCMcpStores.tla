----------------------------- MODULE MCMcpStores -----------------------------
EXTENDS McpStores

MCDefaults == [ttl |-> 2, cap |-> 2, wait |-> 1]

MCSets == [cursors |-> 2, intents |-> 1]

\* A shorter life time, and a smaller store.
MCUpdates == {[ttl |-> 1], [cap |-> 1, wait |-> 2]}
=============================================================================
