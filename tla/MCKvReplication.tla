--------------------------- MODULE MCKvReplication ---------------------------
EXTENDS KvReplication
=============================================================================
