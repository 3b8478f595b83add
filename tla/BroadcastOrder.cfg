CONSTANTS
    Procs = {p1, p2}
    Quotas <- RunOrReply
SPECIFICATION Spec
SYMMETRY Symmetry
INVARIANTS CausalOrder BufferWaits
CHECK_DEADLOCK FALSE
