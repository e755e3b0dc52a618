CONSTANTS
    Process = {p1, p2, p3}
    Uuid = {u1, u2}
    NoUuid = NoUuid
    Refusable = {"FLUSHALL"}
SPECIFICATION Spec
INVARIANTS AckedWasStored IdleSessionClean
SYMMETRY Symmetry
CHECK_DEADLOCK FALSE
