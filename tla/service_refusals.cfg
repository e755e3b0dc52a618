CONSTANTS
    Process = {p1, p2}
    Uuid = {u1, u2}
    NoUuid = NoUuid
    Refusable = {"MULTI", "HMSET", "RPUSH_ITEMS", "RPUSH_TRANSACTIONS", "EXEC", "FLUSHALL"}
SPECIFICATION FairSpec
INVARIANTS TypeOK AllOrNothing SessionInStep
PROPERTIES StoreIsAtomic RequestsEnd
CHECK_DEADLOCK FALSE
