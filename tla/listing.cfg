CONSTANTS
    Uuid = {1, 2}
    Bits = 3
    Spread = 5
    Places <- MCPlaces
    PlaceOf <- MCPlaceOf
    CursorOf <- MCCursorOf
    Sizes = {4, 8}
    Count = 2
    Routes = {"get_all", "get_by_value"}
    Breakable = {"get_all"}
    Refusable = {"SCAN", "HGETALL"}
SPECIFICATION FairSpec
INVARIANTS TypeOK CompleteListing NoTornOrder
PROPERTIES ListingEnds ListingGetsOn
CHECK_DEADLOCK FALSE
