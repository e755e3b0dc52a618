CONSTANTS
    Uuid = {1,2,3}
    Bits = 4
    Spread = 7
    Places <- MCPlaces
    PlaceOf <- MCPlaceOf
    CursorOf <- MCCursorOf
    Sizes = {16}
    Count = 2
    Routes = {"get_by_value"}
    Breakable = {}
    Refusable = {}
SPECIFICATION FairSpec
PROPERTY ListingEnds
CHECK_DEADLOCK FALSE
