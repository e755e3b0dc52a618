CONSTANTS
    Capacity = 420
    OrdersName = 6
    IdName = 2
    Replies <- MCReplies
    IdMax = 49
    FieldMax = 30
    FieldsMax = 4
    MaxBatches = 3
    MaxKeys = 3
SPECIFICATION Spec
INVARIANTS LengthIsExact TextIsListing SmallListingFits
CHECK_DEADLOCK FALSE
