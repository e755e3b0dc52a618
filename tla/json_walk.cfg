CONSTANTS
    MaxFields = 2
    MaxEntries = 2
    MaxTokens = 4
    Inputs <- AllInputs
SPECIFICATION FairSpec
INVARIANTS TypeOK InBounds OnlyNothingIsAccepted OrderIsRead RecordedIsChecked
PROPERTY Terminates
CHECK_DEADLOCK FALSE
