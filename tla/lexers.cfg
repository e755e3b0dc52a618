CONSTANTS
    MaxText = 3
    Calls <- MCCalls
SPECIFICATION Spec
INVARIANTS TypeOK ReadsBelowLimit LongestMatch RulesAsMeant
CHECK_DEADLOCK FALSE
