CONSTANTS
    Urls <- MCUrls
    Bodies <- MCBodies
SPECIFICATION Spec
INVARIANT PingTellsNoConnection
CHECK_DEADLOCK FALSE
