CONSTANTS
    Urls <- MCUrls
    Bodies <- MCBodies
SPECIFICATION Spec
INVARIANTS TypeOK ErrorsTouchNothing NothingLeaks BufferIsOfRequest CrashHasCause
CHECK_DEADLOCK FALSE
