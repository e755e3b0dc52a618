CONSTANTS
    Urls <- MCUrls
    Bodies <- MCBodies
SPECIFICATION Spec
INVARIANT AnswerIsBuffer
CHECK_DEADLOCK FALSE
