CONSTANTS
    Original = {w1, w2}
    Spare = {s1, s2}
    Request = {r1, r2, r3}
    Fatal = {r3}
SPECIFICATION FairSpec
INVARIANTS CountsAddUp
PROPERTIES WorkersReturn NotificationsTallied
CHECK_DEADLOCK FALSE
