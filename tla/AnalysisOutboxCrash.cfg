SPECIFICATION FairSpec
CONSTANTS
    Msg = {m1, m2}
    Worker = {w1, w2}
    MaxAttempts = 2
PROPERTIES RetriedAfterCrash
\* Everything is purged and processed: nothing is left to do.
CHECK_DEADLOCK FALSE
