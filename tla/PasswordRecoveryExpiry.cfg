SPECIFICATION Spec
CONSTANTS
    Request = {r1}
    Attempts = 2
    Life = 2
    Overlapping = FALSE
    MaxTime = 8
    MaxCodes = 2
    MaxGuesses = 6
    MaxFailures = 2
INVARIANT CodeExpires
CHECK_DEADLOCK FALSE
