SPECIFICATION SpecWithScript
CONSTANTS
    None = None
    Msg = {m1, m2}
    Worker = {w1, w2}
    Email <- MCEmail
    Answer <- MCAnswer
SYMMETRY Symmetry
INVARIANTS IncidentIsProjection
\* Everything is analyzed and dismissed: nothing is left to do.
CHECK_DEADLOCK FALSE
