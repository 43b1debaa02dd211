SPECIFICATION Spec
CONSTANTS
    None = None
    Msg = {m1, m2, m3}
    Worker = {w1, w2}
    Email <- MCEmail
    Answer <- MCAnswer
SYMMETRY Symmetry
INVARIANTS IncidentIsProjection OpenAlertsAreCurrent ActiveIncidentHasAlert IInv
PROPERTIES IncidentsMoveForward
\* Everything is analyzed and dismissed: nothing is left to do.
CHECK_DEADLOCK FALSE
