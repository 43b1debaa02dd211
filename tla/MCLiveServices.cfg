SPECIFICATION Spec
CONSTANTS
    a1 = a1  a2 = a2  n1 = n1  r1 = r1  k1 = k1  m1 = m1  m2 = m2  w1 = w1  w2 = w2  e1 = e1  i1 = i1
    sync = sync  reader = reader  nobody = nobody  dead = dead
PROPERTIES NothingGoesUnheard SettledOrOrphaned OperationsEnd
\* A component whose bounds are used up has nothing left to do.
CHECK_DEADLOCK FALSE
