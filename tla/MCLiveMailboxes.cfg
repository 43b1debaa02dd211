SPECIFICATION Spec
CONSTANTS
    a1 = a1  s1 = s1  s2 = s2  nobody = nobody  orphan = orphan
    m1 = m1  m2 = m2  inbox = inbox  nowhere = nowhere
PROPERTIES EventuallyMirrored
\* A mailbox that no longer changes, and is copied, leaves nothing to do.
CHECK_DEADLOCK FALSE
