SPECIFICATION Spec
CONSTANTS
    Account = {a1}
    Slot = {s1, s2}
    NoOwner = NoOwner
    Orphan = Orphan
    MaxQueued = 2
PROPERTY DroppedIsDuplicate
