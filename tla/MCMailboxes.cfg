SPECIFICATION Behaviours
CONSTANTS
    Msg = {g1, g2}
    MaxHistory = 2
    MaxGrant = 1
    MovedMsg = {m1}  Folders = {inbox, archive}
    FiledMsg = {m1, m2}  Home = {inbox}
    Nowhere = nowhere  MaxClock = 2  MaxGraphGrant = 1
    ImapMsg = {m1, m2}  Window = 1  HistoryBase = 10  MaxUid = 2  MaxImapGrant = 2  MaxFaults = 1
    unused = unused
SYMMETRY Symmetry
INVARIANTS IInv NoLostChange NoSkippedChange NothingPassedOver
PROPERTIES DeletedOnlyWhenGone OnlyUserRevives OvertakenRunWritesNothing CopiesAreMirrors GraphLosesNoChange
