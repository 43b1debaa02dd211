SPECIFICATION Behaviours
CONSTANTS
    Msg = {m1, m2, m3}
    Worker = {w1, w2}
    MaxAttempts = 2
    StateRow = {1, 2}  Editor = {e1}  Batch = 1
    MaxImports = 2  MaxOverlapping = 1  MaxInTurn = 2
    ListRow = {1, 2, 3}  MaxTime = 2  Limit = 1
    FolderMessage = {n1, n2}  Mailbox = {"inbox", "archive"}
    Category = {"Pagos", "Marketing"}  NoValue = none
    Part = {1, 2}  Item = {i1, i2, i3}  Page = {1, 2, 3}
    MaxBody = 1  MaxItems = 2  MaxPages = 2  NoItem = none
    unused = unused
SYMMETRY Symmetry
INVARIANTS IInv OneWorkerPerEvent StoredIsQueued ProcessedMeansAnalyzed NeverAskedTwice VisibleIsEffective NothingSkipped FoldersAgree ContentIsWhole
\* Everything is purged, processed or read: nothing is left to do.
CHECK_DEADLOCK FALSE
