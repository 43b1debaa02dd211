SPECIFICATION Behaviours
CONSTANTS
    Account = {a1}
    Slot = {s1, s2, s3}
    NoOwner = NoOwner
    Orphan = Orphan
    MaxQueued = 3
    GmailAccount = {p1, p2}  GmailMessage = {n1}
    GraphAccount = {p1}  GraphMessage = {n1, n2}
    PushRequest = {r1, r2}  MaxChanges = 2  MaxPushFailures = 2
    GmailFails = {"publish", "redis", "undo"}
    GraphFails = {"publish", "redis", "overlap", "lost", "crash", "gone"}
    Subscriber = {p1, p2}  Broken = {}  Scheduler = {k1, k2}  NoScheduler = none
    MaxIds = 3  MaxRemovals = 1  MaxSubscriptionFailures = 1
    SubscriptionFails = {"refused", "answer", "consent", "notice", "slow", "crash"}
    MaxAlertChanges = 3  MaxTelling = 1  MaxLost = 1  MaxCrashes = 1
    Syncs = {sync}  Renewals = {renewal}  Readers = {}  NoOp = none  Dead = dead
    Rotating = {TRUE}
    MaxSlowActs = 2  MaxSlowTokens = 2  MaxQuickActs = 1  MaxQuickTokens = 3
    Client = {r1, r2}  MaxAttempts = 3  MaxDelay = 2  MaxRevoked = 3  MaxCalls = 1
    unused = unused
SYMMETRY Symmetry
INVARIANTS IInv OneImportPerAccount NoImportWhileCoolingDown AcceptedIsQueued OrphansAreExcused AlertsArePaired RefreshesSerialized
PROPERTIES LastConsentKept DeadlineHonoured
