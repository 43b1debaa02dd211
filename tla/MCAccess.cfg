SPECIFICATION Spec
CONSTANTS
    Tab = {t1, t2}  LoginState = {s1}  SessionIdle = 1  Absolute = 2
    MaxTime = 3  MaxTokens = 3  MaxLost = 1  MaxAdmin = 1
    RecoveryRequest = {r1}  Attempts = 2  Life = 2  MaxRecoveryTime = 6
    MaxCodes = 2  MaxGuesses = 6  MaxRecoveryFailures = 1
    User = {1, 2, 3}  Email = {e1, e2, e3}  OwnerEmail = e1
    Overlapping = {r1, r2}  InTurn = {r1}
    MaxLimitOverlapping = 2  MaxLimitInTurn = 3  MaxOverlapping = 3  MaxInTurn = 4
    Flow = {f1, f2}  FlowRequest = {c1, c2}  Mailbox = {a, b}  NoMailbox = none
    StateLife = 2  CookieLife = 1  MaxFlowTime = 2
    MaxRoleChanges = 1  MaxFlowFailures = 1
    unused = unused
INVARIANTS SessionsEnd CodeUsedOnce
PROPERTIES OnlyOwnerMakesAdmins OneAccountPerMailbox
\* A component whose bounds are used up has nothing left to do.
CHECK_DEADLOCK FALSE
