------------------------------- MODULE Access -------------------------------
(***************************************************************************)
(* Who may do what: the sessions, the recovery of a password, the users of *)
(* a workspace and the connection of mailboxes.  The components share      *)
(* nothing: in a behaviour one of them runs, and the variables of the      *)
(* others are not used (`unused').                                         *)
(***************************************************************************)
EXTENDS Integers, FiniteSets

CONSTANTS
    \* Sessions
    Tab, LoginState, SessionIdle, Absolute, MaxTime, MaxTokens, MaxLost, MaxAdmin,
    \* PasswordRecovery
    RecoveryRequest, Attempts, Life, MaxRecoveryTime, MaxCodes, MaxGuesses, MaxRecoveryFailures,
    \* WorkspaceUsers: requests that overlap, or that do not
    User, Email, OwnerEmail, Overlapping, InTurn,
    MaxLimitOverlapping, MaxLimitInTurn, MaxOverlapping, MaxInTurn,
    \* MailOAuth
    Flow, FlowRequest, Mailbox, NoMailbox, StateLife, CookieLife, MaxFlowTime,
    MaxRoleChanges, MaxFlowFailures,
    unused

ASSUME SessionsAssumption ==
    /\ "password" \notin LoginState /\ SessionIdle \in Nat /\ Absolute \in Nat
    /\ MaxTime \in Nat /\ MaxTokens \in Nat
ASSUME RecoveryAssumption ==
    Attempts \in Nat /\ Life \in Nat \ {0} /\ MaxRecoveryTime \in Nat /\ MaxCodes \in Nat
ASSUME UsersAssumption ==
    1 \in User /\ IsFiniteSet(User) /\ OwnerEmail \in Email
\* A cookie lives no longer than its state: 600 s, and 600 or 3600 s.
ASSUME FlowsAssumption ==
    /\ "imap" \notin Flow /\ NoMailbox \notin Mailbox
    /\ CookieLife \in Nat /\ StateLife \in Nat /\ CookieLife <= StateLife /\ MaxFlowTime \in Nat

VARIABLES
    running,
    \* Sessions
    sessionClock, row, active, cookie, tab, state, ticket, handed, left, lost, admin,
    \* PasswordRecovery
    recoveryClock, challenge, recovering, born, mailed, compared, used, recoveryFailures,
    \* WorkspaceUsers
    user, limit, asking, userChanges,
    \* MailOAuth
    oauthClock, flow, oauthState, oauthCookie, operator, rows, callback, connected,
    stopped, roleChanges, oauthFailures

\* Requests of two tabs overlap, or an answer may be lost and the user switched off.
Tabs(overlap) == INSTANCE Sessions WITH
    State <- LoginState, Idle <- SessionIdle, Overlapping <- overlap,
    MaxLost <- IF overlap THEN 0 ELSE MaxLost, MaxAdmin <- IF overlap THEN 0 ELSE MaxAdmin,
    now <- sessionClock, request <- tab
\* Its requests do not overlap.
Recovery == INSTANCE PasswordRecovery WITH
    Request <- RecoveryRequest, Overlapping <- FALSE,
    MaxTime <- MaxRecoveryTime, MaxFailures <- MaxRecoveryFailures,
    now <- recoveryClock, request <- recovering, failures <- recoveryFailures
\* Requests of the workspace overlap, or they do not.
Users(overlap) == INSTANCE WorkspaceUsers WITH
    Request <- IF overlap THEN Overlapping ELSE InTurn, Overlap <- overlap,
    MaxUsers <- IF overlap THEN MaxLimitOverlapping ELSE MaxLimitInTurn,
    MaxChanges <- IF overlap THEN MaxOverlapping ELSE MaxInTurn,
    request <- asking, changes <- userChanges
Connections == INSTANCE MailOAuth WITH
    Callback <- FlowRequest, Nobody <- NoMailbox, MaxTime <- MaxFlowTime, MaxChanges <- MaxRoleChanges,
    MaxFailures <- MaxFlowFailures,
    now <- oauthClock, state <- oauthState, cookie <- oauthCookie,
    request <- callback, changes <- roleChanges, failures <- oauthFailures

sessionVars == <<sessionClock, row, active, cookie, tab, state, ticket, handed, left, lost, admin>>
recoveryVars == <<recoveryClock, challenge, recovering, born, mailed, compared, used, recoveryFailures>>
userVars == <<user, limit, asking, userChanges>>
oauthVars == <<oauthClock, flow, oauthState, oauthCookie, operator, rows, callback, connected,
               stopped, roleChanges, oauthFailures>>
vars == <<running, sessionVars, recoveryVars, userVars, oauthVars>>

NoSession ==
    /\ sessionClock = unused /\ row = unused /\ active = unused /\ cookie = unused
    /\ tab = unused /\ state = unused /\ ticket = unused /\ handed = unused
    /\ left = unused /\ lost = unused /\ admin = unused
NoRecovery ==
    /\ recoveryClock = unused /\ challenge = unused /\ recovering = unused /\ born = unused
    /\ mailed = unused /\ compared = unused /\ used = unused /\ recoveryFailures = unused
NoUser == user = unused /\ limit = unused /\ asking = unused /\ userChanges = unused
NoConnection ==
    /\ oauthClock = unused /\ flow = unused /\ oauthState = unused /\ oauthCookie = unused
    /\ operator = unused /\ rows = unused /\ callback = unused /\ connected = unused
    /\ stopped = unused /\ roleChanges = unused /\ oauthFailures = unused

Init ==
    \/ running = "tabs" /\ Tabs(TRUE)!Init /\ NoRecovery /\ NoUser /\ NoConnection
    \/ running = "tabs in turn" /\ Tabs(FALSE)!Init /\ NoRecovery /\ NoUser /\ NoConnection
    \/ running = "recovery" /\ Recovery!Init /\ NoSession /\ NoUser /\ NoConnection
    \/ running = "users" /\ Users(TRUE)!Init /\ NoSession /\ NoRecovery /\ NoConnection
    \/ running = "users in turn" /\ Users(FALSE)!Init /\ NoSession /\ NoRecovery /\ NoConnection
    \/ running = "connections" /\ Connections!Init /\ NoSession /\ NoRecovery /\ NoUser

Next ==
    \/ /\ \/ running = "tabs" /\ Tabs(TRUE)!Next
          \/ running = "tabs in turn" /\ Tabs(FALSE)!Next
       /\ UNCHANGED <<running, recoveryVars, userVars, oauthVars>>
    \/ /\ running = "recovery" /\ Recovery!Next
       /\ UNCHANGED <<running, sessionVars, userVars, oauthVars>>
    \/ /\ \/ running = "users" /\ Users(TRUE)!Next
          \/ running = "users in turn" /\ Users(FALSE)!Next
       /\ UNCHANGED <<running, sessionVars, recoveryVars, oauthVars>>
    \/ /\ running = "connections" /\ Connections!Next
       /\ UNCHANGED <<running, sessionVars, recoveryVars, userVars>>

Spec == Init /\ [][Next]_vars

-----------------------------------------------------------------------------
\* Sessions: however tabs overlap, no login outlives its absolute limit, a state is used
\* and a token handed once, and the browser keeps no token that a rotation has replaced.
\* If requests do not overlap, a token has one successor and none of a session that was
\* logged out is good.
SessionsEnd ==
    /\ running = "tabs" =>
          /\ Tabs(TRUE)!TypeOK /\ Tabs(TRUE)!SessionEnds /\ Tabs(TRUE)!StateUsedOnce
          /\ Tabs(TRUE)!HandedOnce /\ Tabs(TRUE)!CookieIsLive
    /\ running = "tabs in turn" =>
          Tabs(FALSE)!TypeOK /\ Tabs(FALSE)!OneSuccessor /\ Tabs(FALSE)!LogoutEnds

\* PasswordRecovery, requests in turn: a code is used once, compared a bounded number of
\* times and dies although failed attempts renew its time; the last that was mailed works.
CodeUsedOnce ==
    running = "recovery" =>
        /\ Recovery!TypeOK /\ Recovery!CodeUsedOnce /\ Recovery!GuessesBounded
        /\ Recovery!CodeDies /\ Recovery!LatestCodeWorks

\* WorkspaceUsers: though requests overlap, the owner stays the only owner and active, an
\* address has one user, and who becomes an administrator was made one by the owner.  In
\* turn, a new user keeps the workspace within its plan, and administrators do not change
\* each other.
OnlyOwnerMakesAdmins ==
    /\ [](running = "users" =>
             Users(TRUE)!TypeOK /\ Users(TRUE)!SingleOwner /\ Users(TRUE)!OneUserPerAddress)
    /\ [](running = "users in turn" => Users(FALSE)!TypeOK)
    /\ [][running = "users" => Users(TRUE)!OwnerMakesAdmins]_userVars
    /\ [][running = "users in turn" => Users(FALSE)!WithinLimit /\ Users(FALSE)!ThroughOwner]_userVars

\* MailOAuth: a state is used once; a mailbox has one account, though two authorizations
\* of it end at once; one begun for an account connects no other mailbox; the browser that
\* began it is recognized when it comes back; who has lost the permission connects nothing.
OneAccountPerMailbox ==
    /\ [](running = "connections" =>
             /\ Connections!TypeOK /\ Connections!StateUsedOnce /\ Connections!OneAccountPerMailbox
             /\ Connections!OnlyTheTarget /\ Connections!OwnBrowserIsKnown)
    /\ [][running = "connections" => Connections!StoppedConnectNothing]_oauthVars
=============================================================================
