------------------------------ MODULE MailOAuth ------------------------------
(***************************************************************************)
(* How mailboxes are connected to one workspace.  An operator begins an    *)
(* authorization (authorize): Redis keeps its state, and the browser gets  *)
(* a cookie of that state's own.  The provider sends the browser back to   *)
(* the callback, perhaps more than once: the state is taken with GETDEL,   *)
(* the browser, the operator and the workspace are checked again, the code *)
(* is exchanged and, for an account that was to be authorized again, the   *)
(* mailbox compared; then the account's row is read and written            *)
(* (connect_gmail, connect_microsoft).  Gmail can also be connected over   *)
(* IMAP, in one request (connect_gmail_imap).                              *)
(***************************************************************************)
EXTENDS Integers, FiniteSets

CONSTANTS
    Flow,         \* authorizations
    Callback,     \* requests to the callback that run at the same time
    Mailbox,
    Nobody,       \* no mailbox: an authorization of a new account
    StateLife,    \* 600 s for Gmail, 3600 s for Microsoft
    CookieLife,   \* 600 s
    MaxTime,      \* bound: the clock
    MaxChanges,   \* bound: changes of the operator's role
    MaxFailures   \* bound: exchanges the provider refuses, processes that die

VARIABLES
    now,
    flow,      \* authorizations: their target, whether they have begun and when
    state,     \* Redis: the states kept, and until when (-1: none)
    cookie,    \* the browser's cookies, and until when
    operator,  \* may the operator connect mailboxes?
    rows,      \* the rows of mail_accounts, how many for each mailbox
    request,   \* the callbacks and IMAP requests
    connected, \* the mailboxes each authorization has connected, and how often (history)
    stopped,   \* authorizations whose operator has lost the permission before
               \* the browser came back (history)
    changes, failures

vars == <<now, flow, state, cookie, operator, rows, request, connected, stopped,
          changes, failures>>

IdleRequest == [pc |-> "idle", flow |-> "imap", mailbox |-> Nobody, new |-> FALSE,
                came |-> 0, mismatch |-> FALSE]
Time == {-1} \cup 0..(MaxTime + StateLife)

TypeOK ==
    /\ now \in 0..MaxTime
    /\ flow \in [Flow -> [target: Mailbox \cup {Nobody}, began: Time]]
    /\ state \in [Flow -> Time] /\ cookie \in [Flow -> Time]
    /\ operator \in BOOLEAN
    /\ rows \in [Mailbox -> Nat]
    /\ request \in [Callback -> [pc: {"idle", "check", "exchange", "read", "write"},
                                 flow: Flow \cup {"imap"}, mailbox: Mailbox \cup {Nobody},
                                 new: BOOLEAN, came: 0..MaxTime, mismatch: BOOLEAN]]
    /\ connected \in [Flow -> [Mailbox -> Nat]]
    /\ stopped \subseteq Flow /\ changes \in Nat /\ failures \in Nat

Init ==
    /\ now = 0
    /\ flow = [f \in Flow |-> [target |-> Nobody, began |-> -1]]
    /\ state = [f \in Flow |-> -1] /\ cookie = [f \in Flow |-> -1]
    /\ operator = TRUE
    /\ \E m \in Mailbox : rows = [b \in Mailbox |-> IF b = m THEN 1 ELSE 0]
    /\ request = [c \in Callback |-> IdleRequest]
    /\ connected = [f \in Flow |-> [m \in Mailbox |-> 0]]
    /\ stopped = {} /\ changes = 0 /\ failures = 0

Goes(c, pc) == request' = [request EXCEPT ![c].pc = pc]
Ends(c) == request' = [request EXCEPT ![c] = IdleRequest]

-----------------------------------------------------------------------------

\* Mutant of BindBrowser: one cookie for all authorizations.
BindAll(f) == cookie' = [g \in Flow |-> IF g = f THEN now + CookieLife ELSE -1]

\* bind_browser.
BindBrowser(f) == cookie' = [cookie EXCEPT ![f] = now + CookieLife]

\* authorize, for a new account or for one there is.
Authorize(f, target) ==
    /\ operator /\ flow[f].began = -1
    /\ target # Nobody => rows[target] > 0
    /\ flow' = [flow EXCEPT ![f] = [target |-> target, began |-> now]]
    /\ state' = [state EXCEPT ![f] = now + StateLife]
    /\ BindBrowser(f)
    /\ UNCHANGED <<now, operator, rows, request, connected, stopped, changes, failures>>

\* The provider sends the operator's browser back; consume_state.
Consume(c, f) ==
    /\ request[c].pc = "idle" /\ state[f] > now
    /\ state' = [state EXCEPT ![f] = -1]
    /\ request' = [request EXCEPT ![c] =
          [IdleRequest EXCEPT !.pc = "check", !.flow = f, !.came = now]]
    /\ UNCHANGED <<now, flow, cookie, operator, rows, connected, stopped, changes, failures>>

\* Mutant of Check: the operator was checked when the authorization began.
CheckBrowser(c) ==
    /\ request[c].pc = "check"
    /\ request' = [request EXCEPT ![c] =
          IF cookie[request[c].flow] <= now THEN [@ EXCEPT !.pc = "idle", !.mismatch = TRUE]
          ELSE [@ EXCEPT !.pc = "exchange"]]
    /\ UNCHANGED <<now, flow, state, cookie, operator, rows, connected, stopped, changes, failures>>

\* validate_callback_actor: the cookie, then the operator and the workspace.
Check(c) ==
    /\ request[c].pc = "check"
    /\ request' = [request EXCEPT ![c] =
          IF cookie[request[c].flow] <= now THEN [@ EXCEPT !.pc = "idle", !.mismatch = TRUE]
          ELSE IF operator THEN [@ EXCEPT !.pc = "exchange"]
          ELSE IdleRequest]
    /\ UNCHANGED <<now, flow, state, cookie, operator, rows, connected, stopped, changes, failures>>

\* Mutant of SameTarget: whichever mailbox the operator has chosen.
AnyTarget(f, m) == TRUE

\* validate_target_identity.
SameTarget(f, m) == flow[f].target \in {Nobody, m}

\* exchange_code and the profile: the operator has consented for a mailbox, which
\* must be the one that was asked for.
Exchange(c, m) ==
    /\ request[c].pc = "exchange"
    /\ IF SameTarget(request[c].flow, m)
       THEN request' = [request EXCEPT ![c].pc = "read", ![c].mailbox = m]
       ELSE Ends(c)
    /\ UNCHANGED <<now, flow, state, cookie, operator, rows, connected, stopped, changes, failures>>

\* connect_imap: the mailbox has accepted the password.
Imap(c, m) ==
    /\ request[c].pc = "idle" /\ operator
    /\ request' = [request EXCEPT ![c] =
          [IdleRequest EXCEPT !.pc = "read", !.mailbox = m, !.came = now]]
    /\ UNCHANGED <<now, flow, state, cookie, operator, rows, connected, stopped, changes, failures>>

\* account_by_provider_id: FOR UPDATE, so the account's row waits for the request
\* that has read it before; a row that is not there locks nothing.
Read(c) ==
    /\ request[c].pc = "read"
    /\ \A d \in Callback : request[d].mailbox = request[c].mailbox =>
          ~(request[d].pc = "write" /\ ~request[d].new)
    /\ request' = [request EXCEPT ![c].pc = "write", ![c].new = (rows[request[c].mailbox] = 0)]
    /\ UNCHANGED <<now, flow, state, cookie, operator, rows, connected, stopped, changes, failures>>

\* Mutant of Unique: no constraint.
NotUnique(m) == TRUE

\* UniqueConstraint("tenant_id", "provider", "provider_account_id").
Unique(m) == rows[m] = 0

\* The row is added, unless another request has added it since: then the commit
\* fails; or it takes the new grant.
Write(c) ==
    LET m == request[c].mailbox
        f == request[c].flow IN
    /\ request[c].pc = "write"
    /\ \/ request[c].new /\ Unique(m) /\ rows' = [rows EXCEPT ![m] = @ + 1]
       \/ ~request[c].new /\ UNCHANGED rows
    /\ connected' = IF f = "imap" THEN connected ELSE [connected EXCEPT ![f][m] = @ + 1]
    /\ cookie' = IF f = "imap" THEN cookie ELSE [cookie EXCEPT ![f] = -1]
    /\ Ends(c)
    /\ UNCHANGED <<now, flow, state, operator, stopped, changes, failures>>

WriteConflicts(c) ==
    /\ request[c].pc = "write" /\ request[c].new /\ ~Unique(request[c].mailbox)
    /\ Ends(c)
    /\ UNCHANGED <<now, flow, state, cookie, operator, rows, connected, stopped, changes, failures>>

\* The operator cancels, the provider refuses the code or gives no refresh token,
\* or the process dies: the session is rolled back.
Fail(c) ==
    /\ request[c].pc \in {"exchange", "read", "write"} /\ failures < MaxFailures
    /\ failures' = failures + 1
    /\ Ends(c)
    /\ UNCHANGED <<now, flow, state, cookie, operator, rows, connected, stopped, changes>>

\* update_user, update_workspace.
ChangeRole ==
    /\ changes < MaxChanges
    /\ operator' = ~operator /\ changes' = changes + 1
    /\ stopped' = IF operator THEN {f \in Flow : \A c \in Callback : request[c].flow # f} ELSE {}
    /\ UNCHANGED <<now, flow, state, cookie, rows, request, connected, failures>>

\* A request takes less than the grain of the clock.
Tick ==
    /\ now < MaxTime /\ \A c \in Callback : request[c].pc = "idle"
    /\ now' = now + 1
    /\ UNCHANGED <<flow, state, cookie, operator, rows, request, connected, stopped, changes, failures>>

Next ==
    \/ \E f \in Flow, t \in Mailbox \cup {Nobody} : Authorize(f, t)
    \/ \E c \in Callback :
          \/ \E f \in Flow : Consume(c, f)
          \/ \E m \in Mailbox : Exchange(c, m) \/ Imap(c, m)
          \/ Check(c) \/ Read(c) \/ Write(c) \/ WriteConflicts(c) \/ Fail(c)
    \/ ChangeRole \/ Tick

Spec == Init /\ [][Next]_vars

-----------------------------------------------------------------------------
\* README.md:20, "state de un solo uso": an authorization connects a mailbox
\* once, however many callbacks bring its state.
StateUsedOnce ==
    \A f \in Flow : \A m, n \in Mailbox :
        connected[f][m] <= 1 /\ (connected[f][m] + connected[f][n] > 1 => m = n)

\* Two requests that connect the same mailbox leave one account of it: the one
\* that finds no row and is overtaken fails instead of adding another
\* (connect_gmail, connect_gmail_imap, connect_microsoft; models.py:56).
OneAccountPerMailbox == \A m \in Mailbox : rows[m] <= 1

\* Authorizing an account again connects that account or none: consenting for
\* another mailbox neither adds an account nor changes another's grant
\* (test_reauthorization_cannot_replace_selected_identity).
OnlyTheTarget ==
    \A f \in Flow : \A m \in Mailbox :
        (flow[f].target # Nobody /\ connected[f][m] > 0) => m = flow[f].target

\* An operator who lost the permission after the authorization began and before
\* the browser came back connects nothing
\* (test_callback_rechecks_current_user_permission).
StoppedConnectNothing == \A f \in stopped \cap stopped' : connected'[f] = connected[f]
PermissionIsCurrent == [][StoppedConnectNothing]_vars

\* A browser that comes back within the ten minutes of its cookie is recognized,
\* whatever other authorizations it has begun or ended meanwhile, until its own
\* has ended (test_oauth_browser_cookie_is_private_and_flow_specific).
OwnBrowserIsKnown ==
    \A c \in Callback : request[c].mismatch =>
        \/ request[c].came >= flow[request[c].flow].began + CookieLife
        \/ \E m \in Mailbox : connected[request[c].flow][m] > 0
=============================================================================
