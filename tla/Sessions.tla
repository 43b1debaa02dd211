------------------------------ MODULE Sessions ------------------------------
(***************************************************************************)
(* The sessions of one user in one browser: a row of refresh_sessions for  *)
(* each refresh token, the cookie mce_refresh that every tab shares, and   *)
(* the requests of those tabs.  A login (IdentityService.login, register,  *)
(* login_external) begins a session; a refresh rotates its token: the row  *)
(* is revoked and a new one carries the session on, never beyond the       *)
(* deadline counted from the login.                                        *)
(*                                                                         *)
(* A rotation and a logout read the row without a lock and write it in     *)
(* their commit: two steps here.  The login with Google or Microsoft goes  *)
(* through two keys of Redis that are read with GETDEL: the state of the   *)
(* authorization, and the ticket that the browser exchanges for a cookie.  *)
(*                                                                         *)
(* Access tokens, which nothing revokes, and passwords are left out.       *)
(***************************************************************************)
EXTENDS Integers, Sequences, FiniteSets

CONSTANTS
    Tab,          \* tabs of the browser, each with a request at a time
    State,        \* authorizations of an external login that are begun
    Idle,         \* session_idle_minutes
    Absolute,     \* session_absolute_hours
    Overlapping,  \* do requests of two tabs overlap?
    MaxTime,      \* bound: the clock
    MaxTokens,    \* bound: refresh tokens issued
    MaxLost,      \* bound: answers that do not reach the browser
    MaxAdmin      \* bound: changes of users.is_active

VARIABLES
    now,
    row,       \* refresh_sessions, in the order they are written
    active,    \* users.is_active
    cookie,    \* the browser's token, or 0
    request,   \* each tab's request
    state,     \* Redis: login:oauth:<state>, "new" before and "gone" after
    ticket,    \* Redis: the tokens that wait under login:ticket:<ticket>
    handed,    \* how often each token has been put in a cookie (history)
    left,      \* the sessions that a logout has answered (history)
    lost, admin \* counters for the bounds

vars == <<now, row, active, cookie, request, state, ticket, handed, left, lost, admin>>

Token == 1..MaxTokens
IdleRequest == [pc |-> "idle", of |-> 0, gives |-> 0]

TypeOK ==
    /\ now \in 0..MaxTime
    /\ row \in Seq([from: {0} \cup Token, login: Token, via: State \cup {"password"},
                    began: 0..MaxTime, expires: 0..(MaxTime + Absolute), revoked: BOOLEAN])
    /\ Len(row) <= MaxTokens
    /\ active \in BOOLEAN /\ cookie \in 0..Len(row)
    /\ request \in [Tab -> [pc: {"idle", "rotate", "logout", "answer", "out"},
                            of: {0} \cup Token, gives: {0} \cup Token]]
    /\ state \in [State -> {"new", "open", "gone"}]
    /\ ticket \subseteq 1..Len(row)
    /\ handed \in [Token -> Nat] /\ left \subseteq 1..Len(row)
    /\ lost \in Nat /\ admin \in Nat

Init ==
    /\ now = 0 /\ row = <<>> /\ active = TRUE /\ cookie = 0
    /\ request = [t \in Tab |-> IdleRequest]
    /\ state = [s \in State |-> "new"] /\ ticket = {}
    /\ handed = [k \in Token |-> 0] /\ left = {}
    /\ lost = 0 /\ admin = 0

-----------------------------------------------------------------------------
Minimum(x, y) == IF x < y THEN x ELSE y

\* session_refresh_deadline.
RefreshDeadline(began) == Minimum(now + Idle, began + Absolute)

\* A row that rotate_refresh_token accepts.
Valid(k) ==
    /\ ~row[k].revoked
    /\ row[k].expires > now
    /\ row[k].began + Absolute > now

\* _issue_pair, for a login or for the token `from` of a session.
Issued(from, began, via) ==
    [from |-> from,
     login |-> IF from = 0 THEN Len(row) + 1 ELSE row[from].login,
     via |-> via, began |-> began, expires |-> RefreshDeadline(began), revoked |-> FALSE]

\* A tab may send a request.
Ready(t) ==
    /\ request[t].pc = "idle"
    /\ Overlapping \/ \A o \in Tab : request[o].pc = "idle"

\* The answer of a request is on its way, with a token for the cookie.
Answers(t, k) == request' = [request EXCEPT ![t] = [pc |-> "answer", of |-> 0, gives |-> k]]

-----------------------------------------------------------------------------
\* Mutant of Login: the pair is issued and its row is not added.
LoginUnstored(t) ==
    /\ Ready(t) /\ active /\ Len(row) < MaxTokens
    /\ Answers(t, Len(row) + 1)
    /\ UNCHANGED <<now, row, active, cookie, state, ticket, handed, left, lost, admin>>

\* A login with a password, or the registration of the workspace.
Login(t) ==
    /\ Ready(t) /\ active /\ Len(row) < MaxTokens
    /\ row' = Append(row, Issued(0, now, "password"))
    /\ Answers(t, Len(row) + 1)
    /\ UNCHANGED <<now, active, cookie, state, ticket, handed, left, lost, admin>>

\* A tab asks for a new pair with the cookie's token.
Refresh(t) ==
    /\ Ready(t) /\ cookie # 0
    /\ request' = [request EXCEPT ![t] =
          IF Valid(cookie) /\ active THEN [pc |-> "rotate", of |-> cookie, gives |-> 0] ELSE @]
    /\ UNCHANGED <<now, row, active, cookie, state, ticket, handed, left, lost, admin>>

\* Mutant of Rotate: the revocation is committed before the new row.
RotateInTwo(t) ==
    /\ request[t].pc = "rotate" /\ Len(row) < MaxTokens
    /\ LET old == request[t].of
           revoked == [row EXCEPT ![old].revoked = TRUE] IN
       \/ /\ row' = Append(revoked, Issued(old, row[old].began, row[old].via))
          /\ Answers(t, Len(row) + 1)
       \/ /\ row' = revoked
          /\ request' = [request EXCEPT ![t] = IdleRequest]
    /\ UNCHANGED <<now, active, cookie, state, ticket, handed, left, lost, admin>>

\* Mutant of Rotate: session_started_at is not handed on.
RotateAfresh(t) ==
    /\ request[t].pc = "rotate" /\ Len(row) < MaxTokens
    /\ LET old == request[t].of IN
       row' = Append([row EXCEPT ![old].revoked = TRUE], Issued(old, now, row[old].via))
    /\ Answers(t, Len(row) + 1)
    /\ UNCHANGED <<now, active, cookie, state, ticket, handed, left, lost, admin>>

\* Mutant of Rotate: the old row is left as it was.
RotateKeeping(t) ==
    /\ request[t].pc = "rotate" /\ Len(row) < MaxTokens
    /\ LET old == request[t].of IN
       row' = Append(row, Issued(old, row[old].began, row[old].via))
    /\ Answers(t, Len(row) + 1)
    /\ UNCHANGED <<now, active, cookie, state, ticket, handed, left, lost, admin>>

\* Its commit: the row that was read is revoked, whoever has revoked it since,
\* and a new one goes on with the session.
Rotate(t) ==
    /\ request[t].pc = "rotate" /\ Len(row) < MaxTokens
    /\ LET old == request[t].of IN
       row' = Append([row EXCEPT ![old].revoked = TRUE],
                     Issued(old, row[old].began, row[old].via))
    /\ Answers(t, Len(row) + 1)
    /\ UNCHANGED <<now, active, cookie, state, ticket, handed, left, lost, admin>>

\* A tab logs out.
Logout(t) ==
    /\ Ready(t) /\ cookie # 0
    /\ request' = [request EXCEPT ![t] = [pc |-> "logout", of |-> cookie, gives |-> 0]]
    /\ UNCHANGED <<now, row, active, cookie, state, ticket, handed, left, lost, admin>>

\* Mutant of Revoke: the cookie goes and the row stays.
RevokeNothing(t) ==
    /\ request[t].pc = "logout"
    /\ request' = [request EXCEPT ![t].pc = "out"]
    /\ UNCHANGED <<now, row, active, cookie, state, ticket, handed, left, lost, admin>>

\* The row is revoked, if it was not.
Revoke(t) ==
    /\ request[t].pc = "logout"
    /\ row' = [row EXCEPT ![request[t].of].revoked = TRUE]
    /\ request' = [request EXCEPT ![t].pc = "out"]
    /\ UNCHANGED <<now, active, cookie, state, ticket, handed, left, lost, admin>>

-----------------------------------------------------------------------------
\* oauth_authorize: the state is kept for ten minutes.
Authorize(s) ==
    /\ state[s] = "new"
    /\ state' = [state EXCEPT ![s] = "open"]
    /\ UNCHANGED <<now, row, active, cookie, request, ticket, handed, left, lost, admin>>

\* Mutant of Callback: GET in place of GETDEL.
CallbackKeeping(s) ==
    /\ state[s] = "open" /\ active /\ Len(row) < MaxTokens
    /\ row' = Append(row, Issued(0, now, s))
    /\ ticket' = ticket \cup {Len(row) + 1}
    /\ UNCHANGED <<now, active, cookie, request, state, handed, left, lost, admin>>

\* oauth_callback: GETDEL takes the state; then the provider refuses, the user
\* is not to be let in, or the pair of a new session waits under a ticket.
Callback(s) ==
    /\ state[s] = "open"
    /\ state' = [state EXCEPT ![s] = "gone"]
    /\ \/ UNCHANGED <<row, ticket>>
       \/ /\ active /\ Len(row) < MaxTokens
          /\ row' = Append(row, Issued(0, now, s))
          /\ ticket' = ticket \cup {Len(row) + 1}
    /\ UNCHANGED <<now, active, cookie, request, handed, left, lost, admin>>

\* Mutant of Exchange: GET in place of GETDEL.
ExchangeKeeping(t, k) ==
    /\ Ready(t) /\ k \in ticket
    /\ Answers(t, k)
    /\ UNCHANGED <<now, row, active, cookie, state, ticket, handed, left, lost, admin>>

\* oauth_exchange: GETDEL takes the ticket, and its token goes to a cookie.
Exchange(t, k) ==
    /\ Ready(t) /\ k \in ticket
    /\ ticket' = ticket \ {k}
    /\ Answers(t, k)
    /\ UNCHANGED <<now, row, active, cookie, state, handed, left, lost, admin>>

-----------------------------------------------------------------------------
\* set_refresh_cookie, delete_cookie: the answer reaches the browser.
Arrive(t) ==
    /\ \/ /\ request[t].pc = "answer"
          /\ cookie' = request[t].gives
          /\ handed' = [handed EXCEPT ![request[t].gives] = @ + 1]
          /\ UNCHANGED left
       \/ /\ request[t].pc = "out"
          /\ cookie' = 0
          /\ left' = left \cup {row[request[t].of].login}
          /\ UNCHANGED handed
    /\ request' = [request EXCEPT ![t] = IdleRequest]
    /\ UNCHANGED <<now, row, active, state, ticket, lost, admin>>

\* It does not; or the request dies before its commit, which leaves no trace.
Lose(t) ==
    /\ request[t].pc # "idle" /\ lost < MaxLost
    /\ lost' = lost + 1
    /\ request' = [request EXCEPT ![t] = IdleRequest]
    /\ UNCHANGED <<now, row, active, cookie, state, ticket, handed, left, admin>>

\* update_user.
SetActive(b) ==
    /\ active # b /\ admin < MaxAdmin
    /\ active' = b /\ admin' = admin + 1
    /\ UNCHANGED <<now, row, cookie, request, state, ticket, handed, left, lost>>

Tick ==
    /\ now < MaxTime
    /\ now' = now + 1
    /\ UNCHANGED <<row, active, cookie, request, state, ticket, handed, left, lost, admin>>

\* Redis drops a state after 600 s, a ticket after 60 s.
Expire ==
    /\ \/ \E s \in State : state[s] = "open" /\ state' = [state EXCEPT ![s] = "gone"] /\ UNCHANGED ticket
       \/ \E k \in ticket : ticket' = ticket \ {k} /\ UNCHANGED state
    /\ UNCHANGED <<now, row, active, cookie, request, handed, left, lost, admin>>

Next ==
    \/ \E t \in Tab :
          \/ Login(t) \/ Refresh(t) \/ Rotate(t) \/ Logout(t) \/ Revoke(t)
          \/ Arrive(t) \/ Lose(t)
          \/ \E k \in ticket : Exchange(t, k)
    \/ \E s \in State : Authorize(s) \/ Callback(s)
    \/ \E b \in BOOLEAN : SetActive(b)
    \/ Tick \/ Expire

Spec == Init /\ [][Next]_vars

-----------------------------------------------------------------------------
\* However often its token is rotated, a session ends session_absolute_hours
\* after its login (session_absolute_deadline,
\* test_refresh_deadline_never_exceeds_absolute_timeout).
SessionEnds ==
    \A k \in DOMAIN row : row[k].expires <= row[row[k].login].began + Absolute

\* The state of an authorization opens one session at most, however many
\* callbacks come with it (oauth_callback's GETDEL).
StateUsedOnce ==
    \A k, l \in DOMAIN row :
        (row[k].from = 0 /\ row[l].from = 0 /\ row[k].via = row[l].via /\ row[k].via \in State)
            => k = l

\* A refresh token is put in a cookie once (set_refresh_cookie): by the answer
\* of the request that created it or, once, in exchange for its ticket.
HandedOnce == \A k \in DOMAIN row : handed[k] <= 1

\* While answers arrive, the browser is never left with a token that a rotation
\* has replaced: tabs that refresh together do not log the user out
\* (rotate_refresh_token, in one transaction).
CookieIsLive ==
    (cookie # 0 /\ lost = 0 /\ \A t \in Tab : request[t].pc = "idle")
        => ~row[cookie].revoked

\* README.md:17, "Refresh tokens rotatorios": a token is exchanged for one
\* successor.
OneSuccessor ==
    \A k, l \in DOMAIN row : (row[k].from = row[l].from /\ row[k].from # 0) => k = l

\* README.md:17, "revocables": of a session that has been logged out, the
\* browser holds and has held no token that can still be refreshed.
LogoutEnds ==
    \A k \in DOMAIN row : (row[k].login \in left /\ handed[k] > 0) => ~Valid(k)
=============================================================================
