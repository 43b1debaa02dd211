----------------------------- MODULE AccessProofs -----------------------------
(***************************************************************************)
(* Proofs about the components of Access, for every set of tabs, states,   *)
(* requests, users, authorizations and mailboxes, every limit and every    *)
(* bound.  A section for each: its inductive invariant, the steps that     *)
(* keep it, and what follows from it.  The last section puts them together *)
(* for the behaviours of the composite.                                    *)
(***************************************************************************)
EXTENDS Access, Sequences, FiniteSetTheorems, TLAPS

-----------------------------------------------------------------------------
(* Sessions *)

\* A row of refresh_sessions ...
RowType == [from: {0} \cup (1..MaxTokens), login: 1..MaxTokens, via: LoginState \cup {"password"},
            began: 0..MaxTime, expires: 0..(MaxTime + Absolute), revoked: BOOLEAN]
\* ... and what a tab has asked for.
TabType == [pc: {"idle", "rotate", "logout", "answer", "out"}, of: {0} \cup (1..MaxTokens),
  gives: {0} \cup (1..MaxTokens)]
\* The state's types.
SessionTypes ==
    /\ sessionClock \in 0..MaxTime /\ row \in Seq(RowType) /\ Len(row) <= MaxTokens
    /\ active \in BOOLEAN /\ cookie \in 0..Len(row) /\ tab \in [Tab -> TabType]
    /\ state \in [LoginState -> {"new", "open", "gone"}] /\ ticket \subseteq 1..Len(row)
    /\ handed \in [1..MaxTokens -> Nat] /\ left \subseteq 1..Len(row) /\ lost \in Nat
    /\ admin \in Nat

\* Each row goes on with the session of a login, whose first token was handed by then.
RowsSound ==
    \A k \in 1..Len(row) :
        /\ row[k].login \in 1..k
        /\ row[k].from = 0 => row[k].login = k
        /\ row[k].from # 0 => handed[row[k].login] > 0
        /\ row[k].began = row[row[k].login].began
        /\ row[k].expires <= row[k].began + Absolute
\* The state of an external login that has opened a session is gone: it opens no other.
StatesSound ==
    /\ \A k \in 1..Len(row) : row[k].from = 0 /\ row[k].via \in LoginState =>
         state[row[k].via] = "gone"
    /\ \A k, l \in 1..Len(row) :
          (row[k].from = 0 /\ row[l].from = 0 /\ row[k].via = row[l].via
            /\ row[k].via \in LoginState) => k = l
\* A token is in one place: it waits under a ticket, is in an answer, or was handed once.
PlacesSound ==
    /\ \A k \in 1..MaxTokens : handed[k] <= 1 /\ (handed[k] # 0 => k \in 1..Len(row))
    /\ \A k \in ticket : handed[k] = 0 /\ row[k].from = 0
    /\ \A t \in Tab : tab[t].pc = "answer" =>
          /\ tab[t].gives \in 1..Len(row) /\ handed[tab[t].gives] = 0 /\ tab[t].gives \notin ticket
    /\ \A t, u \in Tab : tab[t].pc = "answer" /\ tab[u].pc = "answer"
         /\ tab[t].gives = tab[u].gives => t = u
    /\ \A t \in Tab : tab[t].pc \in {"rotate", "logout", "out"} =>
          tab[t].of \in 1..Len(row) /\ handed[tab[t].of] # 0
    /\ cookie # 0 => handed[cookie] # 0
    /\ \A k \in 1..Len(row) : handed[k] = 0 => row[k].revoked = FALSE
\* The browser has a token that was revoked only while an answer replaces it.
CookieSound ==
    lost = 0 /\ cookie # 0 /\ row[cookie].revoked = TRUE =>
        \E t \in Tab : tab[t].pc \in {"answer", "out"}

\* A token that can be refreshed.
Good(k) == row[k].revoked = FALSE /\ row[k].expires > sessionClock
  /\ row[k].began + Absolute > sessionClock
\* In turn, a request has the browser's own token ...
TabsInTurn ==
    /\ \A t, u \in Tab : tab[t].pc # "idle" /\ tab[u].pc # "idle" => t = u
    /\ \A t \in Tab :
          /\ tab[t].pc \in {"rotate", "logout", "out"} => tab[t].of = cookie
          /\ tab[t].pc = "rotate" => row[tab[t].of].revoked = FALSE
          /\ tab[t].pc = "out" => row[tab[t].of].revoked = TRUE
          /\ tab[t].pc = "answer" =>
                /\ row[tab[t].gives].login \notin left
                /\ row[tab[t].gives].from # 0 =>
                      /\ cookie # 0 /\ row[cookie].revoked = TRUE
                      /\ row[tab[t].gives].login = row[cookie].login
\* ... the last one of its session that is good ...
RowsInTurn ==
    /\ \A k \in 1..Len(row) : row[k].from # 0 =>
         row[k].from \in 1..Len(row) /\ row[row[k].from].revoked = TRUE
    /\ \A k, l \in 1..Len(row) : row[k].from = row[l].from /\ row[k].from # 0 => k = l
    /\ cookie # 0 =>
          /\ row[cookie].login \notin left
          /\ \A k \in 1..Len(row) :
                handed[k] # 0 /\ row[k].revoked = FALSE /\ row[k].login = row[cookie].login =>
                  k = cookie
\* ... and a session that was left has none.
LeftInTurn ==
    \A l \in left : /\ handed[l] # 0
                    /\ \A k \in 1..Len(row) : row[k].login = l /\ handed[k] # 0 => ~Good(k)

\* What holds when no two requests overlap.
InTurnSound == TabsInTurn /\ RowsInTurn /\ LeftInTurn

\* The inductive invariant of the sessions.  What holds however they overlap needs to know where
\* each token is; that no token of a left session is good needs also, in turn, that the browser's
\* own token is the last of its session.
SessionsInv(overlap) ==
    /\ SessionTypes /\ RowsSound /\ StatesSound /\ PlacesSound /\ CookieSound
    /\ ~overlap => InTurnSound

\* The types of the module are these.
LEMMA SessionTypesAre ==
    ASSUME NEW overlap \in BOOLEAN
    PROVE  Tabs(overlap)!TypeOK <=> SessionTypes
BY DEF Tabs!TypeOK, Tabs!Token, SessionTypes, RowType, TabType

\* What the types say of a row, a tab and a bound.
LEMMA SessionFacts ==
    ASSUME SessionsAssumption, SessionTypes
    PROVE  /\ Len(row) \in Nat /\ DOMAIN row = 1..Len(row)
              /\ \A k \in 1..Len(row) : row[k] \in RowType
           /\ \A k \in 1..Len(row) :
                 /\ row[k].from \in {0} \cup (1..MaxTokens) /\ row[k].login \in 1..MaxTokens
                 /\ row[k].began \in 0..MaxTime /\ row[k].expires \in 0..(MaxTime + Absolute)
                 /\ row[k].revoked \in BOOLEAN
           /\ \A t \in Tab : tab[t] \in TabType
           /\ 1..Len(row) \subseteq 1..MaxTokens
           /\ \A k \in 1..MaxTokens : handed[k] \in Nat
           /\ MaxTokens \in Nat /\ MaxTime \in Nat /\ Absolute \in Nat /\ SessionIdle \in Nat
<1>1. MaxTokens \in Nat /\ MaxTime \in Nat /\ Absolute \in Nat /\ SessionIdle \in Nat BY
      DEF SessionsAssumption
<1>2. row \in Seq(RowType) /\ Len(row) <= MaxTokens /\ tab \in [Tab -> TabType]
      /\ handed \in [1..MaxTokens -> Nat]
  BY DEF SessionTypes
<1>3. Len(row) \in Nat /\ DOMAIN row = 1..Len(row)
      /\ \A k \in 1..Len(row) : row[k] \in RowType BY <1>2
<1>4. 1..Len(row) \subseteq 1..MaxTokens BY <1>1, <1>2, <1>3
<1>5. \A x \in RowType :
         /\ x.from \in {0} \cup (1..MaxTokens) /\ x.login \in 1..MaxTokens
         /\ x.began \in 0..MaxTime /\ x.expires \in 0..(MaxTime + Absolute) /\ x.revoked \in BOOLEAN
  BY DEF RowType
<1> QED BY <1>1, <1>2, <1>3, <1>4, <1>5

\* A tab that asks for nothing is idle.
LEMMA NoTabRequest ==
    ASSUME NEW overlap \in BOOLEAN
    PROVE  /\ Tabs(overlap)!IdleRequest \in TabType /\ Tabs(overlap)!IdleRequest.pc = "idle"
BY DEF Tabs!IdleRequest, TabType

\* No session has begun.
LEMMA SessionsInit ==
    ASSUME NEW overlap \in BOOLEAN, SessionsAssumption, Tabs(overlap)!Init
    PROVE  SessionsInv(overlap)
<1>1. /\ sessionClock = 0 /\ row = <<>> /\ active = TRUE /\ cookie = 0
      /\ tab = [t \in Tab |-> Tabs(overlap)!IdleRequest]
      /\ state = [s \in LoginState |-> "new"] /\ ticket = {}
      /\ handed = [k \in 1..MaxTokens |-> 0] /\ left = {} /\ lost = 0 /\ admin = 0
  BY DEF Tabs!Init, Tabs!Token
<1>2. tab \in [Tab -> TabType] /\ \A t \in Tab : tab[t].pc = "idle" BY <1>1, NoTabRequest
<1>3. Len(row) = 0 /\ row \in Seq(RowType) /\ 1..Len(row) = {} BY <1>1
<1>4. SessionTypes BY <1>1, <1>2, <1>3 DEF SessionTypes, SessionsAssumption
<1>5. RowsSound /\ StatesSound BY <1>3 DEF RowsSound, StatesSound
<1>6. PlacesSound /\ CookieSound BY <1>1, <1>2, <1>3 DEF PlacesSound, CookieSound
<1>7. InTurnSound BY <1>1, <1>2, <1>3 DEF InTurnSound, TabsInTurn, RowsInTurn, LeftInTurn
<1> QED BY <1>4, <1>5, <1>6, <1>7 DEF SessionsInv

\* A row is appended to what the rows have become.
LEMMA RowAppended ==
    ASSUME SessionsAssumption, SessionTypes, NEW s \in Seq(RowType), NEW e \in RowType,
           Len(s) = Len(row), Len(row) < MaxTokens, row' = Append(s, e)
    PROVE  /\ row' \in Seq(RowType) /\ Len(row') = Len(row) + 1 /\ Len(row') <= MaxTokens
           /\ \A k \in 1..Len(row) : k \in 1..Len(row') /\ row'[k] = s[k]
           /\ row'[Len(row) + 1] = e /\ Len(row) + 1 \in 1..MaxTokens
           /\ \A k \in 1..Len(row') : k \in 1..Len(row) \/ k = Len(row) + 1
<1>1. Len(row) \in Nat /\ MaxTokens \in Nat BY SessionFacts
<1>2. Len(row') = Len(row) + 1 /\ row' \in Seq(RowType) OBVIOUS
<1>3. \A k \in 1..Len(row) : row'[k] = s[k] BY <1>1
<1>4. row'[Len(row) + 1] = e BY <1>1
<1> QED BY <1>1, <1>2, <1>3, <1>4

\* A row is revoked: nothing else of the rows changes.
LEMMA RowRevoked ==
    ASSUME SessionsAssumption, SessionTypes, NEW j \in 1..Len(row)
    PROVE  /\ [row EXCEPT ![j].revoked = TRUE] \in Seq(RowType)
           /\ Len([row EXCEPT ![j].revoked = TRUE]) = Len(row)
           /\ \A k \in 1..Len(row) : [row EXCEPT ![j].revoked = TRUE][k] =
                 [row[k] EXCEPT !.revoked = IF k = j THEN TRUE ELSE row[k].revoked]
<1>1. /\ DOMAIN row = 1..Len(row) /\ (\A k \in 1..Len(row) : row[k] \in RowType)
         /\ Len(row) \in Nat BY SessionFacts
<1>2. [row EXCEPT ![j].revoked = TRUE] = [row EXCEPT ![j] = [row[j] EXCEPT !.revoked =
      TRUE]] BY <1>1
<1>3. [row[j] EXCEPT !.revoked = TRUE] \in RowType BY <1>1 DEF RowType
<1>4. [row EXCEPT ![j] = [row[j] EXCEPT !.revoked = TRUE]] \in [1..Len(row) -> RowType] BY <1>1,
      <1>3
<1>5. /\ [row EXCEPT ![j] = [row[j] EXCEPT !.revoked = TRUE]] \in Seq(RowType)
      /\ Len([row EXCEPT ![j] = [row[j] EXCEPT !.revoked = TRUE]]) = Len(row)
  BY <1>1, <1>4
<1>6. ASSUME NEW k \in 1..Len(row)
      PROVE  [row EXCEPT ![j].revoked = TRUE][k] = [row[k] EXCEPT !.revoked = IF k =
             j THEN TRUE ELSE row[k].revoked]
  <2>1. CASE k = j BY <1>1, <1>2, <1>6, <2>1
  <2>2. CASE k # j
    <3>1. [row EXCEPT ![j].revoked = TRUE][k] = row[k] BY <1>1, <1>2, <1>6, <2>2
    <3>2. row[k] \in RowType BY <1>1, <1>6
    <3>3. [row[k] EXCEPT !.revoked = row[k].revoked] = row[k] BY <3>2 DEF RowType
    <3> QED BY <2>2, <3>1, <3>3
  <2> QED BY <2>1, <2>2
<1> QED BY <1>2, <1>5, <1>6

\* One row more; the others are revoked at most.
RowsGrow(n) ==
    /\ n = Len(row) + 1 /\ n \in 1..MaxTokens /\ n \notin 1..Len(row) /\ n \in 1..Len(row')
    /\ Len(row) \in Nat
    /\ \A k \in 1..Len(row') : k \in 1..Len(row) \/ k = n
    /\ row' \in Seq(RowType) /\ Len(row') = n /\ Len(row') <= MaxTokens
    /\ \A k \in 1..Len(row) :
          /\ k \in 1..Len(row') /\ row'[k].from = row[k].from /\ row'[k].login = row[k].login
          /\ row'[k].via = row[k].via
          /\ row'[k].began = row[k].began /\ row'[k].expires = row[k].expires
          /\ row'[k].revoked = FALSE => row[k].revoked = FALSE

\* The row of a login begins a session of its own.
LEMMA LoginRow ==
    ASSUME NEW overlap \in BOOLEAN, SessionsAssumption, SessionTypes, Len(row) < MaxTokens,
           NEW via \in LoginState \cup {"password"}, row' = Append(row, Tabs(overlap)!Issued(0,
             sessionClock, via)),
           NEW n, n = Len(row) + 1
    PROVE  /\ RowsGrow(n) /\ \A k \in 1..Len(row) : row'[k] = row[k]
           /\ row'[n].from = 0 /\ row'[n].login = n /\ row'[n].via = via
           /\ row'[n].began = sessionClock
           /\ row'[n].revoked = FALSE /\ row'[n].expires <= sessionClock + Absolute
<1> DEFINE deadline == Tabs(overlap)!RefreshDeadline(sessionClock)
           e == [from |-> 0, login |-> n, via |-> via, began |-> sessionClock, expires |-> deadline,
             revoked |-> FALSE]
<1>1. sessionClock \in 0..MaxTime /\ row \in Seq(RowType) /\ Len(row) \in Nat BY SessionFacts
      DEF SessionTypes
<1>2. deadline \in 0..(MaxTime + Absolute) /\ deadline <= sessionClock + Absolute
  BY <1>1, SessionFacts DEF Tabs!RefreshDeadline, Tabs!Minimum
<1>3. n \in 1..MaxTokens BY <1>1, SessionFacts
<1>4. row' = Append(row, e) BY DEF Tabs!Issued
<1> HIDE DEF deadline
<1>5. /\ e \in RowType /\ e.from = 0 /\ e.via = via /\ e.began = sessionClock /\ e.revoked = FALSE
      /\ e.login = n /\ e.expires <= sessionClock + Absolute
  BY <1>1, <1>2, <1>3 DEF RowType
<1> HIDE DEF e
<1>6. /\ row' \in Seq(RowType) /\ Len(row') = Len(row) + 1 /\ Len(row') <= MaxTokens
      /\ \A k \in 1..Len(row) : k \in 1..Len(row') /\ row'[k] = row[k]
      /\ row'[n] = e
      /\ \A k \in 1..Len(row') : k \in 1..Len(row) \/ k = n
  <2>1. Len(row') = Len(row) + 1 /\ row' \in Seq(RowType) BY <1>1, <1>4, <1>5
  <2>2. \A k \in 1..Len(row) : row'[k] = row[k] BY <1>1, <1>4, <1>5
  <2>3. row'[n] = e BY <1>1, <1>4, <1>5
  <2> QED BY <1>1, <1>3, <2>1, <2>2, <2>3
<1>7. n \notin 1..Len(row) /\ n \in 1..Len(row') BY <1>1, <1>6
<1> QED BY <1>1, <1>3, <1>5, <1>6, <1>7 DEF RowsGrow

\* The rows, one of them revoked.
RowsWithout(j) == [row EXCEPT ![j].revoked = TRUE]

\* Row n has taken the place of row j.
Rotated(n, j) ==
    /\ RowsGrow(n) /\ row'[j].revoked = TRUE
    /\ \A k \in 1..Len(row) : k # j => row'[k].revoked = row[k].revoked
    /\ row'[n].from = j /\ row'[n].login = row[j].login /\ row'[n].began = row[j].began
    /\ row'[n].revoked = FALSE /\ row'[n].expires <= row[j].began + Absolute

\* A rotation writes both rows at once.
LEMMA RotateRow ==
    ASSUME NEW overlap \in BOOLEAN, SessionsAssumption, SessionTypes, Len(row) < MaxTokens,
           NEW j \in 1..Len(row),
           row' = Append(RowsWithout(j), Tabs(overlap)!Issued(j, row[j].began, row[j].via)),
           NEW n, n = Len(row) + 1
    PROVE  Rotated(n, j)
<1> DEFINE deadline == Tabs(overlap)!RefreshDeadline(row[j].began)
           revoked == [row EXCEPT ![j].revoked = TRUE]
           e == [from |-> j, login |-> row[j].login, via |-> row[j].via, began |-> row[j].began,
                 expires |-> deadline, revoked |-> FALSE]
<1>1. /\ sessionClock \in 0..MaxTime /\ row \in Seq(RowType) /\ Len(row) \in Nat /\ j # 0
      /\ row[j] \in RowType
      /\ \A k \in 1..Len(row) : row[k] \in RowType /\ row[k].revoked \in BOOLEAN
      /\ row[j].began \in 0..MaxTime
  BY SessionFacts DEF SessionTypes
<1>2. deadline \in 0..(MaxTime + Absolute) /\ deadline <= row[j].began + Absolute
  <2>1. SessionIdle \in Nat /\ Absolute \in Nat /\ MaxTime \in Nat BY DEF SessionsAssumption
  <2> QED BY <1>1, <2>1 DEF Tabs!RefreshDeadline, Tabs!Minimum
<1>3. n \in 1..MaxTokens /\ j \in {0} \cup (1..MaxTokens) BY <1>1, SessionFacts
<1>4. row' = Append(revoked, e) BY <1>1 DEF Tabs!Issued, RowsWithout
<1> HIDE DEF deadline
<1>5. /\ e \in RowType /\ e.from = j /\ e.via = row[j].via /\ e.began = row[j].began
      /\ e.revoked = FALSE
      /\ e.login = row[j].login /\ e.expires <= row[j].began + Absolute
  BY <1>1, <1>2, <1>3 DEF RowType
<1>6. /\ revoked \in Seq(RowType) /\ Len(revoked) = Len(row)
      /\ \A k \in 1..Len(row) : revoked[k] = [row[k] EXCEPT !.revoked = IF k =
           j THEN TRUE ELSE row[k].revoked]
  BY RowRevoked
<1> HIDE DEF e, revoked
<1>7. /\ row' \in Seq(RowType) /\ Len(row') = Len(row) + 1 /\ Len(row') <= MaxTokens
      /\ \A k \in 1..Len(row) : k \in 1..Len(row') /\ row'[k] = revoked[k]
      /\ row'[n] = e
      /\ \A k \in 1..Len(row') : k \in 1..Len(row) \/ k = n
  BY <1>1, <1>4, <1>5, <1>6, RowAppended
<1>8. n \notin 1..Len(row) /\ n \in 1..Len(row') BY <1>1, <1>7
<1>9. ASSUME NEW k \in 1..Len(row)
      PROVE  /\ row'[k].from = row[k].from /\ row'[k].login = row[k].login
             /\ row'[k].via = row[k].via
             /\ row'[k].began = row[k].began /\ row'[k].expires = row[k].expires
             /\ row'[k].revoked = IF k = j THEN TRUE ELSE row[k].revoked
  <2>1. row'[k] = [row[k] EXCEPT !.revoked = IF k = j THEN TRUE ELSE row[k].revoked] BY <1>6, <1>7,
        <1>9
  <2>2. row[k] \in RowType /\ (IF k = j THEN TRUE ELSE row[k].revoked) \in BOOLEAN BY <1>1, <1>9
  <2> QED BY <2>1, <2>2 DEF RowType
<1>10. \A k \in 1..Len(row) : row'[k].revoked = FALSE => row[k].revoked = FALSE BY <1>1, <1>9
<1>11. RowsGrow(n) BY <1>1, <1>3, <1>7, <1>8, <1>9, <1>10 DEF RowsGrow
<1> QED BY <1>5, <1>7, <1>9, <1>11 DEF Rotated

\* The new row belongs to a session, its own or that of the token it replaces.
LEMMA RowsAfter ==
    ASSUME SessionsAssumption, SessionTypes, RowsSound, NEW n, RowsGrow(n), handed' = handed,
           row'[n].login \in 1..n, row'[n].from = 0 => row'[n].login = n,
           row'[n].from # 0 => handed[row'[n].login] > 0,
           row'[n].began = row'[row'[n].login].began, row'[n].expires <= row'[n].began + Absolute
    PROVE  RowsSound'
<1>1. SUFFICES ASSUME NEW k \in 1..Len(row')
               PROVE  /\ row'[k].login \in 1..k
                      /\ row'[k].from = 0 => row'[k].login = k
                      /\ row'[k].from # 0 => handed[row'[k].login] > 0
                      /\ row'[k].began = row'[row'[k].login].began
                      /\ row'[k].expires <= row'[k].began + Absolute
  BY DEF RowsSound
<1>2. CASE k = n BY <1>2
<1>3. CASE k \in 1..Len(row)
  <2>1. /\ row[k].login \in 1..k
        /\ row[k].from = 0 => row[k].login = k
        /\ row[k].from # 0 => handed[row[k].login] > 0
        /\ row[k].began = row[row[k].login].began
        /\ row[k].expires <= row[k].began + Absolute
    BY <1>3 DEF RowsSound
  <2>2. row[k].login \in 1..Len(row)
    <3>1. Len(row) \in Nat BY DEF RowsGrow
    <3> QED BY <1>3, <2>1, <3>1
  <2> QED BY <1>3, <2>1, <2>2 DEF RowsGrow
<1> QED BY <1>1, <1>2, <1>3 DEF RowsGrow

\* The new row opens no session with a state that has opened one.
LEMMA StatesAfter ==
    ASSUME StatesSound, NEW n, RowsGrow(n),
           \A s \in LoginState : state[s] = "gone" => state'[s] = "gone",
           row'[n].from = 0 /\ row'[n].via \in LoginState =>
             state[row'[n].via] # "gone" /\ state'[row'[n].via] = "gone"
    PROVE  StatesSound'
<1>1. \A k \in 1..Len(row') : row'[k].from = 0 /\ row'[k].via \in LoginState =>
      state'[row'[k].via] = "gone"
  BY DEF StatesSound, RowsGrow
<1>2. ASSUME NEW k \in 1..Len(row'), NEW l \in 1..Len(row'),
             row'[k].from = 0, row'[l].from = 0, row'[k].via = row'[l].via,
               row'[k].via \in LoginState
      PROVE  k = l
  BY <1>2 DEF StatesSound, RowsGrow
<1> QED BY <1>1, <1>2 DEF StatesSound

\* A session that was left has no good token again.
LEMMA LeftAfter ==
    ASSUME SessionsAssumption, SessionTypes, LeftInTurn, left' = left, sessionClock' \in Nat,
           sessionClock' >= sessionClock,
           \A l \in left : handed'[l] # 0,
           \A k \in 1..Len(row) :
              /\ row'[k].login = row[k].login /\ row'[k].expires = row[k].expires
              /\ row'[k].began = row[k].began
              /\ row'[k].revoked = FALSE => row[k].revoked = FALSE,
           \A k \in 1..Len(row') : k \in 1..Len(row) \/ handed'[k] = 0,
           \A k \in 1..Len(row) : row[k].login \in left /\ handed'[k] # 0 => handed[k] # 0
    PROVE  LeftInTurn'
<1>1. ASSUME NEW k \in 1..Len(row), Good(k)' PROVE Good(k)
  <2>1. row[k].began \in Nat /\ row[k].expires \in Nat /\ sessionClock \in Nat /\ Absolute \in Nat
    BY <1>1, SessionFacts DEF SessionTypes
  <2> QED BY <1>1, <2>1 DEF Good
<1>2. SUFFICES ASSUME NEW l \in left, NEW k \in 1..Len(row'), row'[k].login = l, handed'[k] # 0,
                      Good(k)'
               PROVE  FALSE
  BY DEF LeftInTurn
<1>3. k \in 1..Len(row) /\ row[k].login = l BY <1>2
<1>4. handed[k] # 0 BY <1>2, <1>3
<1>5. Good(k) BY <1>1, <1>2, <1>3
<1> QED BY <1>2, <1>3, <1>4, <1>5 DEF LeftInTurn

\* A login: its token is new.
LEMMA SessionsLogin ==
    ASSUME NEW overlap \in BOOLEAN, SessionsAssumption, SessionsInv(overlap), NEW t \in Tab,
           Tabs(overlap)!Login(t)
    PROVE  SessionsInv(overlap)'
<1>1. PICK n : n = Len(row) + 1 OBVIOUS
<1> DEFINE q == [pc |-> "answer", of |-> 0, gives |-> n]
<1>2. /\ tab[t].pc = "idle" /\ (~overlap =>
         \A o \in Tab : tab[o].pc = "idle") /\ Len(row) < MaxTokens
      /\ row' = Append(row, Tabs(overlap)!Issued(0, sessionClock, "password"))
      /\ tab' = [tab EXCEPT ![t] = q]
      /\ UNCHANGED <<sessionClock, active, cookie, state, ticket, handed, left, lost, admin>>
  BY <1>1 DEF Tabs!Login, Tabs!Ready, Tabs!Answers
<1>3. SessionTypes /\ RowsSound /\ StatesSound /\ PlacesSound /\ CookieSound BY DEF SessionsInv
<1>4. /\ RowsGrow(n) /\ \A k \in 1..Len(row) : row'[k] = row[k]
      /\ row'[n].from = 0 /\ row'[n].login = n /\ row'[n].via = "password"
      /\ row'[n].began = sessionClock
      /\ row'[n].revoked = FALSE /\ row'[n].expires <= sessionClock + Absolute
  BY <1>1, <1>2, <1>3, LoginRow
<1>5. /\ q \in TabType /\ q.pc = "answer" /\ q.gives = n BY <1>4 DEF TabType, RowsGrow
<1> HIDE DEF q
<1>6. /\ tab' \in [Tab -> TabType] /\ tab'[t] = q /\ \A o \in Tab : o # t => tab'[o] = tab[o]
  BY <1>2, <1>3, <1>5 DEF SessionTypes
<1>7. \A k \in 1..Len(row) : k \in 1..Len(row') BY <1>4 DEF RowsGrow
<1>8. SessionTypes'
  <2>1. cookie \in 0..Len(row') /\ ticket \subseteq 1..Len(row') /\ left \subseteq 1..Len(row')
    BY <1>3, <1>4, <1>7 DEF SessionTypes, RowsGrow
  <2> QED BY <1>2, <1>3, <1>4, <1>6, <2>1 DEF SessionTypes, RowsGrow
<1>9. RowsSound' BY <1>2, <1>3, <1>4, RowsAfter DEF RowsGrow
<1>10. StatesSound' BY <1>2, <1>3, <1>4, StatesAfter, SessionsAssumption DEF SessionsAssumption
<1>11. handed[n] = 0 /\ n \notin ticket /\ n \notin left /\ n # cookie
  <2>1. n \in 1..MaxTokens /\ n \notin 1..Len(row) /\ handed[n] \in Nat BY <1>3, <1>4, SessionFacts
        DEF RowsGrow
  <2>2. n \notin ticket /\ n \notin left BY <1>3, <2>1 DEF SessionTypes
  <2>3. handed[n] = 0 BY <1>3, <2>1 DEF PlacesSound
  <2>4. n # cookie BY <1>3, <2>1, <2>3, SessionFacts DEF PlacesSound
  <2> QED BY <2>2, <2>3, <2>4
<1>12. PlacesSound'
  <2>1. \A k \in 1..MaxTokens : handed[k] <= 1 /\ (handed[k] # 0 =>
        k \in 1..Len(row')) BY <1>3, <1>7 DEF PlacesSound
  <2>2. \A k \in ticket : handed[k] = 0 /\ row'[k].from = 0 BY <1>3, <1>4
        DEF PlacesSound, SessionTypes
  <2>3. \A o \in Tab : tab'[o].pc = "answer" =>
            tab'[o].gives \in 1..Len(row') /\ handed[tab'[o].gives] = 0
              /\ tab'[o].gives \notin ticket
    BY <1>3, <1>4, <1>5, <1>6, <1>7, <1>11 DEF PlacesSound, RowsGrow
  <2>4. \A o, u \in Tab : tab'[o].pc = "answer" /\ tab'[u].pc = "answer"
        /\ tab'[o].gives = tab'[u].gives => o = u
    BY <1>3, <1>4, <1>5, <1>6 DEF PlacesSound, RowsGrow
  <2>5. \A o \in Tab : tab'[o].pc \in {"rotate", "logout", "out"} =>
        tab'[o].of \in 1..Len(row') /\ handed[tab'[o].of] # 0
    BY <1>3, <1>5, <1>6, <1>7 DEF PlacesSound
  <2>6. \A k \in 1..Len(row') : handed[k] = 0 =>
        row'[k].revoked = FALSE BY <1>3, <1>4 DEF PlacesSound, RowsGrow
  <2>7. cookie # 0 => handed[cookie] # 0 BY <1>3 DEF PlacesSound
  <2> QED BY <1>2, <2>1, <2>2, <2>3, <2>4, <2>5, <2>6, <2>7 DEF PlacesSound
<1>13. CookieSound' BY <1>5, <1>6 DEF CookieSound
<1>14. ASSUME ~overlap PROVE InTurnSound'
  <2>0. TabsInTurn /\ RowsInTurn /\ LeftInTurn BY <1>14 DEF SessionsInv, InTurnSound
  <2>1. \A o \in Tab : o # t => tab'[o].pc = "idle" BY <1>2, <1>6, <1>14
  <2>2. TabsInTurn' BY <1>2, <1>4, <1>5, <1>6, <1>11, <2>1 DEF TabsInTurn
  <2>3. cookie # 0 => cookie \in 1..Len(row) BY <1>3, SessionFacts DEF SessionTypes
  <2>4. \A k \in 1..Len(row') : row'[k].from # 0 =>
        row'[k].from \in 1..Len(row') /\ row'[row'[k].from].revoked = TRUE
    BY <1>4, <1>7, <2>0 DEF RowsInTurn, RowsGrow
  <2>5. \A k, l \in 1..Len(row') : row'[k].from = row'[l].from /\ row'[k].from # 0 => k = l
    BY <1>4, <2>0 DEF RowsInTurn, RowsGrow
  <2>6. ASSUME cookie # 0
        PROVE  /\ row'[cookie].login \notin left
               /\ \A k \in 1..Len(row') :
                    handed[k] # 0 /\ row'[k].revoked = FALSE
                      /\ row'[k].login = row'[cookie].login => k = cookie
    BY <1>4, <1>11, <2>0, <2>3, <2>6 DEF RowsInTurn, RowsGrow
  <2>7. RowsInTurn' BY <1>2, <2>4, <2>5, <2>6 DEF RowsInTurn
  <2>8. LeftInTurn'
    <3>1. sessionClock' \in Nat /\ sessionClock' >= sessionClock BY <1>2, <1>3, SessionFacts
          DEF SessionTypes
    <3>2. \A k \in 1..Len(row') : k \in 1..Len(row) \/ handed'[k] = 0 BY <1>2, <1>4, <1>11
          DEF RowsGrow
    <3>3. \A l \in left : handed'[l] # 0 BY <1>2, <2>0 DEF LeftInTurn
    <3> QED BY <1>2, <1>3, <1>4, <2>0, <3>1, <3>2, <3>3, LeftAfter DEF RowsGrow
  <2> QED BY <2>2, <2>7, <2>8 DEF InTurnSound
<1> QED BY <1>8, <1>9, <1>10, <1>12, <1>13, <1>14 DEF SessionsInv

\* A state is taken; its login, if it opens one, waits under a ticket.
LEMMA SessionsCallback ==
    ASSUME NEW overlap \in BOOLEAN, SessionsAssumption, SessionsInv(overlap),
           NEW via \in LoginState,
           Tabs(overlap)!Callback(via), row' # row \/ ticket' # ticket
    PROVE  SessionsInv(overlap)'
<1>1. PICK n : n = Len(row) + 1 OBVIOUS
<1>2. /\ state[via] = "open" /\ state' = [state EXCEPT ![via] = "gone"] /\ Len(row) < MaxTokens
      /\ row' = Append(row, Tabs(overlap)!Issued(0, sessionClock, via))
      /\ ticket' = ticket \cup {n}
      /\ UNCHANGED <<sessionClock, active, cookie, tab, handed, left, lost, admin>>
  BY <1>1 DEF Tabs!Callback
<1>3. SessionTypes /\ RowsSound /\ StatesSound /\ PlacesSound /\ CookieSound BY DEF SessionsInv
<1>4. /\ RowsGrow(n) /\ \A k \in 1..Len(row) : row'[k] = row[k]
      /\ row'[n].from = 0 /\ row'[n].login = n /\ row'[n].via = via /\ row'[n].began = sessionClock
      /\ row'[n].revoked = FALSE /\ row'[n].expires <= sessionClock + Absolute
  BY <1>1, <1>2, <1>3, LoginRow
<1>5. /\ state' \in [LoginState -> {"new", "open", "gone"}] /\ state'[via] = "gone"
      /\ \A s \in LoginState : state[s] = "gone" => state'[s] = "gone"
  BY <1>2, <1>3 DEF SessionTypes
<1>7. \A k \in 1..Len(row) : k \in 1..Len(row') BY <1>4 DEF RowsGrow
<1>8. SessionTypes'
  <2>0. n \in 1..Len(row') /\ ticket \subseteq 1..Len(row) BY <1>3, <1>4 DEF SessionTypes, RowsGrow
  <2>2. ticket' \subseteq 1..Len(row') BY <1>2, <1>7, <2>0
  <2>3. left \subseteq 1..Len(row') BY <1>3, <1>7 DEF SessionTypes
  <2>4. cookie \in 0..Len(row') BY <1>3, <1>4 DEF SessionTypes, RowsGrow
  <2>1. cookie \in 0..Len(row') /\ ticket' \subseteq 1..Len(row')
        /\ left \subseteq 1..Len(row') BY <2>2, <2>3, <2>4
  <2> QED BY <1>2, <1>3, <1>4, <1>5, <2>1 DEF SessionTypes, RowsGrow
<1>9. RowsSound' BY <1>2, <1>3, <1>4, RowsAfter DEF RowsGrow
<1>10. StatesSound' BY <1>2, <1>3, <1>4, <1>5, StatesAfter
<1>11. handed[n] = 0 /\ n \notin left /\ n # cookie /\ \A o \in Tab : tab[o].pc = "answer" =>
       tab[o].gives # n
  <2>1. n \in 1..MaxTokens /\ n \notin 1..Len(row) /\ handed[n] \in Nat BY <1>3, <1>4, SessionFacts
        DEF RowsGrow
  <2>2. n \notin left BY <1>3, <2>1 DEF SessionTypes
  <2>3. handed[n] = 0 BY <1>3, <2>1 DEF PlacesSound
  <2>4. n # cookie BY <1>3, <2>1, <2>3, SessionFacts DEF PlacesSound
  <2>5. \A o \in Tab : tab[o].pc = "answer" => tab[o].gives # n BY <1>3, <2>1 DEF PlacesSound
  <2> QED BY <2>2, <2>3, <2>4, <2>5
<1>12. PlacesSound'
  <2>1. \A k \in 1..MaxTokens : handed[k] <= 1 /\ (handed[k] # 0 =>
        k \in 1..Len(row')) BY <1>3, <1>7 DEF PlacesSound
  <2>2. \A k \in ticket' : handed[k] = 0 /\ row'[k].from = 0
    BY <1>2, <1>3, <1>4, <1>11 DEF PlacesSound, SessionTypes
  <2>3. \A o \in Tab : tab[o].pc = "answer" =>
            tab[o].gives \in 1..Len(row') /\ handed[tab[o].gives] = 0 /\ tab[o].gives \notin ticket'
    BY <1>2, <1>3, <1>7, <1>11 DEF PlacesSound
  <2>5. \A o \in Tab : tab[o].pc \in {"rotate", "logout", "out"} =>
        tab[o].of \in 1..Len(row') /\ handed[tab[o].of] # 0
    BY <1>3, <1>7 DEF PlacesSound
  <2>6. \A k \in 1..Len(row') : handed[k] = 0 =>
        row'[k].revoked = FALSE BY <1>3, <1>4 DEF PlacesSound, RowsGrow
  <2>7. cookie # 0 => handed[cookie] # 0 BY <1>3 DEF PlacesSound
  <2>8. \A o, u \in Tab : tab[o].pc = "answer" /\ tab[u].pc = "answer"
        /\ tab[o].gives = tab[u].gives => o = u
    BY <1>3 DEF PlacesSound
  <2> QED BY <1>2, <2>1, <2>2, <2>3, <2>5, <2>6, <2>7, <2>8 DEF PlacesSound
<1>15. cookie # 0 => cookie \in 1..Len(row) BY <1>3, SessionFacts DEF SessionTypes
<1>13. CookieSound' BY <1>2, <1>3, <1>4, <1>15 DEF CookieSound
<1>14. ASSUME ~overlap PROVE InTurnSound'
  <2>0. TabsInTurn /\ RowsInTurn /\ LeftInTurn BY <1>14 DEF SessionsInv, InTurnSound
  <2>2. TabsInTurn'
    <3>1. \A o \in Tab : tab[o].pc \in {"rotate", "logout", "out"} =>
          tab[o].of \in 1..Len(row) BY <1>3 DEF PlacesSound
    <3>2. \A o \in Tab : tab[o].pc = "answer" =>
          tab[o].gives \in 1..Len(row) BY <1>3 DEF PlacesSound
    <3> QED BY <1>2, <1>4, <1>15, <2>0, <3>1, <3>2 DEF TabsInTurn
  <2>4. \A k \in 1..Len(row') : row'[k].from # 0 =>
        row'[k].from \in 1..Len(row') /\ row'[row'[k].from].revoked = TRUE
    BY <1>4, <1>7, <2>0 DEF RowsInTurn, RowsGrow
  <2>5. \A k, l \in 1..Len(row') : row'[k].from = row'[l].from /\ row'[k].from # 0 => k = l
    BY <1>4, <2>0 DEF RowsInTurn, RowsGrow
  <2>6. ASSUME cookie # 0
        PROVE  /\ row'[cookie].login \notin left
               /\ \A k \in 1..Len(row') :
                    handed[k] # 0 /\ row'[k].revoked = FALSE
                      /\ row'[k].login = row'[cookie].login => k = cookie
    BY <1>4, <1>11, <1>15, <2>0, <2>6 DEF RowsInTurn, RowsGrow
  <2>7. RowsInTurn' BY <1>2, <2>4, <2>5, <2>6 DEF RowsInTurn
  <2>8. LeftInTurn'
    <3>1. sessionClock' \in Nat /\ sessionClock' >= sessionClock BY <1>2, <1>3, SessionFacts
          DEF SessionTypes
    <3>2. \A k \in 1..Len(row') : k \in 1..Len(row) \/ handed'[k] = 0 BY <1>2, <1>4, <1>11
          DEF RowsGrow
    <3>3. \A l \in left : handed'[l] # 0 BY <1>2, <2>0 DEF LeftInTurn
    <3> QED BY <1>2, <1>3, <1>4, <2>0, <3>1, <3>2, <3>3, LeftAfter DEF RowsGrow
  <2> QED BY <2>2, <2>7, <2>8 DEF InTurnSound
<1> QED BY <1>8, <1>9, <1>10, <1>12, <1>13, <1>14 DEF SessionsInv

\* A request begins with the browser's token, or is lost.
LEMMA SessionsTab ==
    ASSUME NEW overlap \in BOOLEAN, SessionsAssumption, SessionsInv(overlap), NEW t \in Tab,
           NEW q \in TabType,
           tab' = [tab EXCEPT ![t] = q], q.pc \in {"idle", "rotate", "logout"},
           UNCHANGED <<sessionClock, row, active, cookie, state, ticket, handed, left, admin>>,
             lost' \in Nat,
           q.pc # "idle" => q.of = cookie /\ cookie # 0 /\ (~overlap =>
             \A o \in Tab : tab[o].pc = "idle"),
           q.pc = "rotate" => row[cookie].revoked = FALSE,
           lost' # 0 \/ (lost' = lost /\ tab[t].pc = "idle")
    PROVE  SessionsInv(overlap)'
<1>1. SessionTypes /\ RowsSound /\ StatesSound /\ PlacesSound /\ CookieSound BY DEF SessionsInv
<1>2. /\ tab' \in [Tab -> TabType] /\ tab'[t] = q /\ \A o \in Tab : o # t => tab'[o] = tab[o]
  BY <1>1 DEF SessionTypes
<1>3. cookie # 0 => cookie \in 1..Len(row) BY <1>1, SessionFacts DEF SessionTypes
<1>4. SessionTypes' BY <1>1, <1>2 DEF SessionTypes
<1>5. RowsSound' /\ StatesSound' BY <1>1 DEF RowsSound, StatesSound
<1>6. PlacesSound' BY <1>1, <1>2, <1>3 DEF PlacesSound
<1>7. CookieSound' BY <1>1, <1>2 DEF CookieSound
<1>8. ASSUME ~overlap PROVE InTurnSound'
  <2>1. TabsInTurn /\ RowsInTurn /\ LeftInTurn BY <1>8 DEF SessionsInv, InTurnSound
  <2>2. RowsInTurn' BY <2>1 DEF RowsInTurn
  <2>3. LeftInTurn' BY <2>1 DEF LeftInTurn, Good
  <2>4. TabsInTurn'
    <3>1. \A o, u \in Tab : tab'[o].pc # "idle" /\ tab'[u].pc # "idle" =>
          o = u BY <1>2, <1>8, <2>1 DEF TabsInTurn
    <3>2. ASSUME NEW o \in Tab
          PROVE  /\ tab'[o].pc \in {"rotate", "logout", "out"} => tab'[o].of = cookie
                 /\ tab'[o].pc = "rotate" => row[tab'[o].of].revoked = FALSE
                 /\ tab'[o].pc = "out" => row[tab'[o].of].revoked = TRUE
                 /\ tab'[o].pc = "answer" =>
                       /\ row[tab'[o].gives].login \notin left
                       /\ row[tab'[o].gives].from # 0 =>
                             /\ cookie # 0 /\ row[cookie].revoked = TRUE
                             /\ row[tab'[o].gives].login = row[cookie].login
      <4>1. CASE o = t BY <1>2, <4>1
      <4>2. CASE o # t BY <1>2, <2>1, <4>2 DEF TabsInTurn
      <4> QED BY <4>1, <4>2
    <3> QED BY <3>1, <3>2 DEF TabsInTurn
  <2> QED BY <2>2, <2>3, <2>4 DEF InTurnSound
<1> QED BY <1>4, <1>5, <1>6, <1>7, <1>8 DEF SessionsInv

\* A tab asks with the cookie it has, or a request is lost on its way.
LEMMA SessionsAsk ==
    ASSUME NEW overlap \in BOOLEAN, SessionsAssumption, SessionsInv(overlap), NEW t \in Tab,
           \/ Tabs(overlap)!Refresh(t) \/ Tabs(overlap)!Logout(t) \/ Tabs(overlap)!Lose(t)
    PROVE  SessionsInv(overlap)'
<1>1. SessionTypes BY DEF SessionsInv
<1>2. cookie # 0 =>
      cookie \in 1..Len(row) /\ row[cookie].revoked \in BOOLEAN
      /\ cookie \in {0} \cup (1..MaxTokens)
  BY <1>1, SessionFacts DEF SessionTypes
<1>3. tab \in [Tab -> TabType] /\ lost \in Nat BY <1>1 DEF SessionTypes
<1>4. CASE Tabs(overlap)!Refresh(t)
  <2>1. /\ tab[t].pc = "idle" /\ (~overlap => \A o \in Tab : tab[o].pc = "idle") /\ cookie # 0
        /\ UNCHANGED <<sessionClock, row, active, cookie, state, ticket, handed, left, lost, admin>>
        /\ tab' = [tab EXCEPT ![t] = IF Tabs(overlap)!Valid(cookie) /\ active
                                     THEN [pc |-> "rotate", of |-> cookie, gives |-> 0] ELSE tab[t]]
    BY <1>3, <1>4 DEF Tabs!Refresh, Tabs!Ready
  <2>2. CASE Tabs(overlap)!Valid(cookie) /\ active
    <3>1. PICK q : q = [pc |-> "rotate", of |-> cookie, gives |-> 0] OBVIOUS
    <3>2. q \in TabType /\ q.pc = "rotate" /\ q.of = cookie BY <1>2, <2>1, <3>1 DEF TabType
    <3>3. row[cookie].revoked = FALSE BY <1>2, <2>1, <2>2 DEF Tabs!Valid
    <3>4. tab' = [tab EXCEPT ![t] = q] BY <2>1, <2>2, <3>1
    <3> QED BY <1>3, <2>1, <3>2, <3>3, <3>4, SessionsTab
  <2>3. CASE ~(Tabs(overlap)!Valid(cookie) /\ active)
    <3>1. PICK q : q = tab[t] OBVIOUS
    <3>2. q \in TabType /\ q.pc = "idle" /\ tab' = [tab EXCEPT ![t] = q] BY <1>3, <2>1, <2>3, <3>1
    <3> QED BY <1>3, <2>1, <3>2, SessionsTab
  <2> QED BY <2>2, <2>3
<1>5. CASE Tabs(overlap)!Logout(t)
  <2>1. /\ tab[t].pc = "idle" /\ (~overlap => \A o \in Tab : tab[o].pc = "idle") /\ cookie # 0
        /\ UNCHANGED <<sessionClock, row, active, cookie, state, ticket, handed, left, lost, admin>>
        /\ tab' = [tab EXCEPT ![t] = [pc |-> "logout", of |-> cookie, gives |-> 0]]
    BY <1>5 DEF Tabs!Logout, Tabs!Ready
  <2>2. PICK q : q = [pc |-> "logout", of |-> cookie, gives |-> 0] OBVIOUS
  <2>3. q \in TabType /\ q.pc = "logout" /\ q.of = cookie BY <1>2, <2>1, <2>2 DEF TabType
  <2>4. tab' = [tab EXCEPT ![t] = q] BY <2>1, <2>2
  <2> QED BY <1>3, <2>1, <2>3, <2>4, SessionsTab
<1>6. CASE Tabs(overlap)!Lose(t)
  <2>1. /\ lost' = lost + 1 /\ tab' = [tab EXCEPT ![t] = Tabs(overlap)!IdleRequest]
        /\ UNCHANGED <<sessionClock, row, active, cookie, state, ticket, handed, left, admin>>
    BY <1>6 DEF Tabs!Lose
  <2>2. PICK q : q = Tabs(overlap)!IdleRequest OBVIOUS
  <2>3. q \in TabType /\ q.pc = "idle" /\ tab' = [tab EXCEPT ![t] = q] BY <2>1, <2>2, NoTabRequest
  <2>4. lost' \in Nat /\ lost' # 0 BY <1>3, <2>1
  <2> QED BY <2>1, <2>3, <2>4, SessionsTab
<1> QED BY <1>4, <1>5, <1>6

\* States and tickets are taken or dropped.
LEMMA SessionsForget ==
    ASSUME NEW overlap \in BOOLEAN, SessionsAssumption, SessionsInv(overlap),
           state' \in [LoginState -> {"new", "open", "gone"}], ticket' \subseteq ticket,
           \A s \in LoginState : state[s] = "gone" => state'[s] = "gone",
           UNCHANGED <<sessionClock, row, cookie, tab, handed, left, lost>>, active' \in BOOLEAN,
             admin' \in Nat
    PROVE  SessionsInv(overlap)'
<1>1. SessionTypes /\ RowsSound /\ StatesSound /\ PlacesSound /\ CookieSound BY DEF SessionsInv
<1>2. SessionTypes' BY <1>1 DEF SessionTypes
<1>3. RowsSound' BY <1>1 DEF RowsSound
<1>4. StatesSound' BY <1>1 DEF StatesSound
<1>5. PlacesSound' BY <1>1 DEF PlacesSound
<1>6. CookieSound' BY <1>1 DEF CookieSound
<1>7. ASSUME ~overlap PROVE InTurnSound'
  BY <1>7 DEF SessionsInv, InTurnSound, TabsInTurn, RowsInTurn, LeftInTurn, Good
<1> QED BY <1>2, <1>3, <1>4, <1>5, <1>6, <1>7 DEF SessionsInv

\* A ticket's token goes into an answer.
LEMMA SessionsExchange ==
    ASSUME NEW overlap \in BOOLEAN, SessionsAssumption, SessionsInv(overlap), NEW t \in Tab,
           NEW k \in ticket, Tabs(overlap)!Exchange(t, k)
    PROVE  SessionsInv(overlap)'
<1> DEFINE q == [pc |-> "answer", of |-> 0, gives |-> k]
<1>1. /\ tab[t].pc = "idle" /\ (~overlap => \A o \in Tab : tab[o].pc = "idle")
      /\ ticket' = ticket \ {k} /\ tab' = [tab EXCEPT ![t] = q]
      /\ UNCHANGED <<sessionClock, row, active, cookie, state, handed, left, lost, admin>>
  BY DEF Tabs!Exchange, Tabs!Ready, Tabs!Answers
<1>2. SessionTypes /\ RowsSound /\ StatesSound /\ PlacesSound /\ CookieSound BY DEF SessionsInv
<1>3. k \in 1..Len(row) /\ k \in 1..MaxTokens BY <1>2, SessionFacts DEF SessionTypes
<1>4. q \in TabType /\ q.pc = "answer" /\ q.gives = k BY <1>3 DEF TabType
<1> HIDE DEF q
<1>5. /\ tab' \in [Tab -> TabType] /\ tab'[t] = q /\ \A o \in Tab : o # t => tab'[o] = tab[o]
  BY <1>1, <1>2, <1>4 DEF SessionTypes
<1>6. handed[k] = 0 /\ row[k].from = 0 /\ row[k].login = k BY <1>2, <1>3 DEF PlacesSound, RowsSound
<1>7. \A o \in Tab : tab[o].pc = "answer" => tab[o].gives # k BY <1>2 DEF PlacesSound
<1>8. SessionTypes' BY <1>1, <1>2, <1>5 DEF SessionTypes
<1>9. RowsSound' /\ StatesSound' BY <1>1, <1>2 DEF RowsSound, StatesSound
<1>10. PlacesSound' BY <1>1, <1>2, <1>3, <1>4, <1>5, <1>6, <1>7 DEF PlacesSound
<1>11. CookieSound' BY <1>4, <1>5 DEF CookieSound
<1>12. ASSUME ~overlap PROVE InTurnSound'
  <2>1. TabsInTurn /\ RowsInTurn /\ LeftInTurn BY <1>12 DEF SessionsInv, InTurnSound
  <2>2. RowsInTurn' BY <1>1, <2>1 DEF RowsInTurn
  <2>3. LeftInTurn' BY <1>1, <2>1 DEF LeftInTurn, Good
  <2>4. k \notin left BY <1>6, <2>1 DEF LeftInTurn
  <2>5. TabsInTurn' BY <1>1, <1>4, <1>5, <1>6, <1>12, <2>4 DEF TabsInTurn
  <2> QED BY <2>2, <2>3, <2>5 DEF InTurnSound
<1> QED BY <1>8, <1>9, <1>10, <1>11, <1>12 DEF SessionsInv

\* The first token of a token's session was handed, if the token was.
LEMMA LoginHanded ==
    ASSUME SessionsAssumption, SessionTypes, RowsSound, NEW j \in 1..Len(row), handed[j] # 0
    PROVE  /\ row[j].login \in 1..j /\ row[j].login \in 1..Len(row)
           /\ handed[row[j].login] # 0 /\ handed[row[j].login] > 0
<1>1. row[j].login \in 1..j BY DEF RowsSound
<1>2. row[j].from # 0 => handed[row[j].login] > 0 BY DEF RowsSound
<1>3. Len(row) \in Nat /\ j \in 1..MaxTokens
      /\ \A k \in 1..MaxTokens : handed[k] \in Nat BY SessionFacts
<1>4. row[j].login \in 1..Len(row) /\ row[j].login \in 1..MaxTokens BY <1>1, <1>3, SessionFacts
<1>5. row[j].from = 0 => row[j].login = j BY DEF RowsSound
<1> QED BY <1>1, <1>2, <1>3, <1>4, <1>5

\* A rotation: the browser's token is replaced by one that nobody has yet.
LEMMA SessionsRotate ==
    ASSUME NEW overlap \in BOOLEAN, SessionsAssumption, SessionsInv(overlap), NEW t \in Tab,
           Tabs(overlap)!Rotate(t)
    PROVE  SessionsInv(overlap)'
<1>0. SessionTypes /\ RowsSound /\ StatesSound /\ PlacesSound /\ CookieSound /\ tab[t].pc = "rotate"
  BY DEF SessionsInv, Tabs!Rotate
<1>1. PICK n \in Nat, j \in 1..Len(row) : n = Len(row) + 1 /\ j = tab[t].of
  <2>1. tab[t].of \in 1..Len(row) /\ Len(row) + 1 \in Nat BY <1>0, SessionFacts DEF PlacesSound
  <2> QED BY <2>1
<1> DEFINE q == [pc |-> "answer", of |-> 0, gives |-> n]
<1>2. /\ tab[t].pc = "rotate" /\ Len(row) < MaxTokens
      /\ row' = Append(RowsWithout(j), Tabs(overlap)!Issued(j, row[j].began, row[j].via))
      /\ tab' = [tab EXCEPT ![t] = q]
      /\ UNCHANGED <<sessionClock, active, cookie, state, ticket, handed, left, lost, admin>>
  BY <1>1 DEF Tabs!Rotate, Tabs!Answers, RowsWithout
<1>3. SessionTypes /\ RowsSound /\ StatesSound /\ PlacesSound /\ CookieSound BY <1>0
<1>4. j \in 1..Len(row) /\ handed[j] # 0 /\ j # 0 BY <1>1, <1>2, <1>3, SessionFacts DEF PlacesSound
<1>5. /\ RowsGrow(n) /\ row'[j].revoked = TRUE
      /\ \A k \in 1..Len(row) : k # j => row'[k].revoked = row[k].revoked
      /\ row'[n].from = j /\ row'[n].login = row[j].login /\ row'[n].began = row[j].began
      /\ row'[n].revoked = FALSE /\ row'[n].expires <= row[j].began + Absolute
  <2>1. n = Len(row) + 1 BY <1>1
  <2>2. SessionTypes /\ Len(row) < MaxTokens BY <1>2, <1>3
  <2>3. row' = Append(RowsWithout(j), Tabs(overlap)!Issued(j, row[j].began, row[j].via)) BY <1>2
  <2>4. Rotated(n, j) BY <2>1, <2>2, <2>3, RotateRow
  <2> QED BY <2>4 DEF Rotated
<1>6. /\ q \in TabType /\ q.pc = "answer" /\ q.gives = n BY <1>5 DEF TabType, RowsGrow
<1> HIDE DEF q
<1>7. /\ tab' \in [Tab -> TabType] /\ tab'[t] = q /\ \A o \in Tab : o # t => tab'[o] = tab[o]
  BY <1>2, <1>3, <1>6 DEF SessionTypes
<1>8. \A k \in 1..Len(row) : k \in 1..Len(row') BY <1>5 DEF RowsGrow
<1>9. SessionTypes'
  <2>1. cookie \in 0..Len(row') /\ ticket \subseteq 1..Len(row') /\ left \subseteq 1..Len(row')
    BY <1>3, <1>5, <1>8 DEF SessionTypes, RowsGrow
  <2> QED BY <1>2, <1>3, <1>5, <1>7, <2>1 DEF SessionTypes, RowsGrow
<1>10. /\ row[j].login \in 1..j /\ row[j].login \in 1..Len(row) /\ handed[row[j].login] > 0
  BY <1>3, <1>4, LoginHanded
<1>11. RowsSound'
  <2>1. row'[n].login \in 1..n BY <1>4, <1>5, <1>10 DEF RowsGrow
  <2>2. row[j].began = row[row[j].login].began BY <1>3, <1>4 DEF RowsSound
  <2>3. row'[n].began = row'[row'[n].login].began BY <1>5, <1>10, <2>2 DEF RowsGrow
  <2>4. row'[n].expires <= row'[n].began + Absolute BY <1>5
  <2> QED BY <1>2, <1>3, <1>4, <1>5, <1>10, <2>1, <2>3, <2>4, RowsAfter
<1>12. StatesSound' BY <1>2, <1>3, <1>4, <1>5, StatesAfter
<1>13. handed[n] = 0 /\ n \notin ticket /\ n # cookie /\ n \notin 1..Len(row)
  <2>1. n \in 1..MaxTokens /\ n \notin 1..Len(row) /\ handed[n] \in Nat BY <1>3, <1>5, SessionFacts
        DEF RowsGrow
  <2>2. n \notin ticket BY <1>3, <2>1 DEF SessionTypes
  <2>3. handed[n] = 0 BY <1>3, <2>1 DEF PlacesSound
  <2>4. n # cookie BY <1>3, <2>1, <2>3, SessionFacts DEF PlacesSound
  <2> QED BY <2>1, <2>2, <2>3, <2>4
<1>14. PlacesSound'
  <2>1. \A k \in 1..MaxTokens : handed[k] <= 1 /\ (handed[k] # 0 =>
        k \in 1..Len(row')) BY <1>3, <1>8 DEF PlacesSound
  <2>2. ASSUME NEW k \in ticket PROVE handed[k] = 0 /\ row'[k].from = 0
    <3>1. k \in 1..Len(row) /\ handed[k] = 0 /\ row[k].from = 0 BY <1>3
          DEF PlacesSound, SessionTypes
    <3> QED BY <1>5, <3>1 DEF RowsGrow
  <2>3. \A o \in Tab : tab'[o].pc = "answer" =>
            tab'[o].gives \in 1..Len(row') /\ handed[tab'[o].gives] = 0
              /\ tab'[o].gives \notin ticket
    BY <1>3, <1>5, <1>6, <1>7, <1>8, <1>13 DEF PlacesSound, RowsGrow
  <2>4. \A o, u \in Tab : tab'[o].pc = "answer" /\ tab'[u].pc = "answer"
        /\ tab'[o].gives = tab'[u].gives => o = u
    BY <1>3, <1>6, <1>7, <1>13 DEF PlacesSound
  <2>5. \A o \in Tab : tab'[o].pc \in {"rotate", "logout", "out"} =>
        tab'[o].of \in 1..Len(row') /\ handed[tab'[o].of] # 0
    BY <1>3, <1>6, <1>7, <1>8 DEF PlacesSound
  <2>6. ASSUME NEW k \in 1..Len(row'), handed[k] = 0 PROVE row'[k].revoked = FALSE
    <3>1. CASE k = n BY <1>5, <3>1
    <3>2. CASE k \in 1..Len(row) BY <1>3, <1>4, <1>5, <2>6, <3>2 DEF PlacesSound
    <3> QED BY <1>5, <2>6, <3>1, <3>2 DEF RowsGrow
  <2>7. cookie # 0 => handed[cookie] # 0 BY <1>3 DEF PlacesSound
  <2> QED BY <1>2, <2>1, <2>2, <2>3, <2>4, <2>5, <2>6, <2>7 DEF PlacesSound
<1>15. CookieSound' BY <1>6, <1>7 DEF CookieSound
<1>16. ASSUME ~overlap PROVE InTurnSound'
  <2>0. TabsInTurn /\ RowsInTurn /\ LeftInTurn BY <1>16 DEF SessionsInv, InTurnSound
  <2>1. /\ \A o \in Tab : o # t => tab'[o].pc = "idle" BY <1>2, <1>7, <2>0 DEF TabsInTurn
  <2>2. cookie = j /\ row[j].revoked = FALSE BY <1>1, <1>2, <2>0 DEF TabsInTurn
  <2>3. row[cookie].login \notin left BY <1>4, <2>0, <2>2 DEF RowsInTurn
  <2>4. row'[j].login = row[j].login BY <1>4, <1>5 DEF RowsGrow
  <2>5. TabsInTurn'
    <3>1. \A o, u \in Tab : tab'[o].pc # "idle" /\ tab'[u].pc # "idle" => o = u BY <2>1
    <3>2. /\ tab'[t].pc = "answer" /\ row'[tab'[t].gives].login \notin left' /\ cookie' # 0
          /\ row'[cookie'].revoked = TRUE
          /\ row'[tab'[t].gives].login = row'[cookie'].login
      BY <1>2, <1>4, <1>5, <1>6, <1>7, <2>2, <2>3, <2>4
    <3>3. \A o \in Tab : tab'[o].pc # "idle" => o = t BY <2>1
    <3> QED BY <3>1, <3>2, <3>3 DEF TabsInTurn
  <2>6. ASSUME NEW k \in 1..Len(row'), row'[k].from # 0
        PROVE  row'[k].from \in 1..Len(row') /\ row'[row'[k].from].revoked = TRUE
    <3>1. CASE k = n BY <1>4, <1>5, <1>8, <3>1
    <3>2. CASE k \in 1..Len(row)
      <4>1. row'[k].from = row[k].from /\ row[k].from # 0 BY <1>5, <2>6, <3>2 DEF RowsGrow
      <4>2. row[k].from \in 1..Len(row) /\ row[row[k].from].revoked = TRUE BY <2>0, <3>2, <4>1
            DEF RowsInTurn
      <4> QED BY <1>5, <1>8, <4>1, <4>2
    <3> QED BY <1>5, <2>6, <3>1, <3>2 DEF RowsGrow
  <2>7. ASSUME NEW k \in 1..Len(row'), NEW l \in 1..Len(row'), row'[k].from = row'[l].from,
               row'[k].from # 0
        PROVE  k = l
    <3>1. \A i \in 1..Len(row) : row'[i].from = row[i].from /\ row[i].from # j
      BY <1>4, <1>5, <2>0, <2>2 DEF RowsGrow, RowsInTurn
    <3> QED BY <1>5, <2>0, <2>7, <3>1 DEF RowsGrow, RowsInTurn
  <2>8. ASSUME NEW k \in 1..Len(row'), handed[k] # 0, row'[k].revoked = FALSE,
               row'[k].login = row'[cookie].login
        PROVE  k = cookie
    <3>1. k \in 1..Len(row) BY <1>5, <1>13, <2>8 DEF RowsGrow
    <3>2. row[k].login = row[cookie].login /\ row[k].revoked = FALSE BY <1>5, <2>2, <2>4, <2>8, <3>1
          DEF RowsGrow
    <3> QED BY <1>4, <2>0, <2>2, <2>8, <3>1, <3>2 DEF RowsInTurn
  <2>9. row'[cookie].login \notin left BY <2>2, <2>3, <2>4
  <2>10. RowsInTurn' BY <1>2, <2>6, <2>7, <2>8, <2>9 DEF RowsInTurn
  <2>11. LeftInTurn'
    <3>1. sessionClock' \in Nat /\ sessionClock' >= sessionClock BY <1>2, <1>3, SessionFacts
          DEF SessionTypes
    <3>2. \A k \in 1..Len(row') : k \in 1..Len(row) \/ handed'[k] = 0 BY <1>2, <1>5, <1>13
          DEF RowsGrow
    <3>3. \A l \in left : handed'[l] # 0 BY <1>2, <2>0 DEF LeftInTurn
    <3> QED BY <1>2, <1>3, <1>5, <2>0, <3>1, <3>2, <3>3, LeftAfter DEF RowsGrow
  <2> QED BY <2>5, <2>10, <2>11 DEF InTurnSound
<1> QED BY <1>9, <1>11, <1>12, <1>14, <1>15, <1>16 DEF SessionsInv

\* A logout has revoked the browser's token.
LEMMA SessionsRevoke ==
    ASSUME NEW overlap \in BOOLEAN, SessionsAssumption, SessionsInv(overlap), NEW t \in Tab,
           Tabs(overlap)!Revoke(t)
    PROVE  SessionsInv(overlap)'
<1>1. PICK j : j = tab[t].of OBVIOUS
<1> DEFINE q == [tab[t] EXCEPT !.pc = "out"]
<1>2. /\ tab[t].pc = "logout" /\ row' = [row EXCEPT ![j].revoked = TRUE]
      /\ tab' = [tab EXCEPT ![t].pc = "out"]
      /\ UNCHANGED <<sessionClock, active, cookie, state, ticket, handed, left, lost, admin>>
  BY <1>1 DEF Tabs!Revoke
<1>3. SessionTypes /\ RowsSound /\ StatesSound /\ PlacesSound /\ CookieSound BY DEF SessionsInv
<1>4. j \in 1..Len(row) /\ handed[j] # 0 /\ j # 0 BY <1>1, <1>2, <1>3, SessionFacts DEF PlacesSound
<1>5. /\ \A k \in 1..Len(row) : row[k] \in RowType /\ row[k].revoked \in BOOLEAN
      /\ tab \in [Tab -> TabType] /\ tab[t] \in TabType
  BY <1>3, SessionFacts DEF SessionTypes
<1>6. /\ row' \in Seq(RowType) /\ Len(row') = Len(row)
      /\ \A k \in 1..Len(row) : row'[k] = [row[k] EXCEPT !.revoked = IF k =
           j THEN TRUE ELSE row[k].revoked]
  BY <1>2, <1>3, <1>4, RowRevoked
<1>7. ASSUME NEW k \in 1..Len(row)
      PROVE  /\ row'[k].from = row[k].from /\ row'[k].login = row[k].login
             /\ row'[k].via = row[k].via
             /\ row'[k].began = row[k].began /\ row'[k].expires = row[k].expires
             /\ row'[k].revoked = IF k = j THEN TRUE ELSE row[k].revoked
  <2>1. row'[k] = [row[k] EXCEPT !.revoked = IF k = j THEN TRUE ELSE row[k].revoked] BY <1>6, <1>7
  <2>2. row[k] \in RowType /\ (IF k = j THEN TRUE ELSE row[k].revoked) \in BOOLEAN BY <1>5, <1>7
  <2> QED BY <2>1, <2>2 DEF RowType
<1>8. q \in TabType /\ q.pc = "out" /\ q.of = j /\ tab' = [tab EXCEPT ![t] = q]
  BY <1>1, <1>2, <1>5 DEF TabType
<1> HIDE DEF q
<1>9. /\ tab' \in [Tab -> TabType] /\ tab'[t] = q /\ \A o \in Tab : o # t =>
         tab'[o] = tab[o] BY <1>5, <1>8
<1>10. SessionTypes' BY <1>2, <1>3, <1>6, <1>9 DEF SessionTypes
<1>11. RowsSound'
  <2>1. \A k \in 1..Len(row) : row[k].login \in 1..Len(row)
    <3>1. ASSUME NEW k \in 1..Len(row) PROVE row[k].login \in 1..Len(row)
      <4>1. row[k].login \in 1..k /\ Len(row) \in Nat BY <1>3, SessionFacts DEF RowsSound
      <4> QED BY <4>1
    <3> QED BY <3>1
  <2>2. SUFFICES ASSUME NEW k \in 1..Len(row)
                 PROVE  /\ row'[k].login \in 1..k
                        /\ row'[k].from = 0 => row'[k].login = k
                        /\ row'[k].from # 0 => handed[row'[k].login] > 0
                        /\ row'[k].began = row'[row'[k].login].began
                        /\ row'[k].expires <= row'[k].began + Absolute
    BY <1>2, <1>6 DEF RowsSound
  <2>3. /\ row[k].login \in 1..k
        /\ row[k].from = 0 => row[k].login = k
        /\ row[k].from # 0 => handed[row[k].login] > 0
        /\ row[k].began = row[row[k].login].began
        /\ row[k].expires <= row[k].began + Absolute
    BY <1>3 DEF RowsSound
  <2>4. row[k].login \in 1..Len(row) BY <2>1
  <2>5. row'[row[k].login].began = row[row[k].login].began BY <1>7, <2>4
  <2>6. row'[k].login = row[k].login /\ row'[k].from = row[k].from BY <1>7
  <2>7. row'[k].began = row[k].began /\ row'[k].expires = row[k].expires BY <1>7
  <2> QED BY <2>3, <2>5, <2>6, <2>7
<1>12. StatesSound' BY <1>2, <1>3, <1>6, <1>7 DEF StatesSound
<1>13. PlacesSound'
  <2>1. \A k \in ticket : handed[k] = 0 /\ row'[k].from = 0 BY <1>3, <1>7
        DEF PlacesSound, SessionTypes
  <2>2. \A k \in 1..Len(row) : handed[k] = 0 =>
        row'[k].revoked = FALSE BY <1>3, <1>4, <1>7 DEF PlacesSound
  <2> QED BY <1>2, <1>3, <1>4, <1>6, <1>8, <1>9, <2>1, <2>2 DEF PlacesSound
<1>14. CookieSound' BY <1>8, <1>9 DEF CookieSound
<1>15. ASSUME ~overlap PROVE InTurnSound'
  <2>0. TabsInTurn /\ RowsInTurn /\ LeftInTurn BY <1>15 DEF SessionsInv, InTurnSound
  <2>1. /\ \A o \in Tab : o # t => tab'[o].pc = "idle" BY <1>2, <1>9, <2>0 DEF TabsInTurn
  <2>2. cookie = j BY <1>1, <1>2, <2>0 DEF TabsInTurn
  <2>3. row[cookie].login \notin left BY <1>4, <2>0, <2>2 DEF RowsInTurn
  <2>4. row'[j].revoked = TRUE /\ row'[j].login = row[j].login BY <1>4, <1>7
  <2>5. TabsInTurn' BY <1>2, <1>4, <1>8, <1>9, <2>1, <2>2, <2>4 DEF TabsInTurn
  <2>6. \A k \in 1..Len(row) : row[k].revoked = TRUE => row'[k].revoked = TRUE BY <1>7
  <2>7. \A k \in 1..Len(row) : row'[k].revoked = FALSE => row[k].revoked = FALSE BY <1>5, <1>7
  <2>8. ASSUME NEW k \in 1..Len(row), row'[k].from # 0
        PROVE  row'[k].from \in 1..Len(row) /\ row'[row'[k].from].revoked = TRUE
    <3>1. row[k].from \in 1..Len(row) /\ row[row[k].from].revoked = TRUE BY <1>7, <2>0, <2>8
          DEF RowsInTurn
    <3> QED BY <1>7, <2>6, <2>8, <3>1
  <2>9. \A k, l \in 1..Len(row) : row'[k].from = row'[l].from /\ row'[k].from # 0 => k = l
    BY <1>7, <2>0 DEF RowsInTurn
  <2>10. row'[cookie].login \notin left /\ \A k \in 1..Len(row) :
             handed[k] # 0 /\ row'[k].revoked = FALSE /\ row'[k].login = row'[cookie].login =>
               k = cookie
    BY <1>4, <1>7, <2>0, <2>2, <2>3, <2>4, <2>7 DEF RowsInTurn
  <2>11. RowsInTurn'
    <3>1. \A k \in 1..Len(row') : row'[k].from # 0 =>
          row'[k].from \in 1..Len(row') /\ row'[row'[k].from].revoked = TRUE
      BY <1>6, <2>8
    <3>2. \A k, l \in 1..Len(row') : row'[k].from = row'[l].from /\ row'[k].from # 0 =>
          k = l BY <1>6, <2>9
    <3>3. row'[cookie'].login \notin left' /\ \A k \in 1..Len(row') :
             handed'[k] # 0 /\ row'[k].revoked = FALSE /\ row'[k].login = row'[cookie'].login =>
               k = cookie'
      BY <1>2, <1>6, <2>10
    <3> QED BY <3>1, <3>2, <3>3 DEF RowsInTurn
  <2>12. LeftInTurn'
    <3>1. sessionClock' \in Nat /\ sessionClock' >= sessionClock BY <1>2, <1>3, SessionFacts
          DEF SessionTypes
    <3>2. \A l \in left : handed'[l] # 0 BY <1>2, <2>0 DEF LeftInTurn
    <3> QED BY <1>2, <1>3, <1>6, <1>7, <2>0, <2>7, <3>1, <3>2, LeftAfter
  <2> QED BY <2>5, <2>11, <2>12 DEF InTurnSound
<1> QED BY <1>10, <1>11, <1>12, <1>13, <1>14, <1>15 DEF SessionsInv

\* An answer gives the browser its token.
LEMMA SessionsGiven ==
    ASSUME NEW overlap \in BOOLEAN, SessionsAssumption, SessionsInv(overlap), NEW t \in Tab,
           Tabs(overlap)!Arrive(t), tab[t].pc = "answer"
    PROVE  SessionsInv(overlap)'
<1>1. SessionTypes /\ RowsSound /\ StatesSound /\ PlacesSound /\ CookieSound BY DEF SessionsInv
<1>2. PICK g \in 1..Len(row) : g = tab[t].gives BY <1>1 DEF PlacesSound
<1>3. PICK q : q = Tabs(overlap)!IdleRequest OBVIOUS
<1>4. /\ cookie' = g /\ handed' = [handed EXCEPT ![g] = @ + 1] /\ tab' = [tab EXCEPT ![t] = q]
      /\ UNCHANGED <<sessionClock, row, active, state, ticket, left, lost, admin>>
  BY <1>2, <1>3 DEF Tabs!Arrive
<1>5. q \in TabType /\ q.pc = "idle" BY <1>3, NoTabRequest
<1>6. /\ tab' \in [Tab -> TabType] /\ tab'[t] = q /\ \A o \in Tab : o # t => tab'[o] = tab[o]
  BY <1>1, <1>4, <1>5 DEF SessionTypes
<1>7. /\ Len(row) \in Nat /\ g \in 1..MaxTokens /\ g # 0 /\ g \in 0..Len(row)
      /\ handed \in [1..MaxTokens -> Nat]
  BY <1>1, <1>2, SessionFacts DEF SessionTypes
<1>8. handed[g] = 0 /\ g \notin ticket /\ row[g].revoked = FALSE
  <2>1. handed[g] = 0 /\ g \notin ticket BY <1>1, <1>2 DEF PlacesSound
  <2> QED BY <1>1, <1>2, <2>1 DEF PlacesSound
<1>9. /\ handed' \in [1..MaxTokens -> Nat] /\ handed'[g] = 1
      /\ \A k \in 1..MaxTokens : k # g => handed'[k] = handed[k]
      /\ \A k \in 1..MaxTokens : handed[k] # 0 => handed'[k] # 0
  BY <1>4, <1>7, <1>8
<1>10. \A k \in 1..Len(row) : k \in 1..MaxTokens BY <1>1, SessionFacts
<1>11. SessionTypes' BY <1>1, <1>4, <1>6, <1>7, <1>9 DEF SessionTypes
<1>12. RowsSound'
  <2>1. \A k \in 1..Len(row) : row[k].login \in 1..MaxTokens BY <1>1, SessionFacts
  <2>2. \A k \in 1..MaxTokens : handed[k] > 0 => handed'[k] > 0 BY <1>7, <1>9
  <2> QED BY <1>1, <1>4, <2>1, <2>2 DEF RowsSound
<1>13. StatesSound' BY <1>1, <1>4 DEF StatesSound
<1>14. PlacesSound'
  <2>1. \A k \in 1..MaxTokens : handed'[k] <= 1 /\ (handed'[k] # 0 =>
        k \in 1..Len(row)) BY <1>1, <1>2, <1>9 DEF PlacesSound
  <2>2. \A k \in ticket : handed'[k] = 0 /\ row[k].from = 0 BY <1>1, <1>8, <1>9, <1>10
        DEF PlacesSound, SessionTypes
  <2>3. \A o \in Tab : tab'[o].pc = "answer" => o # t /\ tab'[o] = tab[o] BY <1>5, <1>6
  <2>4. ASSUME NEW o \in Tab, tab'[o].pc = "answer"
        PROVE  tab'[o].gives \in 1..Len(row) /\ handed'[tab'[o].gives] = 0
               /\ tab'[o].gives \notin ticket
    <3>1. o # t /\ tab[o].pc = "answer" /\ tab'[o] = tab[o] BY <2>3, <2>4
    <3>2. tab[o].gives # g BY <1>1, <1>2, <3>1 DEF PlacesSound, Tabs!Arrive
    <3>3. tab[o].gives \in 1..Len(row) /\ handed[tab[o].gives] = 0
          /\ tab[o].gives \notin ticket BY <1>1, <3>1 DEF PlacesSound
    <3> QED BY <1>9, <1>10, <3>1, <3>2, <3>3
  <2>5. \A o, u \in Tab : tab'[o].pc = "answer" /\ tab'[u].pc = "answer"
        /\ tab'[o].gives = tab'[u].gives => o = u
    BY <1>1, <2>3 DEF PlacesSound
  <2>6. ASSUME NEW o \in Tab, tab'[o].pc \in {"rotate", "logout", "out"}
        PROVE  tab'[o].of \in 1..Len(row) /\ handed'[tab'[o].of] # 0
    <3>1. tab'[o] = tab[o] BY <1>5, <1>6, <2>6
    <3>2. tab[o].of \in 1..Len(row) /\ handed[tab[o].of] # 0 BY <1>1, <2>6, <3>1 DEF PlacesSound
    <3> QED BY <1>9, <1>10, <3>1, <3>2
  <2>7. \A k \in 1..Len(row) : handed'[k] = 0 =>
        row[k].revoked = FALSE BY <1>1, <1>9, <1>10 DEF PlacesSound
  <2>8. handed'[cookie'] # 0 BY <1>4, <1>9
  <2> QED BY <1>4, <2>1, <2>2, <2>4, <2>5, <2>6, <2>7, <2>8 DEF PlacesSound
<1>15. CookieSound' BY <1>4, <1>8 DEF CookieSound
<1>16. ASSUME ~overlap PROVE InTurnSound'
  <2>1. TabsInTurn /\ RowsInTurn /\ LeftInTurn BY <1>16 DEF SessionsInv, InTurnSound
  <2>2. \A o \in Tab : tab'[o].pc = "idle" BY <1>5, <1>6, <2>1 DEF TabsInTurn
  <2>3. TabsInTurn' BY <2>2 DEF TabsInTurn
  <2>4. /\ row[g].login \notin left
        /\ row[g].from # 0 =>
             cookie # 0 /\ row[cookie].revoked = TRUE /\ row[g].login = row[cookie].login
    BY <1>2, <2>1 DEF TabsInTurn
  <2>5. ASSUME NEW k \in 1..Len(row), handed'[k] # 0, row[k].revoked = FALSE,
               row[k].login = row[g].login PROVE k = g
    <3>1. SUFFICES ASSUME k # g PROVE FALSE OBVIOUS
    <3>2. handed[k] # 0 BY <1>9, <1>10, <2>5, <3>1
    <3>3. row[g].from # 0
      <4>1. SUFFICES ASSUME row[g].from = 0 PROVE FALSE OBVIOUS
      <4>2. row[g].login = g BY <1>1, <4>1 DEF RowsSound
      <4>3. handed[g] # 0 BY <1>1, <2>5, <3>2, <4>2, LoginHanded
      <4> QED BY <1>8, <4>3
    <3>4. cookie # 0 /\ row[cookie].revoked = TRUE
          /\ row[k].login = row[cookie].login BY <2>4, <2>5, <3>3
    <3>5. k = cookie BY <2>1, <2>5, <3>2, <3>4 DEF RowsInTurn
    <3> QED BY <2>5, <3>4, <3>5
  <2>6. RowsInTurn' BY <1>4, <2>1, <2>4, <2>5 DEF RowsInTurn
  <2>7. LeftInTurn'
    <3>1. sessionClock' \in Nat /\ sessionClock' >= sessionClock BY <1>1, <1>4, SessionFacts
          DEF SessionTypes
    <3>2. \A l \in left : handed'[l] # 0 BY <1>1, <1>9, <1>10, <2>1 DEF LeftInTurn, SessionTypes
    <3>3. \A k \in 1..Len(row) : row[k].login \in left /\ handed'[k] # 0 =>
          handed[k] # 0 BY <1>9, <1>10, <2>4
    <3> QED BY <1>1, <1>4, <2>1, <3>1, <3>2, <3>3, LeftAfter
  <2> QED BY <2>3, <2>6, <2>7 DEF InTurnSound
<1> QED BY <1>11, <1>12, <1>13, <1>14, <1>15, <1>16 DEF SessionsInv

\* A logout is answered: its session was left.
LEMMA SessionsLeft ==
    ASSUME NEW overlap \in BOOLEAN, SessionsAssumption, SessionsInv(overlap), NEW t \in Tab,
           Tabs(overlap)!Arrive(t), tab[t].pc # "answer"
    PROVE  SessionsInv(overlap)'
<1>1. SessionTypes /\ RowsSound /\ StatesSound /\ PlacesSound /\ CookieSound BY DEF SessionsInv
<1>2. tab[t].pc = "out" BY DEF Tabs!Arrive
<1>3. PICK j \in 1..Len(row) : j = tab[t].of BY <1>1, <1>2 DEF PlacesSound
<1>4. PICK q : q = Tabs(overlap)!IdleRequest OBVIOUS
<1>5. /\ cookie' = 0 /\ left' = left \cup {row[j].login} /\ tab' = [tab EXCEPT ![t] = q]
      /\ UNCHANGED <<sessionClock, row, active, state, ticket, handed, lost, admin>>
  BY <1>3, <1>4 DEF Tabs!Arrive
<1>6. q \in TabType /\ q.pc = "idle" BY <1>4, NoTabRequest
<1>7. /\ tab' \in [Tab -> TabType] /\ tab'[t] = q /\ \A o \in Tab : o # t => tab'[o] = tab[o]
  BY <1>1, <1>5, <1>6 DEF SessionTypes
<1>8. handed[j] # 0 BY <1>1, <1>2, <1>3 DEF PlacesSound
<1>9. row[j].login \in 1..Len(row) /\ handed[row[j].login] # 0 BY <1>1, <1>8, LoginHanded
<1>10. SessionTypes'
  <2>1. left' \subseteq 1..Len(row) BY <1>1, <1>5, <1>9 DEF SessionTypes
  <2>2. cookie' \in 0..Len(row) BY <1>1, <1>5, SessionFacts
  <2> QED BY <1>1, <1>5, <1>7, <2>1, <2>2 DEF SessionTypes
<1>11. RowsSound' /\ StatesSound' BY <1>1, <1>5 DEF RowsSound, StatesSound
<1>12. PlacesSound' BY <1>1, <1>5, <1>6, <1>7 DEF PlacesSound
<1>13. CookieSound' BY <1>5 DEF CookieSound
<1>14. ASSUME ~overlap PROVE InTurnSound'
  <2>1. TabsInTurn /\ RowsInTurn /\ LeftInTurn BY <1>14 DEF SessionsInv, InTurnSound
  <2>2. \A o \in Tab : tab'[o].pc = "idle" BY <1>2, <1>6, <1>7, <2>1 DEF TabsInTurn
  <2>3. TabsInTurn' BY <2>2 DEF TabsInTurn
  <2>4. RowsInTurn' BY <1>5, <2>1 DEF RowsInTurn
  <2>5. cookie = j /\ row[j].revoked = TRUE /\ cookie # 0
    <3>1. j # 0 BY <1>1, <1>3, SessionFacts
    <3> QED BY <1>2, <1>3, <2>1, <3>1 DEF TabsInTurn
  <2>6. ASSUME NEW l \in left', NEW k \in 1..Len(row), row[k].login = l, handed[k] # 0
        PROVE  ~Good(k)
    <3>1. CASE l \in left BY <2>1, <2>6, <3>1 DEF LeftInTurn
    <3>2. CASE l = row[j].login
      <4>1. row[k].revoked = FALSE => k = j BY <2>1, <2>5, <2>6, <3>2 DEF RowsInTurn
      <4> QED BY <2>5, <4>1 DEF Good
    <3> QED BY <1>5, <2>6, <3>1, <3>2
  <2>7. \A l \in left' : handed[l] # 0 BY <1>5, <1>9, <2>1 DEF LeftInTurn
  <2>8. \A k \in 1..Len(row) : Good(k)' <=> Good(k) BY <1>5 DEF Good
  <2>9. LeftInTurn' BY <1>5, <2>6, <2>7, <2>8 DEF LeftInTurn
  <2> QED BY <2>3, <2>4, <2>9 DEF InTurnSound
<1> QED BY <1>10, <1>11, <1>12, <1>13, <1>14 DEF SessionsInv

\* Time passes: what is good may end.
LEMMA SessionsTick ==
    ASSUME NEW overlap \in BOOLEAN, SessionsAssumption, SessionsInv(overlap), Tabs(overlap)!Tick
    PROVE  SessionsInv(overlap)'
<1>1. SessionTypes /\ RowsSound /\ StatesSound /\ PlacesSound /\ CookieSound BY DEF SessionsInv
<1>2. /\ sessionClock < MaxTime /\ sessionClock' = sessionClock + 1
      /\ UNCHANGED <<row, active, cookie, tab, state, ticket, handed, left, lost, admin>>
  BY DEF Tabs!Tick
<1>3. sessionClock' \in 0..MaxTime /\ sessionClock' \in Nat /\ sessionClock' >= sessionClock
  BY <1>1, <1>2, SessionFacts DEF SessionTypes
<1>4. SessionTypes' BY <1>1, <1>2, <1>3 DEF SessionTypes
<1>5. RowsSound' /\ StatesSound' /\ CookieSound' BY <1>1, <1>2
      DEF RowsSound, StatesSound, CookieSound
<1>6. PlacesSound' BY <1>1, <1>2 DEF PlacesSound
<1>7. ASSUME ~overlap PROVE InTurnSound'
  <2>1. TabsInTurn /\ RowsInTurn /\ LeftInTurn BY <1>7 DEF SessionsInv, InTurnSound
  <2>2. TabsInTurn' /\ RowsInTurn' BY <1>2, <2>1 DEF TabsInTurn, RowsInTurn
  <2>3. \A l \in left : handed[l] # 0 BY <2>1 DEF LeftInTurn
  <2>4. LeftInTurn' BY <1>1, <1>2, <1>3, <2>1, <2>3, LeftAfter
  <2> QED BY <2>2, <2>4 DEF InTurnSound
<1> QED BY <1>4, <1>5, <1>6, <1>7 DEF SessionsInv

\* A step in which nothing of the sessions moves.
LEMMA SessionsStutter ==
    ASSUME NEW overlap \in BOOLEAN, SessionsInv(overlap), UNCHANGED sessionVars
    PROVE  SessionsInv(overlap)'
<1>1. SessionTypes' BY DEF SessionsInv, SessionTypes, sessionVars
<1>2. RowsSound' /\ StatesSound' /\ CookieSound' BY
      DEF SessionsInv, RowsSound, StatesSound, CookieSound, sessionVars
<1>3. PlacesSound' BY DEF SessionsInv, PlacesSound, sessionVars
<1>4. ~overlap => InTurnSound'
  BY DEF SessionsInv, InTurnSound, TabsInTurn, RowsInTurn, LeftInTurn, Good, sessionVars
<1> QED BY <1>1, <1>2, <1>3, <1>4 DEF SessionsInv

\* Every step keeps the invariant.
LEMMA SessionsStep ==
    ASSUME NEW overlap \in BOOLEAN, SessionsAssumption, SessionsInv(overlap), Tabs(overlap)!Next
    PROVE  SessionsInv(overlap)'
<1>1. /\ state \in [LoginState -> {"new", "open", "gone"}] /\ active \in BOOLEAN /\ admin \in Nat
  BY DEF SessionsInv, SessionTypes
<1>2. ASSUME NEW t \in Tab, Tabs(overlap)!Login(t)
      PROVE  SessionsInv(overlap)' BY <1>2, SessionsLogin
<1>3. ASSUME NEW t \in Tab, Tabs(overlap)!Refresh(t) \/ Tabs(overlap)!Logout(t)
             \/ Tabs(overlap)!Lose(t)
      PROVE  SessionsInv(overlap)'
  BY <1>3, SessionsAsk
<1>4. ASSUME NEW t \in Tab, Tabs(overlap)!Rotate(t)
      PROVE  SessionsInv(overlap)' BY <1>4, SessionsRotate
<1>5. ASSUME NEW t \in Tab, Tabs(overlap)!Revoke(t)
      PROVE  SessionsInv(overlap)' BY <1>5, SessionsRevoke
<1>6. ASSUME NEW t \in Tab, Tabs(overlap)!Arrive(t) PROVE SessionsInv(overlap)'
  BY <1>6, SessionsGiven, SessionsLeft
<1>7. ASSUME NEW t \in Tab, NEW k \in ticket, Tabs(overlap)!Exchange(t, k)
      PROVE  SessionsInv(overlap)'
  BY <1>7, SessionsExchange
<1>8. ASSUME NEW via \in LoginState, Tabs(overlap)!Authorize(via) PROVE SessionsInv(overlap)'
  <2>1. /\ state[via] = "new" /\ state' = [state EXCEPT ![via] = "open"]
        /\ UNCHANGED <<sessionClock, row, active, cookie, tab, ticket, handed, left, lost, admin>>
    BY <1>8 DEF Tabs!Authorize
  <2>2. state' \in [LoginState -> {"new", "open", "gone"}]
        /\ \A o \in LoginState : state[o] = "gone" => state'[o] = "gone"
    BY <1>1, <2>1
  <2> QED BY <1>1, <2>1, <2>2, SessionsForget
<1>9. ASSUME NEW via \in LoginState, Tabs(overlap)!Callback(via) PROVE SessionsInv(overlap)'
  <2>1. CASE row' # row \/ ticket' # ticket BY <1>9, <2>1, SessionsCallback
  <2>2. CASE row' = row /\ ticket' = ticket
    <3>1. /\ state' = [state EXCEPT ![via] = "gone"]
          /\ UNCHANGED <<sessionClock, active, cookie, tab, handed, left, lost, admin>>
      BY <1>9 DEF Tabs!Callback
    <3>2. state' \in [LoginState -> {"new", "open", "gone"}]
          /\ \A o \in LoginState : state[o] = "gone" => state'[o] = "gone"
      BY <1>1, <3>1
    <3> QED BY <1>1, <2>2, <3>1, <3>2, SessionsForget
  <2> QED BY <2>1, <2>2
<1>10. ASSUME NEW b \in BOOLEAN, Tabs(overlap)!SetActive(b) PROVE SessionsInv(overlap)'
  <2>1. /\ active' = b /\ admin' = admin + 1
        /\ UNCHANGED <<sessionClock, row, cookie, tab, state, ticket, handed, left, lost>>
    BY <1>10 DEF Tabs!SetActive
  <2> QED BY <1>1, <2>1, SessionsForget
<1>11. CASE Tabs(overlap)!Tick BY <1>11, SessionsTick
<1>12. CASE Tabs(overlap)!Expire
  <2>1. UNCHANGED <<sessionClock, row, active, cookie, tab, handed, left, lost, admin>> BY <1>12
        DEF Tabs!Expire
  <2>2. /\ state' \in [LoginState -> {"new", "open", "gone"}] /\ ticket' \subseteq ticket
        /\ \A o \in LoginState : state[o] = "gone" => state'[o] = "gone"
    <3>1. CASE \E o \in LoginState : state' = [state EXCEPT ![o] = "gone"]
               /\ UNCHANGED ticket BY <1>1, <3>1
    <3>2. CASE \E k \in ticket : ticket' = ticket \ {k} /\ UNCHANGED state BY <1>1, <3>2
    <3> QED BY <1>12, <3>1, <3>2 DEF Tabs!Expire
  <2> QED BY <1>1, <2>1, <2>2, SessionsForget
<1> QED BY <1>2, <1>3, <1>4, <1>5, <1>6, <1>7, <1>8, <1>9, <1>10, <1>11, <1>12 DEF Tabs!Next

\* What the invariant is for.
LEMMA SessionsFollows ==
    ASSUME NEW overlap \in BOOLEAN, SessionsAssumption, SessionsInv(overlap)
    PROVE  /\ Tabs(overlap)!TypeOK /\ Tabs(overlap)!SessionEnds /\ Tabs(overlap)!StateUsedOnce
           /\ Tabs(overlap)!HandedOnce /\ Tabs(overlap)!CookieIsLive
           /\ ~overlap => Tabs(overlap)!OneSuccessor /\ Tabs(overlap)!LogoutEnds
<1>1. SessionTypes /\ RowsSound /\ StatesSound /\ PlacesSound /\ CookieSound BY DEF SessionsInv
<1>2. DOMAIN row = 1..Len(row) /\ \A k \in 1..Len(row) : row[k].revoked \in BOOLEAN
      /\ k \in 1..MaxTokens
  BY <1>1, SessionFacts
<1>3. Tabs(overlap)!TypeOK BY <1>1, SessionTypesAre
<1>4. Tabs(overlap)!SessionEnds
  <2>1. \A k \in 1..Len(row) : row[k].expires <= row[row[k].login].began + Absolute BY <1>1
        DEF RowsSound
  <2> QED BY <1>2, <2>1 DEF Tabs!SessionEnds
<1>5. Tabs(overlap)!StateUsedOnce BY <1>1, <1>2 DEF Tabs!StateUsedOnce, StatesSound
<1>6. Tabs(overlap)!HandedOnce BY <1>1, <1>2 DEF Tabs!HandedOnce, PlacesSound
<1>7. Tabs(overlap)!CookieIsLive
  <2>1. cookie # 0 => cookie \in 1..Len(row) BY <1>1, SessionFacts DEF SessionTypes
  <2> QED BY <1>1, <1>2, <2>1 DEF Tabs!CookieIsLive, CookieSound
<1>8. ASSUME ~overlap PROVE Tabs(overlap)!OneSuccessor /\ Tabs(overlap)!LogoutEnds
  <2>1. RowsInTurn /\ LeftInTurn BY <1>8 DEF SessionsInv, InTurnSound
  <2>2. Tabs(overlap)!OneSuccessor BY <1>2, <2>1 DEF Tabs!OneSuccessor, RowsInTurn
  <2>3. \A k \in 1..Len(row) : handed[k] > 0 => handed[k] # 0 BY <1>1, <1>2, SessionFacts
  <2>4. \A k \in 1..Len(row) : row[k].login \in left /\ handed[k] > 0 =>
        ~Good(k) BY <2>1, <2>3 DEF LeftInTurn
  <2>5. \A k \in 1..Len(row) : Tabs(overlap)!Valid(k) => Good(k) BY <1>2 DEF Tabs!Valid, Good
  <2>6. Tabs(overlap)!LogoutEnds BY <1>2, <2>4, <2>5 DEF Tabs!LogoutEnds
  <2> QED BY <2>2, <2>6
<1> QED BY <1>3, <1>4, <1>5, <1>6, <1>7, <1>8

-----------------------------------------------------------------------------
(* PasswordRecovery *)

\* How long the time of a challenge of n attempts may have been renewed.
Lasts(n) == (n + 1) * Life

\* It grows by one lifetime with each attempt.
LEMMA LastsLonger ==
    ASSUME RecoveryAssumption
    PROVE  /\ \A n \in Nat : Lasts(n) \in Nat /\ Lasts(n + 1) = Lasts(n) + Life
           /\ \A n, m \in Nat : n <= m => Lasts(n) <= Lasts(m)
           /\ Lasts(0) = Life
<1>1. Life \in Nat BY DEF RecoveryAssumption
<1>2. \A n \in Nat : Lasts(n) \in Nat /\ Lasts(n + 1) = Lasts(n) + Life BY <1>1 DEF Lasts
<1>3. ASSUME NEW n \in Nat, NEW m \in Nat, n <= m PROVE Lasts(n) <= Lasts(m)
  <2>1. m - n \in Nat /\ (m - n) * Life \in Nat BY <1>1, <1>3
  <2>2. Lasts(m) = Lasts(n) + (m - n) * Life BY <1>1, <1>3 DEF Lasts
  <2> QED BY <1>2, <2>1, <2>2
<1>4. Lasts(0) = Life BY <1>1 DEF Lasts
<1> QED BY <1>2, <1>3, <1>4

\* A challenge ...
ChallengeType == [code: {0} \cup Recovery!Code, attempts: 0..(Attempts + 1), until: Nat]
\* ... and a request with what it has read.
RecoveringType ==
    [pc: {"idle", "mail", "write", "drop", "change", "delete"}, code: {0} \cup Recovery!Code,
      read: ChallengeType]

\* The challenge is of the last code; each of its attempts may have renewed its time once.
ChallengeSound ==
    /\ challenge.code = 0 => challenge.until = 0
    /\ challenge.attempts <= Attempts
    /\ challenge.code # 0 =>
          /\ born[challenge.code] # -1 /\ \A k \in Recovery!Code : born[k] # -1 =>
               k <= challenge.code
          /\ challenge.until <= born[challenge.code] + Lasts(challenge.attempts)
          /\ compared[challenge.code] <= challenge.attempts
\* A code that has changed the password has no challenge left, but while it is deleted.
CodesSound ==
    \A k \in Recovery!Code :
        /\ born[k] # -1 => \A j \in Recovery!Code : j < k => born[j] # -1
        /\ born[k] = -1 => compared[k] = 0 /\ used[k].times = 0
        /\ compared[k] <= Attempts
        /\ used[k].times <= 1
        /\ used[k].times > 0 => used[k].last < born[k] + Lasts(Attempts)
        /\ used[k].times > 0 /\ challenge.code = k =>
              \E r \in RecoveryRequest : recovering[r].pc = "delete"
\* One request at a time: the challenge is the one it has read.
RecoveringSound ==
    /\ \A r, o \in RecoveryRequest : recovering[r].pc # "idle" /\ recovering[o].pc # "idle" => r = o
    /\ \A r \in RecoveryRequest :
          /\ recovering[r].pc = "mail" => recovering[r].code # 0
          /\ recovering[r].pc \in {"write", "drop", "change", "delete"} =>
                /\ challenge.code # 0 /\ challenge.until > recoveryClock
                /\ recovering[r].read.code = challenge.code
          /\ recovering[r].pc = "write" =>
                recovering[r].read.attempts = challenge.attempts + 1
                  /\ recovering[r].read.attempts <= Attempts
          /\ recovering[r].pc \in {"change", "delete"} => recovering[r].code = challenge.code

\* The inductive invariant of the recovery: the bound on a code's life needs how often its time was
\* renewed, and that it is used once needs that the challenge is of the newest code.
RecoveryInv == Recovery!TypeOK /\ ChallengeSound /\ CodesSound /\ RecoveringSound

\* What the types say of the parts of the state.
LEMMA RecoveryTypes ==
    ASSUME RecoveryAssumption, Recovery!TypeOK
    PROVE  /\ recoveryClock \in 0..MaxRecoveryTime /\ recoveryClock \in Nat
           /\ challenge \in ChallengeType
           /\ recovering \in [RecoveryRequest -> RecoveringType]
           /\ born \in [Recovery!Code -> {-1} \cup 0..MaxRecoveryTime]
           /\ mailed \subseteq Recovery!Code
           /\ compared \in [Recovery!Code -> Nat]
           /\ used \in [Recovery!Code -> [times: Nat, last: 0..MaxRecoveryTime]]
           /\ recoveryFailures \in Nat
           /\ challenge.attempts \in Nat /\ challenge.until \in Nat
           /\ challenge.code \in {0} \cup Recovery!Code
           /\ Recovery!Code \subseteq Nat \ {0}
<1>1. /\ recoveryClock \in 0..MaxRecoveryTime /\ challenge \in ChallengeType
      /\ recovering \in [RecoveryRequest -> RecoveringType]
      /\ born \in [Recovery!Code -> {-1} \cup 0..MaxRecoveryTime] /\ mailed \subseteq Recovery!Code
      /\ compared \in [Recovery!Code -> Nat]
      /\ used \in [Recovery!Code -> [times: Nat, last: 0..MaxRecoveryTime]]
      /\ recoveryFailures \in Nat
  BY DEF Recovery!TypeOK, ChallengeType, RecoveringType
<1>2. MaxRecoveryTime \in Nat /\ Attempts \in Nat BY DEF RecoveryAssumption
<1>3. challenge.attempts \in 0..(Attempts + 1) /\ challenge.until \in Nat
      /\ challenge.code \in {0} \cup Recovery!Code
  BY <1>1 DEF ChallengeType
<1>4. recoveryClock \in Nat /\ challenge.attempts \in Nat BY <1>1, <1>2, <1>3
<1>5. Recovery!Code \subseteq Nat \ {0} BY DEF Recovery!Code, RecoveryAssumption
<1> QED BY <1>1, <1>3, <1>4, <1>5

\* No challenge has no code, and a request that is over is idle.
LEMMA NoRecovering ==
    ASSUME RecoveryAssumption
    PROVE  /\ Recovery!None \in ChallengeType /\ Recovery!None.code = 0 /\ Recovery!None.until = 0
           /\ Recovery!None.attempts = 0
           /\ Recovery!IdleRequest \in RecoveringType /\ Recovery!IdleRequest.pc = "idle"
BY DEF Recovery!None, Recovery!IdleRequest, ChallengeType, RecoveringType, RecoveryAssumption

\* Nobody has asked for a code.
LEMMA RecoveryInit ==
    ASSUME RecoveryAssumption, Recovery!Init
    PROVE  RecoveryInv
<1> DEFINE unused_ == [times |-> 0, last |-> 0]
<1>1. /\ recoveryClock = 0 /\ challenge = Recovery!None
      /\ recovering = [r \in RecoveryRequest |-> Recovery!IdleRequest]
      /\ born = [k \in Recovery!Code |-> -1] /\ mailed = {}
      /\ compared = [k \in Recovery!Code |-> 0]
      /\ used = [k \in Recovery!Code |-> unused_] /\ recoveryFailures = 0
  BY DEF Recovery!Init
<1>2. unused_ \in [times: Nat, last: 0..MaxRecoveryTime] /\ unused_.times = 0 BY
      DEF RecoveryAssumption
<1> HIDE DEF unused_
<1>3. /\ recovering \in [RecoveryRequest -> RecoveringType]
         /\ \A r \in RecoveryRequest : recovering[r].pc = "idle"
      /\ used \in [Recovery!Code -> [times: Nat, last: 0..MaxRecoveryTime]]
      /\ \A k \in Recovery!Code : born[k] = -1 /\ compared[k] = 0 /\ used[k].times = 0
  BY <1>1, <1>2, NoRecovering
<1>4. Recovery!TypeOK
  BY <1>1, <1>3, NoRecovering DEF Recovery!TypeOK, ChallengeType, RecoveringType, RecoveryAssumption
<1>5. ChallengeSound BY <1>1, NoRecovering DEF ChallengeSound, RecoveryAssumption
<1>6. CodesSound BY <1>3 DEF CodesSound, RecoveryAssumption
<1>7. RecoveringSound BY <1>3 DEF RecoveringSound
<1> QED BY <1>4, <1>5, <1>6, <1>7 DEF RecoveryInv

\* A new code takes the challenge: nothing was compared with it or changed by it.
LEMMA RecoveryAsk ==
    ASSUME RecoveryAssumption, RecoveryInv, NEW r \in RecoveryRequest, Recovery!Ask(r)
    PROVE  RecoveryInv'
<1>1. PICK k \in Recovery!Code :
         /\ recovering[r].pc = "idle" /\ \A o \in RecoveryRequest : recovering[o].pc = "idle"
         /\ born[k] = -1 /\ \A j \in Recovery!Code : j < k => born[j] # -1
         /\ born' = [born EXCEPT ![k] = recoveryClock]
         /\ challenge' = Recovery!For(k, 0)
         /\ recovering' = [recovering EXCEPT ![r] = [pc |-> "mail", code |-> k,
              read |-> Recovery!None]]
         /\ UNCHANGED <<recoveryClock, mailed, compared, used, recoveryFailures>>
  BY DEF Recovery!Ask, Recovery!Ready
<1> DEFINE q == [pc |-> "mail", code |-> k, read |-> Recovery!None]
<1>2. Recovery!TypeOK BY DEF RecoveryInv
<1>3. q \in RecoveringType /\ q.pc = "mail" /\ q.code = k BY NoRecovering DEF RecoveringType
<1> HIDE DEF q
<1>4. /\ recovering' \in [RecoveryRequest -> RecoveringType] /\ recovering'[r] = q
      /\ \A o \in RecoveryRequest : o # r => recovering'[o].pc = "idle"
  BY <1>1, <1>2, <1>3, RecoveryTypes DEF q
<1>5. /\ challenge' \in ChallengeType /\ challenge'.code = k /\ challenge'.attempts = 0
      /\ challenge'.until = recoveryClock + Life
  BY <1>1, <1>2, RecoveryTypes DEF Recovery!For, ChallengeType, RecoveryAssumption
<1>6. /\ born' \in [Recovery!Code -> {-1} \cup 0..MaxRecoveryTime]
      /\ born'[k] = recoveryClock /\ \A j \in Recovery!Code : j # k => born'[j] = born[j]
      /\ recoveryClock # -1 /\ recoveryClock \in Nat /\ k \in Nat \ {0}
  BY <1>1, <1>2, RecoveryTypes
<1>7. Recovery!TypeOK'
  BY <1>1, <1>2, <1>4, <1>5, <1>6 DEF Recovery!TypeOK, ChallengeType, RecoveringType
<1>8. compared[k] = 0 /\ used[k].times = 0 BY <1>1 DEF RecoveryInv, CodesSound
<1>9. \A j \in Recovery!Code : born'[j] # -1 => j <= k
  BY <1>1, <1>2, <1>6, RecoveryTypes DEF RecoveryInv, CodesSound
<1>10. ChallengeSound'
  <2>1. Lasts(0) = Life /\ Life \in Nat /\ Attempts \in Nat BY LastsLonger DEF RecoveryAssumption
  <2>2. challenge'.until <= born'[k] + Lasts(0) BY <1>5, <1>6, <2>1
  <2>3. compared'[k] <= 0 BY <1>1, <1>8
  <2> QED BY <1>5, <1>6, <1>9, <2>1, <2>2, <2>3 DEF ChallengeSound
<1>11. CodesSound'
  <2>1. SUFFICES ASSUME NEW j \in Recovery!Code
                 PROVE  /\ born'[j] # -1 => \A i \in Recovery!Code : i < j => born'[i] # -1
                        /\ born'[j] = -1 => compared[j] = 0 /\ used[j].times = 0
                        /\ compared[j] <= Attempts
                        /\ used[j].times <= 1
                        /\ used[j].times > 0 => used[j].last < born'[j] + Lasts(Attempts)
                        /\ used[j].times > 0 /\ challenge'.code = j =>
                              \E o \in RecoveryRequest : recovering'[o].pc = "delete"
    BY <1>1 DEF CodesSound
  <2>2. CASE j = k BY <1>1, <1>5, <1>6, <1>8, <2>1, <2>2 DEF RecoveryAssumption
  <2>3. CASE j # k BY <1>5, <1>6, <2>1, <2>3 DEF RecoveryInv, CodesSound
  <2> QED BY <2>2, <2>3
<1>12. RecoveringSound' BY <1>3, <1>4, <1>6 DEF RecoveringSound
<1> QED BY <1>7, <1>10, <1>11, <1>12 DEF RecoveryInv

\* The attempt is read: nobody else has the challenge.
LEMMA RecoveryConfirm ==
    ASSUME RecoveryAssumption, RecoveryInv, NEW r \in RecoveryRequest, NEW k \in {0} \cup mailed,
           Recovery!Confirm(r, k)
    PROVE  RecoveryInv'
<1> DEFINE read == [challenge EXCEPT !.attempts = @ + 1]
           q == [pc |-> IF read.attempts > Attempts THEN "drop" ELSE "write", code |-> k,
             read |-> read]
<1>1. Recovery!TypeOK /\ Attempts \in Nat BY DEF RecoveryInv, RecoveryAssumption
<1>2. /\ Recovery!Kept # Recovery!None /\ \A o \in RecoveryRequest : recovering[o].pc = "idle"
      /\ recovering' = [recovering EXCEPT ![r] =
             [pc |-> IF [Recovery!Kept EXCEPT !.attempts =
               @ + 1].attempts > Attempts THEN "drop" ELSE "write",
              code |-> k, read |-> [Recovery!Kept EXCEPT !.attempts = @ + 1]]]
      /\ UNCHANGED <<recoveryClock, challenge, born, mailed, compared, used, recoveryFailures>>
  BY DEF Recovery!Confirm, Recovery!Ready
<1>3. Recovery!Kept = challenge /\ challenge.until > recoveryClock BY <1>2 DEF Recovery!Kept
<1>4. recovering' = [recovering EXCEPT ![r] = q] BY <1>2, <1>3
<1>5. challenge.code # 0
  <2>1. challenge.until # 0 BY <1>1, <1>3, RecoveryTypes
  <2> QED BY <2>1 DEF RecoveryInv, ChallengeSound
<1>6. challenge.attempts <= Attempts BY DEF RecoveryInv, ChallengeSound
<1>7. read \in ChallengeType /\ read.code = challenge.code /\ read.attempts = challenge.attempts + 1
  BY <1>1, <1>6, RecoveryTypes DEF ChallengeType
<1> HIDE DEF read
<1>8. /\ q \in RecoveringType /\ q.pc \in {"drop", "write"} /\ (q.pc = "write" =>
         ~(read.attempts > Attempts))
      /\ q.code = k /\ q.read = read
  BY <1>1, <1>7, RecoveryTypes DEF RecoveringType
<1> HIDE DEF q
<1>9. /\ recovering' \in [RecoveryRequest -> RecoveringType] /\ recovering'[r] = q
      /\ \A o \in RecoveryRequest : o # r => recovering'[o].pc = "idle"
  BY <1>1, <1>2, <1>4, <1>8, RecoveryTypes
<1>10. Recovery!TypeOK' BY <1>1, <1>2, <1>9 DEF Recovery!TypeOK, ChallengeType, RecoveringType
<1>11. ChallengeSound' BY <1>2 DEF RecoveryInv, ChallengeSound
<1>12. CodesSound' BY <1>2 DEF RecoveryInv, CodesSound
<1>13. RecoveringSound'
  <2>1. q.pc = "write" => q.read.attempts <= Attempts BY <1>1, <1>7, <1>8, RecoveryTypes
  <2> QED BY <1>2, <1>3, <1>5, <1>7, <1>8, <1>9, <2>1 DEF RecoveringSound
<1> QED BY <1>10, <1>11, <1>12, <1>13 DEF RecoveryInv

\* The attempt is written: the time is renewed once more, and the code compared once more.
LEMMA RecoveryWrite ==
    ASSUME RecoveryAssumption, RecoveryInv, NEW r \in RecoveryRequest, Recovery!Write(r)
    PROVE  RecoveryInv'
<1> DEFINE c == challenge.code
           a == challenge.attempts
           q == IF recovering[r].code = c THEN [recovering[r] EXCEPT !.pc =
             "change"] ELSE Recovery!IdleRequest
<1>1. Recovery!TypeOK /\ Attempts \in Nat /\ Life \in Nat BY DEF RecoveryInv, RecoveryAssumption
<1>2. recovering[r].pc = "write" BY DEF Recovery!Write
<1>3. /\ c # 0 /\ challenge.until > recoveryClock /\ recovering[r].read.code = c
      /\ recovering[r].read.attempts = a + 1 /\ a + 1 <= Attempts
  BY <1>2 DEF RecoveryInv, RecoveringSound
<1>4. /\ challenge' = Recovery!For(c, a + 1) /\ compared' = [compared EXCEPT ![c] = @ + 1]
      /\ UNCHANGED <<recoveryClock, born, mailed, used, recoveryFailures>>
  BY <1>3 DEF Recovery!Write
<1>5. recovering[r] \in RecoveringType
      /\ recovering \in [RecoveryRequest -> RecoveringType] BY <1>1, RecoveryTypes
<1>6. recovering' = [recovering EXCEPT ![r] = q]
  <2>1. CASE recovering[r].code = c
    <3>1. recovering' = [recovering EXCEPT ![r].pc = "change"] BY <1>3, <2>1
          DEF Recovery!Write, Recovery!Goes
    <3> QED BY <1>5, <2>1, <3>1
  <2>2. CASE recovering[r].code # c BY <1>3, <2>2 DEF Recovery!Write, Recovery!Ends
  <2> QED BY <2>1, <2>2
<1>7. /\ q \in RecoveringType /\ q.pc \in {"idle", "change"}
      /\ q.pc = "change" => q.code = c /\ q.read.code = c
  BY <1>3, <1>5, NoRecovering DEF RecoveringType
<1> HIDE DEF q
<1>8. \A o \in RecoveryRequest : o # r =>
      recovering[o].pc = "idle" BY <1>2 DEF RecoveryInv, RecoveringSound
<1>9. /\ recovering' \in [RecoveryRequest -> RecoveringType] /\ recovering'[r] = q
      /\ \A o \in RecoveryRequest : o # r => recovering'[o].pc = "idle"
  BY <1>5, <1>6, <1>7, <1>8
<1>10. c \in Recovery!Code /\ a \in Nat /\ recoveryClock \in Nat
       /\ challenge.until \in Nat BY <1>1, <1>3, RecoveryTypes
<1>11. /\ challenge' \in ChallengeType /\ challenge'.code = c /\ challenge'.attempts = a + 1
       /\ challenge'.until = recoveryClock + Life
  BY <1>1, <1>3, <1>4, <1>10 DEF Recovery!For, ChallengeType
<1>12. compared' \in [Recovery!Code -> Nat] /\ compared'[c] = compared[c] + 1 /\ compared[c] \in Nat
       /\ \A k \in Recovery!Code : k # c => compared'[k] = compared[k]
  BY <1>1, <1>4, <1>10, RecoveryTypes
<1>13. Recovery!TypeOK'
  BY <1>1, <1>4, <1>9, <1>11, <1>12 DEF Recovery!TypeOK, ChallengeType, RecoveringType
<1>14. /\ born[c] # -1 /\ \A k \in Recovery!Code : born[k] # -1 => k <= c
       /\ challenge.until <= born[c] + Lasts(a) /\ compared[c] <= a
  BY <1>3 DEF RecoveryInv, ChallengeSound
<1>15. born[c] \in Int /\ Lasts(a) \in Nat /\ Lasts(a + 1) = Lasts(a) + Life
  <2>1. born[c] \in Int BY <1>1, <1>10, RecoveryTypes
  <2>2. Lasts(a) \in Nat /\ Lasts(a + 1) = Lasts(a) + Life BY <1>10, LastsLonger
  <2> QED BY <2>1, <2>2
<1>16. compared'[c] <= a + 1 /\ recoveryClock + Life <= born[c] + Lasts(a + 1)
  BY <1>1, <1>3, <1>10, <1>12, <1>14, <1>15
<1>17. ChallengeSound' BY <1>1, <1>3, <1>4, <1>11, <1>14, <1>16 DEF ChallengeSound
<1>18. used[c].times = 0
  <2>1. ~\E o \in RecoveryRequest : recovering[o].pc = "delete" BY <1>2, <1>8
  <2>2. used[c].times \in Nat BY <1>1, <1>10, RecoveryTypes
  <2> QED BY <1>10, <2>1, <2>2 DEF RecoveryInv, CodesSound
<1>19. CodesSound'
  <2>1. SUFFICES ASSUME NEW k \in Recovery!Code
                 PROVE  /\ born[k] # -1 => \A j \in Recovery!Code : j < k => born[j] # -1
                        /\ born[k] = -1 => compared'[k] = 0 /\ used[k].times = 0
                        /\ compared'[k] <= Attempts
                        /\ used[k].times <= 1
                        /\ used[k].times > 0 => used[k].last < born[k] + Lasts(Attempts)
                        /\ used[k].times > 0 /\ challenge'.code = k =>
                              \E o \in RecoveryRequest : recovering'[o].pc = "delete"
    BY <1>4 DEF CodesSound
  <2>2. CASE k = c
    <3>1. compared'[k] <= Attempts BY <1>1, <1>3, <1>10, <1>12, <1>16, <2>2
    <3>2. born[k] # -1 => \A j \in Recovery!Code : j < k =>
          born[j] # -1 BY <2>1 DEF RecoveryInv, CodesSound
    <3> QED BY <1>14, <1>18, <2>2, <3>1, <3>2
  <2>3. CASE k # c BY <1>11, <1>12, <2>1, <2>3 DEF RecoveryInv, CodesSound
  <2> QED BY <2>2, <2>3
<1>20. RecoveringSound'
  <2>1. recoveryClock + Life > recoveryClock BY <1>1, <1>10 DEF RecoveryAssumption
  <2> QED BY <1>3, <1>4, <1>7, <1>9, <1>11, <2>1 DEF RecoveringSound
<1> QED BY <1>13, <1>17, <1>19, <1>20 DEF RecoveryInv

\* The password is changed, before the code's last time is over.
LEMMA RecoveryChange ==
    ASSUME RecoveryAssumption, RecoveryInv, NEW r \in RecoveryRequest, Recovery!Change(r)
    PROVE  RecoveryInv'
<1> DEFINE c == challenge.code
           q == [recovering[r] EXCEPT !.pc = "delete"]
           once == [times |-> used[c].times + 1, last |-> recoveryClock]
<1>1. Recovery!TypeOK /\ Attempts \in Nat BY DEF RecoveryInv, RecoveryAssumption
<1>2. recovering[r].pc = "change" BY DEF Recovery!Change
<1>3. /\ c # 0 /\ challenge.until > recoveryClock /\ recovering[r].read.code = c
      /\ recovering[r].code = c
      /\ \A o \in RecoveryRequest : o # r => recovering[o].pc = "idle"
  BY <1>2 DEF RecoveryInv, RecoveringSound
<1>4. recovering[r] \in RecoveringType
      /\ recovering \in [RecoveryRequest -> RecoveringType] BY <1>1, RecoveryTypes
<1>5. c \in Recovery!Code /\ challenge.attempts \in Nat /\ recoveryClock \in 0..MaxRecoveryTime
      /\ challenge.until \in Nat
      /\ recoveryClock \in Nat /\ used \in [Recovery!Code -> [times: Nat, last: 0..MaxRecoveryTime]]
      /\ born[c] \in Int
  BY <1>1, <1>3, RecoveryTypes
<1>6. /\ used' = [used EXCEPT ![c] = [times |-> @.times + 1, last |-> recoveryClock]]
      /\ recovering' = [recovering EXCEPT ![r].pc = "delete"]
      /\ UNCHANGED <<recoveryClock, challenge, born, mailed, compared, recoveryFailures>>
  BY <1>3 DEF Recovery!Change, Recovery!Goes
<1>7. used' = [used EXCEPT ![c] = once]
      /\ recovering' = [recovering EXCEPT ![r] = q] BY <1>4, <1>5, <1>6
<1>8. used[c].times = 0
  <2>1. ~\E o \in RecoveryRequest : recovering[o].pc = "delete" BY <1>2, <1>3
  <2>2. used[c].times \in Nat BY <1>5
  <2> QED BY <1>5, <2>1, <2>2 DEF RecoveryInv, CodesSound
<1>9. /\ once \in [times: Nat, last: 0..MaxRecoveryTime] /\ once.times = 1
      /\ once.last = recoveryClock
      /\ q \in RecoveringType /\ q.pc = "delete" /\ q.code = c /\ q.read.code = c
  BY <1>3, <1>4, <1>5, <1>8 DEF RecoveringType
<1> HIDE DEF once, q
<1>10. /\ used' \in [Recovery!Code -> [times: Nat, last: 0..MaxRecoveryTime]] /\ used'[c] = once
       /\ \A k \in Recovery!Code : k # c => used'[k] = used[k]
       /\ recovering' \in [RecoveryRequest -> RecoveringType] /\ recovering'[r] = q
       /\ \A o \in RecoveryRequest : o # r => recovering'[o].pc = "idle"
  BY <1>3, <1>4, <1>5, <1>7, <1>9
<1>11. Recovery!TypeOK' BY <1>1, <1>6, <1>10 DEF Recovery!TypeOK, ChallengeType, RecoveringType
<1>12. ChallengeSound' BY <1>6 DEF RecoveryInv, ChallengeSound
<1>13. recoveryClock < born[c] + Lasts(Attempts)
  <2>1. challenge.until <= born[c] + Lasts(challenge.attempts) /\ challenge.attempts <= Attempts
    BY <1>3 DEF RecoveryInv, ChallengeSound
  <2>2. Lasts(challenge.attempts) <= Lasts(Attempts) /\ Lasts(challenge.attempts) \in Nat
        /\ Lasts(Attempts) \in Nat
    BY <1>1, <1>5, <2>1, LastsLonger
  <2> QED BY <1>3, <1>5, <2>1, <2>2
<1>14. CodesSound'
  <2>1. SUFFICES ASSUME NEW k \in Recovery!Code
                 PROVE  /\ born[k] # -1 => \A j \in Recovery!Code : j < k => born[j] # -1
                        /\ born[k] = -1 => compared[k] = 0 /\ used'[k].times = 0
                        /\ compared[k] <= Attempts
                        /\ used'[k].times <= 1
                        /\ used'[k].times > 0 => used'[k].last < born[k] + Lasts(Attempts)
                        /\ used'[k].times > 0 /\ challenge.code = k =>
                              \E o \in RecoveryRequest : recovering'[o].pc = "delete"
    BY <1>6 DEF CodesSound
  <2>2. CASE k = c
    <3>1. born[c] # -1 BY <1>3 DEF RecoveryInv, ChallengeSound
    <3>2. /\ born[k] # -1 => \A j \in Recovery!Code : j < k => born[j] # -1
          /\ compared[k] <= Attempts
      BY <2>1 DEF RecoveryInv, CodesSound
    <3>3. \E o \in RecoveryRequest : recovering'[o].pc = "delete" BY <1>9, <1>10
    <3> QED BY <1>9, <1>10, <1>13, <2>2, <3>1, <3>2, <3>3
  <2>3. CASE k # c BY <1>10, <2>1, <2>3 DEF RecoveryInv, CodesSound
  <2> QED BY <2>2, <2>3
<1>15. RecoveringSound' BY <1>3, <1>6, <1>9, <1>10 DEF RecoveringSound
<1> QED BY <1>11, <1>12, <1>14, <1>15 DEF RecoveryInv

\* A request ends: with its mail sent, its challenge deleted, or without.
LEMMA RecoveryEnds ==
    ASSUME RecoveryAssumption, RecoveryInv, NEW r \in RecoveryRequest,
           Recovery!Mail(r) \/ Recovery!Delete(r) \/ Recovery!Fail(r)
    PROVE  RecoveryInv'
<1>1. Recovery!TypeOK /\ Attempts \in Nat BY DEF RecoveryInv, RecoveryAssumption
<1>2. /\ recovering[r].pc # "idle" /\ recovering' = [recovering EXCEPT ![r] = Recovery!IdleRequest]
      /\ UNCHANGED <<recoveryClock, born, compared, used>>
      /\ \/ challenge' = challenge /\ recovering[r].pc # "delete"
         \/ challenge' = Recovery!None
  BY DEF Recovery!Mail, Recovery!Delete, Recovery!Fail, Recovery!Ends
<1>3. mailed' \subseteq Recovery!Code /\ recoveryFailures' \in Nat
  <2>1. CASE Recovery!Mail(r)
    <3>1. recovering[r].pc = "mail" BY <2>1 DEF Recovery!Mail
    <3>2. recovering[r] \in RecoveringType /\ recovering[r].code # 0
      BY <1>1, <3>1, RecoveryTypes DEF RecoveryInv, RecoveringSound
    <3>3. recovering[r].code \in Recovery!Code BY <3>2 DEF RecoveringType
    <3> QED BY <1>1, <2>1, <3>3, RecoveryTypes DEF Recovery!Mail
  <2>2. CASE ~Recovery!Mail(r) BY <1>1, <2>2, RecoveryTypes
             DEF Recovery!Delete, Recovery!Fail, Recovery!Fails
  <2> QED BY <2>1, <2>2
<1>4. \A o \in RecoveryRequest : o # r =>
      recovering[o].pc = "idle" BY <1>2 DEF RecoveryInv, RecoveringSound
<1>5. /\ recovering' \in [RecoveryRequest -> RecoveringType]
      /\ \A o \in RecoveryRequest : recovering'[o].pc = "idle"
  BY <1>1, <1>2, <1>4, NoRecovering, RecoveryTypes
<1>6. challenge' \in ChallengeType BY <1>1, <1>2, NoRecovering, RecoveryTypes
<1>7. Recovery!TypeOK' BY <1>1, <1>2, <1>3, <1>5, <1>6
      DEF Recovery!TypeOK, ChallengeType, RecoveringType
<1>8. ChallengeSound'
  <2>1. CASE challenge' = challenge BY <1>2, <2>1 DEF RecoveryInv, ChallengeSound
  <2>2. CASE challenge' = Recovery!None BY <1>1, <2>2, NoRecovering DEF ChallengeSound
  <2> QED BY <1>2, <2>1, <2>2
<1>9. \A k \in Recovery!Code : ~(used[k].times > 0 /\ challenge'.code = k)
  <2>1. CASE challenge' = challenge /\ recovering[r].pc # "delete"
    <3>1. ~\E o \in RecoveryRequest : recovering[o].pc = "delete" BY <1>4, <2>1
    <3> QED BY <2>1, <3>1 DEF RecoveryInv, CodesSound
  <2>2. CASE challenge' = Recovery!None BY <1>1, <2>2, NoRecovering, RecoveryTypes
  <2> QED BY <1>2, <2>1, <2>2
<1>10. CodesSound' BY <1>2, <1>9 DEF RecoveryInv, CodesSound
<1>11. RecoveringSound' BY <1>5 DEF RecoveringSound
<1> QED BY <1>7, <1>8, <1>10, <1>11 DEF RecoveryInv

\* Time passes: a challenge may end.
LEMMA RecoveryTick ==
    ASSUME RecoveryAssumption, RecoveryInv, Recovery!Tick
    PROVE  RecoveryInv'
<1>1. /\ \A r \in RecoveryRequest : recovering[r].pc = "idle"
      /\ recoveryClock < MaxRecoveryTime /\ recoveryClock' = recoveryClock + 1
      /\ UNCHANGED <<challenge, recovering, born, mailed, compared, used, recoveryFailures>>
  BY DEF Recovery!Tick
<1>2. Recovery!TypeOK' BY <1>1 DEF RecoveryInv, Recovery!TypeOK, RecoveryAssumption
<1>3. ChallengeSound' /\ CodesSound' BY <1>1 DEF RecoveryInv, ChallengeSound, CodesSound
<1>4. RecoveringSound' BY <1>1 DEF RecoveringSound
<1> QED BY <1>2, <1>3, <1>4 DEF RecoveryInv

\* Every step keeps the invariant, and so does one in which nothing of it moves.
LEMMA RecoveryStep ==
    ASSUME RecoveryAssumption, RecoveryInv, Recovery!Next \/ UNCHANGED recoveryVars
    PROVE  RecoveryInv'
<1>1. CASE UNCHANGED recoveryVars
  BY <1>1
     DEF recoveryVars, RecoveryInv, Recovery!TypeOK, ChallengeSound, CodesSound, RecoveringSound
<1>2. CASE Recovery!Next
  BY <1>2, RecoveryAsk, RecoveryConfirm, RecoveryWrite, RecoveryChange, RecoveryEnds, RecoveryTick
     DEF Recovery!Next
<1> QED BY <1>1, <1>2

\* What the invariant says of the recovery.
LEMMA RecoveryFollows ==
    ASSUME RecoveryAssumption, RecoveryInv
    PROVE  /\ Recovery!TypeOK /\ Recovery!CodeUsedOnce /\ Recovery!GuessesBounded
           /\ Recovery!CodeDies /\ Recovery!LatestCodeWorks
<1>1. Recovery!TypeOK /\ Recovery!CodeUsedOnce /\ Recovery!GuessesBounded
  BY DEF RecoveryInv, CodesSound, Recovery!CodeUsedOnce, Recovery!GuessesBounded
<1>2. Recovery!CodeDies BY DEF RecoveryInv, CodesSound, Recovery!CodeDies, Lasts
<1>3. ASSUME Recovery!Kept # Recovery!None, NEW k \in Recovery!Code, born[k] # -1
      PROVE  k <= Recovery!Kept.code
  <2>1. Recovery!Kept = challenge /\ challenge.until > recoveryClock BY <1>3 DEF Recovery!Kept
  <2>2. challenge.until # 0 BY <1>1, <2>1, RecoveryTypes
  <2>3. challenge.code # 0 BY <2>2 DEF RecoveryInv, ChallengeSound
  <2> QED BY <1>3, <2>1, <2>3 DEF RecoveryInv, ChallengeSound
<1> QED BY <1>1, <1>2, <1>3 DEF Recovery!LatestCodeWorks

-----------------------------------------------------------------------------
(* WorkspaceUsers *)

\* The requests of the workspace.
Requests(overlap) == IF overlap THEN Overlapping ELSE InTurn

\* Users that are not there are as they begin, and the owner is one.
UsersSound(overlap) ==
    /\ Users(overlap)!SingleOwner /\ Users(overlap)!OneUserPerAddress /\ user[1].there
    /\ \A u \in User : ~user[u].there => user[u] = Users(overlap)!Nobody
\* What a request has checked of who asks for it.
RequestsSound(overlap) ==
    \A r \in Requests(overlap) :
        /\ asking[r].pc # "idle" => asking[r].role \in {"owner", "admin"}
        /\ asking[r].pc = "idle" => asking[r].of = 1
        /\ asking[r].pc \in {"create", "insert"} =>
              /\ ~user[asking[r].of].there
              /\ \A o \in Requests(overlap) : o # r => asking[o].of # asking[r].of
        /\ asking[r].pc = "insert" =>
             Users(overlap)!ValidateManagedRole(asking[r].role, asking[r].new.role)
        /\ asking[r].pc = "update" => user[asking[r].of].there
                                      /\ (asking[r].of = asking[r].by =>
                                           asking[r].read.role = asking[r].role)
        /\ asking[r].pc = "write" =>
              /\ asking[r].of # 1 /\ user[asking[r].of].there
              /\ Users(overlap)!ValidateManagedUser(asking[r].role, asking[r].read.role)
              /\ asking[r].new.role # asking[r].read.role =>
                    Users(overlap)!ValidateManagedRole(asking[r].role, asking[r].new.role)
\* In turn, what a request has read is as it has read it.
TurnSound(overlap) ==
    /\ \A r, o \in Requests(overlap) : asking[r].pc # "idle" /\ asking[o].pc # "idle" => r = o
    /\ \A r \in Requests(overlap) :
          /\ asking[r].pc = "insert" => Users(overlap)!UnderLimit
          /\ asking[r].pc = "write" => asking[r].read = user[asking[r].of]

\* The inductive invariant of the users.  Who asks was checked before the request goes on; in turn
\* what it has read is still so when it writes.
UsersInv(overlap) ==
    /\ Users(overlap)!TypeOK /\ UsersSound(overlap) /\ RequestsSound(overlap)
    /\ ~overlap => TurnSound(overlap)

\* The owner is the only user, and nobody asks for anything.
LEMMA UsersInit ==
    ASSUME NEW overlap \in BOOLEAN, UsersAssumption, Users(overlap)!Init
    PROVE  UsersInv(overlap)
<1>1. /\ user = [u \in User |-> IF u = 1 THEN [Users(overlap)!Nobody EXCEPT !.there = TRUE,
         !.role = "owner", !.active = TRUE]
                                       ELSE Users(overlap)!Nobody]
      /\ asking = [r \in Requests(overlap) |-> Users(overlap)!Idle]
      /\ userChanges = 0 /\ limit \in 1..(IF overlap THEN MaxLimitOverlapping ELSE MaxLimitInTurn)
  BY DEF Users!Init, Requests
<1>2. Users(overlap)!Nobody \in Users(overlap)!UserType
  BY UsersAssumption DEF Users!Nobody, Users!UserType, Users!Role
<1>3. [Users(overlap)!Nobody EXCEPT !.there = TRUE, !.role = "owner",
      !.active = TRUE] \in Users(overlap)!UserType
  BY <1>2 DEF Users!UserType, Users!Role
<1>4. Users(overlap)!TypeOK
  <2>1. user \in [User -> Users(overlap)!UserType] BY <1>1, <1>2, <1>3
  <2>2. asking \in [Requests(overlap) -> [pc: {"idle", "create", "insert", "update", "write"},
        by: User,
                    role: Users(overlap)!Role, of: User, new: Users(overlap)!UserType,
                      read: Users(overlap)!UserType]]
    BY <1>1, <1>2, UsersAssumption DEF Users!Idle, Users!Role
  <2> QED BY <1>1, <2>1, <2>2 DEF Users!TypeOK, Requests
<1>5. UsersSound(overlap)
  BY <1>1, UsersAssumption DEF UsersSound, Users!SingleOwner, Users!OneUserPerAddress, Users!Nobody
<1>6. \A r \in Requests(overlap) : asking[r].pc = "idle" /\ asking[r].of = 1 BY <1>1 DEF Users!Idle
<1> QED BY <1>4, <1>5, <1>6 DEF UsersInv, RequestsSound, TurnSound

\* The requests' types, in one place.
RequestType(overlap) ==
    [pc: {"idle", "create", "insert", "update", "write"}, by: User, role: Users(overlap)!Role,
     of: User, new: Users(overlap)!UserType, read: Users(overlap)!UserType]

\* A request of an owner or an admin begins, for a user of its own if it creates one.
LEMMA UsersAsk ==
    ASSUME NEW overlap \in BOOLEAN, UsersAssumption, UsersInv(overlap), NEW r \in Requests(overlap),
           NEW by \in User, NEW of \in User, NEW new \in Users(overlap)!UserType,
             Users(overlap)!Ask(r, by, of, new)
    PROVE  UsersInv(overlap)'
<1> DEFINE q == [pc |-> IF user[of].there THEN "update" ELSE "create", by |-> by,
                 role |-> user[by].role, of |-> of, new |-> new, read |-> user[of]]
<1>1. /\ asking[r].pc = "idle" /\ asking' = [asking EXCEPT ![r] = q]
      /\ userChanges' = userChanges + 1 /\ UNCHANGED <<user, limit>>
      /\ user[by].role \in {"owner", "admin"}
      /\ user[of].there \/ \A o \in Requests(overlap) : asking[o].of # of
      /\ ~overlap => \A o \in Requests(overlap) : asking[o].pc = "idle"
  BY DEF Users!Ask, Users!Principal, Users!Served, Requests
<1>2. user \in [User -> Users(overlap)!UserType]
      /\ asking \in [Requests(overlap) -> RequestType(overlap)]
  BY DEF UsersInv, Users!TypeOK, RequestType, Requests
<1>3. q \in RequestType(overlap) /\ q.pc \in {"update", "create"} /\ q.of = of
      /\ q.role = user[by].role /\ q.by = by
      /\ q.read = user[of] /\ (q.pc = "create" <=> ~user[of].there)
  BY <1>2 DEF RequestType, Users!UserType
<1> HIDE DEF q
<1>4. /\ asking' \in [Requests(overlap) -> RequestType(overlap)]
      /\ asking'[r] = q /\ \A o \in Requests(overlap) : o # r => asking'[o] = asking[o]
  BY <1>1, <1>2, <1>3
<1>5. Users(overlap)!TypeOK' BY <1>1, <1>4 DEF UsersInv, Users!TypeOK, RequestType, Requests
<1>6. UsersSound(overlap)' BY <1>1
      DEF UsersInv, UsersSound, Users!SingleOwner, Users!OneUserPerAddress, Users!Nobody
<1>7. RequestsSound(overlap)'
  <2>1. ASSUME NEW o \in Requests(overlap), asking'[o].pc \in {"create", "insert"}
        PROVE  ~user[asking'[o].of].there /\ \A p \in Requests(overlap) : p # o =>
               asking'[p].of # asking'[o].of
    <3>1. CASE o = r BY <1>1, <1>3, <1>4, <2>1, <3>1
    <3>2. CASE o # r
      <4>1. asking'[o] = asking[o] /\ asking'[r] = q BY <1>4, <3>2
      <4>2. ~user[asking[o].of].there /\ \A p \in Requests(overlap) : p # o =>
            asking[p].of # asking[o].of
        BY <2>1, <4>1 DEF UsersInv, RequestsSound
      <4>3. q.of # asking[o].of BY <1>1, <1>3, <4>2
      <4> QED BY <1>4, <4>1, <4>2, <4>3
    <3> QED BY <3>1, <3>2
  <2>2. ASSUME NEW o \in Requests(overlap)
        PROVE  /\ asking'[o].pc # "idle" => asking'[o].role \in {"owner", "admin"}
               /\ asking'[o].pc = "idle" => asking'[o].of = 1
               /\ asking'[o].pc = "insert" =>
                    Users(overlap)!ValidateManagedRole(asking'[o].role, asking'[o].new.role)
               /\ asking'[o].pc = "update" => user[asking'[o].of].there
                                      /\ (asking'[o].of = asking'[o].by =>
                                           asking'[o].read.role = asking'[o].role)
               /\ asking'[o].pc = "write" =>
                     /\ asking'[o].of # 1 /\ user[asking'[o].of].there
                     /\ Users(overlap)!ValidateManagedUser(asking'[o].role, asking'[o].read.role)
                     /\ asking'[o].new.role # asking'[o].read.role =>
                           Users(overlap)!ValidateManagedRole(asking'[o].role, asking'[o].new.role)
    <3>1. CASE o = r BY <1>1, <1>3, <1>4, <3>1
    <3>2. CASE o # r BY <1>4, <3>2 DEF UsersInv, RequestsSound
    <3> QED BY <3>1, <3>2
  <2> QED BY <1>1, <2>1, <2>2
             DEF RequestsSound, Requests, Users!ValidateManagedRole, Users!ValidateManagedUser
<1>8. ASSUME ~overlap PROVE TurnSound(overlap)'
  BY <1>1, <1>3, <1>4, <1>8 DEF TurnSound, Users!UnderLimit, Users!ActiveUsers, Requests
<1> QED BY <1>5, <1>6, <1>7, <1>8 DEF UsersInv

\* A request goes on or ends, and no user changes.
LEMMA UsersCheck ==
    ASSUME NEW overlap \in BOOLEAN, UsersAssumption, UsersInv(overlap), NEW r \in Requests(overlap),
           Users(overlap)!CheckCreate(r) \/ Users(overlap)!CheckUpdate(r)
    PROVE  UsersInv(overlap)'
<1> DEFINE q == asking[r]
           NoRequest == Users(overlap)!Idle
           loaded == Users(overlap)!Loaded(q)
<1>1. UNCHANGED <<user, limit, userChanges>> BY DEF Users!CheckCreate, Users!CheckUpdate
<1>2. /\ user \in [User -> Users(overlap)!UserType]
      /\ asking \in [Requests(overlap) -> RequestType(overlap)]
      /\ q \in RequestType(overlap) /\ q.of \in User /\ q.by \in User
  BY DEF UsersInv, Users!TypeOK, RequestType, Requests
<1>3. NoRequest \in RequestType(overlap) /\ NoRequest.pc = "idle" /\ NoRequest.of = 1
  BY UsersAssumption DEF Users!Idle, RequestType, Users!Role, Users!Nobody, Users!UserType
<1>4. loaded \in Users(overlap)!UserType BY <1>2 DEF Users!Loaded, RequestType
<1>5. PICK s \in RequestType(overlap) :
         /\ asking' = [asking EXCEPT ![r] = s] /\ q.pc # "idle"
         /\ \/ s = NoRequest
            \/ /\ q.pc = "create" /\ s = [q EXCEPT !.pc = "insert"]
               /\ Users(overlap)!ValidateManagedRole(q.role, q.new.role)
               /\ Users(overlap)!UnderLimit
            \/ /\ q.pc = "update" /\ s = [q EXCEPT !.pc = "write", !.read = loaded]
               /\ Users(overlap)!ValidateManagedUser(q.role, loaded.role)
               /\ q.new.role # loaded.role => Users(overlap)!ValidateManagedRole(q.role, q.new.role)
  <2>1. CASE Users(overlap)!CheckCreate(r)
    <3>1. [q EXCEPT !.pc = "insert"] \in RequestType(overlap) BY <1>2 DEF RequestType
    <3> QED BY <1>3, <2>1, <3>1 DEF Users!CheckCreate, Users!Ends
  <2>2. CASE Users(overlap)!CheckUpdate(r)
    <3>1. [q EXCEPT !.pc = "write", !.read = loaded] \in RequestType(overlap) BY <1>2, <1>4
          DEF RequestType
    <3>2. CASE asking' = [asking EXCEPT ![r] = NoRequest] BY <1>3, <2>2, <3>2 DEF Users!CheckUpdate
    <3>3. CASE asking' # [asking EXCEPT ![r] = NoRequest]
      <4>1. /\ asking' = [asking EXCEPT ![r].pc = "write", ![r].read = loaded] /\ q.pc = "update"
            /\ Users(overlap)!ValidateManagedUser(q.role, loaded.role)
            /\ q.new.role # loaded.role => Users(overlap)!ValidateManagedRole(q.role, q.new.role)
        BY <2>2, <3>3 DEF Users!CheckUpdate, Users!Ends
      <4>2. asking' = [asking EXCEPT ![r] = [q EXCEPT !.pc = "write", !.read = loaded]] BY <1>2,
            <4>1
      <4> QED BY <3>1, <4>1, <4>2
    <3> QED BY <3>2, <3>3
  <2> QED BY <2>1, <2>2
<1>6. /\ asking' \in [Requests(overlap) -> RequestType(overlap)]
      /\ asking'[r] = s /\ \A o \in Requests(overlap) : o # r => asking'[o] = asking[o]
  BY <1>2, <1>5
<1>7. s.of \in {1, q.of} /\ (s.pc # "idle" =>
      s.of = q.of /\ s.role = q.role /\ s.by = q.by /\ s.new = q.new)
  BY <1>2, <1>3, <1>5 DEF RequestType
<1>8. Users(overlap)!TypeOK' BY <1>1, <1>6 DEF UsersInv, Users!TypeOK, RequestType, Requests
<1>9. UsersSound(overlap)' BY <1>1
      DEF UsersInv, UsersSound, Users!SingleOwner, Users!OneUserPerAddress, Users!Nobody
<1>10. user[1].role = "owner" /\ user[1].there BY DEF UsersInv, UsersSound, Users!SingleOwner
<1>11. ASSUME s.pc = "write"
       PROVE  /\ s.of # 1 /\ user[s.of].there
              /\ Users(overlap)!ValidateManagedUser(s.role, s.read.role)
              /\ s.new.role # s.read.role => Users(overlap)!ValidateManagedRole(s.role, s.new.role)
              /\ s.read = user[s.of]
  <2>1. /\ q.pc = "update" /\ s = [q EXCEPT !.pc = "write", !.read = loaded]
        /\ Users(overlap)!ValidateManagedUser(q.role, loaded.role)
        /\ q.new.role # loaded.role => Users(overlap)!ValidateManagedRole(q.role, q.new.role)
    BY <1>2, <1>3, <1>5, <1>11 DEF RequestType
  <2>2. s.read = loaded BY <1>2, <2>1 DEF RequestType
  <2>3. /\ q.role \in {"owner", "admin"} /\ user[q.of].there
        /\ q.of = q.by => q.read.role = q.role
    BY <2>1 DEF UsersInv, RequestsSound
  <2>4. q.of # q.by
    <3>1. ASSUME q.of = q.by PROVE FALSE
      <4>1. loaded.role = q.role BY <2>3, <3>1 DEF Users!Loaded
      <4> QED BY <2>1, <2>3, <4>1 DEF Users!ValidateManagedUser
    <3> QED BY <3>1
  <2>5. loaded = user[q.of] BY <2>4 DEF Users!Loaded
  <2>6. q.of # 1 BY <1>10, <2>1, <2>5 DEF Users!ValidateManagedUser
  <2> QED BY <1>7, <1>11, <2>1, <2>2, <2>3, <2>5, <2>6
<1>12. s.pc = "insert" => /\ q.pc = "create"
                             /\ Users(overlap)!ValidateManagedRole(s.role, s.new.role)
                          /\ Users(overlap)!UnderLimit
  BY <1>2, <1>3, <1>5, <1>7 DEF RequestType
<1>13. s.pc \in {"idle", "insert", "write"} BY <1>2, <1>3, <1>5 DEF RequestType
<1>14. RequestsSound(overlap)'
  <2>1. ASSUME NEW o \in Requests(overlap), asking'[o].pc \in {"create", "insert"}
        PROVE  ~user[asking'[o].of].there /\ \A p \in Requests(overlap) : p # o =>
               asking'[p].of # asking'[o].of
    <3>1. asking[o].pc \in {"create", "insert"} /\ asking'[o].of = asking[o].of
      BY <1>6, <1>7, <1>12, <1>13, <2>1
    <3>2. ~user[asking[o].of].there /\ \A p \in Requests(overlap) : p # o =>
          asking[p].of # asking[o].of
      BY <3>1 DEF UsersInv, RequestsSound
    <3>3. asking[o].of # 1 BY <1>10, <3>2
    <3>4. \A p \in Requests(overlap) : p # o =>
          asking'[p].of # asking[o].of BY <1>6, <1>7, <3>2, <3>3
    <3> QED BY <3>1, <3>2, <3>4
  <2>2. ASSUME NEW o \in Requests(overlap)
        PROVE  /\ asking'[o].pc # "idle" => asking'[o].role \in {"owner", "admin"}
               /\ asking'[o].pc = "idle" => asking'[o].of = 1
               /\ asking'[o].pc = "insert" =>
                    Users(overlap)!ValidateManagedRole(asking'[o].role, asking'[o].new.role)
               /\ asking'[o].pc = "update" => user[asking'[o].of].there
                                      /\ (asking'[o].of = asking'[o].by =>
                                           asking'[o].read.role = asking'[o].role)
               /\ asking'[o].pc = "write" =>
                     /\ asking'[o].of # 1 /\ user[asking'[o].of].there
                     /\ Users(overlap)!ValidateManagedUser(asking'[o].role, asking'[o].read.role)
                     /\ asking'[o].new.role # asking'[o].read.role =>
                           Users(overlap)!ValidateManagedRole(asking'[o].role, asking'[o].new.role)
    <3>1. CASE o = r
      <4>1. s.pc # "idle" => s.role \in {"owner", "admin"} BY <1>5, <1>7 DEF UsersInv, RequestsSound
      <4>2. s.pc = "idle" => s.of = 1 BY <1>2, <1>3, <1>5 DEF RequestType
      <4> QED BY <1>6, <1>11, <1>12, <1>13, <3>1, <4>1, <4>2
    <3>2. CASE o # r BY <1>6, <3>2 DEF UsersInv, RequestsSound
    <3> QED BY <3>1, <3>2
  <2> QED BY <1>1, <2>1, <2>2
             DEF RequestsSound, Requests, Users!ValidateManagedRole, Users!ValidateManagedUser
<1>15. ASSUME ~overlap PROVE TurnSound(overlap)'
  <2>1. \A o, p \in Requests(overlap) : asking'[o].pc # "idle" /\ asking'[p].pc # "idle" => o = p
    BY <1>5, <1>6, <1>15 DEF UsersInv, TurnSound
  <2>2. Users(overlap)!UnderLimit' <=> Users(overlap)!UnderLimit BY <1>1
        DEF Users!UnderLimit, Users!ActiveUsers
  <2>3. \A o \in Requests(overlap) : asking'[o].pc = "insert" => Users(overlap)!UnderLimit
    BY <1>6, <1>12, <1>15 DEF UsersInv, TurnSound
  <2>4. \A o \in Requests(overlap) : asking'[o].pc = "write" =>
        asking'[o].read = user[asking'[o].of]
    BY <1>6, <1>11, <1>15 DEF UsersInv, TurnSound
  <2> QED BY <1>1, <2>1, <2>2, <2>3, <2>4 DEF TurnSound, Requests
<1> QED BY <1>8, <1>9, <1>14, <1>15 DEF UsersInv

\* A request that has inserted or written a user ends: what the others rely on is kept.
LEMMA UsersWritten ==
    ASSUME NEW overlap \in BOOLEAN, UsersAssumption, UsersInv(overlap), NEW r \in Requests(overlap),
           asking[r].pc # "idle", asking' = [asking EXCEPT ![r] = Users(overlap)!Idle],
             UNCHANGED <<limit, userChanges>>,
           user' \in [User -> Users(overlap)!UserType], UsersSound(overlap)',
           \A u \in User : u # asking[r].of => user'[u] = user[u],
           \A u \in User : user[u].there => user'[u].there
    PROVE  UsersInv(overlap)'
<1> DEFINE q == asking[r]
           NoRequest == Users(overlap)!Idle
<1>1. asking \in [Requests(overlap) -> RequestType(overlap)] BY
      DEF UsersInv, Users!TypeOK, RequestType, Requests
<1>2. NoRequest \in RequestType(overlap) /\ NoRequest.pc = "idle" /\ NoRequest.of = 1
  BY UsersAssumption DEF Users!Idle, RequestType, Users!Role, Users!Nobody, Users!UserType
<1>3. /\ asking' \in [Requests(overlap) -> RequestType(overlap)]
      /\ asking'[r] = NoRequest /\ \A o \in Requests(overlap) : o # r => asking'[o] = asking[o]
  BY <1>1, <1>2
<1>4. Users(overlap)!TypeOK' BY <1>3 DEF UsersInv, Users!TypeOK, RequestType, Requests
<1>5. user[1].there BY DEF UsersInv, UsersSound
<1>6. \A o \in Requests(overlap) : asking[o].of \in User BY <1>1 DEF RequestType
<1>7. RequestsSound(overlap)'
  <2>1. ASSUME NEW o \in Requests(overlap), asking'[o].pc \in {"create", "insert"}
        PROVE  ~user'[asking'[o].of].there /\ \A p \in Requests(overlap) : p # o =>
               asking'[p].of # asking'[o].of
    <3>1. o # r /\ asking'[o] = asking[o] BY <1>2, <1>3, <2>1
    <3>2. ~user[asking[o].of].there /\ \A p \in Requests(overlap) : p # o =>
          asking[p].of # asking[o].of
      BY <2>1, <3>1 DEF UsersInv, RequestsSound
    <3>3. asking[o].of # 1 /\ asking[o].of # q.of BY <1>5, <3>1, <3>2
    <3>4. user'[asking[o].of] = user[asking[o].of] BY <1>6, <3>3
    <3>5. \A p \in Requests(overlap) : p # o =>
          asking'[p].of # asking[o].of BY <1>2, <1>3, <3>2, <3>3
    <3> QED BY <3>1, <3>2, <3>4, <3>5
  <2>2. ASSUME NEW o \in Requests(overlap)
        PROVE  /\ asking'[o].pc # "idle" => asking'[o].role \in {"owner", "admin"}
               /\ asking'[o].pc = "idle" => asking'[o].of = 1
               /\ asking'[o].pc = "insert" =>
                    Users(overlap)!ValidateManagedRole(asking'[o].role, asking'[o].new.role)
               /\ asking'[o].pc = "update" => user'[asking'[o].of].there
                                      /\ (asking'[o].of = asking'[o].by =>
                                           asking'[o].read.role = asking'[o].role)
               /\ asking'[o].pc = "write" =>
                     /\ asking'[o].of # 1 /\ user'[asking'[o].of].there
                     /\ Users(overlap)!ValidateManagedUser(asking'[o].role, asking'[o].read.role)
                     /\ asking'[o].new.role # asking'[o].read.role =>
                           Users(overlap)!ValidateManagedRole(asking'[o].role, asking'[o].new.role)
    <3>1. CASE o = r BY <1>2, <1>3, <3>1
    <3>2. CASE o # r BY <1>3, <1>6, <3>2 DEF UsersInv, RequestsSound
    <3> QED BY <3>1, <3>2
  <2> QED BY <2>1, <2>2
             DEF RequestsSound, Requests, Users!ValidateManagedRole, Users!ValidateManagedUser
<1>8. ASSUME ~overlap PROVE TurnSound(overlap)'
  <2>1. \A o \in Requests(overlap) : o # r => asking[o].pc = "idle" BY <1>8 DEF UsersInv, TurnSound
  <2>2. \A o \in Requests(overlap) : asking'[o].pc = "idle" BY <1>2, <1>3, <2>1
  <2> QED BY <2>2 DEF TurnSound, Requests
<1> QED BY <1>4, <1>7, <1>8 DEF UsersInv

\* What a step may not do to the users.
UsersStepProps(overlap) ==
    /\ Users(overlap)!OwnerMakesAdmins
    /\ ~overlap => Users(overlap)!WithinLimit /\ Users(overlap)!ThroughOwner

\* One user's row changes, of a request that ends.
LEMMA UsersRow ==
    ASSUME NEW overlap \in BOOLEAN, UsersInv(overlap), NEW r \in Requests(overlap),
           asking'[r].pc = "idle",
           \A u \in User : u # asking[r].of => user'[u] = user[u],
           (user'[asking[r].of].role = "admin" /\ user[asking[r].of].role # "admin") =>
             asking[r].role = "owner",
           ~overlap => (user[asking[r].of].role = "admin" => asking[r].role = "owner"),
           ~overlap => Users(overlap)!WithinLimit
    PROVE  UsersStepProps(overlap)
BY DEF UsersStepProps, Users!OwnerMakesAdmins, Users!ThroughOwner, Requests

\* The user who is created has an address of its own and, in turn, a place in the plan.
LEMMA UsersInsert ==
    ASSUME NEW overlap \in BOOLEAN, UsersAssumption, UsersInv(overlap), NEW r \in Requests(overlap),
           Users(overlap)!Insert(r)
    PROVE  UsersInv(overlap)' /\ UsersStepProps(overlap)
<1> DEFINE q == asking[r]
           added == [q.new EXCEPT !.there = TRUE, !.active = TRUE]
<1>1. /\ q.pc = "insert" /\ asking' = [asking EXCEPT ![r] = Users(overlap)!Idle]
      /\ UNCHANGED <<limit, userChanges>>
      /\ user' = IF Users(overlap)!Taken(q.new.email) THEN user ELSE [user EXCEPT ![q.of] = added]
  BY DEF Users!Insert, Users!Ends
<1>2. /\ user \in [User -> Users(overlap)!UserType]
      /\ asking \in [Requests(overlap) -> RequestType(overlap)]
      /\ q \in RequestType(overlap) /\ q.of \in User /\ q.new \in Users(overlap)!UserType
      /\ limit \in Int
  BY DEF UsersInv, Users!TypeOK, RequestType, Requests
<1>3. /\ added \in Users(overlap)!UserType /\ added.there /\ added.active
      /\ added.role = q.new.role /\ added.email = q.new.email
  BY <1>2 DEF Users!UserType
<1> HIDE DEF added
<1>4. /\ ~user[q.of].there /\ Users(overlap)!ValidateManagedRole(q.role, q.new.role)
      /\ q.role \in {"owner", "admin"}
  BY <1>1 DEF UsersInv, RequestsSound
<1>5. /\ user[1].there /\ q.of # 1 /\ user[q.of] = Users(overlap)!Nobody /\ UsersSound(overlap)
  BY <1>2, <1>4 DEF UsersInv, UsersSound
<1>6. user'[q.of] \in {user[q.of], added} /\ \A u \in User : u # q.of => user'[u] = user[u]
  BY <1>1, <1>2
<1>7. user' \in [User -> Users(overlap)!UserType] BY <1>1, <1>2, <1>3
<1>8. added.role # "owner" /\ (added.role = "admin" => q.role = "owner")
  BY <1>3, <1>4 DEF Users!ValidateManagedRole
<1>9. UsersSound(overlap)'
  <2>1. Users(overlap)!SingleOwner' BY <1>5, <1>6, <1>8, UsersAssumption
        DEF UsersSound, Users!SingleOwner
  <2>2. ASSUME NEW u \in User, NEW v \in User, user'[u].there, user'[v].there,
               user'[u].email = user'[v].email
        PROVE  u = v
    <3>1. CASE user' = user BY <1>5, <2>2, <3>1 DEF UsersSound, Users!OneUserPerAddress
    <3>2. CASE user' # user
      <4>1. ~Users(overlap)!Taken(q.new.email) /\ user'[q.of] = added BY <1>1, <1>2, <3>2
      <4>2. \A w \in User : user[w].there =>
            user[w].email # added.email BY <1>3, <4>1 DEF Users!Taken
      <4>3. CASE u = q.of \/ v = q.of BY <1>6, <2>2, <4>1, <4>2, <4>3
      <4>4. CASE u # q.of /\ v # q.of BY <1>5, <1>6, <2>2, <4>4
                 DEF UsersSound, Users!OneUserPerAddress
      <4> QED BY <4>3, <4>4
    <3> QED BY <3>1, <3>2
  <2>3. ASSUME NEW u \in User, ~user'[u].there PROVE user'[u] = Users(overlap)!Nobody
    BY <1>3, <1>5, <1>6, <2>3 DEF UsersSound
  <2>4. user'[1].there BY <1>5, <1>6, UsersAssumption
  <2> QED BY <2>1, <2>2, <2>3, <2>4 DEF UsersSound, Users!OneUserPerAddress, Users!Nobody
<1>10. UsersInv(overlap)'
  <2>1. \A u \in User : user[u].there => user'[u].there BY <1>4, <1>6
  <2> QED BY <1>1, <1>6, <1>7, <1>9, <2>1, UsersWritten
<1>11. asking'[r].pc = "idle" BY <1>1, <1>2 DEF Users!Idle
<1>12. user'[q.of].role = "admin" => q.role = "owner" BY <1>5, <1>6, <1>8 DEF Users!Nobody
<1>13. ASSUME ~overlap PROVE Users(overlap)!WithinLimit
  <2> DEFINE Now == Users(overlap)!ActiveUsers
             Then == {v \in User : user'[v].there /\ user'[v].active}
  <2>1. Users(overlap)!UnderLimit BY <1>1, <1>13 DEF UsersInv, TurnSound
  <2>2. \A S : Users(overlap)!Cardinality(S) = Cardinality(S) BY DEF Users!Cardinality, Cardinality
  <2>3. Cardinality(Now) < limit BY <2>1, <2>2 DEF Users!UnderLimit
  <2>4. Now \subseteq User /\ IsFiniteSet(Now) BY UsersAssumption, FS_Subset DEF Users!ActiveUsers
  <2>5. Then \subseteq Now \cup {q.of} BY <1>2, <1>6 DEF Users!ActiveUsers
  <2> HIDE DEF Now
  <2>10. Cardinality(Now) \in Nat BY <2>4, FS_CardinalityType
  <2>11. /\ IsFiniteSet(Now \cup {q.of})
         /\ Cardinality(Now \cup {q.of}) = IF q.of \in
              Now THEN Cardinality(Now) ELSE Cardinality(Now) + 1
    BY <2>4, FS_AddElement
  <2>6. IsFiniteSet(Now \cup {q.of}) /\ Cardinality(Now \cup {q.of}) <= Cardinality(Now) + 1
    BY <2>10, <2>11
  <2>7. Cardinality(Then) <= Cardinality(Now \cup {q.of}) /\ Cardinality(Then) \in Nat
    BY <2>5, <2>6, FS_Subset, FS_CardinalityType
  <2>8. Cardinality(Now) \in Nat
        /\ Cardinality(Now \cup {q.of}) \in Nat BY <2>6, <2>10, FS_CardinalityType
  <2>9. Cardinality(Then) <= limit
    BY <1>2, <2>3, <2>6, <2>7, <2>8
  <2> QED BY <1>1, <2>2, <2>9 DEF Users!WithinLimit
<1>14. user[q.of].role # "admin" BY <1>5 DEF Users!Nobody
<1> QED BY <1>6, <1>10, <1>11, <1>12, <1>13, <1>14, UsersRow

\* The user whose row is written is not the owner, and becomes none.
LEMMA UsersWrite ==
    ASSUME NEW overlap \in BOOLEAN, UsersAssumption, UsersInv(overlap), NEW r \in Requests(overlap),
           Users(overlap)!Write(r)
    PROVE  UsersInv(overlap)' /\ UsersStepProps(overlap)
<1> DEFINE q == asking[r]
           old == user[q.of]
           written == [old EXCEPT !.role = IF q.new.role = q.read.role THEN @ ELSE q.new.role,
                                  !.active = IF q.new.active =
                                    q.read.active THEN @ ELSE q.new.active]
<1>1. /\ q.pc = "write" /\ asking' = [asking EXCEPT ![r] = Users(overlap)!Idle]
      /\ UNCHANGED <<limit, userChanges>>
      /\ user' = [user EXCEPT ![q.of].role = IF q.new.role = q.read.role THEN @ ELSE q.new.role,
                              ![q.of].active = IF q.new.active =
                                q.read.active THEN @ ELSE q.new.active]
  BY DEF Users!Write, Users!Ends
<1>2. /\ user \in [User -> Users(overlap)!UserType]
      /\ asking \in [Requests(overlap) -> RequestType(overlap)]
      /\ q \in RequestType(overlap) /\ q.of \in User /\ q.new \in Users(overlap)!UserType
      /\ old \in Users(overlap)!UserType /\ q.read \in Users(overlap)!UserType
  BY DEF UsersInv, Users!TypeOK, RequestType, Requests
<1>3. user' = [user EXCEPT ![q.of] = written] BY <1>1, <1>2
<1>4. /\ written \in Users(overlap)!UserType /\ written.there = old.there
      /\ written.email = old.email
      /\ written.role = IF q.new.role = q.read.role THEN old.role ELSE q.new.role
  BY <1>2 DEF Users!UserType
<1> HIDE DEF written
<1>5. /\ q.of # 1 /\ old.there /\ Users(overlap)!ValidateManagedUser(q.role, q.read.role)
      /\ q.new.role # q.read.role => Users(overlap)!ValidateManagedRole(q.role, q.new.role)
      /\ q.role \in {"owner", "admin"}
  BY <1>1 DEF UsersInv, RequestsSound
<1>6. UsersSound(overlap) /\ old.role # "owner" BY <1>2, <1>5
      DEF UsersInv, UsersSound, Users!SingleOwner
<1>7. /\ user' \in [User -> Users(overlap)!UserType] /\ user'[q.of] = written
      /\ \A u \in User : u # q.of => user'[u] = user[u]
      /\ \A u \in User : user'[u].there = user[u].there /\ user'[u].email = user[u].email
  BY <1>2, <1>3, <1>4
<1>8. written.role # "owner" /\ (written.role = "admin" /\ old.role # "admin" => q.role = "owner")
  BY <1>4, <1>5, <1>6 DEF Users!ValidateManagedRole
<1>9. UsersSound(overlap)'
  <2>1. Users(overlap)!SingleOwner' BY <1>5, <1>6, <1>7, <1>8, UsersAssumption
        DEF UsersSound, Users!SingleOwner
  <2>2. Users(overlap)!OneUserPerAddress' BY <1>6, <1>7 DEF UsersSound, Users!OneUserPerAddress
  <2>3. ASSUME NEW u \in User, ~user'[u].there PROVE user'[u] = Users(overlap)!Nobody
    BY <1>5, <1>6, <1>7, <2>3 DEF UsersSound
  <2>4. user'[1].there BY <1>5, <1>6, <1>7, UsersAssumption DEF UsersSound
  <2> QED BY <2>1, <2>2, <2>3, <2>4 DEF UsersSound, Users!Nobody
<1>10. UsersInv(overlap)'
  <2>1. \A u \in User : user[u].there => user'[u].there BY <1>7
  <2> QED BY <1>1, <1>7, <1>9, <2>1, UsersWritten
<1>11. asking'[r].pc = "idle" BY <1>1, <1>2 DEF Users!Idle
<1>12. ASSUME ~overlap PROVE Users(overlap)!WithinLimit BY <1>7 DEF Users!WithinLimit
<1>13. ASSUME ~overlap, old.role = "admin" PROVE q.role = "owner"
  <2>1. q.read = old BY <1>1, <1>13 DEF UsersInv, TurnSound
  <2> QED BY <1>5, <1>13, <2>1 DEF Users!ValidateManagedUser
<1> QED BY <1>7, <1>8, <1>10, <1>11, <1>12, <1>13, UsersRow

\* A step of the workspace: what holds of its users is kept.
LEMMA UsersStep ==
    ASSUME NEW overlap \in BOOLEAN, UsersAssumption, UsersInv(overlap), Users(overlap)!Next
    PROVE  UsersInv(overlap)' /\ UsersStepProps(overlap)
<1>1. ASSUME user' = user PROVE UsersStepProps(overlap)
  BY <1>1 DEF UsersStepProps, Users!OwnerMakesAdmins, Users!ThroughOwner, Users!WithinLimit
<1>2. ASSUME NEW r \in Requests(overlap), NEW by \in User, NEW of \in User,
             NEW role \in Users(overlap)!Role,
             NEW active_ \in BOOLEAN, NEW email \in Email,
             Users(overlap)!Ask(r, by, of, [there |-> FALSE, role |-> role, active |-> active_,
               email |-> email])
      PROVE  UsersInv(overlap)' /\ UsersStepProps(overlap)
  <2>1. [there |-> FALSE, role |-> role, active |-> active_,
        email |-> email] \in Users(overlap)!UserType
    BY DEF Users!UserType
  <2>2. user' = user BY <1>2 DEF Users!Ask
  <2> QED BY <1>1, <1>2, <2>1, <2>2, UsersAsk
<1>3. ASSUME NEW r \in Requests(overlap), Users(overlap)!CheckCreate(r)
             \/ Users(overlap)!CheckUpdate(r)
      PROVE  UsersInv(overlap)' /\ UsersStepProps(overlap)
  <2>1. user' = user BY <1>3 DEF Users!CheckCreate, Users!CheckUpdate
  <2> QED BY <1>1, <1>3, <2>1, UsersCheck
<1>4. ASSUME NEW n \in 1..(IF overlap THEN MaxLimitOverlapping ELSE MaxLimitInTurn),
             Users(overlap)!ChangePlan(n)
      PROVE  UsersInv(overlap)' /\ UsersStepProps(overlap)
  <2>1. /\ limit' = n /\ userChanges' = userChanges + 1 /\ UNCHANGED <<user, asking>>
        /\ ~overlap => \A o \in Requests(overlap) : asking[o].pc = "idle"
    BY <1>4 DEF Users!ChangePlan, Users!Served, Requests
  <2>2. Users(overlap)!TypeOK' BY <2>1 DEF UsersInv, Users!TypeOK
  <2>3. UsersSound(overlap)' BY <2>1
        DEF UsersInv, UsersSound, Users!SingleOwner, Users!OneUserPerAddress, Users!Nobody
  <2>4. RequestsSound(overlap)'
    BY <2>1
       DEF UsersInv, RequestsSound, Requests, Users!ValidateManagedRole, Users!ValidateManagedUser
  <2>5. ~overlap => TurnSound(overlap)' BY <2>1 DEF TurnSound, Requests
  <2> QED BY <1>1, <2>1, <2>2, <2>3, <2>4, <2>5 DEF UsersInv
<1> QED BY <1>2, <1>3, <1>4, UsersInsert, UsersWrite DEF Users!Next, Requests

\* A step in which nothing of the users moves.
LEMMA UsersStutter ==
    ASSUME NEW overlap \in BOOLEAN, UsersInv(overlap), UNCHANGED userVars
    PROVE  UsersInv(overlap)'
<1>1. UNCHANGED <<user, limit, asking, userChanges>> BY DEF userVars
<1>2. Users(overlap)!TypeOK' BY <1>1 DEF UsersInv, Users!TypeOK
<1>3. UsersSound(overlap)' BY <1>1
      DEF UsersInv, UsersSound, Users!SingleOwner, Users!OneUserPerAddress, Users!Nobody
<1>4. RequestsSound(overlap)'
  BY <1>1
     DEF UsersInv, RequestsSound, Requests, Users!ValidateManagedRole, Users!ValidateManagedUser
<1>5. ~overlap => TurnSound(overlap)'
  BY <1>1 DEF UsersInv, TurnSound, Requests, Users!UnderLimit, Users!ActiveUsers
<1> QED BY <1>2, <1>3, <1>4, <1>5 DEF UsersInv

-----------------------------------------------------------------------------
(* MailOAuth *)

\* A callback that is being answered.
CallbackType ==
    [pc: {"idle", "check", "exchange", "read", "write"}, flow: Flow \cup {"imap"},
     mailbox: Mailbox \cup {NoMailbox}, new: BOOLEAN, came: 0..MaxFlowTime, mismatch: BOOLEAN]

\* An authorization that has not begun has no state, cookie, callback or mailbox; while its
\* state is kept nobody has come back with it.
FlowsBegun ==
    \A f \in Flow :
        /\ flow[f].began = -1 => oauthState[f] = -1 /\ oauthCookie[f] = -1
        /\ flow[f].began = -1 \/ oauthState[f] # -1 =>
              /\ \A c \in FlowRequest : callback[c].flow # f
              /\ \A m \in Mailbox : connected[f][m] = 0
        /\ flow[f].began # -1 /\ (\A m \in Mailbox : connected[f][m] = 0) =>
              oauthCookie[f] = flow[f].began + CookieLife
\* A callback has the state it has taken for itself, and nothing was connected with it.
CallbacksSound ==
    /\ \A c \in FlowRequest : callback[c].flow \in Flow =>
         \A m \in Mailbox : connected[callback[c].flow][m] = 0
    /\ \A c, d \in FlowRequest : callback[c].flow \in Flow /\ callback[d].flow = callback[c].flow =>
         c = d
    /\ \A c \in FlowRequest :
          /\ callback[c].pc # "idle" => callback[c].came = oauthClock
          /\ callback[c].pc \in {"check", "exchange"} => callback[c].flow \in Flow
          /\ callback[c].pc \in {"read", "write"} =>
                /\ callback[c].mailbox \in Mailbox
                /\ callback[c].flow \in Flow =>
                     flow[callback[c].flow].target \in {NoMailbox, callback[c].mailbox}
          /\ callback[c].mismatch = FALSE \/ callback[c].flow \in Flow
\* Who has lost the permission has it checked.
StoppedSound ==
    /\ operator = FALSE \/ stopped = {}
    /\ \A c \in FlowRequest : callback[c].flow \in stopped => callback[c].pc \in {"idle", "check"}

\* The inductive invariant of the connections.  An authorization's state is kept, or one callback
\* has taken it, or it has connected: never two of these; until then its cookie ends when it began
\* plus its life; a callback of who lost the permission is not beyond its check.
FlowsInv ==
    /\ Connections!TypeOK /\ FlowsBegun /\ CallbacksSound /\ StoppedSound
    /\ Connections!StateUsedOnce /\ Connections!OneAccountPerMailbox
    /\ Connections!OnlyTheTarget /\ Connections!OwnBrowserIsKnown

\* No authorization has begun.
LEMMA FlowsInit ==
    ASSUME FlowsAssumption, Connections!Init
    PROVE  FlowsInv
<1> DEFINE new == [target |-> NoMailbox, began |-> -1]
           none == Connections!IdleRequest
<1>1. /\ oauthClock = 0 /\ flow = [f \in Flow |-> new]
      /\ oauthState = [f \in Flow |-> -1] /\ oauthCookie = [f \in Flow |-> -1] /\ operator = TRUE
      /\ callback = [c \in FlowRequest |-> none] /\ connected = [f \in Flow |-> [m \in Mailbox |-> 0]]
      /\ stopped = {} /\ roleChanges = 0 /\ oauthFailures = 0
      /\ \E m \in Mailbox : rows = [b \in Mailbox |-> IF b = m THEN 1 ELSE 0]
  BY DEF Connections!Init
<1>2. none \in CallbackType /\ none.pc = "idle" /\ none.flow = "imap" /\ none.mismatch = FALSE
  BY FlowsAssumption DEF Connections!IdleRequest, CallbackType
<1>3. new \in [target: Mailbox \cup {NoMailbox}, began: Connections!Time] /\ new.began = -1
  BY DEF Connections!Time
<1>4. rows \in [Mailbox -> Nat] /\ \A m \in Mailbox : rows[m] <= 1 BY <1>1
<1>5. /\ callback \in [FlowRequest -> CallbackType]
      /\ flow \in [Flow -> [target: Mailbox \cup {NoMailbox}, began: Connections!Time]]
      /\ \A c \in FlowRequest : callback[c].pc = "idle" /\ callback[c].flow = "imap"
           /\ callback[c].mismatch = FALSE
      /\ \A f \in Flow : flow[f].began = -1
  BY <1>1, <1>2, <1>3
<1>6. Connections!TypeOK
  BY <1>1, <1>4, <1>5, FlowsAssumption DEF Connections!TypeOK, Connections!Time, CallbackType
<1>7. FlowsBegun /\ CallbacksSound /\ StoppedSound
  BY <1>1, <1>5, FlowsAssumption DEF FlowsBegun, CallbacksSound, StoppedSound
<1> QED
  BY <1>1, <1>4, <1>5, <1>6, <1>7, FlowsAssumption
     DEF FlowsInv, Connections!StateUsedOnce, Connections!OneAccountPerMailbox,
     Connections!OnlyTheTarget, Connections!OwnBrowserIsKnown

\* A callback that is over is idle.
LEMMA NoCallback ==
    ASSUME FlowsAssumption
    PROVE  /\ Connections!IdleRequest \in CallbackType /\ Connections!IdleRequest.pc = "idle"
           /\ Connections!IdleRequest.flow = "imap" /\ Connections!IdleRequest.mismatch = FALSE
           /\ "imap" \notin Flow
BY FlowsAssumption DEF Connections!IdleRequest, CallbackType

\* An authorization begins.
LEMMA FlowsAuthorize ==
    ASSUME FlowsAssumption, FlowsInv, NEW f \in Flow, NEW t \in Mailbox \cup {NoMailbox},
           Connections!Authorize(f, t)
    PROVE  FlowsInv'
<1> DEFINE begun == [target |-> t, began |-> oauthClock]
<1>1. /\ flow[f].began = -1 /\ flow' = [flow EXCEPT ![f] = begun]
      /\ oauthState' = [oauthState EXCEPT ![f] = oauthClock + StateLife]
      /\ oauthCookie' = [oauthCookie EXCEPT ![f] = oauthClock + CookieLife]
      /\ UNCHANGED <<oauthClock, operator, rows, callback, connected, stopped, roleChanges,
           oauthFailures>>
  BY DEF Connections!Authorize, Connections!BindBrowser
<1>2. /\ oauthClock \in 0..MaxFlowTime
      /\ flow \in [Flow -> [target: Mailbox \cup {NoMailbox}, began: Connections!Time]]
      /\ oauthState \in [Flow -> Connections!Time] /\ oauthCookie \in [Flow -> Connections!Time]
  BY DEF FlowsInv, Connections!TypeOK
<1>3. /\ begun \in [target: Mailbox \cup {NoMailbox}, began: Connections!Time] /\ begun.target = t
      /\ begun.began = oauthClock /\ oauthClock # -1
      /\ oauthClock + StateLife \in Connections!Time /\ oauthClock + CookieLife \in Connections!Time
      /\ oauthClock + StateLife # -1
  BY <1>2, FlowsAssumption DEF Connections!Time
<1> HIDE DEF begun
<1>4. /\ flow'[f] = begun /\ oauthState'[f] = oauthClock + StateLife
      /\ oauthCookie'[f] = oauthClock + CookieLife
      /\ \A g \in Flow : g # f =>
           flow'[g] = flow[g] /\ oauthState'[g] = oauthState[g] /\ oauthCookie'[g] = oauthCookie[g]
  BY <1>1, <1>2
<1>5. (\A c \in FlowRequest : callback[c].flow # f) /\ \A m \in Mailbox : connected[f][m] = 0
  BY <1>1 DEF FlowsInv, FlowsBegun
<1>6. Connections!TypeOK' BY <1>1, <1>2, <1>3 DEF FlowsInv, Connections!TypeOK, Connections!Time
<1>7. FlowsBegun' BY <1>1, <1>3, <1>4, <1>5 DEF FlowsInv, FlowsBegun
<1>8. CallbacksSound' BY <1>1, <1>4, <1>5 DEF FlowsInv, CallbacksSound
<1>9. StoppedSound' BY <1>1 DEF FlowsInv, StoppedSound
<1>10. Connections!StateUsedOnce' /\ Connections!OneAccountPerMailbox'
  BY <1>1 DEF FlowsInv, Connections!StateUsedOnce, Connections!OneAccountPerMailbox
<1>11. Connections!OnlyTheTarget' BY <1>1, <1>4, <1>5 DEF FlowsInv, Connections!OnlyTheTarget
<1>12. Connections!OwnBrowserIsKnown'
  <2>1. \A c \in FlowRequest : callback[c].flow # f /\ (callback[c].mismatch = FALSE
        \/ callback[c].flow \in Flow)
    BY <1>5 DEF FlowsInv, CallbacksSound
  <2> QED BY <1>1, <1>4, <2>1 DEF FlowsInv, Connections!OwnBrowserIsKnown
<1> QED BY <1>6, <1>7, <1>8, <1>9, <1>10, <1>11, <1>12 DEF FlowsInv

\* A callback takes a state: nobody has it, and nothing was connected with it.
LEMMA FlowsConsume ==
    ASSUME FlowsAssumption, FlowsInv, NEW c \in FlowRequest, NEW f \in Flow, Connections!Consume(c, f)
    PROVE  FlowsInv'
<1> DEFINE q == [Connections!IdleRequest EXCEPT !.pc = "check", !.flow = f, !.came = oauthClock]
<1>1. /\ callback[c].pc = "idle" /\ oauthState[f] > oauthClock
      /\ oauthState' = [oauthState EXCEPT ![f] = -1]
      /\ callback' = [callback EXCEPT ![c] = q]
      /\ UNCHANGED <<oauthClock, flow, oauthCookie, operator, rows, connected, stopped, roleChanges,
           oauthFailures>>
  BY DEF Connections!Consume
<1>2. /\ oauthClock \in 0..MaxFlowTime /\ oauthState \in [Flow -> Connections!Time]
      /\ callback \in [FlowRequest -> CallbackType]
  BY DEF FlowsInv, Connections!TypeOK, CallbackType
<1>3. q \in CallbackType /\ q.pc = "check" /\ q.flow = f /\ q.came = oauthClock
      /\ q.mismatch = FALSE
  BY <1>2, NoCallback DEF CallbackType
<1> HIDE DEF q
<1>4. /\ callback'[c] = q /\ (\A d \in FlowRequest : d # c => callback'[d] = callback[d])
      /\ callback' \in [FlowRequest -> CallbackType]
      /\ oauthState'[f] = -1 /\ \A g \in Flow : g # f => oauthState'[g] = oauthState[g]
  BY <1>1, <1>2, <1>3
<1>5. oauthState[f] # -1 BY <1>1, <1>2
<1>6. (\A d \in FlowRequest : callback[d].flow # f) /\ flow[f].began # -1
      /\ \A m \in Mailbox : connected[f][m] = 0
  BY <1>5 DEF FlowsInv, FlowsBegun
<1>7. Connections!TypeOK' BY <1>1, <1>2, <1>4
      DEF FlowsInv, Connections!TypeOK, Connections!Time, CallbackType
<1>8. FlowsBegun'
  <2>1. \A g \in Flow : \A d \in FlowRequest : callback'[d].flow = g => g = f \/ callback[d].flow = g
    BY <1>3, <1>4
  <2> QED BY <1>1, <1>4, <1>6, <2>1 DEF FlowsInv, FlowsBegun
<1>9. CallbacksSound' BY <1>1, <1>3, <1>4, <1>6 DEF FlowsInv, CallbacksSound
<1>10. StoppedSound' BY <1>1, <1>3, <1>4 DEF FlowsInv, StoppedSound
<1>11. Connections!StateUsedOnce' /\ Connections!OneAccountPerMailbox' /\ Connections!OnlyTheTarget'
  BY <1>1
     DEF FlowsInv, Connections!StateUsedOnce, Connections!OneAccountPerMailbox,
     Connections!OnlyTheTarget
<1>12. Connections!OwnBrowserIsKnown' BY <1>1, <1>3, <1>4
       DEF FlowsInv, Connections!OwnBrowserIsKnown
<1> QED BY <1>7, <1>8, <1>9, <1>10, <1>11, <1>12 DEF FlowsInv

\* Only callback c changes, to what it may be.
CallbackMay(c, q) ==
    /\ q \in CallbackType /\ q.flow \in {callback[c].flow, "imap"}
    /\ q.pc # "idle" => q.came = oauthClock
    /\ q.pc \in {"check", "exchange"} => q.flow \in Flow
    /\ q.pc \in {"read", "write"} =>
          /\ q.mailbox \in Mailbox
          /\ q.flow \in Flow => flow[q.flow].target \in {NoMailbox, q.mailbox}
    /\ q.flow \in stopped => q.pc \in {"idle", "check"}
    /\ \/ q.mismatch = FALSE
       \/ /\ q.flow \in Flow
          /\ \/ q.came >= flow[q.flow].began + CookieLife
             \/ \E m \in Mailbox : connected[q.flow][m] > 0

\* A callback goes on, and nothing else of the connections moves.
LEMMA FlowsCallback ==
    ASSUME FlowsAssumption, FlowsInv, NEW c \in FlowRequest, NEW q, CallbackMay(c, q),
           callback' = [callback EXCEPT ![c] = q],
           UNCHANGED <<oauthClock, flow, oauthState, oauthCookie, operator, rows, connected,
             stopped, roleChanges>>,
           oauthFailures' \in Nat
    PROVE  FlowsInv'
<1>1. /\ callback \in [FlowRequest -> CallbackType] /\ q \in CallbackType BY
         DEF FlowsInv, Connections!TypeOK, CallbackType, CallbackMay
<1>2. /\ callback'[c] = q /\ (\A d \in FlowRequest : d # c => callback'[d] = callback[d])
      /\ callback' \in [FlowRequest -> CallbackType]
  BY <1>1
<1>3. \A d \in FlowRequest : callback'[d].flow \in Flow => callback'[d].flow = callback[d].flow
  BY <1>2, NoCallback DEF CallbackMay
<1>4. Connections!TypeOK' BY <1>2 DEF FlowsInv, Connections!TypeOK, Connections!Time, CallbackType
<1>5. FlowsBegun' BY <1>3 DEF FlowsInv, FlowsBegun
<1>6. CallbacksSound'
  <2>1. \A d \in FlowRequest : callback'[d].flow \in Flow =>
        \A m \in Mailbox : connected[callback'[d].flow][m] = 0
    BY <1>3 DEF FlowsInv, CallbacksSound
  <2>2. \A d, e \in FlowRequest : callback'[d].flow \in Flow
        /\ callback'[e].flow = callback'[d].flow => d = e
    BY <1>3 DEF FlowsInv, CallbacksSound
  <2>3. ASSUME NEW d \in FlowRequest
        PROVE  /\ callback'[d].pc # "idle" => callback'[d].came = oauthClock
               /\ callback'[d].pc \in {"check", "exchange"} => callback'[d].flow \in Flow
               /\ callback'[d].pc \in {"read", "write"} =>
                     /\ callback'[d].mailbox \in Mailbox
                     /\ callback'[d].flow \in Flow =>
                          flow[callback'[d].flow].target \in {NoMailbox, callback'[d].mailbox}
               /\ callback'[d].mismatch = FALSE \/ callback'[d].flow \in Flow
    <3>1. CASE d = c BY <1>2, <3>1 DEF CallbackMay
    <3>2. CASE d # c BY <1>2, <3>2 DEF FlowsInv, CallbacksSound
    <3> QED BY <3>1, <3>2
  <2> QED BY <2>1, <2>2, <2>3 DEF CallbacksSound
<1>7. StoppedSound' BY <1>2 DEF FlowsInv, StoppedSound, CallbackMay
<1>8. Connections!StateUsedOnce' /\ Connections!OneAccountPerMailbox' /\ Connections!OnlyTheTarget'
  BY DEF FlowsInv, Connections!StateUsedOnce, Connections!OneAccountPerMailbox,
     Connections!OnlyTheTarget
<1>9. Connections!OwnBrowserIsKnown' BY <1>2
      DEF FlowsInv, Connections!OwnBrowserIsKnown, CallbackMay
<1> QED BY <1>4, <1>5, <1>6, <1>7, <1>8, <1>9 DEF FlowsInv

\* A callback that is checked, knows its mailbox, or has read the row.
LEMMA FlowsGoOn ==
    ASSUME FlowsAssumption, FlowsInv, NEW c \in FlowRequest, NEW m,
           \/ Connections!Check(c)
           \/ m \in Mailbox /\ (Connections!Exchange(c, m) \/ Connections!Imap(c, m))
           \/ Connections!Read(c) \/ Connections!WriteConflicts(c) \/ Connections!Fail(c)
    PROVE  FlowsInv'
<1> DEFINE r == callback[c]
           none == Connections!IdleRequest
<1>1. /\ callback \in [FlowRequest -> CallbackType] /\ r \in CallbackType /\ oauthFailures \in Nat
      /\ oauthClock \in 0..MaxFlowTime
      /\ oauthCookie \in [Flow -> Connections!Time] /\ stopped \subseteq Flow
  BY DEF FlowsInv, Connections!TypeOK, CallbackType
<1>2. CallbackMay(c, none) BY NoCallback, <1>1 DEF CallbackMay
<1>3. /\ UNCHANGED <<oauthClock, flow, oauthState, oauthCookie, operator, rows, connected, stopped,
         roleChanges>>
      /\ oauthFailures' \in Nat
  BY <1>1 DEF Connections!Check, Connections!Exchange, Connections!Imap, Connections!Read,
              Connections!WriteConflicts, Connections!Fail
<1>4. /\ r.pc # "idle" => r.came = oauthClock
      /\ r.pc \in {"check", "exchange"} => r.flow \in Flow
      /\ r.pc \in {"read", "write"} => r.mailbox \in Mailbox
                                       /\ (r.flow \in Flow =>
                                            flow[r.flow].target \in {NoMailbox, r.mailbox})
      /\ r.mismatch = FALSE \/ r.flow \in Flow
      /\ r.flow \in Flow => \A b \in Mailbox : connected[r.flow][b] = 0
      /\ r.flow \in stopped => r.pc \in {"idle", "check"}
      /\ operator = FALSE \/ stopped = {}
  BY DEF FlowsInv, CallbacksSound, StoppedSound
<1>5. r.mismatch = FALSE \/ (r.flow \in Flow
          /\ \/ r.came >= flow[r.flow].began + CookieLife
             \/ \E b \in Mailbox : connected[r.flow][b] > 0)
  BY <1>4 DEF FlowsInv, Connections!OwnBrowserIsKnown
<1>6. PICK q : CallbackMay(c, q) /\ callback' = [callback EXCEPT ![c] = q]
  <2>1. CASE Connections!Check(c)
    <3>1. r.pc = "check" /\ r.flow \in Flow /\ r.came = oauthClock BY <1>4, <2>1
          DEF Connections!Check
    <3>2. CASE oauthCookie[r.flow] <= oauthClock
      <4> DEFINE q == [r EXCEPT !.pc = "idle", !.mismatch = TRUE]
      <4>1. callback' = [callback EXCEPT ![c] = q] BY <2>1, <3>2 DEF Connections!Check
      <4>2. q \in CallbackType /\ q.pc = "idle" /\ q.flow = r.flow /\ q.came = r.came BY <1>1
            DEF CallbackType
      <4>3. \A b \in Mailbox : connected[r.flow][b] = 0 BY <1>4, <3>1
      <4>4. flow[r.flow].began # -1 BY <3>1 DEF FlowsInv, FlowsBegun
      <4>5. oauthCookie[r.flow] = flow[r.flow].began + CookieLife BY <3>1, <4>3, <4>4
            DEF FlowsInv, FlowsBegun
      <4>6. q.came >= flow[r.flow].began + CookieLife
        BY <1>1, <3>1, <3>2, <4>2, <4>5 DEF Connections!Time
      <4> HIDE DEF q
      <4>7. CallbackMay(c, q) BY <3>1, <4>2, <4>6 DEF CallbackMay
      <4> QED BY <4>1, <4>7
    <3>3. CASE ~(oauthCookie[r.flow] <= oauthClock) /\ operator = TRUE
      <4> DEFINE q == [r EXCEPT !.pc = "exchange"]
      <4>1. callback' = [callback EXCEPT ![c] = q] BY <2>1, <3>3 DEF Connections!Check
      <4>2. q \in CallbackType /\ q.pc = "exchange" /\ q.flow = r.flow /\ q.came = r.came
            /\ q.mismatch = r.mismatch
        BY <1>1 DEF CallbackType
      <4> HIDE DEF q
      <4>3. stopped = {} BY <1>4, <3>3
      <4>4. CallbackMay(c, q) BY <1>5, <3>1, <4>2, <4>3 DEF CallbackMay
      <4> QED BY <4>1, <4>4
    <3>4. CASE ~(oauthCookie[r.flow] <= oauthClock) /\ operator # TRUE
      <4>1. operator \in BOOLEAN BY DEF FlowsInv, Connections!TypeOK
      <4>2. callback' = [callback EXCEPT ![c] = none] BY <2>1, <3>4, <4>1 DEF Connections!Check
      <4> QED BY <1>2, <4>2
    <3> QED BY <3>2, <3>3, <3>4
  <2>2. CASE m \in Mailbox /\ Connections!Exchange(c, m)
    <3>1. r.pc = "exchange" BY <2>2 DEF Connections!Exchange
    <3>2. CASE callback' = [callback EXCEPT ![c] = none] BY <1>2, <3>2
    <3>3. CASE callback' # [callback EXCEPT ![c] = none]
      <4> DEFINE q == [r EXCEPT !.pc = "read", !.mailbox = m]
      <4>1. /\ callback' = [callback EXCEPT ![c].pc = "read", ![c].mailbox = m]
            /\ flow[r.flow].target \in {NoMailbox, m}
        BY <2>2, <3>3 DEF Connections!Exchange, Connections!SameTarget, Connections!Ends
      <4>2. callback' = [callback EXCEPT ![c] = q] BY <1>1, <4>1
      <4>3. q \in CallbackType /\ q.pc = "read" /\ q.flow = r.flow /\ q.came = r.came
            /\ q.mismatch = r.mismatch /\ q.mailbox = m
        BY <1>1, <2>2 DEF CallbackType
      <4> HIDE DEF q
      <4>4. CallbackMay(c, q) BY <1>4, <1>5, <2>2, <3>1, <4>1, <4>3 DEF CallbackMay
      <4> QED BY <4>2, <4>4
    <3> QED BY <3>2, <3>3
  <2>3. CASE m \in Mailbox /\ Connections!Imap(c, m)
    <3> DEFINE q == [none EXCEPT !.pc = "read", !.mailbox = m, !.came = oauthClock]
    <3>1. callback' = [callback EXCEPT ![c] = q] BY <2>3 DEF Connections!Imap
    <3>2. q \in CallbackType /\ q.pc = "read" /\ q.flow = "imap" /\ q.came = oauthClock
          /\ q.mismatch = FALSE /\ q.mailbox = m
      BY <1>1, <2>3, NoCallback DEF CallbackType
    <3> HIDE DEF q
    <3>3. CallbackMay(c, q) BY <1>1, <2>3, <3>2, NoCallback DEF CallbackMay
    <3> QED BY <3>1, <3>3
  <2>4. CASE Connections!Read(c)
    <3> DEFINE q == [r EXCEPT !.pc = "write", !.new = (rows[r.mailbox] = 0)]
    <3>1. r.pc = "read"
          /\ callback' = [callback EXCEPT ![c].pc = "write", ![c].new = (rows[r.mailbox] = 0)]
      BY <2>4 DEF Connections!Read
    <3>2. callback' = [callback EXCEPT ![c] = q] BY <1>1, <3>1
    <3>3. q \in CallbackType /\ q.pc = "write" /\ q.flow = r.flow /\ q.came = r.came
          /\ q.mismatch = r.mismatch
          /\ q.mailbox = r.mailbox
      BY <1>1 DEF CallbackType
    <3> HIDE DEF q
    <3>4. CallbackMay(c, q) BY <1>4, <1>5, <3>1, <3>3 DEF CallbackMay
    <3> QED BY <3>2, <3>4
  <2>5. CASE Connections!WriteConflicts(c) \/ Connections!Fail(c)
    BY <1>2, <2>5 DEF Connections!WriteConflicts, Connections!Fail, Connections!Ends
  <2> QED BY <2>1, <2>2, <2>3, <2>4, <2>5
<1> QED BY <1>3, <1>6, FlowsCallback

\* The row is added, once, or written, and the authorization has connected its mailbox.
LEMMA FlowsWrite ==
    ASSUME FlowsAssumption, FlowsInv, NEW c \in FlowRequest, Connections!Write(c)
    PROVE  FlowsInv' /\ Connections!StoppedConnectNothing
<1> DEFINE r == callback[c]
           none == Connections!IdleRequest
<1>1. /\ r.pc = "write"
      /\ \/ r.new /\ rows[r.mailbox] = 0 /\ rows' = [rows EXCEPT ![r.mailbox] = @ + 1]
         \/ ~r.new /\ UNCHANGED rows
      /\ connected' = IF r.flow =
           "imap" THEN connected ELSE [connected EXCEPT ![r.flow][r.mailbox] = @ + 1]
      /\ oauthCookie' = IF r.flow = "imap" THEN oauthCookie ELSE [oauthCookie EXCEPT ![r.flow] = -1]
      /\ callback' = [callback EXCEPT ![c] = none]
      /\ UNCHANGED <<oauthClock, flow, oauthState, operator, stopped, roleChanges, oauthFailures>>
  BY DEF Connections!Write, Connections!Unique, Connections!Ends
<1>2. /\ callback \in [FlowRequest -> CallbackType] /\ r \in CallbackType /\ rows \in [Mailbox -> Nat]
      /\ connected \in [Flow -> [Mailbox -> Nat]] /\ oauthCookie \in [Flow -> Connections!Time]
      /\ r.flow \in Flow \cup {"imap"}
  BY DEF FlowsInv, Connections!TypeOK, CallbackType
<1>3. /\ r.mailbox \in Mailbox /\ (r.flow \in Flow =>
         flow[r.flow].target \in {NoMailbox, r.mailbox})
      /\ r.flow \in Flow => \A m \in Mailbox : connected[r.flow][m] = 0
      /\ r.flow \notin stopped
      /\ \A d \in FlowRequest : r.flow \in Flow /\ callback[d].flow = r.flow => d = c
  BY <1>1 DEF FlowsInv, CallbacksSound, StoppedSound
<1>4. /\ callback'[c] = none /\ (\A d \in FlowRequest : d # c => callback'[d] = callback[d])
      /\ callback' \in [FlowRequest -> CallbackType]
  BY <1>1, <1>2, NoCallback
<1>5. rows' \in [Mailbox -> Nat] /\ \A m \in Mailbox : rows'[m] <= 1
  <2>1. \A m \in Mailbox : rows[m] <= 1 BY DEF FlowsInv, Connections!OneAccountPerMailbox
  <2> QED BY <1>1, <1>2, <1>3, <2>1
<1>6. /\ connected' \in [Flow -> [Mailbox -> Nat]] /\ oauthCookie' \in [Flow -> Connections!Time]
      /\ \A g \in Flow : g # r.flow =>
           connected'[g] = connected[g] /\ oauthCookie'[g] = oauthCookie[g]
      /\ r.flow \in Flow => connected'[r.flow] = [connected[r.flow] EXCEPT ![r.mailbox] = @ + 1]
  <2>1. CASE r.flow = "imap" BY <1>1, <1>2, <2>1, NoCallback
  <2>2. CASE r.flow \in Flow
    <3>1. connected' = [connected EXCEPT ![r.flow] = [connected[r.flow] EXCEPT ![r.mailbox] =
          @ + 1]]
      BY <1>1, <1>2, <2>2, NoCallback
    <3>2. [connected[r.flow] EXCEPT ![r.mailbox] = @ + 1] \in [Mailbox -> Nat] BY <1>2, <1>3, <2>2
    <3>3. oauthCookie' = [oauthCookie EXCEPT ![r.flow] = -1] BY <1>1, <2>2, NoCallback
    <3> QED BY <1>2, <2>2, <3>1, <3>2, <3>3 DEF Connections!Time
  <2> QED BY <1>2, <2>1, <2>2
<1>7. /\ r.flow \in Flow => connected'[r.flow][r.mailbox] = 1
      /\ \A m \in Mailbox : r.flow \in Flow /\ m # r.mailbox => connected'[r.flow][m] = 0
  <2>1. SUFFICES ASSUME r.flow \in Flow
                 PROVE  connected'[r.flow][r.mailbox] = 1 /\ \A m \in Mailbox : m # r.mailbox =>
                        connected'[r.flow][m] = 0
    OBVIOUS
  <2>2. connected[r.flow] \in [Mailbox -> Nat] BY <1>2, <2>1
  <2> QED BY <1>3, <1>6, <2>1, <2>2
<1>8. \A d \in FlowRequest : callback'[d].flow \in Flow =>
      d # c /\ callback'[d].flow = callback[d].flow /\ callback[d].flow # r.flow
  BY <1>3, <1>4, NoCallback
<1>9. Connections!TypeOK' BY <1>1, <1>4, <1>5, <1>6
      DEF FlowsInv, Connections!TypeOK, Connections!Time, CallbackType
<1>10. FlowsBegun'
  <2>1. SUFFICES ASSUME NEW f \in Flow
                 PROVE  /\ flow[f].began = -1 => oauthState[f] = -1 /\ oauthCookie'[f] = -1
                        /\ flow[f].began = -1 \/ oauthState[f] # -1 =>
                              /\ \A d \in FlowRequest : callback'[d].flow # f
                              /\ \A m \in Mailbox : connected'[f][m] = 0
                        /\ flow[f].began # -1 /\ (\A m \in Mailbox : connected'[f][m] = 0) =>
                              oauthCookie'[f] = flow[f].began + CookieLife
    BY <1>1 DEF FlowsBegun
  <2>2. CASE f = r.flow
    <3>1. flow[f].began # -1 /\ oauthState[f] = -1 BY <2>1, <2>2 DEF FlowsInv, FlowsBegun
    <3> QED BY <1>3, <1>7, <2>1, <2>2, <3>1
  <2>3. CASE f # r.flow
    <3>1. connected'[f] = connected[f] /\ oauthCookie'[f] = oauthCookie[f] BY <1>6, <2>1, <2>3
    <3>2. \A d \in FlowRequest : callback'[d].flow = f => callback[d].flow = f BY <1>8, <2>1
    <3> QED BY <2>1, <3>1, <3>2 DEF FlowsInv, FlowsBegun
  <2> QED BY <2>2, <2>3
<1>11. CallbacksSound'
  <2>1. \A d \in FlowRequest : callback'[d].flow \in Flow =>
        \A m \in Mailbox : connected'[callback'[d].flow][m] = 0
    BY <1>6, <1>8 DEF FlowsInv, CallbacksSound
  <2>2. \A d, e \in FlowRequest : callback'[d].flow \in Flow
        /\ callback'[e].flow = callback'[d].flow => d = e
    BY <1>8 DEF FlowsInv, CallbacksSound
  <2>3. ASSUME NEW d \in FlowRequest
        PROVE  /\ callback'[d].pc # "idle" => callback'[d].came = oauthClock
               /\ callback'[d].pc \in {"check", "exchange"} => callback'[d].flow \in Flow
               /\ callback'[d].pc \in {"read", "write"} =>
                     /\ callback'[d].mailbox \in Mailbox
                     /\ callback'[d].flow \in Flow =>
                          flow[callback'[d].flow].target \in {NoMailbox, callback'[d].mailbox}
               /\ callback'[d].mismatch = FALSE \/ callback'[d].flow \in Flow
    <3>1. CASE d = c BY <1>4, <3>1, NoCallback
    <3>2. CASE d # c BY <1>4, <3>2 DEF FlowsInv, CallbacksSound
    <3> QED BY <3>1, <3>2
  <2> QED BY <1>1, <2>1, <2>2, <2>3 DEF CallbacksSound
<1>12. StoppedSound' BY <1>1, <1>4, NoCallback DEF FlowsInv, StoppedSound
<1>13. Connections!StateUsedOnce'
  <2>1. SUFFICES ASSUME NEW f \in Flow, NEW m \in Mailbox, NEW n \in Mailbox
                 PROVE  connected'[f][m] <= 1 /\ (connected'[f][m] + connected'[f][n] > 1 => m = n)
    BY DEF Connections!StateUsedOnce
  <2>2. CASE f = r.flow BY <1>7, <2>1, <2>2
  <2>3. CASE f # r.flow
    <3>1. connected'[f] = connected[f] BY <1>6, <2>1, <2>3
    <3> QED BY <2>1, <3>1 DEF FlowsInv, Connections!StateUsedOnce
  <2> QED BY <2>2, <2>3
<1>14. Connections!OneAccountPerMailbox' BY <1>5 DEF Connections!OneAccountPerMailbox
<1>15. Connections!OnlyTheTarget'
  <2>1. SUFFICES ASSUME NEW f \in Flow, NEW m \in Mailbox, flow[f].target # NoMailbox,
                        connected'[f][m] > 0
                 PROVE  m = flow[f].target
    BY <1>1 DEF Connections!OnlyTheTarget
  <2>2. CASE f = r.flow
    <3>1. m = r.mailbox BY <1>7, <2>1, <2>2
    <3> QED BY <1>3, <2>1, <2>2, <3>1
  <2>3. CASE f # r.flow
    <3>1. connected'[f] = connected[f] BY <1>6, <2>1, <2>3
    <3> QED BY <2>1, <3>1 DEF FlowsInv, Connections!OnlyTheTarget
  <2> QED BY <2>2, <2>3
<1>16. Connections!OwnBrowserIsKnown'
  <2>1. SUFFICES ASSUME NEW d \in FlowRequest, callback'[d].mismatch
                 PROVE  \/ callback'[d].came >= flow[callback'[d].flow].began + CookieLife
                        \/ \E m \in Mailbox : connected'[callback'[d].flow][m] > 0
    BY <1>1 DEF Connections!OwnBrowserIsKnown
  <2>2. d # c BY <1>4, <2>1, NoCallback
  <2>3. callback'[d] = callback[d] BY <1>4, <2>2
  <2>4. callback[d].flow \in Flow BY <2>1, <2>3 DEF FlowsInv, CallbacksSound
  <2>5. connected'[callback[d].flow] = connected[callback[d].flow] BY <1>6, <1>8, <2>3, <2>4
  <2> QED BY <2>1, <2>3, <2>5 DEF FlowsInv, Connections!OwnBrowserIsKnown
<1>17. Connections!StoppedConnectNothing
  <2>1. stopped \subseteq Flow BY DEF FlowsInv, Connections!TypeOK
  <2> QED BY <1>3, <1>6, <2>1 DEF Connections!StoppedConnectNothing
<1> QED BY <1>9, <1>10, <1>11, <1>12, <1>13, <1>14, <1>15, <1>16, <1>17 DEF FlowsInv

\* The operator's role changes, or time passes.
LEMMA FlowsRole ==
    ASSUME FlowsAssumption, FlowsInv, Connections!ChangeRole
    PROVE  FlowsInv'
<1>1. /\ operator' = ~operator /\ roleChanges' = roleChanges + 1
      /\ stopped' = IF operator THEN {f \in Flow : \A c \in FlowRequest : callback[c].flow # f} ELSE {}
      /\ UNCHANGED <<oauthClock, flow, oauthState, oauthCookie, rows, callback, connected,
           oauthFailures>>
  BY DEF Connections!ChangeRole
<1>2. operator \in BOOLEAN BY DEF FlowsInv, Connections!TypeOK
<1>3. Connections!TypeOK' BY <1>1, <1>2 DEF FlowsInv, Connections!TypeOK, Connections!Time
<1>4. StoppedSound' BY <1>1, <1>2 DEF StoppedSound
<1>5. FlowsBegun' /\ CallbacksSound' BY <1>1 DEF FlowsInv, FlowsBegun, CallbacksSound
<1> QED BY <1>1, <1>3, <1>4, <1>5
           DEF FlowsInv, Connections!StateUsedOnce, Connections!OneAccountPerMailbox,
           Connections!OnlyTheTarget, Connections!OwnBrowserIsKnown

\* Time passes: a cookie ends no later than its state.
LEMMA FlowsTick ==
    ASSUME FlowsAssumption, FlowsInv, Connections!Tick
    PROVE  FlowsInv'
<1>1. /\ oauthClock' = oauthClock + 1 /\ oauthClock < MaxFlowTime
         /\ \A c \in FlowRequest : callback[c].pc = "idle"
      /\ UNCHANGED <<flow, oauthState, oauthCookie, operator, rows, callback, connected, stopped,
           roleChanges, oauthFailures>>
  BY DEF Connections!Tick
<1>2. Connections!TypeOK' BY <1>1, FlowsAssumption
      DEF FlowsInv, Connections!TypeOK, Connections!Time
<1>3. StoppedSound' /\ FlowsBegun' BY <1>1 DEF FlowsInv, FlowsBegun, StoppedSound
<1>4. CallbacksSound' BY <1>1 DEF FlowsInv, CallbacksSound
<1> QED BY <1>1, <1>2, <1>3, <1>4
           DEF FlowsInv, Connections!StateUsedOnce, Connections!OneAccountPerMailbox,
           Connections!OnlyTheTarget, Connections!OwnBrowserIsKnown

\* A step of the connections keeps the invariant, and connects nothing who is stopped.
LEMMA FlowsStep ==
    ASSUME FlowsAssumption, FlowsInv, Connections!Next
    PROVE  FlowsInv' /\ Connections!StoppedConnectNothing
<1>1. ASSUME UNCHANGED connected PROVE Connections!StoppedConnectNothing
  BY <1>1 DEF Connections!StoppedConnectNothing
<1>2. ASSUME NEW f \in Flow, NEW t \in Mailbox \cup {NoMailbox}, Connections!Authorize(f, t)
      PROVE  FlowsInv' /\ Connections!StoppedConnectNothing
  <2>1. UNCHANGED connected BY <1>2 DEF Connections!Authorize
  <2> QED BY <1>1, <1>2, <2>1, FlowsAuthorize
<1>3. ASSUME NEW c \in FlowRequest, NEW f \in Flow, Connections!Consume(c, f)
      PROVE  FlowsInv' /\ Connections!StoppedConnectNothing
  <2>1. UNCHANGED connected BY <1>3 DEF Connections!Consume
  <2> QED BY <1>1, <1>3, <2>1, FlowsConsume
<1>4. ASSUME NEW c \in FlowRequest, NEW m \in Mailbox, Connections!Exchange(c, m)
             \/ Connections!Imap(c, m)
      PROVE  FlowsInv' /\ Connections!StoppedConnectNothing
  <2>1. UNCHANGED connected BY <1>4 DEF Connections!Exchange, Connections!Imap
  <2> QED BY <1>1, <1>4, <2>1, FlowsGoOn
<1>5. ASSUME NEW c \in FlowRequest,
             Connections!Check(c) \/ Connections!Read(c) \/ Connections!WriteConflicts(c)
               \/ Connections!Fail(c)
      PROVE  FlowsInv' /\ Connections!StoppedConnectNothing
  <2>1. UNCHANGED connected
    BY <1>5 DEF Connections!Check, Connections!Read, Connections!WriteConflicts, Connections!Fail
  <2> QED BY <1>1, <1>5, <2>1, FlowsGoOn
<1>6. ASSUME Connections!ChangeRole \/ Connections!Tick
      PROVE  FlowsInv' /\ Connections!StoppedConnectNothing
  <2>1. UNCHANGED connected BY <1>6 DEF Connections!ChangeRole, Connections!Tick
  <2> QED BY <1>1, <1>6, <2>1, FlowsRole, FlowsTick
<1> QED BY <1>2, <1>3, <1>4, <1>5, <1>6, FlowsWrite DEF Connections!Next

\* A step in which nothing of the connections moves.
LEMMA FlowsStutter ==
    ASSUME FlowsInv, UNCHANGED oauthVars
    PROVE  FlowsInv'
BY DEF FlowsInv, oauthVars, Connections!TypeOK, Connections!Time, FlowsBegun, CallbacksSound,
   StoppedSound,
   Connections!StateUsedOnce, Connections!OneAccountPerMailbox, Connections!OnlyTheTarget,
     Connections!OwnBrowserIsKnown

-----------------------------------------------------------------------------
(* The behaviours of all of them *)

\* Whoever runs keeps its inductive invariant.
AccessInv ==
    /\ running = "tabs" => SessionsInv(TRUE)
    /\ running = "tabs in turn" => SessionsInv(FALSE)
    /\ running = "recovery" => RecoveryInv
    /\ running = "users" => UsersInv(TRUE)
    /\ running = "users in turn" => UsersInv(FALSE)
    /\ running = "connections" => FlowsInv

\* Every behaviour begins with what whoever runs begins with, ...
LEMMA InitSound == Init => AccessInv
<1> SUFFICES ASSUME Init PROVE AccessInv OBVIOUS
<1>1. running = "tabs" => SessionsInv(TRUE) BY SessionsAssumption, SessionsInit DEF Init
<1>2. running = "tabs in turn" => SessionsInv(FALSE) BY SessionsAssumption, SessionsInit DEF Init
<1>3. running = "recovery" => RecoveryInv BY RecoveryAssumption, RecoveryInit DEF Init
<1>4. running = "users" => UsersInv(TRUE) BY UsersAssumption, UsersInit DEF Init
<1>5. running = "users in turn" => UsersInv(FALSE) BY UsersAssumption, UsersInit DEF Init
<1>6. running = "connections" => FlowsInv BY FlowsAssumption, FlowsInit DEF Init
<1> QED BY <1>1, <1>2, <1>3, <1>4, <1>5, <1>6 DEF AccessInv

\* ... and every step is a step of whoever runs, the others' own variables apart.
LEMMA StepsAreOfTheRunning ==
    ASSUME [Next]_vars
    PROVE  /\ running' = running
           /\ running = "tabs" => Tabs(TRUE)!Next \/ UNCHANGED sessionVars
           /\ running = "tabs in turn" => Tabs(FALSE)!Next \/ UNCHANGED sessionVars
           /\ running = "recovery" => Recovery!Next \/ UNCHANGED recoveryVars
           /\ running = "users" => Users(TRUE)!Next \/ UNCHANGED userVars
           /\ running = "users in turn" => Users(FALSE)!Next \/ UNCHANGED userVars
           /\ running = "connections" => Connections!Next \/ UNCHANGED oauthVars
BY DEF Next, vars

\* Whoever runs keeps its invariant, and the others are not running.
LEMMA StepSound == ASSUME AccessInv, [Next]_vars PROVE AccessInv'
<1>1. running = "tabs" => SessionsInv(TRUE)'
  BY StepsAreOfTheRunning, SessionsAssumption, SessionsStep, SessionsStutter DEF AccessInv
<1>2. running = "tabs in turn" => SessionsInv(FALSE)'
  BY StepsAreOfTheRunning, SessionsAssumption, SessionsStep, SessionsStutter DEF AccessInv
<1>3. running = "recovery" => RecoveryInv'
  BY StepsAreOfTheRunning, RecoveryAssumption, RecoveryStep DEF AccessInv
<1>4. running = "users" => UsersInv(TRUE)'
  BY StepsAreOfTheRunning, UsersAssumption, UsersStep, UsersStutter DEF AccessInv
<1>5. running = "users in turn" => UsersInv(FALSE)'
  BY StepsAreOfTheRunning, UsersAssumption, UsersStep, UsersStutter DEF AccessInv
<1>6. running = "connections" => FlowsInv'
  BY StepsAreOfTheRunning, FlowsAssumption, FlowsStep, FlowsStutter DEF AccessInv
<1> QED BY <1>1, <1>2, <1>3, <1>4, <1>5, <1>6, StepsAreOfTheRunning DEF AccessInv

\* The invariants hold in every behaviour.
THEOREM AccessInvariance == Spec => []AccessInv
BY InitSound, StepSound, PTL DEF Spec

\* However the requests of the tabs overlap, no session outlives its absolute limit, the state of
\* an external login opens one session, a token is handed once, and the browser keeps no token that
\* a rotation has replaced.  When no two requests overlap a token has one successor, and a session
\* that was left has no token the browser held that is good: for any tabs, states, limits and clock.
THEOREM SessionsDoEnd == Spec => []SessionsEnd
<1>1. AccessInv => SessionsEnd
  BY SessionsAssumption, SessionsFollows DEF AccessInv, SessionsEnd
<1> QED BY <1>1, AccessInvariance, PTL

\* A code is used once, compared a bounded number of times, dies however often failed attempts renew
\* its time, and the last that was mailed works; requests in turn, for any number of them, of
\* attempts, of codes, and for any lifetime.
THEOREM CodesAreUsedOnce == Spec => []CodeUsedOnce
<1>1. AccessInv => CodeUsedOnce
  BY RecoveryAssumption, RecoveryFollows DEF AccessInv, CodeUsedOnce
<1> QED BY <1>1, AccessInvariance, PTL

\* Requests overlap: the owner is one and active, an address has one user, and the owner makes the
\* administrators.  In turn: a new user keeps the workspace within its plan, and only the owner
\* changes an administrator.  For any users, addresses, requests and plan.
THEOREM OwnerMakesThem == Spec => OnlyOwnerMakesAdmins
<1>1. AccessInv => (running = "users" =>
          Users(TRUE)!TypeOK /\ Users(TRUE)!SingleOwner /\ Users(TRUE)!OneUserPerAddress)
  BY DEF AccessInv, UsersInv, UsersSound
<1>2. AccessInv => (running = "users in turn" => Users(FALSE)!TypeOK)
  BY DEF AccessInv, UsersInv
<1>3. AccessInv /\ [Next]_vars => [running = "users" => Users(TRUE)!OwnerMakesAdmins]_userVars
  <2> SUFFICES ASSUME AccessInv, [Next]_vars, running = "users", ~UNCHANGED userVars
               PROVE  Users(TRUE)!OwnerMakesAdmins
    OBVIOUS
  <2>1. Users(TRUE)!Next /\ UsersInv(TRUE) BY StepsAreOfTheRunning DEF AccessInv
  <2> QED BY <2>1, UsersAssumption, UsersStep DEF UsersStepProps
<1>4. AccessInv /\ [Next]_vars =>
          [running = "users in turn" =>
            Users(FALSE)!WithinLimit /\ Users(FALSE)!ThroughOwner]_userVars
  <2> SUFFICES ASSUME AccessInv, [Next]_vars, running = "users in turn", ~UNCHANGED userVars
               PROVE  Users(FALSE)!WithinLimit /\ Users(FALSE)!ThroughOwner
    OBVIOUS
  <2>1. Users(FALSE)!Next /\ UsersInv(FALSE) BY StepsAreOfTheRunning DEF AccessInv
  <2> QED BY <2>1, UsersAssumption, UsersStep DEF UsersStepProps
<1> QED BY <1>1, <1>2, <1>3, <1>4, AccessInvariance, PTL DEF Spec, OnlyOwnerMakesAdmins

\* A state is used once, a mailbox has one account though two authorizations of it end at once, one
\* begun for an account connects no other mailbox, the browser that began it is recognized, and who
\* has lost the permission connects nothing: for any authorizations, callbacks and mailboxes, and
\* any lifetimes of which the cookie's is not the longer.
THEOREM MailboxHasOneAccount == Spec => OneAccountPerMailbox
<1>1. AccessInv => (running = "connections" =>
          /\ Connections!TypeOK /\ Connections!StateUsedOnce /\ Connections!OneAccountPerMailbox
          /\ Connections!OnlyTheTarget /\ Connections!OwnBrowserIsKnown)
  BY DEF AccessInv, FlowsInv
<1>2. AccessInv /\ [Next]_vars => [running = "connections" =>
      Connections!StoppedConnectNothing]_oauthVars
  <2> SUFFICES ASSUME AccessInv, [Next]_vars, running = "connections", ~UNCHANGED oauthVars
               PROVE  Connections!StoppedConnectNothing
    OBVIOUS
  <2>1. Connections!Next /\ FlowsInv BY StepsAreOfTheRunning DEF AccessInv
  <2> QED BY <2>1, FlowsAssumption, FlowsStep
<1> QED BY <1>1, <1>2, AccessInvariance, PTL DEF Spec, OneAccountPerMailbox
=============================================================================
