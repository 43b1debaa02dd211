------------------------------ MODULE Incidents ------------------------------
(***************************************************************************)
(* What the analysis of a message does to the alerts and incidents of one  *)
(* service of one mailbox (modules/analysis/service.py and repository.py). *)
(*                                                                         *)
(* Messages are analyzed in no particular order and by several workers at  *)
(* once.  Each worker's transaction stores the analysis and its alerts,    *)
(* then upserts one analysis_incidents row per incident type the message   *)
(* opens or resolves, letting the newest message win, and closes the       *)
(* alerts that message makes obsolete.  The transactions run at READ       *)
(* COMMITTED; an upsert locks its row until the end of the transaction,    *)
(* whether it changes the row or not.  Module AnalysisOutbox has the       *)
(* protocol around the transaction: here, one worker at a time handles a   *)
(* message that has no analysis.                                           *)
(***************************************************************************)
EXTENDS Integers

CONSTANTS
    Msg,      \* messages of one account about one service
    Worker,   \* analysis workers
    Email,    \* what a message can be: when it was received, what it says
    Answer,   \* what the AI provider can answer
    None

PaymentAlert == {"payment_rejected", "payment_method_expired", "renewal_due"}
IncidentType == PaymentAlert \cup {"account_suspended"}

\* The words of subject, snippet and body the code looks for.
Marker == {"confirmed", "failure", "renewed", "reactivated"}
EmailType == {"payment_updated", "renewed", "account_suspended", "account_reactivated", "other"}

\* plain: the service's name is spelled in ASCII letters.
Analysis == [alerts: SUBSET PaymentAlert, type: EmailType, plain: BOOLEAN]

ASSUME EmailAssumption == Email \subseteq [at: Nat, text: SUBSET Marker]
ASSUME AnswerAssumption == Answer \subseteq Analysis

VARIABLES
    email,      \* the messages
    analysis,   \* email_analyses row of each message
    incident,   \* analysis_incidents row of each type
    open,       \* alerts whose resolved_at is null: <<message, type>>
    dismissed,  \* alerts the user resolved
    tx          \* the transaction of each worker

vars == <<email, analysis, incident, open, dismissed, tx>>

NoIncident == [status |-> "none", at |-> 0, msg |-> None]
Row == {NoIncident} \cup [status: {"active", "resolved"}, at: Nat, msg: Msg]

Alert == Msg \X PaymentAlert

\* toOpen and toResolve are the upserts still to be made; rows has the rows
\* the transaction has locked, as it left them; own, the alerts it raises;
\* closed, the alerts of other messages it closes.
Transaction == [msg: Msg, analysis: Analysis,
                toOpen: SUBSET IncidentType, toResolve: SUBSET IncidentType,
                rows: [IncidentType -> Row \cup {None}],
                own: SUBSET Alert, closed: SUBSET Alert]

ASSUME NoneAssumption == None \notin Analysis /\ None \notin Row /\ None \notin Transaction

TypeOK ==
    /\ email \in [Msg -> Email]
    /\ analysis \in [Msg -> Analysis \cup {None}]
    /\ incident \in [IncidentType -> Row]
    /\ open \subseteq Alert /\ dismissed \subseteq Alert
    /\ tx \in [Worker -> Transaction \cup {None}]

Init ==
    /\ email \in [Msg -> Email]
    /\ analysis = [m \in Msg |-> None]
    /\ incident = [k \in IncidentType |-> NoIncident]
    /\ open = {} /\ dismissed = {}
    /\ tx = [w \in Worker |-> None]

-----------------------------------------------------------------------------
(* Reading an answer *)

Confirmed(text) == "confirmed" \in text /\ "failure" \notin text

\* suppress_confirmed_payment_alerts
Suppress(a, text) ==
    IF Confirmed(text) /\ a.alerts # {}
    THEN [a EXCEPT !.alerts = {}, !.type = "payment_updated"]
    ELSE a

\* incident_transition
Opened(a) ==
    a.alerts \cup {k \in {"account_suspended"} : a.type = "account_suspended"}
Resolved(a, text) ==
    UNION { {k \in PaymentAlert :
                (a.type = "payment_updated" \/ "confirmed" \in text) /\ "failure" \notin text},
            {k \in {"renewal_due"} : a.type = "renewed" \/ "renewed" \in text},
            {k \in {"account_suspended"} : a.type = "account_reactivated" \/ "reactivated" \in text} }

-----------------------------------------------------------------------------
(* The transaction of a worker *)

Busy(w) == tx[w] # None

Analyze(w, m, a) ==
    LET stored == Suppress(a, email[m].text) IN
    /\ ~Busy(w)
    /\ analysis[m] = None /\ \A w2 \in Worker : Busy(w2) => tx[w2].msg # m
    /\ tx' = [tx EXCEPT ![w] =
                [msg |-> m, analysis |-> stored,
                 toOpen |-> Opened(stored), toResolve |-> Resolved(stored, email[m].text),
                 rows |-> [k \in IncidentType |-> None],
                 own |-> {m} \X stored.alerts, closed |-> {}]]
    /\ UNCHANGED <<email, analysis, incident, open, dismissed>>

Holds(w, k) == Busy(w) /\ tx[w].rows[k] # None
LockedByAnother(w, k) == \E w2 \in Worker \ {w} : Holds(w2, k)
Visible(w, k) == IF Holds(w, k) THEN tx[w].rows[k] ELSE incident[k]

\* _resolve_matching_alerts: the unresolved alerts this transaction sees. Its
\* SQL expression of the service's key drops the letters that Python's folds
\* to ASCII, so only a plain spelling is matched.
Obsolete(w, k, all) ==
    LET m == tx[w].msg
        IsPlain(m2) == IF m2 = m THEN tx[w].analysis.plain
                                 ELSE analysis[m2] # None /\ analysis[m2].plain IN
    {x \in (open \cup tx[w].own) \ tx[w].closed :
        /\ x[2] = k /\ email[x[1]].at <= email[m].at /\ IsPlain(x[1])
        /\ all \/ x[1] # m}

\* Mutants of Newer: a resolution loses a tie; it is taken whatever its moment.
NewerStrictly(at, status, row) == row = NoIncident \/ at > row.at
NewerOrResolved(at, status, row) ==
    row = NoIncident \/ at > row.at \/ status = "resolved"

\* The WHERE of _upsert_incident's ON CONFLICT DO UPDATE.
Newer(at, status, row) ==
    row = NoIncident \/ at > row.at \/ (at = row.at /\ status = "resolved")

\* Mutant of Upserted: current_message_id is not among the columns set.
UpsertedWithoutMessage(w, k, status) ==
    IF Newer(email[tx[w].msg].at, status, Visible(w, k))
    THEN [status |-> status, at |-> email[tx[w].msg].at, msg |-> Visible(w, k).msg]
    ELSE Visible(w, k)

\* _upsert_incident: the row, if this message's is the newest event.
Upserted(w, k, status) ==
    LET m == tx[w].msg IN
    IF Newer(email[m].at, status, Visible(w, k))
    THEN [status |-> status, at |-> email[m].at, msg |-> m]
    ELSE Visible(w, k)

\* The transaction after the upsert of k's row and what follows from it.
Reconciled(w, k, status, toOpen, toResolve, closed) ==
    LET t == tx[w] IN
    /\ tx' = [tx EXCEPT ![w] =
                [msg |-> t.msg, analysis |-> t.analysis,
                 toOpen |-> toOpen, toResolve |-> toResolve,
                 rows |-> [t.rows EXCEPT ![k] = Upserted(w, k, status)],
                 own |-> t.own, closed |-> t.closed \cup closed]]
    /\ UNCHANGED <<email, analysis, incident, open, dismissed>>

\* Mutants of OpenIncident: the alert of a message that comes too late stays
\* open; the new alert is closed with the old ones.
OpenIncidentKeepingAlert(w, k) ==
    LET t == tx[w]
        isNew == Newer(email[t.msg].at, "active", Visible(w, k)) IN
    /\ Busy(w) /\ k \in t.toOpen /\ ~LockedByAnother(w, k)
    /\ Reconciled(w, k, "active", t.toOpen \ {k}, t.toResolve,
                  IF isNew THEN Obsolete(w, k, FALSE) ELSE {})
OpenIncidentClosingAll(w, k) ==
    LET t == tx[w]
        isNew == Newer(email[t.msg].at, "active", Visible(w, k)) IN
    /\ Busy(w) /\ k \in t.toOpen /\ ~LockedByAnother(w, k)
    /\ Reconciled(w, k, "active", t.toOpen \ {k}, t.toResolve,
                  IF isNew THEN Obsolete(w, k, TRUE) ELSE {<<t.msg, k>>} \cap t.own)

\* reconcile_incidents, for one type of opened.
OpenIncident(w, k) ==
    LET t == tx[w]
        isNew == Newer(email[t.msg].at, "active", Visible(w, k)) IN
    /\ Busy(w) /\ k \in t.toOpen /\ ~LockedByAnother(w, k)
    /\ Reconciled(w, k, "active", t.toOpen \ {k}, t.toResolve,
                  IF isNew THEN Obsolete(w, k, FALSE) ELSE {<<t.msg, k>>} \cap t.own)

\* reconcile_incidents, for one type of resolved, after those of opened.
ResolveIncident(w, k) ==
    LET t == tx[w]
        isNew == Newer(email[t.msg].at, "resolved", Visible(w, k)) IN
    /\ Busy(w) /\ t.toOpen = {} /\ k \in t.toResolve /\ ~LockedByAnother(w, k)
    /\ Reconciled(w, k, "resolved", t.toOpen, t.toResolve \ {k},
                  IF isNew THEN Obsolete(w, k, TRUE) ELSE {})

Commit(w) ==
    /\ Busy(w) /\ tx[w].toOpen = {} /\ tx[w].toResolve = {}
    /\ analysis' = [analysis EXCEPT ![tx[w].msg] = tx[w].analysis]
    /\ incident' = [k \in IncidentType |-> Visible(w, k)]
    /\ open' = (open \cup tx[w].own) \ tx[w].closed
    /\ tx' = [tx EXCEPT ![w] = None]
    /\ UNCHANGED <<email, dismissed>>

\* An error, a crash, or a deadlock of two transactions that lock the same
\* rows in different orders (sets have none): everything is undone, and the
\* outbox asks again.
Abort(w) ==
    /\ Busy(w)
    /\ tx' = [tx EXCEPT ![w] = None]
    /\ UNCHANGED <<email, analysis, incident, open, dismissed>>

-----------------------------------------------------------------------------
(* Others *)

\* DashboardRepository.resolve_alert; it waits for a transaction that has the
\* alert's row locked.
ResolveAlert(x) ==
    /\ x \in open /\ \A w \in Worker : Busy(w) => x \notin tx[w].closed
    /\ open' = open \ {x}
    /\ dismissed' = dismissed \cup {x}
    /\ UNCHANGED <<email, analysis, incident, tx>>

\* scripts/reanalyze_payments.py, run by an operator: a new answer replaces
\* the stored one and its alerts.
Reanalyze(m, a) ==
    LET stored == Suppress(a, email[m].text) IN
    /\ analysis[m] # None /\ analysis[m].alerts # {}
    /\ \A w \in Worker : Busy(w) => \A k \in PaymentAlert : <<m, k>> \notin tx[w].closed
    /\ analysis' = [analysis EXCEPT ![m] = stored]
    /\ open' = {x \in open : x[1] # m} \cup ({m} \X stored.alerts)
    /\ dismissed' = {x \in dismissed : x[1] # m}
    /\ UNCHANGED <<email, incident, tx>>

Step(w) ==
    \/ \E m \in Msg, a \in Answer : Analyze(w, m, a)
    \/ \E k \in IncidentType : OpenIncident(w, k) \/ ResolveIncident(w, k)
    \/ Commit(w)
    \/ Abort(w)

Next ==
    \/ \E w \in Worker : Step(w)
    \/ \E x \in Alert : ResolveAlert(x)

NextWithScript == Next \/ \E m \in Msg, a \in Answer : Reanalyze(m, a)

Spec == Init /\ [][Next]_vars
SpecWithScript == Init /\ [][NextWithScript]_vars

-----------------------------------------------------------------------------
(* What operational views may rely on *)

\* The row is what the given messages, taken in chronological order, leave
\* behind: the newest event, a resolution if the newest ones disagree.
Projects(row, opening, resolving) ==
    /\ row = NoIncident <=> opening \cup resolving = {}
    /\ row.status = "active" => row.msg \in opening
    /\ row.status = "resolved" => row.msg \in resolving
    /\ row # NoIncident => row.at = email[row.msg].at
    /\ \A m \in opening \cup resolving : email[m].at <= row.at
    /\ \A m \in resolving : email[m].at = row.at => row.status = "resolved"

Opening(k) == {m \in Msg : analysis[m] # None /\ k \in Opened(analysis[m])}
Resolving(k) == {m \in Msg : analysis[m] # None /\ k \in Resolved(analysis[m], email[m].text)}

\* The incident is the chronological projection of the stored analyses,
\* in whatever order and by whichever workers they were stored.
IncidentIsProjection ==
    \A k \in IncidentType : Projects(incident[k], Opening(k), Resolving(k))

\* An open alert about a plainly spelled service is the one of the active
\* incident's current message: the alerts list shows nothing obsolete, and no
\* incident twice.
OpenAlertsAreCurrent ==
    \A x \in open : analysis[x[1]].plain =>
        incident[x[2]].status = "active" /\ incident[x[2]].msg = x[1]

\* An active payment incident has its alert on the list, unless the user took
\* it off.
ActiveIncidentHasAlert ==
    \A k \in PaymentAlert :
        incident[k].status = "active" => <<incident[k].msg, k>> \in open \cup dismissed

\* No message, however late it is analyzed, takes an incident back in time or
\* reopens what was resolved at the same moment.
IncidentsMoveForward ==
    [][\A k \in IncidentType :
        /\ incident'[k].at >= incident[k].at
        /\ incident[k].status = "resolved" /\ incident'[k].status = "active" =>
            incident'[k].at > incident[k].at]_vars
-----------------------------------------------------------------------------
(* The inductive invariant *)

\* A transaction works on a message nobody else works on, opens before it
\* resolves, and has locked the rows of what it has done, no others.
TransactionInv(w) ==
    LET t == tx[w]  m == t.msg IN
    Busy(w) =>
        /\ analysis[m] = None
        /\ \A w2 \in Worker \ {w} : Busy(w2) => tx[w2].msg # m
        /\ t.own = {m} \X t.analysis.alerts
        /\ t.toOpen \subseteq Opened(t.analysis)
        /\ t.toResolve \subseteq Resolved(t.analysis, email[m].text)
        /\ t.toOpen # {} => t.toResolve = Resolved(t.analysis, email[m].text)
        /\ \A x \in t.closed : Holds(w, x[2])
        /\ \A k \in IncidentType :
            /\ Holds(w, k) => k \notin t.toOpen /\ ~LockedByAnother(w, k)
            /\ ~Holds(w, k) =>
                /\ k \in Opened(t.analysis) => k \in t.toOpen
                /\ k \in Resolved(t.analysis, email[m].text) => k \in t.toResolve

\* What a transaction has done to a row is what its commit would make true:
\* the row projects its message too, and the alerts it sees fit the row.
DoneOpening(w, k) == Opening(k) \cup {m \in {tx[w].msg} : k \in Opened(tx[w].analysis)}
DoneResolving(w, k) ==
    Resolving(k) \cup {m \in {tx[w].msg} :
        k \in Resolved(tx[w].analysis, email[m].text) \ tx[w].toResolve}
SeenAlerts(w) == (open \cup tx[w].own) \ tx[w].closed
SeenPlain(w, m) == IF m = tx[w].msg THEN tx[w].analysis.plain ELSE analysis[m].plain
HeldRowInv(w, k) ==
    LET row == tx[w].rows[k] IN
    Holds(w, k) =>
        /\ Projects(row, DoneOpening(w, k), DoneResolving(w, k))
        /\ \A x \in SeenAlerts(w) : x[2] = k /\ SeenPlain(w, x[1]) =>
                row.status = "active" /\ row.msg = x[1]
        /\ k \in PaymentAlert /\ row.status = "active" =>
                <<row.msg, k>> \in SeenAlerts(w) \cup dismissed

\* Only stored analyses have alerts.
AlertsHaveAnalyses == \A x \in open \cup dismissed : analysis[x[1]] # None

IInv ==
    /\ TypeOK /\ AlertsHaveAnalyses
    /\ IncidentIsProjection /\ OpenAlertsAreCurrent /\ ActiveIncidentHasAlert
    /\ \A w \in Worker : TransactionInv(w) /\ \A k \in IncidentType : HeldRowInv(w, k)
=============================================================================
