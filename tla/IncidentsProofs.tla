--------------------------- MODULE IncidentsProofs ---------------------------
(* Proofs about Incidents, for any messages, workers, emails and answers.    *)
EXTENDS Incidents, TLAPS

\* An upsert keeps a row the projection of the messages upserted so far.
LEMMA UpsertProjects ==
    ASSUME email \in [Msg -> Email], NEW row \in Row, NEW m \in Msg,
           NEW opening \in SUBSET Msg, NEW resolving \in SUBSET Msg,
           Projects(row, opening, resolving),
           NEW status \in {"active", "resolved"}, NEW row2,
           row2 = IF Newer(email[m].at, status, row)
                  THEN [status |-> status, at |-> email[m].at, msg |-> m] ELSE row
    PROVE  /\ status = "active" => Projects(row2, opening \cup {m}, resolving)
           /\ status = "resolved" => Projects(row2, opening, resolving \cup {m})
  <1>1. \A m2 \in Msg : email[m2].at \in Nat
    BY EmailAssumption
  <1>2. CASE row = NoIncident
    <2>1. opening = {} /\ resolving = {}
      BY <1>2 DEF Projects
    <2>2. row2 = [status |-> status, at |-> email[m].at, msg |-> m] /\ row2 # NoIncident
      BY <1>2 DEF Newer, NoIncident
    <2> QED
      BY <1>1, <2>1, <2>2 DEF Projects
  <1>3. CASE row # NoIncident
    <2>1. row \in [status: {"active", "resolved"}, at: Nat, msg: Msg]
      BY <1>3 DEF Row
    <2>2. CASE Newer(email[m].at, status, row)
      <3>1. row2.status = status /\ row2.at = email[m].at /\ row2.msg = m /\ row2 # NoIncident
        BY <2>2 DEF NoIncident
      <3>2. row.at < email[m].at \/ (row.at = email[m].at /\ status = "resolved")
        BY <1>3, <2>2 DEF Newer
      <3>3. \A m2 \in opening \cup resolving : email[m2].at <= row.at
        BY DEF Projects
      <3> HIDE DEF Projects
      <3>4. row.at \in Nat /\ email[m].at \in Nat /\ row.at <= email[m].at
        BY <1>1, <2>1, <3>2
      <3>5. ASSUME NEW m2 \in opening \cup resolving
            PROVE  email[m2].at <= row2.at /\ (status = "active" => email[m2].at # row2.at)
        <4>1. email[m2].at \in Nat /\ email[m2].at <= row.at
          BY <1>1, <3>3
        <4> QED
          BY <3>1, <3>2, <3>4, <4>1
      <3> QED
        BY <2>1, <3>1, <3>4, <3>5 DEF Projects
    <2>3. CASE ~Newer(email[m].at, status, row)
      <3>1. row2 = row /\ email[m].at <= row.at /\ (status = "resolved" => email[m].at # row.at)
        BY <1>1, <1>3, <2>1, <2>3 DEF Newer
      <3> QED
        BY <1>3, <3>1 DEF Projects
    <2> QED
      BY <2>2, <2>3
  <1> QED
    BY <1>2, <1>3

\* An empty database projects nothing, and nobody has a transaction.
LEMMA InitInvariant == Init => IInv
  <1> SUFFICES ASSUME Init PROVE IInv
    OBVIOUS
  <1>1. TypeOK
    BY DEF Init, TypeOK, Row
  <1>2. \A w \in Worker : ~Busy(w) /\ \A k \in IncidentType : ~Holds(w, k)
    BY DEF Init, Busy, Holds
  <1>3. \A k \in IncidentType : Opening(k) = {} /\ Resolving(k) = {}
    BY DEF Init, Opening, Resolving
  <1>4. IncidentIsProjection
    BY <1>3 DEF Init, IncidentIsProjection, Projects, NoIncident
  <1>5. AlertsHaveAnalyses /\ OpenAlertsAreCurrent /\ ActiveIncidentHasAlert
    BY DEF Init, AlertsHaveAnalyses, OpenAlertsAreCurrent, ActiveIncidentHasAlert, NoIncident,
       PaymentAlert, IncidentType
  <1>6. \A w \in Worker : TransactionInv(w)
    BY <1>2 DEF TransactionInv
  <1>7. \A w \in Worker, k \in IncidentType : HeldRowInv(w, k)
    BY <1>2 DEF HeldRowInv
  <1> QED
    BY <1>1, <1>4, <1>5, <1>6, <1>7 DEF IInv

-----------------------------------------------------------------------------
(* Steps inside a transaction *)

\* A step that changes nothing but the worker's own transaction leaves the
\* other transactions and the committed state as they are.
LEMMA LocalStepKeeps ==
    ASSUME IInv, NEW w \in Worker, NEW t, tx' = [tx EXCEPT ![w] = t], TypeOK',
           UNCHANGED <<email, analysis, incident, open, dismissed>>,
           TransactionInv(w)', \A k \in IncidentType : HeldRowInv(w, k)'
    PROVE  IInv'
  <1>0. /\ Busy(w)' => \A w2 \in Worker \ {w} : Busy(w2)' => tx'[w2].msg # tx'[w].msg
        /\ \A k \in IncidentType : Holds(w, k)' => ~LockedByAnother(w, k)'
    <2>1. \A k \in IncidentType : Holds(w, k)' => Busy(w)'
      BY DEF Holds
    <2> QED
      BY <2>1 DEF TransactionInv
  <1> USE DEF IInv
  <1>1. AlertsHaveAnalyses' /\ IncidentIsProjection' /\ OpenAlertsAreCurrent' /\ ActiveIncidentHasAlert'
    BY DEF AlertsHaveAnalyses, IncidentIsProjection, OpenAlertsAreCurrent,
       ActiveIncidentHasAlert, Projects, Opening, Resolving
  <1>2. ASSUME NEW w2 \in Worker, w2 # w
        PROVE  TransactionInv(w2)' /\ \A k \in IncidentType : HeldRowInv(w2, k)'
    <2>1. tx'[w2] = tx[w2]
      BY <1>2 DEF TypeOK
    <2>2. /\ Busy(w2)' <=> Busy(w2)
          /\ \A k \in IncidentType : Holds(w2, k)' <=> Holds(w2, k)
      BY <2>1 DEF Busy, Holds
    <2>3. \A k \in IncidentType : HeldRowInv(w2, k)'
      <3> SUFFICES ASSUME NEW k \in IncidentType PROVE HeldRowInv(w2, k)'
        OBVIOUS
      <3>1. HeldRowInv(w2, k)
        OBVIOUS
      <3>2. /\ DoneOpening(w2, k)' = DoneOpening(w2, k)
            /\ DoneResolving(w2, k)' = DoneResolving(w2, k)
            /\ SeenAlerts(w2)' = SeenAlerts(w2)
            /\ \A m : SeenPlain(w2, m)' = SeenPlain(w2, m)
        BY <2>1 DEF DoneOpening, DoneResolving, Opening, Resolving, SeenAlerts, SeenPlain
      <3> HIDE DEF IInv
      <3>3. SUFFICES ASSUME Holds(w2, k) PROVE HeldRowInv(w2, k)'
        BY <2>2 DEF HeldRowInv
      <3>4. Projects(tx[w2].rows[k], DoneOpening(w2, k), DoneResolving(w2, k))'
        <4>1. Projects(tx[w2].rows[k], DoneOpening(w2, k), DoneResolving(w2, k))
          BY <3>1, <3>3 DEF HeldRowInv
        <4> QED
          BY <2>1, <3>2, <4>1 DEF Projects
      <3>5. (\A x \in SeenAlerts(w2) : x[2] = k /\ SeenPlain(w2, x[1]) =>
                tx[w2].rows[k].status = "active" /\ tx[w2].rows[k].msg = x[1])'
        <4>1. \A x \in SeenAlerts(w2) : x[2] = k /\ SeenPlain(w2, x[1]) =>
                tx[w2].rows[k].status = "active" /\ tx[w2].rows[k].msg = x[1]
          BY <3>1, <3>3 DEF HeldRowInv
        <4> QED
          BY <2>1, <3>2, <4>1
      <3>6. (k \in PaymentAlert /\ tx[w2].rows[k].status = "active" =>
                <<tx[w2].rows[k].msg, k>> \in SeenAlerts(w2) \cup dismissed)'
        <4>1. k \in PaymentAlert /\ tx[w2].rows[k].status = "active" =>
                <<tx[w2].rows[k].msg, k>> \in SeenAlerts(w2) \cup dismissed
          BY <3>1, <3>3 DEF HeldRowInv
        <4> QED
          BY <2>1, <3>2, <4>1
      <3> QED
        BY <3>4, <3>5, <3>6 DEF HeldRowInv
    <2>4. ASSUME Busy(w2), NEW w3 \in Worker, w3 # w2, Busy(w3)'
          PROVE  tx'[w3].msg # tx[w2].msg
      <3>1. CASE w3 = w
        BY <1>0, <1>2, <2>1, <2>2, <2>4, <3>1
      <3>2. CASE w3 # w
        <4>1. tx'[w3] = tx[w3] /\ Busy(w3)
          BY <2>4, <3>2 DEF TypeOK, Busy
        <4> QED
          BY <2>4, <4>1 DEF TransactionInv
      <3> QED
        BY <3>1, <3>2
    <2>5. ASSUME NEW k \in IncidentType, Holds(w2, k), NEW w3 \in Worker, w3 # w2, Holds(w3, k)'
          PROVE  FALSE
      <3>1. CASE w3 = w
        BY <1>0, <1>2, <2>2, <2>5, <3>1 DEF LockedByAnother
      <3>2. CASE w3 # w
        <4>1. Holds(w3, k)
          BY <2>5, <3>2 DEF TypeOK, Holds, Busy
        <4> QED
          BY <2>5, <4>1 DEF TransactionInv, LockedByAnother, Holds
      <3> QED
        BY <3>1, <3>2
    <2>6. TransactionInv(w2)'
      <3>1. SUFFICES ASSUME Busy(w2) PROVE TransactionInv(w2)'
        BY <2>2 DEF TransactionInv
      <3>2. TransactionInv(w2)
        OBVIOUS
      <3>3. \A k \in IncidentType : Holds(w2, k) => ~LockedByAnother(w2, k)'
        BY <2>5 DEF LockedByAnother
      <3>4. \A x \in tx[w2].closed : x[2] \in IncidentType
        BY <3>1, <2>1 DEF TypeOK, Transaction, Alert, Busy, IncidentType
      <3> QED
        BY <2>1, <2>2, <2>4, <3>1, <3>2, <3>3, <3>4 DEF TransactionInv
    <2> QED
      BY <2>3, <2>6
  <1> QED
    BY <1>1, <1>2

\* An aborted transaction leaves no trace.
LEMMA AbortKeeps ==
    ASSUME IInv, NEW w \in Worker, Abort(w)
    PROVE  IInv'
  <1>1. tx' = [tx EXCEPT ![w] = None] /\ UNCHANGED <<email, analysis, incident, open, dismissed>>
    BY DEF Abort
  <1>2. TypeOK'
    BY <1>1 DEF IInv, TypeOK
  <1>3. tx'[w] = None
    BY <1>1 DEF IInv, TypeOK
  <1>4. ~Busy(w)' /\ \A k \in IncidentType : ~Holds(w, k)'
    BY <1>3 DEF Busy, Holds
  <1>5. TransactionInv(w)' /\ \A k \in IncidentType : HeldRowInv(w, k)'
    BY <1>4 DEF TransactionInv, HeldRowInv
  <1> QED
    BY <1>1, <1>2, <1>5, LocalStepKeeps

\* What an answer opens and resolves are incident types.
LEMMA TransitionTyped ==
    ASSUME NEW a \in Analysis, NEW text \in SUBSET Marker
    PROVE  /\ Suppress(a, text) \in Analysis
           /\ Opened(a) \subseteq IncidentType
           /\ Resolved(a, text) \subseteq IncidentType
           /\ \A k \in PaymentAlert : k \in Opened(a) <=> k \in a.alerts
  BY DEF Suppress, Analysis, EmailType, Opened, Resolved, IncidentType, PaymentAlert

\* A transaction begins with everything still to do and no row locked.
LEMMA AnalyzeKeeps ==
    ASSUME IInv, NEW w \in Worker, NEW m \in Msg, NEW a \in Answer, Analyze(w, m, a)
    PROVE  IInv'
  <1> DEFINE s == Suppress(a, email[m].text)
             t == [msg |-> m, analysis |-> s,
                   toOpen |-> Opened(s), toResolve |-> Resolved(s, email[m].text),
                   rows |-> [k \in IncidentType |-> None],
                   own |-> {m} \X s.alerts, closed |-> {}]
  <1>1. tx' = [tx EXCEPT ![w] = t] /\ UNCHANGED <<email, analysis, incident, open, dismissed>>
    BY DEF Analyze
  <1>2. email[m].text \in SUBSET Marker
    BY EmailAssumption DEF IInv, TypeOK
  <1>3. s \in Analysis
    BY <1>2, AnswerAssumption, TransitionTyped
  <1>4. Opened(s) \subseteq IncidentType /\ Resolved(s, email[m].text) \subseteq IncidentType
    BY <1>2, <1>3, TransitionTyped
  <1> HIDE DEF s
  <1>5. s.alerts \in SUBSET PaymentAlert
    BY <1>3 DEF Analysis
  <1>6. t \in Transaction
    BY <1>3, <1>4, <1>5 DEF Transaction, Alert
  <1>7. TypeOK'
    BY <1>1, <1>6 DEF IInv, TypeOK
  <1>8. tx'[w] = t /\ \A w2 \in Worker \ {w} : tx'[w2] = tx[w2]
    BY <1>1 DEF IInv, TypeOK
  <1>9. \A k \in IncidentType : ~Holds(w, k)'
    BY <1>8 DEF Holds
  <1>10. analysis'[m] = None /\ \A w2 \in Worker \ {w} : Busy(w2)' => tx'[w2].msg # m
    BY <1>1, <1>8 DEF Analyze, Busy
  <1>11. TransactionInv(w)'
    BY <1>1, <1>4, <1>8, <1>9, <1>10 DEF TransactionInv
  <1>12. \A k \in IncidentType : HeldRowInv(w, k)'
    BY <1>9 DEF HeldRowInv
  <1> HIDE DEF t
  <1> QED
    BY <1>1, <1>7, <1>11, <1>12, LocalStepKeeps

\* The row a transaction sees, once it has nothing more to open for it, is
\* the projection of the stored messages and its own, and fits the alerts.
LEMMA VisibleFits ==
    ASSUME IInv, NEW w \in Worker, Busy(w), NEW k \in IncidentType, k \notin tx[w].toOpen
    PROVE  LET row == Visible(w, k) IN
           /\ row \in Row
           /\ Holds(w, k) \/ k \in tx[w].toResolve =>
                Projects(row, DoneOpening(w, k), DoneResolving(w, k))
           /\ \A x \in SeenAlerts(w) : x[2] = k /\ SeenPlain(w, x[1]) =>
                row.status = "active" /\ row.msg = x[1]
           /\ k \in PaymentAlert /\ row.status = "active" =>
                <<row.msg, k>> \in SeenAlerts(w) \cup dismissed
  <1>1. tx[w] \in Transaction
    BY DEF IInv, TypeOK, Busy
  <1>2. TransactionInv(w)
    BY DEF IInv
  <1>3. CASE Holds(w, k)
    <2>1. Visible(w, k) = tx[w].rows[k] /\ tx[w].rows[k] \in Row
      BY <1>1, <1>3 DEF Visible, Holds, Transaction
    <2>2. HeldRowInv(w, k)
      BY DEF IInv
    <2> QED
      BY <1>3, <2>1, <2>2 DEF HeldRowInv
  <1>4. CASE ~Holds(w, k)
    <2>1. Visible(w, k) = incident[k] /\ incident[k] \in Row
      BY <1>4 DEF Visible, IInv, TypeOK
    <2>2. k \notin Opened(tx[w].analysis)
      BY <1>2, <1>4 DEF TransactionInv
    <2>3. \A x \in tx[w].own : x[2] # k
      <3>1. tx[w].own = {tx[w].msg} \X tx[w].analysis.alerts
        BY <1>2 DEF TransactionInv
      <3> QED
        BY <2>2, <3>1 DEF Opened
    <2>4. \A x \in tx[w].closed : x[2] # k
      BY <1>2, <1>4 DEF TransactionInv
    <2>5. \A x \in SeenAlerts(w) : x[2] = k => x \in open /\ x[1] # tx[w].msg
      BY <1>2, <2>3 DEF SeenAlerts, TransactionInv, IInv, AlertsHaveAnalyses
    <2>6. \A x \in SeenAlerts(w) : x[2] = k /\ SeenPlain(w, x[1]) =>
             incident[k].status = "active" /\ incident[k].msg = x[1]
      BY <2>5 DEF SeenPlain, IInv, OpenAlertsAreCurrent
    <2>7. k \in PaymentAlert /\ incident[k].status = "active" =>
             <<incident[k].msg, k>> \in SeenAlerts(w) \cup dismissed
      BY <2>4 DEF SeenAlerts, IInv, ActiveIncidentHasAlert
    <2>8. k \in tx[w].toResolve => Projects(incident[k], DoneOpening(w, k), DoneResolving(w, k))
      <3>1. ASSUME k \in tx[w].toResolve
            PROVE  DoneOpening(w, k) = Opening(k) /\ DoneResolving(w, k) = Resolving(k)
        BY <2>2, <3>1 DEF DoneOpening, DoneResolving
      <3> QED
        BY <3>1 DEF IInv, IncidentIsProjection
    <2> QED
      BY <1>4, <2>1, <2>6, <2>7, <2>8
  <1> QED
    BY <1>3, <1>4

\* An upsert of the row of k concerns no other row: it is enough that the new
\* row fits.
LEMMA UpsertStepKeeps ==
    ASSUME IInv, NEW w \in Worker, Busy(w), NEW k \in IncidentType, ~LockedByAnother(w, k),
           NEW row \in Row, NEW closed \in SUBSET Alert, NEW toResolve,
           tx' = [tx EXCEPT ![w] =
                    [msg |-> tx[w].msg, analysis |-> tx[w].analysis,
                     toOpen |-> tx[w].toOpen \ {k}, toResolve |-> toResolve,
                     rows |-> [tx[w].rows EXCEPT ![k] = row],
                     own |-> tx[w].own, closed |-> closed]],
           \/ toResolve = tx[w].toResolve
           \/ tx[w].toOpen = {} /\ toResolve = tx[w].toResolve \ {k},
           tx[w].closed \subseteq closed, \A x \in closed \ tx[w].closed : x[2] = k,
           UNCHANGED <<email, analysis, incident, open, dismissed>>,
           HeldRowInv(w, k)'
    PROVE  IInv'
  <1> DEFINE t == [msg |-> tx[w].msg, analysis |-> tx[w].analysis,
                   toOpen |-> tx[w].toOpen \ {k}, toResolve |-> toResolve,
                   rows |-> [tx[w].rows EXCEPT ![k] = row],
                   own |-> tx[w].own, closed |-> closed]
  <1>1. tx[w] \in Transaction
    BY DEF IInv, TypeOK, Busy
  <1>2. t \in Transaction
    BY <1>1 DEF Transaction
  <1>3. TypeOK'
    BY <1>2 DEF IInv, TypeOK
  <1>4. tx'[w] = t /\ \A w2 \in Worker \ {w} : tx'[w2] = tx[w2]
    BY DEF IInv, TypeOK
  <1>5. /\ Busy(w)' /\ Holds(w, k)'
        /\ \A k2 \in IncidentType \ {k} : Holds(w, k2)' <=> Holds(w, k2)
        /\ \A k2 \in IncidentType : LockedByAnother(w, k2)' <=> LockedByAnother(w, k2)
    <2>1. Busy(w)'
      BY <1>2, <1>4, NoneAssumption DEF Busy
    <2>2. Holds(w, k)'
      BY <1>1, <1>4, <2>1, NoneAssumption DEF Holds, Transaction
    <2>3. \A k2 \in IncidentType \ {k} : Holds(w, k2)' <=> Holds(w, k2)
      BY <1>1, <1>4, <2>1 DEF Holds, Transaction
    <2>4. \A k2 \in IncidentType : LockedByAnother(w, k2)' <=> LockedByAnother(w, k2)
      BY <1>4 DEF LockedByAnother, Holds, Busy
    <2> QED
      BY <2>1, <2>2, <2>3, <2>4
  <1>6. TransactionInv(w)
    BY DEF IInv
  <1>7. TransactionInv(w)'
    <2>1. analysis'[t.msg] = None /\ \A w2 \in Worker \ {w} : Busy(w2)' => tx'[w2].msg # t.msg
      BY <1>4, <1>6 DEF TransactionInv, Busy
    <2>2. /\ t.own = {t.msg} \X t.analysis.alerts
          /\ t.toOpen \subseteq Opened(t.analysis)
          /\ t.toResolve \subseteq Resolved(t.analysis, email'[t.msg].text)
          /\ t.toOpen # {} => t.toResolve = Resolved(t.analysis, email'[t.msg].text)
      BY <1>6 DEF TransactionInv
    <2>3. \A x \in t.closed : Holds(w, x[2])'
      <3> SUFFICES ASSUME NEW x \in closed PROVE Holds(w, x[2])'
        OBVIOUS
      <3>1. CASE x[2] = k
        BY <1>5, <3>1
      <3>2. CASE x[2] # k
        <4>1. x \in tx[w].closed /\ x[2] \in IncidentType
          BY <3>2 DEF Alert, IncidentType
        <4> QED
          BY <1>5, <1>6, <3>2, <4>1 DEF TransactionInv
      <3> QED
        BY <3>1, <3>2
    <2>4. ASSUME NEW k2 \in IncidentType
          PROVE  /\ Holds(w, k2)' => k2 \notin t.toOpen /\ ~LockedByAnother(w, k2)'
                 /\ ~Holds(w, k2)' =>
                      /\ k2 \in Opened(t.analysis) => k2 \in t.toOpen
                      /\ k2 \in Resolved(t.analysis, email'[t.msg].text) => k2 \in t.toResolve
      <3>1. CASE k2 = k
        BY <1>5, <3>1
      <3>2. CASE k2 # k
        BY <1>5, <1>6, <3>2 DEF TransactionInv
      <3> QED
        BY <3>1, <3>2
    <2> HIDE DEF t
    <2> QED
      BY <1>4, <1>5, <2>1, <2>2, <2>3, <2>4 DEF TransactionInv
  <1>8. ASSUME NEW k2 \in IncidentType, k2 # k PROVE HeldRowInv(w, k2)'
    <2>1. tx'[w].rows[k2] = tx[w].rows[k2]
      BY <1>1, <1>4, <1>8 DEF Transaction
    <2>2. /\ DoneOpening(w, k2)' = DoneOpening(w, k2)
          /\ DoneResolving(w, k2)' = DoneResolving(w, k2)
      BY <1>4, <1>8 DEF DoneOpening, DoneResolving, Opening, Resolving
    <2>3. \A x : x[2] = k2 => (x \in SeenAlerts(w)' <=> x \in SeenAlerts(w))
      BY <1>4, <1>8 DEF SeenAlerts
    <2>4. \A m : SeenPlain(w, m)' = SeenPlain(w, m)
      BY <1>4 DEF SeenPlain
    <2>5. HeldRowInv(w, k2)
      BY DEF IInv
    <2>6. CASE Holds(w, k2)
      <3> DEFINE r == tx[w].rows[k2]
      <3>1. /\ Projects(r, DoneOpening(w, k2), DoneResolving(w, k2))
            /\ \A x \in SeenAlerts(w) : x[2] = k2 /\ SeenPlain(w, x[1]) =>
                  r.status = "active" /\ r.msg = x[1]
            /\ k2 \in PaymentAlert /\ r.status = "active" =>
                  <<r.msg, k2>> \in SeenAlerts(w) \cup dismissed
        BY <2>5, <2>6 DEF HeldRowInv
      <3>2. Projects(r, DoneOpening(w, k2), DoneResolving(w, k2))'
        BY <2>1, <2>2, <3>1 DEF Projects
      <3> QED
        BY <2>1, <2>3, <2>4, <3>1, <3>2 DEF HeldRowInv
    <2> QED
      BY <1>5, <1>8, <2>6 DEF HeldRowInv
  <1>9. \A k2 \in IncidentType : HeldRowInv(w, k2)'
    BY <1>8
  <1> HIDE DEF t
  <1> QED
    BY <1>3, <1>7, <1>9, LocalStepKeeps DEF t

\* A transaction's message is typed, and the row it sees is a row.
LEMMA UpsertedTyped ==
    ASSUME IInv, NEW w \in Worker, Busy(w), NEW k \in IncidentType,
           NEW status \in {"active", "resolved"}, Visible(w, k) \in Row
    PROVE  /\ tx[w].msg \in Msg /\ email[tx[w].msg].at \in Nat
           /\ Upserted(w, k, status) \in Row
  <1>1. tx[w].msg \in Msg
    BY DEF IInv, TypeOK, Busy, Transaction
  <1>2. email[tx[w].msg].at \in Nat
    BY <1>1, EmailAssumption DEF IInv, TypeOK
  <1> QED
    BY <1>1, <1>2 DEF Upserted, Row

\* Opening an incident: the newest message raises the only alert; a late one
\* takes its own back.
LEMMA OpenIncidentKeeps ==
    ASSUME IInv, NEW w \in Worker, NEW k \in IncidentType, OpenIncident(w, k)
    PROVE  IInv'
  <1> DEFINE t == tx[w]
             m == t.msg
             isNew == Newer(email[m].at, "active", incident[k])
             row == Upserted(w, k, "active")
             closed == t.closed \cup IF isNew THEN Obsolete(w, k, FALSE) ELSE {<<m, k>>} \cap t.own
  <1>1. /\ Busy(w) /\ k \in t.toOpen /\ ~LockedByAnother(w, k)
        /\ UNCHANGED <<email, analysis, incident, open, dismissed>>
    BY DEF OpenIncident, Reconciled
  <1>2. TransactionInv(w) /\ t \in Transaction
    BY <1>1 DEF IInv, TypeOK, Busy
  <1>3. ~Holds(w, k) /\ Visible(w, k) = incident[k] /\ incident[k] \in Row
    BY <1>1, <1>2 DEF TransactionInv, Visible, IInv, TypeOK
  <1>4. m \in Msg /\ email[m].at \in Nat /\ row \in Row
    BY <1>1, <1>3, UpsertedTyped
  <1>5. row = IF isNew THEN [status |-> "active", at |-> email[m].at, msg |-> m] ELSE incident[k]
    BY <1>3 DEF Upserted
  <1>6. tx' = [tx EXCEPT ![w] =
                 [msg |-> t.msg, analysis |-> t.analysis,
                  toOpen |-> t.toOpen \ {k}, toResolve |-> t.toResolve,
                  rows |-> [t.rows EXCEPT ![k] = row],
                  own |-> t.own, closed |-> closed]]
    BY <1>3 DEF OpenIncident, Reconciled
  <1>7. \A x \in open \cup dismissed : x[1] # m
    BY <1>1, <1>2 DEF TransactionInv, IInv, AlertsHaveAnalyses
  <1>8. \A x \in t.own : x[1] = m
    BY <1>1, <1>2 DEF TransactionInv
  <1>9. \A x \in t.closed : x[2] # k
    BY <1>1, <1>2, <1>3 DEF TransactionInv
  <1>10. \A x \in Obsolete(w, k, FALSE) : x \in Alert /\ x[2] = k
    <2>1. \A x \in Obsolete(w, k, FALSE) : x \in open \cup t.own /\ x[2] = k
      BY DEF Obsolete
    <2> QED
      BY <1>2, <2>1 DEF IInv, TypeOK, Transaction
  <1>11. closed \in SUBSET Alert /\ \A x \in closed \ t.closed : x[2] = k
    <2>1. t.closed \in SUBSET Alert /\ t.own \in SUBSET Alert
      BY <1>2 DEF Transaction
    <2> HIDE DEF t
    <2>2. CASE isNew
      BY <1>10, <2>1, <2>2
    <2>3. CASE ~isNew
      BY <2>1, <2>3
    <2> QED
      BY <2>2, <2>3
  <1>12. /\ k \in Opened(t.analysis)
         /\ t.toResolve = Resolved(t.analysis, email[m].text)
    BY <1>1, <1>2 DEF TransactionInv
  <1>13. /\ tx'[w].rows[k] = row /\ SeenAlerts(w)' = (open \cup t.own) \ closed
         /\ DoneOpening(w, k)' = Opening(k) \cup {m}
         /\ DoneResolving(w, k)' = Resolving(k)
         /\ \A m2 : SeenPlain(w, m2)' = SeenPlain(w, m2)
    <2>1. tx'[w] = [msg |-> t.msg, analysis |-> t.analysis,
                  toOpen |-> t.toOpen \ {k}, toResolve |-> t.toResolve,
                  rows |-> [t.rows EXCEPT ![k] = row],
                  own |-> t.own, closed |-> closed]
      BY <1>6 DEF IInv, TypeOK
    <2>2. tx'[w].rows[k] = row
      BY <1>2, <2>1 DEF Transaction
    <2> HIDE DEF closed, row
    <2> QED
      BY <1>1, <1>12, <2>1, <2>2 DEF SeenAlerts, DoneOpening, DoneResolving, Opening, Resolving, SeenPlain
  <1>14. Projects(row, Opening(k) \cup {m}, Resolving(k))
    <2>1. Projects(incident[k], Opening(k), Resolving(k))
      BY DEF IInv, IncidentIsProjection
    <2>2. Opening(k) \in SUBSET Msg /\ Resolving(k) \in SUBSET Msg /\ email \in [Msg -> Email]
      BY DEF Opening, Resolving, IInv, TypeOK
    <2> HIDE DEF row
    <2> QED
      BY <1>3, <1>4, <1>5, <2>1, <2>2, UpsertProjects
  <1>15. ASSUME NEW x \in (open \cup t.own) \ closed, x[2] = k, SeenPlain(w, x[1])
         PROVE  row.status = "active" /\ row.msg = x[1]
    <2>1. CASE x[1] = m
      <3>1. x \in t.own /\ x = <<m, k>>
        BY <1>2, <1>7, <1>15, <2>1 DEF IInv, TypeOK, Transaction, Alert
      <3>2. isNew
        BY <1>15, <3>1
      <3> QED
        BY <1>5, <2>1, <3>2
    <2>2. CASE x[1] # m
      <3>1. /\ x \in open /\ x[1] \in Msg /\ analysis[x[1]] # None /\ analysis[x[1]].plain
        BY <1>8, <1>15, <2>2 DEF SeenPlain, IInv, AlertsHaveAnalyses, TypeOK, Alert
      <3>2. incident[k].status = "active" /\ incident[k].msg = x[1]
        BY <1>15, <3>1 DEF IInv, OpenAlertsAreCurrent
      <3>3. incident[k] # NoIncident /\ incident[k].at = email[x[1]].at
        BY <3>2 DEF NoIncident, IInv, IncidentIsProjection, Projects
      <3>4. ~isNew
        <4>1. email[x[1]].at \in Nat
          BY <3>1, EmailAssumption DEF IInv, TypeOK
        <4>2. isNew => email[x[1]].at <= email[m].at
          BY <1>4, <3>3, <4>1 DEF Newer
        <4>3. isNew => x \in Obsolete(w, k, FALSE)
          BY <1>9, <1>15, <2>2, <3>1, <4>2 DEF Obsolete
        <4> QED
          BY <1>15, <4>3
      <3> QED
        BY <1>5, <3>2, <3>4
    <2> QED
      BY <2>1, <2>2
  <1>16. k \in PaymentAlert /\ row.status = "active" =>
            <<row.msg, k>> \in ((open \cup t.own) \ closed) \cup dismissed
    <2> SUFFICES ASSUME k \in PaymentAlert, row.status = "active"
                 PROVE <<row.msg, k>> \in ((open \cup t.own) \ closed) \cup dismissed
      OBVIOUS
    <2>1. CASE isNew
      <3>1. row.msg = m
        BY <1>5, <2>1
      <3>2. k \in t.analysis.alerts
        BY <1>12 DEF Opened, PaymentAlert
      <3>3. <<m, k>> \in t.own
        BY <1>1, <1>2, <3>2 DEF TransactionInv
      <3>4. <<m, k>> \notin Obsolete(w, k, FALSE)
        BY DEF Obsolete
      <3> QED
        BY <1>9, <2>1, <3>1, <3>3, <3>4
    <2>2. CASE ~isNew
      <3>1. row = incident[k]
        BY <1>5, <2>2
      <3>2. <<row.msg, k>> \in open \cup dismissed
        BY <3>1 DEF IInv, ActiveIncidentHasAlert
      <3> QED
        BY <1>7, <1>9, <2>2, <3>2
    <2> QED
      BY <2>1, <2>2
  <1>17. HeldRowInv(w, k)'
    <2> HIDE DEF row, closed
    <2> QED
      BY <1>1, <1>13, <1>14, <1>15, <1>16 DEF HeldRowInv, Projects
  <1> HIDE DEF row, closed
  <1> QED
    BY <1>1, <1>4, <1>6, <1>11, <1>17, UpsertStepKeeps DEF closed

\* Resolving an incident: the newest message closes every alert it finds; a
\* late one closes nothing.
LEMMA ResolveIncidentKeeps ==
    ASSUME IInv, NEW w \in Worker, NEW k \in IncidentType, ResolveIncident(w, k)
    PROVE  IInv'
  <1> DEFINE t == tx[w]
             m == t.msg
             old == Visible(w, k)
             isNew == Newer(email[m].at, "resolved", old)
             row == Upserted(w, k, "resolved")
             closed == t.closed \cup IF isNew THEN Obsolete(w, k, TRUE) ELSE {}
  <1>1. /\ Busy(w) /\ t.toOpen = {} /\ k \in t.toResolve /\ ~LockedByAnother(w, k)
        /\ UNCHANGED <<email, analysis, incident, open, dismissed>>
    BY DEF ResolveIncident, Reconciled
  <1>2. TransactionInv(w) /\ t \in Transaction
    BY <1>1 DEF IInv, TypeOK, Busy
  <1>3. /\ old \in Row
        /\ Projects(old, DoneOpening(w, k), DoneResolving(w, k))
        /\ \A x \in SeenAlerts(w) : x[2] = k /\ SeenPlain(w, x[1]) =>
                old.status = "active" /\ old.msg = x[1]
        /\ k \in PaymentAlert /\ old.status = "active" =>
                <<old.msg, k>> \in SeenAlerts(w) \cup dismissed
    <2>1. k \notin t.toOpen /\ (Holds(w, k) \/ k \in t.toResolve)
      BY <1>1
    <2> QED
      BY <1>1, <2>1, VisibleFits
  <1>4. m \in Msg /\ email[m].at \in Nat /\ row \in Row
    BY <1>1, <1>3, UpsertedTyped
  <1>5. row = IF isNew THEN [status |-> "resolved", at |-> email[m].at, msg |-> m] ELSE old
    BY DEF Upserted
  <1>6. tx' = [tx EXCEPT ![w] =
                 [msg |-> t.msg, analysis |-> t.analysis,
                  toOpen |-> t.toOpen \ {k}, toResolve |-> t.toResolve \ {k},
                  rows |-> [t.rows EXCEPT ![k] = row],
                  own |-> t.own, closed |-> closed]]
    <2>1. t.toOpen = t.toOpen \ {k}
      BY <1>1
    <2> QED
      BY <2>1 DEF ResolveIncident, Reconciled
  <1>7. \A x \in Obsolete(w, k, TRUE) : x \in Alert /\ x[2] = k
    <2>1. \A x \in Obsolete(w, k, TRUE) : x \in open \cup t.own /\ x[2] = k
      BY DEF Obsolete
    <2> QED
      BY <1>2, <2>1 DEF IInv, TypeOK, Transaction
  <1>8. closed \in SUBSET Alert /\ \A x \in closed \ t.closed : x[2] = k
    <2>1. t.closed \in SUBSET Alert
      BY <1>2 DEF Transaction
    <2> QED
      BY <1>7, <2>1
  <1>9. k \in Resolved(t.analysis, email[m].text)
    BY <1>1, <1>2 DEF TransactionInv
  <1>10. /\ tx'[w].rows[k] = row /\ SeenAlerts(w)' = (open \cup t.own) \ closed
         /\ DoneOpening(w, k)' = DoneOpening(w, k)
         /\ DoneResolving(w, k)' = DoneResolving(w, k) \cup {m}
         /\ \A m2 : SeenPlain(w, m2)' = SeenPlain(w, m2)
    <2>1. tx'[w] = [msg |-> t.msg, analysis |-> t.analysis,
                  toOpen |-> t.toOpen \ {k}, toResolve |-> t.toResolve \ {k},
                  rows |-> [t.rows EXCEPT ![k] = row],
                  own |-> t.own, closed |-> closed]
      BY <1>6 DEF IInv, TypeOK
    <2>2. tx'[w].rows[k] = row
      BY <1>2, <2>1 DEF Transaction
    <2> HIDE DEF closed, row
    <2> QED
      BY <1>1, <1>9, <2>1, <2>2 DEF SeenAlerts, DoneOpening, DoneResolving, Opening, Resolving, SeenPlain
  <1>11. Projects(row, DoneOpening(w, k), DoneResolving(w, k) \cup {m})
    <2>1. /\ DoneOpening(w, k) \in SUBSET Msg /\ DoneResolving(w, k) \in SUBSET Msg
          /\ email \in [Msg -> Email]
      BY <1>4 DEF DoneOpening, DoneResolving, Opening, Resolving, IInv, TypeOK
    <2> HIDE DEF row, old
    <2> QED
      BY <1>3, <1>4, <1>5, <2>1, UpsertProjects
  <1>12. ASSUME NEW x \in (open \cup t.own) \ closed, x[2] = k, SeenPlain(w, x[1])
         PROVE  row.status = "active" /\ row.msg = x[1]
    <2>1. x \in SeenAlerts(w)
      BY <1>12 DEF SeenAlerts
    <2>2. old.status = "active" /\ old.msg = x[1]
      BY <1>3, <1>12, <2>1
    <2>3. old # NoIncident /\ old.at = email[x[1]].at
      BY <1>3, <2>2 DEF NoIncident, Projects
    <2>4. old.at \in Nat
      BY <1>3, <2>3 DEF Row
    <2>5. isNew => email[x[1]].at <= email[m].at
      BY <1>4, <2>3, <2>4 DEF Newer
    <2>6. x[1] = m \/ (analysis[x[1]] # None /\ analysis[x[1]].plain)
      <3>1. x[1] # m => x \in open
        BY <1>1, <1>2, <1>12 DEF TransactionInv
      <3> QED
        BY <1>12, <3>1 DEF SeenPlain, IInv, AlertsHaveAnalyses
    <2>7. isNew => x \in Obsolete(w, k, TRUE)
      BY <1>12, <2>5, <2>6 DEF Obsolete, SeenPlain
    <2>8. ~isNew
      BY <1>12, <2>7
    <2> QED
      BY <1>5, <2>2, <2>8
  <1>13. k \in PaymentAlert /\ row.status = "active" =>
            <<row.msg, k>> \in ((open \cup t.own) \ closed) \cup dismissed
    <2>1. CASE isNew
      BY <1>5, <2>1
    <2>2. CASE ~isNew
      <3>1. row = old /\ (open \cup t.own) \ closed = SeenAlerts(w)
        BY <1>5, <2>2 DEF SeenAlerts
      <3> QED
        BY <1>3, <3>1
    <2> QED
      BY <2>1, <2>2
  <1>14. HeldRowInv(w, k)'
    <2> HIDE DEF row, closed
    <2> QED
      BY <1>1, <1>10, <1>11, <1>12, <1>13 DEF HeldRowInv, Projects
  <1> HIDE DEF row, closed
  <1> QED
    BY <1>1, <1>4, <1>6, <1>8, <1>14, UpsertStepKeeps DEF closed

-----------------------------------------------------------------------------
(* Steps that change the committed state *)

\* A commit makes true what the transaction's rows and alerts were fit for,
\* and takes nothing from the other transactions: their rows are others.
LEMMA CommitKeeps ==
    ASSUME IInv, NEW w \in Worker, Commit(w)
    PROVE  IInv'
  <1> DEFINE t == tx[w]
             m == t.msg
  <1>1. /\ Busy(w) /\ t.toOpen = {} /\ t.toResolve = {}
        /\ analysis' = [analysis EXCEPT ![m] = t.analysis]
        /\ incident' = [k \in IncidentType |-> Visible(w, k)]
        /\ open' = SeenAlerts(w)
        /\ tx' = [tx EXCEPT ![w] = None]
        /\ UNCHANGED <<email, dismissed>>
    BY DEF Commit, SeenAlerts
  <1>2. TransactionInv(w) /\ t \in Transaction
    BY <1>1 DEF IInv, TypeOK, Busy
  <1>3. m \in Msg /\ t.analysis \in Analysis /\ analysis[m] = None
    BY <1>1, <1>2 DEF Transaction, TransactionInv
  <1>4. analysis'[m] = t.analysis /\ t.analysis # None
        /\ \A m2 \in Msg : m2 # m => analysis'[m2] = analysis[m2]
    BY <1>1, <1>3, NoneAssumption DEF IInv, TypeOK
  <1>5. ASSUME NEW k \in IncidentType
        PROVE  /\ Visible(w, k) \in Row
               /\ Opening(k)' = DoneOpening(w, k) /\ Resolving(k)' = DoneResolving(w, k)
               /\ ~Holds(w, k) => /\ Opening(k)' = Opening(k) /\ Resolving(k)' = Resolving(k)
                                  /\ \A x \in t.own \cup t.closed : x[2] # k
    <2>1. Visible(w, k) \in Row
      BY <1>1, VisibleFits
    <2>2. Opening(k)' = DoneOpening(w, k) /\ Resolving(k)' = DoneResolving(w, k)
      BY <1>1, <1>3, <1>4 DEF Opening, Resolving, DoneOpening, DoneResolving
    <2>3. ASSUME ~Holds(w, k)
          PROVE  k \notin Opened(t.analysis) /\ k \notin Resolved(t.analysis, email[m].text)
      BY <1>1, <1>2, <2>3 DEF TransactionInv
    <2>4. ~Holds(w, k) => Opening(k)' = Opening(k) /\ Resolving(k)' = Resolving(k)
      BY <2>2, <2>3 DEF DoneOpening, DoneResolving
    <2>5. ASSUME ~Holds(w, k) PROVE \A x \in t.own \cup t.closed : x[2] # k
      <3>1. t.own = {m} \X t.analysis.alerts /\ \A x \in t.closed : Holds(w, x[2])
        BY <1>1, <1>2 DEF TransactionInv
      <3> QED
        BY <2>3, <2>5, <3>1 DEF Opened
    <2> QED
      BY <2>1, <2>2, <2>4, <2>5
  <1>6. TypeOK'
    <2>1. incident' \in [IncidentType -> Row]
      BY <1>1, <1>5
    <2>2. open' \subseteq Alert
      BY <1>1, <1>2 DEF SeenAlerts, Transaction, IInv, TypeOK
    <2>3. analysis' \in [Msg -> Analysis \cup {None}]
      BY <1>1, <1>3 DEF IInv, TypeOK
    <2> QED
      BY <1>1, <2>1, <2>2, <2>3 DEF IInv, TypeOK
  <1>7. IncidentIsProjection'
    <2> SUFFICES ASSUME NEW k \in IncidentType
                 PROVE  Projects(incident[k], Opening(k), Resolving(k))'
      BY DEF IncidentIsProjection
    <2>1. incident'[k] = Visible(w, k)
      BY <1>1
    <2>2. Projects(Visible(w, k), Opening(k)', Resolving(k)')
      <3>1. CASE Holds(w, k)
        BY <1>1, <1>5, <3>1, VisibleFits
      <3>2. CASE ~Holds(w, k)
        BY <1>5, <3>2 DEF Visible, IInv, IncidentIsProjection
      <3> QED
        BY <3>1, <3>2
    <2> QED
      BY <1>1, <2>1, <2>2 DEF Projects
  <1>8. AlertsHaveAnalyses'
    <2>1. \A x \in t.own : x[1] = m
      BY <1>1, <1>2 DEF TransactionInv
    <2> QED
      BY <1>1, <1>4, <2>1 DEF AlertsHaveAnalyses, SeenAlerts, IInv, TypeOK, Alert
  <1>9. \A x \in SeenAlerts(w) : x \in Alert /\ analysis'[x[1]].plain = SeenPlain(w, x[1])
    <2>1. SeenAlerts(w) \subseteq Alert
      BY <1>1, <1>6 DEF TypeOK
    <2> QED
      BY <1>4, <2>1 DEF SeenPlain, Alert
  <1>10. OpenAlertsAreCurrent'
    <2> SUFFICES ASSUME NEW x \in open', analysis'[x[1]].plain
                 PROVE  incident'[x[2]].status = "active" /\ incident'[x[2]].msg = x[1]
      BY DEF OpenAlertsAreCurrent
    <2>1. x \in SeenAlerts(w) /\ x[2] \in IncidentType /\ SeenPlain(w, x[1])
      BY <1>1, <1>9 DEF Alert, IncidentType
    <2>2. incident'[x[2]] = Visible(w, x[2]) /\ x[2] \notin t.toOpen
      BY <1>1, <2>1
    <2> QED
      BY <1>1, <2>1, <2>2, VisibleFits
  <1>11. ActiveIncidentHasAlert'
    <2> SUFFICES ASSUME NEW k \in PaymentAlert, incident'[k].status = "active"
                 PROVE  <<incident'[k].msg, k>> \in open' \cup dismissed'
      BY DEF ActiveIncidentHasAlert
    <2>1. k \in IncidentType /\ k \notin t.toOpen
      BY <1>1 DEF IncidentType
    <2>2. incident'[k] = Visible(w, k)
      BY <1>1, <2>1
    <2> QED
      BY <1>1, <2>1, <2>2, VisibleFits
  <1>12. ~Busy(w)' /\ \A k \in IncidentType : ~Holds(w, k)'
    BY <1>1 DEF Busy, Holds, IInv, TypeOK
  <1>13. ASSUME NEW w2 \in Worker, w2 # w
         PROVE  TransactionInv(w2)' /\ \A k \in IncidentType : HeldRowInv(w2, k)'
    <2>1. tx'[w2] = tx[w2]
      BY <1>1, <1>13 DEF IInv, TypeOK
    <2>2. /\ Busy(w2)' <=> Busy(w2)
          /\ \A k \in IncidentType : Holds(w2, k)' <=> Holds(w2, k)
      BY <2>1 DEF Busy, Holds
    <2>3. \A w3 \in Worker : Busy(w3)' => tx'[w3] = tx[w3] /\ Busy(w3)
      BY <1>1, <1>12 DEF Busy, IInv, TypeOK
    <2>4. \A k \in IncidentType : LockedByAnother(w2, k)' => LockedByAnother(w2, k)
      BY <2>3 DEF LockedByAnother, Holds
    <2>5. TransactionInv(w2)
      BY DEF IInv
    <2>6. Busy(w2) => tx[w2].msg \in Msg /\ tx[w2].msg # m /\ analysis'[tx[w2].msg] = None
                      /\ \A x \in tx[w2].closed : x[2] \in IncidentType
      BY <1>1, <1>2, <1>4, <1>13, <2>5 DEF TransactionInv, IInv, TypeOK, Busy, Transaction, Alert, IncidentType
    <2>7. Busy(w2) => \A w3 \in Worker \ {w2} : Busy(w3)' => tx'[w3].msg # tx[w2].msg
      BY <2>3, <2>5 DEF TransactionInv
    <2>8. TransactionInv(w2)'
      BY <1>1, <2>1, <2>2, <2>4, <2>5, <2>6, <2>7 DEF TransactionInv
    <2>9. ASSUME NEW k \in IncidentType, Holds(w2, k) PROVE HeldRowInv(w2, k)'
      <3>1. ~Holds(w, k) /\ Busy(w2)
        BY <1>13, <2>5, <2>9 DEF TransactionInv, LockedByAnother, Holds
      <3>2. DoneOpening(w2, k)' = DoneOpening(w2, k) /\ DoneResolving(w2, k)' = DoneResolving(w2, k)
        BY <1>1, <1>5, <2>1, <3>1 DEF DoneOpening, DoneResolving
      <3>3. \A x : x[2] = k => (x \in SeenAlerts(w2)' <=> x \in SeenAlerts(w2))
        BY <1>1, <1>5, <2>1, <3>1 DEF SeenAlerts
      <3>4. \A x \in SeenAlerts(w2) : SeenPlain(w2, x[1])' = SeenPlain(w2, x[1])
        <4>1. \A x \in tx[w2].own : x[1] = tx[w2].msg
          BY <2>5, <3>1 DEF TransactionInv
        <4>2. \A x \in open : x[1] \in Msg /\ x[1] # m
          BY <1>3 DEF IInv, AlertsHaveAnalyses, TypeOK, Alert
        <4> QED
          BY <1>4, <2>1, <4>1, <4>2 DEF SeenPlain, SeenAlerts
      <3> DEFINE r == tx[w2].rows[k]
      <3>5. /\ Projects(r, DoneOpening(w2, k), DoneResolving(w2, k))
            /\ \A x \in SeenAlerts(w2) : x[2] = k /\ SeenPlain(w2, x[1]) =>
                  r.status = "active" /\ r.msg = x[1]
            /\ k \in PaymentAlert /\ r.status = "active" =>
                  <<r.msg, k>> \in SeenAlerts(w2) \cup dismissed
        BY <2>9 DEF IInv, HeldRowInv
      <3>6. Projects(r, DoneOpening(w2, k), DoneResolving(w2, k))'
        BY <1>1, <2>1, <3>2, <3>5 DEF Projects
      <3>7. dismissed' = dismissed
        BY <1>1
      <3> QED
        BY <2>1, <3>3, <3>4, <3>5, <3>6, <3>7 DEF HeldRowInv
    <2> QED
      BY <2>2, <2>8, <2>9 DEF HeldRowInv
  <1>14. TransactionInv(w)' /\ \A k \in IncidentType : HeldRowInv(w, k)'
    BY <1>12 DEF TransactionInv, HeldRowInv
  <1> QED
    BY <1>6, <1>7, <1>8, <1>10, <1>11, <1>13, <1>14 DEF IInv

\* The user takes an alert off the list; the incident keeps it in its memory.
LEMMA ResolveAlertKeeps ==
    ASSUME IInv, NEW x \in Alert, ResolveAlert(x)
    PROVE  IInv'
  <1>1. /\ x \in open /\ open' = open \ {x} /\ dismissed' = dismissed \cup {x}
        /\ UNCHANGED <<email, analysis, incident, tx>>
    BY DEF ResolveAlert
  <1>2. TypeOK' /\ AlertsHaveAnalyses' /\ IncidentIsProjection'
        /\ OpenAlertsAreCurrent' /\ ActiveIncidentHasAlert'
    BY <1>1 DEF IInv, TypeOK, AlertsHaveAnalyses, IncidentIsProjection, Projects, Opening,
       Resolving, OpenAlertsAreCurrent, ActiveIncidentHasAlert
  <1>3. ASSUME NEW w \in Worker
        PROVE  TransactionInv(w)' /\ \A k \in IncidentType : HeldRowInv(w, k)'
    <2>1. TransactionInv(w)'
      <3>1. TransactionInv(w)
        BY DEF IInv
      <3> QED
        BY <1>1, <3>1 DEF TransactionInv, Busy, Holds, LockedByAnother
    <2>2. ASSUME NEW k \in IncidentType, Holds(w, k) PROVE HeldRowInv(w, k)'
      <3> DEFINE r == tx[w].rows[k]
      <3>1. /\ Projects(r, DoneOpening(w, k), DoneResolving(w, k))
            /\ \A y \in SeenAlerts(w) : y[2] = k /\ SeenPlain(w, y[1]) =>
                  r.status = "active" /\ r.msg = y[1]
            /\ k \in PaymentAlert /\ r.status = "active" =>
                  <<r.msg, k>> \in SeenAlerts(w) \cup dismissed
        BY <2>2 DEF IInv, HeldRowInv
      <3>2. Projects(r, DoneOpening(w, k), DoneResolving(w, k))'
        BY <1>1, <3>1 DEF Projects, DoneOpening, DoneResolving, Opening, Resolving
      <3>3. SeenAlerts(w)' \subseteq SeenAlerts(w)
            /\ SeenAlerts(w) \cup dismissed \subseteq (SeenAlerts(w) \cup dismissed)'
            /\ \A m : SeenPlain(w, m)' = SeenPlain(w, m)
        BY <1>1 DEF SeenAlerts, SeenPlain
      <3>4. \A y \in SeenAlerts(w)' : y[2] = k /\ SeenPlain(w, y[1])' =>
                  r.status = "active" /\ r.msg = y[1]
        BY <3>1, <3>3
      <3>5. k \in PaymentAlert /\ r.status = "active" =>
                  <<r.msg, k>> \in (SeenAlerts(w) \cup dismissed)'
        BY <3>1, <3>3
      <3> QED
        BY <1>1, <3>2, <3>4, <3>5 DEF HeldRowInv
    <2>3. \A k \in IncidentType : Holds(w, k)' <=> Holds(w, k)
      BY <1>1 DEF Holds, Busy
    <2> QED
      BY <2>1, <2>2, <2>3 DEF HeldRowInv
  <1> QED
    BY <1>2, <1>3 DEF IInv

\* Every step keeps the invariant.
LEMMA Inductive == IInv /\ [Next]_vars => IInv'
  <1> SUFFICES ASSUME IInv, [Next]_vars PROVE IInv'
    OBVIOUS
  <1>1. CASE UNCHANGED vars
    <2>1. UNCHANGED <<email, analysis, incident, open, dismissed, tx>>
      BY <1>1 DEF vars
    <2>2. TypeOK' /\ AlertsHaveAnalyses'
      BY <2>1 DEF IInv, TypeOK, AlertsHaveAnalyses
    <2>3. IncidentIsProjection'
      BY <2>1 DEF IInv, IncidentIsProjection, Projects, Opening, Resolving
    <2>4. OpenAlertsAreCurrent' /\ ActiveIncidentHasAlert'
      BY <2>1 DEF IInv, OpenAlertsAreCurrent, ActiveIncidentHasAlert
    <2>5. ASSUME NEW w \in Worker PROVE TransactionInv(w)'
      <3>1. TransactionInv(w)
        BY DEF IInv
      <3> QED
        BY <2>1, <3>1 DEF TransactionInv, Busy, Holds, LockedByAnother
    <2>6. ASSUME NEW w \in Worker, NEW k \in IncidentType PROVE HeldRowInv(w, k)'
      <3>1. HeldRowInv(w, k)
        BY DEF IInv
      <3>2. (Holds(w, k)' <=> Holds(w, k)) /\ SeenAlerts(w)' = SeenAlerts(w)
            /\ \A m : SeenPlain(w, m)' = SeenPlain(w, m)
        BY <2>1 DEF Holds, Busy, SeenAlerts, SeenPlain
      <3>3. DoneOpening(w, k)' = DoneOpening(w, k) /\ DoneResolving(w, k)' = DoneResolving(w, k)
        BY <2>1 DEF DoneOpening, DoneResolving, Opening, Resolving
      <3>4. Projects(tx[w].rows[k], DoneOpening(w, k), DoneResolving(w, k))' <=>
            Projects(tx[w].rows[k], DoneOpening(w, k), DoneResolving(w, k))
        BY <2>1, <3>3 DEF Projects
      <3> QED
        BY <2>1, <3>1, <3>2, <3>4 DEF HeldRowInv
    <2> QED
      BY <2>2, <2>3, <2>4, <2>5, <2>6 DEF IInv
  <1>2. ASSUME NEW w \in Worker, Step(w) PROVE IInv'
    BY <1>2, AnalyzeKeeps, OpenIncidentKeeps, ResolveIncidentKeeps, CommitKeeps, AbortKeeps
       DEF Step
  <1>3. ASSUME NEW x \in Alert, ResolveAlert(x) PROVE IInv'
    BY <1>3, ResolveAlertKeeps
  <1> QED
    BY <1>1, <1>2, <1>3 DEF Next

-----------------------------------------------------------------------------

\* The invariant holds in every reachable state, whatever the provider
\* answers and whenever transactions are undone.
THEOREM Invariance == Spec => []IInv
  BY InitInvariant, Inductive, PTL DEF Spec

\* The rows of analyses, incidents and alerts are well typed.
THEOREM TypeCorrect == Spec => []TypeOK
  <1>1. IInv => TypeOK
    BY DEF IInv
  <1> QED
    BY <1>1, Invariance, PTL

\* Incidents do not depend on the order in which messages are analyzed.
THEOREM OrderIndependence == Spec => []IncidentIsProjection
  <1>1. IInv => IncidentIsProjection
    BY DEF IInv
  <1> QED
    BY <1>1, Invariance, PTL

\* The list of open alerts shows nothing obsolete.
THEOREM NoObsoleteAlert == Spec => []OpenAlertsAreCurrent
  <1>1. IInv => OpenAlertsAreCurrent
    BY DEF IInv
  <1> QED
    BY <1>1, Invariance, PTL

\* No active payment incident is without its alert.
THEOREM NoMissingAlert == Spec => []ActiveIncidentHasAlert
  <1>1. IInv => ActiveIncidentHasAlert
    BY DEF IInv
  <1> QED
    BY <1>1, Invariance, PTL

\* A commit moves an incident's row forward in time, or keeps it.
LEMMA CommitMovesForward ==
    ASSUME IInv, NEW w \in Worker, Commit(w), NEW k \in IncidentType
    PROVE  /\ incident'[k].at >= incident[k].at
           /\ incident[k].status = "resolved" /\ incident'[k].status = "active" =>
                incident'[k].at > incident[k].at
  <1>1. /\ Busy(w) /\ tx[w].toOpen = {} /\ incident'[k] = Visible(w, k)
    BY DEF Commit
  <1>2. Visible(w, k) \in Row /\ incident[k] \in Row
    BY <1>1, VisibleFits DEF IInv, TypeOK
  <1>3. \A r \in Row : r.at \in Nat
    BY DEF Row, NoIncident
  <1>4. CASE ~Holds(w, k)
    <2>1. incident'[k] = incident[k]
      BY <1>1, <1>4 DEF Visible
    <2> QED
      BY <1>2, <1>3, <2>1
  <1>5. CASE Holds(w, k)
    <2> DEFINE row == Visible(w, k)
    <2>1. Projects(row, DoneOpening(w, k), DoneResolving(w, k))
      BY <1>1, <1>5, VisibleFits
    <2>2. Opening(k) \subseteq DoneOpening(w, k) /\ Resolving(k) \subseteq DoneResolving(w, k)
      BY DEF DoneOpening, DoneResolving
    <2>3. Projects(incident[k], Opening(k), Resolving(k))
      BY DEF IInv, IncidentIsProjection
    <2>4. CASE incident[k] = NoIncident
      <3>1. incident[k].at = 0 /\ incident[k].status # "resolved"
        BY <2>4 DEF NoIncident
      <3> QED
        BY <1>1, <1>2, <1>3, <3>1
    <2>5. CASE incident[k] # NoIncident
      <3>1. incident[k].status \in {"active", "resolved"}
        BY <1>2, <2>5 DEF Row
      <3>2. incident[k].msg \in Opening(k) \cup Resolving(k) /\ incident[k].at = email[incident[k].msg].at
        BY <2>3, <2>5, <3>1 DEF Projects
      <3>3. incident[k].at <= row.at
        BY <2>1, <2>2, <3>2 DEF Projects
      <3>4. incident[k].status = "resolved" /\ row.status = "active" => incident[k].at # row.at
        BY <2>1, <2>2, <2>3, <3>2 DEF Projects
      <3> HIDE DEF row
      <3>5. row.at \in Nat /\ incident[k].at \in Nat /\ incident'[k] = row
        BY <1>1, <1>2, <1>3 DEF row
      <3> QED
        BY <3>3, <3>4, <3>5
    <2> QED
      BY <2>4, <2>5
  <1> QED
    BY <1>4, <1>5

\* No incident goes back in time.
THEOREM MovesForward == Spec => IncidentsMoveForward
  <1> DEFINE Forward == \A k \in IncidentType :
        /\ incident'[k].at >= incident[k].at
        /\ incident[k].status = "resolved" /\ incident'[k].status = "active" =>
            incident'[k].at > incident[k].at
  <1>1. ASSUME IInv, [Next]_vars PROVE [Forward]_vars
    <2>1. ASSUME NEW w \in Worker, Commit(w) PROVE Forward
      BY <1>1, <2>1, CommitMovesForward
    <2>2. ASSUME UNCHANGED incident PROVE Forward
      <3>1. \A k \in IncidentType : incident[k].at \in Nat
        BY <1>1 DEF IInv, TypeOK, Row, NoIncident
      <3> QED
        BY <2>2, <3>1
    <2>3. (\E w \in Worker : Commit(w)) \/ UNCHANGED incident
      BY <1>1 DEF Next, Step, Analyze, OpenIncident, ResolveIncident, Reconciled, Abort,
         ResolveAlert, vars
    <2> QED
      BY <2>1, <2>2, <2>3
  <1> QED
    BY <1>1, Invariance, PTL DEF Spec, IncidentsMoveForward
=============================================================================
