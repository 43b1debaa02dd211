--------------------------- MODULE MCLiveServices ---------------------------
(***************************************************************************)
(* Instances for TLC of what has to come about in the services: the        *)
(* notifications and their subscriptions, the tokens, the requests, the    *)
(* alerts, the analyses, and what a user waits for.  They share nothing:   *)
(* in a behaviour one of them runs and the others stay as they begin, and  *)
(* each property is asked of the behaviours of its component.              *)
(***************************************************************************)
EXTENDS Integers

CONSTANTS a1, a2, n1, r1, k1, m1, m2, w1, w2, e1, i1, sync, reader, nobody, dead

VARIABLES
    running,
    \* PushWebhooks
    changes, unsent, accepted, admitted, claimed, request, covered, allowance, unheeded,
    pushFailures,
    \* GraphSubscription
    subscription, connected, live, made, events, tickLock, tick, orphans, removals, graphFailures,
    \* ProviderTokens
    tokenRow, rowLock, tokenLock, operation, gens, tokens, lapsed, revoked, acts, crashes,
    \* ProviderRequests
    api, call, stored, answering, refreshes,
    \* TelegramAlerts
    provider, account, active, op, chat, claims, alertChanges, faults,
    \* AnalysisOutbox
    message, outbox, event, analyzed, worker,
    \* Pages
    list, time, shown, cursor, seen, moved, hidden, done,
    \* MessageState
    row, import, edit, backfill, last, imports, edits,
    \* MessageContent
    source, kind, part, item, next, wanted, pc, total, at, linked, refs, pages, body, warning,
    failed, sent

Push == INSTANCE PushWebhooks WITH
    Provider <- "gmail", Account <- {a1, a2}, Message <- {n1}, Request <- {r1}, MaxChanges <- 2,
    MayFail <- {"publish", "redis", "lost", "gone", "deferred"}, MaxFailures <- 1,
    connected <- admitted, failures <- pushFailures
\* Graph refuses every request for the account a2.
Subscriptions == INSTANCE GraphSubscription WITH
    Account <- {a1, a2}, Broken <- {a2}, Scheduler <- {k1}, NoScheduler <- nobody,
    MaxIds <- 4, MaxRemovals <- 1, MaxFailures <- 2,
    MayFail <- {"refused", "answer", "consent", "notice", "crash"},
    row <- subscription, lock <- tickLock, run <- tick, excused <- orphans,
    failures <- graphFailures
\* A transaction may keep the row for longer than the refresh lock lasts.
Tokens == INSTANCE ProviderTokens WITH
    Syncs <- {sync}, Renewals <- {}, Readers <- {reader}, NoOp <- nobody, Dead <- dead,
    Rotates <- FALSE, Imap <- FALSE, MaxActs <- 0, MaxTokens <- 2, SlowRow <- TRUE,
    MaxCrashes <- 1, row <- tokenRow, lock <- tokenLock, op <- operation
Requests == INSTANCE ProviderRequests WITH
    Client <- {r1}, MaxAttempts <- 4, MaxDelay <- 2, MaxRevoked <- 2, MaxCalls <- 2,
    provider <- api, accepted <- answering
Alerts == INSTANCE TelegramAlerts WITH
    Actor <- {"worker", "monitor"}, MaxChanges <- 3, MaxTelling <- 1, MaxLost <- 0,
    MaxCrashes <- 0, changes <- alertChanges
Analysis == INSTANCE AnalysisOutbox WITH
    Msg <- {m1, m2}, Worker <- {w1, w2}, MaxAttempts <- 2
Lists == INSTANCE Pages WITH Row <- 1..2, MaxTime <- 2, Limit <- 1
State == INSTANCE MessageState WITH
    Row <- {1, 2}, Editor <- {e1}, Batch <- 1, Overlap <- TRUE, MaxImports <- 1, MaxEdits <- 1
Content == INSTANCE MessageContent WITH
    Part <- {1}, Item <- {i1}, Page <- 1..3, MaxBody <- 1, MaxItems <- 1, MaxPages <- 3,
    NoItem <- nobody, provider <- source, seen <- linked

pushVars == <<changes, unsent, accepted, admitted, claimed, request, covered, allowance,
              unheeded, pushFailures>>
graphVars == <<subscription, connected, live, made, events, tickLock, tick, orphans, removals,
               graphFailures>>
tokenVars == <<tokenRow, rowLock, tokenLock, operation, gens, tokens, lapsed, revoked, acts,
               crashes>>
requestVars == <<api, call, stored, answering, refreshes>>
alertVars == <<provider, account, active, op, chat, claims, alertChanges, faults>>
analysisVars == <<message, outbox, event, analyzed, worker>>
listVars == <<list, time, shown, cursor, seen, moved, hidden, done>>
stateVars == <<row, import, edit, backfill, last, imports, edits>>
contentVars == <<source, kind, part, item, next, wanted, pc, total, at, linked, refs, pages, body,
                 warning, failed, sent>>
serviceVars == <<pushVars, graphVars, tokenVars, requestVars, alertVars, analysisVars>>
vars == <<running, serviceVars, listVars, stateVars, contentVars>>

\* Those of several beginnings stay at one of them.
Init ==
    /\ running \in {"push", "subscriptions", "tokens", "requests", "alerts",
                    "analysis", "lists", "state", "content"}
    /\ Push!Init /\ Subscriptions!Init /\ Tokens!Init /\ Alerts!Init /\ Analysis!Init
    /\ Requests!Init /\ (running # "requests" => api = "gmail")
    /\ Lists!Init
    /\ running # "lists" => list = "alerts" /\ shown = {} /\ \A r \in 1..2 : time[r] = 1
    /\ State!Init
    /\ running # "state" => \A r \in {1, 2} : row[r].visible = "unread" /\ row[r].payload = "unread"
    /\ IF running = "content" THEN Content!Init
       ELSE /\ source = nobody /\ kind = nobody /\ part = nobody /\ item = nobody /\ next = nobody
            /\ wanted = nobody /\ pc = "load" /\ total = 0 /\ at = 1 /\ linked = {}
            /\ refs = nobody /\ pages = 0 /\ body = {} /\ warning = FALSE /\ failed = FALSE
            /\ sent = 0

Serve ==
    \/ running = "push" /\ Push!Next
       /\ UNCHANGED <<graphVars, tokenVars, requestVars, alertVars, analysisVars>>
    \/ running = "subscriptions" /\ Subscriptions!Next
       /\ UNCHANGED <<pushVars, tokenVars, requestVars, alertVars, analysisVars>>
    \/ running = "tokens" /\ Tokens!Next
       /\ UNCHANGED <<pushVars, graphVars, requestVars, alertVars, analysisVars>>
    \/ running = "requests" /\ Requests!Next
       /\ UNCHANGED <<pushVars, graphVars, tokenVars, alertVars, analysisVars>>
    \/ running = "alerts" /\ Alerts!Next
       /\ UNCHANGED <<pushVars, graphVars, tokenVars, requestVars, analysisVars>>
    \/ running = "analysis" /\ Analysis!Next
       /\ UNCHANGED <<pushVars, graphVars, tokenVars, requestVars, alertVars>>
Next ==
    \/ Serve /\ UNCHANGED <<running, listVars, stateVars, contentVars>>
    \/ running = "lists" /\ Lists!Next /\ UNCHANGED <<running, serviceVars, stateVars, contentVars>>
    \/ running = "state" /\ State!Next /\ UNCHANGED <<running, serviceVars, listVars, contentVars>>
    \/ running = "content" /\ Content!Next /\ UNCHANGED <<running, serviceVars, listVars, stateVars>>

\* The fairness that each component's FairSpec states.
PushFairness ==
    /\ WF_pushVars(running = "push" /\ Push!Step(r1))
    /\ \A n \in 1..2 : WF_pushVars(running = "push" /\ Push!Receive(r1, {n}))
SubscriptionFairness ==
    /\ WF_graphVars(running = "subscriptions" /\ Subscriptions!LockEnds)
    /\ WF_graphVars(running = "subscriptions" /\ Subscriptions!TickNext(k1))
    /\ \A a \in {a1, a2} :
        /\ WF_graphVars(running = "subscriptions" /\ Subscriptions!Age(a))
        /\ WF_graphVars(running = "subscriptions" /\ Subscriptions!Reconnect(a))
    /\ WF_graphVars(running = "subscriptions" /\
          \E id \in 1..4, e \in Subscriptions!Event : Subscriptions!Receive(id, e))
TokenFairness ==
    /\ \A p \in {sync, reader} :
          SF_tokenVars(running = "tokens" /\ Tokens!Step(p) /\ operation[p].pc # "idle")
    /\ WF_tokenVars(running = "tokens" /\ Tokens!LockExpires)
RequestFairness ==
    /\ WF_requestVars(running = "requests" /\ Requests!Tick)
    /\ WF_requestVars(running = "requests" /\ Requests!Answer(r1))
AlertFairness ==
    /\ WF_alertVars(running = "alerts" /\ Alerts!WorkerRuns)
    /\ WF_alertVars(running = "alerts" /\ Alerts!MonitorRuns)
    /\ \A a \in {"worker", "monitor"} : WF_alertVars(running = "alerts" /\ Alerts!Alerting(a))
AnalysisFairness ==
    /\ \A w \in {w1, w2} : WF_analysisVars(running = "analysis" /\ Analysis!Work(w))
    /\ \A m \in {m1, m2} : WF_analysisVars(running = "analysis" /\ Analysis!BackoffEnds(m))
UserFairness ==
    /\ WF_listVars(running = "lists" /\ Lists!ReadNext)
    /\ WF_stateVars(running = "state" /\ (State!ImportCommit \/ State!ImportAborts))
    /\ WF_stateVars(running = "state" /\ State!BackfillNext)
    /\ WF_stateVars(running = "state" /\ State!EditCommit(e1))
    /\ WF_contentVars(running = "content" /\ Content!Next)
Spec ==
    /\ Init /\ [][Next]_vars
    /\ PushFairness /\ SubscriptionFairness /\ TokenFairness
    /\ RequestFairness /\ AlertFairness /\ AnalysisFairness /\ UserFairness

-----------------------------------------------------------------------------
\* PushWebhooks and GraphSubscription: every change has an import queued after it, unless a
\* fault that the code lets through has come between; an account has a live subscription in
\* the end, whatever becomes of another's.  TelegramAlerts: the chat comes to say what is
\* the case, if it stays the case.
NothingGoesUnheard ==
    /\ running = "push" => Push!EveryChangeIsQueued
    /\ running = "subscriptions" => Subscriptions!EventuallySubscribed
    /\ running = "alerts" => Alerts!ChatComesToSay

\* AnalysisOutbox: when workers stop dying, every message is settled, unless the worker
\* that had claimed its event died.
SettledOrOrphaned == running = "analysis" => Analysis!SettledOrOrphaned

\* What is begun ends: an operation of ProviderTokens, which waits for the row or for the
\* refresh lock (of one that died, too); a call of ProviderRequests, however the provider
\* answers; the pages of a list that keeps changing; the backfill, with the imports it
\* meets; the opening of a message, however Graph links its pages.
OperationsEnd ==
    /\ running = "tokens" => Tokens!OperationsEnd /\ Tokens!DeadLockFreed
    /\ running = "requests" => Requests!CallEnds
    /\ running = "lists" => Lists!LastPageComes
    /\ running = "state" => State!BackfillEnds
    /\ running = "content" => Content!OpenEnds
=============================================================================
