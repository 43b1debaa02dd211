------------------------------ MODULE Deliveries ------------------------------
(***************************************************************************)
(* What surrounds an import: the dispatch that starts it, the providers'   *)
(* notifications and the subscriptions behind them, the tokens and the     *)
(* requests it makes, and the alerts that tell of its failure.  The        *)
(* components share nothing: in a behaviour one of them runs, the dispatch *)
(* stays as it begins when it is not the one, and the variables of the     *)
(* rest are not used (`unused').                                           *)
(***************************************************************************)
EXTENDS SyncDispatch, FiniteSets

CONSTANTS
    \* PushWebhooks: the accounts of a Gmail mailbox; that of a Graph subscription
    GmailAccount, GraphAccount, GmailMessage, GraphMessage, PushRequest,
    MaxChanges, GmailFails, GraphFails, MaxPushFailures,
    \* GraphSubscription
    Subscriber, Broken, Scheduler, NoScheduler, MaxIds, MaxRemovals,
    SubscriptionFails, MaxSubscriptionFailures,
    \* TelegramAlerts
    MaxAlertChanges, MaxTelling, MaxLost, MaxCrashes,
    \* ProviderTokens: rows that are kept for longer than the refresh lock lasts, or not
    Syncs, Renewals, Readers, NoOp, Dead, Rotating,
    MaxSlowActs, MaxSlowTokens, MaxQuickActs, MaxQuickTokens,
    \* ProviderRequests
    Client, MaxAttempts, MaxDelay, MaxRevoked, MaxCalls,
    unused

ASSUME PushAssumption == MaxChanges \in Nat /\ IsFiniteSet(PushRequest)
ASSUME SubAssumption ==
    /\ IsFiniteSet(Subscriber) /\ IsFiniteSet(Scheduler)
    /\ NoScheduler \notin Scheduler /\ MaxIds \in Nat
ASSUME TokensAssumption ==
    NoOp # Dead /\ NoOp \notin Syncs \cup Renewals \cup Readers /\ Dead \notin Syncs \cup Renewals \cup Readers

ASSUME RequestsAssumption ==
    MaxAttempts \in Nat \ {0} /\ MaxDelay \in Nat /\ MaxRevoked \in Nat /\ MaxCalls \in Nat

VARIABLES
    running,
    \* PushWebhooks
    changes, unsent, accepted, admitted, claimed, request, covered, allowance, unheeded,
    pushFailures,
    \* GraphSubscription
    subRow, connected, live, made, events, tickLock, run, excused, removals, subFailures,
    \* TelegramAlerts
    provider, account, active, op, chat, claims, alertChanges, faults,
    \* ProviderTokens
    tokenRow, rowLock, tokenLock, operation, gens, tokens, lapsed, revoked, acts, crashes,
    \* ProviderRequests
    api, call, stored, answering, refreshes

\* A Gmail mailbox with several accounts, or the Graph subscription of one account.
PushAccount(p) == IF p = "gmail" THEN GmailAccount ELSE GraphAccount
PushMessage(p) == IF p = "gmail" THEN GmailMessage ELSE GraphMessage
PushFails(p) == IF p = "gmail" THEN GmailFails ELSE GraphFails
Push(p) == INSTANCE PushWebhooks WITH
    Provider <- p, Account <- PushAccount(p), Message <- PushMessage(p), Request <- PushRequest,
    MayFail <- PushFails(p), MaxFailures <- MaxPushFailures,
    connected <- admitted, failures <- pushFailures
Subscriptions == INSTANCE GraphSubscription WITH
    Account <- Subscriber, MayFail <- SubscriptionFails, MaxFailures <- MaxSubscriptionFailures,
    row <- subRow, lock <- tickLock, failures <- subFailures
\* The worker and the monitor tell of a channel each, without a fault of Telegram or Redis; or
\* the worker and the renewal tell of the same one.
AlertActor(apart) == IF apart THEN {"worker", "monitor"} ELSE {"worker", "renewal"}
Alerts(apart) == INSTANCE TelegramAlerts WITH
    Actor <- AlertActor(apart), MaxChanges <- MaxAlertChanges,
    MaxLost <- IF apart THEN 0 ELSE MaxLost, MaxCrashes <- IF apart THEN 0 ELSE MaxCrashes,
    changes <- alertChanges
\* May a transaction keep the row for longer than the refresh lock lasts?
Tokens(slow) == INSTANCE ProviderTokens WITH
    Rotates <- slow \in Rotating, Imap <- FALSE, SlowRow <- slow,
    MaxActs <- IF slow THEN MaxSlowActs ELSE MaxQuickActs,
    MaxTokens <- IF slow THEN MaxSlowTokens ELSE MaxQuickTokens,
    MaxCrashes <- 0, row <- tokenRow, lock <- tokenLock, op <- operation
Requests == INSTANCE ProviderRequests WITH provider <- api, accepted <- answering

pushVars == <<changes, unsent, accepted, admitted, claimed, request, covered, allowance,
              unheeded, pushFailures>>
subscriptionVars == <<subRow, connected, live, made, events, tickLock, run, excused, removals,
                      subFailures>>
alertVars == <<provider, account, active, op, chat, claims, alertChanges, faults>>
tokenVars == <<tokenRow, rowLock, tokenLock, operation, gens, tokens, lapsed, revoked, acts,
               crashes>>
requestVars == <<api, call, stored, answering, refreshes>>
allVars == <<running, vars, pushVars, subscriptionVars, alertVars, tokenVars, requestVars>>

NoPush ==
    /\ changes = unused /\ unsent = unused /\ accepted = unused /\ admitted = unused
    /\ claimed = unused /\ request = unused /\ covered = unused /\ allowance = unused
    /\ unheeded = unused /\ pushFailures = unused
NoSubscription ==
    /\ subRow = unused /\ connected = unused /\ live = unused /\ made = unused
    /\ events = unused /\ tickLock = unused /\ run = unused /\ excused = unused
    /\ removals = unused /\ subFailures = unused
NoAlert ==
    /\ provider = unused /\ account = unused /\ active = unused /\ op = unused
    /\ chat = unused /\ claims = unused /\ alertChanges = unused /\ faults = unused

NoTokens ==
    /\ tokenRow = unused /\ rowLock = unused /\ tokenLock = unused /\ operation = unused
    /\ gens = unused /\ tokens = unused /\ lapsed = unused /\ revoked = unused
    /\ acts = unused /\ crashes = unused
NoRequest ==
    /\ api = unused /\ call = unused /\ stored = unused /\ answering = unused
    /\ refreshes = unused

Begin ==
    /\ Init
    /\ running \in {"dispatch", "gmail push", "graph push", "subscriptions", "shared alerts",
                    "alerts apart", "tokens", "quick tokens", "requests"}
    /\ CASE running = "gmail push" -> Push("gmail")!Init
         [] running = "graph push" -> Push("microsoft")!Init
         [] OTHER -> NoPush
    /\ IF running = "subscriptions" THEN Subscriptions!Init ELSE NoSubscription
    /\ CASE running = "shared alerts" -> Alerts(FALSE)!Init
         [] running = "alerts apart" -> Alerts(TRUE)!Init
         [] OTHER -> NoAlert
    /\ CASE running = "tokens" -> Tokens(TRUE)!Init
         [] running = "quick tokens" -> Tokens(FALSE)!Init
         [] OTHER -> NoTokens
    /\ IF running = "requests" THEN Requests!Init ELSE NoRequest

Step ==
    \/ running = "dispatch" /\ Next
       /\ UNCHANGED <<running, pushVars, subscriptionVars, alertVars, tokenVars, requestVars>>
    \/ /\ \/ running = "gmail push" /\ Push("gmail")!Next
          \/ running = "graph push" /\ Push("microsoft")!Next
       /\ UNCHANGED <<running, vars, subscriptionVars, alertVars, tokenVars, requestVars>>
    \/ running = "subscriptions" /\ Subscriptions!Next
       /\ UNCHANGED <<running, vars, pushVars, alertVars, tokenVars, requestVars>>
    \/ /\ \/ running = "shared alerts" /\ Alerts(FALSE)!Next
          \/ running = "alerts apart" /\ Alerts(TRUE)!Next
       /\ UNCHANGED <<running, vars, pushVars, subscriptionVars, tokenVars, requestVars>>
    \/ /\ \/ running = "tokens" /\ Tokens(TRUE)!Next
          \/ running = "quick tokens" /\ Tokens(FALSE)!Next
       /\ UNCHANGED <<running, vars, pushVars, subscriptionVars, alertVars, requestVars>>
    \/ running = "requests" /\ Requests!Next
       /\ UNCHANGED <<running, vars, pushVars, subscriptionVars, alertVars, tokenVars>>
    \/ running # "dispatch" /\ UNCHANGED allVars   \* the others may stop

Behaviours == Begin /\ [][Step]_allVars

-----------------------------------------------------------------------------
\* PushWebhooks: a notification that was accepted has an import queued after its change,
\* unless no row had its subscription or a fault that the code lets through has come
\* between; a key queues one import, and one more each time it is given back.
AcceptedIsQueued ==
    /\ running = "gmail push" =>
          Push("gmail")!TypeOK /\ Push("gmail")!AcceptedIsQueued /\ Push("gmail")!OneImportPerKey
    /\ running = "graph push" =>
          Push("microsoft")!TypeOK /\ Push("microsoft")!AcceptedIsQueued /\ Push("microsoft")!OneImportPerKey

\* GraphSubscription: no subscription lives without its row, but for those that a crash,
\* a lost answer or two ticks at once explain.
OrphansAreExcused == running = "subscriptions" => Subscriptions!TypeOK /\ Subscriptions!OrphansAreExcused

\* TelegramAlerts: an incident sends one message, whoever sees it first; with channels
\* apart, an active incident has been told and one that is over has had its recovery.
AlertsArePaired ==
    /\ running = "shared alerts" => Alerts(FALSE)!TypeOK /\ Alerts(FALSE)!OneMessagePerIncident
    /\ running = "alerts apart" =>
          Alerts(TRUE)!TypeOK /\ Alerts(TRUE)!RecoveryFollowsIncident /\ Alerts(TRUE)!ActiveIsTold

\* ProviderTokens: the user's last consent is the one the account keeps, only a revoked
\* one is asked for again, and a paused account stays paused until the user acts, whatever
\* operations that began before write after.
LastConsentKept ==
    /\ [](running = "tokens" =>
             Tokens(TRUE)!TypeOK /\ Tokens(TRUE)!LastConsentKept /\ Tokens(TRUE)!ReauthMeansRevoked)
    /\ [][running = "tokens" => Tokens(TRUE)!KeepsPause]_tokenVars
\* ProviderTokens: one operation of an account asks the provider for a token at a time, and
\* the row's token is of the row's grant, however long rows are kept.  Only if no row is kept
\* for longer than the lock's 90 s, which the code does not see to, does the next wait for the
\* new token to be committed, and ask for none while the row has a good one.
RefreshesSerialized ==
    /\ running = "tokens" => Tokens(TRUE)!OneAsksProvider /\ Tokens(TRUE)!TokenIsOfGrant
    /\ running = "quick tokens" =>
          /\ Tokens(FALSE)!TypeOK /\ Tokens(FALSE)!OneAsksProvider /\ Tokens(FALSE)!TokenIsOfGrant
          /\ Tokens(FALSE)!RefreshesSerialized /\ Tokens(FALSE)!NoNeedlessRefresh

\* ProviderRequests: nothing is sent before the time the provider asks to wait for, which
\* a transient error carries to the worker's cooldown; a call makes a bounded number of
\* requests and survives the expiry of one token, and clients refused the same token share
\* one refresh.
DeadlineHonoured ==
    /\ [](running = "requests" =>
             /\ Requests!TypeOK /\ Requests!DeadlineCarried /\ Requests!RequestsBounded
             /\ Requests!OneRefreshPerToken /\ Requests!OneExpiryIsSurvived)
    /\ [][running = "requests" => Requests!HonoursDeadline]_requestVars
=============================================================================
