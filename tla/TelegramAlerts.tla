---------------------------- MODULE TelegramAlerts ----------------------------
(***************************************************************************)
(* What the chat is told about one account.  The worker and the renewal of *)
(* watches and subscriptions share one incident (TelegramAlerts); the      *)
(* monitor of freshness has another (FreshnessAlerts), so that a           *)
(* synchronization does not close an incident about notifications.         *)
(*                                                                         *)
(* An incident is a Redis key, <account>:active, set with NX before the    *)
(* message is sent and removed if it cannot be; a recovery takes the key   *)
(* away with GETDEL and then sends its own message.  The second key, which *)
(* expires after the deduplication period, is written and deleted by the   *)
(* code and never read: it is left out.                                    *)
(***************************************************************************)
EXTENDS Integers

CONSTANTS
    Actor,       \* those of {"worker", "renewal", "monitor"} that run
    MaxChanges,  \* bound: changes of the provider's state and the user's actions
    MaxTelling,  \* bound: messages about an issue that Telegram does not take
    MaxLost,     \* bound: recovery messages it does not take
    MaxCrashes   \* bound: processes that die, and calls that Redis does not take

VARIABLES
    provider,  \* how the provider answers: "ok", "transient", "refused", "broken"
    account,   \* mail_accounts: status, last_synced_at too old?, push expired?
    active,    \* Redis: the active incident of each channel, its cause or None
    op,        \* each actor's call of account_issue or account_recovered
    chat,      \* the messages of each channel: the last one, and how many
    claims,    \* incidents opened in each channel (history)
    changes, faults  \* counters for the bounds

vars == <<provider, account, active, op, chat, claims, changes, faults>>

None == "none"
Channel == {"sync", "fresh"}
ChannelOf(a) == IF a = "monitor" THEN "fresh" ELSE "sync"
Answer == {"ok", "transient", "refused", "broken"}
Status == {"connected", "error", "reauth_required", "disconnected"}
Issue == {"reauth_required", "sync_error", "stale", "push_expired"}
Cause == (Answer \ {"ok"}) \cup Issue
IdleOp == [pc |-> "idle", cause |-> None]

TypeOK ==
    /\ provider \in Answer
    /\ account \in [status: Status, late: BOOLEAN, pushExpired: BOOLEAN]
    /\ active \in [Channel -> Cause \cup {None}]
    /\ op \in [Actor -> [pc: {"idle", "issue", "sending", "undo", "recovered", "telling"},
                         cause: Cause \cup {None}]]
    /\ chat \in [Channel -> [last: {None, "issue", "recovery"}, cause: Cause \cup {None},
                             issues: Nat, recoveries: Nat]]
    /\ claims \in [Channel -> Nat]
    /\ changes \in Nat /\ faults \in [telling: Nat, lost: Nat, crashes: Nat]

Init ==
    /\ provider = "ok"
    /\ account = [status |-> "connected", late |-> FALSE, pushExpired |-> FALSE]
    /\ active = [c \in Channel |-> None]
    /\ op = [a \in Actor |-> IdleOp]
    /\ chat = [c \in Channel |-> [last |-> None, cause |-> None, issues |-> 0, recoveries |-> 0]]
    /\ claims = [c \in Channel |-> 0]
    /\ changes = 0 /\ faults = [telling |-> 0, lost |-> 0, crashes |-> 0]

-----------------------------------------------------------------------------
(* The provider, time and the user *)

ChangeAccount(acc) ==
    /\ changes < MaxChanges /\ changes' = changes + 1
    /\ account' = acc
    /\ UNCHANGED <<active, op, chat, claims, faults>>

ProviderChanges ==
    \E p \in Answer \ {provider} : provider' = p /\ ChangeAccount(account)
TimePasses ==
    \/ ChangeAccount([account EXCEPT !.late = TRUE]) /\ UNCHANGED provider
    \/ ChangeAccount([account EXCEPT !.pushExpired = TRUE]) /\ UNCHANGED provider
Reconnect ==
    /\ ChangeAccount([account EXCEPT !.status = "connected"])
    /\ provider' = IF provider = "refused" THEN "ok" ELSE provider
Pause == ChangeAccount([account EXCEPT !.status = "disconnected"]) /\ UNCHANGED provider

-----------------------------------------------------------------------------
(* What each actor does with the account before it calls the alerts *)

Call(a, pc, cause) == op' = [op EXCEPT ![a] = [pc |-> pc, cause |-> cause]]

\* process_message of the Microsoft worker; Gmail's alerts in the same cases.  A
\* transient error of the token service also sets ERROR, one of the API does not.
SyncFails ==
    /\ Call("worker", "issue", provider)
    /\ \E s \in {account.status, "error"} :
          account' = [account EXCEPT !.status = IF provider = "refused" THEN "reauth_required"
                                                ELSE IF provider = "broken" THEN "error" ELSE s]
WorkerRuns ==
    /\ "worker" \in Actor /\ op["worker"].pc = "idle"
    /\ account.status \in {"connected", "error"}
    /\ IF provider = "ok"
       THEN /\ account' = [account EXCEPT !.status = "connected", !.late = FALSE]
            /\ Call("worker", "recovered", None)
       ELSE SyncFails
    /\ UNCHANGED <<provider, active, chat, claims, changes, faults>>

\* renew_due_gmail_watches
RenewalRuns ==
    /\ "renewal" \in Actor /\ op["renewal"].pc = "idle"
    /\ account.status = "connected"
    /\ IF provider = "ok"
       THEN account' = [account EXCEPT !.pushExpired = FALSE] /\ Call("renewal", "recovered", None)
       ELSE /\ account' = IF provider # "refused" THEN account
                          ELSE [account EXCEPT !.status = "reauth_required"]
            /\ Call("renewal", "issue", provider)
    /\ UNCHANGED <<provider, active, chat, claims, changes, faults>>

\* Mutant of SyncIssue: only the ages are looked at.
SyncIssueByAge ==
    IF account.late THEN "stale" ELSE IF account.pushExpired THEN "push_expired" ELSE None

\* sync_issue, in the order of its tests.
SyncIssue ==
    CASE account.status = "reauth_required" -> "reauth_required"
      [] account.status = "error" -> "sync_error"
      [] account.status = "connected" /\ account.late -> "stale"
      [] account.status = "connected" /\ ~account.late /\ account.pushExpired -> "push_expired"
      [] OTHER -> None

\* monitor_mail_freshness: it has read the accounts that are not paused, and goes
\* through them.
MonitorRuns ==
    /\ "monitor" \in Actor /\ op["monitor"].pc = "idle"
    /\ account.status # "disconnected"
    /\ IF SyncIssue = None THEN Call("monitor", "recovered", None)
                           ELSE Call("monitor", "issue", SyncIssue)
    /\ UNCHANGED <<provider, account, active, chat, claims, changes, faults>>

-----------------------------------------------------------------------------
(* account_issue and account_recovered *)

\* Mutant of Claim: SET without NX.
ClaimAgain(a) ==
    LET c == ChannelOf(a)
    IN  /\ op[a].pc = "issue"
        /\ active' = [active EXCEPT ![c] = op[a].cause]
        /\ claims' = [claims EXCEPT ![c] = IF active[c] = None THEN @ + 1 ELSE @]
        /\ Call(a, "sending", op[a].cause)
        /\ UNCHANGED <<provider, account, chat, changes, faults>>

Claim(a) ==
    LET c == ChannelOf(a)
    IN  /\ op[a].pc = "issue"
        /\ IF active[c] # None
           THEN op' = [op EXCEPT ![a] = IdleOp] /\ UNCHANGED <<active, claims>>
           ELSE /\ active' = [active EXCEPT ![c] = op[a].cause]
                /\ claims' = [claims EXCEPT ![c] = @ + 1]
                /\ Call(a, "sending", op[a].cause)
        /\ UNCHANGED <<provider, account, chat, changes, faults>>

Send(a) ==
    /\ op[a].pc = "sending"
    /\ chat' = [chat EXCEPT ![ChannelOf(a)].last = "issue", ![ChannelOf(a)].cause = op[a].cause,
                            ![ChannelOf(a)].issues = @ + 1]
    /\ Call(a, "idle", None)
    /\ UNCHANGED <<provider, account, active, claims, changes, faults>>

SendFails(a) ==
    /\ op[a].pc = "sending"
    /\ faults.telling < MaxTelling /\ faults' = [faults EXCEPT !.telling = @ + 1]
    /\ Call(a, "undo", None)
    /\ UNCHANGED <<provider, account, active, chat, claims, changes>>

\* Mutant of Undo: the incident stays active although nobody was told.
UndoNothing(a) ==
    /\ op[a].pc = "undo"
    /\ Call(a, "idle", None)
    /\ UNCHANGED <<provider, account, active, chat, claims, changes, faults>>

\* The key is removed, whoever has set it since.
Undo(a) ==
    /\ op[a].pc = "undo"
    /\ active' = [active EXCEPT ![ChannelOf(a)] = None]
    /\ Call(a, "idle", None)
    /\ UNCHANGED <<provider, account, chat, claims, changes, faults>>

\* Mutant of Take: the key is deleted before it is read.
TakeQuietly(a) ==
    /\ op[a].pc = "recovered"
    /\ Call(a, "idle", None)
    /\ active' = [active EXCEPT ![ChannelOf(a)] = None]
    /\ UNCHANGED <<provider, account, chat, claims, changes, faults>>

\* GETDEL
Take(a) ==
    /\ op[a].pc = "recovered"
    /\ Call(a, IF active[ChannelOf(a)] = None THEN "idle" ELSE "telling", None)
    /\ active' = [active EXCEPT ![ChannelOf(a)] = None]
    /\ UNCHANGED <<provider, account, chat, claims, changes, faults>>

Tell(a) ==
    /\ op[a].pc = "telling"
    /\ chat' = [chat EXCEPT ![ChannelOf(a)].last = "recovery", ![ChannelOf(a)].cause = None,
                            ![ChannelOf(a)].recoveries = @ + 1]
    /\ Call(a, "idle", None)
    /\ UNCHANGED <<provider, account, active, claims, changes, faults>>

TellFails(a) ==
    /\ op[a].pc = "telling"
    /\ faults.lost < MaxLost /\ faults' = [faults EXCEPT !.lost = @ + 1]
    /\ Call(a, "idle", None)
    /\ UNCHANGED <<provider, account, active, chat, claims, changes>>

\* A process dies between two calls, or Redis does not answer: the call ends.
Crash(a) ==
    /\ op[a].pc # "idle"
    /\ faults.crashes < MaxCrashes /\ faults' = [faults EXCEPT !.crashes = @ + 1]
    /\ Call(a, "idle", None)
    /\ UNCHANGED <<provider, account, active, chat, claims, changes>>

-----------------------------------------------------------------------------
Alerting(a) == Claim(a) \/ Send(a) \/ Undo(a) \/ Take(a) \/ Tell(a)
Next ==
    \/ ProviderChanges \/ TimePasses \/ Reconnect \/ Pause
    \/ WorkerRuns \/ RenewalRuns \/ MonitorRuns
    \/ \E a \in Actor : Alerting(a) \/ SendFails(a) \/ TellFails(a) \/ Crash(a)

Spec == Init /\ [][Next]_vars
\* Each actor's call goes on; deliveries, and the scheduler's ticks, keep coming.
FairSpec ==
    /\ Spec
    /\ WF_vars(WorkerRuns) /\ WF_vars(RenewalRuns) /\ WF_vars(MonitorRuns)
    /\ \A a \in Actor : WF_vars(Alerting(a))

-----------------------------------------------------------------------------
\* An incident is announced once, and its end once, by however many processes
\* see them, and whatever fails: what is sent never exceeds what was opened.
OneMessagePerIncident ==
    \A c \in Channel : chat[c].issues <= claims[c] /\ chat[c].recoveries <= claims[c]

\* When nobody is in the middle of a call, an incident that the chat was told of
\* and that is no longer active has had its recovery message.
RecoveryFollowsIncident ==
    (\A a \in Actor : op[a].pc = "idle") =>
        \A c \in Channel : active[c] = None => chat[c].last # "issue"

\* An active incident is one the chat has been told of.
ActiveIsTold ==
    (\A a \in Actor : op[a].pc = "idle") =>
        \A c \in Channel : active[c] # None => chat[c].last = "issue"

\* The chat comes to say what is the case, if it stays the case: an account in
\* trouble has an open incident, and one that is well has none.
Well == account = [status |-> "connected", late |-> FALSE, pushExpired |-> FALSE] /\ provider = "ok"
InTrouble ==
    \/ account.status \in {"reauth_required", "error"}
    \/ account.status = "connected" /\ (account.late \/ account.pushExpired)
ChatComesToSay ==
    /\ <>[]Well => <>[](\A c \in Channel : chat[c].last # "issue")
    /\ <>[]InTrouble => <>[](chat["fresh"].last = "issue")
=============================================================================
