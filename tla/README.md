# Formal models of Mail Control Enterprise

TLA+ models of the parts of this repository where order, concurrency and
failure matter, with the TLC runs that check them on small instances and the
theorems TLAPS proves about them for every size. Paths below are relative to
the repository's `src/mail_control/` unless they begin with `/`.

    tlc -config MCMailboxes.cfg MCMailboxes.tla      # a run
    tlapm GmailSyncProofs.tla                        # a module's proofs

## 1. Inventory: the system

FastAPI serves the tenants; four loops do the work in the background:
`worker.py` (Gmail), `microsoft_worker.py`, `analysis_worker.py` and
`sync_scheduler.py`. PostgreSQL holds the truth, RabbitMQ the synchronizations
to do, Redis leases, cooldowns, dedupe keys, OAuth states and incident marks.

| Component | State it keeps | Operations | Interacts through | What is hard | What makes it correct | Module |
|---|---|---|---|---|---|---|
| Gmail synchronization (`modules/mail/sync.py`) | `mail_accounts.history_cursor`, message rows, `gmail:initial` checkpoint | full import, incremental replay | Gmail's pages and history; commits; the account's row | the mailbox changes under a paginated reader; a run dies or fails between commits; history expires; the user reconnects meanwhile | no change is lost; a row is marked deleted only if the message is gone; an overtaken run writes nothing | `GmailSync` |
| Microsoft synchronization (`modules/mail/microsoft_sync.py`) | delta cursor per folder | import folders, pages | Graph's delta pages | moves between folders that are read one after the other; expired links, deleted folders | no change is lost | `MicrosoftSync` |
| IMAP synchronization (`modules/mail/imap.py`) | a uid in the same cursor column | fetch after the uid | IMAP | refused downloads, change of transport | no message is passed over; a uid is never compared with a history id | `ImapSync` |
| Dispatch (`sync_scheduler.py`, `worker.py`, `microsoft_worker.py`) | queue, Redis lease, cooldown, account status | tick, publish, take a lease, import, acknowledge, requeue, release | RabbitMQ, Redis, the account's row | redelivery, dead handlers, stale reads, expiring leases | one import per account; backoff respected; a due account is synchronized | `SyncDispatch` |
| Grants and tokens (`modules/mail/token_manager.py`, `auth_state.py`, `service.py`) | encrypted tokens, status | refresh, reconnect, pause, mark revoked | Redis refresh lock, conditional UPDATE, row lock | an old operation against a new grant; a lock that expires or is waited for in a circle | the last consent is kept; only a revoked one is asked for again; operations end | `ProviderTokens` |
| Provider clients (`modules/mail/gmail.py`, `microsoft.py`) | a call's attempts | request, wait, retry, new token | the token manager | waits and jitter, mixtures of errors, several calls refused at once | deadlines honoured; requests bounded; one refresh | `ProviderRequests` |
| Push (`gmail_push.py`, `microsoft_push.py`) | dedupe keys, subscriptions | notify, create, renew, reauthorize | Redis, RabbitMQ, providers | duplicated, lost, half published notifications; a subscription whose identity is lost | a change leads to an import; a subscription comes back | `PushWebhooks`, `GraphSubscription` |
| Account alerts and freshness (`modules/system/`) | active incident | issue, recovered, monitor | Redis, Telegram | failures and crashes between mark and send | one alert and one recovery per incident | `TelegramAlerts` |
| Analysis outbox (`modules/analysis/repository.py`, `analysis_worker.py`) | `outbox_events`, `email_analyses` | queue, claim, ask, complete, fail | the synchronizers' transaction; row locks | two workers, lost commits, a worker that dies | transactional; one worker per event; no message paid for twice | `AnalysisOutbox` |
| Alerts and incidents (`modules/analysis/service.py`, `repository.py`) | `alerts`, `analysis_incidents` | reconcile, resolve | row locks of concurrent transactions | analyses in any order, equal times, deadlocks | incidents are the chronological projection of the analyses; alerts agree with them | `Incidents` |
| Message state (`api/dashboard.py`, `modules/mail/repository.py`, `scripts/backfill_mail_state.py`) | `local_*`, `provider_*`, visible columns | edit, upsert, backfill | the message's row | a write between another's read and write | the user's edit wins and stays | `MessageState` |
| Dashboard (`modules/dashboard/`) | none of its own | lists, counts, search | the rows others write | pages while rows move; the same condition written three times | nothing skipped or twice; numbers agree with lists | `Pages`, `Inbox` |
| Message content (`modules/mail/content_service.py`) | none | open, list, download | the provider | parts that fail, sizes that lie, page chains that loop | what is shown is the whole message's, or there is a warning; limits hold | `MessageContent` |
| Identity (`modules/identity/service.py`) | users, refresh sessions | login, rotate, logout | the session's row, the browser's cookie | tabs that refresh at once, logout against rotation | a token has one successor; a session ends | `Sessions` |
| Recovery (`api/auth_flows.py`) | Redis challenge, attempts | request, confirm | Redis | challenge rewritten at each attempt | bounded guesses, one use, an end | `PasswordRecovery` |
| Connections (`api/mail_oauth.py`, `gmail.py`, `microsoft.py`) | OAuth state, cookie, account row | authorize, callback, IMAP | Redis, the provider, PostgreSQL | two callbacks at once, in any order | one account per mailbox, only the one that was meant | `MailOAuth` |
| Workspace users (`api/saas.py`) | users, plan | create, update | PostgreSQL | reads without locks before a write | one owner, no escalation, the plan's limit | `WorkspaceUsers` |
| AI clients, image proxy, settings, health, migrations, frontend, backups | none of their own, or files | HTTP, wiring | - | - | - | section 10 |

## 2. Plan

Done, in order: `GmailSync`, `AnalysisOutbox`, `Incidents`, `SyncDispatch`
with their proofs; then the abstract `MailMirror`, `MicrosoftSync`, `ImapSync`,
`ProviderTokens`, `TelegramAlerts`, `PushWebhooks`, `Sessions`,
`PasswordRecovery`, `MailOAuth`, `Pages`, `MessageState`, `GraphSubscription`,
`ProviderRequests`, `WorkspaceUsers`, `Inbox` and `MessageContent`; then the
theorems about all of these, a proof module for each group of section 3: every
invariant and every action property of the runs is now a theorem, and so is that
`GmailSync` and `MicrosoftSync` implement `MailMirror`.

Left:

1. An abstract lease (one owner, given back or expired) that `SyncDispatch` and
   the refresh lock of `ProviderTokens` both implement, with the refinement
   proved.
2. The composition of `AnalysisOutbox` with `Incidents`, and what it adds to both:
   a message that was claimed, analyzed and committed once counts once in the
   incident.
3. A theorem for each excused overlap of section 11 that the code could close
   with a lock, in the variant where it does.

## 3. How the modules are put together

Each component is a module of its own with its state, Init, actions, Spec,
FairSpec and properties, and stands alone; where a component meets another, its
module says what it takes of it (an import that begins and ends, a queued
delivery, a grant) and the other module has the detail.

For safety the components are put together in four groups, `Mailboxes`,
`Deliveries`, `Messages` and `Access`, parameterized by CONSTANTS with their
assumptions, so that the theorems are about the same specification and the same
properties that the runs check; `MCMailboxes`, `MCDeliveries`, `MCMessages` and
`MCAccess` extend them with a symmetry where there is one, and the `.cfg` files
give the values. Two more, `MCLiveMailboxes` and `MCLiveServices`, are for
liveness only. In a behaviour of a group one component runs, named by `running`, fixed at the
beginning; the variables of the others are `unused`, or stay at one of their
initial states (in the groups for liveness, where every component's fairness is
stated and an idle component's is vacuous). So a group's states are the disjoint
union of its components' states and not their product: a property of the group
says `running = "x" => X!Property`, and a run of the group is a run of each. A
component may appear twice with different constants ("tokens" and "quick
tokens"): the group's instance takes a parameter, as `Tabs(overlap)` does, which
says what differs. A property of a group is the conjunction of a component's type
invariant and of its own properties, or of the liveness properties that are one
question (`OperationsEnd`: whatever is begun ends); its comment names the
component, whose module states each part by itself. Of the component that a group
extends, whose theorems name them, the properties are listed one by one, and its
type invariant is a conjunct of its `IInv`.
The groups extend `GmailSync`, `SyncDispatch` and `AnalysisOutbox`, and
`MCIncidents` extends `Incidents`; TLC evaluates the assumptions of all of them,
and the groups' own, in the runs.

## 4. Mailboxes and their copies

### MailMirror

What each synchronizer promises, whatever its provider: a mailbox whose messages
have versions that grow (`Change`), and a copy that only ever moves forward to a
version the message has had, or drops a message that is gone (`Save`).
`CopiesAreMirrors` checks that every step of GmailSync (its `ImplementsMirror`)
and of MicrosoftSync is one of these or a stutter, the committed rows
(`db.stored`) being the copy.

### GmailSync

One account, one worker (`SyncDispatch` is about that assumption), and Gmail.

- `mailbox`, `log`, `floor` are Gmail's (external): the version of each message,
  the history, and the oldest `startHistoryId` it accepts. A version is the
  number of the message's last history record; content is abstracted away.
- `account` is the `mail_accounts` row; `grant` counts the user's consents (in
  the code, the ciphertext of the refresh token, compared by
  `update_account_if_current`).
- `tx` are the rows as the worker's open transaction sees them, `db` the
  committed ones: message copies and the `gmail:initial` checkpoint (`baseline`,
  `refresh` = `refresh_existing`; `None` = absent or emptied).
- `run` is the control state of `synchronize`, `_full_sync`, `_replay_history`.

`Start` .. `Finish` follow the code's calls to Gmail one by one; between any two
of them Gmail changes, the user acts, the process crashes, the call fails. A
failing run commits its partial rows, as the code's `finally: commit` does. A
401 in the middle of a call is `RereadGrant` or `RefreshToken`; the second
commits the import's half page. The conditional UPDATE at the beginning holds
the row's lock until the first commit (`locked`).

Assumed of Gmail: a listing is sure to name only messages that were there,
unchanged, since it began, and each page but the last names a new one; history
pages ascend and the last reaches the `historyId` it returns; the current
`historyId` can always be replayed; ids are never reused.

Properties: `NoLostChange` and `NoSkippedChange` (no cursor, and no checkpoint
of an interrupted import, has moved past a change the copy lacks),
`DeletedOnlyWhenGone`, `OnlyUserRevives`, `OvertakenRunWritesNothing`,
`ImplementsMirror`, and the liveness property `EventuallyMirrored`.

Bounds: two messages (one that changes while another is listed; the code never
relates three), two history records and one reconnect for safety. Two records
suffice for a change before and another after a baseline, expiry of either, and
a crash in between; liveness uses one record and no reconnect.

Fairness: weak, on the worker's steps together: the scheduler and the queue
start an idle account again (`SyncDispatch`) and every provider call has a
timeout. Faults stop at some time and the account stays usable: both are
premises of the property, not assumptions of the specification.

### MicrosoftSync

`place`, `mailbox`, `touched`, `folders`, `clock`, `floor` are Graph's: the
folder and version of each message, the last change of it that each folder's
delta reports, the folders that exist, and the age of links it still takes. `db`
and `tx` are the rows: copies and one cursor per folder (a `sync_checkpoints`
row). A whole run is one transaction, committed at its end or when a token is
refreshed. A run lists the folders (`ListFolders`), and for each loads its
cursor, reads delta pages and applies their items one by one; a removed item is
looked up again, since the message may have moved to a folder already read
(`ResolveRemoved`); an expired link begins the folder again, once; a folder that
is gone loses its cursor. `unreported` records the removals that no delta will
report any more: those of a folder that is gone, and those from before a folder is
listed afresh. The properties excuse only these.

Bounds: one message and two folders (a move), and one folder with two messages
on pages of their own and a reconnect; two changes each. Fairness as for Gmail.

### ImapSync

`mail` and `inbox` are the server's: which message has each uid, and which are
there. `account` has transport, grant, status and the one `history_cursor` column
that both transports use. A run searches after its cursor (`Search`, the first
time the last `Window` of them), fetches each (`Fetch`, given or refused) and
saves the highest uid. The import over the API, GmailSync's, is one step here.
`excused` are the uids a run passed over because the server refused them or they
were before the window. Assumed: uids are not reassigned (the code never reads
UIDVALIDITY; a hazard without a property).

Bounds: two uids, a window of one, two reconnects (to the API and back), one
failed run. Fairness: the worker's, and a fetch that is asked again and again is
given (`FetchGiven`).

## 5. Deliveries

### SyncDispatch

`status`, `due` (`last_synced_at` is older than the interval), `cooldown` and
`lease` (Redis), `queue` (deliveries per account, first or again), `slot` (the
handlers), `sched` (a tick and the accounts it has read).

A tick reads accounts, leases and cooldowns one after the other and publishes
later, so each may be stale. `Enqueue` stands for Gmail push, Graph
notifications and the users' requests. A handler takes the lease or drops the
delivery; `Check`, `Start`, `Succeed`, `Fail`, `Overtaken`, `Cool`, `Break` are the
import's outcomes; `Settle` acknowledges or requeues as
`message.process(requeue=not message.redelivered)` does; `Release` comes after.
A crash leaves the lease to expire (`Orphan`); a lost channel makes the broker
deliver again while the handler goes on. `Overtaken` may happen in any import,
which is more than the code allows. The provider and the account's row are as
in `GmailSync`, reduced to the status.

Bounds: one account (accounts share only the free handlers), two or three
handlers, two or three waiting deliveries (one for liveness): enough for a
duplicate, a redelivery and a handler in each phase. Fairness: the scheduler's loop and the delivery of
messages are strongly fair (each may be disabled for a while by a full queue or
by busy handlers), handlers weakly; leases and cooldowns expire. That failures stop
is a premise.

The specification `Spec` assumes that an import ends within its lease of two
hours; `SpecWithLongImports` does not, and the run `dispatch_long_import` shows
two imports of one account. The run `dispatch_retry` shows that the retry of a
failed delivery may be dropped because the failed attempt still has its lease;
`EventuallySynced` shows that the next ticks make up for it.

### PushWebhooks

Both webhooks, chosen by `Provider`. A request is a set of items; each is
claimed in Redis (`Claim`: SET NX), published, and for Gmail given back if the
broker refuses (`GiveBack`). `unsent` are the notifications the provider still
repeats, `accepted` those answered with success, `covered[a]` how much had
happened when the last import of `a` was queued. `Recipients` are the accounts
an accepted notification is for: those of the mailbox whose status lets it in, and
the one of a Graph subscription. Graph's handler looks for the row that has the
subscription at each notification (`HasRow`). There is none between Graph's
creation of the subscription and the commit of the tick that asked for it
(`RowCommitted`), nor once a renewal answered with 404 or 410 has replaced it
(`AccountLost`); then the notification is accepted and dropped (`PassOver`), which
`unheeded` remembers. `MayFail` says which faults happen. `AcceptedIsQueued` and
`EveryChangeIsQueued` hold but for the faults listed in `Unharmed` and for what is
in `unheeded`, which are what the code lets through: what they leave is the
scheduler's to find (`SyncDispatch`). Bounds: two changes, two requests, two
failures. Fairness: the provider repeats, the API serves.

### GraphSubscription

`row` is the account's row, `live` what Graph has, `run` a scheduler's tick: what
it read, what it will write. `LockEnds` is the lock that a slow tick outlasts.
`OrphansAreExcused`: a subscription without a row is owed to a lost answer, a
crash or two ticks at once. `EventuallySubscribed` holds for every account that
Graph does not always refuse, next to one that it does. Bounds: two accounts,
two schedulers, three or four subscriptions, one removal. Fairness: ticks, the
lock's end, time, a user who reconnects, and delivery of an event unless it is
lost.

### ProviderTokens

Operations of three kinds (synchronizations, renewals, reads) go through
`access_token`: take the Redis lock, reread the row, refresh, publish with a
conditional UPDATE, use the token, be refused once and refresh again. `rowLock`
is PostgreSQL's, from an operation's first UPDATE to its commit; `lock` is
Redis's, which ends after 90 s. `gens` numbers the encryptions of refresh tokens,
which is how the code tells grants apart.

`SlowRow` says whether a transaction may hold the row for longer than the
lock lasts. `LastConsentKept`, `ReauthMeansRevoked`, `KeepsPause`, `TokenIsOfGrant`
and `OneAsksProvider` (one operation at a time between its reread and the
provider's answer) hold even so ("tokens"); that the next operation waits for the
new token to be committed too (the module's `RefreshesSerialized`) and asks for no
token in vain (`NoNeedlessRefresh`) needs rows that are given back before the lock
ends, which nothing in the code sees to ("quick tokens"; section 11).
`OperationsEnd` and `DeadLockFreed` are
liveness, with an operation that dies. `Imap` TRUE lets the user reconnect over
IMAP: see section 11. Bounds: two operations, two or three access tokens, two
actions of the user. Fairness: strong for an operation's steps (PostgreSQL serves
those who wait for a row in turn), weak for the lock's time.

### ProviderRequests

One call: attempts up to `MaxAttempts`, waits (`deadline`, in ticks from now;
`asked` counts requests), one new token from the manager, whose row is `stored`.
`Revoke` ends the token that is accepted. Gmail's wait is the provider's, never
shorter than the random one; Graph's is `Retry-After`. Bounds: two clients, three
attempts and waits of two ticks in place of thirty seconds, three revoked tokens.
The real four attempts are in the run for liveness.

### TelegramAlerts

`active` is the incident's Redis key, `op` each actor's call: `Claim` (SET NX),
`Send` or `Undo`, `Take` (GETDEL), `Tell`. `chat` is what was sent. The worker and
the renewal share a channel ("shared alerts": `OneMessagePerIncident`); the
worker and the freshness monitor have one each ("alerts apart":
`RecoveryFollowsIncident`, `ActiveIsTold`, and `ChatComesToSay` for liveness,
with recovery messages that are not lost and no crash, since the code does not
repeat them). Bounds: three changes of the provider or the account, one refused
message, one crash.

## 6. Messages

### AnalysisOutbox

- `message`: the `email_messages` row; `event`: its `outbox_events` row
  (`due` stands for `available_at <= now`); `outbox`: the order of `created_at`;
  `analyzed`: the `email_analyses` rows; `worker`: what each worker does.
- `Store` is an upsert and its `queue_analysis`, committed together. `Select`
  takes the row lock (`FOR UPDATE SKIP LOCKED`), `Claim` commits PROCESSING. `Ask` begins the
  AI call, after `existing_analysis`; `Answer` commits analysis and PROCESSED
  together, and the commit may succeed while its answer is lost; `Error` and
  `RecordFailure` are the `except` branch; `Purge` the cascade of a deleted
  account; `Crash` the death of the process, also when `fail` itself fails.

`SettledOrOrphaned` says what the code guarantees and `RetriedAfterCrash` what
`/README.md` says: the run `outbox_crash` shows the difference, an event left
PROCESSING by a dead worker, which no query selects again.

Bounds: three messages and two workers (order, and two workers next to each
other on the oldest rows); two attempts instead of eight: a first one that
fails and a last one. Liveness with two messages. Fairness: the workers' loop
is weakly fair and backoffs end; the AI clients have timeouts of 45 s.

### Incidents

One service of one mailbox. `email` is fixed at the beginning: when each message
was received (`received_at`) and which of the code's marker texts it has. `analysis` is the
stored answer; `incident` the `analysis_incidents` rows; `open` the alerts whose
`resolved_at` is null; `dismissed` those the user resolved; `tx` the
open transaction of each worker, with the rows it has locked (`rows`) and the
alerts it raises and closes.

`Analyze` is `AnalysisService.process` up to the first upsert; `OpenIncident`
and `ResolveIncident` are one iteration of `reconcile_incidents`, its upsert,
row lock and the closing of alerts included; `Commit`, `Abort`. Abort is also
how PostgreSQL ends a deadlock of two transactions that lock rows in different
orders.

`plain` says whether a service's name is spelled in ASCII: Python's service key
folds accents (NFKD), the SQL expression at `modules/analysis/repository.py:221`
drops the accented letters, so the alerts of an accented service are never
matched. `OpenAlertsAreCurrent` therefore speaks of plain spellings only.
`account_suspended` has an incident and no alert type.

Not here: deletion of messages (only with their account, by cascade).
`Reanalyze` (the operator's script) is in `SpecWithScript` only; the run
`incidents_script` shows that it breaks the projection.

Bounds: three messages, two workers, two moments (older, equal, newer), and the
emails and answers of `MCIncidents`, which reach every branch of
`incident_transition` and of `suppress_confirmed_payment_alerts`. Messages and
workers are symmetric.

### MessageState

`row` has `payload` (what the last import brought), `provider`, `local` and
`visible` of `is_read` (`is_starred` and `mailbox` are kept the same way), and
whether the backfill or an import has filled it. Imports upsert several rows in
one transaction and lock them one after the other; the backfill locks a batch
before it derives values; an edit reads without a lock and its UPDATE holds only
the attributes that differ from what it read, as the ORM's does. `Overlap` says
whether another writer may come between an edit's read and write:
`ProviderIsPayload` and `EveryRowFilled` hold if it may, `VisibleIsEffective` and
`LastEditKept` are checked if not (section 11). Bounds: two rows, batches of one,
two imports, one or two edits. Fairness: transactions end, the operator goes on.

### Pages, Inbox

`Pages` is a keyset cursor over (time, id): `ReadNext` reads a page of the rows
beyond the cursor and keeps the last one; meanwhile rows are shown, hidden and
take other times, in the four lists that use the cursor. Three rows, two times
(ties), pages of one. Fairness: the reader goes on.

`Inbox` is an operator per query of `modules/dashboard/repository.py`: `List`,
`Counts`, `AccountItem`, `Summary`, over the same rows, with `Passes` for the
filters, the parameters and the words of the search. `Badge` and `Shown` are the
frontend's use of them. Its exceptions (marketing messages, an archived folder,
a search that names the folder's own filter) are the code's and are stated in
`CountsAgree`. Bounds: two messages, two mailboxes, two categories, every query
on one field.

### MessageContent

A message is opened: the parts of its body are loaded in order (`Load`,
`LoadFails`, `Loaded`, `Show`), then the attachments' pages (`ListPage`,
`ListFails`, or `ListSkipped`); or an attachment is downloaded (`Fetch`). Sizes,
announced sizes, links between pages and what is on them are chosen at the
beginning, wrong ones included. So is `kind`: Graph is not asked about a message
that says it has no attachments and names none in its HTML ("unattached"), and of a
Gmail message over the limits of `_parts` ("oversized") nothing is loaded or
listed, and of what is saved the parts nested too deep are not shown (`Found`).
Entries of Graph's list that are no files are passed over (`OnPage`).

What is promised is therefore less than everything: `FullOrWarned` is about the
first HTML and the first plain part that are not empty, which is what the code
shows of a message; `ListIsWhole` about the files of the list, which is empty
without an error where the message says it has none. Bounds: two parts, three
attachments on three pages, limits of one part, two attachments and two pages.

## 7. Access

### Sessions

`row` are the `refresh_sessions`, `cookie` what the browser's tabs share,
`request` the tabs' requests: `Refresh` reads the row and `Rotate` writes, both
without a lock; `Logout` and `Revoke` likewise. `state` and `ticket` are the two
GETDEL keys of an external login. `Overlapping` TRUE ("tabs") checks what two
tabs at once cannot break; `OneSuccessor` and `LogoutEnds` are checked on requests
in turn ("tabs in turn"). Bounds: two tabs, three tokens, three ticks for an idle
limit of one and an absolute limit of two.

### PasswordRecovery

`challenge` is the Redis key; `Ask` writes it and mails; `Confirm` reads, `Write`
stores one attempt more and compares, `Change` and `Delete` follow. `CodeDies`
says how long a code can be kept alive by wrong attempts: an hour. The run
`recovery_expiry` shows that ten minutes is not the limit. Bounds: two codes,
two attempts and a life of two ticks.

### WorkspaceUsers

`CheckCreate`, `Insert`, `CheckUpdate`, `Write` are the routes' reads and writes.
With requests that overlap: one owner, one user per address, admins made by the
owner alone. In turn: the plan's limit at creation, and admins who do not change
each other. Bounds: three users, three addresses, two requests.

### MailOAuth

`Authorize` keeps a state in Redis and a cookie of its own; `Consume` is GETDEL,
`Check` verifies browser, operator and workspace again, `Exchange` asks the
provider, `Read` and `Write` are the account's row, `WriteConflicts` the unique
constraint. `Imap` is the one-request connection. Bounds: two authorizations, two
callbacks, two mailboxes, one change of the operator's role, one failure.

## 8. Runs

| Run | Checks | Expected |
|---|---|---|
| `mailboxes` | safety of GmailSync, MicrosoftSync, ImapSync; both refinements of MailMirror | pass |
| `deliveries` | safety of SyncDispatch, PushWebhooks, GraphSubscription, TelegramAlerts, ProviderTokens, ProviderRequests | pass |
| `messages` | safety of AnalysisOutbox, MessageState, Pages, Inbox, MessageContent | pass |
| `incidents` | safety of Incidents | pass |
| `access` | safety of Sessions, PasswordRecovery, WorkspaceUsers, MailOAuth | pass |
| `live_mailboxes` | liveness of SyncDispatch and the three synchronizers | pass |
| `live_services` | liveness of PushWebhooks, GraphSubscription, ProviderTokens, ProviderRequests, TelegramAlerts, AnalysisOutbox, Pages, MessageState, MessageContent | pass |
| `outbox_crash` | `RetriedAfterCrash` | violated: finding |
| `incidents_script` | `IncidentIsProjection` with the script | violated: finding |
| `dispatch_retry` | `DroppedIsDuplicate` | violated: finding |
| `dispatch_long_import` | `OneImportPerAccount` with long imports | violated: finding |
| `recovery_expiry` | `CodeExpires` | violated: finding |

Deadlock is checked in `mailboxes` for Gmail and in `deliveries` for the dispatch,
which never stop; the other components may have nothing left to do when a bound
is used up, and the remaining runs do not check it. Every property of a passing run
has a mutant: a definition with a plausible bug (in the module, next to the
definition it would replace) that TLC must find to violate it.

## 9. Proofs

Every invariant and every action property that a passing run checks is also a
theorem, for all constants that satisfy the modules' assumptions. The argument
is each time the same: the property is not inductive, an inductive invariant
`...Inv` holds initially, every action preserves it (one step per action), and
it implies the property; an action property follows from it step by step.

A group's theorems are about the specification its run checks (`Behaviours`, or
`Spec` of `Access`) and state the run's own property. The group's invariant says
that whichever component runs keeps that component's invariant; the lemmas of a
component are about its own actions and know nothing of the others. Where a
component has two instances, its invariant takes the parameter that tells them
apart (`overlap`, `slow`, `apart`, and `w` for two-valued settings), so one
proof serves both, and what holds only in the stricter instance is a conjunct
guarded by the parameter. The bounds of section 8's instances are constants here
too: the theorems hold with any numbers of accounts, rows, workers, messages and
ticks. Of the inductive invariants, the runs check those of the four components
that are extended (`IInv`); the others are established by their proofs alone.

### GmailSyncProofs, MailboxesProofs

- `GmailSync`. A cursor that moves at the end of a run is safe only if every
  message the copy has wrong has a record after it. `IInv` carries that through
  the run: while pages are listed, each message seen and refreshed, and each row
  not there when the attempt began, is right or has a record after the baseline
  (`ListingInv`); after the last page the unseen ones are gone or have a record
  (`CompleteListingInv`); while absent rows are reconciled and history is
  replayed, what is not in `todo` is settled (`ReconcileInv`, `ReplayInv`); and
  since any failure, crash or token refresh commits or drops the transaction,
  both `tx` and `db` may be committed at any time (`CommittableAnytime`).
  `RowLockInv` says that the uncommitted UPDATE keeps the grant the run began with.
- `MicrosoftSync`. `LossInv`: every message whose row is wrong is owed by the
  delta of a folder's stored cursor (`RowsAreOwed`, of the committed rows and of
  the transaction), and a round owes nothing after its last page but what a page
  has yet to list and the items still to be saved (`RoundIsSound`, with
  `AfterRound` for the cursor that ends it). Removals are the hard case: a message
  moved out of a folder is removed there and added elsewhere in either order.
- Refinement. `ImportsAreMirrored` and `GraphImplementsMirror`: the initial states
  of both synchronizers map to initial states of `MailMirror`, and every step to
  one of its steps or to a stutter. What they need is that no copy goes back to an
  older version of a message (`CopiesAreForward`, `GraphCopiesAreForward`), nor any
  answer that is about to be saved (`ItemsAreForward`).
- `ImapSync`. `ImapInv`: the cursor is a uid that arrived (or Gmail's own history
  id after a change of protocol, hence the assumption `MaxUid < HistoryBase`); after
  the search, each message the new cursor passes is to be fetched, in hand, copied,
  or one of those the code's own limits excuse.

### SyncDispatchProofs, DeliveriesProofs

- `SyncDispatch`. `LeaseIsHeld`: an importing handler's lease is its own. Only its
  owner sets a cooldown, so no other import of the account can be running when it
  begins.
- `PushWebhooks`. `PushInv`: the allowance of failures pays for every publisher
  that has not published and every key that was given back (`KeysAreCounted`); while
  no excused fault has come (`PushHeeded`), a key is in Redis only for an item whose
  import has covered it or that a request has in hand (`ClaimsAreHeeded`), and all a
  request was told of is covered, in hand, still to be claimed, or was passed over
  because no row had its subscription (`RequestsAreHeeded`).
- `GraphSubscription`. `SubDebt` is the set of live subscriptions no row and no
  running tick knows, with the ticks whose lock was lost and that will still write;
  `DebtIsExcused`: each of these is counted among the excused. A tick's end turns
  an expectation into an orphan, so the count never lags behind; of the orphans alone
  it would not be inductive, since a late tick makes one where nothing fails any more.
- `TelegramAlerts`. `AlertsInv`: each claim of an incident's key pays for at most one
  message, sent or being sent, and one recovery, told, being told or due
  (`OpenedCovers`, a count over actors); when each channel has one actor and nothing
  crashes, key and chat agree but for what that actor is about to say (`Standing`).
- `ProviderTokens`. `GrantInv`: grants are numbered by consent, what an operation
  remembers is a grant that was given, and an operation that will mark the account
  holds the row, whose grant is the refused one (`MemoryIsSound`, `MarkIsHeld`); hence
  the last consent is never overwritten. `QuickInv` adds
  that whoever is between its reread and the provider's answer holds the lock
  (`RefresherHoldsLock`), hence `OneAsksProvider` in both instances; when the row is
  not waited for longer than the lock lasts, it holds it until its commit, hence the
  module's `RefreshesSerialized`. `OneRefreshAtATime` states the first without and
  the second under that hypothesis.
- `ProviderRequests`. `RequestsInv`: a call has asked no more often than its attempts
  and one token refresh pay for, it waits at least as long as the provider asked,
  and the token that the provider accepts is the stored one or the next.

### AnalysisOutboxProofs, IncidentsProofs, MessagesProofs

- `AnalysisOutbox`. `EventInHand` ties what a worker does to its event's status;
  with it, no claim, failure or crash puts an event back while another worker has
  it, and an event becomes PROCESSED only with its analysis.
- `Incidents`. `TransactionInv` says which rows a transaction has locked and what it
  still has to do; `HeldRowInv`, that each locked row is the projection of the
  committed analyses and the transaction's own, so that a commit is right whatever
  other transactions commit before: they cannot touch the locked rows, and an
  analysis that opens or resolves a type has locked its row.
- `MessageState`. `StateInv`: rows the backfill has read are locked and unchanged,
  so what it writes is computed from what is there; rows below its position are
  filled; in turn (`overlap` FALSE), the row an edit is about to write is the row it
  read, which the user's value needs.
- `Pages`. `ListInv`: a row that has kept its place was seen at most once, is not
  ahead of the cursor once seen, and is ahead of it until then if it was always shown.
  The order is total and every nonempty finite set of rows has a first, by a minimal
  element of a well-founded relation: the library's induction theorems take an
  operator as a parameter, which no installed prover can instantiate.
- `Inbox`. `FolderInv` is only the types; the agreement of the numbers with the lists
  follows from lemmas about sums over a set split by a predicate.
- `MessageContent`. `ContentInv`: the files of the pages before the next one are
  listed, each once, and nothing else is; nothing at all is of a message that says it
  has no attachments.

### AccessProofs

- `Sessions`. `SessionsInv`: every token is in one place (it waits under a ticket, is in
  an answer, or was handed once), each row goes on with the session of one login, and,
  while no two requests overlap, the browser's cookie is the only good token of its
  session (`InTurnSound`): what a logout revokes is what the session lives on.
- `PasswordRecovery`. `RecoveryInv`: an open challenge is of the newest code, and its
  end is not beyond `(attempts + 1) * Life` after its birth (what the finding of
  section 11 leaves of the ten minutes); a code that was used has no challenge. This
  is about one request at a time: section 11 shows what two do.
- `WorkspaceUsers`. `UsersInv`: a request beyond a check has passed it, with what it
  read of the users, and that is current if no two requests overlap; hence only the
  owner makes administrators, an action property.
- `MailOAuth`. `FlowsInv`: a flow's state is kept, with one callback, or has connected,
  and never two of them; a cookie ends `CookieLife` after the flow began; and a user
  who lost the permission has no callback beyond the check. Assumption:
  `CookieLife <= StateLife`, in the code 600 s against 600 or 3600 s.

### What is not proved

The four liveness properties (`EventuallyMirrored`, `NothingGoesUnheard`,
`SettledOrOrphaned`, `OperationsEnd`) are only model-checked: fairness and ENABLED
are out of the prover's reach. So are the counterexamples of the runs with expected
violations, which are of particular instances. Not machine-checked: that the
definitions are the code's.

## 10. Not modelled

Listed in `PROJECT.json` with a reason each. Partly: the accounts' limit and the
registration of a workspace (`WorkspaceUsers`); the AI clients' HTTP and prompts
(an answer is a member of a set in `Incidents`); the image proxy (a sequential
fetch of one URL); migrations other than 0016, which run once; the frontend but
for the folders' filters. Not at all: cryptography and row-level security
(libraries and PostgreSQL), settings, health probes, backups and deployment
scripts. Of UIDVALIDITY the code knows nothing, and nothing says what it should do.

## 11. What the checks say about the code

- No change of a Gmail or Microsoft mailbox is lost by any interleaving of
  pages, crashes, failures, token refreshes and reconnects; the checkpoint of an
  interrupted import is what makes skipping stored messages safe, and looking a
  removed message up again what makes reading folders one by one safe.
- A conditional write, and the row lock it takes, keep overtaken runs away from
  a new grant.
- Incidents do not depend on the order of analysis.
- Pages by cursor neither skip nor repeat a row that stays at its place.

Findings, each with a run: events of dead analysis workers are not retried; the
reanalysis script breaks the incident projection; a retry may be dropped against
the lease of its own failed attempt; an import longer than two hours may be
duplicated; a wrong attempt gives a recovery code its ten minutes again.

Not a finding, since nothing in the repository denies it, but what
`AcceptedIsQueued` has to except: Graph's webhook answers 202 to a notification
whose subscription no row has and queues nothing (`modules/mail/microsoft_push.py:94`).
That is so of those that come between Graph's creation of the subscription (189)
and the commit of the tick (308), and of a subscription that has been replaced
after 404 or 410 (197); the change waits for the scheduler's next tick.
Likewise `ListIsWhole`: of a message that says it has no attachments the list is empty
without an error, whatever Graph has (`modules/mail/content_service.py:169`).

The instances above leave out some overlaps under which a property does not
hold. Each can be seen by giving the constants another value:

| Where | Change | Then violated | Because |
|---|---|---|---|
| `Sessions` | `OneSuccessor` with `Overlapping` TRUE | a token gets two successors | `rotate_refresh_token` reads the row without a lock and revokes it without checking that it was not (`modules/identity/service.py:169`; `/README.md:17`) |
| `Sessions` | `LogoutEnds` with `Overlapping` TRUE | a logged out session goes on | a rotation that read before the logout commits after it (`modules/identity/service.py:183`) |
| `PasswordRecovery` | `CodeUsedOnce` with `Overlapping` TRUE and two requests | a code changes the password twice | two confirmations have read the same challenge (`api/auth_flows.py:271` against 218) |
| `ProviderTokens` | `RefreshesSerialized` (the module's) with `SlowRow` TRUE | a refresh begins before the last one's is committed | the lock of 90 s ends while its holder, answered by the provider, waits for the row (`modules/mail/token_manager.py:48`, 87); no two ask the provider at once, and the grant stays right |
| `ProviderTokens` | `ReauthMeansRevoked` with `Imap` TRUE | a new IMAP connection is marked revoked | `access_token` rereads the credentials and not their kind (`modules/mail/token_manager.py:57`) |
| `TelegramAlerts` | `RecoveryFollowsIncident` with the worker and the renewal | the chat's last word is the incident | a recovery takes the key of an incident whose message is being sent (`modules/system/telegram_alerts.py:77`; `/docs/AUTH_MONITORING.md:39`) |
| `MessageState` | `VisibleIsEffective` with `Overlap` TRUE | the provider's value stays visible | the edit's UPDATE leaves out what it read as equal (`api/dashboard.py:222`) |
| `ImapSync` | `OneRowPerMessage` with `MaxGrant` 2, `MaxUid` 2 | a message has two active rows | IMAP and the API name a message differently (`modules/mail/imap.py:66`; `/README.md:24`) |

Also read, and without a property: the Microsoft worker opens a Telegram incident
on a transient error (`microsoft_worker.py:124`), which
`/docs/AUTH_MONITORING.md:29` says it does not.
