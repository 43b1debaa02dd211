-------------------------- MODULE GraphSubscription --------------------------
(***************************************************************************)
(* The subscriptions through which Microsoft Graph tells of the changes of *)
(* a mailbox.  The scheduler creates one for each Microsoft account,       *)
(* renews it before it ends and creates another when Graph no longer knows *)
(* it; all it learns in a tick is committed at the end of the tick.  Graph *)
(* sends lifecycle events, which the webhook writes to the row's status.   *)
(***************************************************************************)
EXTENDS Integers, FiniteSets

CONSTANTS
    Account,
    Broken,      \* accounts whose requests Graph always refuses
    Scheduler,   \* processes
    NoScheduler,
    MaxIds,      \* bound: subscriptions created
    MaxRemovals, \* bound: subscriptions Graph removes, events it sends
    MayFail,     \* which of Failure happen
    MaxFailures  \* bound: how many do, in all

Failure == {"refused",  \* Graph answers a request with an error
            "answer",   \* Graph has created a subscription, but the answer is lost
            "consent",  \* the account asks for a new consent
            "notice",   \* an event does not reach the webhook
            "slow",     \* a tick outlasts the scheduler's lock
            "crash"}    \* the scheduler dies

VARIABLES
    row,       \* microsoft_graph_subscriptions, a row for each account
    connected, \* the accounts whose status is connected or error
    live,      \* the subscriptions Graph has
    made,      \* how many it has created
    events,    \* lifecycle events on their way to the webhook
    lock,      \* scheduler:automatic-mail-sync
    run,       \* the ticks: what is left to do, the rows as read and as written
    excused,   \* subscriptions that may live without a row (history)
    removals, failures

vars == <<row, connected, live, made, events, lock, run, excused, removals, failures>>

Event == {"subscriptionRemoved", "reauthorizationRequired"}
Id == 1..MaxIds
NoRow == [there |-> FALSE, id |-> 0, status |-> "pending", due |-> TRUE]
RowType == [there: BOOLEAN, id: Id \cup {0}, due: BOOLEAN,
            status: Event \cup {"pending", "active", "error", "reauth_required"}]
\* created: the subscriptions this tick has created.
NoRun == [on |-> FALSE, todo |-> {}, read |-> [a \in Account |-> NoRow],
          new |-> [a \in Account |-> NoRow], created |-> {}, gone |-> {}]

TypeOK ==
    /\ row \in [Account -> RowType]
    /\ connected \subseteq Account
    /\ live \subseteq 1..made /\ made \in 0..MaxIds
    /\ events \subseteq Id \X Event
    /\ lock \in Scheduler \cup {NoScheduler}
    /\ run \in [Scheduler -> [on: BOOLEAN, todo: SUBSET Account, read: [Account -> RowType],
                              new: [Account -> RowType], created: SUBSET Id, gone: SUBSET Account]]
    /\ excused \in Nat /\ removals \in Nat /\ failures \in Nat

Init ==
    /\ row = [a \in Account |-> NoRow] /\ connected = Account
    /\ live = {} /\ made = 0 /\ events = {}
    /\ lock = NoScheduler /\ run = [s \in Scheduler |-> NoRun]
    /\ excused = 0 /\ removals = 0 /\ failures = 0

Fails(kind) == kind \in MayFail /\ failures < MaxFailures /\ failures' = failures + 1

-----------------------------------------------------------------------------
\* Due for a request: no row, no expiry or one that is near, or a status but active.
Due(a) == a \in connected /\ (~row[a].there \/ row[a].due \/ row[a].status # "active")

\* A tick begins: the lock, and the rows that are due.
Begin(s) ==
    /\ ~run[s].on /\ lock = NoScheduler
    /\ lock' = s
    /\ run' = [run EXCEPT ![s] = [NoRun EXCEPT !.on = TRUE, !.todo = {a \in Account : Due(a)},
                                               !.read = row, !.new = row]]
    /\ UNCHANGED <<row, connected, live, made, events, excused, removals, failures>>

\* The account of the tick's loop: what Graph has answered about it, and what it created.
Done(s, a, new, created) ==
    run' = [run EXCEPT ![s].todo = @ \ {a}, ![s].new[a] = new, ![s].created = @ \cup created]

Active(id) == [there |-> TRUE, id |-> id, status |-> "active", due |-> FALSE]

\* Known(s, a): renew_subscription is tried; reauthorize_subscription before it.
Known(s, a) == run[s].new[a].id \in live

Renew(s, a) ==
    /\ a \in run[s].todo \ Broken /\ Known(s, a)
    /\ Done(s, a, Active(run[s].new[a].id), {})
    /\ UNCHANGED <<row, connected, live, made, events, lock, excused, removals, failures>>

\* Reauthorizing a subscription Graph does not know is an error like any other.
ReauthorizeUnknown(s, a) ==
    /\ a \in run[s].todo \ Broken /\ ~Known(s, a)
    /\ run[s].new[a].status = "reauthorizationRequired" /\ run[s].new[a].id # 0
    /\ Done(s, a, [run[s].new[a] EXCEPT !.status = "error"], {})
    /\ UNCHANGED <<row, connected, live, made, events, lock, excused, removals, failures>>

\* Mutant of MayCreate: any answer but success means that there is no subscription.
MayCreateAnyway(s, a) == TRUE

\* Mutant of MayCreate: 404 and 410 are errors like the others.
MayCreateFirst(s, a) == run[s].new[a].id = 0

\* There is no id, or Graph has answered 404 or 410 to its renewal.
MayCreate(s, a) ==
    /\ ~Known(s, a)
    /\ run[s].new[a].status = "reauthorizationRequired" => run[s].new[a].id = 0

\* create_subscription; an answer that is lost makes the client ask again.
Create(s, a) ==
    /\ a \in run[s].todo \ Broken /\ MayCreate(s, a) /\ made < MaxIds
    /\ \/ /\ made' = made + 1 /\ live' = live \cup {made'}
          /\ UNCHANGED <<excused, failures>>
       \/ /\ Fails("answer") /\ made + 2 <= MaxIds
          /\ made' = made + 2 /\ live' = live \cup {made + 1, made'}
          /\ excused' = excused + 1
    /\ Done(s, a, Active(made'), {made'})
    /\ UNCHANGED <<row, connected, events, lock, removals>>

\* An error is written to the row, if there is one; a subscription that Graph does
\* not know is forgotten before another is asked for.
Refused(s, a) ==
    LET r == run[s].new[a] IN
    \E id \in IF Known(s, a) THEN {r.id} ELSE {r.id, 0} :
        Done(s, a, IF r.there THEN [r EXCEPT !.status = "error", !.id = id] ELSE r, {})

RequestFails(s, a) ==
    /\ a \in run[s].todo
    /\ IF a \in Broken THEN UNCHANGED failures ELSE Fails("refused")
    /\ Refused(s, a)
    /\ UNCHANGED <<row, connected, live, made, events, lock, excused, removals>>

\* The grant is refused (mark_reauth_if_current), or another has replaced it
\* meanwhile: then the account is passed over.
ConsentNeeded(s, a) ==
    /\ a \in run[s].todo /\ Fails("consent")
    /\ \/ run' = [run EXCEPT ![s].todo = @ \ {a}, ![s].gone = @ \cup {a},
                   ![s].new[a].status = IF run[s].new[a].there THEN "reauth_required" ELSE @]
       \/ Done(s, a, run[s].new[a], {})
    /\ UNCHANGED <<row, connected, live, made, events, lock, excused, removals>>

\* The UPDATE holds the attributes that differ from what was read; a new row is
\* inserted whole.
Written(now, read, new) ==
    IF ~read.there THEN IF new.there THEN new ELSE now
    ELSE [there |-> now.there,
          id |-> IF new.id = read.id THEN now.id ELSE new.id,
          status |-> IF new.status = read.status THEN now.status ELSE new.status,
          due |-> IF new.due = read.due THEN now.due ELSE new.due]

Release(s) == lock' = IF lock = s THEN NoScheduler ELSE lock

\* Another tick has inserted the row of one of the accounts.
Conflict(s) ==
    \E a \in Account : ~run[s].read[a].there /\ run[s].new[a].there /\ row[a].there

\* Commit: all accounts at once.  A renewal always has a new expiry.
Commit(s) ==
    /\ run[s].on /\ run[s].todo = {} /\ ~Conflict(s)
    /\ row' = [a \in Account |-> Written(row[a], run[s].read[a], run[s].new[a])]
    /\ connected' = connected \ run[s].gone
    /\ run' = [run EXCEPT ![s] = NoRun] /\ Release(s)
    /\ UNCHANGED <<live, made, events, excused, removals, failures>>

\* An access token is refreshed for one of the accounts: that commits what the tick
\* has written before.
CommitEarly(s) ==
    /\ run[s].created # {} /\ run[s].todo # {} /\ ~Conflict(s)
    /\ row' = [a \in Account |-> Written(row[a], run[s].read[a], run[s].new[a])]
    /\ connected' = connected \ run[s].gone
    /\ run' = [run EXCEPT ![s].read = run[s].new, ![s].created = {}, ![s].gone = {}]
    /\ UNCHANGED <<live, made, events, lock, excused, removals, failures>>

CommitFails(s) ==
    /\ run[s].on /\ run[s].todo = {} /\ Conflict(s)
    /\ excused' = excused + Cardinality(run[s].created)
    /\ run' = [run EXCEPT ![s] = NoRun] /\ Release(s)
    /\ UNCHANGED <<row, connected, live, made, events, removals, failures>>

Crash(s) ==
    /\ run[s].on /\ Fails("crash")
    /\ excused' = excused + Cardinality(run[s].created)
    /\ run' = [run EXCEPT ![s] = NoRun]
    /\ UNCHANGED <<row, connected, live, made, events, lock, removals>>

\* The lock lasts two intervals, or three minutes, and is not prolonged.
LockEnds ==
    /\ lock # NoScheduler
    /\ IF run[lock].on THEN Fails("slow") /\ excused' = excused + Cardinality(Account)
                       ELSE UNCHANGED <<failures, excused>>
    /\ lock' = NoScheduler
    /\ UNCHANGED <<row, connected, live, made, events, run, removals>>

-----------------------------------------------------------------------------
\* Graph removes a subscription, or asks for its authorization; it tells the webhook.
GraphSends(id, event) ==
    /\ id \in live /\ removals < MaxRemovals
    /\ removals' = removals + 1
    /\ live' = IF event = "subscriptionRemoved" THEN live \ {id} ELSE live
    /\ events' = events \cup {<<id, event>>}
    /\ UNCHANGED <<row, connected, made, lock, run, excused, failures>>

\* enqueue_from_graph_notification: the event is the status of the row that has the
\* subscription; if no row has it, not yet or no longer, the webhook accepts and drops it.
Receive(id, event) ==
    /\ <<id, event>> \in events
    /\ row' = [a \in Account |-> IF row[a].id = id THEN [row[a] EXCEPT !.status = event] ELSE row[a]]
    /\ events' = events \ {<<id, event>>}
    /\ UNCHANGED <<connected, live, made, lock, run, excused, removals, failures>>

EventLost(id, event) ==
    /\ <<id, event>> \in events /\ Fails("notice")
    /\ events' = events \ {<<id, event>>}
    /\ UNCHANGED <<row, connected, live, made, lock, run, excused, removals>>

\* The renewal hours before the end are reached, or the end itself.
Age(a) ==
    /\ row[a].there /\ ~row[a].due
    /\ row' = [row EXCEPT ![a].due = TRUE]
    /\ UNCHANGED <<connected, live, made, events, lock, run, excused, removals, failures>>

Reconnect(a) ==
    /\ a \notin connected /\ connected' = connected \cup {a}
    /\ UNCHANGED <<row, live, made, events, lock, run, excused, removals, failures>>

TickNext(s) ==
    \/ Begin(s) \/ Commit(s) \/ CommitEarly(s) \/ CommitFails(s)
    \/ \E a \in Account :
          Renew(s, a) \/ ReauthorizeUnknown(s, a) \/ Create(s, a) \/ RequestFails(s, a)
          \/ ConsentNeeded(s, a)

Next ==
    \/ \E s \in Scheduler : TickNext(s) \/ Crash(s)
    \/ LockEnds
    \/ \E id \in Id, event \in Event : GraphSends(id, event) \/ Receive(id, event) \/ EventLost(id, event)
    \/ \E a \in Account : Age(a) \/ Reconnect(a)

Spec == Init /\ [][Next]_vars
\* The scheduler ticks, the lock ends, time passes and a user connects the account
\* again; Graph sends an event until the webhook has taken it, or gives it up.
FairSpec ==
    /\ Spec /\ WF_vars(LockEnds)
    /\ \A s \in Scheduler : WF_vars(TickNext(s))
    /\ \A a \in Account : WF_vars(Age(a)) /\ WF_vars(Reconnect(a))
    /\ WF_vars(\E id \in Id, event \in Event : Receive(id, event))

-----------------------------------------------------------------------------
\* Graph has no subscription that the application does not know, but for those a
\* crash, a lost answer or a lock that ended too soon has left behind: an error is
\* not answered with a second subscription, nor does it make a row forget its own.
OrphansAreExcused ==
    Cardinality(live \ ({row[a].id : a \in Account}
                        \cup {run[s].new[a].id : s \in Scheduler, a \in Account})) <= excused

\* Every mailbox that Graph does not always refuse comes to have a subscription that
\* Graph and its row agree on, and keeps it: after errors, removals of which the
\* event was lost, crashes, ticks that overlap and other accounts that fail.
EventuallySubscribed == \A a \in Account \ Broken : <>[](row[a].id \in live)
=============================================================================
