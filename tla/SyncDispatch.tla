---------------------------- MODULE SyncDispatch ----------------------------
(***************************************************************************)
(* Who synchronizes an account, and when: sync_scheduler.py, worker.py,    *)
(* microsoft_worker.py and the API routes that queue a synchronization.    *)
(*                                                                         *)
(* The scheduler, provider notifications and users publish to a durable    *)
(* RabbitMQ queue.  A worker handles several deliveries at once; each      *)
(* takes a Redis lease on the account, or is acknowledged as a duplicate   *)
(* if the lease is taken; checks the account's status and the provider's   *)
(* cooldown; imports; acknowledges, or requeues a first failure; and then  *)
(* releases the lease.  What an import does is the subject of GmailSync:   *)
(* here it starts, and ends in one of four ways.                           *)
(***************************************************************************)
EXTENDS Integers

CONSTANTS
    Account,   \* the accounts of one provider
    Slot,      \* deliveries the workers can handle at once
    NoOwner,   \* no lease
    Orphan,    \* a lease whose owner died
    MaxQueued  \* bound: deliveries of an account that notifications and users pile up

ASSUME LeaseAssumption == NoOwner # Orphan /\ NoOwner \notin Slot /\ Orphan \notin Slot
ASSUME QueueAssumption == MaxQueued \in Nat

VARIABLES
    status,    \* mail_accounts.status
    due,       \* is last_synced_at older than the scheduler's interval?
    cooldown,  \* Redis mail:sync:cooldown of the account
    lease,     \* Redis sync:<provider>:<account>, and who set it
    queue,     \* deliveries waiting: never delivered before, delivered again
    slot,      \* what the handler of a delivery does
    sched      \* what the scheduler does, and the accounts it has selected

vars == <<status, due, cooldown, lease, queue, slot, sched>>

Usable == {"connected", "error", "syncing"}
Delivery == {"fresh", "again"}
Idle == [pc |-> "idle"]
Importing == {"checking", "ready", "running", "cooling", "ack", "nack"}
Asleep == [pc |-> "asleep", accounts |-> {}]

\* unacked: the broker still counts on this handler for the delivery.
Handling == [pc: Importing \cup {"releasing"}, account: Account,
             delivery: Delivery, unacked: BOOLEAN]

TypeOK ==
    /\ status \in [Account -> Usable \cup {"disconnected", "reauth_required"}]
    /\ due \in [Account -> BOOLEAN]
    /\ cooldown \in [Account -> BOOLEAN]
    /\ lease \in [Account -> Slot \cup {NoOwner, Orphan}]
    /\ queue \in [Account -> [Delivery -> Nat]]
    /\ slot \in [Slot -> {Idle} \cup Handling]
    /\ sched \in [pc: {"asleep", "leases", "cooldowns", "publishing"},
                 accounts: SUBSET Account]

Init ==
    /\ status = [a \in Account |-> "connected"]
    /\ due = [a \in Account |-> TRUE]
    /\ cooldown = [a \in Account |-> FALSE]
    /\ lease = [a \in Account |-> NoOwner]
    /\ queue = [a \in Account |-> [d \in Delivery |-> 0]]
    /\ slot = [s \in Slot |-> Idle]
    /\ sched = Asleep

-----------------------------------------------------------------------------
(* Publishing *)

Room(a) == queue[a]["fresh"] + queue[a]["again"] < MaxQueued
Publish(a) == queue' = [queue EXCEPT ![a]["fresh"] = @ + 1]

\* A Gmail push, a Graph notification, or a user's request to synchronize. The
\* status it has read may have changed when it publishes.
Enqueue(a) ==
    /\ Room(a) /\ Publish(a)
    /\ UNCHANGED <<status, due, cooldown, lease, slot, sched>>

\* enqueue_due_accounts reads the accounts, their leases and their cooldowns one
\* after the other, and publishes what is left: all may have changed by then.
Select(chosen, pc) == sched' = [pc |-> pc, accounts |-> chosen]

\* Mutant of Due: an account that a crash left SYNCING is not recovered.
DueUnlessSyncing == {a \in Account : status[a] \in {"connected", "error"} /\ due[a]}
Due == {a \in Account : status[a] \in Usable /\ due[a]}

SelectDue ==
    /\ sched.pc = "asleep"
    /\ Select(Due, "leases")
    /\ UNCHANGED <<status, due, cooldown, lease, queue, slot>>

SkipBusy ==
    /\ sched.pc = "leases"
    /\ Select({a \in sched.accounts : lease[a] = NoOwner}, "cooldowns")
    /\ UNCHANGED <<status, due, cooldown, lease, queue, slot>>

SkipCooling ==
    /\ sched.pc = "cooldowns"
    /\ Select({a \in sched.accounts : ~cooldown[a]}, "publishing")
    /\ UNCHANGED <<status, due, cooldown, lease, queue, slot>>

PublishDue(a) ==
    /\ sched.pc = "publishing" /\ a \in sched.accounts
    /\ Room(a) /\ Publish(a)
    /\ Select(sched.accounts \ {a}, "publishing")
    /\ UNCHANGED <<status, due, cooldown, lease, slot>>

EndTick ==
    /\ sched.pc = "publishing" /\ sched.accounts = {}
    /\ sched' = Asleep
    /\ UNCHANGED <<status, due, cooldown, lease, queue, slot>>

\* A failure or a crash ends the tick; the next one starts again.
AbandonTick ==
    /\ sched.pc # "asleep"
    /\ sched' = Asleep
    /\ UNCHANGED <<status, due, cooldown, lease, queue, slot>>

Pause(a) ==
    /\ status' = [status EXCEPT ![a] = "disconnected"]
    /\ UNCHANGED <<due, cooldown, lease, queue, slot, sched>>

\* Resuming or reconnecting an account; the publication after the commit may
\* fail.
Resume(a) ==
    /\ status' = [status EXCEPT ![a] = "connected"]
    /\ (Room(a) /\ Publish(a)) \/ UNCHANGED queue
    /\ UNCHANGED <<due, cooldown, lease, slot, sched>>

-----------------------------------------------------------------------------
(* Handling a delivery *)

Busy(s) == slot[s] # Idle
At(s, pc) == Busy(s) /\ slot[s].pc = pc
Goto(s, pc) == slot' = [slot EXCEPT ![s].pc = pc]

Waiting(a, d) == queue[a][d] > 0
Consume(a, d) == queue' = [queue EXCEPT ![a][d] = @ - 1]

\* Mutants of Take: a handler starts with no delivery; one that comes again
\* takes no lease.
TakeUnasked(s, a, d) ==
    /\ ~Busy(s) /\ lease[a] = NoOwner
    /\ Consume(a, d)
    /\ lease' = [lease EXCEPT ![a] = s]
    /\ slot' = [slot EXCEPT ![s] =
                    [pc |-> "checking", account |-> a, delivery |-> d, unacked |-> TRUE]]
    /\ UNCHANGED <<status, due, cooldown, sched>>
TakeAgain(s, a, d) ==
    /\ ~Busy(s) /\ Waiting(a, d) /\ (lease[a] = NoOwner \/ d = "again")
    /\ Consume(a, d)
    /\ lease' = [lease EXCEPT ![a] = s]
    /\ slot' = [slot EXCEPT ![s] =
                    [pc |-> "checking", account |-> a, delivery |-> d, unacked |-> TRUE]]
    /\ UNCHANGED <<status, due, cooldown, sched>>

Take(s, a, d) ==
    /\ ~Busy(s) /\ Waiting(a, d) /\ lease[a] = NoOwner
    /\ Consume(a, d)
    /\ lease' = [lease EXCEPT ![a] = s]
    /\ slot' = [slot EXCEPT ![s] =
                    [pc |-> "checking", account |-> a, delivery |-> d, unacked |-> TRUE]]
    /\ UNCHANGED <<status, due, cooldown, sched>>

\* The lease is taken: the delivery is acknowledged as a duplicate.
Drop(s, a, d) ==
    /\ ~Busy(s) /\ Waiting(a, d) /\ lease[a] # NoOwner
    /\ Consume(a, d)
    /\ UNCHANGED <<status, due, cooldown, lease, slot, sched>>

\* Mutant of Check: the cooldown is left to the scheduler.
CheckStatus(s) ==
    /\ At(s, "checking")
    /\ Goto(s, IF status[slot[s].account] \in Usable THEN "ready" ELSE "ack")
    /\ UNCHANGED <<status, due, cooldown, lease, queue, sched>>

\* process_message: the account's status, then the provider's cooldown.
Check(s) ==
    LET a == slot[s].account IN
    /\ At(s, "checking")
    /\ Goto(s, IF status[a] \in Usable /\ ~cooldown[a] THEN "ready" ELSE "ack")
    /\ UNCHANGED <<status, due, cooldown, lease, queue, sched>>

\* The import begins, unless the account was paused or revoked meanwhile: no
\* update of the account's row applies then.
Update(s, newStatus) ==
    LET a == slot[s].account IN
    status' = IF status[a] \in Usable THEN [status EXCEPT ![a] = newStatus] ELSE status
Advance(s, pc) == Goto(s, IF status[slot[s].account] \in Usable THEN pc ELSE "ack")

Start(s) ==
    /\ At(s, "ready")
    /\ Update(s, "syncing") /\ Advance(s, "running")
    /\ UNCHANGED <<due, cooldown, lease, queue, sched>>

Succeed(s) ==
    LET a == slot[s].account IN
    /\ At(s, "running")
    /\ Update(s, "connected") /\ Advance(s, "ack")
    /\ due' = [due EXCEPT ![a] = @ /\ status[a] \notin Usable]
    /\ UNCHANGED <<cooldown, lease, queue, sched>>

\* With the token or in the middle of the import, the provider is unavailable
\* (Microsoft's import then restores the status it found), the grant is
\* revoked, or something else fails.
Fail(s) ==
    /\ At(s, "ready") \/ At(s, "running")
    /\ \/ /\ Update(s, "error") \/ (At(s, "running") /\ Update(s, "connected"))
          /\ Advance(s, "cooling")
       \/ Update(s, "reauth_required") /\ Advance(s, "ack")
       \/ Update(s, "error") /\ Advance(s, "nack")
    /\ UNCHANGED <<due, cooldown, lease, queue, sched>>

\* The account was reconnected meanwhile: nothing the handler writes applies to
\* the new grant (GmailSync tells when; here it may be any import).
Overtaken(s) ==
    /\ At(s, "ready") \/ At(s, "running")
    /\ Goto(s, "ack")
    /\ UNCHANGED <<status, due, cooldown, lease, queue, sched>>

\* The provider's backoff is persisted.
Cool(s) ==
    /\ At(s, "cooling")
    /\ cooldown' = [cooldown EXCEPT ![slot[s].account] = TRUE]
    /\ Goto(s, "ack")
    /\ UNCHANGED <<status, due, lease, queue, sched>>

\* PostgreSQL or Redis fails: nothing but the delivery is left to tell.
Break(s) ==
    /\ \E pc \in {"checking", "ready", "running", "cooling"} : At(s, pc)
    /\ Goto(s, "nack")
    /\ UNCHANGED <<status, due, cooldown, lease, queue, sched>>

\* message.process: a failure is requeued the first time and rejected the
\* second; the handler's lease is released after that.
Settle(s) ==
    LET h == slot[s] IN
    /\ At(s, "ack") \/ At(s, "nack")
    /\ IF h.pc = "nack" /\ h.unacked /\ h.delivery = "fresh"
       THEN queue' = [queue EXCEPT ![h.account]["again"] = @ + 1]
       ELSE UNCHANGED queue
    /\ slot' = [slot EXCEPT ![s] = [pc |-> "releasing", account |-> h.account,
                                  delivery |-> h.delivery, unacked |-> FALSE]]
    /\ UNCHANGED <<status, due, cooldown, lease, sched>>

\* The lease is released by its token: only if it is still the handler's.
Released(s, owner) ==
    [lease EXCEPT ![slot[s].account] = IF @ = s THEN owner ELSE @]
Release(s) ==
    /\ At(s, "releasing")
    /\ lease' = Released(s, NoOwner)
    /\ slot' = [slot EXCEPT ![s] = Idle]
    /\ UNCHANGED <<status, due, cooldown, queue, sched>>

-----------------------------------------------------------------------------
(* What fails, and time *)

\* The process dies; the broker delivers again what was not acknowledged.
Crash(s) ==
    LET h == slot[s] IN
    /\ Busy(s)
    /\ queue' = IF h.unacked THEN [queue EXCEPT ![h.account]["again"] = @ + 1] ELSE queue
    /\ lease' = Released(s, Orphan)
    /\ slot' = [slot EXCEPT ![s] = Idle]
    /\ UNCHANGED <<status, due, cooldown, sched>>

\* The connection to the broker is lost, or the broker's patience ends, while
\* the handler goes on.
LoseChannel(s) ==
    /\ Busy(s) /\ slot[s].unacked
    /\ queue' = [queue EXCEPT ![slot[s].account]["again"] = @ + 1]
    /\ slot' = [slot EXCEPT ![s].unacked = FALSE]
    /\ UNCHANGED <<status, due, cooldown, lease, sched>>

\* The lease of a dead handler expires, two hours after it was taken.
OrphanExpires(a) ==
    /\ lease[a] = Orphan
    /\ lease' = [lease EXCEPT ![a] = NoOwner]
    /\ UNCHANGED <<status, due, cooldown, queue, slot, sched>>

\* So does that of an import that takes longer: nothing renews it.
LeaseExpires(a) ==
    /\ lease[a] \in Slot
    /\ lease' = [lease EXCEPT ![a] = NoOwner]
    /\ UNCHANGED <<status, due, cooldown, queue, slot, sched>>

CooldownEnds(a) ==
    /\ cooldown[a]
    /\ cooldown' = [cooldown EXCEPT ![a] = FALSE]
    /\ UNCHANGED <<status, due, lease, queue, slot, sched>>

IntervalPasses(a) ==
    /\ ~due[a]
    /\ due' = [due EXCEPT ![a] = TRUE]
    /\ UNCHANGED <<status, cooldown, lease, queue, slot, sched>>

-----------------------------------------------------------------------------

Receive(s, a) == \E d \in Delivery : Take(s, a, d) \/ Drop(s, a, d)
Proceed(s) ==
    \/ Check(s) \/ Start(s) \/ Succeed(s) \/ Fail(s) \/ Cool(s) \/ Break(s)
    \/ Overtaken(s) \/ Settle(s) \/ Release(s)
Tick ==
    \/ SelectDue \/ SkipBusy \/ SkipCooling \/ EndTick
    \/ \E a \in Account : PublishDue(a)

Next ==
    \/ \E a \in Account :
        \/ Enqueue(a) \/ Pause(a) \/ Resume(a)
        \/ OrphanExpires(a) \/ CooldownEnds(a) \/ IntervalPasses(a)
        \/ \E s \in Slot : Receive(s, a)
    \/ \E s \in Slot : Proceed(s) \/ Crash(s) \/ LoseChannel(s)
    \/ Tick \/ AbandonTick

NextWithLongImports == Next \/ \E a \in Account : LeaseExpires(a)

Spec == Init /\ [][Next]_vars
SpecWithLongImports == Init /\ [][NextWithLongImports]_vars

\* The scheduler's loop never ends; the broker delivers in order, so no
\* account's delivery waits forever for a free handler; a handler's calls have
\* timeouts; leases and cooldowns expire.
FairSpec ==
    /\ Spec
    /\ SF_vars(Tick)
    /\ \A a \in Account :
        /\ WF_vars(OrphanExpires(a)) /\ WF_vars(CooldownEnds(a))
        /\ SF_vars(\E s \in Slot : Receive(s, a))
    /\ \A s \in Slot : WF_vars(Proceed(s))

-----------------------------------------------------------------------------
(* What the dispatch promises *)

\* No two handlers import the same account at once.
Imports(s, a) == Busy(s) /\ slot[s].pc \in Importing /\ slot[s].account = a
OneImportPerAccount ==
    \A a \in Account, s1, s2 \in Slot : Imports(s1, a) /\ Imports(s2, a) => s1 = s2

\* While the provider's backoff lasts, no import calls it, whoever asks: the
\* scheduler, a notification, a user or a delivery that comes again.
NoImportWhileCoolingDown ==
    \A s \in Slot : At(s, "ready") \/ At(s, "running") => ~cooldown[slot[s].account]

\* What goes wrong with a handler. (With an account that is not in use, Fail and
\* Overtaken are what Start and Succeed are: the handler stops.)
Failure(s) ==
    \/ Crash(s) \/ Break(s) \/ LoseChannel(s)
    \/ (Fail(s) \/ Overtaken(s)) /\ status[slot[s].account] \in Usable
FailuresStop ==
    <>[][(\A s \in Slot : ~Failure(s)) /\ (AbandonTick => EndTick)]_vars

\* An account in use that is due is synchronized, once handlers and ticks stop
\* dying and imports failing or being overtaken: a lost delivery, an orphaned
\* lease, a SYNCING status left behind or a backoff only delay it.
EventuallySynced ==
    FailuresStop => \A a \in Account : due[a] /\ status[a] \in Usable ~>
                                       ~due[a] \/ status[a] \notin Usable

\* The inductive invariant: a handler that imports holds the account's lease.
LeaseIsHeld ==
    \A s \in Slot, a \in Account : Imports(s, a) => lease[a] = s
IInv == TypeOK /\ LeaseIsHeld /\ NoImportWhileCoolingDown

\* A delivery is dropped only while another is importing the account, or its
\* handler has died. In the code a first failure is requeued before the lease
\* is released, and the retry may meet the lease of the attempt it retries.
DroppedIsDuplicate ==
    [][\A s \in Slot, a \in Account, d \in Delivery :
        Drop(s, a, d) => lease[a] = Orphan \/ Imports(lease[a], a)]_vars
=============================================================================
