--------------------------- MODULE AnalysisOutbox ---------------------------
(***************************************************************************)
(* The transactional outbox between the mail synchronizers and the AI      *)
(* analysis workers (modules/mail/repository.py queue_analysis,            *)
(* analysis_worker.py, modules/analysis/repository.py and service.py).     *)
(*                                                                         *)
(* A synchronizer stores a message and its outbox event in one             *)
(* transaction.  Every analysis worker repeats: select the oldest event    *)
(* that is due FOR UPDATE SKIP LOCKED, mark it PROCESSING and commit; ask  *)
(* the AI provider; store the analysis and mark the event PROCESSED in one *)
(* transaction; on an error, roll back and mark it FAILED with a backoff.  *)
(* What the AI answers, and what the answer does to alerts and incidents,  *)
(* is the subject of module Incidents.                                     *)
(***************************************************************************)
EXTENDS Integers, Sequences

CONSTANTS
    Msg,         \* email_messages rows
    Worker,      \* analysis worker processes
    MaxAttempts  \* claims an event is given (8 in the code)

ASSUME AttemptsAssumption == MaxAttempts \in Nat \ {0}

VARIABLES
    message,   \* is the email_messages row there?
    outbox,    \* the events, in created_at order (the message of each)
    event,     \* outbox_events row of each message
    analyzed,  \* messages with an email_analyses row
    worker     \* what each worker does, and on which event

vars == <<message, outbox, event, analyzed, worker>>

NoEvent == [status |-> "none", attempts |-> 0, due |-> FALSE]
Idle == [pc |-> "idle"]
At(pc, m) == [pc |-> pc, msg |-> m]
WorkerState == {Idle} \cup
               [pc: {"selected", "claimed", "asking", "failing"}, msg: Msg]

TypeOK ==
    /\ message \in [Msg -> {"absent", "stored", "purged"}]
    /\ outbox \in Seq(Msg)
    /\ event \in [Msg -> [status: {"none", "pending", "processing", "processed", "failed"},
                          attempts: 0..MaxAttempts, due: BOOLEAN]]
    /\ analyzed \subseteq Msg
    /\ worker \in [Worker -> WorkerState]

Init ==
    /\ message = [m \in Msg |-> "absent"]
    /\ outbox = <<>>
    /\ event = [m \in Msg |-> NoEvent]
    /\ analyzed = {}
    /\ worker = [w \in Worker |-> Idle]

Busy(w) == worker[w] # Idle
Queued(m) == event[m].status # "none"

-----------------------------------------------------------------------------
(* The synchronizers *)

Queue(m) ==
    /\ outbox' = Append(outbox, m)
    /\ event' = [event EXCEPT ![m] = [status |-> "pending", attempts |-> 0, due |-> TRUE]]

\* Mutants of Store: the event is published after the message's commit; a
\* message stored again is queued again.
StoreThenQueue(m) ==
    /\ message[m] # "purged"
    /\ message' = [message EXCEPT ![m] = "stored"]
    /\ IF message[m] = "stored" /\ ~Queued(m)
       THEN Queue(m)
       ELSE UNCHANGED <<outbox, event>>
    /\ UNCHANGED <<analyzed, worker>>
StoreRequeueing(m) ==
    /\ message[m] # "purged"
    /\ message' = [message EXCEPT ![m] = "stored"]
    /\ IF ~Queued(m)
       THEN Queue(m)
       ELSE event' = [event EXCEPT ![m].status = "pending"] /\ UNCHANGED outbox
    /\ UNCHANGED <<analyzed, worker>>

\* upsert_message and queue_analysis, committed together. A message stored
\* again finds its dedupe_key taken: ON CONFLICT DO NOTHING.
Store(m) ==
    /\ message[m] # "purged"
    /\ message' = [message EXCEPT ![m] = "stored"]
    /\ IF ~Queued(m) THEN Queue(m) ELSE UNCHANGED <<outbox, event>>
    /\ UNCHANGED <<analyzed, worker>>

\* The message's account is deleted from the database; analyses cascade, outbox
\* events refer to the tenant alone and stay.  (A tenant takes all of them along.)
Purge(m) ==
    /\ message[m] = "stored"
    /\ message' = [message EXCEPT ![m] = "purged"]
    /\ analyzed' = analyzed \ {m}
    /\ UNCHANGED <<outbox, event, worker>>

-----------------------------------------------------------------------------
(* The workers *)

\* Mutants of Claimable: one attempt too many; a failed event is not retried.
ClaimableOnceMore(m) ==
    /\ event[m].status \in {"pending", "failed"}
    /\ event[m].due
    /\ event[m].attempts <= MaxAttempts
ClaimablePending(m) ==
    /\ event[m].status = "pending"
    /\ event[m].due
    /\ event[m].attempts < MaxAttempts

Claimable(m) ==
    /\ event[m].status \in {"pending", "failed"}
    /\ event[m].due
    /\ event[m].attempts < MaxAttempts

\* Mutant of RowLocked: the SELECT takes no lock and skips none.
NeverLocked(m) == FALSE

RowLocked(m) == \E w \in Worker : worker[w] = At("selected", m)

\* AnalysisRepository.claim: SELECT ... FOR UPDATE SKIP LOCKED, then the
\* UPDATE and the commit that releases the lock.
Select(w) ==
    /\ ~Busy(w)
    /\ \E i \in 1..Len(outbox) :
        /\ Claimable(outbox[i]) /\ ~RowLocked(outbox[i])
        /\ \A j \in 1..(i - 1) : ~(Claimable(outbox[j]) /\ ~RowLocked(outbox[j]))
        /\ worker' = [worker EXCEPT ![w] = At("selected", outbox[i])]
    /\ UNCHANGED <<message, outbox, event, analyzed>>

Claim(w, m) ==
    /\ worker[w] = At("selected", m)
    /\ event' = [event EXCEPT ![m].status = "processing", ![m].attempts = @ + 1]
    /\ worker' = [worker EXCEPT ![w] = At("claimed", m)]
    /\ UNCHANGED <<message, outbox, analyzed>>

\* AnalysisRepository.complete. When the commit succeeds but its answer is
\* lost, the worker takes the event for failed.
Complete(w, m) ==
    /\ event' = [event EXCEPT ![m].status = "processed"]
    /\ \E next \in {Idle, At("failing", m)} : worker' = [worker EXCEPT ![w] = next]
    /\ UNCHANGED <<message, outbox>>

\* The message is gone, or already has an analysis.
CompleteUnasked(w, m) ==
    /\ worker[w] = At("claimed", m)
    /\ message[m] # "stored" \/ m \in analyzed
    /\ Complete(w, m)
    /\ UNCHANGED analyzed

\* Mutants of Ask: the stored analysis is not looked for; the event is
\* completed before the answer is in.
AskAgain(w, m) ==
    /\ worker[w] = At("claimed", m)
    /\ message[m] = "stored"
    /\ worker' = [worker EXCEPT ![w] = At("asking", m)]
    /\ UNCHANGED <<message, outbox, event, analyzed>>
AskAndComplete(w, m) ==
    /\ worker[w] = At("claimed", m)
    /\ message[m] = "stored" /\ m \notin analyzed
    /\ event' = [event EXCEPT ![m].status = "processed"]
    /\ worker' = [worker EXCEPT ![w] = At("asking", m)]
    /\ UNCHANGED <<message, outbox, analyzed>>

Ask(w, m) ==
    /\ worker[w] = At("claimed", m)
    /\ message[m] = "stored" /\ m \notin analyzed
    /\ worker' = [worker EXCEPT ![w] = At("asking", m)]
    /\ UNCHANGED <<message, outbox, event, analyzed>>

\* The analysis references the message's row and is unique for it.
Answer(w, m) ==
    /\ worker[w] = At("asking", m)
    /\ message[m] = "stored" /\ m \notin analyzed
    /\ analyzed' = analyzed \cup {m}
    /\ Complete(w, m)

\* Any exception: the provider's, an invalid answer, a database error that
\* undoes the transaction.
Error(w, m) ==
    /\ worker[w] \in {At("claimed", m), At("asking", m)}
    /\ worker' = [worker EXCEPT ![w] = At("failing", m)]
    /\ UNCHANGED <<message, outbox, event, analyzed>>

\* AnalysisRepository.fail, by the event's id alone.
RecordFailure(w, m) ==
    /\ worker[w] = At("failing", m)
    /\ event' = [event EXCEPT ![m].status = "failed", ![m].due = FALSE]
    /\ worker' = [worker EXCEPT ![w] = Idle]
    /\ UNCHANGED <<message, outbox, analyzed>>

\* available_at passes.
BackoffEnds(m) ==
    /\ event[m].status = "failed" /\ ~event[m].due
    /\ event' = [event EXCEPT ![m].due = TRUE]
    /\ UNCHANGED <<message, outbox, analyzed, worker>>

\* The process dies, or the failure itself cannot be recorded and run() ends;
\* the container starts it again.
Crash(w) ==
    /\ Busy(w)
    /\ worker' = [worker EXCEPT ![w] = Idle]
    /\ UNCHANGED <<message, outbox, event, analyzed>>

Work(w) ==
    \/ Select(w)
    \/ \E m \in Msg :
        \/ Claim(w, m) \/ CompleteUnasked(w, m) \/ Ask(w, m) \/ Answer(w, m)
        \/ Error(w, m) \/ RecordFailure(w, m)

Next ==
    \/ \E m \in Msg : Store(m) \/ Purge(m) \/ BackoffEnds(m)
    \/ \E w \in Worker : Work(w) \/ Crash(w)

Spec == Init /\ [][Next]_vars

\* A worker's loop never blocks forever: the provider calls have timeouts.
FairSpec ==
    /\ Spec
    /\ \A w \in Worker : WF_vars(Work(w))
    /\ \A m \in Msg : WF_vars(BackoffEnds(m))

-----------------------------------------------------------------------------
(* What the outbox promises *)

\* An event is in the hands of one worker at a time, from its selection to
\* the record of its outcome: the row lock covers the selection, PROCESSING
\* the rest, and nothing puts an event back while somebody works on it.
OneWorkerPerEvent ==
    \A w1, w2 \in Worker :
        w1 # w2 /\ Busy(w1) /\ Busy(w2) => worker[w1].msg # worker[w2].msg

\* No stored message lacks its event, whatever commits: the outbox is
\* transactional.
StoredIsQueued == \A m \in Msg : message[m] = "stored" => Queued(m)

\* An event is taken off the outbox only with its message's analysis stored.
ProcessedMeansAnalyzed ==
    \A m \in Msg : event[m].status = "processed" /\ message[m] = "stored" => m \in analyzed

\* A message whose analysis is stored is never sent to the AI provider again,
\* not even when the answer to the commit was lost and the event retried.
NeverAskedTwice == \A w \in Worker, m \in analyzed : worker[w] # At("asking", m)

\* When workers stop dying, every stored message is analyzed or uses up its
\* attempts, unless the worker that had claimed its event died: no event is
\* starved by others, forgotten after a failure, or blocked by a lock.
Settled(m) ==
    \/ event[m].status = "processed"
    \/ event[m].status = "failed" /\ event[m].attempts = MaxAttempts
Orphaned(m) ==
    event[m].status = "processing" /\ \A w \in Worker : Busy(w) => worker[w].msg # m
CrashesStop == <>[][\A w \in Worker : ~Crash(w)]_vars
SettledOrOrphaned ==
    CrashesStop => \A m \in Msg : message[m] = "stored" ~> Settled(m) \/ Orphaned(m)

\* What the README calls an outbox with retries: the event of a worker that
\* died is handled by another attempt. In the code it stays PROCESSING, which
\* no worker ever selects.
RetriedAfterCrash == CrashesStop => \A m \in Msg : message[m] = "stored" ~> Settled(m)

-----------------------------------------------------------------------------
(* The inductive invariant *)

\* A selected event may still be claimed; a claimed one is PROCESSING until
\* its outcome is recorded.
EventInHand ==
    \A w \in Worker, m \in Msg :
        /\ worker[w] = At("selected", m) =>
            event[m].status \in {"pending", "failed"} /\ event[m].attempts < MaxAttempts
        /\ worker[w] \in {At("claimed", m), At("asking", m)} => event[m].status = "processing"
        /\ worker[w] = At("failing", m) => event[m].status \in {"processing", "processed"}

\* An event outlives its message but never comes before it.
QueuedAfterStored == \A m \in Msg : message[m] = "absent" => ~Queued(m)

IInv ==
    /\ TypeOK /\ EventInHand /\ QueuedAfterStored /\ OneWorkerPerEvent
    /\ StoredIsQueued /\ ProcessedMeansAnalyzed /\ NeverAskedTwice
=============================================================================
