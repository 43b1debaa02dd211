------------------------ MODULE AnalysisOutboxProofs ------------------------
(* Proofs about AnalysisOutbox, for any messages, workers and attempts. *)
EXTENDS AnalysisOutbox, TLAPS

\* A worker at work on a message is not idle, and is at one place only.
LEMMA WorkerStates ==
    ASSUME NEW pc, NEW m, NEW pc2, NEW m2
    PROVE  /\ At(pc, m) # Idle
           /\ At(pc, m).msg = m
           /\ At(pc, m) = At(pc2, m2) <=> pc = pc2 /\ m = m2
  BY DEF At, Idle

\* Every place a worker can be at is a worker state.
LEMMA WorkerPlaces ==
    ASSUME NEW m \in Msg,
           NEW pc \in {"selected", "claimed", "asking", "failing"}
    PROVE  At(pc, m) \in WorkerState /\ Idle \in WorkerState
  BY DEF At, Idle, WorkerState

\* The invariant holds initially: nothing is stored and nobody works.
LEMMA InitInvariant == Init => IInv
  <1> SUFFICES ASSUME Init PROVE IInv
    OBVIOUS
  <1>1. TypeOK
    BY AttemptsAssumption DEF Init, TypeOK, NoEvent, WorkerState
  <1>2. \A w \in Worker, m \in Msg : \A pc : worker[w] = Idle /\ worker[w] # At(pc, m)
    BY WorkerStates DEF Init
  <1> QED
    BY <1>1, <1>2 DEF Init, IInv, EventInHand, OneWorkerPerEvent, StoredIsQueued, Queued,
       ProcessedMeansAnalyzed, NeverAskedTwice, QueuedAfterStored, Busy, NoEvent

\* A worker that moves from one event to the same event, or drops it, shares
\* it with no other.
LEMMA StaysAlone ==
    ASSUME TypeOK, OneWorkerPerEvent, NEW w \in Worker, NEW m \in Msg, NEW next,
           Busy(w), worker[w].msg = m,
           next = Idle \/ \E pc : next = At(pc, m),
           worker' = [worker EXCEPT ![w] = next]
    PROVE  OneWorkerPerEvent'
  <1>1. next = Idle \/ next.msg = m
    BY WorkerStates
  <1> QED
    BY <1>1 DEF OneWorkerPerEvent, Busy, TypeOK

\* Storing a message queues its event, unless it has one.
LEMMA StoreKeeps ==
    ASSUME IInv, NEW m \in Msg, Store(m)
    PROVE  IInv'
  <1> USE DEF IInv
  <1>1. message' = [message EXCEPT ![m] = "stored"] /\ UNCHANGED <<analyzed, worker>>
    BY DEF Store
  <1>2. CASE Queued(m)
    <2>1. UNCHANGED <<outbox, event>>
      BY <1>2 DEF Store
    <2>2. TypeOK'
      BY <1>1, <2>1 DEF TypeOK
    <2>3. EventInHand' /\ OneWorkerPerEvent' /\ NeverAskedTwice'
      BY <1>1, <2>1 DEF EventInHand, OneWorkerPerEvent, NeverAskedTwice, Busy
    <2>4. StoredIsQueued' /\ QueuedAfterStored'
      BY <1>1, <1>2, <2>1 DEF StoredIsQueued, QueuedAfterStored, Queued, TypeOK
    <2>5. ProcessedMeansAnalyzed'
      BY <1>1, <1>2, <2>1 DEF ProcessedMeansAnalyzed, QueuedAfterStored, TypeOK, Store
    <2> QED
      BY <2>2, <2>3, <2>4, <2>5
  <1>3. CASE ~Queued(m)
    <2>1. outbox' = Append(outbox, m)
          /\ event' = [event EXCEPT ![m] = [status |-> "pending", attempts |-> 0, due |-> TRUE]]
      BY <1>3 DEF Store, Queue
    <2>2. TypeOK'
      BY <1>1, <2>1, AttemptsAssumption DEF TypeOK
    <2>3. \A w \in Worker, pc \in {"selected", "claimed", "asking", "failing"} : worker[w] # At(pc, m)
      BY <1>3 DEF EventInHand, Queued
    <2>4. EventInHand'
      BY <1>1, <2>1, <2>3 DEF EventInHand, TypeOK
    <2>5. OneWorkerPerEvent' /\ NeverAskedTwice'
      BY <1>1 DEF OneWorkerPerEvent, NeverAskedTwice, Busy
    <2>6. StoredIsQueued' /\ QueuedAfterStored' /\ ProcessedMeansAnalyzed'
      BY <1>1, <2>1 DEF StoredIsQueued, QueuedAfterStored, ProcessedMeansAnalyzed, Queued, TypeOK
    <2> QED
      BY <2>2, <2>4, <2>5, <2>6
  <1> QED
    BY <1>2, <1>3

\* A purge takes the analysis with the message.
LEMMA PurgeKeeps ==
    ASSUME IInv, NEW m \in Msg, Purge(m)
    PROVE  IInv'
  <1> USE DEF IInv, Purge
  <1>1. TypeOK'
    BY DEF TypeOK
  <1>2. EventInHand' /\ OneWorkerPerEvent' /\ NeverAskedTwice'
    BY DEF EventInHand, OneWorkerPerEvent, NeverAskedTwice, Busy
  <1>3. StoredIsQueued' /\ QueuedAfterStored' /\ ProcessedMeansAnalyzed'
    BY DEF StoredIsQueued, QueuedAfterStored, ProcessedMeansAnalyzed, Queued, TypeOK
  <1> QED
    BY <1>1, <1>2, <1>3

\* A backoff that ends makes a failed event due and nothing else.
LEMMA BackoffEndsKeeps ==
    ASSUME IInv, NEW m \in Msg, BackoffEnds(m)
    PROVE  IInv'
  <1> USE DEF IInv, BackoffEnds
  <1>1. TypeOK'
    BY DEF TypeOK
  <1>2. \A m2 \in Msg : event'[m2].status = event[m2].status /\ event'[m2].attempts = event[m2].attempts
    BY DEF TypeOK
  <1>3. EventInHand' /\ OneWorkerPerEvent' /\ NeverAskedTwice'
    BY <1>2 DEF EventInHand, OneWorkerPerEvent, NeverAskedTwice, Busy
  <1>4. StoredIsQueued' /\ QueuedAfterStored' /\ ProcessedMeansAnalyzed'
    BY <1>2 DEF StoredIsQueued, QueuedAfterStored, ProcessedMeansAnalyzed, Queued
  <1> QED
    BY <1>1, <1>3, <1>4

\* A selection finds an event nobody has in hand: one that is neither
\* PROCESSING nor PROCESSED, whose row no other selection has locked.
LEMMA SelectKeeps ==
    ASSUME IInv, NEW w \in Worker, Select(w)
    PROVE  IInv'
  <1> USE DEF IInv
  <1>1. PICK i \in 1..Len(outbox) :
           /\ Claimable(outbox[i]) /\ ~RowLocked(outbox[i])
           /\ worker' = [worker EXCEPT ![w] = At("selected", outbox[i])]
    BY DEF Select
  <1> DEFINE m == outbox[i]
  <1>2. m \in Msg /\ ~Busy(w) /\ UNCHANGED <<message, outbox, event, analyzed>>
    BY DEF Select, TypeOK
  <1>3. TypeOK'
    BY <1>1, <1>2, WorkerPlaces DEF TypeOK
  <1>4. \A w2 \in Worker, pc \in {"selected", "claimed", "asking", "failing"} : worker[w2] # At(pc, m)
    BY <1>1, <1>2 DEF Claimable, RowLocked, EventInHand
  <1>5. \A w2 \in Worker : Busy(w2) => worker[w2].msg # m
    <2> SUFFICES ASSUME NEW w2 \in Worker, Busy(w2), worker[w2].msg = m PROVE FALSE
      OBVIOUS
    <2>1. worker[w2] \in [pc: {"selected", "claimed", "asking", "failing"}, msg: Msg]
      BY DEF TypeOK, WorkerState, Busy
    <2>2. worker[w2] = At(worker[w2].pc, m)
      BY <2>1 DEF At
    <2> QED
      BY <1>4, <2>1, <2>2
  <1>6. worker'[w].msg = m /\ \A w2 \in Worker : w2 # w => worker'[w2] = worker[w2]
    BY <1>1, WorkerStates DEF TypeOK
  <1>7. OneWorkerPerEvent'
    BY <1>5, <1>6 DEF OneWorkerPerEvent, Busy
  <1>8. worker'[w] = At("selected", m)
    BY <1>1 DEF TypeOK
  <1>9. EventInHand' /\ NeverAskedTwice'
    BY <1>1, <1>2, <1>6, <1>8, WorkerStates DEF EventInHand, NeverAskedTwice, Claimable
  <1>10. StoredIsQueued' /\ QueuedAfterStored' /\ ProcessedMeansAnalyzed'
    BY <1>2 DEF StoredIsQueued, QueuedAfterStored, ProcessedMeansAnalyzed, Queued
  <1> QED
    BY <1>3, <1>7, <1>9, <1>10

\* What a worker may do with the event it has in hand: change its row, move
\* on or let go, and store the analysis, as long as the new place fits the
\* new row.
LEMMA InHandKeeps ==
    ASSUME IInv, NEW w \in Worker, NEW m \in Msg, Busy(w), worker[w].msg = m,
           NEW next, worker' = [worker EXCEPT ![w] = next],
           NEW e \in [status: {"pending", "processing", "processed", "failed"},
                      attempts: 0..MaxAttempts, due: BOOLEAN],
           event' = [event EXCEPT ![m] = e],
           UNCHANGED <<message, outbox>>,
           analyzed' = analyzed \/ analyzed' = analyzed \cup {m},
           \/ next = Idle
           \/ next \in {At("claimed", m), At("asking", m)} /\ e.status = "processing"
           \/ next = At("failing", m) /\ e.status \in {"processing", "processed"},
           next = At("asking", m) => m \notin analyzed',
           e.status = "processed" /\ message[m] = "stored" => m \in analyzed',
           message[m] # "absent"
    PROVE  IInv'
  <1> USE DEF IInv
  <1>1. next \in WorkerState
    BY WorkerPlaces
  <1>2. TypeOK'
    BY <1>1 DEF TypeOK
  <1>3. OneWorkerPerEvent'
    BY StaysAlone
  <1>4. worker'[w] = next /\ event'[m] = e
    BY DEF TypeOK
  <1>5. \A w2 \in Worker \ {w}, m2 \in Msg : \A pc :
            worker'[w2] = At(pc, m2) => worker[w2] = At(pc, m2) /\ m2 # m /\ event'[m2] = event[m2]
    BY WorkerStates DEF TypeOK, OneWorkerPerEvent, Busy
  <1>6. EventInHand'
    BY <1>4, <1>5, WorkerStates DEF EventInHand
  <1>7. NeverAskedTwice'
    BY <1>4, <1>5, WorkerStates DEF NeverAskedTwice, TypeOK
  <1>8. StoredIsQueued' /\ QueuedAfterStored'
    BY DEF StoredIsQueued, QueuedAfterStored, Queued, TypeOK
  <1>9. ProcessedMeansAnalyzed'
    BY <1>4 DEF ProcessedMeansAnalyzed, TypeOK
  <1> QED
    BY <1>2, <1>3, <1>6, <1>7, <1>8, <1>9

\* The event in a worker's hand is on the outbox, so its message was stored.
LEMMA InHandWasStored ==
    ASSUME IInv, NEW w \in Worker, NEW m \in Msg,
           NEW pc \in {"selected", "claimed", "asking", "failing"}, worker[w] = At(pc, m)
    PROVE  Busy(w) /\ worker[w].msg = m /\ message[m] # "absent" /\ Queued(m)
  <1>1. Queued(m)
    BY DEF IInv, EventInHand, Queued
  <1> QED
    BY <1>1, WorkerStates DEF IInv, QueuedAfterStored, Busy

\* A claim counts one more attempt of an event that had one left.
LEMMA ClaimKeeps ==
    ASSUME IInv, NEW w \in Worker, NEW m \in Msg, Claim(w, m)
    PROVE  IInv'
  <1> DEFINE e == [event[m] EXCEPT !.status = "processing", !.attempts = @ + 1]
  <1>1. worker[w] = At("selected", m) /\ event[m].attempts < MaxAttempts
    BY DEF Claim, IInv, EventInHand
  <1>2. e \in [status: {"pending", "processing", "processed", "failed"},
               attempts: 0..MaxAttempts, due: BOOLEAN]
    <2>1. event[m] \in [status: {"none", "pending", "processing", "processed", "failed"},
                        attempts: 0..MaxAttempts, due: BOOLEAN]
      BY DEF IInv, TypeOK
    <2>2. event[m].attempts + 1 \in 0..MaxAttempts
      BY <1>1, <2>1, AttemptsAssumption
    <2> QED
      BY <2>1, <2>2
  <1>3. event' = [event EXCEPT ![m] = e]
    BY DEF Claim, IInv, TypeOK
  <1>4. worker' = [worker EXCEPT ![w] = At("claimed", m)]
        /\ UNCHANGED <<message, outbox, analyzed>>
    BY DEF Claim
  <1>5. At("claimed", m) # At("asking", m) /\ e.status = "processing"
    BY WorkerStates DEF IInv, TypeOK
  <1>6. Busy(w) /\ worker[w].msg = m /\ message[m] # "absent"
    BY <1>1, InHandWasStored
  <1>7. event[m].status # "processed" /\ e.status # "processed"
    BY <1>1, <1>5 DEF IInv, EventInHand
  <1> HIDE DEF e
  <1> QED
    BY <1>2, <1>3, <1>4, <1>5, <1>6, <1>7, InHandKeeps

\* A completion needs the analysis, or a message that is gone.
LEMMA CompleteKeeps ==
    ASSUME IInv, NEW w \in Worker, NEW m \in Msg, CompleteUnasked(w, m) \/ Answer(w, m)
    PROVE  IInv'
  <1> DEFINE e == [event[m] EXCEPT !.status = "processed"]
  <1>1. PICK pc \in {"claimed", "asking"} : worker[w] = At(pc, m)
    BY DEF CompleteUnasked, Answer
  <1>2. e \in [status: {"pending", "processing", "processed", "failed"},
               attempts: 0..MaxAttempts, due: BOOLEAN]
    BY DEF IInv, TypeOK
  <1>3. event' = [event EXCEPT ![m] = e] /\ UNCHANGED <<message, outbox>>
    BY DEF CompleteUnasked, Answer, Complete, IInv, TypeOK
  <1>4. PICK next \in {Idle, At("failing", m)} : worker' = [worker EXCEPT ![w] = next]
    BY DEF CompleteUnasked, Answer, Complete
  <1>5. e.status = "processed" /\ next # At("asking", m)
    BY <1>4, WorkerStates DEF IInv, TypeOK
  <1>6. /\ analyzed' = analyzed \/ analyzed' = analyzed \cup {m}
        /\ message[m] = "stored" => m \in analyzed'
    BY DEF CompleteUnasked, Answer
  <1>7. Busy(w) /\ worker[w].msg = m /\ message[m] # "absent"
    BY <1>1, InHandWasStored
  <1> HIDE DEF e
  <1> QED
    BY <1>2, <1>3, <1>4, <1>5, <1>6, <1>7, InHandKeeps

\* Asking, giving up and dying leave the event's row alone.
LEMMA RowUntouchedKeeps ==
    ASSUME IInv, NEW w \in Worker, NEW m \in Msg, worker[w].msg = m, Busy(w),
           Ask(w, m) \/ Error(w, m) \/ Crash(w)
    PROVE  IInv'
  <1>1. worker[w] \in [pc: {"selected", "claimed", "asking", "failing"}, msg: Msg]
    BY DEF IInv, TypeOK, WorkerState, Busy
  <1>2. worker[w] = At(worker[w].pc, m)
    BY <1>1 DEF At
  <1>3. message[m] # "absent" /\ Queued(m)
    BY <1>1, <1>2, InHandWasStored
  <1>4. event[m] \in [status: {"pending", "processing", "processed", "failed"},
                      attempts: 0..MaxAttempts, due: BOOLEAN]
    BY <1>3 DEF IInv, TypeOK, Queued
  <1>5. event' = [event EXCEPT ![m] = event[m]] /\ UNCHANGED <<message, outbox, analyzed>>
    BY DEF Ask, Error, Crash, IInv, TypeOK
  <1>6. event[m].status = "processed" /\ message[m] = "stored" => m \in analyzed'
    BY <1>5 DEF IInv, ProcessedMeansAnalyzed
  <1>7. CASE Ask(w, m)
    <2>1. event[m].status = "processing" /\ m \notin analyzed'
          /\ worker' = [worker EXCEPT ![w] = At("asking", m)]
      BY <1>5, <1>7 DEF Ask, IInv, EventInHand
    <2> QED
      BY <1>3, <1>4, <1>5, <1>6, <2>1, InHandKeeps
  <1>8. CASE Error(w, m)
    <2>1. event[m].status = "processing" /\ At("failing", m) # At("asking", m)
          /\ worker' = [worker EXCEPT ![w] = At("failing", m)]
      BY <1>8, WorkerStates DEF Error, IInv, EventInHand
    <2> QED
      BY <1>3, <1>4, <1>5, <1>6, <2>1, InHandKeeps
  <1>9. CASE Crash(w)
    <2>1. Idle # At("asking", m) /\ worker' = [worker EXCEPT ![w] = Idle]
      BY <1>9, WorkerStates DEF Crash
    <2> QED
      BY <1>3, <1>4, <1>5, <1>6, <2>1, InHandKeeps
  <1> QED
    BY <1>7, <1>8, <1>9

\* A recorded failure takes the event out of the worker's hand.
LEMMA RecordFailureKeeps ==
    ASSUME IInv, NEW w \in Worker, NEW m \in Msg, RecordFailure(w, m)
    PROVE  IInv'
  <1> DEFINE e == [event[m] EXCEPT !.status = "failed", !.due = FALSE]
  <1>1. worker[w] = At("failing", m)
    BY DEF RecordFailure
  <1>2. e \in [status: {"pending", "processing", "processed", "failed"},
               attempts: 0..MaxAttempts, due: BOOLEAN] /\ e.status # "processed"
    BY DEF IInv, TypeOK
  <1>3. event' = [event EXCEPT ![m] = e]
    BY DEF RecordFailure, IInv, TypeOK
  <1>4. worker' = [worker EXCEPT ![w] = Idle] /\ UNCHANGED <<message, outbox, analyzed>>
    BY DEF RecordFailure
  <1>5. Idle # At("asking", m)
    BY WorkerStates
  <1>6. Busy(w) /\ worker[w].msg = m /\ message[m] # "absent"
    BY <1>1, InHandWasStored
  <1> HIDE DEF e
  <1> QED
    BY <1>2, <1>3, <1>4, <1>5, <1>6, InHandKeeps

\* Every step keeps the invariant.
LEMMA Inductive == IInv /\ [Next]_vars => IInv'
  <1> SUFFICES ASSUME IInv, [Next]_vars PROVE IInv'
    OBVIOUS
  <1>1. CASE UNCHANGED vars
    BY <1>1 DEF vars, IInv, TypeOK, EventInHand, QueuedAfterStored, OneWorkerPerEvent,
       StoredIsQueued, ProcessedMeansAnalyzed, NeverAskedTwice, Busy, Queued
  <1>2. ASSUME NEW m \in Msg, Store(m) \/ Purge(m) \/ BackoffEnds(m) PROVE IInv'
    BY <1>2, StoreKeeps, PurgeKeeps, BackoffEndsKeeps
  <1>3. ASSUME NEW w \in Worker, Work(w) PROVE IInv'
    <2>1. CASE Select(w)
      BY <2>1, SelectKeeps
    <2>2. ASSUME NEW m \in Msg, Ask(w, m) \/ Error(w, m) PROVE IInv'
      <3>1. Busy(w) /\ worker[w].msg = m
        BY <2>2, InHandWasStored DEF Ask, Error
      <3> QED
        BY <2>2, <3>1, RowUntouchedKeeps
    <2> QED
      BY <1>3, <2>1, <2>2, ClaimKeeps, CompleteKeeps, RecordFailureKeeps DEF Work
  <1>4. ASSUME NEW w \in Worker, Crash(w) PROVE IInv'
    <2>1. Busy(w) /\ worker[w].msg \in Msg
      BY <1>4 DEF Crash, Busy, IInv, TypeOK, WorkerState
    <2> QED
      BY <1>4, <2>1, RowUntouchedKeeps
  <1> QED
    BY <1>1, <1>2, <1>3, <1>4 DEF Next

\* The inductive invariant of the outbox holds whatever the workers, the
\* provider and the database do.
THEOREM Invariance == Spec => []IInv
  BY InitInvariant, Inductive, PTL DEF Spec

\* The outbox is well typed; in particular no event is claimed more than
\* MaxAttempts times.
THEOREM TypeCorrect == Spec => []TypeOK
  <1>1. IInv => TypeOK
    BY DEF IInv
  <1> QED
    BY <1>1, Invariance, PTL

\* FOR UPDATE SKIP LOCKED and PROCESSING together keep two workers from ever
\* having the same event in hand.
THEOREM WorkersNeverShare == Spec => []OneWorkerPerEvent
  <1>1. IInv => OneWorkerPerEvent
    BY DEF IInv
  <1> QED
    BY <1>1, Invariance, PTL

\* The event commits with its message.
THEOREM OutboxIsTransactional == Spec => []StoredIsQueued
  <1>1. IInv => StoredIsQueued
    BY DEF IInv
  <1> QED
    BY <1>1, Invariance, PTL

\* No event is completed without the analysis it asks for.
THEOREM CompletedIsAnalyzed == Spec => []ProcessedMeansAnalyzed
  <1>1. IInv => ProcessedMeansAnalyzed
    BY DEF IInv
  <1> QED
    BY <1>1, Invariance, PTL

\* No analyzed message goes to the AI provider a second time.
THEOREM AnalyzedOnce == Spec => []NeverAskedTwice
  <1>1. IInv => NeverAskedTwice
    BY DEF IInv
  <1> QED
    BY <1>1, Invariance, PTL
=============================================================================
