------------------------- MODULE SyncDispatchProofs -------------------------
(* Proofs about SyncDispatch, for any accounts, handlers and bound on the    *)
(* queue.                                                                    *)
EXTENDS SyncDispatch, TLAPS

\* A handler at work has an account, a delivery and a place in the handling.
LEMMA BusyHandles ==
    ASSUME TypeOK, NEW s \in Slot, Busy(s)
    PROVE  slot[s] \in Handling
  BY DEF TypeOK, Busy

\* Moving a handler keeps what it handles.
LEMMA GotoMoves ==
    ASSUME TypeOK, NEW s \in Slot, Busy(s), NEW pc \in Importing, Goto(s, pc)
    PROVE  /\ slot' \in [Slot -> {Idle} \cup Handling]
           /\ slot'[s].pc = pc /\ slot'[s].account = slot[s].account
           /\ \A s2 \in Slot \ {s} : slot'[s2] = slot[s2]
  <1>1. slot[s] \in Handling
    BY BusyHandles
  <1>2. slot'[s] = [slot[s] EXCEPT !.pc = pc]
    BY DEF Goto, TypeOK
  <1>3. slot'[s] \in Handling
    BY <1>1, <1>2 DEF Handling
  <1> QED
    BY <1>1, <1>2, <1>3 DEF Goto, TypeOK, Handling

\* A step in which a handler only moves on, from one place of the import to
\* another, and sets no cooldown, preserves the invariant; it may start or go on
\* with the import only if the provider's backoff is over.
LEMMA MovePreserves ==
    ASSUME IInv, NEW s \in Slot, Busy(s), slot[s].pc \in Importing,
           NEW pc \in Importing, Goto(s, pc),
           pc \in {"ready", "running"} => ~cooldown[slot[s].account],
           status' \in [Account -> Usable \cup {"disconnected", "reauth_required"}],
           due' \in [Account -> BOOLEAN],
           UNCHANGED <<cooldown, lease, queue, sched>>
    PROVE  IInv'
  <1>1. TypeOK
    BY DEF IInv
  <1>2. /\ slot' \in [Slot -> {Idle} \cup Handling]
        /\ slot'[s].pc = pc /\ slot'[s].account = slot[s].account
        /\ \A s2 \in Slot \ {s} : slot'[s2] = slot[s2]
    BY <1>1, GotoMoves
  <1>3. TypeOK'
    BY <1>1, <1>2 DEF TypeOK
  <1>4. LeaseIsHeld'
    <2> SUFFICES ASSUME NEW s2 \in Slot, NEW a \in Account, Imports(s2, a)'
                 PROVE  lease'[a] = s2
      BY DEF LeaseIsHeld
    <2>1. Imports(s2, a)
      BY <1>2 DEF Imports, Busy
    <2> QED
      BY <2>1 DEF LeaseIsHeld, IInv
  <1>5. NoImportWhileCoolingDown'
    <2> SUFFICES ASSUME NEW s2 \in Slot, (At(s2, "ready") \/ At(s2, "running"))'
                 PROVE  ~cooldown'[slot'[s2].account]
      BY DEF NoImportWhileCoolingDown
    <2>1. CASE s2 = s
      BY <1>2, <2>1 DEF At
    <2>2. CASE s2 # s
      BY <1>2, <2>2 DEF At, Busy, NoImportWhileCoolingDown, IInv
    <2> QED
      BY <2>1, <2>2
  <1> QED
    BY <1>3, <1>4, <1>5 DEF IInv

\* The status a handler writes is a status.
LEMMA UpdateIsTyped ==
    ASSUME TypeOK, NEW s \in Slot, Busy(s),
           NEW new \in {"connected", "error", "syncing", "reauth_required"}, Update(s, new)
    PROVE  status' \in [Account -> Usable \cup {"disconnected", "reauth_required"}]
  <1>1. slot[s].account \in Account
    BY BusyHandles DEF Handling
  <1> QED
    BY <1>1 DEF Update, TypeOK, Usable

\* Nobody handles anything at first.
LEMMA InitInvariant == Init => IInv
  <1> SUFFICES ASSUME Init PROVE IInv
    OBVIOUS
  <1>1. TypeOK
    BY DEF Init, TypeOK, Usable, Delivery, Asleep
  <1>2. \A s \in Slot : ~Busy(s)
    BY DEF Init, Busy
  <1> QED
    BY <1>1, <1>2 DEF IInv, LeaseIsHeld, Imports, NoImportWhileCoolingDown, At

\* What is published, selected, paused or let expire disturbs no handler.
LEMMA OthersPreserve ==
    ASSUME IInv, UNCHANGED slot, TypeOK',
           \A a \in Account : lease[a] \in Slot => lease'[a] = lease[a],
           \A a \in Account : cooldown'[a] => cooldown[a]
    PROVE  IInv'
  <1>1. LeaseIsHeld'
    BY DEF LeaseIsHeld, Imports, Busy, IInv
  <1>2. NoImportWhileCoolingDown'
    <2> SUFFICES ASSUME NEW s \in Slot, At(s, "ready") \/ At(s, "running")
                 PROVE  ~cooldown'[slot[s].account]
      BY DEF NoImportWhileCoolingDown, At, Busy
    <2>1. slot[s].account \in Account
      BY BusyHandles DEF Handling, At, IInv
    <2> QED
      BY <2>1 DEF NoImportWhileCoolingDown, IInv
  <1> QED
    BY <1>1, <1>2 DEF IInv

\* A publication leaves a queue of deliveries.
LEMMA PublishIsTyped ==
    ASSUME TypeOK, NEW a \in Account, Publish(a)
    PROVE  queue' \in [Account -> [Delivery -> Nat]]
  <1>1. queue[a] \in [Delivery -> Nat] /\ queue[a]["fresh"] \in Nat
    BY DEF TypeOK, Delivery
  <1>2. queue' = [queue EXCEPT ![a] = [queue[a] EXCEPT !["fresh"] = queue[a]["fresh"] + 1]]
    BY DEF Publish
  <1>3. queue[a]["fresh"] + 1 \in Nat
    BY <1>1
  <1>4. [queue[a] EXCEPT !["fresh"] = queue[a]["fresh"] + 1] \in [Delivery -> Nat]
    BY <1>1, <1>3
  <1> QED
    BY <1>2, <1>4 DEF TypeOK

\* So does a delivery that comes again.
LEMMA AgainIsTyped ==
    ASSUME TypeOK, NEW a \in Account, queue' = [queue EXCEPT ![a]["again"] = @ + 1]
    PROVE  queue' \in [Account -> [Delivery -> Nat]]
  <1>1. queue[a] \in [Delivery -> Nat] /\ queue[a]["again"] \in Nat
    BY DEF TypeOK, Delivery
  <1>2. queue' = [queue EXCEPT ![a] = [queue[a] EXCEPT !["again"] = queue[a]["again"] + 1]]
    OBVIOUS
  <1>3. queue[a]["again"] + 1 \in Nat
    BY <1>1
  <1>4. [queue[a] EXCEPT !["again"] = queue[a]["again"] + 1] \in [Delivery -> Nat]
    BY <1>1, <1>3
  <1> QED
    BY <1>2, <1>4 DEF TypeOK

\* And the consumption of a delivery that waits.
LEMMA ConsumeIsTyped ==
    ASSUME TypeOK, NEW a \in Account, NEW d \in Delivery, Waiting(a, d), Consume(a, d)
    PROVE  queue' \in [Account -> [Delivery -> Nat]]
  <1>1. queue[a] \in [Delivery -> Nat] /\ queue[a][d] \in Nat /\ queue[a][d] > 0
    BY DEF TypeOK, Waiting
  <1>2. queue' = [queue EXCEPT ![a] = [queue[a] EXCEPT ![d] = queue[a][d] - 1]]
    BY DEF Consume
  <1>3. queue[a][d] - 1 \in Nat
    BY <1>1
  <1>4. [queue[a] EXCEPT ![d] = queue[a][d] - 1] \in [Delivery -> Nat]
    BY <1>1, <1>3
  <1> QED
    BY <1>2, <1>4 DEF TypeOK

\* A handler that becomes idle or is about to release imports nothing.
LEMMA EndPreserves ==
    ASSUME IInv, NEW s \in Slot, Busy(s), TypeOK', UNCHANGED cooldown,
           ~(Busy(s)' /\ slot'[s].pc \in Importing),
           \A s2 \in Slot \ {s} : slot'[s2] = slot[s2],
           \A a \in Account : lease'[a] = lease[a] \/ lease[a] = s
    PROVE  IInv'
  <1>1. LeaseIsHeld'
    <2> SUFFICES ASSUME NEW s2 \in Slot, NEW a \in Account, Imports(s2, a)'
                 PROVE  lease'[a] = s2
      BY DEF LeaseIsHeld
    <2>1. s2 # s
      BY DEF Imports
    <2>2. Imports(s2, a)
      BY <2>1 DEF Imports, Busy
    <2> QED
      BY <2>1, <2>2 DEF LeaseIsHeld, IInv
  <1>2. NoImportWhileCoolingDown'
    <2> SUFFICES ASSUME NEW s2 \in Slot, (At(s2, "ready") \/ At(s2, "running"))'
                 PROVE  ~cooldown'[slot'[s2].account]
      BY DEF NoImportWhileCoolingDown
    <2>1. s2 # s
      BY DEF At, Importing
    <2> QED
      BY <2>1 DEF At, Busy, NoImportWhileCoolingDown, IInv
  <1> QED
    BY <1>1, <1>2 DEF IInv

\* Releasing, or losing, a handler's lease touches no other handler's.
LEMMA ReleasedIsOwn ==
    ASSUME TypeOK, NEW s \in Slot, Busy(s), NEW owner \in {NoOwner, Orphan},
           lease' = Released(s, owner)
    PROVE  /\ lease' \in [Account -> Slot \cup {NoOwner, Orphan}]
           /\ \A a \in Account : lease'[a] = lease[a] \/ lease[a] = s
  <1>1. slot[s].account \in Account
    BY BusyHandles DEF Handling
  <1> QED
    BY <1>1 DEF Released, TypeOK

-----------------------------------------------------------------------------

\* What a handler does at one of its steps preserves the invariant.
LEMMA ProceedPreserves ==
    ASSUME IInv, NEW s \in Slot, Proceed(s)
    PROVE  IInv'
  <1>1. TypeOK
    BY DEF IInv
  <1>2. CASE Check(s)
    <2>1. PICK pc \in {"ready", "ack"} :
              Goto(s, pc) /\ (pc = "ready" => ~cooldown[slot[s].account])
      BY <1>2 DEF Check
    <2> QED
      BY <1>1, <1>2, <2>1, MovePreserves DEF Check, At, Importing, TypeOK
  <1>3. CASE Start(s)
    <2>1. PICK pc \in {"running", "ack"} : Goto(s, pc)
      BY <1>3 DEF Start, Advance
    <2>2. status' \in [Account -> Usable \cup {"disconnected", "reauth_required"}]
      BY <1>1, <1>3, UpdateIsTyped DEF Start, At
    <2>3. ~cooldown[slot[s].account]
      BY <1>3 DEF Start, NoImportWhileCoolingDown, IInv
    <2> QED
      BY <1>1, <1>3, <2>1, <2>2, <2>3, MovePreserves DEF Start, At, Importing, TypeOK
  <1>4. CASE Succeed(s)
    <2>1. Goto(s, "ack")
      BY <1>4 DEF Succeed, Advance
    <2>2. status' \in [Account -> Usable \cup {"disconnected", "reauth_required"}]
      BY <1>1, <1>4, UpdateIsTyped DEF Succeed, At
    <2>3. due' \in [Account -> BOOLEAN]
      BY <1>1, <1>4 DEF Succeed, TypeOK
    <2> QED
      BY <1>1, <1>4, <2>1, <2>2, <2>3, MovePreserves DEF Succeed, At, Importing, TypeOK
  <1>5. CASE Fail(s)
    <2>1. PICK pc \in {"cooling", "ack", "nack"} : Goto(s, pc)
      BY <1>5 DEF Fail, Advance
    <2>2. status' \in [Account -> Usable \cup {"disconnected", "reauth_required"}]
      <3>1. \E new \in {"connected", "error", "syncing", "reauth_required"} : Update(s, new)
        BY <1>5 DEF Fail
      <3>2. Busy(s)
        BY <1>5 DEF Fail, At
      <3> QED
        BY <1>1, <3>1, <3>2, UpdateIsTyped
    <2> QED
      BY <1>1, <1>5, <2>1, <2>2, MovePreserves DEF Fail, At, Importing, TypeOK
  <1>6. CASE Break(s)
    BY <1>1, <1>6, MovePreserves DEF Break, At, Importing, TypeOK
  <1>7. CASE Overtaken(s)
    BY <1>1, <1>7, MovePreserves DEF Overtaken, At, Importing, TypeOK
  <1>8. CASE Cool(s)
    <2> DEFINE a == slot[s].account
    <2>1. Busy(s) /\ slot[s].pc = "cooling" /\ a \in Account
      BY <1>1, <1>8, BusyHandles DEF Cool, At, Handling
    <2>2. /\ slot' \in [Slot -> {Idle} \cup Handling]
          /\ slot'[s].pc = "ack" /\ slot'[s].account = a
          /\ \A s2 \in Slot \ {s} : slot'[s2] = slot[s2]
      BY <1>1, <1>8, <2>1, GotoMoves DEF Cool, Importing
    <2>3. /\ cooldown' \in [Account -> BOOLEAN]
          /\ \A b \in Account \ {a} : cooldown'[b] = cooldown[b]
      BY <1>1, <1>8, <2>1 DEF Cool, TypeOK
    <2>4. TypeOK'
      BY <1>1, <1>8, <2>2, <2>3 DEF Cool, TypeOK
    <2>5. lease[a] = s
      BY <2>1 DEF LeaseIsHeld, Imports, Importing, IInv
    <2>6. LeaseIsHeld'
      <3> SUFFICES ASSUME NEW s2 \in Slot, NEW b \in Account, Imports(s2, b)'
                   PROVE  lease'[b] = s2
        BY DEF LeaseIsHeld
      <3>1. Imports(s2, b)
        BY <2>1, <2>2 DEF Imports, Busy, Importing
      <3> QED
        BY <1>8, <3>1 DEF LeaseIsHeld, Cool, IInv
    <2>7. NoImportWhileCoolingDown'
      <3> SUFFICES ASSUME NEW s2 \in Slot, (At(s2, "ready") \/ At(s2, "running"))'
                   PROVE  ~cooldown'[slot'[s2].account]
        BY DEF NoImportWhileCoolingDown
      <3>1. s2 # s
        BY <2>2 DEF At
      <3>2. slot'[s2] = slot[s2] /\ (At(s2, "ready") \/ At(s2, "running"))
        BY <2>2, <3>1 DEF At, Busy
      <3>3. slot[s2].account \in Account
        BY <1>1, <3>2, BusyHandles DEF At, Handling
      <3>4. slot[s2].account # a
        BY <2>5, <3>1, <3>2, <3>3 DEF At, LeaseIsHeld, Imports, Importing, IInv
      <3> QED
        BY <2>3, <3>2, <3>3, <3>4 DEF NoImportWhileCoolingDown, IInv
    <2> QED
      BY <2>4, <2>6, <2>7 DEF IInv
  <1>9. CASE Settle(s)
    <2>1. Busy(s) /\ slot[s] \in Handling /\ slot[s].account \in Account
      BY <1>1, <1>9, BusyHandles DEF Settle, At, Handling
    <2>2. queue' \in [Account -> [Delivery -> Nat]]
      <3>1. \/ queue' = queue
            \/ queue' = [queue EXCEPT ![slot[s].account]["again"] = @ + 1]
        BY <1>9 DEF Settle
      <3>2. CASE queue' = queue
        BY <1>1, <3>2 DEF TypeOK
      <3>3. CASE queue' = [queue EXCEPT ![slot[s].account]["again"] = @ + 1]
        BY <1>1, <2>1, <3>3, AgainIsTyped
      <3> QED
        BY <3>1, <3>2, <3>3
    <2>3. /\ slot' \in [Slot -> {Idle} \cup Handling]
          /\ slot'[s].pc = "releasing"
          /\ \A s2 \in Slot \ {s} : slot'[s2] = slot[s2]
      BY <1>1, <1>9, <2>1 DEF Settle, TypeOK, Handling
    <2>4. TypeOK'
      BY <1>1, <1>9, <2>2, <2>3 DEF Settle, TypeOK
    <2>5. ~(Busy(s)' /\ slot'[s].pc \in Importing)
      BY <2>3 DEF Importing
    <2>6. UNCHANGED cooldown /\ \A a \in Account : lease'[a] = lease[a] \/ lease[a] = s
      BY <1>9 DEF Settle
    <2> QED
      BY <2>1, <2>3, <2>4, <2>5, <2>6, EndPreserves
  <1>10. CASE Release(s)
    <2>1. Busy(s)
      BY <1>10 DEF Release, At
    <2>2. /\ lease' \in [Account -> Slot \cup {NoOwner, Orphan}]
          /\ \A a \in Account : lease'[a] = lease[a] \/ lease[a] = s
      BY <1>1, <1>10, <2>1, ReleasedIsOwn DEF Release
    <2>3. TypeOK'
      BY <1>1, <1>10, <2>2 DEF Release, TypeOK
    <2>4. ~(Busy(s)' /\ slot'[s].pc \in Importing)
      BY <1>1, <1>10 DEF Release, Busy, TypeOK
    <2>5. UNCHANGED cooldown /\ \A s2 \in Slot \ {s} : slot'[s2] = slot[s2]
      BY <1>1, <1>10 DEF Release, TypeOK
    <2> QED
      BY <2>1, <2>2, <2>3, <2>4, <2>5, EndPreserves
  <1> QED
    BY <1>2, <1>3, <1>4, <1>5, <1>6, <1>7, <1>8, <1>9, <1>10 DEF Proceed

\* A delivery that arrives, or is lost with its handler or its channel.
LEMMA DeliveryPreserves ==
    ASSUME IInv, NEW s \in Slot,
           Crash(s) \/ LoseChannel(s) \/ \E a \in Account : Receive(s, a)
    PROVE  IInv'
  <1>1. TypeOK
    BY DEF IInv
  <1>2. CASE Crash(s)
    <2>1. Busy(s) /\ slot[s].account \in Account
      BY <1>1, <1>2, BusyHandles DEF Crash, Handling
    <2>2. queue' \in [Account -> [Delivery -> Nat]]
      <3>1. \/ queue' = queue
            \/ queue' = [queue EXCEPT ![slot[s].account]["again"] = @ + 1]
        BY <1>2 DEF Crash
      <3>2. CASE queue' = queue
        BY <1>1, <3>2 DEF TypeOK
      <3>3. CASE queue' = [queue EXCEPT ![slot[s].account]["again"] = @ + 1]
        BY <1>1, <2>1, <3>3, AgainIsTyped
      <3> QED
        BY <3>1, <3>2, <3>3
    <2>3. /\ lease' \in [Account -> Slot \cup {NoOwner, Orphan}]
          /\ \A a \in Account : lease'[a] = lease[a] \/ lease[a] = s
      BY <1>1, <1>2, <2>1, ReleasedIsOwn DEF Crash
    <2>4. TypeOK'
      BY <1>1, <1>2, <2>2, <2>3 DEF Crash, TypeOK
    <2>5. ~(Busy(s)' /\ slot'[s].pc \in Importing)
      BY <1>1, <1>2 DEF Crash, Busy, TypeOK
    <2>6. UNCHANGED cooldown /\ \A s2 \in Slot \ {s} : slot'[s2] = slot[s2]
      BY <1>1, <1>2 DEF Crash, TypeOK
    <2> QED
      BY <2>1, <2>3, <2>4, <2>5, <2>6, EndPreserves
  <1>3. CASE LoseChannel(s)
    <2>1. slot[s] \in Handling /\ slot[s].account \in Account
      BY <1>1, <1>3, BusyHandles DEF LoseChannel, Handling
    <2>2. queue' \in [Account -> [Delivery -> Nat]]
      BY <1>1, <1>3, <2>1, AgainIsTyped DEF LoseChannel
    <2>3. slot'[s] = [slot[s] EXCEPT !.unacked = FALSE]
      BY <1>1, <1>3 DEF LoseChannel, TypeOK
    <2>4. slot'[s] \in Handling /\ slot'[s].pc = slot[s].pc
                                /\ slot'[s].account = slot[s].account
      BY <2>1, <2>3 DEF Handling
    <2>5. \A s2 \in Slot \ {s} : slot'[s2] = slot[s2]
      BY <1>1, <1>3 DEF LoseChannel, TypeOK
    <2>6. TypeOK'
      BY <1>1, <1>3, <2>2, <2>4, <2>5 DEF LoseChannel, TypeOK
    <2>7. UNCHANGED <<cooldown, lease>> /\ Busy(s)
      BY <1>3 DEF LoseChannel
    <2>8. LeaseIsHeld'
      <3> SUFFICES ASSUME NEW s2 \in Slot, NEW a \in Account, Imports(s2, a)'
                   PROVE  lease'[a] = s2
        BY DEF LeaseIsHeld
      <3>1. Imports(s2, a)
        BY <2>4, <2>5, <2>7 DEF Imports, Busy
      <3> QED
        BY <2>7, <3>1 DEF LeaseIsHeld, IInv
    <2>9. NoImportWhileCoolingDown'
      <3> SUFFICES ASSUME NEW s2 \in Slot, (At(s2, "ready") \/ At(s2, "running"))'
                   PROVE  ~cooldown'[slot'[s2].account]
        BY DEF NoImportWhileCoolingDown
      <3>1. slot'[s2].account = slot[s2].account /\ (At(s2, "ready") \/ At(s2, "running"))
        BY <2>4, <2>5, <2>7 DEF At, Busy
      <3> QED
        BY <2>7, <3>1 DEF NoImportWhileCoolingDown, IInv
    <2> QED
      BY <2>6, <2>8, <2>9 DEF IInv
  <1>4. ASSUME NEW a \in Account, NEW d \in Delivery, Take(s, a, d)
        PROVE  IInv'
    <2> DEFINE h == [pc |-> "checking", account |-> a, delivery |-> d, unacked |-> TRUE]
    <2>1. queue' \in [Account -> [Delivery -> Nat]]
      BY <1>1, <1>4, ConsumeIsTyped DEF Take
    <2>2. h \in Handling
      BY DEF Handling, Importing
    <2>3. slot'[s] = h /\ \A s2 \in Slot \ {s} : slot'[s2] = slot[s2]
      BY <1>1, <1>4 DEF Take, TypeOK
    <2>4. slot' \in [Slot -> {Idle} \cup Handling]
      BY <1>1, <1>4, <2>2 DEF Take, TypeOK
    <2>5. /\ lease' \in [Account -> Slot \cup {NoOwner, Orphan}]
          /\ lease'[a] = s /\ lease[a] = NoOwner
          /\ \A b \in Account \ {a} : lease'[b] = lease[b]
      BY <1>1, <1>4 DEF Take, TypeOK
    <2>6. TypeOK'
      BY <1>1, <1>4, <2>1, <2>4, <2>5 DEF Take, TypeOK
    <2>7. LeaseIsHeld'
      <3> SUFFICES ASSUME NEW s2 \in Slot, NEW b \in Account, Imports(s2, b)'
                   PROVE  lease'[b] = s2
        BY DEF LeaseIsHeld
      <3>1. CASE s2 = s
        BY <2>3, <2>5, <3>1 DEF Imports
      <3>2. CASE s2 # s
        <4>1. Imports(s2, b)
          BY <2>3, <3>2 DEF Imports, Busy
        <4>2. lease[b] = s2
          BY <4>1 DEF LeaseIsHeld, IInv
        <4> QED
          BY <2>5, <4>2, LeaseAssumption
      <3> QED
        BY <3>1, <3>2
    <2>8. NoImportWhileCoolingDown'
      <3> SUFFICES ASSUME NEW s2 \in Slot, (At(s2, "ready") \/ At(s2, "running"))'
                   PROVE  ~cooldown'[slot'[s2].account]
        BY DEF NoImportWhileCoolingDown
      <3>1. s2 # s
        BY <2>3 DEF At
      <3> QED
        BY <1>4, <2>3, <3>1 DEF Take, At, Busy, NoImportWhileCoolingDown, IInv
    <2> QED
      BY <2>6, <2>7, <2>8 DEF IInv
  <1>5. ASSUME NEW a \in Account, NEW d \in Delivery, Drop(s, a, d)
        PROVE  IInv'
    <2>1. queue' \in [Account -> [Delivery -> Nat]]
      BY <1>1, <1>5, ConsumeIsTyped DEF Drop
    <2>2. TypeOK'
      BY <1>1, <1>5, <2>1 DEF Drop, TypeOK
    <2>3. UNCHANGED <<slot, lease, cooldown>>
      BY <1>5 DEF Drop
    <2> QED
      BY <2>2, <2>3, OthersPreserve
  <1> QED
    BY <1>2, <1>3, <1>4, <1>5 DEF Receive

\* The scheduler, notifications, users and time.
LEMMA EnvironmentPreserves ==
    ASSUME IInv,
           \/ Tick \/ AbandonTick
           \/ \E a \in Account : \/ Enqueue(a) \/ Pause(a) \/ Resume(a)
                                 \/ OrphanExpires(a) \/ CooldownEnds(a) \/ IntervalPasses(a)
    PROVE  IInv'
  <1>1. TypeOK
    BY DEF IInv
  <1>2. CASE SelectDue \/ SkipBusy \/ SkipCooling \/ EndTick \/ AbandonTick
    <2>1. sched' \in [pc: {"asleep", "leases", "cooldowns", "publishing"},
                      accounts: SUBSET Account]
      BY <1>1, <1>2 DEF SelectDue, SkipBusy, SkipCooling, EndTick, AbandonTick, Select,
                        Due, Asleep, TypeOK
    <2>2. UNCHANGED <<status, due, cooldown, lease, queue, slot>>
      BY <1>2 DEF SelectDue, SkipBusy, SkipCooling, EndTick, AbandonTick
    <2>3. TypeOK'
      BY <1>1, <2>1, <2>2 DEF TypeOK
    <2> QED
      BY <2>2, <2>3, OthersPreserve
  <1>3. ASSUME NEW a \in Account, PublishDue(a) \/ Enqueue(a)
        PROVE  IInv'
    <2>1. queue' \in [Account -> [Delivery -> Nat]]
      BY <1>1, <1>3, PublishIsTyped DEF PublishDue, Enqueue
    <2>2. sched' \in [pc: {"asleep", "leases", "cooldowns", "publishing"},
                      accounts: SUBSET Account]
      BY <1>1, <1>3 DEF PublishDue, Enqueue, Select, TypeOK
    <2>3. UNCHANGED <<status, due, cooldown, lease, slot>>
      BY <1>3 DEF PublishDue, Enqueue
    <2>4. TypeOK'
      BY <1>1, <2>1, <2>2, <2>3 DEF TypeOK
    <2> QED
      BY <2>3, <2>4, OthersPreserve
  <1>4. ASSUME NEW a \in Account, Pause(a) \/ Resume(a)
        PROVE  IInv'
    <2>1. queue' \in [Account -> [Delivery -> Nat]]
      BY <1>1, <1>4, PublishIsTyped DEF Pause, Resume, TypeOK
    <2>2. status' \in [Account -> Usable \cup {"disconnected", "reauth_required"}]
      BY <1>1, <1>4 DEF Pause, Resume, TypeOK, Usable
    <2>3. UNCHANGED <<due, cooldown, lease, slot, sched>>
      BY <1>4 DEF Pause, Resume
    <2>4. TypeOK'
      BY <1>1, <2>1, <2>2, <2>3 DEF TypeOK
    <2> QED
      BY <2>3, <2>4, OthersPreserve
  <1>5. ASSUME NEW a \in Account, OrphanExpires(a)
        PROVE  IInv'
    <2>1. /\ lease' \in [Account -> Slot \cup {NoOwner, Orphan}]
          /\ \A b \in Account : lease[b] \in Slot => lease'[b] = lease[b]
      BY <1>1, <1>5, LeaseAssumption DEF OrphanExpires, TypeOK
    <2>2. UNCHANGED <<status, due, cooldown, queue, slot, sched>>
      BY <1>5 DEF OrphanExpires
    <2>3. TypeOK'
      BY <1>1, <2>1, <2>2 DEF TypeOK
    <2> QED
      BY <2>1, <2>2, <2>3, OthersPreserve
  <1>6. ASSUME NEW a \in Account, CooldownEnds(a) \/ IntervalPasses(a)
        PROVE  IInv'
    <2>1. /\ cooldown' \in [Account -> BOOLEAN] /\ due' \in [Account -> BOOLEAN]
          /\ \A b \in Account : cooldown'[b] => cooldown[b]
      BY <1>1, <1>6 DEF CooldownEnds, IntervalPasses, TypeOK
    <2>2. UNCHANGED <<status, lease, queue, slot, sched>>
      BY <1>6 DEF CooldownEnds, IntervalPasses
    <2>3. TypeOK'
      BY <1>1, <2>1, <2>2 DEF TypeOK
    <2> QED
      BY <2>1, <2>2, <2>3, OthersPreserve
  <1> QED
    BY <1>2, <1>3, <1>4, <1>5, <1>6 DEF Tick

-----------------------------------------------------------------------------

\* Every step preserves the invariant, as long as no lease expires under a
\* handler that still imports.
THEOREM Invariance == Spec => []IInv
  <1>1. Init => IInv
    BY InitInvariant
  <1>2. IInv /\ [Next]_vars => IInv'
    <2> SUFFICES ASSUME IInv, [Next]_vars PROVE IInv'
      OBVIOUS
    <2>1. CASE UNCHANGED vars
      BY <2>1 DEF vars, IInv, TypeOK, LeaseIsHeld, Imports, Busy,
                  NoImportWhileCoolingDown, At
    <2>2. CASE Next
      BY <2>2, ProceedPreserves, DeliveryPreserves, EnvironmentPreserves DEF Next
    <2> QED
      BY <2>1, <2>2
  <1> QED
    BY <1>1, <1>2, PTL DEF Spec

\* The dispatch's state is well typed; no queue is consumed below empty.
THEOREM TypeCorrect == Spec => []TypeOK
  <1>1. IInv => TypeOK
    BY DEF IInv
  <1> QED
    BY <1>1, Invariance, PTL

\* No two handlers import the same account at once.
THEOREM ImportsAreExclusive == Spec => []OneImportPerAccount
  <1>1. IInv => OneImportPerAccount
    BY DEF IInv, LeaseIsHeld, OneImportPerAccount
  <1> QED
    BY <1>1, Invariance, PTL

\* No import runs against a provider that has asked to back off.
THEOREM BackoffIsRespected == Spec => []NoImportWhileCoolingDown
  <1>1. IInv => NoImportWhileCoolingDown
    BY DEF IInv
  <1> QED
    BY <1>1, Invariance, PTL
=============================================================================
