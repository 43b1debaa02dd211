--------------------------- MODULE DeliveriesProofs ---------------------------
(***************************************************************************)
(* Proofs about the components of Deliveries, for every set of accounts,   *)
(* messages, requests, schedulers, operations and clients and every bound. *)
(* A section for each: its inductive invariant, the steps that keep it,    *)
(* and what follows from it.  The last section puts them together for the  *)
(* behaviours of the composite.                                            *)
(***************************************************************************)
EXTENDS Deliveries, Sequences, FiniteSetTheorems, TLAPS

-----------------------------------------------------------------------------
(* Counting *)

\* Sets that differ in one element at most have as many elements, or one more.
LEMMA OneMore ==
    ASSUME NEW S, NEW T, IsFiniteSet(S), IsFiniteSet(T), NEW r, S \ {r} = T \ {r}
    PROVE  /\ Cardinality(S) \in Nat /\ Cardinality(T) \in Nat
           /\ (r \in S <=> r \in T) => Cardinality(S) = Cardinality(T)
           /\ r \in S /\ r \notin T => Cardinality(S) = Cardinality(T) + 1
<1>1. Cardinality(S) \in Nat /\ Cardinality(T) \in Nat BY FS_CardinalityType
<1>2. ASSUME r \in S <=> r \in T PROVE Cardinality(S) = Cardinality(T)
  <2>1. S = T BY <1>2
  <2> QED BY <2>1
<1>3. ASSUME r \in S, r \notin T PROVE Cardinality(S) = Cardinality(T) + 1
  <2>1. S = T \cup {r} BY <1>3
  <2> QED BY <1>3, <2>1, FS_AddElement
<1> QED BY <1>1, <1>2, <1>3

-----------------------------------------------------------------------------
(* PushWebhooks *)

\* What a request remembers, and the items told about so far.
RequestState(w) ==
    [pc: {"idle", "claim", "publish", "undo"}, of: SUBSET Push(w)!Change, todo: SUBSET Push(w)!Item,
     at: SUBSET Push(w)!Item]
PushTold(w) == (1..Len(changes)) \X PushAccount(w)
\* A request is about notifications that were sent; only one that publishes or gives back has an
\* item in hand, and one that has ended has none.
PushSound(w, s) ==
    /\ s.of \subseteq 1..Len(changes)
    /\ s.todo \subseteq s.of \X PushAccount(w)
    /\ s.pc \in {"publish", "undo"} => \E i \in s.of \X PushAccount(w) : s.at = {i}
    /\ s.pc \in {"idle", "claim"} => s.at = {}
    /\ s.pc = "idle" => s.of = {}
\* Every request is sound.
RequestsAreSound(w) ==
    request \in [PushRequest -> RequestState(w)] /\ \A r \in PushRequest : PushSound(w, request[r])
\* A key in Redis is the identity of an item some notification told about.
KeysAreReal(w) == \A k \in claimed : \E i \in PushTold(w) : k = Push(w)!Identity(i)
\* The request is about to queue the import its key stands for.
PublishesFor(w, k, s) == s.pc = "publish" /\ \E i \in s.at : Push(w)!Identity(i) = k
Publishing(w, k) == {r \in PushRequest : PublishesFor(w, k, request[r])}
\* Why a key lets through one import at a time: whoever may still publish for it has paid, and a
\* key that is free can be claimed once more.
KeysAreCounted(w) ==
    \A k \in Push(w)!Key :
        allowance[k] >= Cardinality(Publishing(w, k)) + (IF k \in claimed THEN 0 ELSE 1)
\* An import covers changes that have happened.
CoveredIsPast(w) == \A a \in PushAccount(w) : covered[a] <= Len(changes)
\* While no delivery is duplicated, two requests are about different notifications.
PushApart(w) == \A r, o \in PushRequest : r # o => request[r].of \cap request[o].of = {}
\* The key of an item is in Redis because its import has covered the item or a request has the item
\* in hand: that the key is there is then no reason to lose the item.
ClaimsAreHeeded(w) ==
    \A i \in PushTold(w) : Push(w)!Identity(i) \in claimed =>
        covered[i[2]] >= i[1] \/ \E r \in PushRequest : i \in request[r].at
\* What a request was told of is covered or passed over, or still to be claimed, or in hand.
RequestsAreHeeded(w) ==
    \A r \in PushRequest : \A n \in request[r].of, a \in Push(w)!Recipients :
        Push(w)!Heeded(n, a) \/ <<n, a>> \in request[r].todo \cup request[r].at
\* What holds while no fault has come that the code lets through.
PushHeeded(w) == PushApart(w) /\ ClaimsAreHeeded(w) /\ RequestsAreHeeded(w)
\* The inductive invariant: AcceptedIsQueued says nothing of requests that have not answered, and it
\* is these, and the keys they leave in Redis, that an answer depends on.
PushInv(w) ==
    /\ Push(w)!TypeOK /\ RequestsAreSound(w) /\ KeysAreReal(w) /\ KeysAreCounted(w)
    /\ CoveredIsPast(w)
    /\ Push(w)!Unharmed => PushHeeded(w)
    /\ Push(w)!AcceptedIsQueued

\* The identity of an item is a key.
LEMMA IdentityIsKey ==
    ASSUME NEW w \in {"gmail", "microsoft"}, PushAssumption, Push(w)!TypeOK, NEW i \in PushTold(w)
    PROVE  Push(w)!Identity(i) \in Push(w)!Key /\ i \in Push(w)!Item
<1>1. Len(changes) \in Nat /\ Len(changes) <= MaxChanges /\ changes \in Seq(PushMessage(w))
  BY DEF Push!TypeOK
<1>2. i[1] \in 1..Len(changes) /\ i[2] \in PushAccount(w) /\ i = <<i[1], i[2]>> BY DEF PushTold
<1>3. i[1] \in 1..MaxChanges /\ changes[i[1]] \in PushMessage(w) BY <1>1, <1>2 DEF PushAssumption
<1> QED BY <1>2, <1>3 DEF Push!Identity, Push!Key, Push!Change, Push!Item

\* What harms stays harmful: a step that ends unharmed began so and was itself no such fault.
LEMMA PushHarmStays ==
    ASSUME NEW w \in {"gmail", "microsoft"}, Push(w)!TypeOK,
           changes' = changes \/ \E m \in PushMessage(w) : changes' = Append(changes, m),
           pushFailures' = pushFailures \/ \E f \in Push(w)!Failure : Push(w)!Fails(f),
           Push(w)!Unharmed'
    PROVE  /\ Push(w)!Unharmed
           /\ \A f \in Push(w)!Failure : Push(w)!Fails(f) =>
                 /\ f \notin {"crash", "undo", "overlap", "deferred"}
                 /\ f = "publish" => w # "microsoft"
<1>1. pushFailures \in [Push(w)!Failure -> Nat] /\ changes \in Seq(PushMessage(w)) BY
      DEF Push!TypeOK
<1>2. ASSUME NEW f \in Push(w)!Failure, Push(w)!Fails(f)
      PROVE  /\ pushFailures'[f] = pushFailures[f] + 1
             /\ \A g \in Push(w)!Failure : g # f => pushFailures'[g] = pushFailures[g]
  <2>1. pushFailures' = [pushFailures EXCEPT ![f] = @ + 1] BY <1>2 DEF Push!Fails
  <2> QED BY <1>1, <2>1
<1>3. \A g \in Push(w)!Failure : pushFailures'[g] = 0 => pushFailures[g] = 0
  <2>1. CASE pushFailures' = pushFailures BY <2>1
  <2>2. CASE \E f \in Push(w)!Failure : Push(w)!Fails(f) 
    <3>1. PICK f \in Push(w)!Failure : Push(w)!Fails(f) BY <2>2
    <3>2. pushFailures[f] \in Nat BY <1>1
    <3>3. pushFailures'[f] # 0 BY <1>2, <3>1, <3>2
    <3> QED BY <1>2, <3>1, <3>3
  <2> QED BY <2>1, <2>2
<1>4. \A f \in Push(w)!Failure : Push(w)!Fails(f) => pushFailures'[f] # 0
  <2> SUFFICES ASSUME NEW f \in Push(w)!Failure, Push(w)!Fails(f) PROVE pushFailures'[f] # 0 OBVIOUS
  <2>1. pushFailures[f] \in Nat /\ pushFailures'[f] = pushFailures[f] + 1 BY <1>1, <1>2
  <2> QED BY <2>1
<1>5. \A x \in DOMAIN changes : x \in DOMAIN changes' /\ changes'[x] = changes[x] BY <1>1
<1>6. \A f \in {"crash", "undo", "overlap", "deferred", "publish"} : f \in Push(w)!Failure
  BY DEF Push!Failure
<1>7. Push(w)!Unharmed BY <1>3, <1>5, <1>6 DEF Push!Unharmed
<1> QED BY <1>4, <1>6, <1>7 DEF Push!Unharmed

\* At first nothing is claimed and every key has its one import.
LEMMA PushInit ==
    ASSUME NEW w \in {"gmail", "microsoft"}, PushAssumption, Push(w)!Init
    PROVE  PushInv(w)
<1>1. Push(w)!TypeOK
  BY DEF PushAssumption, Push!Init, Push!TypeOK, Push!Idle, Push!Change, Push!Key
<1>2. RequestsAreSound(w)
  BY DEF Push!Init, RequestsAreSound, PushSound, RequestState, Push!Idle
<1>3. Len(changes) = 0 /\ PushTold(w) = {} BY DEF Push!Init, PushTold
<1>4. ASSUME NEW k \in Push(w)!Key
      PROVE  allowance[k] >= Cardinality(Publishing(w, k)) + (IF k \in claimed THEN 0 ELSE 1)
  <2>1. Publishing(w, k) = {} BY DEF Push!Init, Push!Idle, Publishing, PublishesFor
  <2>2. Cardinality(Publishing(w, k)) = 0 BY <2>1, FS_EmptySet
  <2> QED BY <2>2 DEF Push!Init
<1>5. KeysAreCounted(w) BY <1>4 DEF KeysAreCounted
<1>6. KeysAreReal(w) /\ CoveredIsPast(w) /\ Push(w)!AcceptedIsQueued
  BY <1>3 DEF Push!Init, KeysAreReal, CoveredIsPast, Push!AcceptedIsQueued
<1>7. PushApart(w) /\ ClaimsAreHeeded(w) /\ RequestsAreHeeded(w)
  BY <1>3 DEF Push!Init, Push!Idle, PushApart, ClaimsAreHeeded, RequestsAreHeeded
<1> QED BY <1>1, <1>2, <1>5, <1>6, <1>7 DEF PushInv, PushHeeded

\* One request goes on: the others stay, and those that publish for a key are as many as before, but
\* for that one.
LEMMA PushRequestStep ==
    ASSUME NEW w, PushAssumption, PushInv(w), UNCHANGED changes, NEW r \in PushRequest
    PROVE  \A s \in RequestState(w) : PushSound(w, s) /\ request' = [request EXCEPT ![r] = s] =>
              /\ RequestsAreSound(w)'
              /\ request'[r] = s /\ \A o \in PushRequest : o # r => request'[o] = request[o]
              /\ \A k \in Push(w)!Key :
                    /\ Cardinality(Publishing(w, k)) \in Nat
                    /\ Cardinality(Publishing(w, k)') \in Nat
                    /\ (PublishesFor(w, k, request[r]) <=> PublishesFor(w, k, s)) =>
                          Cardinality(Publishing(w, k)') = Cardinality(Publishing(w, k))
                    /\ PublishesFor(w, k, request[r]) /\ ~PublishesFor(w, k, s) =>
                          Cardinality(Publishing(w, k)') + 1 = Cardinality(Publishing(w, k))
                    /\ ~PublishesFor(w, k, request[r]) /\ PublishesFor(w, k, s) =>
                          Cardinality(Publishing(w, k)') = Cardinality(Publishing(w, k)) + 1
<1> SUFFICES ASSUME NEW s \in RequestState(w), PushSound(w, s), request' = [request EXCEPT ![r] = s]
             PROVE  /\ RequestsAreSound(w)'
                    /\ request'[r] = s /\ \A o \in PushRequest : o # r => request'[o] = request[o]
                    /\ \A k \in Push(w)!Key :
                          /\ Cardinality(Publishing(w, k)) \in Nat
                          /\ Cardinality(Publishing(w, k)') \in Nat
                          /\ (PublishesFor(w, k, request[r]) <=> PublishesFor(w, k, s)) =>
                                Cardinality(Publishing(w, k)') = Cardinality(Publishing(w, k))
                          /\ PublishesFor(w, k, request[r]) /\ ~PublishesFor(w, k, s) =>
                                Cardinality(Publishing(w, k)') + 1 = Cardinality(Publishing(w, k))
                          /\ ~PublishesFor(w, k, request[r]) /\ PublishesFor(w, k, s) =>
                                Cardinality(Publishing(w, k)') = Cardinality(Publishing(w, k)) + 1
  OBVIOUS
<1>1. request \in [PushRequest -> RequestState(w)]
      /\ \A o \in PushRequest : PushSound(w, request[o])
  BY DEF PushInv, RequestsAreSound
<1>2. request' \in [PushRequest -> RequestState(w)] /\ request'[r] = s
      /\ \A o \in PushRequest : o # r => request'[o] = request[o]
  BY <1>1
<1>3. \A o \in PushRequest : PushSound(w, request[o])'
  <2> SUFFICES ASSUME NEW o \in PushRequest PROVE PushSound(w, request[o])' OBVIOUS
  <2>1. request'[o] \in {s, request[o]} BY <1>2
  <2>2. CASE request'[o] = s BY <2>2 DEF PushSound
  <2>3. CASE request'[o] = request[o] BY <1>1, <2>3 DEF PushSound
  <2> QED BY <2>1, <2>2, <2>3
<1>4. ASSUME NEW k \in Push(w)!Key
      PROVE  /\ Cardinality(Publishing(w, k)) \in Nat /\ Cardinality(Publishing(w, k)') \in Nat
             /\ (PublishesFor(w, k, request[r]) <=> PublishesFor(w, k, s)) =>
                   Cardinality(Publishing(w, k)') = Cardinality(Publishing(w, k))
             /\ PublishesFor(w, k, request[r]) /\ ~PublishesFor(w, k, s) =>
                   Cardinality(Publishing(w, k)') + 1 = Cardinality(Publishing(w, k))
             /\ ~PublishesFor(w, k, request[r]) /\ PublishesFor(w, k, s) =>
                   Cardinality(Publishing(w, k)') = Cardinality(Publishing(w, k)) + 1
  <2>1. IsFiniteSet(Publishing(w, k)) /\ IsFiniteSet(Publishing(w, k)')
    BY FS_Subset DEF PushAssumption, Publishing
  <2>2. Publishing(w, k)' \ {r} = Publishing(w, k) \ {r}
    BY <1>2 DEF Publishing, PublishesFor, Push!Identity
  <2>3. r \in Publishing(w, k) <=> PublishesFor(w, k, request[r]) BY DEF Publishing
  <2>4. r \in Publishing(w, k)' <=> PublishesFor(w, k, s)
    BY <1>2 DEF Publishing, PublishesFor, Push!Identity
  <2>5. Cardinality(Publishing(w, k)) \in Nat /\ Cardinality(Publishing(w, k)') \in Nat
    BY <2>1, FS_CardinalityType
  <2>6. (r \in Publishing(w, k)' <=> r \in Publishing(w, k)) =>
        Cardinality(Publishing(w, k)') = Cardinality(Publishing(w, k))
    BY <2>1, <2>2, OneMore
  <2>7. r \in Publishing(w, k)' /\ r \notin Publishing(w, k) =>
        Cardinality(Publishing(w, k)') = Cardinality(Publishing(w, k)) + 1
    BY <2>1, <2>2, OneMore
  <2>8. r \notin Publishing(w, k)' /\ r \in Publishing(w, k) =>
        Cardinality(Publishing(w, k)) = Cardinality(Publishing(w, k)') + 1
    BY <2>1, <2>2, OneMore
  <2> QED BY <2>3, <2>4, <2>5, <2>6, <2>7, <2>8
<1> QED BY <1>2, <1>3, <1>4 DEF RequestsAreSound

\* A step of a request that neither begins nor ends to publish.
LEMMA PushRequestSame ==
    ASSUME NEW w, PushAssumption, PushInv(w), UNCHANGED changes, NEW r \in PushRequest
    PROVE  \A s \in RequestState(w) :
              /\ PushSound(w, s) /\ request' = [request EXCEPT ![r] = s]
              /\ \A k \in Push(w)!Key : PublishesFor(w, k, request[r]) <=> PublishesFor(w, k, s)
              => /\ RequestsAreSound(w)'
                 /\ request'[r] = s /\ \A o \in PushRequest : o # r => request'[o] = request[o]
                 /\ \A k \in Push(w)!Key : Cardinality(Publishing(w,
                      k)') = Cardinality(Publishing(w, k))
<1> SUFFICES ASSUME NEW s \in RequestState(w), PushSound(w, s),
                    request' = [request EXCEPT ![r] = s],
                    \A k \in Push(w)!Key : PublishesFor(w, k, request[r]) <=> PublishesFor(w, k, s)
             PROVE  /\ RequestsAreSound(w)'
                    /\ request'[r] = s /\ \A o \in PushRequest : o # r => request'[o] = request[o]
                    /\ \A k \in Push(w)!Key : Cardinality(Publishing(w,
                         k)') = Cardinality(Publishing(w, k))
  OBVIOUS
<1>1. /\ RequestsAreSound(w)'
      /\ request'[r] = s /\ \A o \in PushRequest : o # r => request'[o] = request[o]
  BY PushRequestStep
<1>2. ASSUME NEW k \in Push(w)!Key
      PROVE  Cardinality(Publishing(w, k)') = Cardinality(Publishing(w, k))
  <2>1. PublishesFor(w, k, request[r]) <=> PublishesFor(w, k, s) OBVIOUS
  <2> QED BY <2>1, PushRequestStep
<1> QED BY <1>1, <1>2

\* What PushRequestStep says of the requests, ...
LEMMA PushRequestSound ==
    ASSUME NEW w, PushAssumption, PushInv(w), UNCHANGED changes, NEW r \in PushRequest
    PROVE  \A s \in RequestState(w) : PushSound(w, s) /\ request' = [request EXCEPT ![r] = s] =>
              /\ RequestsAreSound(w)'
              /\ request'[r] = s /\ \A o \in PushRequest : o # r => request'[o] = request[o]
BY PushRequestStep

\* ... and of those that publish for one key.
LEMMA PushRequestCount ==
    ASSUME NEW w, PushAssumption, PushInv(w), UNCHANGED changes, NEW r \in PushRequest,
           NEW k \in Push(w)!Key
    PROVE  \A s \in RequestState(w) : PushSound(w, s) /\ request' = [request EXCEPT ![r] = s] =>
              /\ Cardinality(Publishing(w, k)) \in Nat /\ Cardinality(Publishing(w, k)') \in Nat
              /\ (PublishesFor(w, k, request[r]) <=> PublishesFor(w, k, s)) =>
                    Cardinality(Publishing(w, k)') = Cardinality(Publishing(w, k))
              /\ PublishesFor(w, k, request[r]) /\ ~PublishesFor(w, k, s) =>
                    Cardinality(Publishing(w, k)') + 1 = Cardinality(Publishing(w, k))
              /\ ~PublishesFor(w, k, request[r]) /\ PublishesFor(w, k, s) =>
                    Cardinality(Publishing(w, k)') = Cardinality(Publishing(w, k)) + 1
BY PushRequestStep

\* A request that has ended is sound.
LEMMA PushIdleIsSound ==
    ASSUME NEW w
    PROVE  Push(w)!Idle \in RequestState(w) /\ PushSound(w, Push(w)!Idle)
BY DEF Push!Idle, RequestState, PushSound

\* A step that keeps the requests sound keeps their types.
LEMMA PushSoundIsTyped ==
    ASSUME NEW w \in {"gmail", "microsoft"}, PushAssumption, PushInv(w), UNCHANGED <<changes,
           admitted>>, RequestsAreSound(w)',
           unsent' \subseteq 1..Len(changes), accepted' \subseteq 1..Len(changes),
           claimed' \subseteq Push(w)!Key, allowance' \in [Push(w)!Key -> Int],
           covered' \in [PushAccount(w) -> 0..MaxChanges], unheeded' \subseteq Push(w)!Item,
             pushFailures' \in [Push(w)!Failure -> Nat]
    PROVE  Push(w)!TypeOK'
<1>1. request' \in [PushRequest -> RequestState(w)]
  BY DEF RequestsAreSound, RequestState, Push!Change, Push!Item
<1>2. \A r \in PushRequest :
          /\ request'[r].pc \in {"idle", "claim", "publish", "undo"}
          /\ request'[r].of \subseteq Push(w)!Change
          /\ request'[r].todo \subseteq Push(w)!Item /\ request'[r].at \subseteq Push(w)!Item
  BY <1>1 DEF RequestState
<1> QED BY <1>2 DEF PushInv, Push!TypeOK, Push!Change, Push!Item, Push!Key, Push!Failure

\* A step that touches neither requests nor keys keeps what is said of them.
LEMMA PushQuietStep ==
    ASSUME NEW w \in {"gmail", "microsoft"}, PushAssumption, PushInv(w), UNCHANGED <<changes,
           request, claimed, allowance>>
    PROVE  RequestsAreSound(w)' /\ KeysAreReal(w)' /\ KeysAreCounted(w)'
<1>1. RequestsAreSound(w)'
  BY DEF PushInv, RequestsAreSound, PushSound
<1>2. KeysAreReal(w)' BY DEF PushInv, KeysAreReal, PushTold, Push!Identity
<1>3. KeysAreCounted(w)' BY DEF PushInv, KeysAreCounted, Publishing, PublishesFor, Push!Identity
<1> QED BY <1>1, <1>2, <1>3

\* The counters of failures only grow.
LEMMA FailureCounted ==
    ASSUME NEW w \in {"gmail", "microsoft"}, Push(w)!TypeOK,
           pushFailures' = pushFailures \/ \E f \in Push(w)!Failure : Push(w)!Fails(f)
    PROVE  pushFailures' \in [Push(w)!Failure -> Nat]
<1>1. pushFailures \in [Push(w)!Failure -> Nat] BY DEF Push!TypeOK
<1>2. ASSUME NEW f \in Push(w)!Failure, Push(w)!Fails(f)
      PROVE  pushFailures' \in [Push(w)!Failure -> Nat]
  <2>1. pushFailures' = [pushFailures EXCEPT ![f] = @ + 1] BY <1>2 DEF Push!Fails
  <2>2. pushFailures[f] + 1 \in Nat BY <1>1
  <2> QED BY <1>1, <2>1, <2>2
<1> QED BY <1>1, <1>2

\* Whom a notification is for are accounts, and an item heeded stays so.
LEMMA HeededStays ==
    ASSUME NEW w \in {"gmail", "microsoft"}, UNCHANGED <<admitted, unheeded, covered>>
    PROVE  /\ Push(w)!Recipients' = Push(w)!Recipients
           /\ \A n, a : Push(w)!Heeded(n, a)' <=> Push(w)!Heeded(n, a)
BY DEF Push!Recipients, Push!Heeded

LEMMA RecipientsAreAccounts ==
    ASSUME NEW w \in {"gmail", "microsoft"}, PushInv(w)
    PROVE  Push(w)!Recipients \subseteq PushAccount(w)
BY DEF PushInv, Push!TypeOK, Push!Recipients

\* A mailbox changes: the change is new, and no key is its own yet.
LEMMA PushChangesStep ==
    ASSUME NEW w \in {"gmail", "microsoft"}, PushAssumption, PushInv(w), NEW m \in PushMessage(w),
           Push(w)!MailboxChanges(m)
    PROVE  PushInv(w)'
<1>1. /\ changes \in Seq(PushMessage(w)) /\ changes' = Append(changes, m)
      /\ changes' \in Seq(PushMessage(w))
      /\ Len(changes) \in Nat /\ Len(changes') = Len(changes) + 1 /\ Len(changes') <= MaxChanges
      /\ \A x \in 1..Len(changes) : changes'[x] = changes[x]
      /\ UNCHANGED <<accepted, admitted, unheeded, claimed, request, covered, allowance>>
      /\ UNCHANGED pushFailures
  BY DEF PushAssumption, PushInv, Push!TypeOK, Push!MailboxChanges
<1>2. Push(w)!TypeOK'
  <2>1. unsent' \subseteq 1..Len(changes') /\ accepted' \subseteq 1..Len(changes')
    <3>1. unsent' = unsent \cup {Len(changes) + 1} BY DEF Push!MailboxChanges
    <3>2. unsent \subseteq 1..Len(changes) /\ accepted \subseteq 1..Len(changes)
      BY DEF PushInv, Push!TypeOK
    <3>3. 1..Len(changes) \subseteq 1..Len(changes') /\ Len(changes) + 1 \in 1..Len(changes')
      BY <1>1
    <3> QED BY <1>1, <3>1, <3>2, <3>3
  <2> QED BY <1>1, <2>1 DEF PushInv, Push!TypeOK, Push!Key, Push!Change, Push!Item
<1>3. RequestsAreSound(w)' BY <1>1 DEF PushInv, RequestsAreSound, PushSound
<1>4. \A i \in PushTold(w) : i \in PushTold(w)' /\ Push(w)!Identity(i)' = Push(w)!Identity(i)
  BY <1>1 DEF PushTold, Push!Identity
<1>5. KeysAreReal(w)' BY <1>1, <1>4 DEF PushInv, KeysAreReal
<1>6. \A r \in PushRequest : \A i \in request[r].at : i \in PushTold(w)
  <2> SUFFICES ASSUME NEW r \in PushRequest, NEW i \in request[r].at PROVE i \in PushTold(w) OBVIOUS
  <2>1. PushSound(w, request[r]) /\ request[r] \in RequestState(w) BY DEF PushInv, RequestsAreSound
  <2>2. request[r].pc \in {"publish", "undo"} BY <2>1 DEF PushSound, RequestState
  <2> QED BY <2>1, <2>2 DEF PushSound, PushTold
<1>7. \A k : Publishing(w, k)' = Publishing(w, k)
  BY <1>1, <1>4, <1>6 DEF Publishing, PublishesFor
<1>8. KeysAreCounted(w)' BY <1>1, <1>7 DEF PushInv, KeysAreCounted, Push!Key, Push!Change
<1>9. CoveredIsPast(w)' BY <1>1 DEF PushInv, Push!TypeOK, CoveredIsPast
<1>10. ASSUME Push(w)!Unharmed' PROVE PushHeeded(w)'
  <2>1. Push(w)!Unharmed BY <1>1, <1>10, PushHarmStays DEF PushInv
  <2>2. PushApart(w) /\ ClaimsAreHeeded(w) /\ RequestsAreHeeded(w) BY <2>1 DEF PushInv, PushHeeded
  <2>3. PushApart(w)' BY <1>1, <2>2 DEF PushApart
  <2>4. RequestsAreHeeded(w)' BY <1>1, <2>2, HeededStays DEF RequestsAreHeeded
  <2>5. \A i \in PushTold(w)' : i \in PushTold(w) \/ Push(w)!Identity(i)' \notin claimed
    <3> SUFFICES ASSUME NEW i \in PushTold(w)', i \notin PushTold(w),
                        Push(w)!Identity(i)' \in claimed PROVE FALSE
      OBVIOUS
    <3>1. i[1] = Len(changes) + 1 /\ i[2] \in PushAccount(w) BY <1>1 DEF PushTold
    <3>2. PICK j \in PushTold(w) : Push(w)!Identity(i)' = Push(w)!Identity(j) BY
               DEF PushInv, KeysAreReal
    <3>3. j[1] \in 1..Len(changes) /\ j[2] \in PushAccount(w) BY DEF PushTold
    <3>4. j[1] # i[1] /\ changes'[j[1]] = changes[j[1]] BY <1>1, <3>1, <3>3
    <3>5. CASE w = "gmail" BY <3>2, <3>4, <3>5 DEF Push!Identity
    <3>6. CASE w = "microsoft"
      <4>1. changes'[i[1]] = changes'[j[1]] BY <3>2, <3>4, <3>6 DEF Push!Identity
      <4>2. i[1] \in DOMAIN changes' /\ j[1] \in DOMAIN changes' BY <1>1, <3>1, <3>3
      <4> QED BY <1>10, <3>4, <3>6, <4>1, <4>2 DEF Push!Unharmed
    <3> QED BY <3>5, <3>6 DEF PushAssumption
  <2>6. ClaimsAreHeeded(w)' BY <1>1, <1>4, <2>2, <2>5 DEF ClaimsAreHeeded
  <2> QED BY <2>3, <2>4, <2>6 DEF PushHeeded
<1>11. Push(w)!AcceptedIsQueued'
  <2>1. Push(w)!Unharmed' => Push(w)!Unharmed BY <1>1, PushHarmStays DEF PushInv
  <2> QED BY <1>1, <2>1, HeededStays DEF PushInv, Push!AcceptedIsQueued
<1> QED BY <1>2, <1>3, <1>5, <1>8, <1>9, <1>10, <1>11 DEF PushInv

\* An account is lost or comes back, its subscription gets its row or loses it: only the imports
\* it is owed change.
LEMMA PushAccountStep ==
    ASSUME NEW w \in {"gmail", "microsoft"}, PushAssumption, PushInv(w), NEW a \in PushAccount(w),
           Push(w)!AccountLost(a) \/ Push(w)!AccountBack(a) \/ Push(w)!RowCommitted(a)
    PROVE  PushInv(w)'
<1>1. /\ UNCHANGED <<changes, unsent, accepted, unheeded, claimed, request, allowance>>
      /\ pushFailures' = pushFailures \/ \E f \in Push(w)!Failure : Push(w)!Fails(f)
  BY DEF Push!AccountLost, Push!AccountBack, Push!RowCommitted, Push!Failure
<1>2. pushFailures' \in [Push(w)!Failure -> Nat] BY <1>1, FailureCounted DEF PushInv
<1>3. Len(changes) \in 0..MaxChanges /\ covered \in [PushAccount(w) -> 0..MaxChanges]
  BY DEF PushAssumption, PushInv, Push!TypeOK
<1>4. covered' = covered \/ covered' = [covered EXCEPT ![a] = Len(changes)]
  BY DEF Push!AccountLost, Push!AccountBack, Push!RowCommitted
<1>5. /\ covered' \in [PushAccount(w) -> 0..MaxChanges]
      /\ \A b \in PushAccount(w) : covered'[b] \in {covered[b], Len(changes)}
  BY <1>3, <1>4
<1>6. \A b \in PushAccount(w) : covered[b] \in 0..Len(changes)
  BY <1>3 DEF PushInv, CoveredIsPast
<1>7. admitted' \subseteq PushAccount(w)
      /\ Push(w)!Recipients' \subseteq PushAccount(w)
  BY DEF PushInv, Push!TypeOK, Push!AccountLost, Push!AccountBack, Push!RowCommitted,
         Push!Recipients
<1>8. Push(w)!TypeOK'
  BY <1>1, <1>2, <1>5, <1>7 DEF PushInv, Push!TypeOK, Push!Change, Push!Item, Push!Key
<1>9. RequestsAreSound(w)' /\ KeysAreReal(w)' /\ KeysAreCounted(w)' BY <1>1, PushQuietStep
<1>10. CoveredIsPast(w)' BY <1>1, <1>3, <1>5, <1>6 DEF CoveredIsPast
<1>11. ASSUME Push(w)!Unharmed'
       PROVE  /\ Push(w)!Unharmed
              /\ \A b \in Push(w)!Recipients' :
                    b \in Push(w)!Recipients \/ covered'[b] = Len(changes)
  <2>1. Push(w)!Unharmed /\ ~Push(w)!Fails("deferred")
    BY <1>1, <1>11, PushHarmStays DEF PushInv, Push!Failure
  <2>2. CASE Push(w)!AccountLost(a) BY <2>1, <2>2 DEF Push!AccountLost, Push!Recipients
  <2>3. CASE Push(w)!AccountBack(a)
    BY <1>3, <2>1, <2>3 DEF Push!AccountBack, Push!Recipients
  <2>4. CASE Push(w)!RowCommitted(a) BY <2>1, <2>4 DEF Push!RowCommitted, Push!Recipients
  <2> QED BY <2>1, <2>2, <2>3, <2>4
<1>12. ASSUME Push(w)!Unharmed' PROVE PushHeeded(w)'
  <2>1. PushApart(w) /\ ClaimsAreHeeded(w) /\ RequestsAreHeeded(w) BY <1>11, <1>12
        DEF PushInv, PushHeeded
  <2>2. PushApart(w)' BY <1>1, <2>1 DEF PushApart
  <2>3. ClaimsAreHeeded(w)'
    <3> SUFFICES ASSUME NEW i \in PushTold(w), Push(w)!Identity(i) \in claimed
                 PROVE  covered'[i[2]] >= i[1] \/ \E r \in PushRequest : i \in request[r].at
      BY <1>1 DEF ClaimsAreHeeded, PushTold, Push!Identity
    <3>1. i[1] \in 1..Len(changes) /\ i[2] \in PushAccount(w) BY DEF PushTold
    <3>2. covered'[i[2]] >= covered[i[2]] BY <1>3, <1>5, <1>6, <3>1
    <3> QED BY <1>3, <1>5, <1>6, <2>1, <3>1, <3>2 DEF ClaimsAreHeeded
  <2>4. RequestsAreHeeded(w)'
    <3> SUFFICES ASSUME NEW r \in PushRequest, NEW n \in request[r].of,
                        NEW b \in Push(w)!Recipients'
                 PROVE  Push(w)!Heeded(n, b)' \/ <<n, b>> \in request[r].todo \cup request[r].at
      BY <1>1 DEF RequestsAreHeeded
    <3>1. n \in 1..Len(changes) BY DEF PushInv, RequestsAreSound, PushSound
    <3>2. Push(w)!Heeded(n, b) => Push(w)!Heeded(n, b)'
      BY <1>1, <1>3, <1>5, <1>6, <1>7, <3>1 DEF Push!Heeded
    <3>3. CASE b \in Push(w)!Recipients BY <2>1, <3>2, <3>3 DEF RequestsAreHeeded
    <3>4. CASE covered'[b] = Len(changes) BY <1>3, <3>1, <3>4 DEF Push!Heeded
    <3> QED BY <1>11, <1>12, <3>3, <3>4
  <2> QED BY <2>2, <2>3, <2>4 DEF PushHeeded
<1>13. Push(w)!AcceptedIsQueued'
  <2> SUFFICES ASSUME Push(w)!Unharmed', NEW n \in accepted, NEW b \in Push(w)!Recipients'
               PROVE  Push(w)!Heeded(n, b)'
    BY <1>1 DEF Push!AcceptedIsQueued
  <2>1. n \in 1..Len(changes) BY DEF PushInv, Push!TypeOK
  <2>2. Push(w)!Heeded(n, b) => Push(w)!Heeded(n, b)'
    BY <1>1, <1>3, <1>5, <1>6, <1>7, <2>1 DEF Push!Heeded
  <2>3. CASE b \in Push(w)!Recipients BY <1>11, <2>2, <2>3 DEF PushInv, Push!AcceptedIsQueued
  <2>4. CASE covered'[b] = Len(changes) BY <1>3, <2>1, <2>4 DEF Push!Heeded
  <2> QED BY <1>11, <2>3, <2>4
<1> QED BY <1>8, <1>9, <1>10, <1>12, <1>13 DEF PushInv

\* A key expires: its item, if it was in hand, may be claimed again, and the key is owed an import.
LEMMA PushExpiryStep ==
    ASSUME NEW w \in {"gmail", "microsoft"}, PushAssumption, PushInv(w), NEW k \in claimed,
           Push(w)!KeyExpires(k)
    PROVE  PushInv(w)'
<1>1. /\ UNCHANGED <<changes, unsent, accepted, admitted, unheeded, request, covered, pushFailures>>
      /\ claimed' = claimed \ {k} /\ k \in Push(w)!Key
      /\ allowance \in [Push(w)!Key -> Int] /\ allowance' = [allowance EXCEPT ![k] = @ + 1]
  BY DEF PushInv, Push!TypeOK, Push!KeyExpires
<1>2. /\ allowance' \in [Push(w)!Key -> Int] /\ allowance'[k] = allowance[k] + 1
      /\ \A l \in Push(w)!Key : l # k => allowance'[l] = allowance[l]
  BY <1>1
<1>3. Push(w)!TypeOK'
  BY <1>1, <1>2 DEF PushInv, Push!TypeOK, Push!Change, Push!Item, Push!Key
<1>4. RequestsAreSound(w)' BY <1>1 DEF PushInv, RequestsAreSound, PushSound
<1>5. KeysAreReal(w)' BY <1>1 DEF PushInv, KeysAreReal, PushTold, Push!Identity
<1>6. \A l : Publishing(w, l)' = Publishing(w, l) BY <1>1
      DEF Publishing, PublishesFor, Push!Identity
<1>7. KeysAreCounted(w)'
  <2> SUFFICES ASSUME NEW l \in Push(w)!Key
               PROVE  allowance'[l] >= Cardinality(Publishing(w,
                      l)) + (IF l \in claimed' THEN 0 ELSE 1)
    BY <1>1, <1>6 DEF KeysAreCounted, Push!Key, Push!Change
  <2>1. allowance[l] >= Cardinality(Publishing(w, l)) + (IF l \in claimed THEN 0 ELSE 1)
    BY DEF PushInv, KeysAreCounted
  <2>2. Cardinality(Publishing(w, l)) \in Nat
    BY FS_Subset, FS_CardinalityType DEF PushAssumption, Publishing
  <2> QED BY <1>1, <1>2, <2>1, <2>2
<1>8. CoveredIsPast(w)' BY <1>1 DEF PushInv, CoveredIsPast
<1>9. Push(w)!Unharmed' => Push(w)!Unharmed BY <1>1 DEF Push!Unharmed
<1>10. Push(w)!Unharmed' => PushHeeded(w)'
  BY <1>1, <1>9, HeededStays
     DEF PushInv, PushHeeded, PushApart, ClaimsAreHeeded, RequestsAreHeeded, PushTold, Push!Identity
<1>11. Push(w)!AcceptedIsQueued' BY <1>1, <1>9, HeededStays DEF PushInv, Push!AcceptedIsQueued
<1> QED BY <1>3, <1>4, <1>5, <1>7, <1>8, <1>10, <1>11 DEF PushInv

\* A request is received, with the notifications it carries.
LEMMA PushReceiveStep ==
    ASSUME NEW w \in {"gmail", "microsoft"}, PushAssumption, PushInv(w), NEW r \in PushRequest,
           NEW ns \in SUBSET unsent, Push(w)!Receive(r, ns)
    PROVE  PushInv(w)'
<1> DEFINE s == [pc |-> "claim", of |-> ns, todo |-> ns \X Push(w)!Recipients, at |-> {}]
<1>1. /\ request[r].pc = "idle"
      /\ UNCHANGED <<changes, unsent, accepted, admitted, unheeded, claimed, covered, allowance>>
      /\ request' = [request EXCEPT ![r] = s]
      /\ pushFailures' = pushFailures \/ \E f \in Push(w)!Failure : Push(w)!Fails(f)
  BY DEF Push!Receive, Push!Failure
<1>2. ns \subseteq 1..Len(changes) /\ Push(w)!Recipients \subseteq PushAccount(w)
      /\ 1..Len(changes) \subseteq Push(w)!Change
  <2>1. Len(changes) \in 0..MaxChanges /\ MaxChanges \in Nat
    BY DEF PushAssumption, PushInv, Push!TypeOK
  <2>2. 1..Len(changes) \subseteq 1..MaxChanges BY <2>1
  <2> QED BY <2>2, RecipientsAreAccounts DEF PushInv, Push!TypeOK, Push!Change
<1>3. s \in RequestState(w) /\ PushSound(w, s) BY <1>2 DEF RequestState, PushSound, Push!Item
<1>4. \A k : ~PublishesFor(w, k, request[r]) /\ ~PublishesFor(w, k, s)
  BY <1>1 DEF PublishesFor
<1> HIDE DEF s
<1>5. /\ RequestsAreSound(w)'
      /\ request'[r] = s /\ \A o \in PushRequest : o # r => request'[o] = request[o]
      /\ \A k \in Push(w)!Key : Cardinality(Publishing(w, k)') = Cardinality(Publishing(w, k))
  <2>1. UNCHANGED changes /\ request' = [request EXCEPT ![r] = s] BY <1>1
  <2>2. \A k \in Push(w)!Key : PublishesFor(w, k, request[r]) <=> PublishesFor(w, k, s) BY <1>4
  <2> QED BY <1>3, <2>1, <2>2, PushRequestSame
<1>6. Push(w)!TypeOK'
  <2>1. pushFailures' \in [Push(w)!Failure -> Nat] BY <1>1, FailureCounted DEF PushInv
  <2> QED BY <1>1, <1>5, <2>1, PushSoundIsTyped DEF PushInv, Push!TypeOK
<1>7. KeysAreReal(w)' BY <1>1 DEF PushInv, KeysAreReal, PushTold, Push!Identity
<1>8. KeysAreCounted(w)' BY <1>1, <1>5 DEF PushInv, KeysAreCounted, Push!Key, Push!Change
<1>9. CoveredIsPast(w)' BY <1>1 DEF PushInv, CoveredIsPast
<1>10. Push(w)!Unharmed' => Push(w)!Unharmed /\ ~Push(w)!Fails("overlap")
  BY <1>1, PushHarmStays DEF PushInv, Push!Failure
<1>11. ASSUME Push(w)!Unharmed' PROVE PushHeeded(w)'
  <2>1. PushApart(w) /\ ClaimsAreHeeded(w) /\ RequestsAreHeeded(w) BY <1>10, <1>11
        DEF PushInv, PushHeeded
  <2>2. \A o \in PushRequest : request[o].of \cap ns = {} BY <1>10, <1>11 DEF Push!Receive
  <2>3. s.of = ns /\ s.todo = ns \X Push(w)!Recipients /\ request[r].at = {} /\ s.at = {}
    BY <1>1 DEF s, PushInv, RequestsAreSound, PushSound
  <2>4. PushApart(w)' BY <1>5, <2>1, <2>2, <2>3 DEF PushApart
  <2>5. ClaimsAreHeeded(w)'
    BY <1>1, <1>5, <2>1, <2>3 DEF ClaimsAreHeeded, PushTold, Push!Identity
  <2>6. RequestsAreHeeded(w)'
    <3> SUFFICES ASSUME NEW o \in PushRequest, NEW n \in request'[o].of,
                        NEW b \in Push(w)!Recipients
                 PROVE  Push(w)!Heeded(n, b)' \/ <<n, b>> \in request'[o].todo \cup request'[o].at
      BY <1>1, HeededStays DEF RequestsAreHeeded
    <3>1. CASE o = r BY <1>5, <2>3, <3>1
    <3>2. CASE o # r BY <1>1, <1>5, <2>1, <3>2, HeededStays DEF RequestsAreHeeded
    <3> QED BY <3>1, <3>2
  <2> QED BY <2>4, <2>5, <2>6 DEF PushHeeded
<1>12. Push(w)!AcceptedIsQueued' BY <1>1, <1>10, HeededStays DEF PushInv, Push!AcceptedIsQueued
<1> QED BY <1>5, <1>6, <1>7, <1>8, <1>9, <1>11, <1>12 DEF PushInv

\* What a request has to do, or in hand, is what it was told of.
LEMMA ItemsAreTold ==
    ASSUME NEW w \in {"gmail", "microsoft"}, PushAssumption, PushInv(w), NEW r \in PushRequest
    PROVE  /\ request[r].todo \cup request[r].at \subseteq request[r].of \X PushAccount(w)
           /\ request[r].of \X PushAccount(w) \subseteq PushTold(w)
           /\ request[r].pc \in {"idle", "claim"} => request[r].at = {}
           /\ request[r].pc \in {"publish", "undo"} => \E i \in PushTold(w) : request[r].at = {i}
<1>1. PushSound(w, request[r]) /\ request[r] \in RequestState(w) BY DEF PushInv, RequestsAreSound
<1> QED BY <1>1 DEF PushSound, RequestState, PushTold

\* A request ends without an answer.
LEMMA PushAbandonStep ==
    ASSUME NEW w \in {"gmail", "microsoft"}, PushAssumption, PushInv(w), NEW r \in PushRequest,
           Push(w)!GiveBackFails(r) \/ Push(w)!Crash(r)
    PROVE  PushInv(w)'
<1>1. /\ UNCHANGED <<changes, unsent, accepted, admitted, unheeded, claimed, covered, allowance>>
      /\ request' = [request EXCEPT ![r] = Push(w)!Idle]
      /\ Push(w)!Fails("undo") \/ Push(w)!Fails("crash")
  BY DEF Push!GiveBackFails, Push!Crash
<1>2. \E f \in Push(w)!Failure : Push(w)!Fails(f) BY <1>1 DEF Push!Failure
<1>3. \A k : ~PublishesFor(w, k, Push(w)!Idle) BY DEF PublishesFor, Push!Idle
<1>4. /\ RequestsAreSound(w)'
      /\ \A k \in Push(w)!Key :
            /\ Cardinality(Publishing(w, k)') \in Nat /\ Cardinality(Publishing(w, k)) \in Nat
            /\ Cardinality(Publishing(w, k)') <= Cardinality(Publishing(w, k))
  <2>1. RequestsAreSound(w)' BY <1>1, PushIdleIsSound, PushRequestStep
  <2>2. ASSUME NEW k \in Push(w)!Key
        PROVE  /\ Cardinality(Publishing(w, k)') \in Nat /\ Cardinality(Publishing(w, k)) \in Nat
               /\ Cardinality(Publishing(w, k)') <= Cardinality(Publishing(w, k))
    <3>1. ~PublishesFor(w, k, Push(w)!Idle) BY <1>3
    <3>2. Cardinality(Publishing(w, k)') \in Nat /\ Cardinality(Publishing(w, k)) \in Nat
      BY <1>1, PushIdleIsSound, PushRequestStep
    <3>3. CASE PublishesFor(w, k, request[r])
      <4>1. Cardinality(Publishing(w, k)') + 1 = Cardinality(Publishing(w, k))
        BY <1>1, <3>1, <3>3, PushIdleIsSound, PushRequestStep
      <4> QED BY <3>2, <4>1
    <3>4. CASE ~PublishesFor(w, k, request[r])
      <4>1. Cardinality(Publishing(w, k)') = Cardinality(Publishing(w, k))
        BY <1>1, <3>1, <3>4, PushIdleIsSound, PushRequestStep
      <4> QED BY <3>2, <4>1
    <3> QED BY <3>3, <3>4
  <2> QED BY <2>1, <2>2
<1>5. Push(w)!TypeOK'
  <2>1. pushFailures' \in [Push(w)!Failure -> Nat] BY <1>2, FailureCounted DEF PushInv
  <2> QED BY <1>1, <1>4, <2>1, PushSoundIsTyped DEF PushInv, Push!TypeOK
<1>6. KeysAreReal(w)' BY <1>1 DEF PushInv, KeysAreReal, PushTold, Push!Identity
<1>7. KeysAreCounted(w)'
  <2> SUFFICES ASSUME NEW k \in Push(w)!Key
               PROVE  allowance[k] >= Cardinality(Publishing(w,
                      k)') + (IF k \in claimed THEN 0 ELSE 1)
    BY <1>1 DEF KeysAreCounted, Push!Key, Push!Change
  <2>1. allowance[k] >= Cardinality(Publishing(w, k)) + (IF k \in claimed THEN 0 ELSE 1)
        /\ allowance[k] \in Int
    BY DEF PushInv, KeysAreCounted, Push!TypeOK
  <2> QED BY <1>4, <2>1
<1>8. CoveredIsPast(w)' BY <1>1 DEF PushInv, CoveredIsPast
<1>9. ~Push(w)!Unharmed' BY <1>1, <1>2, PushHarmStays DEF PushInv, Push!Failure
<1>10. Push(w)!AcceptedIsQueued' BY <1>9 DEF Push!AcceptedIsQueued
<1> QED BY <1>4, <1>5, <1>6, <1>7, <1>8, <1>9, <1>10 DEF PushInv

\* A request answers: all that it was told of is claimed or was covered.
LEMMA PushAnswerStep ==
    ASSUME NEW w \in {"gmail", "microsoft"}, PushAssumption, PushInv(w), NEW r \in PushRequest,
           Push(w)!Answer(r)
    PROVE  PushInv(w)'
<1>1. /\ UNCHANGED <<changes, admitted, unheeded, claimed, covered, allowance>>
      /\ request[r].pc = "claim" /\ request[r].todo = {}
      /\ request' = [request EXCEPT ![r] = Push(w)!Idle]
      /\ pushFailures' = pushFailures \/ \E f \in Push(w)!Failure : Push(w)!Fails(f)
      /\ accepted \subseteq accepted' /\ accepted' \subseteq accepted \cup request[r].of
      /\ unsent' \subseteq unsent
  BY DEF Push!Answer, Push!Failure
<1>2. \A k : ~PublishesFor(w, k, Push(w)!Idle) /\ ~PublishesFor(w, k, request[r])
  BY <1>1 DEF PublishesFor, Push!Idle
<1>3. /\ RequestsAreSound(w)'
      /\ request'[r] = Push(w)!Idle /\ \A o \in PushRequest : o # r => request'[o] = request[o]
      /\ \A k \in Push(w)!Key : Cardinality(Publishing(w, k)') = Cardinality(Publishing(w, k))
  <2> DEFINE s == Push(w)!Idle
  <2>1. s \in RequestState(w) /\ PushSound(w, s) BY PushIdleIsSound
  <2>2. UNCHANGED changes /\ request' = [request EXCEPT ![r] = s] BY <1>1
  <2>3. \A k \in Push(w)!Key : PublishesFor(w, k, request[r]) <=> PublishesFor(w, k, s) BY <1>2
  <2> HIDE DEF s
  <2>4. /\ RequestsAreSound(w)'
        /\ request'[r] = s /\ \A o \in PushRequest : o # r => request'[o] = request[o]
        /\ \A k \in Push(w)!Key : Cardinality(Publishing(w, k)') = Cardinality(Publishing(w, k))
    BY <2>1, <2>2, <2>3, PushRequestSame
  <2> QED BY <2>4 DEF s
<1>4. request[r].of \subseteq 1..Len(changes) /\ request[r].at = {}
  BY <1>1, ItemsAreTold DEF PushInv, RequestsAreSound, PushSound
<1>5. Push(w)!TypeOK'
  <2>1. pushFailures' \in [Push(w)!Failure -> Nat] BY <1>1, FailureCounted DEF PushInv
  <2>2. accepted' \subseteq 1..Len(changes) /\ unsent' \subseteq 1..Len(changes)
    BY <1>1, <1>4 DEF PushInv, Push!TypeOK
  <2> QED BY <1>1, <1>3, <2>1, <2>2, PushSoundIsTyped DEF PushInv, Push!TypeOK
<1>6. KeysAreReal(w)' BY <1>1 DEF PushInv, KeysAreReal, PushTold, Push!Identity
<1>7. KeysAreCounted(w)' BY <1>1, <1>3 DEF PushInv, KeysAreCounted, Push!Key, Push!Change
<1>8. CoveredIsPast(w)' BY <1>1 DEF PushInv, CoveredIsPast
<1>9. Push(w)!Unharmed' => Push(w)!Unharmed BY <1>1, PushHarmStays DEF PushInv
<1>10. ASSUME Push(w)!Unharmed' PROVE PushHeeded(w)'
  <2>1. PushApart(w) /\ ClaimsAreHeeded(w) /\ RequestsAreHeeded(w) BY <1>9, <1>10
        DEF PushInv, PushHeeded
  <2>2. Push(w)!Idle.of = {} BY DEF Push!Idle
  <2>3. PushApart(w)' BY <1>3, <2>1, <2>2 DEF PushApart
  <2>4. ClaimsAreHeeded(w)' BY <1>1, <1>3, <1>4, <2>1 DEF ClaimsAreHeeded, PushTold, Push!Identity
  <2>5. RequestsAreHeeded(w)'
    <3> SUFFICES ASSUME NEW o \in PushRequest, NEW n \in request'[o].of,
                        NEW b \in Push(w)!Recipients
                 PROVE  Push(w)!Heeded(n, b)' \/ <<n, b>> \in request'[o].todo \cup request'[o].at
      BY <1>1, HeededStays DEF RequestsAreHeeded
    <3>1. o # r BY <1>3, <2>2
    <3> QED BY <1>1, <1>3, <2>1, <3>1, HeededStays DEF RequestsAreHeeded
  <2> QED BY <2>3, <2>4, <2>5 DEF PushHeeded
<1>11. Push(w)!AcceptedIsQueued'
  <2> SUFFICES ASSUME Push(w)!Unharmed', NEW n \in accepted', NEW b \in Push(w)!Recipients
               PROVE  Push(w)!Heeded(n, b)'
    BY <1>1, HeededStays DEF Push!AcceptedIsQueued
  <2>1. RequestsAreHeeded(w) /\ Push(w)!AcceptedIsQueued BY <1>9 DEF PushInv, PushHeeded
  <2>2. CASE n \in accepted BY <1>1, <1>9, <2>1, <2>2, HeededStays DEF Push!AcceptedIsQueued
  <2>3. CASE n \in request[r].of
    BY <1>1, <1>4, <2>1, <2>3, HeededStays DEF RequestsAreHeeded
  <2> QED BY <1>1, <2>2, <2>3
<1> QED BY <1>3, <1>5, <1>6, <1>7, <1>8, <1>10, <1>11 DEF PushInv

\* An item is passed over because no row has its subscription, which is remembered.
LEMMA PushPassOverStep ==
    ASSUME NEW w \in {"gmail", "microsoft"}, PushAssumption, PushInv(w), NEW r \in PushRequest,
           Push(w)!PassOver(r)
    PROVE  PushInv(w)'
<1>1. /\ UNCHANGED <<changes, unsent, accepted, admitted, claimed, covered, allowance>>
      /\ UNCHANGED pushFailures
      /\ request[r].pc = "claim"
  BY DEF Push!PassOver
<1>2. /\ request \in [PushRequest -> RequestState(w)] /\ request[r] \in RequestState(w)
      /\ PushSound(w, request[r])
      /\ request[r].at = {} /\ request[r].todo \subseteq PushTold(w)
  BY <1>1, ItemsAreTold DEF PushInv, RequestsAreSound
<1>3. PICK i \in request[r].todo : /\ request' = [request EXCEPT ![r].todo = @ \ {i}]
                                   /\ unheeded' = unheeded \cup {i}
  BY DEF Push!PassOver, Push!Following
<1> DEFINE s == [request[r] EXCEPT !.todo = @ \ {i}]
<1>4. i \in PushTold(w) /\ i \in Push(w)!Item BY <1>2, IdentityIsKey DEF PushInv
<1>5. /\ s \in RequestState(w) /\ PushSound(w, s)
      /\ s.of = request[r].of /\ s.todo = request[r].todo \ {i} /\ s.at = {} /\ s.pc = "claim"
  <2>1. /\ s.of = request[r].of /\ s.todo = request[r].todo \ {i} /\ s.at = {} /\ s.pc = "claim"
        /\ s \in RequestState(w)
    BY <1>1, <1>2 DEF RequestState
  <2>2. PushSound(w, s) BY <1>2, <2>1 DEF PushSound
  <2> QED BY <2>1, <2>2
<1>6. request' = [request EXCEPT ![r] = s] BY <1>2, <1>3
<1>7. \A k : ~PublishesFor(w, k, request[r]) /\ ~PublishesFor(w, k, s)
  BY <1>1, <1>5 DEF PublishesFor
<1> HIDE DEF s
<1>8. /\ RequestsAreSound(w)' /\ request'[r] = s
      /\ \A o \in PushRequest : o # r => request'[o] = request[o]
      /\ \A k \in Push(w)!Key : Cardinality(Publishing(w, k)') = Cardinality(Publishing(w, k))
  <2>1. UNCHANGED changes /\ request' = [request EXCEPT ![r] = s] BY <1>1, <1>6
  <2>2. \A k \in Push(w)!Key : PublishesFor(w, k, request[r]) <=> PublishesFor(w, k, s) BY <1>7
  <2>3. s \in RequestState(w) /\ PushSound(w, s) BY <1>5
  <2> QED BY <2>1, <2>2, <2>3, PushRequestSame
<1>9. Push(w)!TypeOK'
  <2>1. unheeded' \subseteq Push(w)!Item BY <1>3, <1>4 DEF PushInv, Push!TypeOK
  <2> QED BY <1>1, <1>8, <2>1, PushSoundIsTyped DEF PushInv, Push!TypeOK
<1>10. KeysAreReal(w)' BY <1>1 DEF PushInv, KeysAreReal, PushTold, Push!Identity
<1>11. KeysAreCounted(w)' BY <1>1, <1>8 DEF PushInv, KeysAreCounted, Push!Key, Push!Change
<1>12. CoveredIsPast(w)' BY <1>1 DEF PushInv, CoveredIsPast
<1>13. Push(w)!Unharmed' => Push(w)!Unharmed BY <1>1 DEF Push!Unharmed
<1>14. /\ Push(w)!Recipients' = Push(w)!Recipients
       /\ \A n, a : Push(w)!Heeded(n, a) => Push(w)!Heeded(n, a)'
  BY <1>1, <1>3 DEF Push!Recipients, Push!Heeded
<1>15. ASSUME Push(w)!Unharmed' PROVE PushHeeded(w)'
  <2>1. PushApart(w) /\ ClaimsAreHeeded(w) /\ RequestsAreHeeded(w)
    BY <1>13, <1>15 DEF PushInv, PushHeeded
  <2>2. PushApart(w)' BY <1>5, <1>8, <2>1 DEF PushApart
  <2>3. ClaimsAreHeeded(w)'
    BY <1>1, <1>2, <1>5, <1>8, <2>1 DEF ClaimsAreHeeded, PushTold, Push!Identity
  <2>4. RequestsAreHeeded(w)'
    <3> SUFFICES ASSUME NEW o \in PushRequest, NEW n \in request'[o].of,
                        NEW b \in Push(w)!Recipients
                 PROVE  Push(w)!Heeded(n, b)' \/ <<n, b>> \in request'[o].todo \cup request'[o].at
      BY <1>14 DEF RequestsAreHeeded
    <3>1. CASE o # r BY <1>8, <1>14, <2>1, <3>1 DEF RequestsAreHeeded
    <3>2. CASE o = r
      <4>1. Push(w)!Heeded(n, b) \/ <<n, b>> \in request[r].todo
        BY <1>2, <1>5, <1>8, <2>1, <3>2 DEF RequestsAreHeeded
      <4>2. CASE <<n, b>> = i BY <1>3, <4>2 DEF Push!Heeded
      <4>3. CASE <<n, b>> # i BY <1>5, <1>8, <1>14, <3>2, <4>1, <4>3
      <4> QED BY <4>2, <4>3
    <3> QED BY <3>1, <3>2
  <2> QED BY <2>2, <2>3, <2>4 DEF PushHeeded
<1>16. Push(w)!AcceptedIsQueued' BY <1>1, <1>13, <1>14 DEF PushInv, Push!AcceptedIsQueued
<1> QED BY <1>8, <1>9, <1>10, <1>11, <1>12, <1>15, <1>16 DEF PushInv

\* A key is claimed: whoever finds it there has it covered, or in another request's hand.
LEMMA PushClaimStep ==
    ASSUME NEW w \in {"gmail", "microsoft"}, PushAssumption, PushInv(w), NEW r \in PushRequest,
           Push(w)!Claim(r) \/ Push(w)!ClaimUnavailable(r)
    PROVE  PushInv(w)'
<1>1. /\ UNCHANGED <<changes, unsent, accepted, admitted, unheeded, covered>>
      /\ request[r].pc = "claim"
      /\ pushFailures' = pushFailures \/ \E f \in Push(w)!Failure : Push(w)!Fails(f)
  BY DEF Push!Claim, Push!ClaimUnavailable, Push!Failure
<1>2. /\ request \in [PushRequest -> RequestState(w)] /\ request[r] \in RequestState(w)
      /\ PushSound(w, request[r])
      /\ request[r].at = {} /\ request[r].todo \subseteq PushTold(w)
      /\ request[r].todo \subseteq request[r].of \X PushAccount(w)
  BY <1>1, ItemsAreTold DEF PushInv, RequestsAreSound
<1>3. PICK i \in request[r].todo :
        \/ /\ Push(w)!Identity(i) \in claimed
           /\ request' = [request EXCEPT ![r].todo = @ \ {i}]
           /\ UNCHANGED <<claimed, allowance>>
        \/ /\ request' = [request EXCEPT ![r].todo = @ \ {i}, ![r].pc = "publish", ![r].at = {i}]
           /\ \/ /\ Push(w)!Identity(i) \notin claimed
                 /\ claimed' = claimed \cup {Push(w)!Identity(i)} /\ UNCHANGED allowance
              \/ /\ allowance' = [allowance EXCEPT ![Push(w)!Identity(i)] = @ + 1]
                 /\ UNCHANGED claimed
  BY DEF Push!Claim, Push!ClaimUnavailable, Push!Following
<1> DEFINE s == [request[r] EXCEPT !.todo = @ \ {i}]
           t == [request[r] EXCEPT !.todo = @ \ {i}, !.pc = "publish", !.at = {i}]
           key == Push(w)!Identity(i)
<1>4. i \in PushTold(w) /\ key \in Push(w)!Key /\ i \in Push(w)!Item
      /\ i \in request[r].of \X PushAccount(w)
  BY <1>2, IdentityIsKey DEF PushInv
<1>5. /\ s \in RequestState(w) /\ PushSound(w, s) /\ t \in RequestState(w) /\ PushSound(w, t)
      /\ s.of = request[r].of /\ s.todo = request[r].todo \ {i} /\ s.at = {}
      /\ t.of = request[r].of /\ t.todo = request[r].todo \ {i} /\ t.at = {i} /\ t.pc = "publish"
      /\ s.pc = "claim"
  <2>1. /\ s.of = request[r].of /\ s.todo = request[r].todo \ {i} /\ s.at = {} /\ s.pc = "claim"
        /\ t.of = request[r].of /\ t.todo = request[r].todo \ {i} /\ t.at = {i} /\ t.pc = "publish"
        /\ s \in RequestState(w) /\ t \in RequestState(w)
    BY <1>1, <1>2, <1>4 DEF RequestState
  <2>2. PushSound(w, s) BY <1>2, <2>1 DEF PushSound
  <2>3. PushSound(w, t) BY <1>2, <1>4, <2>1 DEF PushSound
  <2> QED BY <2>1, <2>2, <2>3
<1>6. \/ key \in claimed /\ request' = [request EXCEPT ![r] = s] /\ UNCHANGED <<claimed, allowance>>
      \/ /\ request' = [request EXCEPT ![r] = t]
         /\ \/ key \notin claimed /\ claimed' = claimed \cup {key} /\ UNCHANGED allowance
            \/ allowance' = [allowance EXCEPT ![key] = @ + 1] /\ UNCHANGED claimed
  BY <1>2, <1>3
<1>7. /\ \A k \in Push(w)!Key : ~PublishesFor(w, k, request[r]) /\ ~PublishesFor(w, k, s)
      /\ \A k \in Push(w)!Key : PublishesFor(w, k, t) <=> k = key
  BY <1>1, <1>5 DEF PublishesFor
<1> HIDE DEF s, t, key
<1>8. /\ RequestsAreSound(w)' /\ request'[r] \in {s, t}
      /\ \A o \in PushRequest : o # r => request'[o] = request[o]
  <2>0. s \in RequestState(w) /\ PushSound(w, s) /\ t \in RequestState(w) /\ PushSound(w, t)
        /\ UNCHANGED changes
    BY <1>1, <1>5
  <2>1. CASE request' = [request EXCEPT ![r] = s] BY <2>0, <2>1, PushRequestSound
  <2>2. CASE request' = [request EXCEPT ![r] = t] BY <2>0, <2>2, PushRequestSound
  <2> QED BY <1>6, <2>1, <2>2
<1>9. allowance \in [Push(w)!Key -> Int] /\ allowance' \in [Push(w)!Key -> Int]
      /\ claimed' \subseteq Push(w)!Key
  BY <1>4, <1>6 DEF PushInv, Push!TypeOK
<1>10. Push(w)!TypeOK'
  <2>1. pushFailures' \in [Push(w)!Failure -> Nat] BY <1>1, FailureCounted DEF PushInv
  <2> QED BY <1>1, <1>8, <1>9, <2>1, PushSoundIsTyped DEF PushInv, Push!TypeOK
<1>11. KeysAreReal(w)'
  BY <1>1, <1>4, <1>6 DEF PushInv, KeysAreReal, PushTold, Push!Identity, key
<1>12. KeysAreCounted(w)'
  <2> SUFFICES ASSUME NEW k \in Push(w)!Key
               PROVE  allowance'[k] >= Cardinality(Publishing(w,
                      k)') + (IF k \in claimed' THEN 0 ELSE 1)
    BY <1>1 DEF KeysAreCounted, Push!Key, Push!Change
  <2>1. allowance[k] >= Cardinality(Publishing(w, k)) + (IF k \in claimed THEN 0 ELSE 1)
        /\ allowance[k] \in Int
    BY <1>9 DEF PushInv, KeysAreCounted
  <2>2. Cardinality(Publishing(w, k)) \in Nat
    BY FS_Subset, FS_CardinalityType DEF PushAssumption, Publishing
  <2>3. CASE request' = [request EXCEPT ![r] = s] /\ UNCHANGED <<claimed, allowance>>
    <3>1. Cardinality(Publishing(w, k)') = Cardinality(Publishing(w, k))
      <4>1. ~PublishesFor(w, k, request[r]) /\ ~PublishesFor(w, k, s) BY <1>7
      <4>2. s \in RequestState(w) /\ PushSound(w, s) /\ request' = [request EXCEPT ![r] = s]
            /\ UNCHANGED changes
        BY <1>1, <1>5, <2>3
      <4> QED BY <4>1, <4>2, PushRequestCount
    <3> QED BY <2>1, <2>3, <3>1
  <2>4. CASE /\ request' = [request EXCEPT ![r] = t]
             /\ \/ key \notin claimed /\ claimed' = claimed \cup {key} /\ UNCHANGED allowance
                \/ allowance' = [allowance EXCEPT ![key] = @ + 1] /\ UNCHANGED claimed
    <3>1. CASE k = key
      <4>1. Cardinality(Publishing(w, k)') = Cardinality(Publishing(w, k)) + 1
        <5>1. ~PublishesFor(w, k, request[r]) /\ PublishesFor(w, k, t) BY <1>7, <3>1
        <5>2. t \in RequestState(w) /\ PushSound(w, t) /\ request' = [request EXCEPT ![r] = t]
              /\ UNCHANGED changes
          BY <1>1, <1>5, <2>4
        <5> QED BY <5>1, <5>2, PushRequestCount
      <4>2. CASE key \notin claimed /\ claimed' = claimed \cup {key} /\ UNCHANGED allowance
        BY <2>1, <2>2, <3>1, <4>1, <4>2
      <4>3. CASE allowance' = [allowance EXCEPT ![key] = @ + 1] /\ UNCHANGED claimed
        <5>1. allowance'[k] = allowance[k] + 1 BY <1>9, <3>1, <4>3
        <5> QED BY <2>1, <2>2, <4>1, <4>3, <5>1
      <4> QED BY <2>4, <4>2, <4>3
    <3>2. CASE k # key
      <4>1. Cardinality(Publishing(w, k)') = Cardinality(Publishing(w, k))
        <5>1. ~PublishesFor(w, k, request[r]) /\ ~PublishesFor(w, k, t) BY <1>7, <3>2
        <5>2. t \in RequestState(w) /\ PushSound(w, t) /\ request' = [request EXCEPT ![r] = t]
              /\ UNCHANGED changes
          BY <1>1, <1>5, <2>4
        <5> QED BY <5>1, <5>2, PushRequestCount
      <4>2. allowance'[k] = allowance[k] /\ (k \in claimed' <=> k \in claimed)
        BY <1>9, <2>4, <3>2
      <4> QED BY <2>1, <4>1, <4>2
    <3> QED BY <3>1, <3>2
  <2> QED BY <1>6, <2>3, <2>4
<1>13. CoveredIsPast(w)' BY <1>1 DEF PushInv, CoveredIsPast
<1>14. Push(w)!Unharmed' => Push(w)!Unharmed BY <1>1, PushHarmStays DEF PushInv
<1>15. ASSUME Push(w)!Unharmed' PROVE PushHeeded(w)'
  <2>1. PushApart(w) /\ ClaimsAreHeeded(w) /\ RequestsAreHeeded(w) BY <1>14, <1>15
        DEF PushInv, PushHeeded
  <2>2. /\ request'[r].of = request[r].of /\ request'[r].todo = request[r].todo \ {i}
        /\ request'[r].at \subseteq {i}
    BY <1>5, <1>8
  <2>3. PushApart(w)' BY <1>8, <2>1, <2>2 DEF PushApart
  <2>4. i \in request'[r].at \/ (key \in claimed /\ UNCHANGED claimed /\ request'[r] = s)
    BY <1>5, <1>6, <1>8, <1>2
  <2>5. ClaimsAreHeeded(w)'
    <3> SUFFICES ASSUME NEW j \in PushTold(w), Push(w)!Identity(j) \in claimed'
                 PROVE  covered[j[2]] >= j[1] \/ \E o \in PushRequest : j \in request'[o].at
      BY <1>1 DEF ClaimsAreHeeded, PushTold, Push!Identity
    <3>1. CASE Push(w)!Identity(j) \in claimed
      <4>1. covered[j[2]] >= j[1] \/ \E o \in PushRequest : j \in request[o].at
        BY <2>1, <3>1 DEF ClaimsAreHeeded
      <4> QED BY <1>2, <1>8, <4>1
    <3>2. CASE Push(w)!Identity(j) \notin claimed
      <4>1. Push(w)!Identity(j) = key /\ key \notin claimed BY <1>6, <3>2
      <4>2. i \in request'[r].at BY <2>4, <4>1
      <4>3. j = i
        <5>1. i = <<i[1], i[2]>> /\ j = <<j[1], j[2]>> /\ i[1] \in 1..Len(changes)
              /\ j[1] \in 1..Len(changes)
          BY <1>4 DEF PushTold
        <5>2. CASE w = "gmail" BY <4>1, <5>1, <5>2 DEF Push!Identity, key
        <5>3. CASE w = "microsoft"
          <6>1. j[2] = i[2] /\ changes[j[1]] = changes[i[1]] BY <4>1, <5>1, <5>3
                DEF Push!Identity, key
          <6>2. changes \in Seq(PushMessage(w)) BY DEF PushInv, Push!TypeOK
          <6>3. j[1] = i[1] BY <1>14, <1>15, <5>1, <5>3, <6>1, <6>2 DEF Push!Unharmed
          <6> QED BY <5>1, <6>1, <6>3
        <5> QED BY <5>2, <5>3 DEF PushAssumption
      <4> QED BY <4>2, <4>3
    <3> QED BY <3>1, <3>2
  <2>6. RequestsAreHeeded(w)'
    <3> SUFFICES ASSUME NEW o \in PushRequest, NEW n \in request'[o].of,
                        NEW b \in Push(w)!Recipients
                 PROVE  Push(w)!Heeded(n, b)' \/ <<n, b>> \in request'[o].todo \cup request'[o].at
      BY <1>1, HeededStays DEF RequestsAreHeeded
    <3>1. CASE o # r BY <1>1, <1>8, <2>1, <3>1, HeededStays DEF RequestsAreHeeded
    <3>2. CASE o = r
      <4>1. Push(w)!Heeded(n, b)' \/ <<n, b>> \in request[r].todo
        BY <1>1, <1>2, <2>1, <2>2, <3>2, HeededStays DEF RequestsAreHeeded
      <4>2. CASE <<n, b>> # i BY <2>2, <3>2, <4>1, <4>2
      <4>3. CASE <<n, b>> = i /\ i \in request'[r].at BY <3>2, <4>3
      <4>4. CASE <<n, b>> = i /\ key \in claimed
        <5>1. covered[b] >= n \/ \E p \in PushRequest : i \in request[p].at
          BY <1>4, <2>1, <4>4 DEF ClaimsAreHeeded, key
        <5>2. ASSUME NEW p \in PushRequest, i \in request[p].at PROVE FALSE
          <6>1. p # r BY <1>2, <5>2
          <6>2. n \in request[p].of BY <4>4, <5>2, ItemsAreTold
          <6>3. n \in request[r].of BY <2>2, <3>2
          <6> QED BY <2>1, <6>1, <6>2, <6>3 DEF PushApart
        <5> QED BY <1>1, <5>1, <5>2 DEF Push!Heeded
      <4> QED BY <2>4, <4>2, <4>3, <4>4
    <3> QED BY <3>1, <3>2
  <2> QED BY <2>3, <2>5, <2>6 DEF PushHeeded
<1>16. Push(w)!AcceptedIsQueued' BY <1>1, <1>14, HeededStays DEF PushInv, Push!AcceptedIsQueued
<1> QED BY <1>8, <1>10, <1>11, <1>12, <1>13, <1>15, <1>16 DEF PushInv

\* An import is queued, which covers every change so far of its account, or it is not.
LEMMA PushPublishStep ==
    ASSUME NEW w \in {"gmail", "microsoft"}, PushAssumption, PushInv(w), NEW r \in PushRequest,
           Push(w)!Publish(r) \/ Push(w)!PublishFails(r)
    PROVE  PushInv(w)'
<1>1. /\ UNCHANGED <<changes, unsent, accepted, admitted, unheeded, claimed>>
      /\ request[r].pc = "publish"
      /\ pushFailures' = pushFailures \/ \E f \in Push(w)!Failure : Push(w)!Fails(f)
  BY DEF Push!Publish, Push!PublishFails, Push!Failure
<1>2. PICK i \in PushTold(w) : request[r].at = {i} BY <1>1, ItemsAreTold
<1> DEFINE key == Push(w)!Identity(i)
           back == [request[r] EXCEPT !.pc = "claim", !.at = {}]
           undo == [request[r] EXCEPT !.pc = "undo"]
           Queueing == /\ covered' = [covered EXCEPT ![i[2]] = Len(changes)]
                       /\ allowance' = [allowance EXCEPT ![key] = @ - 1]
<1>3. /\ request \in [PushRequest -> RequestState(w)] /\ request[r] \in RequestState(w)
      /\ PushSound(w, request[r])
      /\ key \in Push(w)!Key /\ i[1] \in 1..Len(changes) /\ i[2] \in PushAccount(w)
      /\ i = <<i[1], i[2]>>
      /\ Len(changes) \in 0..MaxChanges
  <2>1. request \in [PushRequest -> RequestState(w)] /\ PushSound(w, request[r])
    BY DEF PushInv, RequestsAreSound
  <2>2. key \in Push(w)!Key BY <1>2, IdentityIsKey DEF PushInv
  <2>3. i[1] \in 1..Len(changes) /\ i[2] \in PushAccount(w) /\ i = <<i[1], i[2]>> BY <1>2
        DEF PushTold
  <2>4. changes \in Seq(PushMessage(w)) /\ Len(changes) <= MaxChanges BY DEF PushInv, Push!TypeOK
  <2>5. Len(changes) \in 0..MaxChanges BY <2>4 DEF PushAssumption
  <2> QED BY <2>1, <2>2, <2>3, <2>5
<1>4. \/ /\ request' = [request EXCEPT ![r] = back] /\ Queueing /\ UNCHANGED pushFailures
      \/ /\ w = "gmail" /\ request' = [request EXCEPT ![r] = undo]
         /\ Queueing \/ UNCHANGED <<covered, allowance>>
      \/ /\ w = "microsoft" /\ request' = [request EXCEPT ![r] = Push(w)!Idle]
              /\ Push(w)!Fails("publish")
         /\ Queueing \/ UNCHANGED <<covered, allowance>>
  <2>1. CASE Push(w)!Publish(r) BY <1>2, <1>3, <2>1 DEF Push!Publish, Push!Queued
  <2>2. CASE Push(w)!PublishFails(r)
    <3>1. Queueing \/ UNCHANGED <<covered, allowance>>
      BY <1>2, <2>2 DEF Push!PublishFails, Push!Queued
    <3>2. Push(w)!Fails("publish") BY <2>2 DEF Push!PublishFails
    <3>3. \/ w = "gmail" /\ request' = [request EXCEPT ![r] = undo]
          \/ w = "microsoft" /\ request' = [request EXCEPT ![r] = Push(w)!Idle]
      BY <1>3, <2>2 DEF Push!PublishFails, PushAssumption
    <3> QED BY <3>1, <3>2, <3>3
  <2> QED BY <2>1, <2>2
<1>5. /\ back \in RequestState(w) /\ PushSound(w, back) /\ undo \in RequestState(w)
      /\ PushSound(w, undo)
      /\ back.of = request[r].of /\ back.todo = request[r].todo /\ back.at = {} /\ back.pc = "claim"
      /\ undo.of = request[r].of /\ undo.todo = request[r].todo /\ undo.at = {i} /\ undo.pc = "undo"
  <2>1. /\ back.of = request[r].of /\ back.todo = request[r].todo /\ back.at = {}
        /\ back.pc = "claim"
        /\ undo.of = request[r].of /\ undo.todo = request[r].todo /\ undo.at = {i}
        /\ undo.pc = "undo"
        /\ back \in RequestState(w) /\ undo \in RequestState(w)
    BY <1>2, <1>3 DEF RequestState
  <2>2. PushSound(w, back) BY <1>3, <2>1 DEF PushSound
  <2>3. PushSound(w, undo) BY <1>1, <1>2, <1>3, <2>1 DEF PushSound
  <2> QED BY <2>1, <2>2, <2>3
<1>6. \A k \in Push(w)!Key : /\ PublishesFor(w, k, request[r]) <=> k = key
                             /\ ~PublishesFor(w, k, back) /\ ~PublishesFor(w, k, undo)
                             /\ ~PublishesFor(w, k, Push(w)!Idle)
  BY <1>1, <1>2, <1>5 DEF PublishesFor, Push!Idle
<1> HIDE DEF key, back, undo
<1>7. PICK u \in {"back", "undo", "idle"} : request' = [request EXCEPT ![r] =
            IF u = "back" THEN back ELSE IF u = "undo" THEN undo ELSE Push(w)!Idle]
  BY <1>4
<1> DEFINE s == IF u = "back" THEN back ELSE IF u = "undo" THEN undo ELSE Push(w)!Idle
<1>8. s \in RequestState(w) /\ PushSound(w, s)
      /\ s \in {back, undo, Push(w)!Idle} BY <1>5, PushIdleIsSound
<1>9. request' = [request EXCEPT ![r] = s] BY <1>7
<1> HIDE DEF s
<1>10. /\ RequestsAreSound(w)' /\ request'[r] = s
       /\ \A o \in PushRequest : o # r => request'[o] = request[o]
  BY <1>1, <1>8, <1>9, PushRequestStep
<1>11. ASSUME NEW k \in Push(w)!Key
       PROVE  /\ Cardinality(Publishing(w, k)) \in Nat /\ Cardinality(Publishing(w, k)') \in Nat
              /\ k # key => Cardinality(Publishing(w, k)') = Cardinality(Publishing(w, k))
              /\ k = key => Cardinality(Publishing(w, k)') + 1 = Cardinality(Publishing(w, k))
  <2>1. UNCHANGED changes BY <1>1
  <2>2. ~PublishesFor(w, k, s) /\ (PublishesFor(w, k, request[r]) <=> k = key) BY <1>6, <1>8
  <2>3. Cardinality(Publishing(w, k)) \in Nat /\ Cardinality(Publishing(w, k)') \in Nat
    BY <1>8, <1>9, <2>1, PushRequestStep
  <2>4. CASE k = key
    <3>1. PublishesFor(w, k, request[r]) /\ ~PublishesFor(w, k, s) BY <2>2, <2>4
    <3>2. Cardinality(Publishing(w, k)') + 1 = Cardinality(Publishing(w, k))
      BY <1>8, <1>9, <2>1, <3>1, PushRequestStep
    <3> QED BY <2>3, <2>4, <3>2
  <2>5. CASE k # key
    <3>1. ~PublishesFor(w, k, request[r]) /\ ~PublishesFor(w, k, s) BY <2>2, <2>5
    <3>2. Cardinality(Publishing(w, k)') = Cardinality(Publishing(w, k))
      BY <1>8, <1>9, <2>1, <3>1, PushRequestStep
    <3> QED BY <2>3, <2>5, <3>2
  <2> QED BY <2>4, <2>5
<1>12. /\ allowance \in [Push(w)!Key -> Int] /\ allowance' \in [Push(w)!Key -> Int]
       /\ \A k \in Push(w)!Key : k # key => allowance'[k] = allowance[k]
       /\ allowance'[key] = allowance[key] \/ allowance'[key] = allowance[key] - 1
  <2>1. allowance \in [Push(w)!Key -> Int] BY DEF PushInv, Push!TypeOK
  <2> QED BY <1>3, <1>4, <2>1
<1>13. /\ covered \in [PushAccount(w) -> 0..MaxChanges]
       /\ covered' \in [PushAccount(w) -> 0..MaxChanges]
       /\ \A b \in PushAccount(w) : covered[b] \in 0..Len(changes)
            /\ covered'[b] \in {covered[b], Len(changes)}
  <2>1. covered \in [PushAccount(w) -> 0..MaxChanges]
        /\ \A b \in PushAccount(w) : covered[b] <= Len(changes)
    BY DEF PushInv, Push!TypeOK, CoveredIsPast
  <2> QED BY <1>3, <1>4, <2>1
<1>14. Push(w)!TypeOK'
  <2>1. pushFailures' \in [Push(w)!Failure -> Nat] BY <1>1, FailureCounted DEF PushInv
  <2> QED BY <1>1, <1>10, <1>12, <1>13, <2>1, PushSoundIsTyped DEF PushInv, Push!TypeOK
<1>15. KeysAreReal(w)' BY <1>1 DEF PushInv, KeysAreReal, PushTold, Push!Identity
<1>16. KeysAreCounted(w)'
  <2> SUFFICES ASSUME NEW k \in Push(w)!Key
               PROVE  allowance'[k] >= Cardinality(Publishing(w,
                      k)') + (IF k \in claimed THEN 0 ELSE 1)
    BY <1>1 DEF KeysAreCounted, Push!Key, Push!Change
  <2>1. allowance[k] >= Cardinality(Publishing(w, k)) + (IF k \in claimed THEN 0 ELSE 1)
        /\ allowance[k] \in Int
    BY <1>12 DEF PushInv, KeysAreCounted
  <2>2. CASE k = key
    <3>1. allowance'[k] = allowance[k] \/ allowance'[k] = allowance[k] - 1 BY <1>12, <2>2
    <3>2. /\ Cardinality(Publishing(w, k)) \in Nat /\ Cardinality(Publishing(w, k)') \in Nat
          /\ Cardinality(Publishing(w, k)') + 1 = Cardinality(Publishing(w, k))
      BY <1>11, <2>2
    <3> QED BY <2>1, <3>1, <3>2
  <2>3. CASE k # key
    <3>1. allowance'[k] = allowance[k]
          /\ Cardinality(Publishing(w, k)') = Cardinality(Publishing(w, k))
      BY <1>11, <1>12, <2>3
    <3> QED BY <2>1, <3>1
  <2> QED BY <2>2, <2>3
<1>17. CoveredIsPast(w)' BY <1>1, <1>3, <1>13 DEF CoveredIsPast
<1>18. ASSUME Push(w)!Unharmed'
       PROVE  /\ Push(w)!Unharmed
              /\ \/ request'[r] = back /\ covered'[i[2]] = Len(changes)
                 \/ request'[r] = undo
  <2>1. Push(w)!Unharmed /\ (Push(w)!Fails("publish") => w # "microsoft")
    BY <1>1, <1>18, PushHarmStays DEF PushInv, Push!Failure
  <2>2. ~(w = "microsoft" /\ Push(w)!Fails("publish")) BY <2>1
  <2>3. \/ request' = [request EXCEPT ![r] = back] /\ covered'[i[2]] = Len(changes)
        \/ request' = [request EXCEPT ![r] = undo]
    BY <1>3, <1>4, <1>13, <2>2
  <2> QED BY <1>3, <2>1, <2>3
<1>19. ASSUME Push(w)!Unharmed' PROVE PushHeeded(w)'
  <2>1. PushApart(w) /\ ClaimsAreHeeded(w) /\ RequestsAreHeeded(w) BY <1>18, <1>19
        DEF PushInv, PushHeeded
  <2>2. /\ request'[r].of = request[r].of /\ request'[r].todo = request[r].todo
        /\ i \in request'[r].at \/ covered'[i[2]] >= i[1]
    BY <1>3, <1>5, <1>18, <1>19
  <2>3. PushApart(w)' BY <1>10, <2>1, <2>2 DEF PushApart
  <2>4. \A b \in PushAccount(w), n \in 1..Len(changes) : covered[b] >= n => covered'[b] >= n
    BY <1>3, <1>13
  <2>5. ClaimsAreHeeded(w)'
    <3> SUFFICES ASSUME NEW j \in PushTold(w), Push(w)!Identity(j) \in claimed
                 PROVE  covered'[j[2]] >= j[1] \/ \E o \in PushRequest : j \in request'[o].at
      BY <1>1 DEF ClaimsAreHeeded, PushTold, Push!Identity
    <3>1. j[1] \in 1..Len(changes) /\ j[2] \in PushAccount(w) BY DEF PushTold
    <3>2. covered[j[2]] >= j[1] \/ \E o \in PushRequest : j \in request[o].at BY <2>1
          DEF ClaimsAreHeeded
    <3>3. CASE covered[j[2]] >= j[1] BY <2>4, <3>1, <3>3
    <3>4. ASSUME NEW o \in PushRequest, j \in request[o].at
          PROVE  covered'[j[2]] >= j[1] \/ \E p \in PushRequest : j \in request'[p].at
      <4>1. CASE o = r BY <1>2, <2>2, <3>4, <4>1
      <4>2. CASE o # r BY <1>10, <3>4, <4>2
      <4> QED BY <4>1, <4>2
    <3> QED BY <3>2, <3>3, <3>4
  <2>6. RequestsAreHeeded(w)'
    <3> SUFFICES ASSUME NEW o \in PushRequest, NEW n \in request'[o].of,
                        NEW b \in Push(w)!Recipients
                 PROVE  Push(w)!Heeded(n, b)' \/ <<n, b>> \in request'[o].todo \cup request'[o].at
      BY <1>1 DEF RequestsAreHeeded, Push!Recipients
    <3>1. n \in 1..Len(changes) BY <1>1, <1>10 DEF RequestsAreSound, PushSound
    <3>2. b \in PushAccount(w) /\ (Push(w)!Heeded(n, b) => Push(w)!Heeded(n, b)')
      BY <1>1, <2>4, <3>1, RecipientsAreAccounts DEF Push!Heeded
    <3>3. CASE o # r
      <4>1. Push(w)!Heeded(n, b) \/ <<n, b>> \in request[o].todo \cup request[o].at
        BY <1>10, <2>1, <3>3 DEF RequestsAreHeeded
      <4> QED BY <1>10, <3>2, <3>3, <4>1
    <3>4. CASE o = r
      <4>1. Push(w)!Heeded(n, b) \/ <<n, b>> \in request[r].todo \/ <<n, b>> = i
        BY <1>2, <2>1, <2>2, <3>4 DEF RequestsAreHeeded
      <4>2. CASE <<n, b>> = i BY <2>2, <3>4, <4>2 DEF Push!Heeded
      <4>3. CASE Push(w)!Heeded(n, b) BY <3>2, <4>3
      <4>4. CASE <<n, b>> \in request[r].todo BY <2>2, <3>4, <4>4
      <4> QED BY <4>1, <4>2, <4>3, <4>4
    <3> QED BY <3>3, <3>4
  <2> QED BY <2>3, <2>5, <2>6 DEF PushHeeded
<1>20. Push(w)!AcceptedIsQueued'
  <2> SUFFICES ASSUME Push(w)!Unharmed', NEW n \in accepted, NEW b \in Push(w)!Recipients
               PROVE  Push(w)!Heeded(n, b)'
    BY <1>1 DEF Push!AcceptedIsQueued, Push!Recipients
  <2>1. n \in 1..Len(changes) /\ b \in PushAccount(w)
    BY RecipientsAreAccounts DEF PushInv, Push!TypeOK
  <2>2. Push(w)!Heeded(n, b) BY <1>18 DEF PushInv, Push!AcceptedIsQueued
  <2> QED BY <1>1, <1>3, <1>13, <2>1, <2>2 DEF Push!Heeded
<1> QED BY <1>10, <1>14, <1>15, <1>16, <1>17, <1>19, <1>20 DEF PushInv

\* The key is given back, and with it one more import.
LEMMA PushGiveBackStep ==
    ASSUME NEW w \in {"gmail", "microsoft"}, PushAssumption, PushInv(w), NEW r \in PushRequest,
           Push(w)!GiveBack(r)
    PROVE  PushInv(w)'
<1>1. /\ UNCHANGED <<changes, unsent, accepted, admitted, unheeded, covered, pushFailures>>
      /\ request[r].pc = "undo" /\ request' = [request EXCEPT ![r] = Push(w)!Idle]
  BY DEF Push!GiveBack
<1>2. PICK i \in PushTold(w) : request[r].at = {i} BY <1>1, ItemsAreTold
<1> DEFINE key == Push(w)!Identity(i)
<1>3. key \in Push(w)!Key /\ claimed' = claimed \ {key}
  BY <1>2, IdentityIsKey DEF PushInv, Push!GiveBack
<1>4. /\ allowance \in [Push(w)!Key -> Int] /\ allowance' \in [Push(w)!Key -> Int]
      /\ \A k \in Push(w)!Key : allowance'[k] = IF k = key THEN allowance[k] + 1 ELSE allowance[k]
  <2>1. allowance \in [Push(w)!Key -> Int] BY DEF PushInv, Push!TypeOK
  <2>2. allowance' = [k \in Push(w)!Key |-> IF \E j \in request[r].at : Push(w)!Identity(j) = k
                                          THEN allowance[k] + 1 ELSE allowance[k]]
    BY DEF Push!GiveBack
  <2>3. \A k \in Push(w)!Key : (\E j \in request[r].at : Push(w)!Identity(j) = k) <=> k =
        key BY <1>2
  <2> QED BY <2>1, <2>2, <2>3
<1>5. \A k \in Push(w)!Key : ~PublishesFor(w, k, request[r]) /\ ~PublishesFor(w, k, Push(w)!Idle)
  BY <1>1 DEF PublishesFor, Push!Idle
<1> HIDE DEF key
<1>6. /\ RequestsAreSound(w)' /\ request'[r] = Push(w)!Idle
      /\ \A o \in PushRequest : o # r => request'[o] = request[o]
      /\ \A k \in Push(w)!Key : Cardinality(Publishing(w, k)') = Cardinality(Publishing(w, k))
  <2> DEFINE s == Push(w)!Idle
  <2>1. s \in RequestState(w) /\ PushSound(w, s) BY PushIdleIsSound
  <2>2. UNCHANGED changes /\ request' = [request EXCEPT ![r] = s] BY <1>1
  <2>3. \A k \in Push(w)!Key : PublishesFor(w, k, request[r]) <=> PublishesFor(w, k, s) BY <1>5
  <2> HIDE DEF s
  <2>4. /\ RequestsAreSound(w)'
        /\ request'[r] = s /\ \A o \in PushRequest : o # r => request'[o] = request[o]
        /\ \A k \in Push(w)!Key : Cardinality(Publishing(w, k)') = Cardinality(Publishing(w, k))
    BY <2>1, <2>2, <2>3, PushRequestSame
  <2> QED BY <2>4 DEF s
<1>7. Push(w)!TypeOK'
  BY <1>1, <1>3, <1>4, <1>6, PushSoundIsTyped DEF PushInv, Push!TypeOK
<1>8. KeysAreReal(w)' BY <1>1, <1>3 DEF PushInv, KeysAreReal, PushTold, Push!Identity
<1>9. KeysAreCounted(w)'
  <2> SUFFICES ASSUME NEW k \in Push(w)!Key
               PROVE  allowance'[k] >= Cardinality(Publishing(w,
                      k)) + (IF k \in claimed' THEN 0 ELSE 1)
    BY <1>1, <1>6 DEF KeysAreCounted, Push!Key, Push!Change
  <2>1. allowance[k] >= Cardinality(Publishing(w, k)) + (IF k \in claimed THEN 0 ELSE 1)
        /\ allowance[k] \in Int
    BY <1>4 DEF PushInv, KeysAreCounted
  <2>2. Cardinality(Publishing(w, k)) \in Nat
    BY FS_Subset, FS_CardinalityType DEF PushAssumption, Publishing
  <2> QED BY <1>3, <1>4, <2>1, <2>2
<1>10. CoveredIsPast(w)' BY <1>1 DEF PushInv, CoveredIsPast
<1>11. Push(w)!Unharmed' => Push(w)!Unharmed BY <1>1 DEF Push!Unharmed
<1>12. ASSUME Push(w)!Unharmed' PROVE PushHeeded(w)'
  <2>1. PushApart(w) /\ ClaimsAreHeeded(w) /\ RequestsAreHeeded(w) BY <1>11, <1>12
        DEF PushInv, PushHeeded
  <2>2. Push(w)!Idle.of = {} BY DEF Push!Idle
  <2>3. PushApart(w)' BY <1>6, <2>1, <2>2 DEF PushApart
  <2>4. ClaimsAreHeeded(w)'
    <3> SUFFICES ASSUME NEW j \in PushTold(w), Push(w)!Identity(j) \in claimed'
                 PROVE  covered[j[2]] >= j[1] \/ \E o \in PushRequest : j \in request'[o].at
      BY <1>1 DEF ClaimsAreHeeded, PushTold, Push!Identity
    <3>1. Push(w)!Identity(j) \in claimed /\ j # i BY <1>3 DEF key
    <3>2. covered[j[2]] >= j[1] \/ \E o \in PushRequest : j \in request[o].at
      BY <2>1, <3>1 DEF ClaimsAreHeeded
    <3> QED BY <1>2, <1>6, <3>1, <3>2
  <2>5. RequestsAreHeeded(w)'
    <3> SUFFICES ASSUME NEW o \in PushRequest, NEW n \in request'[o].of,
                        NEW b \in Push(w)!Recipients
                 PROVE  Push(w)!Heeded(n, b)' \/ <<n, b>> \in request'[o].todo \cup request'[o].at
      BY <1>1, HeededStays DEF RequestsAreHeeded
    <3>1. o # r BY <1>6, <2>2
    <3> QED BY <1>1, <1>6, <2>1, <3>1, HeededStays DEF RequestsAreHeeded
  <2> QED BY <2>3, <2>4, <2>5 DEF PushHeeded
<1>13. Push(w)!AcceptedIsQueued' BY <1>1, <1>11, HeededStays DEF PushInv, Push!AcceptedIsQueued
<1> QED BY <1>6, <1>7, <1>8, <1>9, <1>10, <1>12, <1>13 DEF PushInv

\* Every step keeps the invariant, which has one lemma for each kind of step.
LEMMA PushStep ==
    ASSUME NEW w \in {"gmail", "microsoft"}, PushAssumption, PushInv(w),
           [Push(w)!Next]_(Push(w)!vars)
    PROVE  PushInv(w)'
<1>1. CASE UNCHANGED Push(w)!vars
  <2>1. UNCHANGED <<changes, unsent, accepted, admitted, unheeded, claimed, request, covered,
        allowance, pushFailures>>
    BY <1>1 DEF Push!vars
  <2>2. RequestsAreSound(w)' /\ KeysAreReal(w)' /\ KeysAreCounted(w)' BY <2>1, PushQuietStep
  <2>3. Push(w)!TypeOK' BY <2>1, <2>2, PushSoundIsTyped DEF PushInv, Push!TypeOK
  <2>4. CoveredIsPast(w)' BY <2>1 DEF PushInv, CoveredIsPast
  <2>5. Push(w)!Unharmed' => Push(w)!Unharmed BY <2>1 DEF Push!Unharmed
  <2>6. Push(w)!Unharmed' => PushHeeded(w)'
    BY <2>1, <2>5, HeededStays
       DEF PushInv, PushHeeded, PushApart, ClaimsAreHeeded, RequestsAreHeeded, PushTold,
       Push!Identity
  <2>7. Push(w)!AcceptedIsQueued' BY <2>1, <2>5, HeededStays DEF PushInv, Push!AcceptedIsQueued
  <2> QED BY <2>2, <2>3, <2>4, <2>6, <2>7 DEF PushInv
<1>2. CASE Push(w)!Next
  <2>1. CASE \E m \in PushMessage(w) : Push(w)!MailboxChanges(m) BY <2>1, PushChangesStep
  <2>2. CASE \E a \in PushAccount(w) :
                Push(w)!AccountLost(a) \/ Push(w)!AccountBack(a) \/ Push(w)!RowCommitted(a)
    BY <2>2, PushAccountStep
  <2>3. CASE \E k \in claimed : Push(w)!KeyExpires(k) BY <2>3, PushExpiryStep
  <2>4. ASSUME NEW r \in PushRequest, NEW ns \in SUBSET unsent, Push(w)!Receive(r, ns)
        PROVE  PushInv(w)'
    BY <2>4, PushReceiveStep
  <2>5. ASSUME NEW r \in PushRequest,
               \/ Push(w)!Step(r) \/ Push(w)!ClaimUnavailable(r) \/ Push(w)!PublishFails(r)
               \/ Push(w)!GiveBackFails(r) \/ Push(w)!Crash(r)
        PROVE  PushInv(w)'
    BY <2>5, PushPassOverStep, PushClaimStep, PushPublishStep, PushGiveBackStep, PushAnswerStep,
       PushAbandonStep
       DEF Push!Step
  <2> QED BY <1>2, <2>1, <2>2, <2>3, <2>4, <2>5 DEF Push!Next
<1> QED BY <1>1, <1>2

\* What the run checks follows.
LEMMA PushFollows ==
    ASSUME NEW w \in {"gmail", "microsoft"}, PushAssumption, PushInv(w)
    PROVE  Push(w)!TypeOK /\ Push(w)!AcceptedIsQueued /\ Push(w)!OneImportPerKey
<1>1. Push(w)!OneImportPerKey
  <2> SUFFICES ASSUME NEW k \in Push(w)!Key PROVE allowance[k] >= 0 BY DEF Push!OneImportPerKey
  <2>1. allowance[k] >= Cardinality(Publishing(w, k)) + (IF k \in claimed THEN 0 ELSE 1)
        /\ allowance[k] \in Int
    BY DEF PushInv, KeysAreCounted, Push!TypeOK
  <2>2. Cardinality(Publishing(w, k)) \in Nat
    BY FS_Subset, FS_CardinalityType DEF PushAssumption, Publishing
  <2> QED BY <2>1, <2>2
<1> QED BY <1>1 DEF PushInv

-----------------------------------------------------------------------------
(* GraphSubscription *)

\* The tick has the lock still and its row is as it read it: its commit will write over no one.
InTime(s, a) == s = tickLock /\ run[s].on /\ run[s].read[a].id = subRow[a].id
\* The tick will write another id over the one it read.
Rewrites(s, a) == run[s].new[a].id # run[s].read[a].id
\* The accounts that a tick without the lock, or with a row that has changed, has still to see to or
\* to write: each may leave one subscription no row knows.
SubLate == {t \in Scheduler \X Subscriber :
            /\ run[t[1]].on /\ ~InTime(t[1], t[2])
            /\ t[2] \in run[t[1]].todo \/ Rewrites(t[1], t[2])}
\* The id an account's row has, or will have once the tick in time commits.
SubCurrent(a) ==
    IF \E s \in Scheduler : InTime(s, a) THEN run[tickLock].new[a].id ELSE subRow[a].id
\* The subscriptions that a row knows or a late tick may still write into one.
SubHeld == {SubCurrent(a) : a \in Subscriber} \cup {run[t[1]].new[t[2]].id : t \in SubLate}
\* Orphans made and orphans to be expected: subscriptions that no one holds, and what late ticks
\* have left to do.
SubDebt == ((live \ SubHeld) \X {"loose"}) \cup (SubLate \X {"late"})

\* A row has an id that was given, and one that is not there has none.
SubRowIsSound(r) == r \in Subscriptions!RowType /\ r.id \in 0..made /\ (~r.there => r.id = 0)
\* What a tick remembers.
RunType == [on: BOOLEAN, todo: SUBSET Subscriber, read: [Subscriber -> Subscriptions!RowType],
            new: [Subscriber -> Subscriptions!RowType], created: SUBSET Subscriptions!Id,
              gone: SUBSET Subscriber]
\* A tick writes an id it has created, or none, and rows only where there were some or where it has
\* created a subscription.
SubRunIsSound(s) ==
    /\ ~run[s].on => run[s] = Subscriptions!NoRun
    /\ run[s].created \subseteq 1..made
    /\ \A a \in Subscriber :
          /\ SubRowIsSound(run[s].read[a]) /\ SubRowIsSound(run[s].new[a])
          /\ a \in run[s].todo => run[s].new[a] = run[s].read[a]
          /\ Rewrites(s, a) => run[s].new[a].id \in run[s].created \cup {0}
          /\ run[s].read[a].there => run[s].new[a].there
          /\ run[s].new[a].there /\ ~run[s].read[a].there => run[s].new[a].id # 0
\* What a tick has created, only this tick knows.
CreatedAreNew ==
    \A s \in Scheduler : \A x \in run[s].created :
        /\ \A a \in Subscriber : subRow[a].id # x
        /\ \A r \in Scheduler, a \in Subscriber : run[r].read[a].id # x
        /\ \A r \in Scheduler \ {s} : x \notin run[r].created
\* A row that a tick has read is there still.
RowsStay == \A s \in Scheduler, a \in Subscriber : run[s].read[a].there => subRow[a].there
\* What ticks and rows have to do with each other, ...
SubSound ==
    /\ Subscriptions!TypeOK /\ CreatedAreNew /\ RowsStay
    /\ \A a \in Subscriber : SubRowIsSound(subRow[a])
    /\ \A s \in Scheduler : SubRunIsSound(s)
\* ... and that neither orphans made nor orphans to be expected are more than what excuses them: not
\* inductive of the orphans alone, since a late tick makes one where nothing fails any more.
DebtIsExcused == Cardinality(SubDebt) <= excused
\* The inductive invariant.
SubInv == SubSound /\ DebtIsExcused

\* The component's Cardinality is this module's.
LEMMA SameCard == \A S : Subscriptions!Cardinality(S) = Cardinality(S)
BY DEF Subscriptions!Cardinality, Cardinality

\* A set that is an image of one and some elements more has at most that many elements.
LEMMA SubSettled ==
    ASSUME NEW D, IsFiniteSet(D), NEW f, NEW X, IsFiniteSet(X), NEW E,
           E \subseteq {f[d] : d \in D} \cup X
    PROVE  IsFiniteSet(E) /\ Cardinality(E) <= Cardinality(D) + Cardinality(X)
           /\ Cardinality(E) \in Nat /\ Cardinality(D) \in Nat /\ Cardinality(X) \in Nat
<1> DEFINE I == {f[d] : d \in D}
<1> DEFINE g == [d \in D |-> f[d]]
<1>1. IsFiniteSet(I) /\ Cardinality(I) <= Cardinality(D)
  <2>1. g \in Surjection(D, I) BY DEF Surjection
  <2> QED BY <2>1, FS_Surjection
<1>2. IsFiniteSet(I \cup X)
      /\ Cardinality(I \cup X) = Cardinality(I) + Cardinality(X) - Cardinality(I \cap X)
  BY <1>1, FS_Union
<1>3. IsFiniteSet(I \cap X) BY <1>1, FS_Intersection
<1>4. Cardinality(I \cap X) \in Nat /\ Cardinality(I) \in Nat /\ Cardinality(X) \in Nat
      /\ Cardinality(D) \in Nat
  BY <1>1, <1>3, FS_CardinalityType
<1>5. IsFiniteSet(E) /\ Cardinality(E) <= Cardinality(I \cup X) BY <1>2, FS_Subset
<1>6. Cardinality(E) \in Nat BY <1>5, FS_CardinalityType
<1> QED BY <1>1, <1>2, <1>4, <1>5, <1>6

\* The types, one by one.
LEMMA SubTyped ==
    ASSUME SubAssumption, SubSound
    PROVE  /\ subRow \in [Subscriber -> Subscriptions!RowType] /\ run \in [Scheduler -> RunType]
           /\ live \subseteq 1..made /\ made \in 0..MaxIds /\ made \in Nat /\ excused \in Nat
           /\ tickLock \in Scheduler \cup {NoScheduler} /\ Subscriptions!Id = 1..MaxIds
BY DEF SubAssumption, SubSound, Subscriptions!TypeOK, RunType, Subscriptions!Id

\* The debt can be counted.
LEMMA DebtIsFinite ==
    ASSUME SubAssumption, SubSound
    PROVE  IsFiniteSet(SubDebt) /\ Cardinality(SubDebt) \in Nat
<1>1. IsFiniteSet(1..made) BY SubTyped, FS_Interval
<1>2. IsFiniteSet(live \ SubHeld) BY <1>1, SubTyped, FS_Subset
<1>3. IsFiniteSet(Scheduler \X Subscriber) BY FS_Product DEF SubAssumption
<1>4. IsFiniteSet(SubLate) BY <1>3, FS_Subset DEF SubLate
<1>5. IsFiniteSet({"loose"}) /\ IsFiniteSet({"late"}) BY FS_Singleton
<1>6. IsFiniteSet((live \ SubHeld) \X {"loose"}) /\ IsFiniteSet(SubLate \X {"late"})
  BY <1>2, <1>4, <1>5, FS_Product
<1>7. IsFiniteSet(SubDebt) BY <1>6, FS_Union DEF SubDebt
<1> QED BY <1>7, FS_CardinalityType

\* A step that sends the debt somewhere in itself and adds no more than it excuses keeps it excused.
LEMMA DebtStep ==
    ASSUME SubAssumption, SubInv, NEW f, NEW X, IsFiniteSet(X),
           SubDebt' \subseteq {f[d] : d \in SubDebt} \cup X,
           excused' \in Nat, excused' >= excused + Cardinality(X)
    PROVE  DebtIsExcused'
<1>1. IsFiniteSet(SubDebt) BY DebtIsFinite DEF SubInv
<1>2. /\ Cardinality(SubDebt') <= Cardinality(SubDebt) + Cardinality(X)
      /\ Cardinality(SubDebt') \in Nat /\ Cardinality(SubDebt) \in Nat /\ Cardinality(X) \in Nat
  BY <1>1, SubSettled
<1>3. Cardinality(SubDebt) <= excused /\ excused \in Nat BY SubTyped DEF SubInv, DebtIsExcused
<1> QED BY <1>2, <1>3 DEF DebtIsExcused

\* A step that adds nothing to the debt needs no excuse.
LEMMA NoRise ==
    ASSUME SubAssumption, SubInv, SubDebt' \subseteq SubDebt, excused' = excused
    PROVE  DebtIsExcused'
<1>1. IsFiniteSet(SubDebt) BY DebtIsFinite DEF SubInv
<1>2. Cardinality(SubDebt') <= Cardinality(SubDebt) /\ IsFiniteSet(SubDebt') BY <1>1, FS_Subset
<1>3. Cardinality(SubDebt') \in Nat
      /\ Cardinality(SubDebt) \in Nat BY <1>1, <1>2, FS_CardinalityType
<1>4. Cardinality(SubDebt) <= excused /\ excused \in Nat BY SubTyped DEF SubInv, DebtIsExcused
<1> QED BY <1>2, <1>3, <1>4 DEF DebtIsExcused

\* An orphan is a loose subscription, so orphans are no more than the debt.
LEMMA OrphansFollow == ASSUME SubAssumption, SubInv PROVE Subscriptions!OrphansAreExcused
<1> DEFINE known == {subRow[a].id : a \in Subscriber}
                    \cup {run[s].new[a].id : s \in Scheduler, a \in Subscriber}
           orphans == live \ known
<1>1. SubHeld \subseteq known
  <2>1. \A a \in Subscriber : SubCurrent(a) \in known
    <3> SUFFICES ASSUME NEW a \in Subscriber PROVE SubCurrent(a) \in known OBVIOUS
    <3>1. CASE \E s \in Scheduler : InTime(s, a)
      <4>1. tickLock \in Scheduler BY <3>1 DEF InTime
      <4> QED BY <3>1, <4>1 DEF SubCurrent
    <3>2. CASE ~\E s \in Scheduler : InTime(s, a) BY <3>2 DEF SubCurrent
    <3> QED BY <3>1, <3>2
  <2>2. \A t \in SubLate : run[t[1]].new[t[2]].id \in known BY DEF SubLate
  <2> SUFFICES ASSUME NEW x \in SubHeld PROVE x \in known OBVIOUS
  <2>3. \/ \E a \in Subscriber : x = SubCurrent(a)
        \/ \E t \in SubLate : x = run[t[1]].new[t[2]].id
    BY DEF SubHeld
  <2> HIDE DEF known
  <2> QED BY <2>1, <2>2, <2>3
<1>2. orphans \X {"loose"} \subseteq SubDebt BY <1>1 DEF SubDebt
<1> HIDE DEF known, orphans
<1>3. IsFiniteSet(SubDebt) BY DebtIsFinite DEF SubInv
<1> DEFINE f == [d \in SubDebt |-> d[1]]
<1>4. orphans \subseteq {f[d] : d \in SubDebt} \cup {}
  <2> SUFFICES ASSUME NEW x \in orphans PROVE \E d \in SubDebt : f[d] = x OBVIOUS
  <2>1. <<x, "loose">> \in SubDebt BY <1>2
  <2>2. f[<<x, "loose">>] = x BY <2>1
  <2> QED BY <2>1, <2>2
<1> HIDE DEF f
<1>5. /\ Cardinality(orphans) <= Cardinality(SubDebt) + Cardinality({})
      /\ Cardinality(orphans) \in Nat /\ Cardinality(SubDebt) \in Nat /\ Cardinality({}) = 0
  BY <1>3, <1>4, SubSettled, FS_EmptySet
<1>6. Cardinality(SubDebt) <= excused /\ excused \in Nat BY SubTyped DEF SubInv, DebtIsExcused
<1>7. Cardinality(orphans) <= excused BY <1>5, <1>6
<1> QED BY <1>7, SameCard DEF Subscriptions!OrphansAreExcused, orphans, known

\* At first Graph has no subscription.
LEMMA SubInit == ASSUME SubAssumption, Subscriptions!Init PROVE SubInv
<1>1. /\ Subscriptions!NoRow \in Subscriptions!RowType /\ Subscriptions!NoRow.id = 0
      /\ ~Subscriptions!NoRow.there
  BY DEF Subscriptions!NoRow, Subscriptions!RowType, Subscriptions!Id
<1>2. Subscriptions!NoRun \in RunType BY <1>1 DEF Subscriptions!NoRun, RunType, Subscriptions!Id
<1>3. Subscriptions!TypeOK
  BY <1>1, <1>2 DEF Subscriptions!Init, Subscriptions!TypeOK, RunType, SubAssumption
<1>4. \A a \in Subscriber : SubRowIsSound(subRow[a]) BY <1>1 DEF Subscriptions!Init, SubRowIsSound
<1>5. \A s \in Scheduler : SubRunIsSound(s)
  BY <1>1, <1>2 DEF Subscriptions!Init, Subscriptions!NoRun, SubRunIsSound, SubRowIsSound, Rewrites
<1>6. CreatedAreNew /\ RowsStay
  BY DEF Subscriptions!Init, Subscriptions!NoRun, Subscriptions!NoRow, CreatedAreNew, RowsStay
<1>7. SubDebt = {} BY DEF Subscriptions!Init, Subscriptions!NoRun, SubDebt, SubLate
<1>8. DebtIsExcused BY <1>7, FS_EmptySet DEF Subscriptions!Init, DebtIsExcused
<1> QED BY <1>3, <1>4, <1>5, <1>6, <1>8 DEF SubInv, SubSound

\* The tick s has had an answer about the account a.
Answered(s, a) ==
    /\ UNCHANGED <<subRow, connected, events, tickLock, removals>>
    /\ \A r \in Scheduler \ {s} : run'[r] = run[r]
    /\ run'[s].on = run[s].on /\ run'[s].read = run[s].read /\ run'[s].todo = run[s].todo \ {a}
    /\ \A b \in Subscriber \ {a} : run'[s].new[b] = run[s].new[b]
    /\ \/ /\ UNCHANGED <<live, made, excused>> /\ run'[s].created = run[s].created
          /\ run'[s].new[a].there = run[s].new[a].there
          /\ \/ run'[s].new[a].id = run[s].new[a].id
             \/ /\ run'[s].new[a].id = 0 /\ run[s].new[a].id \notin live
                /\ run[s].new[a].there
       \/ /\ run[s].new[a].id \notin live /\ run'[s].new[a].there /\ run'[s].new[a].id = made'
          /\ run'[s].created = run[s].created \cup {made'} /\ made' \in 1..MaxIds
          /\ \/ made' = made + 1 /\ live' = live \cup {made'} /\ excused' = excused
             \/ made' = made + 2 /\ live' = live \cup {made + 1, made'} /\ excused' = excused + 1

\* What a tick has of an account it is done with, ...
LEMMA DoneStep ==
    ASSUME SubAssumption, SubSound, NEW s \in Scheduler, NEW a \in Subscriber
    PROVE  \A n \in Subscriptions!RowType, c \in SUBSET Subscriptions!Id : Subscriptions!Done(s, a,
           n, c) =>
              /\ run' \in [Scheduler -> RunType]
              /\ \A r \in Scheduler \ {s} : run'[r] = run[r]
              /\ run'[s].on = run[s].on /\ run'[s].read = run[s].read
              /\ run'[s].todo = run[s].todo \ {a}
              /\ \A b \in Subscriber \ {a} : run'[s].new[b] = run[s].new[b]
              /\ run'[s].new[a] = n /\ run'[s].created = run[s].created \cup c
<1> SUFFICES ASSUME NEW n \in Subscriptions!RowType, NEW c \in SUBSET Subscriptions!Id,
                    Subscriptions!Done(s, a, n, c)
             PROVE  /\ run' \in [Scheduler -> RunType]
                    /\ \A r \in Scheduler \ {s} : run'[r] = run[r]
                    /\ run'[s].on = run[s].on /\ run'[s].read = run[s].read
                    /\ run'[s].todo = run[s].todo \ {a}
                    /\ \A b \in Subscriber \ {a} : run'[s].new[b] = run[s].new[b]
                    /\ run'[s].new[a] = n /\ run'[s].created = run[s].created \cup c
  OBVIOUS
<1> DEFINE q == [run[s] EXCEPT !.todo = @ \ {a}, !.new[a] = n, !.created = @ \cup c]
<1>1. run \in [Scheduler -> RunType] /\ run[s] \in RunType BY SubTyped
<1>2. run' = [run EXCEPT ![s] = q] BY <1>1 DEF Subscriptions!Done
<1>3. /\ q \in RunType
      /\ q.on = run[s].on /\ q.read = run[s].read /\ q.todo = run[s].todo \ {a}
      /\ q.new = [run[s].new EXCEPT ![a] = n] /\ q.created = run[s].created \cup c
  BY <1>1 DEF RunType
<1>4. run[s].new \in [Subscriber -> Subscriptions!RowType] BY <1>1 DEF RunType
<1> HIDE DEF q
<1>5. run' \in [Scheduler -> RunType] /\ run'[s] = q /\ \A r \in Scheduler \ {s} : run'[r] = run[r]
  BY <1>1, <1>2, <1>3
<1> QED BY <1>3, <1>4, <1>5

\* ... and when it has created nothing.
LEMMA DoneQuietly ==
    ASSUME SubAssumption, SubSound, NEW s \in Scheduler, NEW a \in Subscriber
    PROVE  \A n \in Subscriptions!RowType : Subscriptions!Done(s, a, n, {}) =>
              /\ run' \in [Scheduler -> RunType]
              /\ \A r \in Scheduler \ {s} : run'[r] = run[r]
              /\ run'[s].on = run[s].on /\ run'[s].read = run[s].read
              /\ run'[s].todo = run[s].todo \ {a}
              /\ \A b \in Subscriber \ {a} : run'[s].new[b] = run[s].new[b]
              /\ run'[s].new[a] = n /\ run'[s].created = run[s].created
<1> SUFFICES ASSUME NEW n \in Subscriptions!RowType, Subscriptions!Done(s, a, n, {})
             PROVE  /\ run' \in [Scheduler -> RunType]
                    /\ \A r \in Scheduler \ {s} : run'[r] = run[r]
                    /\ run'[s].on = run[s].on /\ run'[s].read = run[s].read
                    /\ run'[s].todo = run[s].todo \ {a}
                    /\ \A b \in Subscriber \ {a} : run'[s].new[b] = run[s].new[b]
                    /\ run'[s].new[a] = n /\ run'[s].created = run[s].created
  OBVIOUS
<1> DEFINE none == {}
<1>1. none \in SUBSET Subscriptions!Id /\ Subscriptions!Done(s, a, n, none)
      /\ run[s].created \cup none = run[s].created
  OBVIOUS
<1> HIDE DEF none
<1>2. /\ run' \in [Scheduler -> RunType]
      /\ \A r \in Scheduler \ {s} : run'[r] = run[r]
      /\ run'[s].on = run[s].on /\ run'[s].read = run[s].read /\ run'[s].todo = run[s].todo \ {a}
      /\ \A b \in Subscriber \ {a} : run'[s].new[b] = run[s].new[b]
      /\ run'[s].new[a] = n /\ run'[s].created = run[s].created \cup none
  BY <1>1, DoneStep
<1> QED BY <1>1, <1>2

\* Every answer of Graph about an account is one of the forms of Answered, ...
LEMMA AnswerForms ==
    ASSUME SubAssumption, SubSound, NEW s \in Scheduler, NEW a \in Subscriber,
           \/ Subscriptions!Renew(s, a) \/ Subscriptions!ReauthorizeUnknown(s, a)
                \/ Subscriptions!Create(s, a)
           \/ Subscriptions!RequestFails(s, a) \/ Subscriptions!ConsentNeeded(s, a)
    PROVE  /\ a \in run[s].todo /\ Answered(s, a) /\ run' \in [Scheduler -> RunType]
           /\ subFailures' \in Nat
<1> DEFINE r == run[s].new[a]
<1>1. run \in [Scheduler -> RunType] /\ run[s] \in RunType
      /\ run[s].new \in [Subscriber -> Subscriptions!RowType]
      /\ r \in Subscriptions!RowType /\ r.id \in 0..MaxIds
  BY SubTyped DEF RunType, Subscriptions!RowType, SubAssumption
<1>2. /\ r.there \in BOOLEAN /\ r.due \in BOOLEAN /\ r.id \in Subscriptions!Id \cup {0}
      /\ r.status \in Subscriptions!Event \cup {"pending", "active", "error", "reauth_required"}
  BY <1>1 DEF Subscriptions!RowType
<1>3. subFailures' \in Nat
  BY DEF SubSound, Subscriptions!TypeOK, Subscriptions!Fails, Subscriptions!Renew,
     Subscriptions!ReauthorizeUnknown, Subscriptions!Create, Subscriptions!RequestFails,
     Subscriptions!ConsentNeeded
<1>4. run[s].created \cup {} = run[s].created /\ {} \in SUBSET Subscriptions!Id OBVIOUS
<1>5. CASE Subscriptions!Renew(s, a)
  <2>1. Subscriptions!Active(r.id) \in Subscriptions!RowType /\ Subscriptions!Active(r.id).id = r.id
        /\ Subscriptions!Active(r.id).there
    BY <1>2 DEF Subscriptions!Active, Subscriptions!RowType
  <2>2. r.id \in live /\ r.there
    <3>1. r.id \in live BY <1>5 DEF Subscriptions!Renew, Subscriptions!Known
    <3>2. r.id # 0 BY <3>1, SubTyped
    <3> QED BY <1>2, <3>1, <3>2 DEF SubSound, SubRunIsSound, SubRowIsSound
  <2>3. Subscriptions!Done(s, a, Subscriptions!Active(r.id), {}) BY <1>5 DEF Subscriptions!Renew
  <2>4. /\ run' \in [Scheduler -> RunType]
        /\ \A o \in Scheduler \ {s} : run'[o] = run[o]
        /\ run'[s].on = run[s].on /\ run'[s].read = run[s].read /\ run'[s].todo = run[s].todo \ {a}
        /\ \A b \in Subscriber \ {a} : run'[s].new[b] = run[s].new[b]
        /\ run'[s].new[a] = Subscriptions!Active(r.id) /\ run'[s].created = run[s].created
    BY <2>1, <2>3, DoneQuietly
  <2>5. UNCHANGED <<subRow, connected, events, tickLock, removals, live, made, excused>>
        /\ a \in run[s].todo
    BY <1>5 DEF Subscriptions!Renew
  <2> HIDE DEF r
  <2> QED BY <1>3, <2>1, <2>2, <2>4, <2>5 DEF Answered, r
<1>6. CASE Subscriptions!ReauthorizeUnknown(s, a)
  <2> DEFINE n == [r EXCEPT !.status = "error"]
  <2>1. n \in Subscriptions!RowType /\ n.id = r.id /\ n.there = r.there BY <1>1, <1>2
        DEF Subscriptions!RowType
  <2> HIDE DEF n
  <2>2. Subscriptions!Done(s, a, n, {}) BY <1>6 DEF Subscriptions!ReauthorizeUnknown, n
  <2>3. /\ run' \in [Scheduler -> RunType]
        /\ \A o \in Scheduler \ {s} : run'[o] = run[o]
        /\ run'[s].on = run[s].on /\ run'[s].read = run[s].read /\ run'[s].todo = run[s].todo \ {a}
        /\ \A b \in Subscriber \ {a} : run'[s].new[b] = run[s].new[b]
        /\ run'[s].new[a] = n /\ run'[s].created = run[s].created
    BY <2>1, <2>2, DoneQuietly
  <2>4. UNCHANGED <<subRow, connected, events, tickLock, removals, live, made, excused>>
        /\ a \in run[s].todo
    BY <1>6 DEF Subscriptions!ReauthorizeUnknown
  <2> QED BY <1>3, <2>1, <2>3, <2>4 DEF Answered
<1>7. CASE Subscriptions!Create(s, a)
  <2>1. made' \in 1..MaxIds /\ r.id \notin live
    BY <1>7, SubTyped
       DEF Subscriptions!Create, Subscriptions!MayCreate, Subscriptions!Known, SubAssumption
  <2>2. Subscriptions!Active(made') \in Subscriptions!RowType
        /\ Subscriptions!Active(made').id = made' /\ Subscriptions!Active(made').there
    BY <2>1 DEF Subscriptions!Active, Subscriptions!RowType, Subscriptions!Id
  <2>3. {made'} \in SUBSET Subscriptions!Id BY <2>1 DEF Subscriptions!Id
  <2>4. Subscriptions!Done(s, a, Subscriptions!Active(made'), {made'}) BY <1>7
        DEF Subscriptions!Create
  <2>5. /\ run' \in [Scheduler -> RunType]
        /\ \A o \in Scheduler \ {s} : run'[o] = run[o]
        /\ run'[s].on = run[s].on /\ run'[s].read = run[s].read /\ run'[s].todo = run[s].todo \ {a}
        /\ \A b \in Subscriber \ {a} : run'[s].new[b] = run[s].new[b]
        /\ run'[s].new[a] = Subscriptions!Active(made')
        /\ run'[s].created = run[s].created \cup {made'}
    BY <2>2, <2>3, <2>4, DoneStep
  <2> QED BY <1>3, <1>7, <2>1, <2>2, <2>5 DEF Subscriptions!Create, Answered
<1>8. CASE Subscriptions!RequestFails(s, a)
  <2>1. PICK id \in IF Subscriptions!Known(s, a) THEN {r.id} ELSE {r.id, 0} :
          Subscriptions!Done(s, a, IF r.there THEN [r EXCEPT !.status = "error", !.id = id] ELSE r,
            {})
    BY <1>8 DEF Subscriptions!RequestFails, Subscriptions!Refused
  <2> DEFINE n == IF r.there THEN [r EXCEPT !.status = "error", !.id = id] ELSE r
  <2>2. id = r.id \/ (id = 0 /\ r.id \notin live) BY <2>1 DEF Subscriptions!Known
  <2>3. n \in Subscriptions!RowType /\ n.there = r.there /\ n.id = IF r.there THEN id ELSE r.id
    BY <1>1, <1>2, <2>2 DEF Subscriptions!RowType
  <2> HIDE DEF n
  <2>4. Subscriptions!Done(s, a, n, {}) BY <2>1 DEF n
  <2>5. /\ run' \in [Scheduler -> RunType]
        /\ \A o \in Scheduler \ {s} : run'[o] = run[o]
        /\ run'[s].on = run[s].on /\ run'[s].read = run[s].read /\ run'[s].todo = run[s].todo \ {a}
        /\ \A b \in Subscriber \ {a} : run'[s].new[b] = run[s].new[b]
        /\ run'[s].new[a] = n /\ run'[s].created = run[s].created
    BY <2>3, <2>4, DoneQuietly
  <2>6. UNCHANGED <<subRow, connected, events, tickLock, removals, live, made, excused>>
        /\ a \in run[s].todo
    BY <1>8 DEF Subscriptions!RequestFails
  <2> QED BY <1>2, <1>3, <2>2, <2>3, <2>5, <2>6 DEF Answered
<1>9. CASE Subscriptions!ConsentNeeded(s, a)
  <2>1. CASE Subscriptions!Done(s, a, r, {}) BY <1>1, <1>3, <1>4, <1>9, <2>1, DoneStep
             DEF Subscriptions!ConsentNeeded, Answered
  <2>2. CASE run' = [run EXCEPT ![s].todo = @ \ {a}, ![s].gone = @ \cup {a},
                   ![s].new[a].status = IF run[s].new[a].there THEN "reauth_required" ELSE @]
    <3> DEFINE n == [r EXCEPT !.status = IF r.there THEN "reauth_required" ELSE @]
               q == [run[s] EXCEPT !.todo = @ \ {a}, !.gone = @ \cup {a}, !.new[a] = n]
    <3>1. n \in Subscriptions!RowType /\ n.id = r.id /\ n.there = r.there BY <1>1, <1>2
          DEF Subscriptions!RowType
    <3>2. run' = [run EXCEPT ![s] = q] BY <1>1, <2>2
    <3> HIDE DEF n
    <3>3. /\ q \in RunType
          /\ q.on = run[s].on /\ q.read = run[s].read /\ q.todo = run[s].todo \ {a}
          /\ q.new = [run[s].new EXCEPT ![a] = n] /\ q.created = run[s].created
      BY <1>1, <3>1 DEF RunType
    <3> HIDE DEF q
    <3>4. run' \in [Scheduler -> RunType] /\ run'[s] = q
          /\ \A o \in Scheduler \ {s} : run'[o] = run[o]
      BY <1>1, <3>2, <3>3
    <3>5. q.new[a] = n /\ \A b \in Subscriber \ {a} : q.new[b] = run[s].new[b] BY <1>1, <3>3
    <3> QED BY <1>3, <1>9, <3>1, <3>3, <3>4, <3>5 DEF Subscriptions!ConsentNeeded, Answered
  <2> QED BY <1>9, <2>1, <2>2 DEF Subscriptions!ConsentNeeded
<1> QED BY <1>5, <1>6, <1>7, <1>8, <1>9

\* ... which keeps ticks sound ...
LEMMA AnswerSound ==
    ASSUME SubAssumption, SubSound, NEW s \in Scheduler, NEW a \in Subscriber, a \in run[s].todo,
           Answered(s, a), run' \in [Scheduler -> RunType], subFailures' \in Nat
    PROVE  SubSound'
<1>1. /\ made' \in 0..MaxIds /\ made' \in Nat /\ made <= made' /\ 1..made \subseteq 1..made'
      /\ 0..made \subseteq 0..made'
      /\ live' \subseteq 1..made' /\ excused' \in Nat
  BY SubTyped DEF Answered, SubAssumption
<1>2. Subscriptions!TypeOK'
  BY <1>1
     DEF SubSound, Subscriptions!TypeOK, Answered, RunType, Subscriptions!Id, Subscriptions!RowType,
     Subscriptions!Event
<1>3. \A b \in Subscriber : SubRowIsSound(subRow[b])'
  BY <1>1
     DEF SubSound, SubRowIsSound, Answered, Subscriptions!RowType, Subscriptions!Id,
     Subscriptions!Event
<1>4. ASSUME NEW r \in Scheduler, r # s PROVE SubRunIsSound(r)'
  <2>1. run'[r] = run[r] /\ SubRunIsSound(r) BY <1>4 DEF Answered, SubSound
  <2> QED BY <1>1, <2>1
       DEF SubRunIsSound, SubRowIsSound, Rewrites, Subscriptions!RowType, Subscriptions!Id,
         Subscriptions!Event, Subscriptions!NoRun, Subscriptions!NoRow
<1>5. SubRunIsSound(s)'
  <2>1. SubRunIsSound(s) /\ run[s].on BY DEF SubSound, SubRunIsSound, Subscriptions!NoRun
  <2>2. run'[s].on BY <2>1 DEF Answered
  <2>3. run'[s].created \subseteq 1..made' BY <1>1, <2>1 DEF SubRunIsSound, Answered
  <2>4. run'[s] \in RunType OBVIOUS
  <2>5. ASSUME NEW b \in Subscriber, b # a
        PROVE  /\ run'[s].new[b] = run[s].new[b] /\ run'[s].read[b] = run[s].read[b]
               /\ b \in run'[s].todo <=> b \in run[s].todo
               /\ run[s].created \subseteq run'[s].created
    BY <2>5 DEF Answered
  <2>6. ASSUME NEW b \in Subscriber, b # a
        PROVE  /\ SubRowIsSound(run[s].read[b])' /\ SubRowIsSound(run[s].new[b])'
               /\ b \in run'[s].todo => run'[s].new[b] = run'[s].read[b]
               /\ Rewrites(s, b)' => run'[s].new[b].id \in run'[s].created \cup {0}
               /\ run'[s].read[b].there => run'[s].new[b].there
               /\ run'[s].new[b].there /\ ~run'[s].read[b].there => run'[s].new[b].id # 0
    <3>1. /\ SubRowIsSound(run[s].read[b]) /\ SubRowIsSound(run[s].new[b])
          /\ b \in run[s].todo => run[s].new[b] = run[s].read[b]
          /\ Rewrites(s, b) => run[s].new[b].id \in run[s].created \cup {0}
          /\ run[s].read[b].there => run[s].new[b].there
          /\ run[s].new[b].there /\ ~run[s].read[b].there => run[s].new[b].id # 0
      BY <2>1 DEF SubRunIsSound
    <3>2. SubRowIsSound(run[s].read[b])' /\ SubRowIsSound(run[s].new[b])'
      BY <1>1, <2>5, <2>6, <3>1
         DEF SubRowIsSound, Subscriptions!RowType, Subscriptions!Id, Subscriptions!Event
    <3> QED BY <2>5, <2>6, <3>1, <3>2 DEF Rewrites
  <2>7. /\ SubRowIsSound(run[s].read[a]) /\ run[s].new[a] = run[s].read[a]
        /\ run'[s].read[a] = run[s].read[a] /\ a \notin run'[s].todo
        /\ run'[s].new[a] \in Subscriptions!RowType
    <3>1. run'[s].new \in [Subscriber -> Subscriptions!RowType] BY <2>4 DEF RunType
    <3> QED BY <2>1, <3>1 DEF SubRunIsSound, Answered
  <2>8. SubRowIsSound(run[s].read[a])' BY <1>1, <2>7
        DEF SubRowIsSound, Subscriptions!RowType, Subscriptions!Id, Subscriptions!Event
  <2>9. /\ run'[s].new[a].id \in 0..made' /\ (~run'[s].new[a].there => run'[s].new[a].id = 0)
        /\ run'[s].new[a].id # run'[s].read[a].id => run'[s].new[a].id \in run'[s].created \cup {0}
        /\ run'[s].read[a].there => run'[s].new[a].there
        /\ run'[s].new[a].there /\ ~run'[s].read[a].there => run'[s].new[a].id # 0
    BY <1>1, <2>7 DEF Answered, SubRowIsSound
  <2>10. SubRowIsSound(run[s].new[a])' BY <2>7, <2>9
         DEF SubRowIsSound, Subscriptions!RowType, Subscriptions!Id, Subscriptions!Event
  <2> QED BY <2>2, <2>3, <2>6, <2>7, <2>8, <2>9, <2>10 DEF SubRunIsSound, Rewrites
<1>6. CreatedAreNew'
  <2> SUFFICES ASSUME NEW o \in Scheduler, NEW x \in run'[o].created
               PROVE  /\ \A b \in Subscriber : subRow[b].id # x
                      /\ \A r \in Scheduler, b \in Subscriber : run'[r].read[b].id # x
                      /\ \A r \in Scheduler \ {o} : x \notin run'[r].created
    BY DEF CreatedAreNew, Answered
  <2>1. \A r \in Scheduler : run'[r].read = run[r].read BY DEF Answered
  <2>2. \A r \in Scheduler : \A y \in run'[r].created :
            y \in run[r].created \/ (r = s /\ y = made' /\ y \notin 0..made)
    BY SubTyped DEF Answered
  <2>3. /\ \A b \in Subscriber : subRow[b].id \in 0..made
        /\ \A r \in Scheduler, b \in Subscriber : run[r].read[b].id \in 0..made
        /\ \A r \in Scheduler : \A y \in run[r].created : y \in 0..made
    BY SubTyped DEF SubSound, SubRowIsSound, SubRunIsSound
  <2>4. CASE x \in run[o].created
    <3>1. /\ \A b \in Subscriber : subRow[b].id # x
          /\ \A r \in Scheduler, b \in Subscriber : run[r].read[b].id # x
          /\ \A r \in Scheduler \ {o} : x \notin run[r].created
      BY <2>4 DEF SubSound, CreatedAreNew
    <3>2. x \in 0..made BY <2>3, <2>4
    <3>3. ASSUME NEW r \in Scheduler \ {o} PROVE x \notin run'[r].created BY <2>2, <3>1, <3>2
    <3> QED BY <2>1, <3>1, <3>3
  <2>5. CASE x \notin run[o].created
    <3>1. o = s /\ x \notin 0..made BY <2>2, <2>5
    <3>2. ASSUME NEW r \in Scheduler \ {o} PROVE x \notin run'[r].created BY <2>2, <2>3, <3>1
    <3> QED BY <2>1, <2>3, <3>1, <3>2
  <2> QED BY <2>4, <2>5
<1>7. RowsStay' 
  <2>1. \A r \in Scheduler : run'[r].read = run[r].read BY DEF Answered
  <2> QED BY <2>1 DEF SubSound, RowsStay, Answered
<1> QED BY <1>2, <1>3, <1>4, <1>5, <1>6, <1>7 DEF SubSound

\* ... and the debt excused: a late tick's creation takes the place of its lateness.
LEMMA AnswerDebt ==
    ASSUME SubAssumption, SubInv, NEW s \in Scheduler, NEW a \in Subscriber, a \in run[s].todo,
           Answered(s, a), run' \in [Scheduler -> RunType]
    PROVE  DebtIsExcused'
<1> DEFINE old == run[s].new[a].id
           late == <<<<s, a>>, "late">>
           X == IF excused' = excused THEN {} ELSE {<<made + 1, "loose">>}
           f == [d \in SubDebt |-> IF d = late
             /\ <<s, a>> \notin SubLate' THEN <<old, "loose">> ELSE d]
<1>1. /\ run[s].on /\ old = run[s].read[a].id /\ run[s].new[a] = run[s].read[a]
      /\ run' \in [Scheduler -> RunType] /\ excused \in Nat
      /\ made \in Nat /\ live \subseteq 1..made
  <2>1. SubSound /\ SubRunIsSound(s) BY DEF SubInv, SubSound
  <2>2. run[s].on BY <2>1 DEF SubRunIsSound, Subscriptions!NoRun
  <2>3. run[s].new[a] = run[s].read[a] BY <2>1 DEF SubRunIsSound
  <2> QED BY <2>1, <2>2, <2>3, SubTyped
<1>2. \A r \in Scheduler, b \in Subscriber :
          /\ InTime(r, b)' <=> InTime(r, b)
          /\ run'[r].on = run[r].on
          /\ r # s \/ b # a => /\ run'[r].new[b] = run[r].new[b]
                               /\ b \in run'[r].todo <=> b \in run[r].todo
                               /\ Rewrites(r, b)' <=> Rewrites(r, b)
  <2> SUFFICES ASSUME NEW r \in Scheduler, NEW b \in Subscriber
               PROVE  /\ InTime(r, b)' <=> InTime(r, b)
                      /\ run'[r].on = run[r].on
                      /\ r # s \/ b # a => /\ run'[r].new[b] = run[r].new[b]
                                           /\ b \in run'[r].todo <=> b \in run[r].todo
                                           /\ Rewrites(r, b)' <=> Rewrites(r, b)
    OBVIOUS
  <2>1. CASE r # s
    <3>1. run'[r] = run[r] BY <2>1 DEF Answered
    <3> QED BY <2>1, <3>1 DEF Answered, InTime, Rewrites
  <2>2. CASE r = s
    <3>1. run'[s].on = run[s].on /\ run'[s].read = run[s].read /\ run'[s].todo = run[s].todo \ {a}
      BY DEF Answered
    <3>2. b # a => run'[s].new[b] = run[s].new[b] BY DEF Answered
    <3> QED BY <2>2, <3>1, <3>2 DEF Answered, InTime, Rewrites
  <2> QED BY <2>1, <2>2
<1>3. \A r \in Scheduler, b \in Subscriber : r # s \/ b # a =>
      (<<r, b>> \in SubLate' <=> <<r, b>> \in SubLate)
  BY <1>2 DEF SubLate
<1>4. ~InTime(s, a) => <<s, a>> \in SubLate BY <1>1 DEF SubLate
<1>5. <<s, a>> \in SubLate' <=> ~InTime(s, a) /\ run'[s].new[a].id # old
  BY <1>1, <1>2 DEF SubLate, Rewrites, Answered
<1>6. \A x \in live : x = old => run'[s].new[a].id = old BY DEF Answered
<1>7. \A b \in Subscriber : SubCurrent(b)' = IF InTime(s, a)
      /\ b = a THEN run'[s].new[a].id ELSE SubCurrent(b)
  <2> SUFFICES ASSUME NEW b \in Subscriber
               PROVE  SubCurrent(b)' = IF InTime(s, a)
                      /\ b = a THEN run'[s].new[a].id ELSE SubCurrent(b)
    OBVIOUS
  <2>1. CASE \E r \in Scheduler : InTime(r, b)
    <3>1. PICK r \in Scheduler : InTime(r, b) BY <2>1
    <3>2. r = tickLock /\ tickLock' = tickLock BY <3>1 DEF InTime, Answered
    <3>3. SubCurrent(b) = run[r].new[b].id /\ SubCurrent(b)' = run'[r].new[b].id
      BY <1>2, <3>1, <3>2 DEF SubCurrent
    <3>4. CASE r = s /\ b = a BY <3>1, <3>3, <3>4
    <3>5. CASE r # s \/ b # a
      <4>1. run'[r].new[b] = run[r].new[b] BY <1>2, <3>5
      <4>2. ~(InTime(s, a) /\ b = a) BY <3>2, <3>5 DEF InTime
      <4> QED BY <3>3, <4>1, <4>2
    <3> QED BY <3>4, <3>5
  <2>2. CASE ~\E r \in Scheduler : InTime(r, b)
    BY <1>2, <2>2 DEF SubCurrent, Answered
  <2> QED BY <2>1, <2>2
<1>8. InTime(s, a) => SubCurrent(a) = old BY DEF SubCurrent, InTime
<1>9. IsFiniteSet(X) /\ excused' \in Nat /\ excused' >= excused + Cardinality(X)
  <2>1. excused' = excused \/ excused' = excused + 1 BY DEF Answered
  <2>2. CASE excused' = excused BY <1>1, <2>2, FS_EmptySet
  <2>3. CASE excused' # excused
    <3>1. X = {<<made + 1, "loose">>} BY <2>3
    <3> HIDE DEF X
    <3>2. IsFiniteSet(X) /\ Cardinality(X) = 1 BY <3>1, FS_Singleton
    <3> QED BY <1>1, <2>1, <2>3, <3>2
  <2> QED BY <2>2, <2>3
<1>10. SubDebt' \subseteq {f[d] : d \in SubDebt} \cup X
  <2> SUFFICES ASSUME NEW e \in SubDebt' PROVE e \in X \/ \E d \in SubDebt : f[d] = e OBVIOUS
  <2>1. CASE \E t \in SubLate' : e = <<t, "late">>
    <3>1. PICK t \in SubLate' : e = <<t, "late">> BY <2>1
    <3>2. t \in SubLate
      <4>1. PICK r \in Scheduler, b \in Subscriber : t = <<r, b>> BY DEF SubLate
      <4> QED BY <1>3, <1>4, <1>5, <3>1, <4>1
    <3>3. e \in SubDebt BY <3>1, <3>2 DEF SubDebt
    <3>4. f[e] = e BY <3>1, <3>3
    <3> QED BY <3>3, <3>4
  <2>2. CASE \E x \in live' \ SubHeld' : e = <<x, "loose">>
    <3>1. PICK x \in live' \ SubHeld' : e = <<x, "loose">> BY <2>2
    <3>2. /\ \A b \in Subscriber : x # SubCurrent(b)'
          /\ \A r \in Scheduler, b \in Subscriber : <<r, b>> \in SubLate' => x # run'[r].new[b].id
      <4>1. \A t \in SubLate' : x # run'[t[1]].new[t[2]].id BY <3>1 DEF SubHeld
      <4> QED BY <3>1, <4>1 DEF SubHeld
    <3>3. CASE x \notin live
      <4>1. x \in {made', made + 1} /\ run'[s].new[a].id = made' /\ made' > made
        BY <1>1, <3>1, <3>3 DEF Answered
      <4>2. old # made'
        <5>1. run[s].new[a].id \in 0..made BY DEF SubInv, SubSound, SubRunIsSound, SubRowIsSound
        <5> QED BY <1>1, <4>1, <5>1
      <4>3. x # made'
        <5>1. CASE InTime(s, a) BY <1>7, <3>2, <4>1, <5>1
        <5>2. CASE ~InTime(s, a) BY <1>5, <3>2, <4>1, <4>2, <5>2
        <5> QED BY <5>1, <5>2
      <4>4. x = made + 1 /\ excused' # excused BY <1>1, <3>1, <3>3, <4>1, <4>3 DEF Answered
      <4> QED BY <3>1, <4>4
    <3>4. CASE x \in live
      <4>1. \A b \in Subscriber : x # SubCurrent(b)
        <5> SUFFICES ASSUME NEW b \in Subscriber, x = SubCurrent(b) PROVE FALSE OBVIOUS
        <5>1. InTime(s, a) /\ b = a /\ x = old BY <1>7, <1>8, <3>2
        <5> QED BY <1>6, <1>7, <3>2, <3>4, <5>1
      <4>2. CASE x \in SubHeld
        <5>1. PICK t \in SubLate : x = run[t[1]].new[t[2]].id BY <4>1, <4>2 DEF SubHeld
        <5>2. PICK r \in Scheduler, b \in Subscriber : t = <<r, b>> BY DEF SubLate
        <5>3. r = s /\ b = a
          <6> SUFFICES ASSUME r # s \/ b # a PROVE FALSE OBVIOUS
          <6>1. <<r, b>> \in SubLate' /\ run'[r].new[b] = run[r].new[b] BY <1>2, <1>3, <5>2
          <6>2. x = run[r].new[b].id BY <5>1, <5>2
          <6> QED BY <3>2, <6>1, <6>2
        <5>4. t = <<s, a>> /\ x = old BY <5>1, <5>2, <5>3
        <5>5. <<s, a>> \notin SubLate' BY <1>5, <1>6, <3>4, <5>4
        <5>6. late \in SubDebt BY <5>1, <5>4 DEF SubDebt
        <5>7. f[late] = <<old, "loose">> BY <5>5, <5>6
        <5> QED BY <3>1, <5>4, <5>6, <5>7
      <4>3. CASE x \notin SubHeld
        <5>1. e \in SubDebt BY <3>1, <3>4, <4>3 DEF SubDebt
        <5>2. f[e] = e BY <3>1, <5>1
        <5> QED BY <5>1, <5>2
      <4> QED BY <4>2, <4>3
    <3> QED BY <3>3, <3>4
  <2>3. \/ \E x \in live' \ SubHeld' : e = <<x, "loose">>
        \/ \E t \in SubLate' : e = <<t, "late">>
    BY DEF SubDebt
  <2> QED BY <2>1, <2>2, <2>3
<1> HIDE DEF f, X
<1> QED BY <1>9, <1>10, DebtStep

\* What a commit writes: the id the tick has rewritten, or the one the row has by now.
LEMMA WrittenRow ==
    ASSUME SubAssumption, SubSound, NEW s \in Scheduler, NEW a \in Subscriber
    PROVE  LET w == Subscriptions!Written(subRow[a], run[s].read[a], run[s].new[a])
           IN  /\ SubRowIsSound(w)
               /\ w.id = IF Rewrites(s, a) THEN run[s].new[a].id ELSE subRow[a].id
               /\ w.there <=> subRow[a].there \/ run[s].new[a].there
<1> DEFINE now == subRow[a]
           read == run[s].read[a]
           new == run[s].new[a]
           w == Subscriptions!Written(now, read, new)
<1>1. /\ SubRowIsSound(now) /\ SubRowIsSound(read) /\ SubRowIsSound(new)
      /\ read.there => new.there /\ now.there
      /\ new.there /\ ~read.there => new.id # 0
  <2>1. SubRunIsSound(s) /\ SubRowIsSound(now) /\ (read.there =>
        now.there) BY DEF SubSound, RowsStay
  <2> QED BY <2>1 DEF SubRunIsSound
<1>2. /\ now.there \in BOOLEAN /\ read.there \in BOOLEAN /\ new.there \in BOOLEAN
      /\ now.id \in 0..made /\ read.id \in 0..made /\ new.id \in 0..made
      /\ now \in Subscriptions!RowType /\ read \in Subscriptions!RowType
      /\ new \in Subscriptions!RowType
      /\ ~now.there => now.id = 0
      /\ ~read.there => read.id = 0
      /\ ~new.there => new.id = 0
  BY <1>1 DEF SubRowIsSound, Subscriptions!RowType
<1> HIDE DEF now, read, new
<1>3. CASE ~read.there
  <2>1. CASE new.there
    <3>1. w = new BY <1>3, <2>1 DEF Subscriptions!Written
    <3> QED BY <1>1, <1>2, <1>3, <2>1, <3>1 DEF Rewrites, now, read, new
  <2>2. CASE ~new.there
    <3>1. w = now BY <1>3, <2>2 DEF Subscriptions!Written
    <3> QED BY <1>1, <1>2, <1>3, <2>2, <3>1 DEF Rewrites, now, read, new
  <2> QED BY <2>1, <2>2
<1>4. CASE read.there
  <2>1. w = [there |-> now.there,
             id |-> IF new.id = read.id THEN now.id ELSE new.id,
             status |-> IF new.status = read.status THEN now.status ELSE new.status,
             due |-> IF new.due = read.due THEN now.due ELSE new.due]
    BY <1>4 DEF Subscriptions!Written
  <2>2. /\ w.there = now.there /\ w.id = IF new.id = read.id THEN now.id ELSE new.id
        /\ now.there /\ new.there
    BY <1>1, <1>4, <2>1
  <2>3. w \in Subscriptions!RowType
    <3>1. /\ now.status \in Subscriptions!Event \cup {"pending", "active", "error",
             "reauth_required"}
          /\ new.status \in Subscriptions!Event \cup {"pending", "active", "error",
               "reauth_required"}
          /\ now.due \in BOOLEAN /\ new.due \in BOOLEAN
          /\ now.id \in Subscriptions!Id \cup {0} /\ new.id \in Subscriptions!Id \cup {0}
      BY <1>2 DEF Subscriptions!RowType
    <3> QED BY <1>2, <2>1, <3>1 DEF Subscriptions!RowType
  <2>4. w.id \in 0..made BY <1>2, <2>2
  <2>5. SubRowIsSound(w) BY <2>2, <2>3, <2>4 DEF SubRowIsSound
  <2> QED BY <2>2, <2>5 DEF Rewrites, now, read, new
<1> QED BY <1>3, <1>4 DEF now, read, new

\* The tick s has committed what it has written, at its end or before.
Committed(s) ==
    /\ UNCHANGED <<live, made, events, excused, removals, subFailures>>
    /\ run[s].on
    /\ subRow' = [a \in Subscriber |-> Subscriptions!Written(subRow[a], run[s].read[a],
         run[s].new[a])]
    /\ connected' = connected \ run[s].gone
    /\ \A r \in Scheduler \ {s} : run'[r] = run[r]
    /\ \/ /\ run[s].todo = {} /\ run'[s] = Subscriptions!NoRun
          /\ tickLock' = IF tickLock = s THEN NoScheduler ELSE tickLock
       \/ /\ run'[s] = [run[s] EXCEPT !.read = run[s].new, !.created = {}, !.gone = {}]
          /\ UNCHANGED tickLock

\* Both commits are of one form, ...
LEMMA CommitForms ==
    ASSUME SubAssumption, SubSound, NEW s \in Scheduler, Subscriptions!Commit(s)
           \/ Subscriptions!CommitEarly(s)
    PROVE  Committed(s) /\ run' \in [Scheduler -> RunType]
<1>1. run \in [Scheduler -> RunType] /\ run[s] \in RunType BY SubTyped
<1>2. Subscriptions!NoRun \in RunType BY
      DEF Subscriptions!NoRun, RunType, Subscriptions!NoRow, Subscriptions!RowType, Subscriptions!Id
<1>3. CASE Subscriptions!Commit(s) BY <1>1, <1>2, <1>3
           DEF Subscriptions!Commit, Committed, Subscriptions!Release
<1>4. CASE Subscriptions!CommitEarly(s)
  <2> DEFINE q == [run[s] EXCEPT !.read = run[s].new, !.created = {}, !.gone = {}]
  <2>1. run[s].on
    <3>1. SubRunIsSound(s) /\ run[s].todo # {} BY <1>4 DEF SubSound, Subscriptions!CommitEarly
    <3> QED BY <3>1 DEF SubRunIsSound, Subscriptions!NoRun
  <2>2. run' = [run EXCEPT ![s] = q] BY <1>1, <1>4 DEF Subscriptions!CommitEarly
  <2>3. q \in RunType BY <1>1 DEF RunType
  <2> QED BY <1>1, <1>4, <2>1, <2>2, <2>3 DEF Subscriptions!CommitEarly, Committed
<1> QED BY <1>3, <1>4

\* ... which keeps ticks sound ...
LEMMA CommitSound ==
    ASSUME SubAssumption, SubSound, NEW s \in Scheduler, Committed(s),
           run' \in [Scheduler -> RunType]
    PROVE  SubSound'
<1>1. \A a \in Subscriber :
          /\ SubRowIsSound(subRow[a])' 
          /\ subRow'[a].id = IF Rewrites(s, a) THEN run[s].new[a].id ELSE subRow[a].id
          /\ subRow'[a].there <=> subRow[a].there \/ run[s].new[a].there
  <2> SUFFICES ASSUME NEW a \in Subscriber
               PROVE  /\ SubRowIsSound(subRow[a])'
                      /\ subRow'[a].id = IF Rewrites(s, a) THEN run[s].new[a].id ELSE subRow[a].id
                      /\ subRow'[a].there <=> subRow[a].there \/ run[s].new[a].there
    OBVIOUS
  <2> DEFINE w == Subscriptions!Written(subRow[a], run[s].read[a], run[s].new[a])
  <2>1. subRow'[a] = w /\ made' = made BY DEF Committed
  <2>2. /\ SubRowIsSound(w)
        /\ w.id = IF Rewrites(s, a) THEN run[s].new[a].id ELSE subRow[a].id
        /\ w.there <=> subRow[a].there \/ run[s].new[a].there
    BY WrittenRow
  <2> HIDE DEF w
  <2> QED BY <2>1, <2>2
             DEF SubRowIsSound, Subscriptions!RowType, Subscriptions!Id, Subscriptions!Event
<1>2. subRow' \in [Subscriber -> Subscriptions!RowType]
  <2>1. \A a \in Subscriber : subRow'[a] \in Subscriptions!RowType BY <1>1
        DEF SubRowIsSound, Subscriptions!RowType, Subscriptions!Id, Subscriptions!Event
  <2>2. subRow' = [a \in Subscriber |-> subRow'[a]] BY DEF Committed
  <2> QED BY <2>1, <2>2
<1>3. Subscriptions!TypeOK'
  <2>1. connected' \subseteq Subscriber BY DEF SubSound, Subscriptions!TypeOK, Committed
  <2>2. tickLock' \in Scheduler \cup {NoScheduler} BY SubTyped DEF Committed
  <2> QED BY <1>2, <2>1, <2>2
       DEF SubSound, Subscriptions!TypeOK, Committed, RunType, Subscriptions!Id,
         Subscriptions!RowType, Subscriptions!Event
<1>4. run'[s] = Subscriptions!NoRun
      \/ run'[s] = [run[s] EXCEPT !.read = run[s].new, !.created = {}, !.gone = {}]
  BY DEF Committed
<1>5. run \in [Scheduler -> RunType] /\ run[s] \in RunType BY SubTyped
<1>6. \/ run'[s] = Subscriptions!NoRun
      \/ /\ run'[s].on /\ run'[s].read = run[s].new /\ run'[s].new = run[s].new
         /\ run'[s].created = {} /\ run'[s].todo = run[s].todo
  <2>1. run[s].on BY DEF Committed
  <2>2. CASE run'[s] = [run[s] EXCEPT !.read = run[s].new, !.created = {}, !.gone = {}]
    BY <1>5, <2>1, <2>2 DEF RunType
  <2> QED BY <1>4, <2>2
<1>7. made' = made /\ made \in Nat BY SubTyped DEF Committed
<1>8. SubRunIsSound(s)'
  <2>1. CASE run'[s] = Subscriptions!NoRun
    BY <1>7, <2>1
       DEF SubRunIsSound, SubRowIsSound, Rewrites, Subscriptions!NoRun, Subscriptions!NoRow,
       Subscriptions!RowType, Subscriptions!Id, Subscriptions!Event
  <2>2. CASE /\ run'[s].on /\ run'[s].read = run[s].new /\ run'[s].new = run[s].new
             /\ run'[s].created = {} /\ run'[s].todo = run[s].todo
    <3>1. \A a \in Subscriber : SubRowIsSound(run[s].new[a]) BY DEF SubSound, SubRunIsSound
    <3>2. \A a \in Subscriber : SubRowIsSound(run[s].read[a])' /\ SubRowIsSound(run[s].new[a])'
      BY <1>7, <2>2, <3>1
         DEF SubRowIsSound, Subscriptions!RowType, Subscriptions!Id, Subscriptions!Event
    <3> QED BY <2>2, <3>2 DEF SubRunIsSound, Rewrites
  <2> QED BY <1>6, <2>1, <2>2
<1>9. ASSUME NEW r \in Scheduler, r # s PROVE SubRunIsSound(r)'
  <2>1. run'[r] = run[r] /\ SubRunIsSound(r) BY <1>9 DEF Committed, SubSound
  <2> QED BY <1>7, <2>1
             DEF SubRunIsSound, SubRowIsSound, Rewrites, Subscriptions!RowType, Subscriptions!Id,
             Subscriptions!Event, Subscriptions!NoRun, Subscriptions!NoRow
<1>10. RowsStay'
  <2> SUFFICES ASSUME NEW r \in Scheduler, NEW a \in Subscriber, run'[r].read[a].there
               PROVE  subRow'[a].there
    BY DEF RowsStay
  <2>1. CASE r = s BY <1>1, <1>6, <2>1 DEF Subscriptions!NoRun, Subscriptions!NoRow
  <2>2. CASE r # s
    <3>1. run'[r] = run[r] BY <2>2 DEF Committed
    <3> QED BY <1>1, <3>1 DEF SubSound, RowsStay
  <2> QED BY <2>1, <2>2
<1>11. CreatedAreNew'
  <2> SUFFICES ASSUME NEW o \in Scheduler, NEW x \in run'[o].created
               PROVE  /\ \A a \in Subscriber : subRow'[a].id # x
                      /\ \A r \in Scheduler, a \in Subscriber : run'[r].read[a].id # x
                      /\ \A r \in Scheduler \ {o} : x \notin run'[r].created
    BY DEF CreatedAreNew
  <2>1. o # s BY <1>6 DEF Subscriptions!NoRun
  <2>2. x \in run[o].created /\ x \in 1..made
    <3>1. run'[o] = run[o] BY <2>1 DEF Committed
    <3> QED BY <3>1 DEF SubSound, SubRunIsSound
  <2>3. /\ \A a \in Subscriber : subRow[a].id # x
        /\ \A r \in Scheduler, a \in Subscriber : run[r].read[a].id # x
        /\ \A r \in Scheduler \ {o} : x \notin run[r].created
    BY <2>2 DEF SubSound, CreatedAreNew
  <2>4. \A a \in Subscriber : run[s].new[a].id # x
    <3> SUFFICES ASSUME NEW a \in Subscriber, run[s].new[a].id = x PROVE FALSE OBVIOUS
    <3>1. Rewrites(s, a) BY <2>3 DEF Rewrites
    <3>2. x \in run[s].created \cup {0} BY <3>1 DEF SubSound, SubRunIsSound
    <3> QED BY <2>1, <2>2, <2>3, <3>2
  <2>5. \A a \in Subscriber : subRow'[a].id # x BY <1>1, <2>3, <2>4
  <2>6. \A r \in Scheduler, a \in Subscriber : run'[r].read[a].id # x
    <3> SUFFICES ASSUME NEW r \in Scheduler, NEW a \in Subscriber
                 PROVE  run'[r].read[a].id # x OBVIOUS
    <3>1. CASE r # s
      <4>1. run'[r] = run[r] BY <3>1 DEF Committed
      <4> QED BY <2>3, <4>1
    <3>2. CASE r = s /\ run'[s] = Subscriptions!NoRun BY <2>2, <3>2
               DEF Subscriptions!NoRun, Subscriptions!NoRow
    <3>3. CASE r = s /\ run'[s].read = run[s].new BY <2>4, <3>3
    <3> QED BY <1>6, <3>1, <3>2, <3>3
  <2>7. \A r \in Scheduler \ {o} : x \notin run'[r].created
    <3> SUFFICES ASSUME NEW r \in Scheduler \ {o} PROVE x \notin run'[r].created OBVIOUS
    <3>1. CASE r # s
      <4>1. run'[r] = run[r] BY <3>1 DEF Committed
      <4> QED BY <2>3, <4>1
    <3>2. CASE r = s BY <1>6, <3>2 DEF Subscriptions!NoRun
    <3> QED BY <3>1, <3>2
  <2> QED BY <2>5, <2>6, <2>7
<1> QED BY <1>1, <1>3, <1>8, <1>9, <1>10, <1>11 DEF SubSound

\* ... and the debt excused: a commit in time holds what it wrote, and a late one turns its own
\* lateness into the subscription it writes over.
LEMMA CommitDebt ==
    ASSUME SubAssumption, SubInv, NEW s \in Scheduler, Committed(s), run' \in [Scheduler -> RunType]
    PROVE  DebtIsExcused'
<1> DEFINE Changed(b) == Rewrites(s, b) /\ ~InTime(s, b)
           f == [d \in SubDebt |->
                    IF \E b \in Subscriber : d = <<<<s, b>>, "late">> /\ Changed(b)
                    THEN IF <<tickLock, d[1][2]>> \in SubLate' \ SubLate THEN <<<<tickLock,
                      d[1][2]>>, "late">>
                         ELSE <<SubCurrent(d[1][2]), "loose">>
                    ELSE d]
<1>1. /\ run \in [Scheduler -> RunType] /\ run[s] \in RunType /\ run[s].on
      /\ live \subseteq 1..made /\ made \in Nat /\ tickLock \in Scheduler \cup {NoScheduler}
      /\ \A r \in Scheduler \ {s} : run'[r] = run[r]
      /\ live' = live /\ excused' = excused /\ excused \in Nat
  BY SubTyped DEF SubInv, Committed
<1>2. \A b \in Subscriber : subRow'[b].id = IF Rewrites(s,
      b) THEN run[s].new[b].id ELSE subRow[b].id
  <2> SUFFICES ASSUME NEW b \in Subscriber
               PROVE  subRow'[b].id = IF Rewrites(s, b) THEN run[s].new[b].id ELSE subRow[b].id
    OBVIOUS
  <2>1. subRow'[b] = Subscriptions!Written(subRow[b], run[s].read[b], run[s].new[b]) BY
        DEF Committed
  <2> QED BY <2>1, WrittenRow DEF SubInv
<1>3. \/ run[s].todo = {} /\ ~run'[s].on
         /\ tickLock' = IF tickLock = s THEN NoScheduler ELSE tickLock
      \/ /\ run'[s].on /\ run'[s].read = run[s].new /\ run'[s].new = run[s].new
         /\ run'[s].todo = run[s].todo /\ tickLock' = tickLock
  <2>1. CASE run[s].todo = {} /\ run'[s] = Subscriptions!NoRun
             /\ tickLock' = IF tickLock = s THEN NoScheduler ELSE tickLock
    BY <2>1 DEF Subscriptions!NoRun
  <2>2. CASE run'[s] = [run[s] EXCEPT !.read = run[s].new, !.created = {}, !.gone = {}]
             /\ UNCHANGED tickLock
    BY <1>1, <2>2 DEF RunType
  <2> QED BY <2>1, <2>2 DEF Committed
<1>4. \A b \in Subscriber : b \in run[s].todo => run[s].new[b] = run[s].read[b] /\ ~Rewrites(s, b)
  BY DEF SubInv, SubSound, SubRunIsSound, Rewrites
\* What the other ticks hold is not what this one has created.
<1>5. \A r \in Scheduler, b \in Subscriber : Rewrites(s, b)
      /\ run[r].read[b].id = run[s].new[b].id => run[s].new[b].id = 0
  BY DEF SubInv, SubSound, SubRunIsSound, CreatedAreNew
<1>6. 0 \notin live BY <1>1
<1>7. \A r \in Scheduler \ {s}, b \in Subscriber :
          /\ InTime(r, b) <=> r = tickLock /\ run[r].on /\ run[r].read[b].id = subRow[b].id
          /\ InTime(r, b)' <=> r = tickLock /\ run[r].on /\ run[r].read[b].id = subRow'[b].id
          /\ run'[r] = run[r] /\ (Rewrites(r, b)' <=> Rewrites(r, b))
  <2> SUFFICES ASSUME NEW r \in Scheduler \ {s}, NEW b \in Subscriber
               PROVE  /\ InTime(r, b) <=> r = tickLock /\ run[r].on
                         /\ run[r].read[b].id = subRow[b].id
                      /\ InTime(r, b)' <=> r = tickLock /\ run[r].on
                           /\ run[r].read[b].id = subRow'[b].id
                      /\ run'[r] = run[r] /\ (Rewrites(r, b)' <=> Rewrites(r, b))
    OBVIOUS
  <2>1. run'[r] = run[r] BY <1>1
  <2>2. r = tickLock' <=> r = tickLock
    <3>1. r # NoScheduler BY DEF SubAssumption
    <3> QED BY <1>3, <3>1
  <2> QED BY <2>1, <2>2 DEF InTime, Rewrites
<1>8. \A b \in Subscriber :
          /\ InTime(s, b) <=> s = tickLock /\ run[s].read[b].id = subRow[b].id
          /\ InTime(s, b)' <=> s = tickLock /\ run'[s].on /\ run[s].new[b].id = subRow'[b].id
  BY <1>1, <1>3 DEF InTime, SubAssumption
<1>9. \A b \in Subscriber : SubCurrent(b)' # SubCurrent(b) =>
      subRow'[b].id # subRow[b].id /\ Changed(b)
  <2> SUFFICES ASSUME NEW b \in Subscriber, ~(subRow'[b].id # subRow[b].id /\ Changed(b))
               PROVE  SubCurrent(b)' = SubCurrent(b)
    OBVIOUS
  <2>1. CASE InTime(s, b)
    <3>1. s = tickLock /\ SubCurrent(b) = run[s].new[b].id /\ subRow'[b].id = run[s].new[b].id
      BY <1>2, <1>8, <2>1 DEF SubCurrent, Rewrites
    <3>2. CASE run'[s].on
      <4>1. InTime(s, b)' BY <1>8, <3>1, <3>2
      <4>2. tickLock' = s /\ run'[s].new = run[s].new BY <1>3, <3>1, <3>2
      <4> QED BY <3>1, <4>1, <4>2 DEF SubCurrent
    <3>3. CASE ~run'[s].on
      <4>1. \A r \in Scheduler : ~InTime(r, b)' BY <1>7, <1>8, <3>1, <3>3
      <4> QED BY <3>1, <4>1 DEF SubCurrent
    <3> QED BY <3>2, <3>3
  <2>2. CASE ~InTime(s, b) /\ subRow'[b].id = subRow[b].id
    <3>1. CASE \E r \in Scheduler \ {s} : InTime(r, b)
      <4>1. PICK r \in Scheduler \ {s} : InTime(r, b) BY <3>1
      <4>2. InTime(r, b)' /\ r = tickLock /\ run'[r] = run[r] /\ tickLock' = tickLock
        BY <1>3, <1>7, <2>2, <4>1
      <4> QED BY <4>1, <4>2 DEF SubCurrent
    <3>2. CASE ~\E r \in Scheduler \ {s} : InTime(r, b)
      <4>1. \A r \in Scheduler : ~InTime(r, b) BY <2>2, <3>2
      <4>2. SubCurrent(b) = subRow[b].id BY <4>1 DEF SubCurrent
      <4>3. \A r \in Scheduler \ {s} : ~InTime(r, b)' BY <1>7, <2>2, <3>2
      <4>4. CASE InTime(s, b)'
        <5>1. tickLock' = s /\ run'[s].new = run[s].new /\ run[s].new[b].id = subRow'[b].id
          BY <1>3, <1>8, <4>4 DEF InTime
        <5>2. SubCurrent(b)' = run'[s].new[b].id BY <4>4, <5>1 DEF SubCurrent
        <5> QED BY <2>2, <4>2, <5>1, <5>2
      <4>5. CASE ~InTime(s, b)'
        <5>1. SubCurrent(b)' = subRow'[b].id BY <4>3, <4>5 DEF SubCurrent
        <5> QED BY <2>2, <4>2, <5>1
      <4> QED BY <4>4, <4>5
    <3> QED BY <3>1, <3>2
  <2>3. subRow'[b].id = subRow[b].id \/ InTime(s, b) BY <1>2 DEF Changed
  <2> QED BY <2>1, <2>2, <2>3
<1>10. \A b \in Subscriber : Changed(b) => <<s, b>> \in SubLate /\ <<s, b>> \notin SubLate'
  BY <1>1, <1>3, <1>4, <1>8 DEF SubLate, Rewrites
<1>11. \A r \in Scheduler \ {s}, b \in Subscriber :
          <<r, b>> \in SubLate' \ SubLate => r = tickLock /\ Changed(b) /\ InTime(r, b)
  <2> SUFFICES ASSUME NEW r \in Scheduler \ {s}, NEW b \in Subscriber, <<r, b>> \in SubLate', <<r,
                      b>> \notin SubLate
               PROVE  r = tickLock /\ Changed(b) /\ InTime(r, b)
    OBVIOUS
  <2>1. InTime(r, b) /\ ~InTime(r, b)' BY <1>7 DEF SubLate
  <2>2. subRow'[b].id # subRow[b].id /\ r = tickLock BY <1>7, <2>1
  <2>3. Rewrites(s, b) BY <1>2, <2>2
  <2>4. ~InTime(s, b) BY <2>2 DEF InTime
  <2> QED BY <2>1, <2>2, <2>3, <2>4
<1>12. SubDebt' \subseteq {f[d] : d \in SubDebt} \cup {}
  <2> SUFFICES ASSUME NEW e \in SubDebt' PROVE \E d \in SubDebt : f[d] = e OBVIOUS
  <2>1. ASSUME NEW b \in Subscriber, Changed(b)
        PROVE  /\ <<<<s, b>>, "late">> \in SubDebt
               /\ f[<<<<s, b>>, "late">>] = IF <<tickLock, b>> \in SubLate' \ SubLate
                                           THEN <<<<tickLock, b>>, "late">> ELSE <<SubCurrent(b),
                                             "loose">>
    <3>1. <<s, b>> \in SubLate BY <1>10, <2>1
    <3>2. <<<<s, b>>, "late">> \in SubDebt BY <3>1 DEF SubDebt
    <3>3. \E c \in Subscriber : <<<<s, b>>, "late">> = <<<<s, c>>, "late">> /\ Changed(c) BY <2>1
    <3> HIDE DEF Changed
    <3> QED BY <3>2, <3>3
  <2>2. ASSUME NEW d \in SubDebt, ~\E b \in Subscriber : d = <<<<s, b>>, "late">> /\ Changed(b)
        PROVE  f[d] = d
    <3> HIDE DEF Changed
    <3> QED BY <2>2
  <2> HIDE DEF f
  <2>3. CASE \E t \in SubLate' : e = <<t, "late">>
    <3>1. PICK t \in SubLate' : e = <<t, "late">> BY <2>3
    <3>2. PICK r \in Scheduler, b \in Subscriber : t = <<r, b>> BY DEF SubLate
    <3>3. CASE t \in SubLate
      <4>1. e \in SubDebt BY <3>1, <3>3 DEF SubDebt
      <4>2. ~\E c \in Subscriber : e = <<<<s, c>>, "late">> /\ Changed(c)
        <5> HIDE DEF Changed
        <5> QED BY <1>10, <3>1
      <4> QED BY <2>2, <4>1, <4>2
    <3>4. CASE t \notin SubLate
      <4>1. r # s
        <5> SUFFICES ASSUME r = s PROVE FALSE OBVIOUS
        <5>1. run'[s].on /\ ~InTime(s, b)' /\ (b \in run'[s].todo \/ Rewrites(s, b)')
          BY <3>2 DEF SubLate
        <5>2. b \in run[s].todo /\ run'[s].new = run[s].new BY <1>3, <5>1 DEF Rewrites
        <5>3. run[s].new[b] = run[s].read[b] /\ subRow'[b].id = subRow[b].id BY <1>2, <1>4, <5>2
        <5>4. ~InTime(s, b) BY <1>8, <5>1, <5>3
        <5> QED BY <1>1, <3>2, <3>4, <5>2, <5>4 DEF SubLate
      <4>2. r = tickLock /\ Changed(b) /\ <<tickLock, b>> \in SubLate' \ SubLate
        BY <1>11, <3>1, <3>2, <3>4, <4>1
      <4> HIDE DEF Changed
      <4> QED BY <2>1, <3>1, <3>2, <4>2
    <3> QED BY <3>3, <3>4
  <2>4. CASE \E x \in live' \ SubHeld' : e = <<x, "loose">>
    <3>1. PICK x \in live' \ SubHeld' : e = <<x, "loose">> BY <2>4
    <3>2. x \in live /\ x # 0 BY <1>1, <1>6, <3>1
    <3>3. /\ \A b \in Subscriber : x # SubCurrent(b)'
          /\ \A r \in Scheduler, b \in Subscriber : <<r, b>> \in SubLate' => x # run'[r].new[b].id
      <4>1. \A t \in SubLate' : x # run'[t[1]].new[t[2]].id BY <3>1 DEF SubHeld
      <4> QED BY <3>1, <4>1 DEF SubHeld
    <3>4. CASE x \notin SubHeld
      <4>1. e \in SubDebt BY <3>1, <3>2, <3>4 DEF SubDebt
      <4>2. ~\E c \in Subscriber : e = <<<<s, c>>, "late">> /\ Changed(c) BY <3>1
      <4> HIDE DEF Changed
      <4> QED BY <2>2, <4>1, <4>2
    <3>5. ASSUME NEW b \in Subscriber, x = SubCurrent(b) PROVE \E d \in SubDebt : f[d] = e
      <4>1. Changed(b) BY <1>9, <3>3, <3>5
      <4>2. CASE <<tickLock, b>> \in SubLate' \ SubLate
        <5>1. tickLock \in Scheduler BY <4>2 DEF SubLate
        <5>2. tickLock # s BY <1>10, <4>1, <4>2
        <5>3. InTime(tickLock, b) /\ run'[tickLock] = run[tickLock] BY <1>1, <1>11, <4>2, <5>1, <5>2
        <5>4. x = run[tickLock].new[b].id BY <3>5, <5>1, <5>3 DEF SubCurrent
        <5> QED BY <3>3, <4>2, <5>1, <5>3, <5>4
      <4>3. CASE <<tickLock, b>> \notin SubLate' \ SubLate
        <5> HIDE DEF Changed
        <5> QED BY <2>1, <3>1, <3>5, <4>1, <4>3
      <4> QED BY <4>2, <4>3
    <3>6. ASSUME NEW t \in SubLate, x = run[t[1]].new[t[2]].id PROVE FALSE
      <4>1. PICK r \in Scheduler, b \in Subscriber : t = <<r, b>> BY DEF SubLate
      <4>2. x = run[r].new[b].id /\ <<r, b>> \in SubLate BY <3>6, <4>1
      <4>3. CASE r # s
        <5>1. run'[r] = run[r] BY <1>1, <4>3
        <5>2. <<r, b>> \notin SubLate' BY <3>3, <4>2, <5>1
        <5>3. InTime(r, b)' BY <1>7, <4>2, <4>3, <5>1, <5>2 DEF SubLate
        <5>4. tickLock' = r BY <5>3 DEF InTime
        <5>5. SubCurrent(b)' = run'[r].new[b].id BY <5>3, <5>4 DEF SubCurrent
        <5> QED BY <3>3, <4>2, <5>1, <5>5
      <4>4. CASE r = s
        <5>1. ~InTime(s, b) /\ (b \in run[s].todo \/ Rewrites(s, b)) BY <4>2, <4>4 DEF SubLate
        <5>2. CASE b \in run[s].todo
          <6>1. run'[s].on /\ run'[s].new = run[s].new /\ run'[s].todo = run[s].todo BY <1>3, <5>2
          <6>2. run[s].new[b] = run[s].read[b] /\ subRow'[b].id = subRow[b].id BY <1>2, <1>4, <5>2
          <6>3. ~InTime(s, b)' BY <1>8, <5>1, <6>2
          <6>4. <<s, b>> \in SubLate' BY <5>2, <6>1, <6>3 DEF SubLate
          <6> QED BY <3>3, <4>2, <4>4, <6>1, <6>4
        <5>3. CASE Rewrites(s, b)
          <6>1. subRow'[b].id = x BY <1>2, <4>2, <4>4, <5>3
          <6>2. CASE InTime(s, b)'
            <7>1. tickLock' = s /\ run'[s].new = run[s].new BY <1>3, <6>2 DEF InTime
            <7> QED BY <3>3, <4>2, <4>4, <6>2, <7>1 DEF SubCurrent
          <6>3. ASSUME NEW o \in Scheduler \ {s}, InTime(o, b)' PROVE FALSE
            <7>1. run[o].read[b].id = x BY <1>7, <6>1, <6>3
            <7> QED BY <1>5, <3>2, <4>2, <4>4, <5>3, <7>1
          <6>4. CASE \A o \in Scheduler : ~InTime(o, b)' BY <3>3, <6>1, <6>4 DEF SubCurrent
          <6> QED BY <6>2, <6>3, <6>4
        <5> QED BY <5>1, <5>2, <5>3
      <4> QED BY <4>3, <4>4
    <3> QED BY <3>4, <3>5, <3>6 DEF SubHeld
  <2>5. \/ \E x \in live' \ SubHeld' : e = <<x, "loose">>
        \/ \E t \in SubLate' : e = <<t, "late">>
    BY DEF SubDebt
  <2> QED BY <2>3, <2>4, <2>5
<1> HIDE DEF f
<1>13. IsFiniteSet({}) /\ excused' \in Nat /\ excused' >= excused + Cardinality({})
  BY <1>1, FS_EmptySet
<1> QED BY <1>12, <1>13, DebtStep

\* The tick s has ended without a commit.
Abandoned(s) ==
    /\ UNCHANGED <<subRow, connected, live, made, events, removals>>
    /\ run[s].on /\ run' = [run EXCEPT ![s] = Subscriptions!NoRun]
    /\ tickLock' = tickLock \/ tickLock' = IF tickLock = s THEN NoScheduler ELSE tickLock
    /\ excused' = excused + Cardinality(run[s].created) /\ subFailures' \in Nat

\* A crash and a failed commit are of one form, ...
LEMMA AbandonForms ==
    ASSUME SubAssumption, SubSound, NEW s \in Scheduler, Subscriptions!CommitFails(s)
           \/ Subscriptions!Crash(s)
    PROVE  Abandoned(s)
BY SameCard
   DEF SubSound, Subscriptions!TypeOK, Subscriptions!CommitFails, Subscriptions!Crash,
   Subscriptions!Fails, Subscriptions!Release, Abandoned

\* ... which excuses as many subscriptions as the tick has created.
LEMMA AbandonSound ==
    ASSUME SubAssumption, SubInv, NEW s \in Scheduler, Abandoned(s)
    PROVE  SubSound' /\ DebtIsExcused'
<1>1. /\ run \in [Scheduler -> RunType] /\ run[s] \in RunType /\ run[s].on
      /\ live \subseteq 1..made /\ made \in Nat /\ excused \in Nat
      /\ tickLock \in Scheduler \cup {NoScheduler}
      /\ run'[s] = Subscriptions!NoRun /\ \A r \in Scheduler \ {s} : run'[r] = run[r]
      /\ Subscriptions!NoRun \in RunType
  BY SubTyped
     DEF SubInv, Abandoned, Subscriptions!NoRun, RunType, Subscriptions!NoRow,
     Subscriptions!RowType, Subscriptions!Id
<1>2. /\ ~Subscriptions!NoRun.on /\ Subscriptions!NoRun.todo = {}
      /\ Subscriptions!NoRun.created = {}
      /\ \A a \in Subscriber : Subscriptions!NoRun.read[a] = Subscriptions!NoRow
           /\ Subscriptions!NoRun.new[a] = Subscriptions!NoRow
      /\ Subscriptions!NoRow.id = 0 /\ ~Subscriptions!NoRow.there
      /\ Subscriptions!NoRow \in Subscriptions!RowType
  BY DEF Subscriptions!NoRun, Subscriptions!NoRow, Subscriptions!RowType, Subscriptions!Id
<1>3. IsFiniteSet(run[s].created) /\ Cardinality(run[s].created) \in Nat
  <2>1. run[s].created \subseteq 1..made BY DEF SubInv, SubSound, SubRunIsSound
  <2>2. IsFiniteSet(1..made) BY <1>1, FS_Interval
  <2> QED BY <2>1, <2>2, FS_Subset, FS_CardinalityType
<1>4. SubSound'
  <2>1. Subscriptions!TypeOK'
    <3>1. run' \in [Scheduler -> RunType] BY <1>1 DEF Abandoned
    <3>2. tickLock' \in Scheduler \cup {NoScheduler} BY <1>1 DEF Abandoned
    <3>3. excused' \in Nat /\ subFailures' \in Nat BY <1>1, <1>3 DEF Abandoned
    <3> QED BY <3>1, <3>2, <3>3
         DEF SubInv, SubSound, Subscriptions!TypeOK, Abandoned, RunType, Subscriptions!Id,
           Subscriptions!RowType, Subscriptions!Event
  <2>2. \A a \in Subscriber : SubRowIsSound(subRow[a])'
    BY DEF SubInv, SubSound, SubRowIsSound, Abandoned, Subscriptions!RowType, Subscriptions!Id,
       Subscriptions!Event
  <2>3. SubRunIsSound(s)'
    BY <1>1, <1>2
       DEF SubRunIsSound, SubRowIsSound, Rewrites, Abandoned, Subscriptions!RowType,
       Subscriptions!Id, Subscriptions!Event, Subscriptions!NoRun, Subscriptions!NoRow
  <2>4. ASSUME NEW r \in Scheduler, r # s PROVE SubRunIsSound(r)'
    <3>1. run'[r] = run[r] /\ SubRunIsSound(r) /\ made' = made BY <1>1, <2>4
          DEF SubInv, SubSound, Abandoned
    <3> QED BY <3>1
               DEF SubRunIsSound, SubRowIsSound, Rewrites, Subscriptions!RowType, Subscriptions!Id,
               Subscriptions!Event, Subscriptions!NoRun, Subscriptions!NoRow
  <2>5. RowsStay'
    <3> SUFFICES ASSUME NEW r \in Scheduler, NEW a \in Subscriber, run'[r].read[a].there
                 PROVE  subRow'[a].there
      BY DEF RowsStay
    <3>1. r # s BY <1>1, <1>2
    <3> QED BY <1>1, <3>1 DEF SubInv, SubSound, RowsStay, Abandoned
  <2>6. CreatedAreNew'
    <3> SUFFICES ASSUME NEW o \in Scheduler, NEW x \in run'[o].created
                 PROVE  /\ \A a \in Subscriber : subRow'[a].id # x
                        /\ \A r \in Scheduler, a \in Subscriber : run'[r].read[a].id # x
                        /\ \A r \in Scheduler \ {o} : x \notin run'[r].created
      BY DEF CreatedAreNew
    <3>1. o # s /\ x \in run[o].created BY <1>1, <1>2
    <3>2. x \in 1..made BY <3>1 DEF SubInv, SubSound, SubRunIsSound
    <3>3. /\ \A a \in Subscriber : subRow[a].id # x
          /\ \A r \in Scheduler, a \in Subscriber : run[r].read[a].id # x
          /\ \A r \in Scheduler \ {o} : x \notin run[r].created
      BY <3>1 DEF SubInv, SubSound, CreatedAreNew
    <3>4. \A r \in Scheduler : run'[r] = run[r] \/ run'[r] = Subscriptions!NoRun BY <1>1
    <3> QED BY <1>2, <3>2, <3>3, <3>4 DEF Abandoned
  <2> QED BY <2>1, <2>2, <2>3, <2>4, <2>5, <2>6 DEF SubSound
<1> DEFINE X == run[s].created \X {"loose"}
           f == [d \in SubDebt |->
                    IF \E b \in Subscriber : d = <<<<s, b>>, "late">> THEN <<run[s].new[d[1][2]].id,
                      "loose">> ELSE d]
<1>5. IsFiniteSet(X) /\ Cardinality(X) = Cardinality(run[s].created)
  <2>1. IsFiniteSet({"loose"}) /\ Cardinality({"loose"}) = 1 BY FS_Singleton
  <2>2. IsFiniteSet(X) /\ Cardinality(X) = Cardinality(run[s].created) * Cardinality({"loose"})
    BY <1>3, <2>1, FS_Product
  <2> QED BY <1>3, <2>1, <2>2
<1>6. \A r \in Scheduler, b \in Subscriber :
          /\ ~InTime(s, b)' 
          /\ r # s => (InTime(r, b)' <=> InTime(r, b)) /\ (Rewrites(r, b)' <=> Rewrites(r, b))
  <2> SUFFICES ASSUME NEW r \in Scheduler, NEW b \in Subscriber
               PROVE  /\ ~InTime(s, b)'
                      /\ r # s =>
                           (InTime(r, b)' <=> InTime(r, b)) /\ (Rewrites(r, b)' <=> Rewrites(r, b))
    OBVIOUS
  <2>1. ~InTime(s, b)' BY <1>1, <1>2 DEF InTime
  <2>2. CASE r # s
    <3>1. run'[r] = run[r] /\ subRow' = subRow BY <1>1, <2>2 DEF Abandoned
    <3>2. r = tickLock' <=> r = tickLock BY <2>2 DEF Abandoned, SubAssumption
    <3> QED BY <2>1, <3>1, <3>2 DEF InTime, Rewrites
  <2> QED BY <2>1, <2>2
<1>7. \A r \in Scheduler, b \in Subscriber :
          <<r, b>> \in SubLate' <=> <<r, b>> \in SubLate /\ r # s
  <2> SUFFICES ASSUME NEW r \in Scheduler, NEW b \in Subscriber
               PROVE  <<r, b>> \in SubLate' <=> <<r, b>> \in SubLate /\ r # s
    OBVIOUS
  <2>1. CASE r = s BY <1>1, <1>2, <2>1 DEF SubLate
  <2>2. CASE r # s
    <3>1. run'[r] = run[r] BY <1>1, <2>2
    <3> QED BY <1>6, <2>2, <3>1 DEF SubLate
  <2> QED BY <2>1, <2>2
<1>8. \A b \in Subscriber : SubCurrent(b)' # SubCurrent(b) =>
      SubCurrent(b) \in run[s].created \cup {0}
  <2> SUFFICES ASSUME NEW b \in Subscriber, SubCurrent(b)' # SubCurrent(b)
               PROVE  SubCurrent(b) \in run[s].created \cup {0}
    OBVIOUS
  <2>1. InTime(s, b)
    <3> SUFFICES ASSUME ~InTime(s, b) PROVE FALSE OBVIOUS
    <3>1. CASE \E r \in Scheduler : InTime(r, b)
      <4>1. PICK r \in Scheduler : InTime(r, b) BY <3>1
      <4>2. r # s /\ InTime(r, b)' BY <1>6, <4>1
      <4>3. r = tickLock /\ r = tickLock' /\ run'[r] = run[r] BY <1>1, <4>1, <4>2 DEF InTime
      <4> QED BY <4>1, <4>2, <4>3 DEF SubCurrent
    <3>2. CASE \A r \in Scheduler : ~InTime(r, b)
      <4>1. \A r \in Scheduler : ~InTime(r, b)' BY <1>6, <3>2
      <4> QED BY <3>2, <4>1 DEF SubCurrent, Abandoned
    <3> QED BY <3>1, <3>2
  <2>2. /\ s = tickLock /\ run[s].read[b].id = subRow[b].id /\ SubCurrent(b) = run[s].new[b].id
    BY <2>1 DEF InTime, SubCurrent
  <2>3. \A r \in Scheduler : ~InTime(r, b)' BY <1>6, <2>2 DEF InTime
  <2>4. SubCurrent(b)' = subRow[b].id BY <2>3 DEF SubCurrent, Abandoned
  <2>5. Rewrites(s, b) BY <2>2, <2>4 DEF Rewrites
  <2> QED BY <2>2, <2>5 DEF SubInv, SubSound, SubRunIsSound
<1>9. SubDebt' \subseteq {f[d] : d \in SubDebt} \cup X
  <2> SUFFICES ASSUME NEW e \in SubDebt' PROVE e \in X \/ \E d \in SubDebt : f[d] = e OBVIOUS
  <2>1. CASE \E t \in SubLate' : e = <<t, "late">>
    <3>1. PICK t \in SubLate' : e = <<t, "late">> BY <2>1
    <3>2. PICK r \in Scheduler, b \in Subscriber : t = <<r, b>> BY DEF SubLate
    <3>3. r # s /\ t \in SubLate BY <1>7, <3>1, <3>2
    <3>4. e \in SubDebt BY <3>1, <3>3 DEF SubDebt
    <3>5. ~\E c \in Subscriber : e = <<<<s, c>>, "late">> BY <3>1, <3>2, <3>3
    <3> QED BY <3>4, <3>5
  <2>2. CASE \E x \in live' \ SubHeld' : e = <<x, "loose">>
    <3>1. PICK x \in live' \ SubHeld' : e = <<x, "loose">> BY <2>2
    <3>2. x \in live /\ x # 0 BY <1>1, <3>1 DEF Abandoned
    <3>3. /\ \A b \in Subscriber : x # SubCurrent(b)'
          /\ \A r \in Scheduler, b \in Subscriber : <<r, b>> \in SubLate' => x # run'[r].new[b].id
      <4>1. \A t \in SubLate' : x # run'[t[1]].new[t[2]].id BY <3>1 DEF SubHeld
      <4> QED BY <3>1, <4>1 DEF SubHeld
    <3>4. CASE x \notin SubHeld
      <4>1. e \in SubDebt BY <3>1, <3>2, <3>4 DEF SubDebt
      <4>2. ~\E c \in Subscriber : e = <<<<s, c>>, "late">> BY <3>1
      <4> QED BY <4>1, <4>2
    <3>5. ASSUME NEW b \in Subscriber, x = SubCurrent(b) PROVE e \in X
      <4>1. x \in run[s].created BY <1>8, <3>2, <3>3, <3>5
      <4> QED BY <3>1, <4>1
    <3>6. ASSUME NEW t \in SubLate, x = run[t[1]].new[t[2]].id PROVE \E d \in SubDebt : f[d] = e
      <4>1. PICK r \in Scheduler, b \in Subscriber : t = <<r, b>> BY DEF SubLate
      <4>2. x = run[r].new[b].id /\ <<r, b>> \in SubLate BY <3>6, <4>1
      <4>3. r = s
        <5> SUFFICES ASSUME r # s PROVE FALSE OBVIOUS
        <5>1. <<r, b>> \in SubLate' /\ run'[r] = run[r] BY <1>1, <1>7, <4>2
        <5> QED BY <3>3, <4>2, <5>1
      <4>4. <<<<s, b>>, "late">> \in SubDebt BY <4>2, <4>3 DEF SubDebt
      <4>5. f[<<<<s, b>>, "late">>] = <<x, "loose">> BY <4>2, <4>3, <4>4
      <4> QED BY <3>1, <4>4, <4>5
    <3> QED BY <3>4, <3>5, <3>6 DEF SubHeld
  <2>3. \/ \E x \in live' \ SubHeld' : e = <<x, "loose">>
        \/ \E t \in SubLate' : e = <<t, "late">>
    BY DEF SubDebt
  <2> QED BY <2>1, <2>2, <2>3
<1> HIDE DEF f, X
<1>10. excused' \in Nat /\ excused' >= excused + Cardinality(X) BY <1>1, <1>3, <1>5 DEF Abandoned
<1>11. DebtIsExcused' BY <1>5, <1>9, <1>10, DebtStep
<1> QED BY <1>4, <1>11

\* A tick begins: its rows are the present ones.
LEMMA SubBeginSound ==
    ASSUME SubAssumption, SubInv, NEW s \in Scheduler, Subscriptions!Begin(s)
    PROVE  SubSound' /\ DebtIsExcused'
<1> DEFINE q == [Subscriptions!NoRun EXCEPT !.on = TRUE,
    !.todo = {a \in Subscriber : Subscriptions!Due(a)},
                                  !.read = subRow, !.new = subRow]
<1>1. /\ run \in [Scheduler -> RunType] /\ subRow \in [Subscriber -> Subscriptions!RowType]
      /\ UNCHANGED <<subRow, connected, live, made, events, excused, removals, subFailures>>
      /\ tickLock = NoScheduler /\ tickLock' = s /\ ~run[s].on
      /\ run' = [run EXCEPT ![s] = q]
  BY SubTyped DEF SubInv, Subscriptions!Begin
<1>2. /\ q.on /\ q.on \in BOOLEAN /\ q.todo \subseteq Subscriber /\ q.read = subRow
      /\ q.new = subRow
      /\ q.created = {} /\ q.gone = {} /\ q \in RunType
  BY <1>1 DEF Subscriptions!NoRun, RunType
<1> HIDE DEF q
<1>3. /\ run' \in [Scheduler -> RunType]
      /\ run'[s] = q /\ \A r \in Scheduler \ {s} : run'[r] = run[r]
  BY <1>1, <1>2
<1>4. SubSound'
  <2>1. Subscriptions!TypeOK'
    BY <1>1, <1>3
       DEF SubInv, SubSound, Subscriptions!TypeOK, RunType, Subscriptions!Id, Subscriptions!RowType,
       Subscriptions!Event
  <2>2. \A a \in Subscriber : SubRowIsSound(subRow[a]) /\ SubRowIsSound(subRow[a])'
    BY <1>1
       DEF SubInv, SubSound, SubRowIsSound, Subscriptions!RowType, Subscriptions!Id,
       Subscriptions!Event
  <2>3. SubRunIsSound(s)'
    BY <1>1, <1>2, <1>3, <2>2
       DEF SubRunIsSound, SubRowIsSound, Rewrites, Subscriptions!RowType, Subscriptions!Id,
         Subscriptions!Event, Subscriptions!NoRun, Subscriptions!NoRow
  <2>4. ASSUME NEW r \in Scheduler, r # s PROVE SubRunIsSound(r)'
    <3>1. run'[r] = run[r] /\ SubRunIsSound(r) /\ made' = made BY <1>1, <1>3, <2>4
          DEF SubInv, SubSound
    <3> QED BY <3>1
               DEF SubRunIsSound, SubRowIsSound, Rewrites, Subscriptions!RowType, Subscriptions!Id,
               Subscriptions!Event, Subscriptions!NoRun, Subscriptions!NoRow
  <2>5. RowsStay'
    <3> SUFFICES ASSUME NEW r \in Scheduler, NEW a \in Subscriber, run'[r].read[a].there
                 PROVE  subRow'[a].there
      BY DEF RowsStay
    <3> QED BY <1>1, <1>2, <1>3 DEF SubInv, SubSound, RowsStay
  <2>6. CreatedAreNew'
    <3> SUFFICES ASSUME NEW o \in Scheduler, NEW x \in run'[o].created
                 PROVE  /\ \A a \in Subscriber : subRow'[a].id # x
                        /\ \A r \in Scheduler, a \in Subscriber : run'[r].read[a].id # x
                        /\ \A r \in Scheduler \ {o} : x \notin run'[r].created
      BY DEF CreatedAreNew
    <3>1. o # s /\ x \in run[o].created BY <1>2, <1>3
    <3>2. /\ \A a \in Subscriber : subRow[a].id # x
          /\ \A r \in Scheduler, a \in Subscriber : run[r].read[a].id # x
          /\ \A r \in Scheduler \ {o} : x \notin run[r].created
      BY <3>1 DEF SubInv, SubSound, CreatedAreNew
    <3> QED BY <1>1, <1>2, <1>3, <3>2
  <2> QED BY <2>1, <2>2, <2>3, <2>4, <2>5, <2>6 DEF SubSound
<1>5. \A r \in Scheduler, b \in Subscriber :
          ~InTime(r, b) /\ (InTime(r, b)' <=> r = s)
  BY <1>1, <1>2, <1>3 DEF InTime, SubAssumption
<1>6. \A r \in Scheduler, b \in Subscriber : <<r, b>> \in SubLate' <=> <<r, b>> \in SubLate
  <2> SUFFICES ASSUME NEW r \in Scheduler, NEW b \in Subscriber
               PROVE  <<r, b>> \in SubLate' <=> <<r, b>> \in SubLate
    OBVIOUS
  <2>1. CASE r = s BY <1>1, <1>5, <2>1 DEF SubLate
  <2>2. CASE r # s
    <3>1. run'[r] = run[r] BY <1>3, <2>2
    <3> QED BY <1>5, <2>2, <3>1 DEF SubLate, Rewrites
  <2> QED BY <2>1, <2>2
<1>7. \A b \in Subscriber : SubCurrent(b)' = SubCurrent(b)
  <2> SUFFICES ASSUME NEW b \in Subscriber PROVE SubCurrent(b)' = SubCurrent(b) OBVIOUS
  <2>1. SubCurrent(b) = subRow[b].id BY <1>5 DEF SubCurrent
  <2>2. SubCurrent(b)' = run'[s].new[b].id BY <1>1, <1>5 DEF SubCurrent
  <2> QED BY <1>2, <1>3, <2>1, <2>2
<1>8. SubDebt' \subseteq SubDebt
  <2>1. SubLate' \subseteq SubLate
    <3> SUFFICES ASSUME NEW t \in SubLate' PROVE t \in SubLate OBVIOUS
    <3>1. PICK r \in Scheduler, b \in Subscriber : t = <<r, b>> BY DEF SubLate
    <3> QED BY <1>6, <3>1
  <2>2. SubHeld \subseteq SubHeld'
    <3> SUFFICES ASSUME NEW x \in SubHeld PROVE x \in SubHeld' OBVIOUS
    <3>1. CASE \E b \in Subscriber : x = SubCurrent(b) BY <1>7, <3>1 DEF SubHeld
    <3>2. CASE \E t \in SubLate : x = run[t[1]].new[t[2]].id
      <4>1. PICK t \in SubLate : x = run[t[1]].new[t[2]].id BY <3>2
      <4>2. PICK r \in Scheduler, b \in Subscriber : t = <<r, b>> BY DEF SubLate
      <4>3. x = run[r].new[b].id /\ <<r, b>> \in SubLate'
            /\ <<r, b>> \in SubLate BY <1>6, <4>1, <4>2
      <4>4. r # s BY <1>1, <4>3 DEF SubLate
      <4>5. x = run'[r].new[b].id BY <1>3, <4>3, <4>4
      <4>6. <<r, b>>[1] = r /\ <<r, b>>[2] = b OBVIOUS
      <4>7. \E u \in SubLate' : x = run'[u[1]].new[u[2]].id BY <4>3, <4>5, <4>6
      <4> QED BY <4>7 DEF SubHeld
    <3> QED BY <3>1, <3>2 DEF SubHeld
  <2> QED BY <1>1, <2>1, <2>2 DEF SubDebt
<1>9. DebtIsExcused' BY <1>1, <1>8, NoRise
<1> QED BY <1>4, <1>9

\* The lock ends under a tick: all that it has left to do is late, and as much is excused.
LEMMA LockEndsSound ==
    ASSUME SubAssumption, SubInv, Subscriptions!LockEnds
    PROVE  SubSound' /\ DebtIsExcused'
<1>1. /\ run \in [Scheduler -> RunType] /\ subRow \in [Subscriber -> Subscriptions!RowType]
      /\ UNCHANGED <<subRow, connected, live, made, events, run, removals>>
      /\ tickLock \in Scheduler /\ tickLock' = NoScheduler /\ excused \in Nat
  BY SubTyped DEF SubInv, Subscriptions!LockEnds
<1>2. IsFiniteSet(Subscriber) /\ Cardinality(Subscriber) \in Nat BY FS_CardinalityType
      DEF SubAssumption
<1>3. /\ subFailures' \in Nat /\ excused' \in Nat
      /\ \/ run[tickLock].on /\ excused' = excused + Cardinality(Subscriber)
         \/ ~run[tickLock].on /\ excused' = excused
  BY <1>1, <1>2, SameCard
     DEF SubInv, SubSound, Subscriptions!TypeOK, Subscriptions!LockEnds, Subscriptions!Fails
<1>4. SubSound'
  <2>1. Subscriptions!TypeOK'
    BY <1>1, <1>3
       DEF SubInv, SubSound, Subscriptions!TypeOK, RunType, Subscriptions!Id, Subscriptions!RowType,
       Subscriptions!Event
  <2>2. \A a \in Subscriber : SubRowIsSound(subRow[a])'
    BY <1>1
       DEF SubInv, SubSound, SubRowIsSound, Subscriptions!RowType, Subscriptions!Id,
       Subscriptions!Event
  <2>3. ASSUME NEW r \in Scheduler PROVE SubRunIsSound(r)'
    <3>1. run'[r] = run[r] /\ SubRunIsSound(r) /\ made' = made BY <1>1 DEF SubInv, SubSound
    <3> QED BY <3>1
               DEF SubRunIsSound, SubRowIsSound, Rewrites, Subscriptions!RowType, Subscriptions!Id,
               Subscriptions!Event, Subscriptions!NoRun, Subscriptions!NoRow
  <2>4. RowsStay' BY <1>1 DEF SubInv, SubSound, RowsStay
  <2>5. CreatedAreNew' BY <1>1 DEF SubInv, SubSound, CreatedAreNew
  <2> QED BY <2>1, <2>2, <2>3, <2>4, <2>5 DEF SubSound
<1>5. \A r \in Scheduler, b \in Subscriber :
          /\ ~InTime(r, b)'
          /\ InTime(r, b) => r = tickLock /\ run[r].on
  BY <1>1 DEF InTime, SubAssumption
<1>6. SubLate \subseteq SubLate' BY <1>1, <1>5 DEF SubLate, Rewrites
<1>7. \A b \in Subscriber : SubCurrent(b)' = subRow[b].id BY <1>1, <1>5 DEF SubCurrent
<1>8. SubHeld \subseteq SubHeld'
  <2> SUFFICES ASSUME NEW x \in SubHeld PROVE x \in SubHeld' OBVIOUS
  <2>1. ASSUME NEW b \in Subscriber, x = SubCurrent(b) PROVE x \in SubHeld'
    <3>1. CASE x = subRow[b].id BY <1>7, <3>1 DEF SubHeld
    <3>2. CASE x # subRow[b].id
      <4>1. InTime(tickLock, b) /\ x = run[tickLock].new[b].id BY <1>5, <2>1, <3>2 DEF SubCurrent
      <4>2. run[tickLock].on /\ Rewrites(tickLock, b) BY <3>2, <4>1 DEF InTime, Rewrites
      <4>3. <<tickLock, b>> \in SubLate' BY <1>1, <1>5, <4>2 DEF SubLate, Rewrites
      <4>4. x = run'[tickLock].new[b].id BY <1>1, <4>1
      <4>5. \E t \in SubLate' : x = run'[t[1]].new[t[2]].id BY <4>3, <4>4
      <4> QED BY <4>5, Zenon DEF SubHeld
    <3> QED BY <3>1, <3>2
  <2>2. ASSUME NEW t \in SubLate, x = run[t[1]].new[t[2]].id PROVE x \in SubHeld'
    BY <1>1, <1>6, <2>2 DEF SubHeld
  <2> QED BY <2>1, <2>2 DEF SubHeld
<1>9. CASE ~run[tickLock].on
  <2>1. SubLate' \subseteq SubLate BY <1>1, <1>5, <1>9 DEF SubLate, Rewrites
  <2>2. SubDebt' \subseteq SubDebt BY <1>1, <1>8, <2>1 DEF SubDebt
  <2> QED BY <1>3, <1>4, <1>9, <2>2, NoRise
<1>10. CASE run[tickLock].on
  <2> DEFINE X == ({tickLock} \X Subscriber) \X {"late"}
             f == [d \in SubDebt |-> d]
  <2>1. IsFiniteSet(X) /\ Cardinality(X) = Cardinality(Subscriber)
    <3>1. IsFiniteSet({"late"}) /\ Cardinality({"late"}) = 1 BY FS_Singleton
    <3>2. IsFiniteSet({tickLock}) /\ Cardinality({tickLock}) = 1 BY FS_Singleton
    <3>3. /\ IsFiniteSet({tickLock} \X Subscriber)
          /\ Cardinality({tickLock} \X Subscriber) =
               Cardinality({tickLock}) * Cardinality(Subscriber)
      BY <1>2, <3>2, FS_Product
    <3>4. /\ IsFiniteSet(X)
          /\ Cardinality(X) = Cardinality({tickLock} \X Subscriber) * Cardinality({"late"})
      BY <3>1, <3>3, FS_Product
    <3> QED BY <1>2, <3>1, <3>2, <3>3, <3>4
  <2>2. \A t \in SubLate' : t \in SubLate \/ <<t, "late">> \in X
    <3> SUFFICES ASSUME NEW t \in SubLate', t \notin SubLate PROVE <<t, "late">> \in X OBVIOUS
    <3>1. PICK r \in Scheduler, b \in Subscriber : t = <<r, b>> BY DEF SubLate
    <3>2. InTime(r, b) BY <1>1, <3>1 DEF SubLate, Rewrites
    <3> QED BY <1>5, <3>1, <3>2
  <2>3. SubDebt' \subseteq SubDebt \cup X
    <3> SUFFICES ASSUME NEW e \in SubDebt', e \notin X PROVE e \in SubDebt OBVIOUS
    <3>1. \/ \E x \in live' \ SubHeld' : e = <<x, "loose">>
          \/ \E t \in SubLate' : e = <<t, "late">>
      BY DEF SubDebt
    <3> HIDE DEF X
    <3>2. CASE \E x \in live' \ SubHeld' : e = <<x, "loose">> BY <1>1, <1>8, <3>2 DEF SubDebt
    <3>3. CASE \E t \in SubLate' : e = <<t, "late">> BY <2>2, <3>3 DEF SubDebt
    <3> QED BY <3>1, <3>2, <3>3
  <2>4. SubDebt' \subseteq {f[d] : d \in SubDebt} \cup X
    <3> HIDE DEF X
    <3> QED BY <2>3
  <2> HIDE DEF X, f
  <2>5. excused' \in Nat /\ excused' >= excused + Cardinality(X) BY <1>1, <1>2, <1>3, <1>10, <2>1
  <2>6. DebtIsExcused' BY <2>1, <2>4, <2>5, DebtStep
  <2> QED BY <1>4, <2>6
<1> QED BY <1>9, <1>10

\* Graph, the time or a user: no row gets another id.
Outside ==
    /\ UNCHANGED <<made, tickLock, run, excused>>
    /\ connected' \subseteq Subscriber /\ live' \subseteq live
    /\ events' \subseteq Subscriptions!Id \X Subscriptions!Event
    /\ removals' \in Nat /\ subFailures' \in Nat
    /\ subRow' \in [Subscriber -> Subscriptions!RowType]
    /\ \A a \in Subscriber : subRow'[a].id = subRow[a].id /\ subRow'[a].there = subRow[a].there

\* What is none of the ticks' doing is of one form, ...
LEMMA OutsideForms ==
    ASSUME SubAssumption, SubSound,
           \/ \E id \in Subscriptions!Id, event \in Subscriptions!Event :
                  Subscriptions!GraphSends(id, event) \/ Subscriptions!Receive(id, event)
                    \/ Subscriptions!EventLost(id, event)
           \/ \E a \in Subscriber : Subscriptions!Age(a) \/ Subscriptions!Reconnect(a)
           \/ UNCHANGED Subscriptions!vars
    PROVE  Outside
<1>1. /\ subRow \in [Subscriber -> Subscriptions!RowType] /\ removals \in Nat /\ subFailures \in Nat
      /\ connected \subseteq Subscriber /\ events \subseteq Subscriptions!Id \X Subscriptions!Event
  BY DEF SubSound, Subscriptions!TypeOK
<1>2. ASSUME NEW id \in Subscriptions!Id, NEW event \in Subscriptions!Event,
             Subscriptions!GraphSends(id, event) PROVE Outside
  BY <1>1, <1>2 DEF Subscriptions!GraphSends, Outside
<1>3. ASSUME NEW id \in Subscriptions!Id, NEW event \in Subscriptions!Event,
             Subscriptions!Receive(id, event) PROVE Outside
  <2>1. subRow' = [a \in Subscriber |-> IF subRow[a].id = id THEN [subRow[a] EXCEPT !.status =
        event]
                                                         ELSE subRow[a]]
    BY <1>3 DEF Subscriptions!Receive
  <2>2. \A a \in Subscriber : /\ subRow'[a] \in Subscriptions!RowType
                              /\ subRow'[a].id = subRow[a].id /\ subRow'[a].there = subRow[a].there
    BY <1>1, <2>1 DEF Subscriptions!RowType
  <2>3. subRow' \in [Subscriber -> Subscriptions!RowType] BY <2>1, <2>2
  <2> QED BY <1>1, <1>3, <2>2, <2>3 DEF Subscriptions!Receive, Outside
<1>4. ASSUME NEW id \in Subscriptions!Id, NEW event \in Subscriptions!Event,
             Subscriptions!EventLost(id, event) PROVE Outside
  BY <1>1, <1>4 DEF Subscriptions!EventLost, Subscriptions!Fails, Outside
<1>5. ASSUME NEW a \in Subscriber, Subscriptions!Age(a) PROVE Outside
  <2> DEFINE n == [subRow[a] EXCEPT !.due = TRUE]
  <2>1. subRow' = [subRow EXCEPT ![a] = n] BY <1>5 DEF Subscriptions!Age
  <2>2. n \in Subscriptions!RowType /\ n.id = subRow[a].id /\ n.there = subRow[a].there BY <1>1
        DEF Subscriptions!RowType
  <2> HIDE DEF n
  <2>3. subRow' \in [Subscriber -> Subscriptions!RowType]
        /\ \A b \in Subscriber : subRow'[b].id = subRow[b].id /\ subRow'[b].there = subRow[b].there
    BY <1>1, <2>1, <2>2
  <2> QED BY <1>1, <1>5, <2>3 DEF Subscriptions!Age, Outside
<1>6. ASSUME NEW a \in Subscriber, Subscriptions!Reconnect(a) PROVE Outside
  BY <1>1, <1>6 DEF Subscriptions!Reconnect, Outside
<1>7. CASE UNCHANGED Subscriptions!vars BY <1>1, <1>7 DEF Subscriptions!vars, Outside
<1> QED BY <1>2, <1>3, <1>4, <1>5, <1>6, <1>7

\* ... which only takes subscriptions away or forgets ids.
LEMMA OutsideSound ==
    ASSUME SubAssumption, SubInv, Outside
    PROVE  SubSound' /\ DebtIsExcused'
<1>1. /\ run \in [Scheduler -> RunType] /\ live \subseteq 1..made
      /\ run' = run /\ made' = made /\ tickLock' = tickLock /\ excused' = excused
      /\ \A a \in Subscriber : subRow'[a].id = subRow[a].id /\ subRow'[a].there = subRow[a].there
  BY SubTyped DEF SubInv, Outside
<1>2. SubSound'
  <2>1. Subscriptions!TypeOK'
    BY <1>1
       DEF SubInv, SubSound, Subscriptions!TypeOK, Outside, RunType, Subscriptions!Id,
       Subscriptions!RowType, Subscriptions!Event
  <2>2. \A a \in Subscriber : SubRowIsSound(subRow[a])'
    BY <1>1
       DEF SubInv, SubSound, SubRowIsSound, Outside, Subscriptions!RowType, Subscriptions!Id,
       Subscriptions!Event
  <2>3. ASSUME NEW r \in Scheduler PROVE SubRunIsSound(r)'
    <3>1. SubRunIsSound(r) BY DEF SubInv, SubSound
    <3> QED BY <1>1, <3>1
               DEF SubRunIsSound, SubRowIsSound, Rewrites, Subscriptions!RowType, Subscriptions!Id,
               Subscriptions!Event, Subscriptions!NoRun, Subscriptions!NoRow
  <2>4. RowsStay' BY <1>1 DEF SubInv, SubSound, RowsStay
  <2>5. CreatedAreNew' BY <1>1 DEF SubInv, SubSound, CreatedAreNew
  <2> QED BY <2>1, <2>2, <2>3, <2>4, <2>5 DEF SubSound
<1>3. \A r \in Scheduler, b \in Subscriber :
          (InTime(r, b)' <=> InTime(r, b)) /\ (Rewrites(r, b)' <=> Rewrites(r, b))
  BY <1>1 DEF InTime, Rewrites
<1>4. SubLate' = SubLate BY <1>1, <1>3 DEF SubLate
<1>5. \A b \in Subscriber : SubCurrent(b)' = SubCurrent(b) BY <1>1, <1>3 DEF SubCurrent
<1>6. SubHeld' = SubHeld
  <2>1. {SubCurrent(b)' : b \in Subscriber} = {SubCurrent(b) : b \in Subscriber} BY <1>5
  <2> QED BY <1>1, <1>4, <2>1 DEF SubHeld
<1>7. SubDebt' \subseteq SubDebt BY <1>4, <1>6 DEF SubDebt, Outside
<1> QED BY <1>1, <1>2, <1>7, NoRise

\* Every step keeps the invariant.
LEMMA SubStep ==
    ASSUME SubAssumption, SubInv, [Subscriptions!Next]_(Subscriptions!vars)
    PROVE  SubInv'
<1>1. SubSound BY DEF SubInv
<1>2. ASSUME NEW s \in Scheduler, Subscriptions!Begin(s)
      PROVE  SubInv' BY <1>2, SubBeginSound DEF SubInv
<1>3. ASSUME NEW s \in Scheduler, NEW a \in Subscriber,
             \/ Subscriptions!Renew(s, a) \/ Subscriptions!ReauthorizeUnknown(s, a)
                  \/ Subscriptions!Create(s, a)
             \/ Subscriptions!RequestFails(s, a) \/ Subscriptions!ConsentNeeded(s, a)
      PROVE  SubInv'
  <2>1. a \in run[s].todo /\ Answered(s, a) /\ run' \in [Scheduler -> RunType]
        /\ subFailures' \in Nat
    BY <1>1, <1>3, AnswerForms
  <2> QED BY <2>1, AnswerSound, AnswerDebt DEF SubInv
<1>4. ASSUME NEW s \in Scheduler, Subscriptions!Commit(s) \/ Subscriptions!CommitEarly(s)
      PROVE  SubInv'
  <2>1. Committed(s) /\ run' \in [Scheduler -> RunType] BY <1>1, <1>4, CommitForms
  <2> QED BY <1>1, <2>1, CommitSound, CommitDebt DEF SubInv
<1>5. ASSUME NEW s \in Scheduler, Subscriptions!CommitFails(s) \/ Subscriptions!Crash(s)
      PROVE  SubInv'
  BY <1>1, <1>5, AbandonForms, AbandonSound DEF SubInv
<1>6. CASE Subscriptions!LockEnds BY <1>6, LockEndsSound DEF SubInv
<1>7. CASE \/ \E id \in Subscriptions!Id, event \in Subscriptions!Event :
                  Subscriptions!GraphSends(id, event) \/ Subscriptions!Receive(id, event)
                    \/ Subscriptions!EventLost(id, event)
           \/ \E a \in Subscriber : Subscriptions!Age(a) \/ Subscriptions!Reconnect(a)
           \/ UNCHANGED Subscriptions!vars
  <2>1. Outside BY <1>1, <1>7, OutsideForms
  <2> QED BY <2>1, OutsideSound DEF SubInv
<1> QED BY <1>2, <1>3, <1>4, <1>5, <1>6, <1>7 DEF Subscriptions!Next, Subscriptions!TickNext

-----------------------------------------------------------------------------
(* TelegramAlerts *)

\* What an actor is about to do, ...
OpType(apart) ==
    [pc: {"idle", "issue", "sending", "undo", "recovered", "telling"},
     cause: Alerts(apart)!Cause \cup {Alerts(apart)!None}]
\* ... and what the chat has been told.
ChatType(apart) ==
    [last: {Alerts(apart)!None, "issue", "recovery"},
      cause: Alerts(apart)!Cause \cup {Alerts(apart)!None},
     issues: Nat, recoveries: Nat]
\* The actors at one place about one channel.
Those(apart, pc, c) == {a \in AlertActor(apart) : op[a].pc = pc /\ Alerts(apart)!ChannelOf(a) = c}

\* With channels apart: what the chat was told, by where the one actor of it is.
Told(c) == chat[c].last = "issue"
Standing(a) ==
    LET c == Alerts(TRUE)!ChannelOf(a)
        lit == active[c] # Alerts(TRUE)!None IN
    /\ op[a].pc \in {"idle", "issue", "recovered"} => (lit <=> Told(c))
    /\ op[a].pc \in {"sending", "undo"} => lit /\ ~Told(c)
    /\ op[a].pc = "telling" => ~lit /\ Told(c)

\* Every incident opened has at most one message, and one still to come from whoever is sending it;
\* it has at most one recovery, told, being told or due when it ends.
OpenedCovers(apart) ==
    \A c \in Alerts(apart)!Channel :
        /\ chat[c].issues + Cardinality(Those(apart, "sending", c)) <= claims[c]
        /\ chat[c].recoveries + Cardinality(Those(apart, "telling", c))
             + (IF active[c] = Alerts(apart)!None THEN 0 ELSE 1) <= claims[c]
\* The inductive invariant. Of the pairing of messages it says where the actor between them is, for
\* without it an active incident that is not told yet would look like one that never will be.
AlertsInv(apart) ==
    /\ Alerts(apart)!TypeOK
    /\ \A a \in AlertActor(apart) : op[a].pc \in {"issue", "sending"} =>
         op[a].cause # Alerts(apart)!None
    /\ OpenedCovers(apart)
    /\ apart => /\ faults.lost = 0 /\ faults.crashes = 0
                /\ \A a \in AlertActor(TRUE) : Standing(a)

\* The actors at a place can be counted.
LEMMA ActorsAreFew ==
    ASSUME NEW apart \in BOOLEAN
    PROVE  /\ IsFiniteSet(AlertActor(apart))
           /\ \A pc, c : IsFiniteSet(Those(apart, pc, c))
                /\ Cardinality(Those(apart, pc, c)) \in Nat
           /\ \A a \in AlertActor(apart) : Alerts(apart)!ChannelOf(a) \in Alerts(apart)!Channel
<1>1. IsFiniteSet({"worker", "monitor"}) /\ IsFiniteSet({"worker", "renewal"})
  <2>1. IsFiniteSet({"worker"}) BY FS_Singleton
  <2>2. {"worker"} \cup {"monitor"} = {"worker", "monitor"}
        /\ {"worker"} \cup {"renewal"} = {"worker", "renewal"}
    OBVIOUS
  <2>3. IsFiniteSet({"worker"} \cup {"monitor"}) /\ IsFiniteSet({"worker"} \cup {"renewal"})
    BY <2>1, FS_AddElement
  <2> QED BY <2>2, <2>3
<1>2. IsFiniteSet(AlertActor(apart)) BY <1>1 DEF AlertActor
<1>3. \A pc, c : IsFiniteSet(Those(apart, pc, c)) /\ Cardinality(Those(apart, pc, c)) \in Nat
  BY <1>2, FS_Subset, FS_CardinalityType DEF Those
<1> QED BY <1>2, <1>3 DEF Alerts!ChannelOf, Alerts!Channel

\* An actor's call becomes s: the others' calls stay, ...
LEMMA AlertCallStep ==
    ASSUME NEW apart \in BOOLEAN, Alerts(apart)!TypeOK, NEW a \in AlertActor(apart)
    PROVE  \A s \in OpType(apart) : op' = [op EXCEPT ![a] = s] =>
              /\ op' \in [AlertActor(apart) -> OpType(apart)] /\ op'[a] = s
              /\ \A b \in AlertActor(apart) : b # a => op'[b] = op[b]
<1>1. op \in [AlertActor(apart) -> OpType(apart)] BY DEF Alerts!TypeOK, OpType
<1> QED BY <1>1

\* A truth counted.
One(b) == IF b THEN 1 ELSE 0
\* An actor in the state s is at that place about that channel.
Is(apart, a, s, pc, c) == s.pc = pc /\ Alerts(apart)!ChannelOf(a) = c

\* ... and those at a place are the others, and it if s is there.
LEMMA AlertCallCount ==
    ASSUME NEW apart \in BOOLEAN, Alerts(apart)!TypeOK, NEW a \in AlertActor(apart), NEW pc, NEW c
    PROVE  \A s \in OpType(apart) : op' = [op EXCEPT ![a] = s] =>
              /\ Cardinality(Those(apart, pc, c)) \in Nat
              /\ Cardinality(Those(apart, pc, c)') \in Nat
              /\ Cardinality(Those(apart, pc, c)') + One(Is(apart, a, op[a], pc, c))
                   = Cardinality(Those(apart, pc, c)) + One(Is(apart, a, s, pc, c))
<1> SUFFICES ASSUME NEW s \in OpType(apart), op' = [op EXCEPT ![a] = s]
             PROVE  /\ Cardinality(Those(apart, pc, c)) \in Nat
                    /\ Cardinality(Those(apart, pc, c)') \in Nat
                    /\ Cardinality(Those(apart, pc, c)') + One(Is(apart, a, op[a], pc, c))
                         = Cardinality(Those(apart, pc, c)) + One(Is(apart, a, s, pc, c))
  OBVIOUS
<1>1. op'[a] = s /\ \A b \in AlertActor(apart) : b # a => op'[b] = op[b] BY AlertCallStep
<1> DEFINE S == Those(apart, pc, c)
           T == Those(apart, pc, c)'
<1>2. IsFiniteSet(S) /\ IsFiniteSet(T)
  <2>1. IsFiniteSet(AlertActor(apart)) BY ActorsAreFew
  <2> QED BY <2>1, FS_Subset DEF Those
<1>3. T \ {a} = S \ {a} BY <1>1 DEF Those
<1>4. a \in S <=> Is(apart, a, op[a], pc, c) BY DEF Those, Is
<1>5. a \in T <=> Is(apart, a, s, pc, c) BY <1>1 DEF Those, Is
<1> HIDE DEF S, T
<1>6. Cardinality(S) \in Nat /\ Cardinality(T) \in Nat BY <1>2, FS_CardinalityType
<1>7. (a \in S <=> a \in T) => Cardinality(T) = Cardinality(S) BY <1>2, <1>3, OneMore
<1>8. a \notin S /\ a \in T => Cardinality(T) = Cardinality(S) + 1 BY <1>2, <1>3, OneMore
<1>9. a \in S /\ a \notin T => Cardinality(T) + 1 = Cardinality(S) BY <1>2, <1>3, OneMore
<1>10. Cardinality(T) + One(Is(apart, a, op[a], pc, c)) = Cardinality(S) + One(Is(apart, a, s, pc,
       c))
  BY <1>4, <1>5, <1>6, <1>7, <1>8, <1>9 DEF One
<1> QED BY <1>6, <1>10 DEF S, T

\* At first nothing is open and nothing told.
LEMMA AlertsInit == ASSUME NEW apart \in BOOLEAN, Alerts(apart)!Init PROVE AlertsInv(apart)
<1>1. Alerts(apart)!TypeOK
  BY DEF Alerts!Init, Alerts!TypeOK, Alerts!IdleOp, Alerts!Answer, Alerts!Status, Alerts!Cause
<1>2. OpenedCovers(apart)
  <2> SUFFICES ASSUME NEW c \in Alerts(apart)!Channel
               PROVE  /\ chat[c].issues + Cardinality(Those(apart, "sending", c)) <= claims[c]
                      /\ chat[c].recoveries + Cardinality(Those(apart, "telling", c))
                           + (IF active[c] = Alerts(apart)!None THEN 0 ELSE 1) <= claims[c]
    BY DEF OpenedCovers
  <2>1. Those(apart, "sending", c) = {} /\ Those(apart, "telling", c) = {}
    BY DEF Those, Alerts!Init, Alerts!IdleOp
  <2>2. Cardinality(Those(apart, "sending", c)) = 0 /\ Cardinality(Those(apart, "telling", c)) = 0
    BY <2>1, FS_EmptySet
  <2> QED BY <2>2 DEF Alerts!Init
<1>3. \A a \in AlertActor(apart) : op[a] = Alerts(apart)!IdleOp BY DEF Alerts!Init
<1>4. apart => \A a \in AlertActor(TRUE) : Standing(a)
  BY <1>3, ActorsAreFew DEF Standing, Told, Alerts!Init, Alerts!IdleOp, Alerts!None
<1> QED BY <1>1, <1>2, <1>3, <1>4 DEF AlertsInv, Alerts!Init, Alerts!IdleOp

\* The steps of one actor, ...
AlertAct(apart, a) ==
    \/ Alerts(apart)!Alerting(a) \/ Alerts(apart)!SendFails(a)
    \/ Alerts(apart)!TellFails(a) \/ Alerts(apart)!Crash(a)
\* ... and those by which one begins.
AlertRun(apart) == Alerts(apart)!WorkerRuns \/ Alerts(apart)!RenewalRuns
  \/ Alerts(apart)!MonitorRuns

\* An actor's step leaves its channel with as many incidents opened as there are messages.
Accounted(apart, a, s) ==
    LET c == Alerts(apart)!ChannelOf(a) IN
    /\ s.pc \in {"issue", "sending"} => s.cause # Alerts(apart)!None
    /\ chat'[c].issues + One(s.pc = "sending") + claims[c]
         <= claims'[c] + chat[c].issues + One(op[a].pc = "sending")
    /\ chat'[c].recoveries + One(s.pc = "telling") + One(active'[c] #
         Alerts(apart)!None) + claims[c]
         <= claims'[c] + chat[c].recoveries + One(op[a].pc = "telling") + One(active[c] #
           Alerts(apart)!None)
OthersStay(apart, a) ==
    \A d \in Alerts(apart)!Channel : d # Alerts(apart)!ChannelOf(a) =>
        chat'[d] = chat[d] /\ claims'[d] = claims[d] /\ active'[d] = active[d]

\* A step of one actor that accounts for its messages keeps the invariant.
LEMMA AlertActs ==
    ASSUME NEW apart \in BOOLEAN, AlertsInv(apart), Alerts(apart)!TypeOK',
           NEW a \in AlertActor(apart),
           apart => faults'.lost = 0 /\ faults'.crashes = 0,
           OthersStay(apart, a), apart => Standing(a)'
    PROVE  \A s \in OpType(apart) : op' = [op EXCEPT ![a] = s] /\ Accounted(apart, a, s) =>
           AlertsInv(apart)'
<1> DEFINE c == Alerts(apart)!ChannelOf(a)
<1> SUFFICES ASSUME NEW s \in OpType(apart), op' = [op EXCEPT ![a] = s], Accounted(apart, a, s)
             PROVE  AlertsInv(apart)'
  OBVIOUS
<1>1. Alerts(apart)!TypeOK BY DEF AlertsInv
<1>2. /\ op' \in [AlertActor(apart) -> OpType(apart)] /\ op'[a] = s
      /\ \A b \in AlertActor(apart) : b # a => op'[b] = op[b]
  BY <1>1, AlertCallStep
<1>3. \A b \in AlertActor(apart) : op'[b].pc \in {"issue", "sending"} =>
      op'[b].cause # Alerts(apart)!None
  BY <1>2 DEF AlertsInv, Accounted
<1>4. \A d \in Alerts(apart)!Channel : /\ chat[d].issues \in Nat /\ chat'[d].issues \in Nat
                                       /\ chat[d].recoveries \in Nat /\ chat'[d].recoveries \in Nat
                                       /\ claims[d] \in Nat /\ claims'[d] \in Nat
  BY <1>1 DEF Alerts!TypeOK
<1>5. ASSUME NEW d \in Alerts(apart)!Channel
      PROVE  /\ chat'[d].issues + Cardinality(Those(apart, "sending", d)') <= claims'[d]
             /\ chat'[d].recoveries + Cardinality(Those(apart, "telling", d)')
                  + (IF active'[d] = Alerts(apart)!None THEN 0 ELSE 1) <= claims'[d]
  <2>1. /\ chat[d].issues + Cardinality(Those(apart, "sending", d)) <= claims[d]
        /\ chat[d].recoveries + Cardinality(Those(apart, "telling", d))
             + One(active[d] # Alerts(apart)!None) <= claims[d]
    BY DEF AlertsInv, OpenedCovers, One
  <2>2. ASSUME NEW pc
        PROVE  /\ Cardinality(Those(apart, pc, d)) \in Nat
               /\ Cardinality(Those(apart, pc, d)') \in Nat
               /\ Cardinality(Those(apart, pc, d)') + One(Is(apart, a, op[a], pc, d))
                    = Cardinality(Those(apart, pc, d)) + One(Is(apart, a, s, pc, d))
    BY <1>1, AlertCallCount
  <2>3. CASE d # c
    <3>1. \A pc : Cardinality(Those(apart, pc, d)') = Cardinality(Those(apart, pc, d))
      <4> SUFFICES ASSUME NEW pc
                   PROVE  Cardinality(Those(apart, pc, d)') = Cardinality(Those(apart, pc, d))
        OBVIOUS
      <4>1. ~Is(apart, a, op[a], pc, d) /\ ~Is(apart, a, s, pc, d) BY <2>3 DEF Is
      <4> QED BY <2>2, <4>1 DEF One
    <3>2. chat'[d] = chat[d] /\ claims'[d] = claims[d] /\ active'[d] = active[d]
      BY <2>3 DEF OthersStay
    <3> QED BY <2>1, <3>1, <3>2 DEF One
  <2>4. CASE d = c
    <3>1. \A t, pc : Is(apart, a, t, pc, d) = (t.pc = pc) BY <2>4 DEF Is
    <3>2. /\ Cardinality(Those(apart, "sending", d)) \in Nat
          /\ Cardinality(Those(apart, "sending", d)') \in Nat
          /\ Cardinality(Those(apart, "sending", d)') + One(op[a].pc = "sending")
               = Cardinality(Those(apart, "sending", d)) + One(s.pc = "sending")
      BY <2>2, <3>1
    <3>3. /\ Cardinality(Those(apart, "telling", d)) \in Nat
          /\ Cardinality(Those(apart, "telling", d)') \in Nat
          /\ Cardinality(Those(apart, "telling", d)') + One(op[a].pc = "telling")
               = Cardinality(Those(apart, "telling", d)) + One(s.pc = "telling")
      BY <2>2, <3>1
    <3>4. /\ chat'[d].issues + One(s.pc = "sending") + claims[d]
               <= claims'[d] + chat[d].issues + One(op[a].pc = "sending")
          /\ chat'[d].recoveries + One(s.pc = "telling") + One(active'[d] #
               Alerts(apart)!None) + claims[d]
               <= claims'[d] + chat[d].recoveries + One(op[a].pc = "telling") + One(active[d] #
                 Alerts(apart)!None)
      BY <2>4 DEF Accounted
    <3>5. chat'[d].issues + Cardinality(Those(apart, "sending", d)') <= claims'[d]
      BY <1>4, <2>1, <3>2, <3>4 DEF One
    <3>6. chat'[d].recoveries + Cardinality(Those(apart, "telling", d)')
            + (IF active'[d] = Alerts(apart)!None THEN 0 ELSE 1) <= claims'[d]
      BY <1>4, <2>1, <3>3, <3>4 DEF One
    <3> QED BY <3>5, <3>6
  <2> QED BY <2>3, <2>4
<1>6. ASSUME apart, NEW b \in AlertActor(TRUE) PROVE Standing(b)'
  <2>0. apart = TRUE BY <1>6
  <2>1. CASE b = a BY <1>6, <2>1
  <2>2. CASE b # a
    <3>1. /\ b \in AlertActor(apart) /\ Alerts(apart)!ChannelOf(b) # Alerts(apart)!ChannelOf(a)
          /\ Alerts(apart)!ChannelOf(b) = Alerts(TRUE)!ChannelOf(b)
          /\ Alerts(apart)!ChannelOf(b) \in Alerts(apart)!Channel
      BY <2>0, <2>2 DEF AlertActor, Alerts!ChannelOf, Alerts!Channel
    <3>2. op'[b] = op[b] /\ Standing(b) BY <1>2, <1>6, <2>2, <3>1 DEF AlertsInv
    <3>3. /\ chat'[Alerts(TRUE)!ChannelOf(b)] = chat[Alerts(TRUE)!ChannelOf(b)]
          /\ active'[Alerts(TRUE)!ChannelOf(b)] = active[Alerts(TRUE)!ChannelOf(b)]
      BY <3>1 DEF OthersStay
    <3> QED BY <3>2, <3>3 DEF Standing, Told
  <2> QED BY <2>1, <2>2
<1>7. OpenedCovers(apart)' BY <1>5 DEF OpenedCovers
<1> QED BY <1>3, <1>6, <1>7 DEF AlertsInv

\* The call of an actor, field by field.
LEMMA CallIsTyped ==
    ASSUME NEW apart \in BOOLEAN, Alerts(apart)!TypeOK, NEW a \in AlertActor(apart)
    PROVE  /\ op[a] \in OpType(apart)
           /\ op[a].pc \in {"idle", "issue", "sending", "undo", "recovered", "telling"}
           /\ op[a].cause \in Alerts(apart)!Cause \cup {Alerts(apart)!None}
           /\ Alerts(apart)!None \in Alerts(apart)!Cause \cup {Alerts(apart)!None}
<1>1. op[a] \in OpType(apart) BY DEF Alerts!TypeOK, OpType
<1> QED BY <1>1 DEF OpType

\* A job begins, and has told nothing yet.
LEMMA AlertRunSound ==
    ASSUME NEW apart \in BOOLEAN, AlertsInv(apart), AlertRun(apart)
    PROVE  AlertsInv(apart)'
<1>1. PICK a \in AlertActor(apart), s \in OpType(apart) :
          /\ op[a].pc = "idle" /\ op' = [op EXCEPT ![a] = s] /\ s.pc \in {"issue", "recovered"}
          /\ s.pc = "issue" => s.cause # Alerts(apart)!None
          /\ UNCHANGED <<provider, active, chat, claims, alertChanges, faults>>
          /\ account' \in [status: Alerts(apart)!Status, late: BOOLEAN, pushExpired: BOOLEAN]
  <2>0. /\ account \in [status: Alerts(apart)!Status, late: BOOLEAN, pushExpired: BOOLEAN]
        /\ provider \in Alerts(apart)!Answer
    BY DEF AlertsInv, Alerts!TypeOK
  <2>1. [pc |-> "recovered", cause |-> Alerts(apart)!None] \in OpType(apart) BY DEF OpType
  <2>2. \A e \in Alerts(apart)!Cause : [pc |-> "issue", cause |-> e] \in OpType(apart)
        /\ e # Alerts(apart)!None
    BY DEF OpType, Alerts!Cause, Alerts!Answer, Alerts!Issue, Alerts!None
  <2>3. provider # "ok" => provider \in Alerts(apart)!Cause BY <2>0 DEF Alerts!Cause
  <2>4. CASE Alerts(apart)!WorkerRuns
    <3>1. /\ "worker" \in AlertActor(apart) /\ op["worker"].pc = "idle"
          /\ UNCHANGED <<provider, active, chat, claims, alertChanges, faults>>
      BY <2>4 DEF Alerts!WorkerRuns
    <3>2. CASE provider = "ok"
      <4> DEFINE s == [pc |-> "recovered", cause |-> Alerts(apart)!None]
      <4>1. /\ op' = [op EXCEPT !["worker"] = s]
            /\ account' = [account EXCEPT !.status = "connected", !.late = FALSE]
        BY <2>4, <3>2 DEF Alerts!WorkerRuns, Alerts!Call
      <4>2. account' \in [status: Alerts(apart)!Status, late: BOOLEAN, pushExpired: BOOLEAN]
        BY <2>0, <4>1 DEF Alerts!Status
      <4>3. s.pc = "recovered" OBVIOUS
      <4>4. s \in OpType(apart) BY <2>1
      <4> HIDE DEF s
      <4> QED BY <3>1, <4>1, <4>2, <4>3, <4>4
    <3>3. CASE provider # "ok"
      <4> DEFINE s == [pc |-> "issue", cause |-> provider]
      <4>1. /\ op' = [op EXCEPT !["worker"] = s]
            /\ \E t \in {account.status, "error"} :
                  account' = [account EXCEPT !.status = IF provider =
                    "refused" THEN "reauth_required"
                                                        ELSE IF provider =
                                                          "broken" THEN "error" ELSE t]
        BY <2>4, <3>3 DEF Alerts!WorkerRuns, Alerts!SyncFails, Alerts!Call
      <4>2. account' \in [status: Alerts(apart)!Status, late: BOOLEAN, pushExpired: BOOLEAN]
        BY <2>0, <4>1 DEF Alerts!Status
      <4>3. s.pc = "issue" /\ s.cause = provider OBVIOUS
      <4>4. s \in OpType(apart) /\ provider # Alerts(apart)!None BY <2>2, <2>3, <3>3
      <4> HIDE DEF s
      <4> QED BY <3>1, <4>1, <4>2, <4>3, <4>4
    <3> QED BY <3>2, <3>3
  <2>5. CASE Alerts(apart)!RenewalRuns
    <3>1. /\ "renewal" \in AlertActor(apart) /\ op["renewal"].pc = "idle"
          /\ UNCHANGED <<provider, active, chat, claims, alertChanges, faults>>
      BY <2>5 DEF Alerts!RenewalRuns
    <3>2. CASE provider = "ok"
      <4> DEFINE s == [pc |-> "recovered", cause |-> Alerts(apart)!None]
      <4>1. /\ op' = [op EXCEPT !["renewal"] = s]
            /\ account' = [account EXCEPT !.pushExpired = FALSE]
        BY <2>5, <3>2 DEF Alerts!RenewalRuns, Alerts!Call
      <4>2. account' \in [status: Alerts(apart)!Status, late: BOOLEAN, pushExpired: BOOLEAN]
        BY <2>0, <4>1
      <4>3. s.pc = "recovered" OBVIOUS
      <4>4. s \in OpType(apart) BY <2>1
      <4> HIDE DEF s
      <4> QED BY <3>1, <4>1, <4>2, <4>3, <4>4
    <3>3. CASE provider # "ok"
      <4> DEFINE s == [pc |-> "issue", cause |-> provider]
      <4>1. /\ op' = [op EXCEPT !["renewal"] = s]
            /\ account' = IF provider # "refused" THEN account ELSE [account EXCEPT !.status =
                 "reauth_required"]
        BY <2>5, <3>3 DEF Alerts!RenewalRuns, Alerts!Call
      <4>2. account' \in [status: Alerts(apart)!Status, late: BOOLEAN, pushExpired: BOOLEAN]
        BY <2>0, <4>1 DEF Alerts!Status
      <4>3. s.pc = "issue" /\ s.cause = provider OBVIOUS
      <4>4. s \in OpType(apart) /\ provider # Alerts(apart)!None BY <2>2, <2>3, <3>3
      <4> HIDE DEF s
      <4> QED BY <3>1, <4>1, <4>2, <4>3, <4>4
    <3> QED BY <3>2, <3>3
  <2>6. CASE Alerts(apart)!MonitorRuns
    <3>1. /\ "monitor" \in AlertActor(apart) /\ op["monitor"].pc = "idle"
          /\ UNCHANGED <<provider, account, active, chat, claims, alertChanges, faults>>
      BY <2>6 DEF Alerts!MonitorRuns
    <3>2. Alerts(apart)!SyncIssue \in Alerts(apart)!Cause \cup {Alerts(apart)!None}
      BY DEF Alerts!SyncIssue, Alerts!Cause, Alerts!Issue
    <3>3. PICK s \in OpType(apart) :
              /\ op' = [op EXCEPT !["monitor"] = s] /\ s.pc \in {"issue", "recovered"}
              /\ s.pc = "issue" => s.cause # Alerts(apart)!None
      <4>1. CASE Alerts(apart)!SyncIssue = Alerts(apart)!None
        <5> DEFINE s == [pc |-> "recovered", cause |-> Alerts(apart)!None]
        <5>1. s \in OpType(apart) /\ s.pc = "recovered" BY <2>1
        <5>2. op' = [op EXCEPT !["monitor"] = s] BY <2>6, <4>1 DEF Alerts!MonitorRuns, Alerts!Call
        <5> HIDE DEF s
        <5> QED BY <5>1, <5>2
      <4>2. CASE Alerts(apart)!SyncIssue # Alerts(apart)!None
        <5> DEFINE s == [pc |-> "issue", cause |-> Alerts(apart)!SyncIssue]
        <5>1. s \in OpType(apart) /\ s.pc = "issue"
              /\ s.cause # Alerts(apart)!None BY <2>2, <3>2, <4>2
        <5>2. op' = [op EXCEPT !["monitor"] = s] BY <2>6, <4>2 DEF Alerts!MonitorRuns, Alerts!Call
        <5> HIDE DEF s
        <5> QED BY <5>1, <5>2
      <4> QED BY <4>1, <4>2
    <3> QED BY <2>0, <3>1, <3>3
  <2> QED BY <2>4, <2>5, <2>6 DEF AlertRun
<1>2. op' \in [AlertActor(apart) -> OpType(apart)] /\ op'[a] = s
  BY <1>1, AlertCallStep DEF AlertsInv
<1>3. Alerts(apart)!TypeOK' BY <1>1, <1>2 DEF AlertsInv, Alerts!TypeOK, OpType
<1>4. apart => faults'.lost = 0 /\ faults'.crashes = 0 BY <1>1 DEF AlertsInv
<1>5. apart => Standing(a)'
  <2> SUFFICES ASSUME apart PROVE Standing(a)' OBVIOUS
  <2>1. Standing(a) BY DEF AlertsInv, AlertActor
  <2> QED BY <1>1, <1>2, <2>1 DEF Standing, Told
<1>6. /\ s.pc # "sending" /\ s.pc # "telling" /\ op[a].pc # "sending"
      /\ op[a].pc # "telling" BY <1>1
<1>7. Alerts(apart)!ChannelOf(a) \in Alerts(apart)!Channel BY ActorsAreFew
<1>8. /\ chat[Alerts(apart)!ChannelOf(a)].issues \in Nat
      /\ chat[Alerts(apart)!ChannelOf(a)].recoveries \in Nat
      /\ claims[Alerts(apart)!ChannelOf(a)] \in Nat
  BY <1>7 DEF AlertsInv, Alerts!TypeOK
<1>9. OthersStay(apart, a) BY <1>1 DEF OthersStay
<1>10. Accounted(apart, a, s) BY <1>1, <1>6, <1>8 DEF Accounted, One
<1> QED BY <1>1, <1>3, <1>4, <1>5, <1>9, <1>10, AlertActs

\* An incident is opened: one more message may come.
LEMMA AlertOpens ==
    ASSUME NEW apart \in BOOLEAN, AlertsInv(apart), NEW a \in AlertActor(apart),
           Alerts(apart)!Claim(a), active[Alerts(apart)!ChannelOf(a)] = Alerts(apart)!None
    PROVE  AlertsInv(apart)'
<1> DEFINE c == Alerts(apart)!ChannelOf(a)
           s == [pc |-> "sending", cause |-> op[a].cause]
<1>0. /\ c \in Alerts(apart)!Channel /\ op[a] \in OpType(apart)
      /\ op[a].cause \in Alerts(apart)!Cause \cup {Alerts(apart)!None}
      /\ Alerts(apart)!None \in Alerts(apart)!Cause \cup {Alerts(apart)!None}
  BY ActorsAreFew, CallIsTyped DEF AlertsInv
<1>1. /\ op' = [op EXCEPT ![a] = s] /\ UNCHANGED <<provider, account, alertChanges, chat, faults>>
      /\ op[a].pc = "issue" /\ active[c] = Alerts(apart)!None
      /\ active' = [active EXCEPT ![c] = op[a].cause] /\ claims' = [claims EXCEPT ![c] = @ + 1]
  BY DEF Alerts!Claim, Alerts!Call
<1>2. s \in OpType(apart) /\ s.pc = "sending" /\ s.cause = op[a].cause BY <1>0 DEF OpType
<1> HIDE DEF s
<1>3. op' \in [AlertActor(apart) -> OpType(apart)] /\ op'[a] = s
  BY <1>1, <1>2, AlertCallStep DEF AlertsInv
<1>4. /\ active \in [Alerts(apart)!Channel -> Alerts(apart)!Cause \cup {Alerts(apart)!None}]
      /\ chat \in [Alerts(apart)!Channel -> ChatType(apart)]
      /\ claims \in [Alerts(apart)!Channel -> Nat]
      /\ faults \in [telling: Nat, lost: Nat, crashes: Nat]
  BY DEF AlertsInv, Alerts!TypeOK, ChatType
<1>a. op[a].cause # Alerts(apart)!None BY <1>1 DEF AlertsInv
<1>5. /\ active' \in [Alerts(apart)!Channel -> Alerts(apart)!Cause \cup {Alerts(apart)!None}]
      /\ chat' \in [Alerts(apart)!Channel -> ChatType(apart)]
      /\ claims' \in [Alerts(apart)!Channel -> Nat]
      /\ faults' = faults /\ active'[c] = op[a].cause /\ active'[c] # Alerts(apart)!None
      /\ chat'[c].issues = chat[c].issues /\ chat'[c].recoveries = chat[c].recoveries
      /\ chat'[c].last = chat[c].last /\ claims'[c] = claims[c] + 1
      /\ chat[c].issues \in Nat /\ chat[c].recoveries \in Nat /\ claims[c] \in Nat
      /\ \A d \in Alerts(apart)!Channel : d # c =>
            chat'[d] = chat[d] /\ claims'[d] = claims[d] /\ active'[d] = active[d]
  BY <1>0, <1>1, <1>4, <1>a DEF ChatType
<1>6. Alerts(apart)!TypeOK'
  BY <1>1, <1>3, <1>5 DEF AlertsInv, Alerts!TypeOK, OpType, ChatType
<1>7. apart => faults'.lost = 0 /\ faults'.crashes = 0 BY <1>5 DEF AlertsInv
<1>8. apart => Standing(a)'
  <2> SUFFICES ASSUME apart PROVE Standing(a)' OBVIOUS
  <2>1. Standing(a) /\ Alerts(TRUE)!ChannelOf(a) = c /\ Alerts(TRUE)!None = Alerts(apart)!None
    BY DEF AlertsInv, AlertActor
  <2> QED BY <1>1, <1>2, <1>3, <1>4, <1>5, <2>1 DEF Standing, Told
<1>9. OthersStay(apart, a) BY <1>5 DEF OthersStay
<1>10. Accounted(apart, a, s) BY <1>1, <1>2, <1>5 DEF Accounted, One
<1> QED BY <1>1, <1>2, <1>6, <1>7, <1>8, <1>9, <1>10, AlertActs

\* An incident that is open is not opened again.
LEMMA AlertFindsOpen ==
    ASSUME NEW apart \in BOOLEAN, AlertsInv(apart), NEW a \in AlertActor(apart),
           Alerts(apart)!Claim(a), active[Alerts(apart)!ChannelOf(a)] # Alerts(apart)!None
    PROVE  AlertsInv(apart)'
<1> DEFINE c == Alerts(apart)!ChannelOf(a)
           s == Alerts(apart)!IdleOp
<1>0. /\ c \in Alerts(apart)!Channel /\ op[a] \in OpType(apart)
      /\ op[a].cause \in Alerts(apart)!Cause \cup {Alerts(apart)!None}
      /\ Alerts(apart)!None \in Alerts(apart)!Cause \cup {Alerts(apart)!None}
  BY ActorsAreFew, CallIsTyped DEF AlertsInv
<1>1. /\ op' = [op EXCEPT ![a] = s]
      /\ UNCHANGED <<provider, account, alertChanges, chat, faults, active, claims>>
      /\ op[a].pc = "issue" /\ active[c] # Alerts(apart)!None
  BY DEF Alerts!Claim, Alerts!Call
<1>2. s \in OpType(apart) /\ s.pc = "idle" BY <1>0 DEF OpType, Alerts!IdleOp
<1> HIDE DEF s
<1>3. op' \in [AlertActor(apart) -> OpType(apart)] /\ op'[a] = s
  BY <1>1, <1>2, AlertCallStep DEF AlertsInv
<1>4. /\ active \in [Alerts(apart)!Channel -> Alerts(apart)!Cause \cup {Alerts(apart)!None}]
      /\ chat \in [Alerts(apart)!Channel -> ChatType(apart)]
      /\ claims \in [Alerts(apart)!Channel -> Nat]
      /\ faults \in [telling: Nat, lost: Nat, crashes: Nat]
  BY DEF AlertsInv, Alerts!TypeOK, ChatType
<1>5. /\ active' \in [Alerts(apart)!Channel -> Alerts(apart)!Cause \cup {Alerts(apart)!None}]
      /\ chat' \in [Alerts(apart)!Channel -> ChatType(apart)]
      /\ claims' \in [Alerts(apart)!Channel -> Nat]
      /\ chat'[c] = chat[c] /\ claims'[c] = claims[c] /\ active'[c] = active[c]
      /\ faults' = faults
      /\ chat[c].issues \in Nat /\ chat[c].recoveries \in Nat /\ claims[c] \in Nat
      /\ \A d \in Alerts(apart)!Channel : d # c =>
            chat'[d] = chat[d] /\ claims'[d] = claims[d] /\ active'[d] = active[d]
  BY <1>0, <1>1, <1>4 DEF ChatType
<1>6. Alerts(apart)!TypeOK'
  BY <1>1, <1>3, <1>5 DEF AlertsInv, Alerts!TypeOK, OpType, ChatType
<1>7. apart => faults'.lost = 0 /\ faults'.crashes = 0 BY <1>5 DEF AlertsInv
<1>8. apart => Standing(a)'
  <2> SUFFICES ASSUME apart PROVE Standing(a)' OBVIOUS
  <2>1. Standing(a) /\ Alerts(TRUE)!ChannelOf(a) = c /\ Alerts(TRUE)!None = Alerts(apart)!None
    BY DEF AlertsInv, AlertActor
  <2> QED BY <1>1, <1>2, <1>3, <1>4, <1>5, <2>1 DEF Standing, Told
<1>9. OthersStay(apart, a) BY <1>5 DEF OthersStay
<1>10. Accounted(apart, a, s) BY <1>1, <1>2, <1>5 DEF Accounted, One
<1> QED BY <1>1, <1>2, <1>6, <1>7, <1>8, <1>9, <1>10, AlertActs

\* The message is sent by whoever opened the incident.
LEMMA AlertSends ==
    ASSUME NEW apart \in BOOLEAN, AlertsInv(apart), NEW a \in AlertActor(apart),
           Alerts(apart)!Send(a)
    PROVE  AlertsInv(apart)'
<1> DEFINE c == Alerts(apart)!ChannelOf(a)
           s == [pc |-> "idle", cause |-> Alerts(apart)!None]
<1>0. /\ c \in Alerts(apart)!Channel /\ op[a] \in OpType(apart)
      /\ op[a].cause \in Alerts(apart)!Cause \cup {Alerts(apart)!None}
      /\ Alerts(apart)!None \in Alerts(apart)!Cause \cup {Alerts(apart)!None}
  BY ActorsAreFew, CallIsTyped DEF AlertsInv
<1>1. /\ op' = [op EXCEPT ![a] = s]
      /\ UNCHANGED <<provider, account, alertChanges, active, claims, faults>>
      /\ op[a].pc = "sending"
      /\ chat' = [chat EXCEPT ![c].last = "issue", ![c].cause = op[a].cause, ![c].issues = @ + 1]
  BY DEF Alerts!Send, Alerts!Call
<1>2. s \in OpType(apart) /\ s.pc = "idle" BY <1>0 DEF OpType
<1> HIDE DEF s
<1>3. op' \in [AlertActor(apart) -> OpType(apart)] /\ op'[a] = s
  BY <1>1, <1>2, AlertCallStep DEF AlertsInv
<1>4. /\ active \in [Alerts(apart)!Channel -> Alerts(apart)!Cause \cup {Alerts(apart)!None}]
      /\ chat \in [Alerts(apart)!Channel -> ChatType(apart)]
      /\ claims \in [Alerts(apart)!Channel -> Nat]
      /\ faults \in [telling: Nat, lost: Nat, crashes: Nat]
  BY DEF AlertsInv, Alerts!TypeOK, ChatType
<1> DEFINE t == [chat[c] EXCEPT !.last = "issue", !.cause = op[a].cause, !.issues = @ + 1]
<1>b. /\ chat' = [chat EXCEPT ![c] = t] BY <1>0, <1>1, <1>4
<1>c. chat[c] \in ChatType(apart) /\ chat[c].issues + 1 \in Nat /\ chat[c].recoveries + 1 \in Nat
  BY <1>0, <1>4 DEF ChatType
<1>d. t \in ChatType(apart) /\ t.last = "issue" /\ t.issues = chat[c].issues + 1
      /\ t.recoveries = chat[c].recoveries
  BY <1>0, <1>c DEF ChatType
<1> HIDE DEF t
<1>5. /\ active' \in [Alerts(apart)!Channel -> Alerts(apart)!Cause \cup {Alerts(apart)!None}]
      /\ chat' \in [Alerts(apart)!Channel -> ChatType(apart)]
      /\ claims' \in [Alerts(apart)!Channel -> Nat]
      /\ chat'[c] = t /\ claims'[c] = claims[c] /\ active'[c] = active[c] /\ faults' = faults
      /\ chat[c].issues \in Nat /\ chat[c].recoveries \in Nat /\ claims[c] \in Nat
      /\ \A d \in Alerts(apart)!Channel : d # c =>
            chat'[d] = chat[d] /\ claims'[d] = claims[d] /\ active'[d] = active[d]
  BY <1>0, <1>1, <1>4, <1>b, <1>d DEF ChatType
<1>6. Alerts(apart)!TypeOK'
  BY <1>1, <1>3, <1>5 DEF AlertsInv, Alerts!TypeOK, OpType, ChatType
<1>7. apart => faults'.lost = 0 /\ faults'.crashes = 0 BY <1>5 DEF AlertsInv
<1>8. apart => Standing(a)'
  <2> SUFFICES ASSUME apart PROVE Standing(a)' OBVIOUS
  <2>1. Standing(a) /\ Alerts(TRUE)!ChannelOf(a) = c /\ Alerts(TRUE)!None = Alerts(apart)!None
    BY DEF AlertsInv, AlertActor
  <2> QED BY <1>1, <1>2, <1>3, <1>d, <1>5, <2>1 DEF Standing, Told
<1>9. OthersStay(apart, a) BY <1>5 DEF OthersStay
<1>10. Accounted(apart, a, s) BY <1>1, <1>2, <1>5, <1>d DEF Accounted, One
<1> QED BY <1>1, <1>2, <1>6, <1>7, <1>8, <1>9, <1>10, AlertActs

\* The recovery is told by whoever took the incident.
LEMMA AlertTells ==
    ASSUME NEW apart \in BOOLEAN, AlertsInv(apart), NEW a \in AlertActor(apart),
           Alerts(apart)!Tell(a)
    PROVE  AlertsInv(apart)'
<1> DEFINE c == Alerts(apart)!ChannelOf(a)
           s == [pc |-> "idle", cause |-> Alerts(apart)!None]
<1>0. /\ c \in Alerts(apart)!Channel /\ op[a] \in OpType(apart)
      /\ op[a].cause \in Alerts(apart)!Cause \cup {Alerts(apart)!None}
      /\ Alerts(apart)!None \in Alerts(apart)!Cause \cup {Alerts(apart)!None}
  BY ActorsAreFew, CallIsTyped DEF AlertsInv
<1>1. /\ op' = [op EXCEPT ![a] = s]
      /\ UNCHANGED <<provider, account, alertChanges, active, claims, faults>>
      /\ op[a].pc = "telling"
      /\ chat' = [chat EXCEPT ![c].last = "recovery", ![c].cause = Alerts(apart)!None,
           ![c].recoveries = @ + 1]
  BY DEF Alerts!Tell, Alerts!Call
<1>2. s \in OpType(apart) /\ s.pc = "idle" BY <1>0 DEF OpType
<1> HIDE DEF s
<1>3. op' \in [AlertActor(apart) -> OpType(apart)] /\ op'[a] = s
  BY <1>1, <1>2, AlertCallStep DEF AlertsInv
<1>4. /\ active \in [Alerts(apart)!Channel -> Alerts(apart)!Cause \cup {Alerts(apart)!None}]
      /\ chat \in [Alerts(apart)!Channel -> ChatType(apart)]
      /\ claims \in [Alerts(apart)!Channel -> Nat]
      /\ faults \in [telling: Nat, lost: Nat, crashes: Nat]
  BY DEF AlertsInv, Alerts!TypeOK, ChatType
<1> DEFINE t == [chat[c] EXCEPT !.last = "recovery", !.cause = Alerts(apart)!None,
    !.recoveries = @ + 1]
<1>b. /\ chat' = [chat EXCEPT ![c] = t] BY <1>0, <1>1, <1>4
<1>c. chat[c] \in ChatType(apart) /\ chat[c].issues + 1 \in Nat /\ chat[c].recoveries + 1 \in Nat
  BY <1>0, <1>4 DEF ChatType
<1>d. t \in ChatType(apart) /\ t.last = "recovery" /\ t.issues = chat[c].issues
      /\ t.recoveries = chat[c].recoveries + 1
  BY <1>0, <1>c DEF ChatType
<1> HIDE DEF t
<1>5. /\ active' \in [Alerts(apart)!Channel -> Alerts(apart)!Cause \cup {Alerts(apart)!None}]
      /\ chat' \in [Alerts(apart)!Channel -> ChatType(apart)]
      /\ claims' \in [Alerts(apart)!Channel -> Nat]
      /\ chat'[c] = t /\ claims'[c] = claims[c] /\ active'[c] = active[c] /\ faults' = faults
      /\ chat[c].issues \in Nat /\ chat[c].recoveries \in Nat /\ claims[c] \in Nat
      /\ \A d \in Alerts(apart)!Channel : d # c =>
            chat'[d] = chat[d] /\ claims'[d] = claims[d] /\ active'[d] = active[d]
  BY <1>0, <1>1, <1>4, <1>b, <1>d DEF ChatType
<1>6. Alerts(apart)!TypeOK'
  BY <1>1, <1>3, <1>5 DEF AlertsInv, Alerts!TypeOK, OpType, ChatType
<1>7. apart => faults'.lost = 0 /\ faults'.crashes = 0 BY <1>5 DEF AlertsInv
<1>8. apart => Standing(a)'
  <2> SUFFICES ASSUME apart PROVE Standing(a)' OBVIOUS
  <2>1. Standing(a) /\ Alerts(TRUE)!ChannelOf(a) = c /\ Alerts(TRUE)!None = Alerts(apart)!None
    BY DEF AlertsInv, AlertActor
  <2> QED BY <1>1, <1>2, <1>3, <1>d, <1>5, <2>1 DEF Standing, Told
<1>9. OthersStay(apart, a) BY <1>5 DEF OthersStay
<1>10. Accounted(apart, a, s) BY <1>1, <1>2, <1>5, <1>d DEF Accounted, One
<1> QED BY <1>1, <1>2, <1>6, <1>7, <1>8, <1>9, <1>10, AlertActs

\* The message is not delivered: whoever opened the incident is to undo it.
LEMMA AlertNotSent ==
    ASSUME NEW apart \in BOOLEAN, AlertsInv(apart), NEW a \in AlertActor(apart),
           Alerts(apart)!SendFails(a)
    PROVE  AlertsInv(apart)'
<1> DEFINE c == Alerts(apart)!ChannelOf(a)
           s == [pc |-> "undo", cause |-> Alerts(apart)!None]
<1>0. /\ c \in Alerts(apart)!Channel /\ op[a] \in OpType(apart)
      /\ op[a].cause \in Alerts(apart)!Cause \cup {Alerts(apart)!None}
      /\ Alerts(apart)!None \in Alerts(apart)!Cause \cup {Alerts(apart)!None}
  BY ActorsAreFew, CallIsTyped DEF AlertsInv
<1>1. /\ op' = [op EXCEPT ![a] = s]
      /\ UNCHANGED <<provider, account, alertChanges, active, chat, claims>>
      /\ op[a].pc = "sending" /\ faults' = [faults EXCEPT !.telling = @ + 1]
  BY DEF Alerts!SendFails, Alerts!Call
<1>2. s \in OpType(apart) /\ s.pc = "undo" BY <1>0 DEF OpType
<1> HIDE DEF s
<1>3. op' \in [AlertActor(apart) -> OpType(apart)] /\ op'[a] = s
  BY <1>1, <1>2, AlertCallStep DEF AlertsInv
<1>4. /\ active \in [Alerts(apart)!Channel -> Alerts(apart)!Cause \cup {Alerts(apart)!None}]
      /\ chat \in [Alerts(apart)!Channel -> ChatType(apart)]
      /\ claims \in [Alerts(apart)!Channel -> Nat]
      /\ faults \in [telling: Nat, lost: Nat, crashes: Nat]
  BY DEF AlertsInv, Alerts!TypeOK, ChatType
<1>5. /\ active' \in [Alerts(apart)!Channel -> Alerts(apart)!Cause \cup {Alerts(apart)!None}]
      /\ chat' \in [Alerts(apart)!Channel -> ChatType(apart)]
      /\ claims' \in [Alerts(apart)!Channel -> Nat]
      /\ chat'[c] = chat[c] /\ claims'[c] = claims[c] /\ active'[c] = active[c]
      /\ faults' \in [telling: Nat, lost: Nat, crashes: Nat] /\ faults'.lost = faults.lost
      /\ faults'.crashes = faults.crashes
      /\ chat[c].issues \in Nat /\ chat[c].recoveries \in Nat /\ claims[c] \in Nat
      /\ \A d \in Alerts(apart)!Channel : d # c =>
            chat'[d] = chat[d] /\ claims'[d] = claims[d] /\ active'[d] = active[d]
  BY <1>0, <1>1, <1>4 DEF ChatType
<1>6. Alerts(apart)!TypeOK'
  BY <1>1, <1>3, <1>5 DEF AlertsInv, Alerts!TypeOK, OpType, ChatType
<1>7. apart => faults'.lost = 0 /\ faults'.crashes = 0 BY <1>5 DEF AlertsInv
<1>8. apart => Standing(a)'
  <2> SUFFICES ASSUME apart PROVE Standing(a)' OBVIOUS
  <2>1. Standing(a) /\ Alerts(TRUE)!ChannelOf(a) = c /\ Alerts(TRUE)!None = Alerts(apart)!None
    BY DEF AlertsInv, AlertActor
  <2> QED BY <1>1, <1>2, <1>3, <1>4, <1>5, <2>1 DEF Standing, Told
<1>9. OthersStay(apart, a) BY <1>5 DEF OthersStay
<1>10. Accounted(apart, a, s) BY <1>1, <1>2, <1>5 DEF Accounted, One
<1> QED BY <1>1, <1>2, <1>6, <1>7, <1>8, <1>9, <1>10, AlertActs

\* The incident is undone, if it is still the one that was opened.
LEMMA AlertUndoes ==
    ASSUME NEW apart \in BOOLEAN, AlertsInv(apart), NEW a \in AlertActor(apart),
           Alerts(apart)!Undo(a)
    PROVE  AlertsInv(apart)'
<1> DEFINE c == Alerts(apart)!ChannelOf(a)
           s == [pc |-> "idle", cause |-> Alerts(apart)!None]
<1>0. /\ c \in Alerts(apart)!Channel /\ op[a] \in OpType(apart)
      /\ op[a].cause \in Alerts(apart)!Cause \cup {Alerts(apart)!None}
      /\ Alerts(apart)!None \in Alerts(apart)!Cause \cup {Alerts(apart)!None}
  BY ActorsAreFew, CallIsTyped DEF AlertsInv
<1>1. /\ op' = [op EXCEPT ![a] = s]
      /\ UNCHANGED <<provider, account, alertChanges, chat, claims, faults>>
      /\ op[a].pc = "undo" /\ active' = [active EXCEPT ![c] = Alerts(apart)!None]
  BY DEF Alerts!Undo, Alerts!Call
<1>2. s \in OpType(apart) /\ s.pc = "idle" BY <1>0 DEF OpType
<1> HIDE DEF s
<1>3. op' \in [AlertActor(apart) -> OpType(apart)] /\ op'[a] = s
  BY <1>1, <1>2, AlertCallStep DEF AlertsInv
<1>4. /\ active \in [Alerts(apart)!Channel -> Alerts(apart)!Cause \cup {Alerts(apart)!None}]
      /\ chat \in [Alerts(apart)!Channel -> ChatType(apart)]
      /\ claims \in [Alerts(apart)!Channel -> Nat]
      /\ faults \in [telling: Nat, lost: Nat, crashes: Nat]
  BY DEF AlertsInv, Alerts!TypeOK, ChatType
<1>5. /\ active' \in [Alerts(apart)!Channel -> Alerts(apart)!Cause \cup {Alerts(apart)!None}]
      /\ chat' \in [Alerts(apart)!Channel -> ChatType(apart)]
      /\ claims' \in [Alerts(apart)!Channel -> Nat]
      /\ chat'[c] = chat[c] /\ claims'[c] = claims[c] /\ active'[c] = Alerts(apart)!None
      /\ faults' = faults
      /\ chat[c].issues \in Nat /\ chat[c].recoveries \in Nat /\ claims[c] \in Nat
      /\ \A d \in Alerts(apart)!Channel : d # c =>
            chat'[d] = chat[d] /\ claims'[d] = claims[d] /\ active'[d] = active[d]
  BY <1>0, <1>1, <1>4 DEF ChatType
<1>6. Alerts(apart)!TypeOK'
  BY <1>1, <1>3, <1>5 DEF AlertsInv, Alerts!TypeOK, OpType, ChatType
<1>7. apart => faults'.lost = 0 /\ faults'.crashes = 0 BY <1>5 DEF AlertsInv
<1>8. apart => Standing(a)'
  <2> SUFFICES ASSUME apart PROVE Standing(a)' OBVIOUS
  <2>1. Standing(a) /\ Alerts(TRUE)!ChannelOf(a) = c /\ Alerts(TRUE)!None = Alerts(apart)!None
    BY DEF AlertsInv, AlertActor
  <2> QED BY <1>1, <1>2, <1>3, <1>4, <1>5, <2>1 DEF Standing, Told
<1>9. OthersStay(apart, a) BY <1>5 DEF OthersStay
<1>10. Accounted(apart, a, s) BY <1>1, <1>2, <1>5 DEF Accounted, One
<1> QED BY <1>1, <1>2, <1>6, <1>7, <1>8, <1>9, <1>10, AlertActs

\* The incident is taken, by one actor alone: its recovery is due to no one else.
LEMMA AlertTakes ==
    ASSUME NEW apart \in BOOLEAN, AlertsInv(apart), NEW a \in AlertActor(apart),
           Alerts(apart)!Take(a)
    PROVE  AlertsInv(apart)'
<1> DEFINE c == Alerts(apart)!ChannelOf(a)
           s == [pc |-> IF active[c] = Alerts(apart)!None THEN "idle" ELSE "telling",
             cause |-> Alerts(apart)!None]
<1>0. /\ c \in Alerts(apart)!Channel /\ op[a] \in OpType(apart)
      /\ op[a].cause \in Alerts(apart)!Cause \cup {Alerts(apart)!None}
      /\ Alerts(apart)!None \in Alerts(apart)!Cause \cup {Alerts(apart)!None}
  BY ActorsAreFew, CallIsTyped DEF AlertsInv
<1>1. /\ op' = [op EXCEPT ![a] = s]
      /\ UNCHANGED <<provider, account, alertChanges, chat, claims, faults>>
      /\ op[a].pc = "recovered" /\ active' = [active EXCEPT ![c] = Alerts(apart)!None]
  BY DEF Alerts!Take, Alerts!Call
<1>2. s \in OpType(apart)
      /\ s.pc = (IF active[c] = Alerts(apart)!None THEN "idle" ELSE "telling") BY <1>0 DEF OpType
<1> HIDE DEF s
<1>3. op' \in [AlertActor(apart) -> OpType(apart)] /\ op'[a] = s
  BY <1>1, <1>2, AlertCallStep DEF AlertsInv
<1>4. /\ active \in [Alerts(apart)!Channel -> Alerts(apart)!Cause \cup {Alerts(apart)!None}]
      /\ chat \in [Alerts(apart)!Channel -> ChatType(apart)]
      /\ claims \in [Alerts(apart)!Channel -> Nat]
      /\ faults \in [telling: Nat, lost: Nat, crashes: Nat]
  BY DEF AlertsInv, Alerts!TypeOK, ChatType
<1>5. /\ active' \in [Alerts(apart)!Channel -> Alerts(apart)!Cause \cup {Alerts(apart)!None}]
      /\ chat' \in [Alerts(apart)!Channel -> ChatType(apart)]
      /\ claims' \in [Alerts(apart)!Channel -> Nat]
      /\ chat'[c] = chat[c] /\ claims'[c] = claims[c] /\ active'[c] = Alerts(apart)!None
      /\ faults' = faults
      /\ chat[c].issues \in Nat /\ chat[c].recoveries \in Nat /\ claims[c] \in Nat
      /\ \A d \in Alerts(apart)!Channel : d # c =>
            chat'[d] = chat[d] /\ claims'[d] = claims[d] /\ active'[d] = active[d]
  BY <1>0, <1>1, <1>4 DEF ChatType
<1>6. Alerts(apart)!TypeOK'
  BY <1>1, <1>3, <1>5 DEF AlertsInv, Alerts!TypeOK, OpType, ChatType
<1>7. apart => faults'.lost = 0 /\ faults'.crashes = 0 BY <1>5 DEF AlertsInv
<1>8. apart => Standing(a)'
  <2> SUFFICES ASSUME apart PROVE Standing(a)' OBVIOUS
  <2>1. Standing(a) /\ Alerts(TRUE)!ChannelOf(a) = c /\ Alerts(TRUE)!None = Alerts(apart)!None
    BY DEF AlertsInv, AlertActor
  <2> QED BY <1>1, <1>2, <1>3, <1>4, <1>5, <2>1 DEF Standing, Told
<1>9. OthersStay(apart, a) BY <1>5 DEF OthersStay
<1>10. Accounted(apart, a, s) BY <1>1, <1>2, <1>5 DEF Accounted, One
<1> QED BY <1>1, <1>2, <1>6, <1>7, <1>8, <1>9, <1>10, AlertActs

\* A message is lost, or whoever was sending it dies.
LEMMA AlertLost ==
    ASSUME NEW apart \in BOOLEAN, AlertsInv(apart), NEW a \in AlertActor(apart),
           Alerts(apart)!TellFails(a) \/ Alerts(apart)!Crash(a)
    PROVE  AlertsInv(apart)'
<1> DEFINE c == Alerts(apart)!ChannelOf(a)
           s == [pc |-> "idle", cause |-> Alerts(apart)!None]
<1>0. /\ c \in Alerts(apart)!Channel /\ op[a] \in OpType(apart)
  BY ActorsAreFew, CallIsTyped DEF AlertsInv
<1>1. /\ op' = [op EXCEPT ![a] = s]
      /\ UNCHANGED <<provider, account, alertChanges, active, chat, claims>>
      /\ \/ faults' = [faults EXCEPT !.lost = @ + 1] /\ faults.lost < IF apart THEN 0 ELSE MaxLost
         \/ faults' = [faults EXCEPT !.crashes = @ + 1]
              /\ faults.crashes < IF apart THEN 0 ELSE MaxCrashes
  BY DEF Alerts!TellFails, Alerts!Crash, Alerts!Call
<1>2. s \in OpType(apart) /\ s.pc = "idle" BY DEF OpType
<1> HIDE DEF s
<1>3. op' \in [AlertActor(apart) -> OpType(apart)] /\ op'[a] = s
  BY <1>1, <1>2, AlertCallStep DEF AlertsInv
<1>4. /\ chat \in [Alerts(apart)!Channel -> ChatType(apart)]
      /\ claims \in [Alerts(apart)!Channel -> Nat]
      /\ faults \in [telling: Nat, lost: Nat, crashes: Nat]
  BY DEF AlertsInv, Alerts!TypeOK, ChatType
<1>5. /\ faults' \in [telling: Nat, lost: Nat, crashes: Nat]
      /\ chat[c].issues \in Nat /\ chat[c].recoveries \in Nat /\ claims[c] \in Nat
  BY <1>0, <1>1, <1>4 DEF ChatType
<1>6. Alerts(apart)!TypeOK'
  BY <1>1, <1>3, <1>5 DEF AlertsInv, Alerts!TypeOK, OpType
<1>7. ~apart
  <2> SUFFICES ASSUME apart PROVE FALSE OBVIOUS
  <2>1. faults.lost = 0 /\ faults.crashes = 0 BY DEF AlertsInv
  <2>2. faults.lost < 0 \/ faults.crashes < 0 BY <1>1
  <2> QED BY <2>1, <2>2
<1>8. OthersStay(apart, a) BY <1>1 DEF OthersStay
<1>9. op[a].pc \in {"idle", "issue", "sending", "undo", "recovered", "telling"} BY <1>0 DEF OpType
<1>10. Accounted(apart, a, s) BY <1>1, <1>2, <1>5, <1>9 DEF Accounted, One
<1> QED BY <1>1, <1>2, <1>6, <1>7, <1>8, <1>10, AlertActs

\* What is none of the actors' doing.
LEMMA AlertOutside ==
    ASSUME NEW apart \in BOOLEAN, AlertsInv(apart),
           \/ Alerts(apart)!ProviderChanges \/ Alerts(apart)!TimePasses
           \/ Alerts(apart)!Reconnect \/ Alerts(apart)!Pause \/ UNCHANGED Alerts(apart)!vars
    PROVE  AlertsInv(apart)'
<1>0. /\ account \in [status: Alerts(apart)!Status, late: BOOLEAN, pushExpired: BOOLEAN]
      /\ provider \in Alerts(apart)!Answer /\ alertChanges \in Nat
  BY DEF AlertsInv, Alerts!TypeOK
<1>1. UNCHANGED <<active, op, chat, claims, faults>>
  BY DEF Alerts!ProviderChanges, Alerts!TimePasses, Alerts!Reconnect, Alerts!Pause,
     Alerts!ChangeAccount, Alerts!vars
<1>2. alertChanges' \in Nat
  BY <1>0
     DEF Alerts!ProviderChanges, Alerts!TimePasses, Alerts!Reconnect, Alerts!Pause,
     Alerts!ChangeAccount, Alerts!vars
<1>3. provider' \in Alerts(apart)!Answer
  BY <1>0
     DEF Alerts!ProviderChanges, Alerts!TimePasses, Alerts!Reconnect, Alerts!Pause,
     Alerts!ChangeAccount, Alerts!vars,
              Alerts!Answer
<1>4. account' \in [status: Alerts(apart)!Status, late: BOOLEAN, pushExpired: BOOLEAN]
  <2>1. \/ account' = account \/ account' = [account EXCEPT !.late = TRUE]
        \/ account' = [account EXCEPT !.pushExpired = TRUE]
        \/ \E t \in {"connected", "disconnected"} : account' = [account EXCEPT !.status = t]
    BY DEF Alerts!ProviderChanges, Alerts!TimePasses, Alerts!Reconnect, Alerts!Pause,
       Alerts!ChangeAccount, Alerts!vars
  <2> QED BY <1>0, <2>1 DEF Alerts!Status
<1>5. Alerts(apart)!TypeOK' BY <1>1, <1>2, <1>3, <1>4 DEF AlertsInv, Alerts!TypeOK
<1>6. \A pc, d : Those(apart, pc, d)' = Those(apart, pc, d) BY <1>1 DEF Those
<1>7. OpenedCovers(apart)' BY <1>1, <1>6 DEF AlertsInv, OpenedCovers
<1>8. apart => \A a \in AlertActor(TRUE) : Standing(a)' BY <1>1 DEF AlertsInv, Standing, Told
<1> QED BY <1>1, <1>5, <1>7, <1>8 DEF AlertsInv

\* Every step keeps the invariant.
LEMMA AlertsStep ==
    ASSUME NEW apart \in BOOLEAN, AlertsInv(apart), [Alerts(apart)!Next]_(Alerts(apart)!vars)
    PROVE  AlertsInv(apart)'
<1>1. ASSUME NEW a \in AlertActor(apart), AlertAct(apart, a) PROVE AlertsInv(apart)'
  <2>1. CASE Alerts(apart)!Claim(a) BY <2>1, AlertOpens, AlertFindsOpen
  <2> QED BY <1>1, <2>1, AlertSends, AlertTells, AlertNotSent, AlertUndoes, AlertTakes, AlertLost
          DEF AlertAct, Alerts!Alerting
<1>2. CASE AlertRun(apart) BY <1>2, AlertRunSound
<1>3. CASE \/ Alerts(apart)!ProviderChanges \/ Alerts(apart)!TimePasses
           \/ Alerts(apart)!Reconnect \/ Alerts(apart)!Pause \/ UNCHANGED Alerts(apart)!vars
  BY <1>3, AlertOutside
<1> QED BY <1>1, <1>2, <1>3 DEF Alerts!Next, AlertAct, AlertRun

\* What the run checks follows.
LEMMA AlertsFollow ==
    ASSUME NEW apart \in BOOLEAN, AlertsInv(apart)
    PROVE  /\ Alerts(apart)!TypeOK /\ Alerts(apart)!OneMessagePerIncident
           /\ apart => Alerts(apart)!RecoveryFollowsIncident /\ Alerts(apart)!ActiveIsTold
<1>1. Alerts(apart)!TypeOK BY DEF AlertsInv
<1>2. Alerts(apart)!OneMessagePerIncident
  <2> SUFFICES ASSUME NEW c \in Alerts(apart)!Channel
               PROVE  chat[c].issues <= claims[c] /\ chat[c].recoveries <= claims[c]
    BY DEF Alerts!OneMessagePerIncident
  <2>1. chat[c].issues \in Nat /\ chat[c].recoveries \in Nat /\ claims[c] \in Nat BY <1>1
        DEF Alerts!TypeOK
  <2>2. /\ Cardinality(Those(apart, "sending", c)) \in Nat
        /\ Cardinality(Those(apart, "telling", c)) \in Nat
    BY ActorsAreFew
  <2> QED BY <2>1, <2>2 DEF AlertsInv, OpenedCovers
<1>3. ASSUME apart PROVE Alerts(apart)!RecoveryFollowsIncident /\ Alerts(apart)!ActiveIsTold
  <2> SUFFICES ASSUME \A a \in AlertActor(apart) : op[a].pc = "idle",
                      NEW c \in Alerts(apart)!Channel
               PROVE  active[c] # Alerts(apart)!None <=> chat[c].last = "issue"
    BY DEF Alerts!RecoveryFollowsIncident, Alerts!ActiveIsTold
  <2>1. PICK a \in AlertActor(TRUE) : Alerts(TRUE)!ChannelOf(a) = c
    BY DEF Alerts!Channel, Alerts!ChannelOf, AlertActor
  <2>2. Standing(a) /\ op[a].pc = "idle" BY <1>3, <2>1 DEF AlertsInv, AlertActor
  <2> QED BY <2>1, <2>2 DEF Standing, Told, Alerts!None
<1> QED BY <1>1, <1>2, <1>3

-----------------------------------------------------------------------------
(* ProviderTokens *)

\* The consents the user has given, as far as encrypted.
Consents(slow) == {gens[g].consent : g \in 1..Len(gens)}
\* They are the first so many, and the row's is the last of them: that is how LatestConsent, a number
\* of consents, can be compared with the consent of the row.
ConsentsAreNumbered(slow) == Consents(slow) = 1..gens[tokenRow.grant].consent

\* What an operation has in memory is about the encryptions made so far; the refresh token it
\* was refused, or was given an access token for, is the one it remembers.
MemoryIsSound(slow) ==
    \A p \in Tokens(slow)!Ops :
        /\ operation[p].grant \in 1..Len(gens)
        /\ operation[p].pc = "refused" => Tokens(slow)!RefusesRefresh(operation[p].grant)
        /\ operation[p].pc = "publishing" =>
              /\ operation[p].token \in 1..Len(tokens)
              /\ tokens[operation[p].token] = gens[operation[p].grant].consent
\* Who is about to ask for reauthorization holds the row, and the row is as it found it.
MarkIsHeld(slow) ==
    \A p \in Tokens(slow)!Ops : operation[p].pc = "marked" =>
        /\ rowLock = p /\ tokenRow.grant = operation[p].grant
        /\ Tokens(slow)!RefusesRefresh(tokenRow.grant)
        /\ tokenRow.status \in Tokens(slow)!Usable \cup {"reauth_required"}
\* While rows may be kept for long, no grant lacks the scope of IMAP.
NoImapGrant(slow) == \A g \in 1..Len(gens) : ~gens[g].imap
\* Reauthorization is asked of the user when the row's grant refuses to be refreshed.
ReauthIsRefused(slow) == tokenRow.status = "reauth_required" =>
  Tokens(slow)!RefusesRefresh(tokenRow.grant)
\* The inductive invariant of the grant: what operations remember is about grants there have been,
\* and who marks the row holds it.
GrantInv(slow) ==
    /\ Tokens(slow)!TypeOK /\ ConsentsAreNumbered(slow) /\ MemoryIsSound(slow) /\ MarkIsHeld(slow)
    /\ ReauthIsRefused(slow)
    /\ Tokens(slow)!TokenIsOfGrant

\* Who asks the provider for a token; while rows are not kept for long, also who waits for the row
\* to commit what the provider has given.
Refreshing(slow) ==
    {p \in Tokens(slow)!Ops :
        operation[p].pc \in {"reread", "refreshing"} \cup (IF slow THEN {} ELSE {"publishing"})}
\* It holds the refresh lock of the account: the lock expires only under who waits for the row.
RefresherHoldsLock(slow) == \A p \in Refreshing(slow) : tokenLock = p
\* The inductive invariant while rows are not kept for longer than the refresh lock lasts.
QuickInv(slow) == GrantInv(slow) /\ RefresherHoldsLock(slow) /\ Tokens(slow)!NoNeedlessRefresh
\* An encrypted grant.
Encryption(slow) == [consent: Nat, imap: BOOLEAN]

\* A grant's fields.
LEMMA EncryptionTyped ==
    ASSUME NEW slow, Tokens(slow)!TypeOK, NEW g \in 1..Len(gens)
    PROVE  gens[g] \in Encryption(slow) /\ gens[g].consent \in Nat /\ gens[g].imap \in BOOLEAN
<1>1. gens \in Seq(Encryption(slow)) BY DEF Tokens!TypeOK, Encryption
<1>2. gens[g] \in Encryption(slow) BY <1>1
<1> QED BY <1>2 DEF Encryption

\* A grant encrypted anew leaves the others as they were, ...
LEMMA AppendedGrant ==
    ASSUME NEW slow, Tokens(slow)!TypeOK, NEW r \in Encryption(slow), gens' = Append(gens, r)
    PROVE  /\ gens' \in Seq(Encryption(slow))
           /\ Len(gens') = Len(gens) + 1 /\ Len(gens) \in Nat
           /\ \A g \in 1..Len(gens) : gens'[g] = gens[g]
           /\ gens'[Len(gens')] = r
           /\ Consents(slow)' = Consents(slow) \cup {r.consent}
<1>1. gens \in Seq(Encryption(slow)) BY DEF Tokens!TypeOK, Encryption
<1>2. /\ gens' \in Seq(Encryption(slow))
      /\ Len(gens') = Len(gens) + 1 /\ Len(gens) \in Nat
      /\ \A g \in 1..Len(gens) : gens'[g] = gens[g]
      /\ gens'[Len(gens')] = r
  BY <1>1
<1>3. 1..Len(gens') = 1..Len(gens) \cup {Len(gens')} BY <1>2
<1>4. Consents(slow)' = Consents(slow) \cup {r.consent} BY <1>2, <1>3 DEF Consents
<1> QED BY <1>2, <1>4

\* ... and so does a token.
LEMMA AppendedToken ==
    ASSUME NEW slow, Tokens(slow)!TypeOK, NEW c \in Nat, tokens' = Append(tokens, c)
    PROVE  /\ tokens' \in Seq(Nat)
           /\ Len(tokens') = Len(tokens) + 1 /\ Len(tokens) \in Nat
           /\ \A t \in 1..Len(tokens) : tokens'[t] = tokens[t]
           /\ tokens'[Len(tokens')] = c
BY DEF Tokens!TypeOK

\* The component's Cardinality is this module's.
LEMMA TokensCard == \A slow, S : Tokens(slow)!Cardinality(S) = Cardinality(S)
BY DEF Tokens!Cardinality, Cardinality

\* The last consent is the row's.
LEMMA LatestIsCounted ==
    ASSUME NEW slow, Tokens(slow)!TypeOK, ConsentsAreNumbered(slow)
    PROVE  Tokens(slow)!LatestConsent = gens[tokenRow.grant].consent
           /\ Tokens(slow)!LatestConsent \in Nat
<1>1. tokenRow.grant \in 1..Len(gens) BY DEF Tokens!TypeOK
<1>2. gens[tokenRow.grant].consent \in Nat BY <1>1, EncryptionTyped
<1>3. Cardinality(1..gens[tokenRow.grant].consent) = gens[tokenRow.grant].consent
  BY <1>2, FS_Interval
<1> QED BY <1>2, <1>3, TokensCard DEF Tokens!LatestConsent, ConsentsAreNumbered, Consents

\* At first there is one grant, of the first consent.
LEMMA TokensInit == ASSUME NEW slow, TokensAssumption, Tokens(slow)!Init PROVE QuickInv(slow)
<1>1. Tokens(slow)!TypeOK
  BY DEF Tokens!Init, Tokens!TypeOK, Tokens!IdleOp, Tokens!OpState, Tokens!PC, Tokens!NoToken,
     Tokens!Status, Tokens!Usable
<1>2. ConsentsAreNumbered(slow)
  BY DEF Tokens!Init, ConsentsAreNumbered, Consents
<1> QED BY <1>1, <1>2
           DEF Tokens!Init, QuickInv, GrantInv, MemoryIsSound, MarkIsHeld, ReauthIsRefused,
           Tokens!TokenIsOfGrant, RefresherHoldsLock,
   Tokens!NoNeedlessRefresh, Refreshing, Tokens!IdleOp, Tokens!NoToken

\* A step of one operation leaves the others where they are.
LEMMA SetType ==
    ASSUME NEW slow, Tokens(slow)!TypeOK, NEW p \in Tokens(slow)!Ops,
           NEW s \in Tokens(slow)!OpState, Tokens(slow)!Set(p, s)
    PROVE  /\ operation' \in [Tokens(slow)!Ops -> Tokens(slow)!OpState] /\ operation'[p] = s
           /\ \A q \in Tokens(slow)!Ops \ {p} : operation'[q] = operation[q]
BY DEF Tokens!TypeOK, Tokens!Set

\* An operation that has ended has a state.
LEMMA IdleIsState ==
    ASSUME NEW slow
    PROVE  Tokens(slow)!IdleOp \in Tokens(slow)!OpState
BY DEF Tokens!IdleOp, Tokens!OpState, Tokens!PC, Tokens!NoToken

\* The user's steps keep the types, ...
LEMMA TokenUserType ==
    ASSUME NEW slow, Tokens(slow)!TypeOK, ConsentsAreNumbered(slow), Tokens(slow)!User
    PROVE  Tokens(slow)!TypeOK'
<1>1. ASSUME NEW g, NEW t, NEW st \in Tokens(slow)!Status,
             Tokens(slow)!Act([grant |-> g, access |-> t, status |-> st]),
             gens' \in Seq(Encryption(slow)), g \in 1..Len(gens'),
             tokens' \in Seq(Nat), t \in 0..Len(tokens'), Len(tokens) <= Len(tokens')
      PROVE  Tokens(slow)!TypeOK'
  BY <1>1 DEF Tokens!TypeOK, Tokens!Act, Encryption
<1>2. CASE Tokens(slow)!ReconnectOAuth
  <2>1. PICK c \in {Tokens(slow)!LatestConsent, Tokens(slow)!LatestConsent + 1} :
          /\ gens' = Append(gens, [consent |-> c, imap |-> FALSE])
          /\ tokens' = Append(tokens, c)
    BY <1>2 DEF Tokens!ReconnectOAuth
  <2>2. c \in Nat BY LatestIsCounted
  <2>3. [consent |-> c, imap |-> FALSE] \in Encryption(slow) BY <2>2 DEF Encryption
  <2>a. gens' \in Seq(Encryption(slow)) /\ Len(gens') \in 1..Len(gens')
    BY <2>1, <2>3, AppendedGrant
  <2>4. tokens' \in Seq(Nat) /\ Len(tokens') \in 0..Len(tokens') /\ Len(tokens) <= Len(tokens')
    BY <2>1, <2>2, AppendedToken
  <2> QED BY <1>1, <1>2, <2>a, <2>4 DEF Tokens!ReconnectOAuth, Tokens!Status, Tokens!Usable
<1>3. CASE Tokens(slow)!ReconnectImap
  <2>1. Tokens(slow)!LatestConsent + 1 \in Nat BY LatestIsCounted
  <2>2. [consent |-> Tokens(slow)!LatestConsent + 1, imap |-> TRUE] \in Encryption(slow) BY <2>1
        DEF Encryption
  <2>3. /\ gens' \in Seq(Encryption(slow)) /\ Len(gens') \in 1..Len(gens')
    BY <1>3, <2>2, AppendedGrant DEF Tokens!ReconnectImap
  <2>4. tokens' \in Seq(Nat) /\ Len(tokens) <= Len(tokens')
        /\ Tokens(slow)!NoToken \in 0..Len(tokens')
    BY <1>3 DEF Tokens!ReconnectImap, Tokens!TypeOK, Tokens!NoToken
  <2> QED BY <1>1, <1>3, <2>3, <2>4 DEF Tokens!ReconnectImap, Tokens!Status, Tokens!Usable
<1>4. CASE Tokens(slow)!Pause \/ Tokens(slow)!Resume
  <2>1. PICK st \in {"disconnected", "connected"} : tokenRow' = [tokenRow EXCEPT !.status = st]
    BY <1>4 DEF Tokens!Pause, Tokens!Resume, Tokens!Act
  <2>2. UNCHANGED <<gens, tokens, rowLock, tokenLock, operation, lapsed, revoked, crashes>>
        /\ acts' = acts + 1
    BY <1>4 DEF Tokens!Pause, Tokens!Resume, Tokens!Act
  <2>3. st \in Tokens(slow)!Status BY DEF Tokens!Status, Tokens!Usable
  <2>4. tokenRow' \in [grant: 1..Len(gens), access: 0..Len(tokens), status: Tokens(slow)!Status]
    BY <2>1, <2>3 DEF Tokens!TypeOK
  <2> HIDE DEF Tokens!Status
  <2>5. /\ acts' \in Nat
        /\ tokenRow' \in [grant: 1..Len(gens'), access: 0..Len(tokens'),
             status: Tokens(slow)!Status]
    BY <2>2, <2>4 DEF Tokens!TypeOK
  <2> QED BY <2>2, <2>5 DEF Tokens!TypeOK
<1> QED BY <1>2, <1>3, <1>4 DEF Tokens!User

\* ... and so do the operations'.
LEMMA TokenStepType ==
    ASSUME NEW slow, Tokens(slow)!TypeOK, MemoryIsSound(slow), NEW p \in Tokens(slow)!Ops,
           Tokens(slow)!Step(p) \/ Tokens(slow)!Crash(p)
    PROVE  Tokens(slow)!TypeOK'
<1>0. /\ operation[p] \in Tokens(slow)!OpState /\ Tokens(slow)!IdleOp \in Tokens(slow)!OpState
      /\ tokenRow.grant \in 1..Len(gens)
      /\ tokenRow.access \in 0..Len(tokens) /\ tokenRow.status \in Tokens(slow)!Status
      /\ Len(gens) \in Nat /\ Len(tokens) \in Nat
      /\ tokens \in Seq(Nat) /\ operation[p].grant \in 1..Len(gens)
  BY IdleIsState DEF Tokens!TypeOK, MemoryIsSound
<1>1. ASSUME NEW s \in Tokens(slow)!OpState, Tokens(slow)!Set(p, s), tokenRow' = tokenRow,
             UNCHANGED <<gens, tokens, lapsed, revoked, acts>>,
             rowLock' \in {rowLock, p, NoOp}, tokenLock' \in {tokenLock, p, NoOp, Dead},
               crashes' \in Nat
      PROVE  Tokens(slow)!TypeOK'
  <2>1. operation' \in [Tokens(slow)!Ops -> Tokens(slow)!OpState] BY <1>1, SetType
  <2> QED BY <1>1, <2>1 DEF Tokens!TypeOK
<1>2. ASSUME NEW s \in Tokens(slow)!OpState, Tokens(slow)!Set(p, s),
             tokenRow' \in [grant: 1..Len(gens), access: 0..Len(tokens),
               status: Tokens(slow)!Status],
             UNCHANGED <<tokenLock, gens, tokens, lapsed, revoked, acts, crashes>>,
             rowLock' \in {rowLock, p, NoOp}
      PROVE  Tokens(slow)!TypeOK'
  <2>1. operation' \in [Tokens(slow)!Ops -> Tokens(slow)!OpState] BY <1>2, SetType
  <2> QED BY <1>2, <2>1 DEF Tokens!TypeOK
<1>3. ASSUME NEW pc \in Tokens(slow)!PC, NEW g \in 1..Len(gens), NEW t \in 0..Len(tokens)
      PROVE  /\ [Tokens(slow)!IdleOp EXCEPT !.pc = pc, !.grant = g] \in Tokens(slow)!OpState
             /\ [operation[p] EXCEPT !.pc = pc] \in Tokens(slow)!OpState
             /\ [operation[p] EXCEPT !.pc = pc, !.grant = g, !.token = t] \in Tokens(slow)!OpState
             /\ [operation[p] EXCEPT !.pc = pc, !.grant = g] \in Tokens(slow)!OpState
             /\ [operation[p] EXCEPT !.pc = pc, !.rejected = operation[p].token,
                  !.retried = TRUE] \in Tokens(slow)!OpState
             /\ [operation[p] EXCEPT !.running = FALSE] \in Tokens(slow)!OpState
             /\ [operation[p] EXCEPT !.running = TRUE] \in Tokens(slow)!OpState
  <2>1. t \in Nat /\ g \in Nat BY <1>0
  <2> QED BY <1>0, <2>1 DEF Tokens!OpState
<1>4. Tokens(slow)!FailRun(p) \in Tokens(slow)!OpState
  BY <1>0, <1>3 DEF Tokens!FailRun, Tokens!PC, Tokens!NoToken
<1>5. Tokens(slow)!PC = Tokens(slow)!PC
      /\ {"idle", "want", "reread", "refreshing", "publishing", "using", "refused", "marked",
      "failed"} \subseteq Tokens(slow)!PC
  BY DEF Tokens!PC
<1>6. ASSUME Tokens(slow)!Load(p) PROVE Tokens(slow)!TypeOK'
  BY <1>0, <1>1, <1>3, <1>5, <1>6 DEF Tokens!Load, Tokens!TypeOK
<1>7. ASSUME Tokens(slow)!Acquire(p) \/ Tokens(slow)!Busy(p) PROVE Tokens(slow)!TypeOK'
  BY <1>0, <1>1, <1>3, <1>4, <1>5, <1>7 DEF Tokens!Acquire, Tokens!Busy, Tokens!TypeOK
<1>8. ASSUME Tokens(slow)!Reread(p) PROVE Tokens(slow)!TypeOK'
  BY <1>0, <1>1, <1>3, <1>4, <1>5, <1>8 DEF Tokens!Reread, Tokens!ReleaseLock, Tokens!TypeOK
<1>9. ASSUME Tokens(slow)!Refused(p) \/ Tokens(slow)!Unanswered(p) PROVE Tokens(slow)!TypeOK'
  BY <1>0, <1>1, <1>3, <1>5, <1>9
     DEF Tokens!Refused, Tokens!Unanswered, Tokens!ReleaseLock, Tokens!TypeOK
<1>10. ASSUME Tokens(slow)!Start(p) \/ Tokens(slow)!Rejected(p) \/ Tokens(slow)!MarkReauth(p)
              \/ Tokens(slow)!Raise(p) PROVE Tokens(slow)!TypeOK'
  BY <1>0, <1>1, <1>3, <1>5, <1>10
     DEF Tokens!Start, Tokens!Rejected, Tokens!MarkReauth, Tokens!Raise, Tokens!TypeOK
<1>14. ASSUME Tokens(slow)!Crash(p) PROVE Tokens(slow)!TypeOK'
  <2>1. crashes' \in Nat BY <1>14 DEF Tokens!Crash, Tokens!TypeOK
  <2> QED BY <1>0, <1>1, <1>14, <2>1 DEF Tokens!Crash, Tokens!EndTransaction, Tokens!TypeOK
<1>11. ASSUME Tokens(slow)!Done(p) \/ Tokens(slow)!Fail(p) \/ Tokens(slow)!CommitReauth(p)
       PROVE  Tokens(slow)!TypeOK'
  <2>1. /\ [tokenRow EXCEPT !.status = "connected"] \in [grant: 1..Len(gens),
           access: 0..Len(tokens), status: Tokens(slow)!Status]
        /\ [tokenRow EXCEPT !.status = "reauth_required"] \in [grant: 1..Len(gens),
             access: 0..Len(tokens), status: Tokens(slow)!Status]
        /\ [tokenRow EXCEPT !.status = "error"] \in [grant: 1..Len(gens), access: 0..Len(tokens),
             status: Tokens(slow)!Status]
        /\ [tokenRow EXCEPT !.status = "reauth_required",
             !.access = Tokens(slow)!NoToken] \in [grant: 1..Len(gens), access: 0..Len(tokens),
             status: Tokens(slow)!Status]
        /\ tokenRow \in [grant: 1..Len(gens), access: 0..Len(tokens), status: Tokens(slow)!Status]
    <3>1. tokenRow \in [grant: 1..Len(gens), access: 0..Len(tokens), status: Tokens(slow)!Status] BY
          DEF Tokens!TypeOK
    <3>2. Tokens(slow)!NoToken \in 0..Len(tokens) BY <1>0 DEF Tokens!NoToken
    <3>3. {"connected", "reauth_required", "error"} \subseteq Tokens(slow)!Status BY
          DEF Tokens!Status, Tokens!Usable
    <3> QED BY <3>1, <3>2, <3>3
  <2> QED BY <1>0, <1>2, <1>3, <1>5, <1>11, <2>1
             DEF Tokens!Done, Tokens!Fail, Tokens!CommitReauth, Tokens!EndTransaction
<1>12. ASSUME Tokens(slow)!Refreshed(p) PROVE Tokens(slow)!TypeOK'
  <2> DEFINE c == gens[operation[p].grant].consent
  <2>1. c \in Nat BY <1>0, EncryptionTyped
  <2>2. tokens' \in Seq(Nat) /\ Len(tokens') = Len(tokens) + 1
    BY <1>12, <2>1, AppendedToken DEF Tokens!Refreshed
  <2>3. [operation[p] EXCEPT !.pc = "publishing", !.token = Len(tokens')] \in Tokens(slow)!OpState
    <3>1. \A t \in Nat : [operation[p] EXCEPT !.pc = "publishing",
          !.token = t] \in Tokens(slow)!OpState
      BY <1>0 DEF Tokens!OpState, Tokens!PC
    <3>2. Len(tokens') \in Nat BY <1>0, <2>2
    <3> QED BY <3>1, <3>2
  <2>4. operation' \in [Tokens(slow)!Ops -> Tokens(slow)!OpState] BY <1>12, <2>3, SetType
        DEF Tokens!Refreshed
  <2>5. UNCHANGED <<tokenRow, rowLock, tokenLock, gens, lapsed, revoked, acts, crashes>>
    BY <1>12 DEF Tokens!Refreshed
  <2> QED BY <1>0, <2>2, <2>4, <2>5 DEF Tokens!TypeOK
<1>13. ASSUME Tokens(slow)!Publish(p) PROVE Tokens(slow)!TypeOK'
  <2>1. /\ tokenLock' \in {tokenLock, NoOp} /\ rowLock' \in {rowLock, NoOp}
        /\ UNCHANGED <<tokens, lapsed, revoked, acts, crashes>>
    BY <1>13 DEF Tokens!Publish, Tokens!ReleaseLock, Tokens!EndTransaction
  <2>2. CASE ~Tokens(slow)!Applies(operation[p].grant, "")
    BY <1>0, <1>13, <2>1, <2>2, SetType DEF Tokens!Publish, Tokens!TypeOK
  <2>3. CASE Tokens(slow)!Applies(operation[p].grant, "")
    <3> DEFINE g == IF (slow \in Rotating) THEN Len(gens) + 1 ELSE tokenRow.grant
               st == IF operation[p].running THEN "syncing" ELSE tokenRow.status
    <3>1. gens' \in Seq(Encryption(slow)) /\ g \in 1..Len(gens')
      <4>1. CASE (slow \in Rotating)
        <5>1. gens[operation[p].grant] \in Encryption(slow) BY <1>0, EncryptionTyped
        <5>2. gens' = Append(gens, gens[operation[p].grant]) BY <1>13, <2>3, <4>1 DEF Tokens!Publish
        <5>3. gens' \in Seq(Encryption(slow)) /\ Len(gens') = Len(gens) + 1
          BY <5>1, <5>2, AppendedGrant
        <5> QED BY <1>0, <4>1, <5>3
      <4>2. CASE ~(slow \in Rotating)
        BY <1>0, <1>13, <2>3, <4>2 DEF Tokens!Publish, Tokens!TypeOK, Encryption
      <4> QED BY <4>1, <4>2
    <3>2. tokenRow' = [grant |-> g, access |-> operation[p].token, status |-> st]
          /\ Tokens(slow)!Set(p, [operation[p] EXCEPT !.pc = "using", !.grant = g])
      BY <1>13, <2>3 DEF Tokens!Publish
    <3>3. st \in Tokens(slow)!Status BY <1>0 DEF Tokens!Status, Tokens!Usable
    <3>4. operation[p].token \in 0..Len(tokens)
      <4>1. operation[p].token \in 1..Len(tokens) BY <1>13 DEF Tokens!Publish, MemoryIsSound
      <4> QED BY <1>0, <4>1
    <3>5. g \in Nat BY <3>1
    <3> HIDE DEF g, st
    <3>6. operation' \in [Tokens(slow)!Ops -> Tokens(slow)!OpState]
      <4>1. [operation[p] EXCEPT !.pc = "using", !.grant = g] \in Tokens(slow)!OpState
        BY <1>0, <3>5 DEF Tokens!OpState, Tokens!PC
      <4> QED BY <3>2, <4>1, SetType
    <3>7. tokenRow' \in [grant: 1..Len(gens'), access: 0..Len(tokens'), status: Tokens(slow)!Status]
      BY <2>1, <3>1, <3>2, <3>3, <3>4
    <3> QED BY <2>1, <3>1, <3>6, <3>7 DEF Tokens!TypeOK, Encryption
  <2> QED BY <2>2, <2>3
<1> QED BY <1>6, <1>7, <1>8, <1>9, <1>10, <1>11, <1>12, <1>13, <1>14 DEF Tokens!Step

\* Who finds the row free finds no other about to mark it.
LEMMA NoOtherMark ==
    ASSUME NEW slow, TokensAssumption, MarkIsHeld(slow), NEW p, Tokens(slow)!RowFree(p)
    PROVE  \A q \in Tokens(slow)!Ops : q # p => operation[q].pc # "marked"
BY DEF TokensAssumption, Tokens!Ops, MarkIsHeld, Tokens!RowFree

\* A step of an operation that neither encrypts nor revokes, and asks for reauthorization only of a
\* grant that is refused, keeps the invariant.
LEMMA QuietKeeps ==
    ASSUME NEW slow, TokensAssumption, GrantInv(slow), Tokens(slow)!TypeOK',
           NEW p \in Tokens(slow)!Ops, NEW s \in Tokens(slow)!OpState, Tokens(slow)!Set(p, s),
           UNCHANGED <<gens, tokens, revoked>>,
           s.grant \in 1..Len(gens), s.pc \notin {"publishing", "marked"},
           s.pc = "refused" => Tokens(slow)!RefusesRefresh(s.grant),
           (tokenRow' = tokenRow /\ rowLock' = rowLock) \/ Tokens(slow)!RowFree(p),
           tokenRow'.grant = tokenRow.grant, tokenRow'.access \in {tokenRow.access,
             Tokens(slow)!NoToken},
           tokenRow'.status = "reauth_required" =>
               tokenRow.status = "reauth_required" \/ Tokens(slow)!RefusesRefresh(tokenRow.grant)
    PROVE  GrantInv(slow)'
<1> USE DEF GrantInv
<1>1. /\ operation'[p] = s /\ \A q \in Tokens(slow)!Ops \ {p} : operation'[q] = operation[q]
  BY SetType
<1>2. \A g : Tokens(slow)!RefusesRefresh(g)' <=> Tokens(slow)!RefusesRefresh(g)
  BY DEF Tokens!RefusesRefresh
<1>3. ConsentsAreNumbered(slow)' BY DEF ConsentsAreNumbered, Consents
<1>4. MemoryIsSound(slow)' BY <1>1, <1>2 DEF MemoryIsSound
<1>5. MarkIsHeld(slow)'
  <2>1. CASE Tokens(slow)!RowFree(p)
    BY <1>1, <2>1, NoOtherMark DEF MarkIsHeld
  <2>2. CASE tokenRow' = tokenRow /\ rowLock' = rowLock
    BY <1>1, <1>2, <2>2 DEF MarkIsHeld
  <2> QED BY <2>1, <2>2
<1>6. ReauthIsRefused(slow)' BY <1>2 DEF ReauthIsRefused
<1>7. Tokens(slow)!TokenIsOfGrant' BY DEF Tokens!TokenIsOfGrant
<1> QED BY <1>3, <1>4, <1>5, <1>6, <1>7

\* The user connects, pauses or resumes.
LEMMA TokenUserKeeps ==
    ASSUME NEW slow, TokensAssumption, GrantInv(slow), Tokens(slow)!User
    PROVE  GrantInv(slow)'
<1> USE DEF GrantInv
<1>0. Tokens(slow)!TypeOK' BY TokenUserType
<1>a. tokenRow.grant \in 1..Len(gens) /\ Len(gens) \in Nat
      /\ gens[tokenRow.grant].consent \in Consents(slow)
  BY DEF Tokens!TypeOK, Consents
<1>b. /\ Tokens(slow)!RowFree(NoOp) /\ UNCHANGED <<rowLock, tokenLock, operation, lapsed, revoked>>
  BY DEF Tokens!User, Tokens!ReconnectOAuth, Tokens!ReconnectImap, Tokens!Pause, Tokens!Resume,
     Tokens!Act
<1>1. MarkIsHeld(slow)'
  BY <1>b, NoOtherMark DEF MarkIsHeld, TokensAssumption, Tokens!Ops
<1>2. ASSUME NEW r \in Encryption(slow), gens' = Append(gens, r),
             r.consent \in {Tokens(slow)!LatestConsent, Tokens(slow)!LatestConsent + 1},
             tokenRow'.grant = Len(gens'), tokenRow'.status = "connected",
             \A t \in 1..Len(tokens) : tokens'[t] = tokens[t], Len(tokens) <= Len(tokens'),
             tokenRow'.access # Tokens(slow)!NoToken => tokens'[tokenRow'.access] = r.consent
      PROVE  ConsentsAreNumbered(slow)' /\ MemoryIsSound(slow)' /\ ReauthIsRefused(slow)'
             /\ Tokens(slow)!TokenIsOfGrant'
  <2>1. /\ Len(gens') = Len(gens) + 1 /\ \A g \in 1..Len(gens) : gens'[g] = gens[g]
        /\ gens'[tokenRow'.grant] = r /\ Consents(slow)' = Consents(slow) \cup {r.consent}
    BY <1>2, AppendedGrant
  <2>2. Consents(slow)' = 1..r.consent
    <3>1. Tokens(slow)!LatestConsent \in Nat /\ Consents(slow) = 1..Tokens(slow)!LatestConsent
          /\ Tokens(slow)!LatestConsent \in Consents(slow)
      BY <1>a, LatestIsCounted DEF ConsentsAreNumbered
    <3>2. 1..(Tokens(slow)!LatestConsent + 1) =
          1..Tokens(slow)!LatestConsent \cup {Tokens(slow)!LatestConsent + 1}
      BY <3>1
    <3> QED BY <1>2, <2>1, <3>1, <3>2
  <2>3. ConsentsAreNumbered(slow)' BY <2>1, <2>2 DEF ConsentsAreNumbered
  <2>4. \A g \in 1..Len(gens) : Tokens(slow)!RefusesRefresh(g)' <=> Tokens(slow)!RefusesRefresh(g)
    BY <1>b, <2>1 DEF Tokens!RefusesRefresh
  <2>5. MemoryIsSound(slow)'
    <3> SUFFICES ASSUME NEW q \in Tokens(slow)!Ops
        PROVE  /\ operation[q].grant \in 1..Len(gens')
               /\ operation[q].pc = "refused" => Tokens(slow)!RefusesRefresh(operation[q].grant)'
               /\ operation[q].pc = "publishing" =>
                     /\ operation[q].token \in 1..Len(tokens')
                     /\ tokens'[operation[q].token] = gens'[operation[q].grant].consent
      BY <1>b DEF MemoryIsSound
    <3>1. operation[q].grant \in 1..Len(gens) BY DEF MemoryIsSound
    <3>2. operation[q].grant \in 1..Len(gens') BY <1>a, <2>1, <3>1
    <3>3. operation[q].pc = "refused" => Tokens(slow)!RefusesRefresh(operation[q].grant)'
      BY <1>b, <2>4, <3>1 DEF MemoryIsSound
    <3>4. ASSUME operation[q].pc = "publishing"
          PROVE  /\ operation[q].token \in 1..Len(tokens')
                 /\ tokens'[operation[q].token] = gens'[operation[q].grant].consent
      <4>1. operation[q].token \in 1..Len(tokens)
            /\ tokens[operation[q].token] = gens[operation[q].grant].consent
        BY <3>4 DEF MemoryIsSound
      <4>2. Len(tokens) \in Nat /\ Len(tokens') \in Nat BY <1>0 DEF Tokens!TypeOK
      <4> QED BY <1>2, <2>1, <3>1, <4>1, <4>2
    <3> QED BY <3>2, <3>3, <3>4
  <2>6. ReauthIsRefused(slow)' BY <1>2 DEF ReauthIsRefused
  <2>7. Tokens(slow)!TokenIsOfGrant' BY <1>2, <2>1 DEF Tokens!TokenIsOfGrant
  <2> QED BY <2>3, <2>5, <2>6, <2>7
<1>3. CASE Tokens(slow)!ReconnectOAuth
  <2>1. PICK c \in {Tokens(slow)!LatestConsent, Tokens(slow)!LatestConsent + 1} :
          /\ gens' = Append(gens, [consent |-> c, imap |-> FALSE])
          /\ tokens' = Append(tokens, c)
    BY <1>3 DEF Tokens!ReconnectOAuth
  <2>2. tokenRow' = [grant |-> Len(gens'), access |-> Len(tokens'), status |-> "connected"]
    BY <1>3 DEF Tokens!ReconnectOAuth, Tokens!Act
  <2>3. c \in Nat BY LatestIsCounted
  <2>4. /\ \A t \in 1..Len(tokens) : tokens'[t] = tokens[t]
        /\ Len(tokens) <= Len(tokens') /\ tokens'[Len(tokens')] = c
    BY <2>1, <2>3, AppendedToken
  <2>5. [consent |-> c, imap |-> FALSE] \in Encryption(slow) BY <2>3 DEF Encryption
  <2> QED BY <1>0, <1>1, <1>2, <2>1, <2>2, <2>4, <2>5
<1>4. CASE Tokens(slow)!ReconnectImap
  <2>1. Tokens(slow)!LatestConsent + 1 \in Nat BY LatestIsCounted
  <2>2. [consent |-> Tokens(slow)!LatestConsent + 1, imap |-> TRUE] \in Encryption(slow) BY <2>1
        DEF Encryption
  <2>3. tokenRow' = [grant |-> Len(gens'), access |-> Tokens(slow)!NoToken, status |-> "connected"]
        /\ tokens' = tokens
    BY <1>4 DEF Tokens!ReconnectImap, Tokens!Act
  <2>4. Len(tokens) <= Len(tokens) BY DEF Tokens!TypeOK
  <2> QED BY <1>0, <1>1, <1>2, <1>4, <2>2, <2>3, <2>4 DEF Tokens!ReconnectImap
<1>5. CASE Tokens(slow)!Pause \/ Tokens(slow)!Resume
  <2>1. /\ tokenRow'.grant = tokenRow.grant /\ tokenRow'.access = tokenRow.access
        /\ tokenRow'.status \in {"disconnected", "connected"} /\ UNCHANGED <<gens, tokens>>
    BY <1>5 DEF Tokens!Pause, Tokens!Resume, Tokens!Act, Tokens!TypeOK
  <2> QED
    BY <1>0, <1>1, <1>b, <2>1 DEF ConsentsAreNumbered, Consents, MemoryIsSound, ReauthIsRefused,
       Tokens!TokenIsOfGrant, Tokens!RefusesRefresh
<1> QED BY <1>3, <1>4, <1>5 DEF Tokens!User

\* An operation goes on: what it publishes or marks is about the grant it remembers, and is applied
\* only if the row has that grant still.
LEMMA TokenStepKeeps ==
    ASSUME NEW slow, TokensAssumption, GrantInv(slow), NEW p \in Tokens(slow)!Ops,
           Tokens(slow)!Step(p) \/ Tokens(slow)!Crash(p)
    PROVE  GrantInv(slow)'
<1>0. Tokens(slow)!TypeOK' BY TokenStepType DEF GrantInv
<1>a. /\ operation[p] \in Tokens(slow)!OpState /\ Tokens(slow)!IdleOp \in Tokens(slow)!OpState
      /\ operation[p].grant \in 1..Len(gens)
      /\ 1 \in 1..Len(gens) /\ tokenRow.grant \in 1..Len(gens) /\ Len(gens) \in Nat
      /\ tokenRow.status \in Tokens(slow)!Status
  BY IdleIsState DEF GrantInv, Tokens!TypeOK, MemoryIsSound
<1>b. operation'[p] \in Tokens(slow)!OpState
  BY <1>0 DEF Tokens!TypeOK
<1>1. ASSUME NEW s, Tokens(slow)!Set(p, s), UNCHANGED <<gens, tokens, revoked>>,
             s.grant \in {operation[p].grant, tokenRow.grant, 1}, s.pc \notin {"publishing",
               "marked"},
             s.pc = "refused" => Tokens(slow)!RefusesRefresh(s.grant),
             (tokenRow' = tokenRow /\ rowLock' = rowLock) \/ Tokens(slow)!RowFree(p),
             tokenRow'.grant = tokenRow.grant, tokenRow'.access \in {tokenRow.access,
               Tokens(slow)!NoToken},
             tokenRow'.status = "reauth_required" =>
                 tokenRow.status = "reauth_required" \/ Tokens(slow)!RefusesRefresh(tokenRow.grant)
      PROVE  GrantInv(slow)'
  <2>1. s \in Tokens(slow)!OpState BY <1>1, <1>b DEF Tokens!Set, GrantInv, Tokens!TypeOK
  <2> QED BY <1>0, <1>1, <1>a, <2>1, QuietKeeps
<1>3. rowLock' = rowLock \/ Tokens(slow)!RowFree(p) \/ ~Tokens(slow)!EndTransaction(p)
  BY DEF Tokens!EndTransaction, Tokens!RowFree
<1>4. Tokens(slow)!IdleOp.grant = 1 /\ Tokens(slow)!IdleOp.pc = "idle"
      /\ Tokens(slow)!FailRun(p).grant \in {operation[p].grant, 1}
      /\ Tokens(slow)!FailRun(p).pc \in {"idle", "failed"}
  BY <1>a DEF Tokens!IdleOp, Tokens!FailRun, Tokens!OpState
<1>5. CASE Tokens(slow)!Load(p)
  <2>1. [Tokens(slow)!IdleOp EXCEPT !.pc = "want", !.grant = tokenRow.grant].grant = tokenRow.grant
        /\ [Tokens(slow)!IdleOp EXCEPT !.pc = "want", !.grant = tokenRow.grant].pc = "want"
    BY DEF Tokens!IdleOp
  <2> QED BY <1>1, <1>5, <2>1 DEF Tokens!Load
<1>6. CASE Tokens(slow)!Acquire(p) \/ Tokens(slow)!Busy(p)
  BY <1>1, <1>4, <1>6, <1>a DEF Tokens!Acquire, Tokens!Busy, Tokens!OpState
<1>7. CASE Tokens(slow)!Reread(p)
  <2> DEFINE using == [operation[p] EXCEPT !.pc = "using", !.grant = tokenRow.grant,
      !.token = tokenRow.access]
             refreshing == [operation[p] EXCEPT !.pc = "refreshing", !.grant = tokenRow.grant]
  <2>1. Tokens(slow)!Set(p, Tokens(slow)!FailRun(p)) \/ Tokens(slow)!Set(p, using)
        \/ Tokens(slow)!Set(p, refreshing)
    BY <1>7 DEF Tokens!Reread
  <2>2. /\ using.grant = tokenRow.grant /\ using.pc = "using"
        /\ refreshing.grant = tokenRow.grant /\ refreshing.pc = "refreshing"
    BY <1>a DEF Tokens!OpState
  <2> HIDE DEF using, refreshing
  <2> QED BY <1>1, <1>4, <1>7, <2>1, <2>2 DEF Tokens!Reread
<1>8. CASE Tokens(slow)!Refused(p) \/ Tokens(slow)!Unanswered(p)
  BY <1>1, <1>8, <1>a DEF Tokens!Refused, Tokens!Unanswered, Tokens!OpState
<1>9. CASE Tokens(slow)!Start(p)
  BY <1>1, <1>4, <1>9, <1>a DEF Tokens!Start, Tokens!OpState
<1>10. CASE Tokens(slow)!Rejected(p) \/ Tokens(slow)!Raise(p)
  BY <1>1, <1>4, <1>10, <1>a DEF Tokens!Rejected, Tokens!Raise, Tokens!OpState
<1>11. CASE Tokens(slow)!Done(p)
  <2>1. tokenRow' = tokenRow \/ (tokenRow' = [tokenRow EXCEPT !.status = "connected"]
        /\ Tokens(slow)!RowFree(p))
    BY <1>11 DEF Tokens!Done
  <2> QED BY <1>1, <1>3, <1>4, <1>11, <2>1 DEF Tokens!Done, GrantInv, Tokens!TypeOK
<1>12. CASE Tokens(slow)!Fail(p)
  <2>1. \/ tokenRow' = tokenRow
        \/ /\ Tokens(slow)!RowFree(p) /\ tokenRow.grant = operation[p].grant
           /\ \/ tokenRow' = [tokenRow EXCEPT !.status = "error"]
              \/ operation[p].pc = "refused"
                   /\ tokenRow' = [tokenRow EXCEPT !.status = "reauth_required"]
    BY <1>12 DEF Tokens!Fail, Tokens!Applies
  <2>2. operation[p].pc = "refused" =>
        Tokens(slow)!RefusesRefresh(operation[p].grant) BY DEF GrantInv, MemoryIsSound
  <2>3. \/ Tokens(slow)!Set(p, Tokens(slow)!IdleOp)
        \/ operation[p].pc = "refused"
             /\ Tokens(slow)!Set(p, [operation[p] EXCEPT !.running = FALSE])
    BY <1>12 DEF Tokens!Fail
  <2>4. \E s : /\ Tokens(slow)!Set(p, s) /\ s.grant \in {operation[p].grant, 1}
                  /\ s.pc \notin {"publishing", "marked"}
               /\ s.pc = "refused" => Tokens(slow)!RefusesRefresh(s.grant)
    BY <1>4, <1>a, <2>2, <2>3 DEF Tokens!OpState
  <2>5. /\ tokenRow'.grant = tokenRow.grant /\ tokenRow'.access = tokenRow.access
        /\ tokenRow'.status = "reauth_required" =>
             tokenRow.status = "reauth_required" \/ Tokens(slow)!RefusesRefresh(tokenRow.grant)
    BY <2>1, <2>2 DEF GrantInv, Tokens!TypeOK
  <2> QED BY <1>1, <1>3, <1>12, <2>1, <2>4, <2>5 DEF Tokens!Fail
<1>13. CASE Tokens(slow)!CommitReauth(p)
  <2>1. /\ rowLock = p /\ Tokens(slow)!RefusesRefresh(tokenRow.grant)
        /\ tokenRow'.grant = tokenRow.grant /\ tokenRow'.access = Tokens(slow)!NoToken
    BY <1>13 DEF Tokens!CommitReauth, GrantInv, MarkIsHeld, Tokens!TypeOK
  <2> QED BY <1>1, <1>4, <1>13, <2>1 DEF Tokens!CommitReauth, Tokens!RowFree
<1>14. CASE Tokens(slow)!MarkReauth(p)
  <2>1. CASE ~Tokens(slow)!Applies(operation[p].grant, "reauth_required")
    BY <1>1, <1>4, <1>14, <2>1 DEF Tokens!MarkReauth
  <2>2. CASE Tokens(slow)!Applies(operation[p].grant, "reauth_required")
    <3>1. /\ operation'[p].pc = "marked" /\ operation'[p].grant = operation[p].grant
             /\ \A q \in Tokens(slow)!Ops \ {p} : operation'[q] = operation[q]
          /\ rowLock' = p /\ operation[p].pc = "refused" /\ Tokens(slow)!RowFree(p)
          /\ UNCHANGED <<tokenRow, gens, tokens, revoked>>
      <4>1. /\ Tokens(slow)!Set(p, [operation[p] EXCEPT !.pc = "marked"]) /\ rowLock' = p
            /\ operation[p].pc = "refused"
            /\ Tokens(slow)!RowFree(p) /\ UNCHANGED <<tokenRow, gens, tokens, revoked>>
        BY <1>14, <2>2 DEF Tokens!MarkReauth
      <4>2. operation' = [operation EXCEPT ![p] = [operation[p] EXCEPT !.pc = "marked"]]
            /\ operation \in [Tokens(slow)!Ops -> Tokens(slow)!OpState]
        BY <4>1 DEF Tokens!Set, GrantInv, Tokens!TypeOK
      <4>3. operation'[p] = [operation[p] EXCEPT !.pc = "marked"]
            /\ \A q \in Tokens(slow)!Ops \ {p} : operation'[q] = operation[q]
        BY <4>2
      <4>4. operation'[p].pc = "marked" /\ operation'[p].grant = operation[p].grant
        BY <4>3, <1>a DEF Tokens!OpState
      <4> QED BY <4>1, <4>3, <4>4
    <3>2. \A g : Tokens(slow)!RefusesRefresh(g)' <=> Tokens(slow)!RefusesRefresh(g) BY <3>1
          DEF Tokens!RefusesRefresh
    <3>3. \A q \in Tokens(slow)!Ops \ {p} : operation[q].pc # "marked" BY <3>1, NoOtherMark
          DEF GrantInv
    <3>4. Tokens(slow)!RefusesRefresh(tokenRow.grant) /\ tokenRow.grant = operation[p].grant
          /\ tokenRow.status \in Tokens(slow)!Usable \cup {"reauth_required"}
      BY <2>2, <3>1 DEF Tokens!Applies, GrantInv, MemoryIsSound
    <3>5. MarkIsHeld(slow)' BY <3>1, <3>2, <3>3, <3>4 DEF MarkIsHeld
    <3>6. MemoryIsSound(slow)' BY <3>1, <3>2 DEF GrantInv, MemoryIsSound
    <3> QED
      BY <1>0, <3>1, <3>2, <3>5, <3>6
         DEF GrantInv, ConsentsAreNumbered, Consents, ReauthIsRefused, Tokens!TokenIsOfGrant
  <2> QED BY <2>1, <2>2
<1>15. CASE Tokens(slow)!Refreshed(p)
  <2> DEFINE c == gens[operation[p].grant].consent
  <2>1. c \in Nat BY <1>a, EncryptionTyped DEF GrantInv
  <2>2. /\ Len(tokens') = Len(tokens) + 1 /\ Len(tokens) \in Nat
        /\ \A t \in 1..Len(tokens) : tokens'[t] = tokens[t]
        /\ tokens'[Len(tokens')] = c
    BY <1>15, <2>1, AppendedToken DEF Tokens!Refreshed, GrantInv
  <2>3. /\ operation'[p].pc = "publishing" /\ operation'[p].grant = operation[p].grant
        /\ operation'[p].token = Len(tokens')
        /\ \A q \in Tokens(slow)!Ops \ {p} : operation'[q] = operation[q]
        /\ UNCHANGED <<tokenRow, rowLock, gens, revoked>> /\ operation[p].pc = "refreshing"
    BY <1>15, <1>a DEF Tokens!Refreshed, Tokens!Set, GrantInv, Tokens!TypeOK, Tokens!OpState
  <2>4. \A g : Tokens(slow)!RefusesRefresh(g)' <=> Tokens(slow)!RefusesRefresh(g) BY <2>3
        DEF Tokens!RefusesRefresh
  <2>5. MemoryIsSound(slow)'
    BY <1>a, <2>2, <2>3, <2>4 DEF GrantInv, MemoryIsSound
  <2>6. MarkIsHeld(slow)' BY <2>3, <2>4 DEF GrantInv, MarkIsHeld
  <2>7. Tokens(slow)!TokenIsOfGrant'
    <3>1. tokenRow.access \in 0..Len(tokens) BY DEF GrantInv, Tokens!TypeOK
    <3> QED BY <2>2, <2>3, <3>1 DEF GrantInv, Tokens!TokenIsOfGrant, Tokens!NoToken
  <2> QED
    BY <1>0, <2>3, <2>4, <2>5, <2>6, <2>7
       DEF GrantInv, ConsentsAreNumbered, Consents, ReauthIsRefused
<1>16. CASE Tokens(slow)!Publish(p)
  <2>1. CASE ~Tokens(slow)!Applies(operation[p].grant, "")
    BY <1>1, <1>3, <1>4, <1>16, <2>1 DEF Tokens!Publish
  <2>2. CASE Tokens(slow)!Applies(operation[p].grant, "")
    <3> DEFINE g == IF (slow \in Rotating) THEN Len(gens) + 1 ELSE tokenRow.grant
    <3>1. /\ operation[p].pc = "publishing" /\ Tokens(slow)!RowFree(p)
          /\ tokenRow.grant = operation[p].grant /\ tokenRow.status \in Tokens(slow)!Usable
          /\ gens' = IF (slow \in Rotating) THEN Append(gens, gens[operation[p].grant]) ELSE gens
          /\ tokenRow' = [grant |-> g, access |-> operation[p].token,
                     status |-> IF operation[p].running THEN "syncing" ELSE tokenRow.status]
          /\ Tokens(slow)!Set(p, [operation[p] EXCEPT !.pc = "using", !.grant = g])
          /\ UNCHANGED <<tokens, revoked>>
      BY <1>16, <2>2 DEF Tokens!Publish, Tokens!Applies
    <3>2. /\ g \in 1..Len(gens') /\ Len(gens) <= Len(gens') /\ Len(gens') \in Nat
          /\ gens'[g].consent = gens[tokenRow.grant].consent
          /\ \A h \in 1..Len(gens) : gens'[h] = gens[h]
          /\ Consents(slow)' = Consents(slow)
      <4>1. CASE (slow \in Rotating)
        <5>1. gens[operation[p].grant] \in Encryption(slow) BY <1>a, EncryptionTyped DEF GrantInv
        <5>2. /\ Len(gens') = Len(gens) + 1 /\ gens'[Len(gens')] = gens[tokenRow.grant]
              /\ \A h \in 1..Len(gens) : gens'[h] = gens[h]
              /\ Consents(slow)' = Consents(slow) \cup {gens[tokenRow.grant].consent}
          BY <3>1, <4>1, <5>1, AppendedGrant DEF GrantInv
        <5>3. gens[tokenRow.grant].consent \in Consents(slow) BY <1>a DEF Consents
        <5> QED BY <1>a, <4>1, <5>2, <5>3
      <4>2. CASE ~(slow \in Rotating)
        BY <1>a, <3>1, <4>2 DEF Consents
      <4> QED BY <4>1, <4>2
    <3> HIDE DEF g
    <3>3. /\ operation'[p].pc = "using" /\ operation'[p].grant = g
          /\ \A q \in Tokens(slow)!Ops \ {p} : operation'[q] = operation[q]
      BY <3>1, <1>a DEF Tokens!Set, GrantInv, Tokens!TypeOK, Tokens!OpState
    <3>4. \A h \in 1..Len(gens) : Tokens(slow)!RefusesRefresh(h)' <=> Tokens(slow)!RefusesRefresh(h)
      BY <3>1, <3>2 DEF Tokens!RefusesRefresh
    <3>5. \A q \in Tokens(slow)!Ops : operation[q].grant \in 1..Len(gens)
          /\ operation[q].grant \in 1..Len(gens')
      BY <1>a, <3>2 DEF GrantInv, MemoryIsSound
    <3>6. MemoryIsSound(slow)'
      <4> SUFFICES ASSUME NEW q \in Tokens(slow)!Ops
          PROVE  /\ operation'[q].grant \in 1..Len(gens')
                 /\ operation'[q].pc = "refused" =>
                       \/ gens'[operation'[q].grant].imap
                       \/ gens'[operation'[q].grant].consent \in revoked'
                 /\ operation'[q].pc = "publishing" =>
                       /\ operation'[q].token \in 1..Len(tokens')
                       /\ tokens'[operation'[q].token] = gens'[operation'[q].grant].consent
        BY DEF MemoryIsSound, Tokens!RefusesRefresh
      <4>1. CASE q = p BY <3>2, <3>3, <4>1
      <4>2. CASE q # p
        <5>1. operation'[q] = operation[q] BY <3>3, <4>2
        <5>2. operation[q].pc = "refused" =>
              Tokens(slow)!RefusesRefresh(operation[q].grant) BY DEF GrantInv, MemoryIsSound
        <5>3. operation[q].pc = "publishing" =>
                 operation[q].token \in 1..Len(tokens)
                   /\ tokens[operation[q].token] = gens[operation[q].grant].consent
          BY DEF GrantInv, MemoryIsSound
        <5> QED BY <3>1, <3>2, <3>5, <5>1, <5>2, <5>3 DEF Tokens!RefusesRefresh
      <4> QED BY <4>1, <4>2
    <3>7. MarkIsHeld(slow)'
      BY <3>1, <3>3, NoOtherMark DEF GrantInv, MarkIsHeld
    <3>8. ConsentsAreNumbered(slow)' BY <3>1, <3>2 DEF GrantInv, ConsentsAreNumbered
    <3>9. ReauthIsRefused(slow)' BY <3>1 DEF ReauthIsRefused, Tokens!Usable
    <3>10. Tokens(slow)!TokenIsOfGrant'
      BY <3>1, <3>2 DEF GrantInv, MemoryIsSound, Tokens!TokenIsOfGrant
    <3> QED BY <1>0, <3>6, <3>7, <3>8, <3>9, <3>10 DEF GrantInv
  <2> QED BY <2>1, <2>2
<1>17. CASE Tokens(slow)!Crash(p)
  BY <1>1, <1>3, <1>4, <1>17 DEF Tokens!Crash
<1> QED BY <1>5, <1>6, <1>7, <1>8, <1>9, <1>10, <1>11, <1>12, <1>13, <1>14, <1>15, <1>16, <1>17
           DEF Tokens!Step

\* Every step keeps the invariant of the grant.
LEMMA TokenGrantStep ==
    ASSUME NEW slow, TokensAssumption, GrantInv(slow), [Tokens(slow)!Next]_(Tokens(slow)!vars)
    PROVE  GrantInv(slow)'
<1>1. CASE Tokens(slow)!User BY <1>1, TokenUserKeeps
<1>2. CASE \E p \in Tokens(slow)!Ops : Tokens(slow)!Step(p)
           \/ Tokens(slow)!Crash(p) BY <1>2, TokenStepKeeps
<1>3. CASE Tokens(slow)!Provider \/ Tokens(slow)!LockExpires \/ UNCHANGED Tokens(slow)!vars
  <2>1. /\ UNCHANGED <<tokenRow, rowLock, operation, gens, tokens, acts, crashes>>
        /\ tokenLock' \in {tokenLock, NoOp} /\ revoked \subseteq revoked' /\ revoked' \subseteq Nat
        /\ lapsed' \subseteq 1..Len(tokens)
    <3>1. CASE \E t \in 1..Len(tokens) : Tokens(slow)!Lapse(t)
      BY <3>1 DEF Tokens!Lapse, GrantInv, Tokens!TypeOK
    <3>2. CASE \E c \in 1..Tokens(slow)!LatestConsent : Tokens(slow)!Revoke(c)
      <4>1. Tokens(slow)!LatestConsent \in Nat BY LatestIsCounted DEF GrantInv
      <4> QED BY <3>2, <4>1 DEF Tokens!Revoke, GrantInv, Tokens!TypeOK
    <3>3. CASE Tokens(slow)!LockExpires \/ UNCHANGED Tokens(slow)!vars
      BY <3>3 DEF Tokens!LockExpires, Tokens!vars, GrantInv, Tokens!TypeOK
    <3> QED BY <1>3, <3>1, <3>2, <3>3 DEF Tokens!Provider
  <2>2. \A g : Tokens(slow)!RefusesRefresh(g) =>
        Tokens(slow)!RefusesRefresh(g)' BY <2>1 DEF Tokens!RefusesRefresh
  <2> QED
    BY <2>1, <2>2
       DEF GrantInv, Tokens!TypeOK, ConsentsAreNumbered, Consents, MemoryIsSound, MarkIsHeld,
       ReauthIsRefused, Tokens!TokenIsOfGrant
<1> QED BY <1>1, <1>2, <1>3 DEF Tokens!Next

\* No step brings a grant without the scope of IMAP.
LEMMA NoImapStep ==
    ASSUME NEW slow, Tokens(slow)!TypeOK, MemoryIsSound(slow), ConsentsAreNumbered(slow),
           NoImapGrant(slow), [Tokens(slow)!Next]_(Tokens(slow)!vars)
    PROVE  NoImapGrant(slow)'
<1>1. ASSUME NEW r \in Encryption(slow), gens' = Append(gens, r), ~r.imap PROVE NoImapGrant(slow)'
  BY <1>1, AppendedGrant DEF NoImapGrant
<1>2. ASSUME gens' = gens PROVE NoImapGrant(slow)' BY <1>2 DEF NoImapGrant
<1>3. CASE Tokens(slow)!ReconnectOAuth
  <2>1. PICK c \in {Tokens(slow)!LatestConsent,
             Tokens(slow)!LatestConsent + 1} : gens' = Append(gens, [consent |-> c, imap |-> FALSE])
    BY <1>3 DEF Tokens!ReconnectOAuth
  <2>2. c \in Nat BY LatestIsCounted
  <2> DEFINE r == [consent |-> c, imap |-> FALSE]
  <2>3. r \in Encryption(slow) /\ ~r.imap BY <2>2 DEF Encryption
  <2>4. gens' = Append(gens, r) BY <2>1
  <2> HIDE DEF r
  <2> QED BY <1>1, <2>3, <2>4
<1>4. ASSUME NEW p \in Tokens(slow)!Ops, Tokens(slow)!Publish(p) PROVE NoImapGrant(slow)'
  <2>1. operation[p].grant \in 1..Len(gens) BY DEF MemoryIsSound
  <2>2. gens[operation[p].grant] \in Encryption(slow) /\ ~gens[operation[p].grant].imap
    BY <2>1, EncryptionTyped DEF NoImapGrant
  <2>3. gens' = gens \/ gens' = Append(gens, gens[operation[p].grant]) BY <1>4 DEF Tokens!Publish
  <2> QED BY <1>1, <1>2, <2>2, <2>3
<1>5. ASSUME NEW p \in Tokens(slow)!Ops, Tokens(slow)!Step(p), ~Tokens(slow)!Publish(p)
      PROVE  NoImapGrant(slow)'
  BY <1>2, <1>5
     DEF Tokens!Step, Tokens!Load, Tokens!Acquire, Tokens!Busy, Tokens!Reread, Tokens!Refreshed,
     Tokens!Refused, Tokens!Unanswered, Tokens!Start,
     Tokens!Rejected, Tokens!Done, Tokens!Fail, Tokens!MarkReauth, Tokens!CommitReauth, Tokens!Raise
<1> QED
  BY <1>2, <1>3, <1>4, <1>5
     DEF Tokens!Next, Tokens!User, Tokens!ReconnectImap, Tokens!Pause, Tokens!Resume, Tokens!Act,
     Tokens!Provider, Tokens!Lapse,
     Tokens!Revoke, Tokens!LockExpires, Tokens!Crash, Tokens!vars

\* No step but the user's ends a pause.
LEMMA TokenPauseStep ==
    ASSUME NEW slow, TokensAssumption, GrantInv(slow), [Tokens(slow)!Next]_(Tokens(slow)!vars)
    PROVE  Tokens(slow)!KeepsPause
<1> SUFFICES ASSUME tokenRow.status = "disconnected", acts' = acts
             PROVE  tokenRow'.status = "disconnected"
  BY DEF Tokens!KeepsPause
<1>1. ~Tokens(slow)!User
  BY DEF Tokens!User, Tokens!ReconnectOAuth, Tokens!ReconnectImap, Tokens!Pause, Tokens!Resume,
     Tokens!Act, GrantInv, Tokens!TypeOK
<1>2. \A expected, st : ~Tokens(slow)!Applies(expected, st)
  BY DEF Tokens!Applies, Tokens!Usable
<1>3. \A p \in Tokens(slow)!Ops : operation[p].pc # "marked"
  BY DEF GrantInv, MarkIsHeld, Tokens!Usable
<1>4. ASSUME NEW p \in Tokens(slow)!Ops, Tokens(slow)!Step(p) PROVE tokenRow' = tokenRow
  BY <1>2, <1>3, <1>4
     DEF Tokens!Step, Tokens!Load, Tokens!Acquire, Tokens!Busy, Tokens!Reread, Tokens!Refreshed,
     Tokens!Refused, Tokens!Unanswered, Tokens!Publish,
     Tokens!Start, Tokens!Rejected, Tokens!Done, Tokens!Fail, Tokens!MarkReauth,
       Tokens!CommitReauth, Tokens!Raise
<1> QED
  BY <1>1, <1>4
     DEF Tokens!Next, Tokens!Provider, Tokens!Lapse, Tokens!Revoke, Tokens!LockExpires,
     Tokens!Crash, Tokens!vars

\* What the run checks follows.
LEMMA GrantFollows ==
    ASSUME NEW slow, GrantInv(slow)
    PROVE  Tokens(slow)!LastConsentKept /\ (NoImapGrant(slow) => Tokens(slow)!ReauthMeansRevoked)
<1>1. Tokens(slow)!LastConsentKept BY LatestIsCounted DEF GrantInv, Tokens!LastConsentKept
<1>2. NoImapGrant(slow) => Tokens(slow)!ReauthMeansRevoked
  BY DEF GrantInv, Tokens!TypeOK, NoImapGrant, ReauthIsRefused, Tokens!RefusesRefresh,
     Tokens!ReauthMeansRevoked
<1> QED BY <1>1, <1>2

\* Every step keeps the lock with the refresher: it expires only after a crash, or, if rows may be
\* kept for long, under an operation that has its answer and waits for the row.
LEMMA RefresherStep ==
    ASSUME NEW slow \in BOOLEAN, TokensAssumption, Tokens(slow)!TypeOK,
           RefresherHoldsLock(slow), [Tokens(slow)!Next]_(Tokens(slow)!vars)
    PROVE  RefresherHoldsLock(slow)'
<1>1. ASSUME NEW p \in Tokens(slow)!Ops, NEW s, Tokens(slow)!Set(p, s), tokenLock' \in {tokenLock,
             p},
             s.pc \in {"reread", "refreshing", "publishing"} => tokenLock' = p,
             tokenLock' # tokenLock => tokenLock = NoOp
      PROVE  RefresherHoldsLock(slow)'
  BY <1>1
     DEF Tokens!Set, Tokens!TypeOK, RefresherHoldsLock, Refreshing, TokensAssumption, Tokens!Ops
<1>2. ASSUME NEW p \in Tokens(slow)!Ops, NEW s, Tokens(slow)!Set(p, s), s.pc \notin {"reread",
             "refreshing", "publishing"},
             tokenLock' = tokenLock \/ tokenLock = p
      PROVE  RefresherHoldsLock(slow)'
  BY <1>2 DEF Tokens!Set, Tokens!TypeOK, RefresherHoldsLock, Refreshing
<1>3. ASSUME operation' = operation,
             \/ tokenLock' = tokenLock \/ tokenLock = Dead
             \/ slow /\ operation[tokenLock].pc = "publishing"
      PROVE  RefresherHoldsLock(slow)'
  BY <1>3 DEF RefresherHoldsLock, Refreshing, TokensAssumption, Tokens!Ops
<1>4. ASSUME NEW p \in Tokens(slow)!Ops, Tokens(slow)!Step(p) \/ Tokens(slow)!Crash(p)
      PROVE  RefresherHoldsLock(slow)'
  <2>0. /\ operation[p] \in Tokens(slow)!OpState /\ Tokens(slow)!IdleOp \in Tokens(slow)!OpState
        /\ Tokens(slow)!IdleOp.pc = "idle"
        /\ Tokens(slow)!FailRun(p).pc \in {"idle", "failed"}
    BY IdleIsState DEF Tokens!TypeOK, Tokens!IdleOp, Tokens!FailRun, Tokens!OpState
  <2>1. CASE Tokens(slow)!Load(p)
    <3>1. [Tokens(slow)!IdleOp EXCEPT !.pc = "want", !.grant = tokenRow.grant].pc = "want" BY
          DEF Tokens!IdleOp
    <3> QED BY <1>2, <2>1, <3>1 DEF Tokens!Load
  <2>2. CASE Tokens(slow)!Acquire(p)
    BY <1>1, <2>0, <2>2 DEF Tokens!Acquire, Tokens!OpState
  <2>3. CASE Tokens(slow)!Reread(p)
    <3> DEFINE using == [operation[p] EXCEPT !.pc = "using", !.grant = tokenRow.grant,
        !.token = tokenRow.access]
               refreshing == [operation[p] EXCEPT !.pc = "refreshing", !.grant = tokenRow.grant]
    <3>1. \/ (Tokens(slow)!Set(p, Tokens(slow)!FailRun(p)) \/ Tokens(slow)!Set(p, using))
             /\ Tokens(slow)!ReleaseLock(p)
          \/ Tokens(slow)!Set(p, refreshing) /\ tokenLock' = tokenLock
      BY <2>3 DEF Tokens!Reread
    <3>2. using.pc = "using" /\ refreshing.pc = "refreshing" BY <2>0 DEF Tokens!OpState
    <3>3. tokenLock = p BY <2>3 DEF Tokens!Reread, RefresherHoldsLock, Refreshing
    <3> HIDE DEF using, refreshing
    <3> QED BY <1>1, <1>2, <2>0, <3>1, <3>2, <3>3
  <2>4. CASE Tokens(slow)!Refreshed(p)
    <3>1. tokenLock = p BY <2>4 DEF Tokens!Refreshed, RefresherHoldsLock, Refreshing
    <3> QED BY <1>1, <2>4, <3>1 DEF Tokens!Refreshed
  <2>5. CASE Tokens(slow)!Busy(p) BY <1>2, <2>0, <2>5 DEF Tokens!Busy
  <2>6. CASE Tokens(slow)!Refused(p) \/ Tokens(slow)!Unanswered(p)
    BY <1>2, <2>0, <2>6 DEF Tokens!Refused, Tokens!Unanswered, Tokens!ReleaseLock, Tokens!OpState
  <2>7. CASE Tokens(slow)!Publish(p)
    <3>1. PICK g : Tokens(slow)!Set(p, [operation[p] EXCEPT !.pc = "using", !.grant = g])
               \/ Tokens(slow)!Set(p, Tokens(slow)!IdleOp)
      BY <2>7 DEF Tokens!Publish
    <3> QED BY <1>2, <2>0, <2>7, <3>1 DEF Tokens!Publish, Tokens!ReleaseLock, Tokens!OpState
  <2>8. CASE Tokens(slow)!Start(p) \/ Tokens(slow)!Rejected(p) \/ Tokens(slow)!Done(p)
             \/ Tokens(slow)!MarkReauth(p) \/ Tokens(slow)!CommitReauth(p) \/ Tokens(slow)!Raise(p)
    BY <1>2, <2>0, <2>8
       DEF Tokens!Start, Tokens!Rejected, Tokens!Done, Tokens!MarkReauth, Tokens!CommitReauth,
       Tokens!Raise, Tokens!OpState
  <2>9. CASE Tokens(slow)!Fail(p)
    <3>1. \/ Tokens(slow)!Set(p, Tokens(slow)!IdleOp)
          \/ operation[p].pc = "refused"
               /\ Tokens(slow)!Set(p, [operation[p] EXCEPT !.running = FALSE])
      BY <2>9 DEF Tokens!Fail
    <3> QED BY <1>2, <2>0, <2>9, <3>1 DEF Tokens!Fail, Tokens!OpState
  <2>10. CASE Tokens(slow)!Crash(p) BY <1>2, <2>0, <2>10 DEF Tokens!Crash
  <2> QED BY <1>4, <2>1, <2>2, <2>3, <2>4, <2>5, <2>6, <2>7, <2>8, <2>9, <2>10 DEF Tokens!Step
<1>5. CASE Tokens(slow)!User \/ Tokens(slow)!Provider \/ Tokens(slow)!LockExpires
           \/ UNCHANGED Tokens(slow)!vars
  BY <1>3, <1>5
     DEF Tokens!User, Tokens!ReconnectOAuth, Tokens!ReconnectImap, Tokens!Pause, Tokens!Resume,
     Tokens!Act, Tokens!Provider, Tokens!Lapse, Tokens!Revoke,
     Tokens!LockExpires, Tokens!vars
<1> QED BY <1>4, <1>5 DEF Tokens!Next

\* So one asks the provider at a time, and refreshes at a time if rows are not kept for long.
LEMMA OneRefresher ==
    ASSUME NEW slow \in BOOLEAN, Tokens(slow)!TypeOK, RefresherHoldsLock(slow)
    PROVE  /\ Tokens(slow)!OneAsksProvider
           /\ ~slow => Tokens(slow)!RefreshesSerialized
<1>1. ASSUME NEW S, \A p \in S : tokenLock = p PROVE Cardinality(S) <= 1
  <2>1. CASE S = {} BY <2>1, FS_EmptySet
  <2>2. CASE S # {}
    <3>1. S = {tokenLock} BY <1>1, <2>2
    <3>2. Cardinality({tokenLock}) = 1 BY FS_Singleton
    <3> QED BY <3>1, <3>2
  <2> QED BY <2>1, <2>2
<1>2. Tokens(slow)!OneAsksProvider
  <2> DEFINE S == {p \in Tokens(slow)!Ops : operation[p].pc \in {"reread", "refreshing"}}
  <2>1. \A p \in S : tokenLock = p BY DEF RefresherHoldsLock, Refreshing
  <2>2. Cardinality(S) <= 1 BY <1>1, <2>1
  <2> QED BY <2>2, TokensCard DEF Tokens!OneAsksProvider
<1>3. ASSUME ~slow PROVE Tokens(slow)!RefreshesSerialized
  <2> DEFINE S == {p \in Tokens(slow)!Ops :
                      operation[p].pc \in {"reread", "refreshing", "publishing"}}
  <2>1. \A p \in S : tokenLock = p BY <1>3 DEF RefresherHoldsLock, Refreshing
  <2>2. Cardinality(S) <= 1 BY <1>1, <2>1
  <2> QED BY <2>2, TokensCard DEF Tokens!RefreshesSerialized
<1> QED BY <1>2, <1>3

\* No step refreshes a token that is good: what was read again under the lock is not stale.
LEMMA TokenNeedStep ==
    ASSUME NEW slow \in BOOLEAN, TokensAssumption, ~slow, QuickInv(slow),
           RefresherHoldsLock(slow)',
           [Tokens(slow)!Next]_(Tokens(slow)!vars)
    PROVE  Tokens(slow)!NoNeedlessRefresh'
<1> USE DEF QuickInv, GrantInv
<1>0. /\ Len(gens) \in Nat /\ \A q \in Tokens(slow)!Ops : operation[q].grant \in 1..Len(gens)
      /\ tokenRow.grant \in 1..Len(gens)
  BY DEF Tokens!TypeOK, MemoryIsSound
<1>1. ASSUME NEW q \in Tokens(slow)!Ops, operation'[q] = operation[q], lapsed \subseteq lapsed',
             operation[q].pc = "refreshing" /\ operation[q].grant = tokenRow'.grant =>
                 tokenRow'.grant = tokenRow.grant
                   /\ tokenRow'.access \in {tokenRow.access, Tokens(slow)!NoToken}
      PROVE  operation'[q].pc = "refreshing" /\ operation'[q].grant = tokenRow'.grant =>
                 tokenRow'.access \in lapsed' \cup {Tokens(slow)!NoToken, operation'[q].rejected}
  BY <1>1 DEF Tokens!NoNeedlessRefresh
<1>2. CASE Tokens(slow)!User
  <2>1. /\ operation' = operation /\ lapsed' = lapsed
        /\ \/ tokenRow'.grant = tokenRow.grant /\ tokenRow'.access = tokenRow.access
           \/ tokenRow'.grant = Len(gens')
    BY <1>2
       DEF Tokens!User, Tokens!ReconnectOAuth, Tokens!ReconnectImap, Tokens!Pause, Tokens!Resume,
       Tokens!Act, Tokens!TypeOK
  <2>2. (tokenRow'.grant = tokenRow.grant /\ tokenRow'.access = tokenRow.access)
        \/ tokenRow'.grant = Len(gens) + 1
    <3>1. CASE Tokens(slow)!ReconnectOAuth
      <4>1. PICK c \in {Tokens(slow)!LatestConsent,
                 Tokens(slow)!LatestConsent + 1} : gens' = Append(gens, [consent |-> c,
                 imap |-> FALSE])
        BY <3>1 DEF Tokens!ReconnectOAuth
      <4>2. c \in Nat BY LatestIsCounted
      <4>3. [consent |-> c, imap |-> FALSE] \in Encryption(slow) BY <4>2 DEF Encryption
      <4>4. Len(gens') = Len(gens) + 1 BY <4>1, <4>3, AppendedGrant
      <4> QED BY <3>1, <4>4 DEF Tokens!ReconnectOAuth, Tokens!Act
    <3>2. CASE Tokens(slow)!ReconnectImap
      <4>1. Tokens(slow)!LatestConsent + 1 \in Nat BY LatestIsCounted
      <4>2. [consent |-> Tokens(slow)!LatestConsent + 1, imap |-> TRUE] \in Encryption(slow) BY <4>1
            DEF Encryption
      <4>3. Len(gens') = Len(gens) + 1 BY <3>2, <4>2, AppendedGrant DEF Tokens!ReconnectImap
      <4> QED BY <3>2, <4>3 DEF Tokens!ReconnectImap, Tokens!Act
    <3>3. CASE Tokens(slow)!Pause \/ Tokens(slow)!Resume
      BY <3>3 DEF Tokens!Pause, Tokens!Resume, Tokens!Act, Tokens!TypeOK
    <3> QED BY <1>2, <3>1, <3>2, <3>3 DEF Tokens!User
  <2> QED BY <1>0, <1>1, <2>1, <2>2 DEF Tokens!NoNeedlessRefresh
<1>3. CASE Tokens(slow)!Provider \/ Tokens(slow)!LockExpires \/ UNCHANGED Tokens(slow)!vars
  <2>1. operation' = operation /\ tokenRow' = tokenRow /\ lapsed \subseteq lapsed'
    BY <1>3 DEF Tokens!Provider, Tokens!Lapse, Tokens!Revoke, Tokens!LockExpires, Tokens!vars
  <2> QED BY <1>1, <2>1 DEF Tokens!NoNeedlessRefresh
<1>4. ASSUME NEW p \in Tokens(slow)!Ops, Tokens(slow)!Step(p) \/ Tokens(slow)!Crash(p)
      PROVE  Tokens(slow)!NoNeedlessRefresh'
  <2>1. lapsed' = lapsed /\ \A q \in Tokens(slow)!Ops \ {p} : operation'[q] = operation[q]
    BY <1>4
       DEF Tokens!Step, Tokens!Crash, Tokens!Load, Tokens!Acquire, Tokens!Busy, Tokens!Reread,
       Tokens!Refreshed, Tokens!Refused, Tokens!Unanswered, Tokens!Publish,
       Tokens!Start, Tokens!Rejected, Tokens!Done, Tokens!Fail, Tokens!MarkReauth,
         Tokens!CommitReauth, Tokens!Raise, Tokens!Set, Tokens!TypeOK
  <2>2. \A q \in Tokens(slow)!Ops \ {p} : operation[q].pc = "refreshing" =>
           tokenRow'.grant = tokenRow.grant
             /\ tokenRow'.access \in {tokenRow.access, Tokens(slow)!NoToken}
    <3>1. CASE Tokens(slow)!Publish(p)
      BY <3>1 DEF Tokens!Publish, RefresherHoldsLock, Refreshing
    <3>2. CASE ~Tokens(slow)!Publish(p)
      <4>1. \/ tokenRow' = tokenRow
            \/ \E st : tokenRow' = [tokenRow EXCEPT !.status = st]
            \/ tokenRow' = [tokenRow EXCEPT !.status = "reauth_required",
                 !.access = Tokens(slow)!NoToken]
        BY <1>4, <3>2
           DEF Tokens!Step, Tokens!Crash, Tokens!Load, Tokens!Acquire, Tokens!Busy, Tokens!Reread,
           Tokens!Refreshed, Tokens!Refused, Tokens!Unanswered,
           Tokens!Start, Tokens!Rejected, Tokens!Done, Tokens!Fail, Tokens!MarkReauth,
             Tokens!CommitReauth, Tokens!Raise
      <4> QED BY <4>1 DEF Tokens!TypeOK
    <3> QED BY <3>1, <3>2
  <2>3. operation'[p].pc = "refreshing" => Tokens(slow)!Reread(p)
    <3>0. /\ operation[p] \in Tokens(slow)!OpState /\ Tokens(slow)!IdleOp.pc = "idle"
          /\ Tokens(slow)!FailRun(p).pc \in {"idle", "failed"}
          /\ [Tokens(slow)!IdleOp EXCEPT !.pc = "want", !.grant = tokenRow.grant].pc = "want"
      BY DEF Tokens!TypeOK, Tokens!IdleOp, Tokens!FailRun, Tokens!OpState
    <3>1. \A s : Tokens(slow)!Set(p, s) => operation'[p] = s BY DEF Tokens!Set, Tokens!TypeOK
    <3>2. ASSUME Tokens(slow)!Load(p) \/ Tokens(slow)!Acquire(p) \/ Tokens(slow)!Busy(p)
                 \/ Tokens(slow)!Refused(p) \/ Tokens(slow)!Unanswered(p)
                 \/ Tokens(slow)!Refreshed(p)
          PROVE  operation'[p].pc # "refreshing"
      BY <3>0, <3>1, <3>2
         DEF Tokens!Load, Tokens!Acquire, Tokens!Busy, Tokens!Refused, Tokens!Unanswered,
         Tokens!Refreshed, Tokens!OpState
    <3>3. ASSUME Tokens(slow)!Start(p) \/ Tokens(slow)!Rejected(p) \/ Tokens(slow)!Done(p)
                 \/ Tokens(slow)!MarkReauth(p) \/ Tokens(slow)!CommitReauth(p)
                 \/ Tokens(slow)!Raise(p) \/ Tokens(slow)!Crash(p)
          PROVE  operation'[p].pc # "refreshing"
      BY <3>0, <3>1, <3>3
         DEF Tokens!Start, Tokens!Rejected, Tokens!Done, Tokens!MarkReauth, Tokens!CommitReauth,
         Tokens!Raise, Tokens!Crash, Tokens!OpState
    <3>4. ASSUME Tokens(slow)!Publish(p) PROVE operation'[p].pc # "refreshing"
      <4>1. PICK g : Tokens(slow)!Set(p, [operation[p] EXCEPT !.pc = "using", !.grant = g])
                 \/ Tokens(slow)!Set(p, Tokens(slow)!IdleOp)
        BY <3>4 DEF Tokens!Publish
      <4> QED BY <3>0, <3>1, <4>1 DEF Tokens!OpState
    <3>5. ASSUME Tokens(slow)!Fail(p) PROVE operation'[p].pc # "refreshing"
      <4>1. \/ Tokens(slow)!Set(p, Tokens(slow)!IdleOp)
            \/ operation[p].pc = "refused"
                 /\ Tokens(slow)!Set(p, [operation[p] EXCEPT !.running = FALSE])
        BY <3>5 DEF Tokens!Fail
      <4> QED BY <3>0, <3>1, <4>1 DEF Tokens!OpState
    <3> QED BY <1>4, <3>2, <3>3, <3>4, <3>5 DEF Tokens!Step
  <2>4. operation'[p].pc = "refreshing" =>
        tokenRow'.access \in lapsed' \cup {Tokens(slow)!NoToken, operation'[p].rejected}
    <3> SUFFICES ASSUME operation'[p].pc = "refreshing"
                 PROVE  tokenRow'.access \in lapsed' \cup {Tokens(slow)!NoToken,
                        operation'[p].rejected}
      OBVIOUS
    <3>1. Tokens(slow)!Reread(p) BY <2>3
    <3> DEFINE using == [operation[p] EXCEPT !.pc = "using", !.grant = tokenRow.grant,
        !.token = tokenRow.access]
               refreshing == [operation[p] EXCEPT !.pc = "refreshing", !.grant = tokenRow.grant]
    <3>2. /\ tokenRow' = tokenRow /\ lapsed' = lapsed
          /\ \/ operation'[p] \in {Tokens(slow)!FailRun(p), using}
             \/ operation'[p] = refreshing /\ ~(Tokens(slow)!Fresh(tokenRow.access)
                  /\ tokenRow.access # operation[p].rejected)
      BY <3>1 DEF Tokens!Reread, Tokens!Set, Tokens!TypeOK
    <3>3. /\ operation[p] \in Tokens(slow)!OpState
          /\ Tokens(slow)!FailRun(p).pc \in {"idle", "failed"} /\ using.pc = "using"
          /\ refreshing.rejected = operation[p].rejected
      BY DEF Tokens!TypeOK, Tokens!IdleOp, Tokens!FailRun, Tokens!OpState
    <3> HIDE DEF using, refreshing
    <3> QED BY <3>2, <3>3 DEF Tokens!Fresh
  <2> QED BY <1>1, <2>1, <2>2, <2>4 DEF Tokens!NoNeedlessRefresh
<1> QED BY <1>2, <1>3, <1>4 DEF Tokens!Next

\* Every step keeps all of it.
LEMMA TokenQuickStep ==
    ASSUME NEW slow \in BOOLEAN, TokensAssumption, ~slow, QuickInv(slow),
           [Tokens(slow)!Next]_(Tokens(slow)!vars)
    PROVE  QuickInv(slow)'
BY TokenGrantStep, RefresherStep, TokenNeedStep DEF QuickInv, GrantInv

-----------------------------------------------------------------------------
(* ProviderRequests *)

\* What a call remembers.
CallType ==
    [pc: {"idle", "send", "refresh"}, attempt: 0..(MaxAttempts - 1), refreshed: BOOLEAN,
     token: 0..MaxRevoked, wait: 0..MaxDelay, retryAt: Requests!Deadline, outcome: Requests!Outcome,
     deadline: 0..(MaxDelay + 1), asked: Nat, first: 0..MaxRevoked, calls: 0..MaxCalls]
\* The requests a call has paid for: an attempt each, and a refresh.
AskedSoFar(s) == s.attempt + (IF s.refreshed THEN 1 ELSE 0)
\* A call has asked no more than it has paid for, waits for at least what the provider asked, and
\* has a token no newer than the stored one.
CallIsSound(s) ==
    /\ s.asked <= MaxAttempts + 1
    /\ s.outcome = "transient" => s.deadline <= Requests!Max({0, s.retryAt})
    /\ s.outcome = "unauthorized" => answering >= s.first + 2
    /\ s.pc # "idle" =>
          /\ s.outcome = "none" /\ s.retryAt = Requests!None
          /\ s.first <= s.token /\ s.token <= stored
          /\ s.refreshed => s.first + 1 <= s.token
    /\ s.pc = "send" => s.asked <= AskedSoFar(s) /\ s.deadline <= s.wait
    /\ s.pc = "refresh" => /\ s.asked <= s.attempt + 1 /\ ~s.refreshed /\ s.wait = 0
                           /\ s.deadline = 0 /\ s.token < answering
\* The inductive invariant; the token that answers is the stored one or the next.
RequestsInv ==
    /\ api \in {"gmail", "graph"}
    /\ call \in [Client -> CallType] /\ \A c \in Client : CallIsSound(call[c])
    /\ stored \in 0..MaxRevoked /\ answering \in 0..MaxRevoked
    /\ refreshes = stored /\ stored <= answering /\ answering <= stored + 1

\* The later of two times is the one that is later.
LEMMA LaterOfTwo ==
    \A x, y \in Int : Requests!Max({x, y}) = IF x >= y THEN x ELSE y
<1> SUFFICES ASSUME NEW x \in Int, NEW y \in Int
             PROVE  Requests!Max({x, y}) = IF x >= y THEN x ELSE y
  OBVIOUS
<1> DEFINE m == IF x >= y THEN x ELSE y
<1>1. m \in {x, y} /\ m >= x /\ m >= y /\ m \in Int OBVIOUS
<1>2. \A z \in {x, y} : (\A v \in {x, y} : z >= v) => z = m OBVIOUS
<1> QED BY <1>1, <1>2 DEF Requests!Max

\* The latest of three times is one of them and before none.
LEMMA LaterOfThree ==
    \A x, y, z \in Int : /\ Requests!Max({x, y, z}) \in {x, y, z}
                         /\ Requests!Max({x, y, z}) >= x /\ Requests!Max({x, y, z}) >= y
                         /\ Requests!Max({x, y, z}) >= z
<1> SUFFICES ASSUME NEW x \in Int, NEW y \in Int, NEW z \in Int
             PROVE  /\ Requests!Max({x, y, z}) \in {x, y, z}
                    /\ Requests!Max({x, y, z}) >= x /\ Requests!Max({x, y, z}) >= y
                    /\ Requests!Max({x, y, z}) >= z
  OBVIOUS
<1>1. \E m \in {x, y, z} : \A v \in {x, y, z} : m >= v
  <2>1. CASE x >= y /\ x >= z BY <2>1
  <2>2. CASE y >= x /\ y >= z BY <2>2
  <2>3. CASE z >= x /\ z >= y BY <2>3
  <2> QED BY <2>1, <2>2, <2>3
<1> DEFINE m == CHOOSE m \in {x, y, z} : \A v \in {x, y, z} : m >= v
<1>2. m \in {x, y, z} /\ \A v \in {x, y, z} : m >= v BY <1>1
<1>3. Requests!Max({x, y, z}) = m BY DEF Requests!Max
<1> HIDE DEF m
<1> QED BY <1>2, <1>3

\* A client that calls nothing is sound.
LEMMA NoCallIsSound ==
    ASSUME RequestsAssumption, stored \in 0..MaxRevoked
    PROVE  Requests!NoCall \in CallType /\ CallIsSound(Requests!NoCall)
BY DEF RequestsAssumption, Requests!NoCall, CallType, CallIsSound, Requests!Deadline,
   Requests!Outcome, Requests!None

\* At first no one calls.
LEMMA RequestsInit == ASSUME RequestsAssumption, Requests!Init PROVE RequestsInv
<1>1. stored \in 0..MaxRevoked /\ answering \in 0..MaxRevoked BY
      DEF Requests!Init, RequestsAssumption
<1> QED BY <1>1, NoCallIsSound DEF Requests!Init, RequestsInv

\* What a client's step leaves: its call, sound, and sent to only when it may be.
ClientSteps(c) ==
    /\ UNCHANGED <<api, stored, answering, refreshes>>
    /\ \E s \in CallType :
          /\ call' = [call EXCEPT ![c] = s] /\ CallIsSound(s)
          /\ s.asked > call[c].asked => Requests!Sends(c)

\* A client's step of that form keeps the invariant.
LEMMA ClientStepSound ==
    ASSUME RequestsInv, NEW c \in Client, ClientSteps(c)
    PROVE  RequestsInv' /\ Requests!HonoursDeadline
<1>1. PICK s \in CallType : /\ call' = [call EXCEPT ![c] = s] /\ CallIsSound(s)
                            /\ s.asked > call[c].asked => Requests!Sends(c)
  BY DEF ClientSteps
<1>2. call \in [Client -> CallType] /\ UNCHANGED <<api, stored, answering, refreshes>>
  BY DEF RequestsInv, ClientSteps
<1>3. /\ call' \in [Client -> CallType] /\ call'[c] = s
      /\ \A d \in Client : d # c => call'[d] = call[d]
  BY <1>1, <1>2
<1>4. \A d \in Client : CallIsSound(call[d])'
  <2> SUFFICES ASSUME NEW d \in Client PROVE CallIsSound(call[d])' OBVIOUS
  <2>1. CallIsSound(call'[d])
    <3>1. CASE d = c BY <1>1, <1>3, <3>1
    <3>2. CASE d # c BY <1>3, <3>2 DEF RequestsInv
    <3> QED BY <3>1, <3>2
  <2> QED BY <1>2, <2>1 DEF CallIsSound
<1>5. RequestsInv' BY <1>2, <1>3, <1>4 DEF RequestsInv
<1>6. ASSUME NEW d \in Client, call'[d].asked > call[d].asked PROVE call[d].deadline = 0
  <2>0. call[d] \in CallType BY <1>2
  <2>1. call[d].asked \in Nat /\ call[d].deadline \in 0..(MaxDelay + 1) BY <2>0 DEF CallType
  <2>2. d = c BY <1>3, <1>6, <2>1
  <2>3. Requests!Sends(c) BY <1>1, <1>3, <1>6, <2>2
  <2>4. CallIsSound(call[c]) BY DEF RequestsInv
  <2>5. call[c].deadline <= call[c].wait /\ call[c].wait = 0 BY <2>3, <2>4
        DEF Requests!Sends, CallIsSound
  <2> QED BY <2>1, <2>2, <2>5
<1>7. Requests!HonoursDeadline BY <1>6 DEF Requests!HonoursDeadline
<1> QED BY <1>5, <1>7

\* A call, field by field.
LEMMA CallFields ==
    ASSUME NEW s \in CallType
    PROVE  /\ s.pc \in {"idle", "send", "refresh"} /\ s.attempt \in 0..(MaxAttempts - 1)
           /\ s.refreshed \in BOOLEAN
           /\ s.token \in 0..MaxRevoked /\ s.wait \in 0..MaxDelay /\ s.retryAt \in Requests!Deadline
           /\ s.outcome \in Requests!Outcome /\ s.deadline \in 0..(MaxDelay + 1) /\ s.asked \in Nat
           /\ s.first \in 0..MaxRevoked /\ s.calls \in 0..MaxCalls
BY DEF CallType

\* A call begins with no deadline.
LEMMA BeginSteps ==
    ASSUME RequestsAssumption, RequestsInv, NEW c \in Client, Requests!Begin(c)
    PROVE  ClientSteps(c)
<1> DEFINE s == [Requests!NoCall EXCEPT !.pc = "send", !.token = stored, !.first = stored,
                                        !.calls = call[c].calls + 1]
<1>1. call[c] \in CallType BY DEF RequestsInv
<1>2. stored \in 0..MaxRevoked BY DEF RequestsInv
<1>3. Requests!NoCall \in CallType BY <1>2, NoCallIsSound
<1>4. call[c].calls + 1 \in 0..MaxCalls BY <1>1 DEF Requests!Begin, RequestsAssumption, CallType
<1>5. s \in CallType BY <1>2, <1>3, <1>4 DEF CallType
<1>6. CallIsSound(s) BY <1>2 DEF CallIsSound, Requests!NoCall, AskedSoFar, RequestsAssumption
<1>7. s.asked = 0 /\ call[c].asked \in Nat BY <1>1, CallFields DEF Requests!NoCall
<1>8. call' = [call EXCEPT ![c] = s] /\ UNCHANGED <<api, stored, answering, refreshes>>
  BY DEF Requests!Begin
<1> HIDE DEF s
<1>9. ~(s.asked > call[c].asked) BY <1>7
<1> QED BY <1>5, <1>6, <1>8, <1>9 DEF ClientSteps

\* A call ends and has been told no deadline.
LEMMA EndSteps ==
    ASSUME RequestsAssumption, RequestsInv, NEW c \in Client,
           Requests!Ok(c) \/ Requests!Refused(c) \/ Requests!Unauthorized(c)
    PROVE  ClientSteps(c)
<1>1. /\ call[c] \in CallType /\ CallIsSound(call[c]) /\ call \in [Client -> CallType]
      /\ Requests!Sends(c) /\ UNCHANGED <<api, stored, answering, refreshes>>
  BY DEF RequestsInv, Requests!Ok, Requests!Refused, Requests!Unauthorized
<1>2. call[c].pc = "send" BY <1>1 DEF Requests!Sends
<1>3. ASSUME NEW o \in {"ok", "refused", "unauthorized"},
             o = "unauthorized" => call[c].refreshed /\ call[c].token < answering,
             call' = [Requests!Asks(c) EXCEPT ![c].pc = "idle", ![c].outcome = o]
      PROVE  ClientSteps(c)
  <2> DEFINE s == [call[c] EXCEPT !.asked = @ + 1, !.pc = "idle", !.outcome = o]
  <2>1. call' = [call EXCEPT ![c] = s] BY <1>1, <1>3 DEF Requests!Asks
  <2>0. call[c].asked + 1 \in Nat /\ o \in Requests!Outcome BY <1>1, CallFields DEF Requests!Outcome
  <2>2. s \in CallType BY <1>1, <2>0 DEF CallType
  <2>3. /\ s.pc = "idle" /\ s.outcome = o /\ s.asked = call[c].asked + 1 /\ s.first = call[c].first
    BY <1>1 DEF CallType
  <2>4. call[c].asked <= MaxAttempts
    BY <1>1, <1>2, CallFields DEF CallIsSound, AskedSoFar, RequestsAssumption
  <2>5. o = "unauthorized" => answering >= call[c].first + 2
    BY <1>1, <1>2, <1>3, CallFields DEF CallIsSound, RequestsInv
  <2> HIDE DEF s
  <2>6. CallIsSound(s) BY <1>1, <1>3, <2>3, <2>4, <2>5, CallFields
        DEF CallIsSound, RequestsAssumption
  <2> QED BY <1>1, <2>1, <2>2, <2>6 DEF ClientSteps
<1>4. ASSUME ~call[c].refreshed, call[c].token < answering,
             call' = [Requests!Asks(c) EXCEPT ![c].pc = "refresh"]
      PROVE  ClientSteps(c)
  <2> DEFINE s == [call[c] EXCEPT !.asked = @ + 1, !.pc = "refresh"]
  <2>1. call' = [call EXCEPT ![c] = s] BY <1>1, <1>4 DEF Requests!Asks
  <2>0. call[c].asked + 1 \in Nat BY <1>1, CallFields
  <2>2. s \in CallType BY <1>1, <2>0 DEF CallType
  <2>3. /\ s.pc = "refresh" /\ s.outcome = call[c].outcome /\ s.asked = call[c].asked + 1
        /\ s.first = call[c].first /\ s.token = call[c].token /\ s.retryAt = call[c].retryAt
        /\ s.refreshed = call[c].refreshed /\ s.attempt = call[c].attempt
        /\ s.wait = call[c].wait /\ s.deadline = call[c].deadline
    BY <1>1 DEF CallType
  <2>4. call[c].asked <= call[c].attempt /\ call[c].wait = 0 /\ call[c].deadline = 0
    BY <1>1, <1>2, <1>4, CallFields DEF CallIsSound, AskedSoFar, Requests!Sends
  <2>5. call[c].outcome = "none" /\ call[c].first <= call[c].token /\ call[c].token <= stored
        /\ call[c].retryAt = Requests!None
    BY <1>1, <1>2 DEF CallIsSound
  <2> HIDE DEF s
  <2>6. CallIsSound(s)
    BY <1>1, <1>4, <2>3, <2>4, <2>5, CallFields DEF CallIsSound, RequestsAssumption
  <2> QED BY <1>1, <2>1, <2>2, <2>6 DEF ClientSteps
<1>5. CASE Requests!Ok(c) BY <1>3, <1>5 DEF Requests!Ok
<1>6. CASE Requests!Refused(c) BY <1>3, <1>6 DEF Requests!Refused
<1>7. CASE Requests!Unauthorized(c)
  <2>1. CASE Requests!MayRefresh(c) BY <1>4, <1>7, <2>1
             DEF Requests!Unauthorized, Requests!MayRefresh
  <2>2. CASE ~Requests!MayRefresh(c) BY <1>1, <1>3, <1>7, <2>2, CallFields
             DEF Requests!Unauthorized, Requests!MayRefresh
  <2> QED BY <2>1, <2>2
<1> QED BY <1>5, <1>6, <1>7

\* A call is tried again after the longer of its own delay and what was asked, or fails carrying it.
LEMMA RetrySteps ==
    ASSUME RequestsAssumption, RequestsInv, NEW c \in Client, Requests!Sends(c),
           UNCHANGED <<api, stored, answering, refreshes>>
    PROVE  \A retryAt \in Requests!Deadline, told \in 0..(MaxDelay + 1) :
              told <= Requests!Max({0, retryAt}) /\ Requests!Retry(c, retryAt, told) =>
                ClientSteps(c)
<1> SUFFICES ASSUME NEW retryAt \in Requests!Deadline, NEW told \in 0..(MaxDelay + 1),
                    told <= Requests!Max({0, retryAt}), Requests!Retry(c, retryAt, told)
             PROVE  ClientSteps(c)
  OBVIOUS
<1>1. /\ call[c] \in CallType /\ CallIsSound(call[c]) /\ call \in [Client -> CallType]
      /\ call[c].pc = "send" /\ api \in {"gmail", "graph"}
  BY DEF RequestsInv, Requests!Sends
<1>2. /\ call[c].asked <= AskedSoFar(call[c]) /\ call[c].outcome = "none"
      /\ call[c].retryAt = Requests!None /\ call[c].first <= call[c].token
      /\ call[c].token <= stored
      /\ call[c].refreshed => call[c].first + 1 <= call[c].token
  BY <1>1 DEF CallIsSound
<1>3. retryAt \in Int /\ (retryAt = -1 \/ retryAt \in 0..(MaxDelay + 1))
  BY DEF Requests!Deadline, Requests!None, RequestsAssumption
<1>4. Requests!Max({0, retryAt}) = IF retryAt >= 0 THEN retryAt ELSE 0
  BY <1>3, LaterOfTwo
<1>5. ASSUME call' = [[call EXCEPT ![c].asked = @ + 1, ![c].deadline = told]
                         EXCEPT ![c].pc = "idle", ![c].outcome = "transient",
                           ![c].retryAt = retryAt]
      PROVE  ClientSteps(c)
  <2> DEFINE s == [call[c] EXCEPT !.asked = @ + 1, !.deadline = told, !.pc = "idle",
                                  !.outcome = "transient", !.retryAt = retryAt]
  <2>1. call' = [call EXCEPT ![c] = s] BY <1>1, <1>5
  <2>0. call[c].asked + 1 \in Nat /\ "transient" \in Requests!Outcome
    BY <1>1, CallFields DEF Requests!Outcome
  <2>2. s \in CallType BY <1>1, <2>0 DEF CallType
  <2>3. /\ s.pc = "idle" /\ s.outcome = "transient" /\ s.asked = call[c].asked + 1
        /\ s.deadline = told /\ s.retryAt = retryAt
    BY <1>1 DEF CallType
  <2>4. s.asked <= MaxAttempts + 1
    BY <1>1, <1>2, <2>3, CallFields DEF AskedSoFar, RequestsAssumption
  <2> HIDE DEF s
  <2>5. CallIsSound(s) BY <2>3, <2>4 DEF CallIsSound
  <2> QED BY <2>1, <2>2, <2>5 DEF ClientSteps
<1>6. ASSUME call[c].attempt + 1 # MaxAttempts, ~(retryAt > MaxDelay),
             NEW d \in Requests!Delays(call[c].attempt, retryAt),
             call' = [[call EXCEPT ![c].asked = @ + 1, ![c].deadline = told]
                         EXCEPT ![c].attempt = call[c].attempt + 1, ![c].wait = d]
      PROVE  ClientSteps(c)
  <2>1. d \in 0..MaxDelay /\ told <= d
    <3>1. CASE retryAt = Requests!None
      <4>1. d \in 0..MaxDelay BY <1>6, <3>1 DEF Requests!Delays
      <4> QED BY <1>4, <3>1, <4>1 DEF Requests!None
    <3>2. CASE retryAt # Requests!None /\ api = "gmail"
      <4>1. PICK j \in 0..MaxDelay : d = Requests!Max({j, retryAt})
        BY <1>6, <3>2 DEF Requests!Delays
      <4>2. d = IF j >= retryAt THEN j ELSE retryAt BY <1>3, <4>1, LaterOfTwo
      <4> QED BY <1>3, <1>4, <1>6, <3>2, <4>2 DEF Requests!None, RequestsAssumption
    <3>3. CASE retryAt # Requests!None /\ api # "gmail"
      <4>1. d = retryAt BY <1>6, <3>3 DEF Requests!Delays
      <4> QED BY <1>3, <1>4, <1>6, <3>3, <4>1 DEF Requests!None, RequestsAssumption
    <3> QED BY <3>1, <3>2, <3>3
  <2> DEFINE s == [call[c] EXCEPT !.asked = @ + 1, !.deadline = told, !.attempt = @ + 1, !.wait = d]
  <2>2. call' = [call EXCEPT ![c] = s] BY <1>1, <1>6
  <2>3. call[c].attempt + 1 \in 0..(MaxAttempts - 1)
    BY <1>1, <1>6, CallFields DEF RequestsAssumption
  <2>0. call[c].asked + 1 \in Nat BY <1>1, CallFields
  <2>4. s \in CallType BY <1>1, <2>0, <2>1, <2>3 DEF CallType
  <2>5. /\ s.pc = "send" /\ s.outcome = call[c].outcome /\ s.asked = call[c].asked + 1
        /\ s.first = call[c].first /\ s.token = call[c].token /\ s.retryAt = call[c].retryAt
        /\ s.refreshed = call[c].refreshed /\ s.attempt = call[c].attempt + 1
        /\ s.wait = d /\ s.deadline = told
    BY <1>1 DEF CallType
  <2>6. s.asked <= AskedSoFar(s) /\ s.asked <= MaxAttempts + 1
    BY <1>1, <1>2, <2>3, <2>5, CallFields DEF AskedSoFar, RequestsAssumption
  <2> HIDE DEF s
  <2>7. CallIsSound(s) BY <1>2, <2>1, <2>5, <2>6 DEF CallIsSound
  <2> QED BY <2>2, <2>4, <2>7 DEF ClientSteps
<1>7. CASE call[c].attempt + 1 = MaxAttempts \/ retryAt > MaxDelay
  BY <1>5, <1>7 DEF Requests!Retry
<1>8. CASE ~(call[c].attempt + 1 = MaxAttempts \/ retryAt > MaxDelay)
  BY <1>6, <1>8 DEF Requests!Retry
<1> QED BY <1>7, <1>8

\* The provider does not answer, or asks to wait.
LEMMA UnavailableSteps ==
    ASSUME RequestsAssumption, RequestsInv, NEW c \in Client,
           \/ Requests!NetworkFails(c)
           \/ \E h, b \in Requests!Deadline : Requests!GmailUnavailable(c, h, b)
           \/ \E h \in Requests!Deadline : Requests!GraphUnavailable(c, h)
    PROVE  ClientSteps(c)
<1>0. \A h \in Requests!Deadline : h \in Int /\ (h = -1 \/ h \in 0..(MaxDelay + 1))
  BY DEF Requests!Deadline, Requests!None, RequestsAssumption
<1>1. CASE Requests!NetworkFails(c)
  <2>1. Requests!None \in Requests!Deadline /\ 0 \in 0..(MaxDelay + 1)
        /\ 0 <= Requests!Max({0, Requests!None})
    BY LaterOfTwo DEF Requests!Deadline, Requests!None, RequestsAssumption
  <2> QED BY <1>1, <2>1, RetrySteps DEF Requests!NetworkFails
<1>2. ASSUME NEW h \in Requests!Deadline, NEW b \in Requests!Deadline, Requests!GmailUnavailable(c,
             h, b)
      PROVE  ClientSteps(c)
  <2> DEFINE at == Requests!Max({h, b})
             told == Requests!Max({0, h, b})
  <2>1. at = (IF h >= b THEN h ELSE b) /\ at \in Requests!Deadline BY <1>0, LaterOfTwo
  <2>a. h \in Int /\ b \in Int /\ 0 \in Int BY <1>0
  <2>2. told \in {0, h, b} /\ told >= 0 /\ told >= h /\ told >= b BY <2>a, LaterOfThree
  <2>3. told \in 0..(MaxDelay + 1) BY <1>0, <2>2 DEF RequestsAssumption
  <2>4. Requests!Max({0, at}) = IF 0 >= at THEN 0 ELSE at BY <1>0, <2>1, LaterOfTwo
  <2>5. told <= Requests!Max({0, at}) BY <1>0, <2>1, <2>2, <2>4
  <2>6. Requests!Retry(c, at, told) /\ Requests!Sends(c)
        /\ UNCHANGED <<api, stored, answering, refreshes>>
    BY <1>2 DEF Requests!GmailUnavailable, Requests!GmailRetryAt
  <2> HIDE DEF at, told
  <2> QED BY <2>1, <2>3, <2>5, <2>6, RetrySteps
<1>3. ASSUME NEW h \in Requests!Deadline, Requests!GraphUnavailable(c, h)
      PROVE  ClientSteps(c)
  <2>1. Requests!Max({0, h}) = (IF 0 >= h THEN 0 ELSE h) BY <1>0, LaterOfTwo
  <2>2. Requests!Max({0, h}) \in 0..(MaxDelay + 1) /\ Requests!Max({0, h}) <= Requests!Max({0, h})
    BY <1>0, <2>1 DEF RequestsAssumption
  <2>3. /\ Requests!Retry(c, h, Requests!Max({0, h})) /\ Requests!Sends(c)
        /\ UNCHANGED <<api, stored, answering, refreshes>>
    BY <1>3 DEF Requests!GraphUnavailable, Requests!MicrosoftRetryAt
  <2> QED BY <2>2, <2>3, RetrySteps
<1> QED BY <1>1, <1>2, <1>3

\* A refresh fails, and the call with it.
LEMMA RefreshFailsSteps ==
    ASSUME RequestsAssumption, RequestsInv, NEW c \in Client, NEW o \in Requests!Outcome,
           Requests!RefreshFails(c, o)
    PROVE  ClientSteps(c)
<1> DEFINE s == [call[c] EXCEPT !.pc = "idle", !.outcome = o]
<1>1. /\ call[c] \in CallType /\ CallIsSound(call[c]) /\ call \in [Client -> CallType]
      /\ call[c].pc = "refresh" /\ UNCHANGED <<api, stored, answering, refreshes>>
      /\ call' = [call EXCEPT ![c] = s] /\ o \in {"transient", "refused", "reauth"}
  BY DEF RequestsInv, Requests!RefreshFails
<1>2. call[c].retryAt = Requests!None /\ call[c].deadline = 0 /\ call[c].asked <= MaxAttempts + 1
  BY <1>1 DEF CallIsSound
<1>3. Requests!Max({0, Requests!None}) = 0 BY LaterOfTwo DEF Requests!None
<1>4. s \in CallType BY <1>1 DEF CallType
<1>5. /\ s.pc = "idle" /\ s.outcome = o /\ s.asked = call[c].asked /\ s.deadline = call[c].deadline
      /\ s.retryAt = call[c].retryAt
  BY <1>1 DEF CallType
<1> HIDE DEF s
<1>6. CallIsSound(s) BY <1>1, <1>2, <1>3, <1>5 DEF CallIsSound
<1>7. ~(s.asked > call[c].asked) BY <1>1, <1>5, CallFields
<1> QED BY <1>1, <1>4, <1>6, <1>7 DEF ClientSteps

\* A refresh leaves the stored token one that answers, unless another client has done so before.
LEMMA RefreshSound ==
    ASSUME RequestsAssumption, RequestsInv, NEW c \in Client, Requests!Refresh(c)
    PROVE  RequestsInv' /\ Requests!HonoursDeadline
<1> DEFINE s == [call[c] EXCEPT !.pc = "send", !.refreshed = TRUE, !.token = stored']
<1>1. /\ call[c] \in CallType /\ CallIsSound(call[c]) /\ call \in [Client -> CallType]
      /\ call[c].pc = "refresh" /\ UNCHANGED <<api, answering>>
      /\ call' = [call EXCEPT ![c] = s]
      /\ stored' = IF stored # call[c].token THEN stored ELSE stored + 1
      /\ refreshes' = IF stored' = stored THEN refreshes ELSE refreshes + 1
  BY DEF RequestsInv, Requests!Refresh, Requests!Manager
<1>2. /\ stored \in 0..MaxRevoked /\ answering \in 0..MaxRevoked /\ refreshes = stored
      /\ stored <= answering /\ answering <= stored + 1
  BY DEF RequestsInv
<1>3. /\ call[c].token < answering /\ call[c].token <= stored /\ call[c].first <= call[c].token
      /\ call[c].asked <= call[c].attempt + 1 /\ call[c].wait = 0 /\ call[c].deadline = 0
      /\ call[c].outcome = "none" /\ call[c].retryAt = Requests!None
      /\ call[c].asked <= MaxAttempts + 1
  BY <1>1 DEF CallIsSound
<1>4. call[c].token \in 0..MaxRevoked /\ call[c].first \in 0..MaxRevoked
  BY <1>1, CallFields
<1>5. /\ stored' \in 0..MaxRevoked /\ stored' <= answering /\ answering <= stored' + 1
      /\ refreshes' = stored' /\ call[c].first + 1 <= stored' /\ stored <= stored'
  BY <1>1, <1>2, <1>3, <1>4 DEF RequestsAssumption
<1>6. s \in CallType BY <1>1, <1>5 DEF CallType
<1>7. /\ s.pc = "send" /\ s.outcome = call[c].outcome /\ s.asked = call[c].asked
      /\ s.first = call[c].first /\ s.token = stored' /\ s.retryAt = call[c].retryAt
      /\ s.refreshed /\ s.attempt = call[c].attempt /\ s.wait = call[c].wait
      /\ s.deadline = call[c].deadline
  BY <1>1 DEF CallType
<1> HIDE DEF s
<1>8. /\ call' \in [Client -> CallType] /\ call'[c] = s
      /\ \A d \in Client : d # c => call'[d] = call[d]
  BY <1>1, <1>6
<1>9. CallIsSound(call[c])'
  <2>1. s.asked <= AskedSoFar(s) /\ s.deadline <= s.wait /\ s.asked <= MaxAttempts + 1
    BY <1>1, <1>3, <1>7, CallFields DEF AskedSoFar
  <2>2. /\ s.outcome = "none" /\ s.retryAt = Requests!None /\ s.first + 1 <= s.token
        /\ s.token <= stored' /\ s.first <= s.token
    BY <1>2, <1>3, <1>4, <1>5, <1>7
  <2>3. call'[c] = s /\ s.pc = "send" BY <1>7, <1>8
  <2> QED BY <2>1, <2>2, <2>3 DEF CallIsSound, AskedSoFar
<1>10. ASSUME NEW d \in Client, d # c PROVE CallIsSound(call[d])'
  <2>1. call'[d] = call[d] /\ call[d] \in CallType /\ CallIsSound(call[d]) BY <1>8, <1>10
        DEF RequestsInv
  <2>2. call[d].token \in 0..MaxRevoked BY <2>1, CallFields
  <2>3. call[d].pc # "idle" => call[d].token <= stored'
    BY <1>2, <1>5, <2>1, <2>2 DEF CallIsSound
  <2>4. answering' = answering BY <1>1
  <2> QED BY <2>1, <2>3, <2>4 DEF CallIsSound
<1>11. RequestsInv'
  BY <1>1, <1>2, <1>5, <1>8, <1>9, <1>10 DEF RequestsInv
<1>12. ASSUME NEW d \in Client PROVE ~(call'[d].asked > call[d].asked)
  <2>1. call[d] \in CallType BY <1>1
  <2>2. call[d].asked \in Nat BY <2>1, CallFields
  <2>3. call'[d].asked = call[d].asked BY <1>7, <1>8
  <2> QED BY <2>2, <2>3
<1> QED BY <1>11, <1>12 DEF Requests!HonoursDeadline

\* A token expires or is revoked.
LEMMA RevokeSound ==
    ASSUME RequestsAssumption, RequestsInv, Requests!Revoke
    PROVE  RequestsInv' /\ Requests!HonoursDeadline
<1>1. /\ call \in [Client -> CallType] /\ UNCHANGED <<api, call, stored, refreshes>>
      /\ answering <= stored /\ answering < MaxRevoked /\ answering' = stored + 1
      /\ stored \in 0..MaxRevoked /\ answering \in 0..MaxRevoked /\ refreshes = stored
      /\ stored <= answering /\ answering <= stored + 1
  BY DEF RequestsInv, Requests!Revoke
<1>2. answering' \in 0..MaxRevoked /\ answering < answering' /\ stored <= answering'
  BY <1>1 DEF RequestsAssumption
<1>3. ASSUME NEW d \in Client PROVE CallIsSound(call[d])'
  <2>1. call[d] \in CallType /\ CallIsSound(call[d]) BY DEF RequestsInv
  <2>2. call[d].token \in 0..MaxRevoked /\ call[d].first \in 0..MaxRevoked BY <2>1, CallFields
  <2> QED BY <1>1, <1>2, <2>1, <2>2 DEF CallIsSound, AskedSoFar
<1>4. RequestsInv' BY <1>1, <1>2, <1>3 DEF RequestsInv
<1>5. ASSUME NEW d \in Client PROVE ~(call'[d].asked > call[d].asked)
  <2>1. call[d] \in CallType BY <1>1
  <2>2. call[d].asked \in Nat BY <2>1, CallFields
  <2> QED BY <1>1, <2>2
<1> QED BY <1>4, <1>5 DEF Requests!HonoursDeadline

\* Time passes.
LEMMA TickSound ==
    ASSUME RequestsAssumption, RequestsInv, Requests!Tick
    PROVE  RequestsInv' /\ Requests!HonoursDeadline
<1> DEFINE Older(n) == Requests!Max({0, n - 1})
           After(d) == [call[d] EXCEPT !.wait = Older(call[d].wait),
             !.deadline = Older(call[d].deadline)]
<1>1. /\ call \in [Client -> CallType] /\ UNCHANGED <<api, stored, answering, refreshes>>
      /\ call' = [d \in Client |-> After(d)]
  BY DEF RequestsInv, Requests!Tick
<1>2. \A n \in Nat : Older(n) \in Nat /\ Older(n) <= n /\ Older(n) = IF n = 0 THEN 0 ELSE n - 1
  <2> SUFFICES ASSUME NEW n \in Nat
               PROVE  Older(n) \in Nat /\ Older(n) <= n /\ Older(n) = IF n = 0 THEN 0 ELSE n - 1
    OBVIOUS
  <2>1. Older(n) = IF 0 >= n - 1 THEN 0 ELSE n - 1 BY LaterOfTwo
  <2> QED BY <2>1
<1> HIDE DEF Older
<1>3. ASSUME NEW d \in Client
      PROVE  /\ call'[d] \in CallType /\ CallIsSound(call[d])' /\ ~(call'[d].asked > call[d].asked)
  <2>1. call[d] \in CallType /\ CallIsSound(call[d]) BY DEF RequestsInv
  <2>2. call[d].wait \in 0..MaxDelay /\ call[d].deadline \in 0..(MaxDelay + 1)
        /\ call[d].asked \in Nat
        /\ call[d].retryAt \in Requests!Deadline
    BY <2>1, CallFields
  <2>3. /\ Older(call[d].wait) \in 0..MaxDelay /\ Older(call[d].deadline) \in 0..(MaxDelay + 1)
        /\ Older(call[d].wait) <= call[d].wait /\ Older(call[d].deadline) <= call[d].deadline
        /\ call[d].wait = 0 => Older(call[d].wait) = 0
        /\ call[d].deadline = 0 => Older(call[d].deadline) = 0
        /\ call[d].deadline <= call[d].wait => Older(call[d].deadline) <= Older(call[d].wait)
    BY <1>2, <2>2 DEF RequestsAssumption
  <2>4. Requests!Max({0, call[d].retryAt}) \in Int
    BY <2>2, LaterOfTwo DEF Requests!Deadline, Requests!None, RequestsAssumption
  <2> DEFINE s == After(d)
  <2>5. call'[d] = s BY <1>1
  <2>6. s \in CallType BY <2>1, <2>3 DEF CallType
  <2>7. /\ s.pc = call[d].pc /\ s.outcome = call[d].outcome /\ s.asked = call[d].asked
        /\ s.first = call[d].first /\ s.token = call[d].token /\ s.retryAt = call[d].retryAt
        /\ s.refreshed = call[d].refreshed /\ s.attempt = call[d].attempt
        /\ s.wait = Older(call[d].wait) /\ s.deadline = Older(call[d].deadline)
    BY <2>1 DEF CallType
  <2> HIDE DEF s
  <2>8. s.outcome = "transient" => s.deadline <= Requests!Max({0, s.retryAt})
    BY <2>1, <2>2, <2>3, <2>4, <2>7 DEF CallIsSound, RequestsAssumption
  <2>9. CallIsSound(s) BY <2>1, <2>3, <2>7, <2>8 DEF CallIsSound, AskedSoFar
  <2>10. CallIsSound(call[d])' BY <1>1, <2>5, <2>9 DEF CallIsSound
  <2> QED BY <2>2, <2>5, <2>6, <2>7, <2>10
<1>4. call' \in [Client -> CallType] BY <1>1, <1>3
<1>5. RequestsInv' BY <1>1, <1>3, <1>4 DEF RequestsInv
<1> QED BY <1>3, <1>5 DEF Requests!HonoursDeadline

\* Every step keeps the invariant and honours the deadlines.
LEMMA RequestsStep ==
    ASSUME RequestsAssumption, RequestsInv, [Requests!Next]_(Requests!vars)
    PROVE  RequestsInv' /\ [Requests!HonoursDeadline]_(Requests!vars)
<1>1. ASSUME NEW c \in Client, Requests!Begin(c) \/ Requests!Answer(c)
      PROVE  RequestsInv' /\ Requests!HonoursDeadline
  <2>1. CASE Requests!Refresh(c) BY <2>1, RefreshSound
  <2>2. CASE ~Requests!Refresh(c)
    <3>1. ClientSteps(c)
      BY <1>1, <2>2, BeginSteps, EndSteps, UnavailableSteps, RefreshFailsSteps DEF Requests!Answer
    <3> QED BY <3>1, ClientStepSound
  <2> QED BY <2>1, <2>2
<1>2. CASE UNCHANGED Requests!vars
  BY <1>2 DEF Requests!vars, RequestsInv, CallIsSound, AskedSoFar
<1> QED BY <1>1, <1>2, RevokeSound, TickSound DEF Requests!Next

\* What the run checks follows.
LEMMA RequestsFollow ==
    ASSUME RequestsAssumption, RequestsInv
    PROVE  /\ Requests!TypeOK /\ Requests!DeadlineCarried /\ Requests!RequestsBounded
           /\ Requests!OneRefreshPerToken /\ Requests!OneExpiryIsSurvived
<1>1. Requests!TypeOK BY DEF RequestsInv, CallType, Requests!TypeOK, RequestsAssumption
<1>2. \A c \in Client : CallIsSound(call[c]) BY DEF RequestsInv
<1>3. Requests!DeadlineCarried /\ Requests!RequestsBounded /\ Requests!OneExpiryIsSurvived
  BY <1>2
     DEF CallIsSound, Requests!DeadlineCarried, Requests!RequestsBounded,
     Requests!OneExpiryIsSurvived
<1> QED BY <1>1, <1>3 DEF RequestsInv, Requests!OneRefreshPerToken

-----------------------------------------------------------------------------
(* The behaviours of all of them *)

\* Whoever runs keeps its inductive invariant.
DeliveriesInv ==
    /\ running = "gmail push" => PushInv("gmail")
    /\ running = "graph push" => PushInv("microsoft")
    /\ running = "subscriptions" => SubInv
    /\ running = "shared alerts" => AlertsInv(FALSE)
    /\ running = "alerts apart" => AlertsInv(TRUE)
    /\ running = "tokens" => GrantInv(TRUE) /\ NoImapGrant(TRUE) /\ RefresherHoldsLock(TRUE)
    /\ running = "quick tokens" => QuickInv(FALSE)
    /\ running = "requests" => RequestsInv

\* Every behaviour begins with what whoever runs begins with, ...
LEMMA BeginSound == Begin => DeliveriesInv
<1> SUFFICES ASSUME Begin PROVE DeliveriesInv OBVIOUS
<1>1. running = "gmail push" => PushInv("gmail") BY PushAssumption, PushInit DEF Begin
<1>2. running = "graph push" => PushInv("microsoft") BY PushAssumption, PushInit DEF Begin
<1>3. running = "subscriptions" => SubInv BY SubAssumption, SubInit DEF Begin
<1>4. running = "shared alerts" => AlertsInv(FALSE) BY AlertsInit DEF Begin
<1>5. running = "alerts apart" => AlertsInv(TRUE) BY AlertsInit DEF Begin
<1>6. running = "tokens" => GrantInv(TRUE) /\ NoImapGrant(TRUE) /\ RefresherHoldsLock(TRUE)
  <2>1. running = "tokens" => Tokens(TRUE)!Init BY DEF Begin
  <2>2. Tokens(TRUE)!Init => NoImapGrant(TRUE) BY DEF Tokens!Init, NoImapGrant
  <2> QED BY <2>1, <2>2, TokensAssumption, TokensInit DEF QuickInv
<1>7. running = "quick tokens" => QuickInv(FALSE) BY TokensAssumption, TokensInit DEF Begin
<1>8. running = "requests" => RequestsInv BY RequestsAssumption, RequestsInit DEF Begin
<1> QED BY <1>1, <1>2, <1>3, <1>4, <1>5, <1>6, <1>7, <1>8 DEF DeliveriesInv

\* ... and every step is a step of whoever runs, the others' own variables apart.
LEMMA StepsAreOfTheRunning ==
    ASSUME [Step]_allVars
    PROVE  /\ running' = running
           /\ running = "gmail push" => [Push("gmail")!Next]_(Push("gmail")!vars)
           /\ running = "graph push" => [Push("microsoft")!Next]_(Push("microsoft")!vars)
           /\ running = "subscriptions" => [Subscriptions!Next]_(Subscriptions!vars)
           /\ running = "shared alerts" => [Alerts(FALSE)!Next]_(Alerts(FALSE)!vars)
           /\ running = "alerts apart" => [Alerts(TRUE)!Next]_(Alerts(TRUE)!vars)
           /\ running = "tokens" => [Tokens(TRUE)!Next]_(Tokens(TRUE)!vars)
           /\ running = "quick tokens" => [Tokens(FALSE)!Next]_(Tokens(FALSE)!vars)
           /\ running = "requests" => [Requests!Next]_(Requests!vars)
BY DEF Step, allVars, pushVars, subscriptionVars, alertVars, tokenVars, requestVars,
       Push!vars, Subscriptions!vars, Alerts!vars, Tokens!vars, Requests!vars

\* Every step keeps the invariant.
LEMMA StepSound == ASSUME DeliveriesInv, [Step]_allVars PROVE DeliveriesInv'
<1>1. running = "gmail push" => PushInv("gmail")'
  BY StepsAreOfTheRunning, PushAssumption, PushStep DEF DeliveriesInv
<1>2. running = "graph push" => PushInv("microsoft")'
  BY StepsAreOfTheRunning, PushAssumption, PushStep DEF DeliveriesInv
<1>3. running = "subscriptions" => SubInv'
  BY StepsAreOfTheRunning, SubAssumption, SubStep DEF DeliveriesInv
<1>4. running = "shared alerts" => AlertsInv(FALSE)'
  BY StepsAreOfTheRunning, AlertsStep DEF DeliveriesInv
<1>5. running = "alerts apart" => AlertsInv(TRUE)'
  BY StepsAreOfTheRunning, AlertsStep DEF DeliveriesInv
<1>6. running = "tokens" => GrantInv(TRUE)' /\ NoImapGrant(TRUE)' /\ RefresherHoldsLock(TRUE)'
  BY StepsAreOfTheRunning, TokensAssumption, TokenGrantStep, NoImapStep, RefresherStep
     DEF DeliveriesInv, GrantInv
<1>7. running = "quick tokens" => QuickInv(FALSE)'
  BY StepsAreOfTheRunning, TokensAssumption, TokenQuickStep DEF DeliveriesInv
<1>8. running = "requests" => RequestsInv'
  BY StepsAreOfTheRunning, RequestsAssumption, RequestsStep DEF DeliveriesInv
<1> QED BY <1>1, <1>2, <1>3, <1>4, <1>5, <1>6, <1>7, <1>8, StepsAreOfTheRunning DEF DeliveriesInv

\* The inductive invariant of whoever runs holds in every behaviour.
THEOREM DeliveriesInvariance == Behaviours => []DeliveriesInv
BY BeginSound, StepSound, PTL DEF Behaviours

\* A webhook's answer accepts a notification only when an import is queued after its change, unless
\* no row had its subscription when it was handled, or a fault that the code lets through has come
\* between; and a key lets through one import, and one more each time it is given back.
THEOREM AcceptedNotificationsAreQueued == Behaviours => []AcceptedIsQueued
<1>1. DeliveriesInv => AcceptedIsQueued
  BY PushAssumption, PushFollows DEF DeliveriesInv, AcceptedIsQueued
<1> QED BY <1>1, DeliveriesInvariance, PTL

\* No subscription lives at Graph without a row that knows it, but for as many as crashes, lost
\* answers and ticks that overlap account for.
THEOREM NoOrphanWithoutExcuse == Behaviours => []OrphansAreExcused
<1>1. DeliveriesInv => OrphansAreExcused
  BY SubAssumption, OrphansFollow DEF DeliveriesInv, SubInv, SubSound, OrphansAreExcused
<1> QED BY <1>1, DeliveriesInvariance, PTL

\* An incident is told once, whoever sees it first and whatever fails; with channels apart, an
\* active incident has been told, and one that is over has had its recovery.
THEOREM AlertsComeInPairs == Behaviours => []AlertsArePaired
<1>1. DeliveriesInv => AlertsArePaired
  BY AlertsFollow DEF DeliveriesInv, AlertsArePaired
<1> QED BY <1>1, DeliveriesInvariance, PTL

\* The account keeps the user's last consent, asks for another only when that one is revoked, and
\* stays paused until the user acts, though rows are kept for longer than the refresh lock lasts.
THEOREM UsersConsentIsKept == Behaviours => LastConsentKept
<1>1. DeliveriesInv => (running = "tokens" =>
          Tokens(TRUE)!TypeOK /\ Tokens(TRUE)!LastConsentKept /\ Tokens(TRUE)!ReauthMeansRevoked)
  BY GrantFollows DEF DeliveriesInv, GrantInv
<1>2. ASSUME DeliveriesInv, [Step]_allVars
      PROVE  [running = "tokens" => Tokens(TRUE)!KeepsPause]_tokenVars
  BY <1>2, StepsAreOfTheRunning, TokensAssumption, TokenPauseStep DEF DeliveriesInv
<1> QED BY <1>1, <1>2, DeliveriesInvariance, PTL DEF Behaviours, LastConsentKept

\* One operation of an account asks the provider for a token at a time, and the row's token is of
\* the row's grant, though rows are kept for longer than the refresh lock lasts.  What holds only
\* under a hypothesis the code does not enforce, that no row is kept for longer than the lock's
\* 90 s, is proved of the instance that has it: a refresh is also committed before the next one
\* begins, and none is made for a token that is good.
THEOREM OneRefreshAtATime == Behaviours => []RefreshesSerialized
<1>1. DeliveriesInv => RefreshesSerialized
  BY OneRefresher DEF DeliveriesInv, QuickInv, GrantInv, RefreshesSerialized
<1> QED BY <1>1, DeliveriesInvariance, PTL

\* Nothing is sent before the time the provider has asked to wait for, and a transient error
\* carries that time on; a call sends a bounded number of requests and survives the expiry of one
\* token, and clients refused the same token share one refresh.
THEOREM ProvidersAreObeyed == Behaviours => DeadlineHonoured
<1>1. DeliveriesInv => (running = "requests" =>
          /\ Requests!TypeOK /\ Requests!DeadlineCarried /\ Requests!RequestsBounded
          /\ Requests!OneRefreshPerToken /\ Requests!OneExpiryIsSurvived)
  BY RequestsAssumption, RequestsFollow DEF DeliveriesInv
<1>2. ASSUME DeliveriesInv, [Step]_allVars
      PROVE  [running = "requests" => Requests!HonoursDeadline]_requestVars
  <2>1. running = "requests" => [Requests!HonoursDeadline]_(Requests!vars)
    BY <1>2, StepsAreOfTheRunning, RequestsAssumption, RequestsStep DEF DeliveriesInv
  <2> QED BY <2>1 DEF requestVars, Requests!vars
<1> QED BY <1>1, <1>2, DeliveriesInvariance, PTL DEF Behaviours, DeadlineHonoured
=============================================================================
