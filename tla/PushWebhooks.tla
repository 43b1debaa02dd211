---------------------------- MODULE PushWebhooks ----------------------------
(***************************************************************************)
(* The webhooks a provider calls when a mailbox changes: Gmail through     *)
(* Pub/Sub, one mailbox in each request, which several tenants may have    *)
(* connected (enqueue_from_push), and Microsoft Graph, several             *)
(* notifications of a subscription in each request                         *)
(* (enqueue_from_graph_notification).  A request is a set of items, each   *)
(* claimed in Redis with SET NX and published to the queue of imports; the *)
(* provider sends the notification again until the webhook accepts it.     *)
(*                                                                         *)
(* The two differ in what the claim is about (the history number, or the   *)
(* message) and in what a failed publication leaves behind (Gmail's        *)
(* handler gives its claim back, Graph's keeps it).                        *)
(*                                                                         *)
(* Requests that do not authenticate or parse are refused before any of    *)
(* this and change nothing.                                                *)
(***************************************************************************)
EXTENDS Integers, Sequences, FiniteSets, Functions

CONSTANTS
    Provider,     \* "gmail" or "microsoft"
    Account,      \* the accounts of the mailbox (one, for a Graph subscription)
    Message,
    Request,      \* requests the API serves at the same time
    MaxChanges,   \* bound: changes of the mailbox
    MayFail,      \* which of Failure happen
    MaxFailures   \* bound: how many do, in all

Failure == {"publish",  \* the broker does not confirm a publication
            "redis",    \* Redis does not take a claim
            "undo",     \* a claim cannot be given back
            "overlap",  \* a notification comes again while it is being handled
            "lost",     \* an answer does not reach the provider
            "crash",    \* the process of a request dies
            "gone",     \* an account loses its authorization, a subscription its row
            "deferred"} \* the import of a new connection cannot be queued

VARIABLES
    changes,   \* the message each change was about, oldest first
    unsent,    \* the provider's notifications that no answer has accepted
    accepted,  \* those it has been told are accepted
    connected, \* accounts whose status lets a notification in; for Graph, those
               \* whose row has the subscription's id
    claimed,   \* Redis: the deduplication keys
    request,   \* the requests being handled
    covered,   \* how many changes had happened when the last import was queued
    allowance, \* imports each key may yet queue: one, and one more each time
               \* the key is lost, ignored or given back (history)
    unheeded,  \* items passed over because no row had the subscription (history)
    failures   \* how many of each have happened

vars == <<changes, unsent, accepted, connected, claimed, request, covered,
          allowance, unheeded, failures>>

Change == 1..MaxChanges
Item == Change \X Account

Key == Account \X (Change \cup Message)

\* Mutant of Identity: one key for each account.
IdentityIsAccount(i) == <<i[2], 1>>

\* Mutant of Identity: its parts swapped.
IdentitySwapped(i) == i

\* The account and the history number; the subscription and the resource's id.
Identity(i) == <<i[2], IF Provider = "gmail" THEN i[1] ELSE changes[i[1]]>>

Idle == [pc |-> "idle", of |-> {}, todo |-> {}, at |-> {}]

TypeOK ==
    /\ changes \in Seq(Message) /\ Len(changes) <= MaxChanges
    /\ unsent \subseteq 1..Len(changes) /\ accepted \subseteq 1..Len(changes)
    /\ connected \subseteq Account /\ claimed \subseteq Key
    /\ \A r \in Request :
          /\ request[r].pc \in {"idle", "claim", "publish", "undo"}
          /\ request[r].of \subseteq Change
          /\ request[r].todo \subseteq Item /\ request[r].at \subseteq Item
    /\ covered \in [Account -> 0..MaxChanges]
    /\ allowance \in [Key -> Int] /\ unheeded \subseteq Item
    /\ failures \in [Failure -> Nat]

\* Graph's subscription has its row, or the tick that created it has not committed.
Init ==
    /\ changes = <<>> /\ unsent = {} /\ accepted = {} /\ unheeded = {}
    /\ connected \in {Account} \cup (IF Provider = "gmail" THEN {} ELSE {{}})
    /\ claimed = {}
    /\ request = [r \in Request |-> Idle]
    /\ covered = [a \in Account |-> 0]
    /\ allowance = [k \in Key |-> 1]
    /\ failures = [f \in Failure |-> 0]

Fails(f) ==
    /\ f \in MayFail
    /\ FoldFunction(+, 0, failures) < MaxFailures
    /\ failures' = [failures EXCEPT ![f] = @ + 1]

-----------------------------------------------------------------------------
(* The provider, the accounts and Redis.                                   *)

\* A message changes and the provider has something to tell.
MailboxChanges(m) ==
    /\ Len(changes) < MaxChanges
    /\ changes' = Append(changes, m)
    /\ unsent' = unsent \cup {Len(changes) + 1}
    /\ UNCHANGED <<accepted, connected, claimed, request, covered, allowance, unheeded, failures>>

\* An account of Gmail asks for a new consent: notifications pass it by.  Graph has
\* answered 404 or 410 to a renewal and the row gets another subscription.
AccountLost(a) ==
    /\ a \in connected
    /\ Fails("gone")
    /\ connected' = connected \ {a}
    /\ UNCHANGED <<changes, unsent, accepted, claimed, request, covered, allowance, unheeded>>

\* The tick that created the subscription commits its row.
RowCommitted(a) ==
    /\ Provider = "microsoft" /\ a \notin connected /\ failures["gone"] = 0
    /\ connected' = connected \cup {a}
    /\ UNCHANGED <<changes, unsent, accepted, claimed, request, covered, allowance, unheeded, failures>>

\* The callback of the consent connects it and queues an import, or leaves that
\* to the scheduler if it cannot.
AccountBack(a) ==
    /\ Provider = "gmail" /\ a \notin connected
    /\ connected' = connected \cup {a}
    /\ \/ covered' = [covered EXCEPT ![a] = Len(changes)] /\ UNCHANGED failures
       \/ Fails("deferred") /\ UNCHANGED covered
    /\ UNCHANGED <<changes, unsent, accepted, claimed, request, allowance, unheeded>>

\* The key lasts gmail_push_dedupe_seconds, microsoft_graph_webhook_dedupe_seconds.
KeyExpires(k) ==
    /\ k \in claimed
    /\ claimed' = claimed \ {k}
    /\ allowance' = [allowance EXCEPT ![k] = @ + 1]
    /\ UNCHANGED <<changes, unsent, accepted, connected, request, covered, unheeded, failures>>

-----------------------------------------------------------------------------
(* The handler.                                                            *)

\* pubsub_push carries one notification, graph_webhook a list of them.
Envelope(ns) ==
    /\ ns # {} /\ ns \subseteq unsent
    /\ Provider = "gmail" => Cardinality(ns) = 1

\* Whom a notification is for: the accounts of the mailbox whose status is CONNECTED,
\* ERROR or SYNCING; the subscription's, which has no such condition.
Recipients == IF Provider = "gmail" THEN connected ELSE Account

\* A request comes in.
Receive(r, ns) ==
    /\ request[r].pc = "idle" /\ Envelope(ns)
    /\ request' = [request EXCEPT ![r] = [pc |-> "claim", of |-> ns, todo |-> ns \X Recipients, at |-> {}]]
    /\ \/ \A o \in Request : request[o].of \cap ns = {} /\ UNCHANGED failures
       \/ \E o \in Request : request[o].of \cap ns # {} /\ Fails("overlap")
    /\ UNCHANGED <<changes, unsent, accepted, connected, claimed, covered, allowance, unheeded>>

\* The notifications of a list are handled in its order, accounts in any order.
Following(r) == {i \in request[r].todo : \A j \in request[r].todo : i[1] <= j[1]}

\* Gmail's accounts are read with the request; Graph's handler reads the row that has the
\* subscription for each notification, just before its key.
HasRow(i) == Provider = "gmail" \/ i[2] \in connected

\* No row has the subscription: return False, and the webhook accepts the notification.
PassOver(r) ==
    /\ request[r].pc = "claim"
    /\ \E i \in Following(r) :
          /\ ~HasRow(i)
          /\ request' = [request EXCEPT ![r].todo = @ \ {i}]
          /\ unheeded' = unheeded \cup {i}
    /\ UNCHANGED <<changes, unsent, accepted, connected, claimed, covered, allowance, failures>>

\* Mutant of Claim: SET without NX.
ClaimWithoutNX(r) ==
    /\ request[r].pc = "claim"
    /\ \E i \in Following(r) :
          /\ HasRow(i)
          /\ claimed' = claimed \cup {Identity(i)}
          /\ request' = [request EXCEPT ![r].todo = @ \ {i}, ![r].pc = "publish", ![r].at = {i}]
    /\ UNCHANGED <<changes, unsent, accepted, connected, covered, allowance, unheeded, failures>>

\* SET NX takes the key, or finds it taken: then the item is a duplicate and
\* is passed over.
Claim(r) ==
    /\ request[r].pc = "claim"
    /\ \E i \in Following(r) :
          /\ HasRow(i)
          /\ \/ /\ Identity(i) \notin claimed
                /\ claimed' = claimed \cup {Identity(i)}
                /\ request' = [request EXCEPT ![r].todo = @ \ {i}, ![r].pc = "publish", ![r].at = {i}]
             \/ /\ Identity(i) \in claimed
                /\ request' = [request EXCEPT ![r].todo = @ \ {i}]
                /\ UNCHANGED claimed
    /\ UNCHANGED <<changes, unsent, accepted, connected, covered, allowance, unheeded, failures>>

\* RedisError: the item is published without a claim.
ClaimUnavailable(r) ==
    /\ request[r].pc = "claim" /\ Fails("redis")
    /\ \E i \in Following(r) :
          /\ HasRow(i)
          /\ request' = [request EXCEPT ![r].todo = @ \ {i}, ![r].pc = "publish", ![r].at = {i}]
          /\ allowance' = [allowance EXCEPT ![Identity(i)] = @ + 1]
    /\ UNCHANGED <<changes, unsent, accepted, connected, claimed, covered, unheeded>>

\* The broker has a message that imports the account.
Queued(i) ==
    /\ covered' = [covered EXCEPT ![i[2]] = Len(changes)]
    /\ allowance' = [allowance EXCEPT ![Identity(i)] = @ - 1]

Publish(r) ==
    /\ request[r].pc = "publish"
    /\ \E i \in request[r].at : Queued(i)
    /\ request' = [request EXCEPT ![r].pc = "claim", ![r].at = {}]
    /\ UNCHANGED <<changes, unsent, accepted, connected, claimed, unheeded, failures>>

\* The publication raises, perhaps after the broker took the message.  Gmail's
\* handler goes on to give the claim back; Graph's fails at once, the key kept.
PublishFails(r) ==
    /\ request[r].pc = "publish" /\ Fails("publish")
    /\ \/ \E i \in request[r].at : Queued(i)
       \/ UNCHANGED <<covered, allowance>>
    /\ request' = [request EXCEPT ![r] = IF Provider = "gmail" THEN [@ EXCEPT !.pc = "undo"] ELSE Idle]
    /\ UNCHANGED <<changes, unsent, accepted, connected, claimed, unheeded>>

\* Mutant of GiveBack: the handler fails without deleting the key.
GiveBackNothing(r) ==
    /\ request[r].pc = "undo"
    /\ request' = [request EXCEPT ![r] = Idle]
    /\ UNCHANGED <<changes, unsent, accepted, connected, claimed, covered, allowance, unheeded, failures>>

\* redis.delete(dedupe_key), and the request fails: the provider tries again.
GiveBack(r) ==
    /\ request[r].pc = "undo"
    /\ claimed' = claimed \ {Identity(i) : i \in request[r].at}
    /\ allowance' = [k \in Key |-> IF \E i \in request[r].at : Identity(i) = k
                                   THEN allowance[k] + 1 ELSE allowance[k]]
    /\ request' = [request EXCEPT ![r] = Idle]
    /\ UNCHANGED <<changes, unsent, accepted, connected, covered, unheeded, failures>>

\* Redis does not answer the delete: the key stays until it expires.
GiveBackFails(r) ==
    /\ request[r].pc = "undo" /\ Fails("undo")
    /\ request' = [request EXCEPT ![r] = Idle]
    /\ UNCHANGED <<changes, unsent, accepted, connected, claimed, covered, allowance, unheeded>>

\* The mailbox has no account left to tell, or all have been told: the request
\* is answered with 204 or 202.
Answer(r) ==
    /\ request[r].pc = "claim" /\ request[r].todo = {}
    /\ request' = [request EXCEPT ![r] = Idle]
    /\ \/ /\ accepted' = accepted \cup request[r].of
          /\ unsent' = unsent \ request[r].of
          /\ UNCHANGED failures
       \/ /\ Fails("lost")
          /\ UNCHANGED <<accepted, unsent>>
    /\ UNCHANGED <<changes, connected, claimed, covered, allowance, unheeded>>

Crash(r) ==
    /\ request[r].pc # "idle" /\ Fails("crash")
    /\ request' = [request EXCEPT ![r] = Idle]
    /\ UNCHANGED <<changes, unsent, accepted, connected, claimed, covered, allowance, unheeded>>

Step(r) == PassOver(r) \/ Claim(r) \/ Publish(r) \/ GiveBack(r) \/ Answer(r)

Next ==
    \/ \E m \in Message : MailboxChanges(m)
    \/ \E a \in Account : AccountLost(a) \/ AccountBack(a) \/ RowCommitted(a)
    \/ \E k \in claimed : KeyExpires(k)
    \/ \E r \in Request :
          \/ \E ns \in SUBSET unsent : Receive(r, ns)
          \/ Step(r)
          \/ ClaimUnavailable(r) \/ PublishFails(r) \/ GiveBackFails(r) \/ Crash(r)

Spec == Init /\ [][Next]_vars

\* The provider sends again what was not accepted, and the API serves requests.
FairSpec ==
    /\ Spec
    /\ \A r \in Request : WF_vars(Step(r))
    /\ \A n \in Change : WF_vars(\E r \in Request : Receive(r, {n}))

-----------------------------------------------------------------------------
\* None of the faults that let a notification be accepted unheeded: a process
\* that died or a key Redis kept between the claim and the publication, a
\* duplicate that arrives in between, an import left to the scheduler; for
\* Graph's handler also a publication that fails, and a second change of the
\* same message while the key lasts.
Unharmed ==
    /\ failures["crash"] = 0 /\ failures["undo"] = 0 /\ failures["overlap"] = 0
    /\ failures["deferred"] = 0
    /\ Provider = "microsoft" =>
          /\ failures["publish"] = 0
          /\ \A x, y \in DOMAIN changes : changes[x] = changes[y] => x = y

\* The account has an import queued after the change, or its row did not have the
\* subscription when the notification was handled: from its creation until the tick
\* commits, and after another has replaced it, the handler drops what it accepts.
Heeded(n, a) == covered[a] >= n \/ <<n, a>> \in unheeded

\* A webhook accepts a notification only when an import was queued after the
\* change, for each account of the mailbox that is connected
\* (enqueue_from_push, enqueue_from_graph_notification), or when no row had the
\* subscription to queue it for: whatever is duplicated, delayed or reordered, and
\* for Gmail whatever the broker refuses, a change that the provider will not tell
\* again is about to be copied.
AcceptedIsQueued ==
    Unharmed => \A n \in accepted : \A a \in Recipients : Heeded(n, a)

\* While a key lasts, the notification it stands for queues one import
\* (gmail_push_dedupe_seconds, microsoft_graph_webhook_dedupe_seconds;
\* test_push_event_is_deduplicated_before_enqueue): each other one is owed to
\* a key that expired, was given back, or that Redis could not take.
OneImportPerKey == \A k \in Key : allowance[k] >= 0

\* A notification the provider keeps sending leads to an import queued after
\* the change, for every account that is connected (api/gmail_push.py), as long
\* as none of the faults above has happened.
EveryChangeIsQueued ==
    \A n \in Change : (n \in unsent) ~>
        (~Unharmed \/ \A a \in Recipients : Heeded(n, a))
=============================================================================
