---------------------------- MODULE ProviderTokens ----------------------------
(***************************************************************************)
(* The grant of one mail account and the operations that use it: the       *)
(* synchronizers, the renewals of watches and subscriptions, and the       *)
(* reads of message content (token_manager.py, auth_state.py, and who      *)
(* calls them), while the user reconnects, pauses and resumes the account. *)
(*                                                                         *)
(* A grant is an encrypted refresh token, and its ciphertext is the mark   *)
(* of its generation: here the number of the encryption.  Two locks meet:  *)
(* Redis's, which serializes refreshes, and PostgreSQL's on the account's  *)
(* row, from an operation's first UPDATE of it to its commit.              *)
(*                                                                         *)
(* The provider is external.  It may revoke a consent's refresh token; an  *)
(* application password (IMAP) is no refresh token to it.                  *)
(***************************************************************************)
EXTENDS Integers, Sequences, FiniteSets

CONSTANTS
    Syncs,        \* operations that are synchronizations
    Renewals,     \* operations that renew a watch or a subscription
    Readers,      \* operations that read a message's content
    NoOp, Dead,   \* nobody; an operation that died
    Rotates,      \* the provider returns a new refresh token at each refresh
    Imap,         \* the user may reconnect over IMAP
    MaxActs,      \* bound: actions of the user on the account
    MaxTokens,    \* bound: access tokens issued
    SlowRow,      \* a transaction may keep the row for longer than the lock's 90 s
    MaxCrashes    \* bound: operations that die

Ops == Syncs \cup Renewals \cup Readers

VARIABLES
    row,       \* mail_accounts: grant, access token and status, as committed
    rowLock,   \* the operation whose open transaction has updated the row
    lock,      \* Redis oauth:refresh:<account>: who holds it
    op,        \* each operation's control state and what it has in memory
    gens,      \* gens[g]: the consent and the kind of the g-th encryption
    tokens,    \* tokens[t]: the consent under which access token t was issued
    lapsed,    \* access tokens that have expired
    revoked,   \* consents whose refresh token the provider refuses
    acts,      \* how many actions the user has taken
    crashes    \* how many operations have died

vars == <<row, rowLock, lock, op, gens, tokens, lapsed, revoked, acts, crashes>>

NoToken == 0
Usable == {"connected", "syncing", "error"}
Status == Usable \cup {"reauth_required", "disconnected"}
PC == {"idle", "loaded", "want", "reread", "refreshing", "publishing", "using",
       "refused", "marked", "failed"}
IdleOp == [pc |-> "idle", grant |-> 1, token |-> NoToken, rejected |-> NoToken,
           retried |-> FALSE, running |-> FALSE]
OpState == [pc: PC, grant: Nat, token: Nat, rejected: Nat, retried: BOOLEAN, running: BOOLEAN]

TypeOK ==
    /\ row \in [grant: 1..Len(gens), access: 0..Len(tokens), status: Status]
    /\ rowLock \in Ops \cup {NoOp}
    /\ lock \in Ops \cup {NoOp, Dead}
    /\ op \in [Ops -> OpState]
    /\ gens \in Seq([consent: Nat, imap: BOOLEAN])
    /\ tokens \in Seq(Nat)
    /\ lapsed \subseteq 1..Len(tokens)
    /\ revoked \subseteq Nat
    /\ acts \in Nat /\ crashes \in Nat

Init ==
    /\ row = [grant |-> 1, access |-> 1, status |-> "connected"]
    /\ rowLock = NoOp /\ lock = NoOp
    /\ op = [p \in Ops |-> IdleOp]
    /\ gens = <<[consent |-> 1, imap |-> FALSE]>>
    /\ tokens = <<1>>
    /\ lapsed = {} /\ revoked = {}
    /\ acts = 0 /\ crashes = 0

-----------------------------------------------------------------------------
(* The provider *)

LatestConsent == Cardinality({gens[g].consent : g \in 1..Len(gens)})
RefusesRefresh(g) == gens[g].imap \/ gens[g].consent \in revoked
RefusesAccess(t) == t \in lapsed \/ tokens[t] \in revoked

\* An access token's hour is over.  The token an operation has just been given
\* lasts long enough for its next call.
Lapse(t) ==
    /\ t \notin lapsed
    /\ \A p \in Ops : ~(op[p].pc = "using" /\ op[p].retried /\ op[p].token = t)
    /\ lapsed' = lapsed \cup {t}
    /\ UNCHANGED <<row, rowLock, lock, op, gens, tokens, revoked, acts, crashes>>

Revoke(c) ==
    /\ c \notin revoked
    /\ revoked' = revoked \cup {c}
    /\ UNCHANGED <<row, rowLock, lock, op, gens, tokens, lapsed, acts, crashes>>

-----------------------------------------------------------------------------
(* The user *)

\* A write of the row waits for the transaction that has updated it.
RowFree(p) == rowLock \in {NoOp, p}

Act(newRow) ==
    /\ acts < MaxActs /\ RowFree(NoOp)
    /\ acts' = acts + 1
    /\ row' = newRow
    /\ UNCHANGED <<rowLock, lock, op, lapsed, revoked, crashes>>

\* A new consent, which the provider answers with a refresh token of its own, or
\* without one when it keeps the last consent's: the old one is encrypted again.
ReconnectOAuth ==
    /\ Len(tokens) < MaxTokens
    /\ \E c \in {LatestConsent, LatestConsent + 1} :
          /\ c = LatestConsent => ~RefusesRefresh(row.grant)
          /\ gens' = Append(gens, [consent |-> c, imap |-> FALSE])
          /\ tokens' = Append(tokens, c)
    /\ Act([grant |-> Len(gens'), access |-> Len(tokens'), status |-> "connected"])

ReconnectImap ==
    /\ Imap
    /\ gens' = Append(gens, [consent |-> LatestConsent + 1, imap |-> TRUE])
    /\ Act([grant |-> Len(gens'), access |-> NoToken, status |-> "connected"])
    /\ UNCHANGED tokens

Pause == Act([row EXCEPT !.status = "disconnected"]) /\ UNCHANGED <<gens, tokens>>
Resume == Act([row EXCEPT !.status = "connected"]) /\ UNCHANGED <<gens, tokens>>

-----------------------------------------------------------------------------
(* AccountTokenManager.access_token *)

Set(p, state) == op' = [op EXCEPT ![p] = state]
Fresh(t) == t # NoToken /\ t \notin lapsed

\* Mutant of Applies: the UPDATE forgets the grant.
AppliesToAnyGrant(expected, status) ==
    row.status \in Usable \cup (IF status = "reauth_required" THEN {status} ELSE {})

\* Mutant of Applies: the UPDATE forgets the status.
AppliesToAnyStatus(expected, status) == row.grant = expected

\* update_account_if_current: an older operation writes nothing.
Applies(expected, status) ==
    /\ row.grant = expected
    /\ row.status \in Usable \cup (IF status = "reauth_required" THEN {status} ELSE {})

\* Releasing a lock that has expired changes nothing: LockError is suppressed.
ReleaseLock(p) == lock' = IF lock = p THEN NoOp ELSE lock
EndTransaction(p) == rowLock' = IF rowLock = p THEN NoOp ELSE rowLock

\* An operation's query of the account: the worker's, of an OAuth account that is
\* neither paused nor refused; a renewal's, of a connected one; or a reader's.
Load(p) ==
    /\ op[p].pc = "idle"
    /\ p \in Syncs => row.status \in Usable /\ ~gens[row.grant].imap
    /\ p \in Renewals => row.status = "connected"
    /\ p \in Readers => ~gens[row.grant].imap
    /\ Set(p, [IdleOp EXCEPT !.pc = "want", !.grant = row.grant])
    /\ UNCHANGED <<row, rowLock, lock, gens, tokens, lapsed, revoked, acts, crashes>>

\* Mutant of Acquire: every process has a lock of its own.
AcquireAnyway(p) ==
    /\ op[p].pc = "want"
    /\ lock' = p
    /\ Set(p, [op[p] EXCEPT !.pc = "reread"])
    /\ UNCHANGED <<row, rowLock, gens, tokens, lapsed, revoked, acts, crashes>>

Acquire(p) ==
    /\ op[p].pc = "want" /\ lock = NoOp
    /\ lock' = p
    /\ Set(p, [op[p] EXCEPT !.pc = "reread"])
    /\ UNCHANGED <<row, rowLock, gens, tokens, lapsed, revoked, acts, crashes>>

\* Mutant of Fail: the failure leaves its transaction open.
FailUncommitted(p) ==
    /\ op[p].pc = "failed"
    /\ Set(p, IdleOp)
    /\ UNCHANGED <<row, rowLock, lock, gens, tokens, lapsed, revoked, acts, crashes>>

\* An error before the synchronization has begun leaves the account alone.
FailRun(p) == IF op[p].running THEN [op[p] EXCEPT !.pc = "failed"] ELSE IdleOp

\* blocking_timeout=30: "Account token refresh is busy".
Busy(p) ==
    /\ op[p].pc = "want" /\ lock # NoOp
    /\ Set(p, FailRun(p))
    /\ UNCHANGED <<row, rowLock, lock, gens, tokens, lapsed, revoked, acts, crashes>>

\* Mutant of Reread: it trusts the credentials it has loaded.
RereadFromMemory(p) ==
    /\ op[p].pc = "reread"
    /\ LET usesToken == Fresh(op[p].token) /\ op[p].token # op[p].rejected
       IN  /\ Set(p, [op[p] EXCEPT !.pc = IF usesToken THEN "using" ELSE "refreshing"])
           /\ IF usesToken THEN ReleaseLock(p) ELSE UNCHANGED lock
    /\ UNCHANGED <<row, rowLock, gens, tokens, lapsed, revoked, acts, crashes>>

\* The credentials as committed now: another operation may have refreshed them.
Reread(p) ==
    /\ op[p].pc = "reread"
    /\ LET usesToken == Fresh(row.access) /\ row.access # op[p].rejected
           unavailable == row.status \notin Usable
       IN  /\ Set(p, IF unavailable THEN FailRun(p)
                     ELSE IF usesToken THEN [op[p] EXCEPT !.pc = "using", !.grant = row.grant,
                                                          !.token = row.access]
                     ELSE [op[p] EXCEPT !.pc = "refreshing", !.grant = row.grant])
           /\ IF unavailable \/ usesToken THEN ReleaseLock(p) ELSE UNCHANGED lock
    /\ UNCHANGED <<row, rowLock, gens, tokens, lapsed, revoked, acts, crashes>>

\* _refresh: the provider gives an access token, ...
Refreshed(p) ==
    /\ op[p].pc = "refreshing" /\ Len(tokens) < MaxTokens
    /\ ~RefusesRefresh(op[p].grant)
    /\ tokens' = Append(tokens, gens[op[p].grant].consent)
    /\ Set(p, [op[p] EXCEPT !.pc = "publishing", !.token = Len(tokens')])
    /\ UNCHANGED <<row, rowLock, lock, gens, lapsed, revoked, acts, crashes>>

\* ... or answers invalid_grant; the error remembers the grant it is about, ...
Refused(p) ==
    /\ op[p].pc = "refreshing"
    /\ RefusesRefresh(op[p].grant)
    /\ Set(p, [op[p] EXCEPT !.pc = "refused"])
    /\ ReleaseLock(p)
    /\ UNCHANGED <<row, rowLock, gens, tokens, lapsed, revoked, acts, crashes>>

\* ... or nothing of use within its 20 s.
Unanswered(p) ==
    /\ op[p].pc = "refreshing"
    /\ Set(p, [op[p] EXCEPT !.pc = "failed"])
    /\ ReleaseLock(p)
    /\ UNCHANGED <<row, rowLock, gens, tokens, lapsed, revoked, acts, crashes>>

\* The new tokens are written and committed, with all that the operation's
\* transaction has written so far; or a newer authorization has superseded them.
Publish(p) ==
    /\ op[p].pc = "publishing" /\ RowFree(p)
    /\ LET g == IF Rotates THEN Len(gens) + 1 ELSE row.grant
       IN  IF Applies(op[p].grant, "")
           THEN /\ gens' = IF Rotates THEN Append(gens, gens[op[p].grant]) ELSE gens
                /\ row' = [grant |-> g, access |-> op[p].token,
                           status |-> IF op[p].running THEN "syncing" ELSE row.status]
                /\ Set(p, [op[p] EXCEPT !.pc = "using", !.grant = g])
           ELSE Set(p, IdleOp) /\ UNCHANGED <<row, gens>>
    /\ ReleaseLock(p) /\ EndTransaction(p)
    /\ UNCHANGED <<tokens, lapsed, revoked, acts, crashes>>

-----------------------------------------------------------------------------
(* What the operations do with a token *)

\* A synchronizer's conditional UPDATE to SYNCING, which it has not committed.
Start(p) ==
    /\ p \in Syncs /\ op[p].pc = "using" /\ ~op[p].running /\ RowFree(p)
    /\ IF Applies(op[p].grant, "syncing")
       THEN rowLock' = p /\ Set(p, [op[p] EXCEPT !.running = TRUE])
       ELSE Set(p, IdleOp) /\ UNCHANGED rowLock
    /\ UNCHANGED <<row, lock, gens, tokens, lapsed, revoked, acts, crashes>>

\* A call of the API: refused with 401, it asks once for another token.
Rejected(p) ==
    /\ op[p].pc = "using" /\ (p \in Syncs => op[p].running)
    /\ RefusesAccess(op[p].token)
    /\ Set(p, IF op[p].retried THEN [op[p] EXCEPT !.pc = "failed"]
              ELSE [op[p] EXCEPT !.pc = "want", !.rejected = op[p].token, !.retried = TRUE])
    /\ UNCHANGED <<row, rowLock, lock, gens, tokens, lapsed, revoked, acts, crashes>>

\* The operation ends well: a synchronizer's last conditional UPDATE and commit.
Done(p) ==
    /\ op[p].pc = "using" /\ (p \in Syncs => op[p].running /\ RowFree(p))
    /\ ~RefusesAccess(op[p].token)
    /\ row' = IF p \in Syncs /\ Applies(op[p].grant, "connected")
              THEN [row EXCEPT !.status = "connected"] ELSE row
    /\ Set(p, IdleOp) /\ EndTransaction(p)
    /\ UNCHANGED <<lock, gens, tokens, lapsed, revoked, acts, crashes>>

\* A synchronizer that fails says so on the account and commits, if the grant it
\* failed with is the account's; other operations leave the account alone.  Its
\* worker then marks a refused account once more (MarkReauth).
Fail(p) ==
    /\ \/ op[p].pc = "failed"
       \/ op[p].pc = "refused" /\ p \in Syncs /\ op[p].running
    /\ p \in Syncs => RowFree(p)
    /\ LET status == IF op[p].pc = "refused" THEN "reauth_required" ELSE "error"
           says == p \in Syncs /\ Applies(op[p].grant, status)
           goesOn == says /\ op[p].pc = "refused"
       IN  /\ row' = IF says THEN [row EXCEPT !.status = status] ELSE row
           /\ Set(p, IF goesOn THEN [op[p] EXCEPT !.running = FALSE] ELSE IdleOp)
    /\ EndTransaction(p)
    /\ UNCHANGED <<lock, gens, tokens, lapsed, revoked, acts, crashes>>

\* Mutant of MarkReauth: the error has forgotten the grant it is about.
MarkAnyGrant(p) ==
    /\ op[p].pc = "refused" /\ ~op[p].running /\ p \notin Readers /\ RowFree(p)
    /\ Applies(row.grant, "reauth_required")
    /\ rowLock' = p /\ Set(p, [op[p] EXCEPT !.pc = "marked"])
    /\ UNCHANGED <<row, lock, gens, tokens, lapsed, revoked, acts, crashes>>

\* mark_reauth_if_current.  A renewal goes on to other accounts before it commits.
MarkReauth(p) ==
    /\ op[p].pc = "refused" /\ ~op[p].running /\ p \notin Readers /\ RowFree(p)
    /\ IF Applies(op[p].grant, "reauth_required")
       THEN rowLock' = p /\ Set(p, [op[p] EXCEPT !.pc = "marked"])
       ELSE rowLock' = rowLock /\ Set(p, IdleOp)
    /\ UNCHANGED <<row, lock, gens, tokens, lapsed, revoked, acts, crashes>>
CommitReauth(p) ==
    /\ op[p].pc = "marked"
    /\ row' = [row EXCEPT !.status = "reauth_required", !.access = NoToken]
    /\ Set(p, IdleOp) /\ EndTransaction(p)
    /\ UNCHANGED <<lock, gens, tokens, lapsed, revoked, acts, crashes>>

\* The API answers that the content is not available.
Raise(p) ==
    /\ op[p].pc = "refused" /\ p \in Readers
    /\ Set(p, IdleOp)
    /\ UNCHANGED <<row, rowLock, lock, gens, tokens, lapsed, revoked, acts, crashes>>

\* A process dies: its transaction is rolled back, its Redis lock remains.
Crash(p) ==
    /\ op[p].pc # "idle" /\ crashes < MaxCrashes
    /\ crashes' = crashes + 1
    /\ Set(p, IdleOp) /\ EndTransaction(p)
    /\ lock' = IF lock = p THEN Dead ELSE lock
    /\ UNCHANGED <<row, gens, tokens, lapsed, revoked, acts>>

\* Mutant of LockExpires: the lock has no timeout.
LockExpiresNever == FALSE /\ UNCHANGED vars

\* timeout=90.  The HTTP call takes 20 s at most, but the UPDATE waits for as
\* long as another transaction keeps the row.
LockExpires ==
    /\ \/ lock = Dead
       \/ SlowRow /\ lock \in Ops /\ op[lock].pc = "publishing" /\ ~RowFree(lock)
    /\ lock' = NoOp
    /\ UNCHANGED <<row, rowLock, op, gens, tokens, lapsed, revoked, acts, crashes>>

-----------------------------------------------------------------------------
User == ReconnectOAuth \/ ReconnectImap \/ Pause \/ Resume
Step(p) ==
    \/ Load(p) \/ Acquire(p) \/ Busy(p) \/ Reread(p)
    \/ Refreshed(p) \/ Refused(p) \/ Unanswered(p) \/ Publish(p)
    \/ Start(p) \/ Rejected(p) \/ Done(p) \/ Fail(p)
    \/ MarkReauth(p) \/ CommitReauth(p) \/ Raise(p)
Provider == (\E t \in 1..Len(tokens) : Lapse(t)) \/ (\E c \in 1..LatestConsent : Revoke(c))
Next == User \/ Provider \/ LockExpires \/ \E p \in Ops : Step(p) \/ Crash(p)

Spec == Init /\ [][Next]_vars
\* An operation takes its next step, whatever the answers (PostgreSQL serves those
\* who wait for a row in turn: strong fairness); the lock's time runs.
FairSpec ==
    /\ Spec
    /\ \A p \in Ops : SF_vars(Step(p) /\ op[p].pc # "idle")
    /\ WF_vars(LockExpires)

-----------------------------------------------------------------------------
\* The grant on the row is always the user's last consent, or what a refresh made
\* of it: no operation that began before puts an older one back.
LastConsentKept == gens[row.grant].consent = LatestConsent

\* An account asks for reauthorization only if the provider refuses the consent
\* it has now, and not one that it had when some operation began.
ReauthMeansRevoked ==
    row.status = "reauth_required" => gens[row.grant].consent \in revoked

\* An access token on the row was issued under the row's own consent.
TokenIsOfGrant == row.access # NoToken => tokens[row.access] = gens[row.grant].consent

\* "Serialize OAuth refreshes": one operation at most is between its reread of the
\* credentials and the provider's answer, however long others keep the row: the lock is
\* outlasted only by the wait for the row, which comes after.
OneAsksProvider ==
    Cardinality({p \in Ops : op[p].pc \in {"reread", "refreshing"}}) <= 1

\* If no transaction keeps the row for longer than the lock lasts (~SlowRow): one operation
\* at most is between its reread of the credentials and the commit of the new ones.
RefreshesSerialized ==
    Cardinality({p \in Ops : op[p].pc \in {"reread", "refreshing", "publishing"}}) <= 1

\* Waiting for the lock is not in vain: the one who asks the provider does it
\* only when the token it would have found is lapsed or rejected.
NoNeedlessRefresh ==
    \A p \in Ops : op[p].pc = "refreshing" /\ op[p].grant = row.grant =>
        row.access \in lapsed \cup {NoToken, op[p].rejected}

\* A paused account stays paused until the user acts.
KeepsPause == row.status = "disconnected" /\ acts' = acts => row'.status = "disconnected"
PauseHolds == [][KeepsPause]_vars

\* No operation waits forever, though one may hold Redis's lock and wait for the
\* row while another holds the row and waits for Redis's lock.
OperationsEnd == \A p \in Ops : op[p].pc # "idle" ~> op[p].pc = "idle"

\* The refresh lock of an operation that died is freed.
DeadLockFreed == lock = Dead ~> lock # Dead
=============================================================================
