------------------------------ MODULE GmailSync ------------------------------
(***************************************************************************)
(* GmailSyncService: how one Gmail account's mailbox is copied into        *)
(* PostgreSQL (modules/mail/sync.py, repository.py, auth_state.py).        *)
(*                                                                         *)
(* Gmail is external: a mailbox, and a history log of which only the       *)
(* records from `floor` on are still served.  The worker reads both        *)
(* through paginated calls while they change.  Its writes live in one      *)
(* database transaction (`tx`) that becomes durable (`db`) only at a       *)
(* commit: after every listing page, when an access token is refreshed in  *)
(* the middle of a call, and when the run ends, well or badly.             *)
(*                                                                         *)
(* A version is the historyId of a message's last change.  What a message  *)
(* contains, and the order in which it is downloaded, is abstracted away.  *)
(***************************************************************************)
EXTENDS Integers, Sequences

CONSTANTS
    Msg,         \* provider message ids
    MaxHistory,  \* bound: how many mailbox changes Gmail records
    MaxGrant     \* bound: how many times the user reconnects

ASSUME BoundsAssumption == MaxHistory \in Nat /\ MaxGrant \in Nat

VARIABLES
    mailbox,  \* Gmail: version of every message, None when it is not there
    log,      \* Gmail: the message changed by each history record
    floor,    \* Gmail: the oldest startHistoryId it still accepts
    account,  \* mail_accounts row: status, grant generation, history_cursor
    db,       \* committed rows: message copies and the gmail:initial checkpoint
    tx,       \* the same rows as the worker's open transaction sees them
    run       \* the worker's control state

vars == <<mailbox, log, floor, account, db, tx, run>>
gmailVars == <<mailbox, log, floor>>

None == -1
Version == Nat \cup {None}

\* The statuses an operation that is not the user's may write over.
Usable == {"connected", "syncing", "error"}
Status == Usable \cup {"reauth_required", "disconnected"}

CallingGmail == {"attempt", "list", "page", "absent", "history", "changes"}
IdleRun == [pc |-> "idle", full |-> FALSE, attempt |-> 0, grant |-> 0,
            locked |-> FALSE, existing |-> {}, seen |-> {}, todo |-> {},
            began |-> 0, last |-> FALSE, pos |-> 0]

TypeOK ==
    /\ mailbox \in [Msg -> Version]
    /\ log \in Seq(Msg)
    /\ floor \in Nat
    /\ account \in [status: Status, grant: Nat, cursor: Version]
    /\ db \in [stored: [Msg -> Version], baseline: Version, refresh: BOOLEAN]
    /\ tx \in [stored: [Msg -> Version], baseline: Version, refresh: BOOLEAN]
    /\ run \in [pc: {"idle", "finish"} \cup CallingGmail, full: BOOLEAN,
                attempt: {0, 1}, grant: Nat, locked: BOOLEAN,
                existing: SUBSET Msg, seen: SUBSET Msg, todo: SUBSET Msg,
                began: Nat, last: BOOLEAN, pos: Version]

Init ==
    /\ mailbox \in [Msg -> {None, 0}]
    /\ log = <<>>
    /\ floor = 0
    /\ account = [status |-> "connected", grant |-> 0, cursor |-> None]
    /\ db = [stored |-> [m \in Msg |-> None], baseline |-> None, refresh |-> FALSE]
    /\ tx = db
    /\ run = IdleRun

-----------------------------------------------------------------------------
(* Gmail *)

HistoryId == Len(log)
Present == {m \in Msg : mailbox[m] # None}
RecordAfter(m, c) == \E i \in 1..Len(log) : i > c /\ log[i] = m

Record(m, version) ==
    /\ HistoryId < MaxHistory
    /\ log' = Append(log, m)
    /\ mailbox' = [mailbox EXCEPT ![m] = version]
    /\ UNCHANGED <<floor, account, db, tx, run>>

\* Gmail never reuses a message id.
Arrive(m) == m \notin Present /\ ~RecordAfter(m, 0) /\ Record(m, HistoryId + 1)
Relabel(m) == m \in Present /\ Record(m, HistoryId + 1)
Remove(m) == m \in Present /\ Record(m, None)

\* History is kept for a limited time; a startHistoryId before it answers 404.
ForgetHistory ==
    /\ \E f \in 1..HistoryId : f > floor /\ floor' = f
    /\ UNCHANGED <<mailbox, log, account, db, tx, run>>

Gmail == ForgetHistory \/ \E m \in Msg : Arrive(m) \/ Relabel(m) \/ Remove(m)

-----------------------------------------------------------------------------
(* The user. The conditional UPDATE at the start of a run holds the lock of *)
(* the account's row until the run first commits.                           *)

SetAccount(status, grant) ==
    /\ ~run.locked
    /\ account' = [account EXCEPT !.status = status, !.grant = grant]
    /\ UNCHANGED <<gmailVars, db, tx, run>>

Reconnect == account.grant < MaxGrant /\ SetAccount("connected", account.grant + 1)
Pause == SetAccount("disconnected", account.grant)
Resume == SetAccount("connected", account.grant)

User == Reconnect \/ Pause \/ Resume

-----------------------------------------------------------------------------
(* The worker *)

\* Mutants of Applies: the UPDATE forgets the status, or the grant.
AppliesWhenPaused(status) == run.grant = account.grant
AppliesToAnyGrant(status) ==
    \/ account.status \in Usable
    \/ status = "reauth_required" /\ account.status = "reauth_required"

\* update_account_if_current: does the conditional UPDATE find its row?
Applies(status) ==
    /\ run.grant = account.grant
    /\ \/ account.status \in Usable
       \/ status = "reauth_required" /\ account.status = "reauth_required"

\* What the account's row holds once the open transaction commits.
CommittedAccount ==
    IF run.locked THEN [account EXCEPT !.status = "syncing"] ELSE account

\* Mutant of Start: an account left in SYNCING by a crash is not taken up again.
StartUnlessSyncing ==
    /\ run.pc = "idle"
    /\ account.status \in Usable \ {"syncing"}
    /\ run' = [IdleRun EXCEPT !.pc = IF account.cursor = None THEN "attempt" ELSE "history",
                              !.full = account.cursor = None,
                              !.grant = account.grant, !.locked = TRUE,
                              !.pos = account.cursor]
    /\ UNCHANGED <<gmailVars, account, db, tx>>

Start ==
    /\ run.pc = "idle"
    /\ account.status \in Usable
    /\ run' = [IdleRun EXCEPT !.pc = IF account.cursor = None THEN "attempt" ELSE "history",
                              !.full = account.cursor = None,
                              !.grant = account.grant, !.locked = TRUE,
                              !.pos = account.cursor]
    /\ UNCHANGED <<gmailVars, account, db, tx>>

Existing == {m \in Msg : tx.stored[m] # None}

\* Mutant of BeginAttempt: a retry moves the baseline to the present.
BeginAttemptAfresh ==
    /\ run.pc = "attempt"
    /\ tx' = [tx EXCEPT !.baseline = HistoryId,
                        !.refresh = IF tx.baseline # None THEN @ ELSE Existing # {}]
    /\ run' = [run EXCEPT !.pc = "list", !.existing = Existing, !.seen = {},
                          !.todo = {}, !.began = HistoryId]
    /\ UNCHANGED <<gmailVars, account, db>>

BeginAttempt ==
    /\ run.pc = "attempt"
    /\ tx' = IF tx.baseline # None THEN tx
             ELSE [tx EXCEPT !.baseline = HistoryId, !.refresh = Existing # {}]
    /\ run' = [run EXCEPT !.pc = "list", !.existing = Existing, !.seen = {},
                          !.todo = {}, !.began = HistoryId]
    /\ UNCHANGED <<gmailVars, account, db>>

\* One page of a listing that changes under the reader: only a message that
\* stays as it was since the listing began is sure to be on some page.
ListPage ==
    /\ run.pc = "list"
    /\ \E page \in SUBSET Present, last \in BOOLEAN :
        /\ IF last
           THEN {m \in Present : mailbox[m] <= run.began} \subseteq run.seen \cup page
           ELSE ~(page \subseteq run.seen)
        /\ run' = [run EXCEPT !.pc = "page", !.seen = @ \cup page, !.last = last,
                              !.todo = IF tx.refresh THEN page ELSE page \ run.existing]
    /\ UNCHANGED <<gmailVars, account, db, tx>>

\* _refresh_message: a 404 marks the row deleted, anything else is upserted.
RefreshMessage(m) ==
    /\ run.pc \in {"page", "absent", "changes"}
    /\ m \in run.todo
    /\ tx' = [tx EXCEPT !.stored[m] = mailbox[m]]
    /\ run' = [run EXCEPT !.todo = @ \ {m}]
    /\ UNCHANGED <<gmailVars, account, db>>

\* Mutant of CheckpointPage: what no page listed is taken for deleted.
CheckpointPageDeletingAbsent ==
    /\ run.pc = "page" /\ run.todo = {}
    /\ tx' = IF run.last
             THEN [tx EXCEPT !.stored = [m \in Msg |->
                       IF m \in run.existing \ run.seen THEN None ELSE tx.stored[m]]]
             ELSE tx
    /\ db' = tx'
    /\ account' = CommittedAccount
    /\ run' = [run EXCEPT !.locked = FALSE, !.todo = {},
                          !.pc = IF run.last THEN "absent" ELSE "list"]
    /\ UNCHANGED gmailVars

\* The page's rows and the import's baseline become durable together.
CheckpointPage ==
    /\ run.pc = "page" /\ run.todo = {}
    /\ db' = tx
    /\ account' = CommittedAccount
    /\ run' = [run EXCEPT !.locked = FALSE,
                          !.pc = IF run.last THEN "absent" ELSE "list",
                          !.todo = IF run.last THEN run.existing \ run.seen ELSE {}]
    /\ UNCHANGED <<gmailVars, tx>>

\* Mutant of BeginReplay: the import replays only what comes after it.
BeginReplayFromNow ==
    /\ run.pc = "absent" /\ run.todo = {}
    /\ run' = [run EXCEPT !.pc = "history", !.pos = HistoryId]
    /\ UNCHANGED <<gmailVars, account, db, tx>>

BeginReplay ==
    /\ run.pc = "absent" /\ run.todo = {}
    /\ run' = [run EXCEPT !.pc = "history", !.pos = tx.baseline]
    /\ UNCHANGED <<gmailVars, account, db, tx>>

StartHistoryId == IF run.full THEN tx.baseline ELSE account.cursor

HistoryPage ==
    /\ run.pc = "history"
    /\ StartHistoryId >= floor
    /\ \E upto \in 0..HistoryId :
        /\ upto > run.pos \/ (upto = run.pos /\ upto = HistoryId)
        /\ run' = [run EXCEPT !.pc = "changes", !.pos = upto,
                              !.last = upto = HistoryId,
                              !.todo = {log[i] : i \in {j \in 1..upto : j > run.pos}}]
    /\ UNCHANGED <<gmailVars, account, db, tx>>

EndHistoryPage ==
    /\ run.pc = "changes" /\ run.todo = {}
    /\ run' = [run EXCEPT !.pc = IF run.last THEN "finish" ELSE "history"]
    /\ UNCHANGED <<gmailVars, account, db, tx>>

\* Mutant of HistoryExpired: the import is restarted without end.
HistoryExpiredUnbounded ==
    /\ run.pc = "history"
    /\ StartHistoryId < floor
    /\ tx' = IF run.full THEN [tx EXCEPT !.baseline = None] ELSE tx
    /\ run' = [run EXCEPT !.pc = "attempt", !.full = TRUE,
                          !.attempt = IF run.full THEN @ + 1 ELSE 0]
    /\ UNCHANGED <<gmailVars, account, db>>

\* An expired cursor turns an incremental run into a full one; an expired
\* import baseline is thrown away and the import tried once more.
HistoryExpired ==
    /\ run.pc = "history"
    /\ StartHistoryId < floor
    /\ run.full => run.attempt = 0
    /\ tx' = IF run.full THEN [tx EXCEPT !.baseline = None] ELSE tx
    /\ run' = [run EXCEPT !.pc = "attempt", !.full = TRUE,
                          !.attempt = IF run.full THEN 1 ELSE 0]
    /\ UNCHANGED <<gmailVars, account, db>>

\* A run that ends commits what it holds, and writes the account only if its
\* grant is still the account's and the user has not paused it.
EndRun(data, status, cursor) ==
    /\ db' = data
    /\ tx' = data
    /\ account' = IF Applies(status)
                  THEN [account EXCEPT !.status = status, !.cursor = cursor]
                  ELSE CommittedAccount
    /\ run' = IdleRun
    /\ UNCHANGED gmailVars

Finish ==
    /\ run.pc = "finish"
    /\ EndRun(IF run.full THEN [tx EXCEPT !.baseline = None] ELSE tx, "connected", run.pos)

BaselineExpiredAgain ==
    /\ run.pc = "history"
    /\ run.full /\ run.attempt = 1
    /\ StartHistoryId < floor
    /\ EndRun([tx EXCEPT !.baseline = None], "error", account.cursor)

\* Mutant of Fail: the last history page read is saved as the new cursor.
FailSavingPage ==
    /\ run.pc \in CallingGmail
    /\ \E status \in {"error", "reauth_required"} :
        EndRun(tx, status, IF run.pc \in {"history", "changes"} THEN run.pos ELSE account.cursor)

\* A provider call fails: transient answer, network error, invalid_grant.
Fail ==
    /\ run.pc \in CallingGmail
    /\ \E status \in {"error", "reauth_required"} : EndRun(tx, status, account.cursor)

\* A 401 in the middle of a run: the token manager rereads the credentials,
\* and when it has to refresh them it commits the session.
RereadGrant ==
    /\ run.pc \in CallingGmail
    /\ account.status \in Usable
    /\ run' = [run EXCEPT !.grant = account.grant]
    /\ UNCHANGED <<gmailVars, account, db, tx>>

RefreshToken ==
    /\ run.pc \in CallingGmail
    /\ account.status \in Usable
    /\ db' = tx
    /\ account' = CommittedAccount
    /\ run' = [run EXCEPT !.grant = account.grant, !.locked = FALSE]
    /\ UNCHANGED <<gmailVars, tx>>

\* The process dies: PostgreSQL rolls the open transaction back.
Crash ==
    /\ run.pc # "idle"
    /\ tx' = db
    /\ run' = IdleRun
    /\ UNCHANGED <<gmailVars, account, db>>

Worker ==
    \/ Start \/ BeginAttempt \/ ListPage \/ CheckpointPage \/ BeginReplay
    \/ HistoryPage \/ EndHistoryPage \/ HistoryExpired \/ BaselineExpiredAgain
    \/ Finish
    \/ \E m \in Msg : RefreshMessage(m)

Next == Gmail \/ User \/ Worker \/ Fail \/ Crash \/ RereadGrant \/ RefreshToken

Spec == Init /\ [][Next]_vars

\* The scheduler redelivers an idle account and the worker never blocks
\* forever: every provider call has a timeout.
FairSpec == Spec /\ WF_vars(Worker)

-----------------------------------------------------------------------------
(* What the synchronization promises *)

\* A copy that differs from Gmail is owed to a record the cursor still covers:
\* replaying history from the committed cursor reaches every message whose
\* copy is stale, missing or should be deleted, so no change is ever lost.
Covers(stored, c) == \A m \in Msg : stored[m] # mailbox[m] => RecordAfter(m, c)
NoLostChange == account.cursor # None => Covers(db.stored, account.cursor)

\* An import in progress that may skip the messages it already has: each of
\* them is up to date or has a record after the baseline that will be replayed,
\* whatever crashes, retries and commits lie between the attempts.
SkippedCovered(data) ==
    data.baseline # None /\ ~data.refresh =>
        \A m \in Msg : data.stored[m] \notin {None, mailbox[m]} => RecordAfter(m, data.baseline)
NoSkippedChange == SkippedCovered(db)

\* A row is marked deleted only when Gmail no longer has the message: absence
\* from a listing that changed under the reader proves nothing.
DeletedOnlyWhenGone ==
    [][\A m \in Msg : db.stored[m] # None /\ db'.stored[m] = None => mailbox[m] = None]_vars

\* A run never takes an account out of the paused or revoked state; only the
\* user does, however late the run that was overtaken ends.
OnlyUserRevives ==
    [][account.status \notin Usable /\ account'.status \in Usable => User]_vars

\* A run overtaken by a new grant writes nothing on the account: neither its
\* late error nor its late success replaces what the user just set up.
OvertakenRunWritesNothing ==
    [][run.pc # "idle" /\ run.grant # account.grant /\ ~User => account' = account]_vars

\* The copy implements MailMirror: it never moves back to an older version of
\* a message, though imports skip, reconcile and replay, and crash in between.
Mirror == INSTANCE MailMirror
          WITH Absent <- None, copy <- db.stored, clock <- HistoryId
ImplementsMirror == Mirror!Spec

\* When faults stop and the account stays usable, the copy catches up with
\* the mailbox.
Mirrored == db.stored = mailbox
FaultsStop == <>[][~(Fail \/ Crash)]_vars
EventuallyMirrored ==
    FaultsStop /\ <>[](account.status \in Usable) => <>[]Mirrored

-----------------------------------------------------------------------------
(* The inductive invariant: why nothing is lost *)

\* A version is the number of a record of that message.
VersionsAreRecorded ==
    \A m \in Msg : mailbox[m] > 0 => mailbox[m] <= HistoryId /\ log[mailbox[m]] = m

CheckpointsArePast ==
    account.cursor <= HistoryId /\ db.baseline <= HistoryId /\ tx.baseline <= HistoryId

\* What the open transaction holds may be committed at any moment.
CommittableAnytime ==
    /\ SkippedCovered(tx)
    /\ account.cursor # None => Covers(tx.stored, account.cursor)

\* A copy exists only of a message that is, or once was, in the mailbox.
CopiesWereReal(data) ==
    \A m \in Msg : data.stored[m] # None => m \in Present \/ RecordAfter(m, 0)
UncommittedDeletionsAreReal ==
    \A m \in Msg : db.stored[m] # None /\ tx.stored[m] = None => mailbox[m] = None

\* m needs no more work from a run that will replay the history after c.
Settled(m, c) == tx.stored[m] = mailbox[m] \/ RecordAfter(m, c)

ImportInv ==
    run.pc \in {"list", "page", "absent"} =>
        tx.baseline # None /\ tx.baseline <= run.began /\ run.began <= HistoryId

ListingInv ==
    run.pc \in {"list", "page"} =>
        /\ run.pc = "list" => run.todo = {}
        /\ run.todo \subseteq run.seen
        /\ \A m \in run.seen \ run.todo : Settled(m, tx.baseline)
        /\ \A m \in Msg \ run.existing : tx.stored[m] # None => Settled(m, tx.baseline)
        /\ ~tx.refresh => \A m \in run.existing : Settled(m, tx.baseline)

CompleteListingInv ==
    run.pc = "page" /\ run.last =>
        \A m \in Present : mailbox[m] <= run.began => m \in run.seen

ReconcileInv ==
    run.pc = "absent" => \A m \in Msg \ run.todo : Settled(m, tx.baseline)

ReplayInv ==
    run.pc \in {"history", "changes", "finish"} =>
        /\ run.pos # None /\ run.pos <= HistoryId
        /\ run.pc # "changes" => run.todo = {}
        /\ \A m \in Msg \ run.todo : Settled(m, run.pos)

IInv ==
    /\ TypeOK /\ VersionsAreRecorded /\ CheckpointsArePast
    /\ NoLostChange /\ NoSkippedChange /\ CommittableAnytime
    /\ CopiesWereReal(db) /\ CopiesWereReal(tx) /\ UncommittedDeletionsAreReal
    /\ ImportInv /\ ListingInv /\ CompleteListingInv /\ ReconcileInv /\ ReplayInv

\* While a run's first writes are uncommitted, its hold on the account's row
\* keeps the grant it started with.
RowLockInv == run.locked => run.grant = account.grant /\ account.status \in Usable
=============================================================================
