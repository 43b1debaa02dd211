--------------------------- MODULE GmailSyncProofs ---------------------------
(***************************************************************************)
(* Proofs about GmailSync, for every set of messages and every bound.      *)
(***************************************************************************)
EXTENDS GmailSync, TLAPS

\* What a commit leaves in the account's row is well typed.
LEMMA CommitTypes ==
    TypeOK => CommittedAccount \in [status: Status, grant: Nat, cursor: Version]
BY DEF TypeOK, CommittedAccount, Status, Usable

\* So is the control state of a worker that is not running.
LEMMA IdleRunType ==
    IdleRun \in [pc: {"idle", "finish"} \cup CallingGmail, full: BOOLEAN,
                 attempt: {0, 1}, grant: Nat, locked: BOOLEAN,
                 existing: SUBSET Msg, seen: SUBSET Msg, todo: SUBSET Msg,
                 began: Nat, last: BOOLEAN, pos: Version]
BY DEF IdleRun, Version

\* Every step keeps the state well typed.
LEMMA TypeInductive == TypeOK /\ [Next]_vars => TypeOK'
  <2> SUFFICES ASSUME TypeOK, [Next]_vars PROVE TypeOK'
    OBVIOUS
  <2> USE DEF TypeOK, Version, None
  <2>1. CASE Gmail
    <3>1. CASE ForgetHistory
      BY <3>1 DEF ForgetHistory, HistoryId
    <3>2. ASSUME NEW m \in Msg, Arrive(m) \/ Relabel(m) \/ Remove(m) PROVE TypeOK'
      <4>1. HistoryId + 1 \in Version /\ None \in Version
        BY DEF HistoryId
      <4>2. PICK version \in Version : Record(m, version)
        BY <3>2, <4>1 DEF Arrive, Relabel, Remove
      <4>3. QED
        BY <4>2 DEF Record
    <3>3. QED
      BY <2>1, <3>1, <3>2 DEF Gmail
  <2>2. CASE User
    <3>1. PICK status \in Status, grant \in Nat : SetAccount(status, grant)
      BY <2>2 DEF User, Reconnect, Pause, Resume, Status, Usable
    <3>2. account' = [account EXCEPT !.status = status, !.grant = grant]
      BY <3>1 DEF SetAccount
    <3>3. account' \in [status: Status, grant: Nat, cursor: Version]
      BY <3>2
    <3>4. UNCHANGED <<mailbox, log, floor, db, tx, run>>
      BY <3>1 DEF SetAccount, gmailVars
    <3>5. QED
      BY <3>3, <3>4
  <2>3. CASE Start
    <3>1. UNCHANGED <<mailbox, log, floor, account, db, tx>>
      BY <2>3 DEF Start, gmailVars
    <3>2. account.cursor \in Version /\ account.grant \in Nat
      OBVIOUS
    <3>3. run' = [pc |-> IF account.cursor = None THEN "attempt" ELSE "history",
                  full |-> account.cursor = None, attempt |-> 0, grant |-> account.grant,
                  locked |-> TRUE, existing |-> {}, seen |-> {}, todo |-> {},
                  began |-> 0, last |-> FALSE, pos |-> account.cursor]
      BY <2>3 DEF Start, IdleRun
    <3>4. run' \in [pc: {"idle", "finish"} \cup CallingGmail, full: BOOLEAN,
                    attempt: {0, 1}, grant: Nat, locked: BOOLEAN,
                    existing: SUBSET Msg, seen: SUBSET Msg, todo: SUBSET Msg,
                    began: Nat, last: BOOLEAN, pos: Version]
      BY <3>2, <3>3 DEF CallingGmail
    <3>5. QED
      BY <3>1, <3>4
  <2>4. CASE BeginAttempt
    <3>1. HistoryId \in Nat /\ Existing \in SUBSET Msg /\ (Existing # {}) \in BOOLEAN
      BY DEF HistoryId, Existing
    <3>2. tx' \in [stored: [Msg -> Version], baseline: Version, refresh: BOOLEAN]
      BY <2>4, <3>1 DEF BeginAttempt
    <3>3. QED
      BY <2>4, <3>1, <3>2 DEF BeginAttempt, CallingGmail, gmailVars
  <2>5. CASE ListPage
    <3>1. PICK page \in SUBSET Present, last \in BOOLEAN :
             run' = [run EXCEPT !.pc = "page", !.seen = @ \cup page, !.last = last,
                              !.todo = IF tx.refresh THEN page ELSE page \ run.existing]
      BY <2>5 DEF ListPage
    <3>2. page \in SUBSET Msg
      BY DEF Present
    <3>3. QED
      BY <2>5, <3>1, <3>2 DEF ListPage, CallingGmail, gmailVars
  <2>6. CASE CheckpointPage
    BY <2>6, CommitTypes DEF CheckpointPage, CallingGmail, gmailVars
  <2>7. CASE BeginReplay
    BY <2>7 DEF BeginReplay, CallingGmail, gmailVars
  <2>8. CASE HistoryPage
    <3>1. PICK upto \in 0..HistoryId :
             run' = [run EXCEPT !.pc = "changes", !.pos = upto,
                              !.last = upto = HistoryId,
                              !.todo = {log[i] : i \in {j \in 1..upto : j > run.pos}}]
      BY <2>8 DEF HistoryPage
    <3>2. {log[i] : i \in {j \in 1..upto : j > run.pos}} \subseteq Msg
      BY DEF HistoryId
    <3>3. upto \in Nat
      BY DEF HistoryId
    <3>4. QED
      BY <2>8, <3>1, <3>2, <3>3 DEF HistoryPage, CallingGmail, gmailVars
  <2>9. CASE EndHistoryPage
    BY <2>9 DEF EndHistoryPage, CallingGmail, gmailVars
  <2>10. CASE HistoryExpired
    BY <2>10 DEF HistoryExpired, CallingGmail, gmailVars
  <2>11. CASE BaselineExpiredAgain \/ Finish \/ Fail
    <3>1. PICK data \in [stored: [Msg -> Version], baseline: Version, refresh: BOOLEAN],
               status \in Status, cursor \in Version : EndRun(data, status, cursor)
      BY <2>11 DEF BaselineExpiredAgain, Finish, Fail, Status, Usable
    <3>2. account' \in [status: Status, grant: Nat, cursor: Version]
      <4>1. CASE account' = [account EXCEPT !.status = status, !.cursor = cursor]
        BY <4>1
      <4>2. CASE account' = CommittedAccount
        BY <4>2, CommitTypes
      <4>3. QED
        BY <3>1, <4>1, <4>2 DEF EndRun
    <3>3. db' = data /\ tx' = data /\ run' = IdleRun /\ UNCHANGED <<mailbox, log, floor>>
      BY <3>1 DEF EndRun, gmailVars
    <3>4. QED
      BY <3>2, <3>3, IdleRunType
  <2>12. ASSUME NEW m \in Msg, RefreshMessage(m) PROVE TypeOK'
    BY <2>12 DEF RefreshMessage, gmailVars
  <2>13. CASE Crash \/ RereadGrant \/ RefreshToken
    BY <2>13, CommitTypes, IdleRunType DEF Crash, RereadGrant, RefreshToken, gmailVars
  <2>14. CASE UNCHANGED vars
    BY <2>14 DEF vars
  <2>15. QED
    BY <2>1, <2>2, <2>3, <2>4, <2>5, <2>6, <2>7, <2>8, <2>9, <2>10, <2>11, <2>12,
       <2>13, <2>14 DEF Next, Worker

\* Every state of the synchronization is well typed.
THEOREM TypeCorrect == Spec => []TypeOK
<1>1. Init => TypeOK
  BY DEF Init, TypeOK, Version, None, IdleRun, Status, Usable
<1>2. QED
  BY <1>1, TypeInductive, PTL DEF Spec

-----------------------------------------------------------------------------
(* The inductive invariant, one lemma per kind of step. *)

\* A new history record is after every earlier checkpoint, and hides none of
\* the records already there.
LEMMA NewRecord ==
    ASSUME TypeOK, NEW m \in Msg, NEW version \in Version, Record(m, version)
    PROVE  /\ HistoryId \in Nat /\ HistoryId' = HistoryId + 1
           /\ \A k \in Msg, c \in Version : RecordAfter(k, c) => RecordAfter(k, c)'
           /\ \A c \in Version : c <= HistoryId => RecordAfter(m, c)'
           /\ \A i \in 1..HistoryId : log'[i] = log[i]
           /\ log'[HistoryId + 1] = m
           /\ \A k \in Msg : mailbox'[k] = IF k = m THEN version ELSE mailbox[k]
<1> USE DEF TypeOK, Version, None
<1>1. log' = Append(log, m) /\ Len(log') = Len(log) + 1 /\ Len(log) \in Nat
  BY DEF Record
<1>2. \A i \in 1..Len(log) : log'[i] = log[i]
  BY <1>1
<1>3. log'[Len(log) + 1] = m
  BY <1>1
<1>4. ASSUME NEW k \in Msg, NEW c \in Version, RecordAfter(k, c) PROVE RecordAfter(k, c)'
  <2>1. PICK i \in 1..Len(log) : i > c /\ log[i] = k
    BY <1>4 DEF RecordAfter
  <2>2. i \in 1..Len(log') /\ log'[i] = k
    BY <1>1, <1>2, <2>1
  <2>3. QED
    BY <2>1, <2>2 DEF RecordAfter
<1>5. ASSUME NEW c \in Version, c <= HistoryId PROVE RecordAfter(m, c)'
  <2>1. Len(log) + 1 \in 1..Len(log') /\ Len(log) + 1 > c
    BY <1>1, <1>5 DEF HistoryId
  <2>2. QED
    BY <2>1, <1>3 DEF RecordAfter
<1>6. \A k \in Msg : mailbox'[k] = IF k = m THEN version ELSE mailbox[k]
  BY DEF Record
<1>7. QED
  BY <1>1, <1>2, <1>3, <1>4, <1>5, <1>6 DEF HistoryId

\* Changes of the mailbox keep the invariant: they are all recorded.
LEMMA GmailKeeps == IInv /\ TypeOK' /\ Gmail => IInv'
<1> SUFFICES ASSUME IInv, TypeOK', Gmail PROVE IInv'
  OBVIOUS
<1> USE DEF IInv
<1>1. CASE ForgetHistory
  BY <1>1 DEF ForgetHistory, VersionsAreRecorded, CheckpointsArePast, NoLostChange,
     NoSkippedChange, CommittableAnytime, CopiesWereReal, UncommittedDeletionsAreReal,
     ImportInv, ListingInv, CompleteListingInv, ReconcileInv, ReplayInv, HistoryId,
     Covers, SkippedCovered, Settled, Present, RecordAfter
<1>2. ASSUME NEW m \in Msg, Arrive(m) \/ Relabel(m) \/ Remove(m) PROVE IInv'
  <2>1. PICK version \in {HistoryId + 1, None} : Record(m, version)
    BY <1>2 DEF Arrive, Relabel, Remove
  <2>2. HistoryId \in Nat /\ version \in Version
    BY DEF HistoryId, TypeOK, Version
  <2>3. UNCHANGED <<floor, account, db, tx, run>>
    BY <2>1 DEF Record
  <2>4. /\ HistoryId' = HistoryId + 1
        /\ \A k \in Msg, c \in Version : RecordAfter(k, c) => RecordAfter(k, c)'
        /\ \A c \in Version : c <= HistoryId => RecordAfter(m, c)'
        /\ \A i \in 1..HistoryId : log'[i] = log[i]
        /\ log'[HistoryId + 1] = m
        /\ \A k \in Msg : mailbox'[k] = IF k = m THEN version ELSE mailbox[k]
    BY <2>1, <2>2, NewRecord
  <2>5. /\ account.cursor \in Version /\ db.baseline \in Version /\ tx.baseline \in Version
        /\ run.pos \in Version /\ run.began \in Nat
        /\ \A k \in Msg : mailbox[k] \in Version
        /\ 0 \in Version
    BY DEF TypeOK, Version
  <2>6. CheckpointsArePast'
    BY <2>2, <2>3, <2>4, <2>5 DEF CheckpointsArePast, Version, None
  <2>7. VersionsAreRecorded'
    BY <2>1, <2>2, <2>4, <2>5 DEF VersionsAreRecorded, Version, None
  <2>8. \A k \in Msg, c \in Version : c <= HistoryId /\ Settled(k, c) => Settled(k, c)'
    BY <2>3, <2>4 DEF Settled
  <2>9. NoLostChange' /\ NoSkippedChange' /\ CommittableAnytime'
    BY <2>3, <2>4, <2>5 DEF NoLostChange, NoSkippedChange, CommittableAnytime, Covers,
       SkippedCovered, CheckpointsArePast
  <2>10. CopiesWereReal(db)' /\ CopiesWereReal(tx)'
    BY <2>2, <2>3, <2>4, <2>5 DEF CopiesWereReal, Present
  <2>11. UncommittedDeletionsAreReal'
    <3>1. ASSUME NEW k \in Msg, db.stored[k] # None, tx.stored[k] = None
          PROVE  mailbox'[k] = None
      <4>1. mailbox[k] = None
        BY <3>1 DEF UncommittedDeletionsAreReal
      <4>2. k \notin Present /\ RecordAfter(k, 0)
        BY <3>1, <4>1 DEF CopiesWereReal, Present
      <4>3. k # m
        BY <1>2, <4>2 DEF Arrive, Relabel, Remove
      <4>4. QED
        BY <4>1, <4>3, <2>4
    <3>2. QED
      BY <3>1, <2>3 DEF UncommittedDeletionsAreReal
  <2>12. ImportInv'
    BY <2>2, <2>3, <2>4, <2>5 DEF ImportInv
  <2>13. ListingInv'
    BY <2>3, <2>5, <2>8 DEF ListingInv, CheckpointsArePast, TypeOK
  <2>14. CompleteListingInv'
    <3>1. ASSUME run.pc = "page", run.last, NEW k \in Msg,
                 mailbox'[k] # None, mailbox'[k] <= run.began
          PROVE  k \in run.seen
      <4>1. run.began <= HistoryId
        BY <3>1 DEF ImportInv
      <4>2. k # m
        BY <4>1, <3>1, <2>1, <2>2, <2>4, <2>5
      <4>3. QED
        BY <4>2, <3>1, <2>4 DEF CompleteListingInv, Present
    <3>2. QED
      BY <3>1, <2>3 DEF CompleteListingInv, Present
  <2>15. ReconcileInv'
    BY <2>3, <2>5, <2>8 DEF ReconcileInv, CheckpointsArePast
  <2>16. ReplayInv'
    <3>1. SUFFICES ASSUME run.pc \in {"history", "changes", "finish"}
                   PROVE  /\ run.pos # None /\ run.pos <= HistoryId'
                          /\ run.pc # "changes" => run.todo = {}
                          /\ \A k \in Msg \ run.todo : Settled(k, run.pos)'
      BY <2>3 DEF ReplayInv
    <3>2. /\ run.pos # None /\ run.pos <= HistoryId
          /\ run.pc # "changes" => run.todo = {}
          /\ \A k \in Msg \ run.todo : Settled(k, run.pos)
      BY <3>1 DEF ReplayInv
    <3>3. run.pos <= HistoryId'
      BY <3>2, <2>2, <2>4, <2>5 DEF Version, None
    <3>4. \A k \in Msg \ run.todo : Settled(k, run.pos)'
      BY <3>2, <2>3, <2>5, <2>8
    <3>5. QED
      BY <3>2, <3>3, <3>4
  <2>17. QED
    BY <2>6, <2>7, <2>9, <2>10, <2>11, <2>12, <2>13, <2>14, <2>15, <2>16
<1>3. QED
  BY <1>1, <1>2 DEF Gmail

\* Whatever else happens to the user's account, the mail already copied and
\* the worker's position stay as they are.
LEMMA UserKeeps == IInv /\ TypeOK' /\ (User \/ RereadGrant \/ UNCHANGED vars) => IInv'
<1> SUFFICES ASSUME IInv, TypeOK', User \/ RereadGrant \/ UNCHANGED vars PROVE IInv'
  OBVIOUS
<1>1. /\ UNCHANGED <<mailbox, log, db, tx>>
      /\ account'.cursor = account.cursor
      /\ run'.pc = run.pc /\ run'.existing = run.existing /\ run'.seen = run.seen
      /\ run'.todo = run.todo /\ run'.began = run.began /\ run'.last = run.last
      /\ run'.pos = run.pos
  BY DEF IInv, TypeOK, User, Reconnect, Pause, Resume, SetAccount, RereadGrant, vars, gmailVars
<1>2. QED
  BY <1>1 DEF IInv, VersionsAreRecorded, CheckpointsArePast, NoLostChange,
     NoSkippedChange, CommittableAnytime, CopiesWereReal, UncommittedDeletionsAreReal,
     ImportInv, ListingInv, CompleteListingInv, ReconcileInv, ReplayInv, HistoryId,
     Covers, SkippedCovered, Settled, Present, RecordAfter

\* The part of the invariant that holds of the data whatever the worker does.
DataInv ==
    /\ VersionsAreRecorded /\ CheckpointsArePast
    /\ NoLostChange /\ NoSkippedChange /\ CommittableAnytime
    /\ CopiesWereReal(db) /\ CopiesWereReal(tx) /\ UncommittedDeletionsAreReal

\* A step that only moves the worker keeps that part.
LEMMA MovesKeepData ==
    IInv /\ UNCHANGED <<gmailVars, db, tx>> /\ account'.cursor = account.cursor => DataInv'
BY DEF IInv, DataInv, gmailVars, VersionsAreRecorded, CheckpointsArePast, NoLostChange,
   NoSkippedChange, CommittableAnytime, CopiesWereReal, UncommittedDeletionsAreReal,
   HistoryId, Covers, SkippedCovered, Present, RecordAfter

\* Committing what the transaction holds keeps it too.
LEMMA CommitKeepsData ==
    ASSUME IInv, UNCHANGED gmailVars, account'.cursor = account.cursor, tx' = tx, db' = tx
    PROVE  DataInv'
BY DEF IInv, DataInv, gmailVars, VersionsAreRecorded, CheckpointsArePast, NoLostChange,
   NoSkippedChange, CommittableAnytime, CopiesWereReal, UncommittedDeletionsAreReal,
   HistoryId, Covers, SkippedCovered, Present, RecordAfter

\* The worker's control invariants, apart from the data it works on.
ControlInv == ImportInv /\ ListingInv /\ CompleteListingInv /\ ReconcileInv /\ ReplayInv

\* A worker that goes idle has nothing left to keep.
LEMMA IdleKeepsControl == run' = IdleRun => ControlInv'
BY DEF IdleRun, ControlInv, ImportInv, ListingInv, CompleteListingInv, ReconcileInv, ReplayInv

\* A run starts where the committed cursor covers every stale copy.
LEMMA StartKeeps == IInv /\ TypeOK' /\ Start => IInv'
<1> SUFFICES ASSUME IInv, TypeOK', Start PROVE IInv'
  OBVIOUS
<1>1. DataInv'
  BY MovesKeepData DEF Start
<1>2. /\ run'.pc = IF account.cursor = None THEN "attempt" ELSE "history"
      /\ run'.pos = account.cursor /\ run'.todo = {}
  BY DEF Start, IdleRun
<1>3. ReplayInv'
  <2>1. SUFFICES ASSUME account.cursor # None
                 PROVE  /\ account.cursor <= HistoryId'
                        /\ \A m \in Msg : Settled(m, run.pos)'
    BY <1>2 DEF ReplayInv
  <2>2. account.cursor <= HistoryId /\ Covers(tx.stored, account.cursor)
    BY <2>1 DEF IInv, CommittableAnytime, CheckpointsArePast
  <2>3. QED
    <3>1. UNCHANGED <<mailbox, log, tx>>
      BY DEF Start, gmailVars
    <3>2. \A m \in Msg : Settled(m, account.cursor)
      BY <2>2 DEF Covers, Settled
    <3>3. \A m \in Msg : Settled(m, run.pos)'
      BY <1>2, <3>1, <3>2 DEF Settled, RecordAfter
    <3>4. QED
      BY <2>2, <3>1, <3>3 DEF HistoryId
<1>4. ImportInv' /\ ListingInv' /\ CompleteListingInv' /\ ReconcileInv'
  BY <1>2 DEF ImportInv, ListingInv, CompleteListingInv, ReconcileInv
<1>5. QED
  BY <1>1, <1>3, <1>4 DEF IInv, DataInv, ControlInv

\* An import that starts without a baseline, or resumes one, may skip exactly
\* the copies its baseline covers.
LEMMA BeginAttemptKeeps == IInv /\ TypeOK' /\ BeginAttempt => IInv'
<1> SUFFICES ASSUME IInv, TypeOK', BeginAttempt PROVE IInv'
  OBVIOUS
<1>1. /\ UNCHANGED <<gmailVars, account, db>> /\ tx'.stored = tx.stored
      /\ HistoryId \in Nat /\ HistoryId' = HistoryId
      /\ tx.baseline \in Version
  BY DEF BeginAttempt, IInv, TypeOK, HistoryId, gmailVars
<1>2. /\ run'.pc = "list" /\ run'.existing = Existing /\ run'.seen = {} /\ run'.todo = {}
      /\ run'.began = HistoryId
  BY DEF BeginAttempt, IInv, TypeOK
<1>3. /\ tx'.baseline # None /\ tx'.baseline <= HistoryId
      /\ \/ tx' = tx
         \/ tx'.refresh = (Existing # {})
  <2>1. CASE tx.baseline # None
    BY <1>1, <2>1 DEF BeginAttempt, IInv, CheckpointsArePast
  <2>2. CASE tx.baseline = None
    <3>1. tx' = [tx EXCEPT !.baseline = HistoryId, !.refresh = Existing # {}]
      BY <2>2 DEF BeginAttempt
    <3>2. tx'.baseline = HistoryId /\ tx'.refresh = (Existing # {})
      BY <3>1 DEF IInv, TypeOK
    <3>3. QED
      BY <1>1, <3>2 DEF None
  <2>3. QED
    BY <2>1, <2>2
<1>4. SkippedCovered(tx)'
  <2>1. CASE tx' = tx
    BY <1>1, <2>1 DEF IInv, CommittableAnytime, SkippedCovered, RecordAfter, gmailVars
  <2>2. CASE tx'.refresh = (Existing # {})
    BY <1>1, <2>2 DEF SkippedCovered, Existing
  <2>3. QED
    BY <1>3, <2>1, <2>2
<1>5. DataInv'
  BY <1>1, <1>3, <1>4 DEF IInv, DataInv, gmailVars, VersionsAreRecorded, CheckpointsArePast,
     NoLostChange, NoSkippedChange, CommittableAnytime, CopiesWereReal,
     UncommittedDeletionsAreReal, HistoryId, Covers, SkippedCovered, Present, RecordAfter
<1>6. \A m \in Msg \ Existing : tx'.stored[m] = None
  BY <1>1 DEF Existing
<1>7. ~tx'.refresh => \A m \in Existing : Settled(m, tx.baseline)'
  BY <1>1, <1>3, <1>4 DEF SkippedCovered, Settled, Existing
<1>8. ImportInv'
  BY <1>1, <1>2, <1>3 DEF ImportInv
<1>9. ListingInv'
  BY <1>1, <1>2, <1>6, <1>7 DEF ListingInv, Settled
<1>10. CompleteListingInv' /\ ReconcileInv' /\ ReplayInv'
  BY <1>2 DEF CompleteListingInv, ReconcileInv, ReplayInv
<1>11. QED
  BY <1>5, <1>8, <1>9, <1>10 DEF IInv, DataInv, ControlInv

\* A listing page adds work, and its last page names every untouched message.
LEMMA ListPageKeeps == IInv /\ TypeOK' /\ ListPage => IInv'
<1> SUFFICES ASSUME IInv, TypeOK', ListPage PROVE IInv'
  OBVIOUS
<1>1. DataInv'
  BY MovesKeepData DEF ListPage
<1>2. PICK page \in SUBSET Present, last \in BOOLEAN :
        /\ last => {m \in Present : mailbox[m] <= run.began} \subseteq run.seen \cup page
        /\ run' = [run EXCEPT !.pc = "page", !.seen = @ \cup page, !.last = last,
                              !.todo = IF tx.refresh THEN page ELSE page \ run.existing]
  BY DEF ListPage
<1>3. /\ run'.pc = "page" /\ run'.seen = run.seen \cup page /\ run'.last = last
      /\ run'.todo = IF tx.refresh THEN page ELSE page \ run.existing
      /\ run'.existing = run.existing /\ run'.began = run.began
  BY <1>2 DEF IInv, TypeOK
<1>4. /\ run.pc = "list" /\ UNCHANGED <<mailbox, log, tx>>
      /\ \A m \in Msg, c \in Version : Settled(m, c)' <=> Settled(m, c)
  BY DEF ListPage, gmailVars, Settled, RecordAfter
<1>5. /\ run.todo = {}
      /\ \A m \in run.seen : Settled(m, tx.baseline)
      /\ \A m \in Msg \ run.existing : tx.stored[m] # None => Settled(m, tx.baseline)
      /\ ~tx.refresh => \A m \in run.existing : Settled(m, tx.baseline)
  BY <1>4 DEF IInv, ListingInv
<1>6. tx.baseline \in Version /\ page \subseteq Msg
  BY DEF IInv, TypeOK, Present
<1>7. ImportInv'
  BY <1>3, <1>4 DEF IInv, ImportInv, HistoryId
<1>8. ListingInv'
  <2>1. run'.todo \subseteq run'.seen
    BY <1>3
  <2>2. \A m \in run'.seen \ run'.todo : Settled(m, tx.baseline)
    BY <1>3, <1>5, <1>6
  <2>3. QED
    BY <1>3, <1>4, <1>5, <1>6, <2>1, <2>2 DEF ListingInv, Settled, RecordAfter
<1>9. CompleteListingInv'
  BY <1>2, <1>3, <1>4 DEF CompleteListingInv, Present
<1>10. ReconcileInv' /\ ReplayInv'
  BY <1>3 DEF ReconcileInv, ReplayInv
<1>11. QED
  BY <1>1, <1>7, <1>8, <1>9, <1>10 DEF IInv, DataInv, ControlInv

\* Downloading a message settles it, and disturbs no other.
LEMMA RefreshMessageKeeps ==
    ASSUME IInv, TypeOK', NEW m \in Msg, RefreshMessage(m) PROVE IInv'
<1>1. /\ run.pc \in {"page", "absent", "changes"} /\ m \in run.todo
      /\ UNCHANGED <<mailbox, log, account, db>>
      /\ tx'.baseline = tx.baseline /\ tx'.refresh = tx.refresh
      /\ \A k \in Msg : tx'.stored[k] = IF k = m THEN mailbox[m] ELSE tx.stored[k]
  BY DEF RefreshMessage, gmailVars, IInv, TypeOK
<1>2. /\ run'.pc = run.pc /\ run'.existing = run.existing /\ run'.seen = run.seen
      /\ run'.todo = run.todo \ {m} /\ run'.began = run.began /\ run'.last = run.last
      /\ run'.pos = run.pos
  BY DEF RefreshMessage, IInv, TypeOK
<1>3. /\ \A k \in Msg, c \in Version : RecordAfter(k, c)' <=> RecordAfter(k, c)
      /\ HistoryId' = HistoryId
  BY <1>1 DEF RecordAfter, HistoryId
<1>4. \A k \in Msg, c \in Version : Settled(k, c) \/ k = m => Settled(k, c)'
  BY <1>1, <1>3 DEF Settled
<1>5. /\ tx.baseline \in Version /\ run.pos \in Version /\ account.cursor \in Version
      /\ run.todo \subseteq Msg /\ run.seen \subseteq Msg /\ run.existing \subseteq Msg
  BY DEF IInv, TypeOK
<1>6. VersionsAreRecorded' /\ CheckpointsArePast' /\ NoLostChange' /\ NoSkippedChange'
  BY <1>1, <1>3 DEF IInv, VersionsAreRecorded, CheckpointsArePast, NoLostChange,
     NoSkippedChange, SkippedCovered, Covers, RecordAfter, HistoryId
<1>7. CommittableAnytime'
  BY <1>1, <1>3, <1>5 DEF IInv, CommittableAnytime, SkippedCovered, Covers
<1>8. CopiesWereReal(db)' /\ CopiesWereReal(tx)' /\ UncommittedDeletionsAreReal'
  BY <1>1, <1>3 DEF IInv, CopiesWereReal, UncommittedDeletionsAreReal, Present, RecordAfter
<1>9. ImportInv' /\ CompleteListingInv'
  BY <1>1, <1>2, <1>3 DEF IInv, ImportInv, CompleteListingInv, Present
<1>10. ListingInv'
  <2>1. SUFFICES ASSUME run.pc = "page"
                 PROVE  /\ run'.todo \subseteq run'.seen
                        /\ \A k \in run'.seen \ run'.todo : Settled(k, tx.baseline)'
                        /\ \A k \in Msg \ run'.existing :
                              tx'.stored[k] # None => Settled(k, tx.baseline)'
                        /\ ~tx'.refresh =>
                              \A k \in run'.existing : Settled(k, tx.baseline)'
    BY <1>1, <1>2 DEF ListingInv
  <2>2. /\ run.todo \subseteq run.seen
        /\ \A k \in run.seen \ run.todo : Settled(k, tx.baseline)
        /\ \A k \in Msg \ run.existing : tx.stored[k] # None => Settled(k, tx.baseline)
        /\ ~tx.refresh => \A k \in run.existing : Settled(k, tx.baseline)
    BY <2>1 DEF IInv, ListingInv
  <2>3. \A k \in Msg : Settled(k, tx.baseline) \/ k = m => Settled(k, tx.baseline)'
    BY <1>1, <1>4, <1>5
  <2>4. QED
    BY <1>1, <1>2, <1>5, <2>2, <2>3
<1>11. ReconcileInv'
  <2>1. \A k \in Msg : Settled(k, tx.baseline) \/ k = m => Settled(k, tx.baseline)'
    BY <1>1, <1>4, <1>5
  <2>2. QED
    BY <1>2, <1>5, <2>1 DEF IInv, ReconcileInv
<1>12. ReplayInv'
  <2>1. \A k \in Msg : Settled(k, run.pos) \/ k = m => Settled(k, run.pos)'
    BY <1>2, <1>4, <1>5
  <2>2. QED
    BY <1>1, <1>2, <1>3, <1>5, <2>1 DEF IInv, ReplayInv
<1>13. QED
  BY <1>6, <1>7, <1>8, <1>9, <1>10, <1>11, <1>12 DEF IInv

\* Once the last page is committed, only the messages that were here before and
\* appeared on no page are still to be looked at.
LEMMA CheckpointPageKeeps == IInv /\ TypeOK' /\ CheckpointPage => IInv'
<1> SUFFICES ASSUME IInv, TypeOK', CheckpointPage PROVE IInv'
  OBVIOUS
<1>1. /\ run.pc = "page" /\ run.todo = {} /\ UNCHANGED <<gmailVars, tx>> /\ db' = tx
      /\ account'.cursor = account.cursor
  BY DEF CheckpointPage, CommittedAccount, IInv, TypeOK
<1>2. /\ run'.pc = IF run.last THEN "absent" ELSE "list"
      /\ run'.todo = IF run.last THEN run.existing \ run.seen ELSE {}
      /\ run'.existing = run.existing /\ run'.seen = run.seen /\ run'.began = run.began
  BY DEF CheckpointPage, IInv, TypeOK
<1>3. DataInv'
  BY <1>1, CommitKeepsData
<1>4. /\ UNCHANGED <<mailbox, log>> /\ HistoryId' = HistoryId /\ HistoryId \in Nat
      /\ \A k \in Msg : Settled(k, tx.baseline)' <=> Settled(k, tx.baseline)
  BY <1>1 DEF gmailVars, HistoryId, Settled, RecordAfter, IInv, TypeOK
<1>5. /\ \A k \in run.seen : Settled(k, tx.baseline)
      /\ \A k \in Msg \ run.existing : tx.stored[k] # None => Settled(k, tx.baseline)
      /\ ~tx.refresh => \A k \in run.existing : Settled(k, tx.baseline)
  BY <1>1 DEF IInv, ListingInv
<1>6. tx.baseline # None /\ tx.baseline <= run.began /\ run.began <= HistoryId
  BY <1>1 DEF IInv, ImportInv
<1>7. ImportInv'
  BY <1>1, <1>2, <1>4, <1>6 DEF ImportInv
<1>8. ListingInv'
  <2>1. /\ ~run.last => run'.pc = "list" /\ run'.todo = {}
        /\ run.last => run'.pc = "absent"
    BY <1>2
  <2>2. \A k \in run'.seen : Settled(k, tx.baseline)'
    BY <1>2, <1>4, <1>5 DEF IInv, TypeOK
  <2>3. \A k \in Msg \ run'.existing : tx'.stored[k] # None => Settled(k, tx.baseline)'
    BY <1>1, <1>2, <1>4, <1>5
  <2>4. ~tx'.refresh => \A k \in run'.existing : Settled(k, tx.baseline)'
    BY <1>1, <1>2, <1>4, <1>5 DEF IInv, TypeOK
  <2>5. QED
    BY <2>1, <2>2, <2>3, <2>4 DEF ListingInv
<1>9. ReconcileInv'
  <2>1. ASSUME run.last, NEW k \in Msg, k \notin run.existing \ run.seen
        PROVE  Settled(k, tx.baseline)
    <3>1. CASE k \in run.seen
      BY <3>1, <1>5
    <3>2. CASE k \notin run.seen /\ mailbox[k] = None
      BY <3>2, <2>1, <1>5 DEF Settled
    <3>3. CASE k \notin run.seen /\ mailbox[k] # None
      <4>1. mailbox[k] \in Nat /\ run.began \in Nat /\ tx.baseline \in Nat
        BY <3>3, <1>6 DEF IInv, TypeOK, Version
      <4>2. mailbox[k] > run.began
        BY <3>3, <2>1, <1>1, <4>1 DEF IInv, CompleteListingInv, Present
      <4>3. mailbox[k] \in 1..Len(log) /\ log[mailbox[k]] = k
        BY <4>1, <4>2, <1>4 DEF IInv, VersionsAreRecorded, HistoryId
      <4>4. mailbox[k] > tx.baseline
        BY <4>1, <4>2, <1>6
      <4>5. QED
        BY <4>3, <4>4 DEF Settled, RecordAfter
    <3>4. QED
      BY <3>1, <3>2, <3>3
  <2>2. QED
    BY <2>1, <1>1, <1>2, <1>4 DEF ReconcileInv
<1>10. CompleteListingInv' /\ ReplayInv'
  BY <1>2 DEF CompleteListingInv, ReplayInv
<1>11. QED
  BY <1>3, <1>7, <1>8, <1>9, <1>10 DEF IInv, DataInv

\* The replay starts at the baseline, which every unsettled message is after.
LEMMA BeginReplayKeeps == IInv /\ TypeOK' /\ BeginReplay => IInv'
<1> SUFFICES ASSUME IInv, TypeOK', BeginReplay PROVE IInv'
  OBVIOUS
<1>1. DataInv'
  BY MovesKeepData DEF BeginReplay
<1>2. /\ run.pc = "absent" /\ run.todo = {} /\ UNCHANGED <<mailbox, log, tx>>
      /\ run'.pc = "history" /\ run'.pos = tx.baseline /\ run'.todo = {}
  BY DEF BeginReplay, gmailVars, IInv, TypeOK
<1>3. \A k \in Msg : Settled(k, tx.baseline)
  BY <1>2 DEF IInv, ReconcileInv
<1>4. \A k \in Msg : Settled(k, run.pos)'
  BY <1>2, <1>3 DEF Settled, RecordAfter
<1>5. ReplayInv'
  BY <1>2, <1>4 DEF ReplayInv, IInv, ImportInv, CheckpointsArePast, HistoryId
<1>6. ImportInv' /\ ListingInv' /\ CompleteListingInv' /\ ReconcileInv'
  BY <1>2 DEF ImportInv, ListingInv, CompleteListingInv, ReconcileInv
<1>7. QED
  BY <1>1, <1>5, <1>6 DEF IInv, DataInv

\* Each record up to the page's end is work to do, each later one still ahead.
LEMMA HistoryPageKeeps == IInv /\ TypeOK' /\ HistoryPage => IInv'
<1> SUFFICES ASSUME IInv, TypeOK', HistoryPage PROVE IInv'
  OBVIOUS
<1>1. DataInv'
  BY MovesKeepData DEF HistoryPage
<1>2. PICK upto \in 0..HistoryId :
        run' = [run EXCEPT !.pc = "changes", !.pos = upto, !.last = upto = HistoryId,
                           !.todo = {log[i] : i \in {j \in 1..upto : j > run.pos}}]
  BY DEF HistoryPage
<1>3. /\ run.pc = "history" /\ UNCHANGED <<mailbox, log, tx>>
      /\ run'.pc = "changes" /\ run'.pos = upto
      /\ run'.todo = {log[i] : i \in {j \in 1..upto : j > run.pos}}
      /\ HistoryId' = HistoryId /\ HistoryId = Len(log) /\ HistoryId \in Nat
  <2>1. run'.pc = "changes" /\ run'.pos = upto
        /\ run'.todo = {log[i] : i \in {j \in 1..upto : j > run.pos}}
    BY <1>2 DEF IInv, TypeOK
  <2>2. run.pc = "history" /\ UNCHANGED <<mailbox, log, tx>>
    BY DEF HistoryPage, gmailVars
  <2>3. QED
    BY <2>1, <2>2 DEF HistoryId, IInv, TypeOK
<1>4. \A k \in Msg : Settled(k, run.pos)
  BY <1>3 DEF IInv, ReplayInv
<1>5. ASSUME NEW k \in Msg, k \notin run'.todo PROVE Settled(k, upto)
  <2>1. CASE tx.stored[k] = mailbox[k]
    BY <2>1 DEF Settled
  <2>2. CASE RecordAfter(k, run.pos)
    <3>1. PICK i \in 1..Len(log) : i > run.pos /\ log[i] = k
      BY <2>2 DEF RecordAfter
    <3>2. i > upto
      BY <3>1, <1>3, <1>5
    <3>3. QED
      BY <3>1, <3>2 DEF Settled, RecordAfter
  <2>3. QED
    BY <2>1, <2>2, <1>4 DEF Settled
<1>6. \A k \in Msg \ run'.todo : Settled(k, run.pos)'
  BY <1>3, <1>5 DEF Settled, RecordAfter
<1>7. ReplayInv'
  BY <1>3, <1>6 DEF ReplayInv, None
<1>8. ImportInv' /\ ListingInv' /\ CompleteListingInv' /\ ReconcileInv'
  BY <1>3 DEF ImportInv, ListingInv, CompleteListingInv, ReconcileInv
<1>9. QED
  BY <1>1, <1>7, <1>8 DEF IInv, DataInv

\* When a page's changes are all applied, what is left lies after its end.
LEMMA EndHistoryPageKeeps == IInv /\ TypeOK' /\ EndHistoryPage => IInv'
<1> SUFFICES ASSUME IInv, TypeOK', EndHistoryPage PROVE IInv'
  OBVIOUS
<1>1. DataInv'
  BY MovesKeepData DEF EndHistoryPage
<1>2. /\ run.pc = "changes" /\ run.todo = {} /\ UNCHANGED <<mailbox, log, tx>>
      /\ run'.pc \in {"finish", "history"} /\ run'.pos = run.pos /\ run'.todo = {}
  BY DEF EndHistoryPage, gmailVars, IInv, TypeOK
<1>3. /\ run.pos # None /\ run.pos <= HistoryId
      /\ \A k \in Msg : Settled(k, run.pos)
  BY <1>2 DEF IInv, ReplayInv
<1>4. ReplayInv'
  <2>1. \A k \in Msg : Settled(k, run.pos)'
    BY <1>2, <1>3 DEF Settled, RecordAfter
  <2>2. QED
    BY <1>2, <1>3, <2>1 DEF ReplayInv, HistoryId
<1>5. ImportInv' /\ ListingInv' /\ CompleteListingInv' /\ ReconcileInv'
  BY <1>2 DEF ImportInv, ListingInv, CompleteListingInv, ReconcileInv
<1>6. QED
  BY <1>1, <1>4, <1>5 DEF IInv, DataInv

\* Dropping the baseline leaves nothing that may be skipped.
LEMMA HistoryExpiredKeeps == IInv /\ TypeOK' /\ HistoryExpired => IInv'
<1> SUFFICES ASSUME IInv, TypeOK', HistoryExpired PROVE IInv'
  OBVIOUS
<1>1. /\ UNCHANGED <<gmailVars, account, db>> /\ tx'.stored = tx.stored
      /\ tx'.baseline = None \/ tx' = tx
      /\ HistoryId \in Nat /\ run'.pc = "attempt"
  BY DEF HistoryExpired, IInv, TypeOK, HistoryId
<1>2. SkippedCovered(tx)' /\ CheckpointsArePast'
  BY <1>1 DEF SkippedCovered, CheckpointsArePast, IInv, CommittableAnytime, RecordAfter,
     HistoryId, None, gmailVars
<1>3. DataInv'
  BY <1>1, <1>2 DEF IInv, DataInv, gmailVars, VersionsAreRecorded,
     NoLostChange, NoSkippedChange, CommittableAnytime, CopiesWereReal,
     UncommittedDeletionsAreReal, HistoryId, Covers, SkippedCovered, Present, RecordAfter
<1>4. ControlInv'
  BY <1>1 DEF ControlInv, ImportInv, ListingInv, CompleteListingInv, ReconcileInv, ReplayInv
<1>5. QED
  BY <1>3, <1>4 DEF IInv, DataInv, ControlInv

\* A run that ends commits rows the kept cursor covers; the cursor it saves is
\* the end of a replay that settled every message.
LEMMA EndRunKeeps ==
    ASSUME IInv, TypeOK', NEW data, NEW status, NEW cursor \in Version,
           data = tx \/ data = [tx EXCEPT !.baseline = None],
           EndRun(data, status, cursor),
           cursor = account.cursor \/ (cursor # None => cursor <= HistoryId /\ Covers(tx.stored, cursor))
    PROVE  IInv'
<1>1. /\ UNCHANGED <<mailbox, log>> /\ run' = IdleRun /\ db' = data /\ tx' = data
      /\ data.stored = tx.stored /\ HistoryId \in Nat
      /\ data = tx \/ data.baseline = None
      /\ account'.cursor = account.cursor \/ account'.cursor = cursor
  BY DEF EndRun, CommittedAccount, gmailVars, IInv, TypeOK, HistoryId
<1>2. SkippedCovered(db)' /\ SkippedCovered(tx)'
  BY <1>1 DEF SkippedCovered, IInv, CommittableAnytime, RecordAfter
<1>3. account'.cursor # None => Covers(tx.stored, account'.cursor) /\ account'.cursor <= HistoryId
  BY <1>1 DEF IInv, CommittableAnytime, CheckpointsArePast
<1>4. CheckpointsArePast'
  BY <1>1, <1>3 DEF CheckpointsArePast, IInv, HistoryId, None
<1>5. DataInv'
  BY <1>1, <1>2, <1>3, <1>4 DEF IInv, DataInv, VersionsAreRecorded, NoLostChange,
     NoSkippedChange, CommittableAnytime, CopiesWereReal, UncommittedDeletionsAreReal,
     HistoryId, Covers, Present, RecordAfter
<1>6. QED
  BY <1>1, <1>5, IdleKeepsControl DEF IInv, DataInv, ControlInv

\* The three ways a run ends, each with the cursor it saves.
LEMMA EndingsKeep == IInv /\ TypeOK' /\ (Finish \/ BaselineExpiredAgain \/ Fail) => IInv'
<1> SUFFICES ASSUME IInv, TypeOK', Finish \/ BaselineExpiredAgain \/ Fail PROVE IInv'
  OBVIOUS
<1>1. account.cursor \in Version /\ run.pos \in Version
  BY DEF IInv, TypeOK
<1>2. CASE Finish
  <2>1. EndRun(IF run.full THEN [tx EXCEPT !.baseline = None] ELSE tx, "connected", run.pos)
    BY <1>2 DEF Finish
  <2>2. run.pos <= HistoryId /\ Covers(tx.stored, run.pos)
    BY <1>2 DEF Finish, IInv, ReplayInv, Settled, Covers
  <2>3. QED
    BY <1>1, <2>1, <2>2, EndRunKeeps
<1>3. CASE BaselineExpiredAgain
  BY <1>1, <1>3, EndRunKeeps DEF BaselineExpiredAgain
<1>4. CASE Fail
  BY <1>1, <1>4, EndRunKeeps DEF Fail
<1>5. QED
  BY <1>2, <1>3, <1>4

\* A commit in the middle of a call, for a refreshed token, is harmless.
LEMMA RefreshTokenKeeps == IInv /\ TypeOK' /\ RefreshToken => IInv'
<1> SUFFICES ASSUME IInv, TypeOK', RefreshToken PROVE IInv'
  OBVIOUS
<1>1. /\ UNCHANGED <<gmailVars, tx>> /\ db' = tx /\ account'.cursor = account.cursor
      /\ run'.pc = run.pc /\ run'.existing = run.existing /\ run'.seen = run.seen
      /\ run'.todo = run.todo /\ run'.began = run.began /\ run'.last = run.last
      /\ run'.pos = run.pos
  BY DEF RefreshToken, CommittedAccount, IInv, TypeOK
<1>2. DataInv'
  BY <1>1, CommitKeepsData
<1>3. ControlInv'
  BY <1>1 DEF IInv, ControlInv, ImportInv, ListingInv, CompleteListingInv, ReconcileInv,
     ReplayInv, Settled, RecordAfter, HistoryId, Present, gmailVars
<1>4. QED
  BY <1>2, <1>3 DEF IInv, DataInv, ControlInv

\* A crash loses only what was not committed.
LEMMA CrashKeeps == IInv /\ TypeOK' /\ Crash => IInv'
<1> SUFFICES ASSUME IInv, TypeOK', Crash PROVE IInv'
  OBVIOUS
<1>1. UNCHANGED <<gmailVars, account, db>> /\ tx' = db /\ run' = IdleRun
  BY DEF Crash
<1>2. DataInv'
  BY <1>1 DEF IInv, DataInv, gmailVars, VersionsAreRecorded, CheckpointsArePast,
     NoLostChange, NoSkippedChange, CommittableAnytime, CopiesWereReal,
     UncommittedDeletionsAreReal, HistoryId, Covers, SkippedCovered, Present, RecordAfter
<1>3. QED
  BY <1>1, <1>2, IdleKeepsControl DEF IInv, DataInv, ControlInv

\* The invariant is inductive.
LEMMA Inductive == IInv /\ [Next]_vars => IInv'
<1> SUFFICES ASSUME IInv, [Next]_vars PROVE IInv'
  OBVIOUS
<1>1. TypeOK'
  BY TypeInductive DEF IInv
<1>2. CASE Gmail
  BY <1>1, <1>2, GmailKeeps
<1>3. CASE User \/ RereadGrant \/ UNCHANGED vars
  BY <1>1, <1>3, UserKeeps
<1>4. CASE Worker
  <2>1. CASE Start
    BY <1>1, <2>1, StartKeeps
  <2>2. CASE BeginAttempt
    BY <1>1, <2>2, BeginAttemptKeeps
  <2>3. CASE ListPage
    BY <1>1, <2>3, ListPageKeeps
  <2>4. CASE CheckpointPage
    BY <1>1, <2>4, CheckpointPageKeeps
  <2>5. CASE BeginReplay
    BY <1>1, <2>5, BeginReplayKeeps
  <2>6. CASE HistoryPage
    BY <1>1, <2>6, HistoryPageKeeps
  <2>7. CASE EndHistoryPage
    BY <1>1, <2>7, EndHistoryPageKeeps
  <2>8. CASE HistoryExpired
    BY <1>1, <2>8, HistoryExpiredKeeps
  <2>9. CASE BaselineExpiredAgain \/ Finish
    BY <1>1, <2>9, EndingsKeep
  <2>10. ASSUME NEW m \in Msg, RefreshMessage(m) PROVE IInv'
    BY <1>1, <2>10, RefreshMessageKeeps
  <2>11. QED
    BY <1>4, <2>1, <2>2, <2>3, <2>4, <2>5, <2>6, <2>7, <2>8, <2>9, <2>10 DEF Worker
<1>5. CASE Fail
  BY <1>1, <1>5, EndingsKeep
<1>6. CASE Crash
  BY <1>1, <1>6, CrashKeeps
<1>7. CASE RefreshToken
  BY <1>1, <1>7, RefreshTokenKeeps
<1>8. QED
  BY <1>2, <1>3, <1>4, <1>5, <1>6, <1>7 DEF Next

\* The invariant holds initially: nothing is copied, and no run is going.
LEMMA InitInvariant == Init => IInv
<1> SUFFICES ASSUME Init PROVE IInv
  OBVIOUS
<1>1. TypeOK
  BY DEF Init, TypeOK, Version, None, IdleRun, Status, Usable
<1>2. DataInv
  BY DEF Init, DataInv, VersionsAreRecorded, CheckpointsArePast, NoLostChange, NoSkippedChange,
     CommittableAnytime, CopiesWereReal, UncommittedDeletionsAreReal, HistoryId, Covers,
     SkippedCovered, Present, None
<1>3. ControlInv
  BY DEF Init, IdleRun, ControlInv, ImportInv, ListingInv, CompleteListingInv, ReconcileInv,
     ReplayInv
<1>4. QED
  BY <1>1, <1>2, <1>3 DEF IInv, DataInv, ControlInv

-----------------------------------------------------------------------------
(* The theorems *)

\* The inductive invariant holds of every reachable state.
THEOREM Invariance == Spec => []IInv
BY InitInvariant, Inductive, PTL DEF Spec

\* Replaying history from the committed cursor reaches every message whose
\* committed copy differs from Gmail: no change is ever lost.
THEOREM NoChangeIsLost == Spec => []NoLostChange
<1>1. IInv => NoLostChange
  BY DEF IInv
<1>2. QED
  BY <1>1, Invariance, PTL

\* Whatever an import still under way may skip is covered by its baseline.
THEOREM NoChangeIsSkipped == Spec => []NoSkippedChange
<1>1. IInv => NoSkippedChange
  BY DEF IInv
<1>2. QED
  BY <1>1, Invariance, PTL

\* A row becomes deleted only when Gmail no longer has the message.
THEOREM DeletionsAreReal == Spec => DeletedOnlyWhenGone
<1>1. ASSUME IInv, [Next]_vars
      PROVE  [\A m \in Msg : db.stored[m] # None /\ db'.stored[m] = None
                 => mailbox[m] = None]_vars
  <2>1. db'.stored \in {db.stored, tx.stored}
    BY <1>1 DEF IInv, TypeOK, Next, Gmail, ForgetHistory, Arrive, Relabel, Remove, Record, User,
       Reconnect, Pause, Resume, SetAccount, Worker, Start, BeginAttempt, ListPage, RefreshMessage,
       CheckpointPage, BeginReplay, HistoryPage, EndHistoryPage, HistoryExpired,
       BaselineExpiredAgain, Finish, Fail, EndRun, RereadGrant, RefreshToken, Crash, vars
  <2>2. QED
    BY <1>1, <2>1 DEF IInv, UncommittedDeletionsAreReal
<1>2. QED
  BY <1>1, Invariance, PTL DEF Spec, DeletedOnlyWhenGone

-----------------------------------------------------------------------------
(* The account's row *)

\* Whoever has locked the account's row has read its current grant: the row's
\* lock keeps every other writer out until the commit.
LEMMA RowLockHolds == Spec => []RowLockInv
<1>1. Init => RowLockInv
  BY DEF Init, IdleRun, RowLockInv
<1>2. TypeOK /\ RowLockInv /\ [Next]_vars => RowLockInv'
  <2> SUFFICES ASSUME TypeOK, RowLockInv, [Next]_vars PROVE RowLockInv'
    OBVIOUS
  <2>1. CASE Start
    BY <2>1 DEF Start, IdleRun, RowLockInv
  <2>2. CASE User
    BY <2>2 DEF User, Reconnect, Pause, Resume, SetAccount, RowLockInv
  <2>3. CASE Finish \/ BaselineExpiredAgain \/ Fail \/ Crash
    BY <2>3 DEF Finish, BaselineExpiredAgain, Fail, Crash, EndRun, IdleRun, RowLockInv
  <2>4. CASE CheckpointPage \/ RefreshToken
    BY <2>4 DEF CheckpointPage, RefreshToken, RowLockInv, TypeOK
  <2>5. CASE Gmail \/ UNCHANGED vars
    BY <2>5 DEF Gmail, ForgetHistory, Arrive, Relabel, Remove, Record, vars, RowLockInv
  <2>6. CASE RereadGrant
    BY <2>6 DEF RereadGrant, RowLockInv, TypeOK
  <2>7. CASE BeginAttempt \/ ListPage \/ BeginReplay \/ HistoryPage \/ EndHistoryPage
             \/ HistoryExpired \/ \E m \in Msg : RefreshMessage(m)
    <3>1. UNCHANGED account /\ run'.locked = run.locked /\ run'.grant = run.grant
      <4>1. CASE BeginAttempt
        BY <4>1 DEF BeginAttempt, TypeOK
      <4>2. CASE ListPage
        BY <4>2 DEF ListPage, TypeOK
      <4>3. CASE BeginReplay
        BY <4>3 DEF BeginReplay, TypeOK
      <4>4. CASE HistoryPage
        BY <4>4 DEF HistoryPage, TypeOK
      <4>5. CASE EndHistoryPage
        BY <4>5 DEF EndHistoryPage, TypeOK
      <4>6. CASE HistoryExpired
        BY <4>6 DEF HistoryExpired, TypeOK
      <4>7. ASSUME NEW m \in Msg, RefreshMessage(m)
            PROVE  UNCHANGED account /\ run'.locked = run.locked /\ run'.grant = run.grant
        BY <4>7 DEF RefreshMessage, TypeOK
      <4>8. QED
        BY <2>7, <4>1, <4>2, <4>3, <4>4, <4>5, <4>6, <4>7
    <3>2. QED
      BY <3>1 DEF RowLockInv
  <2>8. QED
    BY <2>1, <2>2, <2>3, <2>4, <2>5, <2>6, <2>7 DEF Next, Worker
<1>3. QED
  BY <1>1, <1>2, TypeCorrect, PTL DEF Spec

\* Steps that are neither the user's nor the end of a run leave the row alone
\* or commit the SYNCING status it was locked for.
LEMMA AccountSteps ==
    ASSUME TypeOK, RowLockInv, [Next]_vars, ~User
    PROVE  \/ account' = account
           \/ account' = CommittedAccount
           \/ run.grant = account.grant /\ account.status \in Usable
           \/ account.status = "reauth_required" /\ account'.status = "reauth_required"
              /\ run.grant = account.grant
<1>1. CASE Finish \/ BaselineExpiredAgain \/ Fail
  <2>1. PICK data, status, cursor : EndRun(data, status, cursor)
    BY <1>1 DEF Finish, BaselineExpiredAgain, Fail
  <2>2. QED
    BY <2>1 DEF EndRun, Applies, TypeOK
<1>2. CASE Worker /\ ~Finish /\ ~BaselineExpiredAgain
  BY <1>2 DEF Worker, Start, BeginAttempt, ListPage, CheckpointPage, BeginReplay, HistoryPage,
     EndHistoryPage, HistoryExpired, RefreshMessage
<1>3. CASE Gmail \/ Crash \/ RereadGrant \/ RefreshToken \/ UNCHANGED vars
  BY <1>3 DEF Gmail, ForgetHistory, Arrive, Relabel, Remove, Record, Crash, RereadGrant,
     RefreshToken, vars
<1>4. QED
  BY <1>1, <1>2, <1>3 DEF Next

\* Only the user takes an account out of the paused or revoked state.
THEOREM RevivedByUser == Spec => OnlyUserRevives
<1>1. ASSUME TypeOK, RowLockInv, [Next]_vars
      PROVE  [account.status \notin Usable /\ account'.status \in Usable => User]_vars
  BY <1>1, AccountSteps DEF CommittedAccount, RowLockInv, Usable
<1>2. QED
  BY <1>1, TypeCorrect, RowLockHolds, PTL DEF Spec, OnlyUserRevives

\* A run overtaken by a newer grant writes nothing on the account.
THEOREM OvertakenRunIsSilent == Spec => OvertakenRunWritesNothing
<1>1. ASSUME TypeOK, RowLockInv, [Next]_vars
      PROVE  [run.pc # "idle" /\ run.grant # account.grant /\ ~User
                 => account' = account]_vars
  BY <1>1, AccountSteps DEF CommittedAccount, RowLockInv
<1>2. QED
  BY <1>1, TypeCorrect, RowLockHolds, PTL DEF Spec, OvertakenRunWritesNothing

-----------------------------------------------------------------------------
(* The copy is a mirror *)

\* Version v of m is not one that the mailbox has yet to reach.
Earlier(m, v) == v <= HistoryId /\ (mailbox[m] # None => v <= mailbox[m])

\* What is committed, and what would be, are versions the mailbox has had; what would be
\* committed is no older than what is, unless the message is gone.
CopiesAreForward ==
    \A m \in Msg :
        /\ Earlier(m, db.stored[m]) /\ Earlier(m, tx.stored[m])
        /\ \/ tx.stored[m] = None /\ mailbox[m] = None
           \/ tx.stored[m] >= db.stored[m]

\* A change of the mailbox is a record of the history, and no id comes back.
LEMMA VersionsGrow ==
    ASSUME IInv, Gmail
    PROVE  /\ db' = db /\ tx' = tx
           /\ \/ HistoryId' = HistoryId /\ mailbox' = mailbox
              \/ HistoryId' = HistoryId + 1
           /\ \A m \in Msg :
                 \/ mailbox'[m] \in {mailbox[m], None}
                 \/ mailbox'[m] = HistoryId' /\ (mailbox[m] # None \/ ~RecordAfter(m, 0))
<1> USE DEF IInv, TypeOK, HistoryId, Record, Present, None, Version
<1>1. ASSUME NEW n \in Msg, Arrive(n) \/ Relabel(n)
      PROVE  /\ db' = db /\ tx' = tx /\ HistoryId' = HistoryId + 1
             /\ \A m \in Msg :
                   \/ mailbox'[m] \in {mailbox[m], None}
                   \/ mailbox'[m] = HistoryId' /\ (mailbox[m] # None \/ ~RecordAfter(m, 0))
  BY <1>1 DEF Arrive, Relabel
<1>2. ASSUME NEW n \in Msg, Remove(n)
      PROVE  /\ db' = db /\ tx' = tx /\ HistoryId' = HistoryId + 1
             /\ \A m \in Msg : mailbox'[m] \in {mailbox[m], None}
  BY <1>2 DEF Remove
<1>3. CASE ForgetHistory BY <1>3 DEF ForgetHistory
<1>4. QED BY <1>1, <1>2, <1>3 DEF Gmail

\* Whatever the worker saves, and whenever it commits, the copy only moves forward.
LEMMA ForwardInductive ==
    ASSUME IInv, IInv', CopiesAreForward, [Next]_vars
    PROVE  CopiesAreForward'
<1>a. /\ HistoryId \in Nat /\ HistoryId' \in Nat
      /\ \A m \in Msg : /\ mailbox[m] \in Version /\ mailbox'[m] \in Version
                        /\ db.stored[m] \in Version /\ tx.stored[m] \in Version
                        /\ mailbox[m] <= HistoryId
  BY DEF IInv, TypeOK, HistoryId, VersionsAreRecorded, Version, None
<1>1. CASE Gmail
  <2>1. \A m \in Msg : db.stored[m] # None => mailbox[m] # None \/ RecordAfter(m, 0)
    BY DEF IInv, CopiesWereReal, Present
  <2>2. \A m \in Msg : tx.stored[m] # None => mailbox[m] # None \/ RecordAfter(m, 0)
    BY DEF IInv, CopiesWereReal, Present
  <2>3. HistoryId <= HistoryId' BY <1>1, <1>a, VersionsGrow
  <2>4. QED
    BY <1>1, <1>a, <2>1, <2>2, <2>3, VersionsGrow DEF CopiesAreForward, Earlier, Version, None
<1>2. ASSUME UNCHANGED gmailVars, db'.stored \in {db.stored, tx.stored}, tx'.stored = tx.stored
      PROVE  CopiesAreForward'
  BY <1>2, <1>a DEF CopiesAreForward, Earlier, gmailVars, HistoryId, Version, None
<1>3. CASE Crash
  BY <1>3, <1>a DEF Crash, CopiesAreForward, Earlier, gmailVars, HistoryId, Version, None
<1>4. ASSUME NEW n \in Msg, RefreshMessage(n) PROVE CopiesAreForward'
  <2>1. /\ UNCHANGED gmailVars /\ db' = db
        /\ \A m \in Msg : tx'.stored[m] = IF m = n THEN mailbox[m] ELSE tx.stored[m]
    BY <1>4 DEF RefreshMessage, IInv, TypeOK
  <2>2. QED
    BY <1>a, <2>1 DEF CopiesAreForward, Earlier, gmailVars, HistoryId, Version, None
<1>5. ASSUME NEW data, NEW status, NEW cursor, EndRun(data, status, cursor), data.stored = tx.stored
      PROVE  CopiesAreForward'
  BY <1>2, <1>5 DEF EndRun
<1>6. CASE Finish \/ BaselineExpiredAgain \/ Fail
  BY <1>5, <1>6 DEF Finish, BaselineExpiredAgain, Fail, IInv, TypeOK
<1>7. CASE User \/ RereadGrant \/ RefreshToken \/ UNCHANGED vars
  BY <1>2, <1>7 DEF User, Reconnect, Pause, Resume, SetAccount, RereadGrant, RefreshToken, vars, gmailVars
<1>8. CASE Start \/ ListPage \/ CheckpointPage \/ BeginReplay \/ HistoryPage \/ EndHistoryPage
  BY <1>2, <1>8 DEF Start, ListPage, CheckpointPage, BeginReplay, HistoryPage, EndHistoryPage
<1>9. CASE BeginAttempt \/ HistoryExpired
  <2>1. UNCHANGED gmailVars /\ db' = db BY <1>9 DEF BeginAttempt, HistoryExpired
  <2>2. tx'.stored = tx.stored
    <3>1. CASE BeginAttempt BY <3>1 DEF BeginAttempt, IInv, TypeOK
    <3>2. CASE HistoryExpired BY <3>2 DEF HistoryExpired, IInv, TypeOK
    <3>3. QED BY <1>9, <3>1, <3>2
  <2>3. QED BY <1>2, <2>1, <2>2
<1>10. QED
  BY <1>1, <1>3, <1>4, <1>6, <1>7, <1>8, <1>9 DEF Next, Worker

\* The steps that commit: all others leave what is committed as it is.
LEMMA StepsAreMirrored ==
    ASSUME IInv, IInv', CopiesAreForward, [Next]_vars
    PROVE  [Mirror!Next]_<<mailbox, db.stored, HistoryId>>
<1>a. /\ HistoryId \in Nat
      /\ mailbox \in [Msg -> Version] /\ mailbox' \in [Msg -> Version]
      /\ db.stored \in [Msg -> Version] /\ tx.stored \in [Msg -> Version]
  BY DEF IInv, TypeOK, HistoryId
<1>1. CASE Gmail
  BY <1>1, <1>a, VersionsGrow DEF Mirror!Next, Mirror!Change
<1>2. CASE UNCHANGED <<mailbox, log>> /\ db'.stored = tx.stored
  BY <1>2, <1>a DEF Mirror!Next, Mirror!Save, Mirror!Forward, CopiesAreForward, Earlier, HistoryId, Version, None
<1>3. CASE UNCHANGED <<mailbox, log>> /\ db'.stored = db.stored
  BY <1>3 DEF HistoryId
<1>4. CASE Finish \/ BaselineExpiredAgain \/ Fail
  BY <1>2, <1>4 DEF Finish, BaselineExpiredAgain, Fail, EndRun, IInv, TypeOK, gmailVars
<1>5. CASE CheckpointPage \/ RefreshToken
  BY <1>2, <1>5 DEF CheckpointPage, RefreshToken, gmailVars
<1>6. CASE User \/ RereadGrant \/ Crash \/ UNCHANGED vars
  BY <1>3, <1>6 DEF User, Reconnect, Pause, Resume, SetAccount, RereadGrant, Crash, vars, gmailVars
<1>7. CASE Start \/ BeginAttempt \/ ListPage \/ BeginReplay \/ HistoryPage \/ EndHistoryPage \/ HistoryExpired
  BY <1>3, <1>7 DEF Start, BeginAttempt, ListPage, BeginReplay, HistoryPage, EndHistoryPage, HistoryExpired, gmailVars
<1>8. CASE \E m \in Msg : RefreshMessage(m)
  BY <1>3, <1>8 DEF RefreshMessage, gmailVars
<1>9. QED
  BY <1>1, <1>4, <1>5, <1>6, <1>7, <1>8 DEF Next, Worker

\* Gmail's import implements MailMirror: every commit of any number of messages takes each of
\* them forward or leaves it, and drops only what the mailbox no longer has.
THEOREM ImportsAreMirrored == Spec => ImplementsMirror
<1>1. Init => CopiesAreForward /\ Mirror!Init
  BY DEF Init, CopiesAreForward, Earlier, HistoryId, Mirror!Init, Version, None
<1>2. ASSUME IInv, IInv', CopiesAreForward, [Next]_vars
      PROVE  CopiesAreForward' /\ [Mirror!Next]_(Mirror!vars)
  BY <1>2, ForwardInductive, StepsAreMirrored DEF Mirror!vars
<1>3. QED
  BY <1>1, <1>2, Invariance, PTL DEF Spec, ImplementsMirror, Mirror!Spec
=============================================================================
