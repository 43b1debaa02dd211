---------------------------- MODULE MicrosoftSync ----------------------------
(***************************************************************************)
(* MicrosoftSyncService: how one Microsoft account's mailbox is copied     *)
(* into PostgreSQL (modules/mail/microsoft_sync.py and the calls of        *)
(* microsoft.py it makes).                                                 *)
(*                                                                         *)
(* Graph is external.  Each folder has a delta query: a first round lists  *)
(* the folder, and its delta link asks later for what has changed in the   *)
(* folder since: messages that arrived, changed, or were removed, which a  *)
(* move to another folder also is.  The mailbox changes between any two    *)
(* calls, links expire, folders come and go.                               *)
(*                                                                         *)
(* A whole run is one transaction (`tx`), committed (`db`) when it ends,   *)
(* well or badly, and when an access token is refreshed on the way.        *)
(* A version is the number of a message's last change; what a message      *)
(* contains is the subject of MessageState.                                *)
(***************************************************************************)
EXTENDS Integers

CONSTANTS
    Msg,        \* immutable message ids
    Folder,     \* mail folders
    Nowhere,    \* the folder of a message that is not there
    MaxClock,   \* bound: how many times the mailbox changes
    MaxGrant    \* bound: how many times the user reconnects

VARIABLES
    place,       \* Graph: the folder of every message
    mailbox,     \* Graph: the version of every message, None when not there
    touched,     \* Graph: the last change of a message its folder's delta reports
    folders,     \* Graph: which folders exist
    clock,       \* Graph: how many changes it has made
    floor,       \* Graph: delta links of before this change have expired
    unreported,  \* Graph: removals no delta will ever report (history)
    account,     \* mail_accounts row: status and grant generation
    db,          \* committed rows: message copies and a cursor per folder
    tx,          \* the same rows as the worker's open transaction sees them
    run          \* the worker's control state

vars == <<place, mailbox, touched, folders, clock, floor, unreported,
          account, db, tx, run>>
graphVars == <<place, mailbox, touched, folders, clock, floor>>

None == 0

\* The statuses an operation that is not the user's may write over.
Usable == {"connected", "syncing", "error"}
Status == Usable \cup {"reauth_required", "disconnected"}

CallingGraph == {"listing", "delta", "items"}
IdleRun == [pc |-> "idle", grant |-> 0, prev |-> "connected", locked |-> FALSE,
            folders |-> {}, folder |-> Nowhere, began |-> None, seen |-> {},
            items |-> {}, last |-> FALSE]

\* An item of a delta page: a message as it was, or an "@removed" (None).
Item == [msg: Msg, version: Nat]
Rows == [stored: [Msg -> Nat], cursor: [Folder -> Nat]]

TypeOK ==
    /\ place \in [Msg -> Folder \cup {Nowhere}]
    /\ mailbox \in [Msg -> Nat]
    /\ touched \in [Folder -> [Msg -> Nat]]
    /\ folders \in [Folder -> {"future", "there", "gone"}]
    /\ clock \in Nat /\ floor \in Nat
    /\ unreported \subseteq Msg
    /\ account \in [status: Status, grant: Nat]
    /\ db \in Rows /\ tx \in Rows
    /\ run \in [pc: {"idle", "loaded", "folder"} \cup CallingGraph, grant: Nat,
                prev: Usable, locked: BOOLEAN, folders: SUBSET Folder,
                folder: Folder \cup {Nowhere}, began: Nat, seen: SUBSET Msg,
                items: SUBSET Item, last: BOOLEAN]

Init ==
    /\ folders \in [Folder -> {"future", "there"}]
    /\ place \in [Msg -> {f \in Folder : folders[f] = "there"} \cup {Nowhere}]
    /\ mailbox = [m \in Msg |-> IF place[m] = Nowhere THEN None ELSE 1]
    /\ touched = [f \in Folder |-> [m \in Msg |-> IF place[m] = f THEN 1 ELSE None]]
    /\ clock = 1 /\ floor = 1
    /\ unreported = {}
    /\ account = [status |-> "connected", grant |-> 0]
    /\ db = [stored |-> [m \in Msg |-> None], cursor |-> [f \in Folder |-> None]]
    /\ tx = db
    /\ run = IdleRun

-----------------------------------------------------------------------------
(* Graph *)

There == {f \in Folder : folders[f] = "there"}
Arrived(m) == \E f \in Folder : touched[f][m] # None

\* The messages of ms go to folder f, or change there, or disappear; their old
\* and their new folder will report it.
Change(ms, f) ==
    /\ clock < MaxClock
    /\ clock' = clock + 1
    /\ place' = [m \in Msg |-> IF m \in ms THEN f ELSE place[m]]
    /\ mailbox' = [m \in Msg |-> IF m \notin ms THEN mailbox[m]
                                 ELSE IF f = Nowhere THEN None ELSE clock']
    /\ touched' = [g \in Folder |-> [m \in Msg |->
                    IF m \in ms /\ g \in {f, place[m]} THEN clock' ELSE touched[g][m]]]
    /\ UNCHANGED <<floor, account, db, tx, run>>

Arrive(m, f) == ~Arrived(m) /\ Change({m}, f) /\ UNCHANGED <<folders, unreported>>
\* A change of its content (f is its folder) or a move, to the bin too.
Move(m, f) == mailbox[m] # None /\ Change({m}, f) /\ UNCHANGED <<folders, unreported>>
Remove(m) == mailbox[m] # None /\ Change({m}, Nowhere) /\ UNCHANGED <<folders, unreported>>

CreateFolder(f) ==
    /\ folders[f] = "future"
    /\ folders' = [folders EXCEPT ![f] = "there"]
    /\ UNCHANGED <<place, mailbox, touched, clock, floor, unreported, account, db, tx, run>>

\* A folder is removed for good, with its messages: nobody is left to report
\* what it had to report.
DeleteFolder(f) ==
    /\ f \in There
    /\ Change({m \in Msg : place[m] = f}, Nowhere)
    /\ folders' = [folders EXCEPT ![f] = "gone"]
    /\ unreported' = unreported \cup
                     {m \in Msg : mailbox'[m] = None /\ touched[f][m] # None}

ExpireLinks ==
    /\ floor < clock
    /\ floor' = clock
    /\ UNCHANGED <<place, mailbox, touched, folders, clock, unreported, account, db, tx, run>>

Graph ==
    \/ \E m \in Msg, f \in There : Arrive(m, f) \/ Move(m, f)
    \/ \E m \in Msg : Remove(m)
    \/ \E f \in Folder : CreateFolder(f) \/ DeleteFolder(f)
    \/ ExpireLinks

\* What the delta of folder f has to report after the given link (None: the
\* first round of a folder, which lists what is in it).
Reported(f, link) ==
    {m \in Msg : touched[f][m] > link /\ (link = None => place[m] = f)}
ItemOf(f, m) == [msg |-> m, version |-> IF place[m] = f THEN mailbox[m] ELSE None]

-----------------------------------------------------------------------------
(* The user. The conditional UPDATE at the start of a run holds the lock of *)
(* the account's row until the run first commits.                           *)

SetAccount(status, grant) ==
    /\ ~run.locked
    /\ account' = [status |-> status, grant |-> grant]
    /\ UNCHANGED <<graphVars, unreported, db, tx, run>>

Reconnect == account.grant < MaxGrant /\ SetAccount("connected", account.grant + 1)
Pause == SetAccount("disconnected", account.grant)
Resume == SetAccount("connected", account.grant)

User == Reconnect \/ Pause \/ Resume

-----------------------------------------------------------------------------
(* The worker *)

\* Mutant of Applies: the UPDATE forgets the grant.
AppliesToAnyGrant(status) ==
    \/ account.status \in Usable
    \/ status = "reauth_required" /\ account.status = "reauth_required"

\* update_account_if_current: does the conditional UPDATE find its row?
Applies(status) ==
    /\ run.grant = account.grant
    /\ \/ account.status \in Usable
       \/ status = "reauth_required" /\ account.status = "reauth_required"

\* What the account's row holds once the open transaction commits.
CommittedAccount ==
    IF run.locked THEN [account EXCEPT !.status = "syncing"] ELSE account

\* Mutant of Load: the status of the account is not looked at.
LoadAny ==
    /\ run.pc = "idle"
    /\ run' = [IdleRun EXCEPT !.pc = "loaded", !.grant = account.grant,
                              !.prev = account.status]
    /\ UNCHANGED <<graphVars, unreported, account, db, tx>>

\* process_message reads the account; what it has read may be stale at Start.
Load ==
    /\ run.pc = "idle"
    /\ account.status \in Usable
    /\ run' = [IdleRun EXCEPT !.pc = "loaded", !.grant = account.grant,
                              !.prev = account.status]
    /\ UNCHANGED <<graphVars, unreported, account, db, tx>>

Start ==
    /\ run.pc = "loaded"
    /\ run' = IF Applies("syncing") THEN [run EXCEPT !.pc = "listing", !.locked = TRUE]
              ELSE IdleRun
    /\ UNCHANGED <<graphVars, unreported, account, db, tx>>

ListFolders ==
    /\ run.pc = "listing"
    /\ run' = [run EXCEPT !.pc = "folder", !.folders = There]
    /\ UNCHANGED <<graphVars, unreported, account, db, tx>>

NextFolder(f) ==
    /\ run.pc = "folder" /\ f \in run.folders
    /\ run' = [run EXCEPT !.pc = "delta", !.folder = f, !.began = None, !.seen = {}]
    /\ UNCHANGED <<graphVars, unreported, account, db, tx>>

\* The link of the next request: the folder's cursor, then the round's own.
Link == IF run.began = None THEN tx.cursor[run.folder] ELSE run.began
Honoured == run.folder \in There /\ (Link = None \/ Link >= floor)

\* A page of a round. The round's delta link will report what changes after the
\* round began; what had changed before is on one of its pages.
DeltaPage ==
    LET f == run.folder
        began == IF run.began = None THEN clock ELSE run.began
        reported == Reported(f, tx.cursor[f])
    IN
    /\ run.pc = "delta" /\ Honoured
    /\ \E page \in SUBSET reported, last \in BOOLEAN :
        /\ IF last THEN {m \in reported : touched[f][m] <= began} \subseteq run.seen \cup page
                   ELSE ~(page \subseteq run.seen)
        /\ run' = [run EXCEPT !.pc = "items", !.began = began, !.last = last,
                              !.seen = @ \cup page,
                              !.items = {ItemOf(f, m) : m \in page}]
    \* Listing a folder afresh says nothing of what has left it.
    /\ unreported' = IF tx.cursor[f] # None \/ run.began # None THEN unreported
                     ELSE unreported \cup {m \in Msg : mailbox[m] = None /\ touched[f][m] # None}
    /\ UNCHANGED <<graphVars, account, db, tx>>

SaveItem(i) ==
    /\ run.pc = "items" /\ i \in run.items /\ i.version # None
    /\ tx' = [tx EXCEPT !.stored[i.msg] = i.version]
    /\ run' = [run EXCEPT !.items = @ \ {i}]
    /\ UNCHANGED <<graphVars, unreported, account, db>>

\* Mutant of ResolveRemoved: what leaves a folder is taken for deleted.
MarkRemoved(i) ==
    /\ run.pc = "items" /\ i \in run.items /\ i.version = None
    /\ tx' = [tx EXCEPT !.stored[i.msg] = None]
    /\ run' = [run EXCEPT !.items = @ \ {i}]
    /\ UNCHANGED <<graphVars, unreported, account, db>>

\* An "@removed" is looked up account-wide: a 404 marks the row deleted, what
\* has only moved is stored as it is now.
ResolveRemoved(i) ==
    /\ run.pc = "items" /\ i \in run.items /\ i.version = None
    /\ tx' = [tx EXCEPT !.stored[i.msg] = mailbox[i.msg]]
    /\ run' = [run EXCEPT !.items = @ \ {i}]
    /\ UNCHANGED <<graphVars, unreported, account, db>>

\* Mutant of EndPage: the continuation of a page is saved as the cursor.
EndPageSavingAlways ==
    LET f == run.folder IN
    /\ run.pc = "items" /\ run.items = {}
    /\ tx' = [tx EXCEPT !.cursor[f] = run.began]
    /\ run' = IF run.last THEN [run EXCEPT !.pc = "folder", !.folders = @ \ {f}]
              ELSE [run EXCEPT !.pc = "delta"]
    /\ UNCHANGED <<graphVars, unreported, account, db>>

\* Only the delta link of a finished round becomes the folder's cursor.
EndPage ==
    LET f == run.folder IN
    /\ run.pc = "items" /\ run.items = {}
    /\ tx' = IF run.last THEN [tx EXCEPT !.cursor[f] = run.began] ELSE tx
    /\ run' = IF run.last THEN [run EXCEPT !.pc = "folder", !.folders = @ \ {f}]
              ELSE [run EXCEPT !.pc = "delta"]
    /\ UNCHANGED <<graphVars, unreported, account, db>>

\* Mutant of DeltaExpired: the folder is skipped.
DeltaExpiredSkipping ==
    /\ run.pc = "delta" /\ ~Honoured /\ tx.cursor[run.folder] # None
    /\ run' = [run EXCEPT !.pc = "folder", !.folders = @ \ {run.folder}]
    /\ UNCHANGED <<graphVars, unreported, account, db, tx>>

\* The link has expired, or the folder is gone: the cursor is deleted and the
\* folder listed afresh, once.
DeltaExpired ==
    /\ run.pc = "delta" /\ ~Honoured /\ tx.cursor[run.folder] # None
    /\ tx' = [tx EXCEPT !.cursor[run.folder] = None]
    /\ run' = [run EXCEPT !.began = None, !.seen = {}]
    /\ UNCHANGED <<graphVars, unreported, account, db>>

\* A run that ends commits what it holds, and writes the account only if its
\* grant is still the account's and the user has not paused it.
EndRun(status) ==
    /\ db' = tx
    /\ account' = IF Applies(status) THEN [account EXCEPT !.status = status]
                  ELSE CommittedAccount
    /\ run' = IdleRun
    /\ UNCHANGED <<graphVars, unreported, tx>>

Finish == run.pc = "folder" /\ run.folders = {} /\ EndRun("connected")

\* The folder is not there, or the round is listed too slowly.
DeltaExpiredAgain ==
    /\ run.pc = "delta" /\ ~Honoured /\ tx.cursor[run.folder] = None
    /\ EndRun("error")

\* Graph is unavailable: the health the account had before the run is restored,
\* unless that was a run a crash interrupted.
FailTransiently ==
    /\ run.pc \in CallingGraph
    /\ EndRun(IF run.prev = "syncing" THEN "connected" ELSE run.prev)

\* Anything else: an unexpected answer, invalid_grant.
Fail ==
    /\ run.pc \in CallingGraph
    /\ \E status \in {"error", "reauth_required"} : EndRun(status)

\* A 401 in the middle of a run: the token manager rereads the credentials,
\* and when it has to refresh them it commits the session.
RereadGrant ==
    /\ run.pc \in CallingGraph
    /\ account.status \in Usable
    /\ run' = [run EXCEPT !.grant = account.grant]
    /\ UNCHANGED <<graphVars, unreported, account, db, tx>>

RefreshToken ==
    /\ run.pc \in CallingGraph
    /\ account.status \in Usable
    /\ db' = tx
    /\ account' = CommittedAccount
    /\ run' = [run EXCEPT !.grant = account.grant, !.locked = FALSE]
    /\ UNCHANGED <<graphVars, unreported, tx>>

\* The process dies: PostgreSQL rolls the open transaction back.
Crash ==
    /\ run.pc # "idle"
    /\ tx' = db
    /\ run' = IdleRun
    /\ UNCHANGED <<graphVars, unreported, account, db>>

Worker ==
    \/ Load \/ Start \/ ListFolders \/ DeltaPage \/ EndPage
    \/ DeltaExpired \/ DeltaExpiredAgain \/ Finish
    \/ \E f \in Folder : NextFolder(f)
    \/ \E i \in run.items : SaveItem(i) \/ ResolveRemoved(i)

Next ==
    \/ Graph \/ User \/ Worker
    \/ FailTransiently \/ Fail \/ RereadGrant \/ RefreshToken \/ Crash

Spec == Init /\ [][Next]_vars

\* The scheduler redelivers an idle account; every call to Graph has a timeout.
FairSpec == Spec /\ WF_vars(Worker)

-----------------------------------------------------------------------------
(* What the synchronization promises *)

\* A copy that differs from the mailbox is owed to a delta: that of the folder
\* the message is in has a change of it after the folder's cursor; the removal
\* of a message is reported by some folder, unless nothing reports it.
Pending(data, f, m) == folders[f] = "there" /\ touched[f][m] > data.cursor[f]
Owed(data, m) ==
    IF mailbox[m] # None THEN Pending(data, place[m], m)
    ELSE m \in unreported \/ \E f \in Folder : Pending(data, f, m)
NoLostChange == \A m \in Msg : db.stored[m] # mailbox[m] => Owed(db, m)

LeavesAccount == run.pc # "idle" /\ run.grant # account.grant /\ ~User => account' = account
\* A run overtaken by a new grant writes nothing on the account: neither its
\* late error, nor the health it restores, nor its late success replaces what
\* the user just set up.
OvertakenRunWritesNothing == [][LeavesAccount]_vars

\* The copy implements MailMirror: it never moves back to an older version of
\* a message, though folders are read one after the other while messages move
\* between them, and it drops only what is gone.
Mirror == INSTANCE MailMirror WITH Absent <- None, copy <- db.stored
ImplementsMirror == Mirror!Spec

\* When faults stop and the account stays usable, the copy catches up with the
\* mailbox, save for removals that Graph reports to nobody.
FaultsStop == <>[][~(FailTransiently \/ Fail \/ Crash)]_vars
EventuallyMirrored ==
    FaultsStop /\ <>[](account.status \in Usable) =>
        <>[](\A m \in Msg : db.stored[m] = mailbox[m] \/ m \in unreported)
=============================================================================
