------------------------------- MODULE ImapSync -------------------------------
(***************************************************************************)
(* ImapSyncService (modules/mail/sync.py) and GmailImapClient              *)
(* (modules/mail/imap.py): a Gmail account reached with an application     *)
(* password, whose only cursor is the highest uid of the INBOX seen; and   *)
(* the same account reached over OAuth, whose cursor, in the same column,  *)
(* is a Gmail history id.  The import over the Gmail API is GmailSync's;   *)
(* here it begins, and ends with everything imported or with a failure.    *)
(* Leases let one run at a time import an account (SyncDispatch).          *)
(*                                                                         *)
(* The INBOX is external: a message that enters it, or comes back, gets    *)
(* the next uid.                                                           *)
(***************************************************************************)
EXTENDS Integers, Sequences, FiniteSets, FiniteSetsExt

CONSTANTS
    Msg,          \* messages
    Window,       \* how many of the last messages a first import takes (2000)
    HistoryBase,  \* where Gmail's history ids begin, far above the uids
    MaxUid,       \* bound: uids given
    MaxGrant,     \* bound: reconnects
    MaxFaults     \* bound: runs that fail or die

VARIABLES
    mail,      \* INBOX: mail[u] is the message that got uid u
    inbox,     \* INBOX: the uids there now
    account,   \* mail_accounts: transport, grant generation, status, history_cursor
    imapRows,  \* email_messages of ids imap-<uid>: those uids
    apiRows,   \* active email_messages of Gmail ids: those messages
    run,       \* the worker's run
    excused,   \* uids a run has passed over: refused, or before its window (history)
    faults     \* runs that have failed or died

vars == <<mail, inbox, account, imapRows, apiRows, run, excused, faults>>
inboxVars == <<mail, inbox>>

None == 0
Usable == {"connected", "syncing", "error"}
IdleRun == [pc |-> "idle", imap |-> TRUE, grant |-> 0, cursor |-> None, todo |-> {}, got |-> {}]
Uids == 1..Len(mail)

TypeOK ==
    /\ mail \in Seq(Msg) /\ inbox \subseteq Uids
    /\ account \in [imap: BOOLEAN, grant: Nat, status: Usable \cup {"disconnected"}, cursor: Nat]
    /\ imapRows \subseteq Uids /\ excused \subseteq Uids
    /\ apiRows \subseteq Msg /\ faults \in Nat
    /\ run \in [pc: {"idle", "loaded", "search", "fetch", "api"}, imap: BOOLEAN, grant: Nat,
                cursor: Nat, todo: SUBSET Uids, got: SUBSET Uids]

Init ==
    /\ mail = <<>> /\ inbox = {}
    /\ account = [imap |-> TRUE, grant |-> 0, status |-> "connected", cursor |-> None]
    /\ imapRows = {} /\ apiRows = {} /\ excused = {}
    /\ run = IdleRun /\ faults = 0

-----------------------------------------------------------------------------
(* The INBOX and the user *)

Arrive(m) ==
    /\ Len(mail) < MaxUid /\ \A u \in inbox : mail[u] # m
    /\ mail' = Append(mail, m) /\ inbox' = inbox \cup {Len(mail) + 1}
    /\ UNCHANGED <<account, imapRows, apiRows, run, excused, faults>>
Leave(u) ==
    /\ inbox' = inbox \ {u}
    /\ UNCHANGED <<mail, account, imapRows, apiRows, run, excused, faults>>

SetAccount(a) ==
    /\ account' = a
    /\ UNCHANGED <<inboxVars, imapRows, apiRows, run, excused, faults>>

\* Mutant of ReconnectImap: the cursor of the other transport is kept.
ReconnectImapKeepingCursor ==
    /\ account.grant < MaxGrant
    /\ SetAccount([account EXCEPT !.imap = TRUE, !.grant = @ + 1, !.status = "connected"])

ReconnectImap ==
    /\ account.grant < MaxGrant
    /\ SetAccount([imap |-> TRUE, grant |-> account.grant + 1, status |-> "connected",
                   cursor |-> None])
\* The uid stays in history_cursor: Gmail does not know it, and all is imported.
ReconnectOAuth ==
    /\ account.grant < MaxGrant
    /\ SetAccount([account EXCEPT !.imap = FALSE, !.grant = @ + 1, !.status = "connected"])
Pause == SetAccount([account EXCEPT !.status = "disconnected"])
Resume == SetAccount([account EXCEPT !.status = "connected"])

-----------------------------------------------------------------------------
(* A run *)

\* Mutant of Applies: the UPDATE forgets the grant.
AppliesToAnyGrant == account.status \in Usable

\* update_account_if_current
Applies == account.grant = run.grant /\ account.status \in Usable

\* The end of a run: a conditional UPDATE of the account, and the commit of the
\* rows the run has stored, whether or not the UPDATE found the account.
EndRun(status, cursor, rows) ==
    /\ account' = IF Applies THEN [account EXCEPT !.status = status, !.cursor = cursor] ELSE account
    /\ imapRows' = imapRows \cup rows
    /\ run' = IdleRun

Load ==
    /\ run.pc = "idle" /\ account.status \in Usable
    /\ run' = [IdleRun EXCEPT !.pc = "loaded", !.imap = account.imap, !.grant = account.grant,
                              !.cursor = account.cursor]
    /\ UNCHANGED <<inboxVars, account, imapRows, apiRows, excused, faults>>

\* SYNCING, in a transaction of its own until the run ends: the account's row is
\* locked, and what others see of it does not change.
Start ==
    /\ run.pc = "loaded"
    /\ run' = IF ~Applies THEN IdleRun
              ELSE [run EXCEPT !.pc = IF run.imap THEN "search" ELSE "api"]
    /\ UNCHANGED <<inboxVars, account, imapRows, apiRows, excused, faults>>

LastOf(uids, n) == {u \in uids : Cardinality({v \in uids : v >= u}) <= n}

\* Mutant of Search: only the last message after the cursor is taken.
SearchLast ==
    /\ run.pc = "search"
    /\ LET pending == LastOf({u \in inbox : u > run.cursor}, 1)
       IN  run' = [run EXCEPT !.pc = "fetch", !.todo = pending,
                              !.cursor = IF inbox = {} THEN @ ELSE Max(inbox)]
    /\ UNCHANGED <<inboxVars, account, imapRows, apiRows, excused, faults>>

\* UID SEARCH ALL: what is after the cursor, or the last messages of all; the next
\* cursor is the highest uid found, be it lower than the last.
Search ==
    /\ run.pc = "search"
    /\ LET pending == {u \in inbox : u > run.cursor}
           taken == IF run.cursor = None THEN LastOf(pending, Window) ELSE pending
       IN  /\ run' = [run EXCEPT !.pc = "fetch", !.todo = taken,
                                 !.cursor = IF inbox = {} THEN @ ELSE Max(inbox)]
           /\ excused' = excused \cup (pending \ taken)
    /\ UNCHANGED <<inboxVars, account, imapRows, apiRows, faults>>

\* UID FETCH of each message, in order.  One that is gone or refused is left out,
\* and the cursor will pass over it.
Fetch ==
    /\ run.pc = "fetch" /\ run.todo # {}
    /\ LET u == Min(run.todo)
       IN  \/ u \in inbox /\ run' = [run EXCEPT !.todo = @ \ {u}, !.got = @ \cup {u}]
                          /\ UNCHANGED excused
           \/ run' = [run EXCEPT !.todo = @ \ {u}] /\ excused' = excused \cup {u}
    /\ UNCHANGED <<inboxVars, account, imapRows, apiRows, faults>>
FetchGiven ==
    /\ run.pc = "fetch" /\ run.todo # {}
    /\ LET u == Min(run.todo)
       IN  u \in inbox /\ run' = [run EXCEPT !.todo = @ \ {u}, !.got = @ \cup {u}]
    /\ UNCHANGED <<inboxVars, account, imapRows, apiRows, excused, faults>>

\* Mutant of Finish: the cursor is the highest uid when the run ends.
FinishAtLatest ==
    /\ run.pc = "fetch" /\ run.todo = {}
    /\ EndRun("connected", IF inbox = {} THEN run.cursor ELSE Max(inbox), run.got)
    /\ UNCHANGED <<inboxVars, apiRows, excused, faults>>

Finish ==
    /\ run.pc = "fetch" /\ run.todo = {}
    /\ EndRun("connected", run.cursor, run.got)
    /\ UNCHANGED <<inboxVars, apiRows, excused, faults>>

\* IMAP fails: nothing has been stored.  Storing fails: some of it has.
Fail ==
    /\ run.pc \in {"search", "fetch", "api"}
    /\ faults < MaxFaults /\ faults' = faults + 1
    /\ \E rows \in SUBSET (IF run.todo = {} THEN run.got ELSE {}) :
          EndRun("error", account.cursor, rows)
    /\ UNCHANGED <<inboxVars, apiRows, excused>>

\* A whole import over the Gmail API, which also marks as deleted what it has not
\* found: the rows of IMAP's ids.  (The INBOX stands for the mailbox.)
FinishApi ==
    /\ run.pc = "api"
    /\ apiRows' = {mail[u] : u \in inbox}
    /\ imapRows' = {} /\ run' = IdleRun
    /\ account' = IF Applies THEN [account EXCEPT !.status = "connected",
                                                  !.cursor = HistoryBase + Len(mail)] ELSE account
    /\ UNCHANGED <<inboxVars, excused, faults>>

Crash ==
    /\ run.pc # "idle"
    /\ faults < MaxFaults /\ faults' = faults + 1
    /\ run' = IdleRun
    /\ UNCHANGED <<inboxVars, account, imapRows, apiRows, excused>>

-----------------------------------------------------------------------------
User == ReconnectImap \/ ReconnectOAuth \/ Pause \/ Resume
Worker == Load \/ Start \/ Search \/ Fetch \/ Finish \/ FinishApi
Next ==
    \/ \E m \in Msg : Arrive(m)
    \/ \E u \in inbox : Leave(u)
    \/ User \/ Worker \/ Fail \/ Crash

Spec == Init /\ [][Next]_vars
\* The scheduler's ticks bring a delivery again and again, and the worker works.
FairSpec == Spec /\ WF_vars(Worker) /\ WF_vars(FetchGiven)

-----------------------------------------------------------------------------
\* What the cursor has passed is stored, unless IMAP refused it or it was before
\* the first import's window: nothing that enters the INBOX meanwhile is missed.
NothingPassedOver ==
    account.imap => \A u \in inbox : u <= account.cursor => u \in imapRows \cup excused

\* The two transports share a column: a Gmail history id is never taken for a uid,
\* which would pass over every message to come.
CursorIsUid == account.imap => account.cursor < HistoryBase

\* A message that stays in the INBOX is stored in the end, or known to have been
\* refused, if the account stays connected over IMAP.
EventuallyStored ==
    <>[](account.imap /\ account.status \in Usable) =>
        \A u \in 1..MaxUid : [](u \in inbox => <>(u \notin inbox \/ u \in imapRows \cup excused))

\* A message has one active row ("importación idempotente por mensaje").  It holds for
\* an account that keeps its transport; the two transports name a message differently,
\* so that an account that changes over has its messages twice.
OneRowPerMessage ==
    \A u \in imapRows : mail[u] \notin apiRows /\ \A v \in imapRows : mail[u] = mail[v] => u = v
=============================================================================
