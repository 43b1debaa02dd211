--------------------------- MODULE MCLiveMailboxes ---------------------------
(***************************************************************************)
(* Instances for TLC of what has to come about in the copies of mailboxes: *)
(* the dispatch and the three synchronizers.  They share nothing: in a     *)
(* behaviour one of them runs and the others stay as they begin.           *)
(***************************************************************************)
EXTENDS Integers

CONSTANTS a1, s1, s2, nobody, orphan, m1, m2, inbox, nowhere

VARIABLES
    running,
    \* SyncDispatch
    status, due, cooldown, lease, queue, slot, sched,
    \* GmailSync
    gmailbox, log, gmailFloor, gmailAccount, gmailDb, gmailTx, gmailRun,
    \* MicrosoftSync
    place, graphMailbox, touched, folders, clock, graphFloor, unreported, graphAccount,
    graphDb, graphTx, graphRun,
    \* ImapSync
    mail, present, imapAccount, imapRows, apiRows, imapRun, excused, faults

Dispatch == INSTANCE SyncDispatch WITH
    Account <- {a1}, Slot <- {s1, s2}, NoOwner <- nobody, Orphan <- orphan, MaxQueued <- 1
Gmail == INSTANCE GmailSync WITH
    Msg <- {m1, m2}, MaxHistory <- 1, MaxGrant <- 0,
    mailbox <- gmailbox, floor <- gmailFloor, account <- gmailAccount, db <- gmailDb,
    tx <- gmailTx, run <- gmailRun
Microsoft == INSTANCE MicrosoftSync WITH
    Msg <- {m1, m2}, Folder <- {inbox}, Nowhere <- nowhere, MaxClock <- 2, MaxGrant <- 0,
    mailbox <- graphMailbox, floor <- graphFloor, account <- graphAccount, db <- graphDb,
    tx <- graphTx, run <- graphRun
ImapFolder == INSTANCE ImapSync WITH
    Msg <- {m1, m2}, Window <- 1, HistoryBase <- 10, MaxUid <- 2, MaxGrant <- 0, MaxFaults <- 1,
    inbox <- present, account <- imapAccount, run <- imapRun

dispatchVars == <<status, due, cooldown, lease, queue, slot, sched>>
gmailVars == <<gmailbox, log, gmailFloor, gmailAccount, gmailDb, gmailTx, gmailRun>>
graphVars == <<place, graphMailbox, touched, folders, clock, graphFloor, unreported,
               graphAccount, graphDb, graphTx, graphRun>>
imapVars == <<mail, present, imapAccount, imapRows, apiRows, imapRun, excused, faults>>
vars == <<running, dispatchVars, gmailVars, graphVars, imapVars>>

Init ==
    /\ running \in {"dispatch", "gmail", "microsoft", "imap"}
    /\ Dispatch!Init
    /\ Gmail!Init /\ (running # "gmail" => \A m \in {m1, m2} : gmailbox[m] = -1)
    /\ Microsoft!Init
    /\ running # "microsoft" => folders[inbox] = "future"
    /\ ImapFolder!Init

Next ==
    \/ running = "dispatch" /\ Dispatch!Next
       /\ UNCHANGED <<running, gmailVars, graphVars, imapVars>>
    \/ running = "gmail" /\ Gmail!Next
       /\ UNCHANGED <<running, dispatchVars, graphVars, imapVars>>
    \/ running = "microsoft" /\ Microsoft!Next
       /\ UNCHANGED <<running, dispatchVars, gmailVars, imapVars>>
    \/ running = "imap" /\ ImapFolder!Next
       /\ UNCHANGED <<running, dispatchVars, gmailVars, graphVars>>

\* The fairness that each component's FairSpec states.
Fairness ==
    /\ SF_dispatchVars(running = "dispatch" /\ Dispatch!Tick)
    /\ WF_dispatchVars(running = "dispatch" /\ Dispatch!OrphanExpires(a1))
    /\ WF_dispatchVars(running = "dispatch" /\ Dispatch!CooldownEnds(a1))
    /\ SF_dispatchVars(running = "dispatch" /\ \E s \in {s1, s2} : Dispatch!Receive(s, a1))
    /\ \A s \in {s1, s2} : WF_dispatchVars(running = "dispatch" /\ Dispatch!Proceed(s))
    /\ WF_gmailVars(running = "gmail" /\ Gmail!Worker)
    /\ WF_graphVars(running = "microsoft" /\ Microsoft!Worker)
    /\ WF_imapVars(running = "imap" /\ ImapFolder!Worker)
    /\ WF_imapVars(running = "imap" /\ ImapFolder!FetchGiven)

Spec == Init /\ [][Next]_vars /\ Fairness

-----------------------------------------------------------------------------
\* Once faults stop, an account that is due is imported (SyncDispatch), and an account that
\* is imported has a copy that catches up with the mailbox, save for removals that no delta
\* reports and messages that IMAP refuses.
EventuallyMirrored ==
    /\ running = "dispatch" => Dispatch!EventuallySynced
    /\ Gmail!EventuallyMirrored
    /\ Microsoft!EventuallyMirrored
    /\ ImapFolder!EventuallyStored
=============================================================================
