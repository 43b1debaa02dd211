------------------------------- MODULE Mailboxes -------------------------------
(***************************************************************************)
(* The three synchronizers.  They share nothing: in a behaviour one of     *)
(* them runs; Gmail's stays as it begins when it is not the one, and the   *)
(* variables of the others are not used (`unused').                        *)
(***************************************************************************)
EXTENDS GmailSync

CONSTANTS
    \* MicrosoftSync: messages that move between folders, or fill the pages of some
    MovedMsg, FiledMsg, Folders, Home, Nowhere, MaxClock, MaxGraphGrant,
    \* ImapSync
    ImapMsg, Window, HistoryBase, MaxUid, MaxImapGrant, MaxFaults,
    unused

ASSUME GraphAssumption == Nowhere \notin Folders \cup Home
\* Gmail's history ids are far above the uids of an INBOX: the two share a column.
ASSUME ImapAssumption == HistoryBase \in Nat /\ MaxUid \in Nat /\ MaxUid < HistoryBase

VARIABLES
    running,
    \* MicrosoftSync
    place, graphMailbox, touched, folders, clock, graphFloor, unreported, graphAccount,
    graphDb, graphTx, graphRun,
    \* ImapSync
    mail, present, imapAccount, imapRows, apiRows, imapRun, excused, faults

\* Messages move between the folders; or those of a folder are on pages of their own, and the
\* user reconnects.
GraphMsg(moving) == IF moving THEN MovedMsg ELSE FiledMsg
GraphFolder(moving) == IF moving THEN Folders ELSE Home
Graph(moving) == INSTANCE MicrosoftSync WITH
    Msg <- GraphMsg(moving), Folder <- GraphFolder(moving),
    MaxGrant <- IF moving THEN 0 ELSE MaxGraphGrant,
    mailbox <- graphMailbox, floor <- graphFloor, account <- graphAccount, db <- graphDb,
    tx <- graphTx, run <- graphRun
Imap == INSTANCE ImapSync WITH
    Msg <- ImapMsg, MaxGrant <- MaxImapGrant, inbox <- present, account <- imapAccount,
    run <- imapRun

graphVars == <<place, graphMailbox, touched, folders, clock, graphFloor, unreported,
               graphAccount, graphDb, graphTx, graphRun>>
imapVars == <<mail, present, imapAccount, imapRows, apiRows, imapRun, excused, faults>>
allVars == <<running, vars, graphVars, imapVars>>

NoGraph ==
    /\ place = unused /\ graphMailbox = unused /\ touched = unused /\ folders = unused
    /\ clock = unused /\ graphFloor = unused /\ unreported = unused
    /\ graphAccount = unused /\ graphDb = unused /\ graphTx = unused /\ graphRun = unused
NoImap ==
    /\ mail = unused /\ present = unused /\ imapAccount = unused /\ imapRows = unused
    /\ apiRows = unused /\ imapRun = unused /\ excused = unused /\ faults = unused

Begin ==
    /\ Init
    /\ \/ running = "gmail" /\ NoGraph /\ NoImap
       \/ /\ \A m \in Msg : mailbox[m] = None
          /\ \/ running = "moves" /\ Graph(TRUE)!Init /\ NoImap
             \/ running = "folder" /\ Graph(FALSE)!Init /\ NoImap
             \/ running = "imap" /\ Imap!Init /\ NoGraph

Step ==
    \/ running = "gmail" /\ Next /\ UNCHANGED <<running, graphVars, imapVars>>
    \/ /\ \/ running = "moves" /\ Graph(TRUE)!Next
          \/ running = "folder" /\ Graph(FALSE)!Next
       /\ UNCHANGED <<running, vars, imapVars>>
    \/ running = "imap" /\ Imap!Next /\ UNCHANGED <<running, vars, graphVars>>
    \/ running # "gmail" /\ UNCHANGED allVars   \* the others may stop

Behaviours == Begin /\ [][Step]_allVars

-----------------------------------------------------------------------------
\* GmailSync and MicrosoftSync implement MailMirror: whatever is committed, and when, the
\* copy of a message never goes back to an older version, and is dropped only when the
\* message is gone, though Microsoft's folders are read one after the other.
CopiesAreMirrors ==
    /\ ImplementsMirror
    /\ running = "moves" => Graph(TRUE)!Mirror!Init
    /\ [][running = "moves" => [Graph(TRUE)!Mirror!Next]_<<graphMailbox, graphDb, clock>>]_graphVars

\* MicrosoftSync: what differs from the mailbox is what some delta has yet to report, of
\* a message that moves between two folders too; and a run overtaken by a new consent
\* leaves the account's row alone.
GraphLosesNoChange ==
    /\ [](running = "moves" => Graph(TRUE)!TypeOK /\ Graph(TRUE)!NoLostChange)
    /\ [](running = "folder" => Graph(FALSE)!TypeOK /\ Graph(FALSE)!NoLostChange)
    /\ [][running = "folder" => Graph(FALSE)!LeavesAccount]_graphVars

\* ImapSync: a message that the cursor has passed is copied, gone, or one that a run has
\* passed over; the cursor is a uid, never one of Gmail's history ids.
NothingPassedOver ==
    running = "imap" => Imap!TypeOK /\ Imap!NothingPassedOver /\ Imap!CursorIsUid
===============================================================================
