------------------------------- MODULE Messages -------------------------------
(***************************************************************************)
(* What becomes of a stored message: the outbox that has it analyzed, the  *)
(* state the user and the provider give it, the lists and folders that     *)
(* show it, and its content.  The components share nothing: in a behaviour *)
(* one of them runs, the outbox stays as it begins when it is not the one, *)
(* and the variables of the rest are not used (`unused').                  *)
(***************************************************************************)
EXTENDS AnalysisOutbox, FiniteSets

CONSTANTS
    \* MessageState
    StateRow, Editor, Batch, MaxImports, MaxOverlapping, MaxInTurn,
    \* Pages
    ListRow, MaxTime, Limit,
    \* Inbox
    FolderMessage, Mailbox, Category, NoValue,
    \* MessageContent
    Part, Item, Page, MaxBody, MaxItems, MaxPages, NoItem,
    unused

ASSUME StateAssumption == StateRow \subseteq Nat \ {0} /\ IsFiniteSet(StateRow) /\ Batch \in Nat \ {0}
ASSUME ListAssumption ==
    ListRow \subseteq Int /\ IsFiniteSet(ListRow) /\ MaxTime \in Nat \ {0} /\ Limit \in Nat \ {0}
\* Category of analysis/schemas.py: no category is written as a filter's key is.
ASSUME FolderAssumption ==
    /\ IsFiniteSet(FolderMessage) /\ {"inbox", "archive"} \subseteq Mailbox
    /\ Category \cap {"pagos", "promociones", "unanalyzed"} = {}
    /\ NoValue \notin BOOLEAN /\ NoValue \notin {"pagos", "promociones", "unanalyzed"}
    /\ NoValue \notin {{"low"}, {"high", "critical"}}
    /\ NoValue \notin [category: Category, risk: {"low", "high", "critical"}]
ASSUME ContentAssumption ==
    /\ IsFiniteSet(Part) /\ Part = 1..Cardinality(Part)
    /\ IsFiniteSet(Item) /\ NoItem \notin Item /\ Page \subseteq Nat \ {0} /\ 1 \in Page
    /\ MaxBody \in Nat /\ MaxItems \in Nat /\ MaxPages \in Nat

VARIABLES
    running,
    \* MessageState
    row, import, edit, backfill, last, imports, edits,
    \* Pages
    list, time, shown, cursor, seen, moved, hidden, done,
    \* Inbox
    listed, query,
    \* MessageContent
    provider, kind, part, item, next, wanted, pc, total, at, linked, refs, pages, body, warning,
    failed, sent

\* Imports and edits come between an edit's read and its write, or they do not.
State(overlap) == INSTANCE MessageState WITH
    Row <- StateRow, Overlap <- overlap,
    MaxEdits <- IF overlap THEN MaxOverlapping ELSE MaxInTurn
Lists == INSTANCE Pages WITH Row <- ListRow
Folders == INSTANCE Inbox WITH Message <- FolderMessage, None <- NoValue, message <- listed
Content == INSTANCE MessageContent WITH seen <- linked

stateVars == <<row, import, edit, backfill, last, imports, edits>>
listVars == <<list, time, shown, cursor, seen, moved, hidden, done>>
folderVars == <<listed, query>>
contentVars == <<provider, kind, part, item, next, wanted, pc, total, at, linked, refs, pages,
                 body, warning, failed, sent>>
allVars == <<running, vars, stateVars, listVars, folderVars, contentVars>>

NoState ==
    /\ row = unused /\ import = unused /\ edit = unused /\ backfill = unused
    /\ last = unused /\ imports = unused /\ edits = unused
NoList ==
    /\ list = unused /\ time = unused /\ shown = unused /\ cursor = unused
    /\ seen = unused /\ moved = unused /\ hidden = unused /\ done = unused
NoFolder == listed = unused /\ query = unused
NoContent ==
    /\ provider = unused /\ kind = unused /\ part = unused /\ item = unused /\ next = unused
    /\ wanted = unused /\ pc = unused /\ total = unused /\ at = unused
    /\ linked = unused /\ refs = unused /\ pages = unused /\ body = unused
    /\ warning = unused /\ failed = unused /\ sent = unused

Begin ==
    /\ Init
    /\ \/ running = "outbox" /\ NoState /\ NoList /\ NoFolder /\ NoContent
       \/ running = "state" /\ State(TRUE)!Init /\ NoList /\ NoFolder /\ NoContent
       \/ running = "state in turn" /\ State(FALSE)!Init /\ NoList /\ NoFolder /\ NoContent
       \/ running = "lists" /\ Lists!Init /\ NoState /\ NoFolder /\ NoContent
       \/ running = "folders" /\ Folders!Init /\ NoState /\ NoList /\ NoContent
       \/ running = "content" /\ Content!Init /\ NoState /\ NoList /\ NoFolder

Step ==
    \/ running = "outbox" /\ Next
       /\ UNCHANGED <<running, stateVars, listVars, folderVars, contentVars>>
    \/ /\ \/ running = "state" /\ State(TRUE)!Next
          \/ running = "state in turn" /\ State(FALSE)!Next
       /\ UNCHANGED <<running, vars, listVars, folderVars, contentVars>>
    \/ running = "lists" /\ Lists!Next
       /\ UNCHANGED <<running, vars, stateVars, folderVars, contentVars>>
    \/ running = "folders" /\ Folders!Next
       /\ UNCHANGED <<running, vars, stateVars, listVars, contentVars>>
    \/ running = "content" /\ Content!Next
       /\ UNCHANGED <<running, vars, stateVars, listVars, folderVars>>

Behaviours == Begin /\ [][Step]_allVars

-----------------------------------------------------------------------------
\* MessageState: though imports, edits and the backfill come between each other's reading
\* and writing, the provider's value is that of the payload the row keeps, and every row is
\* filled when the backfill has ended.  If nothing overlaps an edit, what is shown is the
\* user's value, or the provider's if there is none, and the user's last edit is kept.
VisibleIsEffective ==
    /\ running = "state" => State(TRUE)!TypeOK /\ State(TRUE)!ProviderIsPayload /\ State(TRUE)!EveryRowFilled
    /\ running = "state in turn" =>
          State(FALSE)!TypeOK /\ State(FALSE)!VisibleIsEffective /\ State(FALSE)!LastEditKept

\* Pages: a row that was in the list all the time is on one of the pages, and no row is on
\* two unless it has moved in the list.
NothingSkipped == running = "lists" => Lists!TypeOK /\ Lists!NothingSkipped /\ Lists!NothingTwice

\* Inbox: a folder's number is the number of the messages of its list, the account's totals
\* are those of the list of all, and a share is never above one; a folder shows nothing
\* that is not of it, whatever the search says.
FoldersAgree ==
    running = "folders" =>
        /\ Folders!TypeOK /\ Folders!CountsAgree /\ Folders!AccountAgrees
        /\ Folders!CoverageIsShare /\ Folders!FolderHolds

\* MessageContent: an opened message shows the first HTML and the first plain text of the
\* whole message, or a warning; a list without an error has every file once, or none where
\* the message says it has none; what is downloaded is on the list, and the limits hold of
\* what arrives and not of what was announced.
ContentIsWhole ==
    running = "content" =>
        /\ Content!TypeOK /\ Content!FullOrWarned /\ Content!BodyBounded
        /\ Content!ListIsWhole /\ Content!ListBounded /\ Content!DownloadIsListed
=============================================================================
