----------------------------- MODULE MessageContent -----------------------------
(***************************************************************************)
(* A message is opened: its body, of which Gmail keeps large parts apart,  *)
(* and the list of its attachments, which Graph gives page by page, are    *)
(* fetched when they are asked for.  Either may fail without the other, a  *)
(* limit holds for each, and the sizes the provider announces may be       *)
(* wrong.  Graph is not asked for the attachments of a message that says   *)
(* it has none, and only what it calls a file is listed; of a Gmail        *)
(* message with more parts, or deeper ones, than are walked nothing is     *)
(* loaded or listed.  Or an attachment is downloaded: it is looked for in  *)
(* the list, then fetched.                                                 *)
(***************************************************************************)
EXTENDS Integers, FiniteSets

CONSTANTS
    Part,     \* text parts of a Gmail message: 1..n
    Item,     \* attachments
    Page,     \* pages of Graph's list: 1..n
    MaxBody,  \* MAX_BODY_BYTES, and MAX_ATTACHMENT_BYTES
    MaxItems, \* MAX_ATTACHMENTS
    MaxPages, \* range(20)
    NoItem

VARIABLES
    provider,
    kind,     \* "unattached": Graph says it has no attachment; "oversized": over _parts' limits
    part,     \* the text parts: HTML or plain, are they apart, the size announced, the size
    item,     \* the attachments: their page, are they files, the size announced, the size
    next,     \* the page that follows each page, 0 after the last
    wanted,   \* the attachment to download; NoItem: the message is opened
    pc,
    total,    \* bytes of body loaded
    at,       \* the part or page that comes next
    seen,     \* pages that were links
    refs,     \* how often each attachment is listed
    pages,    \* pages read
    body,     \* what is shown: parts, or the preview
    warning,  \* content_warning
    failed,   \* attachments_error
    sent      \* bytes of the attachment sent

vars == <<provider, kind, part, item, next, wanted, pc, total, at, seen, refs, pages, body, warning,
          failed, sent>>
message == <<provider, kind, part, item, next, wanted>>

Size == 0..MaxBody + 1
Preview == 0
SavedPart(h, n) == [html |-> h, apart |-> FALSE, announced |-> n, size |-> n]
PartApart == [html: BOOLEAN, apart: {TRUE}, announced: Size, size: Size]

TypeOK ==
    /\ provider \in {"gmail", "microsoft"} /\ kind \in {"usual", "unattached", "oversized"}
    /\ part \in [Part -> [html: BOOLEAN, apart: BOOLEAN, announced: Size, size: Size]]
    /\ item \in [Item -> [page: Page, file: BOOLEAN, announced: Size, size: Size]]
    /\ next \in [Page -> Page \cup {0}]
    /\ wanted \in Item \cup {NoItem}
    /\ pc \in {"load", "show", "list", "fetch", "done", "refused"}
    /\ total \in 0..MaxBody
    /\ at \in Nat /\ seen \subseteq Page /\ refs \in [Item -> Nat] /\ pages \in 0..MaxPages
    /\ body \subseteq Part \cup {Preview}
    /\ warning \in BOOLEAN /\ failed \in BOOLEAN /\ sent \in Size

\* What a message may be: a part that is saved has the size it has, Graph's body is one
\* saved part, an announced size matters where it is read, and an entry that is no file
\* (on page 0 here) may be on any page: it is on none's list.
Init ==
    /\ provider \in {"gmail", "microsoft"}
    /\ kind \in IF provider = "gmail" THEN {"usual", "oversized"} ELSE {"usual", "unattached"}
    /\ wanted \in Item \cup {NoItem}
    /\ part \in IF wanted # NoItem THEN {[p \in Part |-> SavedPart(TRUE, 0)]}
               ELSE IF provider = "gmail" THEN [Part -> {SavedPart(h, n) : h \in BOOLEAN, n \in Size} \cup PartApart]
               ELSE {[p \in Part |-> SavedPart(TRUE, IF p = 1 THEN n ELSE 0)] : n \in Size}
    /\ item \in {[i \in Item |-> [page |-> IF on[i] = 0 THEN 1 ELSE on[i], file |-> on[i] # 0,
                                 announced |-> IF i = wanted THEN a ELSE 0,
                                 size |-> IF i = wanted THEN n ELSE 0]] :
                 on \in [Item -> IF provider = "gmail" THEN {1} ELSE Page \cup {0}],
                 a \in Size, n \in Size}
    /\ next \in [Page -> IF provider = "gmail" THEN {0} ELSE Page \cup {0}]
    /\ pc = (IF wanted = NoItem THEN "load" ELSE "list")
    /\ total = 0 /\ at = 1 /\ seen = {} /\ refs = [i \in Item |-> 0] /\ pages = 0
    /\ body = {} /\ warning = FALSE /\ failed = FALSE /\ sent = 0

-----------------------------------------------------------------------------

\* The limit, before a part is fetched and when it is there.
Fits(p) == (part[p].apart => total + part[p].announced <= MaxBody) /\ total + part[p].size <= MaxBody

\* _gmail_part: the first of a type that is not empty; the preview when there is none.
FirstOf(parts, h) ==
    LET some == {p \in parts : part[p].html = h /\ part[p].size > 0} IN
    {p \in some : \A q \in some : p <= q}
Text(parts) ==
    LET text == FirstOf(parts, TRUE) \cup FirstOf(parts, FALSE) IN IF text = {} THEN {Preview} ELSE text

\* No part is loaded, or the next one is not.
Stuck == kind = "oversized" \/ (at \in Part /\ (part[at].apart \/ ~Fits(at)))

\* Mutant of LoadFails: what was loaded is the body.
LoadFailsSilently ==
    /\ pc = "load" /\ Stuck
    /\ body' = Text({p \in Part : p < at}) /\ pc' = "list" /\ at' = 1
    /\ UNCHANGED <<message, total, seen, refs, pages, warning, failed, sent>>

\* _payload: a part after the other.
Load ==
    /\ pc = "load" /\ kind # "oversized" /\ at \in Part /\ Fits(at)
    /\ total' = total + part[at].size /\ at' = at + 1
    /\ UNCHANGED <<message, pc, seen, refs, pages, body, warning, failed, sent>>

\* It fails: _parts' limits, Gmail's answer to a part that is apart, the token, or the size.
LoadFails ==
    /\ pc = "load" /\ Stuck
    /\ warning' = TRUE /\ pc' = "show"
    /\ UNCHANGED <<message, total, at, seen, refs, pages, body, failed, sent>>

Loaded ==
    /\ pc = "load" /\ kind # "oversized" /\ at \notin Part
    /\ body' = Text(Part) /\ pc' = "list" /\ at' = 1
    /\ UNCHANGED <<message, total, seen, refs, pages, warning, failed, sent>>

\* The parts that are saved; _gmail_part does not find those nested too deep.
Saved == {p \in Part : ~part[p].apart}
Found == IF kind = "oversized" THEN SUBSET Saved ELSE {Saved}

\* Mutant of Show: what is saved is shown, whatever its size.
ShowAnySize ==
    /\ pc = "show"
    /\ \E parts \in Found : body' = Text(parts)
    /\ pc' = "list" /\ at' = 1
    /\ UNCHANGED <<message, total, seen, refs, pages, warning, failed, sent>>

\* The parts that are saved, or the preview when one that would be shown is too large.
Show ==
    /\ pc = "show"
    /\ \E parts \in Found :
          body' = IF \E p \in Text(parts) \ {Preview} : part[p].size > MaxBody THEN {Preview}
                  ELSE Text(parts)
    /\ pc' = "list" /\ at' = 1
    /\ UNCHANGED <<message, total, seen, refs, pages, warning, failed, sent>>

\* The entries of the list, counted: the sum of rs.
Count(rs) == Cardinality(UNION {{i} \X (1..rs[i]) : i \in Item})
\* The entries of a page that are listed: a message or a link is not a file.
OnPage(p) == {i \in Item : item[i].page = p /\ item[i].file}
Listed(p) == [i \in Item |-> IF i \in OnPage(p) THEN refs[i] + 1 ELSE refs[i]]

After == IF wanted = NoItem THEN "done" ELSE "fetch"

\* Mutant of Turn: the last page that may be read ends the list.
TurnEnough(p) ==
    IF next[p] = 0 \/ pages + 1 = MaxPages THEN "end" ELSE IF next[p] \in seen THEN "error" ELSE "page"

\* Mutant of Turn: a link is followed wherever it goes.
TurnAlways(p) == IF next[p] = 0 THEN "end" ELSE "page"

\* The page's link: the end, a page that comes again or one too many, or the next.
Turn(p) ==
    IF next[p] = 0 THEN "end"
    ELSE IF next[p] \in seen \/ pages + 1 = MaxPages THEN "error" ELSE "page"

\* Mutant of ListPage: the limit is that of the page.
ListPageLimit ==
    /\ pc = "list" /\ kind = "usual" /\ at \in Page
    /\ Cardinality(OnPage(at)) <= MaxItems /\ Turn(at) # "error"
    /\ refs' = Listed(at) /\ pages' = (IF pages = MaxPages THEN pages ELSE pages + 1)
    /\ IF Turn(at) = "end" THEN pc' = After /\ UNCHANGED <<at, seen>>
       ELSE pc' = pc /\ at' = next[at] /\ seen' = seen \cup {next[at]}
    /\ UNCHANGED <<message, total, body, warning, failed, sent>>

\* attachments: the list of the payload, or a page of Graph's.
ListPage ==
    /\ pc = "list" /\ kind = "usual" /\ at \in Page
    /\ Count(Listed(at)) <= MaxItems /\ Turn(at) # "error"
    /\ refs' = Listed(at) /\ pages' = (IF pages = MaxPages THEN pages ELSE pages + 1)
    /\ IF Turn(at) = "end" THEN pc' = After /\ UNCHANGED <<at, seen>>
       ELSE pc' = pc /\ at' = next[at] /\ seen' = seen \cup {next[at]}
    /\ UNCHANGED <<message, total, body, warning, failed, sent>>

\* The message says that it has no attachments: Graph is not asked, and none is listed.
ListSkipped ==
    /\ pc = "list" /\ kind = "unattached"
    /\ pc' = After
    /\ UNCHANGED <<message, total, at, seen, refs, pages, body, warning, failed, sent>>

\* A limit, or Graph's answer; a download is refused then.
ListFails ==
    /\ pc = "list" /\ kind # "unattached" /\ at \in Page
    /\ provider = "microsoft" \/ kind = "oversized" \/ Count(Listed(at)) > MaxItems
    /\ refs' = [i \in Item |-> 0]
    /\ failed' = TRUE /\ pc' = (IF wanted = NoItem THEN "done" ELSE "refused")
    /\ UNCHANGED <<message, total, at, seen, pages, body, warning, sent>>

\* Mutant of Small: the announced size is enough.
SmallAnnounced(i) == item[i].announced <= MaxBody

Small(i) == item[i].announced <= MaxBody /\ item[i].size <= MaxBody

\* download: the attachment is in the list and within the limit, as announced and as it came.
Fetch ==
    /\ pc = "fetch"
    /\ IF refs[wanted] > 0 /\ Small(wanted) THEN pc' = "done" /\ sent' = item[wanted].size
                                            ELSE pc' = "refused" /\ UNCHANGED sent
    /\ UNCHANGED <<message, total, at, seen, refs, pages, body, warning, failed>>

\* The provider fails, or has the attachment no more: 404, 413 or 502.
FetchFails ==
    /\ pc = "fetch" /\ pc' = "refused"
    /\ UNCHANGED <<message, total, at, seen, refs, pages, body, warning, failed, sent>>

Next == Load \/ LoadFails \/ Loaded \/ Show \/ ListPage \/ ListSkipped \/ ListFails \/ Fetch \/ FetchFails

Spec == Init /\ [][Next]_vars
FairSpec == Spec /\ WF_vars(Next)

-----------------------------------------------------------------------------
\* What message_html and message_body find in the whole message, the first HTML and the
\* first plain part that are not empty, is shown, or a warning: whichever part does not
\* come, and after those before it were loaded.
FullOrWarned == (pc = "done" /\ wanted = NoItem /\ ~warning) => body = Text(Part)

\* No text over the limit is sent, whatever sizes the provider announces and whatever is
\* saved.
BodyBounded == \A p \in body \ {Preview} : part[p].size <= MaxBody

\* The pages that follow from the first.
Reached == {p \in Page : p = 1 \/ p \in seen}

\* A list without an error has every file of the pages that follow from the first once,
\* and nothing else: one that comes round to a page, or is longer than what is read, is an
\* error.  Of a message that says it has no attachments it is empty, whatever Graph has.
ListIsWhole ==
    (pc = "done" /\ wanted = NoItem /\ ~failed) =>
        /\ kind # "unattached" => \A p \in Reached : next[p] \in Reached \cup {0}
        /\ \A i \in Item :
              refs[i] = IF kind # "unattached" /\ item[i].file /\ item[i].page \in Reached
                        THEN 1 ELSE 0

\* No more attachments are listed than the limit, over all the pages.
ListBounded == Count(refs) <= MaxItems

\* What is downloaded is on the list, and within the limit as it came.
DownloadIsListed ==
    sent > 0 => /\ refs[wanted] > 0
                /\ sent = item[wanted].size /\ sent <= MaxBody

\* A message that is opened is answered, however Graph links its pages.
OpenEnds == <>(pc \in {"done", "refused"})
=============================================================================
