-------------------------------- MODULE Inbox --------------------------------
(***************************************************************************)
(* What the inbox shows of the messages: the list of a folder, the number  *)
(* beside each folder, the totals of the account and the summary.  Each is *)
(* a query of its own over the same rows, written separately, with the     *)
(* filters of the request: parameters, and operators in the search text.   *)
(***************************************************************************)
EXTENDS Integers, FiniteSets

CONSTANTS
    Message,
    Mailbox,   \* the mailboxes of the messages, "inbox" and "archive" among them
    Category,  \* the categories their analyses have, as the AI wrote them
    None       \* no value, or no analysis

VARIABLES
    message,  \* EmailMessage with its EmailAnalysis
    query     \* what the reader asks for

vars == <<message, query>>

Risk == {"low", "high", "critical"}
Analysis == [category: Category, risk: Risk]
Gone == [state |-> "absent", mailbox |-> "inbox", read |-> FALSE, analysis |-> None]
MessageType ==
    [state: {"absent", "there", "deleted"}, mailbox: Mailbox, read: BOOLEAN,
     analysis: Analysis \cup {None}]

\* The values of a filter; a query names one filter (bound), as a parameter, in the text or both.
Value == [is_read |-> BOOLEAN,
          risk_level |-> {{"low"}, {"high", "critical"}},
          category |-> {"pagos", "unanalyzed"}]
Query == UNION {[field: {k}, param: Value[k] \cup {None}, text: Value[k] \cup {None}] : k \in DOMAIN Value}

TypeOK == message \in [Message -> MessageType] /\ query \in Query

\* The reader asks for something, and goes on asking while the messages change.
Search == query \in Query

Init == message = [m \in Message |-> Gone] /\ Search

-----------------------------------------------------------------------------
\* CATEGORY_GROUPS, in short: Spanish and English names of one category.
Group(c) == CASE c \in {"Pagos", "payment"} -> "pagos"
              [] c = "Promociones" -> "promociones"
              [] OTHER -> c

\* Mutant of Fields: the operator of the text comes first.
FieldsText(request, k) == IF request.text[k] # None THEN request.text[k] ELSE request.param[k]

\* conditions: an operator of the text fills a filter the request leaves open.
Fields(request, k) == IF request.param[k] # None THEN request.param[k] ELSE request.text[k]

\* MessageFilters.conditions: the rows that pass.
Passes(m, request) ==
    LET v(k) == Fields(request, k) IN
    /\ v("is_read") # None => m.read = v("is_read")
    /\ v("risk_level") # None => m.analysis # None /\ m.analysis.risk \in v("risk_level")
    /\ v("category") # None =>
          IF v("category") = "unanalyzed" THEN m.analysis = None
          ELSE m.analysis # None /\ Group(m.analysis.category) = v("category")

\* The relation that lists and counts are taken from.
Rows(request) == {m \in Message : message[m].state = "there" /\ Passes(message[m], request)}

\* DashboardRepository.messages: total_count.
List(request, mailbox) == {m \in Rows(request) : mailbox = "all" \/ message[m].mailbox = mailbox}

Inbox(rows) == {m \in rows : message[m].mailbox = "inbox"}

\* Mutant of Counts: the categories of every mailbox.
CountsEverywhere(request) ==
    LET rows == Rows(request) analyzed == {m \in rows : message[m].analysis # None} IN
    [total |-> Cardinality(rows),
     archive |-> Cardinality({m \in rows : message[m].mailbox = "archive"}),
     unread |-> Cardinality({m \in rows : ~message[m].read}),
     critical |-> Cardinality({m \in analyzed : message[m].analysis.risk \in {"high", "critical"}}),
     unanalyzed |-> Cardinality(rows \ analyzed),
     category |-> [k \in {Group(c) : c \in Category} |->
                     Cardinality({m \in analyzed : Group(message[m].analysis.category) = k})]]

\* message_counts: the folders of every mailbox, the semantic ones of the inbox.
Counts(request) ==
    LET rows == Rows(request)
        inbox == Inbox(rows)
        analyzed == {m \in inbox : message[m].analysis # None}
    IN  [total |-> Cardinality(rows),
         archive |-> Cardinality({m \in rows : message[m].mailbox = "archive"}),
         unread |-> Cardinality({m \in inbox : ~message[m].read}),
         critical |-> Cardinality({m \in analyzed : message[m].analysis.risk \in {"high", "critical"}}),
         unanalyzed |-> Cardinality(inbox \ analyzed),
         category |-> [k \in {Group(c) : c \in Category} |->
                         Cardinality({m \in analyzed : Group(message[m].analysis.category) = k})]]

\* The folders compared: not "todos", whose number is that of every mailbox and whose list
\* is the inbox, by the frontend's choice.
Folder == {"no-leidos", "criticos", "pagos", "promociones", "archivados"}
Semantic == Folder \ {"archivados"}

\* The filter a folder stands for.
FieldOf(f) == CASE f = "no-leidos" -> "is_read" [] f = "criticos" -> "risk_level" [] OTHER -> "category"
ValueOf(f) == CASE f = "no-leidos" -> FALSE [] f = "criticos" -> {"high", "critical"} [] OTHER -> f

Alone(k, v) == [j \in DOMAIN Value |-> IF j = k THEN v ELSE None]
Plain == [param |-> Alone(query.field, query.param), text |-> Alone(query.field, query.text)]

\* mailFilters: the folder's filter replaces the query's.
Asked(f) == IF f \in Semantic THEN [Plain EXCEPT !.param[FieldOf(f)] = ValueOf(f)] ELSE Plain
Shown(f) == List(Asked(f), IF f = "archivados" THEN "archive" ELSE "inbox")

\* categoryFor: marketing goes with the promotions.
CategoryFor(k) == IF k = "Marketing" THEN "promociones" ELSE k

\* The sum of the numbers n[k], each one counted.
SumOver(n, S) == Cardinality(UNION {{k} \X (1..n[k]) : k \in S})

\* The numbers of the navigation: counts, of the query without a folder.
Badge(f) ==
    LET c == Counts(Plain) IN
    CASE f = "no-leidos" -> c.unread [] f = "criticos" -> c.critical
      [] f = "archivados" -> c.archive
      [] OTHER -> SumOver(c.category, {k \in DOMAIN c.category : CategoryFor(k) = f})

\* Mutant of AccountItem: messages that were deleted are counted.
AccountItemDeleted ==
    LET rows == {m \in Message : message[m].state # "absent"} IN
    [message_count |-> Cardinality(rows),
     unread_count |-> Cardinality({m \in rows : ~message[m].read}),
     folder_counts |-> [b \in Mailbox |-> Cardinality({m \in rows : message[m].mailbox = b})]]

\* DashboardRepository.accounts, of the one account.
AccountItem ==
    LET rows == {m \in Message : message[m].state = "there"} IN
    [message_count |-> Cardinality(rows),
     unread_count |-> Cardinality({m \in rows : ~message[m].read}),
     folder_counts |-> [b \in Mailbox |-> Cardinality({m \in rows : message[m].mailbox = b})]]

\* Mutant of Summary: the messages that are left, and every analysis.
SummaryLeft ==
    [total |-> Cardinality({m \in Message : message[m].state = "there"}),
     analyzed |-> Cardinality({m \in Message : message[m].state # "absent" /\ message[m].analysis # None})]

\* DashboardRepository.summary: messages and analyses, deleted or not.
Summary ==
    [total |-> Cardinality({m \in Message : message[m].state # "absent"}),
     analyzed |-> Cardinality({m \in Message : message[m].state # "absent" /\ message[m].analysis # None})]

-----------------------------------------------------------------------------
Put(m, new) == message' = [message EXCEPT ![m] = new] /\ UNCHANGED query

\* An import stores the message, again or as it is now, and brings a deleted one back.
Import(m) ==
    \E mailbox \in Mailbox, read \in BOOLEAN :
        Put(m, [message[m] EXCEPT !.state = "there", !.mailbox = mailbox, !.read = read])

Analyze(m) ==
    /\ message[m].state # "absent"
    /\ \E analysis \in Analysis : Put(m, [message[m] EXCEPT !.analysis = analysis])

Delete(m) == message[m].state = "there" /\ Put(m, [message[m] EXCEPT !.state = "deleted"])

Next == \E m \in Message : Import(m) \/ Analyze(m) \/ Delete(m)

Spec == Init /\ [][Next]_vars

-----------------------------------------------------------------------------
\* The query has nothing to say of the folder's filter.
Open(f) == f = "archivados" \/ query.field # FieldOf(f) \/ (query.param = None /\ query.text = None)

\* The number beside a folder is the number of messages of its list, when the query does
\* not name the folder's filter itself (the folder's then replaces it in the list, and not
\* in the numbers) and no message is of marketing (counted with the promotions, not listed;
\* the navigation does not show that number).
CountsAgree ==
    \A f \in Folder :
        (Open(f) /\ (f = "promociones" => \A m \in Message :
                        message[m].analysis # None => message[m].analysis.category # "Marketing")) =>
            Badge(f) = Cardinality(Shown(f))

\* A folder shows nothing that is not of it, whatever the search says: it may narrow a
\* folder and never widens it.
FolderHolds ==
    \A f \in Semantic : \A m \in Shown(f) :
        /\ message[m].state = "there" /\ message[m].mailbox = "inbox"
        /\ f = "no-leidos" => ~message[m].read
        /\ f \in {"criticos", "pagos", "promociones"} => message[m].analysis # None
        /\ f = "criticos" => message[m].analysis.risk # "low"
        /\ f = "pagos" => message[m].analysis.category \in {"Pagos", "payment"}

\* The account's totals are those of the list of all mailboxes with no filter.
AccountAgrees ==
    LET all == List([param |-> Alone("is_read", None), text |-> Alone("is_read", None)], "all") IN
    /\ AccountItem.message_count = Cardinality(all)
    /\ AccountItem.unread_count = Cardinality({m \in all : ~message[m].read})
    /\ \A b \in Mailbox : AccountItem.folder_counts[b] = Cardinality({m \in all : message[m].mailbox = b})

\* analysis_coverage_percent is a share: never above 100, after deletions neither.
CoverageIsShare == Summary.analyzed <= Summary.total
=============================================================================
