-------------------------------- MODULE Pages --------------------------------
(***************************************************************************)
(* The lists a reader goes through page by page: the messages of a         *)
(* mailbox, the alerts, the analyses and the messages of a thread.  A page *)
(* is the rows that follow the cursor in the list's order, by time and     *)
(* then by id, and its cursor is the last of them.  Meanwhile rows are     *)
(* imported, deleted, restored, moved in and out of the filter, and a      *)
(* message takes another time when its draft is saved again.               *)
(***************************************************************************)
EXTENDS Integers, FiniteSets

CONSTANTS
    Row,      \* the ids, as numbers: an id says nothing of the time
    MaxTime,  \* bound: the times are 1..MaxTime
    Limit     \* rows of a page

VARIABLES
    list,     \* the list the reader goes through
    time,     \* the time of each row: coalesce(received_at, created_at), or created_at
    shown,    \* the rows there are that pass the filter
    cursor,   \* the reader's cursor
    seen,     \* how often the reader has got each row, up to 2 (history)
    moved,    \* rows whose time has changed since the reader began (history)
    hidden,   \* rows that were not shown at some time since (history)
    done      \* the last page had no cursor

vars == <<list, time, shown, cursor, seen, moved, hidden, done>>

Start == <<0, 0>>
Key == (1..MaxTime) \X Row
KeyOf(r) == <<time[r], r>>

TypeOK ==
    /\ list \in {"messages", "alerts", "analyses", "thread"}
    /\ time \in [Row -> 1..MaxTime]
    /\ shown \subseteq Row /\ moved \subseteq Row /\ hidden \subseteq Row
    /\ cursor \in Key \cup {Start}
    /\ seen \in [Row -> 0..2]
    /\ done \in BOOLEAN

Init ==
    /\ list \in {"messages", "alerts", "analyses", "thread"}
    /\ time \in [Row -> 1..MaxTime] /\ shown \in SUBSET Row
    /\ cursor = Start /\ seen = [r \in Row |-> 0]
    /\ moved = {} /\ hidden = Row \ shown /\ done = FALSE

-----------------------------------------------------------------------------
\* Mutant of Precedes: by time alone.
PrecedesByTime(k, l) == IF list = "thread" THEN k[1] < l[1] ELSE k[1] > l[1]

\* Mutant of Precedes: the row of the cursor follows it.
PrecedesOrIs(k, l) ==
    IF list = "thread" THEN k[1] < l[1] \/ (k[1] = l[1] /\ k[2] <= l[2])
                       ELSE k[1] > l[1] \/ (k[1] = l[1] /\ k[2] >= l[2])

\* The list's order, and what follows a cursor: the newest first, in a thread the oldest.
Precedes(k, l) ==
    IF list = "thread" THEN k[1] < l[1] \/ (k[1] = l[1] /\ k[2] < l[2])
                       ELSE k[1] > l[1] \/ (k[1] = l[1] /\ k[2] > l[2])

Follows(r) == cursor = Start \/ Precedes(cursor, KeyOf(r))

\* order_by and limit.
Ahead(r, rows) ==
    {q \in rows : \/ (list = "thread") /\ (time[q] < time[r] \/ (time[q] = time[r] /\ q < r))
                  \/ (list # "thread") /\ (time[q] > time[r] \/ (time[q] = time[r] /\ q > r))}
First(n, rows) == {r \in rows : Cardinality(Ahead(r, rows)) < n}

\* encode_cursor(visible[-1]), if there is more.
NextCursor(rows, visible) ==
    {KeyOf(r) : r \in {v \in visible : Cardinality(rows) > Limit
                                       /\ visible \ {v} = Ahead(v, visible)}}

\* One page: limit + 1 rows are read, limit of them are returned.
ReadPage ==
    LET rows == First(Limit + 1, {r \in shown : Follows(r)})
        visible == First(Limit, rows)
        next == NextCursor(rows, visible) IN
    /\ ~done
    /\ seen' = [r \in Row |-> IF r \in visible /\ seen[r] < 2 THEN seen[r] + 1 ELSE seen[r]]
    /\ done' = (next = {})
    /\ cursor' \in (IF next = {} THEN {cursor} ELSE next)
    /\ UNCHANGED <<list, time, shown, moved, hidden>>

\* Each list takes its rows and its filter from tables of its own.
ReadMessages == list = "messages" /\ ReadPage
ReadAlerts == list = "alerts" /\ ReadPage
ReadAnalyses == list = "analyses" /\ ReadPage
ReadThread == list = "thread" /\ ReadPage
ReadNext == ReadMessages \/ ReadAlerts \/ ReadAnalyses \/ ReadThread

\* A row is added, with any time, restored or analysed, or an edit brings it into
\* the filter.
Show(r) ==
    /\ ~done /\ r \notin shown
    /\ shown' = shown \cup {r}
    /\ UNCHANGED <<list, time, cursor, seen, moved, hidden, done>>

\* mark_deleted, resolve_alert, an edit.
Hide(r) ==
    /\ ~done /\ r \in shown
    /\ shown' = shown \ {r} /\ hidden' = hidden \cup {r}
    /\ UNCHANGED <<list, time, cursor, seen, moved, done>>

\* sort_time: coalesce(received_at, created_at); 0 is no received_at.
Received(r, t) == [time EXCEPT ![r] = IF t = 0 THEN 1 ELSE t]

\* upsert_message: the message has another received_at.
Retime(r, t) ==
    /\ ~done /\ list \in {"messages", "thread"}
    /\ time' = Received(r, t) /\ time' # time
    /\ moved' = moved \cup {r}
    /\ UNCHANGED <<list, shown, cursor, seen, hidden, done>>

\* The reader has got every page.
Rest == done /\ UNCHANGED vars

Next ==
    \/ ReadNext
    \/ \E r \in Row : Show(r) \/ Hide(r) \/ \E t \in 0..MaxTime : Retime(r, t)
    \/ Rest

Spec == Init /\ [][Next]_vars
\* The reader goes on, whatever happens to the rows.
FairSpec == Spec /\ WF_vars(ReadNext)

-----------------------------------------------------------------------------
\* README.md:30, "paginación estable por cursor": a row that was in the list all
\* the time, at the same place, is on one of the pages, however many others come,
\* go or move between two pages, rows of the same time among them.
NothingSkipped == done => \A r \in Row \ (moved \cup hidden) : seen[r] > 0

\* No row is on two pages, unless it has moved in the list between them: one that
\* was deleted and restored meanwhile is not.
NothingTwice == \A r \in Row \ moved : seen[r] <= 1

\* The reader comes to the last page, even if rows go on coming and moving for
\* ever: the cursor only goes forward.
LastPageComes == <>done
=============================================================================
