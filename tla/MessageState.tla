----------------------------- MODULE MessageState -----------------------------
(***************************************************************************)
(* The state of a message (is_read; is_starred and mailbox are kept the    *)
(* same way): what the provider says, what a user has set, and what is     *)
(* shown, which is the user's value if there is one.  It has three         *)
(* writers: the imports, which upsert the messages of a page in one        *)
(* transaction; the users' edits, which read the row without locking it    *)
(* and write what they have changed; and the backfill of the rows from     *)
(* before the columns were added, batch by batch.                          *)
(***************************************************************************)
EXTENDS Integers, FiniteSets

CONSTANTS
    Row,        \* the messages, as numbers: the order of their ids
    Editor,     \* edits that run at the same time
    Batch,      \* the backfill's limit
    Overlap,    \* may another writer come between an edit's read and its write?
    MaxImports, \* bound: pages imported
    MaxEdits    \* bound: edits

VARIABLES
    row,      \* the rows of email_messages, as committed
    import,   \* the import's transaction: the rows it has written, and as what
    edit,     \* the edits: their row, what they have read of it, what the user sets
    backfill, \* the backfill: the last row of the batch before, the rows it has locked
              \* and what it has read of them
    last,     \* the value of each row's last edit (history)
    imports, edits

vars == <<row, import, edit, backfill, last, imports, edits>>

Value == {"unread", "read"}
Local == Value \cup {"none"}
\* filled (history): provider_is_read has been set since its column was added.
State == [visible: Value, local: Local, provider: Value, payload: Value,
          deleted: BOOLEAN, filled: BOOLEAN]
NoEdit == [pc |-> "idle", row |-> 0, visible |-> "unread", local |-> "none", value |-> "unread"]

TypeOK ==
    /\ row \in [Row -> State]
    /\ import \in [open: BOOLEAN, rows: SUBSET Row, new: [Row -> State]]
    /\ edit \in [Editor -> [pc: {"idle", "read"}, row: Row \cup {0}, visible: Value,
                            local: Local, value: Value]]
    /\ backfill \in [after: Row \cup {0}, locked: SUBSET Row,
                    read: [Row -> State], done: BOOLEAN]
    /\ last \in [Row -> Local]
    /\ imports \in Nat /\ edits \in Nat

-----------------------------------------------------------------------------
\* Mutant of Migrated: the column has no default.
MigratedNull(visible, payload) ==
    [visible |-> visible, local |-> IF visible = "read" THEN "read" ELSE "none",
     provider |-> "none", payload |-> payload, deleted |-> FALSE, filled |-> FALSE]

\* The migration that adds the columns: what is not the default is a user's choice.
Migrated(visible, payload) ==
    [visible |-> visible, local |-> IF visible = "read" THEN "read" ELSE "none",
     provider |-> "unread", payload |-> payload, deleted |-> FALSE, filled |-> FALSE]

Init ==
    /\ \E v, p \in [Row -> Value] : row = [r \in Row |-> Migrated(v[r], p[r])]
    /\ import = [open |-> FALSE, rows |-> {}, new |-> row]
    /\ edit = [e \in Editor |-> NoEdit]
    /\ backfill = [after |-> 0, locked |-> {}, read |-> row, done |-> FALSE]
    /\ last = [r \in Row |-> IF row[r].visible = "read" THEN "read" ELSE "none"]
    /\ imports = 0 /\ edits = 0

Coalesce(local, remote) == IF local = "none" THEN remote ELSE local

\* Mutant of Free: the backfill does not lock what it reads.
FreeOfImport(r) == r \notin import.rows

\* A row that another transaction has written, or locked, waits for its end.
Free(r) == r \notin import.rows \cup backfill.locked

\* Without Overlap, nobody writes between an edit's read and its write.
Alone(r) == Overlap \/ \A e \in Editor : edit[e].row # r

-----------------------------------------------------------------------------
\* Mutant of Upserted: the provider's value is shown.
UpsertedRemote(s, remote) ==
    [s EXCEPT !.payload = remote, !.provider = remote, !.visible = remote,
              !.deleted = FALSE, !.filled = TRUE]

\* upsert_message on a row there is.
Upserted(s, remote) ==
    [s EXCEPT !.payload = remote, !.provider = remote, !.visible = Coalesce(s.local, remote),
              !.deleted = FALSE, !.filled = TRUE]

\* A page of changes: the provider's values, as they were when the page was read.
ImportRow(r, remote) ==
    /\ Free(r) /\ Alone(r) /\ (import.open \/ imports < MaxImports)
    /\ import' = [import EXCEPT !.open = TRUE, !.rows = @ \cup {r},
                                !.new[r] = Upserted(row[r], remote)]
    /\ imports' = IF import.open THEN imports ELSE imports + 1
    /\ UNCHANGED <<row, edit, backfill, last, edits>>

\* mark_deleted, in the same transaction.
ImportDeletion(r) ==
    /\ Free(r) /\ Alone(r) /\ import.open /\ ~row[r].deleted
    /\ import' = [import EXCEPT !.rows = @ \cup {r}, !.new[r] = [row[r] EXCEPT !.deleted = TRUE]]
    /\ UNCHANGED <<row, edit, backfill, last, imports, edits>>

\* checkpoint: the page is committed.
ImportCommit ==
    /\ import.open
    /\ row' = [r \in Row |-> IF r \in import.rows THEN import.new[r] ELSE row[r]]
    /\ import' = [open |-> FALSE, rows |-> {}, new |-> row']
    /\ UNCHANGED <<edit, backfill, last, imports, edits>>

-----------------------------------------------------------------------------
\* A user sets the state of a message: update_message_state reads the row.
EditRead(e, r, value) ==
    /\ edit[e].pc = "idle" /\ edits < MaxEdits /\ ~row[r].deleted
    /\ Alone(r) /\ (Overlap \/ Free(r))
    /\ edit' = [edit EXCEPT ![e] = [pc |-> "read", row |-> r, visible |-> row[r].visible,
                                    local |-> row[r].local, value |-> value]]
    /\ edits' = edits + 1
    /\ UNCHANGED <<row, import, backfill, last, imports>>

\* Mutant of Edited: only what is shown is set.
EditedVisible(s, read) ==
    [s EXCEPT !.visible = IF read.value = read.visible THEN @ ELSE read.value]

\* The UPDATE holds the attributes that differ from what was read.
Edited(s, read) ==
    [s EXCEPT !.visible = IF read.value = read.visible THEN @ ELSE read.value,
              !.local = IF read.value = read.local THEN @ ELSE read.value]

EditCommit(e) ==
    LET r == edit[e].row IN
    /\ edit[e].pc = "read" /\ Free(r)
    /\ row' = [row EXCEPT ![r] = Edited(@, edit[e])]
    /\ import' = [import EXCEPT !.new[r] = row'[r]]
    /\ last' = [last EXCEPT ![r] = edit[e].value]
    /\ edit' = [edit EXCEPT ![e] = NoEdit]
    /\ UNCHANGED <<backfill, imports, edits>>

-----------------------------------------------------------------------------
\* The rows of the batch that are still to be locked, in the order of their ids.
Rest == {r \in Row : r > backfill.after /\ \A q \in backfill.locked : q < r}
Full == Cardinality(backfill.locked) = Batch \/ Rest = {}

\* Mutant of LockRow: SKIP LOCKED.
LockRowOrSkip(r) ==
    /\ ~backfill.done /\ ~Full /\ r \in Rest /\ \A q \in Rest : q < r => ~Free(q)
    /\ Free(r) /\ Alone(r)
    /\ backfill' = [backfill EXCEPT !.locked = @ \cup {r}, !.read[r] = row[r]]
    /\ UNCHANGED <<row, import, edit, last, imports, edits>>

\* SELECT ... ORDER BY id LIMIT n FOR UPDATE takes the rows one after the other.
LockRow(r) ==
    /\ ~backfill.done /\ ~Full /\ r \in Rest /\ \A q \in Rest : r <= q
    /\ Free(r) /\ Alone(r)
    /\ backfill' = [backfill EXCEPT !.locked = @ \cup {r}, !.read[r] = row[r]]
    /\ UNCHANGED <<row, import, edit, last, imports, edits>>

\* state_values, from what was read; the UPDATE holds the attributes that differ.
Derived(s, read) ==
    LET shown == Coalesce(read.local, read.payload) IN
    [s EXCEPT !.provider = IF read.payload = read.provider THEN @ ELSE read.payload,
              !.visible = IF shown = read.visible THEN @ ELSE shown,
              !.filled = TRUE]

\* Mutant of Continue: next_after_id is not passed on.
ContinueFromStart(locked) == [backfill EXCEPT !.locked = {}, !.read = row']

\* next_after_id: the operator goes on from there.
Continue(locked) ==
    [backfill EXCEPT !.locked = {}, !.read = row',
                     !.after = CHOOSE r \in locked : \A q \in locked : q <= r]

\* The batch is written, what of it is not as it should be, and committed.
WriteBatch ==
    /\ ~backfill.done /\ Full /\ backfill.locked # {}
    /\ row' = [r \in Row |-> IF r \in backfill.locked THEN Derived(row[r], backfill.read[r]) ELSE row[r]]
    /\ import' = [import EXCEPT !.new = [r \in Row |-> IF r \in backfill.locked THEN row'[r] ELSE @[r]]]
    /\ backfill' = Continue(backfill.locked)
    /\ UNCHANGED <<edit, last, imports, edits>>

\* A batch that has processed nothing is the last.
LastBatch ==
    /\ ~backfill.done /\ Full /\ backfill.locked = {}
    /\ backfill' = [backfill EXCEPT !.done = TRUE]
    /\ UNCHANGED <<row, import, edit, last, imports, edits>>

-----------------------------------------------------------------------------
\* Each of two transactions can wait for a row of the other: PostgreSQL ends one of
\* them.  The import begins again with its page, the backfill with its batch; either
\* can also die.
ImportAborts ==
    /\ import.open
    /\ import' = [open |-> FALSE, rows |-> {}, new |-> row]
    /\ UNCHANGED <<row, edit, backfill, last, imports, edits>>

BackfillAborts ==
    /\ import.open /\ backfill.locked # {}
    /\ backfill' = [backfill EXCEPT !.locked = {}, !.read = row]
    /\ UNCHANGED <<row, import, edit, last, imports, edits>>

ImportNext == ImportCommit \/ \E r \in Row : ImportDeletion(r) \/ \E v \in Value : ImportRow(r, v)
BackfillNext == WriteBatch \/ LastBatch \/ \E r \in Row : LockRow(r)

\* The bounds are reached.
Stop ==
    /\ backfill.done /\ ~import.open /\ \A e \in Editor : edit[e].pc = "idle"
    /\ UNCHANGED vars

Next ==
    \/ ImportNext \/ BackfillNext \/ ImportAborts \/ BackfillAborts
    \/ \E e \in Editor : EditCommit(e) \/ \E r \in Row, v \in Value : EditRead(e, r, v)
    \/ Stop

Spec == Init /\ [][Next]_vars
\* The transactions end, and an operator goes on with the backfill.
FairSpec ==
    /\ Spec
    /\ WF_vars(ImportCommit \/ ImportAborts) /\ WF_vars(BackfillNext)
    /\ \A e \in Editor : WF_vars(EditCommit(e))

-----------------------------------------------------------------------------
\* What is shown is the user's value, or the provider's if the user has set none,
\* once the row has been imported or filled (test_pg_local_overrides_survive_provider_updates).
VisibleIsEffective ==
    \A r \in Row : row[r].filled =>
        row[r].visible = Coalesce(row[r].local, row[r].provider)

\* The last edit of a message is kept as the user's value, whatever is imported,
\* deleted, restored or filled (migration 0016, "Preserve observable local choices").
LastEditKept == \A r \in Row : row[r].local = last[r]

\* backfill_mail_state.py:63, "Lock rows before deriving values so a concurrent sync
\* cannot be overwritten with an older payload": the provider's value is that of the
\* payload the row keeps.
ProviderIsPayload == \A r \in Row : row[r].filled => row[r].provider = row[r].payload

\* backfill_mail_state.py:64, "continuation must not skip rows": when the backfill
\* has come to its end every row is filled.
EveryRowFilled == backfill.done => \A r \in Row : row[r].filled

\* The backfill comes to its end, with the imports it meets.
BackfillEnds == <>backfill.done
=============================================================================
