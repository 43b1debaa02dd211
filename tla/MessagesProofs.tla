---------------------------- MODULE MessagesProofs ----------------------------
(***************************************************************************)
(* Proofs about the components of Messages, for every set of rows,         *)
(* editors, messages, categories, parts and attachments and every bound.   *)
(* A section for each: its inductive invariant, the steps that keep it,    *)
(* and what follows from it.  The last section puts them together for the  *)
(* behaviours of the composite.  The outbox's proofs are in                *)
(* AnalysisOutboxProofs.                                                   *)
(***************************************************************************)
EXTENDS Messages, FiniteSetTheorems, WellFoundedInduction, TLAPS

-----------------------------------------------------------------------------
(* Finite sets *)

\* A set of numbers has a least one.
LEMMA NonemptyHasMin ==
    ASSUME NEW S \in SUBSET Nat, S # {} PROVE \E x \in S : \A y \in S : x <= y
<1>1. PICK x \in S : \A y \in S : ~(<<y, x>> \in OpToRel(<, Nat))
  BY NatLessThanWellFounded, WFMin
<1>2. \A y \in S : ~(y < x)
  BY <1>1 DEF OpToRel
<1> QED BY <1>2

\* In a finite set some element has none ahead of it.
LEMMA FirstOfFinite ==
    ASSUME NEW S, IsFiniteSet(S), S # {}, NEW ahead \in [S -> SUBSET S],
           \A r \in S : r \notin ahead[r] /\ \A q \in ahead[r] : ahead[q] \subseteq ahead[r]
    PROVE  \E r \in S : ahead[r] = {}
<1>1. \A r \in S : IsFiniteSet(ahead[r]) /\ Cardinality(ahead[r]) \in Nat
  <2> TAKE r \in S
  <2>1. ahead[r] \subseteq S OBVIOUS
  <2> QED BY <2>1, FS_Subset, FS_CardinalityType
<1> DEFINE T == {Cardinality(ahead[r]) : r \in S}
<1>2. T \in SUBSET Nat /\ T # {} BY <1>1
<1>3. PICK t \in T : \A u \in T : t <= u BY <1>2, NonemptyHasMin
<1>4. PICK r \in S : t = Cardinality(ahead[r]) BY <1>3
<1>5. ASSUME NEW q \in ahead[r] PROVE FALSE
  <2>1. q \in S /\ ahead[q] \subseteq ahead[r] /\ q \notin ahead[q] OBVIOUS
  <2>2. Cardinality(ahead[q]) \in T BY <2>1
  <2>3. Cardinality(ahead[r]) <= Cardinality(ahead[q]) BY <2>2, <1>3, <1>4
  <2>4. Cardinality(ahead[q]) <= Cardinality(ahead[r])
        /\ (Cardinality(ahead[q]) = Cardinality(ahead[r]) => ahead[q] = ahead[r])
    BY <1>1, <2>1, FS_Subset
  <2>5. Cardinality(ahead[q]) \in Nat /\ Cardinality(ahead[r]) \in Nat BY <1>1, <2>1
  <2> QED BY <2>1, <2>3, <2>4, <2>5
<1> QED BY <1>5

\* A finite set of numbers has a greatest one, which CHOOSE finds.
LEMMA LastOfLocked ==
    ASSUME NEW S \in SUBSET Nat, IsFiniteSet(S), S # {}
    PROVE  LET m == CHOOSE r \in S : \A q \in S : q <= r IN m \in S /\ \A q \in S : q <= m
<1> DEFINE ahead == [r \in S |-> {q \in S : q > r}]
<1>1. ASSUME NEW r \in S PROVE r \notin ahead[r] /\ \A q \in ahead[r] : ahead[q] \subseteq ahead[r]
  <2>1. \A q \in S : ahead[q] = {x \in S : x > q} OBVIOUS
  <2> HIDE DEF ahead
  <2>2. \A q, x \in S : q > r /\ x > q => x > r OBVIOUS
  <2>3. ASSUME NEW q \in ahead[r] PROVE ahead[q] \subseteq ahead[r] BY <2>1, <2>2
  <2>4. r \notin ahead[r] BY <2>1
  <2> QED BY <2>3, <2>4
<1>2. ahead \in [S -> SUBSET S] OBVIOUS
<1> HIDE DEF ahead
<1>3. PICK r \in S : ahead[r] = {} BY <1>1, <1>2, FirstOfFinite
<1>4. \A q \in S : q <= r BY <1>3 DEF ahead
<1> QED BY <1>4

-----------------------------------------------------------------------------
(* MessageState *)

\* What an import is to write of a row: its page's values, or that it is deleted.
ImportIsSound(overlap) ==
    /\ ~import.open => import.rows = {}
    /\ \A r \in import.rows :
          \/ \E v \in State(overlap)!Value : import.new[r] = State(overlap)!Upserted(row[r], v)
          \/ import.new[r] = [row[r] EXCEPT !.deleted = TRUE]
\* What the backfill has locked nobody writes, so the rows are what it has read of them; it takes the
\* rows in their order, leaving none out, and those it has passed are filled.
BackfillIsSound(overlap) ==
    /\ import.rows \cap backfill.locked = {}
    /\ \A r \in backfill.locked : row[r] = backfill.read[r] /\ r > backfill.after
    /\ \A r \in StateRow \ backfill.locked : r > backfill.after => \A q \in backfill.locked : q < r
    /\ \A r \in StateRow : r <= backfill.after => row[r].filled
\* An edit that has read a row goes on with it; and if nothing overlaps it, the row is as the edit has
\* read it, no transaction has it and no other edit has read it.
EditsAreSound(overlap) ==
    /\ \A e \in Editor : (edit[e].row = 0) <=> (edit[e].pc = "idle")
    /\ ~overlap => \A e \in Editor : edit[e].pc = "read" =>
          /\ edit[e].row \notin import.rows \cup backfill.locked
          /\ edit[e].visible = row[edit[e].row].visible /\ edit[e].local = row[edit[e].row].local
          /\ \A o \in Editor : o # e => edit[o].row # edit[e].row
\* The inductive invariant of the message state.  The provider's value, and that no row is left out,
\* need the import's and the backfill's parts; the user's value needs the edits' too, and holds when
\* nothing overlaps an edit.
StateInv(overlap) ==
    /\ State(overlap)!TypeOK /\ ImportIsSound(overlap) /\ BackfillIsSound(overlap)
    /\ EditsAreSound(overlap)
    /\ State(overlap)!ProviderIsPayload /\ State(overlap)!EveryRowFilled
    /\ ~overlap => State(overlap)!VisibleIsEffective /\ State(overlap)!LastEditKept

\* The columns have been added and nothing is filled yet.
LEMMA StateInit == ASSUME NEW overlap, State(overlap)!Init PROVE StateInv(overlap)
<1>1. PICK v \in [StateRow -> State(overlap)!Value], p \in [StateRow -> State(overlap)!Value] :
          row = [r \in StateRow |-> State(overlap)!Migrated(v[r], p[r])]
  BY DEF State!Init
<1>2. \A r \in StateRow : row[r] = State(overlap)!Migrated(v[r], p[r]) BY <1>1
<1>3. \A r \in StateRow : row[r] \in State(overlap)!State
  BY <1>1, <1>2 DEF State!Migrated, State!State, State!Local, State!Value
<1>4. row \in [StateRow -> State(overlap)!State] BY <1>1, <1>3
<1>5. ASSUME NEW r \in StateRow PROVE row[r].filled = FALSE
  <2>1. row[r] = State(overlap)!Migrated(v[r], p[r]) BY <1>2
  <2> QED BY <2>1 DEF State!Migrated
<1>6. State(overlap)!TypeOK
  <2>1. edit = [e \in Editor |-> State(overlap)!NoEdit] BY DEF State!Init
  <2>2. last = [r \in StateRow |-> IF row[r].visible = "read" THEN "read" ELSE "none"] BY
        DEF State!Init
  <2> QED BY <1>4, <2>1, <2>2 DEF State!Init, State!TypeOK, State!NoEdit, State!Local, State!Value
<1>7. ImportIsSound(overlap) BY DEF ImportIsSound, State!Init
<1>8. BackfillIsSound(overlap) BY StateAssumption DEF BackfillIsSound, State!Init
<1>9. EditsAreSound(overlap) BY DEF EditsAreSound, State!Init, State!NoEdit
<1>10. State(overlap)!ProviderIsPayload /\ State(overlap)!VisibleIsEffective
  BY <1>5 DEF State!ProviderIsPayload, State!VisibleIsEffective
<1>11. State(overlap)!EveryRowFilled BY DEF State!Init, State!EveryRowFilled
<1>12. State(overlap)!LastEditKept
  BY <1>2 DEF State!LastEditKept, State!Init, State!Migrated
<1> QED BY <1>6, <1>7, <1>8, <1>9, <1>10, <1>11, <1>12 DEF StateInv

\* An import writes a row: one no other transaction has, and, without Overlap, no edit has read.
LEMMA StateImports ==
    ASSUME NEW overlap, StateAssumption, StateInv(overlap), NEW r \in StateRow,
           \/ State(overlap)!ImportDeletion(r)
           \/ \E v \in State(overlap)!Value : State(overlap)!ImportRow(r, v)
    PROVE  StateInv(overlap)'
<1>1. PICK s : /\ \/ \E v \in State(overlap)!Value : s = State(overlap)!Upserted(row[r], v)
                  \/ s = [row[r] EXCEPT !.deleted = TRUE]
               /\ import' = [import EXCEPT !.open = TRUE, !.rows = @ \cup {r}, !.new[r] = s]
               /\ imports' \in {imports, imports + 1}
  <2>1. CASE State(overlap)!ImportDeletion(r)
    <3> DEFINE s == [row[r] EXCEPT !.deleted = TRUE]
    <3>1. /\ import.open = TRUE
             /\ import \in [open: BOOLEAN, rows: SUBSET StateRow,
             new: [StateRow -> State(overlap)!State]]
          /\ imports' = imports /\ import' = [import EXCEPT !.rows = @ \cup {r}, !.new[r] = s]
      BY <2>1 DEF State!ImportDeletion, StateInv, State!TypeOK
    <3> HIDE DEF s
    <3>2. import' = [import EXCEPT !.open = TRUE, !.rows = @ \cup {r}, !.new[r] = s] BY <3>1
    <3> QED BY <3>1, <3>2 DEF s
  <2>2. ASSUME NEW v \in State(overlap)!Value, State(overlap)!ImportRow(r, v)
        PROVE  /\ import' = [import EXCEPT !.open = TRUE, !.rows = @ \cup {r},
                  !.new[r] = State(overlap)!Upserted(row[r], v)]
               /\ imports' \in {imports, imports + 1}
    BY <2>2 DEF State!ImportRow
  <2> QED BY <2>1, <2>2
<1>2. /\ r \notin import.rows /\ r \notin backfill.locked
      /\ UNCHANGED <<row, edit, backfill, last, edits>>
      /\ ~overlap => \A e \in Editor : edit[e].row # r
  BY DEF State!ImportDeletion, State!ImportRow, State!Free, State!Alone
<1>3. row[r] \in State(overlap)!State BY DEF StateInv, State!TypeOK
<1>4. s \in State(overlap)!State
  <2>1. CASE s = [row[r] EXCEPT !.deleted = TRUE] BY <1>3, <2>1 DEF State!State
  <2>2. ASSUME NEW v \in State(overlap)!Value, s = State(overlap)!Upserted(row[r], v)
        PROVE  s \in State(overlap)!State
    BY <1>3, <2>2 DEF State!Upserted, State!State, State!Coalesce, State!Local
  <2> QED BY <1>1, <2>1, <2>2
<1>5. /\ import \in [open: BOOLEAN, rows: SUBSET StateRow, new: [StateRow -> State(overlap)!State]]
      /\ imports \in Nat
  BY DEF StateInv, State!TypeOK
<1>6. /\ import' \in [open: BOOLEAN, rows: SUBSET StateRow, new: [StateRow -> State(overlap)!State]]
      /\ imports' \in Nat
      /\ import'.open = TRUE /\ import'.rows = import.rows \cup {r}
      /\ import'.new[r] = s /\ \A q \in StateRow : q # r => import'.new[q] = import.new[q]
  <2> DEFINE S == State(overlap)!State
  <2> HIDE DEF S
  <2>1. s \in S
        /\ import \in [open: BOOLEAN, rows: SUBSET StateRow, new: [StateRow -> S]] BY <1>4, <1>5
        DEF S
  <2>2. import' = [open |-> TRUE, rows |-> import.rows \cup {r},
        new |-> [import.new EXCEPT ![r] = s]]
    BY <1>1, <2>1
  <2>3. import.rows \cup {r} \in SUBSET StateRow
        /\ [import.new EXCEPT ![r] = s] \in [StateRow -> S] BY <2>1
  <2>4. import' \in [open: BOOLEAN, rows: SUBSET StateRow, new: [StateRow -> S]] BY <2>2, <2>3
  <2>5. imports' \in Nat BY <1>1, <1>5
  <2>6. import'.new[r] = s /\ \A q \in StateRow : q # r =>
        import'.new[q] = import.new[q] BY <2>1, <2>2
  <2> QED BY <2>2, <2>4, <2>5, <2>6 DEF S
<1>7. State(overlap)!TypeOK' BY <1>2, <1>6 DEF StateInv, State!TypeOK
<1>8. ImportIsSound(overlap)'
  <2>1. ASSUME NEW q \in import'.rows
        PROVE  \/ \E v \in State(overlap)!Value : import'.new[q] = State(overlap)!Upserted(row[q],
                  v)
               \/ import'.new[q] = [row[q] EXCEPT !.deleted = TRUE]
    <3>1. CASE q = r BY <3>1, <1>1, <1>6
    <3>2. CASE q # r BY <2>1, <3>2, <1>5, <1>6 DEF StateInv, ImportIsSound
    <3> QED BY <3>1, <3>2
  <2>2. \A q \in import'.rows : \A v : State(overlap)!Upserted(row[q],
        v)' = State(overlap)!Upserted(row[q], v')
    BY <1>2 DEF State!Upserted, State!Coalesce
  <2> QED BY <1>2, <1>6, <2>1 DEF ImportIsSound, State!Upserted, State!Coalesce
<1>9. BackfillIsSound(overlap)' BY <1>2, <1>6 DEF StateInv, BackfillIsSound
<1>10. EditsAreSound(overlap)'
  <2>2. ASSUME ~overlap, NEW e \in Editor, edit[e].pc = "read" PROVE edit[e].row \notin import'.rows
    BY <2>2, <1>2, <1>6 DEF StateInv, EditsAreSound, State!Free
  <2> QED BY <1>2, <2>2 DEF StateInv, EditsAreSound, State!Free
<1> QED BY <1>2, <1>7, <1>8, <1>9, <1>10
           DEF StateInv, State!ProviderIsPayload, State!EveryRowFilled,
           State!VisibleIsEffective, State!LastEditKept, State!Coalesce

\* The page is committed, or it is not.
LEMMA StateImportEnds ==
    ASSUME NEW overlap, StateAssumption, StateInv(overlap), State(overlap)!ImportCommit
           \/ State(overlap)!ImportAborts
    PROVE  StateInv(overlap)'
<1>1. /\ row \in [StateRow -> State(overlap)!State]
      /\ import \in [open: BOOLEAN, rows: SUBSET StateRow, new: [StateRow -> State(overlap)!State]]
  BY DEF StateInv, State!TypeOK
<1>2. /\ row' = [r \in StateRow |-> IF r \in import.rows THEN import.new[r] ELSE row[r]]
         \/ row' = row
      /\ import' = [open |-> FALSE, rows |-> {}, new |-> row']
      /\ UNCHANGED <<edit, backfill, last, imports, edits>>
  BY DEF State!ImportCommit, State!ImportAborts
<1>3. row' \in [StateRow -> State(overlap)!State] BY <1>1, <1>2
<1>4. /\ import' \in [open: BOOLEAN, rows: SUBSET StateRow, new: [StateRow -> State(overlap)!State]]
      /\ import'.rows = {}
  BY <1>2, <1>3
<1>5. State(overlap)!TypeOK' BY <1>2, <1>3, <1>4 DEF StateInv, State!TypeOK
<1>6. ASSUME NEW r \in StateRow
      PROVE  \/ row'[r] = row[r]
             \/ /\ r \in import.rows
                /\ \/ \E v \in State(overlap)!Value : row'[r] = State(overlap)!Upserted(row[r], v)
                   \/ row'[r] = [row[r] EXCEPT !.deleted = TRUE]
  BY <1>2 DEF StateInv, ImportIsSound
<1>7. ASSUME NEW r \in StateRow
      PROVE  /\ row'[r].local = row[r].local
             /\ row[r].filled => row'[r].filled
             /\ row'[r].filled => row'[r].provider = row'[r].payload
             /\ ~overlap /\ row'[r].filled =>
                   row'[r].visible = State(overlap)!Coalesce(row'[r].local, row'[r].provider)
  <2>1. row[r] \in State(overlap)!State BY <1>1
  <2>2. CASE row'[r] = row[r]
    BY <2>2 DEF StateInv, State!ProviderIsPayload, State!VisibleIsEffective
  <2>3. CASE row'[r] = [row[r] EXCEPT !.deleted = TRUE]
    <3>1. /\ row'[r].local = row[r].local /\ row'[r].filled = row[r].filled
          /\ row'[r].provider = row[r].provider
          /\ row'[r].payload = row[r].payload /\ row'[r].visible = row[r].visible
      BY <2>1, <2>3 DEF State!State
    <3> QED BY <3>1 DEF StateInv, State!ProviderIsPayload, State!VisibleIsEffective
  <2>4. ASSUME NEW v \in State(overlap)!Value, row'[r] = State(overlap)!Upserted(row[r], v)
        PROVE  /\ row'[r].local = row[r].local
               /\ row[r].filled => row'[r].filled
               /\ row'[r].provider = row'[r].payload
               /\ row'[r].visible = State(overlap)!Coalesce(row'[r].local, row'[r].provider)
    BY <2>1, <2>4 DEF State!State, State!Upserted
  <2> QED BY <1>6, <2>2, <2>3, <2>4
<1>8. ImportIsSound(overlap)' BY <1>4 DEF ImportIsSound
<1>9. BackfillIsSound(overlap)'
  <2>1. \A r \in backfill.locked : row'[r] = row[r]
    <3>1. backfill.locked \subseteq StateRow BY DEF StateInv, State!TypeOK
    <3> QED BY <1>6, <3>1 DEF StateInv, BackfillIsSound
  <2> QED BY <1>2, <1>4, <1>7, <2>1 DEF StateInv, BackfillIsSound
<1>10. EditsAreSound(overlap)'
  <2>1. ASSUME ~overlap, NEW e \in Editor, edit[e].pc = "read"
        PROVE  row'[edit[e].row] = row[edit[e].row] /\ edit[e].row \notin backfill.locked
    <3>1. edit[e].row \in StateRow /\ edit[e].row \notin import.rows \cup backfill.locked
      BY <2>1 DEF StateInv, EditsAreSound, State!TypeOK, State!Free
    <3> QED BY <1>6, <3>1
  <2> QED BY <1>2, <1>4, <2>1 DEF StateInv, EditsAreSound, State!Free
<1>11. State(overlap)!ProviderIsPayload' /\ State(overlap)!EveryRowFilled'
  BY <1>2, <1>7 DEF StateInv, State!ProviderIsPayload, State!EveryRowFilled
<1>12. ~overlap => State(overlap)!VisibleIsEffective' /\ State(overlap)!LastEditKept'
  BY <1>2, <1>7 DEF StateInv, State!VisibleIsEffective, State!LastEditKept, State!Coalesce
<1> QED BY <1>5, <1>8, <1>9, <1>10, <1>11, <1>12 DEF StateInv

\* A user's edit reads a row.
LEMMA StateReads ==
    ASSUME NEW overlap, StateAssumption, StateInv(overlap), NEW e \in Editor, NEW r \in StateRow,
           NEW value \in State(overlap)!Value, State(overlap)!EditRead(e, r, value)
    PROVE  StateInv(overlap)'
<1> DEFINE now == [pc |-> "read", row |-> r, visible |-> row[r].visible, local |-> row[r].local,
    value |-> value]
<1>1. /\ edit[e].pc = "idle" /\ edit' = [edit EXCEPT ![e] = now] /\ edits' = edits + 1
      /\ UNCHANGED <<row, import, backfill, last, imports>>
      /\ ~overlap => State(overlap)!Free(r) /\ \A o \in Editor : edit[o].row # r
  BY DEF State!EditRead, State!Alone
<1>2. row[r] \in State(overlap)!State BY DEF StateInv, State!TypeOK
<1> DEFINE EditType == [pc: {"idle", "read"}, row: StateRow \cup {0}, visible: State(overlap)!Value,
                        local: State(overlap)!Local, value: State(overlap)!Value]
<1>3. now \in EditType BY <1>2 DEF State!State
<1>4. edit \in [Editor -> EditType] BY DEF StateInv, State!TypeOK
<1>5. r # 0 BY StateAssumption
<1> HIDE DEF EditType
<1>6. edit' \in [Editor -> EditType] /\ edit'[e] = now /\ \A o \in Editor : o # e =>
      edit'[o] = edit[o]
  BY <1>1, <1>3, <1>4
<1>7. State(overlap)!TypeOK'
  <2>1. edits' \in Nat BY <1>1 DEF StateInv, State!TypeOK
  <2> QED BY <1>1, <1>6, <2>1 DEF StateInv, State!TypeOK, EditType
<1>8. EditsAreSound(overlap)'
  <2>1. \A o \in Editor : (edit'[o].row = 0) <=> (edit'[o].pc = "idle")
    BY <1>5, <1>6 DEF StateInv, EditsAreSound
  <2>2. ASSUME ~overlap, NEW o \in Editor, edit'[o].pc = "read"
        PROVE  /\ edit'[o].row \notin import'.rows \cup backfill'.locked
               /\ edit'[o].visible = row'[edit'[o].row].visible
               /\ edit'[o].local = row'[edit'[o].row].local
               /\ \A p \in Editor : p # o => edit'[p].row # edit'[o].row
    <3>1. CASE o = e
      <4>1. /\ edit'[o].row = r /\ edit'[o].visible = row'[r].visible
            /\ edit'[o].local = row'[r].local
            /\ r \notin import'.rows \cup backfill'.locked
        BY <1>1, <1>6, <2>2, <3>1 DEF State!Free
      <4>2. \A p \in Editor : p # o => edit'[p].row # r BY <1>1, <1>6, <2>2, <3>1
      <4> QED BY <4>1, <4>2
    <3>2. CASE o # e
      <4>1. edit'[o] = edit[o] /\ edit[o].pc = "read" BY <1>6, <2>2, <3>2
      <4>2. /\ edit[o].row \notin import.rows \cup backfill.locked
            /\ edit[o].visible = row[edit[o].row].visible /\ edit[o].local = row[edit[o].row].local
            /\ \A p \in Editor : p # o => edit[p].row # edit[o].row
        BY <2>2, <4>1 DEF StateInv, EditsAreSound
      <4>3. edit'[e].row = r /\ edit[o].row # r BY <1>1, <1>6, <2>2
      <4> QED BY <1>1, <1>6, <4>1, <4>2, <4>3
    <3> QED BY <3>1, <3>2
  <2> QED BY <2>1, <2>2 DEF EditsAreSound
<1>9. ImportIsSound(overlap)'
  BY <1>1 DEF StateInv, ImportIsSound, State!Coalesce, State!Upserted
<1>10. BackfillIsSound(overlap)' BY <1>1 DEF StateInv, BackfillIsSound
<1>11. State(overlap)!ProviderIsPayload' /\ State(overlap)!EveryRowFilled'
  BY <1>1 DEF StateInv, State!ProviderIsPayload, State!EveryRowFilled
<1>12. ~overlap => State(overlap)!VisibleIsEffective' /\ State(overlap)!LastEditKept'
  BY <1>1 DEF StateInv, State!VisibleIsEffective, State!LastEditKept, State!Coalesce
<1> QED BY <1>7, <1>8, <1>9, <1>10, <1>11, <1>12 DEF StateInv

\* The edit is written, over a row that no other transaction has.
LEMMA StateEdits ==
    ASSUME NEW overlap, StateAssumption, StateInv(overlap), NEW e \in Editor,
           State(overlap)!EditCommit(e)
    PROVE  StateInv(overlap)'
<1> DEFINE r == edit[e].row
           new == State(overlap)!Edited(row[r], edit[e])
           EditType == [pc: {"idle", "read"}, row: StateRow \cup {0}, visible: State(overlap)!Value,
                        local: State(overlap)!Local, value: State(overlap)!Value]
           ImportType == [open: BOOLEAN, rows: SUBSET StateRow,
             new: [StateRow -> State(overlap)!State]]
<1>1. /\ row \in [StateRow -> State(overlap)!State] /\ import \in ImportType
      /\ edit \in [Editor -> EditType]
      /\ last \in [StateRow -> State(overlap)!Local]
  BY DEF StateInv, State!TypeOK
<1>2. /\ edit[e].pc = "read" /\ r \notin import.rows /\ r \notin backfill.locked
      /\ row' = [row EXCEPT ![r] = new]
      /\ import' = [import EXCEPT !.new[r] = row'[r]]
      /\ last' = [last EXCEPT ![r] = edit[e].value]
      /\ edit' = [edit EXCEPT ![e] = State(overlap)!NoEdit]
      /\ UNCHANGED <<backfill, imports, edits>>
  BY DEF State!EditCommit, State!Free
<1>3. r \in StateRow BY <1>1, <1>2 DEF StateInv, EditsAreSound
<1>4. edit[e] \in EditType /\ row[r] \in State(overlap)!State BY <1>1, <1>3
<1>5. /\ new \in State(overlap)!State
      /\ new.filled = row[r].filled /\ new.provider = row[r].provider
      /\ new.payload = row[r].payload
      /\ edit[e].visible = row[r].visible => new.visible = edit[e].value
      /\ edit[e].local = row[r].local => new.local = edit[e].value
  BY <1>4 DEF State!Edited, State!State, State!Local
<1>6. edit[e].value \in State(overlap)!Value BY <1>4
<1> HIDE DEF new, EditType, ImportType
<1>7. /\ row' \in [StateRow -> State(overlap)!State] /\ row'[r] = new
      /\ \A q \in StateRow : q # r => row'[q] = row[q]
  BY <1>1, <1>2, <1>3, <1>5
<1>8. /\ import' \in ImportType /\ import'.rows = import.rows /\ import'.open = import.open
      /\ \A q \in StateRow : q # r => import'.new[q] = import.new[q]
  <2>1. import' = [import EXCEPT !.new = [import.new EXCEPT ![r] = new]] BY <1>1, <1>2, <1>7
        DEF ImportType
  <2>2. [import.new EXCEPT ![r] = new] \in [StateRow -> State(overlap)!State] BY <1>1, <1>5
        DEF ImportType
  <2> QED BY <1>1, <2>1, <2>2 DEF ImportType
<1>9. edit' \in [Editor -> EditType] /\ edit'[e] = State(overlap)!NoEdit
      /\ \A o \in Editor : o # e => edit'[o] = edit[o]
  <2>1. State(overlap)!NoEdit \in EditType BY DEF State!NoEdit, EditType, State!Local, State!Value
  <2> QED BY <1>1, <1>2, <2>1
<1>10. last' \in [StateRow -> State(overlap)!Local] /\ last'[r] = edit[e].value
       /\ \A q \in StateRow : q # r => last'[q] = last[q]
  BY <1>1, <1>2, <1>3, <1>6 DEF State!Local
<1>11. State(overlap)!TypeOK' BY <1>2, <1>7, <1>8, <1>9, <1>10
       DEF StateInv, State!TypeOK, EditType, ImportType
<1>12. ImportIsSound(overlap)'
  <2>1. \A q \in import.rows : q \in StateRow /\ q # r BY <1>1, <1>2 DEF ImportType
  <2>2. \A q \in import'.rows :
            \/ \E v \in State(overlap)!Value : import'.new[q] = State(overlap)!Upserted(row'[q], v)
            \/ import'.new[q] = [row'[q] EXCEPT !.deleted = TRUE]
    BY <1>7, <1>8, <2>1 DEF StateInv, ImportIsSound
  <2> QED BY <1>8, <2>2 DEF StateInv, ImportIsSound, State!Upserted, State!Coalesce
<1>13. BackfillIsSound(overlap)'
  <2>1. \A q \in backfill.locked : q \in StateRow /\ q # r BY <1>2 DEF StateInv, State!TypeOK
  <2>2. \A q \in StateRow : row[q].filled => row'[q].filled BY <1>5, <1>7
  <2> QED BY <1>2, <1>7, <1>8, <2>1, <2>2 DEF StateInv, BackfillIsSound
<1>14. EditsAreSound(overlap)'
  <2>1. \A o \in Editor : (edit'[o].row = 0) <=> (edit'[o].pc = "idle")
    BY <1>9 DEF StateInv, EditsAreSound, State!NoEdit
  <2>2. ASSUME ~overlap, NEW o \in Editor, edit'[o].pc = "read"
        PROVE  /\ edit'[o].row \notin import'.rows \cup backfill'.locked
               /\ edit'[o].visible = row'[edit'[o].row].visible
               /\ edit'[o].local = row'[edit'[o].row].local
               /\ \A p \in Editor : p # o => edit'[p].row # edit'[o].row
    <3>1. o # e /\ edit'[o] = edit[o] BY <1>9, <2>2 DEF State!NoEdit
    <3>2. /\ edit[o].row \notin import.rows \cup backfill.locked /\ edit[o].row # r
          /\ edit[o].visible = row[edit[o].row].visible /\ edit[o].local = row[edit[o].row].local
          /\ \A p \in Editor : p # o => edit[p].row # edit[o].row
      BY <2>2, <3>1 DEF StateInv, EditsAreSound
    <3>3. edit[o].row \in StateRow
      <4>1. edit[o] \in EditType /\ edit[o].row # 0 BY <1>1, <2>2, <3>1 DEF StateInv, EditsAreSound
      <4> QED BY <4>1 DEF EditType
    <3>4. edit'[o].row \notin import'.rows \cup backfill'.locked BY <3>1, <3>2, <1>2, <1>8
    <3>5. edit'[e].row = 0 BY <1>9 DEF State!NoEdit
    <3>6. edit[o].row # 0 BY <3>3, StateAssumption
    <3> QED BY <1>7, <1>9, <3>1, <3>2, <3>3, <3>4, <3>5, <3>6
  <2> QED BY <2>1, <2>2 DEF EditsAreSound
<1>15. State(overlap)!ProviderIsPayload' /\ State(overlap)!EveryRowFilled'
  BY <1>2, <1>3, <1>5, <1>7 DEF StateInv, State!ProviderIsPayload, State!EveryRowFilled
<1>16. ASSUME ~overlap PROVE State(overlap)!VisibleIsEffective' /\ State(overlap)!LastEditKept'
  <2>1. new.visible = edit[e].value /\ new.local = edit[e].value
    BY <1>2, <1>5, <1>16 DEF StateInv, EditsAreSound
  <2>2. edit[e].value # "none" BY <1>6 DEF State!Value
  <2> QED BY <1>3, <1>7, <1>10, <1>16, <2>1, <2>2
             DEF StateInv, State!VisibleIsEffective, State!LastEditKept, State!Coalesce
<1> QED BY <1>11, <1>12, <1>13, <1>14, <1>15, <1>16 DEF StateInv

\* The symbols of the instance for the cardinality mean what those of this module mean.
LEMMA StateCard == ASSUME NEW overlap, NEW S PROVE State(overlap)!Cardinality(S) = Cardinality(S)
BY DEF State!Cardinality, Cardinality

\* The backfill locks the first of the rows that are left.
LEMMA StateLocks ==
    ASSUME NEW overlap, StateAssumption, StateInv(overlap), NEW r \in StateRow,
           State(overlap)!LockRow(r)
    PROVE  StateInv(overlap)'
<1> DEFINE S == State(overlap)!State
           BackfillType == [after: StateRow \cup {0}, locked: SUBSET StateRow,
             read: [StateRow -> S], done: BOOLEAN]
<1>1. /\ backfill' = [backfill EXCEPT !.locked = @ \cup {r}, !.read[r] = row[r]]
      /\ r \in State(overlap)!Rest /\ \A q \in State(overlap)!Rest : r <= q
      /\ r \notin import.rows /\ r \notin backfill.locked
      /\ ~overlap => \A e \in Editor : edit[e].row # r
      /\ UNCHANGED <<row, import, edit, last, imports, edits>>
  BY DEF State!LockRow, State!Free, State!Alone
<1>2. row \in [StateRow -> S] /\ backfill \in BackfillType BY DEF StateInv, State!TypeOK
<1> HIDE DEF S
<1>3. /\ backfill' \in BackfillType /\ backfill'.locked = backfill.locked \cup {r}
      /\ backfill'.after = backfill.after
      /\ backfill'.done = backfill.done /\ backfill'.read[r] = row[r]
      /\ \A q \in StateRow : q # r => backfill'.read[q] = backfill.read[q]
  <2>1. backfill' = [backfill EXCEPT !.locked = @ \cup {r},
        !.read = [backfill.read EXCEPT ![r] = row[r]]]
    BY <1>1, <1>2
  <2>2. [backfill.read EXCEPT ![r] = row[r]] \in [StateRow -> S] BY <1>2
  <2>3. backfill.locked \cup {r} \in SUBSET StateRow BY <1>2
  <2>4. backfill' \in BackfillType BY <1>2, <2>1, <2>2, <2>3
  <2> QED BY <1>2, <2>1, <2>4
<1>4. State(overlap)!TypeOK' BY <1>1, <1>3 DEF StateInv, State!TypeOK, S
<1>5. BackfillIsSound(overlap)'
  <2>1. r > backfill.after BY <1>1 DEF State!Rest
  <2>2. \A q \in StateRow \ backfill'.locked : q > backfill.after =>
        \A x \in backfill'.locked : x < q
    <3> TAKE q \in StateRow \ backfill'.locked
    <3> HAVE q > backfill.after
    <3>1. q \notin backfill.locked /\ q # r BY <1>3
    <3>2. \A x \in backfill.locked : x < q BY <3>1 DEF StateInv, BackfillIsSound
    <3>3. q \in State(overlap)!Rest BY <3>2 DEF State!Rest
    <3>4. r < q BY <1>1, <3>1, <3>3, StateAssumption
    <3> QED BY <1>3, <3>2, <3>4
  <2>3. \A q \in backfill'.locked : row[q] = backfill'.read[q] /\ q > backfill.after
    <3> TAKE q \in backfill'.locked
    <3>1. CASE q = r BY <1>3, <2>1, <3>1
    <3>2. CASE q # r
      <4>1. q \in backfill.locked /\ q \in StateRow BY <1>2, <1>3, <3>2
      <4> QED BY <1>3, <3>2, <4>1 DEF StateInv, BackfillIsSound
    <3> QED BY <3>1, <3>2
  <2>4. import.rows \cap backfill'.locked = {} BY <1>1, <1>3 DEF StateInv, BackfillIsSound
  <2> QED BY <1>1, <1>3, <2>2, <2>3, <2>4 DEF StateInv, BackfillIsSound
<1>6. EditsAreSound(overlap)' BY <1>1, <1>3 DEF StateInv, EditsAreSound
<1>7. ImportIsSound(overlap)' BY <1>1 DEF StateInv, ImportIsSound, State!Coalesce, State!Upserted
<1>8. State(overlap)!ProviderIsPayload' /\ State(overlap)!EveryRowFilled'
  BY <1>1, <1>3 DEF StateInv, State!ProviderIsPayload, State!EveryRowFilled
<1>9. ~overlap => State(overlap)!VisibleIsEffective' /\ State(overlap)!LastEditKept'
  BY <1>1 DEF StateInv, State!VisibleIsEffective, State!LastEditKept, State!Coalesce
<1> QED BY <1>4, <1>5, <1>6, <1>7, <1>8, <1>9 DEF StateInv

\* The batch is written from what was read of its rows, which nobody has written since.
LEMMA StateWrites ==
    ASSUME NEW overlap, StateAssumption, StateInv(overlap), State(overlap)!WriteBatch
    PROVE  StateInv(overlap)'
<1> DEFINE S == State(overlap)!State
           locked == backfill.locked
           final == CHOOSE r \in locked : \A q \in locked : q <= r
           ImportType == [open: BOOLEAN, rows: SUBSET StateRow, new: [StateRow -> S]]
           BackfillType == [after: StateRow \cup {0}, locked: SUBSET StateRow,
             read: [StateRow -> S], done: BOOLEAN]
<1>1. /\ ~backfill.done /\ locked # {}
      /\ row' = [r \in StateRow |-> IF r \in locked THEN State(overlap)!Derived(row[r],
           backfill.read[r]) ELSE row[r]]
      /\ import' = [import EXCEPT !.new = [r \in StateRow |-> IF r \in
           locked THEN row'[r] ELSE @[r]]]
      /\ backfill' = [backfill EXCEPT !.locked = {}, !.read = row', !.after = final]
      /\ UNCHANGED <<edit, last, imports, edits>>
  BY DEF State!WriteBatch, State!Continue
<1>2. row \in [StateRow -> S] /\ backfill \in BackfillType /\ import \in ImportType BY
      DEF StateInv, State!TypeOK
<1>3. locked \in SUBSET StateRow /\ locked \in SUBSET Nat BY <1>2, StateAssumption
<1>4. final \in locked /\ \A q \in locked : q <= final
  <2>1. IsFiniteSet(locked) BY <1>3, StateAssumption, FS_Subset
  <2> QED BY <1>1, <1>3, <2>1, LastOfLocked
<1>5. ASSUME NEW r \in locked
      PROVE  /\ row'[r] \in S /\ row'[r].filled /\ row'[r].local = row[r].local
             /\ row'[r].provider = row'[r].payload
             /\ row'[r].visible = State(overlap)!Coalesce(row'[r].local, row'[r].provider)
  <2>1. row[r] \in S /\ row[r] = backfill.read[r] BY <1>2, <1>3 DEF StateInv, BackfillIsSound
  <2>2. row'[r] = State(overlap)!Derived(row[r], row[r]) BY <1>1, <1>3, <2>1
  <2> QED BY <2>1, <2>2 DEF State!Derived, State!State, State!Coalesce, State!Local
<1>6. \A r \in StateRow \ locked : row'[r] = row[r] BY <1>1
<1> HIDE DEF S, final, locked
<1>7. row' \in [StateRow -> S]
  <2>1. \A r \in StateRow : row'[r] \in S BY <1>2, <1>5, <1>6
  <2> QED BY <1>1, <2>1
<1>8. import' \in ImportType /\ import'.rows = import.rows /\ import'.open = import.open
      /\ \A r \in StateRow \ locked : import'.new[r] = import.new[r]
  <2> DEFINE new == [r \in StateRow |-> IF r \in locked THEN row'[r] ELSE import.new[r]]
  <2>1. import' = [import EXCEPT !.new = new] BY <1>1, <1>2
  <2>2. new \in [StateRow -> S] BY <1>2, <1>7
  <2>3. \A r \in StateRow \ locked : new[r] = import.new[r] OBVIOUS
  <2> HIDE DEF new
  <2> QED BY <1>2, <2>1, <2>2, <2>3
<1>9. backfill' \in BackfillType /\ backfill'.locked = {} /\ backfill'.after = final
      /\ backfill'.done = FALSE
  <2>1. final \in StateRow BY <1>3, <1>4
  <2> QED BY <1>1, <1>2, <1>7, <2>1
<1>10. \A r \in StateRow : /\ row'[r].local = row[r].local
                           /\ row[r].filled => row'[r].filled
                           /\ row'[r].filled => row'[r].provider = row'[r].payload
                           /\ ~overlap /\ row'[r].filled =>
                                row'[r].visible = State(overlap)!Coalesce(row'[r].local,
                                row'[r].provider)
  <2> TAKE r \in StateRow
  <2>1. CASE r \in locked BY <1>5, <2>1
  <2>2. CASE r \notin locked BY <1>6, <2>2
             DEF StateInv, State!ProviderIsPayload, State!VisibleIsEffective
  <2> QED BY <2>1, <2>2
<1>11. State(overlap)!TypeOK' BY <1>1, <1>7, <1>8, <1>9 DEF StateInv, State!TypeOK, S
<1>12. ImportIsSound(overlap)'
  <2>1. \A q \in import.rows : q \in StateRow \ locked BY <1>2 DEF StateInv, BackfillIsSound, locked
  <2>2. \A q \in import'.rows :
            \/ \E v \in State(overlap)!Value : import'.new[q] = State(overlap)!Upserted(row'[q], v)
            \/ import'.new[q] = [row'[q] EXCEPT !.deleted = TRUE]
    BY <1>6, <1>8, <2>1 DEF StateInv, ImportIsSound
  <2> QED BY <1>8, <2>2 DEF StateInv, ImportIsSound, State!Upserted, State!Coalesce
<1>13. BackfillIsSound(overlap)'
  <2>1. ASSUME NEW r \in StateRow, r <= final PROVE row'[r].filled
    <3>1. CASE r \in locked BY <1>5, <3>1
    <3>2. CASE r <= backfill.after BY <1>10, <3>2 DEF StateInv, BackfillIsSound
    <3>5. StateRow \subseteq Nat BY StateAssumption
    <3>6. backfill.after \in StateRow \cup {0} /\ final \in Nat BY <1>2, <1>3, <1>4
    <3>7. \A q \in StateRow \cup {0} : q \in Nat BY <3>5
    <3>3. r \in Nat /\ backfill.after \in Nat /\ final \in Nat BY <3>6, <3>7
    <3>4. CASE r \notin locked /\ r > backfill.after
      <4>1. final < r BY <1>4, <3>4 DEF StateInv, BackfillIsSound, locked
      <4> QED BY <2>1, <3>3, <4>1
    <3> QED BY <3>1, <3>2, <3>3, <3>4
  <2>2. ASSUME NEW r \in StateRow PROVE r \notin backfill'.locked BY <1>9
  <2> QED BY <1>9, <2>1 DEF BackfillIsSound
<1>14. EditsAreSound(overlap)'
  <2>1. ASSUME ~overlap, NEW e \in Editor, edit[e].pc = "read"
        PROVE  /\ edit[e].row \notin import'.rows \cup backfill'.locked
               /\ edit[e].visible = row'[edit[e].row].visible
               /\ edit[e].local = row'[edit[e].row].local
    <3>1. edit[e].row \in StateRow \ locked BY <2>1
          DEF StateInv, EditsAreSound, State!TypeOK, locked
    <3> QED BY <1>6, <1>8, <1>9, <2>1, <3>1 DEF StateInv, EditsAreSound
  <2> QED BY <1>1, <2>1 DEF StateInv, EditsAreSound
<1>15. State(overlap)!ProviderIsPayload' /\ State(overlap)!EveryRowFilled'
  BY <1>9, <1>10 DEF StateInv, State!ProviderIsPayload, State!EveryRowFilled
<1>16. ~overlap => State(overlap)!VisibleIsEffective' /\ State(overlap)!LastEditKept'
  BY <1>1, <1>10 DEF StateInv, State!VisibleIsEffective, State!LastEditKept, State!Coalesce
<1> QED BY <1>11, <1>12, <1>13, <1>14, <1>15, <1>16 DEF StateInv

\* The backfill ends where no row is left, and gives its batch back when it is aborted.
LEMMA StateBackfillEnds ==
    ASSUME NEW overlap, StateAssumption, StateInv(overlap),
           State(overlap)!LastBatch \/ State(overlap)!BackfillAborts
    PROVE  StateInv(overlap)'
<1> DEFINE S == State(overlap)!State
           BackfillType == [after: StateRow \cup {0}, locked: SUBSET StateRow,
             read: [StateRow -> S], done: BOOLEAN]
<1>1. row \in [StateRow -> S] /\ backfill \in BackfillType BY DEF StateInv, State!TypeOK
<1>2. UNCHANGED <<row, import, edit, last, imports, edits>> BY
      DEF State!LastBatch, State!BackfillAborts
<1>3. CASE State(overlap)!LastBatch
  <2>1. /\ backfill' = [backfill EXCEPT !.done = TRUE] /\ backfill.locked = {}
        /\ State(overlap)!Cardinality(backfill.locked) = Batch \/ State(overlap)!Rest = {}
    BY <1>3 DEF State!LastBatch, State!Full
  <2>2. State(overlap)!Rest = {} BY <2>1, StateCard, FS_EmptySet, StateAssumption
  <2>3. \A r \in StateRow : ~(r > backfill.after) BY <2>1, <2>2 DEF State!Rest
  <2>12. StateRow \subseteq Nat BY StateAssumption
  <2>13. backfill.after \in StateRow \cup {0} BY <1>1
  <2>14. \A q \in StateRow \cup {0} : q \in Nat BY <2>12
  <2>4. \A r \in StateRow : r \in Nat /\ backfill.after \in Nat BY <2>13, <2>14
  <2>5. \A r \in StateRow : row[r].filled BY <2>3, <2>4 DEF StateInv, BackfillIsSound
  <2>6. backfill' \in BackfillType /\ backfill'.locked = backfill.locked
        /\ backfill'.after = backfill.after
        /\ backfill'.read = backfill.read
    BY <1>1, <2>1
  <2>7. BackfillIsSound(overlap)' BY <1>2, <2>6 DEF StateInv, BackfillIsSound
  <2>8. EditsAreSound(overlap)' BY <1>2, <2>6 DEF StateInv, EditsAreSound
  <2>9. State(overlap)!EveryRowFilled' BY <1>2, <2>5 DEF State!EveryRowFilled
  <2>10. State(overlap)!TypeOK' BY <1>2, <2>6 DEF StateInv, State!TypeOK
  <2>11. ImportIsSound(overlap)' BY <1>2 DEF StateInv, ImportIsSound, State!Coalesce, State!Upserted
  <2> QED BY <1>2, <2>7, <2>8, <2>9, <2>10, <2>11 DEF StateInv, State!ProviderIsPayload,
             State!VisibleIsEffective, State!LastEditKept, State!Coalesce
<1>4. CASE State(overlap)!BackfillAborts
  <2>1. backfill' = [backfill EXCEPT !.locked = {}, !.read = row] /\ backfill.locked # {}
    BY <1>4 DEF State!BackfillAborts
  <2>2. /\ backfill' \in BackfillType /\ backfill'.locked = {} /\ backfill'.after = backfill.after
        /\ backfill'.done = backfill.done
    BY <1>1, <2>1
  <2>3. BackfillIsSound(overlap)' BY <1>2, <2>2 DEF StateInv, BackfillIsSound
  <2>4. EditsAreSound(overlap)' BY <1>2, <2>2 DEF StateInv, EditsAreSound
  <2>5. State(overlap)!TypeOK' BY <1>2, <2>2 DEF StateInv, State!TypeOK
  <2>6. ImportIsSound(overlap)' BY <1>2 DEF StateInv, ImportIsSound, State!Coalesce, State!Upserted
  <2>7. State(overlap)!EveryRowFilled' BY <1>2, <2>2 DEF StateInv, State!EveryRowFilled
  <2> QED BY <1>2, <2>3, <2>4, <2>5, <2>6, <2>7 DEF StateInv, State!ProviderIsPayload,
             State!VisibleIsEffective, State!LastEditKept, State!Coalesce
<1> QED BY <1>3, <1>4

\* A step in which nothing of the message state moves.
LEMMA StateStutters ==
    ASSUME NEW overlap, StateInv(overlap), UNCHANGED stateVars PROVE StateInv(overlap)'
<1>1. UNCHANGED <<row, import, edit, backfill, last, imports, edits>> BY DEF stateVars
<1>2. State(overlap)!TypeOK' BY <1>1 DEF StateInv, State!TypeOK
<1>3. ImportIsSound(overlap)' BY <1>1 DEF StateInv, ImportIsSound, State!Coalesce, State!Upserted
<1>4. BackfillIsSound(overlap)' BY <1>1 DEF StateInv, BackfillIsSound
<1>5. EditsAreSound(overlap)' BY <1>1 DEF StateInv, EditsAreSound
<1> QED BY <1>1, <1>2, <1>3, <1>4, <1>5 DEF StateInv, State!ProviderIsPayload, State!EveryRowFilled,
           State!VisibleIsEffective, State!LastEditKept, State!Coalesce

\* Every step keeps the invariant.
LEMMA StateStep ==
    ASSUME NEW overlap, StateAssumption, StateInv(overlap), State(overlap)!Next
    PROVE  StateInv(overlap)'
<1>1. CASE State(overlap)!ImportNext
  BY <1>1, StateImportEnds, StateImports DEF State!ImportNext
<1>2. CASE State(overlap)!BackfillNext
  BY <1>2, StateWrites, StateBackfillEnds, StateLocks DEF State!BackfillNext
<1>3. CASE State(overlap)!ImportAborts BY <1>3, StateImportEnds
<1>4. CASE State(overlap)!BackfillAborts BY <1>4, StateBackfillEnds
<1>5. CASE \E e \in Editor : \/ State(overlap)!EditCommit(e)
                             \/ \E r \in StateRow,
                                  v \in State(overlap)!Value : State(overlap)!EditRead(e, r, v)
  BY <1>5, StateEdits, StateReads
<1>6. CASE State(overlap)!Stop BY <1>6, StateStutters DEF State!Stop, State!vars, stateVars
<1> QED BY <1>1, <1>2, <1>3, <1>4, <1>5, <1>6 DEF State!Next

\* What the invariant is for.
LEMMA StateFollows ==
    ASSUME NEW overlap, StateInv(overlap)
    PROVE  /\ State(overlap)!TypeOK /\ State(overlap)!ProviderIsPayload
           /\ State(overlap)!EveryRowFilled
           /\ ~overlap => State(overlap)!VisibleIsEffective /\ State(overlap)!LastEditKept
BY DEF StateInv

-----------------------------------------------------------------------------
(* Pages *)

\* A row that has kept its place since the reader began has been read at most once, is not
\* ahead of the reader once it has been read, and is ahead of it until then, if it was
\* shown all the time.
ListInv ==
    /\ Lists!TypeOK
    /\ \A r \in ListRow \ moved :
          /\ seen[r] <= 1
          /\ ~done /\ seen[r] > 0 => cursor # Lists!Start /\ ~Lists!Precedes(cursor, Lists!KeyOf(r))
    /\ \A r \in ListRow \ (moved \cup hidden) :
          r \in shown /\ (seen[r] > 0 \/ (~done /\ Lists!Follows(r)))

\* The cardinality of the instance is that of this module.
LEMMA ListCard == \A S : Lists!Cardinality(S) = Cardinality(S)
BY DEF Lists!Cardinality, Cardinality

\* The list's order is a strict total order of the keys.
LEMMA OrderIsTotal ==
    ASSUME ListAssumption, NEW k \in Int \X Int, NEW l \in Int \X Int
    PROVE  /\ ~Lists!Precedes(k, k)
           /\ Lists!Precedes(k, l) => ~Lists!Precedes(l, k)
           /\ k # l => Lists!Precedes(k, l) \/ Lists!Precedes(l, k)
           /\ \A m \in Int \X Int : Lists!Precedes(k, l) /\ Lists!Precedes(l, m) =>
                Lists!Precedes(k, m)
<1>1. k[1] \in Int /\ k[2] \in Int /\ l[1] \in Int /\ l[2] \in Int /\ k = <<k[1], k[2]>>
      /\ l = <<l[1], l[2]>> OBVIOUS
<1>2. k # l => k[1] # l[1] \/ k[2] # l[2] BY <1>1
<1>3. ASSUME NEW m \in Int \X Int, Lists!Precedes(k, l), Lists!Precedes(l, m)
      PROVE  Lists!Precedes(k, m)
  <2>1. m[1] \in Int /\ m[2] \in Int OBVIOUS
  <2> QED BY <1>1, <1>3, <2>1 DEF Lists!Precedes
<1>4. ~Lists!Precedes(k, k) BY <1>1 DEF Lists!Precedes
<1>5. Lists!Precedes(k, l) => ~Lists!Precedes(l, k) BY <1>1 DEF Lists!Precedes
<1>6. k # l => Lists!Precedes(k, l) \/ Lists!Precedes(l, k) BY <1>1, <1>2 DEF Lists!Precedes
<1> QED BY <1>3, <1>4, <1>5, <1>6

\* The rows' keys are keys, one of its own for each row.
LEMMA KeysOfRows ==
    ASSUME ListAssumption, Lists!TypeOK
    PROVE  /\ \A r \in ListRow : Lists!KeyOf(r) \in Lists!Key
           /\ Lists!Key \subseteq Int \X Int /\ Lists!Start \notin Lists!Key
           /\ \A q, r \in ListRow : Lists!KeyOf(q) = Lists!KeyOf(r) => q = r
<1>1. time \in [ListRow -> 1..MaxTime] BY DEF Lists!TypeOK
<1>2. \A r \in ListRow : Lists!KeyOf(r) \in Lists!Key BY <1>1 DEF Lists!KeyOf, Lists!Key
<1>3. Lists!Key \subseteq Int \X Int
  <2>1. ListRow \subseteq Int /\ 1..MaxTime \subseteq Int BY ListAssumption
  <2> QED BY <2>1 DEF Lists!Key
<1>4. Lists!Start \notin Lists!Key BY DEF Lists!Start, Lists!Key
<1>5. \A q, r \in ListRow : Lists!KeyOf(q) = Lists!KeyOf(r) => q = r BY DEF Lists!KeyOf
<1> QED BY <1>2, <1>3, <1>4, <1>5

\* The rows of S that come before r, as the list's order has it.
LEMMA AheadIsBefore ==
    ASSUME NEW S \in SUBSET ListRow, NEW r
    PROVE  Lists!Ahead(r, S) = {q \in S : Lists!Precedes(Lists!KeyOf(q), Lists!KeyOf(r))}
BY DEF Lists!Ahead, Lists!Precedes, Lists!KeyOf

\* Of some rows, one comes first and one comes last.
LEMMA FirstAndLast ==
    ASSUME ListAssumption, Lists!TypeOK, NEW S \in SUBSET ListRow, S # {}
    PROVE  /\ \E r \in S : Lists!Ahead(r, S) = {}
           /\ \E r \in S : Lists!Ahead(r, S) = S \ {r}
<1> DEFINE Before(q, r) == Lists!Precedes(Lists!KeyOf(q), Lists!KeyOf(r))
           ahead == [r \in S |-> {q \in S : Before(q, r)}]
           behind == [r \in S |-> {q \in S : Before(r, q)}]
<1>1. \A q, r \in S : /\ ~Before(r, r) /\ (Before(q, r) => ~Before(r, q)) /\ (q # r =>
                         Before(q, r) \/ Before(r, q))
                      /\ \A x \in S : Before(q, r) /\ Before(r, x) => Before(q, x)
  <2>1. \A r \in S : Lists!KeyOf(r) \in Int \X Int BY KeysOfRows
  <2>2. \A q, r \in S : q # r => Lists!KeyOf(q) # Lists!KeyOf(r) BY KeysOfRows
  <2> QED BY <2>1, <2>2, OrderIsTotal
<1>2. IsFiniteSet(S) BY ListAssumption, FS_Subset
<1>3. ahead \in [S -> SUBSET S] /\ behind \in [S -> SUBSET S] OBVIOUS
<1>4. \A r \in S : ahead[r] = {q \in S : Before(q, r)}
      /\ behind[r] = {q \in S : Before(r, q)} OBVIOUS
<1>5. \A r \in S : Lists!Ahead(r, S) = {q \in S : Before(q, r)} BY AheadIsBefore
<1> HIDE DEF ahead, behind, Before
<1>6. PICK f \in S : ahead[f] = {}
  <2>1. \A r \in S : r \notin ahead[r]
        /\ \A q \in ahead[r] : ahead[q] \subseteq ahead[r] BY <1>1, <1>4
  <2> QED BY <1>2, <1>3, <2>1, FirstOfFinite
<1>7. PICK l \in S : behind[l] = {}
  <2>1. ASSUME NEW r \in S
        PROVE  r \notin behind[r] /\ \A q \in behind[r] : behind[q] \subseteq behind[r]
    <3>1. \A q, x \in S : Before(r, q) /\ Before(q, x) => Before(r, x) BY <1>1
    <3>2. \A q \in behind[r] : q \in S /\ Before(r, q) BY <1>4
    <3>3. \A q \in S : \A x \in behind[q] : x \in S /\ Before(q, x) BY <1>4
    <3>4. \A x \in S : Before(r, x) => x \in behind[r] BY <1>4
    <3>5. r \notin behind[r] BY <1>1, <1>4
    <3> QED BY <3>1, <3>2, <3>3, <3>4, <3>5
  <2> QED BY <1>2, <1>3, <2>1, FirstOfFinite
<1>8. Lists!Ahead(f, S) = {} BY <1>4, <1>5, <1>6
<1>9. Lists!Ahead(l, S) = S \ {l}
  <2>1. \A q \in S : ~Before(l, q) BY <1>4, <1>7
  <2>2. ~Before(l, l) BY <1>1
  <2>3. \A q \in S : q # l => Before(q, l) BY <1>1, <2>1
  <2> QED BY <1>5, <2>2, <2>3
<1> QED BY <1>8, <1>9

\* What is ahead of a row is finite, and no more than what is ahead of a later one.
LEMMA AheadGrows ==
    ASSUME ListAssumption, Lists!TypeOK, NEW S \in SUBSET ListRow, NEW q \in ListRow,
           NEW r \in ListRow,
           Lists!Precedes(Lists!KeyOf(q), Lists!KeyOf(r))
    PROVE  /\ Cardinality(Lists!Ahead(q, S)) \in Nat /\ Cardinality(Lists!Ahead(r, S)) \in Nat
           /\ Cardinality(Lists!Ahead(q, S)) <= Cardinality(Lists!Ahead(r, S))
<1>1. \A x \in ListRow : Lists!KeyOf(x) \in Int \X Int BY KeysOfRows
<1>2. Lists!Ahead(q, S) \subseteq Lists!Ahead(r, S)
  <2>1. \A x \in S : Lists!Precedes(Lists!KeyOf(x), Lists!KeyOf(q)) =>
        Lists!Precedes(Lists!KeyOf(x), Lists!KeyOf(r))
    BY <1>1, OrderIsTotal
  <2> QED BY <2>1, AheadIsBefore
<1>3. Lists!Ahead(r, S) \subseteq ListRow BY AheadIsBefore
<1>4. IsFiniteSet(Lists!Ahead(r, S)) BY <1>3, ListAssumption, FS_Subset
<1>5. IsFiniteSet(Lists!Ahead(q, S))
      /\ Cardinality(Lists!Ahead(q, S)) <= Cardinality(Lists!Ahead(r, S))
  BY <1>2, <1>4, FS_Subset
<1> QED BY <1>4, <1>5, FS_CardinalityType

\* The first n of some rows: those with less than n ahead of them.
LEMMA FirstRows ==
    ASSUME ListAssumption, Lists!TypeOK, NEW S \in SUBSET ListRow, NEW n \in Nat
    PROVE  /\ Lists!First(n, S) \subseteq S
           /\ \A q \in S, r \in Lists!First(n, S) :
                 Lists!Precedes(Lists!KeyOf(q), Lists!KeyOf(r)) => q \in Lists!First(n, S)
           /\ Cardinality(Lists!First(n, S)) < n => Lists!First(n, S) = S
<1> DEFINE F == Lists!First(n, S)
<1>1. F = {r \in S : Cardinality(Lists!Ahead(r, S)) < n} BY ListCard DEF Lists!First
<1>2. ASSUME NEW q \in S, NEW r \in F, Lists!Precedes(Lists!KeyOf(q), Lists!KeyOf(r)) PROVE q \in F
  <2>1. r \in S /\ Cardinality(Lists!Ahead(r, S)) < n BY <1>1
  <2>2. /\ Cardinality(Lists!Ahead(q, S)) \in Nat /\ Cardinality(Lists!Ahead(r, S)) \in Nat
        /\ Cardinality(Lists!Ahead(q, S)) <= Cardinality(Lists!Ahead(r, S))
    BY <1>2, <2>1, AheadGrows
  <2> QED BY <1>1, <2>1, <2>2
<1>3. ASSUME Cardinality(F) < n, F # S PROVE FALSE
  <2>1. F \subseteq S BY <1>1
  <2>2. PICK r \in S \ F : Lists!Ahead(r, S \ F) = {} BY <1>3, <2>1, FirstAndLast
  <2>3. Lists!Ahead(r, S) \subseteq F BY <2>2, AheadIsBefore
  <2>4. IsFiniteSet(F) BY <2>1, ListAssumption, FS_Subset
  <2>5. /\ IsFiniteSet(Lists!Ahead(r, S)) /\ Cardinality(Lists!Ahead(r, S)) <= Cardinality(F)
    BY <2>3, <2>4, FS_Subset
  <2>6. Cardinality(Lists!Ahead(r, S)) \in Nat
        /\ Cardinality(F) \in Nat BY <2>4, <2>5, FS_CardinalityType
  <2>7. Cardinality(Lists!Ahead(r, S)) < n BY <1>3, <2>5, <2>6
  <2> QED BY <1>1, <2>2, <2>7
<1>4. F \subseteq S BY <1>1
<1> HIDE DEF F
<1>5. /\ F \subseteq S
      /\ \A q \in S, r \in F : Lists!Precedes(Lists!KeyOf(q), Lists!KeyOf(r)) => q \in F
      /\ Cardinality(F) < n => F = S
  BY <1>2, <1>3, <1>4
<1> QED BY <1>5 DEF F

\* A page without a cursor shows all that was left; the cursor of a page is the key of its
\* last row, and what the page does not show of what was left follows it.
LEMMA PageIsSound ==
    ASSUME ListAssumption, Lists!TypeOK, NEW S \in SUBSET ListRow
    PROVE  LET rows == Lists!First(Limit + 1, S)
               visible == Lists!First(Limit, rows)
               cut == Lists!NextCursor(rows, visible)
           IN  /\ visible \subseteq S
               /\ cut = {} => visible = S
               /\ \A c \in cut : \E v \in visible :
                     /\ c = Lists!KeyOf(v)
                     /\ \A r \in visible : ~Lists!Precedes(c, Lists!KeyOf(r))
                     /\ \A r \in S \ visible : Lists!Precedes(c, Lists!KeyOf(r))
<1> DEFINE rows == Lists!First(Limit + 1, S)
           visible == Lists!First(Limit, rows)
           cut == Lists!NextCursor(rows, visible)
<1>1. Limit \in Nat \ {0} /\ Limit + 1 \in Nat BY ListAssumption
<1>2. /\ rows \subseteq S /\ rows \in SUBSET ListRow /\ visible \subseteq rows
      /\ \A q \in S, r \in rows : Lists!Precedes(Lists!KeyOf(q), Lists!KeyOf(r)) => q \in rows
      /\ Cardinality(rows) < Limit + 1 => rows = S
  BY <1>1, FirstRows
<1>3. /\ visible \subseteq rows
      /\ \A q \in rows, r \in visible : Lists!Precedes(Lists!KeyOf(q), Lists!KeyOf(r)) =>
           q \in visible
  BY <1>1, <1>2, FirstRows
<1>4. visible = {r \in rows : Cardinality(Lists!Ahead(r, rows)) < Limit} BY ListCard DEF Lists!First
<1>5. cut = {Lists!KeyOf(r) : r \in {v \in visible : Cardinality(rows) > Limit
      /\ visible \ {v} = Lists!Ahead(v, visible)}}
  BY ListCard DEF Lists!NextCursor
<1> HIDE DEF rows, visible, cut
<1>6. IsFiniteSet(rows)
      /\ Cardinality(rows) \in Nat BY <1>2, ListAssumption, FS_Subset, FS_CardinalityType
<1>7. ASSUME Cardinality(rows) <= Limit PROVE visible = S
  <2>1. rows = S BY <1>1, <1>2, <1>6, <1>7
  <2>2. ASSUME NEW r \in rows PROVE r \in visible
    <3>1. Lists!Ahead(r, rows) \subseteq rows /\ r \notin Lists!Ahead(r, rows)
      <4>1. Lists!KeyOf(r) \in Int \X Int BY <1>2, KeysOfRows
      <4>2. ~Lists!Precedes(Lists!KeyOf(r), Lists!KeyOf(r)) BY <4>1, OrderIsTotal
      <4> QED BY <1>2, <4>2, AheadIsBefore
    <3>2. /\ IsFiniteSet(Lists!Ahead(r, rows))
          /\ Cardinality(Lists!Ahead(r, rows)) <= Cardinality(rows)
          /\ Cardinality(Lists!Ahead(r, rows)) = Cardinality(rows) => Lists!Ahead(r, rows) = rows
      BY <1>6, <3>1, FS_Subset
    <3>3. Cardinality(Lists!Ahead(r, rows)) \in Nat BY <3>2, FS_CardinalityType
    <3>4. Cardinality(Lists!Ahead(r, rows)) < Limit BY <1>1, <1>6, <1>7, <3>1, <3>2, <3>3
    <3> QED BY <1>4, <3>4
  <2> QED BY <1>3, <2>1, <2>2
<1>8. ASSUME Cardinality(rows) > Limit PROVE cut # {}
  <2>1. rows # {} BY <1>1, <1>8, FS_EmptySet
  <2>2. PICK f \in rows : Lists!Ahead(f, rows) = {} BY <1>2, <2>1, FirstAndLast
  <2>3. f \in visible BY <1>1, <1>4, <2>2, FS_EmptySet
  <2>4. visible \in SUBSET ListRow BY <1>2
  <2>5. PICK l \in visible : Lists!Ahead(l, visible) = visible \ {l} BY <2>3, <2>4, FirstAndLast
  <2> QED BY <1>5, <1>8, <2>5
<1>9. cut = {} => visible = S BY <1>1, <1>6, <1>7, <1>8
<1>10. ASSUME NEW c \in cut
       PROVE  \E v \in visible :
                 /\ c = Lists!KeyOf(v)
                 /\ \A r \in visible : ~Lists!Precedes(c, Lists!KeyOf(r))
                 /\ \A r \in S \ visible : Lists!Precedes(c, Lists!KeyOf(r))
  <2>1. PICK v \in visible : c = Lists!KeyOf(v) /\ visible \ {v} = Lists!Ahead(v, visible) BY <1>5
  <2>2. \A r \in ListRow : Lists!KeyOf(r) \in Int \X Int /\ (r # v =>
        Lists!KeyOf(r) # Lists!KeyOf(v))
    BY <1>2, KeysOfRows
  <2>3. ASSUME NEW r \in visible PROVE ~Lists!Precedes(c, Lists!KeyOf(r))
    <3>1. r \in ListRow /\ v \in ListRow /\ visible \in SUBSET ListRow BY <1>2
    <3>2. CASE r = v BY <2>1, <2>2, <3>1, <3>2, OrderIsTotal
    <3>3. CASE r # v
      <4>1. Lists!Precedes(Lists!KeyOf(r), Lists!KeyOf(v)) BY <2>1, <3>1, <3>3, AheadIsBefore
      <4> QED BY <2>1, <2>2, <3>1, <4>1, OrderIsTotal
    <3> QED BY <3>2, <3>3
  <2>4. ASSUME NEW r \in S \ visible PROVE Lists!Precedes(c, Lists!KeyOf(r))
    <3>1. r \in ListRow /\ v \in ListRow /\ v \in rows /\ r # v BY <1>2
    <3>2. Lists!KeyOf(r) \in Int \X Int /\ Lists!KeyOf(v) \in Int \X Int
          /\ Lists!KeyOf(r) # Lists!KeyOf(v) BY <2>2, <3>1
    <3>3. ~Lists!Precedes(Lists!KeyOf(r), Lists!KeyOf(v)) BY <1>2, <1>3, <3>1
    <3> QED BY <2>1, <3>2, <3>3, OrderIsTotal
  <2> QED BY <2>1, <2>3, <2>4
<1>11. /\ visible \subseteq S
       /\ cut = {} => visible = S
       /\ \A c \in cut : \E v \in visible :
             /\ c = Lists!KeyOf(v)
             /\ \A r \in visible : ~Lists!Precedes(c, Lists!KeyOf(r))
             /\ \A r \in S \ visible : Lists!Precedes(c, Lists!KeyOf(r))
  BY <1>2, <1>9, <1>10
<1> QED BY <1>11 DEF rows, visible, cut

\* The reader begins: every row that is shown is ahead of it.
LEMMA ListInit == ASSUME ListAssumption, Lists!Init PROVE ListInv
<1>1. time \in [ListRow -> 1..MaxTime] BY DEF Lists!Init
<1>2. seen = [r \in ListRow |-> 0] /\ \A r \in ListRow : seen[r] = 0 BY DEF Lists!Init
<1>3. seen \in [ListRow -> 0..2] BY <1>2
<1>4. shown \subseteq ListRow /\ hidden \subseteq ListRow /\ moved \subseteq ListRow BY
      DEF Lists!Init
<1>5. cursor \in Lists!Key \cup {Lists!Start} /\ done \in BOOLEAN BY DEF Lists!Init
<1>6. Lists!TypeOK BY <1>1, <1>3, <1>4, <1>5 DEF Lists!Init, Lists!TypeOK
<1> QED BY <1>2, <1>6 DEF ListInv, Lists!Init, Lists!Follows

\* The reader gets a page.
LEMMA ListPage == ASSUME ListAssumption, ListInv, Lists!ReadPage PROVE ListInv'
<1> DEFINE S == {r \in shown : Lists!Follows(r)}
           rows == Lists!First(Limit + 1, S)
           visible == Lists!First(Limit, rows)
           cut == Lists!NextCursor(rows, visible)
<1>1. /\ done = FALSE
      /\ seen' = [r \in ListRow |-> IF r \in visible /\ seen[r] < 2 THEN seen[r] + 1 ELSE seen[r]]
      /\ done' = (cut = {})
      /\ cursor' \in (IF cut = {} THEN {cursor} ELSE cut)
      /\ UNCHANGED <<list, time, shown, moved, hidden>>
  BY DEF ListInv, Lists!ReadPage, Lists!TypeOK
<1>2. Lists!TypeOK BY DEF ListInv
<1>3. S \in SUBSET ListRow BY <1>2 DEF Lists!TypeOK
<1>4. /\ visible \subseteq S
      /\ cut = {} => visible = S
      /\ \A c \in cut : \E v \in visible :
            /\ c = Lists!KeyOf(v)
            /\ \A r \in visible : ~Lists!Precedes(c, Lists!KeyOf(r))
            /\ \A r \in S \ visible : Lists!Precedes(c, Lists!KeyOf(r))
  BY <1>2, <1>3, PageIsSound
<1> HIDE DEF rows, visible, cut
<1>5. seen \in [ListRow -> 0..2] BY <1>2 DEF Lists!TypeOK
<1>6. seen' \in [ListRow -> 0..2]
  <2>1. \A r \in ListRow : (IF r \in visible
        /\ seen[r] < 2 THEN seen[r] + 1 ELSE seen[r]) \in 0..2 BY <1>5
  <2> QED BY <1>1, <2>1
<1>7. \A r \in ListRow : /\ r \in visible /\ seen[r] = 0 => seen'[r] = 1
                         /\ r \notin visible => seen'[r] = seen[r]
                         /\ seen[r] > 0 => seen'[r] > 0
  BY <1>1, <1>5
<1>8. \A r \in ListRow : Lists!KeyOf(r) \in Lists!Key BY <1>2, KeysOfRows
<1>9. cursor' \in Lists!Key \cup {Lists!Start}
  <2>1. cursor \in Lists!Key \cup {Lists!Start} BY <1>2 DEF Lists!TypeOK
  <2>2. \A v \in visible : Lists!KeyOf(v) \in Lists!Key BY <1>3, <1>4, <1>8
  <2>3. \A c \in cut : c \in Lists!Key BY <1>4, <2>2
  <2> QED BY <1>1, <2>1, <2>3
<1>10. done' \in BOOLEAN BY <1>1
<1>11. Lists!TypeOK' BY <1>1, <1>2, <1>6, <1>9, <1>10 DEF Lists!TypeOK, Lists!Key, Lists!Start
<1>12. \A r \in visible : r \in ListRow /\ Lists!Follows(r) BY <1>3, <1>4
<1>13. ASSUME NEW r \in ListRow \ moved PROVE seen'[r] <= 1
  <2>1. CASE r \in visible
    <3>1. seen[r] = 0
      <4>1. ~(seen[r] > 0) BY <1>1, <1>12, <1>13, <2>1 DEF ListInv, Lists!Follows
      <4> QED BY <1>5, <4>1
    <3> QED BY <1>7, <2>1, <3>1
  <2>2. CASE r \notin visible BY <1>7, <2>2 DEF ListInv
  <2> QED BY <2>1, <2>2
<1>14. ASSUME NEW r \in ListRow \ moved, ~done', seen'[r] > 0
       PROVE  cursor' # Lists!Start /\ ~Lists!Precedes(cursor', Lists!KeyOf(r))
  <2>1. PICK v \in visible : /\ cursor' = Lists!KeyOf(v)
                             /\ \A q \in visible : ~Lists!Precedes(cursor', Lists!KeyOf(q))
    BY <1>1, <1>4, <1>14
  <2>2. v \in ListRow /\ Lists!KeyOf(v) \in Lists!Key
        /\ cursor' # Lists!Start BY <1>2, <1>12, <2>1, KeysOfRows
  <2>3. CASE r \in visible BY <2>1, <2>2, <2>3
  <2>4. CASE r \notin visible
    <3>1. cursor # Lists!Start /\ ~Lists!Precedes(cursor, Lists!KeyOf(r))
      BY <1>1, <1>7, <1>14, <2>4 DEF ListInv
    <3>2. Lists!Precedes(cursor, Lists!KeyOf(v)) BY <1>12, <3>1 DEF Lists!Follows
    <3>3. cursor \in Int \X Int /\ Lists!KeyOf(v) \in Int \X Int /\ Lists!KeyOf(r) \in Int \X Int
      <4>1. cursor \in Lists!Key BY <1>2, <3>1 DEF Lists!TypeOK
      <4> QED BY <1>2, <1>8, <2>2, <4>1, KeysOfRows
    <3>4. ~Lists!Precedes(Lists!KeyOf(v), Lists!KeyOf(r)) BY <3>1, <3>2, <3>3, OrderIsTotal
    <3> QED BY <2>1, <2>2, <3>4
  <2> QED BY <2>3, <2>4
<1>15. ASSUME NEW r \in ListRow \ (moved \cup hidden)
       PROVE  r \in shown /\ (\/ seen'[r] > 0
                              \/ ~done' /\ (cursor' = Lists!Start
                                   \/ Lists!Precedes(cursor', Lists!KeyOf(r))))
  <2>1. r \in shown /\ (seen[r] > 0 \/ Lists!Follows(r)) BY <1>15 DEF ListInv
  <2>2. CASE seen[r] > 0 BY <1>7, <2>1, <2>2
  <2>3. CASE ~(seen[r] > 0)
    <3>1. r \in S /\ seen[r] = 0 BY <1>5, <2>1, <2>3
    <3>2. CASE r \in visible BY <1>7, <2>1, <3>1, <3>2
    <3>3. CASE r \notin visible
      <4>1. cut # {} /\ cursor' \in cut /\ ~done' BY <1>1, <1>4, <3>1, <3>3
      <4>2. Lists!Precedes(cursor', Lists!KeyOf(r)) BY <1>4, <3>1, <3>3, <4>1
      <4> QED BY <2>1, <4>1, <4>2
    <3> QED BY <3>2, <3>3
  <2> QED BY <2>2, <2>3
<1> QED BY <1>1, <1>11, <1>13, <1>14, <1>15
           DEF ListInv, Lists!Follows, Lists!Precedes, Lists!KeyOf, Lists!Start

\* A row comes, goes or moves between two pages.
LEMMA ListChange ==
    ASSUME ListAssumption, ListInv, NEW r \in ListRow,
           \/ Lists!Show(r)
           \/ Lists!Hide(r)
           \/ \E t \in 0..MaxTime : Lists!Retime(r, t)
    PROVE  ListInv'
<1>1. CASE Lists!Show(r)
  <2>1. shown' = shown \cup {r}
        /\ UNCHANGED <<list, time, cursor, seen, moved, hidden, done>> BY <1>1 DEF Lists!Show
  <2> QED BY <2>1
             DEF ListInv, Lists!TypeOK, Lists!Follows, Lists!Precedes, Lists!KeyOf, Lists!Key,
             Lists!Start
<1>2. CASE Lists!Hide(r)
  <2>1. shown' = shown \ {r} /\ hidden' = hidden \cup {r}
        /\ UNCHANGED <<list, time, cursor, seen, moved, done>>
    BY <1>2 DEF Lists!Hide
  <2> QED BY <2>1
             DEF ListInv, Lists!TypeOK, Lists!Follows, Lists!Precedes, Lists!KeyOf, Lists!Key,
             Lists!Start
<1>3. ASSUME NEW t \in 0..MaxTime, Lists!Retime(r, t) PROVE ListInv'
  <2>1. /\ time' = [time EXCEPT ![r] = IF t = 0 THEN 1 ELSE t] /\ moved' = moved \cup {r}
        /\ UNCHANGED <<list, shown, cursor, seen, hidden, done>>
    BY <1>3 DEF Lists!Retime, Lists!Received
  <2>2. time \in [ListRow -> 1..MaxTime] BY DEF ListInv, Lists!TypeOK
  <2>3. (IF t = 0 THEN 1 ELSE t) \in 1..MaxTime BY ListAssumption
  <2>4. time' \in [ListRow -> 1..MaxTime] BY <2>1, <2>2, <2>3
  <2>5. \A q \in ListRow \ moved' : q \in ListRow \ moved /\ time'[q] = time[q] BY <2>1, <2>2
  <2>6. Lists!TypeOK' BY <2>1, <2>4 DEF ListInv, Lists!TypeOK, Lists!Key, Lists!Start
  <2>7. \A q \in ListRow \ moved' : Lists!KeyOf(q)' = Lists!KeyOf(q) BY <2>5 DEF Lists!KeyOf
  <2>8. \A q \in ListRow \ moved' : /\ (Lists!Precedes(cursor,
                                       Lists!KeyOf(q)))' <=> Lists!Precedes(cursor, Lists!KeyOf(q))
                                    /\ Lists!Follows(q)' <=> Lists!Follows(q)
    BY <2>1, <2>7 DEF Lists!Precedes, Lists!Follows, Lists!Start
  <2> QED BY <2>1, <2>5, <2>6, <2>8 DEF ListInv, Lists!Start
<1> QED BY <1>1, <1>2, <1>3

\* Every step keeps the invariant.
LEMMA ListStep == ASSUME ListAssumption, ListInv, Lists!Next PROVE ListInv'
<1>1. CASE Lists!ReadNext
  BY <1>1, ListPage
     DEF Lists!ReadNext, Lists!ReadMessages, Lists!ReadAlerts, Lists!ReadAnalyses, Lists!ReadThread
<1>2. CASE Lists!Rest
  <2>1. UNCHANGED <<list, time, shown, cursor, seen, moved, hidden, done>> BY <1>2
        DEF Lists!Rest, Lists!vars
  <2> QED BY <2>1
             DEF ListInv, Lists!TypeOK, Lists!Follows, Lists!Precedes, Lists!KeyOf, Lists!Key,
             Lists!Start
<1> QED BY <1>1, <1>2, ListChange DEF Lists!Next

\* A step in which nothing of the lists moves.
LEMMA ListStutters == ASSUME ListInv, UNCHANGED listVars PROVE ListInv'
<1>1. UNCHANGED <<list, time, shown, cursor, seen, moved, hidden, done>> BY DEF listVars
<1> QED BY <1>1 DEF ListInv, Lists!TypeOK, Lists!Follows, Lists!Precedes, Lists!KeyOf, Lists!Key,
           Lists!Start

\* What the invariant is for.
LEMMA ListFollows == ASSUME ListInv PROVE Lists!TypeOK /\ Lists!NothingSkipped /\ Lists!NothingTwice
BY DEF ListInv, Lists!NothingSkipped, Lists!NothingTwice

-----------------------------------------------------------------------------
(* Inbox *)

\* The types are all the inbox's properties need: they relate queries over the same rows.
FolderInv == Folders!TypeOK

\* The cardinality of the instance is that of this module.
LEMMA FolderCard == \A S : Folders!Cardinality(S) = Cardinality(S)
BY DEF Folders!Cardinality, Cardinality

\* No message is there yet.
LEMMA FolderInit == ASSUME FolderAssumption, Folders!Init PROVE FolderInv
<1>1. Folders!Gone \in Folders!MessageType
  BY FolderAssumption DEF Folders!Gone, Folders!MessageType
<1> QED BY <1>1 DEF Folders!Init, Folders!Search, FolderInv, Folders!TypeOK

\* The messages and the query keep their types.
LEMMA FolderStep == ASSUME FolderInv, Folders!Next PROVE FolderInv'
<1> DEFINE T == Folders!MessageType
<1>1. listed \in [FolderMessage -> T] /\ query \in Folders!Query BY DEF FolderInv, Folders!TypeOK
<1>2. PICK m \in FolderMessage : Folders!Import(m) \/ Folders!Analyze(m) \/ Folders!Delete(m) BY
           DEF Folders!Next
<1>3. listed[m] \in T BY <1>1
<1>4. \E new \in T : listed' = [listed EXCEPT ![m] = new] /\ query' = query
  <2>1. ASSUME NEW mailbox \in Mailbox, NEW read \in BOOLEAN
        PROVE  [listed[m] EXCEPT !.state = "there", !.mailbox = mailbox, !.read = read] \in T
    BY <1>3 DEF Folders!MessageType
  <2>2. ASSUME NEW analysis \in Folders!Analysis
        PROVE  [listed[m] EXCEPT !.analysis = analysis] \in T
    BY <1>3 DEF Folders!MessageType
  <2>3. [listed[m] EXCEPT !.state = "deleted"] \in T BY <1>3 DEF Folders!MessageType
  <2> QED BY <1>2, <2>1, <2>2, <2>3 DEF Folders!Import, Folders!Analyze, Folders!Delete, Folders!Put
<1> HIDE DEF T
<1>5. listed' \in [FolderMessage -> T] BY <1>1, <1>4
<1> QED BY <1>1, <1>4, <1>5
           DEF FolderInv, Folders!TypeOK, T, Folders!MessageType, Folders!Analysis, Folders!Risk,
           Folders!Query, Folders!Value

\* A step in which nothing of the inbox moves.
LEMMA FolderStutters == ASSUME FolderInv, UNCHANGED folderVars PROVE FolderInv'
BY DEF folderVars, FolderInv, Folders!TypeOK, Folders!MessageType, Folders!Analysis, Folders!Risk,
       Folders!Query, Folders!Value

\* What is known of a message of the list.
LEMMA MessagesAreTyped ==
    ASSUME FolderInv, NEW m \in FolderMessage
    PROVE  /\ listed[m] \in Folders!MessageType
           /\ listed[m].read \in BOOLEAN
           /\ listed[m].analysis # NoValue => /\ listed[m].analysis.category \in Category
                                              /\ listed[m].analysis.risk \in {"low", "high",
                                                   "critical"}
<1>1. listed[m] \in Folders!MessageType BY DEF FolderInv, Folders!TypeOK
<1>2. listed[m].analysis \in Folders!Analysis \cup {NoValue} BY <1>1 DEF Folders!MessageType
<1>3. listed[m].read \in BOOLEAN BY <1>1 DEF Folders!MessageType
<1> QED BY <1>1, <1>2, <1>3 DEF Folders!Analysis, Folders!Risk

\* Never more messages are analyzed than there are.
LEMMA Coverage == ASSUME FolderAssumption PROVE Folders!CoverageIsShare
<1> DEFINE all == {m \in FolderMessage : listed[m].state # "absent"}
           some == {m \in FolderMessage : listed[m].state # "absent" /\ listed[m].analysis # NoValue}
<1>1. IsFiniteSet(all) BY FolderAssumption, FS_Subset
<1>2. some \subseteq all OBVIOUS
<1>3. Cardinality(some) <= Cardinality(all) BY <1>1, <1>2, FS_Subset
<1> QED BY <1>3, FolderCard DEF Folders!CoverageIsShare, Folders!Summary

\* A request that names no filter, or only the query's.
LEMMA AloneIs ==
    ASSUME NEW k, NEW v, NEW j \in {"is_read", "risk_level", "category"}
    PROVE  Folders!Alone(k, v)[j] = IF j = k THEN v ELSE NoValue
BY DEF Folders!Alone, Folders!Value

\* The account's totals and the list of all are of the same rows.
LEMMA Account == Folders!AccountAgrees
<1> DEFINE none == [param |-> Folders!Alone("is_read", NoValue), text |-> Folders!Alone("is_read",
    NoValue)]
           rows == {m \in FolderMessage : listed[m].state = "there"}
<1>1. \A j \in {"is_read", "risk_level", "category"} : Folders!Fields(none, j) = NoValue
  BY AloneIs DEF Folders!Fields
<1>2. Folders!Rows(none) = rows BY <1>1 DEF Folders!Rows, Folders!Passes
<1>3. Folders!List(none, "all") = rows BY <1>2 DEF Folders!List
<1> HIDE DEF none
<1> QED BY <1>3 DEF Folders!AccountAgrees, Folders!AccountItem, none

\* What the filters are of the query, and of the query in a folder.
LEMMA FieldsOfFolder ==
    ASSUME FolderAssumption, NEW f \in Folders!Semantic, NEW j \in {"is_read", "risk_level",
           "category"}
    PROVE  /\ Folders!FieldOf(f) \in {"is_read", "risk_level", "category"}
           /\ Folders!ValueOf(f) # NoValue
           /\ Folders!Fields(Folders!Asked(f), j) =
                 IF j =
                   Folders!FieldOf(f) THEN Folders!ValueOf(f) ELSE Folders!Fields(Folders!Plain, j)
           /\ Folders!Open(f) => Folders!Fields(Folders!Plain, Folders!FieldOf(f)) = NoValue
<1> DEFINE k == Folders!FieldOf(f)
           v == Folders!ValueOf(f)
           K == {"is_read", "risk_level", "category"}
<1>1. f \in {"no-leidos", "criticos", "pagos", "promociones"} BY
      DEF Folders!Semantic, Folders!Folder
<1>2. k \in K BY DEF Folders!FieldOf
<1>3. v # NoValue
  <2>1. FALSE # NoValue /\ {"high", "critical"} # NoValue /\ "pagos" # NoValue
        /\ "promociones" # NoValue
    BY FolderAssumption
  <2> QED BY <1>1, <2>1 DEF Folders!ValueOf
<1> HIDE DEF k, v
<1>4. /\ DOMAIN Folders!Plain = {"param", "text"}
      /\ Folders!Plain.param = Folders!Alone(query.field, query.param)
      /\ Folders!Plain.text = Folders!Alone(query.field, query.text)
      /\ Folders!Plain = [param |-> Folders!Alone(query.field, query.param),
           text |-> Folders!Alone(query.field, query.text)]
  BY DEF Folders!Plain
<1>5. DOMAIN Folders!Alone(query.field, query.param) = K BY DEF Folders!Alone, Folders!Value
<1>6. Folders!Asked(f) = [Folders!Plain EXCEPT !.param[k] = v] BY DEF Folders!Asked, k, v
<1>7. Folders!Asked(f) = [param |-> [Folders!Alone(query.field, query.param) EXCEPT ![k] = v],
                          text |-> Folders!Alone(query.field, query.text)]
  BY <1>4, <1>6
<1>8. /\ Folders!Asked(f).param[j] = IF j = k THEN v ELSE Folders!Plain.param[j]
      /\ Folders!Asked(f).text[j] = Folders!Plain.text[j]
  BY <1>2, <1>4, <1>5, <1>7
<1>9. Folders!Fields(Folders!Asked(f), j) = IF j = k THEN v ELSE Folders!Fields(Folders!Plain, j)
  BY <1>3, <1>8 DEF Folders!Fields
<1>10. ASSUME Folders!Open(f) PROVE Folders!Fields(Folders!Plain, k) = NoValue
  <2>1. query.field # k \/ (query.param = NoValue /\ query.text = NoValue) BY <1>1, <1>10
        DEF Folders!Open, k
  <2>2. /\ Folders!Alone(query.field,
           query.param)[k] = IF k = query.field THEN query.param ELSE NoValue
        /\ Folders!Alone(query.field,
             query.text)[k] = IF k = query.field THEN query.text ELSE NoValue
    BY <1>2, AloneIs
  <2> QED BY <1>4, <2>1, <2>2 DEF Folders!Fields
<1> QED BY <1>2, <1>3, <1>9, <1>10 DEF k, v

\* The messages a folder shows: those that pass the query, in the inbox, with the folder's
\* filter in place of the query's.
LEMMA ShownInFolder ==
    ASSUME FolderAssumption, FolderInv, NEW f \in Folders!Semantic, NEW m \in FolderMessage
    PROVE  /\ m \in Folders!Shown(f) => listed[m].state = "there" /\ listed[m].mailbox = "inbox"
           /\ m \in Folders!Shown(f) =>
                 /\ f = "no-leidos" => ~listed[m].read
                 /\ f = "criticos" =>
                      listed[m].analysis # NoValue
                      /\ listed[m].analysis.risk \in {"high", "critical"}
                 /\ f \in {"pagos", "promociones"} =>
                       listed[m].analysis # NoValue
                         /\ Folders!Group(listed[m].analysis.category) = f
           /\ Folders!Open(f) =>
                 (m \in Folders!Shown(f) <=>
                    /\ m \in Folders!Inbox(Folders!Rows(Folders!Plain))
                    /\ f = "no-leidos" => ~listed[m].read
                    /\ f = "criticos" =>
                         listed[m].analysis # NoValue
                         /\ listed[m].analysis.risk \in {"high", "critical"}
                    /\ f \in {"pagos", "promociones"} =>
                          listed[m].analysis # NoValue
                            /\ Folders!Group(listed[m].analysis.category) = f)
<1> DEFINE asked(j) == Folders!Fields(Folders!Asked(f), j)
           plain(j) == Folders!Fields(Folders!Plain, j)
           Is(j, v) == CASE j = "is_read" -> listed[m].read = v
                         [] j = "risk_level" -> listed[m].analysis # NoValue
                           /\ listed[m].analysis.risk \in v
                         [] OTHER -> IF v = "unanalyzed" THEN listed[m].analysis = NoValue
                                     ELSE listed[m].analysis # NoValue
                                       /\ Folders!Group(listed[m].analysis.category) = v
           K == {"is_read", "risk_level", "category"}
           k == Folders!FieldOf(f)
           v0 == Folders!ValueOf(f)
<1>1. f \in {"no-leidos", "criticos", "pagos", "promociones"} BY
      DEF Folders!Semantic, Folders!Folder
<1>2. m \in Folders!Rows(Folders!Asked(f)) <=>
        listed[m].state = "there" /\ \A j \in K : asked(j) # NoValue => Is(j, asked(j))
  BY DEF Folders!Rows, Folders!Passes
<1>3. m \in Folders!Rows(Folders!Plain) <=>
        listed[m].state = "there" /\ \A j \in K : plain(j) # NoValue => Is(j, plain(j))
  BY DEF Folders!Rows, Folders!Passes
<1>4. m \in Folders!Shown(f) <=> m \in Folders!Rows(Folders!Asked(f)) /\ listed[m].mailbox = "inbox"
  <2>1. f # "archivados" BY <1>1
  <2> QED BY <2>1 DEF Folders!Shown, Folders!List, Folders!Rows
<1>5. m \in Folders!Inbox(Folders!Rows(Folders!Plain)) <=> m \in Folders!Rows(Folders!Plain)
      /\ listed[m].mailbox = "inbox"
  BY DEF Folders!Inbox
<1>6. k \in K /\ v0 # NoValue /\ \A j \in K : asked(j) = IF j = k THEN v0 ELSE plain(j)
  BY FolderAssumption, FieldsOfFolder
<1>7. Folders!Open(f) => plain(k) = NoValue BY FolderAssumption, FieldsOfFolder
<1>8. Is(k, v0) <=> /\ f = "no-leidos" => ~listed[m].read
                    /\ f = "criticos" =>
                         listed[m].analysis # NoValue
                         /\ listed[m].analysis.risk \in {"high", "critical"}
                    /\ f \in {"pagos", "promociones"} =>
                          listed[m].analysis # NoValue
                            /\ Folders!Group(listed[m].analysis.category) = f
  <2>1. CASE f = "no-leidos"
    <3>1. k = "is_read" /\ v0 = FALSE BY <2>1 DEF Folders!FieldOf, Folders!ValueOf
    <3>2. listed[m].read \in BOOLEAN BY MessagesAreTyped
    <3> QED BY <2>1, <3>1, <3>2
  <2>2. CASE f = "criticos"
    <3>1. k = "risk_level" /\ v0 = {"high", "critical"} BY <2>2 DEF Folders!FieldOf, Folders!ValueOf
    <3> QED BY <2>2, <3>1
  <2>3. CASE f \in {"pagos", "promociones"}
    <3>1. k = "category" /\ v0 = f BY <2>3 DEF Folders!FieldOf, Folders!ValueOf
    <3> QED BY <2>3, <3>1
  <2> QED BY <1>1, <2>1, <2>2, <2>3
<1> HIDE DEF asked, plain, Is, k, v0, K
<1>9. (\A j \in K : asked(j) # NoValue => Is(j, asked(j))) => Is(k, v0) BY <1>6
<1>10. ASSUME Folders!Open(f)
       PROVE  (\A j \in K : asked(j) # NoValue => Is(j, asked(j))) <=>
                 (Is(k, v0) /\ \A j \in K : plain(j) # NoValue => Is(j, plain(j)))
  BY <1>6, <1>7, <1>10
<1> QED BY <1>2, <1>3, <1>4, <1>5, <1>8, <1>9, <1>10

\* A search widens no folder.
LEMMA Holds == ASSUME FolderAssumption, FolderInv PROVE Folders!FolderHolds
<1> SUFFICES ASSUME NEW f \in Folders!Semantic, NEW m \in Folders!Shown(f)
             PROVE  /\ listed[m].state = "there" /\ listed[m].mailbox = "inbox"
                    /\ f = "no-leidos" => ~listed[m].read
                    /\ f \in {"criticos", "pagos", "promociones"} => listed[m].analysis # NoValue
                    /\ f = "criticos" => listed[m].analysis.risk # "low"
                    /\ f = "pagos" => listed[m].analysis.category \in {"Pagos", "payment"}
  BY DEF Folders!FolderHolds
<1>1. m \in FolderMessage BY DEF Folders!Shown, Folders!List, Folders!Rows
<1>2. /\ listed[m].state = "there" /\ listed[m].mailbox = "inbox"
      /\ f = "no-leidos" => ~listed[m].read
      /\ f = "criticos" =>
           listed[m].analysis # NoValue /\ listed[m].analysis.risk \in {"high", "critical"}
      /\ f \in {"pagos", "promociones"} =>
            listed[m].analysis # NoValue /\ Folders!Group(listed[m].analysis.category) = f
  BY <1>1, FolderAssumption, ShownInFolder
<1>3. ASSUME f = "pagos" PROVE listed[m].analysis.category \in {"Pagos", "payment"}
  <2>1. Folders!Group(listed[m].analysis.category) = "pagos"
        /\ listed[m].analysis # NoValue BY <1>2, <1>3
  <2>2. listed[m].analysis.category \in Category BY <1>1, <2>1, MessagesAreTyped
  <2>3. listed[m].analysis.category # "pagos" BY <2>2, FolderAssumption
  <2> QED BY <2>1, <2>3 DEF Folders!Group
<1> QED BY <1>2, <1>3

\* A sum of which one number is all there is.
LEMMA SumOfOne ==
    ASSUME NEW n, NEW S, NEW x, \A y \in S : y # x => n[y] = 0, x \in S => n[x] \in Nat
    PROVE  Folders!SumOver(n, S) = IF x \in S THEN n[x] ELSE 0
<1> DEFINE U == UNION {{y} \X (1..n[y]) : y \in S}
<1>1. Folders!SumOver(n, S) = Cardinality(U) BY FolderCard DEF Folders!SumOver
<1>2. \A y \in S : y # x => {y} \X (1..n[y]) = {}
  <2>1. \A y \in S : y # x => 1..n[y] = {} OBVIOUS
  <2> QED BY <2>1
<1>3. CASE x \notin S
  <2>1. U = {} BY <1>2, <1>3
  <2> QED BY <1>1, <1>3, <2>1, FS_EmptySet
<1>4. CASE x \in S
  <2>1. U = {x} \X (1..n[x]) BY <1>2, <1>4
  <2>2. IsFiniteSet(1..n[x]) /\ Cardinality(1..n[x]) = n[x] BY <1>4, FS_Interval
  <2>3. IsFiniteSet({x}) /\ Cardinality({x}) = 1 BY FS_Singleton
  <2>4. Cardinality({x} \X (1..n[x])) = 1 * n[x] BY <2>2, <2>3, FS_Product
  <2> QED BY <1>1, <1>4, <2>1, <2>4
<1> QED BY <1>3, <1>4

\* The categories of a folder: its own, and marketing with the promotions.
LEMMA CategoriesOfFolder ==
    ASSUME NEW f \in {"pagos", "promociones"}, NEW k, Folders!CategoryFor(k) = f
    PROVE  k = f \/ (f = "promociones" /\ k = "Marketing")
BY DEF Folders!CategoryFor

\* The number beside a folder is the number of its list.
LEMMA Counted == ASSUME FolderAssumption, FolderInv PROVE Folders!CountsAgree
<1> SUFFICES ASSUME NEW f \in Folders!Folder, Folders!Open(f),
                    f = "promociones" => \A m \in FolderMessage :
                       listed[m].analysis # NoValue => listed[m].analysis.category # "Marketing"
             PROVE  Folders!Badge(f) = Folders!Cardinality(Folders!Shown(f))
  BY DEF Folders!CountsAgree
<1> DEFINE c == Folders!Counts(Folders!Plain)
           rows == Folders!Rows(Folders!Plain)
           inbox == Folders!Inbox(rows)
           known == {m \in inbox : listed[m].analysis # NoValue}
           Keys == {Folders!Group(x) : x \in Category}
           of(k) == {m \in known : Folders!Group(listed[m].analysis.category) = k}
<1>1. /\ c.archive = Cardinality({m \in rows : listed[m].mailbox = "archive"})
      /\ c.unread = Cardinality({m \in inbox : ~listed[m].read})
      /\ c.critical = Cardinality({m \in known : listed[m].analysis.risk \in {"high", "critical"}})
      /\ c.category = [k \in Keys |-> Cardinality(of(k))]
  BY FolderCard DEF Folders!Counts
<1>2. rows \subseteq FolderMessage /\ inbox \subseteq FolderMessage BY DEF Folders!Rows, Folders!Inbox
<1>3. Folders!Shown(f) \subseteq FolderMessage BY DEF Folders!Shown, Folders!List, Folders!Rows
<1>4. f \in Folders!Semantic => \A m \in FolderMessage :
        (m \in Folders!Shown(f) <=>
           /\ m \in inbox
           /\ f = "no-leidos" => ~listed[m].read
           /\ f = "criticos" =>
                listed[m].analysis # NoValue /\ listed[m].analysis.risk \in {"high", "critical"}
           /\ f \in {"pagos", "promociones"} =>
                 listed[m].analysis # NoValue /\ Folders!Group(listed[m].analysis.category) = f)
  BY FolderAssumption, ShownInFolder
<1>5. f \in {"no-leidos", "criticos", "pagos", "promociones", "archivados"} /\ (f # "archivados" =>
      f \in Folders!Semantic)
  BY DEF Folders!Folder, Folders!Semantic
<1>6. CASE f = "archivados"
  <2>1. Folders!Shown(f) = {m \in rows : listed[m].mailbox = "archive"}
    BY <1>6 DEF Folders!Shown, Folders!Asked, Folders!Semantic, Folders!List
  <2>2. Folders!Badge(f) = c.archive BY <1>6 DEF Folders!Badge
  <2> QED BY <1>1, <2>1, <2>2, FolderCard
<1>7. CASE f = "no-leidos"
  <2>1. Folders!Shown(f) = {m \in inbox : ~listed[m].read} BY <1>2, <1>3, <1>4, <1>5, <1>7
  <2>2. Folders!Badge(f) = c.unread BY <1>7 DEF Folders!Badge
  <2> QED BY <1>1, <2>1, <2>2, FolderCard
<1>8. CASE f = "criticos"
  <2>1. Folders!Shown(f) = {m \in known : listed[m].analysis.risk \in {"high", "critical"}}
    BY <1>2, <1>3, <1>4, <1>5, <1>8
  <2>2. Folders!Badge(f) = c.critical BY <1>8 DEF Folders!Badge
  <2> QED BY <1>1, <2>1, <2>2, FolderCard
<1>9. CASE f \in {"pagos", "promociones"}
  <2> DEFINE S == {k \in Keys : Folders!CategoryFor(k) = f}
  <2>1. Folders!Shown(f) = of(f) BY <1>2, <1>3, <1>4, <1>5, <1>9
  <2>2. Folders!Badge(f) = Folders!SumOver(c.category, S)
    <3>1. DOMAIN c.category = Keys BY <1>1
    <3>2. Folders!Badge(f) = Folders!SumOver(c.category,
          {k \in DOMAIN c.category : Folders!CategoryFor(k) = f})
      BY <1>9 DEF Folders!Badge
    <3> QED BY <3>1, <3>2
  <2>3. IsFiniteSet(FolderMessage) BY FolderAssumption
  <2>4. \A k \in Keys : c.category[k] = Cardinality(of(k)) /\ Cardinality(of(k)) \in Nat
    <3> TAKE k \in Keys
    <3>1. of(k) \subseteq FolderMessage BY <1>2
    <3>2. Cardinality(of(k)) \in Nat BY <2>3, <3>1, FS_Subset, FS_CardinalityType
    <3> QED BY <1>1, <3>2
  <2>5. ASSUME NEW k \in S, k # f PROVE c.category[k] = 0
    <3>1. f = "promociones" /\ k = "Marketing" BY <1>9, <2>5, CategoriesOfFolder
    <3>2. of(k) = {}
      <4>1. ASSUME NEW m \in of(k) PROVE FALSE
        <5>1. m \in FolderMessage /\ listed[m].analysis # NoValue
              /\ Folders!Group(listed[m].analysis.category) = "Marketing"
          BY <1>2, <3>1
        <5>2. listed[m].analysis.category # "Marketing" BY <3>1, <5>1
        <5> QED BY <5>1, <5>2 DEF Folders!Group
      <4> QED BY <4>1
    <3>3. Cardinality(of(k)) = 0 BY <3>2, FS_EmptySet
    <3> QED BY <2>4, <3>3
  <2>6. Folders!CategoryFor(f) = f BY <1>9 DEF Folders!CategoryFor
  <2> HIDE DEF c, of, Keys
  <2>7. Folders!SumOver(c.category, S) = IF f \in S THEN c.category[f] ELSE 0
    BY <2>4, <2>5, SumOfOne
  <2>8. CASE f \in Keys BY <2>1, <2>2, <2>4, <2>6, <2>7, <2>8, FolderCard
  <2>9. CASE f \notin Keys
    <3>1. of(f) = {}
      <4>1. ASSUME NEW m \in of(f) PROVE FALSE
        <5>1. m \in FolderMessage /\ listed[m].analysis # NoValue
              /\ Folders!Group(listed[m].analysis.category) = f
          BY <1>2, <4>1 DEF of
        <5>2. listed[m].analysis.category \in Category BY <5>1, MessagesAreTyped
        <5> QED BY <2>9, <5>1, <5>2 DEF Keys
      <4> QED BY <4>1
    <3>2. Cardinality(of(f)) = 0 BY <3>1, FS_EmptySet
    <3> QED BY <2>1, <2>2, <2>7, <2>9, <3>2, FolderCard
  <2> QED BY <2>8, <2>9
<1> QED BY <1>5, <1>6, <1>7, <1>8, <1>9

\* What follows for the inbox.
LEMMA FolderFollows ==
    ASSUME FolderAssumption, FolderInv
    PROVE  /\ Folders!TypeOK /\ Folders!CountsAgree /\ Folders!AccountAgrees
           /\ Folders!CoverageIsShare /\ Folders!FolderHolds
BY Counted, Account, Coverage, Holds DEF FolderInv

-----------------------------------------------------------------------------
(* MessageContent *)

\* The pages of the list of attachments: the first, and those another page leads to.
Linked == {p \in Page : p = 1 \/ p \in linked}
\* The pages before the one that comes next are listed, and no other.
ListedSoFar(p) ==
    /\ \A q \in Linked \ {p} : next[q] \in linked /\ \A i \in Content!OnPage(q) : refs[i] = 1
    /\ \A i \in Item : (item[i].page \notin Linked \ {p} \/ ~item[i].file) => refs[i] = 0
\* Nothing is listed before the list is asked for, nor of a message that says it has no attachments;
\* then the files of every page before the one that comes are listed once, and none after it.
Listing ==
    /\ pc \in {"load", "show"} => linked = {} /\ \A i \in Item : refs[i] = 0
    /\ kind = "unattached" => \A i \in Item : refs[i] = 0
    /\ pc = "list" =>
          /\ at = 1 \/ at \in linked
          /\ IF 1 \in linked THEN at = 1 /\ next[1] \in linked ELSE ListedSoFar(at)
\* The inductive invariant of an opened message: how far its parts and its list have come, and what
\* is to hold in the end.
ContentInv ==
    /\ Content!TypeOK
    /\ pc \in {"load", "show"} => wanted = NoItem /\ body = {}
    /\ pc = "load" => /\ at \in 1..(Cardinality(Part) + 1)
                      /\ \A p \in Part : p < at => part[p].size <= MaxBody
    /\ pc = "show" => warning
    /\ wanted = NoItem /\ ~warning /\ pc \notin {"load", "show"} => body = Content!Text(Part)
    /\ Content!BodyBounded
    /\ Listing
    /\ pc = "done" /\ ~failed => Content!ListIsWhole
    /\ Content!ListBounded
    /\ pc \in {"load", "show", "list", "fetch", "refused"} => sent = 0
    /\ pc = "fetch" => wanted # NoItem
    /\ Content!DownloadIsListed

\* The cardinality of the instance is that of this module.
LEMMA ContentCard == \A S : Content!Cardinality(S) = Cardinality(S)
BY DEF Content!Cardinality, Cardinality

\* If no attachment is listed the list is empty.
LEMMA NothingListed ==
    ASSUME NEW f, \A i \in Item : f[i] = 0
    PROVE  Content!Count(f) = 0
<1>1. UNION {{i} \X (1..f[i]) : i \in Item} = {} OBVIOUS
<1>2. Content!Count(f) = Cardinality({}) BY <1>1, ContentCard DEF Content!Count
<1> QED BY <1>2, FS_EmptySet

\* The parts are numbered from one.
LEMMA PartsAreNumbered == Cardinality(Part) \in Nat /\ Part = 1..Cardinality(Part)
BY ContentAssumption, FS_CardinalityType

\* What is shown is parts, or the preview.
LEMMA TextIsParts ==
    ASSUME NEW parts \in SUBSET Part
    PROVE  Content!Text(parts) \subseteq parts \cup {Content!Preview}
BY DEF Content!Text, Content!FirstOf

\* A message is opened, or a part of it is asked for.
LEMMA ContentInit == ASSUME Content!Init PROVE ContentInv
<1>1. Content!TypeOK
  <2> DEFINE PartType == [html: BOOLEAN, apart: BOOLEAN, announced: Content!Size,
      size: Content!Size]
             ItemType == [page: Page, file: BOOLEAN, announced: Content!Size,
                         size: Content!Size]
  <2>1. 0 \in Content!Size BY ContentAssumption DEF Content!Size
  <2>2. \A h \in BOOLEAN, n \in Content!Size : Content!SavedPart(h, n) \in PartType
    BY DEF Content!SavedPart
  <2>3. Content!PartApart \subseteq PartType BY DEF Content!PartApart
  <2>4. part \in [Part -> PartType]
    <3> HIDE DEF PartType
    <3>1. CASE wanted # NoItem
      <4>1. part = [p \in Part |-> Content!SavedPart(TRUE, 0)] BY <3>1, SMTT(60)
            DEF Content!Init, Content!SavedPart
      <4> QED BY <4>1, <2>1, <2>2
    <3>2. CASE wanted = NoItem /\ provider = "gmail"
      <4>1. part \in [Part -> {Content!SavedPart(h, n) : h \in BOOLEAN,
            n \in Content!Size} \cup Content!PartApart]
        BY <3>2 DEF Content!Init
      <4>2. {Content!SavedPart(h, n) : h \in BOOLEAN,
            n \in Content!Size} \cup Content!PartApart \subseteq PartType
        BY <2>2, <2>3
      <4> QED BY <4>1, <4>2
    <3>3. CASE wanted = NoItem /\ provider # "gmail"
      <4>2. PICK n \in Content!Size : part = [p \in Part |-> Content!SavedPart(TRUE,
                 IF p = 1 THEN n ELSE 0)]
        BY <3>3, SMTT(60) DEF Content!Init, Content!SavedPart
      <4> QED BY <4>2, <2>1, <2>2
    <3> QED BY <3>1, <3>2, <3>3
  <2>5. item \in [Item -> ItemType]
    <3>1. PICK on \in [Item -> IF provider = "gmail" THEN {1} ELSE Page \cup {0}],
               a \in Content!Size, n \in Content!Size :
             item = [i \in Item |-> [page |-> IF on[i] = 0 THEN 1 ELSE on[i], file |-> on[i] # 0,
                                      announced |-> IF i = wanted THEN a ELSE 0,
                                      size |-> IF i = wanted THEN n ELSE 0]]
      BY DEF Content!Init
    <3>2. \A i \in Item : (IF on[i] = 0 THEN 1 ELSE on[i]) \in Page
      BY <3>1, ContentAssumption
    <3>3. ASSUME NEW i \in Item
          PROVE  [page |-> IF on[i] = 0 THEN 1 ELSE on[i], file |-> on[i] # 0,
                  announced |-> IF i = wanted THEN a ELSE 0,
                  size |-> IF i = wanted THEN n ELSE 0] \in ItemType
      BY <3>2, <2>1
    <3> QED BY <3>1, <3>3
  <2>6. next \in [Page -> Page \cup {0}] BY DEF Content!Init
  <2>7. refs \in [Item -> Nat] BY DEF Content!Init
  <2>8. /\ provider \in {"gmail", "microsoft"} /\ kind \in {"usual", "unattached", "oversized"}
        /\ wanted \in Item \cup {NoItem} /\ pc \in {"load", "list"}
        /\ total = 0 /\ at = 1 /\ linked = {} /\ pages = 0 /\ body = {} /\ warning = FALSE
        /\ failed = FALSE /\ sent = 0
    BY DEF Content!Init
  <2>9. total \in 0..MaxBody /\ at \in Nat /\ pages \in 0..MaxPages /\ sent \in Content!Size
    BY <2>1, <2>8, ContentAssumption
  <2>10. linked \subseteq Page /\ body \subseteq Part \cup {Content!Preview} /\ warning \in BOOLEAN
         /\ failed \in BOOLEAN
    BY <2>8
  <2> QED BY <2>4, <2>5, <2>6, <2>7, <2>8, <2>9, <2>10, Zenon DEF Content!TypeOK
<1>2. \A i \in Item : refs[i] = 0 BY DEF Content!Init
<1>3. Content!ListBounded BY <1>2, NothingListed, ContentAssumption DEF Content!ListBounded
<1>4. Listing
  <2>1. Linked \ {1} = {} /\ 1 \notin linked BY DEF Content!Init, Linked
  <2> QED BY <2>1, <1>2 DEF Listing, ListedSoFar, Content!Init
<1>5. Content!BodyBounded /\ Content!DownloadIsListed BY
      DEF Content!Init, Content!BodyBounded, Content!DownloadIsListed
<1>6. pc = "load" => at \in 1..(Cardinality(Part) + 1) /\ \A p \in Part : p < at =>
      part[p].size <= MaxBody
  BY PartsAreNumbered DEF Content!Init
<1> QED BY <1>1, <1>3, <1>4, <1>5, <1>6 DEF ContentInv, Content!Init

\* The body is loaded, part by part.
LEMMA ContentLoad == ASSUME ContentInv, Content!Load PROVE ContentInv'
<1> USE DEF Content!message
<1>1. /\ part \in [Part -> [html: BOOLEAN, apart: BOOLEAN, announced: Content!Size,
         size: Content!Size]]
      /\ total \in 0..MaxBody /\ at \in Part /\ pc = "load" /\ MaxBody \in Nat
  BY ContentAssumption DEF ContentInv, Content!TypeOK, Content!Load
<1>2. part[at].size \in Nat BY <1>1 DEF Content!Size
<1>3. part[at].size <= MaxBody /\ total + part[at].size \in 0..MaxBody
  BY <1>1, <1>2 DEF Content!Load, Content!Fits
<1>4. Content!TypeOK' BY <1>1, <1>3, ContentAssumption DEF ContentInv, Content!TypeOK, Content!Load
<1>5. at' \in 1..(Cardinality(Part) + 1) /\ \A p \in Part : p < at' => part[p].size <= MaxBody
  BY <1>1, <1>3, PartsAreNumbered DEF ContentInv, Content!Load
<1>6. Content!BodyBounded' /\ Content!ListBounded' /\ Content!DownloadIsListed' /\ Listing'
  <2>1. Content!BodyBounded' /\ Content!DownloadIsListed'
    BY DEF ContentInv, Content!Load, Content!BodyBounded, Content!DownloadIsListed
  <2>2. Content!ListBounded' BY DEF ContentInv, Content!Load, Content!ListBounded, Content!Count
  <2>3. Listing' BY <1>1 DEF ContentInv, Content!Load, Listing
  <2> QED BY <2>1, <2>2, <2>3
<1> QED BY <1>1, <1>4, <1>5, <1>6 DEF ContentInv, Content!Load

\* A part does not come: the reader is warned.
LEMMA ContentLoadFails == ASSUME ContentInv, Content!LoadFails PROVE ContentInv'
<1> USE DEF Content!message
<1>1. Content!TypeOK' BY DEF ContentInv, Content!TypeOK, Content!LoadFails
<1>2. Content!BodyBounded' /\ Content!DownloadIsListed'
  BY DEF ContentInv, Content!LoadFails, Content!BodyBounded, Content!DownloadIsListed
<1>3. Content!ListBounded' BY DEF ContentInv, Content!LoadFails, Content!ListBounded, Content!Count
<1>4. Listing' BY DEF ContentInv, Content!LoadFails, Listing
<1> QED BY <1>1, <1>2, <1>3, <1>4 DEF ContentInv, Content!LoadFails

\* The body has come, or as much of it as is shown: the list begins.
LEMMA ListBegins ==
    ASSUME ContentInv, pc \in {"load", "show"}, pc' = "list", at' = 1,
           UNCHANGED <<provider, kind, part, item, next, wanted, total, linked, refs, pages, warning,
             failed, sent>>
    PROVE  /\ Listing' /\ Content!ListBounded' /\ sent' = 0 /\ Content!DownloadIsListed'
           /\ (body' \subseteq Part \cup {Content!Preview} => Content!TypeOK')
<1>1. linked = {} /\ \A i \in Item : refs[i] = 0 BY DEF ContentInv, Listing
<1>2. Linked' \ {1} = {} /\ 1 \notin linked' BY <1>1 DEF Linked
<1>3. Listing' BY <1>1, <1>2 DEF Listing, ListedSoFar
<1>4. Content!ListBounded' BY DEF ContentInv, Content!ListBounded, Content!Count
<1>5. sent' = 0 /\ Content!DownloadIsListed' BY DEF ContentInv, Content!DownloadIsListed
<1>6. body' \subseteq Part \cup {Content!Preview} =>
      Content!TypeOK' BY DEF ContentInv, Content!TypeOK
<1> QED BY <1>3, <1>4, <1>5, <1>6

\* All parts are there: the text is shown, or the list is asked for.
LEMMA ContentLoaded == ASSUME ContentInv, Content!Loaded PROVE ContentInv'
<1> USE DEF Content!message
<1>1. pc \in {"load", "show"} /\ pc' = "list" /\ at' = 1 /\ body' = Content!Text(Part)
      /\ UNCHANGED <<provider, kind, part, item, next, wanted, total, linked, refs, pages, warning,
           failed, sent>>
  BY DEF Content!Loaded
<1>2. \A p \in Part : part[p].size <= MaxBody
  <2>1. at \in 1..(Cardinality(Part) + 1) /\ at \notin Part BY DEF ContentInv, Content!Loaded
  <2>2. \A p \in Part : p < at BY <2>1, PartsAreNumbered
  <2> QED BY <2>2 DEF ContentInv, Content!Loaded
<1>3. body' \subseteq Part \cup {Content!Preview} BY <1>1, TextIsParts
<1>4. Content!BodyBounded' BY <1>1, <1>2, <1>3 DEF Content!BodyBounded
<1>5. Content!Text(Part)' = Content!Text(Part) BY <1>1 DEF Content!Text, Content!FirstOf
<1>6. Listing' /\ Content!ListBounded' /\ sent' = 0 /\ Content!DownloadIsListed' /\ Content!TypeOK'
  BY <1>1, <1>3, ListBegins
<1> QED BY <1>1, <1>4, <1>5, <1>6 DEF ContentInv

\* What is saved is shown, if it is not too large.
LEMMA ContentShow == ASSUME ContentInv, Content!Show PROVE ContentInv'
<1> USE DEF Content!message
<1>1. pc \in {"load", "show"} /\ pc' = "list" /\ at' = 1
      /\ UNCHANGED <<provider, kind, part, item, next, wanted, total, linked, refs, pages, warning,
           failed, sent>>
  BY DEF Content!Show
<1>2. PICK parts \in Content!Found :
         body' = IF \E p \in Content!Text(parts) \ {Content!Preview} : part[p].size > MaxBody
                 THEN {Content!Preview} ELSE Content!Text(parts)
  BY DEF Content!Show
<1>3. parts \in SUBSET Part BY DEF Content!Found, Content!Saved
<1>4. body' \subseteq Part \cup {Content!Preview} BY <1>2, <1>3, TextIsParts
<1>5. Content!BodyBounded'
  <2>1. ASSUME NEW p \in body' \ {Content!Preview} PROVE part[p].size <= MaxBody
    <3>1. p \in Content!Text(parts) \ {Content!Preview} /\ ~(part[p].size > MaxBody) BY <2>1, <1>2
    <3>2. p \in Part BY <2>1, <1>4
    <3>3. part[p].size \in Nat BY <3>2, ContentAssumption
          DEF ContentInv, Content!TypeOK, Content!Size
    <3> QED BY <3>1, <3>3, ContentAssumption
  <2> QED BY <2>1, <1>1 DEF Content!BodyBounded
<1>6. Listing' /\ Content!ListBounded' /\ sent' = 0 /\ Content!DownloadIsListed' /\ Content!TypeOK'
  BY <1>1, <1>4, ListBegins
<1>7. warning BY DEF ContentInv, Content!Show
<1> QED BY <1>1, <1>5, <1>6, <1>7 DEF ContentInv

\* A page is listed, and its link is followed unless the list has ended.
LEMMA ContentListPage == ASSUME ContentInv, Content!ListPage PROVE ContentInv'
<1> USE DEF Content!message
<1>1. /\ pc = "list" /\ kind = "usual" /\ at \in Page /\ Content!Count(Content!Listed(at)) <= MaxItems
      /\ Content!Turn(at) # "error" /\ refs' = Content!Listed(at)
      /\ UNCHANGED <<provider, kind, part, item, next, wanted, total, body, warning, failed, sent>>
      /\ \/ Content!Turn(at) = "end" /\ pc' = Content!After /\ UNCHANGED <<at, linked>>
         \/ Content!Turn(at) # "end" /\ pc' = pc /\ at' = next[at]
              /\ linked' = linked \cup {next[at]}
  BY Zenon DEF Content!ListPage
<1>2. /\ refs \in [Item -> Nat] /\ next \in [Page -> Page \cup {0}] /\ Page \subseteq Nat \ {0}
      /\ 1 \in Page
      /\ linked \subseteq Page /\ pages \in 0..MaxPages /\ MaxPages \in Nat
      /\ item \in [Item -> [page: Page, file: BOOLEAN, announced: Content!Size, size: Content!Size]]
  BY ContentAssumption DEF ContentInv, Content!TypeOK
<1>3. /\ refs' \in [Item -> Nat]
      /\ \A i \in Item : refs'[i] = IF item[i].page = at /\ item[i].file THEN refs[i] + 1 ELSE refs[i]
  BY <1>1, <1>2 DEF Content!Listed, Content!OnPage
<1>4. pages' \in 0..MaxPages BY <1>2 DEF Content!ListPage
<1>5. Content!Turn(at) = "end" => next[at] = 0 BY DEF Content!Turn
<1>6. Content!Turn(at) # "end" =>
      next[at] \in Page /\ next[at] \notin linked BY <1>1, <1>2 DEF Content!Turn
<1>7. Content!TypeOK'
  <2>1. at' \in Nat /\ linked' \subseteq Page BY <1>1, <1>2, <1>6 DEF ContentInv, Content!TypeOK
  <2>2. pc' \in {"load", "show", "list", "fetch", "done", "refused"} BY <1>1 DEF Content!After
  <2> QED BY <1>1, <1>3, <1>4, <2>1, <2>2 DEF ContentInv, Content!TypeOK
<1>8. Content!BodyBounded' /\ Content!DownloadIsListed'
  BY <1>1 DEF ContentInv, Content!BodyBounded, Content!DownloadIsListed
<1>9. Content!ListBounded'
  <2>1. Content!Count(refs)' = Content!Count(Content!Listed(at)) BY <1>1 DEF Content!Count
  <2> QED BY <1>1, <2>1 DEF Content!ListBounded
<1>10. 1 \notin linked /\ ListedSoFar(at) /\ at \in Linked
  <2>1. at = 1 \/ at \in linked BY <1>1 DEF ContentInv, Listing
  <2>2. ASSUME 1 \in linked PROVE FALSE
    <3>1. at = 1 /\ next[1] \in linked BY <1>1, <2>2 DEF ContentInv, Listing
    <3>2. next[at] # 0 BY <3>1, <1>2
    <3> QED BY <3>1, <3>2, <1>5, <1>6
  <2> QED BY <1>1, <2>1, <2>2 DEF ContentInv, Listing, Linked
<1>11. /\ \A q \in Linked \ {at} : next[q] \in linked
       /\ \A i \in Item : item[i].page \in Linked /\ item[i].file => refs'[i] = 1
       /\ \A i \in Item : (item[i].page \notin Linked \/ ~item[i].file) => refs'[i] = 0
  BY <1>3, <1>10 DEF ListedSoFar, Content!OnPage
<1>12. CASE Content!Turn(at) = "end"
  <2>1. /\ next[at] = 0 /\ UNCHANGED <<at, linked>> /\ pc' \in {"fetch", "done"}
        /\ pc' = "done" <=> wanted = NoItem
    BY <1>1, <1>5, <1>12 DEF Content!After
  <2>2. Content!Reached' = Linked BY <2>1 DEF Content!Reached, Linked
  <2>3. \A p \in Linked : next'[p] \in Linked \cup {0} BY <1>1, <1>2, <1>11, <2>1 DEF Linked
  <2>4. \A i \in Item : refs'[i] = IF item'[i].file /\ item'[i].page \in Linked THEN 1 ELSE 0
    BY <1>1, <1>11
  <2>5. Content!ListIsWhole' BY <1>1, <2>2, <2>3, <2>4 DEF Content!ListIsWhole
  <2>6. Listing' BY <1>1, <2>1 DEF Listing
  <2>7. wanted' = NoItem /\ ~warning' => body' = Content!Text(Part)'
    <3>1. Content!Text(Part)' = Content!Text(Part) BY <1>1 DEF Content!Text, Content!FirstOf
    <3> QED BY <1>1, <3>1 DEF ContentInv
  <2> QED BY <1>1, <1>7, <1>8, <1>9, <2>1, <2>5, <2>6, <2>7 DEF ContentInv
<1>13. CASE Content!Turn(at) # "end"
  <2>1. pc' = "list" /\ at' = next[at] /\ linked' = linked \cup {next[at]} BY <1>1, <1>13
  <2>2. Listing'
    <3>1. CASE next[at] = 1
      <4>1. next[1] \in linked' BY <2>1, <3>1, <1>2, <1>10, <1>11 DEF Linked
      <4> QED BY <2>1, <3>1, <4>1, <1>1 DEF Listing
    <3>2. CASE next[at] # 1
      <4>1. Linked' = Linked \cup {next[at]} /\ next[at] \notin Linked /\ 1 \notin linked'
        BY <2>1, <3>2, <1>2, <1>6, <1>10, <1>13 DEF Linked
      <4>2. Linked' \ {at'} = Linked BY <4>1, <2>1
      <4>3. \A q \in Linked : next[q] \in linked' BY <1>11, <2>1
      <4>4. ListedSoFar(at)'
        BY <4>2, <4>3, <1>1, <1>11 DEF ListedSoFar, Content!OnPage
      <4> QED BY <1>1, <2>1, <4>1, <4>4 DEF Listing
    <3> QED BY <3>1, <3>2
  <2>3. wanted' = NoItem /\ ~warning' => body' = Content!Text(Part)'
    <3>1. Content!Text(Part)' = Content!Text(Part) BY <1>1 DEF Content!Text, Content!FirstOf
    <3> QED BY <1>1, <3>1 DEF ContentInv
  <2> QED BY <1>1, <1>7, <1>8, <1>9, <2>1, <2>2, <2>3 DEF ContentInv
<1> QED BY <1>12, <1>13

\* The message says it has no attachments: the list is empty.
LEMMA ContentListSkipped == ASSUME ContentInv, Content!ListSkipped PROVE ContentInv'
<1> USE DEF Content!message
<1>1. /\ pc = "list" /\ kind = "unattached" /\ pc' = Content!After
      /\ UNCHANGED <<provider, kind, part, item, next, wanted, total, at, linked, refs, pages, body,
           warning, failed, sent>>
  BY DEF Content!ListSkipped
<1>2. pc' \in {"fetch", "done"} /\ (pc' = "fetch" => wanted # NoItem) BY <1>1 DEF Content!After
<1>3. Content!TypeOK' BY <1>1, <1>2 DEF ContentInv, Content!TypeOK
<1>4. Content!BodyBounded' BY <1>1 DEF ContentInv, Content!BodyBounded
<1>5. Content!ListBounded' BY <1>1 DEF ContentInv, Content!ListBounded, Content!Count
<1>6. Content!DownloadIsListed' BY <1>1 DEF ContentInv, Content!DownloadIsListed
<1>7. Content!Text(Part)' = Content!Text(Part) BY <1>1 DEF Content!Text, Content!FirstOf
<1>8. \A i \in Item : refs[i] = 0 BY <1>1 DEF ContentInv, Listing
<1>9. Listing' BY <1>1, <1>2, <1>8 DEF Listing
<1>10. Content!ListIsWhole' BY <1>1, <1>8 DEF Content!ListIsWhole
<1> QED BY <1>1, <1>2, <1>3, <1>4, <1>5, <1>6, <1>7, <1>9, <1>10 DEF ContentInv

\* The list fails, and none is shown.
LEMMA ContentListFails == ASSUME ContentInv, Content!ListFails PROVE ContentInv'
<1> USE DEF Content!message
<1>1. /\ pc = "list" /\ refs' = [i \in Item |-> 0] /\ failed' = TRUE
      /\ pc' = (IF wanted = NoItem THEN "done" ELSE "refused")
      /\ UNCHANGED <<provider, kind, part, item, next, wanted, total, at, linked, pages, body, warning,
           sent>>
  BY DEF Content!ListFails
<1>2. Content!TypeOK' BY <1>1 DEF ContentInv, Content!TypeOK
<1>3. Content!ListBounded'
  <2>1. \A i \in Item : refs'[i] = 0 BY <1>1
  <2>2. Content!Count(refs') = 0 BY <2>1, NothingListed
  <2>3. Content!Count(refs)' = Content!Count(refs') BY DEF Content!Count
  <2> QED BY <2>2, <2>3, ContentAssumption DEF Content!ListBounded
<1>4. Content!BodyBounded' BY <1>1 DEF ContentInv, Content!BodyBounded
<1>5. sent = 0 BY <1>1 DEF ContentInv
<1>6. Content!DownloadIsListed' BY <1>1, <1>5 DEF Content!DownloadIsListed
<1>7. Content!Text(Part)' = Content!Text(Part) BY <1>1 DEF Content!Text, Content!FirstOf
<1>8. Listing' BY <1>1 DEF Listing
<1> QED BY <1>1, <1>2, <1>3, <1>4, <1>5, <1>6, <1>7, <1>8 DEF ContentInv

\* The attachment is sent, or it is refused.
LEMMA ContentFetch == ASSUME ContentInv, Content!Fetch \/ Content!FetchFails PROVE ContentInv'
<1> USE DEF Content!message
<1>1. /\ pc = "fetch" /\ wanted # NoItem /\ wanted \in Item /\ sent = 0
      /\ \/ refs[wanted] > 0 /\ Content!Small(wanted) /\ pc' = "done" /\ sent' = item[wanted].size
         \/ pc' = "refused" /\ sent' = sent
      /\ UNCHANGED <<provider, kind, part, item, next, wanted, total, at, linked, refs, pages, body,
           warning, failed>>
  BY DEF Content!Fetch, Content!FetchFails, ContentInv, Content!TypeOK
<1>2. sent' \in Content!Size BY <1>1 DEF ContentInv, Content!TypeOK
<1>3. Content!TypeOK' BY <1>1, <1>2 DEF ContentInv, Content!TypeOK
<1>4. Content!BodyBounded' BY <1>1 DEF ContentInv, Content!BodyBounded
<1>5. Content!ListBounded' BY <1>1 DEF ContentInv, Content!ListBounded, Content!Count
<1>6. Content!DownloadIsListed' BY <1>1 DEF Content!DownloadIsListed, Content!Small
<1>7. Content!ListIsWhole' BY <1>1 DEF Content!ListIsWhole
<1>8. Listing' BY <1>1 DEF ContentInv, Listing
<1> QED BY <1>1, <1>3, <1>4, <1>5, <1>6, <1>7, <1>8 DEF ContentInv

\* Every step keeps the invariant.
LEMMA ContentStep ==
    ASSUME ContentInv, [Content!Next]_(Content!vars)
    PROVE  ContentInv'
<1>1. CASE UNCHANGED Content!vars
  BY <1>1
     DEF Content!vars, ContentInv, Content!TypeOK, Content!Text, Content!FirstOf,
     Content!BodyBounded, Listing,
      ListedSoFar, Linked, Content!OnPage, Content!ListIsWhole, Content!Reached,
        Content!ListBounded, Content!Count,
      Content!DownloadIsListed
<1> QED BY <1>1, ContentLoad, ContentLoadFails, ContentLoaded, ContentShow, ContentListPage,
           ContentListSkipped, ContentListFails, ContentFetch DEF Content!Next

\* What the invariant is for.
LEMMA ContentFollows ==
    ASSUME ContentInv
    PROVE  /\ Content!TypeOK /\ Content!FullOrWarned /\ Content!BodyBounded
           /\ Content!ListIsWhole /\ Content!ListBounded /\ Content!DownloadIsListed
<1>1. Content!FullOrWarned BY DEF ContentInv, Content!FullOrWarned
<1>2. Content!ListIsWhole BY DEF ContentInv, Content!ListIsWhole
<1> QED BY <1>1, <1>2 DEF ContentInv

-----------------------------------------------------------------------------
(* The behaviours of all of them *)

\* Whoever runs keeps its inductive invariant.
MessagesInv ==
    /\ running = "state" => StateInv(TRUE)
    /\ running = "state in turn" => StateInv(FALSE)
    /\ running = "lists" => ListInv
    /\ running = "folders" => FolderInv
    /\ running = "content" => ContentInv

\* Every behaviour begins with what whoever runs begins with, ...
LEMMA BeginSound == Begin => MessagesInv
<1> SUFFICES ASSUME Begin PROVE MessagesInv OBVIOUS
<1>1. running = "state" => StateInv(TRUE) BY StateAssumption, StateInit DEF Begin
<1>2. running = "state in turn" => StateInv(FALSE) BY StateAssumption, StateInit DEF Begin
<1>3. running = "lists" => ListInv BY ListAssumption, ListInit DEF Begin
<1>4. running = "folders" => FolderInv BY FolderAssumption, FolderInit DEF Begin
<1>5. running = "content" => ContentInv BY ContentAssumption, ContentInit DEF Begin
<1> QED BY <1>1, <1>2, <1>3, <1>4, <1>5 DEF MessagesInv

\* ... and every step is a step of whoever runs, the others' own variables apart.
LEMMA StepsAreOfTheRunning ==
    ASSUME [Step]_allVars
    PROVE  /\ running' = running
           /\ running = "state" => State(TRUE)!Next \/ UNCHANGED stateVars
           /\ running = "state in turn" => State(FALSE)!Next \/ UNCHANGED stateVars
           /\ running = "lists" => Lists!Next \/ UNCHANGED listVars
           /\ running = "folders" => Folders!Next \/ UNCHANGED folderVars
           /\ running = "content" => Content!Next \/ UNCHANGED contentVars
BY DEF Step, allVars

\* Whoever runs keeps its invariant, and the others are not running.
LEMMA StepSound == ASSUME MessagesInv, [Step]_allVars PROVE MessagesInv'
<1>1. running = "state" => StateInv(TRUE)'
  BY StepsAreOfTheRunning, StateAssumption, StateStep, StateStutters DEF MessagesInv
<1>2. running = "state in turn" => StateInv(FALSE)'
  BY StepsAreOfTheRunning, StateAssumption, StateStep, StateStutters DEF MessagesInv
<1>3. running = "lists" => ListInv'
  BY StepsAreOfTheRunning, ListAssumption, ListStep, ListStutters DEF MessagesInv
<1>4. running = "folders" => FolderInv'
  BY StepsAreOfTheRunning, FolderStep, FolderStutters DEF MessagesInv
<1>5. running = "content" => ContentInv'
  BY StepsAreOfTheRunning, ContentAssumption, ContentStep DEF MessagesInv, contentVars, Content!vars
<1> QED BY <1>1, <1>2, <1>3, <1>4, <1>5, StepsAreOfTheRunning DEF MessagesInv

\* The invariants hold in every behaviour.
THEOREM MessagesInvariance == Behaviours => []MessagesInv
BY BeginSound, StepSound, PTL DEF Behaviours

\* The backfill fills every row and derives it from the payload the row keeps, whatever imports and
\* edits come between its reading and its writing; where nothing comes between an edit's read and
\* its write, the user's last edit is kept, and what is shown is the user's value before the
\* provider's.
THEOREM ShownIsEffective == Behaviours => []VisibleIsEffective
<1>1. MessagesInv => VisibleIsEffective
  BY StateFollows DEF MessagesInv, VisibleIsEffective
<1> QED BY <1>1, MessagesInvariance, PTL

\* The cursor of a page skips no row that kept its place and shows none twice, whatever the rows
\* and the page's limit, and whatever comes, goes or moves between two pages.
THEOREM PagesAreWhole == Behaviours => []NothingSkipped
<1>1. MessagesInv => NothingSkipped
  BY ListFollows DEF MessagesInv, NothingSkipped
<1> QED BY <1>1, MessagesInvariance, PTL

\* The number beside a folder is that of its list, the account's totals are those of the list of
\* all, no more messages are analyzed than there are, and a search widens no folder: for any
\* messages, mailboxes and categories.
THEOREM NumbersAgree == Behaviours => []FoldersAgree
<1>1. MessagesInv => FoldersAgree
  BY FolderAssumption, FolderFollows DEF MessagesInv, FoldersAgree
<1> QED BY <1>1, MessagesInvariance, PTL

\* An opened message shows the first HTML and the first plain text of all its parts, or a warning; a
\* list without an error has every file that Graph's pages or Gmail's parts have, once, and is empty
\* where the message says it has no attachments; what is downloaded is on the list, and the limits
\* hold of what arrives, whatever the provider announces and however it pages.
THEOREM OpenedIsWhole == Behaviours => []ContentIsWhole
<1>1. MessagesInv => ContentIsWhole
  BY ContentAssumption, ContentFollows DEF MessagesInv, ContentIsWhole
<1> QED BY <1>1, MessagesInvariance, PTL
=============================================================================
