--------------------------- MODULE MailboxesProofs ---------------------------
(***************************************************************************)
(* Proofs about MicrosoftSync and ImapSync, for every set of messages and  *)
(* folders and every bound.  What MicrosoftSync promises is that no change *)
(* is lost and that its copy implements MailMirror; what ImapSync promises *)
(* is that its cursor passes over no message.                              *)
(***************************************************************************)
EXTENDS Mailboxes, GmailSyncProofs, WellFoundedInduction

-----------------------------------------------------------------------------
(* What the invariants say *)

\* Graph: a message is in a folder that is there, whose delta last mentions it at the version
\* that it has.
MailboxIsSound(w) ==
    /\ clock > Graph(w)!None
    /\ \A m \in GraphMsg(w) :
        /\ graphMailbox[m] = Graph(w)!None <=> place[m] = Nowhere
        /\ graphMailbox[m] <= clock
        /\ place[m] # Nowhere =>
             folders[place[m]] = "there" /\ touched[place[m]][m] = graphMailbox[m]
        /\ \A f \in GraphFolder(w) : touched[f][m] <= clock
\* Owed, of the folders' cursors alone.
OwedBy(w, cursor, m) == Graph(w)!Owed([cursor |-> cursor], m)
\* What NoLostChange says of the committed rows, of any rows: the committed ones, and those of
\* the open transaction, which a commit may make the committed ones at any time.
RowsAreOwed(w, data) ==
    /\ \A f \in GraphFolder(w) : data.cursor[f] <= clock
    /\ \A m \in GraphMsg(w) : data.stored[m] # graphMailbox[m] => Graph(w)!Owed(data, m)

\* A round of a folder has begun: its first page fixed the instant its delta link will stand for.
Round(w) == graphRun.pc \in {"delta", "items"} /\ graphRun.began # Graph(w)!None
\* What the round has still to list: the messages changed before it began that no page had.
Unread(w) ==
    {m \in Graph(w)!Reported(graphRun.folder,
      graphTx.cursor[graphRun.folder]) : touched[graphRun.folder][m] <= graphRun.began}
        \ graphRun.seen
\* The rows, once the round's delta link is the folder's cursor.
AfterRound(w) == [graphTx EXCEPT !.cursor[graphRun.folder] = graphRun.began]
\* The run's control: whoever holds the row's lock has the row's grant.
RunIsSound(w) ==
    /\ graphRun.pc \in {"delta", "items"} => graphRun.folder \in GraphFolder(w)
    /\ graphRun.pc = "items" => graphRun.began # Graph(w)!None
    /\ graphRun.pc = "delta" /\ graphRun.began = Graph(w)!None => graphRun.seen = {}
    /\ graphRun.pc # "items" => graphRun.items = {}
    /\ graphRun.locked => graphRun.grant = graphAccount.grant
\* Ending the round now would lose only what a page has yet to list, or an item of this page has
\* yet to save; an item's version is the mailbox's, or the newer one is owed past the round; and
\* the page with the delta link is the last, with nothing unread.
RoundIsSound(w) ==
    Round(w) =>
        /\ graphTx.cursor[graphRun.folder] <= graphRun.began /\ graphRun.began <= clock
        /\ \A i \in graphRun.items :
              i.version \in {Graph(w)!None, graphMailbox[i.msg]}
                \/ Graph(w)!Owed(AfterRound(w), i.msg)
        /\ \A m \in GraphMsg(w) : graphTx.stored[m] # graphMailbox[m] =>
              m \in Unread(w) \/ (\E i \in graphRun.items : i.msg = m)
                \/ Graph(w)!Owed(AfterRound(w), m)
        /\ graphRun.pc = "items" /\ graphRun.last => Unread(w) = {}
\* The inductive invariant behind NoLostChange.
LossInv(w) ==
    /\ Graph(w)!TypeOK /\ MailboxIsSound(w) /\ RowsAreOwed(w, graphDb) /\ RowsAreOwed(w, graphTx)
    /\ RunIsSound(w) /\ RoundIsSound(w)

\* Version v of m is not one that the mailbox has yet to reach.
GraphEarlier(w, m, v) == v <= clock /\ (graphMailbox[m] # Graph(w)!None => v <= graphMailbox[m])
\* What is committed, and what would be, are versions the mailbox has had; what would be committed
\* is no older than what is, unless the message is gone.
GraphCopiesAreForward(w) ==
    \A m \in GraphMsg(w) :
        /\ graphDb.stored[m] # Graph(w)!None \/ graphTx.stored[m] # Graph(w)!None =>
             Graph(w)!Arrived(m)
        /\ GraphEarlier(w, m, graphDb.stored[m]) /\ GraphEarlier(w, m, graphTx.stored[m])
        /\ \/ graphTx.stored[m] = Graph(w)!None /\ graphMailbox[m] = Graph(w)!None
           \/ graphTx.stored[m] >= graphDb.stored[m]
\* Saving an item takes neither copy back: of two items of a page no two are of one message.
ItemsAreForward(w) ==
    \A i \in graphRun.items :
        /\ i.version # Graph(w)!None =>
              /\ Graph(w)!Arrived(i.msg) /\ GraphEarlier(w, i.msg, i.version)
              /\ graphDb.stored[i.msg] <= i.version /\ graphTx.stored[i.msg] <= i.version
        /\ \A j \in graphRun.items : i.msg = j.msg => i = j
\* The inductive invariant behind the refinement of MailMirror.
MirrorInv(w) == LossInv(w) /\ GraphCopiesAreForward(w) /\ ItemsAreForward(w)
-----------------------------------------------------------------------------
(* No change is lost *)

\* Changes of the mailbox keep the state well typed, ...
LEMMA GraphType == ASSUME NEW w, Graph(w)!TypeOK, Graph(w)!Graph PROVE Graph(w)!TypeOK'
<1>1. ASSUME NEW m \in GraphMsg(w), NEW f \in Graph(w)!There, Graph(w)!Arrive(m, f)
             \/ Graph(w)!Move(m, f) PROVE Graph(w)!TypeOK'
  <2>1. f \in GraphFolder(w) /\ Graph(w)!Change({m}, f) /\ UNCHANGED <<folders, unreported>>
    BY <1>1 DEF Graph!Arrive, Graph!Move, Graph!There
  <2> QED BY <2>1 DEF Graph!TypeOK, Graph!Change, Graph!None
<1>2. ASSUME NEW m \in GraphMsg(w), Graph(w)!Remove(m) PROVE Graph(w)!TypeOK'
  BY <1>2 DEF Graph!TypeOK, Graph!Rows, Graph!Remove, Graph!Change, Graph!None
<1>3. ASSUME NEW f \in GraphFolder(w), Graph(w)!CreateFolder(f) PROVE Graph(w)!TypeOK'
  BY <1>3 DEF Graph!TypeOK, Graph!Rows, Graph!CreateFolder
<1>4. ASSUME NEW f \in GraphFolder(w), Graph(w)!DeleteFolder(f) PROVE Graph(w)!TypeOK'
  BY <1>4 DEF Graph!TypeOK, Graph!Rows, Graph!DeleteFolder, Graph!There, Graph!Change, Graph!None
<1>5. CASE Graph(w)!ExpireLinks BY <1>5 DEF Graph!TypeOK, Graph!Rows, Graph!ExpireLinks
<1> QED BY <1>1, <1>2, <1>3, <1>4, <1>5 DEF Graph!Graph

\* ... and every message in a folder that is there.
LEMMA GraphSound ==
    ASSUME NEW w, Nowhere \notin GraphFolder(w), Graph(w)!TypeOK, MailboxIsSound(w), Graph(w)!Graph
    PROVE  MailboxIsSound(w)'
<1>1. ASSUME NEW m \in GraphMsg(w), NEW f \in Graph(w)!There, Graph(w)!Arrive(m, f)
             \/ Graph(w)!Move(m, f) PROVE MailboxIsSound(w)'
  <2>1. f \in GraphFolder(w) /\ Graph(w)!Change({m}, f) /\ UNCHANGED folders /\ folders[f] = "there"
    BY <1>1 DEF Graph!Arrive, Graph!Move, Graph!There
  <2> QED BY <2>1 DEF Graph!TypeOK, MailboxIsSound, Graph!Change, Graph!None
<1>2. ASSUME NEW m \in GraphMsg(w), Graph(w)!Remove(m) PROVE MailboxIsSound(w)'
  BY <1>2 DEF Graph!TypeOK, MailboxIsSound, Graph!Remove, Graph!Change, Graph!None
<1>3. ASSUME NEW f \in GraphFolder(w), Graph(w)!CreateFolder(f) PROVE MailboxIsSound(w)'
  BY <1>3 DEF Graph!TypeOK, MailboxIsSound, Graph!CreateFolder
<1>4. ASSUME NEW f \in GraphFolder(w), Graph(w)!DeleteFolder(f) PROVE MailboxIsSound(w)'
  BY <1>4
     DEF Graph!TypeOK, MailboxIsSound, Graph!DeleteFolder, Graph!There, Graph!Change, Graph!None
<1>5. CASE Graph(w)!ExpireLinks BY <1>5 DEF Graph!TypeOK, MailboxIsSound, Graph!ExpireLinks
<1> QED BY <1>1, <1>2, <1>3, <1>4, <1>5 DEF Graph!Graph

\* A change of the mailbox is owed to whoever has a cursor no later than now, and discharges no
\* debt: the message's new folder reports it, or the old one its removal.
LEMMA ChangesAreOwed ==
    ASSUME NEW w, Nowhere \notin GraphFolder(w), Graph(w)!TypeOK, MailboxIsSound(w), Graph(w)!Graph
    PROVE  \A cursor \in [GraphFolder(w) -> Nat], m \in GraphMsg(w) :
              (\A f \in GraphFolder(w) : cursor[f] <= clock) =>
                  /\ graphMailbox'[m] # graphMailbox[m] => OwedBy(w, cursor, m)'
                  /\ OwedBy(w, cursor, m) => OwedBy(w, cursor, m)'
<1> SUFFICES ASSUME NEW cursor \in [GraphFolder(w) -> Nat], NEW m \in GraphMsg(w),
                    \A f \in GraphFolder(w) : cursor[f] <= clock
    PROVE
          /\ graphMailbox'[m] # graphMailbox[m] => OwedBy(w, cursor, m)'
          /\ OwedBy(w, cursor, m) => OwedBy(w, cursor, m)'
    OBVIOUS
<1>1. ASSUME NEW n \in GraphMsg(w), NEW f \in Graph(w)!There, Graph(w)!Arrive(n, f)
             \/ Graph(w)!Move(n, f) PROVE
          /\ graphMailbox'[m] # graphMailbox[m] => OwedBy(w, cursor, m)'
          /\ OwedBy(w, cursor, m) => OwedBy(w, cursor, m)'
  BY <1>1
     DEF Graph!TypeOK, MailboxIsSound, Graph!Arrive, Graph!Move, Graph!Change, Graph!There,
     Graph!None, OwedBy, Graph!Owed, Graph!Pending
<1>2. ASSUME NEW n \in GraphMsg(w), Graph(w)!Remove(n) PROVE
          /\ graphMailbox'[m] # graphMailbox[m] => OwedBy(w, cursor, m)'
          /\ OwedBy(w, cursor, m) => OwedBy(w, cursor, m)'
  BY <1>2
     DEF Graph!TypeOK, MailboxIsSound, Graph!Remove, Graph!Change, Graph!None, OwedBy, Graph!Owed,
     Graph!Pending
<1>3. ASSUME NEW f \in GraphFolder(w), Graph(w)!CreateFolder(f) PROVE
          /\ graphMailbox'[m] # graphMailbox[m] => OwedBy(w, cursor, m)'
          /\ OwedBy(w, cursor, m) => OwedBy(w, cursor, m)'
  BY <1>3
     DEF Graph!TypeOK, MailboxIsSound, Graph!CreateFolder, Graph!None, OwedBy, Graph!Owed,
     Graph!Pending
<1>4. ASSUME NEW f \in GraphFolder(w), Graph(w)!DeleteFolder(f) PROVE
          /\ graphMailbox'[m] # graphMailbox[m] => OwedBy(w, cursor, m)'
          /\ OwedBy(w, cursor, m) => OwedBy(w, cursor, m)'
  <2>1. CASE place[m] = f
    <3>1. graphMailbox'[m] = Graph(w)!None /\ touched[f][m] # Graph(w)!None
      BY <1>4, <2>1 DEF Graph!TypeOK, MailboxIsSound, Graph!DeleteFolder, Graph!Change, Graph!None
    <3>2. m \in unreported' BY <1>4, <3>1 DEF Graph!DeleteFolder
    <3> QED BY <3>1, <3>2 DEF OwedBy, Graph!Owed
  <2>2. CASE place[m] # f /\ graphMailbox[m] # Graph(w)!None
    BY <1>4, <2>2
       DEF Graph!TypeOK, MailboxIsSound, Graph!DeleteFolder, Graph!There, Graph!Change, Graph!None,
       OwedBy, Graph!Owed, Graph!Pending
  <2>3. CASE place[m] # f /\ graphMailbox[m] = Graph(w)!None
    <3>1. graphMailbox'[m] = Graph(w)!None
          /\ \A g \in GraphFolder(w) : touched'[g][m] = touched[g][m]
      BY <1>4, <2>3 DEF Graph!TypeOK, Graph!DeleteFolder, Graph!Change
    <3>2. SUFFICES ASSUME OwedBy(w, cursor, m) PROVE OwedBy(w, cursor, m)'
      BY <2>3, <3>1
    <3>3. CASE m \in unreported BY <1>4, <3>1, <3>3 DEF Graph!DeleteFolder, OwedBy, Graph!Owed
    <3>4. CASE m \notin unreported
      <4>1. PICK g \in GraphFolder(w) : folders[g] = "there" /\ touched[g][m] > cursor[g]
        BY <2>3, <3>2, <3>4 DEF OwedBy, Graph!Owed, Graph!Pending
      <4>2. CASE g = f BY <1>4, <4>1, <4>2, <3>1
                 DEF Graph!DeleteFolder, OwedBy, Graph!Owed, Graph!TypeOK, Graph!None
      <4>3. CASE g # f BY <1>4, <4>1, <4>3, <3>1
                 DEF Graph!DeleteFolder, OwedBy, Graph!Owed, Graph!Pending, Graph!TypeOK
      <4> QED BY <4>2, <4>3
    <3> QED BY <3>3, <3>4
  <2> QED BY <2>1, <2>2, <2>3
<1>5. CASE Graph(w)!ExpireLinks BY <1>5
           DEF Graph!TypeOK, Graph!ExpireLinks, OwedBy, Graph!Owed, Graph!Pending
<1> QED BY <1>1, <1>2, <1>3, <1>4, <1>5 DEF Graph!Graph

\* A folder's report of a message stays as it was, or is of a change after now.
LEMMA ChangesAreReported ==
    ASSUME NEW w, Nowhere \notin GraphFolder(w), Graph(w)!TypeOK, MailboxIsSound(w), Graph(w)!Graph,
           NEW f \in GraphFolder(w), NEW m \in GraphMsg(w)
    PROVE  \/ touched'[f][m] = touched[f][m] /\ (place'[m] = f <=> place[m] = f)
           \/ touched'[f][m] > clock /\ graphMailbox'[m] # graphMailbox[m]
<1> USE DEF Graph!TypeOK, MailboxIsSound, Graph!Change, Graph!None
<1>1. ASSUME NEW n \in GraphMsg(w), NEW g \in Graph(w)!There, Graph(w)!Arrive(n, g)
             \/ Graph(w)!Move(n, g)
      PROVE \/ touched'[f][m] = touched[f][m] /\ (place'[m] = f <=> place[m] = f)
            \/ touched'[f][m] > clock /\ graphMailbox'[m] # graphMailbox[m]
  BY <1>1 DEF Graph!Arrive, Graph!Move, Graph!There
<1>2. ASSUME NEW n \in GraphMsg(w), Graph(w)!Remove(n)
      PROVE \/ touched'[f][m] = touched[f][m] /\ (place'[m] = f <=> place[m] = f)
            \/ touched'[f][m] > clock /\ graphMailbox'[m] # graphMailbox[m]
  BY <1>2 DEF Graph!Remove
<1>3. ASSUME NEW g \in GraphFolder(w), Graph(w)!CreateFolder(g) \/ Graph(w)!DeleteFolder(g)
      PROVE \/ touched'[f][m] = touched[f][m] /\ (place'[m] = f <=> place[m] = f)
            \/ touched'[f][m] > clock /\ graphMailbox'[m] # graphMailbox[m]
  BY <1>3 DEF Graph!CreateFolder, Graph!DeleteFolder, Graph!There
<1> QED BY <1>1, <1>2, <1>3 DEF Graph!Graph, Graph!ExpireLinks

\* Changes of the mailbox keep what the rows owe, ...
LEMMA GraphKeepsDebts ==
    ASSUME NEW w, Nowhere \notin GraphFolder(w), Graph(w)!TypeOK, MailboxIsSound(w), Graph(w)!Graph,
           RowsAreOwed(w, graphDb), RowsAreOwed(w, graphTx)
    PROVE  RowsAreOwed(w, graphDb)' /\ RowsAreOwed(w, graphTx)'
<1>1. graphDb' = graphDb /\ graphTx' = graphTx /\ clock <= clock'
  BY DEF Graph!TypeOK, Graph!Graph, Graph!Arrive, Graph!Move, Graph!Remove, Graph!CreateFolder,
     Graph!DeleteFolder, Graph!ExpireLinks, Graph!Change, Graph!There
<1>2. graphDb.cursor \in [GraphFolder(w) -> Nat] /\ graphTx.cursor \in [GraphFolder(w) -> Nat]
  BY DEF Graph!TypeOK, Graph!Rows
<1>3. \A cursor \in [GraphFolder(w) -> Nat], m \in GraphMsg(w) :
         (\A f \in GraphFolder(w) : cursor[f] <= clock) =>
            /\ graphMailbox'[m] # graphMailbox[m] => OwedBy(w, cursor, m)'
            /\ OwedBy(w, cursor, m) => OwedBy(w, cursor, m)'
  BY ChangesAreOwed
<1>4. \A m \in GraphMsg(w) : graphDb.stored[m] # graphMailbox'[m] => Graph(w)!Owed(graphDb, m)'
  BY <1>1, <1>2, <1>3 DEF RowsAreOwed, OwedBy, Graph!Owed, Graph!Pending
<1>5. \A m \in GraphMsg(w) : graphTx.stored[m] # graphMailbox'[m] => Graph(w)!Owed(graphTx, m)'
  BY <1>1, <1>2, <1>3 DEF RowsAreOwed, OwedBy, Graph!Owed, Graph!Pending
<1>6. \A f \in GraphFolder(w) : graphDb.cursor[f] <= clock' /\ graphTx.cursor[f] <= clock'
  BY <1>1, <1>2, GraphType DEF RowsAreOwed, Graph!TypeOK
<1> QED BY <1>1, <1>4, <1>5, <1>6 DEF RowsAreOwed

\* ... and what the open round will have read: what they change is owed past its end.
LEMMA GraphKeepsRound ==
    ASSUME NEW w, Nowhere \notin GraphFolder(w), Graph(w)!TypeOK, MailboxIsSound(w), Graph(w)!Graph,
           RunIsSound(w), RoundIsSound(w),
           RowsAreOwed(w, graphTx)
    PROVE  RunIsSound(w)' /\ RoundIsSound(w)'
<1>1. graphAccount' = graphAccount /\ graphTx' = graphTx /\ graphRun' = graphRun
  BY DEF Graph!Graph, Graph!Arrive, Graph!Move, Graph!Remove, Graph!CreateFolder,
     Graph!DeleteFolder, Graph!ExpireLinks, Graph!Change, Graph!There
<1>a. clock' \in Nat /\ clock <= clock'
  BY DEF Graph!TypeOK, Graph!Graph, Graph!Arrive, Graph!Move, Graph!Remove, Graph!CreateFolder,
     Graph!DeleteFolder, Graph!ExpireLinks, Graph!Change, Graph!There
<1>2. RunIsSound(w)' BY <1>1 DEF RunIsSound
<1>3. CASE ~Round(w)
  <2>1. ~Round(w)' BY <1>1, <1>3 DEF Round
  <2> QED BY <1>2, <2>1 DEF RoundIsSound
<1>4. CASE Round(w)
  <2>1. graphRun.folder \in GraphFolder(w) /\ graphRun.began \in Nat /\ graphRun.began <= clock
        /\ graphTx.cursor \in [GraphFolder(w) -> Nat]
        /\ graphTx.cursor[graphRun.folder] <= graphRun.began
    BY <1>4 DEF RoundIsSound, RunIsSound, Round, Graph!TypeOK, Graph!Rows
  <2>2. AfterRound(w).cursor \in [GraphFolder(w) -> Nat]
        /\ \A f \in GraphFolder(w) : AfterRound(w).cursor[f] <= clock
    BY <2>1 DEF AfterRound, RowsAreOwed, Graph!TypeOK, Graph!Rows
  <2>3. \A cursor \in [GraphFolder(w) -> Nat], m \in GraphMsg(w) :
         (\A f \in GraphFolder(w) : cursor[f] <= clock) =>
            /\ graphMailbox'[m] # graphMailbox[m] => OwedBy(w, cursor, m)'
            /\ OwedBy(w, cursor, m) => OwedBy(w, cursor, m)'
    BY ChangesAreOwed
  <2>4. AfterRound(w)' = AfterRound(w) BY <1>1 DEF AfterRound
  <2>5. \A m \in GraphMsg(w) : /\ graphMailbox'[m] # graphMailbox[m] =>
                                  Graph(w)!Owed(AfterRound(w), m)'
                               /\ Graph(w)!Owed(AfterRound(w), m) =>
                                    Graph(w)!Owed(AfterRound(w), m)'
    BY <2>2, <2>3, <2>4 DEF OwedBy, Graph!Owed, Graph!Pending
  <2>6. \A m \in GraphMsg(w) :
           \/ /\ touched'[graphRun.folder][m] = touched[graphRun.folder][m]
              /\ place'[m] = graphRun.folder <=> place[m] = graphRun.folder
           \/ touched'[graphRun.folder][m] > graphRun.began /\ graphMailbox'[m] # graphMailbox[m]
    <3>1. \A f \in GraphFolder(w), m \in GraphMsg(w) : touched'[f][m] \in Nat
      BY GraphType DEF Graph!TypeOK
    <3>2. \A f \in GraphFolder(w), m \in GraphMsg(w) :
             \/ touched'[f][m] = touched[f][m] /\ (place'[m] = f <=> place[m] = f)
             \/ touched'[f][m] > clock /\ graphMailbox'[m] # graphMailbox[m]
      BY ChangesAreReported
    <3> QED BY <2>1, <3>1, <3>2 DEF Graph!TypeOK
  <2>7. \A m \in GraphMsg(w) : m \in Unread(w) =>
        m \in Unread(w)' \/ Graph(w)!Owed(AfterRound(w), m)'
    BY <1>1, <2>1, <2>5, <2>6 DEF Unread, Graph!Reported
  <2>8. graphRun.pc = "items" /\ graphRun.last => Unread(w)' = {}
    <3>1. \A m \in GraphMsg(w) : touched'[graphRun.folder][m] \in Nat
      BY <2>1, GraphType DEF Graph!TypeOK
    <3>2. Unread(w)' \subseteq Unread(w)
      BY <1>1, <2>1, <2>6, <3>1 DEF Unread, Graph!Reported, Graph!TypeOK
    <3> QED BY <1>4, <3>2 DEF RoundIsSound
  <2>9. \A i \in graphRun.items : i.msg \in GraphMsg(w)
    BY DEF Graph!TypeOK, Graph!Item
  <2> QED
    <3>1. \A i \in graphRun.items : i.version \in {Graph(w)!None, graphMailbox'[i.msg]}
          \/ Graph(w)!Owed(AfterRound(w), i.msg)'
      BY <1>4, <2>5, <2>9 DEF RoundIsSound
    <3>2. \A m \in GraphMsg(w) : graphTx.stored[m] # graphMailbox'[m] =>
              m \in Unread(w)' \/ (\E i \in graphRun.items : i.msg = m)
                \/ Graph(w)!Owed(AfterRound(w), m)'
      BY <1>4, <2>5, <2>7 DEF RoundIsSound
    <3> QED BY <1>1, <1>a, <1>2, <2>1, <2>8, <3>1, <3>2 DEF RoundIsSound, Graph!TypeOK
<1> QED BY <1>2, <1>3, <1>4

-----------------------------------------------------------------------------
\* At first every message in the mailbox is owed by the folder it is in.
LEMMA InitSound == ASSUME NEW w, Nowhere \notin GraphFolder(w), Graph(w)!Init PROVE LossInv(w)
<1>1. Graph(w)!TypeOK
  BY DEF Graph!Init, Graph!TypeOK, Graph!Rows, Graph!IdleRun, Graph!Usable, Graph!Status, Graph!None
<1>2. MailboxIsSound(w)
  <2>0. clock > Graph(w)!None BY DEF Graph!Init, Graph!None
  <2> SUFFICES ASSUME NEW m \in GraphMsg(w)
      PROVE /\ graphMailbox[m] = Graph(w)!None <=> place[m] = Nowhere
            /\ graphMailbox[m] <= clock
            /\ place[m] # Nowhere =>
                 folders[place[m]] = "there" /\ touched[place[m]][m] = graphMailbox[m]
            /\ \A f \in GraphFolder(w) : touched[f][m] <= clock
    BY <2>0 DEF MailboxIsSound
  <2>1. place[m] = Nowhere \/ (place[m] \in GraphFolder(w) /\ folders[place[m]] = "there")
    <3>1. place \in [GraphMsg(w) -> Graph(w)!There \cup {Nowhere}]
      BY DEF Graph!Init, Graph!There
    <3>2. place[m] \in Graph(w)!There \cup {Nowhere}
      BY <3>1
    <3> QED BY <3>2 DEF Graph!There
  <2> QED BY <2>1 DEF Graph!Init, Graph!None
<1>3. \A f \in GraphFolder(w) : graphDb.cursor[f] = 0 /\ graphTx.cursor[f] = 0
  BY DEF Graph!Init, Graph!None
<1>4. \A m \in GraphMsg(w) : graphMailbox[m] # 0 =>
      Graph(w)!Owed(graphDb, m) /\ Graph(w)!Owed(graphTx, m)
  <2> SUFFICES ASSUME NEW m \in GraphMsg(w), graphMailbox[m] # 0
               PROVE  Graph(w)!Pending(graphDb, place[m], m)
                      /\ Graph(w)!Pending(graphTx, place[m], m)
    BY DEF Graph!Owed, Graph!None
  <2>1. place[m] \in GraphFolder(w) /\ folders[place[m]] = "there" /\ touched[place[m]][m] > 0
    BY <1>1, <1>2 DEF MailboxIsSound, Graph!TypeOK, Graph!None
  <2> QED BY <2>1, <1>3 DEF Graph!Pending
<1>5. RowsAreOwed(w, graphDb) /\ RowsAreOwed(w, graphTx)
  BY <1>3, <1>4 DEF Graph!Init, RowsAreOwed, Graph!None
<1> QED BY <1>1, <1>2, <1>5 DEF Graph!Init, LossInv, RunIsSound, RoundIsSound, Round, Graph!IdleRun

\* The user's actions keep the state well typed, ...
LEMMA UserType == ASSUME NEW w, Graph(w)!TypeOK, Graph(w)!User PROVE Graph(w)!TypeOK'
BY DEF Graph!TypeOK, Graph!User, Graph!Reconnect, Graph!Pause, Graph!Resume, Graph!SetAccount,
   Graph!graphVars, Graph!Status, Graph!Usable

\* ... and so do the worker's.
LEMMA WorkerType ==
    ASSUME NEW w, Graph(w)!TypeOK, RunIsSound(w), Graph(w)!Worker \/ Graph(w)!FailTransiently
           \/ Graph(w)!Fail \/ Graph(w)!RereadGrant \/ Graph(w)!RefreshToken \/ Graph(w)!Crash
    PROVE  Graph(w)!TypeOK'
<1> USE DEF Graph!graphVars, Graph!IdleRun, Graph!CallingGraph, Graph!Rows, Graph!None, Graph!Usable
<1>1. CASE Graph(w)!Load BY <1>1 DEF Graph!TypeOK, Graph!Load
<1>2. CASE Graph(w)!Start BY <1>2 DEF Graph!TypeOK, Graph!Start
<1>3. CASE Graph(w)!ListFolders BY <1>3 DEF Graph!TypeOK, Graph!ListFolders, Graph!There
<1>4. CASE Graph(w)!DeltaPage
  <2>1. PICK page \in SUBSET Graph(w)!Reported(graphRun.folder, graphTx.cursor[graphRun.folder]),
             last \in BOOLEAN :
          graphRun' = [graphRun EXCEPT !.pc = "items",
                             !.began = IF graphRun.began =
                               Graph(w)!None THEN clock ELSE graphRun.began,
                             !.last = last, !.seen = @ \cup page,
                             !.items = {Graph(w)!ItemOf(graphRun.folder, m) : m \in page}]
    BY <1>4 DEF Graph!DeltaPage
  <2>2. \A m \in GraphMsg(w) : Graph(w)!ItemOf(graphRun.folder, m) \in Graph(w)!Item
    BY DEF Graph!TypeOK, Graph!Item, Graph!ItemOf
  <2>3. unreported' \subseteq GraphMsg(w)
    BY <1>4 DEF Graph!TypeOK, Graph!DeltaPage
  <2>4. {Graph(w)!ItemOf(graphRun.folder, m) : m \in page} \in SUBSET Graph(w)!Item
    BY <2>1, <2>2 DEF Graph!Reported
  <2>5. page \in SUBSET GraphMsg(w) BY DEF Graph!Reported
  <2> HIDE DEF Graph!Usable
  <2>6. graphRun' \in [pc: {"idle", "loaded", "folder"} \cup Graph(w)!CallingGraph, grant: Nat,
                prev: Graph(w)!Usable, locked: BOOLEAN, folders: SUBSET GraphFolder(w),
                folder: GraphFolder(w) \cup {Nowhere}, began: Nat, seen: SUBSET GraphMsg(w),
                items: SUBSET Graph(w)!Item, last: BOOLEAN]
    BY <2>1, <2>4, <2>5 DEF Graph!TypeOK
  <2> QED BY <1>4, <2>3, <2>6 DEF Graph!TypeOK, Graph!DeltaPage
<1>5. CASE Graph(w)!EndPage BY <1>5 DEF Graph!TypeOK, Graph!EndPage
<1>6. CASE Graph(w)!DeltaExpired BY <1>6 DEF Graph!TypeOK, Graph!DeltaExpired
<1>7. ASSUME NEW status \in Graph(w)!Status, Graph(w)!EndRun(status) PROVE Graph(w)!TypeOK'
  BY <1>7
     DEF Graph!TypeOK, Graph!EndRun, Graph!CommittedAccount, Graph!Applies, Graph!Status,
     Graph!Usable
<1>8. CASE Graph(w)!DeltaExpiredAgain BY <1>7, <1>8
           DEF Graph!DeltaExpiredAgain, Graph!Status, Graph!Usable
<1>9. CASE Graph(w)!Finish BY <1>7, <1>9 DEF Graph!Finish, Graph!Status, Graph!Usable
<1>10. ASSUME NEW f \in GraphFolder(w), Graph(w)!NextFolder(f) PROVE Graph(w)!TypeOK'
  BY <1>10 DEF Graph!TypeOK, Graph!NextFolder
<1>11. ASSUME NEW i \in graphRun.items, Graph(w)!SaveItem(i) \/ Graph(w)!ResolveRemoved(i)
       PROVE  Graph(w)!TypeOK'
  <2>1. i.msg \in GraphMsg(w) /\ i.version \in Nat /\ graphMailbox[i.msg] \in Nat
    BY DEF Graph!TypeOK, Graph!Item
  <2>a. PICK v \in Nat : graphTx' = [graphTx EXCEPT !.stored[i.msg] = v]
    BY <1>11, <2>1 DEF Graph!SaveItem, Graph!ResolveRemoved
  <2>b. graphTx \in [stored: [GraphMsg(w) -> Nat], cursor: [GraphFolder(w) -> Nat]]
    BY DEF Graph!TypeOK
  <2>c. graphTx' \in Graph(w)!Rows
    BY <2>1, <2>a, <2>b
  <2>2. graphTx' \in Graph(w)!Rows /\ graphRun' = [graphRun EXCEPT !.items = graphRun.items \ {i}]
    BY <1>11, <2>c DEF Graph!SaveItem, Graph!ResolveRemoved
  <2> QED BY <1>11, <2>2 DEF Graph!TypeOK, Graph!SaveItem, Graph!ResolveRemoved
<1>12. CASE Graph(w)!FailTransiently BY <1>7, <1>12
            DEF Graph!TypeOK, Graph!FailTransiently, Graph!Status, Graph!Usable
<1>13. CASE Graph(w)!Fail BY <1>7, <1>13 DEF Graph!Fail, Graph!Status, Graph!Usable
<1>14. CASE Graph(w)!RereadGrant BY <1>14 DEF Graph!TypeOK, Graph!RereadGrant
<1>15. CASE Graph(w)!RefreshToken BY <1>15
            DEF Graph!TypeOK, Graph!RefreshToken, Graph!CommittedAccount, Graph!Status, Graph!Usable
<1>16. CASE Graph(w)!Crash BY <1>16 DEF Graph!TypeOK, Graph!Crash
<1> QED BY <1>1, <1>2, <1>3, <1>4, <1>5, <1>6, <1>8, <1>9, <1>10, <1>11, <1>12, <1>13,
           <1>14, <1>15, <1>16 DEF Graph!Worker

\* A page moves messages from unread to its items; a removal it reports is no longer unreported.
LEMMA PageKeepsDebts ==
    ASSUME NEW w, LossInv(w), Graph(w)!DeltaPage
    PROVE  RowsAreOwed(w, graphDb)' /\ RowsAreOwed(w, graphTx)' /\ RunIsSound(w)'
           /\ RoundIsSound(w)'
<1> DEFINE f == graphRun.folder
           began == IF graphRun.began = Graph(w)!None THEN clock ELSE graphRun.began
           reported == Graph(w)!Reported(f, graphTx.cursor[f])
<1> USE DEF LossInv, Graph!None
<1>1. PICK page \in SUBSET reported, last \in BOOLEAN :
        /\ last => {m \in reported : touched[f][m] <= began} \subseteq graphRun.seen \cup page
        /\ graphRun' = [graphRun EXCEPT !.pc = "items", !.began = began, !.last = last,
                              !.seen = @ \cup page, !.items = {Graph(w)!ItemOf(f, m) : m \in page}]
  BY DEF Graph!DeltaPage
<1>2. UNCHANGED <<Graph(w)!graphVars, graphAccount, graphDb, graphTx>> /\ graphRun.pc = "delta"
      /\ f \in GraphFolder(w)
  BY DEF Graph!DeltaPage, RunIsSound
<1>3. unreported \subseteq unreported'
      /\ (graphTx.cursor[f] = Graph(w)!None /\ graphRun.began = Graph(w)!None =>
            \A m \in GraphMsg(w) : graphMailbox[m] = Graph(w)!None
              /\ touched[f][m] # Graph(w)!None => m \in unreported')
  BY DEF Graph!DeltaPage
<1>4. /\ graphRun'.pc = "items" /\ graphRun'.began = began /\ graphRun'.folder = f
      /\ graphRun'.last = last
      /\ graphRun'.seen = graphRun.seen \cup page
      /\ graphRun'.items = {Graph(w)!ItemOf(f, m) : m \in page}
      /\ graphRun'.locked = graphRun.locked /\ graphRun'.grant = graphRun.grant
  BY <1>1 DEF Graph!TypeOK
<1>5. began \in Nat /\ began > 0 /\ began <= clock /\ graphTx.cursor[f] <= began
      /\ graphTx.cursor[f] \in Nat
  BY <1>2 DEF Graph!TypeOK, Graph!Rows, MailboxIsSound, RoundIsSound, Round, RowsAreOwed
<1>7. RowsAreOwed(w, graphDb)' /\ RowsAreOwed(w, graphTx)'
  BY <1>2, <1>3 DEF RowsAreOwed, Graph!Owed, Graph!Pending, Graph!graphVars
<1>8. RunIsSound(w)'
  BY <1>2, <1>4, <1>5 DEF RunIsSound
<1>9. RoundIsSound(w)'
  <2> DEFINE after == [graphTx EXCEPT !.cursor[f] = began]
  <2>1. /\ AfterRound(w)' = after /\ after \in Graph(w)!Rows
        /\ \A g \in GraphFolder(w) : after.cursor[g] = IF g = f THEN began ELSE graphTx.cursor[g]
    BY <1>5, <1>2, <1>4 DEF AfterRound, Graph!TypeOK, Graph!Rows
  <2>2. \A i \in graphRun'.items : i.version \in {Graph(w)!None, graphMailbox'[i.msg]}
    BY <1>2, <1>4 DEF Graph!ItemOf, Graph!graphVars
  <2>3. \A m \in page : \E i \in graphRun'.items : i.msg = m
    <3>1. \A m \in page : Graph(w)!ItemOf(f, m) \in graphRun'.items BY <1>4
    <3> QED BY <3>1 DEF Graph!ItemOf
  <2>4. \A m \in GraphMsg(w) : m \in Unread(w)' <=> m \in reported /\ touched[f][m] <= began
        /\ m \notin graphRun.seen /\ m \notin page
    BY <1>2, <1>4 DEF Unread, Graph!Reported, Graph!graphVars
  <2>5. ASSUME NEW m \in GraphMsg(w), graphTx.stored[m] # graphMailbox[m], m \notin Unread(w)',
               m \notin page
        PROVE  Graph(w)!Owed(AfterRound(w), m)'
    <3> HIDE DEF after
    <3>1. CASE graphRun.began # Graph(w)!None
      <4>1. m \in Unread(w) \/ Graph(w)!Owed(AfterRound(w), m)
        BY <1>2, <2>5, <3>1 DEF RoundIsSound, Round, RunIsSound
      <4>2. m \notin Unread(w)
        BY <2>4, <2>5, <3>1 DEF Unread, Graph!Reported
      <4>3. AfterRound(w) = after BY <3>1 DEF AfterRound, after
      <4> QED BY <1>2, <1>3, <2>1, <4>1, <4>2, <4>3 DEF Graph!Owed, Graph!Pending, Graph!graphVars
    <3>2. CASE graphRun.began = Graph(w)!None /\ graphMailbox[m] # Graph(w)!None
      <4>1. Graph(w)!Pending(graphTx, place[m], m) /\ place[m] \in GraphFolder(w)
        BY <2>5, <3>2 DEF RowsAreOwed, Graph!Owed, MailboxIsSound, Graph!TypeOK
      <4>2. place[m] # f
        BY <1>2, <2>4, <2>5, <3>2, <4>1
           DEF Graph!Pending, Graph!Reported, MailboxIsSound, RunIsSound
      <4> QED BY <1>2, <3>2, <2>1, <4>1, <4>2 DEF Graph!Owed, Graph!Pending, Graph!graphVars
    <3>3. CASE graphRun.began = Graph(w)!None /\ graphMailbox[m] = Graph(w)!None
      <4>1. Graph(w)!Owed(graphTx, m) BY <2>5, <3>3 DEF RowsAreOwed
      <4>2. CASE m \in unreported BY <1>2, <1>3, <3>3, <4>2 DEF Graph!Owed, Graph!graphVars
      <4>3. ASSUME NEW g \in GraphFolder(w), Graph(w)!Pending(graphTx, g, m), g # f
            PROVE  Graph(w)!Owed(AfterRound(w), m)'
        BY <1>2, <3>3, <2>1, <4>3 DEF Graph!Owed, Graph!Pending, Graph!graphVars
      <4>4. CASE Graph(w)!Pending(graphTx, f, m)
        <5>1. touched[f][m] > graphTx.cursor[f] /\ touched[f][m] # Graph(w)!None
              /\ touched[f][m] <= began
          BY <1>2, <1>5, <3>3, <4>4 DEF Graph!Pending, Graph!TypeOK, MailboxIsSound
        <5>2. graphTx.cursor[f] = Graph(w)!None
          BY <1>2, <2>4, <2>5, <3>3, <5>1 DEF Graph!Reported, RunIsSound
        <5> QED BY <1>2, <1>3, <3>3, <5>1, <5>2 DEF Graph!Owed, Graph!graphVars
      <4> QED BY <3>3, <4>1, <4>2, <4>3, <4>4 DEF Graph!Owed
    <3> QED BY <3>1, <3>2, <3>3
  <2>6. last => Unread(w)' = {}
    BY <1>1, <1>2, <1>4 DEF Unread, Graph!Reported, Graph!graphVars
  <2> QED BY <1>2, <1>4, <1>5, <2>1, <2>2, <2>3, <2>5, <2>6 DEF RoundIsSound, Graph!graphVars
<1> QED BY <1>7, <1>8, <1>9

\* An item saved, or a removal resolved by a lookup, makes the copy current or leaves it owed.
LEMMA ItemKeepsDebts ==
    ASSUME NEW w, LossInv(w), NEW i \in graphRun.items, Graph(w)!SaveItem(i)
           \/ Graph(w)!ResolveRemoved(i)
    PROVE  RowsAreOwed(w, graphDb)' /\ RowsAreOwed(w, graphTx)' /\ RunIsSound(w)'
           /\ RoundIsSound(w)'
<1> DEFINE v == IF i.version = Graph(w)!None THEN graphMailbox[i.msg] ELSE i.version
<1> USE DEF LossInv
<1>1. /\ graphRun.pc = "items" /\ graphTx' = [graphTx EXCEPT !.stored[i.msg] = v]
      /\ graphRun' = [graphRun EXCEPT !.items = @ \ {i}]
      /\ UNCHANGED <<Graph(w)!graphVars, unreported, graphAccount, graphDb>>
  BY DEF Graph!SaveItem, Graph!ResolveRemoved
<1>2. i.msg \in GraphMsg(w) /\ graphRun.folder \in GraphFolder(w) /\ graphRun.began # Graph(w)!None
      /\ graphRun.began \in Nat /\ Round(w)
  BY <1>1 DEF Graph!TypeOK, Graph!Item, RunIsSound, Round
<1>3. /\ graphTx'.cursor = graphTx.cursor /\ graphTx'.cursor \in [GraphFolder(w) -> Nat]
      /\ \A m \in GraphMsg(w) : graphTx'.stored[m] = IF m = i.msg THEN v ELSE graphTx.stored[m]
  BY <1>1, <1>2 DEF Graph!TypeOK, Graph!Rows
<1>4. /\ graphRun'.pc = "items" /\ graphRun'.began = graphRun.began
      /\ graphRun'.folder = graphRun.folder
      /\ graphRun'.seen = graphRun.seen /\ graphRun'.last = graphRun.last
      /\ graphRun'.items = graphRun.items \ {i}
      /\ graphRun'.locked = graphRun.locked /\ graphRun'.grant = graphRun.grant
  BY <1>1 DEF Graph!TypeOK
<1>5. /\ AfterRound(w)'.cursor = AfterRound(w).cursor
      /\ \A f \in GraphFolder(w) : AfterRound(w).cursor[f] = IF f =
           graphRun.folder THEN graphRun.began ELSE graphTx.cursor[f]
  BY <1>2, <1>3, <1>4 DEF AfterRound, Graph!TypeOK, Graph!Rows
<1>6. v = graphMailbox[i.msg] \/ Graph(w)!Owed(AfterRound(w), i.msg)
  BY <1>2 DEF RoundIsSound
<1>7. \A m \in GraphMsg(w) : /\ Graph(w)!Owed(AfterRound(w), m) =>
                                Graph(w)!Owed(AfterRound(w), m)' /\ Graph(w)!Owed(graphTx, m)'
                             /\ Graph(w)!Owed(graphTx, m) => Graph(w)!Owed(graphTx, m)'
  <2>1. graphTx.cursor[graphRun.folder] <= graphRun.began
        /\ graphTx.cursor \in [GraphFolder(w) -> Nat]
    BY <1>2 DEF RoundIsSound, Graph!TypeOK, Graph!Rows
  <2>2. \A f \in GraphFolder(w), m \in GraphMsg(w) :
           /\ Graph(w)!Pending(AfterRound(w), f, m) =>
                Graph(w)!Pending(AfterRound(w), f, m)' /\ Graph(w)!Pending(graphTx, f, m)'
           /\ Graph(w)!Pending(graphTx, f, m) => Graph(w)!Pending(graphTx, f, m)'
    BY <1>1, <1>2, <1>3, <1>5, <2>1 DEF Graph!Pending, Graph!graphVars, Graph!TypeOK
  <2>3. \A m \in GraphMsg(w) : graphMailbox[m] # Graph(w)!None => place[m] \in GraphFolder(w)
    BY DEF MailboxIsSound, Graph!TypeOK
  <2> QED BY <1>1, <2>2, <2>3 DEF Graph!Owed, Graph!graphVars
<1>8. RowsAreOwed(w, graphTx)'
  BY <1>1, <1>2, <1>3, <1>6, <1>7 DEF RowsAreOwed, Graph!graphVars
<1>9. RowsAreOwed(w, graphDb)'
  BY <1>1 DEF RowsAreOwed, Graph!Owed, Graph!Pending, Graph!graphVars
<1>10. RunIsSound(w)'
  BY <1>1, <1>2, <1>4 DEF RunIsSound
<1>11. RoundIsSound(w)'
  <2>1. Unread(w)' = Unread(w) BY <1>1, <1>3, <1>4 DEF Unread, Graph!Reported, Graph!graphVars
  <2>2. \A j \in graphRun'.items : j.msg \in GraphMsg(w) BY <1>4 DEF Graph!TypeOK, Graph!Item
  <2>3. \A j \in graphRun'.items : j.version \in {Graph(w)!None, graphMailbox'[j.msg]}
        \/ Graph(w)!Owed(AfterRound(w), j.msg)'
    BY <1>1, <1>2, <1>4, <1>7, <2>2 DEF RoundIsSound, Graph!graphVars
  <2>4. \A m \in GraphMsg(w) : graphTx'.stored[m] # graphMailbox'[m] =>
              m \in Unread(w)' \/ (\E j \in graphRun'.items : j.msg = m)
                \/ Graph(w)!Owed(AfterRound(w), m)'
    BY <1>1, <1>2, <1>3, <1>4, <1>6, <1>7, <2>1 DEF RoundIsSound, Graph!graphVars
  <2> QED BY <1>1, <1>2, <1>3, <1>4, <2>1, <2>3, <2>4 DEF RoundIsSound, Graph!graphVars
<1> QED BY <1>8, <1>9, <1>10, <1>11

\* The page with the delta link moves the cursor, and nothing of the round is left to do.
LEMMA EndOfPageKeepsDebts ==
    ASSUME NEW w, LossInv(w), Graph(w)!EndPage
    PROVE  RowsAreOwed(w, graphDb)' /\ RowsAreOwed(w, graphTx)' /\ RunIsSound(w)'
           /\ RoundIsSound(w)'
<1> USE DEF LossInv
<1>1. /\ graphRun.pc = "items" /\ graphRun.items = {} /\ Round(w)
      /\ graphRun.folder \in GraphFolder(w)
      /\ graphRun.began \in Nat /\ graphRun.began <= clock
      /\ UNCHANGED <<Graph(w)!graphVars, unreported, graphAccount, graphDb>>
  BY DEF Graph!EndPage, RunIsSound, RoundIsSound, Round, Graph!TypeOK
<1>2. RowsAreOwed(w, graphDb)'
  BY <1>1 DEF RowsAreOwed, Graph!Owed, Graph!Pending, Graph!graphVars
<1>3. CASE graphRun.last
  <2>1. graphTx' = AfterRound(w)
        /\ graphRun' = [graphRun EXCEPT !.pc = "folder", !.folders = @ \ {graphRun.folder}]
    BY <1>3 DEF Graph!EndPage, AfterRound
  <2>2. graphRun'.pc = "folder" /\ graphRun'.items = {} /\ graphRun'.locked = graphRun.locked
        /\ graphRun'.grant = graphRun.grant
    BY <1>1, <2>1 DEF Graph!TypeOK
  <2>3. \A m \in GraphMsg(w) : graphTx.stored[m] # graphMailbox[m] =>
        Graph(w)!Owed(AfterRound(w), m)
    BY <1>1, <1>3 DEF RoundIsSound
  <2>4. /\ AfterRound(w).stored = graphTx.stored
        /\ \A f \in GraphFolder(w) : AfterRound(w).cursor[f] <= clock
    BY <1>1 DEF AfterRound, Graph!TypeOK, Graph!Rows, RowsAreOwed
  <2>5. RowsAreOwed(w, graphTx)'
    BY <1>1, <2>1, <2>3, <2>4 DEF RowsAreOwed, Graph!Owed, Graph!Pending, Graph!graphVars
  <2> QED BY <1>1, <1>2, <2>2, <2>5 DEF RunIsSound, RoundIsSound, Round
<1>4. CASE ~graphRun.last
  <2>1. graphTx' = graphTx /\ graphRun' = [graphRun EXCEPT !.pc = "delta"]
    BY <1>4 DEF Graph!EndPage
  <2>2. /\ graphRun'.pc = "delta" /\ graphRun'.items = {} /\ graphRun'.locked = graphRun.locked
        /\ graphRun'.grant = graphRun.grant
        /\ graphRun'.began = graphRun.began /\ graphRun'.folder = graphRun.folder
        /\ graphRun'.seen = graphRun.seen
    BY <1>1, <2>1 DEF Graph!TypeOK
  <2>3. RowsAreOwed(w, graphTx)'
    BY <1>1, <2>1 DEF RowsAreOwed, Graph!Owed, Graph!Pending, Graph!graphVars
  <2>4. RunIsSound(w)' BY <1>1, <2>2 DEF RunIsSound
  <2>5. AfterRound(w)' = AfterRound(w) /\ Unread(w)' = Unread(w)
    BY <1>1, <2>1, <2>2 DEF AfterRound, Unread, Graph!Reported, Graph!graphVars
  <2>6. \A m \in GraphMsg(w) : Graph(w)!Owed(AfterRound(w), m) => Graph(w)!Owed(AfterRound(w), m)'
    BY <1>1, <2>5 DEF Graph!Owed, Graph!Pending, Graph!graphVars
  <2> QED BY <1>1, <1>2, <2>1, <2>2, <2>3, <2>4, <2>5, <2>6 DEF RoundIsSound, Graph!graphVars
<1> QED BY <1>3, <1>4

\* No step of the worker loses a change, those that commit or roll back in the middle included.
LEMMA WorkerKeepsDebts ==
    ASSUME NEW w, LossInv(w), Graph(w)!Worker \/ Graph(w)!FailTransiently \/ Graph(w)!Fail
           \/ Graph(w)!RereadGrant \/ Graph(w)!RefreshToken \/ Graph(w)!Crash
    PROVE  MailboxIsSound(w)' /\ RowsAreOwed(w, graphDb)' /\ RowsAreOwed(w, graphTx)'
           /\ RunIsSound(w)' /\ RoundIsSound(w)'
<1> USE DEF LossInv, Graph!graphVars, Graph!IdleRun, Graph!CallingGraph, Graph!None
<1>a. Graph(w)!TypeOK' BY WorkerType
<1>b. UNCHANGED Graph(w)!graphVars
  BY DEF Graph!Worker, Graph!Load, Graph!Start, Graph!ListFolders, Graph!DeltaPage, Graph!EndPage,
     Graph!DeltaExpired, Graph!DeltaExpiredAgain,
         Graph!Finish, Graph!NextFolder, Graph!SaveItem, Graph!ResolveRemoved,
           Graph!FailTransiently, Graph!Fail, Graph!EndRun, Graph!RereadGrant,
         Graph!RefreshToken, Graph!Crash
<1>c. MailboxIsSound(w)' BY <1>b DEF MailboxIsSound
<1>d. ASSUME graphDb' \in {graphDb, graphTx}, graphTx' \in {graphDb, graphTx},
             unreported' = unreported
      PROVE  RowsAreOwed(w, graphDb)' /\ RowsAreOwed(w, graphTx)'
  BY <1>b, <1>d DEF RowsAreOwed, Graph!Owed, Graph!Pending
<1>e. ASSUME ~Round(w)' PROVE RoundIsSound(w)'
  BY <1>e DEF RoundIsSound
<1>1. CASE Graph(w)!Load BY <1>1, <1>a, <1>c, <1>d, <1>e DEF Graph!Load, RunIsSound, Round
<1>2. CASE Graph(w)!Start
  <2>1. graphRun' = Graph(w)!IdleRun \/ (Graph(w)!Applies("syncing")
        /\ graphRun' = [graphRun EXCEPT !.pc = "listing", !.locked = TRUE])
    BY <1>2 DEF Graph!Start
  <2>2. graphDb' = graphDb /\ graphTx' = graphTx /\ unreported' = unreported
        /\ graphAccount' = graphAccount
    BY <1>2 DEF Graph!Start
  <2>3. RunIsSound(w)'
    BY <1>2, <2>1, <2>2 DEF RunIsSound, Graph!Applies, Graph!TypeOK, Graph!Start
  <2>4. ~Round(w)'
    <3>1. CASE graphRun' = Graph(w)!IdleRun BY <3>1 DEF Round
    <3>2. CASE graphRun' = [graphRun EXCEPT !.pc = "listing", !.locked = TRUE]
      <4>1. graphRun'.pc = "listing" BY <3>2 DEF Graph!TypeOK
      <4> QED BY <4>1 DEF Round
    <3> QED BY <2>1, <3>1, <3>2
  <2> QED BY <1>a, <1>c, <1>d, <1>e, <2>2, <2>3, <2>4
<1>3. CASE Graph(w)!ListFolders BY <1>3, <1>a, <1>c, <1>d, <1>e
           DEF Graph!ListFolders, RunIsSound, Round, Graph!TypeOK
<1>4. CASE Graph(w)!DeltaPage BY <1>4, <1>c, PageKeepsDebts
<1>5. CASE Graph(w)!EndPage BY <1>5, <1>c, EndOfPageKeepsDebts
<1>6. CASE Graph(w)!DeltaExpired
  <2>1. /\ graphTx' = [graphTx EXCEPT !.cursor[graphRun.folder] = Graph(w)!None]
        /\ graphRun.pc = "delta"
        /\ graphRun' = [graphRun EXCEPT !.began = Graph(w)!None, !.seen = {}]
        /\ UNCHANGED <<Graph(w)!graphVars, unreported, graphAccount, graphDb>>
    BY <1>6 DEF Graph!DeltaExpired
  <2>2. graphRun'.began = Graph(w)!None /\ graphRun'.seen = {} /\ graphRun'.pc = "delta"
        /\ graphRun'.folder = graphRun.folder
        /\ graphRun'.items = graphRun.items /\ graphRun'.locked = graphRun.locked
        /\ graphRun'.grant = graphRun.grant
    BY <2>1 DEF Graph!TypeOK
  <2>3. /\ graphTx'.stored = graphTx.stored
        /\ \A f \in GraphFolder(w) : graphTx'.cursor[f] = IF f =
             graphRun.folder THEN Graph(w)!None ELSE graphTx.cursor[f]
    BY <2>1 DEF Graph!TypeOK, Graph!Rows
  <2>4. \A f \in GraphFolder(w) : graphTx'.cursor[f] <= graphTx.cursor[f]
        /\ graphTx'.cursor[f] <= clock
    BY <2>3 DEF Graph!TypeOK, Graph!Rows, RowsAreOwed
  <2>5. \A f \in GraphFolder(w), m \in GraphMsg(w) : Graph(w)!Pending(graphTx, f, m) =>
        Graph(w)!Pending(graphTx, f, m)'
    <3>1. \A f \in GraphFolder(w), m \in GraphMsg(w) :
             graphTx.cursor[f] \in Nat /\ graphTx'.cursor[f] \in Nat /\ touched[f][m] \in Nat
      BY <1>a DEF Graph!TypeOK, Graph!Rows
    <3> QED BY <2>1, <2>4, <3>1 DEF Graph!Pending, Graph!graphVars
  <2>6. RowsAreOwed(w, graphTx)'
    <3>1. \A m \in GraphMsg(w) : graphMailbox[m] # Graph(w)!None => place[m] \in GraphFolder(w)
      BY DEF MailboxIsSound, Graph!TypeOK
    <3>2. \A m \in GraphMsg(w) : Graph(w)!Owed(graphTx, m) => Graph(w)!Owed(graphTx, m)'
      BY <2>1, <2>5, <3>1 DEF Graph!Owed, Graph!graphVars
    <3> QED BY <2>1, <2>3, <2>4, <3>2 DEF RowsAreOwed, Graph!graphVars
  <2>7. RowsAreOwed(w, graphDb)' BY <2>1 DEF RowsAreOwed, Graph!Owed, Graph!Pending, Graph!graphVars
  <2> QED BY <1>c, <1>e, <2>1, <2>2, <2>6, <2>7 DEF RunIsSound, Round
<1>7. ASSUME NEW status, Graph(w)!EndRun(status)
      PROVE RowsAreOwed(w, graphDb)' /\ RowsAreOwed(w, graphTx)' /\ RunIsSound(w)'
        /\ RoundIsSound(w)'
  BY <1>7, <1>a, <1>d, <1>e DEF Graph!EndRun, RunIsSound, Round
<1>8. CASE Graph(w)!DeltaExpiredAgain BY <1>c, <1>7, <1>8 DEF Graph!DeltaExpiredAgain
<1>9. CASE Graph(w)!Finish BY <1>c, <1>7, <1>9 DEF Graph!Finish
<1>10. ASSUME NEW f \in GraphFolder(w), Graph(w)!NextFolder(f)
       PROVE RowsAreOwed(w, graphDb)' /\ RowsAreOwed(w, graphTx)' /\ RunIsSound(w)'
         /\ RoundIsSound(w)'
  BY <1>10, <1>a, <1>d, <1>e DEF Graph!NextFolder, RunIsSound, Round, Graph!TypeOK
<1>11. ASSUME NEW i \in graphRun.items, Graph(w)!SaveItem(i) \/ Graph(w)!ResolveRemoved(i)
       PROVE RowsAreOwed(w, graphDb)' /\ RowsAreOwed(w, graphTx)' /\ RunIsSound(w)'
         /\ RoundIsSound(w)'
  BY <1>11, ItemKeepsDebts
<1>12. CASE Graph(w)!FailTransiently BY <1>c, <1>7, <1>12 DEF Graph!FailTransiently
<1>13. CASE Graph(w)!Fail BY <1>c, <1>7, <1>13 DEF Graph!Fail
<1>14. ASSUME Graph(w)!RereadGrant \/ Graph(w)!RefreshToken
       PROVE RowsAreOwed(w, graphDb)' /\ RowsAreOwed(w, graphTx)' /\ RunIsSound(w)'
         /\ RoundIsSound(w)'
  <2>1. /\ graphTx' = graphTx /\ graphDb' \in {graphDb, graphTx} /\ unreported' = unreported
        /\ graphAccount'.grant = graphAccount.grant
    BY <1>14 DEF Graph!RereadGrant, Graph!RefreshToken, Graph!CommittedAccount, Graph!TypeOK
  <2>2. \E locked \in {graphRun.locked, FALSE} :
           graphRun' = [graphRun EXCEPT !.grant = graphAccount.grant, !.locked = locked]
    BY <1>14 DEF Graph!RereadGrant, Graph!RefreshToken, Graph!TypeOK
  <2>3. /\ graphRun'.grant = graphAccount.grant /\ graphRun'.pc = graphRun.pc
        /\ graphRun'.began = graphRun.began
        /\ graphRun'.folder = graphRun.folder /\ graphRun'.items = graphRun.items
        /\ graphRun'.seen = graphRun.seen
        /\ graphRun'.last = graphRun.last
    BY <2>2 DEF Graph!TypeOK
  <2>4. RunIsSound(w)' BY <2>1, <2>3 DEF RunIsSound
  <2>5. AfterRound(w)' = AfterRound(w) /\ Unread(w)' = Unread(w) /\ Round(w)' = Round(w)
    BY <1>b, <2>1, <2>3 DEF AfterRound, Unread, Graph!Reported, Round
  <2>6. \A m \in GraphMsg(w) : Graph(w)!Owed(AfterRound(w), m) => Graph(w)!Owed(AfterRound(w), m)'
    BY <1>b, <2>1, <2>5 DEF Graph!Owed, Graph!Pending
  <2>7. \A i \in graphRun.items : i.msg \in GraphMsg(w) BY DEF Graph!TypeOK, Graph!Item
  <2>8. RoundIsSound(w)'
    BY <1>b, <2>1, <2>3, <2>5, <2>6, <2>7 DEF RoundIsSound
  <2> QED BY <1>d, <2>1, <2>4, <2>8
<1>16. CASE Graph(w)!Crash BY <1>16, <1>a, <1>c, <1>d, <1>e DEF Graph!Crash, RunIsSound, Round
<1> QED BY <1>1, <1>2, <1>3, <1>4, <1>5, <1>6, <1>8, <1>9, <1>10, <1>11, <1>12, <1>13,
           <1>14, <1>16, <1>c DEF Graph!Worker

\* The user's actions leave the rows and the round alone, and wait for the row's lock.
LEMMA UserKeepsDebts ==
    ASSUME NEW w, LossInv(w), Graph(w)!User
    PROVE  MailboxIsSound(w)' /\ RowsAreOwed(w, graphDb)' /\ RowsAreOwed(w, graphTx)'
           /\ RunIsSound(w)' /\ RoundIsSound(w)'
<1>1. UNCHANGED <<Graph(w)!graphVars, unreported, graphDb, graphTx, graphRun>> /\ ~graphRun.locked
  BY DEF Graph!User, Graph!Reconnect, Graph!Pause, Graph!Resume, Graph!SetAccount
<1> USE DEF LossInv, Graph!graphVars
<1>2. MailboxIsSound(w)' BY <1>1 DEF MailboxIsSound
<1>3. RowsAreOwed(w, graphDb)' /\ RowsAreOwed(w, graphTx)' BY <1>1
      DEF RowsAreOwed, Graph!Owed, Graph!Pending
<1>4. RunIsSound(w)' BY <1>1 DEF RunIsSound
<1>5. AfterRound(w)' = AfterRound(w) /\ Unread(w)' = Unread(w) /\ Round(w)' = Round(w)
  BY <1>1 DEF AfterRound, Unread, Graph!Reported, Round
<1>6. RoundIsSound(w)'
  BY <1>1, <1>5 DEF RoundIsSound, Graph!Owed, Graph!Pending
<1> QED BY <1>2, <1>3, <1>4, <1>6

\* A step of MicrosoftSync keeps its inductive invariant, for every set of messages and folders.
LEMMA GraphKeepsInv ==
    ASSUME NEW w, Nowhere \notin GraphFolder(w), LossInv(w), [Graph(w)!Next]_(Graph(w)!vars)
    PROVE  LossInv(w)'
<1>1. CASE Graph(w)!Graph
  BY <1>1, GraphType, GraphSound, GraphKeepsDebts, GraphKeepsRound DEF LossInv
<1>2. CASE Graph(w)!User BY <1>2, UserType, UserKeepsDebts DEF LossInv
<1>3. CASE Graph(w)!Worker \/ Graph(w)!FailTransiently \/ Graph(w)!Fail \/ Graph(w)!RereadGrant
           \/ Graph(w)!RefreshToken \/ Graph(w)!Crash
  BY <1>3, WorkerType, WorkerKeepsDebts DEF LossInv
<1>4. CASE UNCHANGED Graph(w)!vars
  BY <1>4
     DEF LossInv, Graph!vars, Graph!TypeOK, MailboxIsSound, RowsAreOwed, RunIsSound, RoundIsSound,
                    Round, Unread, AfterRound, Graph!Reported, Graph!Owed, Graph!Pending
<1> QED BY <1>1, <1>2, <1>3, <1>4 DEF Graph!Next

\* A run overtaken by a new consent leaves the account's row alone.
LEMMA GraphLeavesAccount ==
    ASSUME NEW w, LossInv(w), Graph(w)!Next
    PROVE  Graph(w)!LeavesAccount
<1> SUFFICES ASSUME graphRun.pc # "idle", graphRun.grant # graphAccount.grant, ~Graph(w)!User
             PROVE  graphAccount' = graphAccount
  BY DEF Graph!LeavesAccount
<1>1. ~graphRun.locked BY DEF LossInv, RunIsSound
<1>2. \A status : ~Graph(w)!Applies(status) BY DEF Graph!Applies
<1>3. Graph(w)!CommittedAccount = graphAccount BY <1>1 DEF Graph!CommittedAccount
<1> QED BY <1>2, <1>3
           DEF Graph!Next, Graph!Graph, Graph!Arrive, Graph!Move, Graph!Remove, Graph!CreateFolder,
           Graph!DeleteFolder, Graph!ExpireLinks,
        Graph!Change, Graph!Worker, Graph!Load, Graph!Start, Graph!ListFolders, Graph!DeltaPage,
          Graph!EndPage, Graph!DeltaExpired, Graph!DeltaExpiredAgain,
        Graph!Finish, Graph!NextFolder, Graph!SaveItem, Graph!ResolveRemoved, Graph!FailTransiently,
          Graph!Fail, Graph!EndRun, Graph!RereadGrant,
        Graph!RefreshToken, Graph!Crash

-----------------------------------------------------------------------------
(* The copy is a mirror *)

\* A change of the mailbox is later than every earlier one, and what is removed for good stays so.
LEMMA GraphVersionsGrow ==
    ASSUME NEW w, Nowhere \notin GraphFolder(w), Graph(w)!TypeOK, MailboxIsSound(w), Graph(w)!Graph
    PROVE  /\ \/ clock' = clock + 1
              \/ clock' = clock /\ graphMailbox' = graphMailbox
           /\ \A m \in GraphMsg(w) : /\ Graph(w)!Arrived(m) => Graph(w)!Arrived(m)'
                                     /\ \/ graphMailbox'[m] \in {graphMailbox[m], Graph(w)!None}
                                        \/ graphMailbox'[m] = clock'
                                             /\ (graphMailbox[m] # Graph(w)!None
                                             \/ ~Graph(w)!Arrived(m))
<1> USE DEF Graph!TypeOK, MailboxIsSound, Graph!Change, Graph!None
<1>1. ASSUME NEW n \in GraphMsg(w), NEW g \in Graph(w)!There, Graph(w)!Arrive(n, g)
             \/ Graph(w)!Move(n, g)
      PROVE /\ clock' = clock + 1
            /\ \A m \in GraphMsg(w) : /\ Graph(w)!Arrived(m) => Graph(w)!Arrived(m)'
                                      /\ \/ graphMailbox'[m] \in {graphMailbox[m], Graph(w)!None}
                                         \/ graphMailbox'[m] = clock'
                                              /\ (graphMailbox[m] # Graph(w)!None
                                              \/ ~Graph(w)!Arrived(m))
  BY <1>1 DEF Graph!Arrive, Graph!Move, Graph!There, Graph!Arrived
<1>2. ASSUME NEW n \in GraphMsg(w), Graph(w)!Remove(n)
      PROVE /\ clock' = clock + 1
            /\ \A m \in GraphMsg(w) : (Graph(w)!Arrived(m) =>
                 Graph(w)!Arrived(m)') /\ graphMailbox'[m] \in {graphMailbox[m], Graph(w)!None}
  BY <1>2 DEF Graph!Remove, Graph!Arrived
<1>3. ASSUME NEW g \in GraphFolder(w), Graph(w)!DeleteFolder(g)
      PROVE /\ clock' = clock + 1
            /\ \A m \in GraphMsg(w) : (Graph(w)!Arrived(m) =>
                 Graph(w)!Arrived(m)') /\ graphMailbox'[m] \in {graphMailbox[m], Graph(w)!None}
  BY <1>3 DEF Graph!DeleteFolder, Graph!There, Graph!Arrived
<1>4. ASSUME NEW g \in GraphFolder(w), Graph(w)!CreateFolder(g) \/ Graph(w)!ExpireLinks
      PROVE UNCHANGED <<clock, graphMailbox, touched>>
  BY <1>4 DEF Graph!CreateFolder, Graph!ExpireLinks
<1>5. CASE Graph(w)!ExpireLinks BY <1>5 DEF Graph!ExpireLinks, Graph!Arrived
<1> QED BY <1>1, <1>2, <1>3, <1>4, <1>5 DEF Graph!Graph, Graph!Arrived

\* So it leaves every version copied, or about to be, an earlier one.
LEMMA GraphKeepsForward ==
    ASSUME NEW w, Nowhere \notin GraphFolder(w), MirrorInv(w), Graph(w)!Graph
    PROVE  GraphCopiesAreForward(w)' /\ ItemsAreForward(w)'
<1>1. graphDb' = graphDb /\ graphTx' = graphTx /\ graphRun' = graphRun
  BY DEF Graph!Graph, Graph!Arrive, Graph!Move, Graph!Remove, Graph!CreateFolder,
     Graph!DeleteFolder, Graph!ExpireLinks, Graph!Change, Graph!There
<1>2. clock \in Nat /\ clock' \in Nat /\ clock <= clock'
      /\ \A m \in GraphMsg(w) : graphMailbox[m] \in Nat /\ graphMailbox'[m] \in Nat
  BY GraphVersionsGrow, GraphType DEF MirrorInv, LossInv, Graph!TypeOK
<1>3. ASSUME NEW m \in GraphMsg(w), NEW v \in Nat, GraphEarlier(w, m, v), v # Graph(w)!None =>
             Graph(w)!Arrived(m)
      PROVE  GraphEarlier(w, m, v)' /\ (v # Graph(w)!None => Graph(w)!Arrived(m)')
  BY <1>2, <1>3, GraphVersionsGrow DEF GraphEarlier, MirrorInv, LossInv, Graph!None
<1>4. GraphCopiesAreForward(w)'
  <2> SUFFICES ASSUME NEW m \in GraphMsg(w)
      PROVE  /\ graphDb.stored[m] # Graph(w)!None \/ graphTx.stored[m] # Graph(w)!None =>
                Graph(w)!Arrived(m)'
             /\ GraphEarlier(w, m, graphDb.stored[m])' /\ GraphEarlier(w, m, graphTx.stored[m])'
             /\ \/ graphTx.stored[m] = Graph(w)!None /\ graphMailbox'[m] = Graph(w)!None
                \/ graphTx.stored[m] >= graphDb.stored[m]
    BY <1>1 DEF GraphCopiesAreForward
  <2>1. graphDb.stored[m] \in Nat /\ graphTx.stored[m] \in Nat
    BY DEF MirrorInv, LossInv, Graph!TypeOK, Graph!Rows
  <2>2. /\ graphDb.stored[m] # Graph(w)!None \/ graphTx.stored[m] # Graph(w)!None =>
           Graph(w)!Arrived(m)'
        /\ GraphEarlier(w, m, graphDb.stored[m])' /\ GraphEarlier(w, m, graphTx.stored[m])'
    BY <1>1, <1>3, <2>1, GraphVersionsGrow
       DEF MirrorInv, LossInv, GraphCopiesAreForward, GraphEarlier, Graph!Arrived
  <2>3. (graphTx.stored[m] = Graph(w)!None /\ graphMailbox'[m] = Graph(w)!None)
        \/ graphTx.stored[m] >= graphDb.stored[m]
    BY <2>1, GraphVersionsGrow DEF MirrorInv, LossInv, GraphCopiesAreForward, Graph!None
  <2> QED BY <2>2, <2>3
<1>5. ItemsAreForward(w)'
  <2>1. \A i \in graphRun.items : i.msg \in GraphMsg(w) /\ i.version \in Nat
    BY DEF MirrorInv, LossInv, Graph!TypeOK, Graph!Item
  <2>2. \A m \in GraphMsg(w), v \in Nat : GraphEarlier(w, m, v) /\ (v # Graph(w)!None =>
        Graph(w)!Arrived(m)) =>
           v <= clock' /\ (graphMailbox'[m] # Graph(w)!None =>
             v <= graphMailbox'[m]) /\ (v # Graph(w)!None => Graph(w)!Arrived(m)')
    BY <1>3 DEF GraphEarlier
  <2> QED BY <1>1, <2>1, <2>2 DEF MirrorInv, ItemsAreForward, GraphEarlier
<1> QED BY <1>4, <1>5

\* A page's items are the mailbox's versions now, no older than any copy; saving one moves the open
\* transaction forward, a commit the committed rows, and a crash forgets what was not committed.
LEMMA WorkerKeepsForward ==
    ASSUME NEW w, MirrorInv(w), Graph(w)!Worker \/ Graph(w)!FailTransiently \/ Graph(w)!Fail
           \/ Graph(w)!RereadGrant \/ Graph(w)!RefreshToken \/ Graph(w)!Crash
    PROVE  GraphCopiesAreForward(w)' /\ ItemsAreForward(w)'
<1> USE DEF MirrorInv, Graph!graphVars
<1>a. UNCHANGED Graph(w)!graphVars
  BY DEF Graph!Worker, Graph!Load, Graph!Start, Graph!ListFolders, Graph!DeltaPage, Graph!EndPage,
     Graph!DeltaExpired, Graph!DeltaExpiredAgain,
         Graph!Finish, Graph!NextFolder, Graph!SaveItem, Graph!ResolveRemoved,
           Graph!FailTransiently, Graph!Fail, Graph!EndRun, Graph!RereadGrant,
         Graph!RefreshToken, Graph!Crash
<1>b. \A m \in GraphMsg(w) : graphDb.stored[m] \in Nat /\ graphTx.stored[m] \in Nat
      /\ graphMailbox[m] \in Nat
  BY DEF LossInv, Graph!TypeOK, Graph!Rows
<1>c. \A m \in GraphMsg(w) : graphMailbox[m] # Graph(w)!None =>
         /\ Graph(w)!Arrived(m) /\ GraphEarlier(w, m, graphMailbox[m])
         /\ graphDb.stored[m] <= graphMailbox[m] /\ graphTx.stored[m] <= graphMailbox[m]
  <2>1. \A m \in GraphMsg(w) : graphMailbox[m] # Graph(w)!None =>
        Graph(w)!Arrived(m) /\ GraphEarlier(w, m, graphMailbox[m])
    BY DEF Graph!Arrived, GraphEarlier, LossInv, MailboxIsSound, Graph!TypeOK
  <2> QED BY <2>1 DEF GraphCopiesAreForward, GraphEarlier
<1>1. ASSUME graphDb'.stored \in {graphDb.stored, graphTx.stored}, graphTx'.stored = graphTx.stored,
             graphRun'.items \in {graphRun.items, {}}
      PROVE  GraphCopiesAreForward(w)' /\ ItemsAreForward(w)'
  BY <1>a, <1>b, <1>1 DEF GraphCopiesAreForward, ItemsAreForward, GraphEarlier, Graph!Arrived
<1>2. CASE Graph(w)!Crash
  <2>1. graphDb' = graphDb /\ graphTx' = graphDb /\ graphRun'.items = {} BY <1>2
        DEF Graph!Crash, Graph!IdleRun
  <2> QED BY <1>a, <1>b, <2>1
             DEF GraphCopiesAreForward, ItemsAreForward, GraphEarlier, Graph!Arrived
<1>3. CASE Graph(w)!DeltaPage
  <2>1. PICK page \in SUBSET Graph(w)!Reported(graphRun.folder, graphTx.cursor[graphRun.folder]) :
          graphRun'.items = {Graph(w)!ItemOf(graphRun.folder, m) : m \in page}
    BY <1>3 DEF Graph!DeltaPage, LossInv, Graph!TypeOK
  <2>2. page \subseteq GraphMsg(w) /\ graphRun.folder \in GraphFolder(w)
    BY <1>3 DEF Graph!Reported, Graph!DeltaPage, LossInv, RunIsSound
  <2>5. ASSUME NEW i \in graphRun'.items
        PROVE  /\ i.version # Graph(w)!None =>
                    /\ Graph(w)!Arrived(i.msg)' /\ GraphEarlier(w, i.msg, i.version)'
                    /\ graphDb'.stored[i.msg] <= i.version /\ graphTx'.stored[i.msg] <= i.version
               /\ \A j \in graphRun'.items : i.msg = j.msg => i = j
    <3>1. PICK m \in page : i = Graph(w)!ItemOf(graphRun.folder, m) BY <2>1
    <3>2. i.msg = m /\ i.version \in {graphMailbox[m], Graph(w)!None} BY <3>1 DEF Graph!ItemOf
    <3>3. \A j \in graphRun'.items : i.msg = j.msg => i = j BY <2>1, <3>1 DEF Graph!ItemOf
    <3>4. graphDb' = graphDb /\ graphTx' = graphTx BY <1>3 DEF Graph!DeltaPage
    <3> QED BY <1>a, <1>c, <2>2, <3>2, <3>3, <3>4 DEF Graph!Arrived, GraphEarlier
  <2>6. ItemsAreForward(w)' BY <2>5 DEF ItemsAreForward
  <2>7. GraphCopiesAreForward(w)'
    BY <1>3, <1>a DEF Graph!DeltaPage, GraphCopiesAreForward, GraphEarlier, Graph!Arrived
  <2> QED BY <2>6, <2>7
<1>4. ASSUME NEW i \in graphRun.items, Graph(w)!SaveItem(i) \/ Graph(w)!ResolveRemoved(i)
      PROVE  GraphCopiesAreForward(w)' /\ ItemsAreForward(w)'
  <2> DEFINE v == IF i.version = Graph(w)!None THEN graphMailbox[i.msg] ELSE i.version
  <2>1. graphTx' = [graphTx EXCEPT !.stored[i.msg] = v] /\ graphDb' = graphDb
        /\ graphRun' = [graphRun EXCEPT !.items = @ \ {i}]
    BY <1>4 DEF Graph!SaveItem, Graph!ResolveRemoved
  <2>2. i.msg \in GraphMsg(w) /\ i.version \in Nat /\ v \in Nat
    BY <1>b DEF LossInv, Graph!TypeOK, Graph!Item
  <2>3. /\ \A m \in GraphMsg(w) : graphTx'.stored[m] = IF m = i.msg THEN v ELSE graphTx.stored[m]
        /\ graphRun'.items = graphRun.items \ {i}
    BY <2>1, <2>2 DEF LossInv, Graph!TypeOK, Graph!Rows
  <2>4. v # Graph(w)!None =>
        Graph(w)!Arrived(i.msg) /\ GraphEarlier(w, i.msg, v) /\ graphDb.stored[i.msg] <= v
    BY <1>c, <2>2 DEF ItemsAreForward
  <2>a. v = Graph(w)!None => graphMailbox[i.msg] = Graph(w)!None
    OBVIOUS
  <2>b. ASSUME NEW m \in GraphMsg(w)
        PROVE  /\ graphDb.stored[m] # Graph(w)!None \/ graphTx'.stored[m] # Graph(w)!None =>
                  Graph(w)!Arrived(m)
               /\ GraphEarlier(w, m, graphDb.stored[m]) /\ GraphEarlier(w, m, graphTx'.stored[m])
               /\ \/ graphTx'.stored[m] = Graph(w)!None /\ graphMailbox[m] = Graph(w)!None
                  \/ graphTx'.stored[m] >= graphDb.stored[m]
    <3>1. CASE m = i.msg /\ v = Graph(w)!None
      BY <1>b, <2>2, <2>3, <2>a, <3>1
         DEF GraphCopiesAreForward, GraphEarlier, LossInv, Graph!TypeOK, Graph!None
    <3>2. CASE m = i.msg /\ v # Graph(w)!None
      BY <2>3, <2>4, <3>2 DEF GraphCopiesAreForward
    <3>3. CASE m # i.msg BY <2>3, <3>3 DEF GraphCopiesAreForward
    <3> QED BY <3>1, <3>2, <3>3
  <2>5. GraphCopiesAreForward(w)'
    BY <1>a, <2>1, <2>b DEF GraphCopiesAreForward, GraphEarlier, Graph!Arrived
  <2>6. \A j \in graphRun'.items : j.msg # i.msg /\ j \in graphRun.items
    BY <2>3 DEF ItemsAreForward
  <2>7. ItemsAreForward(w)'
    BY <1>a, <2>1, <2>3, <2>6
       DEF ItemsAreForward, GraphEarlier, Graph!Arrived, LossInv, Graph!TypeOK, Graph!Item
  <2> QED BY <2>5, <2>7
<1>5. CASE Graph(w)!Load \/ Graph(w)!Start \/ Graph(w)!ListFolders \/ Graph(w)!EndPage
           \/ Graph(w)!DeltaExpired \/ Graph(w)!DeltaExpiredAgain \/ Graph(w)!Finish
  <2>1. CASE Graph(w)!EndPage
    BY <1>1, <2>1 DEF Graph!EndPage, LossInv, Graph!TypeOK, Graph!Rows
  <2>2. CASE Graph(w)!DeltaExpired
    BY <1>1, <2>2 DEF Graph!DeltaExpired, LossInv, Graph!TypeOK, Graph!Rows
  <2>3. CASE Graph(w)!Start
    <3>1. graphRun'.items \in {graphRun.items, {}}
      BY <2>3 DEF Graph!Start, Graph!IdleRun, LossInv, Graph!TypeOK
    <3> QED BY <1>1, <2>3, <3>1 DEF Graph!Start
  <2>4. CASE Graph(w)!Load \/ Graph(w)!ListFolders
    BY <1>1, <2>4 DEF Graph!Load, Graph!ListFolders, Graph!IdleRun, LossInv, Graph!TypeOK
  <2>5. CASE Graph(w)!DeltaExpiredAgain \/ Graph(w)!Finish
    BY <1>1, <2>5 DEF Graph!DeltaExpiredAgain, Graph!Finish, Graph!EndRun, Graph!IdleRun
  <2> QED BY <1>5, <2>1, <2>2, <2>3, <2>4, <2>5
<1>6. ASSUME NEW f \in GraphFolder(w), Graph(w)!NextFolder(f)
      PROVE  GraphCopiesAreForward(w)' /\ ItemsAreForward(w)'
  BY <1>1, <1>6 DEF Graph!NextFolder, LossInv, Graph!TypeOK
<1>7. CASE Graph(w)!FailTransiently \/ Graph(w)!Fail BY <1>1, <1>7
           DEF Graph!FailTransiently, Graph!Fail, Graph!EndRun, Graph!IdleRun
<1>8. CASE Graph(w)!RereadGrant \/ Graph(w)!RefreshToken
  <2>1. graphRun'.items = graphRun.items /\ UNCHANGED <<graphMailbox, clock, graphTx>>
        /\ graphDb' \in {graphDb, graphTx}
    BY <1>8 DEF Graph!RereadGrant, Graph!RefreshToken, Graph!graphVars, LossInv, Graph!TypeOK
  <2> QED BY <1>1, <2>1
<1> QED BY <1>2, <1>3, <1>4, <1>5, <1>6, <1>7, <1>8 DEF Graph!Worker

\* Only commits change the committed copy, and each does what MailMirror allows.
LEMMA GraphStepsAreMirrored ==
    ASSUME NEW w, Nowhere \notin GraphFolder(w), MirrorInv(w), MirrorInv(w)',
           [Graph(w)!Next]_(Graph(w)!vars)
    PROVE  [Graph(w)!Mirror!Next]_<<graphMailbox, graphDb.stored, clock>>
<1> USE DEF MirrorInv, LossInv
<1>a. /\ clock \in Nat /\ graphMailbox \in [GraphMsg(w) -> Nat]
      /\ graphMailbox' \in [GraphMsg(w) -> Nat]
      /\ graphDb.stored \in [GraphMsg(w) -> Nat] /\ graphDb'.stored \in [GraphMsg(w) -> Nat]
      /\ graphTx.stored \in [GraphMsg(w) -> Nat]
  BY DEF Graph!TypeOK, Graph!Rows
<1>1. CASE Graph(w)!Graph
  <2>1. graphDb' = graphDb
    BY <1>1
       DEF Graph!Graph, Graph!Arrive, Graph!Move, Graph!Remove, Graph!CreateFolder,
       Graph!DeleteFolder, Graph!ExpireLinks, Graph!Change, Graph!There
  <2>2. graphMailbox' \in [GraphMsg(w) -> Nat] BY <1>a
  <2> QED BY <1>1, <1>a, <2>1, <2>2, GraphVersionsGrow DEF Graph!Mirror!Next, Graph!Mirror!Change
<1>2. CASE UNCHANGED <<graphMailbox, clock>> /\ graphDb'.stored = graphTx.stored
  BY <1>2, <1>a
     DEF Graph!Mirror!Next, Graph!Mirror!Save, Graph!Mirror!Forward, GraphCopiesAreForward,
     GraphEarlier
<1>3. CASE UNCHANGED <<graphMailbox, clock>> /\ graphDb'.stored = graphDb.stored
  BY <1>3
<1>4. ASSUME Graph(w)!Next, ~Graph(w)!Graph
      PROVE  UNCHANGED <<graphMailbox, clock>>
             /\ graphDb'.stored \in {graphTx.stored, graphDb.stored}
  BY <1>4
     DEF Graph!Next, Graph!User, Graph!Reconnect, Graph!Pause, Graph!Resume, Graph!SetAccount,
     Graph!Worker, Graph!Load, Graph!Start, Graph!ListFolders,
       Graph!DeltaPage, Graph!EndPage, Graph!DeltaExpired, Graph!DeltaExpiredAgain, Graph!Finish,
         Graph!NextFolder, Graph!SaveItem,
       Graph!ResolveRemoved, Graph!FailTransiently, Graph!Fail, Graph!EndRun, Graph!RereadGrant,
         Graph!RefreshToken, Graph!Crash, Graph!graphVars
<1>5. CASE UNCHANGED Graph(w)!vars BY <1>3, <1>5 DEF Graph!vars
<1> QED BY <1>1, <1>2, <1>3, <1>4, <1>5

\* MicrosoftSync begins with the invariant of the refinement, and keeps it.
LEMMA MirrorInit == ASSUME NEW w, Nowhere \notin GraphFolder(w), Graph(w)!Init PROVE MirrorInv(w)
<1>1. LossInv(w) BY InitSound
<1> QED BY <1>1
           DEF LossInv, Graph!TypeOK, Graph!Init, Graph!IdleRun, MirrorInv, GraphCopiesAreForward,
                    ItemsAreForward, GraphEarlier, Graph!None

LEMMA GraphKeepsMirror ==
    ASSUME NEW w, Nowhere \notin GraphFolder(w), MirrorInv(w), [Graph(w)!Next]_(Graph(w)!vars)
    PROVE  MirrorInv(w)'
<1>1. LossInv(w)' BY GraphKeepsInv DEF MirrorInv
<1>2. GraphCopiesAreForward(w)' /\ ItemsAreForward(w)'
  <2>1. CASE Graph(w)!Graph BY <1>1, <2>1, GraphKeepsForward
  <2>2. CASE Graph(w)!Worker \/ Graph(w)!FailTransiently \/ Graph(w)!Fail \/ Graph(w)!RereadGrant
             \/ Graph(w)!RefreshToken \/ Graph(w)!Crash
    BY <1>1, <2>2, WorkerKeepsForward
  <2>3. CASE Graph(w)!User \/ UNCHANGED Graph(w)!vars
    BY <1>1, <2>3
       DEF MirrorInv, Graph!User, Graph!Reconnect, Graph!Pause, Graph!Resume, Graph!SetAccount,
         Graph!vars, Graph!graphVars, GraphCopiesAreForward, ItemsAreForward, GraphEarlier,
           Graph!Arrived
  <2> QED BY <2>1, <2>2, <2>3 DEF Graph!Next
<1> QED BY <1>1, <1>2 DEF MirrorInv

\* Microsoft's import implements MailMirror: the committed copy of a message never goes back to an
\* older version, and is dropped only when the mailbox no longer has it.
THEOREM GraphImplementsMirror ==
    ASSUME NEW w, Nowhere \notin GraphFolder(w)
    PROVE  Graph(w)!Spec => Graph(w)!ImplementsMirror
<1>1. Graph(w)!Init => Graph(w)!Mirror!Init /\ MirrorInv(w)
  BY MirrorInit DEF Graph!Init, Graph!Mirror!Init, Graph!None
<1>2. ASSUME MirrorInv(w), [Graph(w)!Next]_(Graph(w)!vars)
      PROVE  MirrorInv(w)' /\ [Graph(w)!Mirror!Next]_(Graph(w)!Mirror!vars)
  BY <1>2, GraphKeepsMirror, GraphStepsAreMirrored DEF Graph!Mirror!vars
<1> QED BY <1>1, <1>2, PTL DEF Graph!Spec, Graph!ImplementsMirror, Graph!Mirror!Spec

-----------------------------------------------------------------------------
(* ImapSync *)

\* A set of naturals that is not empty has a least element, ...
LEMMA NonemptyHasMin ==
    ASSUME NEW S \in SUBSET Nat, S # {} PROVE \E x \in S : \A y \in S : x <= y
<1>1. PICK x \in S : \A y \in S : ~(<<y, x>> \in OpToRel(<, Nat))
  BY NatLessThanWellFounded, WFMin
<1>2. \A y \in S : ~(y < x)
  BY <1>1 DEF OpToRel
<1> QED BY <1>2

\* ... which is what Min chooses; ...
LEMMA MinIsLeast ==
    ASSUME NEW S \in SUBSET Nat, S # {}
    PROVE  Imap!Min(S) \in S /\ \A y \in S : Imap!Min(S) <= y
<1>1. \E x \in S : \A y \in S : x =< y BY NonemptyHasMin
<1> QED BY <1>1 DEF Imap!Min

\* ... and Max chooses the greatest of a bounded set.
LEMMA MaxIsGreatest ==
    ASSUME NEW n \in Nat, NEW S \in SUBSET (0..n), S # {}
    PROVE  Imap!Max(S) \in S /\ \A y \in S : y <= Imap!Max(S)
<1> DEFINE T == {n - x : x \in S}
<1>1. \A x \in S : n - x \in Nat OBVIOUS
<1>2. T \in SUBSET Nat /\ T # {} BY <1>1
<1>3. PICK t \in T : \A y \in T : t <= y BY <1>2, NonemptyHasMin
<1>4. PICK x \in S : t = n - x BY <1>3
<1>5. \A y \in S : n - y \in T OBVIOUS
<1>6. \A y \in S : n - x <= n - y BY <1>3, <1>4, <1>5
<1>7. \E z \in S : \A y \in S : z >= y BY <1>6
<1> QED BY <1>7 DEF Imap!Max

\* An IMAP account's cursor is the uid of a message that has arrived.
CursorIsSound ==
    /\ Len(mail) <= MaxUid
    /\ imapAccount.imap => imapAccount.cursor <= Len(mail)
\* A run of the account's grant has the account's transport and, until it searches, its cursor;
\* after the search, every message its own cursor passes is to be fetched, fetched, copied or
\* excused.  A run of an older grant meets an IMAP account only with a cursor that was reset.
ImapRunIsSound ==
    imapRun.pc # "idle" =>
        /\ imapRun.grant <= imapAccount.grant
        /\ imapRun.pc = "api" <=> imapRun.pc # "loaded" /\ ~imapRun.imap
        /\ imapRun.grant # imapAccount.grant /\ imapAccount.imap => imapAccount.cursor = Imap!None
        /\ imapRun.grant = imapAccount.grant =>
              /\ imapRun.imap = imapAccount.imap
              /\ imapRun.pc \in {"loaded", "search"} => imapRun.cursor = imapAccount.cursor
              /\ imapRun.pc = "fetch" =>
                    /\ imapRun.cursor <= Len(mail)
                    /\ \A u \in present : u <= imapRun.cursor =>
                          u \in imapRun.todo \cup imapRun.got \cup imapRows \cup excused
\* The inductive invariant behind NothingPassedOver.
ImapInv == Imap!TypeOK /\ Imap!NothingPassedOver /\ CursorIsSound /\ ImapRunIsSound

\* Every step keeps the state well typed.
LEMMA ImapTypeInductive ==
    ASSUME ImapAssumption, Imap!TypeOK, CursorIsSound, [Imap!Next]_(Imap!vars)
    PROVE  Imap!TypeOK'
<1> USE DEF Imap!inboxVars, Imap!None, Imap!Usable
<1>0. /\ Len(mail) \in Nat
      /\ imapAccount.status \in Imap!Usable \cup {"disconnected"} /\ imapAccount.grant \in Nat
      /\ imapAccount.imap \in BOOLEAN /\ imapAccount.cursor \in Nat
      /\ present \in SUBSET (0..Len(mail))
  BY DEF Imap!TypeOK, Imap!Uids
<1>a. imapAccount' \in [imap: BOOLEAN, grant: Nat, status: Imap!Usable \cup {"disconnected"},
      cursor: Nat]
  <2>1. CASE Imap!Finish \/ Imap!Fail
    <3>1. PICK status, cursor, rows :
              status \in Imap!Usable /\ cursor \in Nat /\ Imap!EndRun(status, cursor, rows)
      BY <1>0, <2>1 DEF Imap!Finish, Imap!Fail, Imap!TypeOK
    <3> QED BY <3>1 DEF Imap!EndRun, Imap!TypeOK
  <2>2. CASE Imap!FinishApi
    <3>1. HistoryBase + Len(mail) \in Nat BY <1>0 DEF ImapAssumption
    <3> QED BY <2>2, <3>1 DEF Imap!FinishApi, Imap!TypeOK
  <2>3. CASE Imap!User
    <3>1. CASE Imap!ReconnectImap
      BY <1>0, <3>1 DEF Imap!ReconnectImap, Imap!SetAccount
    <3>2. CASE Imap!ReconnectOAuth
      <4>1. imapAccount.grant + 1 \in Nat BY <1>0
      <4> QED BY <3>2, <4>1 DEF Imap!ReconnectOAuth, Imap!SetAccount, Imap!TypeOK
    <3>3. CASE Imap!Pause \/ Imap!Resume
      BY <3>3 DEF Imap!Pause, Imap!Resume, Imap!SetAccount, Imap!TypeOK
    <3> QED BY <2>3, <3>1, <3>2, <3>3 DEF Imap!User
  <2>4. CASE \/ \E m \in ImapMsg : Imap!Arrive(m)
             \/ \E u \in present : Imap!Leave(u)
             \/ Imap!Load \/ Imap!Start \/ Imap!Search \/ Imap!Fetch \/ Imap!Crash
             \/ UNCHANGED Imap!vars
    BY <2>4 DEF Imap!Arrive, Imap!Leave, Imap!Load, Imap!Start, Imap!Search, Imap!Fetch,
       Imap!Crash, Imap!vars, Imap!TypeOK
  <2> QED BY <2>1, <2>2, <2>3, <2>4 DEF Imap!Next, Imap!Worker
<1>1. ASSUME NEW m \in ImapMsg, Imap!Arrive(m) PROVE Imap!TypeOK'
  <2>1. mail' \in Seq(ImapMsg) /\ Len(mail') = Len(mail) + 1
    BY <1>1 DEF Imap!Arrive, Imap!TypeOK
  <2>2. 1..Len(mail) \subseteq 1..Len(mail') /\ Len(mail) + 1 \in 1..Len(mail')
    BY <1>0, <2>1
  <2> QED BY <1>1, <2>1, <2>2 DEF Imap!Arrive, Imap!TypeOK, Imap!Uids
<1>2. ASSUME NEW u \in present, Imap!Leave(u) PROVE Imap!TypeOK'
  BY <1>2 DEF Imap!Leave, Imap!TypeOK, Imap!Uids
<1>3. CASE Imap!User
  BY <1>3, <1>a DEF Imap!User, Imap!ReconnectImap, Imap!ReconnectOAuth, Imap!Pause, Imap!Resume,
       Imap!SetAccount, Imap!TypeOK, Imap!Uids
<1>4. CASE Imap!Load BY <1>4 DEF Imap!Load, Imap!TypeOK, Imap!IdleRun, Imap!Uids
<1>5. CASE Imap!Start
  <2>1. \/ imapRun' = Imap!IdleRun
        \/ \E pc \in {"search", "api"} : imapRun' = [imapRun EXCEPT !.pc = pc]
    BY <1>5 DEF Imap!Start
  <2> QED BY <1>5, <2>1 DEF Imap!Start, Imap!TypeOK, Imap!IdleRun, Imap!Uids
<1>6. CASE Imap!Search
  <2>1. PICK taken, cursor :
          /\ taken \in SUBSET present
          /\ cursor = IF present = {} THEN imapRun.cursor ELSE Imap!Max(present)
          /\ imapRun' = [imapRun EXCEPT !.pc = "fetch", !.todo = taken, !.cursor = cursor]
    BY <1>6 DEF Imap!Search, Imap!LastOf
  <2>2. cursor \in Nat
    <3>1. present # {} => Imap!Max(present) \in present
      BY <1>0, MaxIsGreatest
    <3>2. imapRun.cursor \in Nat BY DEF Imap!TypeOK
    <3>3. \A u \in present : u \in Nat BY <1>0
    <3> QED BY <2>1, <3>1, <3>2, <3>3
  <2>3. excused' \subseteq 1..Len(mail)
    BY <1>6 DEF Imap!Search, Imap!TypeOK, Imap!Uids
  <2>4. taken \in SUBSET Imap!Uids BY <2>1 DEF Imap!TypeOK
  <2>5. imapRun' \in [pc: {"idle", "loaded", "search", "fetch", "api"}, imap: BOOLEAN, grant: Nat,
                      cursor: Nat, todo: SUBSET Imap!Uids, got: SUBSET Imap!Uids]
    BY <2>1, <2>2, <2>4 DEF Imap!TypeOK
  <2> QED BY <1>6, <2>3, <2>5 DEF Imap!Search, Imap!TypeOK, Imap!Uids
<1>7. CASE Imap!Fetch
  <2> DEFINE u == Imap!Min(imapRun.todo)
  <2>1. u \in imapRun.todo
    BY <1>0, <1>7, MinIsLeast DEF Imap!Fetch, Imap!TypeOK, Imap!Uids
  <2>2. \E got \in SUBSET Imap!Uids :
           imapRun' = [imapRun EXCEPT !.todo = @ \ {u}, !.got = got]
    BY <1>7, <2>1 DEF Imap!Fetch, Imap!TypeOK
  <2>3. excused' \subseteq Imap!Uids
    BY <1>7, <2>1 DEF Imap!Fetch, Imap!TypeOK
  <2>4. imapRun' \in [pc: {"idle", "loaded", "search", "fetch", "api"}, imap: BOOLEAN, grant: Nat,
                      cursor: Nat, todo: SUBSET Imap!Uids, got: SUBSET Imap!Uids]
    <3>1. imapRun.todo \ {u} \in SUBSET Imap!Uids BY DEF Imap!TypeOK
    <3> HIDE DEF u
    <3> QED BY <2>2, <3>1 DEF Imap!TypeOK
  <2> QED BY <1>7, <2>3, <2>4 DEF Imap!Fetch, Imap!TypeOK, Imap!Uids
<1>8. CASE Imap!Finish
  BY <1>8, <1>a DEF Imap!Finish, Imap!EndRun, Imap!TypeOK, Imap!IdleRun, Imap!Uids
<1>9. CASE Imap!FinishApi
  BY <1>9, <1>a DEF Imap!FinishApi, Imap!EndRun, Imap!TypeOK, Imap!IdleRun, Imap!Uids
<1>10. CASE Imap!Fail
  BY <1>10, <1>a DEF Imap!Fail, Imap!EndRun, Imap!TypeOK, Imap!IdleRun, Imap!Uids
<1>11. CASE Imap!Crash BY <1>11 DEF Imap!Crash, Imap!TypeOK, Imap!IdleRun, Imap!Uids
<1>12. CASE UNCHANGED Imap!vars BY <1>12 DEF Imap!vars, Imap!TypeOK, Imap!Uids
<1> QED BY <1>1, <1>2, <1>3, <1>4, <1>5, <1>6, <1>7, <1>8, <1>9, <1>10, <1>11, <1>12
        DEF Imap!Next, Imap!Worker

\* A message that arrives gets a uid past every IMAP cursor; one that leaves was not passed over.
LEMMA InboxKeeps ==
    ASSUME ImapAssumption, ImapInv, (\E m \in ImapMsg : Imap!Arrive(m))
           \/ (\E u \in present : Imap!Leave(u))
    PROVE  Imap!NothingPassedOver' /\ CursorIsSound' /\ ImapRunIsSound'
<1>0. Len(mail) \in Nat BY DEF ImapInv, Imap!TypeOK
<1>a. /\ imapAccount.cursor \in Nat /\ imapRun.cursor \in Nat
      /\ UNCHANGED <<imapAccount, imapRows, imapRun, excused>>
  BY DEF ImapInv, Imap!TypeOK, Imap!Arrive, Imap!Leave
<1>1. ASSUME NEW m \in ImapMsg, Imap!Arrive(m)
      PROVE  /\ Len(mail') = Len(mail) + 1 /\ Len(mail') <= MaxUid
             /\ present' = present \cup {Len(mail) + 1}
  BY <1>0, <1>1 DEF Imap!Arrive, ImapInv, Imap!TypeOK, ImapAssumption
<1>2. ASSUME NEW u \in present, Imap!Leave(u)
      PROVE  /\ mail' = mail /\ present' \subseteq present
  BY <1>2 DEF Imap!Leave
<1>3. CASE \E m \in ImapMsg : Imap!Arrive(m)
  BY <1>0, <1>a, <1>1, <1>3 DEF ImapInv, Imap!NothingPassedOver, CursorIsSound, ImapRunIsSound
<1>4. CASE \E u \in present : Imap!Leave(u)
  BY <1>0, <1>a, <1>2, <1>4 DEF ImapInv, Imap!NothingPassedOver, CursorIsSound, ImapRunIsSound
<1> QED BY <1>3, <1>4

\* Connecting over IMAP resets the cursor; connecting over OAuth changes what it means.
LEMMA ImapUserKeeps ==
    ASSUME ImapInv, Imap!User
    PROVE  Imap!NothingPassedOver' /\ CursorIsSound' /\ ImapRunIsSound'
<1> USE DEF ImapInv
<1>1. /\ UNCHANGED <<mail, present, imapRows, imapRun, excused>>
      /\ imapAccount.grant \in Nat /\ imapRun.grant \in Nat /\ Len(mail) \in Nat
  BY DEF Imap!User, Imap!ReconnectImap, Imap!ReconnectOAuth, Imap!Pause, Imap!Resume,
       Imap!SetAccount, Imap!inboxVars, Imap!TypeOK
<1>2. CASE Imap!ReconnectImap
  <2>1. /\ imapAccount'.grant = imapAccount.grant + 1 /\ imapAccount'.cursor = Imap!None
    BY <1>2 DEF Imap!ReconnectImap, Imap!SetAccount
  <2>2. \A u \in present : ~(u <= Imap!None) BY DEF Imap!TypeOK, Imap!Uids, Imap!None
  <2> QED BY <1>1, <2>1, <2>2 DEF Imap!NothingPassedOver, CursorIsSound, ImapRunIsSound, Imap!None
<1>3. CASE Imap!ReconnectOAuth
  <2>1. /\ imapAccount'.grant = imapAccount.grant + 1 /\ imapAccount'.imap = FALSE
    BY <1>3 DEF Imap!ReconnectOAuth, Imap!SetAccount, Imap!TypeOK
  <2> QED BY <1>1, <2>1 DEF Imap!NothingPassedOver, CursorIsSound, ImapRunIsSound
<1>4. CASE Imap!Pause \/ Imap!Resume
  <2>1. /\ imapAccount'.grant = imapAccount.grant /\ imapAccount'.imap = imapAccount.imap
        /\ imapAccount'.cursor = imapAccount.cursor
    BY <1>4 DEF Imap!Pause, Imap!Resume, Imap!SetAccount, Imap!TypeOK
  <2> QED BY <1>1, <2>1 DEF Imap!NothingPassedOver, CursorIsSound, ImapRunIsSound
<1> QED BY <1>2, <1>3, <1>4 DEF Imap!User

\* A run that is overtaken writes no cursor; one that is not has every uid below its own cursor in
\* hand, copied or excused.
LEMMA ImapRunKeeps ==
    ASSUME ImapAssumption, ImapInv, Imap!Worker \/ Imap!Fail \/ Imap!Crash
    PROVE  Imap!NothingPassedOver' /\ CursorIsSound' /\ ImapRunIsSound'
<1> USE DEF ImapInv, Imap!inboxVars, Imap!None
<1>0. /\ Len(mail) \in Nat /\ imapAccount.cursor \in Nat /\ imapRun.cursor \in Nat
      /\ imapAccount.imap \in BOOLEAN /\ imapRun.imap \in BOOLEAN
      /\ present \in SUBSET (0..Len(mail)) /\ present \subseteq Nat
      /\ imapRun.grant \in Nat /\ imapAccount.grant \in Nat
  BY DEF Imap!TypeOK, Imap!Uids
<1>1. CASE Imap!Load
  BY <1>0, <1>1 DEF Imap!Load, Imap!IdleRun, Imap!NothingPassedOver, CursorIsSound, ImapRunIsSound
<1>2. CASE Imap!Start
  <2>1. /\ imapRun.pc = "loaded" /\ UNCHANGED <<mail, present, imapAccount, imapRows, excused>>
        /\ \/ imapRun'.pc = "idle"
           \/ /\ imapRun'.pc = IF imapRun.imap THEN "search" ELSE "api"
              /\ imapRun'.imap = imapRun.imap /\ imapRun'.cursor = imapRun.cursor
              /\ imapRun'.grant = imapRun.grant
    BY <1>2 DEF Imap!Start, Imap!IdleRun, Imap!TypeOK
  <2> QED BY <1>0, <2>1 DEF Imap!NothingPassedOver, CursorIsSound, ImapRunIsSound
<1>3. CASE Imap!Search
  <2> DEFINE pending == {u \in present : u > imapRun.cursor}
             cursor == IF present = {} THEN imapRun.cursor ELSE Imap!Max(present)
  <2>1. PICK taken \in SUBSET pending :
          /\ imapRun' = [imapRun EXCEPT !.pc = "fetch", !.todo = taken, !.cursor = cursor]
          /\ excused' = excused \cup (pending \ taken)
    BY <1>3 DEF Imap!Search, Imap!LastOf
  <2>2. /\ imapRun'.pc = "fetch" /\ imapRun'.imap = imapRun.imap /\ imapRun'.cursor = cursor
        /\ imapRun'.grant = imapRun.grant /\ imapRun'.todo = taken
        /\ UNCHANGED <<mail, present, imapAccount, imapRows>> /\ imapRun.pc = "search"
    BY <1>3, <2>1 DEF Imap!Search, Imap!TypeOK
  <2>3. present # {} => cursor \in present
    BY <1>0, MaxIsGreatest
  <2>4. present # {} => cursor <= Len(mail)
    <3>1. \A u \in present : u <= Len(mail) BY <1>0
    <3> HIDE DEF cursor
    <3> QED BY <2>3, <3>1
  <2>5. ASSUME imapRun.grant = imapAccount.grant
        PROVE  /\ cursor <= Len(mail)
               /\ \A u \in present : u <= cursor => u \in taken \cup imapRows \cup excused'
    <3>1. imapRun.cursor = imapAccount.cursor /\ imapAccount.imap
      BY <1>0, <2>2, <2>5 DEF ImapRunIsSound
    <3> QED BY <1>0, <2>1, <2>4, <3>1 DEF Imap!NothingPassedOver, CursorIsSound
  <2>6. Imap!NothingPassedOver' BY <2>1, <2>2 DEF Imap!NothingPassedOver
  <2> HIDE DEF cursor
  <2> QED BY <1>0, <2>2, <2>5, <2>6 DEF CursorIsSound, ImapRunIsSound
<1>4. CASE Imap!Fetch
  <2> DEFINE u == Imap!Min(imapRun.todo)
  <2>1. /\ imapRun.pc = "fetch" /\ imapRun'.pc = "fetch" /\ imapRun'.imap = imapRun.imap
        /\ imapRun'.grant = imapRun.grant /\ imapRun'.cursor = imapRun.cursor
        /\ UNCHANGED <<mail, present, imapAccount, imapRows>>
        /\ excused \subseteq excused' /\ imapRun.got \subseteq imapRun'.got
        /\ imapRun.todo \subseteq imapRun'.todo \cup imapRun'.got \cup excused'
    <3>1. \/ /\ imapRun' = [imapRun EXCEPT !.todo = @ \ {u}, !.got = @ \cup {u}]
             /\ UNCHANGED excused
          \/ /\ imapRun' = [imapRun EXCEPT !.todo = @ \ {u}]
             /\ excused' = excused \cup {u}
      BY <1>4 DEF Imap!Fetch
    <3> HIDE DEF u
    <3>2. /\ imapRun'.pc = imapRun.pc /\ imapRun'.imap = imapRun.imap
          /\ imapRun'.grant = imapRun.grant /\ imapRun'.cursor = imapRun.cursor
          /\ imapRun'.todo = imapRun.todo \ {u}
          /\ \/ imapRun'.got = imapRun.got \cup {u} /\ excused' = excused
             \/ imapRun'.got = imapRun.got /\ excused' = excused \cup {u}
      BY <3>1 DEF Imap!TypeOK
    <3> QED BY <1>4, <3>2 DEF Imap!Fetch
  <2> QED BY <1>0, <2>1 DEF Imap!NothingPassedOver, CursorIsSound, ImapRunIsSound
<1>5. ASSUME NEW status, NEW cursor, NEW rows, Imap!EndRun(status, cursor, rows), mail' = mail,
             present' = present, UNCHANGED excused,
             imapRun.grant = imapAccount.grant /\ imapAccount.imap =>
                cursor <= Len(mail) /\ \A u \in present : u <= cursor =>
                  u \in imapRows \cup rows \cup excused
      PROVE Imap!NothingPassedOver' /\ CursorIsSound' /\ ImapRunIsSound'
  <2>1. imapRun'.pc = "idle" /\ imapRows' = imapRows \cup rows
    BY <1>5 DEF Imap!EndRun, Imap!IdleRun
  <2>2. \/ imapAccount' = imapAccount
        \/ /\ imapRun.grant = imapAccount.grant /\ imapAccount'.imap = imapAccount.imap
           /\ imapAccount'.cursor = cursor
    BY <1>5 DEF Imap!EndRun, Imap!Applies, Imap!TypeOK
  <2> QED BY <1>5, <2>1, <2>2 DEF Imap!NothingPassedOver, CursorIsSound, ImapRunIsSound
<1>6. CASE Imap!Finish
  BY <1>5, <1>6 DEF Imap!Finish, ImapRunIsSound
<1>7. CASE Imap!Fail
  BY <1>0, <1>5, <1>7 DEF Imap!Fail, Imap!NothingPassedOver, CursorIsSound
<1>8. CASE Imap!FinishApi
  <2>1. /\ imapRun'.pc = "idle" /\ UNCHANGED <<mail, present, excused>> /\ ~imapRun.imap
        /\ imapRun.pc = "api" /\ imapAccount'.imap = imapAccount.imap
        /\ imapAccount'.cursor # imapAccount.cursor => imapRun.grant = imapAccount.grant
    BY <1>8 DEF Imap!FinishApi, Imap!IdleRun, Imap!Applies, Imap!TypeOK, ImapRunIsSound
  <2>2. imapAccount.imap => imapAccount'.cursor = 0 /\ imapAccount.cursor = 0
    BY <1>0, <2>1 DEF ImapRunIsSound
  <2>3. \A u \in present : ~(u <= 0) BY DEF Imap!TypeOK, Imap!Uids
  <2> QED BY <1>0, <2>1, <2>2, <2>3 DEF Imap!NothingPassedOver, CursorIsSound, ImapRunIsSound
<1>9. CASE Imap!Crash
  BY <1>0, <1>9 DEF Imap!Crash, Imap!IdleRun, Imap!NothingPassedOver, CursorIsSound, ImapRunIsSound
<1> QED BY <1>1, <1>2, <1>3, <1>4, <1>6, <1>7, <1>8, <1>9 DEF Imap!Worker

\* ImapSync begins with its inductive invariant, and keeps it.
LEMMA ImapInit == ASSUME Imap!Init PROVE ImapInv
BY ImapAssumption DEF Imap!Init, ImapInv, Imap!TypeOK, Imap!Uids, Imap!IdleRun, Imap!None,
   Imap!Usable, Imap!NothingPassedOver, CursorIsSound, ImapRunIsSound

LEMMA ImapKeepsInv == ASSUME ImapInv, [Imap!Next]_(Imap!vars) PROVE ImapInv'
<1>1. Imap!TypeOK' BY ImapAssumption, ImapTypeInductive DEF ImapInv
<1>2. CASE (\E m \in ImapMsg : Imap!Arrive(m)) \/ (\E u \in present : Imap!Leave(u))
  BY <1>1, <1>2, ImapAssumption, InboxKeeps DEF ImapInv
<1>3. CASE Imap!User
  BY <1>1, <1>3, ImapAssumption, ImapUserKeeps DEF ImapInv
<1>4. CASE Imap!Worker \/ Imap!Fail \/ Imap!Crash
  BY <1>1, <1>4, ImapAssumption, ImapRunKeeps DEF ImapInv
<1>5. CASE UNCHANGED Imap!vars
  BY <1>1, <1>5 DEF ImapInv, Imap!vars, Imap!NothingPassedOver, CursorIsSound, ImapRunIsSound
<1> QED BY <1>2, <1>3, <1>4, <1>5 DEF Imap!Next

-----------------------------------------------------------------------------
(* The behaviours of the three *)

\* Whoever runs keeps its inductive invariant.
MailboxesInv ==
    /\ running = "moves" => MirrorInv(TRUE)
    /\ running = "folder" => MirrorInv(FALSE)
    /\ running = "imap" => ImapInv

\* Nothing is in a folder that is none.
LEMMA FoldersAreFolders == \A w \in BOOLEAN : Nowhere \notin GraphFolder(w)
BY GraphAssumption DEF GraphFolder

\* Every behaviour begins with what whoever runs begins with, ...
LEMMA BeginSound == Begin => MailboxesInv
<1>1. ASSUME Begin, running = "moves" PROVE MirrorInv(TRUE)
  BY <1>1, FoldersAreFolders, MirrorInit DEF Begin
<1>2. ASSUME Begin, running = "folder" PROVE MirrorInv(FALSE)
  BY <1>2, FoldersAreFolders, MirrorInit DEF Begin
<1>3. ASSUME Begin, running = "imap" PROVE ImapInv
  BY <1>3, ImapInit DEF Begin
<1> QED BY <1>1, <1>2, <1>3 DEF MailboxesInv

\* ... and every step is a step of whoever runs, the others' own variables apart.
LEMMA StepsAreOfTheRunning ==
    ASSUME [Step]_allVars
    PROVE  /\ [Next]_vars
           /\ running = "moves" => [Graph(TRUE)!Next]_(Graph(TRUE)!vars)
           /\ running = "folder" => [Graph(FALSE)!Next]_(Graph(FALSE)!vars)
           /\ running = "imap" => [Imap!Next]_(Imap!vars)
           /\ running' = running
BY DEF Step, allVars, graphVars, imapVars, Graph!vars, Imap!vars

LEMMA StepSound == ASSUME MailboxesInv, [Step]_allVars PROVE MailboxesInv'
<1>1. running = "moves" => MirrorInv(TRUE)'
  BY StepsAreOfTheRunning, FoldersAreFolders, GraphKeepsMirror DEF MailboxesInv
<1>2. running = "folder" => MirrorInv(FALSE)'
  BY StepsAreOfTheRunning, FoldersAreFolders, GraphKeepsMirror DEF MailboxesInv
<1>3. running = "imap" => ImapInv'
  BY StepsAreOfTheRunning, ImapKeepsInv DEF MailboxesInv
<1> QED BY <1>1, <1>2, <1>3, StepsAreOfTheRunning DEF MailboxesInv

THEOREM MailboxesInvariance == Behaviours => []MailboxesInv
BY BeginSound, StepSound, PTL DEF Behaviours

\* A message that the IMAP cursor has passed is copied, gone, or one that a run has passed over for
\* a reason; and the cursor of an IMAP account is a uid, never a Gmail history id.
THEOREM NothingIsPassedOver == Behaviours => []NothingPassedOver
<1>1. MailboxesInv => NothingPassedOver
  BY ImapAssumption DEF MailboxesInv, ImapInv, CursorIsSound, NothingPassedOver, Imap!CursorIsUid,
     Imap!TypeOK
<1> QED BY <1>1, MailboxesInvariance, PTL

\* Microsoft's import loses no change: a copy that differs from the mailbox is owed by the delta of
\* a folder, though messages move between folders, links expire and runs end anywhere; and a run
\* overtaken by a new consent leaves the account's row alone.
THEOREM GraphLosesNothing == Behaviours => GraphLosesNoChange
<1>1. MailboxesInv => /\ running = "moves" => Graph(TRUE)!TypeOK /\ Graph(TRUE)!NoLostChange
                      /\ running = "folder" => Graph(FALSE)!TypeOK /\ Graph(FALSE)!NoLostChange
  BY DEF MailboxesInv, MirrorInv, LossInv, RowsAreOwed, Graph!NoLostChange
<1>2. ASSUME MailboxesInv, [Step]_allVars
      PROVE  [running = "folder" => Graph(FALSE)!LeavesAccount]_graphVars
  <2> SUFFICES ASSUME running = "folder", graphVars' # graphVars PROVE Graph(FALSE)!LeavesAccount
    OBVIOUS
  <2>1. Graph(FALSE)!Next
    BY <1>2, StepsAreOfTheRunning DEF graphVars, Graph!vars
  <2> QED BY <1>2, <2>1, GraphLeavesAccount DEF MailboxesInv, MirrorInv
<1> QED BY <1>1, <1>2, MailboxesInvariance, PTL DEF Behaviours, GraphLosesNoChange

\* Gmail's and Microsoft's imports implement MailMirror, in the same behaviours.
THEOREM EveryCopyIsAMirror == Behaviours => CopiesAreMirrors
<1>1. Begin => Init /\ (running = "moves" => Graph(TRUE)!Mirror!Init)
  <2>1. Begin => Init /\ (running = "moves" => Graph(TRUE)!Init) BY DEF Begin
  <2>2. Graph(TRUE)!Init => Graph(TRUE)!Mirror!Init BY DEF Graph!Init, Graph!Mirror!Init, Graph!None
  <2> QED BY <2>1, <2>2
<1>2. [Step]_allVars => [Next]_vars
  BY StepsAreOfTheRunning
<1>3. ASSUME MailboxesInv, MailboxesInv', [Step]_allVars
      PROVE  [running = "moves" =>
             [Graph(TRUE)!Mirror!Next]_<<graphMailbox, graphDb, clock>>]_graphVars
  <2> SUFFICES ASSUME running = "moves"
               PROVE  [Graph(TRUE)!Mirror!Next]_<<graphMailbox, graphDb, clock>>
    OBVIOUS
  <2>1. MirrorInv(TRUE) /\ MirrorInv(TRUE)' /\ [Graph(TRUE)!Next]_(Graph(TRUE)!vars)
    BY <1>3, StepsAreOfTheRunning DEF MailboxesInv
  <2>2. [Graph(TRUE)!Mirror!Next]_<<graphMailbox, graphDb.stored, clock>>
    BY <2>1, FoldersAreFolders, GraphStepsAreMirrored
  <2>3. DOMAIN graphDb'.stored = GraphMsg(TRUE)
    BY <2>1 DEF MirrorInv, LossInv, Graph!TypeOK, Graph!Rows
  <2> QED BY <2>2, <2>3 DEF Graph!Mirror!Next, Graph!Mirror!Save
<1>4. Behaviours => Spec
  BY <1>1, <1>2, PTL DEF Behaviours, Spec
<1> QED BY <1>1, <1>3, <1>4, MailboxesInvariance, ImportsAreMirrored, PTL
           DEF Behaviours, CopiesAreMirrors
=============================================================================
