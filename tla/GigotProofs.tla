----------------------------- MODULE GigotProofs -----------------------------
(***************************************************************************)
(* Proofs about the gigot backend, for every set of members and files and  *)
(* every bound, whatever the server echoes and wherever a call stops.      *)
(***************************************************************************)
EXTENDS GigotSync, SequenceTheorems, TLAPS

\* Every step, one disjunct per action.
LEMMA NextCases ==
    ASSUME Next
    PROVE  /\ Witness
           /\ \E c \in Clients :
                 \/ UserPush(c) \/ UserSync(c) \/ UserPull(c) \/ UserReclone(c) \/ SyncPush(c)
                 \/ CommitAccepted(c) \/ CommitRefused(c) \/ CommitUnanswered(c) \/ PushLedger(c)
                 \/ PushDone(c) \/ WipeLedger(c) \/ PullTree(c) \/ PullLedger(c)
                 \/ Fail(c) \/ Stop(c)
                 \/ \E p \in Paths :
                       \/ Save(c, p) \/ Remove(c, p) \/ Rewrite(c, p) \/ WipePath(c, p)
                       \/ PullDelete(c, p) \/ PullFetch(c, p)
  BY DEF Next, User, Progress

----------------------------------------------------------------------------
(* Types *)

\* A tree of the server is a tree, the head is one.
LEMMA HeadType ==
    ASSUME TypeInv
    PROVE  Version \in Nat \ {0} /\ HeadTree \in Tree /\ \A v \in 1 .. Version : history[v] \in Tree
  BY DEF TypeInv, Version, HeadTree

\* What the server commits is a tree.
LEMMA ReconciledType ==
    ASSUME TypeInv, NEW o \in Op, CanReconcile(o)
    PROVE  Reconciled(o) \in Tree
<1> SUFFICES ASSUME NEW p \in Paths
             PROVE  Reconciled(o)[p] \in Content
  BY DEF Reconciled, Tree
<1>1. HeadTree[p] \in Content /\ o.snap[p] \in Content
  BY HeadType DEF Op, Tree
<1>2. CASE \/ p \notin Diff(o.snap, o.rec) \/ o.rec.version = Version \/ ~ Clash(o, p)
  BY <1>1, <1>2 DEF Reconciled
<1>3. CASE p \in Diff(o.snap, o.rec) /\ o.rec.version # Version /\ Clash(o, p)
  <2>1. o.snap[p] # Absent /\ HeadTree[p] # Absent
    BY <1>3 DEF CanReconcile, Mergeable
  <2>2. Merge3(history[o.rec.version][p], o.snap[p], HeadTree[p]) \in SUBSET Edits
    BY <1>1, <2>1 DEF Merge3, Content
  <2>3. Reconciled(o)[p] = Merge3(history[o.rec.version][p], o.snap[p], HeadTree[p])
    BY <1>3 DEF Reconciled
  <2> QED
    BY <2>2, <2>3 DEF Content
<1> QED
  BY <1>2, <1>3

\* The ledger a commit's answer gives is a ledger.
LEMMA ReconcileLedgerType ==
    ASSUME NEW o \in Op, NEW version \in Nat, NEW new \in Tree, NEW a
    PROVE  reconcileLedger(o, version, new, a) \in Record
<1>1. o.rec.files \in Tree /\ o.snap \in Tree
  BY DEF Op, Record
<1> QED
  BY <1>1 DEF reconcileLedger, Record, Tree

LEMMA IdleType == Idle \in Op
  BY DEF Idle, Op, NoTree, EmptyTrackRecord, Record, Tree, Content, Steps, Flows

\* The history variable follows the disks.
LEMMA WitnessType ==
    ASSUME TypeInv, Witness, disk' \in [Clients -> Tree]
    PROVE  seen' \in [Clients -> [Paths -> SUBSET Edits]]
<1>1. \A c \in Clients, p \in Paths : disk'[c][p] # Absent => disk'[c][p] \in SUBSET Edits
  BY DEF Tree, Content
<1> QED
  BY <1>1 DEF Witness, Witnessed, TypeInv

\* Writing one file of one disk.
LEMMA SetDisk ==
    ASSUME TypeInv, NEW c \in Clients, NEW p \in Paths, NEW x \in Content
    PROVE  [disk EXCEPT ![c][p] = x] \in [Clients -> Tree]
  BY DEF TypeInv, Tree

LEMMA TypeInit == Init => TypeInv
<1> SUFFICES ASSUME Init PROVE TypeInv
  OBVIOUS
<1> USE BoundsAssumption DEF Edits, Content, Tree
<1>1. PICK t \in [Paths -> {{0}}] : history = <<t>>
  BY DEF Init
<1>2. t \in Tree /\ history \in Seq(Tree) /\ history # <<>> /\ history[1] = t
  BY <1>1
<1>3. ledger \in [Clients -> Record]
  BY <1>2 DEF Init, EmptyTrackRecord, NoTree, Record
<1>4. disk \in [Clients -> Tree]
  BY <1>3 DEF Init, Record
<1>5. \A c \in Clients, p \in Paths : disk[c][p] # Absent => disk[c][p] \in SUBSET Edits
  BY <1>4
<1>6. seen \in [Clients -> [Paths -> SUBSET Edits]]
  BY <1>5 DEF Init, Witnessed
<1>7. op \in [Clients -> Op] /\ edits \in Edits
  BY IdleType DEF Init
<1> QED
  BY <1>2, <1>3, <1>4, <1>6, <1>7 DEF TypeInv

\* What every step leaves well-formed but for the history variable.
Shape == /\ history \in Seq(Tree) /\ history # <<>>
         /\ disk \in [Clients -> Tree]
         /\ ledger \in [Clients -> Record]
         /\ op \in [Clients -> Op]
         /\ edits \in Edits

LEMMA PushLocalType ==
    ASSUME TypeInv, NEW c \in Clients, NEW flow \in {"push", "sync"}, PushLocal(c, flow)
    PROVE  Shape'
<1> DEFINE first == ledger[c].version = 0
           rec   == IF first THEN [version |-> Version, files |-> HeadTree] ELSE ledger[c]
           o     == [Idle EXCEPT !.step = "commit", !.flow = flow, !.snap = disk[c],
                                 !.rec = rec, !.first = first]
<1>1. rec \in Record
  BY HeadType DEF TypeInv, Record
<1>2. o \in Op
  BY <1>1, IdleType DEF TypeInv, Op, Steps, Flows
<1>3. [o EXCEPT !.step = "tree", !.todo = {}] \in Op
  BY <1>2 DEF Op, Steps
<1>4. ledger' = ledger \/ ledger' = [ledger EXCEPT ![c] = rec]
  BY DEF PushLocal
<1>5. ledger' \in [Clients -> Record]
  BY <1>1, <1>4 DEF TypeInv
<1>6. \/ op' = [op EXCEPT ![c] = o]
      \/ op' = [op EXCEPT ![c] = Idle]
      \/ op' = [op EXCEPT ![c] = [o EXCEPT !.step = "tree", !.todo = {}]]
  BY DEF PushLocal, AfterPush
<1>7. op' \in [Clients -> Op]
  BY <1>2, <1>3, <1>6, IdleType DEF TypeInv
<1> QED
  BY <1>5, <1>7 DEF Shape, TypeInv, PushLocal

LEMMA ShapeStep ==
    ASSUME TypeInv, Next
    PROVE  Shape'
<1> USE DEF TypeInv, Shape
<1>1. ASSUME NEW c \in Clients, UserPush(c) \/ SyncPush(c)
      PROVE  Shape'
  BY <1>1, PushLocalType DEF UserPush, SyncPush
<1>2. ASSUME NEW c \in Clients, NEW p \in Paths, Save(c, p) \/ Remove(c, p)
      PROVE  Shape'
  <2>1. edits' \in Edits
    BY <1>2, BoundsAssumption DEF Save, Remove, Edits
  <2>2. disk[c][p] = Absent \/ disk[c][p] \in SUBSET Edits
    BY DEF Tree, Content
  <2>3. \E x \in Content : disk' = [disk EXCEPT ![c][p] = x]
    <3>1. CASE Save(c, p)
      <4> DEFINE x == IF disk[c][p] = Absent THEN {edits'} ELSE disk[c][p] \cup {edits'}
      <4>1. x \in Content
        BY <2>1, <2>2 DEF Content
      <4>2. disk' = [disk EXCEPT ![c][p] = x]
        BY <3>1 DEF Save
      <4> QED
        BY <4>1, <4>2
    <3>2. CASE Remove(c, p)
      BY <3>2 DEF Remove, Content
    <3> QED
      BY <1>2, <3>1, <3>2
  <2>4. disk' \in [Clients -> Tree]
    <3>1. PICK x \in Content : disk' = [disk EXCEPT ![c][p] = x]
      BY <2>3
    <3>2. [disk EXCEPT ![c][p] = x] \in [Clients -> Tree]
      BY SetDisk
    <3> QED
      BY <3>1, <3>2
  <2> QED
    BY <1>2, <2>1, <2>4 DEF Save, Remove
<1>3. ASSUME NEW c \in Clients, UserSync(c)
      PROVE  Shape'
  <2>1. [op[c] EXCEPT !.step = "checked"] \in Op
    BY DEF Op, Steps
  <2>2. op' \in [Clients -> Op]
    BY <1>3, <2>1 DEF UserSync, Step
  <2> QED
    BY <1>3, <2>2 DEF UserSync
<1>4. ASSUME NEW c \in Clients, UserPull(c) \/ UserReclone(c)
      PROVE  Shape'
  <2>1. \A s \in Steps, f \in Flows, t \in SUBSET Paths :
           [Idle EXCEPT !.flow = f, !.step = s, !.todo = t] \in Op
    BY IdleType DEF Op
  <2>2. \E o \in Op : op' = [op EXCEPT ![c] = o]
    BY <1>4, <2>1 DEF UserPull, UserReclone, Begin, Steps, Flows
  <2>3. op' \in [Clients -> Op]
    BY <2>2
  <2> QED
    BY <1>4, <2>3 DEF UserPull, UserReclone
<1>5. ASSUME NEW c \in Clients, CommitAccepted(c)
      PROVE  Shape'
  <2> DEFINE o      == op[c]
             new    == Reconciled(o)
  <2>1. o \in Op /\ new \in Tree
    BY <1>5, ReconciledType DEF CommitAccepted
  <2>2. Version + 1 \in Nat
    BY HeadType
  <2>6. PICK a \in Answers :
           op' = [op EXCEPT ![c] =
                    [o EXCEPT !.step = "ledger", !.rec = reconcileLedger(o, Version + 1, new, a),
                              !.todo = Rewritten(o, new, a)]]
    BY <1>5 DEF CommitAccepted
  <2>3. reconcileLedger(o, Version + 1, new, a) \in Record
    BY <2>1, <2>2, ReconcileLedgerType
  <2>4. Rewritten(o, new, a) \in SUBSET Paths
    BY DEF Rewritten, Echoed, Diff, Changed, Deleted
  <2>5. [o EXCEPT !.step = "ledger", !.rec = reconcileLedger(o, Version + 1, new, a),
                  !.todo = Rewritten(o, new, a)] \in Op
    BY <2>1, <2>3, <2>4 DEF Op, Steps
  <2>7. history' \in Seq(Tree) /\ history' # <<>>
    BY <1>5, <2>1 DEF CommitAccepted
  <2> QED
    BY <1>5, <2>5, <2>6, <2>7 DEF CommitAccepted
<1>6. ASSUME NEW c \in Clients, CommitUnanswered(c)
      PROVE  Shape'
  <2>1. history' \in Seq(Tree) /\ history' # <<>>
    BY <1>6, ReconciledType DEF CommitUnanswered
  <2> QED
    BY <1>6, <2>1, IdleType DEF CommitUnanswered
<1>7. ASSUME NEW c \in Clients, CommitRefused(c) \/ PushDone(c)
      PROVE  Shape'
  <2>1. [op[c] EXCEPT !.step = "tree", !.todo = {}] \in Op
    BY DEF Op, Steps
  <2> QED
    BY <1>7, <2>1, IdleType DEF CommitRefused, PushDone, AfterPush
<1>8. ASSUME NEW c \in Clients, PushLedger(c)
      PROVE  Shape'
  <2>1. [op[c] EXCEPT !.step = "rewrite"] \in Op /\ op[c].rec \in Record
    BY DEF Op, Steps
  <2>2. op' \in [Clients -> Op] /\ ledger' \in [Clients -> Record]
    BY <1>8, <2>1 DEF PushLedger, Step
  <2> QED
    BY <1>8, <2>2 DEF PushLedger
<1>9. ASSUME NEW c \in Clients, WipeLedger(c)
      PROVE  Shape'
  <2>1. EmptyTrackRecord \in Record
    BY DEF EmptyTrackRecord, NoTree, Record, Tree, Content
  <2>2. [op[c] EXCEPT !.step = "tree"] \in Op
    BY DEF Op, Steps
  <2>3. op' \in [Clients -> Op] /\ ledger' \in [Clients -> Record]
    BY <1>9, <2>1, <2>2 DEF WipeLedger, Step
  <2> QED
    BY <1>9, <2>3 DEF WipeLedger
<1>10. ASSUME NEW c \in Clients, PullTree(c)
       PROVE  Shape'
  <2> DEFINE rec  == [version |-> Version, files |-> HeadTree]
             todo == {p \in Paths : HeadTree[p] # Absent \/ ledger[c].files[p] # Absent}
  <2>1. rec \in Record /\ todo \in SUBSET Paths
    BY HeadType DEF Record
  <2>2. [op[c] EXCEPT !.step = "fetch", !.rec = rec, !.todo = todo] \in Op
    BY <2>1 DEF Op, Steps
  <2>3. op' = [op EXCEPT ![c] = [op[c] EXCEPT !.step = "fetch", !.rec = rec, !.todo = todo]]
    BY <1>10 DEF PullTree
  <2> QED
    BY <1>10, <2>2, <2>3 DEF PullTree
<1>11. ASSUME NEW c \in Clients, PullLedger(c)
       PROVE  Shape'
  BY <1>11, IdleType DEF PullLedger, Op
<1>12. ASSUME NEW c \in Clients, Fail(c) \/ Stop(c)
       PROVE  Shape'
  BY <1>12, IdleType DEF Fail, Stop, Abandon
<1>13. ASSUME NEW c \in Clients, NEW p \in Paths,
              Rewrite(c, p) \/ WipePath(c, p) \/ PullDelete(c, p) \/ PullFetch(c, p)
       PROVE  Shape'
  <2>1. HeadTree[p] \in Content /\ Absent \in Content
    BY HeadType DEF Tree, Content
  <2>2. disk' = disk \/ \E x \in Content : disk' = [disk EXCEPT ![c][p] = x]
    BY <1>13, <2>1 DEF Rewrite, WipePath, PullDelete, PullFetch
  <2>3. disk' \in [Clients -> Tree]
    <3>1. CASE disk' = disk
      BY <3>1 DEF TypeInv
    <3>2. ASSUME NEW x \in Content, disk' = [disk EXCEPT ![c][p] = x]
          PROVE  disk' \in [Clients -> Tree]
      <4>1. [disk EXCEPT ![c][p] = x] \in [Clients -> Tree]
        BY SetDisk
      <4> QED
        BY <3>2, <4>1
    <3> QED
      BY <2>2, <3>1, <3>2
  <2>4. op' = [op EXCEPT ![c].todo = @ \ {p}]
    BY <1>13 DEF Rewrite, WipePath, PullDelete, PullFetch
  <2>5. op[c].todo \ {p} \in SUBSET Paths
    BY DEF Op
  <2>7. [op[c] EXCEPT !.todo = @ \ {p}] \in Op
    BY <2>5 DEF Op
  <2>6. op' \in [Clients -> Op]
    BY <2>4, <2>7
  <2> QED
    BY <1>13, <2>3, <2>6 DEF Rewrite, WipePath, PullDelete, PullFetch
<1> QED
  BY NextCases, <1>1, <1>2, <1>3, <1>4, <1>5, <1>6, <1>7, <1>8, <1>9, <1>10, <1>11, <1>12, <1>13

LEMMA TypeStep ==
    ASSUME TypeInv, [Next]_vars
    PROVE  TypeInv'
<1>1. CASE Next
  BY <1>1, ShapeStep, WitnessType, NextCases DEF Shape, TypeInv
<1>2. CASE UNCHANGED vars
  BY <1>2 DEF vars, TypeInv
<1> QED
  BY <1>1, <1>2

\* Disks, ledgers, versions and calls stay well-formed.
THEOREM TypeCorrect == Spec => []TypeInv
  BY TypeInit, TypeStep, PTL DEF Spec

----------------------------------------------------------------------------
(* What a ledger vouches for, the server has *)

\* NothingFalselySynced, of one ledger and one history.
BackedIn(h, rec) ==
    \A p \in Paths :
        rec.files[p] # Absent => \E v \in 1 .. rec.version : v <= Len(h) /\ h[v][p] = rec.files[p]

\* The ledger has the tree of its version, path by path.
Exact(h, rec) == rec.version \in 1 .. Len(h) /\ rec.files = h[rec.version]

\* Every answer lists every path the merge changed, with its blob.
EchoAll == Answers \subseteq {"all"}

\* A ledger l and the call o beside it: the ledger under construction is not older
\* than the one on disk, a commit is made from the version of the ledger on disk or
\* without one, and only a reclone wipes.  If every answer lists what was pushed, the
\* ledgers are backed; if it lists every path the merge changed, with its blob, a
\* ledger has a whole version.
Sound(h, l, o) ==
    /\ l.version <= Len(h)
    /\ o.step \in {"commit", "ledger", "fetch"} => o.rec.version <= Len(h) /\ l.version <= o.rec.version
    /\ "none" \notin Answers => BackedIn(h, l)
    /\ "none" \notin Answers /\ o.step \in {"commit", "ledger", "fetch"} => BackedIn(h, o.rec)
    /\ o.step = "commit" => o.rec.version # 0 /\ l.version \in {0, o.rec.version}
    /\ o.step = "wipe" => o.flow = "reclone"
    /\ EchoAll => l.version = 0 \/ Exact(h, l)
    /\ EchoAll /\ o.step \in {"commit", "ledger", "fetch"} => Exact(h, o.rec)

\* The inductive invariant.
IInv == TypeInv /\ \A c \in Clients : Sound(history, ledger[c], op[c])

\* No step takes a version off the server.
LEMMA HistoryKeeps ==
    ASSUME TypeInv, Next
    PROVE  /\ Len(history) <= Len(history')
           /\ \A v \in 1 .. Len(history) : history'[v] = history[v]
<1>1. ASSUME NEW c \in Clients, CommitAccepted(c) \/ CommitUnanswered(c)
      PROVE  /\ Len(history) <= Len(history')
             /\ \A v \in 1 .. Len(history) : history'[v] = history[v]
  <2>1. Reconciled(op[c]) \in Tree
    BY <1>1, ReconciledType DEF CommitAccepted, CommitUnanswered, TypeInv
  <2>2. history' = Append(history, Reconciled(op[c]))
    BY <1>1 DEF CommitAccepted, CommitUnanswered
  <2> QED
    BY <2>1, <2>2 DEF TypeInv
<1>2. CASE history' = history
  BY <1>2 DEF TypeInv
<1>3. ASSUME NEW c \in Clients,
             \/ UserPush(c) \/ UserSync(c) \/ UserPull(c) \/ UserReclone(c) \/ SyncPush(c)
             \/ CommitRefused(c) \/ PushLedger(c) \/ PushDone(c) \/ WipeLedger(c) \/ PullTree(c)
             \/ PullLedger(c) \/ Fail(c) \/ Stop(c)
      PROVE  history' = history
  BY <1>3 DEF UserPush, UserSync, UserPull, UserReclone, SyncPush, PushLocal, CommitRefused,
              PushLedger, PushDone, WipeLedger, PullTree, PullLedger, Fail, Stop, Abandon
<1>4. ASSUME NEW c \in Clients, NEW p \in Paths,
             \/ Save(c, p) \/ Remove(c, p) \/ Rewrite(c, p) \/ WipePath(c, p)
             \/ PullDelete(c, p) \/ PullFetch(c, p)
      PROVE  history' = history
  BY <1>4 DEF Save, Remove, Rewrite, WipePath, PullDelete, PullFetch
<1> QED
  BY <1>1, <1>2, <1>3, <1>4, NextCases

\* What is backed stays backed as versions are added.
LEMMA BackedGrows ==
    ASSUME NEW h \in Seq(Tree), NEW h2 \in Seq(Tree), Len(h) <= Len(h2),
           \A v \in 1 .. Len(h) : h2[v] = h[v],
           NEW rec \in Record, BackedIn(h, rec)
    PROVE  BackedIn(h2, rec)
<1> SUFFICES ASSUME NEW p \in Paths, rec.files[p] # Absent
             PROVE  \E v \in 1 .. rec.version : v <= Len(h2) /\ h2[v][p] = rec.files[p]
  BY DEF BackedIn
<1>1. PICK v \in 1 .. rec.version : v <= Len(h) /\ h[v][p] = rec.files[p]
  BY DEF BackedIn
<1>2. v \in 1 .. Len(h)
  BY <1>1 DEF Record
<1> QED
  BY <1>1, <1>2 DEF Record

LEMMA SoundGrows ==
    ASSUME NEW h \in Seq(Tree), NEW h2 \in Seq(Tree), Len(h) <= Len(h2),
           \A v \in 1 .. Len(h) : h2[v] = h[v],
           NEW l \in Record, NEW o \in Op, Sound(h, l, o)
    PROVE  Sound(h2, l, o)
<1>1. l.version \in Nat /\ o.rec \in Record /\ o.rec.version \in Nat
  BY DEF Op, Record
<1>2. "none" \notin Answers => BackedIn(h2, l)
  BY BackedGrows DEF Sound
<1>3. "none" \notin Answers /\ o.step \in {"commit", "ledger", "fetch"} => BackedIn(h2, o.rec)
  BY <1>1, BackedGrows DEF Sound
<1>4. \A rec \in Record : Exact(h, rec) => Exact(h2, rec)
  BY DEF Exact, Record
<1> QED
  BY <1>1, <1>2, <1>3, <1>4 DEF Sound

\* The head with its own version is backed.
LEMMA HeadBacked ==
    ASSUME TypeInv
    PROVE  /\ BackedIn(history, [version |-> Version, files |-> HeadTree])
           /\ Exact(history, [version |-> Version, files |-> HeadTree])
  BY HeadType DEF BackedIn, Exact, Version, HeadTree

LEMMA PushLocalSound ==
    ASSUME IInv, NEW c \in Clients, NEW flow \in {"push", "sync"}, PushLocal(c, flow)
    PROVE  /\ Sound(history', ledger'[c], op'[c])
           /\ ledger[c].version <= ledger'[c].version
           /\ \A d \in Clients \ {c} : ledger'[d] = ledger[d] /\ op'[d] = op[d]
<1> DEFINE first == ledger[c].version = 0
           rec   == IF first THEN [version |-> Version, files |-> HeadTree] ELSE ledger[c]
           o     == [Idle EXCEPT !.step = "commit", !.flow = flow, !.snap = disk[c],
                                 !.rec = rec, !.first = first]
<1>1. /\ ledger[c] \in Record /\ ledger[c].version \in Nat
      /\ Version \in Nat /\ Version = Len(history)
  BY HeadType DEF IInv, TypeInv, Record, Version
<1>2. /\ "none" \notin Answers => BackedIn(history, rec)
      /\ rec.version <= Len(history) /\ ledger[c].version <= rec.version
  BY <1>1, HeadBacked DEF IInv, Sound
<1>3. history' = history
  BY DEF PushLocal
<1>7. EchoAll => Exact(history, rec)
  BY <1>1, HeadBacked DEF IInv, Sound, PushLocal
<1>8. rec.version # 0 /\ ledger[c].version \in {0, rec.version}
  BY DEF PushLocal
<1>4. Sound(history, rec, [o EXCEPT !.step = "tree", !.todo = {}]) /\ Sound(history, rec, Idle)
  BY <1>2, <1>7 DEF Sound, Idle
<1>5. Sound(history, ledger[c], o)
  BY <1>2, <1>7, <1>8 DEF IInv, Sound, Idle
<1>6. \/ /\ ledger' = [ledger EXCEPT ![c] = rec]
         /\ \/ op' = [op EXCEPT ![c] = Idle]
            \/ op' = [op EXCEPT ![c] = [o EXCEPT !.step = "tree", !.todo = {}]]
      \/ ledger' = ledger /\ op' = [op EXCEPT ![c] = o]
  BY DEF PushLocal, AfterPush
<1> QED
  BY <1>1, <1>2, <1>3, <1>4, <1>5, <1>6 DEF IInv, TypeInv

LEMMA CommitSound ==
    ASSUME IInv, NEW c \in Clients, CommitAccepted(c)
    PROVE  /\ Sound(history', ledger'[c], op'[c])
           /\ ledger' = ledger
           /\ \A d \in Clients \ {c} : op'[d] = op[d]
<1> DEFINE o   == op[c]
           new == Reconciled(o)
<1>a. PICK a \in Answers :
         op' = [op EXCEPT ![c] = [o EXCEPT !.step = "ledger",
                                           !.rec  = reconcileLedger(o, Version + 1, new, a),
                                           !.todo = Rewritten(o, new, a)]]
  BY DEF CommitAccepted
<1> DEFINE rec == reconcileLedger(o, Version + 1, new, a)
<1>1. /\ ledger[c] \in Record /\ ledger[c].version \in Nat
      /\ o \in Op /\ o.rec \in Record /\ o.rec.version \in Nat
      /\ history \in Seq(Tree) /\ Version = Len(history) /\ Version \in Nat
  BY HeadType DEF IInv, TypeInv, Op, Record, Version
<1>2. new \in Tree
  BY <1>1, ReconciledType DEF CommitAccepted, IInv
<1>3. history' = Append(history, new)
  BY DEF CommitAccepted
<1>4. /\ history' \in Seq(Tree) /\ Len(history') = Version + 1 /\ history'[Version + 1] = new
      /\ \A v \in 1 .. Version : history'[v] = history[v]
  BY <1>1, <1>2, <1>3
<1>5. Sound(history, ledger[c], o) /\ o.step = "commit"
  BY DEF IInv, CommitAccepted
<1>6. "none" \notin Answers => BackedIn(history', ledger[c]) /\ BackedIn(history', o.rec)
  BY <1>1, <1>4, <1>5, BackedGrows DEF Sound
<1>7. "none" \notin Answers => BackedIn(history', rec)
  <2> SUFFICES ASSUME "none" \notin Answers, NEW p \in Paths, rec.files[p] # Absent
               PROVE  \E v \in 1 .. Version + 1 : v <= Len(history') /\ history'[v][p] = rec.files[p]
    BY DEF BackedIn, reconcileLedger
  <2>0. a # "none"
    OBVIOUS
  <2>1. CASE rec.files[p] = new[p]
    BY <1>1, <1>4, <2>1
  <2>2. CASE rec.files[p] = o.rec.files[p]
    <3>2. PICK v \in 1 .. o.rec.version : v <= Len(history') /\ history'[v][p] = o.rec.files[p]
      BY <1>6, <2>2 DEF BackedIn
    <3> QED
      BY <1>1, <1>4, <2>2, <3>2
  <2> QED
    BY <2>0, <2>1, <2>2 DEF reconcileLedger
<1>8. rec.version = Version + 1
  BY DEF reconcileLedger
<1>12. EchoAll => Exact(history', rec)
  <2> SUFFICES ASSUME EchoAll
               PROVE  rec.files = new
    BY <1>1, <1>4, <1>8 DEF Exact
  <2>0. a = "all"
    BY DEF EchoAll
  <2>1. ASSUME NEW p \in Paths
        PROVE  rec.files[p] = new[p]
    <3>1. CASE p \notin Echoed(o, new, a)
      <4>1. rec.files[p] = history[o.rec.version][p]
        BY <1>5, <2>0, <3>1 DEF Sound, Exact, reconcileLedger
      <4>2. new[p] = history[o.rec.version][p]
        BY <2>0, <3>1 DEF Echoed
      <4> QED
        BY <4>1, <4>2
    <3>2. CASE p \in Echoed(o, new, a)
      BY <2>0, <3>2 DEF reconcileLedger
    <3> QED
      BY <3>1, <3>2
  <2>2. rec.files = [p \in Paths |-> rec.files[p]] /\ new = [p \in Paths |-> new[p]]
    BY <1>2 DEF reconcileLedger, Tree
  <2> HIDE DEF new, rec
  <2> QED
    BY <2>1, <2>2
<1>13. EchoAll => ledger[c].version = 0 \/ Exact(history', ledger[c])
  BY <1>1, <1>4, <1>5 DEF Sound, Exact
<1>9. op'[c].step = "ledger" /\ op'[c].rec = rec
  BY <1>1, <1>a DEF IInv, TypeInv, Op
<1>10. ledger' = ledger /\ \A d \in Clients \ {c} : op'[d] = op[d]
  BY <1>a DEF CommitAccepted, IInv, TypeInv
<1>11. ledger[c].version <= Version
  BY <1>1, <1>5 DEF Sound
<1> QED
  BY <1>1, <1>4, <1>6, <1>7, <1>8, <1>9, <1>10, <1>11, <1>12, <1>13 DEF Sound

\* Every step keeps the ledger and the call of the member who takes it sound, leaves
\* the others' alone and moves the ledger's version back in a reclone only.
LEMMA SoundStep ==
    ASSUME IInv, Next
    PROVE  \A c \in Clients :
              /\ Sound(history', ledger'[c], op'[c])
              /\ ledger'[c].version < ledger[c].version => op[c].flow = "reclone"
<1> DEFINE Good(c) == /\ Sound(history', ledger'[c], op'[c])
                      /\ ledger'[c].version < ledger[c].version => op[c].flow = "reclone"
<1>0. TypeInv
  BY DEF IInv
<1>a. \A c \in Clients : /\ ledger[c] \in Record /\ ledger[c].version \in Nat
                         /\ op[c] \in Op /\ op[c].rec \in Record /\ op[c].rec.version \in Nat
                         /\ Sound(history, ledger[c], op[c])
  BY <1>0 DEF IInv, TypeInv, Op, Record
<1>b. history' \in Seq(Tree) /\ history \in Seq(Tree)
  BY <1>0, ShapeStep DEF Shape, TypeInv
<1>c. ASSUME NEW l \in Record, NEW o \in Op, Sound(history, l, o)
      PROVE  Sound(history', l, o)
  BY <1>0, <1>b, <1>c, HistoryKeeps, SoundGrows
<1>d. \A c \in Clients : Sound(history', ledger[c], op[c])
  BY <1>a, <1>c
<1>e. ASSUME NEW c \in Clients, Good(c),
             \A d \in Clients \ {c} : ledger'[d] = ledger[d] /\ op'[d] = op[d]
      PROVE  \A d \in Clients : Good(d)
  BY <1>a, <1>d, <1>e
<1>1. ASSUME NEW c \in Clients, UserPush(c) \/ SyncPush(c)
      PROVE  \A d \in Clients : Good(d)
  <2>1. PICK flow \in {"push", "sync"} : PushLocal(c, flow)
    BY <1>1 DEF UserPush, SyncPush
  <2>2. Sound(history', ledger'[c], op'[c]) /\ ledger[c].version <= ledger'[c].version
        /\ \A d \in Clients \ {c} : ledger'[d] = ledger[d] /\ op'[d] = op[d]
    BY <2>1, PushLocalSound
  <2>3. ledger'[c].version \in Nat
    BY <1>0, ShapeStep DEF Shape, Record
  <2> QED
    BY <1>a, <1>e, <2>2, <2>3
<1>2. ASSUME NEW c \in Clients, CommitAccepted(c)
      PROVE  \A d \in Clients : Good(d)
  BY <1>a, <1>e, <1>2, CommitSound
\* a call that keeps its ledger and goes on at a step without obligations
<1>3. ASSUME NEW c \in Clients, NEW o, op' = [op EXCEPT ![c] = o], ledger' = ledger,
             o.step \notin {"commit", "ledger", "fetch"}, o.step = "wipe" => o.flow = "reclone"
      PROVE  \A d \in Clients : Good(d)
  <2>1. op'[c] = o /\ ledger'[c] = ledger[c]
    BY <1>0, <1>3 DEF TypeInv
  <2>2. Sound(history', ledger[c], o)
    BY <1>3, <1>d DEF Sound
  <2> QED
    BY <1>0, <1>3, <1>a, <1>e, <2>1, <2>2 DEF TypeInv
\* a call that keeps its ledger and ticks off a path
<1>4. ASSUME NEW c \in Clients, NEW p, op' = [op EXCEPT ![c].todo = @ \ {p}], ledger' = ledger
      PROVE  \A d \in Clients : Good(d)
  <2>1. /\ op'[c].step = op[c].step /\ op'[c].flow = op[c].flow /\ op'[c].rec = op[c].rec
        /\ ledger'[c] = ledger[c]
    BY <1>0, <1>4 DEF TypeInv, Op
  <2>2. Sound(history', ledger'[c], op'[c])
    BY <1>d, <2>1 DEF Sound
  <2>3. \A d \in Clients \ {c} : op'[d] = op[d] /\ ledger'[d] = ledger[d]
    BY <1>0, <1>4 DEF TypeInv
  <2>4. Good(c)
    BY <1>a, <2>1, <2>2
  <2> QED
    BY <1>e, <2>3, <2>4
<1>5. ASSUME NEW c \in Clients, UserSync(c) \/ UserPull(c) \/ UserReclone(c)
      PROVE  \A d \in Clients : Good(d)
  <2>1. \E o : /\ op' = [op EXCEPT ![c] = o] /\ o.step \notin {"commit", "ledger", "fetch"}
               /\ o.step = "wipe" => o.flow = "reclone"
    <3>1. CASE UserSync(c)
      <4> DEFINE o == [op[c] EXCEPT !.step = "checked"]
      <4>1. op' = [op EXCEPT ![c] = o] /\ o.step = "checked"
        BY <1>a, <3>1 DEF UserSync, Step, Op
      <4> QED
        BY <4>1
    <3>2. CASE UserPull(c)
      <4> DEFINE o == [Idle EXCEPT !.flow = "pull", !.step = "tree", !.todo = {}]
      <4>1. op' = [op EXCEPT ![c] = o] /\ o.step = "tree"
        BY <3>2 DEF UserPull, Begin, Idle
      <4> QED
        BY <4>1
    <3>3. CASE UserReclone(c)
      <4> DEFINE o == [Idle EXCEPT !.flow = "reclone", !.step = "wipe", !.todo = Paths \ NotWiped]
      <4>1. op' = [op EXCEPT ![c] = o] /\ o.step = "wipe" /\ o.flow = "reclone"
        BY <3>3 DEF UserReclone, Begin, Idle
      <4> QED
        BY <4>1
    <3> QED
      BY <1>5, <3>1, <3>2, <3>3
  <2>2. ledger' = ledger
    BY <1>5 DEF UserSync, UserPull, UserReclone
  <2> QED
    BY <1>3, <2>1, <2>2
<1>6. ASSUME NEW c \in Clients, CommitRefused(c) \/ PushDone(c) \/ CommitUnanswered(c) \/ Fail(c) \/ Stop(c)
      PROVE  \A d \in Clients : Good(d)
  <2>1. \E o : op' = [op EXCEPT ![c] = o] /\ o.step \notin {"commit", "ledger", "fetch", "wipe"}
    <3> DEFINE o == [op[c] EXCEPT !.step = "tree", !.todo = {}]
    <3>1. o.step = "tree" /\ Idle.step = "idle"
      BY <1>a DEF Idle, Op
    <3>2. op' = [op EXCEPT ![c] = o] \/ op' = [op EXCEPT ![c] = Idle]
      BY <1>6 DEF CommitRefused, PushDone, CommitUnanswered, Fail, Stop, Abandon, AfterPush
    <3> QED
      BY <3>1, <3>2
  <2>2. ledger' = ledger
    BY <1>6 DEF CommitRefused, PushDone, CommitUnanswered, Fail, Stop, Abandon
  <2> QED
    BY <1>3, <2>1, <2>2
<1>7. ASSUME NEW c \in Clients, NEW p \in Paths,
             Rewrite(c, p) \/ WipePath(c, p) \/ PullDelete(c, p) \/ PullFetch(c, p)
      PROVE  \A d \in Clients : Good(d)
  <2>1. op' = [op EXCEPT ![c].todo = @ \ {p}] /\ ledger' = ledger
    BY <1>7 DEF Rewrite, WipePath, PullDelete, PullFetch
  <2> QED
    BY <1>4, <2>1
<1>8. ASSUME NEW c \in Clients, NEW p \in Paths, Save(c, p) \/ Remove(c, p)
      PROVE  \A d \in Clients : Good(d)
  <2>1. op' = op /\ ledger' = ledger
    BY <1>8 DEF Save, Remove
  <2> QED
    BY <1>a, <1>d, <2>1
<1>9. ASSUME NEW c \in Clients, PushLedger(c) \/ PullLedger(c)
      PROVE  \A d \in Clients : Good(d)
  <2>1. /\ ledger' = [ledger EXCEPT ![c] = op[c].rec]
        /\ op[c].step \in {"ledger", "fetch"}
        /\ history' = history
    BY <1>9 DEF PushLedger, PullLedger
  <2>2. op'[c].step \in {"rewrite", "idle"} /\ \A d \in Clients \ {c} : op'[d] = op[d]
    BY <1>0, <1>9 DEF PushLedger, PullLedger, Step, Idle, TypeInv, Op
  <2>3. ledger'[c] = op[c].rec /\ \A d \in Clients \ {c} : ledger'[d] = ledger[d]
    BY <1>0, <2>1 DEF TypeInv
  <2>4. Sound(history', ledger'[c], op'[c])
    BY <1>a, <2>1, <2>2, <2>3 DEF Sound
  <2>5. ledger[c].version <= op[c].rec.version
    BY <1>a, <2>1 DEF Sound
  <2> QED
    BY <1>a, <1>e, <2>2, <2>3, <2>4, <2>5
<1>10. ASSUME NEW c \in Clients, WipeLedger(c)
       PROVE  \A d \in Clients : Good(d)
  <2>1. /\ ledger' = [ledger EXCEPT ![c] = EmptyTrackRecord]
        /\ op[c].flow = "reclone" /\ history' = history
    BY <1>10, <1>a DEF WipeLedger, Sound
  <2>2. op'[c].step = "tree" /\ \A d \in Clients \ {c} : op'[d] = op[d]
    BY <1>0, <1>10 DEF WipeLedger, Step, TypeInv, Op
  <2>3. ledger'[c] = EmptyTrackRecord /\ \A d \in Clients \ {c} : ledger'[d] = ledger[d]
    BY <1>0, <2>1 DEF TypeInv
  <2>4. Sound(history', EmptyTrackRecord, op'[c])
    BY <1>b, <2>2 DEF Sound, BackedIn, EmptyTrackRecord, NoTree
  <2> QED
    BY <1>e, <2>1, <2>2, <2>3, <2>4
<1>11. ASSUME NEW c \in Clients, PullTree(c)
       PROVE  \A d \in Clients : Good(d)
  <2>1. /\ op'[c].step = "fetch" /\ op'[c].rec = [version |-> Version, files |-> HeadTree]
        /\ \A d \in Clients \ {c} : op'[d] = op[d]
    BY <1>0, <1>11 DEF PullTree, TypeInv, Op
  <2>2. ledger' = ledger /\ history' = history
    BY <1>11 DEF PullTree
  <2>3. Sound(history', ledger'[c], op'[c])
    BY <1>0, <1>a, <2>1, <2>2, HeadBacked DEF Sound, Version
  <2> QED
    BY <1>a, <1>e, <2>1, <2>2, <2>3
<1> QED
  BY NextCases, <1>1, <1>2, <1>5, <1>6, <1>7, <1>8, <1>9, <1>10, <1>11

LEMMA InvInit == Init => IInv
<1> SUFFICES ASSUME Init PROVE IInv
  OBVIOUS
<1>1. PICK t \in [Paths -> {{0}}] : history = <<t>>
  BY DEF Init
<1>2. Len(history) = 1 /\ history[1] = t
  BY <1>1
<1>3. ASSUME NEW c \in Clients
      PROVE  Sound(history, ledger[c], op[c])
  <2>1. op[c].step = "idle"
    BY DEF Init, Idle
  <2>2. ledger[c] = EmptyTrackRecord \/ ledger[c] = [version |-> 1, files |-> history[1]]
    BY DEF Init
  <2>3. BackedIn(history, ledger[c]) /\ ledger[c].version <= 1
    BY <1>2, <2>2 DEF BackedIn, EmptyTrackRecord, NoTree
  <2>4. ledger[c].version = 0 \/ Exact(history, ledger[c])
    BY <1>2, <2>2 DEF Exact, EmptyTrackRecord
  <2> QED
    BY <1>2, <2>1, <2>3, <2>4 DEF Sound
<1> QED
  BY <1>3, TypeInit DEF IInv

LEMMA InvStep ==
    ASSUME IInv, [Next]_vars
    PROVE  IInv'
<1>1. CASE Next
  BY <1>1, TypeStep, SoundStep DEF IInv
<1>2. CASE UNCHANGED vars
  BY <1>2 DEF vars, IInv, TypeInv
<1> QED
  BY <1>1, <1>2

LEMMA InvHolds == Spec => []IInv
  BY InvInit, InvStep, PTL DEF Spec

\* A blob a ledger vouches for was in a server version no newer than the ledger's, as
\* long as every answer to a commit lists what was pushed: after a merge, the local
\* blobs that reconcileLedger falls back on were in no version.
THEOREM LedgersAreBacked ==
    ASSUME "none" \notin Answers
    PROVE  Spec => []NothingFalselySynced
<1>1. IInv => NothingFalselySynced
  <2> SUFFICES ASSUME IInv, NEW c \in Clients, NEW p \in Paths, ledger[c].files[p] # Absent
               PROVE  \E v \in 1 .. ledger[c].version :
                         v <= Version /\ history[v][p] = ledger[c].files[p]
    BY DEF NothingFalselySynced
  <2>1. BackedIn(history, ledger[c])
    BY DEF IInv, Sound
  <2> QED
    BY <2>1 DEF BackedIn, Version
<1> QED
  BY InvHolds, <1>1, PTL

\* The Pull button's gate is right: where the ledger has HEAD's version and nothing is
\* pending, the folder has HEAD's files (GigotSync.vue).  EchoAll is what the run
\* gigot_clean says of the server's answer; calls may stop anywhere and folders may be
\* new to the server.
THEOREM PullGateIsSound ==
    ASSUME EchoAll
    PROVE  Spec => []PullGateSound
<1>1. IInv => PullGateSound
  <2> SUFFICES ASSUME IInv, NEW c \in Clients, ~ HasPending(c), ledger[c].version = Version
               PROVE  disk[c] = HeadTree
    BY DEF PullGateSound
  <2>1. Version # 0 /\ HeadTree \in Tree /\ disk[c] \in Tree
    BY HeadType DEF IInv, TypeInv
  <2>2. ledger[c].files = HeadTree
    BY <2>1 DEF IInv, Sound, Exact, HeadTree
  <2>3. \A p \in Paths : disk[c][p] = HeadTree[p]
    BY <2>1, <2>2 DEF HasPending, Diff, Changed, Deleted
  <2> QED
    BY <2>1, <2>3 DEF Tree
<1> QED
  BY InvHolds, <1>1, PTL

\* A ledger's version goes back in a reclone only and names a version there is.
THEOREM LedgersMoveForward == Spec => LedgerForward
<1>1. IInv /\ [Next]_vars =>
        [\A c \in Clients :
            /\ ledger'[c].version <= Len(history')
            /\ ledger'[c].version < ledger[c].version => op[c].flow = "reclone"]_vars
  BY SoundStep DEF Sound
<1> QED
  BY InvHolds, <1>1, PTL DEF Spec, LedgerForward

----------------------------------------------------------------------------
(* The folders and the server are one store of versions *)

\* What the server makes of a file is a merge of what the commit's sender had of it.
LEMMA ReconciledMerges ==
    ASSUME TypeInv, NEW o \in Op, CanReconcile(o), o.rec.version \in 1 .. Version, NEW p \in Paths
    PROVE  \E mine \in Content :
              Team!Merged(p, history[o.rec.version][p], mine, HeadTree[p], Reconciled(o)[p])
<1> DEFINE old    == history[o.rec.version][p]
           mine   == o.snap[p]
           theirs == HeadTree[p]
           now    == Reconciled(o)[p]
<1>1. old \in Content /\ mine \in Content /\ theirs \in Content
  BY HeadType DEF Op, Tree
<1>2. CASE p \notin Diff(o.snap, o.rec)
  <2>1. now = theirs
    BY <1>2 DEF Reconciled
  <2>2. Team!Merged(p, old, old, theirs, now)
    BY <2>1 DEF Team!Merged
  <2> QED
    BY <1>1, <2>2
<1>3. CASE p \in Diff(o.snap, o.rec) /\ (o.rec.version = Version \/ ~ Clash(o, p))
  <2>1. now = mine
    BY <1>3 DEF Reconciled
  <2>2. theirs \in {old, mine}
    BY <1>3 DEF Clash, HeadTree
  <2>3. Team!Merged(p, old, mine, theirs, now)
    BY <2>1, <2>2 DEF Team!Merged
  <2> QED
    BY <1>1, <2>3
<1>4. CASE p \in Diff(o.snap, o.rec) /\ o.rec.version # Version /\ Clash(o, p)
  <2>1. p \in Records /\ mine # Absent /\ theirs # Absent
    BY <1>4 DEF CanReconcile, Mergeable
  <2>2. now = Merge3(old, mine, theirs)
    BY <1>4 DEF Reconciled
  <2>3. mine \in SUBSET Edits /\ theirs \in SUBSET Edits
    BY <1>1, <2>1 DEF Content
  <2>4. now \in SUBSET Edits
    BY <2>2, <2>3 DEF Merge3
  <2>5. Absent \notin {mine, theirs, now}
    BY <2>1, <2>4, AbsentAssumption DEF Edits
  <2> DEFINE was == IF old = Absent THEN {} ELSE old
  <2>6. \A e : e \in now <=> e \in mine \cup theirs /\ (e \in was => e \in mine /\ e \in theirs)
    BY <2>2 DEF Merge3
  <2>7. /\ now \subseteq mine \cup theirs
        /\ (mine \cup theirs) \ was \subseteq now
        /\ now \cap was = mine \cap theirs \cap was
    <3> HIDE DEF was, now, mine, theirs
    <3> QED
      BY <2>6
  <2>8. Team!Merged(p, old, mine, theirs, now)
    BY <2>1, <2>5, <2>7 DEF Team!Merged
  <2> QED
    BY <1>1, <2>8
<1> QED
  BY <1>2, <1>3, <1>4

\* A commit the server takes is one of the store, answered or not.
LEMMA CommitIsCommit ==
    ASSUME IInv, NEW c \in Clients, CommitAccepted(c) \/ CommitUnanswered(c)
    PROVE  Team!Commit(c)
<1> DEFINE o   == op[c]
           v   == o.rec.version
           new == Reconciled(o)
<1>1. /\ TypeInv /\ o \in Op /\ CanReconcile(o) /\ ledger' = ledger
      /\ o.step = "commit" /\ history' = Append(history, new)
  BY DEF CommitAccepted, CommitUnanswered, IInv, TypeInv
<1>2. v \in 1 .. Version /\ ledger[c].version \in {0, v}
  <2>1. Sound(history, ledger[c], o)
    BY DEF IInv
  <2>2. v \in Nat
    BY <1>1 DEF Op, Record
  <2>3. v <= Len(history) /\ v # 0 /\ ledger[c].version \in {0, v}
    BY <1>1, <2>1 DEF Sound
  <2> QED
    BY <1>1, <2>2, <2>3, HeadType DEF Version
<1>3. new \in Tree
  BY <1>1, ReconciledType
<1>4. /\ Len(history') = Len(history) + 1 /\ history'[Len(history')] = new
      /\ \A w \in 1 .. Len(history) : history'[w] = history[w]
  <2>1. history \in Seq(Tree) /\ history' = Append(history, new)
    BY <1>1 DEF TypeInv
  <2> HIDE DEF new
  <2> QED
    BY <1>3, <2>1
<1>5. \A p \in Paths : \E mine \in Content : Team!Merged(p, history[v][p], mine, HeadTree[p], new[p])
  BY <1>1, <1>2, ReconciledMerges
<1>6. Team!HeadTree = HeadTree /\ Team!HeadTree' = new
  BY <1>4 DEF Team!HeadTree, HeadTree, Version
<1>7. [d \in Clients |-> ledger[d].version]' = [d \in Clients |-> ledger[d].version]
  BY <1>1
<1>8. [d \in Clients |-> ledger[d].version][c] \in {0, v} /\ v \in 1 .. Len(history)
  BY <1>2 DEF Version
<1> HIDE DEF v, new
<1> QED
  BY <1>4, <1>5, <1>6, <1>7, <1>8 DEF Team!Commit

\* A ledger that is written is a version learned.
LEMMA LedgerIsLearned ==
    ASSUME IInv, NEW c \in Clients, NEW rec \in Record, history' = history,
           ledger' = [ledger EXCEPT ![c] = rec],
           ledger[c].version <= rec.version, rec.version <= Len(history)
    PROVE  Team!Learn(c)
<1>1. ledger[c].version \in Nat /\ rec.version \in Nat /\ Len(history) \in Nat
  BY DEF IInv, TypeInv, Record
<1>2. rec.version \in [d \in Clients |-> ledger[d].version][c] .. Len(history)
  BY <1>1
<1>3. [d \in Clients |-> ledger[d].version]'
         = [[d \in Clients |-> ledger[d].version] EXCEPT ![c] = rec.version]
  BY DEF IInv, TypeInv
<1> QED
  BY <1>2, <1>3 DEF Team!Learn

LEMMA TeamInit == Init => Team!Init
<1> SUFFICES ASSUME Init PROVE Team!Init
  OBVIOUS
<1>1. Len(history) = 1
  BY DEF Init
<1>2. \A c \in Clients : ledger[c].version \in 0 .. 1
  BY DEF Init, EmptyTrackRecord
<1> QED
  BY <1>1, <1>2 DEF Team!Init

\* A step of the program is a step of the store or none.
LEMMA TeamStep ==
    ASSUME IInv, [Next]_vars
    PROVE  [Team!Next]_Team!vars
<1>0. TypeInv
  BY DEF IInv
<1>a. ASSUME history' = history, ledger' = ledger
      PROVE  UNCHANGED Team!vars
  BY <1>a DEF Team!vars
<1>1. ASSUME NEW c \in Clients, UserPush(c) \/ SyncPush(c)
      PROVE  [Team!Next]_Team!vars
  <2>1. PICK flow \in {"push", "sync"} : PushLocal(c, flow)
    BY <1>1 DEF UserPush, SyncPush
  <2> DEFINE rec == IF ledger[c].version = 0 THEN [version |-> Version, files |-> HeadTree]
                    ELSE ledger[c]
  <2>2. history' = history /\ (ledger' = ledger \/ ledger' = [ledger EXCEPT ![c] = rec])
    BY <2>1 DEF PushLocal
  <2>3. rec \in Record /\ ledger[c].version <= rec.version /\ rec.version <= Len(history)
    <3>1. ledger[c] \in Record /\ ledger[c].version \in Nat /\ ledger[c].version <= Len(history)
      BY <1>0 DEF IInv, Sound, TypeInv, Record
    <3> QED
      BY <1>0, <3>1, HeadType DEF Version, Record
  <2>4. CASE ledger' = ledger
    BY <1>a, <2>2, <2>4
  <2>5. CASE ledger' = [ledger EXCEPT ![c] = rec]
    <3> HIDE DEF rec
    <3>1. Team!Learn(c)
      BY <2>2, <2>3, <2>5, LedgerIsLearned
    <3> QED
      BY <3>1 DEF Team!Next
  <2> QED
    BY <2>2, <2>4, <2>5
<1>2. ASSUME NEW c \in Clients, CommitAccepted(c) \/ CommitUnanswered(c)
      PROVE  [Team!Next]_Team!vars
  BY <1>2, CommitIsCommit DEF Team!Next
<1>3. ASSUME NEW c \in Clients, PushLedger(c) \/ PullLedger(c)
      PROVE  [Team!Next]_Team!vars
  <2>1. /\ op[c].step \in {"ledger", "fetch"} /\ history' = history
        /\ ledger' = [ledger EXCEPT ![c] = op[c].rec]
    BY <1>3 DEF PushLedger, PullLedger
  <2>2. op[c].rec \in Record
    BY <1>0 DEF TypeInv, Op
  <2>3. ledger[c].version <= op[c].rec.version /\ op[c].rec.version <= Len(history)
    BY <2>1 DEF IInv, Sound
  <2>4. Team!Learn(c)
    BY <2>1, <2>2, <2>3, LedgerIsLearned
  <2> QED
    BY <2>4 DEF Team!Next
<1>4. ASSUME NEW c \in Clients, WipeLedger(c)
      PROVE  [Team!Next]_Team!vars
  <2>1. history' = history /\ ledger' = [ledger EXCEPT ![c] = EmptyTrackRecord]
    BY <1>4 DEF WipeLedger
  <2>2. [d \in Clients |-> ledger[d].version]'
           = [[d \in Clients |-> ledger[d].version] EXCEPT ![c] = 0]
    BY <1>0, <2>1 DEF TypeInv, EmptyTrackRecord
  <2>3. Team!Forget(c)
    BY <2>1, <2>2 DEF Team!Forget
  <2> QED
    BY <2>3 DEF Team!Next
<1>5. ASSUME NEW c \in Clients,
             \/ UserSync(c) \/ UserPull(c) \/ UserReclone(c) \/ CommitRefused(c) \/ PushDone(c)
             \/ PullTree(c) \/ Fail(c) \/ Stop(c)
      PROVE  [Team!Next]_Team!vars
  <2>1. history' = history /\ ledger' = ledger
    BY <1>5 DEF UserSync, UserPull, UserReclone, CommitRefused, PushDone, PullTree, Fail, Stop, Abandon
  <2> QED
    BY <1>a, <2>1
<1>6. ASSUME NEW c \in Clients, NEW p \in Paths,
             \/ Save(c, p) \/ Remove(c, p) \/ Rewrite(c, p) \/ WipePath(c, p)
             \/ PullDelete(c, p) \/ PullFetch(c, p)
      PROVE  [Team!Next]_Team!vars
  <2>1. history' = history /\ ledger' = ledger
    BY <1>6 DEF Save, Remove, Rewrite, WipePath, PullDelete, PullFetch
  <2> QED
    BY <1>a, <2>1
<1>7. CASE UNCHANGED vars
  <2>1. history' = history /\ ledger' = ledger
    BY <1>7 DEF vars
  <2> QED
    BY <1>a, <2>1
<1> QED
  BY NextCases, <1>1, <1>2, <1>3, <1>4, <1>5, <1>6, <1>7

\* The folders and the server implement the store of versions, whatever the server
\* echoes and wherever a call stops: every commit is merged from the version its
\* sender's ledger names, and a ledger only learns versions there are, forward.
THEOREM IsATeamStore == Spec => IsTeamStore
  BY InvHolds, TeamInit, TeamStep, PTL DEF Spec, IsTeamStore, Team!Spec

----------------------------------------------------------------------------
(* What a commit takes off the server, its user has seen *)

\* The head does not move while a call fetches what the server answered.
Calm == (\E c \in Clients : op[c].step \in {"ledger", "rewrite", "fetch"}) => history' = history

\* The user has seen every edit of the tree t in the paths of Q.
Known(s, t, Q) == \A p \in Q : t[p] # Absent => t[p] \subseteq s[p]

HeadRecord == [version |-> Version, files |-> HeadTree]

\* What a member's user, who has seen s, knows of the disk d, the ledger l and the call
\* o beside it; head is the server's last version.
Informed(head, s, d, l, o) ==
    /\ Known(s, d, Paths)
    /\ l.version = 0 => o.step \in {"tree", "fetch"}
    /\ Known(s, l.files, IF o.step = "rewrite" THEN Paths \ o.todo ELSE Paths)
    /\ o.step = "commit" => o.rec = l /\ Known(s, o.snap, Paths)
    /\ o.step \in {"ledger", "fetch"} => o.rec = head /\ Known(s, o.rec.files, Paths \ o.todo)
    /\ o.step = "rewrite" => l = head /\ o.rec = head
    /\ o.step \in {"ledger", "rewrite"} => \A p \in o.todo : head.files[p] # Absent

KInv == \A c \in Clients : Informed(HeadRecord, seen[c], disk[c], ledger[c], op[c])

\* A step shows each user what it leaves on the disk, and no user forgets.
LEMMA SeenGrows ==
    ASSUME TypeInv, Witness, disk' \in [Clients -> Tree], NEW c \in Clients
    PROVE  /\ Known(seen'[c], disk'[c], Paths)
           /\ \A t, Q : Q \subseteq Paths /\ Known(seen[c], t, Q) => Known(seen'[c], t, Q)
<1>1. \A p \in Paths : seen[c][p] \subseteq seen'[c][p]
                       /\ (disk'[c][p] # Absent => disk'[c][p] \subseteq seen'[c][p])
  BY DEF Witness, Witnessed
<1> QED
  BY <1>1 DEF Known

LEMMA CommitInformed ==
    ASSUME EchoAll, IInv, IInv', KInv, NEW c \in Clients, CommitAccepted(c), Witness
    PROVE  Informed(HeadRecord, seen[c], disk[c], ledger[c], op[c])'
<1> DEFINE o      == op[c]
           new    == Reconciled(o)
           todo   == Rewritten(o, new, "all")
           rec    == reconcileLedger(o, Version + 1, new, "all")
<1>0. TypeInv /\ Sound(history, ledger[c], o) /\ Sound(history', ledger'[c], op'[c])
  BY DEF IInv
<1>1. /\ o \in Op /\ o.rec \in Record /\ o.step = "commit" /\ o.rec = ledger[c]
      /\ ledger[c] \in Record
      /\ Informed(HeadRecord, seen[c], disk[c], ledger[c], o)
  <2>1. o \in Op /\ ledger[c] \in Record /\ o.step = "commit"
    BY <1>0 DEF TypeInv, CommitAccepted
  <2>2. Informed(HeadRecord, seen[c], disk[c], ledger[c], o)
    BY DEF KInv
  <2> QED
    BY <2>1, <2>2 DEF Informed, Op
<1>2. new \in Tree /\ history' = Append(history, new) /\ history \in Seq(Tree)
  BY <1>0, <1>1, ReconciledType DEF CommitAccepted, TypeInv
<1>3. disk' = disk /\ ledger' = ledger /\ TypeInv /\ disk' \in [Clients -> Tree]
  BY <1>0 DEF CommitAccepted, TypeInv
<1>4. op'[c] = [o EXCEPT !.step = "ledger", !.rec = rec, !.todo = todo]
  BY <1>3 DEF CommitAccepted, TypeInv, EchoAll
<1>5. op'[c].step = "ledger" /\ op'[c].rec = rec /\ op'[c].todo = todo
  BY <1>1, <1>4 DEF Op
<1>6. HeadRecord' = [version |-> Version + 1, files |-> new]
  BY <1>2 DEF HeadRecord, HeadTree, Version
<1>7. Exact(history', rec)
  BY <1>0, <1>5 DEF Sound
<1>8. rec.version = Version + 1 /\ rec = [version |-> rec.version, files |-> rec.files]
  BY DEF reconcileLedger
<1>9. rec = HeadRecord'
  BY <1>2, <1>6, <1>7, <1>8 DEF Exact, Version
<1>10. \A p \in Paths : p \notin Echoed(o, new, "all") => new[p] = o.rec.files[p]
  <2>1. Exact(history, o.rec)
    BY <1>0, <1>1 DEF Sound
  <2> QED
    BY <2>1 DEF Echoed, Exact
<1>11. Known(seen[c], o.snap, Paths) /\ Known(seen[c], o.rec.files, Paths) /\ Known(seen[c], disk[c], Paths)
  BY <1>1 DEF Informed
<1>12. Known(seen[c], new, Paths \ todo)
  <2> SUFFICES ASSUME NEW p \in Paths \ todo, new[p] # Absent
               PROVE  new[p] \subseteq seen[c][p]
    BY DEF Known
  <2>1. CASE p \notin Echoed(o, new, "all")
    BY <1>10, <1>11, <2>1 DEF Known
  <2>2. CASE p \in Changed(o.snap, o.rec) /\ new[p] = o.snap[p]
    BY <1>11, <2>2 DEF Known
  <2> QED
    BY <2>1, <2>2 DEF Rewritten
<1>13. \A p \in todo : new[p] # Absent
  BY DEF Rewritten
<1> HIDE DEF todo, rec, new
<1>14. Known(seen'[c], new, Paths \ todo) /\ Known(seen'[c], o.rec.files, Paths) /\ Known(seen'[c], disk'[c], Paths)
  BY <1>3, <1>11, <1>12, SeenGrows
<1>15. ledger'[c] = o.rec /\ ledger'[c].version # 0
  BY <1>1, <1>3 DEF Informed
<1>16. \A p \in todo : HeadRecord'.files[p] # Absent
  BY <1>6, <1>13
<1>17. Known(seen'[c], rec.files, Paths \ todo)
  BY <1>6, <1>9, <1>14
<1>18. Informed(HeadRecord', seen'[c], disk'[c], ledger'[c], op'[c])
  BY <1>5, <1>9, <1>14, <1>15, <1>16, <1>17 DEF Informed
<1> QED
  BY <1>18

LEMMA PushLocalInformed ==
    ASSUME IInv, KInv, NEW c \in Clients, NEW flow \in {"push", "sync"}, PushLocal(c, flow),
           op[c].step \in {"idle", "checked"}, Witness
    PROVE  /\ Informed(HeadRecord, seen[c], disk[c], ledger[c], op[c])'
           /\ \A d \in Clients \ {c} : ledger'[d] = ledger[d] /\ op'[d] = op[d]
<1>1. Informed(HeadRecord, seen[c], disk[c], ledger[c], op[c]) /\ ledger[c].version # 0
  BY DEF KInv, Informed
<1> DEFINE o == [Idle EXCEPT !.step = "commit", !.flow = flow, !.snap = disk[c],
                             !.rec = ledger[c], !.first = FALSE]
<1>2. \/ /\ ledger' = [ledger EXCEPT ![c] = ledger[c]]
         /\ \/ op' = [op EXCEPT ![c] = Idle]
            \/ op' = [op EXCEPT ![c] = [o EXCEPT !.step = "tree", !.todo = {}]]
      \/ ledger' = ledger /\ op' = [op EXCEPT ![c] = o]
  BY <1>1 DEF PushLocal, AfterPush
<1>3. ledger' = ledger /\ disk' = disk /\ history' = history
  BY <1>2 DEF PushLocal, IInv, TypeInv
<1>4. /\ op'[c] = Idle \/ op'[c] = [o EXCEPT !.step = "tree", !.todo = {}] \/ op'[c] = o
      /\ \A d \in Clients \ {c} : op'[d] = op[d]
  BY <1>2 DEF IInv, TypeInv
<1>5. op'[c].step \in {"idle", "tree"}
      \/ (op'[c].step = "commit" /\ op'[c].rec = ledger[c] /\ op'[c].snap = disk[c])
  <2>1. o.step = "commit" /\ o.rec = ledger[c] /\ o.snap = disk[c]
        /\ [o EXCEPT !.step = "tree", !.todo = {}].step = "tree" /\ Idle.step = "idle"
    BY DEF Idle
  <2> HIDE DEF o
  <2> QED
    BY <1>4, <2>1
<1>6. Known(seen'[c], disk[c], Paths) /\ Known(seen'[c], ledger[c].files, Paths)
  BY <1>1, <1>3, SeenGrows DEF IInv, TypeInv, Informed
<1> QED
  BY <1>1, <1>3, <1>4, <1>5, <1>6 DEF Informed

LEMMA InformedStep ==
    ASSUME EchoAll, ~ Faults, IInv, IInv', KInv, Next, Calm
    PROVE  KInv'
<1> DEFINE Good(c) == Informed(HeadRecord, seen[c], disk[c], ledger[c], op[c])'
<1>0. TypeInv /\ TypeInv' /\ Witness /\ disk' \in [Clients -> Tree]
  BY NextCases DEF IInv, TypeInv
<1>a. \A c \in Clients : /\ ledger[c] \in Record /\ op[c] \in Op /\ op[c].rec \in Record /\ op[c].todo \subseteq Paths
                         /\ Informed(HeadRecord, seen[c], disk[c], ledger[c], op[c])
  BY <1>0 DEF TypeInv, Op, KInv
<1>g. \A c \in Clients :
         /\ Known(seen'[c], disk'[c], Paths)
         /\ \A t, Q : Q \subseteq Paths /\ Known(seen[c], t, Q) => Known(seen'[c], t, Q)
  BY <1>0, SeenGrows
<1>h. HeadRecord' = HeadRecord \/ \A c \in Clients : op[c].step \notin {"ledger", "rewrite", "fetch"}
  BY DEF Calm, HeadRecord, HeadTree, Version
<1>s. ASSUME NEW c \in Clients, ledger'[c] = ledger[c], op'[c] = op[c] PROVE Good(c)
  <2>1. Informed(HeadRecord, seen[c], disk[c], ledger[c], op[c]) /\ op[c].todo \subseteq Paths
    BY <1>a
  <2>2. Known(seen'[c], ledger[c].files, IF op[c].step = "rewrite" THEN Paths \ op[c].todo ELSE Paths)
    BY <2>1, <1>g DEF Informed
  <2>3. op[c].step = "commit" => Known(seen'[c], op[c].snap, Paths)
    BY <2>1, <1>g DEF Informed
  <2>4. op[c].step \in {"ledger", "fetch"} => Known(seen'[c], op[c].rec.files, Paths \ op[c].todo)
    BY <2>1, <1>g DEF Informed
  <2> QED
    BY <1>s, <1>g, <1>h, <2>1, <2>2, <2>3, <2>4 DEF Informed
<1>e. ASSUME NEW c \in Clients, Good(c),
             \A d \in Clients \ {c} : ledger'[d] = ledger[d] /\ op'[d] = op[d]
      PROVE  KInv'
  <2>1. \A d \in Clients : Good(d)
    BY <1>s, <1>e
  <2> QED
    BY <2>1 DEF KInv
<1> HIDE DEF Good
<1>1. ASSUME NEW c \in Clients, UserPush(c) \/ SyncPush(c) PROVE KInv'
  <2>1. PICK flow \in {"push", "sync"} : PushLocal(c, flow) /\ op[c].step \in {"idle", "checked"}
    BY <1>1 DEF UserPush, SyncPush
  <2> QED
    BY <1>0, <1>e, <2>1, PushLocalInformed DEF Good
<1>2. ASSUME NEW c \in Clients, CommitAccepted(c) PROVE KInv'
  <2>1. ledger' = ledger /\ \A d \in Clients \ {c} : op'[d] = op[d]
    BY <1>0, <1>2 DEF CommitAccepted, TypeInv
  <2>2. Good(c)
    BY <1>0, <1>2, CommitInformed DEF Good
  <2> QED
    BY <1>e, <2>1, <2>2
\* a call that goes on at a step without obligations
<1>3. ASSUME NEW c \in Clients, NEW o, op' = [op EXCEPT ![c] = o], ledger' = ledger,
             o.step \notin {"commit", "ledger", "rewrite", "fetch"},
             op[c].step # "rewrite" \/ op[c].todo = {}, ledger[c].version = 0 => o.step = "tree"
      PROVE  KInv'
  <2>1. op'[c] = o /\ ledger'[c] = ledger[c] /\ \A d \in Clients \ {c} : op'[d] = op[d]
    BY <1>0, <1>3 DEF TypeInv
  <2>2. Known(seen'[c], ledger[c].files, Paths)
    <3>1. (IF op[c].step = "rewrite" THEN Paths \ op[c].todo ELSE Paths) = Paths
      BY <1>3
    <3> QED
      BY <1>a, <1>g, <3>1 DEF Informed
  <2>3. Good(c)
    BY <1>3, <1>g, <2>1, <2>2 DEF Informed, Good
  <2> QED
    BY <1>3, <1>e, <2>1, <2>3
<1>4. ASSUME NEW c \in Clients, UserSync(c) \/ UserPull(c) \/ UserReclone(c) PROVE KInv'
  <2>1. ledger' = ledger /\ op[c].step = "idle" /\ ledger[c].version # 0
    BY <1>4, <1>a DEF UserSync, UserPull, UserReclone, Informed
  <2>2. CASE UserSync(c)
    <3> DEFINE o == [op[c] EXCEPT !.step = "checked"]
    <3>1. op' = [op EXCEPT ![c] = o] /\ o.step = "checked"
      BY <1>a, <2>2 DEF UserSync, Step, Op
    <3> QED
      BY <1>3, <2>1, <3>1
  <2>3. CASE UserPull(c)
    <3> DEFINE o == [Idle EXCEPT !.flow = "pull", !.step = "tree", !.todo = {}]
    <3>1. op' = [op EXCEPT ![c] = o] /\ o.step = "tree"
      BY <2>3 DEF UserPull, Begin, Idle
    <3> QED
      BY <1>3, <2>1, <3>1
  <2>4. CASE UserReclone(c)
    <3> DEFINE o == [Idle EXCEPT !.flow = "reclone", !.step = "wipe", !.todo = Paths \ NotWiped]
    <3>1. op' = [op EXCEPT ![c] = o] /\ o.step = "wipe"
      BY <2>4 DEF UserReclone, Begin, Idle
    <3> QED
      BY <1>3, <2>1, <3>1
  <2> QED
    BY <1>4, <2>2, <2>3, <2>4
<1>5. ASSUME NEW c \in Clients, CommitRefused(c) \/ PushDone(c) PROVE KInv'
  <2>1. op[c].step # "rewrite" \/ op[c].todo = {}
    BY <1>5 DEF CommitRefused, PushDone
  <2>2. ledger' = ledger /\ ledger[c].version # 0
    BY <1>5, <1>a DEF CommitRefused, PushDone, Informed
  <2>3. \E o : op' = [op EXCEPT ![c] = o] /\ o.step \in {"idle", "tree"}
    <3> DEFINE o == [op[c] EXCEPT !.step = "tree", !.todo = {}]
    <3>1. o.step = "tree" /\ Idle.step = "idle"
      BY <1>a DEF Idle, Op
    <3>2. op' = [op EXCEPT ![c] = o] \/ op' = [op EXCEPT ![c] = Idle]
      BY <1>5 DEF CommitRefused, PushDone, AfterPush
    <3> QED
      BY <3>1, <3>2
  <2> QED
    BY <1>3, <2>1, <2>2, <2>3
<1>6. ASSUME NEW c \in Clients, Fail(c) PROVE KInv'
  <2>1. ledger' = ledger /\ op' = [op EXCEPT ![c] = Idle] /\ Idle.step = "idle"
    BY <1>6 DEF Fail, Abandon, Idle
  <2>2. op[c].step \in {"rewrite", "fetch"} => \A p \in op[c].todo : HeadTree[p] # Absent \/ op[c].rec.files[p] = Absent
    <3>1. HeadRecord.files = HeadTree
      BY DEF HeadRecord
    <3> QED
      BY <1>a, <3>1 DEF Informed
  <2>3. op[c].step \in {"checked", "commit"}
    BY <1>6, <2>2 DEF Fail
  <2>4. ledger[c].version # 0
    BY <1>a, <2>3 DEF Informed
  <2> QED
    BY <1>3, <2>1, <2>3, <2>4
<1>7. ASSUME NEW c \in Clients, CommitUnanswered(c) \/ Stop(c) PROVE KInv'
  BY <1>7 DEF CommitUnanswered, Stop
<1>8. ASSUME NEW c \in Clients, PushLedger(c) PROVE KInv'
  <2>1. /\ op[c].step = "ledger" /\ ledger'[c] = op[c].rec
        /\ \A d \in Clients \ {c} : ledger'[d] = ledger[d] /\ op'[d] = op[d]
    BY <1>0, <1>8 DEF PushLedger, Step, TypeInv
  <2>2. op'[c].step = "rewrite" /\ op'[c].rec = op[c].rec /\ op'[c].todo = op[c].todo
    BY <1>0, <1>8 DEF PushLedger, Step, TypeInv, Op
  <2>3. op[c].rec = HeadRecord /\ HeadRecord' = HeadRecord /\ Known(seen[c], op[c].rec.files, Paths \ op[c].todo)
        /\ \A p \in op[c].todo : HeadRecord.files[p] # Absent
    BY <1>a, <1>h, <2>1 DEF Informed
  <2>4. Known(seen'[c], op[c].rec.files, Paths \ op[c].todo)
    BY <1>g, <2>3
  <2>5. HeadRecord.version # 0
    BY <1>0, HeadType DEF HeadRecord
  <2>6. Good(c)
    BY <1>g, <2>1, <2>2, <2>3, <2>4, <2>5 DEF Good, Informed
  <2> QED
    BY <1>e, <2>1, <2>6
<1>9. ASSUME NEW c \in Clients, PullLedger(c) PROVE KInv'
  <2>1. /\ op[c].step = "fetch" /\ op[c].todo = {} /\ ledger'[c] = op[c].rec /\ op'[c].step = "idle"
        /\ \A d \in Clients \ {c} : ledger'[d] = ledger[d] /\ op'[d] = op[d]
    BY <1>0, <1>9 DEF PullLedger, TypeInv, Idle
  <2>2. op[c].rec = HeadRecord /\ Known(seen[c], op[c].rec.files, Paths)
    BY <1>a, <2>1 DEF Informed
  <2>3. Known(seen'[c], op[c].rec.files, Paths)
    BY <1>g, <2>2
  <2>4. HeadRecord.version # 0
    BY <1>0, HeadType DEF HeadRecord
  <2>5. Good(c)
    BY <1>g, <2>1, <2>2, <2>3, <2>4 DEF Good, Informed
  <2> QED
    BY <1>e, <2>1, <2>5
<1>10. ASSUME NEW c \in Clients, WipeLedger(c) PROVE KInv'
  <2>1. /\ op'[c].step = "tree" /\ ledger'[c] = EmptyTrackRecord
        /\ \A d \in Clients \ {c} : ledger'[d] = ledger[d] /\ op'[d] = op[d]
    BY <1>0, <1>10 DEF WipeLedger, Step, TypeInv, Op
  <2>2. Known(seen'[c], EmptyTrackRecord.files, Paths)
    BY DEF Known, EmptyTrackRecord, NoTree
  <2>3. Good(c)
    BY <1>g, <2>1, <2>2 DEF Good, Informed
  <2> QED
    BY <1>e, <2>1, <2>3
<1>11. ASSUME NEW c \in Clients, PullTree(c) PROVE KInv'
  <2>1. /\ op[c].step = "tree" /\ ledger' = ledger /\ op'[c].step = "fetch" /\ op'[c].rec = HeadRecord
        /\ op'[c].todo = {p \in Paths : HeadTree[p] # Absent \/ ledger[c].files[p] # Absent}
        /\ \A d \in Clients \ {c} : op'[d] = op[d]
    <3> DEFINE o == [op[c] EXCEPT !.step = "fetch", !.rec = HeadRecord,
                       !.todo = {p \in Paths : HeadTree[p] # Absent \/ ledger[c].files[p] # Absent}]
    <3>1. op' = [op EXCEPT ![c] = o] /\ op[c].step = "tree" /\ ledger' = ledger
      BY <1>0, <1>11 DEF PullTree, HeadRecord, TypeInv
    <3>2. /\ o.step = "fetch" /\ o.rec = HeadRecord
          /\ o.todo = {p \in Paths : HeadTree[p] # Absent \/ ledger[c].files[p] # Absent}
      BY <1>a DEF Op
    <3> HIDE DEF o
    <3> QED
      BY <1>0, <3>1, <3>2 DEF TypeInv
  <2>2. HeadRecord' = HeadRecord
    BY <1>11 DEF PullTree, HeadRecord, HeadTree, Version
  <2>3. Known(seen'[c], HeadRecord.files, Paths \ op'[c].todo)
    BY <2>1 DEF Known, HeadRecord
  <2>4. Known(seen'[c], ledger[c].files, Paths)
    BY <1>a, <1>g, <2>1 DEF Informed
  <2>5. Good(c)
    BY <1>g, <2>1, <2>2, <2>3, <2>4 DEF Good, Informed
  <2> QED
    BY <1>e, <2>1, <2>5
<1>12. ASSUME NEW c \in Clients, NEW p \in Paths,
              Rewrite(c, p) \/ WipePath(c, p) \/ PullDelete(c, p) \/ PullFetch(c, p)
       PROVE  KInv'
  <2>1. /\ ledger' = ledger /\ op'[c].step = op[c].step /\ op'[c].rec = op[c].rec
        /\ op'[c].todo = op[c].todo \ {p} /\ \A d \in Clients \ {c} : op'[d] = op[d]
        /\ op[c].step \in {"rewrite", "wipe", "fetch"}
    BY <1>0, <1>12 DEF Rewrite, WipePath, PullDelete, PullFetch, TypeInv, Op
  <2>2. HeadRecord' = HeadRecord
    BY <1>12 DEF Rewrite, WipePath, PullDelete, PullFetch, HeadRecord, HeadTree, Version
  <2>3. CASE op[c].step = "wipe"
    <3>1. Known(seen'[c], ledger[c].files, Paths)
      BY <1>a, <1>g, <2>3 DEF Informed
    <3>2. Good(c)
      BY <1>a, <1>g, <2>1, <2>3, <3>1 DEF Good, Informed
    <3> QED
      BY <1>e, <2>1, <3>2
  <2>4. CASE op[c].step \in {"rewrite", "fetch"}
    <3>1. /\ op[c].rec = HeadRecord /\ Known(seen[c], op[c].rec.files, Paths \ op[c].todo)
          /\ op[c].step = "rewrite" => ledger[c] = HeadRecord /\ \A q \in op[c].todo : HeadRecord.files[q] # Absent
          /\ op[c].step = "fetch" => Known(seen[c], ledger[c].files, Paths)
      BY <1>a, <2>4 DEF Informed
    <3>2. HeadRecord.files[p] = Absent \/ disk'[c][p] = HeadRecord.files[p]
      BY <1>0, <1>12, <2>4, <3>1 DEF Rewrite, WipePath, PullDelete, PullFetch, HeadRecord, TypeInv, Tree
    <3>3. Known(seen'[c], op[c].rec.files, Paths \ op[c].todo)
      BY <1>g, <3>1
    <3>4. Known(seen'[c], op[c].rec.files, Paths \ (op[c].todo \ {p}))
      BY <1>g, <3>1, <3>2, <3>3 DEF Known
    <3>5. op[c].step = "fetch" => Known(seen'[c], ledger[c].files, Paths)
      BY <1>g, <3>1
    <3>6. ledger[c].version = 0 => op[c].step \in {"tree", "fetch"}
      BY <1>a DEF Informed
    <3>7. Good(c)
      BY <1>g, <2>1, <2>2, <2>4, <3>1, <3>4, <3>5, <3>6 DEF Good, Informed
    <3> QED
      BY <1>e, <2>1, <3>7
  <2> QED
    BY <2>1, <2>3, <2>4
<1>13. ASSUME NEW c \in Clients, NEW p \in Paths, Save(c, p) \/ Remove(c, p) PROVE KInv'
  <2>1. \A d \in Clients : ledger'[d] = ledger[d] /\ op'[d] = op[d]
    BY <1>13 DEF Save, Remove
  <2>2. \A d \in Clients : Good(d)
    BY <1>s, <2>1 DEF Good
  <2> QED
    BY <2>2 DEF Good, KInv
<1> QED
  BY NextCases, <1>1, <1>2, <1>4, <1>5, <1>6, <1>7, <1>8, <1>9, <1>10, <1>11, <1>12, <1>13

LEMMA InformedInit == Joiners = {} /\ Init => KInv
<1> SUFFICES ASSUME Joiners = {}, Init, NEW c \in Clients
             PROVE  Informed(HeadRecord, seen[c], disk[c], ledger[c], op[c])
  BY DEF KInv
<1>1. ledger[c].version = 1 /\ disk[c] = ledger[c].files /\ op[c].step = "idle"
  BY DEF Init, Idle
<1>2. Known(seen[c], disk[c], Paths)
  BY DEF Init, Witnessed, Known
<1> QED
  BY <1>1, <1>2 DEF Informed

\* What a commit takes off its user has seen.
LEMMA CommitClobbersNot ==
    ASSUME EchoAll, ~ Faults, IInv, KInv, Next, NEW c \in Clients, NEW p \in Paths,
           history' # history, op'[c] # op[c], HeadTree[p] # Absent, NEW e \in HeadTree[p]
    PROVE  e \in seen[c][p] \/ (HeadTree'[p] # Absent /\ e \in HeadTree'[p])
<1>0. TypeInv
  BY DEF IInv
<1>1. CommitAccepted(c)
  <2>1. PICK d \in Clients : CommitAccepted(d)
    <3>1. ASSUME NEW d \in Clients,
                 \/ UserPush(d) \/ UserSync(d) \/ UserPull(d) \/ UserReclone(d) \/ SyncPush(d)
                 \/ CommitRefused(d) \/ PushLedger(d) \/ PushDone(d) \/ WipeLedger(d)
                 \/ PullTree(d) \/ PullLedger(d) \/ Fail(d) \/ Stop(d)
          PROVE  history' = history
      BY <3>1 DEF UserPush, UserSync, UserPull, UserReclone, SyncPush, PushLocal, CommitRefused,
                  PushLedger, PushDone, WipeLedger, PullTree, PullLedger, Fail, Stop, Abandon
    <3>2. ASSUME NEW d \in Clients, NEW q \in Paths,
                 \/ Save(d, q) \/ Remove(d, q) \/ Rewrite(d, q) \/ WipePath(d, q)
                 \/ PullDelete(d, q) \/ PullFetch(d, q)
          PROVE  history' = history
      BY <3>2 DEF Save, Remove, Rewrite, WipePath, PullDelete, PullFetch
    <3>3. \A d \in Clients : ~ CommitUnanswered(d)
      BY DEF CommitUnanswered
    <3> QED
      BY NextCases, <3>1, <3>2, <3>3
  <2> QED
    BY <1>0, <2>1 DEF CommitAccepted, TypeInv
<1> DEFINE o    == op[c]
           new  == Reconciled(o)
           base == history[o.rec.version][p]
<1>2. o \in Op /\ o.step = "commit" /\ CanReconcile(o)
  BY <1>0, <1>1 DEF TypeInv, CommitAccepted
<1>3. HeadTree' = new
  <2>1. new \in Tree /\ history' = Append(history, new) /\ history \in Seq(Tree)
    BY <1>0, <1>1, <1>2, ReconciledType DEF CommitAccepted, TypeInv
  <2> QED
    BY <2>1 DEF HeadTree, Version
<1>4. Informed(HeadRecord, seen[c], disk[c], ledger[c], o) /\ Exact(history, o.rec)
  BY <1>2 DEF KInv, IInv, Sound
<1>5. base = o.rec.files[p] /\ (base # Absent => base \subseteq seen[c][p])
  BY <1>2, <1>4 DEF Exact, Informed, Known
<1>6. CASE p \notin Diff(o.snap, o.rec)
  BY <1>3, <1>6 DEF Reconciled
<1>7. CASE p \in Diff(o.snap, o.rec) /\ (o.rec.version = Version \/ ~ Clash(o, p))
  <2>1. new[p] = o.snap[p]
    BY <1>7 DEF Reconciled
  <2>2. HeadTree[p] = base \/ HeadTree[p] = o.snap[p]
    BY <1>7 DEF Clash, HeadTree
  <2> QED
    BY <1>3, <1>5, <2>1, <2>2
<1>8. CASE p \in Diff(o.snap, o.rec) /\ o.rec.version # Version /\ Clash(o, p)
  <2>1. new[p] = Merge3(base, o.snap[p], HeadTree[p])
    BY <1>8 DEF Reconciled
  <2>2. o.snap[p] # Absent
    BY <1>2, <1>8 DEF CanReconcile, Mergeable
  <2>3. new \in Tree /\ o.snap[p] \in SUBSET Edits /\ HeadTree[p] \in SUBSET Edits
    BY <1>0, <1>2, <2>2, ReconciledType, HeadType DEF Op, Tree, Content
  <2>4. new[p] # Absent
    <3>1. new[p] \in SUBSET Edits
      BY <2>1, <2>3 DEF Merge3
    <3> QED
      BY <3>1, AbsentAssumption DEF Edits
  <2>5. CASE base # Absent /\ e \in base
    BY <1>5, <2>5
  <2>6. CASE ~ (base # Absent /\ e \in base)
    BY <1>3, <2>1, <2>4, <2>6 DEF Merge3
  <2> QED
    BY <2>5, <2>6
<1> QED
  BY <1>6, <1>7, <1>8

\* No commit takes an edit off the server that its user never saw, for any number of
\* members: as long as calls are not stopped, every folder has met the server, a commit's
\* answer lists what the merge changed - as in the run gigot_clean - and nobody commits
\* between the tree a pull lists, or a commit's answer, and the blobs fetched for it from
\* HEAD (orchestration.go:228).
THEOREM CommitsDoNotClobber ==
    ASSUME EchoAll, ~ Faults, Joiners = {}
    PROVE  Spec /\ [][Calm]_vars => NoClobber
<1>1. IInv /\ KInv /\ IInv' /\ [Next]_vars /\ [Calm]_vars => KInv'
  <2> SUFFICES ASSUME IInv, KInv, IInv', [Next]_vars, [Calm]_vars
               PROVE  KInv'
    OBVIOUS
  <2>1. CASE UNCHANGED vars
    BY <2>1 DEF vars, KInv, HeadRecord, HeadTree, Version
  <2>2. CASE Next /\ Calm
    BY <2>2, InformedStep
  <2> QED
    BY <2>1, <2>2
<1>2. IInv /\ KInv /\ [Next]_vars =>
        [\A c \in Clients : \A p \in Paths :
            history' # history /\ op'[c] # op[c] /\ HeadTree[p] # Absent
              => \A e \in HeadTree[p] : e \in seen[c][p] \/ (HeadTree'[p] # Absent /\ e \in HeadTree'[p])
        ]_vars
  BY CommitClobbersNot
<1>3. Init => KInv
  BY InformedInit
<1> QED
  BY <1>1, <1>2, <1>3, InvHolds, PTL DEF Spec, NoClobber
=============================================================================
