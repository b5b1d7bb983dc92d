---------------------------- MODULE JournalProofs ----------------------------
(***************************************************************************)
(* Proofs about the change journal, for every set of goroutines, paths and *)
(* backends and every bound of the clock.                                  *)
(***************************************************************************)
EXTENDS Journal, SequenceTheorems, TLAPS

\* What a call in flight carries is in the log when the call needs it there.
Carried ==
    \A g \in Procs :
        /\ call[g].step = "apply" => \E i \in 1 .. Len(log) : log[i] = call[g].entry
        /\ call[g].step = "install" => Explained(call[g].pending)

\* The inductive invariant.
IInv == TypeInv /\ CursorBacked /\ PendingBacked /\ Carried

----------------------------------------------------------------------------
(* Lemmas about the operators *)

\* Appending to the log keeps every entry (appendEntry).
LEMMA AppendKeeps ==
    ASSUME NEW l \in Seq(Entry), NEW e \in Entry
    PROVE  /\ Append(l, e) \in Seq(Entry)
           /\ Len(Append(l, e)) = Len(l) + 1
           /\ \A i \in 1 .. Len(l) : i \in 1 .. Len(Append(l, e)) /\ Append(l, e)[i] = l[i]
           /\ Append(l, e)[Len(l) + 1] = e
  OBVIOUS

\* A pending operation of rebuildPending is the operation of an entry on its path.
LEMMA RebuildExplained ==
    ASSUME NEW l \in Seq(Entry), NEW cs, NEW b \in Backends, NEW p \in Paths
    PROVE  \/ rebuildPending(l, cs)[b][p] = None
           \/ /\ rebuildPending(l, cs)[b][p] \in FileOps
              /\ \E i \in 1 .. Len(l) : l[i].op = rebuildPending(l, cs)[b][p] /\ l[i].path = p
<1> DEFINE D == Deciding(l, cs[b], p)
<1>1. CASE \E i \in D : l[i].op # "revert"
  <2>1. PICK i \in D : l[i].op # "revert"
    BY <1>1
  <2>2. \A j \in D : j = i
    BY <2>1 DEF Deciding, Counting
  <2>3. (CHOOSE j \in D : TRUE) = i
    BY <2>1, <2>2
  <2>4. rebuildPending(l, cs)[b][p] = l[i].op
    BY <1>1, <2>3 DEF rebuildPending
  <2>5. i \in 1 .. Len(l) /\ l[i].op # "sync" /\ l[i].path = p /\ l[i] \in Entry
    BY <2>1 DEF Deciding, Counting
  <2>6. l[i].op \in FileOps
    BY <2>1, <2>5 DEF Entry, FileOps
  <2> QED
    BY <2>4, <2>5, <2>6
<1>2. CASE ~ \E i \in D : l[i].op # "revert"
  BY <1>2 DEF rebuildPending
<1> QED
  BY <1>1, <1>2

LEMMA RebuildType ==
    ASSUME NEW l \in Seq(Entry), NEW cs
    PROVE  rebuildPending(l, cs) \in Pending
<1>1. \A b \in Backends, p \in Paths : rebuildPending(l, cs)[b][p] \in FileOps \cup {None}
  BY RebuildExplained
<1> QED
  BY <1>1 DEF rebuildPending, Pending

\* A file operation keeps the pending sets well-formed (applyEntryToPendingLocked).
LEMMA ApplyType ==
    ASSUME pending \in Pending, NEW e \in Entry, e.op # "sync"
    PROVE  /\ applyEntry(e) \in Pending
           /\ \A b \in Backends, p \in Paths :
                 \/ applyEntry(e)[b][p] = pending[b][p]
                 \/ applyEntry(e)[b][p] = None
                 \/ applyEntry(e)[b][p] = e.op /\ p = e.path
<1>1. e.path \in Paths /\ e.op \in FileOps \cup {"revert"}
  BY DEF Entry, FileOps
<1> QED
  BY <1>1 DEF applyEntry, Pending

----------------------------------------------------------------------------
(* Types *)

\* Every step of the journal, one CASE per action of Next.
LEMMA NextCases ==
    ASSUME Next
    PROVE  \/ \E g \in Procs, op \in FileOps \cup {"revert"}, p \in Paths : RecordOp(g, op, p)
           \/ \E g \in Procs, b \in Backends : PushCollect(g, b)
           \/ \E g \in Procs :
                 \/ RecordRemoteSeen(g) \/ Configure(g) \/ RecordSync(g) \/ appendEntry(g)
                 \/ ApplyOp(g) \/ ApplySync(g) \/ saveCursors(g) \/ loadCursors(g)
                 \/ Rebuild(g) \/ Install(g) \/ GiveUp(g)
           \/ Restart
  BY DEF Next, Begin, Step

\* The state a step carries, by the name of the step.
LEMMA CallType ==
    ASSUME TypeInv, NEW g \in Procs
    PROVE  /\ call[g].step \in {"append", "apply"} => call[g].entry \in Entry
           /\ call[g].step = "push" =>
                 call[g].backend \in Backends /\ call[g].mark \in {0} \cup (Start - 1) .. MaxTime
           /\ call[g].step \in {"save", "rebuild", "install"} => call[g].copy \in Cursors
           /\ call[g].step = "install" => call[g].pending \in Pending
<1>1. call[g] \in Call
  BY DEF TypeInv
<1> QED
  BY <1>1 DEF Call

LEMMA TypeStep ==
    ASSUME TypeInv, [Next]_vars
    PROVE  TypeInv'
<1> USE ClockAssumption DEF TypeInv, Stamps
<1>0. \A t \in Stamps : t \in Nat
  OBVIOUS
<1>1. ASSUME NEW g \in Procs, NEW op \in FileOps \cup {"revert"}, NEW p \in Paths, RecordOp(g, op, p)
      PROVE  TypeInv'
  <2>1. Now \in Stamps /\ clock' \in Stamps
    BY <1>1 DEF RecordOp, Tick, Now
  <2>2. [ts |-> Now, op |-> op, path |-> p] \in Entry
    BY <2>1 DEF Entry
  <2>3. [step |-> "append", entry |-> [ts |-> Now, op |-> op, path |-> p]] \in Call
    BY <2>2 DEF Call
  <2> QED
    BY <1>1, <2>1, <2>3 DEF RecordOp, Enter, Go
<1>2. ASSUME NEW g \in Procs, NEW b \in Backends, PushCollect(g, b)
      PROVE  TypeInv'
  <2>1. [step |-> "push", backend |-> b, mark |-> clock] \in Call
    BY DEF Call
  <2> QED
    BY <1>2, <2>1 DEF PushCollect, Enter, Go
<1>3. ASSUME NEW g \in Procs, RecordRemoteSeen(g)
      PROVE  TypeInv'
  <2>1. [step |-> "save", copy |-> cursors] \in Call
    BY DEF Call
  <2> QED
    BY <1>3, <2>1 DEF RecordRemoteSeen, Enter, Go
<1>4. ASSUME NEW g \in Procs, Configure(g)
      PROVE  TypeInv'
  <2>1. [step |-> "load"] \in Call
    BY DEF Call
  <2>2. NoCursors \in Cursors /\ NoPending \in Pending
    BY DEF NoCursors, NoPending, Cursors, Pending
  <2> QED
    BY <1>4, <2>1, <2>2 DEF Configure, Enter, Go
<1>5. ASSUME NEW g \in Procs, RecordSync(g)
      PROVE  TypeInv'
  <2>1. call[g].backend \in Backends /\ call[g].mark \in {0} \cup (Start - 1) .. MaxTime
    BY <1>5, CallType DEF RecordSync
  <2>2. Now \in Stamps /\ clock' \in Stamps
    BY <1>5 DEF RecordSync, Tick, Now
  <2>3. [ts |-> Now, op |-> "sync", backend |-> call[g].backend] \in Entry
    BY <2>1, <2>2 DEF Entry
  <2>4. [step |-> "append", entry |-> [ts |-> Now, op |-> "sync", backend |-> call[g].backend]] \in Call
    BY <2>3 DEF Call
  <2> QED
    BY <1>5, <2>1, <2>2, <2>4 DEF RecordSync, Go
<1>6. ASSUME NEW g \in Procs, appendEntry(g)
      PROVE  TypeInv'
  <2>1. call[g].entry \in Entry
    BY <1>6, CallType DEF appendEntry
  <2>2. [step |-> "apply", entry |-> call[g].entry] \in Call
    BY <2>1 DEF Call
  <2>3. Append(log, call[g].entry) \in Seq(Entry)
    BY <2>1, AppendKeeps
  <2> QED
    BY <1>6, <2>2, <2>3 DEF appendEntry, Go
<1>7. ASSUME NEW g \in Procs, ApplyOp(g)
      PROVE  TypeInv'
  <2>1. call[g].entry \in Entry /\ call[g].entry.op # "sync"
    BY <1>7, CallType DEF ApplyOp
  <2>2. applyEntry(call[g].entry) \in Pending
    BY <2>1, ApplyType
  <2>3. Idle \in Call
    BY DEF Idle, Call
  <2> QED
    BY <1>7, <2>2, <2>3 DEF ApplyOp, Go
<1>8. ASSUME NEW g \in Procs, ApplySync(g)
      PROVE  TypeInv'
  <2>1. call[g].entry \in Entry /\ call[g].entry.op = "sync"
    BY <1>8, CallType DEF ApplySync
  <2>2. call[g].entry.backend \in Backends /\ call[g].entry.ts \in Stamps
    BY <2>1 DEF Entry, FileOps
  <2>3. cursors' \in Cursors /\ pending' \in Pending
    BY <1>8, <2>2 DEF ApplySync, Cursors, Pending, NoPending
  <2>4. [step |-> "save", copy |-> cursors'] \in Call
    BY <2>3 DEF Call
  <2> QED
    BY <1>8, <2>3, <2>4 DEF ApplySync, Go
<1>9. ASSUME NEW g \in Procs, saveCursors(g)
      PROVE  TypeInv'
  <2>1. call[g].copy \in Cursors
    BY <1>9, CallType DEF saveCursors
  <2>2. Idle \in Call
    BY DEF Idle, Call
  <2> QED
    BY <1>9, <2>1, <2>2 DEF saveCursors, Go
<1>10. ASSUME NEW g \in Procs, loadCursors(g)
       PROVE  TypeInv'
  <2>1. PICK cs \in {cursorFile, NoCursors} :
          Go(g, [step |-> "rebuild", copy |-> cs]) /\ disturbed' = (disturbed \/ cs # cursorFile)
    BY <1>10 DEF loadCursors
  <2>2. cs \in Cursors
    BY DEF NoCursors, Cursors
  <2>3. [step |-> "rebuild", copy |-> cs] \in Call
    BY <2>2 DEF Call
  <2>4. disturbed' \in BOOLEAN
    BY <2>1
  <2> QED
    BY <1>10, <2>1, <2>3, <2>4 DEF loadCursors, Go
<1>11. ASSUME NEW g \in Procs, Rebuild(g)
       PROVE  TypeInv'
  <2>1. call[g].copy \in Cursors
    BY <1>11, CallType DEF Rebuild
  <2> DEFINE replayed == rebuildPending(log, call[g].copy)
  <2>2. PICK pend \in {replayed, NoPending} :
          /\ Go(g, [step |-> "install", copy |-> call[g].copy, pending |-> pend])
          /\ disturbed' = (disturbed \/ pend # replayed)
    BY <1>11 DEF Rebuild
  <2>3. pend \in Pending
    BY RebuildType DEF NoPending, Pending
  <2>4. [step |-> "install", copy |-> call[g].copy, pending |-> pend] \in Call
    BY <2>1, <2>3 DEF Call
  <2>5. disturbed' \in BOOLEAN
    BY <2>2
  <2>6. UNCHANGED <<log, cursorFile, cursors, pending, clock, covered>>
    BY <1>11 DEF Rebuild
  <2> HIDE DEF replayed
  <2> QED
    BY <2>2, <2>4, <2>5, <2>6 DEF Go
<1>12. ASSUME NEW g \in Procs, Install(g)
       PROVE  TypeInv'
  <2>1. call[g].copy \in Cursors /\ call[g].pending \in Pending
    BY <1>12, CallType DEF Install
  <2>2. Idle \in Call
    BY DEF Idle, Call
  <2> QED
    BY <1>12, <2>1, <2>2 DEF Install, Go
<1>13. ASSUME NEW g \in Procs, GiveUp(g)
       PROVE  TypeInv'
  <2>1. Idle \in Call
    BY DEF Idle, Call
  <2> QED
    BY <1>13, <2>1 DEF GiveUp, Go
<1>14. CASE Restart
  <2>1. Idle \in Call
    BY DEF Idle, Call
  <2>2. NoCursors \in Cursors /\ NoPending \in Pending
    BY DEF NoCursors, NoPending, Cursors, Pending
  <2>3. cursors' \in Cursors
    BY <1>14, <2>2 DEF Restart
  <2>4. rebuildPending(log, cursors') \in Pending
    BY <2>3, RebuildType
  <2>5. pending' \in Pending /\ disturbed' \in BOOLEAN
    BY <1>14, <2>2, <2>4 DEF Restart
  <2> QED
    BY <1>14, <2>1, <2>3, <2>5 DEF Restart
<1>15. CASE UNCHANGED vars
  BY <1>15 DEF vars
<1> QED
  BY <1>1, <1>2, <1>3, <1>4, <1>5, <1>6, <1>7, <1>8, <1>9, <1>10, <1>11, <1>12, <1>13, <1>14,
     <1>15, NextCases

LEMMA TypeInit == Init => TypeInv
<1> SUFFICES ASSUME Init PROVE TypeInv
  OBVIOUS
<1>1. NoCursors \in Cursors /\ NoPending \in Pending
  BY DEF NoCursors, NoPending, Cursors, Pending
<1>2. Idle \in Call
  BY DEF Idle, Call
<1>3. clock \in (Start - 1) .. MaxTime
  BY ClockAssumption DEF Init
<1>4. covered \in [Backends -> {0} \cup (Start - 1) .. MaxTime]
  BY DEF Init, NoCursors
<1>5. log \in Seq(Entry)
  BY DEF Init
<1> QED
  BY <1>1, <1>2, <1>3, <1>4, <1>5 DEF Init, TypeInv

\* The log, the cursors, the pending sets and the calls in flight stay well-formed.
THEOREM TypeCorrect == Spec => []TypeInv
  BY TypeInit, TypeStep, PTL DEF Spec

----------------------------------------------------------------------------
(* Cursors and pending changes are backed by the log *)

\* A log that keeps its entries keeps every reason found in it.
LEMMA LogGrows ==
    ASSUME \A i \in 1 .. Len(log) : i \in 1 .. Len(log') /\ log'[i] = log[i]
    PROVE  /\ \A b, ts : Marked(b, ts) => Marked(b, ts)'
           /\ \A pend : Explained(pend) => Explained(pend)'
  BY DEF Marked, Explained

\* No step rewrites the log.
LEMMA LogKeeps ==
    ASSUME TypeInv, [Next]_vars
    PROVE  \A i \in 1 .. Len(log) : i \in 1 .. Len(log') /\ log'[i] = log[i]
<1>1. ASSUME NEW g \in Procs, appendEntry(g)
      PROVE  \A i \in 1 .. Len(log) : i \in 1 .. Len(log') /\ log'[i] = log[i]
  <2>1. call[g].entry \in Entry
    BY <1>1, CallType DEF appendEntry
  <2> QED
    BY <1>1, <2>1, AppendKeeps DEF appendEntry, TypeInv
<1>2. CASE log' = log
  BY <1>2 DEF TypeInv
<1> QED
  BY <1>1, <1>2, NextCases
  DEF RecordOp, PushCollect, RecordRemoteSeen, Configure, RecordSync, ApplyOp, ApplySync,
      saveCursors, loadCursors, Rebuild, Install, GiveUp, Restart, vars

LEMMA BackedStep ==
    ASSUME IInv, [Next]_vars
    PROVE  CursorBacked' /\ PendingBacked' /\ Carried'
<1> USE DEF IInv
<1>0. /\ \A b, ts : Marked(b, ts) => Marked(b, ts)'
      /\ \A pend : Explained(pend) => Explained(pend)'
  BY LogKeeps, LogGrows
<1>a. \A i \in 1 .. Len(log) : i \in 1 .. Len(log') /\ log'[i] = log[i]
  BY LogKeeps
<1>b. Explained(NoPending)'
  BY DEF Explained, NoPending
<1>1. ASSUME NEW g \in Procs, NEW c,
             call' = [call EXCEPT ![g] = c],
             c.step \notin {"save", "rebuild", "install", "apply"},
             cursorFile' = cursorFile, cursors' = cursors, pending' = pending
      PROVE  CursorBacked' /\ PendingBacked' /\ Carried'
  <2>1. \A h \in Procs : call'[h] = IF h = g THEN c ELSE call[h]
    BY <1>1 DEF TypeInv
  <2>2. CursorBacked'
    BY <1>0, <1>1, <2>1 DEF CursorBacked
  <2>3. PendingBacked'
    BY <1>0, <1>1 DEF PendingBacked
  <2>4. Carried'
    BY <1>0, <1>a, <1>1, <2>1 DEF Carried
  <2> QED
    BY <2>2, <2>3, <2>4
<1>2. ASSUME NEW g \in Procs, NEW op \in FileOps \cup {"revert"}, NEW p \in Paths, RecordOp(g, op, p)
      PROVE  CursorBacked' /\ PendingBacked' /\ Carried'
  BY <1>1, <1>2 DEF RecordOp, Enter, Go
<1>3. ASSUME NEW g \in Procs, NEW b \in Backends, PushCollect(g, b)
      PROVE  CursorBacked' /\ PendingBacked' /\ Carried'
  BY <1>1, <1>3 DEF PushCollect, Enter, Go
<1>4. ASSUME NEW g \in Procs, RecordRemoteSeen(g)
      PROVE  CursorBacked' /\ PendingBacked' /\ Carried'
  <2>1. \A h \in Procs : call'[h] = IF h = g THEN [step |-> "save", copy |-> cursors] ELSE call[h]
    BY <1>4 DEF TypeInv, RecordRemoteSeen, Enter, Go
  <2>2. CursorBacked'
    BY <1>0, <1>4, <2>1 DEF CursorBacked, RecordRemoteSeen
  <2>3. PendingBacked'
    BY <1>0, <1>4 DEF PendingBacked, RecordRemoteSeen
  <2>4. Carried'
    BY <1>0, <1>a, <2>1 DEF Carried
  <2> QED
    BY <2>2, <2>3, <2>4
<1>5. ASSUME NEW g \in Procs, Configure(g)
      PROVE  CursorBacked' /\ PendingBacked' /\ Carried'
  <2>1. \A h \in Procs : call'[h] = IF h = g THEN [step |-> "load"] ELSE call[h]
    BY <1>5 DEF TypeInv, Configure, Enter, Go
  <2>2. CursorBacked'
    BY <1>0, <1>5, <2>1 DEF CursorBacked, Configure, NoCursors, Marked
  <2>3. PendingBacked'
    BY <1>b, <1>5 DEF PendingBacked, Configure
  <2>4. Carried'
    BY <1>0, <1>a, <2>1 DEF Carried
  <2> QED
    BY <2>2, <2>3, <2>4
<1>6. ASSUME NEW g \in Procs, RecordSync(g)
      PROVE  CursorBacked' /\ PendingBacked' /\ Carried'
  BY <1>1, <1>6 DEF RecordSync, Go
<1>7. ASSUME NEW g \in Procs, appendEntry(g)
      PROVE  CursorBacked' /\ PendingBacked' /\ Carried'
  <2>1. call[g].entry \in Entry
    BY <1>7, CallType DEF appendEntry
  <2>2. \A h \in Procs : call'[h] = IF h = g THEN [step |-> "apply", entry |-> call[g].entry] ELSE call[h]
    BY <1>7 DEF TypeInv, appendEntry, Go
  <2>3. \E i \in 1 .. Len(log') : log'[i] = call[g].entry
    BY <1>7, <2>1, AppendKeeps DEF appendEntry, TypeInv
  <2>4. CursorBacked'
    BY <1>0, <1>7, <2>2 DEF CursorBacked, appendEntry
  <2>5. PendingBacked'
    BY <1>0, <1>7 DEF PendingBacked, appendEntry
  <2>6. Carried'
    BY <1>0, <1>a, <2>2, <2>3 DEF Carried
  <2> QED
    BY <2>4, <2>5, <2>6
<1>8. ASSUME NEW g \in Procs, ApplyOp(g)
      PROVE  CursorBacked' /\ PendingBacked' /\ Carried'
  <2>1. call[g].entry \in Entry /\ call[g].entry.op # "sync"
    BY <1>8, CallType DEF ApplyOp
  <2>2. \A h \in Procs : call'[h] = IF h = g THEN Idle ELSE call[h]
    BY <1>8 DEF TypeInv, ApplyOp, Go
  <2>3. PICK i \in 1 .. Len(log) : log[i] = call[g].entry
    BY <1>8 DEF Carried, ApplyOp
  <2>4. PendingBacked'
    BY <1>8, <2>1, <2>3, ApplyType DEF PendingBacked, Explained, ApplyOp, TypeInv
  <2>5. CursorBacked'
    BY <1>0, <1>8, <2>2 DEF CursorBacked, ApplyOp, Idle
  <2>6. Carried'
    BY <1>0, <1>a, <2>2 DEF Carried, Idle
  <2> QED
    BY <2>4, <2>5, <2>6
<1>9. ASSUME NEW g \in Procs, ApplySync(g)
      PROVE  CursorBacked' /\ PendingBacked' /\ Carried'
  <2>1. call[g].entry \in Entry /\ call[g].entry.op = "sync"
    BY <1>9, CallType DEF ApplySync
  <2>2. \A h \in Procs : call'[h] = IF h = g THEN [step |-> "save", copy |-> cursors'] ELSE call[h]
    BY <1>9 DEF TypeInv, ApplySync, Go
  <2>3. PICK i \in 1 .. Len(log) : log[i] = call[g].entry
    BY <1>9 DEF Carried, ApplySync
  <2>4. /\ Marked(log[i].backend, log[i].ts)
        /\ \A b \in Backends : cursors'[b] = cursors[b] \/ (b = log[i].backend /\ cursors'[b] = log[i].ts)
    BY <1>9, <2>1, <2>3 DEF Marked, ApplySync, TypeInv, Cursors
  <2>a. \A b \in Backends : Marked(b, cursors'[b])
    BY <2>4 DEF CursorBacked
  <2>b. log' = log /\ cursorFile' = cursorFile
    BY <1>9 DEF ApplySync
  <2>5. CursorBacked'
    BY <2>2, <2>a, <2>b DEF CursorBacked, Marked
  <2>6. PendingBacked'
    BY <1>0, <1>9 DEF PendingBacked, Explained, ApplySync, NoPending, TypeInv, Pending
  <2>7. Carried'
    BY <1>0, <1>a, <2>2 DEF Carried
  <2> QED
    BY <2>5, <2>6, <2>7
<1>10. ASSUME NEW g \in Procs, saveCursors(g)
       PROVE  CursorBacked' /\ PendingBacked' /\ Carried'
  <2>2. \A h \in Procs : call'[h] = IF h = g THEN Idle ELSE call[h]
    BY <1>10 DEF TypeInv, saveCursors, Go
  <2>3. CursorBacked'
    BY <1>0, <1>10, <2>2 DEF CursorBacked, saveCursors, Idle
  <2>4. PendingBacked'
    BY <1>0, <1>10 DEF PendingBacked, saveCursors
  <2>5. Carried'
    BY <1>0, <1>a, <2>2 DEF Carried, Idle
  <2> QED
    BY <2>3, <2>4, <2>5
<1>11. ASSUME NEW g \in Procs, loadCursors(g)
       PROVE  CursorBacked' /\ PendingBacked' /\ Carried'
  <2>1. PICK cs \in {cursorFile, NoCursors} : Go(g, [step |-> "rebuild", copy |-> cs])
    BY <1>11 DEF loadCursors
  <2>2. \A h \in Procs : call'[h] = IF h = g THEN [step |-> "rebuild", copy |-> cs] ELSE call[h]
    BY <2>1 DEF TypeInv, Go
  <2>a. \A b \in Backends : Marked(b, cs[b])
    BY DEF CursorBacked, NoCursors, Marked
  <2>3. CursorBacked'
    BY <1>0, <1>11, <2>2, <2>a DEF CursorBacked, loadCursors
  <2>4. PendingBacked'
    BY <1>0, <1>11 DEF PendingBacked, loadCursors
  <2>5. Carried'
    BY <1>0, <1>a, <2>2 DEF Carried
  <2> QED
    BY <2>3, <2>4, <2>5
<1>12. \A cs : Explained(rebuildPending(log, cs))
  BY RebuildExplained DEF Explained, TypeInv
<1>13. ASSUME NEW g \in Procs, Rebuild(g)
       PROVE  CursorBacked' /\ PendingBacked' /\ Carried'
  <2>1. PICK pend \in {rebuildPending(log, call[g].copy), NoPending} :
          Go(g, [step |-> "install", copy |-> call[g].copy, pending |-> pend])
    BY <1>13 DEF Rebuild
  <2>2. \A h \in Procs : call'[h] = IF h = g THEN [step |-> "install", copy |-> call[g].copy,
                                                   pending |-> pend]
                                    ELSE call[h]
    BY <2>1 DEF TypeInv, Go
  <2>a. Explained(pend)'
    BY <1>0, <1>b, <1>12, <2>1
  <2>3. CursorBacked'
    BY <1>0, <1>13, <2>2 DEF CursorBacked, Rebuild
  <2>4. PendingBacked'
    BY <1>0, <1>13 DEF PendingBacked, Rebuild
  <2>5. Carried'
    BY <1>0, <1>a, <2>2, <2>a DEF Carried
  <2> QED
    BY <2>3, <2>4, <2>5
<1>14. ASSUME NEW g \in Procs, Install(g)
       PROVE  CursorBacked' /\ PendingBacked' /\ Carried'
  <2>2. \A h \in Procs : call'[h] = IF h = g THEN Idle ELSE call[h]
    BY <1>14 DEF TypeInv, Install, Go
  <2>3. CursorBacked'
    BY <1>0, <1>14, <2>2 DEF CursorBacked, Install, Idle
  <2>4. PendingBacked'
    BY <1>0, <1>14 DEF PendingBacked, Carried, Install
  <2>5. Carried'
    BY <1>0, <1>a, <2>2 DEF Carried, Idle
  <2> QED
    BY <2>3, <2>4, <2>5
<1>15. ASSUME NEW g \in Procs, GiveUp(g)
       PROVE  CursorBacked' /\ PendingBacked' /\ Carried'
  BY <1>1, <1>15 DEF GiveUp, Go, Idle
<1>16. CASE Restart
  <2>0. /\ cursors' \in {cursorFile, NoCursors} /\ cursorFile' = cursorFile /\ log' = log
        /\ pending' = rebuildPending(log, cursors') \/ pending' = NoPending
        /\ \A h \in Procs : call'[h] = Idle
    BY <1>16 DEF Restart
  <2>1. \A b \in Backends : Marked(b, cursors'[b])
    BY <2>0 DEF CursorBacked, NoCursors, Marked
  <2>2. CursorBacked'
    BY <1>0, <2>0, <2>1 DEF CursorBacked, Idle, Marked
  <2>3. \A cs : pending' = rebuildPending(log, cs) => PendingBacked'
    BY <1>12, <2>0 DEF PendingBacked, Explained
  <2>4. PendingBacked'
    <3>1. CASE pending' = NoPending
      BY <1>b, <2>0, <3>1 DEF PendingBacked, Explained
    <3> QED
      BY <2>0, <2>3, <3>1
  <2>5. Carried'
    BY <2>0 DEF Carried, Idle
  <2> QED
    BY <2>2, <2>4, <2>5
<1>17. CASE UNCHANGED vars
  BY <1>17 DEF vars, CursorBacked, PendingBacked, Carried, Marked, Explained
<1> QED
  BY <1>2, <1>3, <1>4, <1>5, <1>6, <1>7, <1>8, <1>9, <1>10, <1>11, <1>13, <1>14, <1>15, <1>16,
     <1>17, NextCases

LEMMA InvInit == Init => IInv
  BY TypeInit
  DEF Init, IInv, CursorBacked, PendingBacked, Carried, Marked, Explained, NoCursors, NoPending, Idle

LEMMA InvHolds == Spec => []IInv
<1>1. IInv /\ [Next]_vars => IInv'
  BY TypeStep, BackedStep DEF IInv
<1> QED
  BY InvInit, <1>1, PTL DEF Spec

\* A cursor on disk, in memory or on its way has its sync marker in the log.
THEOREM CursorsAreBacked == Spec => []CursorBacked
  BY InvHolds, PTL DEF IInv

\* Every pending change is explained by an entry of the log.
THEOREM PendingIsBacked == Spec => []PendingBacked
  BY InvHolds, PTL DEF IInv
----------------------------------------------------------------------------
(* What a restart rebuilds *)

\* The stamps' strings are ordered as the stamps are: none of them, or all, lost a zero.
OrderedStamps == \A s, t \in Stamps : s < t => StampKey(s) < StampKey(t)

\* No stamp is later than the clock.
Dated ==
    /\ \A i \in 1 .. Len(log) : log[i].ts <= clock
    /\ \A b \in Backends : cursorFile[b] <= clock /\ cursors[b] <= clock
    /\ \A g \in Procs :
        /\ call[g].step \in {"append", "apply"} => call[g].entry.ts <= clock
        /\ call[g].step \in {"save", "rebuild", "install"} => \A b \in Backends : call[g].copy[b] <= clock

OneCall == \A g, h \in Procs : call[g].step # "idle" /\ call[h].step # "idle" => g = h

\* Memory is what a restart would make of the files.
Replayed == pending = rebuildPending(log, cursorFile) /\ cursors = cursorFile

\* What the call of g, the only one, has still to do for that.
Replays(g) ==
    LET c == call[g] IN
    /\ c.step = "push" => Replayed
    /\ c.step = "append" =>
        /\ Replayed /\ c.entry.ts = clock
        /\ c.entry.op # "sync" => \A b \in Backends : cursorFile[b] < c.entry.ts
    /\ c.step = "apply" =>
        /\ cursors = cursorFile
        /\ IF c.entry.op = "sync"
           THEN [pending EXCEPT ![c.entry.backend] = NoPending[c.entry.backend]]
                   = rebuildPending(log, [cursorFile EXCEPT ![c.entry.backend] = c.entry.ts])
           ELSE applyEntry(c.entry) = rebuildPending(log, cursorFile)
    /\ c.step = "save" => pending = rebuildPending(log, c.copy) /\ cursors = c.copy
    /\ c.step \in {"rebuild", "install"} => c.copy = cursorFile
    /\ c.step = "install" => c.pending = rebuildPending(log, cursorFile)

\* The inductive invariant of RestartTransparent.
RInv ==
    /\ TypeInv /\ Dated
    /\ ~ disturbed => OneCall /\ (Quiet => Replayed) /\ \A g \in Procs : Replays(g)

\* The stamps order their strings, so what is newer than a cursor does not count as synced.
LEMMA SyncedIs ==
    ASSUME OrderedStamps, NEW s \in Stamps, NEW c \in {0} \cup Stamps, NEW e, e.ts = s
    PROVE  /\ c < s => ~ Synced(e, c)
           /\ c # 0 /\ s <= c => Synced(e, c)
<1>1. s \in Nat /\ \A t \in Stamps : t \in Nat /\ t # 0 /\ StampKey(t) \in Int
  BY ClockAssumption DEF Stamps, StampKey
<1>2. c # 0 /\ c < s => StampKey(c) < StampKey(s)
  BY <1>1 DEF OrderedStamps
<1>3. c # 0 /\ s < c => StampKey(s) < StampKey(c)
  BY <1>1 DEF OrderedStamps
<1>4. c # 0 => StampKey(c) \in Int
  BY <1>1
<1>5. s = c => StampKey(s) = StampKey(c)
  OBVIOUS
<1> HIDE DEF StampKey
<1>6. c \in Nat /\ (s <= c <=> s < c \/ s = c)
  BY <1>1
<1> QED
  BY <1>1, <1>2, <1>3, <1>4, <1>5, <1>6 DEF Synced

\* An operation that is appended counts, and is the last one on its path.
LEMMA DecidingAppend ==
    ASSUME NEW l \in Seq(Entry), NEW e \in Entry, NEW c, NEW p \in Paths
    PROVE  /\ e.op = "sync" \/ e.path # p => Deciding(Append(l, e), c, p) = Deciding(l, c, p)
           /\ e.op # "sync" /\ e.path = p /\ ~ Synced(e, c) => Deciding(Append(l, e), c, p) = {Len(l) + 1}
<1> DEFINE m == Append(l, e)
<1>1. /\ m \in Seq(Entry) /\ Len(m) = Len(l) + 1 /\ Len(l) \in Nat
      /\ \A i \in 1 .. Len(l) : i \in 1 .. Len(m) /\ m[i] = l[i]
      /\ m[Len(l) + 1] = e
  BY AppendKeeps
<1> HIDE DEF m
<1>2. \A i : i \in 1 .. Len(m) <=> i \in 1 .. Len(l) \/ i = Len(l) + 1
  BY <1>1
<1>3. ASSUME e.op = "sync" \/ e.path # p
      PROVE  Counting(m, c, p) = Counting(l, c, p)
  BY <1>1, <1>2, <1>3 DEF Counting
<1>4. ASSUME e.op # "sync", e.path = p, ~ Synced(e, c)
      PROVE  Counting(m, c, p) = Counting(l, c, p) \cup {Len(l) + 1}
  BY <1>1, <1>2, <1>4 DEF Counting
<1>5. ASSUME e.op # "sync", e.path = p, ~ Synced(e, c)
      PROVE  Deciding(m, c, p) = {Len(l) + 1}
  <2>1. \A i \in Counting(l, c, p) : i \in 1 .. Len(l)
    BY DEF Counting
  <2> QED
    BY <1>1, <1>4, <1>5, <2>1 DEF Deciding
<1>6. e.op = "sync" \/ e.path # p => Deciding(m, c, p) = Deciding(l, c, p)
  BY <1>3 DEF Deciding
<1> QED
  BY <1>5, <1>6 DEF m

\* What decides is in the log.
LEMMA DecidingIn ==
    ASSUME NEW l, NEW c, NEW p
    PROVE  \A i \in Deciding(l, c, p) : i \in 1 .. Len(l)
BY DEF Deciding, Counting

\* What rebuildPending gives for one backend and one path.
Rebuilt(l, c, p) ==
    LET D == Deciding(l, c, p)
    IN  IF \E i \in D : l[i].op # "revert" THEN l[CHOOSE i \in D : TRUE].op ELSE None

LEMMA RebuiltIs ==
    ASSUME NEW l, NEW cs
    PROVE  rebuildPending(l, cs) = [b \in Backends |-> [p \in Paths |-> Rebuilt(l, cs[b], p)]]
BY DEF rebuildPending, Rebuilt

LEMMA RebuiltAppend ==
    ASSUME NEW l \in Seq(Entry), NEW e \in Entry, NEW c, NEW p \in Paths
    PROVE  /\ e.op = "sync" \/ e.path # p => Rebuilt(Append(l, e), c, p) = Rebuilt(l, c, p)
           /\ e.op # "sync" /\ e.path = p /\ ~ Synced(e, c) =>
                Rebuilt(Append(l, e), c, p) = IF e.op = "revert" THEN None ELSE e.op
<1> DEFINE m == Append(l, e)
<1>1. /\ \A i \in 1 .. Len(l) : m[i] = l[i]
      /\ m[Len(l) + 1] = e
  BY AppendKeeps
<1>a. /\ e.op = "sync" \/ e.path # p => Deciding(m, c, p) = Deciding(l, c, p)
      /\ e.op # "sync" /\ e.path = p /\ ~ Synced(e, c) => Deciding(m, c, p) = {Len(l) + 1}
  BY DecidingAppend
<1> HIDE DEF m
<1>2. ASSUME e.op = "sync" \/ e.path # p
      PROVE  Rebuilt(m, c, p) = Rebuilt(l, c, p)
  <2> DEFINE D == Deciding(l, c, p)
             i == CHOOSE j \in D : TRUE
  <2>1. Deciding(m, c, p) = D
    BY <1>2, <1>a
  <2>2. \A j \in D : m[j] = l[j]
    BY <1>1, DecidingIn
  <2>3. D # {} => i \in D
    OBVIOUS
  <2>4. Rebuilt(m, c, p) = IF \E j \in D : m[j].op # "revert" THEN m[i].op ELSE None
    BY <2>1 DEF Rebuilt
  <2>5. Rebuilt(l, c, p) = IF \E j \in D : l[j].op # "revert" THEN l[i].op ELSE None
    BY DEF Rebuilt
  <2> HIDE DEF D, i
  <2> QED
    BY <2>2, <2>3, <2>4, <2>5
<1>3. ASSUME e.op # "sync", e.path = p, ~ Synced(e, c)
      PROVE  Rebuilt(m, c, p) = IF e.op = "revert" THEN None ELSE e.op
  <2> DEFINE k == Len(l) + 1
  <2>1. Deciding(m, c, p) = {k}
    BY <1>3, <1>a
  <2>2. (CHOOSE j \in {k} : TRUE) = k
    OBVIOUS
  <2>3. m[k] = e
    BY <1>1
  <2> HIDE DEF k
  <2> QED
    BY <2>1, <2>2, <2>3 DEF Rebuilt
<1> QED
  BY <1>2, <1>3 DEF m

\* A file operation newer than every cursor: applying it is replaying it.
LEMMA ReplayOp ==
    ASSUME NEW l \in Seq(Entry), NEW e \in Entry, e.op # "sync", NEW cs,
           \A b \in Backends : ~ Synced(e, cs[b]),
           pending = rebuildPending(l, cs)
    PROVE  applyEntry(e) = rebuildPending(Append(l, e), cs)
<1>1. e.path \in Paths
  BY DEF Entry, FileOps
<1>2. \A b \in Backends : pending[b] = [p \in Paths |-> Rebuilt(l, cs[b], p)]
  BY RebuiltIs
<1>3. ASSUME NEW b \in Backends
      PROVE  [pending[b] EXCEPT ![e.path] = IF e.op = "revert" THEN None ELSE e.op]
                = [p \in Paths |-> Rebuilt(Append(l, e), cs[b], p)]
  <2>1. \A p \in Paths : Rebuilt(Append(l, e), cs[b], p)
           = IF p = e.path THEN IF e.op = "revert" THEN None ELSE e.op ELSE Rebuilt(l, cs[b], p)
    BY RebuiltAppend
  <2>2. pending[b] = [p \in Paths |-> Rebuilt(l, cs[b], p)]
    BY <1>2
  <2> QED
    BY <1>1, <2>1, <2>2
<1>4. rebuildPending(Append(l, e), cs)
        = [b \in Backends |-> [p \in Paths |-> Rebuilt(Append(l, e), cs[b], p)]]
  BY RebuiltIs
<1> QED
  BY <1>3, <1>4 DEF applyEntry

\* Nothing that is synced decides.
LEMMA SyncedNone ==
    ASSUME NEW l, NEW c, NEW p, \A i \in 1 .. Len(l) : l[i].op = "sync" \/ Synced(l[i], c)
    PROVE  Rebuilt(l, c, p) = None
BY DEF Rebuilt, Deciding, Counting

\* A sync marker no older than the log: clearing the backend's pending changes is
\* replaying it.
LEMMA ReplaySync ==
    ASSUME NEW l \in Seq(Entry), NEW e \in Entry, e.op = "sync", NEW cs \in Cursors,
           \A i \in 1 .. Len(l) : l[i].op = "sync" \/ Synced(l[i], e.ts),
           pending = rebuildPending(l, cs)
    PROVE  [pending EXCEPT ![e.backend] = NoPending[e.backend]]
              = rebuildPending(Append(l, e), [cs EXCEPT ![e.backend] = e.ts])
<1> DEFINE d == [cs EXCEPT ![e.backend] = e.ts]
<1>1. e.backend \in Backends
  BY DEF Entry, FileOps
<1>2. pending = [b \in Backends |-> [p \in Paths |-> Rebuilt(l, cs[b], p)]]
  BY RebuiltIs
<1>3. \A b \in Backends : d[b] = IF b = e.backend THEN e.ts ELSE cs[b]
  BY DEF Cursors
<1>4. rebuildPending(Append(l, e), d) = [b \in Backends |-> [p \in Paths |-> Rebuilt(Append(l, e), d[b], p)]]
  BY RebuiltIs
<1>5. \A b \in Backends, p \in Paths : Rebuilt(Append(l, e), d[b], p) = Rebuilt(l, d[b], p)
  BY RebuiltAppend
<1>6. \A p \in Paths : Rebuilt(l, e.ts, p) = None
  BY SyncedNone
<1> HIDE DEF d
<1>7. ASSUME NEW b \in Backends
      PROVE  [pending EXCEPT ![e.backend] = NoPending[e.backend]][b]
                = [p \in Paths |-> Rebuilt(Append(l, e), d[b], p)]
  <2>1. CASE b = e.backend
    BY <1>1, <1>2, <1>3, <1>5, <1>6, <2>1 DEF NoPending
  <2>2. CASE b # e.backend
    BY <1>1, <1>2, <1>3, <1>5, <2>2
  <2> QED
    BY <2>1, <2>2
<1>8. [pending EXCEPT ![e.backend] = NoPending[e.backend]]
        = [b \in Backends |-> [pending EXCEPT ![e.backend] = NoPending[e.backend]][b]]
  BY <1>2
<1> QED
  BY <1>4, <1>7, <1>8 DEF d

----------------------------------------------------------------------------
(* ... is what memory has *)

\* A call that starts found no other, if it disturbs nothing.
LEMMA EnterAlone ==
    ASSUME TypeInv, NEW g \in Procs, NEW c, Enter(g, c)
    PROVE  /\ ~ disturbed' => ~ disturbed /\ Quiet
           /\ \A h \in Procs : call'[h] = IF h = g THEN c ELSE call[h]
BY DEF Enter, Go, TypeInv

\* The state a step leaves to the call of g, the others at rest.
LEMMA OnlyCall ==
    ASSUME NEW g \in Procs, NEW c, \A h \in Procs : call'[h] = IF h = g THEN c ELSE call[h],
           \A h \in Procs : h # g => call[h].step = "idle"
    PROVE  /\ OneCall'
           /\ Quiet' <=> c.step = "idle"
           /\ \A h \in Procs : h # g => Replays(h)'
BY DEF OneCall, Quiet, Replays

LEMMA DatedStep ==
    ASSUME TypeInv, Dated, [Next]_vars
    PROVE  Dated'
<1> USE ClockAssumption
<1>0. /\ clock \in Int /\ \A i \in 1 .. Len(log) : log[i].ts \in Int
      /\ \A b \in Backends : cursorFile[b] \in Int /\ cursors[b] \in Int
      /\ \A g \in Procs :
          /\ call[g].step \in {"append", "apply"} => call[g].entry.ts \in Int
          /\ call[g].step \in {"save", "rebuild", "install"} => \A b \in Backends : call[g].copy[b] \in Int
  <2>1. \A e \in Entry : e.ts \in Int
    BY DEF Entry, Stamps
  <2>2. \A cs \in Cursors, b \in Backends : cs[b] \in Int
    BY DEF Cursors, Stamps
  <2> QED
    BY <2>1, <2>2, CallType DEF TypeInv
<1>1. ASSUME NEW g \in Procs, NEW c, \A h \in Procs : call'[h] = IF h = g THEN c ELSE call[h],
             log' = log, cursorFile' = cursorFile, cursors' = cursors, clock' \in Int, clock <= clock',
             c.step \in {"append", "apply"} => c.entry.ts <= clock',
             c.step \in {"save", "rebuild", "install"} => \A b \in Backends : c.copy[b] <= clock'
      PROVE  Dated'
  BY <1>0, <1>1 DEF Dated
<1>2. ASSUME NEW g \in Procs, NEW op \in FileOps \cup {"revert"}, NEW p \in Paths, RecordOp(g, op, p)
      PROVE  Dated'
  BY <1>0, <1>1, <1>2, EnterAlone DEF RecordOp, Tick, Now
<1>3. ASSUME NEW g \in Procs, NEW b \in Backends, PushCollect(g, b)
      PROVE  Dated'
  BY <1>0, <1>1, <1>3, EnterAlone DEF PushCollect
<1>4. ASSUME NEW g \in Procs, RecordRemoteSeen(g)
      PROVE  Dated'
  BY <1>0, <1>1, <1>4, EnterAlone DEF RecordRemoteSeen, Dated
<1>5. ASSUME NEW g \in Procs, Configure(g)
      PROVE  Dated'
  <2>1. \A h \in Procs : call'[h] = IF h = g THEN [step |-> "load"] ELSE call[h]
    BY <1>5, EnterAlone DEF Configure
  <2>2. \A b \in Backends : cursors'[b] <= clock
    BY <1>0, <1>5 DEF Configure, NoCursors, TypeInv
  <2> QED
    BY <1>5, <2>1, <2>2 DEF Configure, Dated
<1>6. ASSUME NEW g \in Procs, RecordSync(g)
      PROVE  Dated'
  BY <1>0, <1>1, <1>6 DEF RecordSync, Tick, Now, Go, TypeInv
<1>7. ASSUME NEW g \in Procs, appendEntry(g)
      PROVE  Dated'
  <2>1. \A h \in Procs : call'[h] = IF h = g THEN [step |-> "apply", entry |-> call[g].entry] ELSE call[h]
    BY <1>7 DEF appendEntry, Go, TypeInv
  <2>2. call[g].entry \in Entry /\ call[g].entry.ts <= clock
    BY <1>7, CallType DEF appendEntry, Dated
  <2>3. \A i \in 1 .. Len(log') : (i \in 1 .. Len(log) /\ log'[i] = log[i]) \/ log'[i] = call[g].entry
    BY <1>7, <2>2 DEF appendEntry, TypeInv
  <2>4. \A i \in 1 .. Len(log') : log'[i].ts <= clock
    BY <2>2, <2>3 DEF Dated
  <2> QED
    BY <1>7, <2>1, <2>2, <2>4 DEF appendEntry, Dated
<1>8. ASSUME NEW g \in Procs, ApplyOp(g) \/ loadCursors(g) \/ Rebuild(g) \/ GiveUp(g)
      PROVE  Dated'
  <2>b. 0 <= clock
    BY DEF TypeInv
  <2>1. PICK c : /\ \A h \in Procs : call'[h] = IF h = g THEN c ELSE call[h]
                 /\ c.step \notin {"append", "apply"}
                 /\ c.step \in {"save", "rebuild", "install"} => \A b \in Backends : c.copy[b] <= clock
    <3>1. CASE ApplyOp(g) \/ GiveUp(g)
      BY <3>1 DEF ApplyOp, GiveUp, Go, Idle, TypeInv
    <3>2. CASE loadCursors(g)
      <4>1. PICK cs \in {cursorFile, NoCursors} : Go(g, [step |-> "rebuild", copy |-> cs])
        BY <3>2 DEF loadCursors
      <4>2. \A b \in Backends : cs[b] <= clock
        BY <2>b DEF Dated, NoCursors
      <4> QED
        BY <4>1, <4>2 DEF Go, TypeInv
    <3>3. CASE Rebuild(g)
      <4>1. call[g].step = "rebuild" /\ \A b \in Backends : call[g].copy[b] <= clock
        BY <3>3 DEF Rebuild, Dated
      <4>2. PICK pend : Go(g, [step |-> "install", copy |-> call[g].copy, pending |-> pend])
        BY <3>3 DEF Rebuild
      <4> QED
        BY <4>1, <4>2 DEF Go, TypeInv
    <3> QED
      BY <1>8, <3>1, <3>2, <3>3
  <2>2. log' = log /\ cursorFile' = cursorFile /\ cursors' = cursors /\ clock' = clock
    BY <1>8 DEF ApplyOp, loadCursors, Rebuild, GiveUp
  <2> QED
    BY <1>0, <1>1, <2>1, <2>2
<1>9. ASSUME NEW g \in Procs, ApplySync(g)
      PROVE  Dated'
  <2>1. call[g].entry \in Entry /\ call[g].entry.ts <= clock /\ call[g].entry.backend \in Backends
    BY <1>9, CallType DEF ApplySync, Dated, Entry, FileOps
  <2>2. \A b \in Backends : cursors'[b] <= clock
    BY <1>9, <2>1 DEF ApplySync, Dated, TypeInv, Cursors
  <2>3. \A h \in Procs : call'[h] = IF h = g THEN [step |-> "save", copy |-> cursors'] ELSE call[h]
    BY <1>9 DEF ApplySync, Go, TypeInv
  <2>4. /\ call'[g].step = "save" /\ call'[g].copy = cursors'
        /\ \A h \in Procs : h # g => call'[h] = call[h]
    BY <2>3
  <2>5. log' = log /\ clock' = clock /\ cursorFile' = cursorFile
    BY <1>9 DEF ApplySync
  <2> QED
    BY <2>2, <2>4, <2>5 DEF Dated
<1>10. ASSUME NEW g \in Procs, saveCursors(g) \/ Install(g)
       PROVE  Dated'
  <2>1. \A h \in Procs : call'[h] = IF h = g THEN Idle ELSE call[h]
    BY <1>10 DEF saveCursors, Install, Go, TypeInv
  <2>2. \A b \in Backends : cursors'[b] <= clock /\ cursorFile'[b] <= clock
    BY <1>10 DEF saveCursors, Install, Dated
  <2>3. log' = log /\ clock' = clock
    BY <1>10 DEF saveCursors, Install
  <2> QED
    BY <2>1, <2>2, <2>3 DEF Dated, Idle
<1>11. CASE Restart
  <2>1. \A b \in Backends : cursors'[b] <= clock
    BY <1>11 DEF Restart, Dated, NoCursors, TypeInv
  <2> QED
    BY <1>11, <2>1 DEF Restart, Dated, Idle
<1>12. CASE UNCHANGED vars
  BY <1>12 DEF vars, Dated
<1> QED
  BY <1>2, <1>3, <1>4, <1>5, <1>6, <1>7, <1>8, <1>9, <1>10, <1>11, <1>12, NextCases

\* What is replayed after a step that changes neither log, nor cursors, nor pending.
LEMMA ReplayedKeeps ==
    ASSUME UNCHANGED <<log, cursorFile, cursors, pending>>
    PROVE  Replayed' <=> Replayed
BY DEF Replayed

LEMMA ReplayStep ==
    ASSUME OrderedStamps, RInv, Next, ~ disturbed'
    PROVE  OneCall' /\ (Quiet' => Replayed') /\ \A g \in Procs : Replays(g)'
<1> USE DEF RInv
<1> DEFINE Goal == OneCall' /\ (Quiet' => Replayed') /\ \A g \in Procs : Replays(g)'
\* a call that starts
<1>1. ASSUME NEW g \in Procs, NEW c, Enter(g, c)
      PROVE  /\ ~ disturbed /\ Replayed
             /\ call'[g] = c
             /\ OneCall' /\ (Quiet' <=> c.step = "idle") /\ \A h \in Procs : h # g => Replays(h)'
  <2>1. ~ disturbed /\ Quiet /\ \A h \in Procs : call'[h] = IF h = g THEN c ELSE call[h]
    BY <1>1, EnterAlone
  <2>2. \A h \in Procs : h # g => call[h].step = "idle"
    BY <2>1 DEF Quiet
  <2> QED
    BY <2>1, <2>2, OnlyCall
\* a call that goes on
<1>2. ASSUME NEW g \in Procs, NEW c, call[g].step # "idle", Go(g, c), ~ disturbed
      PROVE  /\ Replays(g) /\ call'[g] = c
             /\ OneCall' /\ (Quiet' <=> c.step = "idle") /\ \A h \in Procs : h # g => Replays(h)'
  <2>1. \A h \in Procs : call'[h] = IF h = g THEN c ELSE call[h]
    BY <1>2 DEF Go, TypeInv
  <2>2. \A h \in Procs : h # g => call[h].step = "idle"
    BY <1>2 DEF OneCall
  <2> QED
    BY <1>2, <2>1, <2>2, OnlyCall
<1>3. ASSUME NEW g \in Procs, NEW op \in FileOps \cup {"revert"}, NEW p \in Paths, RecordOp(g, op, p)
      PROVE  Goal
  <2> DEFINE e == [ts |-> Now, op |-> op, path |-> p]
             c == [step |-> "append", entry |-> e]
  <2>1. Enter(g, c) /\ UNCHANGED <<log, cursorFile, cursors, pending>> /\ clock' = Now
    BY <1>3 DEF RecordOp, Tick
  <2>2. \A b \in Backends : cursorFile[b] < Now
    <3>1. \A b \in Backends : cursorFile[b] <= clock /\ cursorFile[b] \in Int /\ clock \in Int
      BY ClockAssumption DEF TypeInv, Cursors, Stamps, Dated
    <3> QED
      BY <3>1 DEF Now
  <2>3. Replayed' /\ call'[g] = c
    BY <1>1, <2>1, ReplayedKeeps
  <2>4. Replays(g)'
    BY <2>1, <2>2, <2>3 DEF Replays
  <2> QED
    BY <1>1, <2>1, <2>3, <2>4
<1>4. ASSUME NEW g \in Procs, NEW b \in Backends, PushCollect(g, b)
      PROVE  Goal
  <2> DEFINE c == [step |-> "push", backend |-> b, mark |-> clock]
  <2>1. Enter(g, c) /\ UNCHANGED <<log, cursorFile, cursors, pending>>
    BY <1>4 DEF PushCollect
  <2>2. Replayed' /\ call'[g] = c
    BY <1>1, <2>1, ReplayedKeeps
  <2>3. Replays(g)'
    BY <2>2 DEF Replays
  <2> QED
    BY <1>1, <2>1, <2>2, <2>3
<1>5. ASSUME NEW g \in Procs, RecordRemoteSeen(g)
      PROVE  Goal
  <2> DEFINE c == [step |-> "save", copy |-> cursors]
  <2>1. Enter(g, c) /\ UNCHANGED <<log, cursorFile, cursors, pending>>
    BY <1>5 DEF RecordRemoteSeen
  <2>2. Replayed' /\ call'[g] = c
    BY <1>1, <2>1, ReplayedKeeps
  <2>3. call'[g].step = "save" /\ call'[g].copy = cursors'
    BY <2>1, <2>2
  <2>4. pending' = rebuildPending(log', cursors')
    BY <2>2 DEF Replayed
  <2>5. Replays(g)'
    BY <2>3, <2>4 DEF Replays
  <2> QED
    BY <1>1, <2>1, <2>2, <2>5
<1>6. ASSUME NEW g \in Procs, Configure(g)
      PROVE  Goal
  <2> DEFINE c == [step |-> "load"]
  <2>1. Enter(g, c)
    BY <1>6 DEF Configure
  <2>2. call'[g] = c
    BY <1>1, <2>1
  <2>3. Replays(g)'
    BY <2>2 DEF Replays
  <2> QED
    BY <1>1, <2>1, <2>2, <2>3
<1>7. ASSUME NEW g \in Procs, RecordSync(g)
      PROVE  Goal
  <2> DEFINE c == [step |-> "append", entry |-> [ts |-> Now, op |-> "sync", backend |-> call[g].backend]]
  <2>1. /\ Go(g, c) /\ UNCHANGED <<log, cursorFile, cursors, pending>> /\ clock' = Now
        /\ call[g].step = "push" /\ ~ disturbed
    BY <1>7 DEF RecordSync, Tick
  <2>2. Replayed' /\ call'[g] = c
    BY <1>2, <2>1, ReplayedKeeps DEF Replays
  <2>3. Replays(g)'
    BY <2>1, <2>2 DEF Replays
  <2> QED
    BY <1>2, <2>1, <2>2, <2>3
<1>8. ASSUME NEW g \in Procs, appendEntry(g)
      PROVE  Goal
  <2> DEFINE e == call[g].entry
             c == [step |-> "apply", entry |-> e]
  <2>1. /\ Go(g, c) /\ UNCHANGED <<cursorFile, cursors, pending, clock>> /\ log' = Append(log, e)
        /\ call[g].step = "append" /\ ~ disturbed
    BY <1>8 DEF appendEntry
  <2>2. /\ Replayed /\ e.ts = clock /\ (e.op # "sync" => \A b \in Backends : cursorFile[b] < e.ts)
        /\ call'[g] = c
    BY <1>2, <2>1 DEF Replays
  <2>3. /\ e \in Entry /\ log \in Seq(Entry) /\ cursorFile \in Cursors
        /\ pending = rebuildPending(log, cursorFile)
    BY <2>1, <2>2, CallType DEF TypeInv, Replayed
  <2>4. e.ts \in Stamps /\ \A b \in Backends : cursorFile[b] \in {0} \cup Stamps
    BY <2>3 DEF Entry, Cursors
  <2>5. e.op # "sync" => applyEntry(e) = rebuildPending(log', cursorFile')
    <3> SUFFICES ASSUME e.op # "sync"
                 PROVE  applyEntry(e) = rebuildPending(Append(log, e), cursorFile)
      BY <2>1
    <3>1. \A b \in Backends : ~ Synced(e, cursorFile[b])
      BY <2>2, <2>4, SyncedIs
    <3> HIDE DEF e
    <3> QED
      BY <2>3, <3>1, ReplayOp
  <2>6. e.op = "sync" => [pending EXCEPT ![e.backend] = NoPending[e.backend]]
                            = rebuildPending(log', [cursorFile' EXCEPT ![e.backend] = e.ts])
    <3> SUFFICES ASSUME e.op = "sync"
                 PROVE  [pending EXCEPT ![e.backend] = NoPending[e.backend]]
                            = rebuildPending(Append(log, e), [cursorFile EXCEPT ![e.backend] = e.ts])
      BY <2>1
    <3>1. \A i \in 1 .. Len(log) : log[i].ts \in Stamps /\ log[i].ts <= e.ts
      BY <2>2, <2>3 DEF Dated, Entry
    <3>2. e.ts # 0
      BY <2>4, ClockAssumption DEF Stamps
    <3>3. \A i \in 1 .. Len(log) : log[i].op = "sync" \/ Synced(log[i], e.ts)
      BY <2>4, <3>1, <3>2, SyncedIs
    <3> HIDE DEF e
    <3> QED
      BY <2>3, <3>3, ReplaySync
  <2>7. /\ call'[g].step = "apply" /\ call'[g].entry = e
        /\ pending' = pending /\ cursors' = cursorFile'
    BY <2>1, <2>2 DEF Replayed
  <2>8. Replays(g)'
    <3>1. CASE e.op = "sync"
      BY <2>6, <2>7, <3>1 DEF Replays
    <3>2. CASE e.op # "sync"
      BY <2>1, <2>5, <2>7, <3>2 DEF Replays, applyEntry
    <3> QED
      BY <3>1, <3>2
  <2> QED
    BY <1>2, <2>1, <2>8
<1>9. ASSUME NEW g \in Procs, ApplyOp(g)
      PROVE  Goal
  <2>1. /\ Go(g, Idle) /\ UNCHANGED <<cursorFile, cursors, log>> /\ pending' = applyEntry(call[g].entry)
        /\ call[g].step = "apply" /\ call[g].entry.op # "sync" /\ ~ disturbed
    BY <1>9 DEF ApplyOp
  <2>2. Replays(g) /\ call'[g] = Idle
    BY <1>2, <2>1
  <2>3. Replayed'
    BY <2>1, <2>2 DEF Replays, Replayed
  <2>4. Replays(g)'
    BY <2>2 DEF Replays, Idle
  <2> QED
    BY <1>2, <2>1, <2>3, <2>4
<1>10. ASSUME NEW g \in Procs, ApplySync(g)
      PROVE  Goal
  <2> DEFINE e == call[g].entry
             c == [step |-> "save", copy |-> cursors']
  <2>1. /\ Go(g, c) /\ UNCHANGED <<cursorFile, log>>
        /\ pending' = [pending EXCEPT ![e.backend] = NoPending[e.backend]]
        /\ cursors' = [cursors EXCEPT ![e.backend] = e.ts]
        /\ call[g].step = "apply" /\ e.op = "sync" /\ ~ disturbed
    BY <1>10 DEF ApplySync
  <2>2. Replays(g) /\ call'[g] = c
    BY <1>2, <2>1
  <2>3. pending' = rebuildPending(log', cursors')
    BY <2>1, <2>2 DEF Replays
  <2>4. Replays(g)'
    BY <2>2, <2>3 DEF Replays
  <2> QED
    BY <1>2, <2>1, <2>4
<1>11. ASSUME NEW g \in Procs, saveCursors(g)
      PROVE  Goal
  <2>1. /\ Go(g, Idle) /\ UNCHANGED <<pending, cursors, log>> /\ cursorFile' = call[g].copy
        /\ call[g].step = "save" /\ ~ disturbed
    BY <1>11 DEF saveCursors
  <2>2. Replays(g) /\ call'[g] = Idle
    BY <1>2, <2>1
  <2>3. Replayed'
    BY <2>1, <2>2 DEF Replays, Replayed
  <2>4. Replays(g)'
    BY <2>2 DEF Replays, Idle
  <2> QED
    BY <1>2, <2>1, <2>3, <2>4
<1>12. ASSUME NEW g \in Procs, GiveUp(g)
      PROVE  Goal
  <2>1. /\ Go(g, Idle) /\ UNCHANGED <<log, cursorFile, cursors, pending>>
        /\ call[g].step \in {"push", "append"} /\ ~ disturbed
    BY <1>12 DEF GiveUp
  <2>2. Replays(g) /\ call'[g] = Idle
    BY <1>2, <2>1
  <2>3. Replayed'
    BY <2>1, <2>2, ReplayedKeeps DEF Replays
  <2>4. Replays(g)'
    BY <2>2 DEF Replays, Idle
  <2> QED
    BY <1>2, <2>1, <2>3, <2>4
<1>13. ASSUME NEW g \in Procs, loadCursors(g)
      PROVE  Goal
  <2> DEFINE c == [step |-> "rebuild", copy |-> cursorFile]
  <2>1. Go(g, c) /\ cursorFile' = cursorFile /\ call[g].step = "load" /\ ~ disturbed
    BY <1>13 DEF loadCursors, TypeInv
  <2>2. call'[g] = c
    BY <1>2, <2>1
  <2>3. Replays(g)'
    BY <2>1, <2>2 DEF Replays
  <2> QED
    BY <1>2, <2>1, <2>3
<1>14. ASSUME NEW g \in Procs, Rebuild(g)
      PROVE  Goal
  <2> DEFINE c == [step |-> "install", copy |-> call[g].copy, pending |-> rebuildPending(log, call[g].copy)]
  <2>1. /\ Go(g, c) /\ cursorFile' = cursorFile /\ log' = log
        /\ call[g].step = "rebuild" /\ ~ disturbed
    BY <1>14 DEF Rebuild, TypeInv
  <2>2. call'[g] = c /\ call[g].copy = cursorFile
    BY <1>2, <2>1 DEF Replays
  <2>3. Replays(g)'
    BY <2>1, <2>2 DEF Replays
  <2> QED
    BY <1>2, <2>1, <2>3
<1>15. ASSUME NEW g \in Procs, Install(g)
      PROVE  Goal
  <2>1. /\ Go(g, Idle) /\ cursorFile' = cursorFile /\ log' = log
        /\ cursors' = call[g].copy /\ pending' = call[g].pending
        /\ call[g].step = "install" /\ ~ disturbed
    BY <1>15 DEF Install
  <2>2. Replays(g) /\ call'[g] = Idle
    BY <1>2, <2>1
  <2>3. Replayed'
    BY <2>1, <2>2 DEF Replays, Replayed
  <2>4. Replays(g)'
    BY <2>2 DEF Replays, Idle
  <2> QED
    BY <1>2, <2>1, <2>3, <2>4
<1>16. CASE Restart
  BY <1>16 DEF Restart, Replayed, Replays, OneCall, Idle
<1> QED
  BY <1>3, <1>4, <1>5, <1>6, <1>7, <1>8, <1>9, <1>10, <1>11, <1>12, <1>13, <1>14, <1>15, <1>16,
     NextCases

LEMMA RInvStep ==
    ASSUME OrderedStamps, RInv, [Next]_vars
    PROVE  RInv'
<1>1. TypeInv' /\ Dated'
  BY TypeStep, DatedStep DEF RInv
<1>2. CASE Next
  BY <1>1, <1>2, ReplayStep DEF RInv
<1>3. CASE UNCHANGED vars
  BY <1>1, <1>3 DEF vars, RInv, OneCall, Quiet, Replayed, Replays, applyEntry
<1> QED
  BY <1>2, <1>3

LEMMA RInvInit == Init => RInv
<1> SUFFICES ASSUME Init PROVE RInv
  OBVIOUS
<1>1. log = <<>> /\ Len(log) = 0 /\ \A g \in Procs : call[g].step = "idle"
  BY DEF Init, Idle
<1>2. \A b \in Backends, p \in Paths : Rebuilt(log, cursorFile[b], p) = None
  BY <1>1, SyncedNone
<1>3. rebuildPending(log, cursorFile) = [b \in Backends |-> [p \in Paths |-> Rebuilt(log, cursorFile[b], p)]]
  BY RebuiltIs
<1>4. Replayed
  BY <1>2, <1>3 DEF Init, Replayed, NoPending
<1>5. Dated
  BY <1>1, ClockAssumption DEF Init, Dated, NoCursors
<1>6. OneCall /\ \A g \in Procs : Replays(g)
  BY <1>1 DEF OneCall, Replays
<1> QED
  BY <1>4, <1>5, <1>6, TypeInit DEF RInv

\* As long as calls come one by one and their cursors are written, memory has what a
\* restart rebuilds from log and cursors, reverts and the last operation on a path
\* included; if the stamps' strings are ordered as the stamps are (journal/domain.go:541).
THEOREM RestartsAreTransparent ==
    ASSUME OrderedStamps
    PROVE  Spec => []RestartTransparent
<1>1. RInv => RestartTransparent
  BY DEF RInv, RestartTransparent, Replayed
<1>2. RInv /\ [Next]_vars => RInv'
  BY RInvStep
<1> QED
  BY <1>1, <1>2, RInvInit, PTL DEF Spec
=============================================================================
