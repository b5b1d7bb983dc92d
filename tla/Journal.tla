------------------------------- MODULE Journal -------------------------------
(***************************************************************************)
(* The change journal of a context folder: an append-only log of the file  *)
(* mutations and sync markers, a cursor per sync backend, and the set of   *)
(* pending changes kept in memory and rebuilt from log and cursors.        *)
(* Translated from internal/modules/journal/domain.go; the pushes of       *)
(* collaboration/git and collaboration/gigot that call RecordSync, and the *)
(* config manager that calls Configure on every save, are its callers.     *)
(*                                                                         *)
(* There is one folder: Configure is called for the same one again and     *)
(* again, and the switch to another is in Config.  A cursor's version is   *)
(* left out: nothing here depends on it.                                   *)
(***************************************************************************)
EXTENDS Integers, Sequences, FiniteSets

CONSTANTS
    Procs,       \* goroutines that call the journal
    Paths,       \* tracked paths
    Backends,    \* knownBackends
    None,        \* no pending operation
    Start,       \* the clock when the model starts
    MaxTime      \* bound: the last stamp given

ASSUME ClockAssumption == Start \in Nat \ {0} /\ MaxTime \in Nat /\ Start <= MaxTime
ASSUME NoneAssumption  == None \notin {"create", "update", "delete"}

VARIABLES
    log,         \* .changes.log
    cursorFile,  \* .changes.cursor: the stamp of every backend's last sync, 0 if none
    cursors,     \* the same in memory
    pending,     \* pending[b][p]: the latest operation on p since b's cursor
    clock,       \* the last stamp time.Now gave
    call,        \* call[g]: the call goroutine g is in
    covered,     \* history variable: what was saved before covered[b] is in a push to b
    disturbed    \* history variable: since the last start two calls were in flight at
                 \* once, a cursor write failed or a file could not be read

vars == <<log, cursorFile, cursors, pending, clock, call, covered, disturbed>>

FileOps == {"create", "update", "delete"}
Stamps  == Start .. MaxTime
Cursors == [Backends -> {0} \cup Stamps]
Pending == [Backends -> [Paths -> FileOps \cup {None}]]
Entry   == [ts : Stamps, op : FileOps \cup {"revert"}, path : Paths]
             \cup [ts : Stamps, op : {"sync"}, backend : Backends]

NoCursors == [b \in Backends |-> 0]
NoPending == [b \in Backends |-> [p \in Paths |-> None]]

Quiet == \A g \in Procs : call[g].step = "idle"

----------------------------------------------------------------------------
(* Stamps *)

\* RFC3339Nano leaves the trailing zeros of the fraction out and the strings are
\* compared character by character, where the closing Z is above every digit.
\* Here the fraction has two digits: 10 prints as ".1Z", above ".11Z" to ".19Z".
StampKey(t) == LET tens == (t \div 10) % 10
                   ones == t % 10
               IN  IF tens = 0 /\ ones = 0 THEN 111
                   ELSE tens * 11 + (IF ones = 0 THEN 10 ELSE ones)

\* entry.Ts <= cur.Ts && cur.Ts != ""
Synced(e, cursor) == cursor # 0 /\ StampKey(e.ts) <= StampKey(cursor)

----------------------------------------------------------------------------
(* The pending set *)

\* The entries on a path that are newer than the cursor; the last one decides.
Counting(l, cursor, p) ==
    {i \in 1 .. Len(l) : l[i].op # "sync" /\ ~ Synced(l[i], cursor) /\ l[i].path = p}

\* Mutant: the first entry since the cursor decides.
DecidingFirst(l, cursor, p) ==
    {i \in Counting(l, cursor, p) : \A j \in Counting(l, cursor, p) : i <= j}

Deciding(l, cursor, p) ==
    {i \in Counting(l, cursor, p) : \A j \in Counting(l, cursor, p) : j <= i}

rebuildPending(l, cs) ==
    [b \in Backends |-> [p \in Paths |->
        LET D == Deciding(l, cs[b], p)
        IN  IF \E i \in D : l[i].op # "revert" THEN l[CHOOSE i \in D : TRUE].op ELSE None]]

\* applyEntryToPendingLocked: every backend learns of the operation.
applyEntry(e) ==
    [b \in Backends |-> [pending[b] EXCEPT ![e.path] = IF e.op = "revert" THEN None ELSE e.op]]

----------------------------------------------------------------------------
(* Calls *)

Idle == [step |-> "idle"]
Go(g, c) == call' = [call EXCEPT ![g] = c]

\* A call starts: it overlaps with whatever is in flight.
Enter(g, c) ==
    /\ call[g].step = "idle"
    /\ Go(g, c)
    /\ disturbed' = (disturbed \/ ~ Quiet)

\* time.Now: later than the stamp before.
Now == clock + 1
Tick == Now <= MaxTime /\ clock' = Now

\* Mutant: the operation is pending before it is in the log.
RecordOpEager(g, op, p) ==
    LET e == [ts |-> Now, op |-> op, path |-> p] IN
    /\ Tick
    /\ Enter(g, [step |-> "append", entry |-> e])
    /\ pending' = applyEntry(e)
    /\ UNCHANGED <<log, cursorFile, cursors, covered>>

\* RecordOp, RecordRevert: the stamp is taken before the log is written.
RecordOp(g, op, p) ==
    /\ Tick
    /\ Enter(g, [step |-> "append", entry |-> [ts |-> Now, op |-> op, path |-> p]])
    /\ UNCHANGED <<log, cursorFile, cursors, pending, covered>>

\* A push of backend b collects (git: has committed) the files as they are.
PushCollect(g, b) ==
    /\ Enter(g, [step |-> "push", backend |-> b, mark |-> clock])
    /\ UNCHANGED <<log, cursorFile, cursors, pending, clock, covered>>

\* Mutant: the cursor is saved without a marker in the log.
RecordSyncUnlogged(g) ==
    LET b == call[g].backend IN
    /\ call[g].step = "push"
    /\ Tick
    /\ cursors' = [cursors EXCEPT ![b] = Now]
    /\ Go(g, [step |-> "save", copy |-> cursors'])
    /\ covered' = [covered EXCEPT ![b] = IF @ < call[g].mark THEN call[g].mark ELSE @]
    /\ UNCHANGED <<log, cursorFile, pending, disturbed>>

\* The push went through: RecordSync stamps the marker.
RecordSync(g) ==
    LET b == call[g].backend IN
    /\ call[g].step = "push"
    /\ Tick
    /\ Go(g, [step |-> "append", entry |-> [ts |-> Now, op |-> "sync", backend |-> b]])
    /\ covered' = [covered EXCEPT ![b] = IF @ < call[g].mark THEN call[g].mark ELSE @]
    /\ UNCHANGED <<log, cursorFile, cursors, pending, disturbed>>

appendEntry(g) ==
    /\ call[g].step = "append"
    /\ log' = Append(log, call[g].entry)
    /\ Go(g, [step |-> "apply", entry |-> call[g].entry])
    /\ UNCHANGED <<cursorFile, cursors, pending, clock, covered, disturbed>>

\* Under the lock: a file operation changes the pending sets.
ApplyOp(g) ==
    /\ call[g].step = "apply"
    /\ call[g].entry.op # "sync"
    /\ pending' = applyEntry(call[g].entry)
    /\ Go(g, Idle)
    /\ UNCHANGED <<log, cursorFile, cursors, clock, covered, disturbed>>

\* Under the lock: a sync advances the cursor, clears the backend's pending set and
\* copies the cursors for the write that follows the unlock.
ApplySync(g) ==
    LET e == call[g].entry IN
    /\ call[g].step = "apply"
    /\ e.op = "sync"
    /\ cursors' = [cursors EXCEPT ![e.backend] = e.ts]
    /\ pending' = [pending EXCEPT ![e.backend] = NoPending[e.backend]]
    /\ Go(g, [step |-> "save", copy |-> cursors'])
    /\ UNCHANGED <<log, cursorFile, clock, covered, disturbed>>

\* RecordRemoteSeen changes a version only, and saves all the cursors as well.
RecordRemoteSeen(g) ==
    /\ Enter(g, [step |-> "save", copy |-> cursors])
    /\ UNCHANGED <<log, cursorFile, cursors, pending, clock, covered>>

saveCursors(g) ==
    /\ call[g].step = "save"
    /\ cursorFile' = call[g].copy
    /\ Go(g, Idle)
    /\ UNCHANGED <<log, cursors, pending, clock, covered, disturbed>>

\* A failed push, append or cursor write is logged and the call returns.
GiveUp(g) ==
    /\ call[g].step \in {"push", "append", "save"}
    /\ Go(g, Idle)
    /\ disturbed' = (disturbed \/ call[g].step = "save")
    /\ UNCHANGED <<log, cursorFile, cursors, pending, clock, covered>>

\* Configure, run by every save of the user config: reset under the lock, ...
Configure(g) ==
    /\ Enter(g, [step |-> "load"])
    /\ cursors' = NoCursors
    /\ pending' = NoPending
    /\ UNCHANGED <<log, cursorFile, clock, covered>>

\* ... read cursors and log without it (one that cannot be read counts as empty), ...
loadCursors(g) ==
    /\ call[g].step = "load"
    /\ \E cs \in {cursorFile, NoCursors} :
        /\ Go(g, [step |-> "rebuild", copy |-> cs])
        /\ disturbed' = (disturbed \/ cs # cursorFile)
    /\ UNCHANGED <<log, cursorFile, cursors, pending, clock, covered>>

Rebuild(g) ==
    LET replayed == rebuildPending(log, call[g].copy) IN
    /\ call[g].step = "rebuild"
    /\ \E pend \in {replayed, NoPending} :
        /\ Go(g, [step |-> "install", copy |-> call[g].copy, pending |-> pend])
        /\ disturbed' = (disturbed \/ pend # replayed)
    /\ UNCHANGED <<log, cursorFile, cursors, pending, clock, covered>>

\* ... install them under the lock.
Install(g) ==
    /\ call[g].step = "install"
    /\ cursors' = call[g].copy
    /\ pending' = call[g].pending
    /\ Go(g, Idle)
    /\ UNCHANGED <<log, cursorFile, clock, covered, disturbed>>

\* The program stops, anywhere, and starts again: Configure, before any other call.
Restart ==
    /\ cursors' \in {cursorFile, NoCursors}
    /\ pending' \in {rebuildPending(log, cursors'), NoPending}
    /\ call' = [g \in Procs |-> Idle]
    /\ disturbed' = (cursors' # cursorFile \/ pending' # rebuildPending(log, cursors'))
    /\ UNCHANGED <<log, cursorFile, clock, covered>>

Init ==
    /\ log = <<>>
    /\ cursorFile = NoCursors /\ cursors = NoCursors
    /\ pending = NoPending
    /\ clock = Start - 1
    /\ call = [g \in Procs |-> Idle]
    /\ covered = NoCursors
    /\ disturbed = FALSE

Step(g) ==
    \/ RecordSync(g) \/ appendEntry(g) \/ ApplyOp(g) \/ ApplySync(g) \/ saveCursors(g)
    \/ loadCursors(g) \/ Rebuild(g) \/ Install(g)

Begin(g) ==
    \/ \E op \in FileOps \cup {"revert"}, p \in Paths : RecordOp(g, op, p)
    \/ \E b \in Backends : PushCollect(g, b)
    \/ RecordRemoteSeen(g)
    \/ Configure(g)

Next == (\E g \in Procs : Begin(g) \/ Step(g) \/ GiveUp(g)) \/ Restart

Spec == Init /\ [][Next]_vars

----------------------------------------------------------------------------
(* Properties *)

Call == [step : {"idle", "load"}] \cup [step : {"append", "apply"}, entry : Entry]
          \cup [step : {"push"}, backend : Backends, mark : {0} \cup (Start - 1) .. MaxTime]
          \cup [step : {"save", "rebuild"}, copy : Cursors]
          \cup [step : {"install"}, copy : Cursors, pending : Pending]

TypeInv ==
    /\ log \in Seq(Entry)
    /\ cursorFile \in Cursors /\ cursors \in Cursors
    /\ pending \in Pending
    /\ clock \in (Start - 1) .. MaxTime
    /\ call \in [Procs -> Call]
    /\ covered \in [Backends -> {0} \cup (Start - 1) .. MaxTime]
    /\ disturbed \in BOOLEAN

\* A cursor on disk, in memory or on its way is backed by a sync marker in the log:
\* the marker is written first, so no crash leaves a cursor for a sync the log
\* does not know (RecordSync).
Marked(b, ts) == ts = 0 \/ \E i \in 1 .. Len(log) :
                    log[i].op = "sync" /\ log[i].backend = b /\ log[i].ts = ts

CursorBacked ==
    \A b \in Backends :
        /\ Marked(b, cursorFile[b])
        /\ Marked(b, cursors[b])
        /\ \A g \in Procs : call[g].step \in {"save", "rebuild", "install"} =>
                                Marked(b, call[g].copy[b])

\* What is pending is an operation the log holds: a restart can explain every
\* pending change (the entry is appended before it is applied).
Explained(pend) ==
    \A b \in Backends, p \in Paths :
        pend[b][p] # None =>
            \E i \in 1 .. Len(log) : log[i].op = pend[b][p] /\ log[i].path = p

PendingBacked == Explained(pending)

\* As long as nothing disturbed, the pending sets in memory are the ones a
\* restart would rebuild from log and cursors: incremental bookkeeping and replay
\* agree, reverts and the last operation on a path included.
RestartTransparent ==
    Quiet /\ ~ disturbed => pending = rebuildPending(log, cursorFile)

\* "Ts marks everything older has synced": an operation the cursor covers was saved
\* before a push to that backend collected its files.
CursorMeansSynced ==
    \A b \in Backends : \A i \in 1 .. Len(log) :
        log[i].op # "sync" /\ Synced(log[i], cursors[b]) => log[i].ts <= covered[b]
=============================================================================
