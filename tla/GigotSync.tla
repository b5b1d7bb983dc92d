------------------------------ MODULE GigotSync ------------------------------
(***************************************************************************)
(* The gigot collaboration backend: every team member's context folder is  *)
(* synchronised with a versioned server over HTTP, without a local git.    *)
(* Translated from internal/modules/collaboration/gigot (orchestration,    *)
(* domain, wipe) and the buttons of GigotSync.vue, GigotConnection.vue and *)
(* GigotClone.vue that start the operations.                               *)
(*                                                                         *)
(* The content of a file is the set of the edits it carries, so a lost     *)
(* update is an edit that disappears; a git blob hash is the content       *)
(* itself.  Version 0 is the empty ledger version "".                      *)
(***************************************************************************)
EXTENDS Integers, Sequences, FiniteSets

CONSTANTS
    Clients,     \* team members, each with a context folder
    Paths,       \* managed paths (IsFormidablePath)
    Records,     \* paths whose concurrent edits the server can merge per field
    NotWiped,    \* managed paths the wipe of Reclone does not reach: relations/
    Absent,      \* no such file
    MaxEdits,    \* bound: saves by the users
    MaxVersion,  \* bound: versions of the server
    Answers,     \* what the changes[] of the server's answers to a commit can list
    Faults,      \* can an operation stop half-way (crash, I/O or network error)
    Joiners,     \* clients whose folder never met the server
    Buttons      \* the calls the users of this instance start

ASSUME PathsAssumption  == Records \subseteq Paths /\ NotWiped \subseteq Paths /\ Joiners \subseteq Clients
ASSUME BoundsAssumption == MaxEdits \in Nat /\ MaxVersion \in Nat
ASSUME AbsentAssumption == \A s \in SUBSET (0 .. MaxEdits) : s # Absent
ASSUME FlagsAssumption  == Faults \in BOOLEAN
ASSUME AnswersAssumption == Answers \subseteq {"all", "pushed", "blank", "none"}
ASSUME ButtonsAssumption == Buttons \subseteq {"push", "sync", "pull", "reclone"}

VARIABLES
    seen,     \* history variable: seen[c][p], the edits of p that were ever on c's disk
    history,  \* the server: the tree of every version, head last
    disk,     \* disk[c]: the managed files of c's context folder
    ledger,   \* ledger[c]: .formidable/sync.json
    op,       \* op[c]: the manager call in flight on c
    edits     \* number of edits made so far; edit n is the number n

vars == <<seen, history, disk, ledger, op, edits>>

Edits   == 0 .. MaxEdits   \* edit 0 is in the files of the first version
Content == {Absent} \cup SUBSET Edits
Tree    == [Paths -> Content]
NoTree  == [p \in Paths |-> Absent]
Record  == [version : Nat, files : Tree]
EmptyTrackRecord == [version |-> 0, files |-> NoTree]

Steps == {"idle", "checked", "commit", "ledger", "rewrite", "wipe", "tree", "fetch"}
Flows == {"push", "sync", "pull", "reclone"}

\* snap is the walker's output, rec the ledger being built, todo the paths left
\* to process, first tells a push without a ledger.
Op == [step : Steps, flow : Flows, snap : Tree, rec : Record,
       todo : SUBSET Paths, first : BOOLEAN]
Idle == [step |-> "idle", flow |-> "push", snap |-> NoTree,
         rec |-> EmptyTrackRecord, todo |-> {}, first |-> FALSE]

Version == Len(history)
HeadTree    == history[Version]

----------------------------------------------------------------------------
(* Diffs *)

\* DiffAgainstRecord.Changed: files on disk whose blob is not the recorded one.
Changed(local, rec) == {p \in Paths : local[p] # Absent /\ local[p] # rec.files[p]}

\* DiffAgainstRecord.Deleted: recorded files the disk has lost.
Deleted(local, rec) ==
    IF rec.version = 0 THEN {}
    ELSE {p \in Paths : rec.files[p] # Absent /\ local[p] = Absent}

Diff(local, rec) == Changed(local, rec) \cup Deleted(local, rec)

\* LedgerSummary: what the buttons take for pending changes.
HasPending(c) == Diff(disk[c], ledger[c]) # {}

----------------------------------------------------------------------------
(* The server (external): fast-forward, three-way merge or refusal *)

\* An edit both sides know must be on both to stay; a new one of either side stays.
Merge3(base, mine, theirs) ==
    {e \in mine \cup theirs : (base # Absent /\ e \in base) => e \in mine /\ e \in theirs}

\* Our change of p meets another one made since our parent version.
Clash(o, p) == LET theirs == HeadTree[p]
               IN  theirs # history[o.rec.version][p] /\ theirs # o.snap[p]

Mergeable(o, p) == p \in Records /\ o.snap[p] # Absent /\ HeadTree[p] # Absent

\* The tree of the new version.
Reconciled(o) ==
    [p \in Paths |->
        IF p \notin Diff(o.snap, o.rec) THEN HeadTree[p]
        ELSE IF o.rec.version = Version \/ ~ Clash(o, p) THEN o.snap[p]
        ELSE Merge3(history[o.rec.version][p], o.snap[p], HeadTree[p])]

CanReconcile(o) ==
    \/ o.rec.version = Version
    \/ \A p \in Diff(o.snap, o.rec) : Clash(o, p) => Mergeable(o, p)

\* A merge may also be refused for one field of a record (record_conflicts).
MayRefuse(o) == o.rec.version < Version /\ \E p \in Diff(o.snap, o.rec) : Clash(o, p)

\* Mutant: the answer lists the pushed paths only.
EchoedPushedOnly(o, new, a) == Diff(o.snap, o.rec)

\* The paths the response's changes[] lists: every path the merge changed, the
\* pushed ones, or none; the puts of a "blank" answer come without their blobs.
Echoed(o, new, a) ==
    CASE a = "none"   -> {}
      [] a = "pushed" -> Diff(o.snap, o.rec)
      [] OTHER        -> Diff(o.snap, o.rec) \cup {p \in Paths : new[p] # history[o.rec.version][p]}

----------------------------------------------------------------------------
(* The users *)

Step(c, s) == op' = [op EXCEPT ![c].step = s]

\* The storage, template or relation manager writes a file.
Save(c, p) ==
    /\ edits < MaxEdits
    /\ edits' = edits + 1
    /\ disk' = [disk EXCEPT ![c][p] = IF @ = Absent THEN {edits'} ELSE @ \cup {edits'}]
    /\ UNCHANGED <<history, ledger, op>>

\* The user deletes a file.
Remove(c, p) ==
    /\ disk[c][p] # Absent
    /\ edits < MaxEdits
    /\ edits' = edits + 1
    /\ disk' = [disk EXCEPT ![c][p] = Absent]
    /\ UNCHANGED <<history, ledger, op>>

----------------------------------------------------------------------------
(* Push *)

AfterPush(c, o) ==
    op' = [op EXCEPT ![c] = IF o.flow = "sync" THEN [o EXCEPT !.step = "tree", !.todo = {}]
                            ELSE Idle]

\* Mutant: the head read at push time is sent as the parent.
PushLiveHead(c, flow) ==
    LET rec == [ledger[c] EXCEPT !.version = Version]
        o   == [Idle EXCEPT !.step = "commit", !.flow = flow, !.snap = disk[c], !.rec = rec]
    IN  /\ disk[c] # NoTree
        /\ ledger[c].version # 0
        /\ op' = [op EXCEPT ![c] = o]
        /\ UNCHANGED <<history, disk, ledger, edits>>

\* PushLocal up to the commit request: the walk, the ledger (seeded from the
\* server's tree when there is none), the diff.
PushLocal(c, flow) ==
    LET first == ledger[c].version = 0
        rec   == IF first THEN [version |-> Version, files |-> HeadTree] ELSE ledger[c]
        o     == [Idle EXCEPT !.step = "commit", !.flow = flow, !.snap = disk[c],
                              !.rec = rec, !.first = first]
    IN  /\ disk[c] # NoTree            \* ErrEmptyContext
        /\ rec.version # 0             \* ErrNoParentVersion
        /\ IF Diff(disk[c], rec) = {}
           THEN ledger' = [ledger EXCEPT ![c] = rec] /\ AfterPush(c, o)
           ELSE ledger' = ledger /\ op' = [op EXCEPT ![c] = o]
        /\ UNCHANGED <<history, disk, edits>>

\* The Push button.
UserPush(c) == "push" \in Buttons /\ op[c].step = "idle" /\ HasPending(c) /\ PushLocal(c, "push")

\* Quick sync asks for the pending changes once more; a save may follow.
UserSync(c) ==
    /\ "sync" \in Buttons
    /\ op[c].step = "idle"
    /\ ~ HasPending(c)
    /\ Step(c, "checked")
    /\ UNCHANGED <<history, disk, ledger, edits>>

SyncPush(c) == op[c].step = "checked" /\ PushLocal(c, "sync")

\* Mutant: the ledger takes the local blobs, whatever the answer lists.
LocalLedger(o, version, new, a) ==
    [version |-> version,
     files   |-> [p \in Paths |-> IF p \in Diff(o.snap, o.rec) THEN o.snap[p] ELSE o.rec.files[p]]]

\* reconcileLedger: the new version, and the blobs the server listed; an answer
\* that lists nothing leaves the local ones, a put without a blob the old one.
reconcileLedger(o, version, new, a) ==
    LET kept(p) == p \notin Echoed(o, new, a) \/ (a = "blank" /\ new[p] # Absent)
    IN  [version |-> version,
         files   |-> [p \in Paths |-> IF a = "none" /\ p \in Diff(o.snap, o.rec) THEN o.snap[p]
                                      ELSE IF kept(p) THEN o.rec.files[p]
                                      ELSE new[p]]]

\* What syncRewrittenRecords fetches: the listed blobs that are not the sent ones.
Rewritten(o, new, a) ==
    {p \in Echoed(o, new, a) :
        a # "blank" /\ new[p] # Absent /\ ~ (p \in Changed(o.snap, o.rec) /\ new[p] = o.snap[p])}

\* The server takes the commit and its answer arrives.
CommitAccepted(c) ==
    LET o   == op[c]
        new == Reconciled(o)
    IN  /\ o.step = "commit"
        /\ Version < MaxVersion
        /\ CanReconcile(o)
        /\ history' = Append(history, new)
        /\ \E a \in Answers :
               op' = [op EXCEPT ![c] =
                   [o EXCEPT !.step = "ledger",
                             !.rec  = reconcileLedger(o, Version + 1, new, a),
                             !.todo = Rewritten(o, new, a)]]
        /\ UNCHANGED <<disk, ledger, edits>>

\* The server takes the commit and its answer is lost: an error for the caller.
CommitUnanswered(c) ==
    /\ Faults
    /\ op[c].step = "commit"
    /\ Version < MaxVersion
    /\ CanReconcile(op[c])
    /\ history' = Append(history, Reconciled(op[c]))
    /\ op' = [op EXCEPT ![c] = Idle]
    /\ UNCHANGED <<disk, ledger, edits>>

\* 409 with conflicts: a result without an error, the ledger untouched.
CommitRefused(c) ==
    /\ op[c].step = "commit"
    /\ MayRefuse(op[c])
    /\ AfterPush(c, op[c])
    /\ UNCHANGED <<history, disk, ledger, edits>>

PushLedger(c) ==
    /\ op[c].step = "ledger"
    /\ ledger' = [ledger EXCEPT ![c] = op[c].rec]
    /\ Step(c, "rewrite")
    /\ UNCHANGED <<history, disk, edits>>

\* syncRewrittenRecords: HEAD's content of a path the server stored otherwise.
Rewrite(c, p) ==
    /\ op[c].step = "rewrite"
    /\ p \in op[c].todo
    /\ HeadTree[p] # Absent                \* else 404, an error
    /\ disk' = [disk EXCEPT ![c][p] = HeadTree[p]]
    /\ op' = [op EXCEPT ![c].todo = @ \ {p}]
    /\ UNCHANGED <<history, ledger, edits>>

PushDone(c) ==
    /\ op[c].step = "rewrite"
    /\ op[c].todo = {}
    /\ AfterPush(c, op[c])
    /\ UNCHANGED <<history, disk, ledger, edits>>

----------------------------------------------------------------------------
(* Pull and reclone *)

Begin(c, flow, s, todo) ==
    op' = [op EXCEPT ![c] = [Idle EXCEPT !.flow = flow, !.step = s, !.todo = todo]]

\* Pull button and Clone panel: both ask that no local file is changed.
UserPull(c) ==
    /\ "pull" \in Buttons
    /\ op[c].step = "idle"
    /\ Changed(disk[c], ledger[c]) = {}
    /\ Begin(c, "pull", "tree", {})
    /\ UNCHANGED <<history, disk, ledger, edits>>

UserReclone(c) ==
    /\ "reclone" \in Buttons
    /\ op[c].step = "idle"
    /\ Begin(c, "reclone", "wipe", Paths \ NotWiped)
    /\ UNCHANGED <<history, disk, ledger, edits>>

\* Mutant: the wipe does not tick off what it removed.
WipeForever(c, p) ==
    /\ op[c].step = "wipe"
    /\ p \in op[c].todo
    /\ disk' = [disk EXCEPT ![c][p] = Absent]
    /\ UNCHANGED <<history, ledger, op, edits>>

\* wipeManagedContent removes the files, one directory after the other.
WipePath(c, p) ==
    /\ op[c].step = "wipe"
    /\ p \in op[c].todo
    /\ disk' = [disk EXCEPT ![c][p] = Absent]
    /\ op' = [op EXCEPT ![c].todo = @ \ {p}]
    /\ UNCHANGED <<history, ledger, edits>>

\* ... and the ledger last.
WipeLedger(c) ==
    /\ op[c].step = "wipe"
    /\ op[c].todo = {}
    /\ ledger' = [ledger EXCEPT ![c] = EmptyTrackRecord]
    /\ Step(c, "tree")
    /\ UNCHANGED <<history, disk, edits>>

\* PullLocal reads the old ledger and the server's tree: the paths to delete are
\* recorded and gone, the paths to fetch are all of the tree.
PullTree(c) ==
    /\ op[c].step = "tree"
    /\ op' = [op EXCEPT ![c].step = "fetch",
                        ![c].rec = [version |-> Version, files |-> HeadTree],
                        ![c].todo = {p \in Paths : HeadTree[p] # Absent \/ ledger[c].files[p] # Absent}]
    /\ UNCHANGED <<history, disk, ledger, edits>>

PullDelete(c, p) ==
    /\ op[c].step = "fetch"
    /\ p \in op[c].todo
    /\ op[c].rec.files[p] = Absent
    /\ disk' = [disk EXCEPT ![c][p] = Absent]
    /\ op' = [op EXCEPT ![c].todo = @ \ {p}]
    /\ UNCHANGED <<history, ledger, edits>>

\* A blob that differs is fetched - from HEAD, which may have moved - after the
\* deletions.
PullFetch(c, p) ==
    /\ op[c].step = "fetch"
    /\ p \in op[c].todo
    /\ \A q \in op[c].todo : op[c].rec.files[q] # Absent
    /\ \/ disk[c][p] = op[c].rec.files[p] /\ disk' = disk
       \/ /\ disk[c][p] # op[c].rec.files[p]
          /\ HeadTree[p] # Absent          \* else 404, an error
          /\ disk' = [disk EXCEPT ![c][p] = HeadTree[p]]
    /\ op' = [op EXCEPT ![c].todo = @ \ {p}]
    /\ UNCHANGED <<history, ledger, edits>>

PullLedger(c) ==
    /\ op[c].step = "fetch"
    /\ op[c].todo = {}
    /\ ledger' = [ledger EXCEPT ![c] = op[c].rec]
    /\ op' = [op EXCEPT ![c] = Idle]
    /\ UNCHANGED <<history, disk, edits>>

Abandon(c) == op' = [op EXCEPT ![c] = Idle] /\ UNCHANGED <<history, disk, ledger, edits>>

\* A call that cannot go on returns its error: nothing to push, a file gone
\* from HEAD, the version bound of the model.
Fail(c) ==
    LET o == op[c] IN
    /\ \/ o.step = "checked" /\ disk[c] = NoTree
       \/ /\ o.step \in {"rewrite", "fetch"}
          /\ \E p \in o.todo : HeadTree[p] = Absent /\ o.rec.files[p] # Absent
       \/ o.step = "commit" /\ Version = MaxVersion
    /\ Abandon(c)

\* An error, a time-out or a crash between two steps: what is on disk stays.
Stop(c) == Faults /\ op[c].step # "idle" /\ Abandon(c)

----------------------------------------------------------------------------

\* What the disks show is added to what their users have seen.
Witnessed(s, d) ==
    [c \in Clients |-> [p \in Paths |-> IF d[c][p] = Absent THEN s[c][p] ELSE s[c][p] \cup d[c][p]]]

Witness == seen' = Witnessed(seen, disk')

\* Every client has a clone of the first version, or a folder of its own that
\* never met the server.
Init ==
    /\ history \in {<<t>> : t \in [Paths -> {{0}}]}
    /\ ledger = [c \in Clients |-> IF c \in Joiners THEN EmptyTrackRecord
                                  ELSE [version |-> 1, files |-> history[1]]]
    /\ disk = [c \in Clients |-> ledger[c].files]
    /\ op = [c \in Clients |-> Idle]
    /\ edits = 0
    /\ seen = Witnessed([c \in Clients |-> [p \in Paths |-> {}]], disk)

\* The steps of a call in flight.
Progress(c) ==
    \/ SyncPush(c) \/ CommitAccepted(c) \/ CommitRefused(c) \/ PushLedger(c) \/ PushDone(c)
    \/ WipeLedger(c) \/ PullTree(c) \/ PullLedger(c)
    \/ \E p \in Paths : Rewrite(c, p) \/ WipePath(c, p) \/ PullDelete(c, p) \/ PullFetch(c, p)

User(c) ==
    \/ UserPush(c) \/ UserSync(c) \/ UserPull(c) \/ UserReclone(c)
    \/ \E p \in Paths : Save(c, p) \/ Remove(c, p)

Next ==
    /\ \E c \in Clients : User(c) \/ Progress(c) \/ Fail(c) \/ CommitUnanswered(c) \/ Stop(c)
    /\ Witness

Spec == Init /\ [][Next]_vars

\* A call runs on the goroutine of the request, and its HTTP client times out.
FairSpec == Spec /\ \A c \in Clients : WF_vars((Progress(c) \/ Fail(c)) /\ Witness)

----------------------------------------------------------------------------
(* Properties *)

TypeInv ==
    /\ history \in Seq(Tree) /\ history # <<>>
    /\ disk \in [Clients -> Tree]
    /\ ledger \in [Clients -> Record]
    /\ op \in [Clients -> Op]
    /\ edits \in Edits
    /\ seen \in [Clients -> [Paths -> SUBSET Edits]]

\* A blob a ledger vouches for was in a server version no newer than the
\* ledger's: what the sync panel shows as not pending is never an edit that
\* only this disk has (reconcileLedger, the seed and the pull build the ledger
\* from what the server answered).
NothingFalselySynced ==
    \A c \in Clients : \A p \in Paths :
        ledger[c].files[p] # Absent =>
            \E v \in 1 .. ledger[c].version : v <= Version /\ history[v][p] = ledger[c].files[p]

\* The Pull button is off when the ledger has HEAD's version, because a pull
\* would then have nothing to do (GigotSync.vue): true if a commit's answer
\* lists every path the merge changed.
PullGateSound ==
    \A c \in Clients :
        op[c].step = "idle" /\ ~ HasPending(c) /\ ledger[c].version = Version
            => disk[c] = HeadTree

\* No commit takes an edit off the server that the committing user never had on
\* disk: the parent version sent is the true base of the diff, so the server
\* merges instead of overlaying (PushLocal's reason for sending the ledger's).
NoClobber ==
    [][\A c \in Clients : \A p \in Paths :
          history' # history /\ op'[c] # op[c] /\ HeadTree[p] # Absent
            => \A e \in HeadTree[p] : e \in seen[c][p] \/ (HeadTree'[p] # Absent /\ e \in HeadTree'[p])
      ]_vars

\* A push without a ledger deletes nothing on the server (DiffAgainstRecord
\* suppresses the deletions of a first sync).
FirstSyncDeletesNothing ==
    [][\A c \in Clients :
          op[c].first /\ op[c].step = "commit" /\ history' # history /\ op'[c] # op[c]
            => \A p \in Paths : HeadTree[p] # Absent => HeadTree'[p] # Absent]_vars

\* The pull half of a sync does not overwrite an edit its push half saw and the
\* server does not have (Sync: "a push error aborts before pull").
SyncKeepsUnpushed ==
    [][\A c \in Clients : \A p \in Paths :
          op[c].flow = "sync" /\ op[c].step = "fetch" /\ disk'[c][p] # disk[c][p]
             /\ op'[c] # op[c] /\ op[c].snap[p] # Absent
            => op[c].snap[p] \subseteq UNION {history[v][p] : v \in {w \in 1 .. Version : history[w][p] # Absent}}
      ]_vars

\* A ledger's version goes back only when a reclone wipes it, and a version it
\* names exists: a push never offers an unknown parent.
LedgerForward ==
    [][\A c \in Clients :
          /\ ledger'[c].version <= Len(history')
          /\ ledger'[c].version < ledger[c].version => op[c].flow = "reclone"]_vars

Team == INSTANCE TeamStore
            WITH Members <- Clients, Contents <- Content,
                 base <- [c \in Clients |-> ledger[c].version]

\* The folders and the server are one store of versions: a commit is the committer's
\* files merged over the head from the version its own ledger names, whatever other
\* members, lost answers and stopped calls did meanwhile (PushLocal: the ledger's
\* version is the parent: "with the true base, the server 3-way merges against it").
IsTeamStore == Team!Spec

\* Every call ends: nothing leaves the buttons of a panel disabled.
CallsEnd == \A c \in Clients : op[c].step # "idle" ~> op[c].step = "idle"
=============================================================================
