------------------------------- MODULE GitStash -------------------------------
(***************************************************************************)
(* The git backend of one context folder, and the pull that takes the      *)
(* user's pending files away and puts them back.  Translated from          *)
(* internal/modules/collaboration/git: domain.go, service.go, backend.go,  *)
(* with the part of the journal it uses (pending paths, the sweep of       *)
(* .changes.stash) and the colleagues who push to the same branch.         *)
(*                                                                         *)
(* The content of a file is the set of edits it carries, as in GigotSync;  *)
(* a blob hash is the content.  An edit stands for a change of a record's  *)
(* field of its own (RecMerge has the fields).  The branch is attached and *)
(* go-git, git and the remote are external.                                *)
(***************************************************************************)
EXTENDS Integers, Sequences

CONSTANTS
    Paths,          \* managed files
    RecordFiles,    \* those recmerge.IsRecordPath accepts
    MaxEdits,       \* bound: edits made, by anyone
    MaxVersions,    \* bound: versions of the remote branch
    SelfCloned,     \* the pull is run by the git binary, else by go-git
    Disturbances    \* what may happen while a PullWithStash is under way

ASSUME PathsAssumption  == RecordFiles \subseteq Paths
ASSUME BoundsAssumption == MaxEdits \in Nat /\ MaxVersions \in Nat \ {0}

VARIABLES
    disk,           \* the worktree
    head,           \* the tree of HEAD
    own,            \* HEAD has commits the remote does not have
    based,          \* the version of the remote that HEAD contains
    remote,         \* the versions of the remote branch, oldest first
    pending,        \* the journal's pending operation per path
    stash,          \* .changes.stash
    call,           \* the PullWithStash under way, with its locals
    pushed,         \* a push was accepted and its sync is not recorded yet
    edits,          \* number of edits made so far
    owed,           \* history: edits of this user that nothing may drop silently
    was,            \* history: what the user had on disk when the pull started,
                    \* with what he did since
    spoiled         \* history: something came between the steps of a pull, or failed
                    \* in it, that the code does not make up for

repo == <<head, own, based, remote>>
vars == <<disk, repo, pending, stash, call, pushed, edits, owed, was, spoiled>>

Absent   == {-1}                    \* no such file
Empty    == [p \in Paths |-> Absent]
Edits    == 1 .. MaxEdits
Contents == (SUBSET Edits) \cup {Absent}
Carried(c) == c \ Absent
Settled  == {-2}                    \* in was: changed by the user after its pull

NoOp == "none"
Ops  == {"write", "delete"}         \* create and update are treated alike
Idle == [step |-> "idle", base |-> Empty, after |-> Empty,
         entries |-> [p \in Paths |-> NoOp], todo |-> {}]
Trees == [Paths -> Contents]
Steps == {"idle", "snapshot", "reset", "pull", "restore", "undo"}

Upstream == remote[Len(remote)]

Calls == [step : Steps, base : Trees, after : Trees,
          entries : [Paths -> Ops \cup {NoOp}], todo : SUBSET Paths]

\* The entry of p has been read and what it holds is not back on disk yet.
InWindow(p) ==
    /\ call.entries[p] # NoOp
    /\ call.step = "snapshot" => p \notin call.todo
    /\ call.step \in {"restore", "undo"} => p \in call.todo

\* The user changes p: what a pull under way owes him is now this, and nothing
\* more for a path whose turn is over.
Touch(p) ==
    /\ was' = IF call.step = "idle" THEN was
              ELSE [was EXCEPT ![p] = IF call.step = "restore" THEN Settled ELSE disk'[p]]
    /\ InWindow(p) => "save" \in Disturbances
    /\ spoiled' = (spoiled \/ InWindow(p))

May(d) ==
    /\ call.step = "idle" \/ d \in Disturbances
    /\ spoiled' = (spoiled \/ call.step # "idle")

----------------------------------------------------------------------------
(* The user's work, and the colleagues' *)

\* SaveFile and the journal's RecordOp.
Save(p) ==
    /\ edits < MaxEdits
    /\ edits' = edits + 1
    /\ disk' = [disk EXCEPT ![p] = Carried(@) \cup {edits'}]
    /\ pending' = [pending EXCEPT ![p] = "write"]
    /\ owed' = [owed EXCEPT ![p] = @ \cup {edits'}]
    /\ Touch(p)
    /\ UNCHANGED <<repo, stash, call, pushed>>

\* DeleteFile and the journal's RecordOp.
Delete(p) ==
    /\ disk[p] # Absent
    /\ disk' = [disk EXCEPT ![p] = Absent]
    /\ pending' = [pending EXCEPT ![p] = "delete"]
    /\ owed' = [owed EXCEPT ![p] = {}]
    /\ Touch(p)
    /\ UNCHANGED <<repo, stash, call, pushed, edits>>

\* The file goes back to HEAD, or away if HEAD has none; the journal drops it.
Discard(p) ==
    /\ disk[p] # head[p]
    /\ disk' = [disk EXCEPT ![p] = head[p]]
    /\ pending' = [pending EXCEPT ![p] = NoOp]
    /\ owed' = [owed EXCEPT ![p] = @ \cap head[p]]
    /\ Touch(p)
    /\ UNCHANGED <<repo, stash, call, pushed, edits>>

Colleague(p) ==
    /\ Len(remote) < MaxVersions
    /\ \/ /\ edits < MaxEdits
          /\ edits' = edits + 1
          /\ remote' = Append(remote, [Upstream EXCEPT ![p] = Carried(@) \cup {edits'}])
       \/ /\ Upstream[p] # Absent
          /\ remote' = Append(remote, [Upstream EXCEPT ![p] = Absent])
          /\ UNCHANGED edits
    /\ UNCHANGED <<disk, head, own, based, pending, stash, call, pushed, owed, was, spoiled>>

----------------------------------------------------------------------------
(* Commit and push *)

\* Every change of the worktree is staged and committed.
Commit ==
    /\ May("commit")
    /\ disk # head
    /\ head' = disk
    /\ own' = TRUE
    /\ UNCHANGED <<disk, based, remote, pending, stash, call, pushed, edits, owed, was>>

\* The remote takes a fast-forward; what it has is no longer owed here.
Push ==
    /\ May("push")
    /\ ~ pushed
    /\ own /\ based = Len(remote) /\ Len(remote) < MaxVersions
    /\ remote' = Append(remote, head)
    /\ based' = based + 1
    /\ own' = FALSE
    /\ pushed' = TRUE
    /\ owed' = [p \in Paths |-> owed[p] \ head[p]]
    /\ UNCHANGED <<disk, head, pending, stash, call, edits, was>>

\* RecordSync: the cursor moves to now and the pending set is cleared.
PushRecord ==
    /\ pushed
    /\ pushed' = FALSE
    /\ pending' = [p \in Paths |-> NoOp]
    /\ UNCHANGED <<disk, repo, stash, call, edits, owed, was, spoiled>>

----------------------------------------------------------------------------
(* Pull: external, through go-git or the git binary *)

UpToDate == based = Len(remote)

\* Three versions of a file as the edits they carry.
Merge3(base, theirs, yours) == (base \cap theirs \cap yours) \cup (theirs \ base) \cup (yours \ base)

\* HEAD and upstream changed p differently since the version both have.
Diverged(p) == LET base == remote[based][p]
               IN  own /\ head[p] # base /\ Upstream[p] \notin {base, head[p]}

\* The file after a fast-forward, or after a merge of HEAD's own commits.
Pulled(p) == IF Diverged(p) THEN Merge3(remote[based][p], Upstream[p], head[p])
             ELSE IF own /\ Upstream[p] = remote[based][p] THEN head[p]
             ELSE Upstream[p]

\* A local change stands in the way: go-git refuses any change of a tracked
\* file, git only one of a file the pull would rewrite.
Blocked ==
    \E p \in Paths :
        /\ disk[p] # head[p]
        /\ head[p] # Pulled(p) \/ (~ SelfCloned /\ head[p] # Absent)

\* go-git takes a fast-forward only.  A plain "git pull" merges, if the user's git
\* is set up for it and no file of the merge conflicts.
CanPull ==
    /\ own => SelfCloned /\ \A p \in Paths : Diverged(p) => Absent \notin {remote[based][p], Upstream[p], head[p]}
    /\ ~ Blocked

TakePull ==
    /\ head' = [p \in Paths |-> Pulled(p)]
    /\ based' = Len(remote)
    /\ disk' = [p \in Paths |-> IF head[p] = Pulled(p) THEN disk[p] ELSE Pulled(p)]
    /\ UNCHANGED <<own, remote>>

\* Service.Pull, without the stash; the operation guard keeps two pulls apart.
Pull ==
    /\ call.step = "idle"
    /\ ~ UpToDate /\ CanPull
    /\ TakePull
    /\ UNCHANGED <<pending, stash, call, pushed, edits, owed, was, spoiled>>

----------------------------------------------------------------------------
(* PullWithStash *)

\* p is done in this step; the last one starts the next step, over the entries kept.
Kept(c) == {q \in Paths : c.entries[q] # NoOp}
NextStep(c) == IF c.step = "snapshot" /\ Kept(c) # {} THEN "reset" ELSE "pull"
Done(p, c) ==
    IF c.todo \ {p} = {} /\ c.step \in {"snapshot", "reset"}
    THEN [c EXCEPT !.step = NextStep(c), !.todo = Kept(c)]
    ELSE [c EXCEPT !.todo = @ \ {p}]

Return == call' = Idle /\ was' = Empty

\* Mutant: no sweep of what an earlier run left.
PullWithOldStash ==
    /\ call.step = "idle"
    /\ LET todo == {p \in Paths : pending[p] # NoOp} IN
       call' = [Idle EXCEPT !.step = IF todo = {} THEN "pull" ELSE "snapshot",
                            !.base = head, !.entries = pending, !.todo = todo]
    /\ was' = disk
    /\ UNCHANGED <<disk, repo, pending, stash, pushed, edits, owed, spoiled>>

\* Reads the journal, sweeps what an earlier run left, opens HEAD.
PullWithStash ==
    /\ call.step = "idle"
    /\ stash' = Empty
    /\ LET todo == {p \in Paths : pending[p] # NoOp} IN
       call' = [Idle EXCEPT !.step = IF todo = {} THEN "pull" ELSE "snapshot",
                            !.base = head, !.entries = pending, !.todo = todo]
    /\ was' = disk
    /\ UNCHANGED <<disk, repo, pending, pushed, edits, owed, spoiled>>

\* The pending operation is still what the disk shows against HEAD.
shouldStash(p, op) ==
    IF op = "delete" THEN disk[p] = Absent /\ call.base[p] # Absent
    ELSE disk[p] # Absent /\ disk[p] # call.base[p]

\* The operations were read at the start of the call, the file is read now.
Snapshot(p) ==
    /\ call.step = "snapshot" /\ p \in call.todo
    /\ IF shouldStash(p, call.entries[p])
       THEN /\ call' = Done(p, call)
            /\ stash' = IF call.entries[p] = "write" THEN [stash EXCEPT ![p] = disk[p]] ELSE stash
       ELSE /\ call' = Done(p, [call EXCEPT !.entries[p] = NoOp])
            /\ UNCHANGED stash
    /\ UNCHANGED <<disk, repo, pending, pushed, edits, owed, was, spoiled>>

\* The file cannot be read or its copy not written: nothing was reset yet.
SnapshotFails ==
    /\ call.step = "snapshot"
    /\ Return
    /\ UNCHANGED <<disk, repo, pending, stash, pushed, edits, owed, spoiled>>

stashReset(p) ==
    /\ call.step = "reset" /\ p \in call.todo
    /\ disk' = [disk EXCEPT ![p] = call.base[p]]
    /\ call' = Done(p, call)
    /\ UNCHANGED <<repo, pending, stash, pushed, edits, owed, was, spoiled>>

ToUndo == call' = [call EXCEPT !.step = "undo", !.todo = Kept(call)]

ResetFails ==
    /\ call.step = "reset"
    /\ ToUndo
    /\ UNCHANGED <<disk, repo, pending, stash, pushed, edits, owed, was, spoiled>>

\* Nothing to pull, or a pull that succeeds; the tree of HEAD is read again after it.
StashPull ==
    /\ call.step = "pull"
    /\ \/ UpToDate /\ UNCHANGED <<disk, repo>>
       \/ ~ UpToDate /\ CanPull /\ TakePull
    /\ call' = [call EXCEPT !.step = "restore", !.todo = Kept(call), !.after = head']
    /\ UNCHANGED <<pending, stash, pushed, edits, owed, was, spoiled>>

\* Mutant: a pull that fails returns its error at once.
StashPullGivesUp ==
    /\ call.step = "pull"
    /\ Return
    /\ UNCHANGED <<disk, repo, pending, stash, pushed, edits, owed, spoiled>>

\* Refused, or no connection.
StashPullFails ==
    /\ call.step = "pull"
    /\ ToUndo
    /\ UNCHANGED <<disk, repo, pending, stash, pushed, edits, owed, was, spoiled>>

Untouched(p) == call.base[p] = call.after[p]

\* Mutant: what was deleted is not deleted again.
applyWrittenEntry(p) ==
    /\ Untouched(p)
    /\ call.entries[p] = "write" => stash[p] # Absent
    /\ disk' = [disk EXCEPT ![p] = IF call.entries[p] = "delete" THEN @ ELSE stash[p]]
    /\ UNCHANGED owed

applyStashEntry(p) ==
    /\ Untouched(p)
    /\ call.entries[p] = "write" => stash[p] # Absent
    /\ disk' = [disk EXCEPT ![p] = IF call.entries[p] = "delete" THEN Absent ELSE stash[p]]
    /\ UNCHANGED owed

Mergeable(p) ==
    /\ ~ Untouched(p)
    /\ call.entries[p] = "write" /\ p \in RecordFiles
    /\ call.base[p] # Absent /\ call.after[p] # Absent

tryRecordMerge(p) ==
    /\ Mergeable(p) /\ stash[p] # Absent
    /\ disk' = [disk EXCEPT ![p] = Merge3(call.base[p], call.after[p], stash[p])]
    /\ UNCHANGED owed

\* The pull's content stays; the user is told whose it is.  A record is
\* overridden when its merge conflicts.
Override(p) ==
    /\ ~ Untouched(p)
    /\ Mergeable(p) => stash[p] # Absent
    /\ owed' = [owed EXCEPT ![p] = @ \ Carried(stash[p])]
    /\ UNCHANGED disk

stashMergeOrOverride(p) ==
    /\ call.step = "restore" /\ p \in call.todo
    /\ applyStashEntry(p) \/ tryRecordMerge(p) \/ Override(p)
    /\ call' = Done(p, call)
    /\ UNCHANGED <<repo, pending, stash, pushed, edits, was, spoiled>>

\* The copy is gone: the call returns the error and leaves the rest as it is.
CopyMissing ==
    /\ call.step = "restore"
    /\ \E p \in call.todo :
        call.entries[p] = "write" /\ stash[p] = Absent /\ (Untouched(p) \/ Mergeable(p))
    /\ Return
    /\ UNCHANGED <<disk, repo, pending, stash, pushed, edits, owed, spoiled>>

\* The repository cannot be opened again, or a file not be written.
RestoreFails ==
    /\ call.step = "restore" /\ "restore" \in Disturbances
    /\ Return
    /\ spoiled' = TRUE
    /\ UNCHANGED <<disk, repo, pending, stash, pushed, edits, owed>>

\* Best effort: a copy that is gone, or a write that fails, is passed over.
stashRestoreOnFailure(p) ==
    /\ call.step = "undo" /\ p \in call.todo
    /\ \/ /\ disk' = [disk EXCEPT ![p] =
                 IF call.entries[p] = "delete" THEN Absent
                 ELSE IF stash[p] # Absent THEN stash[p] ELSE @]
          /\ UNCHANGED spoiled
       \/ "undo" \in Disturbances /\ UNCHANGED disk /\ spoiled' = TRUE
    /\ call' = Done(p, call)
    /\ UNCHANGED <<repo, pending, stash, pushed, edits, owed, was>>

\* The stash is removed; the journal's RecordRemoteSeen leaves pending alone.
Finish ==
    /\ call.step \in {"restore", "undo"} /\ call.todo = {}
    /\ stash' = Empty
    /\ Return
    /\ UNCHANGED <<disk, repo, pending, pushed, edits, owed, spoiled>>

----------------------------------------------------------------------------
(* The journal's Configure, and a restart *)

\* Any save of the configuration runs Configure, which removes .changes.stash.
Sweep ==
    /\ May("sweep")
    /\ stash # Empty
    /\ stash' = Empty
    /\ UNCHANGED <<disk, repo, pending, call, pushed, edits, owed, was>>

\* The process ends; the next boot runs Configure.
Restart ==
    /\ May("crash")
    /\ call.step # "idle" \/ pushed
    /\ stash' = Empty
    /\ Return
    /\ pushed' = FALSE
    /\ UNCHANGED <<disk, repo, pending, edits, owed>>

----------------------------------------------------------------------------

Init ==
    /\ head \in [Paths -> {Absent, {}}]
    /\ disk = head /\ own = FALSE
    /\ based = 1 /\ remote = <<head>>
    /\ pending = [p \in Paths |-> NoOp]
    /\ stash = Empty /\ call = Idle /\ pushed = FALSE
    /\ edits = 0
    /\ owed = [p \in Paths |-> {}]
    /\ was = Empty /\ spoiled = FALSE

Next ==
    \/ \E p \in Paths : Save(p) \/ Delete(p) \/ Discard(p) \/ Colleague(p)
    \/ Commit \/ Push \/ PushRecord
    \/ Pull
    \/ PullWithStash
    \/ \E p \in Paths : Snapshot(p)
    \/ SnapshotFails
    \/ \E p \in Paths : stashReset(p)
    \/ ResetFails
    \/ StashPull \/ StashPullFails
    \/ \E p \in Paths : stashMergeOrOverride(p)
    \/ CopyMissing \/ RestoreFails
    \/ \E p \in Paths : stashRestoreOnFailure(p)
    \/ Finish
    \/ Sweep \/ Restart

Spec == Init /\ [][Next]_vars

----------------------------------------------------------------------------
(* Properties *)

TypeInv ==
    /\ disk \in Trees /\ head \in Trees
    /\ own \in BOOLEAN /\ based \in 1 .. Len(remote)
    /\ remote \in Seq(Trees)
    /\ pending \in [Paths -> Ops \cup {NoOp}]
    /\ stash \in Trees
    /\ call \in Calls
    /\ pushed \in BOOLEAN /\ edits \in 0 .. MaxEdits
    /\ owed \in [Paths -> SUBSET Edits] /\ was \in [Paths -> Contents \cup {Settled}]
    /\ spoiled \in BOOLEAN

\* "restore stashed content so user data isn't lost" (domain.go:763): an edit the
\* user made, and did not delete, discard or push, is in its file, or in the stash
\* of a pull that is still under way, unless the pull reported it overridden.
EditsKept ==
    ~ spoiled => \A p \in Paths :
        owed[p] \subseteq Carried(disk[p])
                         \cup (IF call.step = "idle" THEN {} ELSE Carried(stash[p]))

\* What a pull makes of a path: nothing changed upstream, then what the user had;
\* else what upstream has, or both for a record.
Outcome(p) ==
    IF was[p] = Settled THEN Contents
    ELSE IF Untouched(p) THEN {was[p]}
    ELSE {call.after[p]} \cup IF p \in RecordFiles
                              THEN {Merge3(call.base[p], call.after[p], was[p])} ELSE {}

\* Phase 4 of PullWithStash and its undo (domain.go:787, 1300): a pull that ends
\* leaves every path, stashed or not, written or deleted, with its outcome; one
\* that fails leaves every path as the user had it.
PullSettles ==
    [][ ~ spoiled' =>
            /\ call.step = "restore" /\ call'.step = "idle" => \A p \in Paths : disk'[p] \in Outcome(p)
            /\ call.step \in {"snapshot", "undo"} /\ call'.step = "idle" => disk' = was ]_vars

\* The defensive sweep (domain.go:743): what a pull has in its stash it put there
\* itself, whatever failed, stopped or was swept before or meanwhile.
NoStaleStash ==
    call.step # "idle" =>
        \A p \in Paths : stash[p] # Absent =>
            call.entries[p] = "write" /\ (call.step = "snapshot" => p \notin call.todo)

\* "everything older has synced" (journal/types.go:72): when a push moves the git
\* cursor to now, no edit made so far is still to be pushed.
SyncMeansPushed ==
    [][ pushed /\ ~ pushed' /\ pending # pending' => \A p \in Paths : owed[p] = {} ]_vars
===============================================================================
