------------------------------- MODULE GitProofs -------------------------------
(***************************************************************************)
(* GitStash keeps its types and its stash is its own whatever comes in     *)
(* between; and no edit is lost until something does.                      *)
(***************************************************************************)
EXTENDS GitStash, TLAPS

USE DEF Edits

LEMMA AbsentTyped ==
    /\ Absent \in Contents /\ Empty \in Trees /\ Idle \in Calls
    /\ \A c \in Contents : c \ Absent \in SUBSET Edits
    /\ SUBSET Edits \subseteq Contents
<1>1. -1 \notin Edits
  BY BoundsAssumption
<1>2. Absent \in Contents /\ \A c \in Contents : c \ Absent \in SUBSET Edits
  <2>1. Absent \in Contents
    BY DEF Contents
  <2>2. ASSUME NEW c \in Contents PROVE c \ Absent \in SUBSET Edits
    <3>1. CASE c = Absent
      BY <3>1
    <3>2. CASE c \in SUBSET (1 .. MaxEdits)
      BY <3>2
    <3> QED BY <3>1, <3>2 DEF Contents
  <2> QED BY <2>1, <2>2
<1>3. Empty \in Trees
  BY <1>2 DEF Empty, Trees
<1>4. Idle \in Calls
  BY <1>3 DEF Idle, Calls, Steps
<1> QED BY <1>2, <1>3, <1>4 DEF Contents

LEMMA DoneTyped ==
    ASSUME NEW c \in Calls, NEW p PROVE Done(p, c) \in Calls
BY DEF Done, Calls, Kept, NextStep, Steps

\* What Done leaves of a call.
LEMMA DoneKeeps ==
    ASSUME NEW c \in Calls, NEW p
    PROVE  /\ Done(p, c).entries = c.entries /\ Done(p, c).base = c.base /\ Done(p, c).after = c.after
           /\ \/ Done(p, c).step = c.step /\ Done(p, c).todo = c.todo \ {p}
              \/ /\ c.step \in {"snapshot", "reset"} /\ c.todo \ {p} = {}
                 /\ Done(p, c).step \in {"reset", "pull"}
                 /\ c.step = "reset" => Done(p, c).step = "pull"
                 /\ Done(p, c).todo = Kept(c)
BY DEF Done, Calls, NextStep

LEMMA Merge3Typed ==
    ASSUME NEW b \in Contents, NEW t \in Contents, NEW y \in Contents,
           b # Absent, t # Absent, y # Absent
    PROVE  Merge3(b, t, y) \in Contents
BY DEF Merge3, Contents

LEMMA UpstreamTyped ==
    ASSUME TypeInv PROVE Upstream \in Trees /\ Len(remote) \in Nat \ {0}
<1>1. Len(remote) \in Nat /\ based \in 1 .. Len(remote)
  BY DEF TypeInv
<1>2. Len(remote) \in 1 .. Len(remote)
  BY <1>1
<1> QED BY <1>1, <1>2 DEF TypeInv, Upstream

LEMMA PulledTyped ==
    ASSUME TypeInv, NEW p \in Paths, CanPull
    PROVE  Pulled(p) \in Contents
<1>1. Upstream \in Trees /\ remote[based] \in Trees /\ head \in Trees
  BY UpstreamTyped DEF TypeInv
<1>2. CASE Diverged(p)
  <2>1. Absent \notin {remote[based][p], Upstream[p], head[p]}
    BY <1>2 DEF CanPull, Diverged
  <2> QED BY <1>1, <1>2, <2>1 DEF Pulled, Merge3, Trees, Contents
<1>3. CASE ~ Diverged(p)
  BY <1>1, <1>3 DEF Pulled, Trees
<1> QED BY <1>2, <1>3

LEMMA TypeStep == TypeInv /\ [Next]_vars => TypeInv'
<1> SUFFICES ASSUME TypeInv, [Next]_vars PROVE TypeInv'
  OBVIOUS
<1> USE BoundsAssumption, AbsentTyped
<1>c. /\ call \in Calls /\ disk \in Trees /\ head \in Trees /\ stash \in Trees
      /\ call.base \in Trees /\ call.after \in Trees
      /\ Upstream \in Trees /\ Len(remote) \in Nat \ {0}
  BY UpstreamTyped DEF TypeInv, Calls
<1>t. ASSUME NEW p \in Paths, disk' \in Trees, Touch(p)
      PROVE  was' \in [Paths -> Contents \cup {Settled}] /\ spoiled' \in BOOLEAN
  BY <1>t DEF Touch, TypeInv, Trees
<1>1. ASSUME NEW p \in Paths, Save(p) PROVE TypeInv'
  <2>1. edits' \in 0 .. MaxEdits /\ edits' \in Edits
    BY <1>1 DEF Save, TypeInv
  <2>2. disk' \in Trees
    BY <1>1, <1>c, <2>1 DEF Save, Trees, Carried, Contents
  <2>3. owed' \in [Paths -> SUBSET Edits] /\ pending' \in [Paths -> Ops \cup {NoOp}]
    BY <1>1, <2>1 DEF Save, TypeInv, Ops
  <2> QED BY <1>1, <1>t, <2>1, <2>2, <2>3 DEF Save, TypeInv, repo
<1>2. ASSUME NEW p \in Paths, Delete(p) PROVE TypeInv'
  <2>1. disk' \in Trees
    BY <1>2, <1>c DEF Delete, Trees
  <2>2. owed' \in [Paths -> SUBSET Edits] /\ pending' \in [Paths -> Ops \cup {NoOp}]
    BY <1>2 DEF Delete, TypeInv, Ops
  <2> QED BY <1>2, <1>t, <2>1, <2>2 DEF Delete, TypeInv, repo
<1>3. ASSUME NEW p \in Paths, Discard(p) PROVE TypeInv'
  <2>1. disk' \in Trees
    BY <1>3, <1>c DEF Discard, Trees
  <2>2. owed' \in [Paths -> SUBSET Edits] /\ pending' \in [Paths -> Ops \cup {NoOp}]
    BY <1>3 DEF Discard, TypeInv, Ops
  <2> QED BY <1>3, <1>t, <2>1, <2>2 DEF Discard, TypeInv, repo
<1>4. ASSUME NEW p \in Paths, Colleague(p) PROVE TypeInv'
  <2>1. edits' \in 0 .. MaxEdits
    BY <1>4 DEF Colleague, TypeInv
  <2>2. PICK t \in Trees : remote' = Append(remote, t)
    <3>1. CASE Upstream[p] # Absent /\ remote' = Append(remote, [Upstream EXCEPT ![p] = Absent])
      BY <3>1, <1>c DEF Trees
    <3>2. CASE edits < MaxEdits /\ edits' = edits + 1
               /\ remote' = Append(remote, [Upstream EXCEPT ![p] = Carried(@) \cup {edits'}])
      <4>1. edits' \in Edits
        BY <3>2 DEF TypeInv
      <4> QED BY <3>2, <4>1, <1>c DEF Trees, Carried, Contents
    <3> QED BY <1>4, <3>1, <3>2 DEF Colleague
  <2>3. remote' \in Seq(Trees) /\ Len(remote') = Len(remote) + 1
    BY <2>2 DEF TypeInv
  <2> QED BY <1>4, <1>c, <2>1, <2>3 DEF Colleague, TypeInv
<1>5. CASE Commit
  BY <1>5, <1>c DEF Commit, May, TypeInv
<1>6. CASE Push
  <2>1. remote' \in Seq(Trees) /\ Len(remote') = Len(remote) + 1
    BY <1>6, <1>c DEF Push, TypeInv
  <2>2. based' \in 1 .. Len(remote')
    BY <1>6, <1>c, <2>1 DEF Push
  <2>3. owed' \in [Paths -> SUBSET Edits]
    BY <1>6 DEF Push, TypeInv
  <2>4. own' \in BOOLEAN /\ pushed' \in BOOLEAN /\ spoiled' \in BOOLEAN
    BY <1>6 DEF Push, May, TypeInv
  <2> QED BY <1>6, <1>c, <2>1, <2>2, <2>3, <2>4 DEF Push, TypeInv
<1>7. CASE PushRecord
  BY <1>7 DEF PushRecord, TypeInv, repo
<1>f. ASSUME TakePull, CanPull PROVE disk' \in Trees /\ head' \in Trees /\ based' \in 1 .. Len(remote') /\ remote' \in Seq(Trees) /\ own' \in BOOLEAN
  BY <1>f, <1>c, PulledTyped DEF TakePull, Trees, TypeInv
<1>8. CASE Pull
  BY <1>8, <1>f DEF Pull, TypeInv
<1>9. CASE PullWithStash
  <2>1. call' \in Calls
    BY <1>9, <1>c DEF PullWithStash, Calls, Steps, TypeInv, Idle
  <2> QED BY <1>9, <1>c, <2>1 DEF PullWithStash, TypeInv, repo, Trees
<1>r. ASSUME Return, UNCHANGED <<disk, repo, pending, edits, owed>>, stash' \in Trees, pushed' \in BOOLEAN,
             spoiled' \in BOOLEAN
      PROVE  TypeInv'
  BY <1>r, <1>c DEF Return, TypeInv, repo, Trees, Empty
<1>10. ASSUME NEW p \in Paths, Snapshot(p) PROVE TypeInv'
  <2>1. [call EXCEPT !.entries[p] = NoOp] \in Calls
    BY <1>c DEF Calls
  <2>2. call' \in Calls
    BY <1>10, <1>c, <2>1, DoneTyped DEF Snapshot
  <2>3. stash' \in Trees
    BY <1>10, <1>c DEF Snapshot, Trees
  <2> QED BY <1>10, <2>2, <2>3 DEF Snapshot, TypeInv, repo
<1>11. CASE SnapshotFails
  BY <1>11, <1>c, <1>r DEF SnapshotFails, TypeInv
<1>12. ASSUME NEW p \in Paths, stashReset(p) PROVE TypeInv'
  <2>1. call' \in Calls /\ disk' \in Trees
    BY <1>12, <1>c, DoneTyped DEF stashReset, Trees
  <2> QED BY <1>12, <2>1 DEF stashReset, TypeInv, repo
<1>u. ASSUME ToUndo PROVE call' \in Calls
  BY <1>u, <1>c DEF ToUndo, Calls, Steps, Kept
<1>13. CASE ResetFails
  BY <1>13, <1>u DEF ResetFails, TypeInv, repo
<1>14. CASE StashPull
  <2>1. disk' \in Trees /\ head' \in Trees /\ based' \in 1 .. Len(remote') /\ remote' \in Seq(Trees) /\ own' \in BOOLEAN
    BY <1>14, <1>f DEF StashPull, TypeInv, repo
  <2>2. call' \in Calls
    BY <1>14, <1>c, <2>1 DEF StashPull, Calls, Steps, Kept
  <2> QED BY <1>14, <2>1, <2>2 DEF StashPull, TypeInv
<1>15. CASE StashPullFails
  BY <1>15, <1>u DEF StashPullFails, TypeInv, repo
<1>16. ASSUME NEW p \in Paths, stashMergeOrOverride(p) PROVE TypeInv'
  <2>1. call' \in Calls
    BY <1>16, <1>c, DoneTyped DEF stashMergeOrOverride
  <2>2. disk' \in Trees /\ owed' \in [Paths -> SUBSET Edits]
    <3>1. CASE applyStashEntry(p)
      BY <3>1, <1>c DEF applyStashEntry, Trees, TypeInv
    <3>2. CASE tryRecordMerge(p)
      <4>1. Merge3(call.base[p], call.after[p], stash[p]) \in Contents
        BY <3>2, <1>c, Merge3Typed DEF tryRecordMerge, Mergeable, Trees
      <4> QED BY <3>2, <4>1, <1>c DEF tryRecordMerge, Trees, TypeInv
    <3>3. CASE Override(p)
      BY <3>3, <1>c DEF Override, TypeInv
    <3> QED BY <1>16, <3>1, <3>2, <3>3 DEF stashMergeOrOverride
  <2> QED BY <1>16, <2>1, <2>2 DEF stashMergeOrOverride, TypeInv, repo
<1>17. CASE CopyMissing
  BY <1>17, <1>c, <1>r DEF CopyMissing, TypeInv
<1>18. CASE RestoreFails
  BY <1>18, <1>c, <1>r DEF RestoreFails, TypeInv
<1>19. ASSUME NEW p \in Paths, stashRestoreOnFailure(p) PROVE TypeInv'
  <2>1. call' \in Calls
    BY <1>19, <1>c, DoneTyped DEF stashRestoreOnFailure
  <2>2. disk' \in Trees
    BY <1>19, <1>c DEF stashRestoreOnFailure, Trees
  <2>3. spoiled' \in BOOLEAN
    BY <1>19 DEF stashRestoreOnFailure, TypeInv
  <2> QED BY <1>19, <2>1, <2>2, <2>3 DEF stashRestoreOnFailure, TypeInv, repo
<1>20. CASE Finish
  BY <1>20, <1>c, <1>r DEF Finish, TypeInv
<1>21. CASE Sweep
  BY <1>21, <1>c DEF Sweep, May, TypeInv, repo
<1>22. CASE Restart
  BY <1>22, <1>c, <1>r DEF Restart, May, TypeInv
<1>23. CASE UNCHANGED vars
  BY <1>23 DEF vars, repo, TypeInv
<1> QED BY <1>1, <1>2, <1>3, <1>4, <1>5, <1>6, <1>7, <1>8, <1>9, <1>10, <1>11, <1>12, <1>13, <1>14,
           <1>15, <1>16, <1>17, <1>18, <1>19, <1>20, <1>21, <1>22, <1>23 DEF Next

LEMMA TypeInit == Init => TypeInv
<1> SUFFICES ASSUME Init PROVE TypeInv
  OBVIOUS
<1>1. head \in Trees
  BY AbsentTyped DEF Init, Trees, Contents
<1>2. remote \in Seq(Trees) /\ Len(remote) = 1
  BY <1>1 DEF Init
<1>3. based \in 1 .. Len(remote) /\ edits \in 0 .. MaxEdits
  BY <1>2, BoundsAssumption DEF Init
<1>4. call \in Calls /\ stash \in Trees /\ disk \in Trees
  BY <1>1, AbsentTyped DEF Init
<1>5. owed \in [Paths -> SUBSET (1 .. MaxEdits)] /\ pending \in [Paths -> Ops \cup {NoOp}]
  BY DEF Init
<1>6. was \in [Paths -> Contents \cup {Settled}]
  BY AbsentTyped DEF Init, Empty
<1>7. own \in BOOLEAN /\ pushed \in BOOLEAN /\ spoiled \in BOOLEAN
  BY DEF Init
<1> QED BY <1>1, <1>2, <1>3, <1>4, <1>5, <1>6, <1>7 DEF TypeInv

\* The state of GitStash is well-typed, whatever disturbs a pull.
THEOREM TypeCorrect == Spec => []TypeInv
BY TypeInit, TypeStep, PTL DEF Spec

----------------------------------------------------------------------------
(* The stash is the pull's own *)

LEMMA OwnStep == TypeInv /\ NoStaleStash /\ [Next]_vars => NoStaleStash'
<1> SUFFICES ASSUME TypeInv, NoStaleStash, [Next]_vars PROVE NoStaleStash'
  OBVIOUS
<1>c. call \in Calls /\ stash \in Trees
  BY DEF TypeInv
<1>e. ASSUME stash' = Empty PROVE NoStaleStash'
  BY <1>e DEF Empty, NoStaleStash
<1>i. ASSUME call' = Idle PROVE NoStaleStash'
  BY <1>i DEF Idle, NoStaleStash
<1>s. ASSUME UNCHANGED <<stash, call>> PROVE NoStaleStash'
  BY <1>s DEF NoStaleStash
<1>d. ASSUME NEW p \in Paths, p \in call.todo, call.step # "idle",
             UNCHANGED stash, call' = Done(p, call)
      PROVE  NoStaleStash'
  BY <1>d, <1>c, DoneKeeps DEF NoStaleStash
<1>n. ASSUME UNCHANGED stash, call'.entries = call.entries, call'.step # "snapshot", call.step # "idle"
      PROVE  NoStaleStash'
  BY <1>n DEF NoStaleStash
<1>1. ASSUME NEW p \in Paths, Save(p) \/ Delete(p) \/ Discard(p) \/ Colleague(p) PROVE NoStaleStash'
  BY <1>1, <1>s DEF Save, Delete, Discard, Colleague
<1>2. CASE Commit \/ Push \/ PushRecord \/ Pull
  BY <1>2, <1>s DEF Commit, Push, PushRecord, Pull
<1>3. CASE PullWithStash
  BY <1>3, <1>e DEF PullWithStash
<1>4. ASSUME NEW p \in Paths, Snapshot(p) PROVE NoStaleStash'
  <2>1. CASE shouldStash(p, call.entries[p])
    <3>0. call' = Done(p, call)
      BY <1>4, <2>1 DEF Snapshot
    <3>2. ASSUME call.entries[p] = "write", NEW q \in Paths, stash'[q] # stash[q] PROVE q = p
      <4>1. stash' = [stash EXCEPT ![p] = disk[p]]
        BY <1>4, <2>1, <3>2 DEF Snapshot
      <4> QED BY <4>1, <3>2, <1>c DEF Trees
    <3>3. ASSUME call.entries[p] # "write" PROVE stash' = stash
      BY <1>4, <2>1, <3>3 DEF Snapshot
    <3>1. \A q \in Paths : stash'[q] # stash[q] => q = p /\ call.entries[q] = "write"
      BY <3>2, <3>3
    <3> QED BY <3>0, <1>4, <3>1, <1>c, DoneKeeps DEF NoStaleStash, Snapshot
  <2>2. CASE ~ shouldStash(p, call.entries[p])
    <3> DEFINE c == [call EXCEPT !.entries[p] = NoOp]
    <3>1. c \in Calls /\ c.todo = call.todo /\ c.step = call.step
          /\ \A q \in Paths : q # p => c.entries[q] = call.entries[q]
      BY <1>c DEF Calls
    <3>2. call' = Done(p, c) /\ stash' = stash
      BY <1>4, <2>2 DEF Snapshot
    <3>3. stash[p] = Absent
      BY <1>4 DEF Snapshot, NoStaleStash
    <3>4. call'.entries = c.entries
          /\ \/ call'.step = c.step /\ call'.todo = c.todo \ {p}
             \/ call'.step \in {"reset", "pull"}
      BY <3>1, <3>2, DoneKeeps
    <3> HIDE DEF c
    <3> QED BY <1>4, <3>1, <3>2, <3>3, <3>4 DEF NoStaleStash, Snapshot
  <2> QED BY <2>1, <2>2
<1>5. CASE SnapshotFails \/ CopyMissing \/ RestoreFails
  BY <1>5, <1>i DEF SnapshotFails, CopyMissing, RestoreFails, Return
<1>6. ASSUME NEW p \in Paths, stashReset(p) \/ stashMergeOrOverride(p) \/ stashRestoreOnFailure(p)
      PROVE  NoStaleStash'
  BY <1>6, <1>d DEF stashReset, stashMergeOrOverride, stashRestoreOnFailure
<1>7. CASE ResetFails \/ StashPullFails \/ StashPull
  <2>1. call'.entries = call.entries /\ call'.step # "snapshot" /\ UNCHANGED stash /\ call.step # "idle"
    BY <1>7, <1>c DEF ResetFails, StashPullFails, StashPull, ToUndo, Calls
  <2> QED BY <2>1, <1>n
<1>8. CASE Finish \/ Sweep \/ Restart
  BY <1>8, <1>e DEF Finish, Sweep, Restart
<1>9. CASE UNCHANGED vars
  BY <1>9, <1>s DEF vars
<1> QED BY <1>1, <1>2, <1>3, <1>4, <1>5, <1>6, <1>7, <1>8, <1>9 DEF Next

\* Whatever is saved, committed, swept, interrupted or fails, a pull finds in its
\* stash only what it put there.
THEOREM StashIsOwn == Spec => []NoStaleStash
<1>1. Init => NoStaleStash
  BY DEF Init, NoStaleStash, Idle
<1> QED BY <1>1, TypeCorrect, OwnStep, PTL DEF Spec

----------------------------------------------------------------------------
(* No edit is lost.  Made: content carries only edits made so far, so that *)
(* the next edit is in no version of the remote.  Guarded: where the owed  *)
(* edits are at each step of a pull, and why the merge cannot drop them.   *)

Within(t, n) == \A p \in Paths : t[p] = Absent \/ t[p] \subseteq 1 .. n

Made ==
    /\ Within(disk, edits) /\ Within(head, edits) /\ Within(stash, edits)
    /\ Within(call.base, edits) /\ Within(call.after, edits)
    /\ \A p \in Paths : owed[p] \subseteq 1 .. edits
    /\ \A i \in 1 .. Len(remote) : Within(remote[i], edits)

Safe(p) ==
    IF InWindow(p)
    THEN IF call.entries[p] = "write" THEN stash[p] # Absent /\ owed[p] \subseteq stash[p]
         ELSE owed[p] = {}
    ELSE owed[p] \subseteq Carried(disk[p])

\* Commits and sweeps wait for the pull, so HEAD stays what the pull read; the
\* remote has nothing of what is owed.
CallSound ==
    /\ call.step = "idle" => call = Idle
    /\ call.step \in {"reset", "restore", "undo"} => call.todo \subseteq Kept(call)
    /\ call.step \in {"snapshot", "reset", "pull"} => call.base = head

RemoteSound ==
    /\ ~ own => head = remote[based]
    /\ \A i \in 1 .. Len(remote) : \A p \in Paths : owed[p] \cap remote[i][p] = {}

Guarded ==
    /\ call.step \in {"idle", "snapshot"} => \A p \in Paths : owed[p] \subseteq Carried(disk[p])
    /\ \A p \in Paths : Safe(p)
    /\ call.step = "restore" =>
           \A p \in Paths : InWindow(p) => owed[p] \cap call.base[p] \subseteq call.after[p]

LEMMA WithinMore ==
    ASSUME NEW n \in Int, NEW m \in Int, n <= m, NEW t, Within(t, n) PROVE Within(t, m)
<1>1. 1 .. n \subseteq 1 .. m
  OBVIOUS
<1> QED BY <1>1 DEF Within

\* The content of p with the next edit.
LEMMA WithinNext ==
    ASSUME NEW n \in Nat, NEW t \in Trees, Within(t, n), NEW p \in Paths
    PROVE  Within([t EXCEPT ![p] = Carried(@) \cup {n + 1}], n + 1)
<1>1. 1 .. n \subseteq 1 .. (n + 1) /\ n + 1 \in 1 .. (n + 1)
  OBVIOUS
<1>2. Carried(t[p]) \cup {n + 1} \subseteq 1 .. (n + 1)
  <2>1. Carried(t[p]) \subseteq 1 .. n
    BY DEF Within, Carried
  <2> QED BY <1>1, <2>1
<1>3. ASSUME NEW q \in Paths, q # p PROVE t[q] = Absent \/ t[q] \subseteq 1 .. (n + 1)
  BY <1>1, <1>3 DEF Within
<1> QED BY <1>2, <1>3 DEF Within, Trees

\* A pull makes no edits: a file that is merged was there on all sides.
LEMMA PulledWithin ==
    ASSUME TypeInv, CanPull, NEW p \in Paths, NEW n \in Int,
           Within(head, n), Within(Upstream, n), Within(remote[based], n)
    PROVE  Pulled(p) = Absent \/ Pulled(p) \subseteq 1 .. n
<1>1. CASE Diverged(p)
  <2>1. Absent \notin {remote[based][p], Upstream[p], head[p]}
    BY <1>1 DEF CanPull, Diverged
  <2> QED BY <1>1, <2>1 DEF Pulled, Merge3, Within
<1>2. CASE ~ Diverged(p)
  BY <1>2 DEF Pulled, Within
<1> QED BY <1>1, <1>2

LEMMA MadeStep == TypeInv /\ Made /\ [Next]_vars => Made'
<1> SUFFICES ASSUME TypeInv, Made, [Next]_vars PROVE Made'
  OBVIOUS
<1>c. /\ call \in Calls /\ disk \in Trees /\ head \in Trees /\ stash \in Trees /\ remote \in Seq(Trees)
      /\ owed \in [Paths -> SUBSET Edits] /\ edits \in Nat /\ edits \in Int
  BY BoundsAssumption DEF TypeInv
<1>v. Within(Upstream, edits) /\ Len(remote) \in Nat
  BY UpstreamTyped, <1>c DEF Made, Upstream
<1>0. Within(Empty, edits)
  BY DEF Within, Empty
<1>1. ASSUME NEW p \in Paths, Save(p) PROVE Made'
  <2>1. edits' = edits + 1 /\ UNCHANGED <<repo, stash, call>>
    BY <1>1 DEF Save
  <2>0. edits' \in Int /\ edits <= edits' /\ edits' \in 1 .. edits' /\ 1 .. edits \subseteq 1 .. edits'
    BY <2>1, <1>c
  <2>2. /\ Within(head, edits') /\ Within(stash, edits') /\ Within(call.base, edits')
        /\ Within(call.after, edits') /\ \A i \in 1 .. Len(remote) : Within(remote[i], edits')
    BY <2>0, <1>c, WithinMore DEF Made
  <2>3. Within(disk', edits')
    BY <1>1, <2>1, <1>c, WithinNext DEF Save, Made
  <2>4. \A q \in Paths : owed'[q] \subseteq 1 .. edits'
    BY <1>1, <2>0, <1>c DEF Save, Made
  <2> QED BY <2>1, <2>2, <2>3, <2>4 DEF Made, repo
<1>2. ASSUME NEW p \in Paths, Delete(p) PROVE Made'
  <2>1. Within(disk', edits) /\ \A q \in Paths : owed'[q] \subseteq 1 .. edits
    BY <1>2, <1>c DEF Delete, Made, Within, Trees
  <2> QED BY <1>2, <2>1 DEF Delete, Made, repo
<1>3. ASSUME NEW p \in Paths, Discard(p) PROVE Made'
  <2>1. Within(disk', edits) /\ \A q \in Paths : owed'[q] \subseteq 1 .. edits
    BY <1>3, <1>c DEF Discard, Made, Within, Trees
  <2> QED BY <1>3, <2>1 DEF Discard, Made, repo
<1>4. ASSUME NEW p \in Paths, Colleague(p) PROVE Made'
  <2>0. edits' \in Int /\ edits <= edits' /\ UNCHANGED <<disk, head, stash, call, owed>>
    BY <1>4, <1>c DEF Colleague
  <2>1. PICK t : remote' = Append(remote, t) /\ Within(t, edits')
    <3>1. CASE remote' = Append(remote, [Upstream EXCEPT ![p] = Absent]) /\ edits' = edits
      <4>1. Within([Upstream EXCEPT ![p] = Absent], edits)
        BY <1>v, UpstreamTyped DEF Within, Trees
      <4> QED BY <3>1, <4>1
    <3>2. CASE edits' = edits + 1
               /\ remote' = Append(remote, [Upstream EXCEPT ![p] = Carried(@) \cup {edits'}])
      <4>1. Within([Upstream EXCEPT ![p] = Carried(@) \cup {edits'}], edits')
        BY <3>2, <1>c, <1>v, UpstreamTyped, WithinNext
      <4> QED BY <3>2, <4>1
    <3> QED BY <1>4, <3>1, <3>2 DEF Colleague
  <2>2. \A i \in 1 .. Len(remote') : Within(remote'[i], edits')
    BY <2>0, <2>1, <1>c, WithinMore DEF Made
  <2>3. /\ Within(disk, edits') /\ Within(head, edits') /\ Within(stash, edits')
        /\ Within(call.base, edits') /\ Within(call.after, edits')
    BY <2>0, <1>c, WithinMore DEF Made
  <2>4. \A q \in Paths : owed[q] \subseteq 1 .. edits'
    BY <2>0, <1>c DEF Made
  <2> QED BY <2>0, <2>2, <2>3, <2>4 DEF Made
<1>5. CASE Commit \/ PushRecord
  BY <1>5 DEF Commit, PushRecord, Made, repo
<1>6. CASE Push
  <2>1. \A i \in 1 .. Len(remote') : Within(remote'[i], edits)
    BY <1>6, <1>c DEF Push, Made
  <2>2. \A q \in Paths : owed'[q] \subseteq 1 .. edits
    BY <1>6 DEF Push, Made
  <2> QED BY <1>6, <2>1, <2>2 DEF Push, Made
<1>f. ASSUME TakePull, CanPull
      PROVE  /\ Within(disk', edits) /\ Within(head', edits)
             /\ \A i \in 1 .. Len(remote') : Within(remote'[i], edits)
  <2>1. Within(remote[based], edits)
    BY <1>c DEF Made, TypeInv
  <2>2. ASSUME NEW p \in Paths PROVE Pulled(p) = Absent \/ Pulled(p) \subseteq 1 .. edits
    BY <1>f, <1>v, <1>c, <2>1, PulledWithin DEF Made
  <2> QED BY <1>f, <2>2 DEF TakePull, Made, Within
<1>7. CASE Pull
  BY <1>7, <1>f DEF Pull, Made
<1>i. ASSUME UNCHANGED <<disk, repo, edits, owed>>, call' = Idle, stash' \in {stash, Empty} PROVE Made'
  BY <1>i, <1>0 DEF Idle, Made, repo
<1>8. CASE PullWithStash
  <2>1. call'.base = head /\ call'.after = Empty
    BY <1>8 DEF PullWithStash, Idle
  <2> QED BY <1>8, <1>0, <2>1 DEF PullWithStash, Made, repo
<1>d. ASSUME NEW p, NEW c \in Calls, c.base = call.base, c.after = call.after
      PROVE  Done(p, c).base = call.base /\ Done(p, c).after = call.after
  BY <1>d, DoneKeeps
<1>9. ASSUME NEW p \in Paths, Snapshot(p) PROVE Made'
  <2>1. call'.base = call.base /\ call'.after = call.after
    <3>1. [call EXCEPT !.entries[p] = NoOp] \in Calls
          /\ [call EXCEPT !.entries[p] = NoOp].base = call.base
          /\ [call EXCEPT !.entries[p] = NoOp].after = call.after
      BY <1>c DEF Calls
    <3> QED BY <1>9, <1>c, <1>d, <3>1 DEF Snapshot
  <2>2. Within(stash', edits)
    BY <1>9, <1>c DEF Snapshot, Made, Within, Trees
  <2> QED BY <1>9, <2>1, <2>2 DEF Snapshot, Made, repo
<1>10. CASE SnapshotFails \/ CopyMissing \/ RestoreFails \/ Finish \/ Restart
  BY <1>10, <1>i DEF SnapshotFails, CopyMissing, RestoreFails, Finish, Restart, Return
<1>11. ASSUME NEW p \in Paths, stashReset(p) \/ stashRestoreOnFailure(p) \/ stashMergeOrOverride(p) PROVE Made'
  <2>1. call'.base = call.base /\ call'.after = call.after
    BY <1>11, <1>c, <1>d DEF stashReset, stashRestoreOnFailure, stashMergeOrOverride
  <2>2. \A q \in Paths : owed'[q] \subseteq 1 .. edits
    BY <1>11, <1>c DEF stashReset, stashRestoreOnFailure, stashMergeOrOverride,
                       applyStashEntry, tryRecordMerge, Override, Made
  <2>3. ASSUME NEW x, disk' = [disk EXCEPT ![p] = x], x = Absent \/ x \subseteq 1 .. edits
        PROVE  Within(disk', edits)
    BY <2>3, <1>c DEF Made, Within, Trees
  <2>4. Within(disk', edits)
    <3>1. CASE stashReset(p)
      BY <3>1, <2>3 DEF stashReset, Made, Within
    <3>2. CASE stashRestoreOnFailure(p)
      BY <3>2, <2>3 DEF stashRestoreOnFailure, Made, Within
    <3>3. CASE applyStashEntry(p)
      BY <3>3, <2>3 DEF applyStashEntry, Made, Within
    <3>4. CASE tryRecordMerge(p)
      <4>1. Merge3(call.base[p], call.after[p], stash[p]) \subseteq 1 .. edits
        BY <3>4 DEF tryRecordMerge, Mergeable, Merge3, Made, Within
      <4> QED BY <3>4, <4>1, <2>3 DEF tryRecordMerge
    <3>5. CASE Override(p)
      BY <3>5 DEF Override, Made
    <3> QED BY <1>11, <3>1, <3>2, <3>3, <3>4, <3>5 DEF stashMergeOrOverride
  <2> QED BY <1>11, <2>1, <2>2, <2>4 DEF stashReset, stashRestoreOnFailure, stashMergeOrOverride, Made, repo
<1>12. CASE ResetFails \/ StashPullFails
  <2>1. call'.base = call.base /\ call'.after = call.after
    BY <1>12, <1>c DEF ResetFails, StashPullFails, ToUndo, Calls
  <2> QED BY <1>12, <2>1 DEF ResetFails, StashPullFails, Made, repo
<1>13. CASE StashPull
  <2>1. call'.base = call.base /\ call'.after = head'
    BY <1>13, <1>c DEF StashPull, Calls
  <2> QED BY <1>13, <2>1, <1>f DEF StashPull, Made, repo
<1>14. CASE Sweep
  BY <1>14, <1>0 DEF Sweep, Made, repo
<1>15. CASE UNCHANGED vars
  BY <1>15 DEF vars, repo, Made
<1> QED BY <1>1, <1>2, <1>3, <1>4, <1>5, <1>6, <1>7, <1>8, <1>9, <1>10, <1>11, <1>12, <1>13, <1>14,
           <1>15 DEF Next

\* What is spoiled stays spoiled.
LEMMA SpoiledStep == TypeInv /\ [Next]_vars /\ ~ spoiled' => ~ spoiled
<1> SUFFICES ASSUME TypeInv, [Next]_vars, spoiled PROVE spoiled' = TRUE
  OBVIOUS
<1>0. spoiled = TRUE
  BY DEF TypeInv
<1>1. ASSUME NEW p \in Paths, Save(p) \/ Delete(p) \/ Discard(p) PROVE spoiled' = TRUE
  BY <1>0, <1>1 DEF Save, Delete, Discard, Touch
<1>2. CASE Commit \/ Push \/ Sweep \/ Restart
  BY <1>0, <1>2 DEF Commit, Push, Sweep, Restart, May
<1>3. CASE PushRecord \/ Pull \/ PullWithStash \/ SnapshotFails \/ ResetFails \/ StashPull
           \/ StashPullFails \/ CopyMissing \/ RestoreFails \/ Finish
  BY <1>0, <1>3 DEF PushRecord, Pull, PullWithStash, SnapshotFails, ResetFails, StashPull,
                    StashPullFails, CopyMissing, RestoreFails, Finish
<1>4. ASSUME NEW p \in Paths,
             Colleague(p) \/ Snapshot(p) \/ stashReset(p) \/ stashMergeOrOverride(p)
             \/ stashRestoreOnFailure(p)
      PROVE  spoiled' = TRUE
  BY <1>0, <1>4 DEF Colleague, Snapshot, stashReset, stashMergeOrOverride, stashRestoreOnFailure
<1>5. CASE UNCHANGED vars
  BY <1>0, <1>5 DEF vars
<1> QED BY <1>1, <1>2, <1>3, <1>4, <1>5 DEF Next

LEMMA CallStep == TypeInv /\ ~ spoiled' /\ CallSound /\ [Next]_vars => CallSound'
<1> SUFFICES ASSUME TypeInv, ~ spoiled', CallSound, [Next]_vars PROVE CallSound'
  OBVIOUS
<1>c. call \in Calls
  BY DEF TypeInv
<1>i. ASSUME call' = Idle PROVE CallSound'
  BY <1>i DEF Idle, CallSound
<1>s. ASSUME UNCHANGED <<call, head>> PROVE CallSound'
  BY <1>s DEF CallSound, Kept
<1>m. ASSUME call.step = "idle", UNCHANGED call PROVE CallSound'
  BY <1>m DEF CallSound
<1>d. ASSUME NEW p, NEW c \in Calls, c.base = call.base, c.step = call.step, call.step # "idle",
             c.step \in {"reset", "restore", "undo"} => c.todo \subseteq Kept(c),
             call' = Done(p, c), UNCHANGED head
      PROVE  CallSound'
  <2>1. Kept(call') = Kept(c) /\ call'.base = c.base
    BY <1>d, DoneKeeps DEF Kept
  <2> QED BY <1>d, <2>1, DoneKeeps DEF CallSound
<1>1. ASSUME NEW p \in Paths, Save(p) \/ Delete(p) \/ Discard(p) \/ Colleague(p) PROVE CallSound'
  BY <1>1, <1>s DEF Save, Delete, Discard, Colleague, repo
<1>2. CASE Commit \/ Push
  BY <1>2, <1>m DEF Commit, Push, May
<1>3. CASE PushRecord \/ Sweep
  BY <1>3, <1>s DEF PushRecord, Sweep, repo
<1>4. CASE Pull
  BY <1>4, <1>m DEF Pull
<1>5. CASE PullWithStash
  <2>1. call'.step \in {"snapshot", "pull"} /\ call'.base = head
    BY <1>5 DEF PullWithStash, Idle
  <2>2. head' = head
    BY <1>5 DEF PullWithStash, repo
  <2> QED BY <2>1, <2>2 DEF CallSound
<1>6. ASSUME NEW p \in Paths, Snapshot(p) PROVE CallSound'
  <2>0. head' = head /\ call.step = "snapshot"
    BY <1>6 DEF Snapshot, repo
  <2>1. CASE shouldStash(p, call.entries[p])
    BY <1>6, <2>0, <2>1, <1>c, <1>d DEF Snapshot
  <2>2. CASE ~ shouldStash(p, call.entries[p])
    <3> DEFINE c == [call EXCEPT !.entries[p] = NoOp]
    <3>1. c \in Calls /\ c.base = call.base /\ c.step = call.step
      BY <1>c DEF Calls
    <3>2. call' = Done(p, c)
      BY <1>6, <2>2 DEF Snapshot
    <3> HIDE DEF c
    <3> QED BY <2>0, <3>1, <3>2, <1>d
  <2> QED BY <2>1, <2>2
<1>7. CASE SnapshotFails \/ CopyMissing \/ RestoreFails \/ Finish \/ Restart
  BY <1>7, <1>i DEF SnapshotFails, CopyMissing, RestoreFails, Finish, Restart, Return
<1>8. ASSUME NEW p \in Paths, stashReset(p) \/ stashMergeOrOverride(p) \/ stashRestoreOnFailure(p)
      PROVE  CallSound'
  <2>1. call.step \in {"reset", "restore", "undo"} /\ call' = Done(p, call) /\ head' = head
    BY <1>8 DEF stashReset, stashMergeOrOverride, stashRestoreOnFailure, repo
  <2> QED BY <2>1, <1>c, <1>d DEF CallSound
<1>9. CASE ResetFails \/ StashPullFails \/ StashPull
  <2>1. call'.step \in {"restore", "undo"} /\ call'.todo = Kept(call) /\ call'.entries = call.entries
    BY <1>9, <1>c DEF ResetFails, StashPullFails, StashPull, ToUndo, Calls
  <2> QED BY <2>1 DEF CallSound, Kept
<1>10. CASE UNCHANGED vars
  BY <1>10, <1>s DEF vars, repo
<1> QED BY <1>1, <1>2, <1>3, <1>4, <1>5, <1>6, <1>7, <1>8, <1>9, <1>10 DEF Next

LEMMA RemoteStep == TypeInv /\ Made /\ RemoteSound /\ [Next]_vars => RemoteSound'
<1> SUFFICES ASSUME TypeInv, Made, RemoteSound, [Next]_vars PROVE RemoteSound'
  OBVIOUS
<1>c. /\ remote \in Seq(Trees) /\ Len(remote) \in Nat \ {0} /\ based \in 1 .. Len(remote)
      /\ owed \in [Paths -> SUBSET Edits] /\ edits \in Nat
  BY UpstreamTyped DEF TypeInv
<1>s. ASSUME UNCHANGED repo, \A p \in Paths : owed'[p] \subseteq owed[p] PROVE RemoteSound'
  BY <1>s DEF RemoteSound, repo
<1>1. ASSUME NEW p \in Paths, Save(p) PROVE RemoteSound'
  <2>1. UNCHANGED repo /\ edits' = edits + 1 /\ owed' = [owed EXCEPT ![p] = @ \cup {edits'}]
    BY <1>1 DEF Save
  <2>2. edits + 1 \notin 1 .. edits /\ edits + 1 # -1
    BY <1>c
  <2>3. \A i \in 1 .. Len(remote) : edits + 1 \notin remote[i][p]
    BY <2>2 DEF Made, Within, Absent
  <2>4. \A i \in 1 .. Len(remote) : \A q \in Paths : owed'[q] \cap remote[i][q] = {}
    BY <2>1, <2>3, <1>c DEF RemoteSound
  <2> QED BY <2>1, <2>4 DEF RemoteSound, repo
<1>2. ASSUME NEW p \in Paths, Delete(p) \/ Discard(p) PROVE RemoteSound'
  BY <1>2, <1>c, <1>s DEF Delete, Discard
<1>3. ASSUME NEW p \in Paths, Colleague(p) PROVE RemoteSound'
  <2>0. UNCHANGED <<head, own, based, owed>>
    BY <1>3 DEF Colleague
  <2>1. PICK t : remote' = Append(remote, t) /\ \A q \in Paths : owed[q] \cap t[q] = {}
    <3>v. \A q \in Paths : owed[q] \cap Upstream[q] = {}
      BY <1>c DEF RemoteSound, Upstream
    <3>1. CASE remote' = Append(remote, [Upstream EXCEPT ![p] = Absent])
      <4>1. \A q \in Paths : owed[q] \cap [Upstream EXCEPT ![p] = Absent][q] = {}
        <5>1. owed[p] \cap Absent = {}
          <6>1. \A e \in 1 .. MaxEdits : e # -1
            BY BoundsAssumption
          <6>2. owed[p] \in SUBSET Edits
            BY <1>c
          <6> QED BY <6>1, <6>2 DEF Absent
        <5> QED BY <3>v, <5>1, UpstreamTyped DEF Trees
      <4> QED BY <3>1, <4>1
    <3>2. CASE edits' = edits + 1
               /\ remote' = Append(remote, [Upstream EXCEPT ![p] = Carried(@) \cup {edits'}])
      <4>1. edits' \notin owed[p]
        BY <3>2, <1>c DEF Made
      <4>2. \A q \in Paths : owed[q] \cap [Upstream EXCEPT ![p] = Carried(@) \cup {edits'}][q] = {}
        BY <3>v, <4>1, UpstreamTyped DEF Trees, Carried
      <4> QED BY <3>2, <4>2
    <3> QED BY <1>3, <3>1, <3>2 DEF Colleague
  <2>2. Len(remote') = Len(remote) + 1 /\ remote'[Len(remote')] = t
        /\ \A i \in 1 .. Len(remote) : remote'[i] = remote[i]
    BY <2>1, <1>c
  <2>3. \A i \in 1 .. Len(remote') : i \in 1 .. Len(remote) \/ i = Len(remote')
    BY <2>2, <1>c
  <2>4. \A i \in 1 .. Len(remote') : \A q \in Paths : owed[q] \cap remote'[i][q] = {}
    BY <2>1, <2>2, <2>3 DEF RemoteSound
  <2>5. remote'[based] = remote[based]
    BY <2>2, <1>c
  <2> QED BY <2>0, <2>4, <2>5 DEF RemoteSound
<1>4. CASE Commit
  BY <1>4 DEF Commit, RemoteSound
<1>5. CASE Push
  <2>1. Len(remote') = Len(remote) + 1 /\ remote'[Len(remote')] = head
        /\ \A i \in 1 .. Len(remote) : remote'[i] = remote[i]
    BY <1>5, <1>c DEF Push
  <2>2. \A q \in Paths : owed'[q] \subseteq owed[q] /\ owed'[q] \cap head[q] = {}
    BY <1>5 DEF Push
  <2> QED BY <1>5, <2>1, <2>2, <1>c DEF Push, RemoteSound
<1>f. ASSUME TakePull, UNCHANGED owed PROVE RemoteSound'
  <2>1. ~ own' => head' = remote'[based']
    <3> SUFFICES ASSUME ~ own PROVE head' = Upstream
      BY <1>f DEF TakePull, Upstream
    <3>1. \A p \in Paths : Pulled(p) = Upstream[p]
      BY DEF Pulled, Diverged
    <3> QED BY <1>f, <3>1, UpstreamTyped DEF TakePull, Trees
  <2> QED BY <1>f, <2>1 DEF TakePull, RemoteSound
<1>6. CASE Pull \/ StashPull
  BY <1>6, <1>f, <1>s DEF Pull, StashPull
<1>7. CASE PushRecord \/ PullWithStash \/ SnapshotFails \/ ResetFails \/ StashPullFails \/ CopyMissing
           \/ RestoreFails \/ Finish \/ Sweep \/ Restart
  BY <1>7, <1>s DEF PushRecord, PullWithStash, SnapshotFails, ResetFails, StashPullFails, CopyMissing,
                    RestoreFails, Finish, Sweep, Restart
<1>8. ASSUME NEW p \in Paths,
             Snapshot(p) \/ stashReset(p) \/ stashMergeOrOverride(p) \/ stashRestoreOnFailure(p)
      PROVE  RemoteSound'
  BY <1>8, <1>c, <1>s DEF Snapshot, stashReset, stashMergeOrOverride, stashRestoreOnFailure,
                          applyStashEntry, tryRecordMerge, Override
<1>9. CASE UNCHANGED vars
  BY <1>9, <1>s DEF vars
<1> QED BY <1>1, <1>2, <1>3, <1>4, <1>5, <1>6, <1>7, <1>8, <1>9 DEF Next

\* Until something spoils it.
Sound == TypeInv /\ Made /\ CallSound /\ RemoteSound /\ Guarded
IInv  == TypeInv /\ Made /\ RemoteSound /\ (~ spoiled => CallSound /\ Guarded)

LEMMA GuardedStep == Sound /\ ~ spoiled' /\ [Next]_vars => Guarded'
<1> SUFFICES ASSUME Sound, ~ spoiled', [Next]_vars PROVE Guarded'
  OBVIOUS
<1>c. /\ call \in Calls /\ disk \in Trees /\ head \in Trees /\ stash \in Trees
      /\ owed \in [Paths -> SUBSET Edits] /\ -1 \notin Edits
      /\ \A p \in Paths : call.entries[p] \in {"write", "delete", NoOp}
  BY BoundsAssumption DEF Sound, TypeInv, Calls, Ops
<1>g. \A p \in Paths : Safe(p)
  BY DEF Sound, Guarded
<1>n. call.step = "idle" => \A p \in Paths : ~ InWindow(p)
  BY DEF Sound, CallSound, Idle, InWindow
\* A step that leaves the call alone: what it changes keeps its owed edits.
<1>s. ASSUME UNCHANGED <<call, stash>>,
             \A p \in Paths : \/ disk'[p] = disk[p] /\ owed'[p] \subseteq owed[p]
                              \/ ~ InWindow(p) /\ owed'[p] \subseteq Carried(disk'[p])
      PROVE  Guarded'
  <2>1. \A p \in Paths : (InWindow(p))' = InWindow(p) /\ (Untouched(p))' = Untouched(p)
    BY <1>s DEF InWindow, Untouched
  <2>2. \A p \in Paths : Safe(p)'
    BY <1>s, <1>g, <2>1 DEF Safe, Carried
  <2>3. call.step \in {"idle", "snapshot"} => \A p \in Paths : owed'[p] \subseteq Carried(disk'[p])
    BY <1>s DEF Sound, Guarded, Carried
  <2>4. call.step = "restore" =>
           \A p \in Paths : InWindow(p) => owed'[p] \cap call.base[p] \subseteq call.after[p]
    BY <1>s, <1>g DEF Sound, Guarded
  <2> QED BY <1>s, <2>1, <2>2, <2>3, <2>4 DEF Guarded
\* A call that ends leaves nothing in the window.
<1>e. ASSUME UNCHANGED <<disk, owed>>, call' = Idle, \A p \in Paths : owed[p] \subseteq Carried(disk[p])
      PROVE  Guarded'
  BY <1>e DEF Guarded, Safe, InWindow, Idle, NoOp
<1>1. ASSUME NEW p \in Paths, Save(p) PROVE Guarded'
  <2>1. ~ InWindow(p) /\ UNCHANGED <<call, stash>>
    BY <1>1 DEF Save, Touch
  <2>2. owed[p] \subseteq Carried(disk[p])
    BY <2>1, <1>g DEF Safe
  <2>3. edits' # -1 /\ disk'[p] = Carried(disk[p]) \cup {edits'} /\ owed'[p] = owed[p] \cup {edits'}
    BY <1>1, <1>c DEF Save, Trees, Sound, TypeInv
  <2>4. owed'[p] \subseteq Carried(disk'[p])
    BY <2>2, <2>3 DEF Carried, Absent
  <2>5. \A q \in Paths : q # p => disk'[q] = disk[q] /\ owed'[q] = owed[q]
    BY <1>1, <1>c DEF Save, Trees
  <2> QED BY <2>1, <2>4, <2>5, <1>s
<1>2. ASSUME NEW p \in Paths, Delete(p) PROVE Guarded'
  <2>1. ~ InWindow(p) /\ UNCHANGED <<call, stash>>
    BY <1>2 DEF Delete, Touch
  <2>2. owed'[p] = {} /\ \A q \in Paths : q # p => disk'[q] = disk[q] /\ owed'[q] = owed[q]
    BY <1>2, <1>c DEF Delete, Trees
  <2> QED BY <2>1, <2>2, <1>s
<1>3. ASSUME NEW p \in Paths, Discard(p) PROVE Guarded'
  <2>1. ~ InWindow(p) /\ UNCHANGED <<call, stash>>
    BY <1>3 DEF Discard, Touch
  <2>2. disk'[p] = head[p] /\ owed'[p] = owed[p] \cap head[p]
        /\ \A q \in Paths : q # p => disk'[q] = disk[q] /\ owed'[q] = owed[q]
    BY <1>3, <1>c DEF Discard, Trees
  <2>3. owed'[p] \subseteq Carried(disk'[p])
    BY <2>2, <1>c DEF Carried, Absent
  <2> QED BY <2>1, <2>2, <2>3, <1>s
<1>4. ASSUME NEW p \in Paths, Colleague(p) PROVE Guarded'
  BY <1>4, <1>s DEF Colleague
<1>5. CASE Commit \/ Push \/ PushRecord
  <2>1. UNCHANGED <<call, stash, disk>> /\ \A p \in Paths : owed'[p] \subseteq owed[p]
    BY <1>5, <1>c DEF Commit, Push, PushRecord
  <2> QED BY <2>1, <1>s
\* What is owed of HEAD's content is in no version of the remote, so a pull keeps it;
\* and it rewrites only files that are as HEAD has them.
<1>h. ASSUME CanPull, NEW p \in Paths PROVE owed[p] \cap head[p] \subseteq Pulled(p)
  <2>1. owed[p] \cap remote[based][p] = {} /\ (~ own => head = remote[based])
    BY DEF Sound, RemoteSound, TypeInv
  <2> QED BY <2>1 DEF Pulled, Diverged, Merge3
<1>f. ASSUME TakePull, CanPull, UNCHANGED owed, NEW p \in Paths, owed[p] \subseteq Carried(disk[p])
      PROVE  owed'[p] \subseteq Carried(disk'[p])
  <2>1. CASE head[p] = Pulled(p)
    BY <1>f, <2>1 DEF TakePull
  <2>2. CASE head[p] # Pulled(p)
    <3>1. disk[p] = head[p] /\ disk'[p] = Pulled(p)
      BY <1>f, <2>2 DEF CanPull, Blocked, TakePull
    <3> QED BY <1>f, <1>h, <3>1, <1>c DEF Carried, Absent
  <2> QED BY <2>1, <2>2
<1>6. CASE Pull
  <2>1. UNCHANGED <<call, stash, owed>> /\ call.step = "idle" /\ TakePull /\ CanPull
    BY <1>6 DEF Pull
  <2>2. \A p \in Paths : owed'[p] \subseteq Carried(disk'[p])
    BY <2>1, <1>f DEF Sound, Guarded
  <2> QED BY <2>1, <2>2, <1>s, <1>n
<1>7. CASE PullWithStash
  <2>1. /\ UNCHANGED <<disk, owed>> /\ call'.step \in {"snapshot", "pull"}
        /\ call'.entries = pending /\ call'.todo = {p \in Paths : pending[p] # NoOp}
        /\ call'.step = "pull" => call'.todo = {}
    BY <1>7 DEF PullWithStash, Idle
  <2>2. \A p \in Paths : owed[p] \subseteq Carried(disk[p])
    BY <1>7 DEF PullWithStash, Sound, Guarded
  <2>3. \A p \in Paths : ~ (InWindow(p))'
    BY <2>1 DEF InWindow
  <2> QED BY <2>1, <2>2, <2>3 DEF Guarded, Safe
<1>8. ASSUME NEW p \in Paths, Snapshot(p) PROVE Guarded'
  <2>0. /\ call.step = "snapshot" /\ p \in call.todo /\ UNCHANGED <<disk, owed>>
        /\ \A q \in Paths : owed[q] \subseteq Carried(disk[q])
    BY <1>8 DEF Snapshot, Sound, Guarded
  <2> DEFINE c == IF shouldStash(p, call.entries[p]) THEN call ELSE [call EXCEPT !.entries[p] = NoOp]
  <2>1. /\ c \in Calls /\ c.step = "snapshot" /\ c.todo = call.todo /\ call' = Done(p, c)
        /\ \A q \in Paths : q # p => c.entries[q] = call.entries[q]
    <3>1. CASE shouldStash(p, call.entries[p])
      BY <1>8, <2>0, <3>1, <1>c DEF Snapshot
    <3>2. CASE ~ shouldStash(p, call.entries[p])
      BY <1>8, <2>0, <3>2, <1>c DEF Snapshot, Calls
    <3> QED BY <3>1, <3>2
  <2>2. /\ c.entries[p] = "write" => stash'[p] # Absent /\ owed[p] \subseteq stash'[p]
        /\ c.entries[p] # "write" /\ c.entries[p] # NoOp => owed[p] = {}
    <3>1. CASE ~ shouldStash(p, call.entries[p])
      BY <3>1, <1>c DEF Calls, NoOp
    <3>2. CASE shouldStash(p, call.entries[p]) /\ call.entries[p] = "write"
      BY <1>8, <2>0, <3>2, <1>c DEF Snapshot, shouldStash, Carried, Trees
    <3>3. CASE shouldStash(p, call.entries[p]) /\ call.entries[p] # "write"
      BY <2>0, <3>3, <1>c DEF shouldStash, Carried
    <3> QED BY <3>1, <3>2, <3>3
  <2>3. \A q \in Paths : q # p => stash'[q] = stash[q]
    BY <1>8, <1>c DEF Snapshot, Trees
  <2> HIDE DEF c
  <2>4. /\ call'.entries = c.entries
        /\ \/ call'.step = "snapshot" /\ call'.todo = call.todo \ {p}
           \/ call'.step \in {"reset", "pull"} /\ call.todo \ {p} = {}
    BY <2>1, DoneKeeps
  <2>5. ASSUME NEW q \in Paths PROVE Safe(q)'
    <3>1. CASE q = p
      <4>1. c.entries[p] \in {"write", "delete", NoOp}
        BY <2>1 DEF Calls, Ops
      <4> QED BY <3>1, <2>0, <2>2, <2>4, <4>1 DEF Safe, InWindow
    <3>2. CASE q # p
      <4>1. (InWindow(q))' => InWindow(q)
        BY <3>2, <2>0, <2>1, <2>4 DEF InWindow
      <4> QED BY <3>2, <4>1, <1>g, <2>0, <2>1, <2>3, <2>4 DEF Safe
    <3> QED BY <3>1, <3>2
  <2> QED BY <2>0, <2>4, <2>5 DEF Guarded
<1>9. CASE SnapshotFails
  BY <1>9, <1>e DEF SnapshotFails, Return, Sound, Guarded
<1>10. ASSUME NEW p \in Paths, stashReset(p) PROVE Guarded'
  <2>1. /\ call.step = "reset" /\ p \in Kept(call) /\ UNCHANGED <<stash, owed>>
        /\ call' = Done(p, call) /\ \A q \in Paths : q # p => disk'[q] = disk[q]
    BY <1>10, <1>c DEF stashReset, Sound, CallSound, Trees
  <2>2. call'.entries = call.entries /\ call'.step \in {"reset", "pull"}
    BY <2>1, <1>c, DoneKeeps
  <2>3. \A q \in Paths : (InWindow(q))' = InWindow(q)
    BY <2>1, <2>2 DEF InWindow
  <2>4. InWindow(p)
    BY <2>1 DEF InWindow, Kept
  <2> QED BY <2>1, <2>2, <2>3, <2>4, <1>g DEF Guarded, Safe
<1>11. CASE ResetFails \/ StashPullFails
  <2>1. /\ call.step \in {"reset", "pull"} /\ UNCHANGED <<disk, stash, owed>>
        /\ call'.step = "undo" /\ call'.todo = Kept(call) /\ call'.entries = call.entries
    BY <1>11, <1>c DEF ResetFails, StashPullFails, ToUndo, Calls
  <2>2. \A q \in Paths : (InWindow(q))' = InWindow(q)
    BY <2>1 DEF InWindow, Kept
  <2> QED BY <2>1, <2>2, <1>g DEF Guarded, Safe
<1>12. CASE StashPull
  <2>1. /\ call.step = "pull" /\ UNCHANGED <<stash, owed>> /\ call'.step = "restore"
        /\ call'.todo = Kept(call) /\ call'.entries = call.entries /\ call'.base = call.base
        /\ call'.after = head' /\ call.base = head
    BY <1>12, <1>c DEF StashPull, Calls, Sound, CallSound
  <2>2. \A q \in Paths : (InWindow(q))' = InWindow(q)
    BY <2>1 DEF InWindow, Kept
  <2>3. ASSUME NEW q \in Paths PROVE Safe(q)'
    <3>1. CASE InWindow(q)
      BY <3>1, <2>1, <2>2, <1>g DEF Safe
    <3>2. CASE ~ InWindow(q)
      <4>1. owed[q] \subseteq Carried(disk[q])
        BY <3>2, <1>g DEF Safe
      <4>2. owed'[q] \subseteq Carried(disk'[q])
        BY <4>1, <1>12, <2>1, <1>f DEF StashPull
      <4> QED BY <3>2, <2>2, <4>2 DEF Safe
    <3> QED BY <3>1, <3>2
  <2>4. ASSUME NEW q \in Paths PROVE owed'[q] \cap call'.base[q] \subseteq call'.after[q]
    <3>1. CASE head' = head
      BY <2>1, <3>1
    <3>2. CASE TakePull /\ CanPull
      BY <2>1, <3>2, <1>h DEF TakePull
    <3> QED BY <1>12, <3>1, <3>2 DEF StashPull, repo
  <2> QED BY <2>1, <2>3, <2>4 DEF Guarded
<1>13. ASSUME NEW p \in Paths, stashMergeOrOverride(p) PROVE Guarded'
  <2>1. /\ call.step = "restore" /\ p \in call.todo /\ p \in Kept(call) /\ UNCHANGED stash
        /\ call'.step = "restore" /\ call'.todo = call.todo \ {p}
        /\ call'.entries = call.entries /\ call'.base = call.base /\ call'.after = call.after
    BY <1>13, <1>c, DoneKeeps DEF stashMergeOrOverride, Sound, CallSound
  <2>2. InWindow(p) /\ ~ (InWindow(p))'
        /\ \A q \in Paths : q # p => (InWindow(q))' = InWindow(q)
    BY <2>1 DEF InWindow, Kept
  <2>3. \A q \in Paths : q # p => disk'[q] = disk[q] /\ owed'[q] = owed[q]
    BY <1>13, <1>c DEF stashMergeOrOverride, applyStashEntry, tryRecordMerge, Override, Trees
  <2>4. call.entries[p] \in {"write", "delete"}
    BY <1>c, <2>1 DEF Kept
  <2>5. owed'[p] \subseteq Carried(disk'[p])
    <3>1. CASE applyStashEntry(p)
      <4>1. owed'[p] = owed[p] /\ disk'[p] = IF call.entries[p] = "delete" THEN Absent ELSE stash[p]
        BY <3>1, <1>c DEF applyStashEntry, Trees
      <4> QED BY <4>1, <2>2, <2>4, <1>g, <1>c DEF Safe, Carried, Absent
    <3>2. CASE tryRecordMerge(p)
      <4>1. owed'[p] = owed[p] /\ disk'[p] = Merge3(call.base[p], call.after[p], stash[p])
            /\ call.entries[p] = "write" /\ ~ Untouched(p)
        BY <3>2, <1>c DEF tryRecordMerge, Mergeable, Trees
      <4>2. owed[p] \subseteq stash[p] /\ owed[p] \cap call.base[p] \subseteq call.after[p]
        BY <4>1, <2>1, <2>2, <1>g DEF Safe, Sound, Guarded
      <4> QED BY <4>1, <4>2, <1>c DEF Merge3, Carried, Absent
    <3>3. CASE Override(p)
      <4>1. owed'[p] = owed[p] \ Carried(stash[p])
        BY <3>3, <1>c DEF Override
      <4>2. owed'[p] = {}
        BY <4>1, <2>2, <1>g, <1>c DEF Safe, Carried, Absent
      <4> QED BY <4>2
    <3> QED BY <1>13, <3>1, <3>2, <3>3 DEF stashMergeOrOverride
  <2>6. \A q \in Paths : Safe(q)'
    BY <2>1, <2>2, <2>3, <2>5, <1>g DEF Safe
  <2>7. \A q \in Paths : (InWindow(q))' => owed'[q] \cap call'.base[q] \subseteq call'.after[q]
    BY <2>1, <2>2, <2>3 DEF Sound, Guarded
  <2> QED BY <2>1, <2>6, <2>7 DEF Guarded
<1>14. CASE CopyMissing
  <2>1. PICK p \in call.todo : call.entries[p] = "write" /\ stash[p] = Absent
    BY <1>14 DEF CopyMissing
  <2>2. p \in Paths /\ InWindow(p)
    BY <2>1, <1>14, <1>c DEF CopyMissing, InWindow, Calls, NoOp
  <2> QED BY <2>1, <2>2, <1>g DEF Safe
<1>15. CASE RestoreFails
  BY <1>15 DEF RestoreFails
<1>16. ASSUME NEW p \in Paths, stashRestoreOnFailure(p) PROVE Guarded'
  <2>1. /\ call.step = "undo" /\ p \in call.todo /\ p \in Kept(call) /\ UNCHANGED <<stash, owed>>
        /\ call'.step = "undo" /\ call'.todo = call.todo \ {p} /\ call'.entries = call.entries
    BY <1>16, <1>c, DoneKeeps DEF stashRestoreOnFailure, Sound, CallSound
  <2>2. InWindow(p) /\ ~ (InWindow(p))'
        /\ \A q \in Paths : q # p => (InWindow(q))' = InWindow(q)
    BY <2>1 DEF InWindow, Kept
  <2>3. /\ disk'[p] = IF call.entries[p] = "delete" THEN Absent
                      ELSE IF stash[p] # Absent THEN stash[p] ELSE disk[p]
        /\ \A q \in Paths : q # p => disk'[q] = disk[q]
    BY <1>16, <1>c DEF stashRestoreOnFailure, Trees
  <2>4. call.entries[p] \in {"write", "delete"}
    BY <1>c, <2>1 DEF Kept
  <2>5. owed[p] \subseteq Carried(disk'[p])
    BY <2>2, <2>3, <2>4, <1>g, <1>c DEF Safe, Carried, Absent
  <2> QED BY <2>1, <2>2, <2>3, <2>5, <1>g DEF Guarded, Safe
<1>17. CASE Finish
  <2>1. \A p \in Paths : ~ InWindow(p)
    BY <1>17 DEF Finish, InWindow
  <2> QED BY <1>17, <2>1, <1>e, <1>g DEF Finish, Return, Safe
<1>18. CASE Sweep
  <2>1. call.step = "idle" /\ UNCHANGED <<call, disk, owed>>
    BY <1>18 DEF Sweep, May
  <2>2. call = Idle /\ \A p \in Paths : owed[p] \subseteq Carried(disk[p])
    BY <2>1 DEF Sound, CallSound, Guarded
  <2> QED BY <2>1, <2>2, <1>e
<1>19. CASE Restart
  <2>1. call.step = "idle" /\ UNCHANGED <<disk, owed>> /\ call' = Idle
    BY <1>19 DEF Restart, Return, May
  <2> QED BY <2>1, <1>e DEF Sound, Guarded
<1>20. CASE UNCHANGED vars
  BY <1>20, <1>s DEF vars
<1> QED BY <1>1, <1>2, <1>3, <1>4, <1>5, <1>6, <1>7, <1>8, <1>9, <1>10, <1>11, <1>12, <1>13, <1>14,
           <1>15, <1>16, <1>17, <1>18, <1>19, <1>20 DEF Next

LEMMA IInvInit == Init => IInv
<1> SUFFICES ASSUME Init PROVE IInv
  OBVIOUS
<1>1. Made
  BY DEF Init, Made, Within, Idle, Empty
<1>2. CallSound /\ RemoteSound
  <2>1. CallSound
    BY DEF Init, CallSound, Idle
  <2>2. remote[based] = head /\ \A p \in Paths : owed[p] = {}
    BY DEF Init
  <2> QED BY <2>1, <2>2 DEF RemoteSound
<1>3. Guarded
  BY DEF Init, Guarded, Safe, InWindow, Idle
<1> QED BY <1>1, <1>2, <1>3, TypeInit DEF IInv

LEMMA IInvStep == IInv /\ [Next]_vars => IInv'
<1> SUFFICES ASSUME IInv, [Next]_vars PROVE IInv'
  OBVIOUS
<1>1. TypeInv' /\ Made' /\ RemoteSound'
  BY TypeStep, MadeStep, RemoteStep DEF IInv
<1>2. ASSUME ~ spoiled' PROVE CallSound' /\ Guarded'
  <2>1. ~ spoiled
    BY <1>2, SpoiledStep DEF IInv
  <2> QED BY <1>2, <2>1, CallStep, GuardedStep DEF IInv, Sound
<1> QED BY <1>1, <1>2 DEF IInv

LEMMA IInvKeeps == IInv => EditsKept
<1> SUFFICES ASSUME IInv, ~ spoiled, NEW p \in Paths
             PROVE owed[p] \subseteq Carried(disk[p])
                       \cup (IF call.step = "idle" THEN {} ELSE Carried(stash[p]))
  BY DEF EditsKept
<1>1. CASE InWindow(p)
  <2>1. call.step # "idle" /\ call.entries[p] \in {"write", "delete"}
    BY <1>1 DEF InWindow, IInv, CallSound, Idle, TypeInv, Calls, Ops
  <2>2. owed[p] \subseteq Edits /\ -1 \notin Edits
    BY BoundsAssumption DEF IInv, TypeInv
  <2> QED BY <1>1, <2>1, <2>2 DEF IInv, Guarded, Safe, Carried, Absent
<1>2. CASE ~ InWindow(p)
  BY <1>2 DEF IInv, Guarded, Safe
<1> QED BY <1>1, <1>2

\* Until somebody saves into the window of a pull, commits, sweeps or stops it, or
\* its restoring fails: no edit is lost, however many files, edits and versions there are.
THEOREM EditsAreKept == Spec => []EditsKept
BY IInvInit, IInvStep, IInvKeeps, PTL DEF Spec
----------------------------------------------------------------------------
(* What a pull makes of the files.  Tracked: what the user had is on disk, *)
(* or in the stash while its path is in the window; a path that was reset  *)
(* is as HEAD has it, before the pull and after; one whose turn is over    *)
(* has its outcome.                                                        *)

Stashed(p) ==
    InWindow(p) => IF call.entries[p] = "write" THEN stash[p] # Absent /\ was[p] = stash[p]
                   ELSE was[p] = Absent

Placed(p) ==
    CASE call.step = "snapshot" -> was[p] = disk[p]
      [] call.step = "reset"    -> IF InWindow(p) THEN p \in call.todo \/ disk[p] = call.base[p]
                                   ELSE was[p] = disk[p]
      [] call.step = "pull"     -> IF InWindow(p) THEN disk[p] = call.base[p] ELSE was[p] = disk[p]
      [] call.step = "undo"     -> InWindow(p) \/ was[p] = disk[p]
      [] call.step = "restore"  -> IF InWindow(p) THEN disk[p] = call.after[p] ELSE disk[p] \in Outcome(p)
      [] OTHER -> TRUE

Tracked == \A p \in Paths : Stashed(p) /\ Placed(p)

LEMMA TrackedStep ==
    TypeInv /\ CallSound /\ Tracked /\ ~ spoiled /\ ~ spoiled' /\ [Next]_vars => Tracked'
<1> SUFFICES ASSUME TypeInv, CallSound, Tracked, ~ spoiled, ~ spoiled', [Next]_vars PROVE Tracked'
  OBVIOUS
<1>c. /\ call \in Calls /\ disk \in Trees /\ head \in Trees /\ stash \in Trees
      /\ was \in [Paths -> Contents \cup {Settled}]
      /\ \A p \in Paths : call.entries[p] \in {"write", "delete", NoOp}
  BY DEF TypeInv, Calls, Ops
<1>d. disk' \in Trees
  BY TypeStep DEF TypeInv
<1>p. \A p \in Paths : Stashed(p) /\ Placed(p)
  BY DEF Tracked
\* A step that leaves the call alone, for the paths it leaves alone.
<1>q. ASSUME UNCHANGED <<call, stash>>, NEW q \in Paths, disk'[q] = disk[q], was'[q] = was[q]
      PROVE  (Stashed(q) /\ Placed(q))'
  <2>1. (InWindow(q))' = InWindow(q) /\ (Outcome(q))' = Outcome(q)
    BY <1>q DEF InWindow, Outcome, Untouched
  <2> QED BY <1>q, <1>p, <2>1 DEF Stashed, Placed
<1>s. ASSUME UNCHANGED <<call, stash, disk, was>> PROVE Tracked'
  BY <1>s, <1>q DEF Tracked
\* No call, no window.
<1>i. ASSUME call' = Idle PROVE Tracked'
  BY <1>i DEF Tracked, Stashed, Placed, InWindow, Idle
\* The user changes a file outside the window.
<1>t. ASSUME NEW p \in Paths, Touch(p), UNCHANGED <<call, stash>>,
             \A q \in Paths : q # p => disk'[q] = disk[q]
      PROVE  Tracked'
  <2>1. ~ InWindow(p) /\ ~ (InWindow(p))'
    BY <1>t DEF Touch, InWindow
  <2>2. call.step # "idle" => was'[p] = IF call.step = "restore" THEN Settled ELSE disk'[p]
    BY <1>t, <1>c DEF Touch
  <2>3. \A q \in Paths : q # p => was'[q] = was[q]
    BY <1>t, <1>c DEF Touch
  <2>4. Stashed(p)'
    BY <2>1 DEF Stashed
  <2>5. Placed(p)'
    <3>1. disk'[p] \in Contents
      BY <1>d DEF Trees
    <3>2. call.step = "restore" => (Outcome(p))' = Contents
      BY <2>2 DEF Outcome
    <3> QED BY <2>1, <2>2, <3>1, <3>2, <1>t DEF Placed
  <2>6. \A q \in Paths : q # p => (Stashed(q) /\ Placed(q))'
    BY <2>3, <1>t, <1>q
  <2> QED BY <2>4, <2>5, <2>6 DEF Tracked
<1>1. ASSUME NEW p \in Paths, Save(p) \/ Delete(p) \/ Discard(p) PROVE Tracked'
  <2>1. Touch(p) /\ UNCHANGED <<call, stash>> /\ \A q \in Paths : q # p => disk'[q] = disk[q]
    BY <1>1, <1>c DEF Save, Delete, Discard, Trees
  <2> QED BY <2>1, <1>t
<1>2. CASE (\E p \in Paths : Colleague(p)) \/ Commit \/ Push \/ PushRecord
  BY <1>2, <1>s DEF Colleague, Commit, Push, PushRecord
<1>3. CASE Pull
  <2>1. call' = Idle
    BY <1>3 DEF Pull, CallSound
  <2> QED BY <2>1, <1>i
<1>4. CASE PullWithStash
  <2>1. /\ UNCHANGED disk /\ was' = disk
        /\ call'.step = IF {p \in Paths : pending[p] # NoOp} = {} THEN "pull" ELSE "snapshot"
        /\ call'.entries = pending /\ call'.todo = {p \in Paths : pending[p] # NoOp}
    BY <1>4 DEF PullWithStash, Idle
  <2>2. \A p \in Paths : ~ (InWindow(p))'
    BY <2>1 DEF InWindow
  <2> QED BY <2>1, <2>2 DEF Tracked, Stashed, Placed
<1>5. CASE SnapshotFails \/ CopyMissing \/ RestoreFails \/ Finish \/ Restart
  BY <1>5, <1>i DEF SnapshotFails, CopyMissing, RestoreFails, Finish, Restart, Return
<1>6. ASSUME NEW p \in Paths, Snapshot(p) PROVE Tracked'
  <2>0. /\ call.step = "snapshot" /\ p \in call.todo /\ UNCHANGED <<disk, was>>
        /\ \A q \in Paths : was[q] = disk[q]
    BY <1>6, <1>p DEF Snapshot, Placed
  <2> DEFINE c == IF shouldStash(p, call.entries[p]) THEN call ELSE [call EXCEPT !.entries[p] = NoOp]
  <2>1. /\ c \in Calls /\ c.step = "snapshot" /\ c.todo = call.todo /\ call' = Done(p, c)
        /\ \A q \in Paths : q # p => c.entries[q] = call.entries[q]
    <3>1. CASE shouldStash(p, call.entries[p])
      BY <1>6, <2>0, <3>1, <1>c DEF Snapshot
    <3>2. CASE ~ shouldStash(p, call.entries[p])
      BY <1>6, <2>0, <3>2, <1>c DEF Snapshot, Calls
    <3> QED BY <3>1, <3>2
  <2>2. /\ c.entries[p] = "write" => stash'[p] # Absent /\ stash'[p] = disk[p]
        /\ c.entries[p] # "write" /\ c.entries[p] # NoOp => disk[p] = Absent
    <3>1. CASE ~ shouldStash(p, call.entries[p])
      BY <3>1, <1>c DEF Calls, NoOp
    <3>2. CASE shouldStash(p, call.entries[p]) /\ call.entries[p] = "write"
      BY <1>6, <2>0, <3>2, <1>c DEF Snapshot, shouldStash, Trees
    <3>3. CASE shouldStash(p, call.entries[p]) /\ call.entries[p] # "write"
      BY <2>0, <3>3, <1>c DEF shouldStash
    <3> QED BY <3>1, <3>2, <3>3
  <2>3. \A q \in Paths : q # p => stash'[q] = stash[q]
    BY <1>6, <1>c DEF Snapshot, Trees
  <2> HIDE DEF c
  <2>4. /\ call'.entries = c.entries
        /\ \/ call'.step = "snapshot" /\ call'.todo = call.todo \ {p}
           \/ call'.step = "reset" /\ call.todo \ {p} = {} /\ call'.todo = Kept(c)
           \/ call'.step = "pull" /\ call.todo \ {p} = {} /\ Kept(c) = {}
    BY <2>1 DEF Done, Calls, NextStep
  <2>5. ASSUME NEW q \in Paths PROVE (Stashed(q))'
    <3>1. CASE q = p
      BY <3>1, <2>0, <2>2, <2>4 DEF Stashed, InWindow
    <3>2. CASE q # p
      <4>1. (InWindow(q))' => InWindow(q)
        BY <3>2, <2>0, <2>1, <2>4 DEF InWindow
      <4> QED BY <3>2, <4>1, <1>p, <2>0, <2>1, <2>3, <2>4 DEF Stashed
    <3> QED BY <3>1, <3>2
  <2>6. ASSUME NEW q \in Paths PROVE (Placed(q))'
    <3>1. was'[q] = disk'[q]
      BY <2>0
    <3>2. call'.step = "reset" /\ (InWindow(q))' => q \in call'.todo
      BY <2>4 DEF InWindow, Kept
    <3>3. call'.step = "pull" => ~ (InWindow(q))'
      BY <2>4 DEF InWindow, Kept
    <3> QED BY <2>4, <3>1, <3>2, <3>3 DEF Placed
  <2> QED BY <2>5, <2>6 DEF Tracked
<1>7. ASSUME NEW p \in Paths, stashReset(p) PROVE Tracked'
  <2>1. /\ call.step = "reset" /\ p \in call.todo /\ p \in Kept(call) /\ UNCHANGED <<stash, was>>
        /\ disk'[p] = call.base[p] /\ \A q \in Paths : q # p => disk'[q] = disk[q]
    BY <1>7, <1>c DEF stashReset, CallSound, Trees
  <2>2. /\ call'.entries = call.entries /\ call'.base = call.base
        /\ \/ call'.step = "reset" /\ call'.todo = call.todo \ {p}
           \/ call'.step = "pull" /\ call.todo \ {p} = {}
    BY <1>7, <1>c, <2>1, DoneKeeps DEF stashReset
  <2>3. InWindow(p) /\ \A q \in Paths : (InWindow(q))' = InWindow(q)
    BY <2>1, <2>2 DEF InWindow, Kept
  <2>4. ASSUME NEW q \in Paths PROVE (Stashed(q))'
    BY <2>1, <2>2, <2>3, <1>p DEF Stashed
  <2>5. ASSUME NEW q \in Paths PROVE (Placed(q))'
    <3>1. ~ InWindow(q) => was'[q] = disk'[q]
      BY <2>1, <2>3, <1>p DEF Placed
    <3>2. InWindow(q) => q \in call.todo \ {p} \/ disk'[q] = call.base[q]
      BY <2>1, <1>p DEF Placed
    <3> QED BY <2>2, <2>3, <3>1, <3>2 DEF Placed
  <2> QED BY <2>4, <2>5 DEF Tracked
<1>8. CASE ResetFails \/ StashPullFails
  <2>1. /\ call.step \in {"reset", "pull"} /\ UNCHANGED <<disk, stash, was>>
        /\ call'.step = "undo" /\ call'.todo = Kept(call) /\ call'.entries = call.entries
    BY <1>8, <1>c DEF ResetFails, StashPullFails, ToUndo, Calls
  <2>2. \A q \in Paths : (InWindow(q))' = InWindow(q)
    BY <2>1 DEF InWindow, Kept
  <2> QED BY <2>1, <2>2, <1>p DEF Tracked, Stashed, Placed
<1>9. CASE StashPull
  <2>1. /\ call.step = "pull" /\ UNCHANGED <<stash, was>> /\ call'.step = "restore"
        /\ call'.todo = Kept(call) /\ call'.entries = call.entries /\ call'.base = call.base
        /\ call'.after = head' /\ call.base = head
    BY <1>9, <1>c DEF StashPull, Calls, CallSound
  <2>2. \A q \in Paths : (InWindow(q))' = InWindow(q)
    BY <2>1 DEF InWindow, Kept
  <2>3. ASSUME NEW q \in Paths PROVE disk'[q] = IF head[q] = head'[q] THEN disk[q] ELSE head'[q]
    BY <1>9, <1>c DEF StashPull, TakePull, repo
  <2>4. ASSUME NEW q \in Paths PROVE (Stashed(q))'
    BY <2>1, <2>2, <1>p DEF Stashed
  <2>5. ASSUME NEW q \in Paths PROVE (Placed(q))'
    <3>1. CASE InWindow(q)
      <4>1. disk[q] = head[q]
        BY <3>1, <2>1, <1>p DEF Placed
      <4> QED BY <3>1, <4>1, <2>1, <2>2, <2>3 DEF Placed
    <3>2. CASE ~ InWindow(q)
      <4>1. was'[q] = disk[q] /\ disk'[q] \in Contents
        BY <3>2, <2>1, <1>p, <1>d DEF Placed, Trees
      <4>2. (Untouched(q))' = (head[q] = head'[q])
        BY <2>1 DEF Untouched
      <4>3. disk'[q] \in (Outcome(q))'
        <5>1. CASE was'[q] = Settled
          BY <5>1, <4>1 DEF Outcome
        <5>2. CASE was'[q] # Settled /\ head[q] = head'[q]
          BY <5>2, <4>1, <4>2, <2>3 DEF Outcome
        <5>3. CASE was'[q] # Settled /\ head[q] # head'[q]
          BY <5>3, <4>2, <2>1, <2>3 DEF Outcome
        <5> QED BY <5>1, <5>2, <5>3
      <4> QED BY <3>2, <4>3, <2>1, <2>2 DEF Placed
    <3> QED BY <3>1, <3>2
  <2> QED BY <2>4, <2>5 DEF Tracked
<1>10. ASSUME NEW p \in Paths, stashMergeOrOverride(p) PROVE Tracked'
  <2>1. /\ call.step = "restore" /\ p \in call.todo /\ p \in Kept(call) /\ UNCHANGED <<stash, was>>
        /\ call'.step = "restore" /\ call'.todo = call.todo \ {p}
        /\ call'.entries = call.entries /\ call'.base = call.base /\ call'.after = call.after
    BY <1>10, <1>c, DoneKeeps DEF stashMergeOrOverride, CallSound
  <2>2. InWindow(p) /\ ~ (InWindow(p))'
        /\ \A q \in Paths : q # p => (InWindow(q))' = InWindow(q)
    BY <2>1 DEF InWindow, Kept
  <2>3. \A q \in Paths : q # p => disk'[q] = disk[q]
    BY <1>10, <1>c DEF stashMergeOrOverride, applyStashEntry, tryRecordMerge, Override, Trees
  <2>4. ASSUME NEW q \in Paths PROVE (Outcome(q))' = Outcome(q)
    BY <2>1 DEF Outcome, Untouched
  <2>5. /\ call.entries[p] = "write" => was[p] = stash[p]
        /\ call.entries[p] = "delete" => was[p] = Absent
        /\ call.entries[p] \in {"write", "delete"} /\ disk[p] = call.after[p]
    BY <2>1, <2>2, <1>p, <1>c DEF Stashed, Placed, Kept
  <2>6. disk'[p] \in Outcome(p)
    <3>0. CASE was[p] = Settled
      BY <3>0, <1>d DEF Outcome, Trees
    <3>1. CASE was[p] # Settled /\ applyStashEntry(p)
      <4>1. Untouched(p) /\ disk'[p] = IF call.entries[p] = "delete" THEN Absent ELSE stash[p]
        BY <3>1, <1>c DEF applyStashEntry, Trees
      <4> QED BY <3>1, <4>1, <2>5 DEF Outcome
    <3>2. CASE was[p] # Settled /\ tryRecordMerge(p)
      <4>1. /\ ~ Untouched(p) /\ call.entries[p] = "write" /\ p \in RecordFiles
            /\ disk'[p] = Merge3(call.base[p], call.after[p], stash[p])
        BY <3>2, <1>c DEF tryRecordMerge, Mergeable, Trees
      <4>2. disk'[p] = Merge3(call.base[p], call.after[p], was[p])
        BY <4>1, <2>5
      <4> QED BY <3>2, <4>1, <4>2 DEF Outcome
    <3>3. CASE was[p] # Settled /\ Override(p)
      <4>1. ~ Untouched(p) /\ disk' = disk
        BY <3>3 DEF Override
      <4> QED BY <3>3, <4>1, <2>5 DEF Outcome
    <3> QED BY <1>10, <3>0, <3>1, <3>2, <3>3 DEF stashMergeOrOverride
  <2>7. \A q \in Paths : (Stashed(q))'
    BY <2>1, <2>2, <1>p DEF Stashed
  <2>8. ASSUME NEW q \in Paths PROVE (Placed(q))'
    <3>1. CASE q = p
      BY <3>1, <2>1, <2>2, <2>4, <2>6 DEF Placed
    <3>2. CASE q # p
      <4>1. IF InWindow(q) THEN disk[q] = call.after[q] ELSE disk[q] \in Outcome(q)
        BY <2>1, <1>p DEF Placed
      <4> QED BY <3>2, <4>1, <2>1, <2>2, <2>3, <2>4 DEF Placed
    <3> QED BY <3>1, <3>2
  <2> QED BY <2>7, <2>8 DEF Tracked
<1>11. ASSUME NEW p \in Paths, stashRestoreOnFailure(p) PROVE Tracked'
  <2>1. /\ call.step = "undo" /\ p \in call.todo /\ p \in Kept(call) /\ UNCHANGED <<stash, was>>
        /\ call'.step = "undo" /\ call'.todo = call.todo \ {p} /\ call'.entries = call.entries
    BY <1>11, <1>c, DoneKeeps DEF stashRestoreOnFailure, CallSound
  <2>2. InWindow(p) /\ ~ (InWindow(p))'
        /\ \A q \in Paths : q # p => (InWindow(q))' = InWindow(q)
    BY <2>1 DEF InWindow, Kept
  <2>3. /\ disk'[p] = IF call.entries[p] = "delete" THEN Absent
                      ELSE IF stash[p] # Absent THEN stash[p] ELSE disk[p]
        /\ \A q \in Paths : q # p => disk'[q] = disk[q]
    BY <1>11, <1>c DEF stashRestoreOnFailure, Trees
  <2>4. call.entries[p] \in {"write", "delete"}
    BY <1>c, <2>1 DEF Kept
  <2>5. was[p] = disk'[p]
    BY <2>2, <2>3, <2>4, <1>p DEF Stashed
  <2> QED BY <2>1, <2>2, <2>3, <2>5, <1>p DEF Tracked, Stashed, Placed
<1>12. CASE Sweep
  <2>1. call' = Idle
    BY <1>12 DEF Sweep, May, CallSound
  <2> QED BY <2>1, <1>i
<1>13. CASE UNCHANGED vars
  BY <1>13, <1>s DEF vars
<1> QED BY <1>1, <1>2, <1>3, <1>4, <1>5, <1>6, <1>7, <1>8, <1>9, <1>10, <1>11, <1>12, <1>13 DEF Next

LEMMA SettlesStep ==
    ASSUME TypeInv, CallSound, Tracked, ~ spoiled, ~ spoiled', [Next]_vars
    PROVE  /\ call.step = "restore" /\ call'.step = "idle" => \A p \in Paths : disk'[p] \in Outcome(p)
           /\ call.step \in {"snapshot", "undo"} /\ call'.step = "idle" => disk' = was
<1> SUFFICES ASSUME call.step \in {"restore", "snapshot", "undo"}, call'.step = "idle"
             PROVE  /\ call.step = "restore" => \A p \in Paths : disk'[p] \in Outcome(p)
                    /\ call.step \in {"snapshot", "undo"} => disk' = was
  OBVIOUS
<1>c. /\ call \in Calls /\ disk \in Trees /\ was \in [Paths -> Contents \cup {Settled}]
      /\ \A p \in Paths : Stashed(p) /\ Placed(p)
  BY DEF TypeInv, Tracked
<1>w. ASSUME \A p \in Paths : was[p] = disk[p] PROVE disk = was
  BY <1>w, <1>c DEF Trees
<1>1. CASE SnapshotFails
  BY <1>1, <1>c, <1>w DEF SnapshotFails, Placed
<1>2. CASE CopyMissing
  <2>1. PICK p \in call.todo : call.step = "restore" /\ call.entries[p] = "write" /\ stash[p] = Absent
    BY <1>2 DEF CopyMissing
  <2>2. p \in Paths /\ InWindow(p)
    BY <2>1, <1>c DEF InWindow, Calls, NoOp
  <2> QED BY <2>1, <2>2, <1>c DEF Stashed
<1>3. CASE Finish
  <2>1. \A p \in Paths : ~ InWindow(p)
    BY <1>3 DEF Finish, InWindow
  <2>2. disk' = disk /\ call.step \in {"restore", "undo"}
    BY <1>3 DEF Finish
  <2>3. call.step = "restore" => \A p \in Paths : disk[p] \in Outcome(p)
    BY <2>1, <1>c DEF Placed
  <2>4. call.step = "undo" => disk = was
    BY <2>1, <1>c, <1>w DEF Placed
  <2> QED BY <2>2, <2>3, <2>4
<1>4. CASE RestoreFails \/ Restart
  BY <1>4 DEF RestoreFails, Restart, May
<1>5. ASSUME NEW p \in Paths,
             \/ Snapshot(p) \/ stashReset(p) \/ stashMergeOrOverride(p) \/ stashRestoreOnFailure(p)
      PROVE  FALSE
  <2>1. CASE Snapshot(p)
    <3>1. PICK c \in Calls : c.step = "snapshot" /\ call' = Done(p, c)
      <4>1. [call EXCEPT !.entries[p] = NoOp] \in Calls /\ [call EXCEPT !.entries[p] = NoOp].step = call.step
        BY <1>c DEF Calls
      <4> QED BY <2>1, <4>1, <1>c DEF Snapshot
    <3> QED BY <3>1, DoneKeeps
  <2>2. CASE stashReset(p)
    BY <2>2 DEF stashReset
  <2>3. CASE stashMergeOrOverride(p) \/ stashRestoreOnFailure(p)
    BY <2>3, <1>c, DoneKeeps DEF stashMergeOrOverride, stashRestoreOnFailure
  <2> QED BY <1>5, <2>1, <2>2, <2>3
<1>6. ASSUME \/ ResetFails \/ StashPull \/ StashPullFails \/ Pull \/ PullWithStash
      PROVE  FALSE
  BY <1>6 DEF ResetFails, StashPull, StashPullFails, Pull, PullWithStash
<1>7. ASSUME UNCHANGED call PROVE FALSE
  BY <1>7
<1>8. ASSUME \/ \E p \in Paths : Save(p) \/ Delete(p) \/ Discard(p) \/ Colleague(p)
             \/ Commit \/ Push \/ PushRecord \/ Sweep \/ UNCHANGED vars
      PROVE  FALSE
  BY <1>8, <1>7 DEF Save, Delete, Discard, Colleague, Commit, Push, PushRecord, Sweep, vars
<1> QED BY <1>1, <1>2, <1>3, <1>4, <1>5, <1>6, <1>8 DEF Next

\* Until somebody saves into the window of a pull, commits, sweeps or stops it, or its
\* restoring fails: a pull that ends leaves each path with its outcome, one that fails
\* leaves each as the user had it, whatever the user and the colleagues do meanwhile.
THEOREM PullsSettle == Spec => PullSettles
<1> DEFINE J == IInv /\ (~ spoiled => Tracked)
<1>1. Init => J
  BY IInvInit DEF Init, Tracked, Stashed, Placed, InWindow, Idle
<1>2. J /\ [Next]_vars => J'
  <2> SUFFICES ASSUME J, [Next]_vars PROVE J'
    OBVIOUS
  <2>1. IInv'
    BY IInvStep
  <2>2. ASSUME ~ spoiled' PROVE Tracked'
    <3>1. ~ spoiled
      BY <2>2, SpoiledStep DEF IInv
    <3> QED BY <2>2, <3>1, TrackedStep DEF IInv
  <2> QED BY <2>1, <2>2
<1>3. J /\ [Next]_vars =>
          (~ spoiled' =>
              /\ call.step = "restore" /\ call'.step = "idle" => \A p \in Paths : disk'[p] \in Outcome(p)
              /\ call.step \in {"snapshot", "undo"} /\ call'.step = "idle" => disk' = was)
  <2> SUFFICES ASSUME J, [Next]_vars, ~ spoiled'
               PROVE  /\ call.step = "restore" /\ call'.step = "idle" => \A p \in Paths : disk'[p] \in Outcome(p)
                      /\ call.step \in {"snapshot", "undo"} /\ call'.step = "idle" => disk' = was
    OBVIOUS
  <2>1. ~ spoiled
    BY SpoiledStep DEF IInv
  <2> QED BY <2>1, SettlesStep DEF IInv
<1> QED BY <1>1, <1>2, <1>3, PTL DEF Spec, PullSettles
===============================================================================
