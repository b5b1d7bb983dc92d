------------------------------- MODULE TeamStore -------------------------------
(***************************************************************************)
(* What the gigot backend promises a team: one store of versions that only *)
(* grows, to which a member adds what it changed since the version it last *)
(* learned.  Nothing here says how: there are no folders, requests, diffs,  *)
(* retries or crashes, because none of them may show.                      *)
(***************************************************************************)
EXTENDS Integers, Sequences

CONSTANTS
    Members,     \* of the team
    Paths,       \* of the files
    Records,     \* paths whose files are merged edit by edit
    Absent,      \* no such file
    Contents     \* of a file: Absent, or the set of its edits

VARIABLES
    history,     \* the versions, each with a file for every path
    base         \* base[m]: the version m last learned, 0 if none

vars == <<history, base>>

HeadTree == history[Len(history)]

\* The file now is what becomes of theirs when mine, made from old, is put on it:
\* the change of one side, or the edits new to either side with those both kept.
Merged(p, old, mine, theirs, now) ==
    \/ mine = old /\ now = theirs
    \/ theirs \in {old, mine} /\ now = mine
    \/ /\ p \in Records /\ Absent \notin {mine, theirs, now}
       /\ LET was == IF old = Absent THEN {} ELSE old
          IN  /\ now \subseteq mine \cup theirs
              /\ (mine \cup theirs) \ was \subseteq now
              /\ now \cap was = mine \cap theirs \cap was

Init == Len(history) = 1 /\ base \in [Members -> 0 .. 1]

\* A member adds a version: its own files, made from the version it learned last,
\* on the last one.  Without a version of its own it takes one of the store's.
Commit(m) ==
    /\ Len(history') = Len(history) + 1
    /\ \A v \in 1 .. Len(history) : history'[v] = history[v]
    /\ \E v \in 1 .. Len(history) :
          /\ base[m] \in {0, v}
          /\ \A p \in Paths : \E mine \in Contents :
                Merged(p, history[v][p], mine, HeadTree[p], HeadTree'[p])
    /\ UNCHANGED base

\* A member learns a version that is not older than the one it has.
Learn(m) ==
    /\ \E v \in base[m] .. Len(history) : base' = [base EXCEPT ![m] = v]
    /\ UNCHANGED history

Forget(m) == base' = [base EXCEPT ![m] = 0] /\ UNCHANGED history

Next == \E m \in Members : Commit(m) \/ Learn(m) \/ Forget(m)

Spec == Init /\ [][Next]_vars
=============================================================================
