------------------------------- MODULE RecMerge -------------------------------
(***************************************************************************)
(* The three-way merge of a record, and the members of a team whose copies *)
(* meet in it.  Translated from internal/modules/collaboration/recmerge    *)
(* (merge.go, meta.go) and from its caller tryRecordMerge in git/domain.go.*)
(*                                                                         *)
(* A record has immutable keys, a stamp, tags, one more key of its meta    *)
(* block (facets) and data fields; the merge takes each value as an atom.  *)
(* A value names the edit that made it, when its record was created, and   *)
(* whether it is written as a number or as the text of that number.        *)
(***************************************************************************)
EXTENDS Integers

CONSTANTS
    Members,     \* copies of the record
    Fields,      \* keys of the data block
    Words,       \* tags
    MaxEdits,    \* bound: edits made
    MaxClock,    \* bound: seconds that pass
    Missing,     \* no such key
    Null         \* the JSON null

Spellings == {"number", "text"}

ASSUME MissingAssumption ==
    /\ {Missing, Null} \cap (Int \cup (Int \X Int \X Spellings)) = {}
    /\ Missing # Null
ASSUME BoundsAssumption  == MaxEdits \in Nat /\ MaxClock \in Nat \ {0}

VARIABLES
    upstream,    \* the record at the shared branch
    base,        \* base[m]: what m pulled last
    mine,        \* mine[m]: what m has on disk
    clock,       \* meta.updated has seconds
    edits        \* number of edits made so far

vars == <<upstream, base, mine, clock, edits>>

immutableMetaKeys == {"created", "id", "template"}
Idents == 0 .. MaxEdits
Stamps == 0 .. MaxClock          \* 0 is a stamp that cannot be parsed
Values == (1 .. MaxEdits) \X Idents \X Spellings
Tags   == Words \X {0, 1}        \* a word in its normal spelling (0) or in another
Norm(t) == <<t[1], 0>>

\* An old record may have no id yet.
Keeps   == {keep \in [immutableMetaKeys -> Idents \cup {Missing}] : keep["created"] # Missing}
Metas   == [keep : Keeps, updated : Stamps, tags : SUBSET Tags, facets : Values \cup {Missing, Null}]
Datas   == [Fields -> Values \cup {Missing}]
Records == [meta : Metas, data : Datas]

----------------------------------------------------------------------------
(* The merge *)

\* deepEqual: a number and its text are equal.
Same(v, w) ==
    \/ v = w
    \/ {v, w} \cap {Missing, Null} = {} /\ v[1] = w[1] /\ v[2] = w[2]

\* Mutant: the side that is ours wins.
YoursWins(theirs, yours) == "yours"

UpdatedWinner(theirs, yours) ==
    IF theirs.updated > 0 /\ theirs.updated > yours.updated THEN "theirs" ELSE "yours"

\* Mutant: only the other side is compared.
DivergentTheirs(b, t, y) ==
    {k \in immutableMetaKeys :
        b.keep[k] # Missing /\ t.keep[k] # Missing /\ t.keep[k] # b.keep[k]}

\* Keys that either side changed, or lost and changed, against the base.
Divergent(b, t, y) ==
    {k \in immutableMetaKeys :
        /\ b.keep[k] # Missing
        /\ \/ t.keep[k] # Missing /\ t.keep[k] # b.keep[k]
           \/ y.keep[k] # Missing /\ y.keep[k] # b.keep[k]}

\* The first of the three that has the key.
KeepFirst(b, t, y) == IF b # Missing THEN b ELSE IF t # Missing THEN t ELSE y

mergeTags(t, y) == {Norm(tag) : tag \in t \cup y}

\* A key that only the base has comes out as null.
pickWinner(b, t, y, winner) ==
    IF t # Missing /\ (y = Missing \/ winner = "theirs") THEN t
    ELSE IF y # Missing \/ b = Missing THEN y ELSE Null

MergeMeta(b, t, y) ==
    LET winner == UpdatedWinner(t, y) IN
    [keep    |-> [k \in immutableMetaKeys |-> KeepFirst(b.keep[k], t.keep[k], y.keep[k])],
     updated |-> IF winner = "theirs" THEN t.updated ELSE y.updated,
     tags    |-> mergeTags(t.tags, y.tags),
     facets  |-> pickWinner(b.facets, t.facets, y.facets, winner)]

\* Mutant: a field that yours lacks is taken from theirs, removed or not.
MergeFieldRevives(b, t, y, winner) ==
    IF y = Missing THEN t ELSE IF t = Missing \/ Same(b, t) THEN y ELSE IF Same(b, y) THEN t
    ELSE IF winner = "theirs" THEN t ELSE y

\* One key of the data block, in the cases of the code.
MergeField(b, t, y, winner) ==
    CASE t # Missing /\ y # Missing /\ Same(t, y) -> t
      [] t # Missing /\ y = Missing ->
            IF b = Missing THEN t
            ELSE IF Same(b, t) THEN Missing
            ELSE IF winner = "theirs" THEN t ELSE Missing
      [] y # Missing /\ t = Missing ->
            IF b = Missing THEN y
            ELSE IF Same(b, y) THEN Missing
            ELSE IF winner = "yours" THEN y ELSE Missing
      [] t # Missing /\ y # Missing /\ ~ Same(t, y) ->
            IF b # Missing /\ Same(b, t) THEN y
            ELSE IF b # Missing /\ Same(b, y) THEN t
            ELSE IF winner = "theirs" THEN t ELSE y
      [] OTHER -> Missing

Merge(b, t, y) ==
    [meta |-> MergeMeta(b.meta, t.meta, y.meta),
     data |-> [k \in Fields |->
                MergeField(b.data[k], t.data[k], y.data[k], UpdatedWinner(t.meta, y.meta))]]

Conflict(b, t, y) == Divergent(b.meta, t.meta, y.meta) # {}

----------------------------------------------------------------------------
(* The copies *)

\* A save stamps the record, and writes no facets where it has none.
Stamp(r) == [r EXCEPT !.meta.updated = clock,
                      !.meta.facets = IF @ = Null THEN Missing ELSE @]
Write(m, r) == mine' = [mine EXCEPT ![m] = Stamp(r)]
Fresh(r, form) == <<edits + 1, r.meta.keep["created"], form>>
Id(m) == mine[m].meta.keep["id"]

Edit(m, k) ==
    /\ edits < MaxEdits /\ Id(m) # Missing
    /\ edits' = edits + 1
    /\ Write(m, [mine[m] EXCEPT !.data[k] = Fresh(mine[m], "number")])
    /\ UNCHANGED <<upstream, base, clock>>

\* The template makes a number field a text field, or back, and the record is saved.
Respell(m, k, form) ==
    /\ edits < MaxEdits /\ mine[m].data[k] # Missing
    /\ edits' = edits + 1
    /\ Write(m, [mine[m] EXCEPT !.data[k] = <<@[1], @[2], form>>])
    /\ UNCHANGED <<upstream, base, clock>>

Clear(m, k) ==
    /\ mine[m].data[k] # Missing
    /\ Write(m, [mine[m] EXCEPT !.data[k] = Missing])
    /\ UNCHANGED <<upstream, base, clock, edits>>

SetFacets(m) ==
    /\ edits < MaxEdits /\ Id(m) # Missing
    /\ edits' = edits + 1
    /\ \E v \in {Fresh(mine[m], "text"), Missing} : Write(m, [mine[m] EXCEPT !.meta.facets = v])
    /\ UNCHANGED <<upstream, base, clock>>

SetTags(m, tags) ==
    /\ edits < MaxEdits /\ tags # mine[m].meta.tags
    /\ edits' = edits + 1
    /\ Write(m, [mine[m] EXCEPT !.meta.tags = tags])
    /\ UNCHANGED <<upstream, base, clock>>

\* The file is deleted and made anew, or a save gives an old record its id.
NewIdentity(m) ==
    /\ edits < MaxEdits
    /\ edits' = edits + 1
    /\ \/ Write(m, [meta |-> [keep |-> [k \in immutableMetaKeys |->
                                          IF k = "template" THEN 0 ELSE edits + 1],
                              updated |-> clock, tags |-> {}, facets |-> Missing],
                    data |-> [k \in Fields |-> Missing]])
       \/ /\ Id(m) = Missing
          /\ Write(m, [mine[m] EXCEPT !.meta.keep["id"] = edits + 1])
    /\ UNCHANGED <<upstream, base, clock>>

Tick == clock < MaxClock /\ clock' = clock + 1 /\ UNCHANGED <<upstream, base, mine, edits>>

\* Commit and push on the current base.
Publish(m) ==
    /\ base[m] = upstream /\ mine[m] # upstream
    /\ upstream' = mine[m]
    /\ base' = [base EXCEPT ![m] = mine[m]]
    /\ UNCHANGED <<mine, clock, edits>>

\* tryRecordMerge and its caller: merged if it can be, else the pull's content.
Pull(m) ==
    /\ base[m] # upstream
    /\ base' = [base EXCEPT ![m] = upstream]
    /\ mine' = [mine EXCEPT ![m] =
                  IF mine[m] = base[m] \/ Conflict(base[m], upstream, mine[m]) THEN upstream
                  ELSE Merge(base[m], upstream, mine[m])]
    /\ UNCHANGED <<upstream, clock, edits>>

Init ==
    /\ \E id \in {0, Missing}, at \in {0, 1} :
        upstream = [meta |-> [keep |-> [k \in immutableMetaKeys |-> IF k = "id" THEN id ELSE 0],
                              updated |-> at, tags |-> {}, facets |-> Missing],
                    data |-> [k \in Fields |-> Missing]]
    /\ base = [m \in Members |-> upstream] /\ mine = base
    /\ clock = 1 /\ edits = 0

Next ==
    \/ \E m \in Members :
        \/ \E k \in Fields :
            Edit(m, k) \/ Clear(m, k) \/ \E form \in Spellings : Respell(m, k, form)
        \/ SetFacets(m) \/ NewIdentity(m)
        \/ \E tags \in SUBSET Tags : SetTags(m, tags)
        \/ Publish(m) \/ Pull(m)
    \/ Tick

Spec == Init /\ [][Next]_vars

----------------------------------------------------------------------------
(* Properties *)

TypeInv ==
    /\ upstream \in Records
    /\ base \in [Members -> Records] /\ mine \in [Members -> Records]
    /\ clock \in Stamps \ {0} /\ edits \in 0 .. MaxEdits

\* What a three-way merge is: the side that changed, and the newer of two changes.
ThreeWay(b, t, y, winner) ==
    IF Same(t, b) THEN y ELSE IF Same(y, b) \/ Same(t, y) THEN t
    ELSE IF winner = "theirs" THEN t ELSE y

\* "neither-changed keeps base, one-side-changed takes that side, both-changed-
\* differently resolves by last-writer-wins" (merge.go:10), for the data block of
\* every base, theirs and yours that members can come to have. Writing a number as
\* its text is no change.
MergeIsThreeWay ==
    \A m \in Members : \A k \in Fields :
        Same(Merge(base[m], upstream, mine[m]).data[k],
             ThreeWay(base[m].data[k], upstream.data[k], mine[m].data[k],
                      UpdatedWinner(upstream.meta, mine[m].meta)))

\* Of two members with one base, the second to publish merges (tryRecordMerge). The
\* record they end with does not depend on who came first, except for how a number
\* is written, unless the stamps tie or the base has yet to get its id.
Symmetric ==
    \A m \in Members :
        LET b == base[m]
            second == Merge(b, upstream, mine[m])
            first  == Merge(b, mine[m], upstream) IN
        /\ upstream.meta.updated # mine[m].meta.updated
        /\ \A k \in immutableMetaKeys : b.meta.keep[k] # Missing
        => second.meta = first.meta /\ \A k \in Fields : Same(second.data[k], first.data[k])

\* Immutable keys (meta.go:10): however copies are merged, a record never holds a
\* value that was entered in another record of the same file name.
Of(r, v) == v \notin {Missing, Null} => v[2] = r.meta.keep["created"]
Whole(r) == Of(r, r.meta.facets) /\ \A k \in Fields : Of(r, r.data[k])
NoMixing == \A m \in Members : Whole(mine[m])

\* "one-side-changed takes that side" (merge.go:10) for the facets of the meta block.
FacetsKept ==
    \A m \in Members :
        LET b == base[m] IN
        ~ Conflict(b, upstream, mine[m]) /\ upstream.meta.facets = b.meta.facets =>
            Merge(b, upstream, mine[m]).meta.facets = mine[m].meta.facets
===============================================================================
