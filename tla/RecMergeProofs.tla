---------------------------- MODULE RecMergeProofs ----------------------------
(***************************************************************************)
(* The merge of a record is a three-way merge, whichever side runs it, and *)
(* never mixes two records: for every set of members, fields and tags.     *)
(***************************************************************************)
EXTENDS RecMerge, TLAPS

Winners == {"theirs", "yours"}

----------------------------------------------------------------------------
(* The operators *)

\* deepEqual is an equivalence, and tells a key from none.
LEMMA SameIsEquality ==
    /\ \A v : Same(v, v)
    /\ \A v, w : Same(v, w) => Same(w, v) /\ (v = Missing <=> w = Missing)
    /\ \A u, v, w : Same(u, v) /\ Same(v, w) => Same(u, w)
<1>1. \A v, w : Same(v, w) <=> \/ v = w
                              \/ /\ v # Missing /\ v # Null /\ w # Missing /\ w # Null
                                 /\ v[1] = w[1] /\ v[2] = w[2]
  BY DEF Same
<1>2. \A v : Same(v, v)
  BY <1>1
<1>3. \A v, w : Same(v, w) => Same(w, v) /\ (v = Missing <=> w = Missing)
  BY <1>1
<1>4. \A u, v, w : Same(u, v) /\ Same(v, w) => Same(u, w)
  BY <1>1
<1> QED BY <1>2, <1>3, <1>4

\* The cases of the code come to the plain definition of a three-way merge.
LEMMA FieldIsThreeWay ==
    ASSUME NEW b, NEW t, NEW y, NEW winner \in Winners
    PROVE  /\ Same(MergeField(b, t, y, winner), ThreeWay(b, t, y, winner))
           /\ MergeField(b, t, y, winner) \in {t, y, Missing}
<1>1. CASE t # Missing /\ y # Missing
  BY <1>1, SameIsEquality DEF MergeField, ThreeWay, Winners
<1>2. CASE t # Missing /\ y = Missing
  BY <1>2, SameIsEquality DEF MergeField, ThreeWay, Winners
<1>3. CASE t = Missing /\ y # Missing
  BY <1>3, SameIsEquality DEF MergeField, ThreeWay, Winners
<1>4. CASE t = Missing /\ y = Missing
  BY <1>4, SameIsEquality DEF MergeField, ThreeWay, Winners
<1> QED BY <1>1, <1>2, <1>3, <1>4

LEMMA WinnerIsASide ==
    ASSUME NEW t, NEW y PROVE UpdatedWinner(t, y) \in Winners
BY DEF UpdatedWinner, Winners

\* Seen from the other side the other side wins, unless the stamps tie.
LEMMA WinnerFlips ==
    ASSUME NEW t \in Metas, NEW y \in Metas, t.updated # y.updated
    PROVE  /\ UpdatedWinner(t, y) = "theirs" <=> UpdatedWinner(y, t) = "yours"
           /\ UpdatedWinner(t, y) = "yours" <=> UpdatedWinner(y, t) = "theirs"
BY BoundsAssumption DEF UpdatedWinner, Metas, Stamps

LEMMA FieldFlips ==
    ASSUME NEW b, NEW t, NEW y
    PROVE  Same(ThreeWay(b, t, y, "theirs"), ThreeWay(b, y, t, "yours"))
BY SameIsEquality DEF ThreeWay

LEMMA MetaFlips ==
    ASSUME NEW b \in Metas, NEW t \in Metas, NEW y \in Metas,
           t.updated # y.updated,
           \A k \in immutableMetaKeys : b.keep[k] # Missing
    PROVE  MergeMeta(b, t, y) = MergeMeta(b, y, t)
<1>1. UpdatedWinner(t, y) \in Winners /\ UpdatedWinner(y, t) \in Winners
  BY WinnerIsASide
<1>2. mergeTags(t.tags, y.tags) = mergeTags(y.tags, t.tags)
  BY DEF mergeTags
<1>3. \A k \in immutableMetaKeys :
        KeepFirst(b.keep[k], t.keep[k], y.keep[k]) = KeepFirst(b.keep[k], y.keep[k], t.keep[k])
  BY DEF KeepFirst
<1>4. pickWinner(b.facets, t.facets, y.facets, UpdatedWinner(t, y))
        = pickWinner(b.facets, y.facets, t.facets, UpdatedWinner(y, t))
  BY <1>1, WinnerFlips DEF pickWinner, Winners
<1>5. (IF UpdatedWinner(t, y) = "theirs" THEN t.updated ELSE y.updated)
        = (IF UpdatedWinner(y, t) = "theirs" THEN y.updated ELSE t.updated)
  BY <1>1, WinnerFlips DEF Winners
<1> QED BY <1>2, <1>3, <1>4, <1>5 DEF MergeMeta

----------------------------------------------------------------------------
(* Types *)

LEMMA MergeTyped ==
    ASSUME NEW b \in Records, NEW t \in Records, NEW y \in Records
    PROVE  Merge(b, t, y) \in Records
<1>1. b.meta \in Metas /\ t.meta \in Metas /\ y.meta \in Metas
  BY DEF Records
<1>2. \A k \in immutableMetaKeys :
        KeepFirst(b.meta.keep[k], t.meta.keep[k], y.meta.keep[k]) \in Idents \cup {Missing}
  BY <1>1 DEF KeepFirst, Metas, Keeps
<1>x. KeepFirst(b.meta.keep["created"], t.meta.keep["created"], y.meta.keep["created"]) # Missing
  BY <1>1 DEF KeepFirst, Metas, Keeps
<1>3. mergeTags(t.meta.tags, y.meta.tags) \in SUBSET Tags
  BY <1>1 DEF mergeTags, Norm, Tags, Metas
<1>4. pickWinner(b.meta.facets, t.meta.facets, y.meta.facets, UpdatedWinner(t.meta, y.meta))
        \in Values \cup {Missing, Null}
  BY <1>1 DEF pickWinner, Metas
<1>5. MergeMeta(b.meta, t.meta, y.meta) \in Metas
  BY <1>1, <1>2, <1>x, <1>3, <1>4 DEF MergeMeta, Metas, Keeps, immutableMetaKeys
<1>6. \A k \in Fields :
        MergeField(b.data[k], t.data[k], y.data[k], UpdatedWinner(t.meta, y.meta)) \in Values \cup {Missing}
  BY WinnerIsASide, FieldIsThreeWay DEF Records, Datas
<1> QED BY <1>5, <1>6 DEF Merge, Records, Datas

LEMMA StampTyped ==
    ASSUME NEW r \in Records, TypeInv PROVE Stamp(r) \in Records
BY DEF Stamp, Records, Metas, TypeInv

\* What each edit writes is a record.
LEMMA EditTyped ==
    ASSUME NEW r \in Records, NEW v \in Values \cup {Missing}, NEW k \in Fields
    PROVE  [r EXCEPT !.data[k] = v] \in Records
BY DEF Records, Datas

LEMMA FacetsTyped ==
    ASSUME NEW r \in Records, NEW v \in Values \cup {Missing}
    PROVE  [r EXCEPT !.meta.facets = v] \in Records
BY DEF Records, Metas

LEMMA TagsTyped ==
    ASSUME NEW r \in Records, NEW tags \in SUBSET Tags
    PROVE  [r EXCEPT !.meta.tags = tags] \in Records
BY DEF Records, Metas

LEMMA IdTyped ==
    ASSUME NEW r \in Records, NEW i \in Idents
    PROVE  [r EXCEPT !.meta.keep["id"] = i] \in Records
BY DEF Records, Metas, Keeps, immutableMetaKeys

LEMMA FreshTyped ==
    ASSUME NEW r \in Records, NEW form \in Spellings, edits \in 0 .. MaxEdits, edits < MaxEdits
    PROVE  Fresh(r, form) \in Values
BY BoundsAssumption DEF Fresh, Values, Idents, Records, Metas, Keeps, immutableMetaKeys

LEMMA NewTyped ==
    ASSUME NEW at \in Stamps, NEW i \in Idents
    PROVE  [meta |-> [keep |-> [k \in immutableMetaKeys |-> IF k = "template" THEN 0 ELSE i],
                      updated |-> at, tags |-> {}, facets |-> Missing],
            data |-> [k \in Fields |-> Missing]] \in Records
BY BoundsAssumption, MissingAssumption DEF Records, Metas, Keeps, Datas, Idents, immutableMetaKeys

LEMMA TypeStep == TypeInv /\ [Next]_vars => TypeInv'
<1> SUFFICES ASSUME TypeInv, [Next]_vars PROVE TypeInv'
  OBVIOUS
<1> USE BoundsAssumption, MissingAssumption
<1>w. ASSUME NEW m \in Members, NEW r \in Records, Write(m, r) PROVE mine' \in [Members -> Records]
  BY <1>w, StampTyped DEF Write, TypeInv
<1>m. ASSUME NEW m \in Members PROVE mine[m] \in Records /\ base[m] \in Records /\ upstream \in Records
  BY DEF TypeInv
<1>1. ASSUME NEW m \in Members, NEW k \in Fields, Edit(m, k) PROVE TypeInv'
  <2>1. Fresh(mine[m], "number") \in Values
    BY <1>1, <1>m, FreshTyped DEF Edit, TypeInv, Spellings
  <2>2. mine' \in [Members -> Records]
    BY <1>1, <1>m, <1>w, <2>1, EditTyped DEF Edit
  <2> QED BY <1>1, <2>2 DEF Edit, TypeInv
<1>2. ASSUME NEW m \in Members, NEW k \in Fields, Clear(m, k) PROVE TypeInv'
  <2>1. mine' \in [Members -> Records]
    BY <1>2, <1>m, <1>w, EditTyped DEF Clear
  <2> QED BY <1>2, <2>1 DEF Clear, TypeInv
<1>r. ASSUME NEW m \in Members, NEW k \in Fields, NEW form \in Spellings, Respell(m, k, form)
      PROVE  TypeInv'
  <2>1. PICK v \in Values : v = mine[m].data[k]
    BY <1>r, <1>m DEF Respell, Records, Datas
  <2>2. <<v[1], v[2], form>> \in Values
    BY DEF Values
  <2>3. mine' \in [Members -> Records]
    <3>1. [mine[m] EXCEPT !.data[k] = <<v[1], v[2], form>>] \in Records
      BY <1>m, <2>2, EditTyped
    <3>2. [mine[m] EXCEPT !.data[k] = <<@[1], @[2], form>>]
            = [mine[m] EXCEPT !.data[k] = <<v[1], v[2], form>>]
      BY <1>m, <2>1 DEF Records, Datas
    <3> QED BY <1>r, <1>w, <3>1, <3>2 DEF Respell
  <2> QED BY <1>r, <2>3 DEF Respell, TypeInv
<1>3. ASSUME NEW m \in Members, SetFacets(m) PROVE TypeInv'
  <2>1. Fresh(mine[m], "text") \in Values
    BY <1>3, <1>m, FreshTyped DEF SetFacets, TypeInv, Spellings
  <2>2. mine' \in [Members -> Records]
    BY <1>3, <1>m, <1>w, <2>1, FacetsTyped DEF SetFacets
  <2> QED BY <1>3, <2>2 DEF SetFacets, TypeInv
<1>4. ASSUME NEW m \in Members, NEW tags \in SUBSET Tags, SetTags(m, tags) PROVE TypeInv'
  <2>1. mine' \in [Members -> Records]
    BY <1>4, <1>m, <1>w, TagsTyped DEF SetTags
  <2> QED BY <1>4, <2>1 DEF SetTags, TypeInv
<1>5. ASSUME NEW m \in Members, NewIdentity(m) PROVE TypeInv'
  <2>1. edits + 1 \in Idents /\ clock \in Stamps
    BY <1>5 DEF NewIdentity, TypeInv, Idents
  <2>2. mine' \in [Members -> Records]
    BY <1>5, <1>m, <1>w, <2>1, NewTyped, IdTyped DEF NewIdentity
  <2> QED BY <1>5, <2>2 DEF NewIdentity, TypeInv
<1>6. ASSUME NEW m \in Members, Publish(m) PROVE TypeInv'
  BY <1>6, <1>m DEF Publish, TypeInv
<1>7. ASSUME NEW m \in Members, Pull(m) PROVE TypeInv'
  <2>1. Merge(base[m], upstream, mine[m]) \in Records
    BY <1>m, MergeTyped
  <2> QED BY <1>7, <1>m, <2>1 DEF Pull, TypeInv
<1>8. CASE Tick
  BY <1>8 DEF Tick, TypeInv, Stamps
<1>9. CASE UNCHANGED vars
  BY <1>9 DEF vars, TypeInv
<1> QED BY <1>1, <1>2, <1>r, <1>3, <1>4, <1>5, <1>6, <1>7, <1>8, <1>9 DEF Next

LEMMA TypeInit == Init => TypeInv
<1> SUFFICES ASSUME Init PROVE TypeInv
  OBVIOUS
<1>1. PICK id \in {0, Missing}, at \in {0, 1} :
        upstream = [meta |-> [keep |-> [k \in immutableMetaKeys |-> IF k = "id" THEN id ELSE 0],
                              updated |-> at, tags |-> {}, facets |-> Missing],
                    data |-> [k \in Fields |-> Missing]]
  BY DEF Init
<1>2. upstream \in Records
  BY <1>1, BoundsAssumption, MissingAssumption
     DEF Records, Metas, Keeps, Datas, Idents, Stamps, immutableMetaKeys
<1>3. base \in [Members -> Records] /\ mine \in [Members -> Records]
  BY <1>2 DEF Init
<1>4. clock \in Stamps \ {0} /\ edits \in 0 .. MaxEdits
  BY BoundsAssumption DEF Init, Stamps
<1> QED BY <1>2, <1>3, <1>4 DEF TypeInv

\* The state of RecMerge is well-typed.
THEOREM TypeCorrect == Spec => []TypeInv
BY TypeInit, TypeStep, PTL DEF Spec

----------------------------------------------------------------------------
(* What the merge promises *)

\* "one-side-changed takes that side" (merge.go:10), for every triple of records.
THEOREM MergesAreThreeWay == Spec => []MergeIsThreeWay
<1>1. MergeIsThreeWay
  BY WinnerIsASide, FieldIsThreeWay DEF MergeIsThreeWay, Merge
<1> QED BY <1>1, PTL

\* Who of two members publishes first does not matter to the merge of the second,
\* but for how a number is written (UpdatedWinner, MergeMeta, deepEqual).
THEOREM MergesAreSymmetric == Spec => []Symmetric
<1>1. ASSUME TypeInv, NEW m \in Members,
             upstream.meta.updated # mine[m].meta.updated,
             \A k \in immutableMetaKeys : base[m].meta.keep[k] # Missing
      PROVE  LET second == Merge(base[m], upstream, mine[m])
                 first  == Merge(base[m], mine[m], upstream) IN
             second.meta = first.meta /\ \A k \in Fields : Same(second.data[k], first.data[k])
  <2>1. base[m].meta \in Metas /\ upstream.meta \in Metas /\ mine[m].meta \in Metas
    BY <1>1 DEF TypeInv, Records
  <2>2. MergeMeta(base[m].meta, upstream.meta, mine[m].meta)
          = MergeMeta(base[m].meta, mine[m].meta, upstream.meta)
    BY <1>1, <2>1, MetaFlips
  <2> DEFINE w == UpdatedWinner(upstream.meta, mine[m].meta)
             v == UpdatedWinner(mine[m].meta, upstream.meta)
  <2>3. w \in Winners /\ v \in Winners /\ (w = "theirs" <=> v = "yours") /\ (w = "yours" <=> v = "theirs")
    BY <1>1, <2>1, WinnerIsASide, WinnerFlips
  <2>4. \A k \in Fields :
          Same(MergeField(base[m].data[k], upstream.data[k], mine[m].data[k], w),
               MergeField(base[m].data[k], mine[m].data[k], upstream.data[k], v))
    <3> HIDE DEF w, v
    <3> SUFFICES ASSUME NEW k \in Fields
                 PROVE  Same(MergeField(base[m].data[k], upstream.data[k], mine[m].data[k], w),
                             MergeField(base[m].data[k], mine[m].data[k], upstream.data[k], v))
      OBVIOUS
    <3>1. Same(ThreeWay(base[m].data[k], upstream.data[k], mine[m].data[k], w),
               ThreeWay(base[m].data[k], mine[m].data[k], upstream.data[k], v))
      BY <2>3, FieldFlips, SameIsEquality DEF Winners
    <3>2. /\ Same(MergeField(base[m].data[k], upstream.data[k], mine[m].data[k], w),
                  ThreeWay(base[m].data[k], upstream.data[k], mine[m].data[k], w))
          /\ Same(MergeField(base[m].data[k], mine[m].data[k], upstream.data[k], v),
                  ThreeWay(base[m].data[k], mine[m].data[k], upstream.data[k], v))
      BY <2>3, FieldIsThreeWay
    <3> QED BY <3>1, <3>2, SameIsEquality
  <2> QED BY <2>2, <2>4 DEF Merge
<1>2. TypeInv => Symmetric
  BY <1>1 DEF Symmetric
<1> QED BY <1>2, TypeCorrect, PTL

----------------------------------------------------------------------------
(* No record holds values of another *)

IInv == TypeInv /\ Whole(upstream) /\ \A m \in Members : Whole(base[m]) /\ Whole(mine[m])

LEMMA EditWhole ==
    ASSUME NEW r \in Records, Whole(r), NEW k \in Fields, NEW v, Of(r, v)
    PROVE  Whole(Stamp([r EXCEPT !.data[k] = v]))
BY MissingAssumption DEF Whole, Of, Stamp, Records, Metas, Datas

LEMMA FacetsWhole ==
    ASSUME NEW r \in Records, Whole(r), NEW v, Of(r, v)
    PROVE  Whole(Stamp([r EXCEPT !.meta.facets = v]))
BY DEF Whole, Of, Stamp, Records, Metas

LEMMA TagsWhole ==
    ASSUME NEW r \in Records, Whole(r), NEW tags
    PROVE  Whole(Stamp([r EXCEPT !.meta.tags = tags]))
BY DEF Whole, Of, Stamp, Records, Metas

LEMMA IdWhole ==
    ASSUME NEW r \in Records, Whole(r), NEW i
    PROVE  Whole(Stamp([r EXCEPT !.meta.keep["id"] = i]))
BY DEF Whole, Of, Stamp, Records, Metas, Keeps, immutableMetaKeys

LEMMA NewWhole ==
    ASSUME NEW at, NEW i
    PROVE  Whole(Stamp([meta |-> [keep |-> [k \in immutableMetaKeys |-> IF k = "template" THEN 0 ELSE i],
                                  updated |-> at, tags |-> {}, facets |-> Missing],
                        data |-> [k \in Fields |-> Missing]]))
BY DEF Whole, Of, Stamp

LEMMA FreshOf ==
    ASSUME NEW r, NEW form PROVE Of(r, Fresh(r, form))
BY DEF Of, Fresh

\* Without a conflict the three records are the same one, and the merge is it too.
LEMMA MergeWhole ==
    ASSUME NEW b \in Records, NEW t \in Records, NEW y \in Records,
           Whole(t), Whole(y), ~ Conflict(b, t, y)
    PROVE  Whole(Merge(b, t, y))
<1> DEFINE r == Merge(b, t, y)
<1>1. /\ b.meta.keep["created"] # Missing /\ t.meta.keep["created"] # Missing
      /\ y.meta.keep["created"] # Missing /\ "created" \in immutableMetaKeys
  BY DEF Records, Metas, Keeps, immutableMetaKeys
<1>2. t.meta.keep["created"] = b.meta.keep["created"] /\ y.meta.keep["created"] = b.meta.keep["created"]
  BY <1>1 DEF Conflict, Divergent
<1>3. r.meta.keep["created"] = b.meta.keep["created"]
  BY <1>1 DEF Merge, MergeMeta, KeepFirst
<1>4. r.meta.facets \in {t.meta.facets, y.meta.facets, Null}
  BY DEF Merge, MergeMeta, pickWinner
<1>5. ASSUME NEW k \in Fields PROVE r.data[k] \in {t.data[k], y.data[k], Missing}
  BY WinnerIsASide, FieldIsThreeWay DEF Merge
<1>6. \A v : Of(t, v) \/ Of(y, v) => Of(r, v)
  BY <1>2, <1>3 DEF Of
<1> HIDE DEF r
<1>7. Of(r, r.meta.facets)
  BY <1>4, <1>6 DEF Whole, Of
<1>8. \A k \in Fields : Of(r, r.data[k])
  BY <1>5, <1>6 DEF Whole, Of
<1> QED BY <1>7, <1>8 DEF Whole, r

LEMMA IInvStep == IInv /\ [Next]_vars => IInv'
<1> SUFFICES ASSUME IInv, [Next]_vars PROVE IInv'
  OBVIOUS
<1>t. TypeInv' 
  BY TypeStep DEF IInv
<1>m. ASSUME NEW m \in Members
      PROVE  /\ mine[m] \in Records /\ base[m] \in Records /\ upstream \in Records
             /\ Whole(mine[m]) /\ Whole(base[m]) /\ Whole(upstream)
  BY DEF IInv, TypeInv
<1>w. ASSUME NEW m \in Members, NEW r, Write(m, r), Whole(Stamp(r)),
             UNCHANGED <<upstream, base>>
      PROVE  IInv'
  <2>1. \A n \in Members : mine'[n] = IF n = m THEN Stamp(r) ELSE mine[n]
    BY <1>w DEF Write, IInv, TypeInv
  <2> QED BY <1>t, <1>m, <1>w, <2>1 DEF IInv, Whole, Of
<1>1. ASSUME NEW m \in Members, NEW k \in Fields, Edit(m, k) \/ Clear(m, k) PROVE IInv'
  <2>1. Of(mine[m], Missing) /\ Of(mine[m], Fresh(mine[m], "number"))
    BY FreshOf DEF Of
  <2>2. /\ Whole(Stamp([mine[m] EXCEPT !.data[k] = Missing]))
        /\ Whole(Stamp([mine[m] EXCEPT !.data[k] = Fresh(mine[m], "number")]))
    BY <1>m, <2>1, EditWhole
  <2> QED BY <1>1, <1>w, <2>2 DEF Edit, Clear
<1>r. ASSUME NEW m \in Members, NEW k \in Fields, NEW form \in Spellings, Respell(m, k, form)
      PROVE  IInv'
  <2> DEFINE v == mine[m].data[k]
  <2>v. v # Missing /\ v \in Values
    BY <1>r, <1>m DEF Respell, Records, Datas
  <2>n. v # Null
    BY <2>v, MissingAssumption DEF Values, Idents
  <2>1. Of(mine[m], <<v[1], v[2], form>>)
    <3>1. v[2] = mine[m].meta.keep["created"]
      BY <2>v, <2>n, <1>m DEF Whole, Of
    <3> QED BY <3>1 DEF Of
  <2>2. Whole(Stamp([mine[m] EXCEPT !.data[k] = <<v[1], v[2], form>>]))
    BY <1>m, <2>1, EditWhole
  <2>3. [mine[m] EXCEPT !.data[k] = <<@[1], @[2], form>>]
          = [mine[m] EXCEPT !.data[k] = <<v[1], v[2], form>>]
    BY <1>m DEF Records, Datas
  <2>4. Write(m, [mine[m] EXCEPT !.data[k] = <<v[1], v[2], form>>])
        /\ UNCHANGED <<upstream, base>>
    BY <1>r, <2>3 DEF Respell
  <2> HIDE DEF v
  <2> QED BY <1>w, <2>2, <2>4
<1>2. ASSUME NEW m \in Members, SetFacets(m) PROVE IInv'
  <2>1. Of(mine[m], Missing) /\ Of(mine[m], Fresh(mine[m], "text"))
    BY FreshOf DEF Of
  <2>2. /\ Whole(Stamp([mine[m] EXCEPT !.meta.facets = Missing]))
        /\ Whole(Stamp([mine[m] EXCEPT !.meta.facets = Fresh(mine[m], "text")]))
    BY <1>m, <2>1, FacetsWhole
  <2> QED BY <1>2, <1>w, <2>2 DEF SetFacets
<1>3. ASSUME NEW m \in Members, NEW tags \in SUBSET Tags, SetTags(m, tags) PROVE IInv'
  BY <1>3, <1>m, <1>w, TagsWhole DEF SetTags
<1>4. ASSUME NEW m \in Members, NewIdentity(m) PROVE IInv'
  BY <1>4, <1>m, <1>w, NewWhole, IdWhole DEF NewIdentity
<1>5. ASSUME NEW m \in Members, Publish(m) PROVE IInv'
  <2>1. \A n \in Members : base'[n] \in {base[n], mine[m]} /\ mine'[n] = mine[n]
    BY <1>5 DEF Publish, IInv, TypeInv
  <2>2. upstream' = mine[m]
    BY <1>5 DEF Publish
  <2> QED BY <1>t, <1>m, <2>1, <2>2 DEF IInv, Whole, Of
<1>6. ASSUME NEW m \in Members, Pull(m) PROVE IInv'
  <2>1. Conflict(base[m], upstream, mine[m]) \/ Whole(Merge(base[m], upstream, mine[m]))
    BY <1>m, MergeWhole
  <2>2. \A n \in Members :
          base'[n] \in {base[n], upstream} /\ (mine'[n] \in {mine[n], upstream} \/ Whole(mine'[n]))
    BY <1>6, <2>1 DEF Pull, IInv, TypeInv
  <2>3. upstream' = upstream
    BY <1>6 DEF Pull
  <2> QED BY <1>t, <1>m, <2>2, <2>3 DEF IInv, Whole, Of
<1>7. CASE Tick
  BY <1>t, <1>7 DEF Tick, IInv, Whole, Of
<1>8. CASE UNCHANGED vars
  BY <1>t, <1>8 DEF vars, IInv, Whole, Of
<1> QED BY <1>1, <1>r, <1>2, <1>3, <1>4, <1>5, <1>6, <1>7, <1>8 DEF Next

\* Immutable keys (meta.go:10) keep the values of two records of one name apart.
THEOREM RecordsNeverMix == Spec => []NoMixing
<1>1. Init => IInv
  <2> SUFFICES ASSUME Init PROVE IInv
    OBVIOUS
  <2>1. Whole(upstream) /\ \A m \in Members : base[m] = upstream /\ mine[m] = upstream
    BY DEF Init, Whole, Of
  <2> QED BY <2>1, TypeInit DEF IInv
<1>2. IInv => NoMixing
  BY DEF IInv, NoMixing
<1> QED BY <1>1, <1>2, IInvStep, PTL DEF Spec
===============================================================================
