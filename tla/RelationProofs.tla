---------------------------- MODULE RelationProofs ----------------------------
(***************************************************************************)
(* RelationStore keeps its types whatever overlaps; and with one panel at  *)
(* work at a time the two halves of every relationship agree, links keep   *)
(* to their cardinality, and the fields that were reconciled agree with    *)
(* the links.                                                              *)
(***************************************************************************)
EXTENDS RelationStore, FiniteSetTheorems, FunctionTheorems, TLAPS

----------------------------------------------------------------------------
(* Sides, halves, and sets in some order *)

LEMMA SetInOrder ==
    ASSUME NEW S, IsFiniteSet(S)
    PROVE  /\ SetToSeq(S) \in Seq(S)
           /\ \A x \in S : \E i \in DOMAIN SetToSeq(S) : SetToSeq(S)[i] = x
<1> DEFINE n == Cardinality(S)
           s == SetToSeq(S)
<1>1. n \in Nat /\ ExistsBijection(1 .. n, S)
  BY FS_CardinalityType
<1>2. PICK b \in Bijection(1 .. n, S) : TRUE
  BY <1>1 DEF ExistsBijection
<1>b. b \in [1 .. n -> S] /\ \A i, j \in 1 .. n : b[i] = b[j] => i = j
  <2> HIDE DEF n
  <2> QED BY Fun_BijectionProperties
<1>3. b \in [1 .. n -> S] /\ IsInjective(b)
  BY <1>b DEF IsInjective
<1>4. s \in [1 .. n -> S] /\ IsInjective(s)
  BY <1>3 DEF SetToSeq
<1>5. Cardinality(1 .. n) = Cardinality(S)
  BY <1>1, FS_Interval
<1>6. s \in Injection(1 .. n, S)
  BY <1>4 DEF Injection
<1> HIDE DEF n, s
<1>7. s \in Surjection(1 .. n, S)
  BY <1>5, <1>6, FS_Injection
<1>8. \A x \in S : \E i \in 1 .. n : s[i] = x
  BY <1>7 DEF Surjection
<1>9. s \in Seq(S) /\ DOMAIN s = 1 .. n
  BY <1>1, <1>4
<1> QED BY <1>8, <1>9 DEF s

LEMMA SidesApart ==
    /\ \A t \in Templates : t # Mirror
    /\ \A t, u \in Templates : <<t, u>> \in Sides /\ OwnerOf(<<t, u>>) = t
    /\ \A t \in Templates : <<Mirror, t>> \in Sides /\ OwnerOf(<<Mirror, t>>) = t
    /\ \A s \in Sides : OwnerOf(s) \in Templates /\ s[2] \in Templates
    /\ \A s \in Sides : \/ \E t, u \in Templates : s = <<t, u>>
                        \/ \E t \in Templates : s = <<Mirror, t>>
BY RecordsAreOwn DEF Sides, OwnerOf

LEMMA Counterparts ==
    /\ \A t, u \in Templates : t # u => Counterpart(<<t, u>>) = <<u, t>>
    /\ \A t \in Templates : Counterpart(<<t, t>>) = <<Mirror, t>> /\ Counterpart(<<Mirror, t>>) = <<t, t>>
    /\ \A s \in Sides : /\ Counterpart(s) \in Sides /\ Counterpart(s) # s
                        /\ Counterpart(Counterpart(s)) = s
                        /\ OwnerOf(Counterpart(s)) = s[2] /\ Counterpart(s)[2] = OwnerOf(s)
<1>1. /\ \A t, u \in Templates : t # u => Counterpart(<<t, u>>) = <<u, t>>
      /\ \A t \in Templates : Counterpart(<<t, t>>) = <<Mirror, t>> /\ Counterpart(<<Mirror, t>>) = <<t, t>>
  BY SidesApart DEF Counterpart
<1>2. ASSUME NEW s \in Sides
      PROVE  /\ Counterpart(s) \in Sides /\ Counterpart(s) # s
             /\ Counterpart(Counterpart(s)) = s
             /\ OwnerOf(Counterpart(s)) = s[2] /\ Counterpart(s)[2] = OwnerOf(s)
  <2>1. ASSUME NEW t \in Templates, NEW u \in Templates, s = <<t, u>>, t # u
        PROVE  /\ Counterpart(s) \in Sides /\ Counterpart(s) # s
               /\ Counterpart(Counterpart(s)) = s
               /\ OwnerOf(Counterpart(s)) = s[2] /\ Counterpart(s)[2] = OwnerOf(s)
    BY <2>1, <1>1, SidesApart
  <2>2. ASSUME NEW t \in Templates, s = <<t, t>>
        PROVE  /\ Counterpart(s) \in Sides /\ Counterpart(s) # s
               /\ Counterpart(Counterpart(s)) = s
               /\ OwnerOf(Counterpart(s)) = s[2] /\ Counterpart(s)[2] = OwnerOf(s)
    <3>1. Counterpart(s) = <<Mirror, t>> /\ <<Mirror, t>> # <<t, t>>
      BY <2>2, <1>1, SidesApart
    <3>2. Counterpart(<<Mirror, t>>) = <<t, t>>
      BY <1>1
    <3> QED BY <2>2, <3>1, <3>2, SidesApart
  <2>3. ASSUME NEW t \in Templates, s = <<Mirror, t>>
        PROVE  /\ Counterpart(s) \in Sides /\ Counterpart(s) # s
               /\ Counterpart(Counterpart(s)) = s
               /\ OwnerOf(Counterpart(s)) = s[2] /\ Counterpart(s)[2] = OwnerOf(s)
    <3>1. Counterpart(s) = <<t, t>> /\ <<Mirror, t>> # <<t, t>>
      BY <2>3, <1>1, SidesApart
    <3>2. Counterpart(<<t, t>>) = <<Mirror, t>>
      BY <1>1
    <3> QED BY <2>3, <3>1, <3>2, SidesApart
  <2> QED BY <2>1, <2>2, <2>3, SidesApart
<1> QED BY <1>1, <1>2

\* Where the links of a half lie.
EdgesOf(s) == RecordsOf[OwnerOf(s)] \X RecordsOf[s[2]]
HalfAt(s, h) == h = NoHalf \/ (h \in Halves /\ h.edges \subseteq EdgesOf(s))

LEMMA EdgesTyped == \A s \in Sides : EdgesOf(s) \subseteq Ids \X Ids
BY SidesApart DEF EdgesOf, Ids

LEMMA ReversedTyped ==
    ASSUME NEW A, NEW B, NEW E \in SUBSET (A \X B)
    PROVE  Reversed(E) \in SUBSET (B \X A) /\ Reversed(Reversed(E)) = E
<1>1. Reversed(E) \in SUBSET (B \X A)
  BY DEF Reversed
<1>2. \A e \in E : e = <<e[1], e[2]>>
  OBVIOUS
<1>3. Reversed(Reversed(E)) \subseteq E
  <2> SUFFICES ASSUME NEW e \in Reversed(E) PROVE <<e[2], e[1]>> \in E
    BY DEF Reversed
  <2>1. PICK x \in E : e = <<x[2], x[1]>>
    BY DEF Reversed
  <2> QED BY <2>1, <1>2
<1>4. E \subseteq Reversed(Reversed(E))
  <2> SUFFICES ASSUME NEW e \in E PROVE e \in Reversed(Reversed(E))
    OBVIOUS
  <2>1. PICK d \in Reversed(E) : d = <<e[2], e[1]>>
    BY DEF Reversed
  <2>2. <<d[2], d[1]>> \in Reversed(Reversed(E))
    BY DEF Reversed
  <2> QED BY <1>2, <2>1, <2>2
<1> QED BY <1>1, <1>3, <1>4

LEMMA FlipTyped ==
    ASSUME NEW s \in Sides, NEW h, HalfAt(s, h), h # NoHalf
    PROVE  /\ HalfAt(Counterpart(s), Flip(h)) /\ Flip(h) # NoHalf
           /\ Flip(h).card = Flipped(h.card) /\ Flip(h).inverse = (~ h.inverse)
           /\ Flip(h).edges = Reversed(h.edges)
           /\ Flipped(Flipped(h.card)) = h.card /\ Flipped(h.card) \in Cards
<1>1. h \in Halves /\ h.edges \in SUBSET (RecordsOf[OwnerOf(s)] \X RecordsOf[s[2]])
  BY DEF HalfAt, EdgesOf
<1>2. Reversed(h.edges) \in SUBSET EdgesOf(Counterpart(s))
  BY <1>1, ReversedTyped, Counterparts DEF EdgesOf
<1>3. Flipped(h.card) \in Cards /\ Flipped(Flipped(h.card)) = h.card
  BY <1>1 DEF Halves, Cards, Flipped
<1>4. EdgesOf(Counterpart(s)) \subseteq Ids \X Ids
  BY Counterparts, EdgesTyped
<1>5. Flip(h) \in Halves
  BY <1>1, <1>2, <1>3, <1>4 DEF Flip, Halves
<1> QED BY <1>2, <1>3, <1>5, MenuAssumption DEF Flip, HalfAt

LEMMA RecordsTyped ==
    ASSUME NEW r \in Ids
    PROVE  TemplateOf(r) \in Templates /\ r \in RecordsOf[TemplateOf(r)]
BY DEF Ids, TemplateOf
----------------------------------------------------------------------------
(* Types.  What is stored, still to be written or shown in the tab is a    *)
(* half whose links join a record of its owner to one of its target.       *)

Writes       == UNION { [S -> Halves \cup {NoHalf}] : S \in SUBSET Sides }
StoredWrites == { w \in Writes : \A s \in DOMAIN w : HalfAt(s, w[s]) }
Stored(d)    == d \in [Sides -> Halves \cup {NoHalf}] /\ \A s \in Sides : HalfAt(s, d[s])

Relations  == UNION { [D -> Halves] : D \in SUBSET Templates }
Sent(t, rels) == rels \in Relations /\ \A u \in DOMAIN rels : HalfAt(<<t, u>>, rels[u])
Tabs   == [template : Templates, rels : Relations]
Phases == {"heal", "healing", "sync", "syncing", "done"}
Jobs   == [kind : {"open", "save"}, host : Ids, phase : Phases,
           adds : SUBSET Ids, drains : SUBSET Ids]
Passes == [template : Templates, target : Templates, left : SUBSET Ids, edges : SUBSET (Ids \X Ids)]

TInv ==
    /\ Stored(disk) /\ writes \in Seq(StoredWrites)
    /\ healing \in BOOLEAN /\ torn \in BOOLEAN /\ turned \in SUBSET Sides
    /\ live \in SUBSET Ids /\ refs \in [Ids -> SUBSET Ids]
    /\ job = Idle \/ job \in Jobs
    /\ pass = NoPass \/ pass \in Passes
    /\ tab = NoTab \/ (tab \in Tabs /\ Sent(tab.template, tab.rels))
    /\ ops \in 0 .. MaxOps /\ edits \in 0 .. MaxEdits

LEMMA WriteTyped ==
    ASSUME NEW S \in SUBSET Sides, NEW w \in [S -> Halves \cup {NoHalf}], \A s \in S : HalfAt(s, w[s])
    PROVE  w \in StoredWrites /\ DOMAIN w = S
BY DEF StoredWrites, Writes

LEMMA OneTyped ==
    ASSUME NEW s \in Sides, NEW h, HalfAt(s, h)
    PROVE  One(s, h) \in StoredWrites /\ DOMAIN One(s, h) = {s} /\ One(s, h)[s] = h
<1>1. One(s, h) \in [{s} -> Halves \cup {NoHalf}] /\ One(s, h)[s] = h
  BY DEF One, HalfAt
<1> QED BY <1>1, WriteTyped

LEMMA SavedTyped ==
    ASSUME NEW d, Stored(d), NEW w \in StoredWrites
    PROVE  /\ Stored(SavedWith(d, w)) /\ DOMAIN w \subseteq Sides
           /\ \A s \in Sides : SavedWith(d, w)[s] = IF s \in DOMAIN w THEN w[s] ELSE d[s]
<1>1. \A s \in DOMAIN w : s \in Sides /\ w[s] \in Halves \cup {NoHalf} /\ HalfAt(s, w[s])
  BY DEF StoredWrites, Writes
<1> QED BY <1>1 DEF SavedWith, Stored

LEMMA CallTyped ==
    ASSUME Stored(disk), NEW ws \in Seq(StoredWrites), Call(ws)
    PROVE  Stored(disk)' /\ writes' \in Seq(StoredWrites)
<1>1. CASE ws = <<>>
  BY <1>1 DEF Call, Stored
<1>2. CASE ws # <<>>
  <2>1. Head(ws) \in StoredWrites /\ Tail(ws) \in Seq(StoredWrites)
    BY <1>2
  <2>2. Stored(SavedWith(disk, Head(ws)))
    BY <2>1, SavedTyped
  <2> QED BY <1>2, <2>1, <2>2 DEF Call, Stored
<1> QED BY <1>1, <1>2

LEMMA HealedTyped ==
    ASSUME Stored(disk), NEW s \in Sides
    PROVE  HalfAt(s, HealedHalf(s))
<1> DEFINE o == Counterpart(s)
<1>1. /\ HalfAt(s, disk[s]) /\ HalfAt(o, disk[o]) /\ o \in Sides /\ Counterpart(o) = s
  BY Counterparts DEF Stored
<1>2. CASE ~ Has(o)
  BY <1>1, <1>2 DEF HealedHalf
<1>3. CASE Has(o) /\ ~ Has(s)
  BY <1>1, <1>3, FlipTyped DEF HealedHalf, Has
<1>4. CASE Has(o) /\ Has(s)
  <2>1. Reversed(disk[o].edges) \in SUBSET EdgesOf(s)
    BY <1>1, <1>4, FlipTyped DEF Has, HalfAt
  <2>2. disk[s] \in Halves /\ disk[s].edges \in SUBSET EdgesOf(s)
    BY <1>1, <1>4 DEF Has, HalfAt
  <2> QED BY <1>4, <2>1, <2>2, EdgesTyped DEF HealedHalf, HalfAt, Halves
<1> QED BY <1>2, <1>3, <1>4

LEMMA AddEdgeTyped ==
    ASSUME Stored(disk), NEW s \in Sides, NEW e \in EdgesOf(s), Has(s)
    PROVE  AddEdge(s, e) \in Seq(StoredWrites)
<1> DEFINE o == Counterpart(s)
           h == [disk[s] EXCEPT !.edges = @ \cup {e}]
           k == IF Has(o) THEN [disk[o] EXCEPT !.edges = @ \cup Reversed({e})]
                ELSE [Flip(h) EXCEPT !.edges = Reversed({e})]
<1>1. /\ disk[s] \in Halves /\ disk[s].edges \in SUBSET EdgesOf(s) /\ HalfAt(o, disk[o])
      /\ o \in Sides /\ Reversed({e}) \in SUBSET EdgesOf(o)
  <2>1. {e} \in SUBSET (RecordsOf[OwnerOf(s)] \X RecordsOf[s[2]])
    BY DEF EdgesOf
  <2>2. o \in Sides /\ Reversed({e}) \in SUBSET EdgesOf(o)
    BY <2>1, ReversedTyped, Counterparts DEF EdgesOf
  <2> QED BY <2>2 DEF Stored, HalfAt, Has
<1>2. HalfAt(s, h)
  BY <1>1, EdgesTyped DEF HalfAt, Halves
<1>3. HalfAt(o, k)
  <2>1. CASE Has(o)
    <3>1. disk[o] \in Halves /\ disk[o].edges \in SUBSET EdgesOf(o)
      BY <1>1, <2>1 DEF HalfAt, Has
    <3> QED BY <1>1, <2>1, <3>1, EdgesTyped DEF HalfAt, Halves
  <2>2. CASE ~ Has(o)
    <3>1. h # NoHalf
      BY <1>1, EdgesTyped, MenuAssumption DEF Halves
    <3> HIDE DEF h
    <3>2. Flip(h) \in Halves
      BY <3>1, <1>2, FlipTyped, <1>1 DEF HalfAt
    <3> QED BY <1>1, <2>2, <3>2, EdgesTyped DEF HalfAt, Halves
  <2> QED BY <2>1, <2>2
<1> HIDE DEF h, k
<1>4. One(s, h) \in StoredWrites /\ One(o, k) \in StoredWrites
  BY <1>1, <1>2, <1>3, OneTyped
<1>5. AddEdge(s, e) = <<One(s, h), One(o, k)>>
  BY DEF AddEdge, h, k
<1> QED BY <1>4, <1>5

LEMMA RemoveEdgeTyped ==
    ASSUME Stored(disk), NEW s \in Sides, NEW e, Has(s)
    PROVE  RemoveEdge(s, e) \in Seq(StoredWrites)
<1> DEFINE o == Counterpart(s)
           h == [disk[s] EXCEPT !.edges = @ \ {e}]
           k == [disk[o] EXCEPT !.edges = @ \ Reversed({e})]
<1>1. HalfAt(s, h)
  BY DEF HalfAt, Halves, Stored, Has
<1>2. Has(o) => HalfAt(o, k)
  BY Counterparts DEF HalfAt, Halves, Stored, Has
<1> HIDE DEF h, k
<1>3. One(s, h) \in StoredWrites /\ (Has(o) => One(o, k) \in StoredWrites)
  BY <1>1, <1>2, OneTyped, Counterparts
<1>4. RemoveEdge(s, e) = <<One(s, h)>> \o (IF Has(o) THEN <<One(o, k)>> ELSE <<>>)
  BY DEF RemoveEdge, h, k
<1> QED BY <1>3, <1>4

----------------------------------------------------------------------------
(* What the writes of a call lead to.                                      *)

\* ws writes nothing but what f has, and everything in which f differs from the disk.
Leads(ws, f) ==
    /\ \A w \in Range(ws) : \A s \in DOMAIN w : w[s] = f[s]
    /\ \A s \in Sides : f[s] = disk[s] \/ \E w \in Range(ws) : s \in DOMAIN w

LEMMA RangeJoin ==
    ASSUME NEW S, NEW a \in Seq(S), NEW b \in Seq(S)
    PROVE  Range(a \o b) = Range(a) \cup Range(b)
<1>1. Range(a \o b) \subseteq Range(a) \cup Range(b)
  BY DEF Range
<1>2. Range(a) \subseteq Range(a \o b)
  <2> SUFFICES ASSUME NEW i \in DOMAIN a PROVE a[i] \in Range(a \o b)
    BY DEF Range
  <2>1. i \in DOMAIN (a \o b) /\ (a \o b)[i] = a[i]
    OBVIOUS
  <2> QED BY <2>1 DEF Range
<1>3. Range(b) \subseteq Range(a \o b)
  <2> SUFFICES ASSUME NEW i \in DOMAIN b PROVE b[i] \in Range(a \o b)
    BY DEF Range
  <2>1. Len(a) + i \in DOMAIN (a \o b) /\ (a \o b)[Len(a) + i] = b[i]
    OBVIOUS
  <2> QED BY <2>1 DEF Range
<1> QED BY <1>1, <1>2, <1>3

LEMMA RangeJoined ==
    \A a, b \in Seq(Writes) : a \o b \in Seq(Writes) /\ Range(a \o b) = Range(a) \cup Range(b)
<1> SUFFICES ASSUME NEW a \in Seq(Writes), NEW b \in Seq(Writes)
             PROVE  a \o b \in Seq(Writes) /\ Range(a \o b) = Range(a) \cup Range(b)
  OBVIOUS
<1> QED BY RangeJoin

LEMMA RangeTyped ==
    ASSUME NEW S, NEW T, NEW a \in Seq(S), Range(a) \subseteq T
    PROVE  a \in Seq(T)
<1>1. \A i \in 1 .. Len(a) : a[i] \in T
  BY DEF Range
<1> QED BY <1>1

\* A sequence made from a set in some order.
LEMMA RangeInOrder ==
    ASSUME NEW S, IsFiniteSet(S), NEW W, NEW F \in [S -> W]
    PROVE  LET q == SetToSeq(S)
               a == [i \in DOMAIN q |-> F[q[i]]]
           IN  a \in Seq(W) /\ Range(a) = {F[x] : x \in S}
<1> DEFINE q == SetToSeq(S)
           a == [i \in DOMAIN q |-> F[q[i]]]
<1>1. q \in Seq(S) /\ \A x \in S : \E i \in DOMAIN q : q[i] = x
  BY SetInOrder
<1> HIDE DEF q
<1>2. a \in Seq(W) /\ DOMAIN a = DOMAIN q
  BY <1>1
<1>3. Range(a) = {F[x] : x \in S}
  BY <1>1 DEF Range
<1> QED BY <1>2, <1>3 DEF q

LEMMA LeadsTyped ==
    ASSUME NEW f, Stored(f), NEW ws \in Seq(Writes), Leads(ws, f)
    PROVE  ws \in Seq(StoredWrites)
<1>1. ASSUME NEW w \in Range(ws) PROVE w \in StoredWrites
  <2>1. w \in Writes
    BY DEF Range
  <2>2. \A s \in DOMAIN w : s \in Sides /\ w[s] = f[s]
    BY <2>1 DEF Writes, Leads
  <2> QED BY <2>1, <2>2 DEF StoredWrites, Stored
<1> QED BY <1>1, RangeTyped

----------------------------------------------------------------------------
(* SetRelations *)

LEMMA CarriedTyped ==
    ASSUME Stored(disk), NEW t \in Templates, NEW rels, Sent(t, rels)
    PROVE  LET new == CarriedForward(t, rels) IN
           /\ Sent(t, new) /\ DOMAIN new = DOMAIN rels
           /\ \A u \in DOMAIN rels :
                 /\ new[u].card = rels[u].card
                 /\ new[u].inverse = (u # t /\ rels[u].inverse)
                 /\ new[u].edges = IF rels[u].edges = {} /\ Has(<<t, u>>) THEN disk[<<t, u>>].edges
                                   ELSE rels[u].edges
<1> DEFINE new == CarriedForward(t, rels)
<1>1. DOMAIN rels \in SUBSET Templates /\ \A u \in DOMAIN rels : rels[u] \in Halves /\ HalfAt(<<t, u>>, rels[u])
  BY DEF Sent, Relations
<1>2. DOMAIN new = DOMAIN rels
  BY DEF CarriedForward
<1>3. ASSUME NEW u \in DOMAIN rels
      PROVE  /\ new[u] \in Halves /\ HalfAt(<<t, u>>, new[u])
             /\ new[u].card = rels[u].card
             /\ new[u].inverse = (u # t /\ rels[u].inverse)
             /\ new[u].edges = IF rels[u].edges = {} /\ Has(<<t, u>>) THEN disk[<<t, u>>].edges
                               ELSE rels[u].edges
  <2> DEFINE i == u # t /\ rels[u].inverse
             g == IF rels[u].edges = {} /\ Has(<<t, u>>) THEN disk[<<t, u>>].edges ELSE rels[u].edges
  <2>1. <<t, u>> \in Sides /\ u \in Templates
    BY <1>1, SidesApart
  <2>2. rels[u] \in Halves /\ rels[u].edges \in SUBSET EdgesOf(<<t, u>>)
    BY <1>1, MenuAssumption DEF HalfAt
  <2>3. g \in SUBSET EdgesOf(<<t, u>>)
    BY <2>1, <2>2 DEF Stored, HalfAt, Has
  <2>4. new[u] = [rels[u] EXCEPT !.inverse = i, !.edges = g]
    BY DEF CarriedForward
  <2>5. i \in BOOLEAN /\ EdgesOf(<<t, u>>) \subseteq Ids \X Ids
    BY <2>1, EdgesTyped
  <2> HIDE DEF i, g
  <2>6. new[u] \in Halves /\ new[u].card = rels[u].card /\ new[u].inverse = i /\ new[u].edges = g
    <3> HIDE DEF new
    <3> QED BY <2>2, <2>3, <2>4, <2>5 DEF Halves
  <2> QED BY <2>3, <2>6 DEF HalfAt, i, g
<1>f. new = [u \in DOMAIN rels |-> new[u]]
  BY DEF CarriedForward
<1>4. new \in [DOMAIN rels -> Halves]
  <2> HIDE DEF new
  <2> QED BY <1>3, <1>f
<1>5. new \in Relations
  BY <1>1, <1>4 DEF Relations
<1>6. Sent(t, new)
  BY <1>2, <1>3, <1>5 DEF Sent
<1> HIDE DEF new
<1> QED BY <1>2, <1>3, <1>6 DEF new

\* What SetRelations leads to.
SetTo(t, rels) ==
    LET new == CarriedForward(t, rels) IN
    [s \in Sides |->
        IF s[1] = t THEN IF s[2] \in DOMAIN new THEN new[s[2]] ELSE NoHalf
        ELSE IF s[2] # t THEN disk[s]
        ELSE IF s[1] = Mirror THEN IF t \in DOMAIN new THEN Flip(new[t]) ELSE NoHalf
        ELSE IF s[1] \in DOMAIN new THEN UpsertMirror(t, s[1], new[s[1]])
        ELSE IF Has(<<t, s[1]>>) THEN NoHalf ELSE disk[s]]

LEMMA UpsertTyped ==
    ASSUME Stored(disk), NEW t \in Templates, NEW u \in Templates, t # u,
           NEW h \in Halves, HalfAt(<<t, u>>, h)
    PROVE  LET k == UpsertMirror(t, u, h) IN
           /\ k \in Halves /\ HalfAt(<<u, t>>, k)
           /\ k.card = Flipped(h.card) /\ k.inverse = (~ h.inverse)
           /\ k.edges = IF Has(<<u, t>>) THEN disk[<<u, t>>].edges ELSE {}
<1>1. /\ <<t, u>> \in Sides /\ <<u, t>> \in Sides /\ Counterpart(<<t, u>>) = <<u, t>> /\ h # NoHalf
  BY SidesApart, Counterparts, MenuAssumption
<1>2. /\ Flip(h) \in Halves /\ HalfAt(<<u, t>>, Flip(h))
      /\ Flip(h).card = Flipped(h.card) /\ Flip(h).inverse = (~ h.inverse)
      /\ Flipped(h.card) \in Cards
  BY <1>1, FlipTyped DEF HalfAt
<1> DEFINE c == Flipped(h.card)
           i == ~ h.inverse
<1>3. c \in Cards /\ i \in BOOLEAN
  BY <1>2
<1> HIDE DEF c, i
<1>4. CASE Has(<<u, t>>)
  <2>1. disk[<<u, t>>] \in Halves /\ disk[<<u, t>>].edges \in SUBSET EdgesOf(<<u, t>>)
    BY <1>1, <1>4 DEF Stored, HalfAt, Has
  <2>2. UpsertMirror(t, u, h) = [disk[<<u, t>>] EXCEPT !.card = c, !.inverse = i]
    BY <1>4 DEF UpsertMirror, c, i
  <2> QED BY <1>3, <1>4, <2>1, <2>2 DEF HalfAt, Halves, c, i
<1>5. CASE ~ Has(<<u, t>>)
  <2>1. UpsertMirror(t, u, h) = [Flip(h) EXCEPT !.edges = {}]
    BY <1>5 DEF UpsertMirror
  <2> QED BY <1>2, <1>5, <2>1 DEF HalfAt, Halves
<1> QED BY <1>4, <1>5

LEMMA SetToTyped ==
    ASSUME Stored(disk), NEW t \in Templates, NEW rels, Sent(t, rels)
    PROVE  Stored(SetTo(t, rels))
<1> DEFINE new == CarriedForward(t, rels)
           f == SetTo(t, rels)
<1>1. /\ Sent(t, new) /\ DOMAIN new \in SUBSET Templates
      /\ \A u \in DOMAIN new : new[u] \in Halves /\ new[u] # NoHalf /\ HalfAt(<<t, u>>, new[u])
  BY CarriedTyped, MenuAssumption DEF Sent, Relations
<1> HIDE DEF new
<1>2. f = [s \in Sides |-> f[s]]
  BY DEF SetTo
<1>3. ASSUME NEW s \in Sides PROVE HalfAt(s, f[s])
  <2>1. CASE s[1] = t
    <3>1. s = <<t, s[2]>> /\ f[s] = IF s[2] \in DOMAIN new THEN new[s[2]] ELSE NoHalf
      BY <2>1 DEF SetTo, Sides, new
    <3> QED BY <3>1, <1>1 DEF HalfAt
  <2>2. CASE s[1] # t /\ s[2] # t
    BY <2>2 DEF SetTo, Stored
  <2>3. CASE s[1] = Mirror /\ s[2] = t
    <3>1. f[s] = IF t \in DOMAIN new THEN Flip(new[t]) ELSE NoHalf
      BY <2>3, SidesApart DEF SetTo, new
    <3>2. s = <<Mirror, t>> /\ s = Counterpart(<<t, t>>) /\ <<t, t>> \in Sides
      BY <2>3, Counterparts, SidesApart DEF Sides
    <3> QED BY <3>1, <3>2, <1>1, FlipTyped DEF HalfAt
  <2>4. CASE s[1] # t /\ s[1] # Mirror /\ s[2] = t
    <3>1. s = <<s[1], t>> /\ s[1] \in Templates
      BY <2>4 DEF Sides
    <3>2. CASE s[1] \in DOMAIN new
      <4>1. PICK u \in Templates : u = s[1]
        BY <3>1
      <4>2. f[s] = UpsertMirror(t, u, new[u]) /\ s = <<u, t>>
        BY <2>4, <3>1, <3>2, <4>1 DEF SetTo, new
      <4>3. t # u /\ new[u] \in Halves /\ HalfAt(<<t, u>>, new[u])
        BY <2>4, <3>2, <4>1, <1>1
      <4>4. HalfAt(<<u, t>>, UpsertMirror(t, u, new[u]))
        BY <4>3, UpsertTyped
      <4> QED BY <4>2, <4>4
    <3>3. CASE s[1] \notin DOMAIN new
      BY <2>4, <3>3 DEF SetTo, new, Stored, HalfAt
    <3> QED BY <3>2, <3>3
  <2> QED BY <2>1, <2>2, <2>3, <2>4
<1> HIDE DEF f
<1> QED BY <1>2, <1>3 DEF Stored, HalfAt, f

LEMMA SetRelationsLeads ==
    ASSUME Stored(disk), NEW t \in Templates, NEW rels, Sent(t, rels)
    PROVE  /\ Leads(SetRelations(t, rels), SetTo(t, rels))
           /\ SetRelations(t, rels) \in Seq(StoredWrites)
<1> DEFINE new == CarriedForward(t, rels)
           f == SetTo(t, rels)
           own == [s \in {t} \X Templates |-> IF s[2] \in DOMAIN new THEN new[s[2]] ELSE NoHalf]
           US == DOMAIN new \ {t}
           GS == { u \in RelationsOf(t) \ (DOMAIN new \cup {t}) : Has(<<u, t>>) }
           F == [u \in US |-> One(<<u, t>>, UpsertMirror(t, u, new[u]))]
           G == [u \in GS |-> One(<<u, t>>, NoHalf)]
           others == SetToSeq(US)
           gone == SetToSeq(GS)
           A == [i \in DOMAIN others |-> F[others[i]]]
           B == [i \in DOMAIN gone |-> G[gone[i]]]
           self == IF t \in DOMAIN new THEN <<One(<<Mirror, t>>, Flip(new[t]))>>
                   ELSE IF Has(<<Mirror, t>>) THEN <<One(<<Mirror, t>>, NoHalf)>>
                   ELSE <<>>
<1>1. /\ DOMAIN new \in SUBSET Templates
      /\ \A u \in DOMAIN new : new[u] \in Halves /\ new[u] # NoHalf /\ HalfAt(<<t, u>>, new[u])
  BY CarriedTyped, MenuAssumption DEF Sent, Relations
<1>2. IsFiniteSet(US) /\ IsFiniteSet(GS) /\ US \subseteq Templates \ {t} /\ GS \subseteq Templates \ {t}
  BY <1>1, FS_Subset, TemplatesAssumption DEF RelationsOf
<1>3. SetRelations(t, rels) = <<own>> \o A \o B \o self
  <2>1. others \in Seq(US) /\ gone \in Seq(GS)
    <3> HIDE DEF US, GS
    <3> QED BY <1>2, SetInOrder
  <2>2. A = [i \in DOMAIN others |-> One(<<others[i], t>>, UpsertMirror(t, others[i], new[others[i]]))]
    <3> HIDE DEF others, US
    <3> QED BY <2>1
  <2>3. B = [i \in DOMAIN gone |-> One(<<gone[i], t>>, NoHalf)]
    <3> HIDE DEF gone, GS
    <3> QED BY <2>1
  <2> HIDE DEF A, B
  <2> QED BY <2>2, <2>3 DEF SetRelations
\* The writes, typed.
<1>4. own \in Writes
  <2>1. {t} \X Templates \in SUBSET Sides
    BY SidesApart
  <2>2. own \in [{t} \X Templates -> Halves \cup {NoHalf}]
    BY <1>1
  <2> QED BY <2>1, <2>2 DEF Writes
<1>5. F \in [US -> Writes]
  <2> SUFFICES ASSUME NEW u \in US PROVE One(<<u, t>>, UpsertMirror(t, u, new[u])) \in Writes
    OBVIOUS
  <2>1. u \in Templates /\ u # t /\ new[u] \in Halves /\ HalfAt(<<t, u>>, new[u])
    BY <1>1, <1>2
  <2> HIDE DEF new
  <2>2. HalfAt(<<u, t>>, UpsertMirror(t, u, new[u])) /\ <<u, t>> \in Sides
    BY <2>1, UpsertTyped, SidesApart
  <2> QED BY <2>2, OneTyped DEF StoredWrites
<1>6. G \in [GS -> Writes]
  <2> SUFFICES ASSUME NEW u \in GS PROVE One(<<u, t>>, NoHalf) \in Writes
    OBVIOUS
  <2>1. <<u, t>> \in Sides /\ HalfAt(<<u, t>>, NoHalf)
    BY <1>2, SidesApart DEF HalfAt
  <2> QED BY <2>1, OneTyped DEF StoredWrites
<1>7. self \in Seq(Writes)
  <2>1. <<Mirror, t>> \in Sides /\ <<t, t>> \in Sides /\ Counterpart(<<t, t>>) = <<Mirror, t>>
    BY SidesApart, Counterparts
  <2>2. t \in DOMAIN new => HalfAt(<<Mirror, t>>, Flip(new[t]))
    BY <1>1, <2>1, FlipTyped
  <2>3. HalfAt(<<Mirror, t>>, NoHalf)
    BY DEF HalfAt
  <2> HIDE DEF new
  <2>4. /\ t \in DOMAIN new => One(<<Mirror, t>>, Flip(new[t])) \in Writes
        /\ One(<<Mirror, t>>, NoHalf) \in Writes
    BY <2>1, <2>2, <2>3, OneTyped DEF StoredWrites
  <2> QED BY <2>4
<1>8. A \in Seq(Writes) /\ Range(A) = {F[u] : u \in US}
  <2> HIDE DEF US, F
  <2> QED BY <1>2, <1>5, RangeInOrder
<1>9. B \in Seq(Writes) /\ Range(B) = {G[u] : u \in GS}
  <2> HIDE DEF GS, G
  <2> QED BY <1>2, <1>6, RangeInOrder
<1>10. /\ <<own>> \o A \o B \o self \in Seq(Writes)
       /\ Range(<<own>> \o A \o B \o self) = {own} \cup Range(A) \cup Range(B) \cup Range(self)
  <2> DEFINE o == <<own>>
             oA == o \o A
             oAB == oA \o B
             all == oAB \o self
  <2> HIDE DEF own, A, B, self, F, G, US, GS
  <2>1. o \in Seq(Writes) /\ Range(o) = {own}
    BY <1>4 DEF Range
  <2>2. oA = o \o A
    OBVIOUS
  <2>3. oAB = oA \o B
    OBVIOUS
  <2>4. all = oAB \o self
    OBVIOUS
  <2> HIDE DEF o, oA, oAB, all
  <2>5. oA \in Seq(Writes) /\ Range(oA) = Range(o) \cup Range(A)
    BY <2>1, <2>2, <1>8, RangeJoined
  <2>6. oAB \in Seq(Writes) /\ Range(oAB) = Range(oA) \cup Range(B)
    BY <2>3, <2>5, <1>9, RangeJoined
  <2>7. all \in Seq(Writes) /\ Range(all) = Range(oAB) \cup Range(self)
    BY <2>4, <2>6, <1>7, RangeJoined
  <2>8. all = <<own>> \o A \o B \o self
    BY DEF all, oAB, oA, o
  <2> QED BY <2>1, <2>5, <2>6, <2>7, <2>8
<1> DEFINE ws == SetRelations(t, rels)
<1>11. ws \in Seq(Writes) /\ Range(ws) = {own} \cup {F[u] : u \in US} \cup {G[u] : u \in GS} \cup Range(self)
  <2> HIDE DEF own, F, G, US, GS, A, B, self, ws
  <2>1. ws = <<own>> \o A \o B \o self
    BY <1>3 DEF ws
  <2>2. Range(ws) = {own} \cup Range(A) \cup Range(B) \cup Range(self)
    BY <2>1, <1>10
  <2> QED BY <2>1, <2>2, <1>8, <1>9, <1>10
\* What they write.
<1>12. \A s \in {t} \X Templates : own[s] = f[s]
  BY SidesApart DEF SetTo
<1>13. ASSUME NEW u \in US
       PROVE  <<u, t>> \in Sides /\ DOMAIN F[u] = {<<u, t>>} /\ F[u][<<u, t>>] = f[<<u, t>>]
  <2>1. u \in Templates /\ u # t /\ u # Mirror /\ <<u, t>> \in Sides
    BY <1>2, SidesApart
  <2>2. f[<<u, t>>] = UpsertMirror(t, u, new[u])
    BY <2>1 DEF SetTo
  <2> QED BY <2>1, <2>2 DEF One
<1>14. ASSUME NEW u \in GS
       PROVE  <<u, t>> \in Sides /\ DOMAIN G[u] = {<<u, t>>} /\ G[u][<<u, t>>] = f[<<u, t>>]
  <2>1. u \in Templates /\ u # t /\ u # Mirror /\ <<u, t>> \in Sides /\ u \notin DOMAIN new /\ Has(<<t, u>>)
    BY <1>2, SidesApart DEF RelationsOf
  <2>2. f[<<u, t>>] = NoHalf
    BY <2>1 DEF SetTo
  <2> QED BY <2>1, <2>2 DEF One
<1>15. ASSUME NEW w \in Range(self)
       PROVE  DOMAIN w = {<<Mirror, t>>} /\ w[<<Mirror, t>>] = f[<<Mirror, t>>]
  <2>1. <<Mirror, t>> \in Sides /\ Mirror # t
    BY SidesApart
  <2>2. f[<<Mirror, t>>] = IF t \in DOMAIN new THEN Flip(new[t]) ELSE NoHalf
    BY <2>1 DEF SetTo
  <2>3. w = One(<<Mirror, t>>, IF t \in DOMAIN new THEN Flip(new[t]) ELSE NoHalf)
    <3> HIDE DEF new
    <3> QED BY DEF Range
  <2> QED BY <2>2, <2>3 DEF One
<1>16. \A w \in Range(ws) : \A s \in DOMAIN w : w[s] = f[s]
  <2> HIDE DEF F, G, US, GS, self, f, ws
  <2>1. DOMAIN own = {t} \X Templates
    OBVIOUS
  <2> HIDE DEF own
  <2> SUFFICES ASSUME NEW w \in Range(ws), NEW s \in DOMAIN w PROVE w[s] = f[s]
    OBVIOUS
  <2>2. CASE w = own
    BY <2>1, <2>2, <1>12
  <2>3. CASE w \in {F[u] : u \in US}
    <3>1. PICK u \in US : w = F[u]
      BY <2>3
    <3> QED BY <3>1, <1>13
  <2>4. CASE w \in {G[u] : u \in GS}
    <3>1. PICK u \in GS : w = G[u]
      BY <2>4
    <3> QED BY <3>1, <1>14
  <2>5. CASE w \in Range(self)
    BY <2>5, <1>15
  <2> QED BY <1>11, <2>2, <2>3, <2>4, <2>5
\* What they leave alone.
<1>17. ASSUME NEW s \in Sides, f[s] # disk[s] PROVE \E w \in Range(ws) : s \in DOMAIN w
  <2>1. CASE s[1] = t
    <3>1. s \in DOMAIN own
      BY <2>1 DEF Sides
    <3> QED BY <3>1, <1>11
  <2>2. CASE s[1] # t /\ s[2] # t
    BY <1>17, <2>2 DEF SetTo
  <2>3. CASE s[1] = Mirror /\ s[2] = t
    <3>1. f[s] = (IF t \in DOMAIN new THEN Flip(new[t]) ELSE NoHalf) /\ s = <<Mirror, t>>
      BY <2>3, SidesApart DEF SetTo, Sides
    <3>2. t \in DOMAIN new \/ Has(<<Mirror, t>>)
      BY <1>17, <3>1 DEF Has
    <3>3. PICK w \in Range(self) : TRUE
      <4> HIDE DEF new
      <4> QED BY <3>2 DEF Range
    <3> QED BY <3>1, <3>3, <1>11, <1>15
  <2>4. CASE s[1] # t /\ s[1] # Mirror /\ s[2] = t
    <3>1. PICK u \in Templates : s = <<u, t>> /\ u # t
      BY <2>4 DEF Sides
    <3>2. u \in DOMAIN new \/ (u \notin DOMAIN new /\ Has(<<t, u>>) /\ Has(s))
      BY <1>17, <2>4, <3>1 DEF SetTo, Has
    <3>3. u \in US \/ u \in GS
      BY <3>1, <3>2 DEF RelationsOf
    <3> HIDE DEF F, G, US, GS, self, own, ws
    <3>4. CASE u \in US
      <4>1. F[u] \in Range(ws) /\ s \in DOMAIN F[u]
        BY <3>1, <3>4, <1>11, <1>13
      <4> QED BY <4>1
    <3>5. CASE u \in GS
      <4>1. G[u] \in Range(ws) /\ s \in DOMAIN G[u]
        BY <3>1, <3>5, <1>11, <1>14
      <4> QED BY <4>1
    <3> QED BY <3>3, <3>4, <3>5
  <2> QED BY <2>1, <2>2, <2>3, <2>4
<1> HIDE DEF f, ws
<1>18. Leads(ws, f)
  BY <1>16, <1>17 DEF Leads
<1>19. Stored(f)
  BY SetToTyped DEF f
<1> QED BY <1>11, <1>18, <1>19, LeadsTyped DEF f, ws

----------------------------------------------------------------------------
(* AddEdge, RemoveEdge and Reconcile *)

AddTo(s, e) ==
    [x \in Sides |-> IF x = s THEN AddEdge(s, e)[1][s]
                     ELSE IF x = Counterpart(s) THEN AddEdge(s, e)[2][x] ELSE disk[x]]

LEMMA AddEdgeLeads ==
    ASSUME Stored(disk), NEW s \in Sides, NEW e \in EdgesOf(s), Has(s)
    PROVE  LET o == Counterpart(s)
               f == AddTo(s, e) IN
           /\ Leads(AddEdge(s, e), f)
           /\ f[s] = [disk[s] EXCEPT !.edges = @ \cup {e}]
           /\ Has(o) => f[o] = [disk[o] EXCEPT !.edges = @ \cup Reversed({e})]
           /\ ~ Has(o) => f[o] = [Flip(f[s]) EXCEPT !.edges = Reversed({e})]
           /\ \A x \in Sides \ {s, o} : f[x] = disk[x]
           /\ Stored(f)
<1> DEFINE o == Counterpart(s)
           f == AddTo(s, e)
           h == [disk[s] EXCEPT !.edges = @ \cup {e}]
           k == IF Has(o) THEN [disk[o] EXCEPT !.edges = @ \cup Reversed({e})]
                ELSE [Flip(h) EXCEPT !.edges = Reversed({e})]
<1>1. o \in Sides /\ o # s
  BY Counterparts
<1>2. AddEdge(s, e) = <<One(s, h), One(o, k)>>
  BY DEF AddEdge
<1> HIDE DEF h, k, o
<1>3. AddEdge(s, e)[1][s] = h /\ AddEdge(s, e)[2][o] = k
  BY <1>2 DEF One
<1>4. f[s] = h /\ f[o] = k /\ \A x \in Sides \ {s, o} : f[x] = disk[x]
  BY <1>1, <1>3 DEF AddTo, o
<1>5. Range(AddEdge(s, e)) = {One(s, h), One(o, k)}
  BY <1>2 DEF Range
<1>6. DOMAIN One(s, h) = {s} /\ One(s, h)[s] = h /\ DOMAIN One(o, k) = {o} /\ One(o, k)[o] = k
  BY DEF One
<1> HIDE DEF f
<1>7. Leads(AddEdge(s, e), f)
  BY <1>4, <1>5, <1>6 DEF Leads
<1>8. AddEdge(s, e) \in Seq(StoredWrites)
  BY AddEdgeTyped
<1>9. Stored(f)
  <2>1. One(s, h) \in StoredWrites /\ One(o, k) \in StoredWrites
    BY <1>5, <1>8 DEF Range
  <2>2. HalfAt(s, h) /\ HalfAt(o, k)
    BY <2>1, <1>6 DEF StoredWrites
  <2>3. \A x \in Sides : HalfAt(x, f[x])
    BY <1>4, <2>2 DEF Stored
  <2>4. f = [x \in Sides |-> f[x]]
    BY DEF f, AddTo
  <2> QED BY <2>3, <2>4 DEF Stored, HalfAt
<1> QED BY <1>4, <1>7, <1>9 DEF f, o, h, k

RemoveTo(s, e) ==
    [x \in Sides |-> IF x = s THEN [disk[s] EXCEPT !.edges = @ \ {e}]
                     ELSE IF x = Counterpart(s) /\ Has(x)
                          THEN [disk[x] EXCEPT !.edges = @ \ Reversed({e})] ELSE disk[x]]

LEMMA RemoveEdgeLeads ==
    ASSUME Stored(disk), NEW s \in Sides, NEW e, Has(s)
    PROVE  Leads(RemoveEdge(s, e), RemoveTo(s, e)) /\ Stored(RemoveTo(s, e))
<1> DEFINE o == Counterpart(s)
           f == RemoveTo(s, e)
           h == [disk[s] EXCEPT !.edges = @ \ {e}]
           k == [disk[o] EXCEPT !.edges = @ \ Reversed({e})]
<1>1. o \in Sides /\ o # s
  BY Counterparts
<1>2. /\ Has(o) => RemoveEdge(s, e) = <<One(s, h), One(o, k)>>
      /\ ~ Has(o) => RemoveEdge(s, e) = <<One(s, h)>>
  <2> DEFINE a == One(s, h)
             b == One(o, k)
  <2>1. RemoveEdge(s, e) = <<a>> \o (IF Has(o) THEN <<b>> ELSE <<>>)
    BY DEF RemoveEdge
  <2> HIDE DEF a, b, o
  <2>a. <<a>> \o <<b>> = <<a, b>>
    <3> DEFINE q == <<a>> \o <<b>>
    <3>1. <<a>> \in Seq({a, b}) /\ <<b>> \in Seq({a, b}) /\ Len(<<a>>) = 1 /\ Len(<<b>>) = 1
      OBVIOUS
    <3>2. q \in Seq({a, b}) /\ Len(q) = 2 /\ q[1] = a /\ q[2] = b
      BY <3>1
    <3> HIDE DEF q
    <3>3. q = <<a, b>>
      BY <3>2
    <3> QED BY <3>3 DEF q
  <2>b. <<a>> \o <<>> = <<a>>
    OBVIOUS
  <2>2. <<a>> \o <<b>> = <<a, b>> /\ <<a>> \o <<>> = <<a>>
    BY <2>a, <2>b
  <2>3. CASE Has(o)
    BY <2>1, <2>2, <2>3 DEF a, b
  <2>4. CASE ~ Has(o)
    BY <2>1, <2>2, <2>4 DEF a, b
  <2> QED BY <2>3, <2>4
<1>3. f[s] = h /\ (Has(o) => f[o] = k) /\ (~ Has(o) => f[o] = disk[o]) /\ \A x \in Sides \ {s, o} : f[x] = disk[x]
  BY <1>1 DEF RemoveTo
<1> HIDE DEF h, k, o, f
<1>4. DOMAIN One(s, h) = {s} /\ One(s, h)[s] = h /\ DOMAIN One(o, k) = {o} /\ One(o, k)[o] = k
  BY DEF One
<1>5. RemoveEdge(s, e) \in Seq(StoredWrites)
  BY RemoveEdgeTyped
<1>6. Leads(RemoveEdge(s, e), f) /\ HalfAt(s, h) /\ (Has(o) => HalfAt(o, k))
  <2>1. CASE Has(o)
    <3>1. RemoveEdge(s, e) = <<One(s, h), One(o, k)>>
      BY <1>2, <2>1
    <3>2. Range(RemoveEdge(s, e)) = {One(s, h), One(o, k)}
      BY <3>1 DEF Range
    <3>3. One(s, h) \in StoredWrites /\ One(o, k) \in StoredWrites
      BY <1>5, <3>1
    <3> QED BY <1>3, <1>4, <2>1, <3>2, <3>3 DEF Leads, StoredWrites
  <2>2. CASE ~ Has(o)
    <3>1. RemoveEdge(s, e) = <<One(s, h)>>
      BY <1>2, <2>2
    <3>2. Range(RemoveEdge(s, e)) = {One(s, h)}
      BY <3>1 DEF Range
    <3>3. One(s, h) \in StoredWrites
      BY <1>5, <3>1
    <3> QED BY <1>3, <1>4, <2>2, <3>2, <3>3 DEF Leads, StoredWrites
  <2> QED BY <2>1, <2>2
<1>7. Stored(f)
  <2>1. \A x \in Sides : HalfAt(x, f[x])
    BY <1>3, <1>6 DEF Stored
  <2>2. f = [x \in Sides |-> f[x]]
    BY DEF f, RemoveTo
  <2> QED BY <2>1, <2>2 DEF Stored, HalfAt
<1> QED BY <1>6, <1>7 DEF f

HealTo == [s \in Sides |-> HealedHalf(s)]

LEMMA ReconcileLeads ==
    ASSUME Stored(disk)
    PROVE  Leads(Reconcile, HealTo) /\ Stored(HealTo) /\ Reconcile \in Seq(StoredWrites)
<1>1. Stored(HealTo)
  BY HealedTyped DEF HealTo, Stored, HalfAt
<1>2. CASE ToHeal(Sides) = {}
  <2>1. Reconcile = <<>> /\ \A s \in Sides : HealTo[s] = disk[s]
    BY <1>2 DEF Reconcile, ToHeal, HealTo
  <2>2. Range(Reconcile) = {}
    BY <2>1 DEF Range
  <2> QED BY <1>1, <2>1, <2>2 DEF Leads
<1>3. CASE ToHeal(Sides) # {}
  <2> DEFINE cross(t) == { <<t, u>> : u \in Templates \ {t} }
             ts == SetToSeq(Templates)
             L(t) == HealFile({ s \in cross(t) : ~Has(s) })
             R(t) == HealFile({ s \in cross(t) : Has(s) })
             lost == [i \in DOMAIN ts |-> HealFile({ s \in cross(ts[i]) : ~Has(s) })]
             short == [i \in DOMAIN ts |-> HealFile({ s \in cross(ts[i]) : Has(s) })]
             self == [i \in 1 .. 2 * Len(ts) |->
                        IF i % 2 = 1 THEN HealFile({<<Mirror, ts[(i + 1) \div 2]>>})
                        ELSE HealFile({<<ts[i \div 2], ts[i \div 2]>>})]
  <2>1. Reconcile = lost \o short \o self
    BY <1>3 DEF Reconcile
  <2>2. ts \in Seq(Templates) /\ \A t \in Templates : \E i \in DOMAIN ts : ts[i] = t
    BY SetInOrder, TemplatesAssumption
  <2> HIDE DEF ts
  <2>3. ASSUME NEW S \in SUBSET Sides
        PROVE  /\ HealFile(S) \in Writes /\ DOMAIN HealFile(S) = ToHeal(S)
               /\ \A s \in DOMAIN HealFile(S) : HealFile(S)[s] = HealTo[s]
    <3>1. ToHeal(S) \in SUBSET Sides
      BY DEF ToHeal
    <3>2. HealFile(S) \in [ToHeal(S) -> Halves \cup {NoHalf}]
      BY <3>1, <1>1 DEF HealFile, HealTo, Stored
    <3> QED BY <3>1, <3>2 DEF Writes, HealFile, HealTo
  <2>4. ASSUME NEW t \in Templates
        PROVE  /\ cross(t) \in SUBSET Sides /\ {<<Mirror, t>>} \in SUBSET Sides /\ {<<t, t>>} \in SUBSET Sides
               /\ { s \in cross(t) : ~Has(s) } \in SUBSET Sides /\ { s \in cross(t) : Has(s) } \in SUBSET Sides
    BY SidesApart
  <2>n. /\ Len(ts) \in Nat /\ DOMAIN ts = 1 .. Len(ts)
    BY <2>2
  <2>5. lost \in Seq(Writes) /\ short \in Seq(Writes) /\ self \in Seq(Writes)
    <3>1. ASSUME NEW i \in 1 .. Len(ts)
          PROVE  lost[i] \in Writes /\ short[i] \in Writes
      <4>1. ts[i] \in Templates
        BY <2>2, <2>n
      <4>2. { s \in cross(ts[i]) : ~Has(s) } \in SUBSET Sides /\ { s \in cross(ts[i]) : Has(s) } \in SUBSET Sides
        BY <4>1, <2>4
      <4> HIDE DEF cross
      <4> QED BY <4>2, <2>3, <2>n
    <3>2. ASSUME NEW i \in 1 .. 2 * Len(ts)
          PROVE  self[i] \in Writes
      <4>1. CASE i % 2 = 1
        <5>1. (i + 1) \div 2 \in 1 .. Len(ts)
          BY <4>1, <2>n
        <5>t. PICK t \in Templates : t = ts[(i + 1) \div 2]
          BY <5>1, <2>2, <2>n
        <5>2. {<<Mirror, ts[(i + 1) \div 2]>>} \in SUBSET Sides
          BY <5>t, <2>4
        <5> QED BY <4>1, <5>2, <2>3
      <4>2. CASE i % 2 # 1
        <5>1. i \div 2 \in 1 .. Len(ts)
          BY <4>2, <2>n
        <5>t. PICK t \in Templates : t = ts[i \div 2]
          BY <5>1, <2>2, <2>n
        <5>2. {<<ts[i \div 2], ts[i \div 2]>>} \in SUBSET Sides
          BY <5>t, <2>4
        <5> QED BY <4>2, <5>2, <2>3
      <4> QED BY <4>1, <4>2
    <3>3. lost = [i \in 1 .. Len(ts) |-> lost[i]] /\ short = [i \in 1 .. Len(ts) |-> short[i]]
      BY <2>n
    <3>4. self = [i \in 1 .. 2 * Len(ts) |-> self[i]]
      OBVIOUS
    <3>5. 2 * Len(ts) \in Nat
      BY <2>n
    <3> HIDE DEF lost, short, self
    <3> QED BY <3>1, <3>2, <3>3, <3>4, <3>5, <2>n
  <2>6. /\ Reconcile \in Seq(Writes)
        /\ Range(Reconcile) = Range(lost) \cup Range(short) \cup Range(self)
    <3> HIDE DEF lost, short, self
    <3>1. lost \o short \in Seq(Writes) /\ Range(lost \o short) = Range(lost) \cup Range(short)
      BY <2>5, RangeJoined
    <3>2. /\ (lost \o short) \o self \in Seq(Writes)
          /\ Range((lost \o short) \o self) = Range(lost \o short) \cup Range(self)
      BY <3>1, <2>5, RangeJoined
    <3> QED BY <2>1, <3>1, <3>2
  \* Every write is a HealFile...
  <2>7. \A w \in Range(Reconcile) : \E S \in SUBSET Sides : w = HealFile(S)
    <3> SUFFICES ASSUME NEW w \in Range(Reconcile) PROVE \E S \in SUBSET Sides : w = HealFile(S)
      OBVIOUS
    <3>1. CASE w \in Range(lost)
      <4>1. PICK i \in DOMAIN ts : w = HealFile({ s \in cross(ts[i]) : ~Has(s) })
        BY <3>1 DEF Range
      <4>2. ts[i] \in Templates
        BY <2>2
      <4> HIDE DEF cross
      <4> QED BY <4>1, <4>2, <2>4
    <3>2. CASE w \in Range(short)
      <4>1. PICK i \in DOMAIN ts : w = HealFile({ s \in cross(ts[i]) : Has(s) })
        BY <3>2 DEF Range
      <4>2. ts[i] \in Templates
        BY <2>2
      <4> HIDE DEF cross
      <4> QED BY <4>1, <4>2, <2>4
    <3>3. CASE w \in Range(self)
      <4>1. PICK i \in 1 .. 2 * Len(ts) : w = self[i]
        BY <3>3 DEF Range
      <4>2. CASE i % 2 = 1
        <5>1. (i + 1) \div 2 \in 1 .. Len(ts)
          BY <4>2, <2>n
        <5>t. PICK t \in Templates : t = ts[(i + 1) \div 2]
          BY <5>1, <2>2, <2>n
        <5>2. {<<Mirror, ts[(i + 1) \div 2]>>} \in SUBSET Sides
          BY <5>t, <2>4
        <5> QED BY <4>1, <4>2, <5>2
      <4>3. CASE i % 2 # 1
        <5>1. i \div 2 \in 1 .. Len(ts)
          BY <4>3, <2>n
        <5>t. PICK t \in Templates : t = ts[i \div 2]
          BY <5>1, <2>2, <2>n
        <5>2. {<<ts[i \div 2], ts[i \div 2]>>} \in SUBSET Sides
          BY <5>t, <2>4
        <5> QED BY <4>1, <4>3, <5>2
      <4> QED BY <4>2, <4>3
    <3> HIDE DEF lost, short, self
    <3> QED BY <3>1, <3>2, <3>3, <2>6
  <2>8. \A w \in Range(Reconcile) : \A s \in DOMAIN w : w[s] = HealTo[s]
    BY <2>3, <2>7
  \* ...and every side that needs it is in one of them.
  <2>9. ASSUME NEW s \in Sides, HealTo[s] # disk[s]
        PROVE  \E w \in Range(Reconcile) : s \in DOMAIN w
    <3>1. ASSUME NEW S \in SUBSET Sides, s \in S PROVE s \in DOMAIN HealFile(S)
      BY <2>3, <2>9, <3>1 DEF ToHeal, HealTo
    <3>2. ASSUME NEW t \in Templates, NEW u \in Templates, s = <<t, u>>, t # u
          PROVE  \E w \in Range(Reconcile) : s \in DOMAIN w
      <4>1. PICK i \in DOMAIN ts : ts[i] = t
        BY <2>2
      <4>2. CASE Has(s)
        <5>1. s \in { x \in cross(ts[i]) : Has(x) } /\ { x \in cross(ts[i]) : Has(x) } \in SUBSET Sides
          BY <3>2, <4>1, <4>2, <2>4
        <5>2. short[i] \in Range(short) /\ short[i] = HealFile({ x \in cross(ts[i]) : Has(x) })
          BY <4>1 DEF Range
        <5> HIDE DEF cross
        <5>3. s \in DOMAIN short[i]
          BY <5>1, <5>2, <3>1
        <5> HIDE DEF lost, short, self
        <5> QED BY <5>2, <5>3, <2>6
      <4>3. CASE ~ Has(s)
        <5>1. s \in { x \in cross(ts[i]) : ~Has(x) } /\ { x \in cross(ts[i]) : ~Has(x) } \in SUBSET Sides
          BY <3>2, <4>1, <4>3, <2>4
        <5>2. lost[i] \in Range(lost) /\ lost[i] = HealFile({ x \in cross(ts[i]) : ~Has(x) })
          BY <4>1 DEF Range
        <5> HIDE DEF cross
        <5>3. s \in DOMAIN lost[i]
          BY <5>1, <5>2, <3>1
        <5> HIDE DEF lost, short, self
        <5> QED BY <5>2, <5>3, <2>6
      <4> QED BY <4>2, <4>3
    <3>3. ASSUME NEW t \in Templates, s = <<t, t>>
          PROVE  \E w \in Range(Reconcile) : s \in DOMAIN w
      <4>1. PICK k \in 1 .. Len(ts) : ts[k] = t
        BY <2>2, <2>n
      <4>2. 2 * k \in 1 .. 2 * Len(ts) /\ (2 * k) % 2 # 1 /\ (2 * k) \div 2 = k
        BY <2>n
      <4>3. self[2 * k] = HealFile({<<t, t>>}) /\ self[2 * k] \in Range(self)
        BY <4>1, <4>2 DEF Range
      <4>4. s \in DOMAIN HealFile({<<t, t>>})
        BY <3>3, <2>4, <3>1
      <4> HIDE DEF lost, short, self
      <4> QED BY <4>3, <4>4, <2>6
    <3>4. ASSUME NEW t \in Templates, s = <<Mirror, t>>
          PROVE  \E w \in Range(Reconcile) : s \in DOMAIN w
      <4>1. PICK k \in 1 .. Len(ts) : ts[k] = t
        BY <2>2, <2>n
      <4>2. 2 * k - 1 \in 1 .. 2 * Len(ts) /\ (2 * k - 1) % 2 = 1 /\ ((2 * k - 1) + 1) \div 2 = k
        BY <2>n
      <4>3. self[2 * k - 1] = HealFile({<<Mirror, t>>}) /\ self[2 * k - 1] \in Range(self)
        BY <4>1, <4>2 DEF Range
      <4>4. s \in DOMAIN HealFile({<<Mirror, t>>})
        BY <3>4, <2>4, <3>1
      <4> HIDE DEF lost, short, self
      <4> QED BY <4>3, <4>4, <2>6
    <3> QED BY <3>2, <3>3, <3>4, SidesApart
  <2>10. Leads(Reconcile, HealTo)
    BY <2>8, <2>9 DEF Leads
  <2> QED BY <1>1, <2>6, <2>10, LeadsTyped
<1> QED BY <1>2, <1>3

----------------------------------------------------------------------------
(* Every step keeps the types. *)

LEMMA LinkedTyped ==
    ASSUME NEW r \in Ids
    PROVE  OwnedBy(r) \subseteq Ids /\ LinkedTo(r) \subseteq Ids
<1>1. Fields[TemplateOf(r)] \subseteq Templates
  BY RecordsTyped, TemplatesAssumption
<1>2. OwnedBy(r) \subseteq Ids
  BY <1>1 DEF OwnedBy, Ids
<1> QED BY <1>2 DEF LinkedTo

\* The side of a record's link, and the link itself.
LEMMA SideTyped ==
    ASSUME NEW r \in Ids, NEW x \in Ids
    PROVE  /\ Side(r, x) \in Sides /\ Side(r, x)[1] = TemplateOf(r) /\ Side(r, x)[2] = TemplateOf(x)
           /\ Side(r, x) \in Templates \X Templates /\ <<r, x>> \in EdgesOf(Side(r, x))
<1>1. /\ TemplateOf(r) \in Templates /\ TemplateOf(x) \in Templates
      /\ r \in RecordsOf[TemplateOf(r)] /\ x \in RecordsOf[TemplateOf(x)]
  BY RecordsTyped
<1> QED BY <1>1, SidesApart DEF Side, EdgesOf

LEMMA ReadTyped ==
    ASSUME job \in Jobs, refs \in [Ids -> SUBSET Ids], JobRead
    PROVE  /\ job' \in Jobs /\ job'.kind = job.kind /\ job'.host = job.host
           /\ job'.phase = (IF job.phase = "heal" THEN "healing" ELSE "syncing")
           /\ job'.adds = EdgesToAdd(job.host)
           /\ job'.drains = (IF job.phase = "sync" THEN EdgesToDrain(job.host) ELSE {})
<1> DEFINE p == IF job.phase = "heal" THEN "healing" ELSE "syncing"
           a == EdgesToAdd(job.host)
           d == IF job.phase = "sync" THEN EdgesToDrain(job.host) ELSE {}
<1>1. job' = [job EXCEPT !.phase = p, !.adds = a, !.drains = d]
  BY DEF JobRead
<1>2. p \in Phases /\ a \in SUBSET Ids /\ d \in SUBSET Ids
  BY LinkedTyped DEF Jobs, Phases, EdgesToAdd, EdgesToDrain
<1> HIDE DEF p, a, d
<1>3. /\ job' \in Jobs /\ job'.kind = job.kind /\ job'.host = job.host
      /\ job'.phase = p /\ job'.adds = a /\ job'.drains = d
  BY <1>1, <1>2 DEF Jobs
<1> QED BY <1>3 DEF p, a, d

LEMMA TypeStep ==
    ASSUME TInv, [Next]_vars
    PROVE  TInv'
<1> USE DEF TInv
<1>c. ASSUME NEW ws \in Seq(StoredWrites), Call(ws)
      PROVE  Stored(disk)' /\ writes' \in Seq(StoredWrites)
  BY <1>c, CallTyped
<1>w. <<>> \in Seq(StoredWrites)
  OBVIOUS
<1>o. (Op => ops' \in 0 .. MaxOps /\ edits' = edits) /\ (Edit => edits' \in 0 .. MaxEdits /\ ops' = ops)
  BY TemplatesAssumption DEF Op, Edit
<1>1. ASSUME NEW s \in Templates \X Templates, NEW e \in Edges(s), LinkRecords(s, e)
      PROVE  TInv'
  <2>1. s \in Sides /\ e \in EdgesOf(s)
    BY SidesApart DEF Edges, EdgesOf
  <2>2. AddEdge(s, e) \in Seq(StoredWrites)
    BY <1>1, <2>1, AddEdgeTyped DEF LinkRecords, MayAdd
  <2> QED BY <1>1, <1>c, <1>o, <2>2 DEF LinkRecords
<1>2. ASSUME NEW s \in Templates \X Templates, NEW e \in Edges(s), UnlinkRecords(s, e)
      PROVE  TInv'
  <2>1. s \in Sides
    BY SidesApart
  <2>2. RemoveEdge(s, e) \in Seq(StoredWrites)
    BY <1>2, <2>1, RemoveEdgeTyped DEF UnlinkRecords, MayRemove
  <2> QED BY <1>2, <1>c, <1>o, <2>2 DEF UnlinkRecords
<1>3. ASSUME NEW t \in Templates, TabLoad(t) PROVE TInv'
  <2> DEFINE rels == [u \in RelationsOf(t) |-> disk[<<t, u>>]]
  <2>1. RelationsOf(t) \in SUBSET Templates
    BY DEF RelationsOf
  <2>2. \A u \in RelationsOf(t) : HalfAt(<<t, u>>, disk[<<t, u>>]) /\ disk[<<t, u>>] \in Halves
    BY SidesApart DEF RelationsOf, Has, Stored, HalfAt
  <2>3. rels \in [RelationsOf(t) -> Halves]
    BY <2>2
  <2>4. Sent(t, rels)
    BY <2>1, <2>2, <2>3 DEF Sent, Relations
  <2> HIDE DEF rels
  <2>5. tab' = [template |-> t, rels |-> rels]
    BY <1>3 DEF TabLoad, rels
  <2>6. tab' \in Tabs /\ tab'.template = t /\ tab'.rels = rels
    BY <2>4, <2>5 DEF Tabs, Sent
  <2> QED BY <1>3, <2>4, <2>6 DEF TabLoad, Stored, HalfAt
<1>4. ASSUME NEW old \in Templates, NEW u \in Templates, NEW c \in Menu, NEW inv \in BOOLEAN,
             TabApply(old, u, c, inv)
      PROVE  TInv'
  <2> DEFINE rels == [x \in (DOMAIN tab.rels \ {old}) \cup {u} |->
                        IF x = u THEN [card |-> c, inverse |-> inv, edges |-> {}] ELSE tab.rels[x]]
             t == tab.template
  <2>1. tab \in Tabs /\ Sent(t, tab.rels) /\ t \in Templates
    BY <1>4 DEF TabApply, Tabs
  <2>2. [card |-> c, inverse |-> inv, edges |-> {}] \in Halves
    BY MenuAssumption DEF Halves
  <2>3. (DOMAIN tab.rels \ {old}) \cup {u} \in SUBSET Templates
    BY <2>1 DEF Sent, Relations
  <2>4. \A x \in DOMAIN rels : rels[x] \in Halves /\ HalfAt(<<t, x>>, rels[x])
    BY <2>1, <2>2 DEF Sent, Relations, HalfAt
  <2>5. rels \in [(DOMAIN tab.rels \ {old}) \cup {u} -> Halves]
    BY <2>4
  <2>6. Sent(t, rels)
    BY <2>3, <2>4, <2>5 DEF Sent, Relations
  <2>7. Call(SetRelations(t, rels)) /\ tab' = [tab EXCEPT !.rels = rels]
    BY <1>4 DEF TabApply, Send
  <2> HIDE DEF rels, t
  <2>8. tab' \in Tabs /\ tab'.template = t /\ tab'.rels = rels
    BY <2>1, <2>6, <2>7 DEF Tabs, Sent, t
  <2>9. SetRelations(t, rels) \in Seq(StoredWrites)
    BY <2>1, <2>6, SetRelationsLeads
  <2> QED BY <1>4, <1>c, <1>o, <2>6, <2>7, <2>8, <2>9 DEF TabApply, Send
<1>5. ASSUME NEW u \in Templates, TabRemove(u) PROVE TInv'
  <2> DEFINE rels == [x \in DOMAIN tab.rels \ {u} |-> tab.rels[x]]
             t == tab.template
  <2>1. tab \in Tabs /\ Sent(t, tab.rels) /\ t \in Templates
    BY <1>5 DEF TabRemove, Tabs, NoTab
  <2>2. DOMAIN tab.rels \ {u} \in SUBSET Templates
    BY <2>1 DEF Sent, Relations
  <2>3. \A x \in DOMAIN rels : rels[x] \in Halves /\ HalfAt(<<t, x>>, rels[x])
    BY <2>1 DEF Sent, Relations
  <2>4. rels \in [DOMAIN tab.rels \ {u} -> Halves]
    BY <2>3
  <2>5. Sent(t, rels)
    BY <2>2, <2>3, <2>4 DEF Sent, Relations
  <2>6. Call(SetRelations(t, rels)) /\ tab' = [tab EXCEPT !.rels = rels]
    BY <1>5 DEF TabRemove, Send
  <2> HIDE DEF rels, t
  <2>7. tab' \in Tabs /\ tab'.template = t /\ tab'.rels = rels
    BY <2>1, <2>5, <2>6 DEF Tabs, Sent, t
  <2>8. SetRelations(t, rels) \in Seq(StoredWrites)
    BY <2>1, <2>5, SetRelationsLeads
  <2> QED BY <1>5, <1>c, <1>o, <2>5, <2>6, <2>7, <2>8 DEF TabRemove, Send
<1>6. ASSUME TabLeave PROVE TInv'
  BY <1>6 DEF TabLeave, Stored, HalfAt
<1>7. ASSUME StartReconcile PROVE TInv'
  <2>1. Reconcile \in Seq(StoredWrites)
    BY ReconcileLeads
  <2> QED BY <1>7, <2>1, <1>c, <1>o DEF StartReconcile
<1>8. ASSUME WriteNext PROVE TInv'
  <2>1. Head(writes) \in StoredWrites /\ Tail(writes) \in Seq(StoredWrites)
    BY <1>8 DEF WriteNext
  <2>2. Stored(SavedWith(disk, Head(writes)))
    BY <2>1, SavedTyped
  <2> QED BY <1>8, <2>1, <2>2 DEF WriteNext, Stored
<1>9. ASSUME EndReconcile PROVE TInv'
  <2> DEFINE b == torn /\ \E s \in Sides : Conflict(s)
  <2>1. b \in BOOLEAN /\ torn' = b
    BY <1>9 DEF EndReconcile
  <2> HIDE DEF b, TInv
  <2>2. /\ disk' = disk /\ writes' = writes /\ healing' = FALSE /\ live' = live /\ refs' = refs
        /\ job' = job /\ pass' = pass /\ tab' = tab /\ turned' = turned /\ ops' = ops /\ edits' = edits
    BY <1>9 DEF EndReconcile
  <2>3. torn' \in BOOLEAN
    BY <2>1
  <2>4. Stored(disk)'
    BY <2>2 DEF TInv, Stored
  <2> QED BY <2>2, <2>3, <2>4 DEF TInv
<1>10. ASSUME Crash PROVE TInv'
  <2>1. writes' \in Seq(StoredWrites)
    BY <1>10, <1>w DEF Crash
  <2> QED BY <1>10, <1>o, <2>1 DEF Crash, Stored, HalfAt
<1>11. ASSUME NEW r \in Ids, DeleteRecord(r) PROVE TInv'
  BY <1>11, <1>o DEF DeleteRecord, Stored, HalfAt
<1>s. ASSUME NEW r \in Ids, NEW kind \in {"open", "save"}, Start(kind, r)
      PROVE  job' \in Jobs
  BY <1>s DEF Start, Jobs, Phases
<1>12. ASSUME NEW r \in Ids, OpenRecord(r) PROVE TInv'
  BY <1>12, <1>o, <1>s DEF OpenRecord, Stored, HalfAt
<1>13. ASSUME NEW r \in Ids, NEW new \in MayRefer(r), SaveRecord(r, new) PROVE TInv'
  <2>1. new \in SUBSET Ids
    BY LinkedTyped DEF MayRefer
  <2> QED BY <2>1, <1>13, <1>o, <1>s DEF SaveRecord, Stored, HalfAt
<1>14. ASSUME JobRead PROVE TInv'
  <2>1. job \in Jobs
    BY <1>14 DEF JobRead, Idle
  <2> QED BY <2>1, <1>14, ReadTyped DEF JobRead, Stored, HalfAt
<1>15. ASSUME JobNext PROVE TInv'
  <2>1. job \in Jobs
    BY <1>15 DEF JobNext, Idle
  <2> QED BY <2>1, <1>15 DEF JobNext, Jobs, Phases, Stored, HalfAt
<1>16. ASSUME JobEnd PROVE TInv'
  BY <1>16 DEF JobEnd, Stored, HalfAt
<1>17. ASSUME NEW x \in Ids, JobAdd(x) PROVE TInv'
  <2>1. job \in Jobs
    BY <1>17 DEF JobAdd, Idle
  <2> DEFINE s == Side(job.host, x)
             e == <<job.host, x>>
             ws == IF MayAdd(s, e) THEN AddEdge(s, e) ELSE <<>>
  <2>2. s \in Sides /\ e \in EdgesOf(s)
    BY <2>1, SideTyped DEF Jobs
  <2> HIDE DEF s, e
  <2>3. ws \in Seq(StoredWrites)
    BY <2>2, AddEdgeTyped, <1>w DEF MayAdd
  <2>4. Call(ws)
    BY <1>17 DEF JobAdd, s, e
  <2> HIDE DEF ws
  <2>5. job' \in Jobs
    BY <2>1, <1>17 DEF JobAdd, Jobs
  <2> QED BY <1>c, <2>3, <2>4, <2>5, <1>17 DEF JobAdd
<1>18. ASSUME NEW x \in Ids, JobDrain(x) PROVE TInv'
  <2>1. job \in Jobs
    BY <1>18 DEF JobDrain, Idle
  <2> DEFINE s == Side(job.host, x)
             e == <<job.host, x>>
             ws == IF MayRemove(s, e) THEN RemoveEdge(s, e) ELSE <<>>
  <2>2. s \in Sides
    BY <2>1, SideTyped DEF Jobs
  <2> HIDE DEF s, e
  <2>3. ws \in Seq(StoredWrites)
    BY <2>2, RemoveEdgeTyped, <1>w DEF MayRemove
  <2>4. Call(ws)
    BY <1>18 DEF JobDrain, s, e
  <2> HIDE DEF ws
  <2>5. job' \in Jobs
    BY <2>1, <1>18 DEF JobDrain, Jobs
  <2> QED BY <1>c, <2>3, <2>4, <2>5, <1>18 DEF JobDrain
<1>19. ASSUME NEW t \in Templates, NEW u \in Templates, StartSync(t, u) PROVE TInv'
  <2> DEFINE E == IF Has(<<t, u>>) THEN disk[<<t, u>>].edges ELSE {}
             l == RecordsOf[t] \cap live
  <2>1. E \in SUBSET (Ids \X Ids)
    BY SidesApart DEF Stored, HalfAt, Halves, Has
  <2>2. pass' = [template |-> t, target |-> u, left |-> l, edges |-> E] /\ l \in SUBSET Ids
    BY <1>19 DEF StartSync
  <2> HIDE DEF E, l
  <2>3. pass' \in Passes
    BY <2>1, <2>2 DEF Passes
  <2> QED BY <2>3, <1>19, <1>o DEF StartSync, Stored, HalfAt
<1>20. ASSUME NEW r \in Ids, SyncRecord(r) PROVE TInv'
  <2>1. pass \in Passes
    BY <1>20 DEF SyncRecord, NoPass
  <2>2. pass' \in Passes
    BY <2>1, <1>20 DEF SyncRecord, Passes
  <2>3. FieldFromEdges(r) \in SUBSET Ids
    BY DEF FieldFromEdges
  <2>4. job' = job \/ job' \in Jobs
    BY <1>20, <1>s DEF SyncRecord
  <2>5. refs' \in [Ids -> SUBSET Ids]
    <3>1. refs[r] \in SUBSET Ids
      OBVIOUS
    <3> QED BY <1>20, <2>3, <3>1 DEF SyncRecord
  <2> HIDE DEF TInv
  <2>6. /\ Stored(disk) /\ writes \in Seq(StoredWrites)
        /\ healing \in BOOLEAN /\ torn \in BOOLEAN /\ turned \in SUBSET Sides /\ live \in SUBSET Ids
        /\ job = Idle \/ job \in Jobs
        /\ tab = NoTab \/ (tab \in Tabs /\ Sent(tab.template, tab.rels))
        /\ ops \in 0 .. MaxOps /\ edits \in 0 .. MaxEdits
    BY DEF TInv
  <2>7. /\ disk' = disk /\ writes' = writes /\ healing' = healing /\ torn' = torn /\ live' = live
        /\ tab' = tab /\ turned' = turned /\ ops' = ops /\ edits' = edits
    BY <1>20 DEF SyncRecord
  <2> QED BY <2>2, <2>4, <2>5, <2>6, <2>7 DEF TInv, Stored
<1>21. ASSUME EndSync PROVE TInv'
  BY <1>21 DEF EndSync, Stored, HalfAt
<1>22. CASE UNCHANGED vars
  BY <1>22 DEF vars, Stored, HalfAt
<1> HIDE DEF TInv
<1> QED BY <1>1, <1>2, <1>3, <1>4, <1>5, <1>6, <1>7, <1>8, <1>9, <1>10, <1>11, <1>12, <1>13,
           <1>14, <1>15, <1>16, <1>17, <1>18, <1>19, <1>20, <1>21, <1>22 DEF Next

LEMMA TypeInit == Init => TInv
<1> SUFFICES ASSUME Init PROVE TInv
  OBVIOUS
<1>1. PICK c \in Menu, self \in BOOLEAN :
        LET t == Declared[1]
            h == [card |-> c, inverse |-> FALSE, edges |-> {}]
        IN  disk = [s \in Sides |->
                     IF s = Declared THEN h
                     ELSE IF s = Counterpart(Declared) THEN Flip(h)
                     ELSE IF self /\ s = <<t, t>> THEN h
                     ELSE IF self /\ s = <<Mirror, t>> THEN Flip(h)
                     ELSE NoHalf]
  BY DEF Init
<1> DEFINE h == [card |-> c, inverse |-> FALSE, edges |-> {}]
<1>2. h \in Halves /\ h.edges = {} /\ Flip(h) \in Halves /\ Flip(h).edges = {}
  BY MenuAssumption DEF Halves, Flip, Flipped, Cards, Reversed
<1>d. disk = [s \in Sides |->
                IF s = Declared THEN h
                ELSE IF s = Counterpart(Declared) THEN Flip(h)
                ELSE IF self /\ s = <<Declared[1], Declared[1]>> THEN h
                ELSE IF self /\ s = <<Mirror, Declared[1]>> THEN Flip(h)
                ELSE NoHalf]
  BY <1>1
<1> HIDE DEF h
<1>3. disk = [s \in Sides |-> disk[s]] /\ \A s \in Sides : disk[s] \in {h, Flip(h), NoHalf}
  BY <1>d
<1>4. \A s \in Sides : HalfAt(s, disk[s]) /\ disk[s] \in Halves \cup {NoHalf}
  BY <1>2, <1>3 DEF HalfAt
<1>5. Stored(disk)
  BY <1>3, <1>4 DEF Stored
<1>6. /\ writes = <<>> /\ healing = FALSE /\ torn = FALSE /\ turned = {}
      /\ live = Ids /\ refs = [r \in Ids |-> {}]
      /\ job = Idle /\ pass = NoPass /\ tab = NoTab /\ ops = 0 /\ edits = 0
  BY DEF Init
<1>7. writes \in Seq(StoredWrites) /\ refs \in [Ids -> SUBSET Ids]
  BY <1>6
<1>8. ops \in 0 .. MaxOps /\ edits \in 0 .. MaxEdits
  BY <1>6, TemplatesAssumption
<1> QED BY <1>5, <1>6, <1>7, <1>8 DEF TInv

LEMMA TypesHold == Spec => []TInv
<1>1. TInv /\ [Next]_vars => TInv'
  BY TypeStep
<1> QED BY TypeInit, <1>1, PTL DEF Spec

\* Whatever runs at the same time, whatever is lost in a crash: every half is
\* well formed and links records of its owner to records of its target.
THEOREM TypeCorrect == Spec => []TypeInv
<1>1. TInv => TypeInv
  <2> SUFFICES ASSUME TInv PROVE TypeInv
    OBVIOUS
  <2>1. \A s \in Sides : Has(s) => disk[s].edges \subseteq RecordsOf[OwnerOf(s)] \X RecordsOf[s[2]]
    BY DEF TInv, Stored, HalfAt, Has, EdgesOf
  <2>2. \A i \in DOMAIN writes : \A s \in DOMAIN writes[i] :
            s \in Sides /\ writes[i][s] \in Halves \cup {NoHalf}
    <3> SUFFICES ASSUME NEW i \in DOMAIN writes
                 PROVE  \A s \in DOMAIN writes[i] : s \in Sides /\ writes[i][s] \in Halves \cup {NoHalf}
      OBVIOUS
    <3>1. writes[i] \in Writes
      BY DEF TInv, StoredWrites
    <3> QED BY <3>1 DEF Writes
  <2>3. job.adds \cup job.drains \subseteq Ids /\ pass.left \subseteq Ids
    BY DEF TInv, Jobs, Idle, Passes, NoPass
  <2> QED BY <2>1, <2>2, <2>3 DEF TInv, TypeInv, Stored
<1> QED BY <1>1, TypesHold, PTL

----------------------------------------------------------------------------
(* The two halves of a relationship, in what a call leads to.              *)

PairedAt(f, s) ==
    LET o == Counterpart(s) IN
    /\ f[s] # NoHalf <=> f[o] # NoHalf
    /\ f[s] # NoHalf => f[o].edges = Reversed(f[s].edges)
MatchedAt(f, s) ==
    LET o == Counterpart(s) IN
    f[s] # NoHalf /\ f[o] # NoHalf => f[o].card = Flipped(f[s].card)
OpposedAt(f, s) ==
    LET o == Counterpart(s) IN
    f[s] # NoHalf /\ f[o] # NoHalf => f[o].inverse = (~ f[s].inverse)
FittingAt(d, f, s) ==
    d[s] # NoHalf /\ f[s] # NoHalf /\ d[s].card = f[s].card /\ Fits(d[s]) => Fits(f[s])

Paired(f)     == \A s \in Sides : PairedAt(f, s)
Matched(f)    == \A s \in Sides : MatchedAt(f, s)
Fitting(d, f) == \A s \in Sides : FittingAt(d, f, s)
Opposing(f)   == \A s \in Sides \ turned : OpposedAt(f, s)

LEMMA ReversedJoin ==
    ASSUME NEW E, NEW F
    PROVE  Reversed(E \cup F) = Reversed(E) \cup Reversed(F)
BY DEF Reversed

LEMMA ReversedWithout ==
    ASSUME NEW s \in Sides, NEW E \in SUBSET EdgesOf(s), NEW e \in EdgesOf(s)
    PROVE  Reversed(E \ {e}) = Reversed(E) \ Reversed({e})
<1>1. ASSUME NEW x \in EdgesOf(s), NEW y \in EdgesOf(s), <<x[2], x[1]>> = <<y[2], y[1]>> PROVE x = y
  BY <1>1 DEF EdgesOf
<1>2. Reversed(E \ {e}) = Reversed(E) \ {<<e[2], e[1]>>}
  BY <1>1 DEF Reversed
<1> QED BY <1>2 DEF Reversed

LEMMA ReversedTwice ==
    ASSUME NEW s \in Sides, NEW E \in SUBSET EdgesOf(s)
    PROVE  Reversed(E) \in SUBSET EdgesOf(Counterpart(s)) /\ Reversed(Reversed(E)) = E
<1> DEFINE A == RecordsOf[OwnerOf(s)]
           B == RecordsOf[s[2]]
<1>1. EdgesOf(s) = A \X B /\ EdgesOf(Counterpart(s)) = B \X A
  BY Counterparts DEF EdgesOf
<1> HIDE DEF A, B
<1>2. E \in SUBSET (A \X B)
  BY <1>1
<1> QED BY <1>1, <1>2, ReversedTyped

\* What holds of a half holds of its counterpart.
LEMMA PairFlips ==
    ASSUME NEW f, Stored(f), NEW s \in Sides
    PROVE  /\ PairedAt(f, s) => PairedAt(f, Counterpart(s))
           /\ MatchedAt(f, s) => MatchedAt(f, Counterpart(s))
<1> DEFINE o == Counterpart(s)
<1>1. o \in Sides /\ Counterpart(o) = s
  BY Counterparts
<1>2. ASSUME f[s] # NoHalf
      PROVE  f[s].edges \in SUBSET EdgesOf(s) /\ f[s].card \in Cards
  BY <1>2 DEF Stored, HalfAt, Halves
<1>3. PairedAt(f, s) => PairedAt(f, o)
  <2> HIDE DEF o
  <2> SUFFICES ASSUME PairedAt(f, s) PROVE PairedAt(f, o)
    OBVIOUS
  <2>1. f[s] # NoHalf <=> f[o] # NoHalf
    BY DEF PairedAt, o
  <2>2. ASSUME f[o] # NoHalf PROVE f[s].edges = Reversed(f[o].edges)
    <3>1. f[o].edges = Reversed(f[s].edges)
      BY <2>1, <2>2 DEF PairedAt, o
    <3>2. Reversed(Reversed(f[s].edges)) = f[s].edges
      BY <1>2, <2>1, <2>2, ReversedTwice
    <3> QED BY <3>1, <3>2
  <2> QED BY <1>1, <2>1, <2>2 DEF PairedAt
<1>4. MatchedAt(f, s) => MatchedAt(f, o)
  <2> HIDE DEF o
  <2> SUFFICES ASSUME MatchedAt(f, s), f[s] # NoHalf, f[o] # NoHalf
               PROVE  f[s].card = Flipped(f[o].card)
    BY <1>1 DEF MatchedAt
  <2>1. f[o].card = Flipped(f[s].card)
    BY DEF MatchedAt, o
  <2>2. Flipped(Flipped(f[s].card)) = f[s].card
    BY <1>2 DEF Flipped, Cards
  <2> QED BY <2>1, <2>2
<1> QED BY <1>3, <1>4

\* Cardinality, seen from the other side.
LEMMA CheckFlips ==
    ASSUME NEW c \in Cards, NEW E, NEW e, CheckCardinality(c, E, e)
    PROVE  CheckCardinality(Flipped(c), Reversed(E), <<e[2], e[1]>>)
<1>1. /\ LimitsFrom(Flipped(c)) => LimitsTo(c)
      /\ LimitsTo(Flipped(c)) => LimitsFrom(c)
  BY DEF Flipped, LimitsFrom, LimitsTo, Cards
<1>2. \A x \in Reversed(E) : \E y \in E : x[1] = y[2] /\ x[2] = y[1]
  BY DEF Reversed
<1> QED BY <1>1, <1>2 DEF CheckCardinality

LEMMA FitsGrown ==
    ASSUME NEW h \in Halves, NEW e, Fits(h), CheckCardinality(h.card, h.edges, e),
           NEW k, k.card = h.card, k.edges = h.edges \cup {e}
    PROVE  Fits(k)
BY DEF Fits, CheckCardinality

LEMMA AddToPaired ==
    ASSUME Stored(disk), NEW s \in Sides, NEW e \in EdgesOf(s), Paired(disk), MayAdd(s, e)
    PROVE  /\ Paired(AddTo(s, e))
           /\ Matched(disk) => Matched(AddTo(s, e)) /\ Fitting(disk, AddTo(s, e))
<1> DEFINE o == Counterpart(s)
           f == AddTo(s, e)
<1>1. Has(s) /\ Has(o) /\ o \in Sides /\ Counterpart(o) = s
  BY Counterparts DEF Paired, PairedAt, MayAdd, Has
<1>2. /\ f[s] = [disk[s] EXCEPT !.edges = @ \cup {e}]
      /\ f[o] = [disk[o] EXCEPT !.edges = @ \cup Reversed({e})]
      /\ \A x \in Sides \ {s, o} : f[x] = disk[x]
      /\ Stored(f)
  BY <1>1, AddEdgeLeads
<1> HIDE DEF f
<1>3. /\ disk[s] \in Halves /\ disk[s].edges \in SUBSET EdgesOf(s)
      /\ disk[o] \in Halves /\ disk[o].edges = Reversed(disk[s].edges)
      /\ {e} \in SUBSET EdgesOf(s)
  BY <1>1 DEF Paired, PairedAt, Stored, HalfAt, Has
<1>4. /\ f[s].card = disk[s].card /\ f[s].inverse = disk[s].inverse /\ f[s].edges = disk[s].edges \cup {e}
      /\ f[o].card = disk[o].card /\ f[o].inverse = disk[o].inverse
      /\ f[o].edges = disk[o].edges \cup Reversed({e})
  BY <1>2, <1>3 DEF Halves
<1>5. /\ Reversed(disk[s].edges \cup {e}) = Reversed(disk[s].edges) \cup Reversed({e})
      /\ Reversed({e}) = {<<e[2], e[1]>>}
  <2>1. Reversed({e}) = {<<e[2], e[1]>>}
    BY DEF Reversed
  <2> QED BY <2>1, ReversedJoin
<1>6. f[s] # NoHalf /\ f[o] # NoHalf
  <2>1. Reversed({e}) \in SUBSET EdgesOf(o)
    BY <1>3, ReversedTwice
  <2>2. /\ EdgesOf(s) \in SUBSET (Ids \X Ids) /\ EdgesOf(o) \in SUBSET (Ids \X Ids)
    BY <1>1, EdgesTyped
  <2> DEFINE E == disk[s].edges \cup {e}
             F == disk[o].edges \cup Reversed({e})
  <2>3. E \in SUBSET (Ids \X Ids) /\ F \in SUBSET (Ids \X Ids)
    BY <1>3, <2>1, <2>2 DEF Halves
  <2>4. f[s] = [disk[s] EXCEPT !.edges = E] /\ f[o] = [disk[o] EXCEPT !.edges = F]
    BY <1>2
  <2> HIDE DEF E, F, o
  <2>5. f[s] \in Halves /\ f[o] \in Halves
    BY <1>3, <2>3, <2>4 DEF Halves
  <2> QED BY <2>5, MenuAssumption
<1>7. PairedAt(f, s) /\ PairedAt(f, o)
  <2>1. PairedAt(f, s)
    BY <1>3, <1>4, <1>5, <1>6 DEF PairedAt
  <2> QED BY <2>1, <1>2, PairFlips
<1>8. ASSUME NEW x \in Sides \ {s, o}
      PROVE  f[x] = disk[x] /\ f[Counterpart(x)] = disk[Counterpart(x)]
  <2>1. Counterpart(x) \in Sides \ {s, o}
    BY <1>1, Counterparts
  <2> QED BY <2>1, <1>2
<1>9. Paired(f)
  BY <1>7, <1>8 DEF Paired, PairedAt
<1>10. ASSUME Matched(disk) PROVE Matched(f)
  <2>1. MatchedAt(f, s)
    BY <1>1, <1>4, <1>10 DEF Matched, MatchedAt, Has
  <2>2. MatchedAt(f, o)
    BY <2>1, <1>2, PairFlips
  <2> QED BY <2>1, <2>2, <1>8, <1>10 DEF Matched, MatchedAt
<1>11. ASSUME Matched(disk) PROVE Fitting(disk, f)
  <2>1. CheckCardinality(disk[s].card, disk[s].edges, e)
    BY DEF MayAdd
  <2>2. FittingAt(disk, f, s)
    BY <1>3, <1>4, <2>1, FitsGrown DEF FittingAt
  <2>3. disk[o].card = Flipped(disk[s].card) /\ disk[s].card \in Cards
    BY <1>1, <1>3, <1>11 DEF Matched, MatchedAt, Has, Halves
  <2>4. CheckCardinality(disk[o].card, disk[o].edges, <<e[2], e[1]>>)
    BY <1>3, <2>1, <2>3, CheckFlips
  <2>5. f[o].edges = disk[o].edges \cup {<<e[2], e[1]>>}
    BY <1>4, <1>5
  <2>6. FittingAt(disk, f, o)
    BY <1>3, <1>4, <2>4, <2>5, FitsGrown DEF FittingAt
  <2> QED BY <2>2, <2>6, <1>8 DEF Fitting, FittingAt
<1> QED BY <1>9, <1>10, <1>11 DEF f

LEMMA RemoveToPaired ==
    ASSUME Stored(disk), NEW s \in Sides, NEW e \in EdgesOf(s), Paired(disk), Has(s)
    PROVE  /\ Paired(RemoveTo(s, e))
           /\ Matched(disk) => Matched(RemoveTo(s, e))
           /\ Fitting(disk, RemoveTo(s, e))
<1> DEFINE o == Counterpart(s)
           f == RemoveTo(s, e)
<1>1. Has(o) /\ o \in Sides /\ o # s /\ Counterpart(o) = s
  BY Counterparts DEF Paired, PairedAt, Has
<1>2. /\ f[s] = [disk[s] EXCEPT !.edges = @ \ {e}]
      /\ f[o] = [disk[o] EXCEPT !.edges = @ \ Reversed({e})]
      /\ \A x \in Sides \ {s, o} : f[x] = disk[x]
  BY <1>1 DEF RemoveTo
<1>t. Stored(f)
  BY RemoveEdgeLeads
<1> HIDE DEF f
<1>3. /\ disk[s] \in Halves /\ disk[s].edges \in SUBSET EdgesOf(s)
      /\ disk[o] \in Halves /\ disk[o].edges = Reversed(disk[s].edges)
  BY <1>1 DEF Paired, PairedAt, Stored, HalfAt, Has
<1>4. /\ f[s].card = disk[s].card /\ f[s].inverse = disk[s].inverse /\ f[s].edges = disk[s].edges \ {e}
      /\ f[o].card = disk[o].card /\ f[o].inverse = disk[o].inverse
      /\ f[o].edges = disk[o].edges \ Reversed({e})
  BY <1>2, <1>3 DEF Halves
<1>5. Reversed(disk[s].edges \ {e}) = Reversed(disk[s].edges) \ Reversed({e})
  BY <1>3, ReversedWithout
<1>6. f[s] # NoHalf /\ f[o] # NoHalf
  <2>1. f[s] \in Halves /\ f[o] \in Halves
    BY <1>2, <1>3 DEF Halves
  <2> QED BY <2>1, MenuAssumption
<1>7. PairedAt(f, s) /\ PairedAt(f, o)
  <2>1. PairedAt(f, s)
    BY <1>3, <1>4, <1>5, <1>6 DEF PairedAt
  <2> QED BY <2>1, <1>t, PairFlips
<1>8. ASSUME NEW x \in Sides \ {s, o}
      PROVE  f[x] = disk[x] /\ f[Counterpart(x)] = disk[Counterpart(x)]
  <2>1. Counterpart(x) \in Sides \ {s, o}
    BY <1>1, Counterparts
  <2> QED BY <2>1, <1>2
<1>9. Paired(f)
  BY <1>7, <1>8 DEF Paired, PairedAt
<1>10. ASSUME Matched(disk) PROVE Matched(f)
  <2>1. MatchedAt(f, s)
    BY <1>1, <1>4, <1>10 DEF Matched, MatchedAt, Has
  <2>2. MatchedAt(f, o)
    BY <2>1, <1>t, PairFlips
  <2> QED BY <2>1, <2>2, <1>8, <1>10 DEF Matched, MatchedAt
<1>11. Fitting(disk, f)
  <2>1. FittingAt(disk, f, s) /\ FittingAt(disk, f, o)
    BY <1>4 DEF FittingAt, Fits
  <2> QED BY <2>1, <1>8 DEF Fitting, FittingAt
<1> QED BY <1>9, <1>10, <1>11 DEF f

\* Reconcile pairs every half, and changes nothing that agrees.
LEMMA HealToPaired ==
    ASSUME Stored(disk)
    PROVE  /\ Paired(HealTo)
           /\ Paired(disk) => HealTo = disk
<1>1. ASSUME NEW s \in Sides PROVE PairedAt(HealTo, s)
  <2> DEFINE o == Counterpart(s)
  <2>1. o \in Sides /\ Counterpart(o) = s /\ HealTo[s] = HealedHalf(s) /\ HealTo[o] = HealedHalf(o)
    BY Counterparts DEF HealTo
  <2>2. HalfAt(s, disk[s]) /\ HalfAt(o, disk[o])
    BY <2>1 DEF Stored
  <2>3. CASE ~ Has(s) /\ ~ Has(o)
    BY <2>1, <2>3 DEF HealedHalf, PairedAt, Has
  <2>4. CASE Has(s) /\ ~ Has(o)
    <3>1. HealTo[s] = disk[s] /\ HealTo[o] = Flip(disk[s])
      BY <2>1, <2>4 DEF HealedHalf
    <3>2. Flip(disk[s]) # NoHalf /\ Flip(disk[s]).edges = Reversed(disk[s].edges)
      BY <2>2, <2>4, FlipTyped DEF Has
    <3> QED BY <2>4, <3>1, <3>2 DEF PairedAt, Has
  <2>5. CASE ~ Has(s) /\ Has(o)
    <3>1. HealTo[o] = disk[o] /\ HealTo[s] = Flip(disk[o])
      BY <2>1, <2>5 DEF HealedHalf
    <3>2. Flip(disk[o]) # NoHalf /\ Flip(disk[o]).edges = Reversed(disk[o].edges)
      BY <2>1, <2>2, <2>5, FlipTyped DEF Has
    <3>3. Reversed(Reversed(disk[o].edges)) = disk[o].edges
      <4>1. disk[o].edges \in SUBSET EdgesOf(o)
        BY <2>2, <2>5 DEF HalfAt, Has
      <4> QED BY <4>1, <2>1, ReversedTwice
    <3> QED BY <2>5, <3>1, <3>2, <3>3 DEF PairedAt, Has
  <2>6. CASE Has(s) /\ Has(o)
    <3> DEFINE A == disk[s].edges
               B == disk[o].edges
    <3>1. /\ disk[s] \in Halves /\ A \in SUBSET EdgesOf(s) /\ disk[o] \in Halves /\ B \in SUBSET EdgesOf(o)
      BY <2>2, <2>6 DEF HalfAt, Has
    <3>2. /\ HealTo[s] = [disk[s] EXCEPT !.edges = A \cup Reversed(B)]
          /\ HealTo[o] = [disk[o] EXCEPT !.edges = B \cup Reversed(A)]
      BY <2>1, <2>6 DEF HealedHalf
    <3>3. HealTo[s].edges = A \cup Reversed(B) /\ HealTo[o].edges = B \cup Reversed(A)
      BY <3>1, <3>2 DEF Halves
    <3>4. Reversed(Reversed(B)) = B
      BY <2>1, <3>1, ReversedTwice
    <3>5. Reversed(A \cup Reversed(B)) = Reversed(A) \cup Reversed(Reversed(B))
      BY ReversedJoin
    <3> HIDE DEF A, B, o
    <3>6. HealTo[o].edges = Reversed(HealTo[s].edges)
      BY <3>3, <3>4, <3>5
    <3>7. HealTo[s] # NoHalf /\ HealTo[o] # NoHalf
      <4>1. HalfAt(s, HealTo[s]) /\ HalfAt(o, HealTo[o])
        BY <2>1, HealedTyped
      <4>2. A \cup Reversed(B) \in SUBSET (Ids \X Ids) /\ B \cup Reversed(A) \in SUBSET (Ids \X Ids)
        <5>1. Reversed(B) \in SUBSET EdgesOf(s) /\ Reversed(A) \in SUBSET EdgesOf(o)
          BY <2>1, <3>1, ReversedTwice DEF o
        <5> QED BY <5>1, <3>1, <2>1, EdgesTyped
      <4>3. HealTo[s] \in Halves /\ HealTo[o] \in Halves
        BY <3>1, <3>2, <4>2 DEF Halves
      <4> QED BY <4>3, MenuAssumption
    <3> QED BY <3>6, <3>7 DEF PairedAt, o
  <2> QED BY <2>3, <2>4, <2>5, <2>6
<1>2. ASSUME Paired(disk), NEW s \in Sides PROVE HealTo[s] = disk[s]
  <2> DEFINE o == Counterpart(s)
  <2>1. HealTo[s] = HealedHalf(s) /\ o \in Sides
    BY Counterparts DEF HealTo
  <2>2. Has(s) <=> Has(o)
    BY <1>2 DEF Paired, PairedAt, Has
  <2>3. CASE ~ Has(s)
    BY <2>1, <2>2, <2>3 DEF HealedHalf
  <2>4. CASE Has(s)
    <3>1. disk[o].edges = Reversed(disk[s].edges)
      BY <1>2, <2>4 DEF Paired, PairedAt, Has
    <3>2. disk[s] \in Halves /\ disk[s].edges \in SUBSET EdgesOf(s)
      BY <2>4 DEF Stored, HalfAt, Has
    <3>3. Reversed(disk[o].edges) = disk[s].edges
      BY <3>1, <3>2, ReversedTwice
    <3>4. HealedHalf(s) = [disk[s] EXCEPT !.edges = disk[s].edges \cup Reversed(disk[o].edges)]
      BY <2>2, <2>4 DEF HealedHalf
    <3> QED BY <2>1, <3>2, <3>3, <3>4 DEF Halves
  <2> QED BY <2>3, <2>4
<1>3. HealTo = [s \in Sides |-> HealTo[s]] /\ disk = [s \in Sides |-> disk[s]]
  BY DEF HealTo, Stored
<1>4. Paired(HealTo)
  BY <1>1 DEF Paired
<1>5. ASSUME Paired(disk) PROVE HealTo = disk
  <2>1. \A s \in Sides : HealTo[s] = disk[s]
    BY <1>2, <1>5
  <2> QED BY <1>3, <2>1
<1> QED BY <1>4, <1>5

\* What the tab sends agrees with what is stored: the links of a relation are
\* those of its half, or are left out.
InSync(t, rels) ==
    \A u \in DOMAIN rels :
        rels[u].edges = {} \/ (Has(<<t, u>>) /\ rels[u].edges = disk[<<t, u>>].edges)

\* The relations of other templates stay as they are.
LEMMA SetToOthers ==
    ASSUME NEW t \in Templates, NEW rels, NEW s \in Sides, s[1] # t, s[2] # t
    PROVE  LET f == SetTo(t, rels) IN f[s] = disk[s] /\ f[Counterpart(s)] = disk[Counterpart(s)]
<1>1. PICK o \in Sides : o = Counterpart(s)
  BY Counterparts
<1>2. o[1] # t /\ o[2] # t
  <2>1. s[2] # t /\ t # Mirror
    BY SidesApart
  <2>2. ASSUME NEW x, NEW y, o = <<x, y>>, x # t, y # t PROVE o[1] # t /\ o[2] # t
    BY <2>2
  <2>3. CASE s[1] = Mirror
    BY <1>1, <2>1, <2>2, <2>3 DEF Counterpart
  <2>4. CASE s[1] # Mirror /\ s[1] = s[2]
    BY <1>1, <2>1, <2>2, <2>4 DEF Counterpart
  <2>5. CASE s[1] # Mirror /\ s[1] # s[2]
    BY <1>1, <2>1, <2>2, <2>5 DEF Counterpart
  <2> QED BY <2>3, <2>4, <2>5
<1> QED BY <1>1, <1>2 DEF SetTo

LEMMA SetToPaired ==
    ASSUME Stored(disk), NEW t \in Templates, NEW rels, Sent(t, rels), InSync(t, rels), Paired(disk)
    PROVE  /\ Paired(SetTo(t, rels)) /\ Fitting(disk, SetTo(t, rels))
           /\ Matched(disk) => Matched(SetTo(t, rels))
<1> DEFINE new == CarriedForward(t, rels)
           f == SetTo(t, rels)
<1>1. /\ DOMAIN new = DOMAIN rels /\ DOMAIN new \in SUBSET Templates
      /\ \A u \in DOMAIN new : /\ new[u] \in Halves /\ new[u] # NoHalf /\ HalfAt(<<t, u>>, new[u])
                               /\ new[u].edges = IF Has(<<t, u>>) THEN disk[<<t, u>>].edges ELSE {}
  <2>1. /\ Sent(t, new) /\ DOMAIN new = DOMAIN rels
        /\ \A u \in DOMAIN rels :
              new[u].edges = IF rels[u].edges = {} /\ Has(<<t, u>>) THEN disk[<<t, u>>].edges
                             ELSE rels[u].edges
    BY CarriedTyped
  <2> HIDE DEF new
  <2>2. \A u \in DOMAIN new : new[u] \in Halves /\ HalfAt(<<t, u>>, new[u])
    BY <2>1 DEF Sent, Relations
  <2>3. \A u \in DOMAIN new : new[u].edges = IF Has(<<t, u>>) THEN disk[<<t, u>>].edges ELSE {}
    BY <2>1 DEF InSync
  <2>4. DOMAIN new \in SUBSET Templates
    BY <2>1 DEF Sent, Relations
  <2> QED BY <2>1, <2>2, <2>3, <2>4, MenuAssumption
<1>2. /\ \A u \in Templates : f[<<t, u>>] = IF u \in DOMAIN new THEN new[u] ELSE NoHalf
      /\ f[<<Mirror, t>>] = IF t \in DOMAIN new THEN Flip(new[t]) ELSE NoHalf
      /\ \A u \in Templates \ {t} :
            f[<<u, t>>] = IF u \in DOMAIN new THEN UpsertMirror(t, u, new[u])
                          ELSE IF Has(<<t, u>>) THEN NoHalf ELSE disk[<<u, t>>]
      /\ \A s \in Sides : s[1] # t /\ s[2] # t => f[s] = disk[s]
  BY SidesApart DEF SetTo
<1>3. Stored(f)
  BY SetToTyped
<1> HIDE DEF f, new
<1>4. ASSUME NEW u \in Templates \ {t}
      PROVE  /\ PairedAt(f, <<t, u>>) /\ (MatchedAt(disk, <<t, u>>) => MatchedAt(f, <<t, u>>))
             /\ FittingAt(disk, f, <<t, u>>) /\ FittingAt(disk, f, <<u, t>>)
  <2>1. /\ <<t, u>> \in Sides /\ <<u, t>> \in Sides /\ Counterpart(<<t, u>>) = <<u, t>>
        /\ Has(<<t, u>>) <=> Has(<<u, t>>)
        /\ Has(<<t, u>>) => disk[<<u, t>>].edges = Reversed(disk[<<t, u>>].edges)
    <3>1. <<t, u>> \in Sides /\ <<u, t>> \in Sides /\ Counterpart(<<t, u>>) = <<u, t>>
      BY SidesApart, Counterparts
    <3> QED BY <3>1 DEF Paired, PairedAt, Has
  <2>2. CASE u \in DOMAIN new
    <3> DEFINE k == UpsertMirror(t, u, new[u])
    <3>1. f[<<t, u>>] = new[u] /\ f[<<u, t>>] = k
      BY <1>2, <2>2
    <3>2. /\ k \in Halves /\ k.card = Flipped(new[u].card) /\ k.inverse = (~ new[u].inverse)
          /\ k.edges = IF Has(<<u, t>>) THEN disk[<<u, t>>].edges ELSE {}
      <4>1. t # u /\ u \in Templates /\ new[u] \in Halves /\ HalfAt(<<t, u>>, new[u])
        BY <1>1, <2>2
      <4> QED BY <4>1, UpsertTyped
    <3> HIDE DEF k
    <3>3. new[u] # NoHalf /\ k # NoHalf /\ new[u].edges = IF Has(<<t, u>>) THEN disk[<<t, u>>].edges ELSE {}
      BY <1>1, <2>2, <3>2, MenuAssumption
    <3>4. k.edges = Reversed(new[u].edges)
      BY <2>1, <3>2, <3>3 DEF Reversed
    <3>5. PairedAt(f, <<t, u>>) /\ MatchedAt(f, <<t, u>>)
      BY <2>1, <3>1, <3>2, <3>3, <3>4 DEF PairedAt, MatchedAt
    <3>6. FittingAt(disk, f, <<t, u>>) /\ FittingAt(disk, f, <<u, t>>)
      BY <2>1, <3>1, <3>2, <3>3 DEF FittingAt, Fits, Has
    <3> QED BY <3>5, <3>6
  <2>3. CASE u \notin DOMAIN new
    <3>1. f[<<t, u>>] = NoHalf /\ f[<<u, t>>] = NoHalf
      BY <1>2, <2>1, <2>3 DEF Has
    <3> QED BY <2>1, <3>1 DEF PairedAt, MatchedAt, FittingAt
  <2> QED BY <2>2, <2>3
<1>5. /\ PairedAt(f, <<t, t>>) /\ (MatchedAt(disk, <<t, t>>) => MatchedAt(f, <<t, t>>))
      /\ FittingAt(disk, f, <<t, t>>) /\ FittingAt(disk, f, <<Mirror, t>>)
  <2>1. /\ <<t, t>> \in Sides /\ <<Mirror, t>> \in Sides /\ Counterpart(<<t, t>>) = <<Mirror, t>>
        /\ Has(<<t, t>>) <=> Has(<<Mirror, t>>)
        /\ Has(<<t, t>>) => disk[<<Mirror, t>>].edges = Reversed(disk[<<t, t>>].edges)
    <3>1. <<t, t>> \in Sides /\ <<Mirror, t>> \in Sides /\ Counterpart(<<t, t>>) = <<Mirror, t>>
      BY SidesApart, Counterparts
    <3> QED BY <3>1 DEF Paired, PairedAt, Has
  <2>2. CASE t \in DOMAIN new
    <3> DEFINE k == Flip(new[t])
    <3>1. f[<<t, t>>] = new[t] /\ f[<<Mirror, t>>] = k
      BY <1>2, <2>2
    <3>2. /\ new[t] # NoHalf /\ new[t].edges = IF Has(<<t, t>>) THEN disk[<<t, t>>].edges ELSE {}
          /\ HalfAt(<<t, t>>, new[t])
      BY <1>1, <2>2
    <3>3. /\ k # NoHalf /\ k.card = Flipped(new[t].card) /\ k.inverse = (~ new[t].inverse)
          /\ k.edges = Reversed(new[t].edges)
      BY <2>1, <3>2, FlipTyped
    <3> HIDE DEF k
    <3>4. PairedAt(f, <<t, t>>) /\ MatchedAt(f, <<t, t>>)
      BY <2>1, <3>1, <3>2, <3>3 DEF PairedAt, MatchedAt
    <3>5. FittingAt(disk, f, <<t, t>>) /\ FittingAt(disk, f, <<Mirror, t>>)
      BY <2>1, <3>1, <3>2, <3>3 DEF FittingAt, Fits, Has
    <3> QED BY <3>4, <3>5
  <2>3. CASE t \notin DOMAIN new
    <3>1. f[<<t, t>>] = NoHalf /\ f[<<Mirror, t>>] = NoHalf
      BY <1>2, <2>3
    <3> QED BY <2>1, <3>1 DEF PairedAt, MatchedAt, FittingAt
  <2> QED BY <2>2, <2>3
<1>6. ASSUME NEW s \in Sides, s[1] # t, s[2] # t
      PROVE  f[s] = disk[s] /\ f[Counterpart(s)] = disk[Counterpart(s)]
  BY <1>6, SetToOthers DEF f
<1>7. ASSUME NEW s \in Sides
      PROVE  PairedAt(f, s) /\ FittingAt(disk, f, s) /\ (Matched(disk) => MatchedAt(f, s))
  <2>1. CASE s[1] # t /\ s[2] # t
    BY <2>1, <1>6 DEF Paired, PairedAt, FittingAt, Matched, MatchedAt
  <2>2. ASSUME NEW u \in Templates \ {t}, s = <<t, u>>
        PROVE  PairedAt(f, s) /\ FittingAt(disk, f, s) /\ (Matched(disk) => MatchedAt(f, s))
    BY <2>2, <1>4 DEF Matched
  <2>3. ASSUME NEW u \in Templates \ {t}, s = <<u, t>>
        PROVE  PairedAt(f, s) /\ FittingAt(disk, f, s) /\ (Matched(disk) => MatchedAt(f, s))
    <3>1. <<t, u>> \in Sides /\ Counterpart(<<t, u>>) = s
      BY <2>3, SidesApart, Counterparts
    <3>2. /\ PairedAt(f, <<t, u>>) /\ (Matched(disk) => MatchedAt(f, <<t, u>>))
          /\ FittingAt(disk, f, s)
      BY <2>3, <3>1, <1>4 DEF Matched
    <3> QED BY <1>3, <3>1, <3>2, PairFlips
  <2>4. ASSUME s = <<t, t>>
        PROVE  PairedAt(f, s) /\ FittingAt(disk, f, s) /\ (Matched(disk) => MatchedAt(f, s))
    BY <2>4, <1>5 DEF Matched
  <2>5. ASSUME s = <<Mirror, t>>
        PROVE  PairedAt(f, s) /\ FittingAt(disk, f, s) /\ (Matched(disk) => MatchedAt(f, s))
    <3>1. <<t, t>> \in Sides /\ Counterpart(<<t, t>>) = s
      BY <2>5, SidesApart, Counterparts
    <3>2. /\ PairedAt(f, <<t, t>>) /\ (Matched(disk) => MatchedAt(f, <<t, t>>))
          /\ FittingAt(disk, f, s)
      BY <2>5, <3>1, <1>5 DEF Matched
    <3> QED BY <1>3, <3>1, <3>2, PairFlips
  <2>6. \/ s[1] # t /\ s[2] # t
        \/ \E u \in Templates \ {t} : s = <<t, u>> \/ s = <<u, t>>
        \/ s = <<t, t>> \/ s = <<Mirror, t>>
    BY SidesApart
  <2> QED BY <2>1, <2>2, <2>3, <2>4, <2>5, <2>6
<1> QED BY <1>7 DEF Paired, Fitting, Matched, f

----------------------------------------------------------------------------
(* The directions of a relationship.                                       *)

\* A call keeps the direction of the halves there are, and turns those it makes.
Directed(f) ==
    \A s \in Sides :
        LET o == Counterpart(s) IN
        \/ f[s] = disk[s]
        \/ Has(s) /\ f[s].inverse = disk[s].inverse
        \/ ~ Has(s) /\ Has(o) /\ f[s].inverse = (~ disk[o].inverse)

LEMMA DirectionsKept ==
    ASSUME Stored(disk), NEW f, Directed(f), NEW s \in Sides, OpposedAt(disk, s)
    PROVE  OpposedAt(f, s)
<1> DEFINE o == Counterpart(s)
<1>1. o \in Sides /\ Counterpart(o) = s
  BY Counterparts
<1>2. /\ Has(s) => disk[s].inverse \in BOOLEAN
      /\ Has(o) => disk[o].inverse \in BOOLEAN
      /\ Has(s) /\ Has(o) => disk[o].inverse = (~ disk[s].inverse)
  BY <1>1 DEF Stored, Has, Halves, OpposedAt
<1>3. /\ \/ f[s] = disk[s]
         \/ Has(s) /\ f[s].inverse = disk[s].inverse
         \/ ~ Has(s) /\ Has(o) /\ f[s].inverse = (~ disk[o].inverse)
      /\ \/ f[o] = disk[o]
         \/ Has(o) /\ f[o].inverse = disk[o].inverse
         \/ ~ Has(o) /\ Has(s) /\ f[o].inverse = (~ disk[s].inverse)
  BY <1>1 DEF Directed
<1> HIDE DEF o
<1>4. ASSUME f[s] # NoHalf, f[o] # NoHalf PROVE f[o].inverse = (~ f[s].inverse)
  <2>1. CASE Has(s) /\ Has(o)
    BY <1>2, <1>3, <2>1
  <2>2. CASE Has(s) /\ ~ Has(o)
    BY <1>2, <1>3, <1>4, <2>2 DEF Has
  <2>3. CASE ~ Has(s) /\ Has(o)
    BY <1>2, <1>3, <1>4, <2>3 DEF Has
  <2>4. CASE ~ Has(s) /\ ~ Has(o)
    BY <1>3, <1>4, <2>4 DEF Has
  <2> QED BY <2>1, <2>2, <2>3, <2>4
<1> QED BY <1>4 DEF OpposedAt, o

LEMMA AddToDirected ==
    ASSUME Stored(disk), NEW s \in Sides, NEW e \in EdgesOf(s), Has(s)
    PROVE  Directed(AddTo(s, e))
<1> DEFINE o == Counterpart(s)
           f == AddTo(s, e)
<1>1. o \in Sides /\ Counterpart(o) = s /\ disk[s] \in Halves
  BY Counterparts DEF Stored, Has
<1>2. /\ f[s] = [disk[s] EXCEPT !.edges = @ \cup {e}]
      /\ Has(o) => f[o] = [disk[o] EXCEPT !.edges = @ \cup Reversed({e})]
      /\ ~ Has(o) => f[o] = [Flip(f[s]) EXCEPT !.edges = Reversed({e})]
      /\ \A x \in Sides \ {s, o} : f[x] = disk[x]
  BY AddEdgeLeads
<1> HIDE DEF f
<1>3. f[s].inverse = disk[s].inverse
  BY <1>1, <1>2 DEF Halves
<1>4. Has(o) => f[o].inverse = disk[o].inverse
  BY <1>1, <1>2 DEF Halves, Stored, Has
<1>5. ~ Has(o) => f[o].inverse = (~ disk[s].inverse)
  BY <1>2, <1>3 DEF Flip
<1> QED BY <1>1, <1>2, <1>3, <1>4, <1>5 DEF Directed, f

LEMMA RemoveToDirected ==
    ASSUME Stored(disk), NEW s \in Sides, NEW e, Has(s)
    PROVE  Directed(RemoveTo(s, e))
<1> DEFINE f == RemoveTo(s, e)
<1>1. ASSUME NEW x \in Sides PROVE f[x] = disk[x] \/ (Has(x) /\ f[x].inverse = disk[x].inverse)
  BY DEF RemoveTo, Stored, Has, Halves
<1> QED BY <1>1 DEF Directed

LEMMA HealToDirected ==
    ASSUME Stored(disk)
    PROVE  Directed(HealTo)
<1> SUFFICES ASSUME NEW s \in Sides
             PROVE  LET o == Counterpart(s) IN
                    \/ HealTo[s] = disk[s]
                    \/ Has(s) /\ HealTo[s].inverse = disk[s].inverse
                    \/ ~ Has(s) /\ Has(o) /\ HealTo[s].inverse = (~ disk[o].inverse)
  BY DEF Directed
<1>1. HealTo[s] = HealedHalf(s)
  BY DEF HealTo
<1>2. CASE ~ Has(Counterpart(s))
  BY <1>1, <1>2 DEF HealedHalf
<1>3. CASE Has(Counterpart(s)) /\ ~ Has(s)
  BY <1>1, <1>3 DEF HealedHalf, Flip
<1>4. CASE Has(Counterpart(s)) /\ Has(s)
  <2>1. disk[s] \in Halves
    BY <1>4 DEF Stored, Has
  <2> QED BY <1>1, <1>4, <2>1 DEF HealedHalf, Halves
<1> QED BY <1>2, <1>3, <1>4

\* The tab declares every relation of its template anew.
LEMMA SetToOpposed ==
    ASSUME Stored(disk), NEW t \in Templates, NEW rels, Sent(t, rels), NEW s \in Sides
    PROVE  (s[1] = t \/ s[2] = t) \/ OpposedAt(disk, s) => OpposedAt(SetTo(t, rels), s)
<1> DEFINE new == CarriedForward(t, rels)
           f == SetTo(t, rels)
<1>1. \A u \in DOMAIN new : /\ u \in Templates /\ new[u] \in Halves /\ new[u] # NoHalf
                            /\ HalfAt(<<t, u>>, new[u])
  <2>1. Sent(t, new)
    BY CarriedTyped
  <2> HIDE DEF new
  <2> QED BY <2>1, MenuAssumption DEF Sent, Relations
<1>2. /\ \A u \in Templates : f[<<t, u>>] = IF u \in DOMAIN new THEN new[u] ELSE NoHalf
      /\ f[<<Mirror, t>>] = IF t \in DOMAIN new THEN Flip(new[t]) ELSE NoHalf
      /\ \A u \in Templates \ {t} :
            u \in DOMAIN new => f[<<u, t>>] = UpsertMirror(t, u, new[u])
  BY SidesApart DEF SetTo
<1> HIDE DEF f, new
<1>3. ASSUME NEW u \in Templates \ {t}
      PROVE  OpposedAt(f, <<t, u>>) /\ OpposedAt(f, <<u, t>>)
  <2>1. Counterpart(<<t, u>>) = <<u, t>> /\ Counterpart(<<u, t>>) = <<t, u>>
    BY Counterparts
  <2>2. CASE u \in DOMAIN new
    <3>1. /\ f[<<t, u>>] = new[u] /\ new[u].inverse \in BOOLEAN
          /\ f[<<u, t>>].inverse = (~ new[u].inverse)
      <4>1. t # u /\ u \in Templates /\ new[u] \in Halves /\ HalfAt(<<t, u>>, new[u])
        BY <1>1, <2>2
      <4>2. UpsertMirror(t, u, new[u]).inverse = (~ new[u].inverse)
        <5> DEFINE k == UpsertMirror(t, u, new[u])
        <5>1. /\ k \in Halves /\ k.card = Flipped(new[u].card) /\ k.inverse = (~ new[u].inverse)
              /\ k.edges = IF Has(<<u, t>>) THEN disk[<<u, t>>].edges ELSE {}
          BY <4>1, UpsertTyped
        <5> QED BY <5>1
      <4> QED BY <1>2, <2>2, <4>1, <4>2 DEF Halves
    <3> QED BY <2>1, <3>1 DEF OpposedAt
  <2>3. CASE u \notin DOMAIN new
    BY <1>2, <2>1, <2>3 DEF OpposedAt
  <2> QED BY <2>2, <2>3
<1>4. OpposedAt(f, <<t, t>>) /\ OpposedAt(f, <<Mirror, t>>)
  <2>1. Counterpart(<<t, t>>) = <<Mirror, t>> /\ Counterpart(<<Mirror, t>>) = <<t, t>>
    BY Counterparts
  <2>2. CASE t \in DOMAIN new
    <3>1. /\ f[<<t, t>>] = new[t] /\ new[t].inverse \in BOOLEAN
          /\ f[<<Mirror, t>>].inverse = (~ new[t].inverse)
      BY <1>1, <1>2, <2>2 DEF Flip, Halves
    <3> QED BY <2>1, <3>1 DEF OpposedAt
  <2>3. CASE t \notin DOMAIN new
    BY <1>2, <2>1, <2>3 DEF OpposedAt
  <2> QED BY <2>2, <2>3
<1>5. CASE s[1] # t /\ s[2] # t
  BY <1>5, SetToOthers DEF OpposedAt, f
<1>6. \/ s[1] # t /\ s[2] # t
      \/ \E u \in Templates \ {t} : s = <<t, u>> \/ s = <<u, t>>
      \/ s = <<t, t>> \/ s = <<Mirror, t>>
  BY SidesApart
<1> QED BY <1>3, <1>4, <1>5, <1>6 DEF f

----------------------------------------------------------------------------
(* The invariant: with one panel at work at a time, the writes still to be *)
(* made lead to a store f whose halves agree - unless a call was cut       *)
(* short - and the tab, when it is open, is in sync with f.                *)

InTab(f) ==
    tab # NoTab =>
        \A u \in DOMAIN tab.rels :
            LET s == <<tab.template, u>> IN
            f[s] # NoHalf /\ (tab.rels[u].edges = {} \/ tab.rels[u].edges = f[s].edges)

Aim(f) ==
    /\ Stored(f) /\ Leads(writes, f)
    /\ healing \/ ~ torn => Paired(f)
    /\ ~ torn => Matched(f) /\ Fitting(disk, f)
    /\ Opposing(f) /\ InTab(f)

SInv ==
    /\ tab # NoTab => job = Idle /\ pass = NoPass
    /\ \E f \in [Sides -> Halves \cup {NoHalf}] : Aim(f)

LEMMA WriteLeads ==
    ASSUME TInv, NEW ws \in Seq(StoredWrites), ws # <<>>, NEW f, Leads(ws, f),
           disk' = SavedWith(disk, Head(ws)), writes' = Tail(ws)
    PROVE  /\ Leads(writes, f)' /\ (Fitting(disk, f) => Fitting(disk', f))
           /\ \A s \in Sides : disk'[s] = disk[s] \/ disk'[s] = f[s]
<1>1. /\ Head(ws) \in Range(ws) /\ Head(ws) \in StoredWrites
      /\ \A w \in Range(Tail(ws)) : w \in Range(ws)
      /\ \A w \in Range(ws) : w = Head(ws) \/ w \in Range(Tail(ws))
  <2>1. Len(ws) \in Nat \ {0} /\ DOMAIN ws = 1 .. Len(ws) /\ Head(ws) = ws[1] /\ Head(ws) \in StoredWrites
    OBVIOUS
  <2>2. /\ DOMAIN Tail(ws) = 1 .. Len(ws) - 1
        /\ \A i \in 1 .. Len(ws) - 1 : Tail(ws)[i] = ws[i + 1]
    OBVIOUS
  <2>3. \A w \in Range(Tail(ws)) : w \in Range(ws)
    <3> SUFFICES ASSUME NEW i \in 1 .. Len(ws) - 1 PROVE ws[i + 1] \in Range(ws)
      BY <2>2 DEF Range
    <3>1. i + 1 \in DOMAIN ws
      BY <2>1
    <3> QED BY <3>1 DEF Range
  <2>4. \A w \in Range(ws) : w = Head(ws) \/ w \in Range(Tail(ws))
    <3> SUFFICES ASSUME NEW i \in 1 .. Len(ws), i # 1 PROVE ws[i] \in Range(Tail(ws))
      BY <2>1 DEF Range
    <3>1. i - 1 \in 1 .. Len(ws) - 1 /\ (i - 1) + 1 = i
      BY <2>1
    <3>2. Tail(ws)[i - 1] = ws[i] /\ i - 1 \in DOMAIN Tail(ws)
      BY <2>2, <3>1
    <3> QED BY <3>2 DEF Range
  <2>5. Head(ws) \in Range(ws)
    <3>1. 1 \in DOMAIN ws
      BY <2>1
    <3> QED BY <2>1, <3>1 DEF Range
  <2> QED BY <2>1, <2>3, <2>4, <2>5
<1>2. \A s \in Sides : disk'[s] = IF s \in DOMAIN Head(ws) THEN Head(ws)[s] ELSE disk[s]
  BY <1>1, SavedTyped DEF TInv
<1>3. \A s \in DOMAIN Head(ws) : Head(ws)[s] = f[s]
  BY <1>1 DEF Leads
<1>4. Leads(writes, f)'
  <2>1. \A w \in Range(Tail(ws)) : \A s \in DOMAIN w : w[s] = f[s]
    BY <1>1 DEF Leads
  <2>2. \A s \in Sides : f[s] = disk'[s] \/ \E w \in Range(Tail(ws)) : s \in DOMAIN w
    BY <1>1, <1>2, <1>3 DEF Leads
  <2> QED BY <2>1, <2>2 DEF Leads
<1>5. \A s \in Sides : disk'[s] = disk[s] \/ disk'[s] = f[s]
  BY <1>2, <1>3
<1>6. Fitting(disk, f) => Fitting(disk', f)
  BY <1>5 DEF Fitting, FittingAt
<1> QED BY <1>4, <1>5, <1>6

\* When nothing is left to write, the store is where the calls led.
LEMMA Arrived ==
    ASSUME Stored(disk), writes = <<>>, NEW f, Stored(f), Leads(writes, f)
    PROVE  f = disk
<1>1. Range(writes) = {}
  BY DEF Range
<1>2. \A s \in Sides : f[s] = disk[s]
  BY <1>1 DEF Leads
<1> QED BY <1>2 DEF Stored

\* A call aims at what its writes lead to.
LEMMA CallAims ==
    ASSUME TInv, NEW ws \in Seq(StoredWrites), Call(ws), NEW f, Stored(f), Leads(ws, f),
           healing' \/ ~ torn' => Paired(f),
           ~ torn' => Matched(f) /\ Fitting(disk, f),
           Opposing(f)', InTab(f)'
    PROVE  Aim(f)' /\ (~ torn' => Fitting(disk, disk'))
<1>1. /\ Leads(writes, f)' /\ (Fitting(disk, f) => Fitting(disk', f))
      /\ \A s \in Sides : disk'[s] = disk[s] \/ disk'[s] = f[s]
  <2>1. CASE ws = <<>>
    <3>1. writes = <<>> /\ disk' = disk /\ writes' = writes
      BY <2>1 DEF Call
    <3> QED BY <2>1, <3>1 DEF Leads
  <2>2. CASE ws # <<>>
    <3>1. disk' = SavedWith(disk, Head(ws)) /\ writes' = Tail(ws)
      BY <2>2 DEF Call
    <3> QED BY <2>2, <3>1, WriteLeads
  <2> QED BY <2>1, <2>2
<1>2. Stored(f)' /\ (Paired(f))' = Paired(f) /\ (Matched(f))' = Matched(f)
  BY DEF Stored, Paired, PairedAt, Matched, MatchedAt
<1>3. Fitting(disk, f) => Fitting(disk, disk')
  BY <1>1 DEF Fitting, FittingAt
<1> QED BY <1>1, <1>2, <1>3 DEF Aim

LEMMA StillAims ==
    ASSUME NEW f, Aim(f), disk' = disk, writes' = writes,
           healing' \/ ~ torn' => Paired(f),
           ~ torn' => Matched(f) /\ Fitting(disk, f),
           Opposing(f)', InTab(f)'
    PROVE  Aim(f)'
BY DEF Aim, Leads, Stored, Fitting, FittingAt

\* A call of the tab.
LEMMA TabAims ==
    ASSUME TInv, SInv, tab # NoTab, NEW rels,
           NEW f \in [Sides -> Halves \cup {NoHalf}], Aim(f), writes = <<>>,
           Sent(tab.template, rels),
           \A u \in DOMAIN rels : rels[u].edges = {} \/ (u \in DOMAIN tab.rels /\ rels[u] = tab.rels[u]),
           Call(SetRelations(tab.template, rels)), tab' \in Tabs,
           tab'.template = tab.template, tab'.rels = rels,
           turned' = { s \in turned : s[1] # tab.template /\ s[2] # tab.template },
           healing' = healing, torn' = torn
    PROVE  /\ \E g \in [Sides -> Halves \cup {NoHalf}] : Aim(g)'
           /\ ~ torn' => Fitting(disk, disk')
<1>1. Stored(disk) /\ tab.template \in Templates /\ f = disk
  BY Arrived DEF TInv, Tabs, Aim
<1>2. PICK t \in Templates : t = tab.template
  BY <1>1
<1>3. InSync(t, rels)
  BY <1>1, <1>2 DEF InSync, Aim, InTab, Has
<1>4. PICK g \in [Sides -> Halves \cup {NoHalf}] : g = SetTo(t, rels)
  BY <1>1, <1>2, SetToTyped DEF Stored
<1>5. /\ Leads(SetRelations(t, rels), g) /\ SetRelations(t, rels) \in Seq(StoredWrites) /\ Stored(g)
  BY <1>1, <1>2, <1>4, SetRelationsLeads, SetToTyped
<1>6. /\ healing' \/ ~ torn' => Paired(g)
      /\ ~ torn' => Matched(g) /\ Fitting(disk, g)
  <2>1. Paired(disk) => Paired(g) /\ Fitting(disk, g) /\ (Matched(disk) => Matched(g))
    BY <1>1, <1>2, <1>3, <1>4, SetToPaired
  <2> QED BY <1>1, <2>1 DEF Aim
<1>7. ASSUME NEW u \in DOMAIN rels
      PROVE  g[<<t, u>>] # NoHalf /\ (rels[u].edges = {} \/ rels[u].edges = g[<<t, u>>].edges)
  <2> DEFINE new == CarriedForward(t, rels)
  <2>1. /\ DOMAIN new = DOMAIN rels /\ Sent(t, new)
        /\ new[u].edges = IF rels[u].edges = {} /\ Has(<<t, u>>) THEN disk[<<t, u>>].edges ELSE rels[u].edges
    BY <1>1, <1>2, CarriedTyped
  <2>2. u \in Templates
    BY <1>2 DEF Sent, Relations
  <2>3. g[<<t, u>>] = new[u]
    BY <1>4, <2>1, <2>2, SidesApart DEF SetTo
  <2> HIDE DEF new
  <2>4. new[u] # NoHalf
    BY <2>1, MenuAssumption DEF Sent, Relations
  <2> QED BY <2>1, <2>3, <2>4
<1>8. InTab(g)'
  BY <1>2, <1>7 DEF InTab
<1>o. Opposing(g)'
  <2>1. Opposing(disk)
    BY <1>1 DEF Aim
  <2>2. ASSUME NEW s \in Sides \ turned' PROVE OpposedAt(g, s)
    <3>1. (s[1] = t \/ s[2] = t) \/ OpposedAt(disk, s)
      BY <1>2, <2>1, <2>2 DEF Opposing
    <3> QED BY <1>1, <1>2, <1>4, <3>1, SetToOpposed
  <2> QED BY <2>2 DEF Opposing, OpposedAt
<1>9. Aim(g)' /\ (~ torn' => Fitting(disk, disk'))
  BY <1>2, <1>5, <1>6, <1>8, <1>o, CallAims
<1> QED BY <1>9

LEMMA SymmetryStep ==
    ASSUME Overlap = {}, TInv, TInv', SInv, [Next]_vars
    PROVE  SInv' /\ (~ torn => Fitting(disk, disk'))
<1> DEFINE Good == SInv' /\ (~ torn => Fitting(disk, disk'))
<1>1. PICK f \in [Sides -> Halves \cup {NoHalf}] : Aim(f)
  BY DEF SInv
<1>d. Stored(disk) /\ Stored(f) /\ Leads(writes, f) /\ (writes = <<>> => f = disk)
  BY <1>1, Arrived DEF TInv, Aim
<1>a. Alone <=> job = Idle /\ pass = NoPass
  BY DEF Alone
<1>b. TabClosed <=> tab = NoTab
  BY DEF TabClosed
<1>c. ASSUME disk' = disk PROVE ~ torn => Fitting(disk, disk')
  BY <1>c DEF Fitting, FittingAt
\* A step that leaves the store and the tab alone.
<1>q. ASSUME disk' = disk, writes' = writes, healing' = healing, torn' = torn, turned' = turned,
             tab' = tab,
             tab' # NoTab => job' = Idle /\ pass' = NoPass
      PROVE  Good
  <2>1. InTab(f)'
    BY <1>1, <1>q DEF Aim, InTab
  <2>2. Aim(f)'
    BY <1>1, <1>q, <2>1, StillAims DEF Aim, Opposing, OpposedAt
  <2> QED BY <1>c, <1>q, <2>2 DEF SInv
\* A call other than the tab's leads from f to another store.
<1>g. ASSUME NEW ws \in Seq(StoredWrites), Call(ws),
             NEW g \in [Sides -> Halves \cup {NoHalf}], Stored(g), Leads(ws, g),
             healing' \/ ~ torn' => Paired(g),
             ~ torn' => Matched(g) /\ Fitting(disk, g),
             Opposing(g), tab' = NoTab, torn' = torn, turned' = turned
      PROVE  Good
  <2>1. InTab(g)'
    BY <1>g DEF InTab
  <2>2. Aim(g)' /\ (~ torn' => Fitting(disk, disk'))
    BY <1>g, <2>1, CallAims DEF Opposing, OpposedAt
  <2> QED BY <1>g, <2>2 DEF SInv
<1>e. ASSUME NEW s \in Sides, NEW e \in EdgesOf(s), MayAdd(s, e), Call(AddEdge(s, e)),
             tab' = NoTab, torn' = torn, turned' = turned, healing' = healing
      PROVE  Good
  <2>1. writes = <<>> /\ f = disk
    BY <1>d, <1>e DEF Call
  <2>2. /\ Leads(AddEdge(s, e), AddTo(s, e)) /\ Stored(AddTo(s, e)) /\ AddEdge(s, e) \in Seq(StoredWrites)
    BY <1>d, <1>e, AddEdgeLeads, AddEdgeTyped DEF MayAdd
  <2>3. PICK g \in [Sides -> Halves \cup {NoHalf}] : g = AddTo(s, e)
    BY <2>2 DEF Stored
  <2>4. Paired(disk) => Paired(g) /\ (Matched(disk) => Matched(g) /\ Fitting(disk, g))
    BY <1>d, <1>e, <2>3, AddToPaired
  <2>5. /\ healing' \/ ~ torn' => Paired(g)
        /\ ~ torn' => Matched(g) /\ Fitting(disk, g)
    BY <1>1, <1>e, <2>1, <2>4 DEF Aim
  <2>6. Opposing(g)
    <3>1. Directed(g)
      BY <1>d, <1>e, <2>3, AddToDirected DEF MayAdd
    <3> QED BY <1>1, <1>d, <2>1, <3>1, DirectionsKept DEF Aim, Opposing
  <2> QED BY <1>e, <1>g, <2>2, <2>3, <2>5, <2>6
<1>r. ASSUME NEW s \in Sides, NEW e \in EdgesOf(s), MayRemove(s, e), Call(RemoveEdge(s, e)),
             tab' = NoTab, torn' = torn, turned' = turned, healing' = healing
      PROVE  Good
  <2>1. writes = <<>> /\ f = disk
    BY <1>d, <1>r DEF Call
  <2>2. /\ Leads(RemoveEdge(s, e), RemoveTo(s, e)) /\ Stored(RemoveTo(s, e))
        /\ RemoveEdge(s, e) \in Seq(StoredWrites)
    BY <1>d, <1>r, RemoveEdgeLeads, RemoveEdgeTyped DEF MayRemove
  <2>3. PICK g \in [Sides -> Halves \cup {NoHalf}] : g = RemoveTo(s, e)
    BY <2>2 DEF Stored
  <2>4. Paired(disk) => Paired(g) /\ Fitting(disk, g) /\ (Matched(disk) => Matched(g))
    BY <1>d, <1>r, <2>3, RemoveToPaired DEF MayRemove
  <2>5. /\ healing' \/ ~ torn' => Paired(g)
        /\ ~ torn' => Matched(g) /\ Fitting(disk, g)
    BY <1>1, <1>r, <2>1, <2>4 DEF Aim
  <2>6. Opposing(g)
    <3>1. Directed(g)
      BY <1>d, <1>r, <2>3, RemoveToDirected DEF MayRemove
    <3> QED BY <1>1, <1>d, <2>1, <3>1, DirectionsKept DEF Aim, Opposing
  <2> QED BY <1>r, <1>g, <2>2, <2>3, <2>5, <2>6
<1>2. ASSUME NEW s \in Templates \X Templates, NEW e \in Edges(s), LinkRecords(s, e) PROVE Good
  <2>1. s \in Sides /\ e \in EdgesOf(s)
    BY SidesApart DEF Edges, EdgesOf
  <2> QED BY <1>2, <2>1, <1>b, <1>e DEF LinkRecords
<1>3. ASSUME NEW s \in Templates \X Templates, NEW e \in Edges(s), UnlinkRecords(s, e) PROVE Good
  <2>1. s \in Sides /\ e \in EdgesOf(s)
    BY SidesApart DEF Edges, EdgesOf
  <2> QED BY <1>3, <2>1, <1>b, <1>r DEF UnlinkRecords
<1>4. ASSUME NEW t \in Templates, TabLoad(t) PROVE Good
  <2>1. writes = <<>> /\ f = disk
    BY <1>4, <1>d DEF TabLoad
  <2>2. tab'.template = t /\ tab'.rels = [u \in RelationsOf(t) |-> disk[<<t, u>>]]
    BY <1>4 DEF TabLoad
  <2>3. InTab(f)'
    BY <2>1, <2>2 DEF InTab, RelationsOf, Has
  <2>4. disk' = disk /\ writes' = writes /\ healing' = healing /\ torn' = torn /\ turned' = turned
    BY <1>4 DEF TabLoad
  <2>5. Aim(f)'
    BY <1>1, <2>3, <2>4, StillAims DEF Aim, Opposing, OpposedAt
  <2>6. job' = Idle /\ pass' = NoPass
    BY <1>4, <1>a DEF TabLoad
  <2> QED BY <1>c, <2>4, <2>5, <2>6 DEF SInv
<1>5. ASSUME NEW old \in Templates, NEW u \in Templates, NEW c \in Menu, NEW inv \in BOOLEAN,
             TabApply(old, u, c, inv) PROVE Good
  <2> DEFINE rels == [x \in (DOMAIN tab.rels \ {old}) \cup {u} |->
                        IF x = u THEN [card |-> c, inverse |-> inv, edges |-> {}] ELSE tab.rels[x]]
             t == tab.template
  <2>1. tab \in Tabs /\ Sent(t, tab.rels) /\ tab # NoTab
    BY <1>5 DEF TabApply, TInv
  <2>2. [card |-> c, inverse |-> inv, edges |-> {}] \in Halves
    BY MenuAssumption DEF Halves
  <2>3. \A x \in DOMAIN rels : rels[x].edges = {} \/ (x \in DOMAIN tab.rels /\ rels[x] = tab.rels[x])
    OBVIOUS
  <2>4. Call(SetRelations(t, rels)) /\ tab' = [tab EXCEPT !.rels = rels]
    BY <1>5 DEF TabApply, Send
  <2> HIDE DEF rels
  <2>5. tab'.template = t /\ tab'.rels = rels
    BY <2>1, <2>4 DEF Tabs
  <2>6. tab' # NoTab
    BY <2>1, <2>5, SidesApart DEF Tabs, NoTab
  <2>7. tab' \in Tabs /\ Sent(t, rels)
    BY <2>5, <2>6 DEF TInv
  <2>8. /\ writes = <<>> /\ healing' = healing /\ torn' = torn /\ job' = job /\ pass' = pass
        /\ turned' = { s \in turned : s[1] # t /\ s[2] # t }
    BY <1>5 DEF TabApply, Send, Call
  <2>9. /\ \E g \in [Sides -> Halves \cup {NoHalf}] : Aim(g)'
        /\ ~ torn' => Fitting(disk, disk')
    BY <1>1, <2>1, <2>3, <2>4, <2>5, <2>7, <2>8, TabAims
  <2> QED BY <2>1, <2>8, <2>9 DEF SInv
<1>6. ASSUME NEW u \in Templates, TabRemove(u) PROVE Good
  <2> DEFINE rels == [x \in DOMAIN tab.rels \ {u} |-> tab.rels[x]]
             t == tab.template
  <2>1. tab \in Tabs /\ Sent(t, tab.rels) /\ tab # NoTab
    BY <1>6 DEF TabRemove, TInv, NoTab
  <2>3. \A x \in DOMAIN rels : rels[x].edges = {} \/ (x \in DOMAIN tab.rels /\ rels[x] = tab.rels[x])
    OBVIOUS
  <2>4. Call(SetRelations(t, rels)) /\ tab' = [tab EXCEPT !.rels = rels]
    BY <1>6 DEF TabRemove, Send
  <2> HIDE DEF rels
  <2>5. tab'.template = t /\ tab'.rels = rels
    BY <2>1, <2>4 DEF Tabs
  <2>6. tab' # NoTab
    BY <2>1, <2>5, SidesApart DEF Tabs, NoTab
  <2>7. tab' \in Tabs /\ Sent(t, rels)
    BY <2>5, <2>6 DEF TInv
  <2>8. /\ writes = <<>> /\ healing' = healing /\ torn' = torn /\ job' = job /\ pass' = pass
        /\ turned' = { s \in turned : s[1] # t /\ s[2] # t }
    BY <1>6 DEF TabRemove, Send, Call
  <2>9. /\ \E g \in [Sides -> Halves \cup {NoHalf}] : Aim(g)'
        /\ ~ torn' => Fitting(disk, disk')
    BY <1>1, <2>1, <2>3, <2>4, <2>5, <2>7, <2>8, TabAims
  <2> QED BY <2>1, <2>8, <2>9 DEF SInv
<1>7. ASSUME TabLeave PROVE Good
  <2>1. /\ disk' = disk /\ writes' = writes /\ healing' = healing /\ torn' = torn /\ turned' = turned
        /\ tab' = NoTab
    BY <1>7 DEF TabLeave
  <2>2. InTab(f)'
    BY <2>1 DEF InTab
  <2>3. Aim(f)'
    BY <1>1, <2>1, <2>2, StillAims DEF Aim, Opposing, OpposedAt
  <2> QED BY <1>c, <2>1, <2>3 DEF SInv
<1>8. ASSUME StartReconcile PROVE Good
  <2>1. /\ writes = <<>> /\ f = disk /\ Call(Reconcile) /\ healing' = TRUE
        /\ torn' = torn /\ turned' = turned /\ tab' = NoTab
    BY <1>8, <1>d DEF StartReconcile, Call
  <2>2. Leads(Reconcile, HealTo) /\ Stored(HealTo) /\ Reconcile \in Seq(StoredWrites)
    BY <1>d, ReconcileLeads
  <2>3. PICK g \in [Sides -> Halves \cup {NoHalf}] : g = HealTo
    BY <2>2 DEF Stored
  <2>4. Paired(g) /\ (Paired(disk) => g = disk)
    BY <1>d, <2>3, HealToPaired
  <2>5. ~ torn' => Matched(g) /\ Fitting(disk, g)
    BY <1>1, <2>1, <2>4 DEF Aim
  <2>6. Opposing(g)
    <3>1. Directed(g)
      BY <1>d, <2>3, HealToDirected
    <3> QED BY <1>1, <1>d, <2>1, <3>1, DirectionsKept DEF Aim, Opposing
  <2> QED BY <1>g, <2>1, <2>2, <2>3, <2>4, <2>5, <2>6
<1>9. ASSUME WriteNext PROVE Good
  <2>1. /\ writes # <<>> /\ writes \in Seq(StoredWrites)
        /\ disk' = SavedWith(disk, Head(writes)) /\ writes' = Tail(writes)
        /\ healing' = healing /\ torn' = torn /\ turned' = turned
        /\ tab' = tab /\ job' = job /\ pass' = pass
    BY <1>9 DEF WriteNext, TInv
  <2>2. /\ Leads(writes, f)' /\ (Fitting(disk, f) => Fitting(disk', f))
        /\ \A s \in Sides : disk'[s] = disk[s] \/ disk'[s] = f[s]
    BY <1>d, <2>1, WriteLeads
  <2>3. InTab(f)'
    BY <1>1, <2>1 DEF Aim, InTab
  <2>4. Aim(f)'
    BY <1>1, <2>1, <2>2, <2>3 DEF Aim, Stored, Opposing, OpposedAt
  <2>5. Fitting(disk, f) => Fitting(disk, disk')
    BY <2>2 DEF Fitting, FittingAt
  <2> QED BY <1>1, <2>1, <2>4, <2>5 DEF Aim, SInv
<1>10. ASSUME EndReconcile PROVE Good
  <2>1. /\ disk' = disk /\ writes' = writes /\ tab' = tab /\ job' = job /\ pass' = pass
        /\ healing /\ healing' = FALSE /\ turned' = turned /\ f = disk
    BY <1>10, <1>d DEF EndReconcile
  <2>2. Paired(f)
    BY <1>1, <2>1 DEF Aim
  <2>3. ~ torn' => Matched(f)
    <3> SUFFICES ASSUME ~ torn', torn, NEW s \in Sides, f[s] # NoHalf, f[Counterpart(s)] # NoHalf
                 PROVE  f[Counterpart(s)].card = Flipped(f[s].card)
      BY <1>1 DEF Aim, Matched, MatchedAt
    <3>1. ~ Conflict(s)
      BY <1>10 DEF EndReconcile
    <3> QED BY <2>1, <3>1 DEF Conflict, Has
  <2>4. Fitting(disk, f)
    BY <2>1 DEF Fitting, FittingAt
  <2>5. InTab(f)'
    BY <1>1, <2>1 DEF Aim, InTab
  <2>6. Aim(f)'
    <3>1. Opposing(f)'
      BY <1>1, <2>1 DEF Aim, Opposing, OpposedAt
    <3> QED BY <1>1, <2>1, <2>2, <2>3, <2>4, <2>5, <3>1, StillAims
  <2> QED BY <1>c, <2>1, <2>6 DEF SInv
<1>11. ASSUME Crash PROVE Good
  <2>1. /\ disk' = disk /\ writes' = <<>> /\ healing' = FALSE /\ torn' = TRUE /\ tab' = NoTab
        /\ turned' = { s \in Sides : ~ Opposite(s) }
    BY <1>11 DEF Crash
  <2>2. PICK g \in [Sides -> Halves \cup {NoHalf}] : g = disk
    BY <1>d DEF Stored
  <2>r. Range(<<>>) = {}
    BY DEF Range
  <2>3. Leads(writes, g)'
    BY <2>1, <2>2, <2>r DEF Leads
  <2>o. Opposing(g)'
    BY <2>1, <2>2 DEF Opposing, OpposedAt, Opposite, Has
  <2>4. Aim(g)'
    BY <1>d, <2>1, <2>2, <2>3, <2>o DEF Aim, InTab, Stored
  <2> QED BY <1>c, <2>1, <2>4 DEF SInv
<1>12. ASSUME NEW r \in Ids, DeleteRecord(r) PROVE Good
  BY <1>12, <1>q, <1>b DEF DeleteRecord
<1>13. ASSUME NEW r \in Ids, OpenRecord(r) PROVE Good
  BY <1>13, <1>q, <1>b DEF OpenRecord
<1>14. ASSUME NEW r \in Ids, NEW new \in MayRefer(r), SaveRecord(r, new) PROVE Good
  BY <1>14, <1>q, <1>b DEF SaveRecord
\* A job or a pass at work: the tab is closed.
<1>j. job # Idle \/ pass # NoPass => tab = NoTab
  BY DEF SInv
<1>15. ASSUME JobRead PROVE Good
  <2>1. job # Idle
    BY <1>15 DEF JobRead, Idle
  <2> QED BY <1>15, <2>1, <1>q, <1>j DEF JobRead
<1>16. ASSUME JobNext PROVE Good
  <2>1. job # Idle
    BY <1>16 DEF JobNext, Idle
  <2> QED BY <1>16, <2>1, <1>q, <1>j DEF JobNext
<1>17. ASSUME JobEnd PROVE Good
  BY <1>17, <1>q, <1>j DEF JobEnd
<1>n. ASSUME Call(<<>>), tab' = NoTab, tab = NoTab, torn' = torn, turned' = turned, healing' = healing
      PROVE  Good
  <2>1. disk' = disk /\ writes' = writes
    BY <1>n DEF Call
  <2> QED BY <1>n, <2>1, <1>q
<1>18. ASSUME NEW x \in Ids, JobAdd(x) PROVE Good
  <2>1. job \in Jobs /\ tab = NoTab
    <3>1. job # Idle
      BY <1>18 DEF JobAdd, Idle
    <3> QED BY <3>1, <1>j DEF TInv
  <2> DEFINE s == Side(job.host, x)
             e == <<job.host, x>>
  <2>2. s \in Sides /\ e \in EdgesOf(s)
    BY <2>1, SideTyped DEF Jobs
  <2>3. /\ Call(IF MayAdd(s, e) THEN AddEdge(s, e) ELSE <<>>)
        /\ tab' = NoTab /\ torn' = torn /\ turned' = turned /\ healing' = healing
    BY <1>18, <2>1 DEF JobAdd
  <2> HIDE DEF s, e
  <2>4. CASE MayAdd(s, e)
    BY <2>2, <2>3, <2>4, <1>e
  <2>5. CASE ~ MayAdd(s, e)
    BY <2>1, <2>3, <2>5, <1>n
  <2> QED BY <2>4, <2>5
<1>19. ASSUME NEW x \in Ids, JobDrain(x) PROVE Good
  <2>1. job \in Jobs /\ tab = NoTab
    <3>1. job # Idle
      BY <1>19 DEF JobDrain, Idle
    <3> QED BY <3>1, <1>j DEF TInv
  <2> DEFINE s == Side(job.host, x)
             e == <<job.host, x>>
  <2>2. s \in Sides /\ e \in EdgesOf(s)
    BY <2>1, SideTyped DEF Jobs
  <2>3. /\ Call(IF MayRemove(s, e) THEN RemoveEdge(s, e) ELSE <<>>)
        /\ tab' = NoTab /\ torn' = torn /\ turned' = turned /\ healing' = healing
    BY <1>19, <2>1 DEF JobDrain
  <2> HIDE DEF s, e
  <2>4. CASE MayRemove(s, e)
    BY <2>2, <2>3, <2>4, <1>r
  <2>5. CASE ~ MayRemove(s, e)
    BY <2>1, <2>3, <2>5, <1>n
  <2> QED BY <2>4, <2>5
<1>20. ASSUME NEW t \in Templates, NEW u \in Templates, StartSync(t, u) PROVE Good
  BY <1>20, <1>q, <1>b DEF StartSync
<1>21. ASSUME NEW r \in Ids, SyncRecord(r) PROVE Good
  <2>1. pass # NoPass
    BY <1>21 DEF SyncRecord, NoPass
  <2> QED BY <1>21, <2>1, <1>q, <1>j DEF SyncRecord
<1>22. ASSUME EndSync PROVE Good
  BY <1>22, <1>q, <1>j DEF EndSync
<1>23. ASSUME UNCHANGED vars PROVE Good
  BY <1>23, <1>q DEF vars, SInv
<1> HIDE DEF Good
<1>24. Good
  BY <1>2, <1>3, <1>4, <1>5, <1>6, <1>7, <1>8, <1>9, <1>10, <1>11, <1>12, <1>13,
     <1>14, <1>15, <1>16, <1>17, <1>18, <1>19, <1>20, <1>21, <1>22, <1>23 DEF Next
<1> QED BY <1>24 DEF Good

\* Two templates related at the start, and the first one perhaps to itself.
LEMMA SymmetryInit == Init => SInv
<1> SUFFICES ASSUME Init PROVE SInv
  OBVIOUS
<1> DEFINE t == Declared[1]
           u == Declared[2]
<1>1. PICK c \in Menu, self \in BOOLEAN :
        disk = [s \in Sides |->
                  IF s = Declared THEN [card |-> c, inverse |-> FALSE, edges |-> {}]
                  ELSE IF s = Counterpart(Declared) THEN Flip([card |-> c, inverse |-> FALSE, edges |-> {}])
                  ELSE IF self /\ s = <<t, t>> THEN [card |-> c, inverse |-> FALSE, edges |-> {}]
                  ELSE IF self /\ s = <<Mirror, t>> THEN Flip([card |-> c, inverse |-> FALSE, edges |-> {}])
                  ELSE NoHalf]
  BY DEF Init
<1> DEFINE h == [card |-> c, inverse |-> FALSE, edges |-> {}]
           k == Flip(h)
<1>2. /\ h \in Halves /\ h.edges = {} /\ k \in Halves /\ k.edges = {}
      /\ k.card = Flipped(h.card) /\ k.inverse = (~ h.inverse)
  BY MenuAssumption DEF Halves, Flip, Flipped, Cards, Reversed
<1>3. h # NoHalf /\ k # NoHalf
  BY <1>2, MenuAssumption
<1>4. disk = [s \in Sides |->
                IF s = Declared THEN h
                ELSE IF s = Counterpart(Declared) THEN k
                ELSE IF self /\ s = <<t, t>> THEN h
                ELSE IF self /\ s = <<Mirror, t>> THEN k
                ELSE NoHalf]
  BY <1>1
<1>5. /\ t \in Templates /\ u \in Templates /\ t # u /\ Declared = <<t, u>>
      /\ t # Mirror /\ u # Mirror
  BY RecordsAreOwn
<1> HIDE DEF h, k, t, u
<1>6. /\ <<t, u>> \in Sides /\ <<u, t>> \in Sides /\ <<t, t>> \in Sides /\ <<Mirror, t>> \in Sides
      /\ Counterpart(<<t, u>>) = <<u, t>> /\ Counterpart(<<u, t>>) = <<t, u>>
      /\ Counterpart(<<t, t>>) = <<Mirror, t>> /\ Counterpart(<<Mirror, t>>) = <<t, t>>
  BY <1>5, SidesApart, Counterparts
<1>7. /\ disk[<<t, u>>] = h /\ disk[<<u, t>>] = k
      /\ disk[<<t, t>>] = IF self THEN h ELSE NoHalf
      /\ disk[<<Mirror, t>>] = IF self THEN k ELSE NoHalf
      /\ \A s \in Sides \ {<<t, u>>, <<u, t>>, <<t, t>>, <<Mirror, t>>} : disk[s] = NoHalf
  BY <1>4, <1>5, <1>6
<1>8. ASSUME NEW s \in Sides \ {<<t, u>>, <<u, t>>, <<t, t>>, <<Mirror, t>>}
      PROVE  Counterpart(s) \in Sides \ {<<t, u>>, <<u, t>>, <<t, t>>, <<Mirror, t>>}
  BY <1>6, Counterparts
<1>t. Stored(disk)
  BY TypeInit DEF TInv
<1>9. PairedAt(disk, <<t, u>>) /\ MatchedAt(disk, <<t, u>>)
  BY <1>2, <1>3, <1>6, <1>7 DEF PairedAt, MatchedAt, Reversed
<1>10. PairedAt(disk, <<t, t>>) /\ MatchedAt(disk, <<t, t>>)
  BY <1>2, <1>3, <1>6, <1>7 DEF PairedAt, MatchedAt, Reversed
<1>o. ASSUME NEW s \in Sides PROVE OpposedAt(disk, s)
  <2>1. CASE s \notin {<<t, u>>, <<u, t>>, <<t, t>>, <<Mirror, t>>}
    BY <2>1, <1>7 DEF OpposedAt
  <2>2. h.inverse \in BOOLEAN
    BY <1>2 DEF Halves
  <2> QED BY <2>1, <2>2, <1>2, <1>6, <1>7 DEF OpposedAt
<1>11. ASSUME NEW s \in Sides PROVE PairedAt(disk, s) /\ MatchedAt(disk, s)
  <2>1. CASE s \notin {<<t, u>>, <<u, t>>, <<t, t>>, <<Mirror, t>>}
    BY <2>1, <1>7, <1>8 DEF PairedAt, MatchedAt
  <2>2. CASE s = <<u, t>> \/ s = <<Mirror, t>>
    BY <2>2, <1>6, <1>9, <1>10, <1>t, PairFlips
  <2> QED BY <2>1, <2>2, <1>9, <1>10
<1>12. PICK f \in [Sides -> Halves \cup {NoHalf}] : f = disk
  BY <1>t DEF Stored
<1>13. writes = <<>> /\ tab = NoTab /\ Range(<<>>) = {}
  BY DEF Init, Range
<1>14. Aim(f)
  BY <1>11, <1>12, <1>13, <1>t, <1>o DEF Aim, Leads, InTab, Paired, Matched, Fitting, FittingAt, Opposing
<1> QED BY <1>13, <1>14 DEF SInv

LEMMA SymmetryHolds == ASSUME Overlap = {} PROVE Spec => [](TInv /\ SInv)
<1>1. TInv /\ SInv /\ [Next]_vars => (TInv /\ SInv)'
  BY TypeStep, SymmetryStep
<1>2. Init => TInv /\ SInv
  BY TypeInit, SymmetryInit
<1> QED BY <1>1, <1>2, PTL DEF Spec

\* With one panel at work at a time the two halves of every relationship agree
\* whenever no call is at work and none was cut short since a Reconcile reported
\* nothing; and only a crash leaves a pair with one direction.
THEOREM HalvesAgree == ASSUME Overlap = {} PROVE Spec => []Symmetric
<1>1. TInv /\ SInv => Symmetric
  <2> SUFFICES ASSUME TInv, SInv, writes = <<>>
               PROVE  /\ ~ torn => \A s \in Sides : Agree(s)
                      /\ \A s \in Sides \ turned : Opposite(s)
    BY DEF Symmetric
  <2>1. PICK f \in [Sides -> Halves \cup {NoHalf}] : Aim(f)
    BY DEF SInv
  <2>2. /\ Opposing(disk)
        /\ ~ torn => Paired(disk) /\ Matched(disk)
    BY <2>1, Arrived DEF TInv, Aim
  <2>3. ASSUME ~ torn, NEW s \in Sides PROVE Agree(s)
    BY <2>2, <2>3 DEF Agree, Paired, PairedAt, Matched, MatchedAt, Has
  <2>4. ASSUME NEW s \in Sides \ turned PROVE Opposite(s)
    BY <2>2 DEF Opposing, OpposedAt, Opposite, Has
  <2> QED BY <2>3, <2>4
<1> QED BY <1>1, SymmetryHolds, PTL

\* As long as no call was cut short no step makes a half exceed the cardinality
\* it keeps, though AddEdge checks the source's half only.
THEOREM CardinalityKept == ASSUME Overlap = {} PROVE Spec => LinksFit
<1>1. TInv /\ SInv /\ [Next]_vars =>
        [~ torn => \A s \in Sides :
             (Has(s) /\ Has(s)' /\ disk[s].card = disk'[s].card /\ Fits(disk[s])) => Fits(disk'[s])]_vars
  <2> SUFFICES ASSUME TInv, SInv, [Next]_vars, ~ torn, NEW s \in Sides,
                      Has(s), Has(s)', disk[s].card = disk'[s].card, Fits(disk[s])
               PROVE  Fits(disk'[s])
    OBVIOUS
  <2>1. TInv'
    BY TypeStep
  <2>2. FittingAt(disk, disk', s)
    BY <2>1, SymmetryStep DEF Fitting
  <2> QED BY <2>2 DEF FittingAt, Has
<1> QED BY <1>1, SymmetryHolds, PTL DEF Spec, LinksFit

----------------------------------------------------------------------------
(* A record and its links.  While a record is reconciled nothing else is   *)
(* at work, and what a call still has to write lies in other files: the    *)
(* halves the record's template owns are already what they will be.        *)

LEMMA TemplateUnique ==
    ASSUME NEW t \in Templates, NEW r \in RecordsOf[t]
    PROVE  r \in Ids /\ TemplateOf(r) = t
<1>1. r \in Ids
  BY DEF Ids
<1>2. TemplateOf(r) \in Templates /\ r \in RecordsOf[TemplateOf(r)]
  BY <1>1, RecordsTyped
<1> QED BY <1>1, <1>2, RecordsAreOwn

\* The first write of AddEdge and RemoveEdge is to the side itself, the second
\* to a file of another template, or to the mirror.
LEMMA AddCall ==
    ASSUME TInv, NEW s \in Templates \X Templates, NEW e \in EdgesOf(s),
           Call(AddEdge(s, e)), Has(s)
    PROVE  /\ Has(s)' /\ disk'[s].card = disk[s].card /\ disk'[s].edges = disk[s].edges \cup {e}
           /\ \A x \in Sides \ {s} : disk'[x] = disk[x]
           /\ \A w \in Range(writes') : \A x \in DOMAIN w : x[1] # s[1]
<1> DEFINE h == [disk[s] EXCEPT !.edges = @ \cup {e}]
           o == Counterpart(s)
           k == IF Has(o) THEN [disk[o] EXCEPT !.edges = @ \cup Reversed({e})]
                ELSE [Flip(h) EXCEPT !.edges = Reversed({e})]
<1>1. AddEdge(s, e) = <<One(s, h), One(o, k)>>
  BY DEF AddEdge
<1>2. s \in Sides /\ disk[s] \in Halves /\ o \in Sides /\ o[1] # s[1]
  <2>1. s \in Sides /\ o \in Sides /\ s[1] # Mirror
    BY SidesApart, Counterparts
  <2>2. o[1] # s[1]
    BY <2>1 DEF Counterpart
  <2> QED BY <2>1, <2>2 DEF TInv, Stored, Has
<1>3. h.card = disk[s].card /\ h.edges = disk[s].edges \cup {e}
  BY <1>2 DEF Halves
<1>8. h # NoHalf
  <2> DEFINE E == disk[s].edges \cup {e}
  <2>1. E \in SUBSET (Ids \X Ids)
    BY <1>2, EdgesTyped DEF Halves
  <2>2. h = [disk[s] EXCEPT !.edges = E]
    OBVIOUS
  <2> HIDE DEF E, h
  <2>3. h \in Halves
    BY <1>2, <2>1, <2>2 DEF Halves
  <2> QED BY <2>3, MenuAssumption
<1> HIDE DEF h, k, o
<1>4. disk' = SavedWith(disk, One(s, h)) /\ writes' = <<One(o, k)>>
  BY <1>1 DEF Call
<1>5. DOMAIN One(s, h) = {s} /\ One(s, h)[s] = h /\ DOMAIN One(o, k) = {o}
  BY DEF One
<1>6. disk'[s] = h /\ \A x \in Sides \ {s} : disk'[x] = disk[x]
  BY <1>2, <1>4, <1>5 DEF SavedWith
<1>7. Range(writes') = {One(o, k)}
  BY <1>4 DEF Range
<1> QED BY <1>2, <1>3, <1>5, <1>6, <1>7, <1>8 DEF Has

LEMMA RemoveCall ==
    ASSUME TInv, NEW s \in Templates \X Templates, NEW e, Call(RemoveEdge(s, e)), Has(s)
    PROVE  /\ Has(s)' /\ disk'[s].card = disk[s].card /\ disk'[s].edges = disk[s].edges \ {e}
           /\ \A x \in Sides \ {s} : disk'[x] = disk[x]
           /\ \A w \in Range(writes') : \A x \in DOMAIN w : x[1] # s[1]
<1> DEFINE h == [disk[s] EXCEPT !.edges = @ \ {e}]
           o == Counterpart(s)
           k == [disk[o] EXCEPT !.edges = @ \ Reversed({e})]
           rest == IF Has(o) THEN <<One(o, k)>> ELSE <<>>
<1>1. RemoveEdge(s, e) = <<One(s, h)>> \o rest
  BY DEF RemoveEdge
<1>2. s \in Sides /\ disk[s] \in Halves /\ o \in Sides /\ o[1] # s[1]
  <2>1. s \in Sides /\ o \in Sides /\ s[1] # Mirror
    BY SidesApart, Counterparts
  <2>2. o[1] # s[1]
    BY <2>1 DEF Counterpart
  <2> QED BY <2>1, <2>2 DEF TInv, Stored, Has
<1>3. h.card = disk[s].card /\ h.edges = disk[s].edges \ {e} /\ h \in Halves
  BY <1>2 DEF Halves
<1>4. RemoveEdge(s, e) \in Seq(StoredWrites) /\ rest \in Seq(StoredWrites)
  <2>1. RemoveEdge(s, e) \in Seq(StoredWrites)
    BY <1>2, RemoveEdgeTyped DEF TInv
  <2>2. CASE Has(o)
    <3>1. HalfAt(o, k)
      BY <1>2, <2>2 DEF HalfAt, Halves, TInv, Stored, Has
    <3> HIDE DEF k, o
    <3>2. One(o, k) \in StoredWrites
      BY <1>2, <3>1, OneTyped
    <3> QED BY <2>1, <2>2, <3>2
  <2>3. CASE ~ Has(o)
    <3>1. rest = <<>>
      BY <2>3
    <3> QED BY <2>1, <3>1
  <2> QED BY <2>2, <2>3
<1>r. \A w \in Range(rest) : DOMAIN w = {o}
  <2>1. DOMAIN One(o, k) = {o}
    BY DEF One
  <2> HIDE DEF k, o
  <2>2. CASE Has(o)
    BY <2>1, <2>2 DEF Range
  <2>3. CASE ~ Has(o)
    BY <2>3 DEF Range
  <2> QED BY <2>2, <2>3
<1> HIDE DEF h, k, o, rest
<1>5. RemoveEdge(s, e) # <<>> /\ Head(RemoveEdge(s, e)) = One(s, h) /\ Tail(RemoveEdge(s, e)) = rest
  <2> DEFINE a == One(s, h)
  <2>1. a \in StoredWrites
    <3>e. disk[s].edges \subseteq EdgesOf(s)
      BY <1>2, MenuAssumption DEF TInv, Stored, HalfAt
    <3>1. HalfAt(s, h)
      BY <1>3, <3>e DEF HalfAt
    <3> QED BY <1>2, <3>1, OneTyped
  <2> HIDE DEF a
  <2>2. /\ <<a>> \o rest # <<>> /\ Head(<<a>> \o rest) = a /\ Tail(<<a>> \o rest) = rest
    BY <1>4, <2>1
  <2> QED BY <1>1, <2>2 DEF a
<1>6. disk' = SavedWith(disk, One(s, h)) /\ writes' = rest
  BY <1>5 DEF Call
<1>7. DOMAIN One(s, h) = {s} /\ One(s, h)[s] = h
  BY DEF One
<1>8. disk'[s] = h /\ \A x \in Sides \ {s} : disk'[x] = disk[x]
  BY <1>2, <1>6, <1>7 DEF SavedWith
<1> QED BY <1>2, <1>3, <1>6, <1>8, <1>r, MenuAssumption DEF Has

\* What a record is linked to, and may be linked to, is told by the halves its
\* template owns.
LEMMA LinksStill ==
    ASSUME NEW r \in Ids, live' = live,
           \A u \in Templates : disk'[<<TemplateOf(r), u>>] = disk[<<TemplateOf(r), u>>]
    PROVE  LinkedTo(r)' = LinkedTo(r) /\ \A x \in Ids : Linkable(r, x)' = Linkable(r, x)
<1>1. \A x \in Ids : disk'[Side(r, x)] = disk[Side(r, x)]
  BY RecordsTyped DEF Side
<1>2. OwnedBy(r) \subseteq Ids
  BY LinkedTyped
<1>3. LinkedTo(r)' = LinkedTo(r)
  BY <1>1, <1>2 DEF LinkedTo, OwnedBy, Has, Side
<1>4. \A x \in Ids : Linkable(r, x)' = Linkable(r, x)
  BY <1>1 DEF Linkable, MayAdd, Has, Side
<1> QED BY <1>3, <1>4

Settled(r)   == \A x \in refs[r] : ~ Linkable(r, x)
Reflected(r) == LinkedTo(r) \subseteq refs[r]

\* How far the reconciliation of a record has come.
JInv ==
    job # Idle =>
        /\ \A w \in Range(writes) : \A s \in DOMAIN w : s[1] # TemplateOf(job.host)
        /\ job.phase \in {"heal", "sync", "done"} => writes = <<>> /\ job.adds = {} /\ job.drains = {}
        /\ job.phase = "healing" =>
              job.drains = {} /\ \A x \in refs[job.host] : x \in job.adds \/ ~ Linkable(job.host, x)
        /\ job.phase \in {"sync", "syncing"} => job.kind = "save"
        /\ job.phase = "syncing" => LinkedTo(job.host) \subseteq refs[job.host] \cup job.drains
        /\ job.adds \subseteq refs[job.host]
        /\ job.phase = "done" => /\ job.kind = "open" => Settled(job.host)
                                 /\ job.kind = "save" => Reflected(job.host)

\* A step that changes nothing a job looks at.
LEMMA JobStill ==
    ASSUME TInv, TInv', JInv, job' = job, refs' = refs, live' = live,
           \A w \in Range(writes') : w \in Range(writes), writes = <<>> => writes' = <<>>,
           job # Idle => \A u \in Templates : disk'[<<TemplateOf(job.host), u>>] = disk[<<TemplateOf(job.host), u>>]
    PROVE  JInv'
<1> SUFFICES ASSUME job # Idle PROVE JInv'
  BY DEF JInv
<1>1. job \in Jobs /\ job.host \in Ids /\ refs[job.host] \in SUBSET Ids
  BY DEF TInv, Jobs
<1>2. PICK r \in Ids : r = job.host
  BY <1>1
<1>3. LinkedTo(r)' = LinkedTo(r) /\ \A x \in Ids : Linkable(r, x)' = Linkable(r, x)
  BY <1>2, LinksStill
<1>4. job'.host = r
  BY <1>2
<1>5. Settled(r) => Settled(r)'
  BY <1>1, <1>2, <1>3 DEF Settled
<1>6. Reflected(r) => Reflected(r)'
  BY <1>3 DEF Reflected
<1> QED BY <1>1, <1>2, <1>3, <1>4, <1>5, <1>6 DEF JInv

LEMMA JobStarts ==
    ASSUME TInv, writes = <<>>, writes' = writes, NEW r \in Ids, NEW kind \in {"open", "save"}, Start(kind, r)
    PROVE  JInv'
<1>1. Range(<<>>) = {}
  BY DEF Range
<1>2. job'.phase = "heal" /\ job'.adds = {} /\ job'.drains = {} /\ job'.kind = kind
  BY DEF Start
<1> QED BY <1>1, <1>2 DEF JInv

LEMMA JobStep ==
    ASSUME Overlap = {}, TInv, TInv', SInv, JInv, [Next]_vars
    PROVE  JInv'
<1>a. Alone <=> job = Idle /\ pass = NoPass
  BY DEF Alone
<1>i. ASSUME job' = Idle PROVE JInv'
  BY <1>i DEF JInv
<1>s. ASSUME disk' = disk, writes' = writes, live' = live, refs' = refs, job' = job PROVE JInv'
  BY <1>s, JobStill
<1>1. ASSUME NEW s \in Templates \X Templates, NEW e \in Edges(s), LinkRecords(s, e) PROVE JInv'
  BY <1>1, <1>a, <1>i DEF LinkRecords
<1>2. ASSUME NEW s \in Templates \X Templates, NEW e \in Edges(s), UnlinkRecords(s, e) PROVE JInv'
  BY <1>2, <1>a, <1>i DEF UnlinkRecords
<1>3. ASSUME NEW t \in Templates, TabLoad(t) PROVE JInv'
  BY <1>3, <1>s DEF TabLoad
<1>4. ASSUME NEW old \in Templates, NEW u \in Templates, NEW c \in Menu, NEW inv \in BOOLEAN,
             TabApply(old, u, c, inv) PROVE JInv'
  BY <1>4, <1>a, <1>i DEF TabApply, Send
<1>5. ASSUME NEW u \in Templates, TabRemove(u) PROVE JInv'
  BY <1>5, <1>a, <1>i DEF TabRemove, Send
<1>6. ASSUME TabLeave PROVE JInv'
  BY <1>6, <1>s DEF TabLeave
<1>7. ASSUME StartReconcile PROVE JInv'
  BY <1>7, <1>a, <1>i DEF StartReconcile
<1>8. ASSUME WriteNext PROVE JInv'
  <2>1. /\ writes # <<>> /\ writes \in Seq(StoredWrites)
        /\ disk' = SavedWith(disk, Head(writes)) /\ writes' = Tail(writes)
        /\ live' = live /\ refs' = refs /\ job' = job
    BY <1>8 DEF WriteNext, TInv
  <2>2. Head(writes) \in Range(writes) /\ \A w \in Range(Tail(writes)) : w \in Range(writes)
    <3>1. Len(writes) \in Nat \ {0} /\ DOMAIN writes = 1 .. Len(writes) /\ Head(writes) = writes[1]
      BY <2>1
    <3>2. /\ DOMAIN Tail(writes) = 1 .. Len(writes) - 1
          /\ \A i \in 1 .. Len(writes) - 1 : Tail(writes)[i] = writes[i + 1] /\ i + 1 \in DOMAIN writes
      BY <2>1
    <3>3. 1 \in DOMAIN writes
      BY <3>1
    <3> QED BY <3>1, <3>2, <3>3 DEF Range
  <2>3. ASSUME job # Idle, NEW u \in Templates
        PROVE  disk'[<<TemplateOf(job.host), u>>] = disk[<<TemplateOf(job.host), u>>]
    <3>1. job.host \in Ids
      BY <2>3 DEF TInv, Jobs
    <3>2. PICK s \in Sides : s = <<TemplateOf(job.host), u>>
      BY <3>1, RecordsTyped, SidesApart
    <3>3. s \notin DOMAIN Head(writes)
      BY <2>2, <2>3, <3>2 DEF JInv
    <3>4. disk'[s] = disk[s]
      BY <2>1, <3>3 DEF SavedWith
    <3> QED BY <3>2, <3>4
  <2>4. \A w \in Range(writes') : w \in Range(writes)
    BY <2>1, <2>2
  <2> QED BY <2>1, <2>3, <2>4, JobStill
<1>9. ASSUME EndReconcile PROVE JInv'
  BY <1>9, <1>s DEF EndReconcile
<1>10. ASSUME Crash PROVE JInv'
  BY <1>10, <1>i DEF Crash
<1>11. ASSUME NEW r \in Ids, DeleteRecord(r) PROVE JInv'
  BY <1>11, <1>a, <1>i DEF DeleteRecord
<1>12. ASSUME NEW r \in Ids, OpenRecord(r) PROVE JInv'
  BY <1>12, JobStarts DEF OpenRecord
<1>13. ASSUME NEW r \in Ids, NEW new \in MayRefer(r), SaveRecord(r, new) PROVE JInv'
  BY <1>13, JobStarts DEF SaveRecord
\* The steps of the job itself.
<1>w. ASSUME writes' = <<>> PROVE \A w \in Range(writes') : \A s \in DOMAIN w : s[1] # TemplateOf(job'.host)
  <2>1. Range(<<>>) = {}
    BY DEF Range
  <2> QED BY <1>w, <2>1
<1>14. ASSUME JobRead PROVE JInv'
  <2>1. /\ job # Idle /\ job \in Jobs /\ writes = <<>> /\ job.phase \in {"heal", "sync"}
        /\ disk' = disk /\ writes' = <<>> /\ live' = live /\ refs' = refs
    BY <1>14 DEF JobRead, Idle, TInv
  <2>2. PICK r \in Ids : r = job.host
    BY <2>1 DEF Jobs
  <2>3. /\ job'.kind = job.kind /\ job'.host = r
        /\ job'.phase = (IF job.phase = "heal" THEN "healing" ELSE "syncing")
        /\ job'.adds = EdgesToAdd(r)
        /\ job'.drains = (IF job.phase = "sync" THEN EdgesToDrain(r) ELSE {})
    BY <1>14, <2>1, <2>2, ReadTyped DEF TInv
  <2>4. LinkedTo(r)' = LinkedTo(r) /\ \A x \in Ids : Linkable(r, x)' = Linkable(r, x)
    BY <2>1, LinksStill
  <2>5. refs[r] \in SUBSET Ids
    BY DEF TInv
  <2>6. \A x \in refs[r] : x \in EdgesToAdd(r) \/ ~ Linkable(r, x)
    BY DEF EdgesToAdd, LinkedTo, Linkable, MayAdd
  <2>7. LinkedTo(r) \subseteq refs[r] \cup EdgesToDrain(r)
    BY DEF EdgesToDrain
  <2>8. EdgesToAdd(r) \subseteq refs[r]
    BY DEF EdgesToAdd
  <2>9. CASE job.phase = "heal"
    BY <2>1, <2>3, <2>4, <2>5, <2>6, <2>8, <2>9, <1>w DEF JInv
  <2>10. CASE job.phase = "sync"
    <3>1. job.kind = "save"
      BY <2>1, <2>10 DEF JInv
    <3> QED BY <2>1, <2>3, <2>4, <2>5, <2>7, <2>8, <2>10, <3>1, <1>w DEF JInv
  <2> QED BY <2>1, <2>9, <2>10
<1>15. ASSUME JobNext PROVE JInv'
  <2>1. /\ job # Idle /\ job \in Jobs /\ writes = <<>> /\ job.phase \in {"healing", "syncing"}
        /\ job.adds = {} /\ job.drains = {}
        /\ disk' = disk /\ writes' = <<>> /\ live' = live /\ refs' = refs
    BY <1>15 DEF JobNext, Idle, TInv
  <2>2. PICK r \in Ids : r = job.host
    BY <2>1 DEF Jobs
  <2>3. /\ job'.kind = job.kind /\ job'.host = r /\ job'.adds = {} /\ job'.drains = {}
        /\ job'.phase = (IF job.phase = "healing" /\ job.kind = "save" THEN "sync" ELSE "done")
    BY <1>15, <2>1, <2>2 DEF JobNext, Jobs
  <2>4. LinkedTo(r)' = LinkedTo(r) /\ \A x \in Ids : Linkable(r, x)' = Linkable(r, x)
    BY <2>1, LinksStill
  <2>5. refs[r] \in SUBSET Ids
    BY DEF TInv
  <2>6. CASE job.phase = "healing"
    <3>1. \A x \in refs[r] : ~ Linkable(r, x)
      BY <2>1, <2>2, <2>6 DEF JInv
    <3>2. Settled(r)'
      BY <2>1, <2>4, <2>5, <3>1 DEF Settled
    <3>3. job.kind \in {"open", "save"}
      BY <2>1 DEF Jobs
    <3> QED BY <2>1, <2>3, <2>6, <3>2, <3>3, <1>w DEF JInv
  <2>7. CASE job.phase = "syncing"
    <3>1. LinkedTo(r) \subseteq refs[r] /\ job.kind = "save"
      BY <2>1, <2>2, <2>7 DEF JInv
    <3>2. Reflected(r)'
      BY <2>1, <2>4, <3>1 DEF Reflected
    <3> QED BY <2>1, <2>3, <2>7, <3>1, <3>2, <1>w DEF JInv
  <2> QED BY <2>1, <2>6, <2>7
<1>16. ASSUME JobEnd PROVE JInv'
  BY <1>16, <1>i DEF JobEnd
<1>17. ASSUME NEW x \in Ids, JobAdd(x) PROVE JInv'
  <2>1. /\ job # Idle /\ job \in Jobs /\ writes = <<>> /\ x \in job.adds
        /\ live' = live /\ refs' = refs
    BY <1>17 DEF JobAdd, Idle, TInv
  <2>2. PICK r \in Ids : r = job.host
    BY <2>1 DEF Jobs
  <2>3. /\ job'.kind = job.kind /\ job'.host = r /\ job'.phase = job.phase
        /\ job'.adds = job.adds \ {x} /\ job'.drains = job.drains
    BY <1>17, <2>1, <2>2 DEF JobAdd, Jobs
  <2>4. job.phase \in {"healing", "syncing"}
    BY <2>1 DEF JInv, Jobs, Phases
  <2>5. refs[r] \in SUBSET Ids /\ x \in refs[r]
    BY <2>1, <2>2 DEF TInv, JInv
  <2> DEFINE s == Side(r, x)
             e == <<r, x>>
  <2>6. s \in Templates \X Templates /\ s \in Sides /\ e \in EdgesOf(s) /\ s[1] = TemplateOf(r)
    BY SideTyped
  <2>7. /\ LinkedTo(r)' \subseteq LinkedTo(r) \cup {x}
        /\ \A y \in Ids : ~ Linkable(r, y) => ~ Linkable(r, y)'
        /\ ~ Linkable(r, x)'
        /\ \A w \in Range(writes') : \A z \in DOMAIN w : z[1] # TemplateOf(r)
    <3>1. CASE MayAdd(s, e)
      <4>1. Call(AddEdge(s, e)) /\ Has(s)
        BY <1>17, <2>2, <3>1 DEF JobAdd, MayAdd
      <4> HIDE DEF s, e
      <4>2. /\ Has(s)' /\ disk'[s].card = disk[s].card /\ disk'[s].edges = disk[s].edges \cup {e}
            /\ \A z \in Sides \ {s} : disk'[z] = disk[z]
            /\ \A w \in Range(writes') : \A z \in DOMAIN w : z[1] # s[1]
        BY <2>6, <4>1, AddCall
      <4>3. ASSUME NEW y \in Ids
            PROVE  /\ Has(Side(r, y))' /\ <<r, y>> \in disk'[Side(r, y)].edges =>
                        y = x \/ (Has(Side(r, y)) /\ <<r, y>> \in disk[Side(r, y)].edges)
                   /\ ~ Linkable(r, y) => ~ Linkable(r, y)'
        <5>1. PICK z \in Sides : z = Side(r, y)
          BY SideTyped
        <5>2. CASE z = s
          <6>1. ~ MayAdd(z, <<r, y>>) => ~ MayAdd(z, <<r, y>>)'
            BY <2>1, <4>1, <4>2, <5>2 DEF MayAdd, CheckCardinality
          <6>2. <<r, y>> = e => y = x
            BY DEF e
          <6> QED BY <4>1, <4>2, <5>1, <5>2, <6>1, <6>2 DEF Linkable, Side
        <5>3. CASE z # s
          <6>1. disk'[z] = disk[z]
            BY <4>2, <5>3
          <6>2. ~ MayAdd(z, <<r, y>>) => ~ MayAdd(z, <<r, y>>)'
            BY <2>1, <6>1 DEF MayAdd, Has
          <6> QED BY <5>1, <6>1, <6>2 DEF Linkable, Side, Has
        <5> QED BY <5>2, <5>3
      <4>4. LinkedTo(r)' \subseteq LinkedTo(r) \cup {x}
        <5>1. OwnedBy(r) \subseteq Ids
          BY LinkedTyped
        <5>2. LinkedTo(r)' = { y \in OwnedBy(r) : Has(Side(r, y))' /\ <<r, y>> \in disk'[Side(r, y)].edges }
          BY DEF LinkedTo, OwnedBy, Side
        <5> QED BY <4>3, <5>1, <5>2 DEF LinkedTo
      <4>5. ~ Linkable(r, x)'
        BY <4>2 DEF Linkable, MayAdd, s, e
      <4> QED BY <2>6, <4>2, <4>3, <4>4, <4>5
    <3>2. CASE ~ MayAdd(s, e)
      <4>1. Call(<<>>)
        BY <1>17, <2>2, <3>2 DEF JobAdd
      <4>2. disk' = disk /\ writes' = <<>>
        BY <2>1, <4>1 DEF Call
      <4>3. LinkedTo(r)' = LinkedTo(r) /\ \A y \in Ids : Linkable(r, y)' = Linkable(r, y)
        BY <2>1, <4>2, LinksStill
      <4>4. ~ Linkable(r, x)
        BY <3>2 DEF Linkable
      <4> QED BY <2>3, <4>2, <4>3, <4>4, <1>w
    <3> QED BY <3>1, <3>2
  <2>8. CASE job.phase = "healing"
    <3>1. job.drains = {} /\ \A y \in refs[r] : y \in job.adds \/ ~ Linkable(r, y)
      BY <2>1, <2>2, <2>8 DEF JInv
    <3>2. \A y \in refs'[r] : y \in job'.adds \/ ~ Linkable(r, y)'
      BY <2>1, <2>3, <2>5, <2>7, <3>1
    <3>3. job.adds \subseteq refs[r]
      BY <2>1, <2>2 DEF JInv
    <3> QED BY <2>1, <2>3, <2>7, <2>8, <3>1, <3>2, <3>3 DEF JInv
  <2>9. CASE job.phase = "syncing"
    <3>1. LinkedTo(r) \subseteq refs[r] \cup job.drains /\ job.adds \subseteq refs[r] /\ job.kind = "save"
      BY <2>1, <2>2, <2>9 DEF JInv
    <3>2. LinkedTo(r)' \subseteq refs'[r] \cup job'.drains
      BY <2>1, <2>3, <2>5, <2>7, <3>1
    <3> QED BY <2>1, <2>3, <2>7, <2>9, <3>1, <3>2 DEF JInv
  <2> QED BY <2>4, <2>8, <2>9
<1>18. ASSUME NEW x \in Ids, JobDrain(x) PROVE JInv'
  <2>1. /\ job # Idle /\ job \in Jobs /\ writes = <<>> /\ x \in job.drains
        /\ live' = live /\ refs' = refs
    BY <1>18 DEF JobDrain, Idle, TInv
  <2>2. PICK r \in Ids : r = job.host
    BY <2>1 DEF Jobs
  <2>3. /\ job'.kind = job.kind /\ job'.host = r /\ job'.phase = job.phase
        /\ job'.adds = job.adds /\ job'.drains = job.drains \ {x}
    BY <1>18, <2>1, <2>2 DEF JobDrain, Jobs
  <2>4. job.phase = "syncing"
    BY <2>1 DEF JInv, Jobs, Phases
  <2> DEFINE s == Side(r, x)
             e == <<r, x>>
  <2>6. s \in Templates \X Templates /\ s \in Sides /\ s[1] = TemplateOf(r)
    BY SideTyped
  <2>7. /\ LinkedTo(r)' \subseteq LinkedTo(r) \ {x}
        /\ \A w \in Range(writes') : \A z \in DOMAIN w : z[1] # TemplateOf(r)
    <3>1. CASE MayRemove(s, e)
      <4>1. Call(RemoveEdge(s, e)) /\ Has(s)
        BY <1>18, <2>2, <3>1 DEF JobDrain, MayRemove
      <4> HIDE DEF s, e
      <4>2. /\ Has(s)' /\ disk'[s].card = disk[s].card /\ disk'[s].edges = disk[s].edges \ {e}
            /\ \A z \in Sides \ {s} : disk'[z] = disk[z]
            /\ \A w \in Range(writes') : \A z \in DOMAIN w : z[1] # s[1]
        BY <2>6, <4>1, RemoveCall
      <4>3. ASSUME NEW y \in Ids, Has(Side(r, y))', <<r, y>> \in disk'[Side(r, y)].edges
            PROVE  y # x /\ Has(Side(r, y)) /\ <<r, y>> \in disk[Side(r, y)].edges
        <5>1. PICK z \in Sides : z = Side(r, y)
          BY SideTyped
        <5>2. <<r, y>> \in disk'[z].edges /\ disk'[z] # NoHalf
          BY <4>3, <5>1 DEF Has, Side
        <5>3. CASE z = s
          BY <4>1, <4>2, <5>1, <5>2, <5>3 DEF e
        <5>4. CASE z # s
          BY <4>2, <5>1, <5>2, <5>4 DEF s, Has
        <5> QED BY <5>3, <5>4
      <4>4. LinkedTo(r)' \subseteq LinkedTo(r) \ {x}
        <5>1. OwnedBy(r) \subseteq Ids
          BY LinkedTyped
        <5>2. LinkedTo(r)' = { y \in OwnedBy(r) : Has(Side(r, y))' /\ <<r, y>> \in disk'[Side(r, y)].edges }
          BY DEF LinkedTo, OwnedBy, Side
        <5> QED BY <4>3, <5>1, <5>2 DEF LinkedTo
      <4> QED BY <2>6, <4>2, <4>4
    <3>2. CASE ~ MayRemove(s, e)
      <4>1. Call(<<>>)
        BY <1>18, <2>2, <3>2 DEF JobDrain
      <4>2. disk' = disk /\ writes' = <<>>
        BY <2>1, <4>1 DEF Call
      <4>3. LinkedTo(r)' = LinkedTo(r)
        BY <2>1, <4>2, LinksStill
      <4>4. x \notin LinkedTo(r)
        BY <3>2 DEF LinkedTo, MayRemove
      <4> QED BY <2>3, <4>2, <4>3, <4>4, <1>w
    <3> QED BY <3>1, <3>2
  <2>8. LinkedTo(r) \subseteq refs[r] \cup job.drains /\ job.adds \subseteq refs[r] /\ job.kind = "save"
    BY <2>1, <2>2, <2>4 DEF JInv
  <2>9. LinkedTo(r)' \subseteq refs'[r] \cup job'.drains
    BY <2>1, <2>3, <2>7, <2>8
  <2> QED BY <2>1, <2>3, <2>4, <2>7, <2>8, <2>9 DEF JInv
<1>19. ASSUME NEW t \in Templates, NEW u \in Templates, StartSync(t, u) PROVE JInv'
  BY <1>19, <1>a, <1>i DEF StartSync
<1>20. ASSUME NEW r \in Ids, SyncRecord(r) PROVE JInv'
  BY <1>20, <1>i, JobStarts DEF SyncRecord
<1>21. ASSUME EndSync PROVE JInv'
  BY <1>21, <1>i DEF EndSync
<1>22. ASSUME UNCHANGED vars PROVE JInv'
  BY <1>22, <1>s DEF vars
<1> QED BY <1>1, <1>2, <1>3, <1>4, <1>5, <1>6, <1>7, <1>8, <1>9, <1>10, <1>11, <1>12, <1>13,
           <1>14, <1>15, <1>16, <1>17, <1>18, <1>19, <1>20, <1>21, <1>22 DEF Next

\* When a record has been opened or saved, its references and its links agree
\* as far as the cardinalities allow.
THEOREM FieldsSettle == ASSUME Overlap = {} PROVE Spec => []ReferencesSettle
<1>1. Init => JInv
  BY DEF Init, JInv
<1>2. TInv /\ SInv /\ JInv /\ [Next]_vars => JInv'
  BY TypeStep, JobStep
<1>3. JInv => ReferencesSettle
  BY DEF JInv, ReferencesSettle, Settled, Reflected
<1> QED BY <1>1, <1>2, <1>3, SymmetryHolds, PTL DEF Spec

----------------------------------------------------------------------------
(* "Synchronize from relations": each record saved changes links, but of   *)
(* those the pass has read only the ones to records that are gone.         *)

Linked(r, x) ==
    LET s == <<pass.template, pass.target>> IN Has(s) /\ <<r, x>> \in disk[s].edges

PInv ==
    pass # NoPass =>
        /\ pass.left \subseteq RecordsOf[pass.template] \cap live
        /\ pass.target \in Fields[pass.template]
        /\ \A r \in RecordsOf[pass.template] : \A x \in RecordsOf[pass.target] \cap live :
              <<r, x>> \in pass.edges <=> Linked(r, x)
        /\ \A r \in (RecordsOf[pass.template] \cap live) \ pass.left : FieldNow(r) = FieldFromEdges(r)
        /\ job = Idle => writes = <<>>
        /\ job # Idle => /\ job.host \in (RecordsOf[pass.template] \cap live) \ pass.left
                         /\ job.adds \cap RecordsOf[pass.target] = {}
                         /\ job.drains \cap RecordsOf[pass.target] \cap live = {}

\* A step of the job within a pass.
LEMMA PassStill ==
    ASSUME TInv, PInv, pass # NoPass, pass' = pass, refs' = refs, live' = live,
           \A r \in RecordsOf[pass.template] : \A x \in RecordsOf[pass.target] \cap live :
               Linked(r, x)' <=> Linked(r, x),
           job' = Idle => writes' = <<>>,
           job' # Idle => /\ job'.host \in (RecordsOf[pass.template] \cap live) \ pass.left
                          /\ job'.adds \cap RecordsOf[pass.target] = {}
                          /\ job'.drains \cap RecordsOf[pass.target] \cap live = {}
    PROVE  PInv'
<1>1. ASSUME NEW r \in Ids PROVE FieldNow(r)' = FieldNow(r) /\ FieldFromEdges(r)' = FieldFromEdges(r)
  BY DEF FieldNow, FieldFromEdges
<1>2. RecordsOf[pass.template] \subseteq Ids
  BY DEF TInv, Passes, Ids
<1> QED BY <1>1, <1>2 DEF PInv

LEMMA PassStep ==
    ASSUME Overlap = {}, TInv, TInv', SInv, JInv, PInv, [Next]_vars
    PROVE  PInv'
<1>a. Alone <=> job = Idle /\ pass = NoPass
  BY DEF Alone
<1>n. ASSUME pass' = NoPass PROVE PInv'
  BY <1>n DEF PInv
\* A step that changes nothing a pass looks at.
<1>s. ASSUME disk' = disk, writes' = writes, live' = live, refs' = refs, job' = job, pass' = pass PROVE PInv'
  <2>1. CASE pass # NoPass
    <3>1. \A r \in RecordsOf[pass.template] : \A x \in RecordsOf[pass.target] \cap live :
             Linked(r, x)' <=> Linked(r, x)
      BY <1>s DEF Linked, Has
    <3>2. /\ job' = Idle => writes' = <<>>
          /\ job' # Idle => /\ job'.host \in (RecordsOf[pass.template] \cap live) \ pass.left
                            /\ job'.adds \cap RecordsOf[pass.target] = {}
                            /\ job'.drains \cap RecordsOf[pass.target] \cap live = {}
      BY <1>s, <2>1 DEF PInv
    <3> QED BY <1>s, <2>1, <3>1, <3>2, PassStill
  <2> QED BY <2>1, <1>n, <1>s
<1>1. ASSUME NEW s \in Templates \X Templates, NEW e \in Edges(s), LinkRecords(s, e) PROVE PInv'
  BY <1>1, <1>a, <1>n DEF LinkRecords
<1>2. ASSUME NEW s \in Templates \X Templates, NEW e \in Edges(s), UnlinkRecords(s, e) PROVE PInv'
  BY <1>2, <1>a, <1>n DEF UnlinkRecords
<1>3. ASSUME NEW t \in Templates, TabLoad(t) PROVE PInv'
  BY <1>3, <1>s DEF TabLoad
<1>4. ASSUME NEW old \in Templates, NEW u \in Templates, NEW c \in Menu, NEW inv \in BOOLEAN,
             TabApply(old, u, c, inv) PROVE PInv'
  BY <1>4, <1>a, <1>n DEF TabApply, Send
<1>5. ASSUME NEW u \in Templates, TabRemove(u) PROVE PInv'
  BY <1>5, <1>a, <1>n DEF TabRemove, Send
<1>6. ASSUME TabLeave PROVE PInv'
  BY <1>6, <1>s DEF TabLeave
<1>7. ASSUME StartReconcile PROVE PInv'
  BY <1>7, <1>a, <1>n DEF StartReconcile
<1>9. ASSUME EndReconcile PROVE PInv'
  BY <1>9, <1>s DEF EndReconcile
<1>10. ASSUME Crash PROVE PInv'
  BY <1>10, <1>n DEF Crash
<1>11. ASSUME NEW r \in Ids, DeleteRecord(r) PROVE PInv'
  BY <1>11, <1>a, <1>n DEF DeleteRecord
<1>12. ASSUME NEW r \in Ids, OpenRecord(r) PROVE PInv'
  BY <1>12, <1>a, <1>n DEF OpenRecord
<1>13. ASSUME NEW r \in Ids, NEW new \in MayRefer(r), SaveRecord(r, new) PROVE PInv'
  BY <1>13, <1>a, <1>n DEF SaveRecord
<1>19. ASSUME NEW t \in Templates, NEW u \in Templates, StartSync(t, u) PROVE PInv'
  <2>1. /\ pass'.template = t /\ pass'.target = u /\ pass'.left = RecordsOf[t] \cap live
        /\ pass'.edges = IF Has(<<t, u>>) THEN disk[<<t, u>>].edges ELSE {}
        /\ disk' = disk /\ live' = live /\ writes' = <<>> /\ job' = Idle /\ u \in Fields[t]
    BY <1>19, <1>a DEF StartSync
  <2>2. \A r \in RecordsOf[t] : \A x \in RecordsOf[u] : <<r, x>> \in pass'.edges <=> Linked(r, x)'
    BY <2>1 DEF Linked, Has
  <2> QED BY <2>1, <2>2 DEF PInv
<1>21. ASSUME EndSync PROVE PInv'
  BY <1>21, <1>n DEF EndSync
<1>22. ASSUME UNCHANGED vars PROVE PInv'
  BY <1>22, <1>s DEF vars
\* The pass and the job: t is the template, u the target, r the record.
<1>23. CASE pass = NoPass
  <2>1. CASE pass' = NoPass
    BY <2>1, <1>n
  <2>2. ASSUME NEW r \in Ids, SyncRecord(r) PROVE FALSE
    BY <2>2, <1>23 DEF SyncRecord, NoPass
  <2>3. CASE pass' # NoPass
    <3>1. /\ WriteNext \/ JobRead \/ JobNext \/ JobEnd => pass' = pass
          /\ \A x \in Ids : JobAdd(x) \/ JobDrain(x) => pass' = pass
      BY DEF WriteNext, JobRead, JobNext, JobEnd, JobAdd, JobDrain
    <3> QED BY <1>23, <2>2, <2>3, <3>1, <1>1, <1>2, <1>3, <1>4, <1>5, <1>6, <1>7, <1>9, <1>10, <1>11,
               <1>12, <1>13, <1>19, <1>21, <1>22 DEF Next
  <2> QED BY <2>1, <2>3
<1>24. CASE pass # NoPass
  <2> DEFINE t == pass.template
             u == pass.target
  <2>1. /\ pass \in Passes /\ t \in Templates /\ u \in Templates
        /\ RecordsOf[t] \subseteq Ids /\ RecordsOf[u] \subseteq Ids
    BY <1>24 DEF TInv, Passes, Ids
  <2>2. /\ pass.left \subseteq RecordsOf[t] \cap live /\ u \in Fields[t]
        /\ \A r \in RecordsOf[t] : \A x \in RecordsOf[u] \cap live : <<r, x>> \in pass.edges <=> Linked(r, x)
        /\ \A r \in (RecordsOf[t] \cap live) \ pass.left : FieldNow(r) = FieldFromEdges(r)
        /\ job = Idle => writes = <<>>
        /\ job # Idle => /\ job.host \in (RecordsOf[t] \cap live) \ pass.left
                         /\ job.adds \cap RecordsOf[u] = {}
                         /\ job.drains \cap RecordsOf[u] \cap live = {}
    BY <1>24 DEF PInv
  \* What a step of the job has to show.
  <2>p. ASSUME job # Idle, pass' = pass, refs' = refs, live' = live,
               \A r \in RecordsOf[t] : \A x \in RecordsOf[u] \cap live : Linked(r, x)' <=> Linked(r, x),
               job'.host = job.host,
               job'.adds \cap RecordsOf[u] = {}, job'.drains \cap RecordsOf[u] \cap live = {}, job' # Idle
        PROVE  PInv'
    BY <1>24, <2>2, <2>p, PassStill
  <2>d. ASSUME disk'[<<t, u>>] = disk[<<t, u>>], pass' = pass
        PROVE  \A r \in RecordsOf[t] : \A x \in RecordsOf[u] \cap live : Linked(r, x)' <=> Linked(r, x)
    BY <2>d DEF Linked, Has
  <2>h. ASSUME job # Idle
        PROVE  job \in Jobs /\ job.host \in RecordsOf[t] /\ job.host \in Ids /\ TemplateOf(job.host) = t
    BY <2>h, <2>1, <2>2, TemplateUnique DEF TInv
  <2>i. \A j \in Jobs : j # Idle
    <3>1. Idle.kind = "idle" /\ \A j \in Jobs : j.kind # "idle"
      BY DEF Idle, Jobs
    <3> QED BY <3>1
  <2>3. ASSUME WriteNext PROVE PInv'
    <3>1. /\ writes # <<>> /\ writes \in Seq(StoredWrites) /\ job # Idle
          /\ disk' = SavedWith(disk, Head(writes)) /\ job' = job
          /\ pass' = pass /\ refs' = refs /\ live' = live
      BY <2>2, <2>3 DEF WriteNext, TInv
    <3>2. Head(writes) \in Range(writes)
      <4>1. 1 \in DOMAIN writes /\ Head(writes) = writes[1]
        BY <3>1
      <4> QED BY <4>1 DEF Range
    <3>3. PICK s \in Sides : s = <<t, u>>
      BY <2>1, SidesApart
    <3>4. s \notin DOMAIN Head(writes)
      <4>1. s[1] = TemplateOf(job.host)
        BY <2>h, <3>1, <3>3
      <4> QED BY <3>1, <3>2, <4>1 DEF JInv
    <3>5. disk'[s] = disk[s]
      BY <3>1, <3>4 DEF SavedWith
    <3>6. \A r \in RecordsOf[t] : \A x \in RecordsOf[u] \cap live : Linked(r, x)' <=> Linked(r, x)
      BY <2>d, <3>1, <3>3, <3>5
    <3> QED BY <2>2, <2>p, <3>1, <3>6
  <2>4. ASSUME JobRead PROVE PInv'
    <3>1. /\ job # Idle /\ disk' = disk /\ pass' = pass /\ refs' = refs /\ live' = live
      BY <2>4 DEF JobRead, Idle
    <3>2. PICK r \in Ids : r = job.host
      BY <2>h, <3>1
    <3>3. /\ job' \in Jobs /\ job'.host = r /\ job'.adds = EdgesToAdd(r)
          /\ job'.drains = (IF job.phase = "sync" THEN EdgesToDrain(r) ELSE {})
      BY <2>4, <2>h, <3>1, <3>2, ReadTyped DEF TInv
    <3>4. r \in (RecordsOf[t] \cap live) \ pass.left /\ TemplateOf(r) = t
      BY <2>2, <2>h, <3>1, <3>2
    <3>5. FieldNow(r) = FieldFromEdges(r)
      BY <2>2, <3>4
    <3>6. ASSUME NEW x \in RecordsOf[u]
          PROVE  x \in OwnedBy(r) /\ Side(r, x) = <<t, u>> /\ (x \in LinkedTo(r) <=> Linked(r, x))
      <4>1. TemplateOf(x) = u
        BY <2>1, TemplateUnique
      <4>2. x \in OwnedBy(r)
        BY <2>2, <3>4 DEF OwnedBy
      <4> QED BY <3>4, <4>1, <4>2 DEF Side, LinkedTo, Linked
    <3>7. EdgesToAdd(r) \cap RecordsOf[u] = {}
      <4> SUFFICES ASSUME NEW x \in RecordsOf[u], x \in refs[r] PROVE x \in LinkedTo(r)
        BY DEF EdgesToAdd
      <4>1. x \in FieldFromEdges(r)
        BY <3>5 DEF FieldNow
      <4>2. x \in live /\ <<r, x>> \in pass.edges
        BY <4>1 DEF FieldFromEdges
      <4>3. Linked(r, x)
        BY <2>2, <3>4, <4>2
      <4> QED BY <3>6, <4>3
    <3>8. EdgesToDrain(r) \cap RecordsOf[u] \cap live = {}
      <4> SUFFICES ASSUME NEW x \in RecordsOf[u], x \in live, x \in LinkedTo(r) PROVE x \in refs[r]
        BY DEF EdgesToDrain
      <4>1. <<r, x>> \in pass.edges
        BY <2>2, <3>4, <3>6
      <4>2. x \in FieldFromEdges(r)
        BY <4>1 DEF FieldFromEdges
      <4> QED BY <3>5, <4>2 DEF FieldNow
    <3>9. \A y \in RecordsOf[t] : \A x \in RecordsOf[u] \cap live : Linked(y, x)' <=> Linked(y, x)
      BY <2>d, <3>1
    <3> QED BY <2>i, <2>p, <3>1, <3>2, <3>3, <3>7, <3>8, <3>9
  <2>5. ASSUME JobNext PROVE PInv'
    <3>1. /\ job # Idle /\ disk' = disk /\ pass' = pass /\ refs' = refs /\ live' = live
      BY <2>5 DEF JobNext, Idle
    <3>2. job \in Jobs
      BY <2>h, <3>1
    <3>3. job' \in Jobs /\ job'.host = job.host /\ job'.adds = job.adds /\ job'.drains = job.drains
      BY <2>5, <3>2 DEF JobNext, Jobs, Phases
    <3>4. \A y \in RecordsOf[t] : \A x \in RecordsOf[u] \cap live : Linked(y, x)' <=> Linked(y, x)
      BY <2>d, <3>1
    <3> QED BY <2>2, <2>i, <2>p, <3>1, <3>3, <3>4
  <2>6. ASSUME JobEnd PROVE PInv'
    <3>1. /\ job # Idle /\ job.phase = "done" /\ job' = Idle /\ disk' = disk /\ writes' = writes
          /\ pass' = pass /\ refs' = refs /\ live' = live
      BY <2>6 DEF JobEnd
    <3>2. writes = <<>>
      BY <3>1 DEF JInv
    <3>3. \A y \in RecordsOf[t] : \A x \in RecordsOf[u] \cap live : Linked(y, x)' <=> Linked(y, x)
      BY <2>d, <3>1
    <3> QED BY <1>24, <3>1, <3>2, <3>3, PassStill
  <2>7. ASSUME NEW x \in Ids, JobAdd(x) PROVE PInv'
    <3>1. /\ job # Idle /\ x \in job.adds /\ writes = <<>> /\ pass' = pass /\ refs' = refs /\ live' = live
      BY <2>7 DEF JobAdd, Idle
    <3>2. job \in Jobs
      BY <2>h, <3>1
    <3>3. job' \in Jobs /\ job'.host = job.host /\ job'.adds = job.adds \ {x} /\ job'.drains = job.drains
      BY <2>7, <3>2 DEF JobAdd, Jobs
    <3>4. PICK r \in Ids : r = job.host
      BY <2>h, <3>1
    <3> DEFINE s == Side(r, x)
               e == <<r, x>>
    <3>5. s \in Templates \X Templates /\ e \in EdgesOf(s) /\ s # <<t, u>> /\ <<t, u>> \in Sides
      <4>1. x \notin RecordsOf[u] /\ x \in RecordsOf[TemplateOf(x)]
        BY <2>2, <3>1, RecordsTyped
      <4>2. TemplateOf(x) # u
        BY <4>1
      <4> QED BY <2>1, <4>2, SideTyped, SidesApart DEF Side
    <3>6. Call(IF MayAdd(s, e) THEN AddEdge(s, e) ELSE <<>>)
      BY <2>7, <3>4 DEF JobAdd
    <3> HIDE DEF s, e
    <3>7. disk'[<<t, u>>] = disk[<<t, u>>]
      <4>1. CASE MayAdd(s, e)
        <5>1. Call(AddEdge(s, e)) /\ Has(s)
          BY <3>6, <4>1 DEF MayAdd
        <5>2. \A z \in Sides \ {s} : disk'[z] = disk[z]
          BY <3>5, <5>1, AddCall
        <5> QED BY <3>5, <5>2
      <4>2. CASE ~ MayAdd(s, e)
        BY <3>6, <4>2 DEF Call
      <4> QED BY <4>1, <4>2
    <3>8. \A y \in RecordsOf[t] : \A z \in RecordsOf[u] \cap live : Linked(y, z)' <=> Linked(y, z)
      BY <2>d, <3>1, <3>7
    <3> QED BY <2>2, <2>i, <2>p, <3>1, <3>3, <3>8
  <2>8. ASSUME NEW x \in Ids, JobDrain(x) PROVE PInv'
    <3>1. /\ job # Idle /\ x \in job.drains /\ writes = <<>> /\ pass' = pass /\ refs' = refs /\ live' = live
      BY <2>8 DEF JobDrain, Idle
    <3>2. job \in Jobs
      BY <2>h, <3>1
    <3>3. job' \in Jobs /\ job'.host = job.host /\ job'.adds = job.adds /\ job'.drains = job.drains \ {x}
      BY <2>8, <3>2 DEF JobDrain, Jobs
    <3>4. PICK r \in Ids : r = job.host
      BY <2>h, <3>1
    <3> DEFINE s == Side(r, x)
               e == <<r, x>>
    <3>5. s \in Templates \X Templates /\ <<t, u>> \in Sides /\ e[2] = x
      BY <2>1, SideTyped, SidesApart
    <3>6. Call(IF MayRemove(s, e) THEN RemoveEdge(s, e) ELSE <<>>)
      BY <2>8, <3>4 DEF JobDrain
    <3>7. x \in RecordsOf[u] => x \notin live
      BY <2>2, <3>1
    <3>8. s = <<t, u>> => x \in RecordsOf[u]
      BY RecordsTyped DEF Side
    <3> HIDE DEF s, e
    <3>9. \A y \in RecordsOf[t] : \A z \in RecordsOf[u] \cap live : Linked(y, z)' <=> Linked(y, z)
      <4>1. CASE MayRemove(s, e)
        <5>1. Call(RemoveEdge(s, e)) /\ Has(s)
          BY <3>6, <4>1 DEF MayRemove
        <5>2. /\ Has(s)' /\ disk'[s].edges = disk[s].edges \ {e}
              /\ \A z \in Sides \ {s} : disk'[z] = disk[z]
          BY <3>5, <5>1, RemoveCall
        <5>3. CASE s = <<t, u>>
          <6>1. ASSUME NEW y \in RecordsOf[t], NEW z \in RecordsOf[u] \cap live PROVE <<y, z>> # e
            BY <3>5, <3>7, <3>8, <5>3
          <6> QED BY <3>1, <5>1, <5>2, <5>3, <6>1 DEF Linked, Has
        <5>4. CASE s # <<t, u>>
          <6>1. disk'[<<t, u>>] = disk[<<t, u>>]
            BY <3>5, <5>2, <5>4
          <6> QED BY <2>d, <3>1, <6>1
        <5> QED BY <5>3, <5>4
      <4>2. CASE ~ MayRemove(s, e)
        <5>1. disk'[<<t, u>>] = disk[<<t, u>>]
          BY <3>6, <4>2 DEF Call
        <5> QED BY <2>d, <3>1, <5>1
      <4> QED BY <4>1, <4>2
    <3> QED BY <2>2, <2>i, <2>p, <3>1, <3>3, <3>9
  <2>9. ASSUME NEW r \in Ids, SyncRecord(r) PROVE PInv'
    <3>1. /\ writes = <<>> /\ job = Idle /\ r \in pass.left /\ r \in live /\ r \in RecordsOf[t]
          /\ disk' = disk /\ writes' = <<>> /\ live' = live
      BY <2>2, <2>9 DEF SyncRecord
    <3>2. /\ pass'.template = t /\ pass'.target = u /\ pass'.left = pass.left \ {r} /\ pass'.edges = pass.edges
      BY <2>1, <2>9 DEF SyncRecord, Passes
    <3>3. \A y \in RecordsOf[t] : \A x \in RecordsOf[u] \cap live : Linked(y, x)' <=> Linked(y, x)
      BY <3>1, <3>2 DEF Linked, Has
    <3>4. \A y \in Ids : FieldFromEdges(y)' = FieldFromEdges(y)
      BY <3>1, <3>2 DEF FieldFromEdges
    <3>5. refs \in [Ids -> SUBSET Ids] /\ FieldFromEdges(r) \subseteq RecordsOf[u]
      BY DEF TInv, FieldFromEdges
    <3>6. ASSUME NEW y \in Ids, y # r PROVE FieldNow(y)' = FieldNow(y)
      BY <2>9, <3>2, <3>5, <3>6 DEF SyncRecord, FieldNow
    <3>7. FieldNow(r)' = FieldFromEdges(r)
      <4>1. CASE FieldFromEdges(r) = FieldNow(r)
        BY <2>9, <3>1, <3>2, <4>1 DEF SyncRecord, FieldNow
      <4>2. CASE FieldFromEdges(r) # FieldNow(r)
        <5>1. refs'[r] = (refs[r] \ RecordsOf[u]) \cup FieldFromEdges(r)
          BY <2>9, <3>1, <3>2, <3>5, <4>2 DEF SyncRecord
        <5> QED BY <3>2, <3>5, <5>1 DEF FieldNow
      <4> QED BY <4>1, <4>2
    <3>8. \A y \in (RecordsOf[t] \cap live) \ pass'.left : FieldNow(y)' = FieldFromEdges(y)'
      BY <2>1, <2>2, <3>2, <3>4, <3>6, <3>7
    <3>9. job' = Idle \/ (job'.host = r /\ job'.adds = {} /\ job'.drains = {})
      BY <2>9, <3>1 DEF SyncRecord, Start
    <3>10. /\ pass'.left \subseteq RecordsOf[t] \cap live
           /\ \A y \in RecordsOf[t] : \A x \in RecordsOf[u] \cap live : <<y, x>> \in pass'.edges <=> Linked(y, x)'
      BY <2>2, <3>2, <3>3
    <3> QED BY <2>2, <3>1, <3>2, <3>8, <3>9, <3>10 DEF PInv
  <2> QED BY <2>3, <2>4, <2>5, <2>6, <2>7, <2>8, <2>9, <1>1, <1>2, <1>3, <1>4, <1>5, <1>6, <1>7,
             <1>9, <1>10, <1>11, <1>12, <1>13, <1>19, <1>21, <1>22 DEF Next
<1> QED BY <1>23, <1>24

\* When "synchronize from relations" ends, the field of every record holds
\* exactly the live records it is linked to.
THEOREM FieldsMirrorLinks == ASSUME Overlap = {} PROVE Spec => []SyncMirrors
<1>1. Init => JInv /\ PInv
  BY DEF Init, JInv, PInv
<1>2. TInv /\ SInv /\ JInv /\ PInv /\ [Next]_vars => (JInv /\ PInv)'
  BY TypeStep, JobStep, PassStep
<1>3. PInv => SyncMirrors
  <2> SUFFICES ASSUME PInv, pass # NoPass, pass.left = {}, NEW r \in RecordsOf[pass.template] \cap live
               PROVE  FieldNow(r) = { x \in RecordsOf[pass.target] \cap live : Linked(r, x) }
    BY DEF SyncMirrors, Linked
  <2>1. FieldNow(r) = FieldFromEdges(r)
    BY DEF PInv
  <2>2. \A x \in RecordsOf[pass.target] \cap live : <<r, x>> \in pass.edges <=> Linked(r, x)
    BY DEF PInv
  <2> QED BY <2>1, <2>2 DEF FieldFromEdges
<1> QED BY <1>1, <1>2, <1>3, SymmetryHolds, PTL DEF Spec
===============================================================================
