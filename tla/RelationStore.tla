---------------------------- MODULE RelationStore ----------------------------
(***************************************************************************)
(* Relations between templates and the links between their records         *)
(* (internal/modules/relation), the api fields that feed them              *)
(* (internal/app/relation.go, internal/modules/form) and the editor's tab. *)
(*                                                                         *)
(* One relationship is stored twice, a half on either side: <<t, u>> is    *)
(* the half for u in the file of t, and the mirror of a self relation      *)
(* <<t, t>> is <<Mirror, t>>, in the self folder.  The manager's mutex     *)
(* makes a call exclusive, but a call writes several files one by one:     *)
(* "writes" holds those still to come, and a crash loses them.             *)
(***************************************************************************)
EXTENDS Naturals, Sequences, FiniteSets, SequencesExt

CONSTANTS
  Templates,     \* the templates, all of them collections
  RecordsOf,     \* template -> the ids its records may have
  Fields,        \* template -> the target collections of its api fields
  Mirror,        \* the owner of the self-relation mirrors: the self folder
  NoHalf,        \* a half that is not stored
  Overlap,       \* subset of {"panel", "tab"}: see Alone and TabClosed
  Declared,      \* the pair of templates related at the start
  Menu,          \* bound: the cardinalities the tab picks from
  MaxOps,        \* bound: user operations
  MaxEdits,      \* bound: edits in the tab, reconciles and crashes
  MaxSteps       \* bound: all of these together

ASSUME RecordsAreOwn ==
  /\ Mirror \notin Templates /\ Declared \in Templates \X Templates /\ Declared[1] # Declared[2]
  /\ \A t, u \in Templates : t # u => RecordsOf[t] \cap RecordsOf[u] = {}
ASSUME TemplatesAssumption ==
  /\ IsFiniteSet(Templates) /\ \A t \in Templates : Fields[t] \subseteq Templates
  /\ MaxOps \in Nat /\ MaxEdits \in Nat /\ MaxSteps \in Nat

Ids == UNION { RecordsOf[t] : t \in Templates }
Cards == {"one-to-one", "one-to-many", "many-to-one", "many-to-many"}
Sides == (Templates \cup {Mirror}) \X Templates
OwnerOf(s) == IF s[1] = Mirror THEN s[2] ELSE s[1]
Halves == [card: Cards, inverse: BOOLEAN, edges: SUBSET (Ids \X Ids)]

ASSUME MenuAssumption == Menu \subseteq Cards /\ NoHalf \notin Halves

VARIABLES
  disk,      \* side -> the half stored there, or NoHalf
  writes,    \* the file writes the running call has still to make
  healing,   \* the running call is Reconcile
  live,      \* the records that exist
  refs,      \* record -> the ids its api fields hold
  job,       \* the record save or load whose edges are being reconciled
  pass,      \* the "synchronize from relations" pass under way
  tab,       \* what the relations tab of a template holds
  torn,      \* history: a call was cut short since the halves last agreed
  turned,    \* history: sides a crash left as directed as their counterpart
  ops,       \* bound: user operations so far
  edits      \* bound: edits, reconciles and crashes so far
vars == <<disk, writes, healing, live, refs, job, pass, tab, torn, turned, ops, edits>>

-----------------------------------------------------------------------------
(* Halves. *)

Flipped(c) ==
  CASE c = "one-to-many" -> "many-to-one"
    [] c = "many-to-one" -> "one-to-many"
    [] OTHER -> c
LimitsFrom(c) == c \in {"one-to-one", "many-to-one"}
LimitsTo(c) == c \in {"one-to-one", "one-to-many"}

(* Mutant: the links are copied as they are. *)
Copied(edges) == edges

Reversed(edges) == { <<e[2], e[1]>> : e \in edges }

(* The other half of the relationship stored at side s. *)
Counterpart(s) ==
  IF s[1] = Mirror THEN <<s[2], s[2]>>
  ELSE IF s[1] = s[2] THEN <<Mirror, s[1]>> ELSE <<s[2], s[1]>>

Flip(h) == [card |-> Flipped(h.card), inverse |-> ~h.inverse,
            edges |-> Reversed(h.edges)]

(* Mutant: only the source's end is checked. *)
CheckSource(c, edges, e) == LimitsFrom(c) => \A x \in edges : x[1] # e[1]

CheckCardinality(c, edges, e) ==
  /\ LimitsFrom(c) => \A x \in edges : x[1] # e[1]
  /\ LimitsTo(c) => \A x \in edges : x[2] # e[2]

Has(s) == disk[s] # NoHalf
RelationsOf(t) == { u \in Templates : Has(<<t, u>>) }

(* One write replaces the halves w gives; the others in the file stay. *)
SavedWith(d, w) == [s \in Sides |-> IF s \in DOMAIN w THEN w[s] ELSE d[s]]
One(s, h) == [x \in {s} |-> h]

(* A call takes the mutex, makes its first write and owes the others. *)
Call(ws) ==
  /\ writes = <<>>
  /\ IF ws = <<>> THEN UNCHANGED <<disk, writes>>
     ELSE /\ disk' = SavedWith(disk, Head(ws))
          /\ writes' = Tail(ws)

-----------------------------------------------------------------------------
(* What each call of the manager writes, in order. *)

(* Mutant: an entry without edges empties the stored ones. *)
AsSent(t, rels) == [u \in DOMAIN rels |-> [rels[u] EXCEPT !.inverse = u # t /\ @]]

(* An entry without edges keeps those already stored. *)
CarriedForward(t, rels) ==
  [u \in DOMAIN rels |->
     [rels[u] EXCEPT
        !.inverse = u # t /\ @,
        !.edges = IF @ = {} /\ Has(<<t, u>>) THEN disk[<<t, u>>].edges ELSE @]]

UpsertMirror(t, u, h) ==
  IF Has(<<u, t>>)
  THEN [disk[<<u, t>>] EXCEPT !.card = Flipped(h.card), !.inverse = ~h.inverse]
  ELSE [Flip(h) EXCEPT !.edges = {}]

SetRelations(t, rels) ==
  LET new == CarriedForward(t, rels)
      own == [s \in {t} \X Templates |->
                IF s[2] \in DOMAIN new THEN new[s[2]] ELSE NoHalf]
      others == SetToSeq(DOMAIN new \ {t})
      gone == SetToSeq({ u \in RelationsOf(t) \ (DOMAIN new \cup {t}) :
                           Has(<<u, t>>) })
      self == IF t \in DOMAIN new THEN <<One(<<Mirror, t>>, Flip(new[t]))>>
              ELSE IF Has(<<Mirror, t>>) THEN <<One(<<Mirror, t>>, NoHalf)>>
              ELSE <<>>
  IN  <<own>>
      \o [i \in DOMAIN others |->
            One(<<others[i], t>>, UpsertMirror(t, others[i], new[others[i]]))]
      \o [i \in DOMAIN gone |-> One(<<gone[i], t>>, NoHalf)]
      \o self

(* AddEdge's checks read the source's file only. *)
MayAdd(s, e) ==
  /\ s[1] = s[2] => e[1] # e[2]
  /\ Has(s)
  /\ {e[1], e[2]} \subseteq live
  /\ e \notin disk[s].edges
  /\ CheckCardinality(disk[s].card, disk[s].edges, e)

AddEdge(s, e) ==
  LET h == [disk[s] EXCEPT !.edges = @ \cup {e}]
      o == Counterpart(s)
  IN  << One(s, h),
         One(o, IF Has(o) THEN [disk[o] EXCEPT !.edges = @ \cup Reversed({e})]
                ELSE [Flip(h) EXCEPT !.edges = Reversed({e})]) >>

MayRemove(s, e) == Has(s) /\ e \in disk[s].edges

RemoveEdge(s, e) ==
  LET o == Counterpart(s)
  IN  << One(s, [disk[s] EXCEPT !.edges = @ \ {e}]) >>
      \o (IF Has(o)
          THEN << One(o, [disk[o] EXCEPT !.edges = @ \ Reversed({e})]) >>
          ELSE <<>>)

(* Reconcile adds what the other half has, and never removes anything. *)
HealedHalf(s) ==
  LET o == Counterpart(s)
  IN  IF ~Has(o) THEN disk[s]
      ELSE IF ~Has(s) THEN Flip(disk[o])
      ELSE [disk[s] EXCEPT !.edges = @ \cup Reversed(disk[o].edges)]

ToHeal(ss) == { s \in ss : HealedHalf(s) # disk[s] }
HealFile(ss) == [s \in ToHeal(ss) |-> HealedHalf(s)]

(* The missing halves file by file, then the missing edges file by file,  *)
(* then the self relations, the mirror before the forward half.  A file   *)
(* with nothing to heal is passed over: its write changes no half.        *)
Reconcile ==
  LET cross(t) == { <<t, u>> : u \in Templates \ {t} }
      ts == SetToSeq(Templates)
      lost == [i \in DOMAIN ts |-> HealFile({ s \in cross(ts[i]) : ~Has(s) })]
      short == [i \in DOMAIN ts |-> HealFile({ s \in cross(ts[i]) : Has(s) })]
      self == [i \in 1 .. 2 * Len(ts) |->
                 IF i % 2 = 1 THEN HealFile({<<Mirror, ts[(i + 1) \div 2]>>})
                 ELSE HealFile({<<ts[i \div 2], ts[i \div 2]>>})]
  IN  IF ToHeal(Sides) = {} THEN <<>> ELSE lost \o short \o self

-----------------------------------------------------------------------------
(* The api fields of a record and its links. *)

Idle == [kind |-> "idle", host |-> Mirror, phase |-> "done",
         adds |-> {}, drains |-> {}]
NoPass == [template |-> Mirror, target |-> Mirror, left |-> {}, edges |-> {}]
NoTab == [template |-> Mirror, rels |-> <<>>]

TemplateOf(r) == CHOOSE t \in Templates : r \in RecordsOf[t]
Side(r, x) == <<TemplateOf(r), TemplateOf(x)>>

(* The ids the fields of r own, and those of them it is linked to. *)
OwnedBy(r) == UNION { RecordsOf[u] : u \in Fields[TemplateOf(r)] }
LinkedTo(r) ==
  { x \in OwnedBy(r) : Has(Side(r, x)) /\ <<r, x>> \in disk[Side(r, x)].edges }

(* Mutant: only links to records that still exist are drained. *)
DrainLive(r) == (LinkedTo(r) \cap live) \ refs[r]

(* The edges a pass over the graph decides to create and to remove. *)
EdgesToAdd(r) == refs[r] \ LinkedTo(r)
EdgesToDrain(r) == LinkedTo(r) \ refs[r]

(* Mutant: a record without links keeps what its field held. *)
FieldUnlessEmpty(r) ==
  IF \E e \in pass.edges : e[1] = r
  THEN { x \in RecordsOf[pass.target] \cap live : <<r, x>> \in pass.edges }
  ELSE refs[r] \cap RecordsOf[pass.target]

(* What the pass gives field "target" of r: its live links. *)
FieldFromEdges(r) == { x \in RecordsOf[pass.target] \cap live : <<r, x>> \in pass.edges }
FieldNow(r) == refs[r] \cap RecordsOf[pass.target]

-----------------------------------------------------------------------------
(* The actions. *)

(* A pair of templates is related, and the first one perhaps to itself. *)
Init ==
  /\ \E c \in Menu, self \in BOOLEAN :
       LET t == Declared[1]
           h == [card |-> c, inverse |-> FALSE, edges |-> {}]
       IN  disk = [s \in Sides |->
                     IF s = Declared THEN h
                     ELSE IF s = Counterpart(Declared) THEN Flip(h)
                     ELSE IF self /\ s = <<t, t>> THEN h
                     ELSE IF self /\ s = <<Mirror, t>> THEN Flip(h)
                     ELSE NoHalf]
  /\ writes = <<>> /\ healing = FALSE /\ torn = FALSE /\ turned = {}
  /\ live = Ids /\ refs = [r \in Ids |-> {}]
  /\ job = Idle /\ pass = NoPass /\ tab = NoTab /\ ops = 0 /\ edits = 0

More == ops + edits < MaxSteps
Op == More /\ ops < MaxOps /\ ops' = ops + 1 /\ UNCHANGED edits
Edit == More /\ edits < MaxEdits /\ edits' = edits + 1 /\ UNCHANGED ops

(* Without "panel" nothing else runs between the steps of a save or a pass; *)
(* without "tab" nothing else changes links while the tab is open.         *)
Alone == "panel" \notin Overlap => job = Idle /\ pass = NoPass
TabClosed == "tab" \notin Overlap => tab = NoTab

(* The record panel: link and unlink by hand, from any side. *)
LinkRecords(s, e) ==
  /\ Op /\ Alone /\ TabClosed /\ MayAdd(s, e) /\ Call(AddEdge(s, e))
  /\ UNCHANGED <<healing, live, refs, job, pass, tab, torn, turned>>

UnlinkRecords(s, e) ==
  /\ Op /\ Alone /\ TabClosed /\ MayRemove(s, e) /\ Call(RemoveEdge(s, e))
  /\ UNCHANGED <<healing, live, refs, job, pass, tab, torn, turned>>

(* The Relations tab loads a template's relations, edges and all... *)
TabLoad(t) ==
  /\ writes = <<>> /\ More /\ edits < MaxEdits /\ Alone
  /\ tab' = [template |-> t, rels |-> [u \in RelationsOf(t) |-> disk[<<t, u>>]]]
  /\ UNCHANGED <<disk, writes, healing, live, refs, job, pass, torn, turned, ops, edits>>

(* ...and each edit sends them all back: the edited one without edges, and *)
(* with another target if that was changed.                                *)
Send(rels) ==
  /\ Edit /\ Alone
  /\ Call(SetRelations(tab.template, rels))
  /\ tab' = [tab EXCEPT !.rels = rels]
  /\ turned' = { s \in turned : s[1] # tab.template /\ s[2] # tab.template }
  /\ UNCHANGED <<healing, live, refs, job, pass, torn>>

TabApply(old, u, c, inv) ==
  /\ tab # NoTab /\ (inv => u # tab.template)
  /\ old = u \/ (old \in DOMAIN tab.rels /\ u \notin DOMAIN tab.rels)
  /\ Send([x \in (DOMAIN tab.rels \ {old}) \cup {u} |->
             IF x = u THEN [card |-> c, inverse |-> inv, edges |-> {}]
             ELSE tab.rels[x]])

TabRemove(u) ==
  /\ u \in DOMAIN tab.rels
  /\ Send([x \in DOMAIN tab.rels \ {u} |-> tab.rels[x]])

(* Another workspace or template is chosen: the tab is gone. *)
TabLeave ==
  /\ writes = <<>> /\ tab # NoTab /\ tab' = NoTab
  /\ UNCHANGED <<disk, writes, healing, live, refs, job, pass, torn, turned, ops, edits>>

(* Utilities > Reconcile; an open tab reloads after it. *)
StartReconcile ==
  /\ Edit /\ Alone /\ Call(Reconcile)
  /\ healing' = TRUE /\ tab' = NoTab
  /\ UNCHANGED <<live, refs, job, pass, torn, turned>>

WriteNext ==
  /\ writes # <<>>
  /\ disk' = SavedWith(disk, Head(writes)) /\ writes' = Tail(writes)
  /\ UNCHANGED <<healing, live, refs, job, pass, tab, torn, turned, ops, edits>>

(* Declared on both sides or on neither, with each other's cardinality and *)
(* links.  Which half is the inverse one is a question of its own.         *)
Agree(s) ==
  LET o == Counterpart(s)
  IN  /\ Has(s) <=> Has(o)
      /\ Has(s) => /\ disk[o].card = Flipped(disk[s].card)
                   /\ disk[o].edges = Reversed(disk[s].edges)

Opposite(s) ==
  LET o == Counterpart(s)
  IN  Has(s) /\ Has(o) => disk[o].inverse = ~disk[s].inverse

(* Reconcile compares cardinalities: it reports such a pair and leaves it. *)
Conflict(s) ==
  LET o == Counterpart(s)
  IN  Has(s) /\ Has(o) /\ disk[o].card # Flipped(disk[s].card)

EndReconcile ==
  /\ healing /\ writes = <<>>
  /\ healing' = FALSE
  /\ torn' = (torn /\ \E s \in Sides : Conflict(s))
  /\ UNCHANGED <<disk, writes, live, refs, job, pass, tab, turned, ops, edits>>

(* The process dies: what it had still to write and to do is lost. *)
Crash ==
  /\ Edit /\ writes # <<>>
  /\ writes' = <<>> /\ healing' = FALSE
  /\ torn' = TRUE /\ turned' = { s \in Sides : ~Opposite(s) }
  /\ job' = Idle /\ pass' = NoPass /\ tab' = NoTab
  /\ UNCHANGED <<disk, live, refs>>

(* A record is deleted: its links stay behind and dangle. *)
DeleteRecord(r) ==
  /\ Op /\ Alone /\ TabClosed /\ r \in live
  /\ live' = live \ {r} /\ refs' = [refs EXCEPT ![r] = {}]
  /\ UNCHANGED <<disk, writes, healing, job, pass, tab, torn, turned>>

Start(kind, r) ==
  job' = [kind |-> kind, host |-> r, phase |-> "heal", adds |-> {}, drains |-> {}]

(* BuildView on a record: links missing for its references are added. *)
OpenRecord(r) ==
  /\ Op /\ Alone /\ TabClosed /\ job = Idle /\ writes = <<>> /\ r \in live
  /\ Start("open", r)
  /\ UNCHANGED <<disk, writes, healing, live, refs, pass, tab, torn, turned>>

(* SaveValues: the record is written, viewed (as above), then reconciled. *)
SaveRecord(r, new) ==
  /\ Op /\ Alone /\ TabClosed /\ job = Idle /\ writes = <<>> /\ r \in live
  /\ refs' = [refs EXCEPT ![r] = new]
  /\ Start("save", r)
  /\ UNCHANGED <<disk, writes, healing, live, pass, tab, torn, turned>>

(* The two passes read the graph before they change it. *)
JobRead ==
  /\ writes = <<>> /\ job.phase \in {"heal", "sync"}
  /\ job' = [job EXCEPT !.phase = IF @ = "heal" THEN "healing" ELSE "syncing",
                        !.adds = EdgesToAdd(job.host),
                        !.drains = IF job.phase = "sync" THEN EdgesToDrain(job.host) ELSE {}]
  /\ UNCHANGED <<disk, writes, healing, live, refs, pass, tab, torn, turned, ops, edits>>

(* Adding comes first; an edge that is refused is skipped. *)
JobAdd(x) ==
  /\ writes = <<>> /\ x \in job.adds
  /\ LET s == Side(job.host, x)
         e == <<job.host, x>>
     IN  Call(IF MayAdd(s, e) THEN AddEdge(s, e) ELSE <<>>)
  /\ job' = [job EXCEPT !.adds = @ \ {x}]
  /\ UNCHANGED <<healing, live, refs, pass, tab, torn, turned, ops, edits>>

JobDrain(x) ==
  /\ writes = <<>> /\ x \in job.drains
  /\ \A y \in job.adds : TemplateOf(y) # TemplateOf(x)
  /\ LET s == Side(job.host, x)
         e == <<job.host, x>>
     IN  Call(IF MayRemove(s, e) THEN RemoveEdge(s, e) ELSE <<>>)
  /\ job' = [job EXCEPT !.drains = @ \ {x}]
  /\ UNCHANGED <<healing, live, refs, pass, tab, torn, turned, ops, edits>>

JobNext ==
  /\ writes = <<>> /\ job.phase \in {"healing", "syncing"}
  /\ job.adds = {} /\ job.drains = {}
  /\ job' = [job EXCEPT !.phase = IF @ = "healing" /\ job.kind = "save" THEN "sync" ELSE "done"]
  /\ UNCHANGED <<disk, writes, healing, live, refs, pass, tab, torn, turned, ops, edits>>

JobEnd ==
  /\ job # Idle /\ job.phase = "done"
  /\ job' = Idle
  /\ UNCHANGED <<disk, writes, healing, live, refs, pass, tab, torn, turned, ops, edits>>

(* Synchronize from relations: the edges are read once, then each record   *)
(* of the template whose field differs from them is rewritten and saved.   *)
StartSync(t, u) ==
  /\ Op /\ Alone /\ TabClosed /\ pass = NoPass /\ writes = <<>> /\ u \in Fields[t]
  /\ pass' = [template |-> t, target |-> u, left |-> RecordsOf[t] \cap live,
              edges |-> IF Has(<<t, u>>) THEN disk[<<t, u>>].edges ELSE {}]
  /\ UNCHANGED <<disk, writes, healing, live, refs, job, tab, torn, turned>>

SyncRecord(r) ==
  /\ writes = <<>> /\ job = Idle /\ r \in pass.left
  /\ pass' = [pass EXCEPT !.left = @ \ {r}]
  /\ IF r \notin live \/ FieldFromEdges(r) = FieldNow(r) THEN UNCHANGED <<refs, job>>
     ELSE /\ refs' = [refs EXCEPT ![r] = (@ \ RecordsOf[pass.target]) \cup FieldFromEdges(r)]
          /\ Start("save", r)
  /\ UNCHANGED <<disk, writes, healing, live, tab, torn, turned, ops, edits>>

EndSync ==
  /\ pass # NoPass /\ pass.left = {} /\ job = Idle
  /\ pass' = NoPass
  /\ UNCHANGED <<disk, writes, healing, live, refs, job, tab, torn, turned, ops, edits>>

Edges(s) == RecordsOf[s[1]] \X RecordsOf[s[2]]
(* The picker offers live records; what was picked before may stay. *)
MayRefer(r) == SUBSET (OwnedBy(r) \cap (live \cup refs[r]))

Next ==
  \/ \E s \in Templates \X Templates : \E e \in Edges(s) :
       LinkRecords(s, e) \/ UnlinkRecords(s, e)
  \/ \E t \in Templates : TabLoad(t)
  \/ \E old, u \in Templates, c \in Menu, inv \in BOOLEAN : TabApply(old, u, c, inv)
  \/ \E u \in Templates : TabRemove(u)
  \/ TabLeave
  \/ StartReconcile \/ WriteNext \/ EndReconcile \/ Crash
  \/ \E r \in Ids : DeleteRecord(r) \/ OpenRecord(r)
  \/ \E r \in Ids : \E new \in MayRefer(r) : SaveRecord(r, new)
  \/ JobRead \/ JobNext \/ JobEnd
  \/ \E x \in Ids : JobAdd(x) \/ JobDrain(x)
  \/ \E t, u \in Templates : StartSync(t, u)
  \/ \E r \in Ids : SyncRecord(r)
  \/ EndSync

Spec == Init /\ [][Next]_vars

-----------------------------------------------------------------------------
(* Properties. *)

(* Type invariant.  A stored link joins a record of the half's owner to a  *)
(* record of its target: no path through mirrors, reconcile or the tab     *)
(* turns an edge round once too often or too little.                       *)
TypeInv ==
  /\ disk \in [Sides -> Halves \cup {NoHalf}]
  /\ \A s \in Sides : Has(s) => disk[s].edges \subseteq RecordsOf[OwnerOf(s)] \X RecordsOf[s[2]]
  /\ \A i \in DOMAIN writes : \A s \in DOMAIN writes[i] :
        s \in Sides /\ writes[i][s] \in Halves \cup {NoHalf}
  /\ {healing, torn} \subseteq BOOLEAN /\ turned \subseteq Sides
  /\ live \subseteq Ids /\ refs \in [Ids -> SUBSET Ids]
  /\ job.adds \cup job.drains \subseteq Ids /\ pass.left \subseteq Ids
  /\ ops \in 0..MaxOps /\ edits \in 0..MaxEdits

(* The two halves of a relationship agree - declared on both sides or on   *)
(* neither, cardinality flipped, every link reversed - whenever no call is *)
(* at work and none was cut short since a reconcile last reported nothing  *)
(* (reconcile.go: "makes the graph symmetric, in full").  They have        *)
(* opposite directions (types.go: "always"), but for the pairs that a      *)
(* crash left otherwise and no edit in the tab has declared since:         *)
(* Reconcile neither heals nor reports those.                              *)
Symmetric ==
  writes = <<>> =>
    /\ ~torn => \A s \in Sides : Agree(s)
    /\ \A s \in Sides \ turned : Opposite(s)

(* After a Reconcile that reported nothing the halves of a pair have       *)
(* opposite directions (types.go, reconcile.go).                           *)
ReconcileTurnsBack == writes = <<>> /\ ~torn => \A s \in Sides : Opposite(s)

Fits(h) ==
  /\ LimitsFrom(h.card) => \A x, y \in h.edges : x[1] = y[1] => x = y
  /\ LimitsTo(h.card) => \A x, y \in h.edges : x[2] = y[2] => x = y

(* Links keep to the cardinality: as long as no call was cut short, no     *)
(* step makes a half exceed the cardinality it keeps - neither the source  *)
(* AddEdge checks nor the mirror it does not check, whichever side, panel, *)
(* field or reconcile the link came from.                                  *)
LinksFit ==
  [][~torn => \A s \in Sides :
        (Has(s) /\ Has(s)' /\ disk[s].card = disk'[s].card /\ Fits(disk[s])) => Fits(disk'[s])]_vars

Linkable(r, x) == MayAdd(Side(r, x), <<r, x>>)

(* When a record has been opened every reference that can be linked is     *)
(* linked; when it has been saved no link of its fields' targets is left   *)
(* that it does not refer to.                                              *)
ReferencesSettle ==
  writes = <<>> /\ job # Idle /\ job.phase = "done" =>
    /\ job.kind = "open" => \A x \in refs[job.host] : ~Linkable(job.host, x)
    /\ job.kind = "save" => LinkedTo(job.host) \subseteq refs[job.host]

(* When "synchronize from relations" ends, the field of every record holds *)
(* exactly the live records it is linked to, though each record it saves   *)
(* changes links on the way.                                               *)
SyncMirrors ==
  pass # NoPass /\ pass.left = {} /\ job = Idle =>
    \A r \in RecordsOf[pass.template] \cap live :
      LET s == <<pass.template, pass.target>>
      IN  FieldNow(r) = { x \in RecordsOf[pass.target] \cap live :
                            Has(s) /\ <<r, x>> \in disk[s].edges }

(* When a record has been saved, every reference that can be linked is     *)
(* linked (relation.go: "adds edges for referenced targets").              *)
SaveLinks ==
  writes = <<>> /\ job # Idle /\ job.phase = "done" =>
    \A x \in refs[job.host] : ~Linkable(job.host, x)
=============================================================================
