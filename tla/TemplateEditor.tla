---------------------------- MODULE TemplateEditor ----------------------------
(***************************************************************************)
(* The field editor of a template: TemplateFieldsSection.vue keeps a tree  *)
(* of units over the flat field list of the draft, changes the tree, asks  *)
(* the backend to flatten it and hands the reply to the draft; the save    *)
(* goes through Validate, Normalize and Validate again to the disk.        *)
(*                                                                         *)
(* A drag to another list announces three changes (add, remove, end) while *)
(* the unit moves: the first finds it in both lists.  Each flattened list  *)
(* becomes the draft's, and the editor then asks for its tree.  Replies    *)
(* come in the order they were asked unless Reordered.  Assumed: nobody    *)
(* edits faster than the backend answers.                                  *)
(***************************************************************************)
EXTENDS TemplateFields

CONSTANTS Files,       \* the field lists a template on disk has
          Facets,      \* the option labels of each declared facet
          Formulas,    \* the result type of each declared formula
          Candidates,  \* the fields the dialog is confirmed with
          MaxFields,   \* bound: fields of a draft
          MaxEdits,    \* bound: edits of a session
          Reordered    \* do the replies to a drag overtake one another?

ASSUME EditorAssumption ==
    MaxFields \in Nat /\ MaxEdits \in Nat /\ Reordered \in BOOLEAN

VARIABLES draft,   \* the template being edited
          tree,    \* the units the editor shows
          sent,    \* what the backend is asked and has not returned yet
          wanted,  \* the list the last edit made
          saved,   \* the template on disk, <<>> before the first save
          edits    \* number of edits so far

vars == <<draft, tree, sent, wanted, saved, edits>>

Plain(f) == [field |-> f, stop |-> <<>>, items |-> <<>>]
Loop(key, items) == [field |-> Field("loopstart", key), stop |-> <<Field("loopstop", key)>>, items |-> items]
IsLoop(u) == u.stop # <<>>
EventLoop(f) == Loop("events", <<Plain(f)>>)
Hole == Plain(Field("hole", ""))

----------------------------------------------------------------------------
(* Places in the tree *)

RECURSIVE Paths(_)
Paths(units) == UNION {{<<i>>} \cup {<<i>> \o p : p \in Paths(units[i].items)} : i \in DOMAIN units}

RECURSIVE Gaps(_)
Gaps(units) == {<<i>> : i \in 1 .. Len(units) + 1}
               \cup UNION {{<<i>> \o p : p \in Gaps(units[i].items)} : i \in {j \in DOMAIN units : IsLoop(units[j])}}

RECURSIVE UnitAt(_, _)
UnitAt(units, p) == IF Len(p) = 1 THEN units[p[1]] ELSE UnitAt(units[p[1]].items, Tail(p))

\* The first n units of the place replaced by the units us.
RECURSIVE Splice(_, _, _, _)
Splice(units, p, n, us) ==
    IF Len(p) = 1 THEN SubSeq(units, 1, p[1] - 1) \o us \o SubSeq(units, p[1] + n, Len(units))
    ELSE [units EXCEPT ![p[1]].items = Splice(@, Tail(p), n, us)]

RECURSIVE Fill(_, _)
Fill(units, us) ==
    FoldLeft(LAMBDA acc, u : acc \o (IF u = Hole THEN us ELSE <<[u EXCEPT !.items = Fill(@, us)]>>), <<>>, units)

\* pruneEmptyEventsLoops
RECURSIVE Prune(_)
Prune(units) ==
    LET kept == SelectSeq(units, LAMBDA u : ~ (IsLoop(u) /\ u.field.key = "events" /\ u.items = <<>>))
    IN [i \in DOMAIN kept |-> [kept[i] EXCEPT !.items = Prune(@)]]

\* recomputeLevelScopes
Leveled(fs) == LET ls == LevelScopes(fs) IN [i \in DOMAIN fs |-> [fs[i] EXCEPT !.level = ls[i]]]

----------------------------------------------------------------------------
(* The session *)

Template(fs) ==
    [fields |-> Leveled(fs), collection |-> FALSE, presentation |-> FALSE, project |-> FALSE,
     facets |-> Facets, formulas |-> Formulas]

Init ==
    /\ \E fs \in Files : draft = Template(fs)
    /\ wanted = draft.fields
    /\ tree = BuildFieldTree(draft.fields)
    /\ sent = <<>>
    /\ saved = <<>>
    /\ edits = 0

Ready == sent = <<>> /\ edits < MaxEdits

Asked(gives, fs) == [gives |-> gives, fields |-> fs]

\* commitTree, for each tree on the way to the last one
Commit(trees) ==
    LET flat(i) == Leveled(FlattenFieldTree(trees[i])) IN
    /\ Len(flat(Len(trees))) <= MaxFields
    /\ wanted' = flat(Len(trees))
    /\ tree' = Last(trees)
    /\ sent' = [i \in DOMAIN trees |-> Asked("list", flat(i))]
    /\ edits' = edits + 1
    /\ UNCHANGED <<draft, saved>>

\* Mutant: any reply may be the next one.
AnyReply ==
    \E i \in DOMAIN sent :
        /\ draft' = IF sent[i].gives = "list" THEN [draft EXCEPT !.fields = sent[i].fields] ELSE draft
        /\ tree' = IF sent[i].gives = "tree" THEN BuildFieldTree(sent[i].fields) ELSE tree
        /\ sent' = RemoveAt(sent, i) \o (IF sent[i].gives = "list" THEN <<Asked("tree", sent[i].fields)>> ELSE <<>>)
        /\ UNCHANGED <<wanted, saved, edits>>

\* onFieldsUpdate and rebuildTree: a list becomes the draft's and its tree is asked for.
Reply ==
    \E i \in DOMAIN sent :
        /\ Reordered \/ i = 1
        /\ draft' = IF sent[i].gives = "list" THEN [draft EXCEPT !.fields = sent[i].fields] ELSE draft
        /\ tree' = IF sent[i].gives = "tree" THEN BuildFieldTree(sent[i].fields) ELSE tree
        /\ sent' = RemoveAt(sent, i) \o (IF sent[i].gives = "list" THEN <<Asked("tree", sent[i].fields)>> ELSE <<>>)
        /\ UNCHANGED <<wanted, saved, edits>>

\* The dialog asks about a template that has the draft's fields and no mode.
Confirmable(c, i) ==
    ValidateFieldDraft([draft EXCEPT !.collection = FALSE, !.presentation = FALSE, !.project = FALSE], c, i) = {}

\* selectableTypes
Offered(type) ==
    /\ type \in {"sequence", "slideset"} => draft.collection
    /\ type = "slideset" => Has(draft, "slide")
    /\ type = "event" => draft.project

AddField(c) ==
    /\ Ready
    /\ c.type \notin {"loopstart", "loopstop"} /\ Offered(c.type)
    /\ Confirmable(c, Len(draft.fields) + 1)
    /\ Commit(<<Append(tree, CASE c.type = "looper" -> Loop(c.key, <<>>)
                               [] c.type = "event"  -> EventLoop(c)
                               [] OTHER             -> Plain(c))>>)

\* The place ValidateFieldDraft finds: the first field of the edited field's key.
PlaceOf(key) ==
    LET S == {i \in DOMAIN draft.fields : draft.fields[i].key = key}
    IN IF S = {} THEN Len(draft.fields) + 1 ELSE CHOOSE i \in S : \A j \in S : i <= j

\* Mutant: the stop keeps its key.
RenameStart(u, key) == [u EXCEPT !.field.key = key]

Renamed(u, key) == [u EXCEPT !.field.key = key, !.stop[1].key = key]

\* The loop around an event keeps its name.
IsEventsLoop(u) == u.field.key = "events" /\ \E i \in DOMAIN u.items : u.items[i].field.type = "event"

EditLoop(p, c) ==
    LET u == UnitAt(tree, p) IN
    /\ Ready /\ IsLoop(u)
    /\ IsEventsLoop(u) => c.key = u.field.key
    /\ Confirmable([u.field EXCEPT !.key = c.key], PlaceOf(u.field.key))
    /\ Commit(<<Splice(tree, p, 1, <<Renamed(u, c.key)>>)>>)

\* The dialog copies the field with its level.
EditField(p, picked) ==
    LET u == UnitAt(tree, p)
        c == [picked EXCEPT !.level = u.field.level]
        around == IF Len(p) = 1 THEN "" ELSE UnitAt(tree, Front(p)).field.key
    IN
    /\ Ready /\ ~ IsLoop(u)
    /\ IF u.field.type \in {"loopstart", "loopstop"} THEN c.type = u.field.type
       ELSE c.type \notin Markers /\ (Offered(c.type) \/ c.type = u.field.type)
    /\ Confirmable(c, PlaceOf(u.field.key))
    /\ Commit(<<Splice(tree, p, 1, <<IF c.type = "event" /\ around # "events" THEN EventLoop(c)
                                     ELSE Plain(c)>>)>>)

DeleteUnit(p) == Ready /\ Commit(<<Prune(Splice(tree, p, 1, <<>>))>>)

\* A drag inside a list ends once; to another list it is first seen in both.
MoveUnit(p, gap) ==
    LET u == UnitAt(tree, p)
        moved == Splice(Splice(tree, p, 1, <<Hole>>), gap, 0, <<u>>)
    IN
    /\ Ready
    /\ Commit(IF Front(p) = Front(gap) THEN <<Fill(moved, <<>>)>>
              ELSE <<Fill(moved, <<u>>), Fill(moved, <<>>)>>)

\* TemplateTypeToggle: a mode can be turned off, and on once its field is there.
ToggleMode(mode) ==
    LET needs == CASE mode = "collection" -> "guid" [] mode = "presentation" -> "sequence" [] mode = "project" -> "project"
    IN
    /\ Ready
    /\ ~ draft[mode] => /\ Has(draft, needs)
                        /\ mode = "presentation" => ~ draft.project
                        /\ mode = "project" => ~ draft.presentation
    /\ draft' = [draft EXCEPT ![mode] = ~ @]
    /\ edits' = edits + 1
    /\ UNCHANGED <<tree, sent, wanted, saved>>

\* Mutant: the draft is written as the editor sent it.
SaveUnnormalized ==
    /\ Ready
    /\ Validate(draft) = {} /\ Validate(Normalize(draft)) = {}
    /\ saved' = draft
    /\ wanted' = draft.fields
    /\ edits' = edits + 1
    /\ UNCHANGED <<draft, tree, sent>>

\* save of useTemplateEditor and SaveTemplate; the editor starts over from the
\* template that was written.
SaveTemplate ==
    /\ Ready
    /\ Validate(draft) = {} /\ Validate(Normalize(draft)) = {}
    /\ saved' = Normalize(draft)
    /\ draft' = saved'
    /\ wanted' = draft'.fields
    /\ tree' = BuildFieldTree(draft'.fields)
    /\ edits' = edits + 1
    /\ UNCHANGED sent

Next ==
    \/ Reply
    \/ \E c \in Candidates : AddField(c)
    \/ \E p \in Paths(tree), c \in Candidates : EditLoop(p, c)
    \/ \E p \in Paths(tree), c \in Candidates : EditField(p, c)
    \/ \E p \in Paths(tree) : DeleteUnit(p)
    \/ \E p \in Paths(tree) : \E gap \in Gaps(Splice(tree, p, 1, <<Hole>>)) : MoveUnit(p, gap)
    \/ \E mode \in {"collection", "presentation", "project"} : ToggleMode(mode)
    \/ SaveTemplate

Spec == Init /\ [][Next]_vars

----------------------------------------------------------------------------
(* Properties *)

RECURSIVE IsTree(_)
IsTree(units) == \A i \in DOMAIN units :
    /\ units[i].field.type \in Known
    /\ IsLoop(units[i]) => units[i].field.type = "loopstart" /\ units[i].stop[1].type = "loopstop"
    /\ ~ IsLoop(units[i]) => units[i].items = <<>>
    /\ IsTree(units[i].items)

\* The draft, the tree and what is on the way are lists and trees of known types.
TypeInv ==
    /\ DOMAIN draft = {"fields", "collection", "presentation", "project", "facets", "formulas"}
    /\ \A i \in DOMAIN draft.fields : draft.fields[i].type \in Known /\ draft.fields[i].level \in 0 .. MaxFields
    /\ IsTree(tree)
    /\ \A i \in DOMAIN sent : sent[i].gives \in {"list", "tree"}
    /\ saved = <<>> \/ DOMAIN saved = DOMAIN draft
    /\ edits \in 0 .. MaxEdits

RECURSIVE Rows(_)
Rows(units) == UNION {{units[i]} \cup Rows(units[i].items) : i \in DOMAIN units}

\* fieldtree.go: flattening the tree of any field list gives the list back, and the
\* tree shows a marker as a row of its own exactly when the validator finds a marker
\* that has no partner.
TreeAgrees ==
    LET units == BuildFieldTree(draft.fields)
        loose == {u \in Rows(units) : ~ IsLoop(u) /\ u.field.type \in {"loopstart", "loopstop"}}
    IN /\ FlattenFieldTree(units) = draft.fields
       /\ (loose = {}) <=> (LoopPairingErrors(draft.fields) = {})

\* TemplateFieldsSection.vue: once the backend has answered, the draft holds what the
\* last edit made and the editor shows the draft, although a drag sends a list that
\* has the moved unit twice.
DraftSettles ==
    sent = <<>> => draft.fields = wanted /\ tree = BuildFieldTree(draft.fields)

\* SaveTemplate: a template on disk is valid, normalising it again changes nothing, and
\* the stop every reader of records matches a loop with is the one the tree folds.
SavedIsStable ==
    saved # <<>> =>
        /\ Validate(saved) = {}
        /\ Normalize(saved) = saved
        /\ \A i \in Starts(saved.fields) :
              LET inside == SubSeq(saved.fields, i, MatchLoopstop(saved.fields, i))
              IN /\ Len(BuildFieldTree(inside)) = 1
                 /\ IsLoop(BuildFieldTree(inside)[1])

\* FieldUnitList.vue: "impossible to drop a sibling field between loopstart and loopstop
\* by mistake": no edit of a draft whose loops are well paired breaks the pairing.
EditsKeepLoops ==
    [][LoopPairingErrors(draft.fields) = {} => LoopPairingErrors(draft'.fields) = {}]_vars

\* validate.go, ValidateFieldDraft: "Empty result means the field is safe to confirm".
\* A field added to a draft in which no field had an error has no error itself.
\* Violated: the api, api-client and event rules do not set the place of the field.
FieldErrors(t) == {e \in Validate(t) : e.field}
ConfirmIsSafe ==
    [][(FieldErrors(draft) = {} /\ Len(draft'.fields) > Len(draft.fields)) => FieldErrors(draft') = {}]_vars
===============================================================================
