------------------------------ MODULE FormDoctor ------------------------------
(***************************************************************************)
(* The records of one template and what rewrites them: the editor's save,  *)
(* the heal a load does, the repairs and the key moves of the storage      *)
(* doctor.  Translated from internal/modules/storage (sanitize.go,         *)
(* domain.go), internal/modules/integrity (domain.go, fix.go, migrate.go)  *)
(* and frontend CleanupStorageDialog.vue.                                  *)
(*                                                                         *)
(* A record is [data, id, facets]: values by key, meta.id, the selected    *)
(* label by facet.  Every record parses.  Left out: audit stamps, tags,    *)
(* formulas, table cells, the insides of slide, event and project values,  *)
(* api references.  Keys are unique in a template, as a saved one has them *)
(* (duplicateKeys), and its loops are closed (loopPairingErrors).          *)
(***************************************************************************)
EXTENDS TemplateFields

CONSTANTS
    Templates,  \* saved versions of the template: [fields, facets]
    Forms,      \* names of records, in the order of the directory
    Disks,      \* the records on disk at the start, by form
    Ids,        \* guids, in the order they are minted
    Inputs,     \* what a user may type: <<key, value>>
    Plans,      \* repairs a user may ask for: [issue kind -> strategy]
    DateForms,  \* the ISO date each date text reads as
    Nested,     \* MigrateFieldKey is called for keys of loop items too, not only for the dialog's
    Overlap,    \* saves and template edits go on while the doctor is open or working
    MaxOps      \* bound on the operations

VARIABLES
    tpl,        \* the template on disk
    store,      \* [disk |-> record by form, shown |-> the id the last load of each form gave]
    dialog,     \* the moves the doctor's dialog offers: {<<from, to>>}
    job,        \* the repair or move at work
    kept,       \* history: what the user last saved under keys declared since, without an issue
    ops

vars == <<tpl, store, dialog, job, kept, ops>>

----------------------------------------------------------------------------
(* Values *)

Value(is, text) == [is |-> is, text |-> text, list |-> <<>>, map |-> <<>>]
Nil == Value("nil", "")
Str(s) == Value("string", s)
Num(s) == Value("number", s)
Bool(s) == Value("bool", s)
List(s) == [Nil EXCEPT !.is = "list", !.list = s]
Map(m) == [Nil EXCEPT !.is = "map", !.map = m]

Without(f, k) == Restrict(f, DOMAIN f \ {k})

\* Mutant: a stored 0 or false is nothing.
RECURSIVE IsFalsy(_)
IsFalsy(v) ==
    CASE v.is = "list" -> \A i \in DOMAIN v.list : IsFalsy(v.list[i])
      [] v.is = "map"  -> \A k \in DOMAIN v.map : IsFalsy(v.map[k])
      [] OTHER         -> v.text \in {"", "0", "false"}

\* isEmptyLoopValue: numbers and booleans are data.
RECURSIVE IsEmpty(_)
IsEmpty(v) ==
    CASE v.is = "list" -> \A i \in DOMAIN v.list : IsEmpty(v.list[i])
      [] v.is = "map"  -> \A k \in DOMAIN v.map : IsEmpty(v.map[k])
      [] OTHER         -> v.is \in {"nil", "string"} /\ v.text = ""

DefaultForType(type) ==
    CASE type = "boolean"                           -> Bool("false")
      [] type \in {"number", "sequence"}            -> Num("0")
      [] type = "range"                             -> Num("50")
      [] type \in Lists \ {"tags"}                  -> List(<<>>)
      [] type \in {"slide", "event", "project"}     -> Map([name |-> Str("")])
      [] type \in {"api", "api-client"}             -> Nil
      [] OTHER                                      -> Str("")

\* integrity's own table of defaults.
DefaultForFieldType(type) ==
    CASE type \in Lists                         -> List(<<>>)
      [] type \in {"slide", "event", "project"} -> Str("")
      [] OTHER                                  -> DefaultForType(type)

FieldDefault(f) ==
    IF f.dflt = "" THEN DefaultForType(f.type) ELSE IF f.type \in Numbers THEN Num(f.dflt) ELSE Str(f.dflt)

----------------------------------------------------------------------------
(* Sanitize *)

\* The fields of one level, a loop with the fields inside it.
RECURSIVE Level(_)
Level(fs) ==
    IF fs = <<>> THEN <<>>
    ELSE LET end == IF Head(fs).type = "loopstart" THEN MatchLoopstop(fs, 1) ELSE 1
         IN <<[field |-> Head(fs), inner |-> SubSeq(fs, 2, end - 1)]>> \o Level(SubSeq(fs, end + 1, Len(fs)))

Units(fs) == Range(Level(fs))
Loops(fs) == {u \in Units(fs) : u.field.type = "loopstart"}

InnerOf(fs, key) == (CHOOSE u \in Loops(fs) : u.field.key = key).inner

RECURSIVE PruneLoopValue(_, _)
PruneLoopValue(v, inner) ==
    LET pruned(m) == [k \in DOMAIN m |-> IF \E u \in Loops(inner) : u.field.key = k
                                         THEN PruneLoopValue(m[k], InnerOf(inner, k)) ELSE m[k]]
        items == [i \in DOMAIN v.list |-> IF v.list[i].is = "map" THEN Map(pruned(v.list[i].map)) ELSE v.list[i]]
    IN IF v.is = "list" THEN List(SelectSeq(items, LAMBDA it : ~IsEmpty(it))) ELSE v

\* The legacy "" of a list becomes an empty list.
Healed(v, type) == IF v = Str("") /\ DefaultForType(type).is = "list" THEN DefaultForType(type) ELSE v

FieldValue(u, data) ==
    LET there == u.field.key \in DOMAIN data
    IN IF u.field.type = "loopstart"
       THEN IF there THEN PruneLoopValue(data[u.field.key], u.inner) ELSE List(<<>>)
       ELSE Healed(IF there THEN data[u.field.key] ELSE FieldDefault(u.field), u.field.type)

GuidFieldKey(fs) == IF Marks(fs, "guid") = {} THEN "" ELSE fs[CHOOSE i \in Marks(fs, "guid") : TRUE].key

GuidIn(data, fs) ==
    LET gk == GuidFieldKey(fs) IN IF gk \in DOMAIN data /\ data[gk].is = "string" THEN data[gk].text ELSE ""

\* CanonicalGuid: the data field leads, then the given ids; without one a fresh guid
\* if the template has a guid field.
CanonicalGuid(fs, dataId, id1, id2, fresh) ==
    LET given == SelectSeq(<<dataId, id1, id2>>, LAMBDA id : id # "")
    IN IF given # <<>> THEN Head(given) ELSE IF GuidFieldKey(fs) # "" THEN fresh ELSE ""

SetId(form, fs, id) ==
    LET gk == GuidFieldKey(fs)
    IN [form EXCEPT !.id = id, !.data = IF gk # "" /\ id # "" THEN (gk :> Str(id)) @@ @ ELSE @]

\* The facet fields that declare a default, which a record without the facet gets.
Seeded(fs) == {f \in Range(fs) : f.type = "facet" /\ f.bind.to # "" /\ f.dflt # ""}
SeedOf(fs, facet) == (CHOOSE f \in Seeded(fs) : f.bind.to = facet).dflt
SeedFacetFieldDefaults(facets, fs) ==
    facets @@ [k \in {f.bind.to : f \in Seeded(fs)} |-> SeedOf(fs, k)]

\* Sanitize: the declared root keys only; everything inside a loop's items stays.
SanitizeData(data, fs) ==
    LET units == {u \in Units(fs) : u.field.type \notin Virtual}
    IN [k \in {u.field.key : u \in units} |-> FieldValue(CHOOSE u \in units : u.field.key = k, data)]
Sanitize(form, fs, keptId, fresh) ==
    SetId([data |-> SanitizeData(form.data, fs), id |-> "", facets |-> SeedFacetFieldDefaults(form.facets, fs)],
          fs, CanonicalGuid(fs, GuidIn(form.data, fs), keptId, form.id, fresh))

SyncFormFacets(facets, t) ==
    LET synced(k) ==
            IF k = "flag" \/ facets[k] \in t.facets[k] \cup {""} THEN facets[k]
            ELSE IF k \in {f.bind.to : f \in Seeded(t.fields)} /\ SeedOf(t.fields, k) \in t.facets[k]
            THEN SeedOf(t.fields, k) ELSE ""
    IN [k \in DOMAIN facets \cap (DOMAIN t.facets \cup {"flag"}) |-> synced(k)]

----------------------------------------------------------------------------
(* Loading and saving records *)

IdsOf(form) == {form.id} \cup {form.data[k].text : k \in DOMAIN form.data \cap {"id"}}

\* uuid.NewString: a guid nobody has.
Fresh(s) ==
    LET used == UNION {IdsOf(s.disk[f]) : f \in DOMAIN s.disk} \cup IdsOf(job.draft) \cup Range(s.shown)
    IN Head(SelectSeq(Ids, LAMBDA id : id \notin used))

\* Mutant: only an id that differs is written back, not one just minted.
NeedsHealDrift(raw, view, fs) ==
    GuidFieldKey(fs) # "" /\ raw.id # "" /\ (GuidIn(raw.data, fs) # view.id \/ raw.id # view.id)

NeedsHeal(raw, view, fs) ==
    /\ GuidFieldKey(fs) # "" /\ view.id # ""
    /\ GuidIn(raw.data, fs) # view.id \/ raw.id # view.id


View(s, f, fs) == Sanitize(s.disk[f], fs, "", Fresh(s))
Write(s, f, form) == [s EXCEPT !.disk = (f :> form) @@ @]

\* LoadForm: a record whose guid is not the same in data and meta is written back
\* as the load sanitized it.
Loaded(s, f, fs, view) ==
    [disk  |-> IF NeedsHeal(s.disk[f], view, fs) THEN (f :> view) @@ s.disk ELSE s.disk,
     shown |-> [s.shown EXCEPT ![f] = view.id]]
LoadForm(s, f, fs) == IF f \in DOMAIN s.disk THEN Loaded(s, f, fs, View(s, f, fs)) ELSE s

LoadAll(s, fs) == FoldLeft(LAMBDA acc, f : LoadForm(acc, f, fs), s, Forms)

SaveFormExact(s, f, form, fs) == LoadForm(Write(s, f, form), f, fs)

\* SaveForm: the id of the record it replaces is the second choice; a guid the index
\* shows for another record is replaced, if there is an index and it answers.  The
\* index hook's load of the new record follows.
Unique(s, f, form, fs, answers) ==
    IF /\ answers /\ GuidFieldKey(fs) # "" /\ form.id # ""
       /\ \E g \in DOMAIN s.disk \ {f} : s.shown[g] = form.id
    THEN SetId(form, fs, Fresh(s)) ELSE form
SaveOver(s, f, payload, t, answers) ==
    LET prevId == IF f \in DOMAIN s.disk THEN s.shown[f] ELSE ""
        form == Unique(s, f, Sanitize(payload, t.fields, prevId, Fresh(s)), t.fields, answers)
    IN SaveFormExact(s, f, [form EXCEPT !.facets = SyncFormFacets(@, t)], t.fields)
SaveFormOf(s, f, payload, t, answers) == SaveOver(LoadForm(s, f, t.fields), f, payload, t, answers)

----------------------------------------------------------------------------
(* Paths *)

\* A path is the keys on the way to a value, each but the last with the item it
\* enters; an item itself is the path that ends in its number.
At(key) == [key |-> key, item |-> 0]
LeafKey(path) == IF Last(path).item = 0 THEN Last(path).key ELSE ""

RECURSIVE Reachable(_, _)
Reachable(data, path) ==
    LET seg == Head(path)
        v == IF seg.key \in DOMAIN data THEN data[seg.key] ELSE Nil
    IN IF Len(path) = 1 THEN seg.item = 0
       ELSE seg.item \in DOMAIN v.list /\ v.list[seg.item].is = "map" /\ Reachable(v.list[seg.item].map, Tail(path))

\* The map the leaf lies in, and the data with another map there.
RECURSIVE Parent(_, _)
Parent(data, path) ==
    IF Len(path) = 1 THEN data ELSE Parent(data[Head(path).key].list[Head(path).item].map, Tail(path))

RECURSIVE SetParent(_, _, _)
SetParent(data, path, m) ==
    IF Len(path) = 1 THEN m
    ELSE [data EXCEPT ![Head(path).key].list[Head(path).item].map = SetParent(@, Tail(path), m)]

ValueAt(data, path) == IF LeafKey(path) \in DOMAIN Parent(data, path) THEN Parent(data, path)[LeafKey(path)] ELSE Nil
SetAt(data, path, v) == SetParent(data, path, (LeafKey(path) :> v) @@ Parent(data, path))
DeleteAt(data, path) == SetParent(data, path, Without(Parent(data, path), LeafKey(path)))

----------------------------------------------------------------------------
(* The doctor's checks *)

Issue(kind, path, to) == [kind |-> kind, path |-> path, to |-> to]

\* checkValueType: nil always passes, "" stands for an unset list.
TypeIssue(type, v) ==
    LET misfit == CASE type \in Text \cup {"guid", "date"}       -> v.is # "string"
                    [] type = "link"                            -> v.is \notin {"string", "map"}
                    [] type = "boolean"                         -> v.is # "bool"
                    [] type \in Numbers \cup {"sequence"}       -> v.is # "number"
                    [] type \in Lists                           -> v.is # "list" /\ v # Str("")
                    [] type \in {"slide", "event", "project"}   -> v.is # "map" /\ v # Str("")
                    [] type \in {"api", "api-client"}           -> v.is \notin {"string", "list", "map"}
                    [] OTHER                                    -> FALSE
    IN IF v.is # "nil" /\ misfit THEN {"type_mismatch"}
       ELSE IF type = "date" /\ v.text \notin Range(DateForms) \cup {""} THEN {"bad_date_format"} ELSE {}

\* checkData and checkLoopValue.
RECURSIVE DataIssues(_, _, _)
DataIssues(fs, data, prefix) ==
    LET path(k) == Append(prefix, At(k))
        item(k, i) == Append(prefix, [key |-> k, item |-> i])
        loopIssues(k, inner) ==
            IF k \notin DOMAIN data \/ data[k].is = "nil" THEN {Issue("missing_field", path(k), "")}
            ELSE IF data[k].is # "list" THEN {Issue("type_mismatch", path(k), "")}
            ELSE UNION {IF data[k].list[i].is # "map" THEN {Issue("type_mismatch", item(k, i), "")}
                        ELSE DataIssues(inner, data[k].list[i].map, item(k, i)) : i \in DOMAIN data[k].list}
        fieldIssues(f) ==
            IF f.key \notin DOMAIN data THEN {Issue("missing_field", path(f.key), "")}
            ELSE {Issue(kind, path(f.key), "") : kind \in TypeIssue(f.type, data[f.key])}
        units == {u \in Units(fs) : u.field.type \notin {"looper", "loopstop"}}
    IN UNION {IF u.field.type = "loopstart" THEN loopIssues(u.field.key, u.inner)
              ELSE IF u.field.type \in Virtual THEN {} ELSE fieldIssues(u.field) : u \in units}
       \cup {Issue("extra_field", path(k), "") : k \in DOMAIN data \ {u.field.key : u \in units}}

\* checkMeta's look at the facets.
FacetIssues(facets, t) ==
    {Issue("meta_bad_format", <<At("meta"), At("facets"), At(k)>>, "undeclared") : k \in DOMAIN facets \ DOMAIN t.facets}
    \cup {Issue("meta_bad_format", <<At("meta"), At("facets"), At(k)>>, "selected") :
          k \in {k \in DOMAIN facets \cap DOMAIN t.facets : facets[k] \notin t.facets[k] \cup {""}}}

\* checkFacetSeeding, on the record as it lies on disk.
SeedingIssues(raw, t) ==
    {Issue("facet_unseeded", <<At("meta"), At("facets"), At(f.bind.to)>>, f.dflt) :
     f \in {f \in Seeded(t.fields) : f.bind.to \notin DOMAIN raw.facets}}

\* duplicateGuidByFile: all but the first of the records that share a guid.
DuplicateGuids(s, t) ==
    LET fs == t.fields
        guid(i) == GuidIn(View(s, Forms[i], fs).data, fs)
        there == {i \in DOMAIN Forms : Forms[i] \in DOMAIN s.disk}
    IN {Forms[i] : i \in {i \in there : guid(i) # "" /\ \E j \in there : j < i /\ guid(j) = guid(i)}}

\* The issues of a record just loaded.  The load wrote its guid to data and meta,
\* so checkGuidSync and the check of a missing meta.id find nothing.
IssuesOf(s, f, t, dups) ==
    LET view == View(s, f, t.fields)
    IN DataIssues(t.fields, view.data, <<>>) \cup FacetIssues(view.facets, t) \cup SeedingIssues(s.disk[f], t)
       \cup (IF f \in dups THEN {Issue("duplicate_guid", <<At("meta"), At("id")>>, "")} ELSE {})

----------------------------------------------------------------------------
(* FixTemplate *)

LookupField(fs, path) ==
    LET named == {i \in DOMAIN fs : fs[i].key = LeafKey(path) /\ LeafKey(path) # ""}
    IN IF named = {} THEN {} ELSE {fs[CHOOSE i \in named : \A j \in named : i <= j]}

Truths == [yes |-> "true", no |-> "false", true |-> "true", false |-> "false"]
Numerals == {"0", "7", "50"}

\* Mutant: a coerced value stays a text.
CoerceToText(type, v) == {Str(v.text)}

\* coerceForFieldType: the values v may become, none if the conversion is unsafe.
\* A text of several parts is out of reach of the inputs.
CoerceForFieldType(type, v) ==
    LET scalar == IF v.is \in {"list", "map"} THEN "printed" ELSE v.text
    IN CASE type \in Text \cup {"guid"} -> {Str(scalar)}
         [] type = "date"    -> {Str(DateForms[d]) : d \in {d \in DOMAIN DateForms : v = Str(d)}}
         [] type = "boolean" -> {Bool(Truths[d]) : d \in {d \in DOMAIN Truths : v \in {Str(d), Bool(d)}}}
         [] type \in Numbers \cup {"sequence"} -> {Num(d) : d \in {d \in Numerals : v \in {Str(d), Num(d)}}}
         [] type \in Lists \ {"table"} /\ v.is \in {"list", "string"} ->
                {IF v.is = "list" THEN v ELSE List(SelectSeq(<<v>>, LAMBDA part : part.text # ""))}
         [] type = "link" /\ v.is \in {"string", "map"} ->
                {IF v.is = "map" THEN v ELSE Map([href |-> v, text |-> Str("")])}
         [] OTHER -> {}

\* The value a strategy puts at an issue's path, none if it does not apply.
NewValues(fs, data, iss, strategy) ==
    CASE strategy = "clear" /\ iss.kind = "bad_date_format" -> {Str("")}
      [] strategy \in {"fill_default", "clear"} -> {DefaultForFieldType(f.type) : f \in LookupField(fs, iss.path)}
      [] strategy = "coerce" ->
             UNION {CoerceForFieldType(f.type, ValueAt(data, iss.path)) : f \in LookupField(fs, iss.path)}
      [] OTHER -> {}

\* applyStrategy, on a draft and the issues it was applied to.
ApplyStrategy(t, acc, iss, strategy, fresh) ==
    LET data == acc.draft.data
        done(draft) == [draft |-> draft, applied |-> acc.applied \cup {iss}]
        values == NewValues(t.fields, data, iss, strategy)
        facet == Last(iss.path).key
    IN CASE strategy = "strip" -> done([acc.draft EXCEPT !.data = DeleteAt(@, iss.path)])
         [] strategy = "mint_uuid" -> done(SetId(acc.draft, t.fields, fresh))
         [] strategy = "restamp" ->
                done([acc.draft EXCEPT !.facets = IF iss.to = "undeclared" THEN Without(@, facet) ELSE [@ EXCEPT ![facet] = ""]])
         [] strategy = "seed_facet" -> done([acc.draft EXCEPT !.facets = (facet :> iss.to) @@ @])
         [] strategy \in {"fill_default", "clear", "coerce"} /\ values # {} ->
                done([acc.draft EXCEPT !.data = SetAt(@, iss.path, CHOOSE v \in values : TRUE)])
         [] OTHER -> acc

\* The draft of a repair of a record just loaded.
Repair(s, f, t, dups, plan) ==
    FoldSet(LAMBDA iss, acc : ApplyStrategy(t, acc, iss, plan[iss.kind], Fresh(s)),
            [draft |-> View(s, f, t.fields), applied |-> {}],
            {iss \in IssuesOf(s, f, t, dups) : iss.kind \in DOMAIN plan})

----------------------------------------------------------------------------
(* RenameCandidates, MigrateFieldKey *)

Shape(type) ==
    CASE type \in Numbers \cup {"sequence"}       -> "number"
      [] type = "boolean"                         -> "bool"
      [] type \in Lists                           -> "list"
      [] type \in {"link", "api", "api-client"}   -> "map"
      [] OTHER                                    -> "string"

Blank(v) == v \in {Nil, Str(""), List(<<>>), Map(<<>>)}

\* The moves the dialog offers: from a root key that no field declares and every
\* record has, to a root field that is empty in every record and of its shape.
RenameCandidates(t, disk) ==
    LET declared == {u.field : u \in {u \in Units(t.fields) : u.field.type \notin {"loopstop", "looper"}}}
        orphans == {k \in UNION {DOMAIN disk[f].data : f \in DOMAIN disk} :
                    k \notin {d.key : d \in declared} /\ \A f \in DOMAIN disk : k \in DOMAIN disk[f].data}
        shapes(k) == SelectSeq([i \in DOMAIN Forms |-> IF Forms[i] \in DOMAIN disk THEN disk[Forms[i]].data[k].is ELSE "nil"],
                               LAMBDA is : is # "nil")
        targets == {d \in declared : /\ d.type \notin Virtual \cup {"loopstart"}
                                     /\ \A f \in DOMAIN disk : d.key \in DOMAIN disk[f].data => Blank(disk[f].data[d.key])}
    IN {<<k, d.key>> : <<k, d>> \in {p \in orphans \X targets : shapes(p[1]) # <<>> /\ Shape(p[2].type) = shapes(p[1])[1]}}

\* Each value the raw record has under the old key goes to the new key at the same
\* path of the loaded one; the old key goes from there.
Moved(fs, raw, base, from, to) ==
    FoldSet(LAMBDA iss, acc :
                IF ~Reachable(acc.draft.data, iss.path) THEN acc
                ELSE LET there == Append(Front(iss.path), At(to))
                     IN [draft |-> [acc.draft EXCEPT !.data =
                                       DeleteAt(SetAt(@, there, ValueAt(raw.data, iss.path)), iss.path)],
                         applied |-> acc.applied \cup {iss}],
            [draft |-> base, applied |-> {}],
            {iss \in DataIssues(fs, raw.data, <<>>) : iss.kind = "extra_field" /\ LeafKey(iss.path) = from})

----------------------------------------------------------------------------
(* Operations *)

NoForm == [data |-> <<>>, id |-> "", facets |-> <<>>]
Idle == [kind |-> "idle", plan |-> <<>>, move |-> <<>>, tpl |-> [fields |-> <<>>, facets |-> <<>>], dups |-> {},
         todo |-> <<>>, file |-> "", draft |-> NoForm, applied |-> {}]
KeysOf(fs) == {fs[i].key : i \in DOMAIN fs}

Init ==
    /\ tpl \in Templates
    /\ store \in {[disk |-> d, shown |-> [f \in Range(Forms) |-> ""]] : d \in Disks}
    /\ dialog = {} /\ job = Idle /\ ops = 0
    /\ kept = [f \in Range(Forms) |-> [since |-> {}, data |-> Map(<<>>)]]

Count == ops < MaxOps /\ ops' = ops + 1

\* The doctor's dialog covers the editors of its own window.
Free == job = Idle \/ Overlap
CloseDialog == dialog' = IF Overlap THEN dialog ELSE {}

\* What of a value lies under the given keys.
RECURSIVE Under(_, _)
Under(v, keys) ==
    CASE v.is = "list" -> List(SelectSeq([i \in DOMAIN v.list |-> Under(v.list[i], keys)], LAMBDA it : ~Blank(it)))
      [] v.is = "map"  -> LET full == {k \in DOMAIN v.map \cap keys : ~Blank(Under(v.map[k], keys))}
                          IN Map([k \in full |-> Under(v.map[k], keys)])
      [] OTHER         -> v

Keep(f, keys, data) == kept' = [kept EXCEPT ![f] = [since |-> keys, data |-> Under(Map(data), keys)]]

\* SaveValues: the editor's view of the record with one value typed anew, on a
\* template that has the key; a record that is not there begins with the defaults.
SaveForm(f) ==
    /\ Free /\ Count /\ CloseDialog
    /\ \E in \in Inputs, loaded \in {LoadForm(store, f, tpl.fields)} :
       \E view \in {IF f \in DOMAIN loaded.disk THEN View(loaded, f, tpl.fields)
                    ELSE [NoForm EXCEPT !.data = SanitizeData(@, tpl.fields)]} :
       \E payload \in {[view EXCEPT !.data = (in[1] :> in[2]) @@ @]} :
           /\ in[1] \in {u.field.key : u \in Units(tpl.fields)}
           /\ \E answers \in BOOLEAN : store' = SaveFormOf(loaded, f, payload, tpl, answers)
           /\ LET issues == {LeafKey(iss.path) : iss \in DataIssues(tpl.fields, store'.disk[f].data, <<>>)}
              IN Keep(f, KeysOf(tpl.fields) \ (issues \cup {GuidFieldKey(tpl.fields)}), payload.data)
    /\ UNCHANGED <<tpl, job>>

\* CopyForm: all but the identity goes to a record that is not there.
CopyForm(f, to) ==
    /\ Free /\ Count /\ CloseDialog
    /\ f \in DOMAIN store.disk /\ to \notin DOMAIN store.disk
    /\ \E loaded \in {LoadForm(store, f, tpl.fields)} :
       \E copy \in {[View(loaded, f, tpl.fields) EXCEPT !.id = "", !.data = Without(@, GuidFieldKey(tpl.fields))]} :
           \E answers \in BOOLEAN : store' = SaveFormOf(loaded, to, copy, tpl, answers)
    /\ UNCHANGED <<tpl, job, kept>>

DeleteForm(f) ==
    /\ Free /\ Count /\ CloseDialog
    /\ f \in DOMAIN store.disk
    /\ store' = [disk |-> Without(store.disk, f), shown |-> [store.shown EXCEPT ![f] = ""]]
    /\ Keep(f, {}, <<>>)
    /\ UNCHANGED <<tpl, job>>

\* SaveTemplate, whose index hook loads every record.
EditTemplate(t) ==
    LET place(fs, k) == {<<fs[i].type, OpenLoops(fs, FALSE)[i]>> : i \in {i \in DOMAIN fs : fs[i].key = k}}
        still == {k \in KeysOf(t.fields) : place(t.fields, k) = place(tpl.fields, k)}
    IN /\ Free /\ Count /\ CloseDialog
       /\ t # tpl
       /\ tpl' = t
       /\ store' = LoadAll(store, t.fields)
       /\ kept' = [f \in DOMAIN kept |-> LET keys == kept[f].since \cap still
                                         IN [since |-> keys, data |-> Under(kept[f].data, keys)]]
       /\ UNCHANGED job

\* Analyze, then RenameCandidates.
Analyze ==
    /\ job = Idle /\ Count
    /\ store' = LoadAll(store, tpl.fields)
    /\ dialog' = RenameCandidates(tpl, store'.disk)
    /\ UNCHANGED <<tpl, job, kept>>

StartFix(plan) ==
    /\ job = Idle /\ Count
    /\ store' = LoadAll(store, tpl.fields)
    /\ job' = [Idle EXCEPT !.kind = "fix", !.plan = plan, !.tpl = tpl, !.dups = DuplicateGuids(store', tpl), !.todo = Forms]
    /\ UNCHANGED <<tpl, dialog, kept>>

\* The moves a caller of the service may ask for besides: from a key no field declares
\* to a declared field that is missing beside it.
NestedMoves ==
    LET issues == UNION {DataIssues(tpl.fields, store.disk[f].data, <<>>) : f \in DOMAIN store.disk}
        of(kind) == {iss.path : iss \in {iss \in issues : iss.kind = kind}}
        beside(p, q) == Front(p) = Front(q) /\ LeafKey(p) \notin KeysOf(tpl.fields)
    IN {<<LeafKey(p), LeafKey(q)>> : <<p, q>> \in {pq \in of("extra_field") \X of("missing_field") : beside(pq[1], pq[2])}}

StartMove(move) ==
    /\ job = Idle /\ Count
    /\ job' = [Idle EXCEPT !.kind = "move", !.move = move, !.tpl = tpl, !.todo = Forms]
    /\ kept' = [f \in DOMAIN kept |-> IF move[2] \in DOMAIN kept[f].data.map THEN kept[f]
                                      ELSE [kept[f] EXCEPT !.since = @ \ {move[2]}]]
    /\ UNCHANGED <<tpl, store, dialog>>

\* One record of the repair or move: it is loaded and the draft made.
JobLoad ==
    /\ job.todo # <<>> /\ job.file = ""
    /\ \E f \in {Head(job.todo)} :
           IF f \notin DOMAIN store.disk
           THEN job' = [job EXCEPT !.todo = Tail(@)] /\ UNCHANGED store
           ELSE /\ store' = LoadForm(store, f, tpl.fields)
                /\ \E made \in {IF job.kind = "fix" THEN Repair(store', f, job.tpl, job.dups, job.plan)
                                ELSE Moved(job.tpl.fields, store.disk[f], View(store', f, tpl.fields),
                                           job.move[1], job.move[2])} :
                       job' = [job EXCEPT !.file = f, !.draft = made.draft, !.applied = made.applied]
    /\ UNCHANGED <<tpl, dialog, kept, ops>>

\* Mutant: the record stays at hand when the job goes on.
JobSaveOnly ==
    /\ job.file # ""
    /\ store' = IF job.applied = {} THEN store ELSE SaveFormExact(store, job.file, job.draft, tpl.fields)
    /\ job' = [job EXCEPT !.todo = Tail(@), !.draft = NoForm, !.applied = {}]
    /\ UNCHANGED <<tpl, dialog, kept, ops>>

\* The draft is written if the repair or move did anything.
JobSave ==
    /\ job.file # ""
    /\ store' = IF job.applied = {} THEN store ELSE SaveFormExact(store, job.file, job.draft, tpl.fields)
    /\ job' = [job EXCEPT !.todo = Tail(@), !.file = "", !.draft = NoForm, !.applied = {}]
    /\ UNCHANGED <<tpl, dialog, kept, ops>>

\* The repair's own analysis and the dialog's.
JobEnd ==
    /\ job # Idle /\ job.todo = <<>>
    /\ job' = Idle
    /\ store' = LoadAll(store, tpl.fields)
    /\ dialog' = RenameCandidates(tpl, store'.disk)
    /\ UNCHANGED <<tpl, kept, ops>>

Next ==
    \/ \E f \in Range(Forms) : SaveForm(f) \/ DeleteForm(f)
    \/ \E f, to \in Range(Forms) : CopyForm(f, to)
    \/ \E t \in Templates : EditTemplate(t)
    \/ Analyze
    \/ \E plan \in Plans : StartFix(plan)
    \/ \E move \in dialog \cup (IF Nested THEN NestedMoves ELSE {}) : StartMove(move)
    \/ JobLoad \/ JobSave \/ JobEnd

Spec == Init /\ [][Next]_vars

----------------------------------------------------------------------------
(* Properties *)

\* The disk holds records of the known forms under known guids, the keys of the
\* history are the template's, and a job is at a record it has to do: the shape of
\* the state every operation keeps.
TypeInv ==
    /\ tpl \in Templates /\ DOMAIN store.disk \subseteq Range(Forms) /\ ops \in 0 .. MaxOps
    /\ \A f \in DOMAIN store.disk : IdsOf(store.disk[f]) \subseteq Range(Ids) \cup {""}
    /\ \A f \in DOMAIN kept : kept[f].since \subseteq KeysOf(tpl.fields) /\ DOMAIN kept[f].data.map \subseteq kept[f].since
    /\ job.kind \in {"idle", "fix", "move"} /\ (job.file # "" => job.file = Head(job.todo))

\* What a user saved under a key, and the doctor had no complaint about, is there for
\* as long as the template declares the key as it did: whatever template edits,
\* heals, repairs and moves come after.  Sanitize, the heal of LoadForm, FixTemplate
\* and MigrateFieldKey each rewrite the whole record.
DeclaredKept ==
    \A f \in DOMAIN store.disk :
        Under(Map(store.disk[f].data), kept[f].since) = kept[f].data

\* While the template has a guid field, a record's guid, once a load has shown it,
\* changes only if another record was shown with the same one: relation edges and
\* references hold it.
IdsStable ==
    [][\A f \in Range(Forms) :
           (GuidFieldKey(tpl.fields) # "" /\ store.shown[f] # "" /\ store'.shown[f] \notin {store.shown[f], ""})
           => \E g \in Range(Forms) \ {f} : store.shown[g] = store.shown[f]]_vars

\* A repair mends what it applies to and makes nothing worse: what it leaves are
\* issues that were there, and asked again it has nothing left to apply.  Loops are
\* excepted, whose default the doctor does not know.
AtLoop(iss) == LeafKey(iss.path) \in {tpl.fields[i].key : i \in Starts(tpl.fields)}
Complaints(s, f) ==
    {<<iss.kind, LeafKey(iss.path)>> : iss \in {iss \in IssuesOf(s, f, tpl, DuplicateGuids(s, tpl)) : ~AtLoop(iss)}}
RepairBegins == job.kind = "fix" /\ job.todo = Forms /\ job.file = ""
FixSettles ==
    RepairBegins =>
        \A f \in DOMAIN store.disk : \A first \in {Repair(store, f, tpl, job.dups, job.plan)} :
        \A mended \in {IF first.applied = {} THEN store ELSE SaveFormExact(store, f, first.draft, tpl.fields)} :
            /\ Complaints(mended, f) \subseteq Complaints(store, f)
            /\ \A iss \in Repair(mended, f, tpl, DuplicateGuids(mended, tpl), job.plan).applied : AtLoop(iss)

\* A move puts each value of a loop's item under its new key in that item.
Rows(v) == SelectSeq([i \in DOMAIN v.list |-> {x \in Range(v.list[i].map) : ~Blank(x)}], LAMBDA row : row # {})
MovesStay ==
    [][(job.kind = "move" /\ job.file \in DOMAIN store.disk /\ job'.file = "") =>
       LET before == store.disk[job.file].data
           after  == store'.disk[job.file].data
       IN \A k \in DOMAIN before \cap DOMAIN after :
              before[k].is = "list" => Rows(before[k]) = Rows(after[k])]_vars

=============================================================================
