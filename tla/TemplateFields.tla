---------------------------- MODULE TemplateFields ----------------------------
(***************************************************************************)
(* The rules of a template's field list: which attributes a type may have, *)
(* the loops its markers make, the normalisation and the validation of a   *)
(* save.  Translated from internal/modules/template: normalize.go,         *)
(* validate.go, scope.go, fieldtree.go, field_abilities.go.                *)
(*                                                                         *)
(* A field has a type, a key ("" if it is not filled in), the attributes   *)
(* the rules read and one binding: to a facet, a formula, a collection or  *)
(* an API client.  Layout attributes (labels, columns, read-only) and the  *)
(* catalogues' own spelling rules are left out.                            *)
(***************************************************************************)
EXTENDS Integers, Sequences, FiniteSets, SequencesExt

Text    == {"text", "textarea", "mermaid", "dropdown", "radio", "file-path", "folder-path", "image"}
Numbers == {"number", "range"}
Lists   == {"tags", "multioption", "list", "table"}
Markers == {"loopstart", "loopstop", "looper"}
Virtual == {"facet", "formula", "diagram"}
Owned   == {"sequence", "slide", "slideset", "event", "project"}   \* own a key of their name
Known   == Text \cup Numbers \cup Lists \cup Markers \cup Virtual \cup Owned
           \cup {"date", "boolean", "link", "api", "api-client", "guid"}

\* field_abilities.go: the types an attribute is allowed on.
Allowed(attr) ==
    CASE attr = "pk"   -> Known \ (Markers \cup Virtual \cup Owned \cup {"guid", "api-client", "mermaid"})
      [] attr = "expr" -> {"text", "number", "range", "slideset", "project", "date", "boolean",
                           "dropdown", "radio", "facet"}
      [] attr = "opts" -> {"number", "range", "slide", "slideset", "event", "project", "boolean", "dropdown",
                           "multioption", "radio", "file-path", "list", "table", "diagram"}
      [] attr = "dflt" -> Known \ (Markers \cup Owned \cup {"guid", "api", "api-client", "formula", "diagram"})
      [] attr = "fmt"  -> {"textarea", "table", "facet"}

Unbound == [kind |-> "none", to |-> ""]

\* A field as the editor makes it.
Field(type, key) ==
    [type |-> type, key |-> key, pk |-> FALSE, expr |-> FALSE, opts |-> type = "event", dflt |-> "",
     fmt |-> "", bind |-> Unbound, target |-> "", level |-> 0]

Marks(fs, type) == {i \in DOMAIN fs : fs[i].type = type}
Starts(fs) == Marks(fs, "loopstart")
Stops(fs)  == Marks(fs, "loopstop")

----------------------------------------------------------------------------
(* Loops *)

\* Mutant: a stop with no open loop goes below the root.
UnclampedScopes(fs) ==
    LET depth[i \in 0 .. Len(fs)] ==
            IF i = 0 THEN 0
            ELSE depth[i - 1] + (IF i \in Starts(fs) THEN 1 ELSE IF i \in Stops(fs) THEN -1 ELSE 0)
    IN [i \in DOMAIN fs |-> IF i \in Starts(fs) THEN depth[i - 1] ELSE depth[i]]

\* assignLevelScopes: a stop with no open loop stays at the root.
LevelScopes(fs) ==
    LET depth[i \in 0 .. Len(fs)] ==
            IF i = 0 THEN 0
            ELSE IF i \in Starts(fs) THEN depth[i - 1] + 1
            ELSE IF i \in Stops(fs) /\ depth[i - 1] > 0 THEN depth[i - 1] - 1
            ELSE depth[i - 1]
    IN [i \in DOMAIN fs |-> IF i \in Starts(fs) THEN depth[i - 1] ELSE depth[i]]

\* matchLoopstop, as storage, integrity and the form view each have it: the stop
\* of this key where the starts and stops after the loop's start balance.
MatchLoopstop(fs, start) ==
    LET inside(S, i) == Cardinality(S \cap (start + 1 .. i))
        closing == {i \in Stops(fs) : /\ i > start /\ fs[i].key = fs[start].key
                                      /\ inside(Stops(fs), i) = inside(Starts(fs), i) + 1}
    IN IF closing = {} THEN Len(fs) ELSE CHOOSE i \in closing : \A j \in closing : i <= j

\* BuildFieldTree: a start and the nearest stop of its key that closes it fold into
\* a unit; a marker without one stands as a row of its own.
RECURSIVE Consume(_, _, _)
Consume(fs, pos, loop) ==
    IF pos > Len(fs) \/ (pos \in Stops(fs) /\ loop # 0 /\ fs[pos].key = fs[loop].key)
    THEN [pos |-> pos, units |-> <<>>]
    ELSE LET inner == IF pos \in Starts(fs) THEN Consume(fs, pos + 1, pos) ELSE [pos |-> 0, units |-> <<>>]
             folds == inner.pos \in Stops(fs)
             unit  == [field |-> fs[pos], stop |-> IF folds THEN <<fs[inner.pos]>> ELSE <<>>,
                       items |-> IF folds THEN inner.units ELSE <<>>]
             rest  == Consume(fs, IF folds THEN inner.pos + 1 ELSE pos + 1, loop)
         IN [pos |-> rest.pos, units |-> <<unit>> \o rest.units]

\* Mutant: a start folds with the next stop, whatever its key.
RECURSIVE ConsumeAny(_, _, _)
ConsumeAny(fs, pos, loop) ==
    IF pos > Len(fs) \/ (pos \in Stops(fs) /\ loop # 0)
    THEN [pos |-> pos, units |-> <<>>]
    ELSE LET inner == IF pos \in Starts(fs) THEN ConsumeAny(fs, pos + 1, pos) ELSE [pos |-> 0, units |-> <<>>]
             folds == inner.pos \in Stops(fs)
             unit  == [field |-> fs[pos], stop |-> IF folds THEN <<fs[inner.pos]>> ELSE <<>>,
                       items |-> IF folds THEN inner.units ELSE <<>>]
             rest  == ConsumeAny(fs, IF folds THEN inner.pos + 1 ELSE pos + 1, loop)
         IN [pos |-> rest.pos, units |-> <<unit>> \o rest.units]

BuildLooseTree(fs) == ConsumeAny(fs, 1, 0).units
BuildFieldTree(fs) == Consume(fs, 1, 0).units

RECURSIVE FlattenFieldTree(_)
FlattenFieldTree(units) ==
    FoldLeft(LAMBDA flat, u : flat \o <<u.field>> \o FlattenFieldTree(u.items) \o u.stop, <<>>, units)

\* loopPairingErrors: markers that have no partner, or one of another key.
LoopPairingErrors(fs) ==
    LET step(s, i) ==
            IF i \in Starts(fs) THEN [s EXCEPT !.open = Append(@, i)]
            ELSE IF i \notin Stops(fs) THEN s
            ELSE IF s.open = <<>> THEN [s EXCEPT !.bad = @ \cup {i}]
            ELSE [open |-> Front(s.open),
                  bad |-> IF fs[Last(s.open)].key = fs[i].key THEN s.bad ELSE s.bad \cup {i}]
        end == FoldLeftDomain(step, [open |-> <<>>, bad |-> {}], fs)
    IN end.bad \cup {end.open[i] : i \in DOMAIN end.open}

\* The keys of the loops open at each field; a stop closes the innermost loop, for
\* loopNestingErrors only if the keys agree.
OpenLoops(fs, agree) ==
    LET open[i \in 0 .. Len(fs)] ==
            IF i = 0 THEN <<>>
            ELSE IF i \in Starts(fs) THEN Append(open[i - 1], fs[i].key)
            ELSE IF i \in Stops(fs) /\ open[i - 1] # <<>> /\ (agree => Last(open[i - 1]) = fs[i].key)
            THEN Front(open[i - 1])
            ELSE open[i - 1]
    IN open

----------------------------------------------------------------------------
(* Normalize *)

Strip(f) ==
    [f EXCEPT !.pk   = @ /\ f.type \in Allowed("pk"),
              !.expr = @ /\ f.type \in Allowed("expr"),
              !.opts = @ /\ f.type \in Allowed("opts"),
              !.dflt = IF f.type \in Allowed("dflt") THEN @ ELSE "",
              !.fmt  = IF f.type \in Allowed("fmt") THEN @ ELSE "",
              !.bind = IF @.kind = "facet" /\ f.type # "facet" THEN Unbound ELSE @]

\* normalizeField: formula bindings and formats off their types are dropped, the
\* formats of textarea, facet and formula fall back to a default.
NormalizeField(f) ==
    [f EXCEPT !.bind   = IF @.kind = "formula" /\ f.type # "formula" THEN Unbound ELSE @,
              !.target = IF f.type \in {"formula", "diagram", "table", "api-client"} THEN @ ELSE "",
              !.fmt    = IF f.type \in {"textarea", "facet", "formula"} THEN "good"
                         ELSE IF f.type = "table" /\ @ = "good" THEN @ ELSE ""]

FacetDefault(f, facets) ==
    IF f.type = "facet" /\ (f.bind.to \notin DOMAIN facets \/ f.dflt \notin facets[f.bind.to])
    THEN [f EXCEPT !.dflt = ""] ELSE f

ForcedKey(f) == IF f.type = "guid" THEN "id" ELSE IF f.type \in Owned THEN f.type ELSE f.key

Normalize(t) ==
    LET fs == [i \in DOMAIN t.fields |-> FacetDefault(NormalizeField(t.fields[i]), t.facets)]
        ls == LevelScopes(fs)
    IN [t EXCEPT !.fields = [i \in DOMAIN fs |->
            Strip([fs[i] EXCEPT !.level = ls[i], !.expr = @ /\ ls[i] = 0, !.key = ForcedKey(fs[i])])]]

----------------------------------------------------------------------------
(* Validate: an error is about a field, at its place, or about the template,   *)
(* with the keys it names                                                      *)

AtField(rule, t, i) == [rule |-> rule, field |-> TRUE, at |-> i, keys |-> {t.fields[i].key}]
Whole(rule, keys)   == [rule |-> rule, field |-> FALSE, at |-> 1, keys |-> keys]
When(cond, error)   == IF cond THEN {error} ELSE {}
Wrong(rule, t, P(_)) == {AtField(rule, t, i) : i \in {j \in DOMAIN t.fields : P(j)}}

\* The api, api-client and event rules leave the place of the field unset.
Misplaced(rule, t, P(_)) == {[e EXCEPT !.at = 1] : e \in Wrong(rule, t, P)}

Has(t, type) == Marks(t.fields, type) # {}
Keys(t, S)   == {t.fields[i].key : i \in S}

\* A key seen before, unless it is the other marker of the first field that has it.
DuplicateKeys(fs) ==
    {fs[i].key : i \in {j \in DOMAIN fs : fs[j].key # "" /\ \E first \in 1 .. j - 1 :
        /\ fs[first].key = fs[j].key
        /\ \A h \in 1 .. first - 1 : fs[h].key # fs[j].key
        /\ {fs[first].type, fs[j].type} # {"loopstart", "loopstop"}}}

KeyErrors(t) ==
    LET fs == t.fields IN
    When(DuplicateKeys(fs) # {}, Whole("duplicate-keys", DuplicateKeys(fs)))
    \cup LET pks == {i \in DOMAIN fs : fs[i].pk}
         IN When(Cardinality(pks) > 1, Whole("multiple-primary-keys", Keys(t, pks)))
    \cup Wrong("missing-field-key", t, LAMBDA i : fs[i].key = "" /\ fs[i].type # "guid")
    \cup Wrong("reserved-key", t, LAMBDA i :
            \/ fs[i].key \in Owned /\ fs[i].type # fs[i].key
            \/ fs[i].key = "id" /\ fs[i].type # "guid")

LoopErrors(t) ==
    LET fs == t.fields IN
    Wrong("loop-pairing", t, LAMBDA i : i \in LoopPairingErrors(fs))
    \cup UNION {When(Len(OpenLoops(fs, TRUE)[i]) > 2, Whole("excessive-loop-nesting", {fs[i].key}))
                : i \in Starts(fs)}
    \cup When(\E i \in Marks(fs, "event") :
                 OpenLoops(fs, FALSE)[i] = <<>> \/ Last(OpenLoops(fs, FALSE)[i]) # "events",
              Whole("event-needs-events-loop", {}))
    \cup Misplaced("event-needs-kinds", t, LAMBDA i : fs[i].type = "event" /\ ~ fs[i].opts)

SingleErrors(t) ==
    UNION {LET S == Marks(t.fields, type)
           IN When(Cardinality(S) > 1,
                   Whole("multiple-fields", {IF k = "" THEN "(no key)" ELSE k : k \in Keys(t, S)}))
           : type \in {"tags", "guid", "sequence", "slide", "slideset", "project"}}

CollectionErrors(t) ==
    When(t.collection /\ ~ Has(t, "guid"), Whole("missing-guid-for-collection", {}))
    \cup When(Has(t, "sequence") /\ ~ t.collection, Whole("sequence-needs-collection", {}))
    \cup When(Has(t, "slideset") /\ ~ t.collection, Whole("slideset-needs-collection", {}))
    \cup When(Has(t, "slideset") /\ ~ Has(t, "slide"), Whole("slideset-needs-slide", {}))

ModeErrors(t) ==
    When(t.project /\ ~ Has(t, "project"), Whole("project-mode-needs-project", {}))
    \cup When(Has(t, "event") /\ ~ t.project, Whole("event-needs-project-mode", {}))
    \cup When(t.presentation /\ ~ Has(t, "sequence"), Whole("presentation-needs-sequence", {}))
    \cup When(t.presentation /\ t.project, Whole("presentation-project-mode-conflict", {}))

ApiErrors(t) ==
    LET f(i) == t.fields[i] IN
    Misplaced("api-collection-required", t, LAMBDA i : f(i).type = "api" /\ f(i).bind.kind # "api")
    \cup Wrong("forbidden-attribute", t, LAMBDA i :
            \/ f(i).bind.kind = "api" /\ f(i).type # "api"
            \/ f(i).bind.kind = "client" /\ f(i).type # "api-client")

ClientErrors(t) ==
    LET f(i) == t.fields[i] IN
    Misplaced("api-client-required", t, LAMBDA i :
            f(i).type = "api-client" /\ f(i).bind.kind # "client")
    \cup Misplaced("api-client-param-unknown-field", t, LAMBDA i :
            /\ f(i).type = "api-client" /\ f(i).bind.kind = "client" /\ f(i).target # ""
            /\ f(i).target \notin Keys(t, DOMAIN t.fields))

LevelErrors(t) ==
    LET f(i) == t.fields[i]
        ls == LevelScopes(t.fields)
        anySet == \E i \in DOMAIN t.fields : f(i).level # 0
    IN Wrong("level-scope-mismatch", t, LAMBDA i : anySet /\ f(i).level # ls[i])
       \cup Wrong("expression-item-non-root", t, LAMBDA i : f(i).expr /\ ls[i] # 0)

ShapeErrors(t) ==
    LET f(i) == t.fields[i]
    IN Wrong("unknown-field-type", t, LAMBDA i : f(i).type \notin Known)
       \cup Wrong("forbidden-attribute", t, LAMBDA i : f(i).type \in Known /\
                \/ f(i).pk /\ f(i).type \notin Allowed("pk")
                \/ f(i).expr /\ f(i).type \notin Allowed("expr")
                \/ f(i).opts /\ f(i).type \notin Allowed("opts")
                \/ f(i).dflt # "" /\ f(i).type \notin Allowed("dflt")
                \/ f(i).fmt # "" /\ f(i).type \notin Allowed("fmt") \cup {"formula"}
                \/ f(i).bind.kind = "facet" /\ f(i).type # "facet")

\* A facet field needs a declared facet and an option of it as default.
FacetFieldErrors(t) ==
    LET bound(i) == t.fields[i].bind.kind = "facet" /\ t.fields[i].bind.to \in DOMAIN t.facets
    IN Wrong("facet-field-unknown-key", t, LAMBDA i : t.fields[i].type = "facet" /\ ~ bound(i))
       \cup Wrong("facet-field-bad-format", t, LAMBDA i : t.fields[i].type = "facet" /\ t.fields[i].fmt = "bad")
       \cup Wrong("facet-field-bad-default", t, LAMBDA i :
                /\ t.fields[i].type = "facet" /\ bound(i)
                /\ t.fields[i].dflt \notin t.facets[t.fields[i].bind.to])

\* A formula field writes a declared formula's result into a root field that can hold it.
FormulaTargets(type) ==
    CASE type = "number" -> Numbers [] type = "text" -> {"text", "textarea"}
      [] type = "date" -> {"date"} [] type = "bool" -> {"boolean"}

FormulaErrors(t) ==
    LET fs == t.fields
        ls == LevelScopes(fs)
        source(i) == fs[i].bind.kind = "formula" /\ fs[i].bind.to \in DOMAIN t.formulas
        slots(i) == {j \in DOMAIN fs : /\ fs[j].key = fs[i].target
                                       /\ fs[j].key # "" /\ fs[j].type \notin Virtual \cup Markers}
        slot(i) == CHOOSE j \in slots(i) : \A k \in slots(i) : k <= j
        formula(i) == fs[i].type = "formula"
    IN Wrong("formula-field-unknown-source", t, LAMBDA i : formula(i) /\ ~ source(i))
       \cup Wrong("formula-field-unknown-target", t, LAMBDA i : formula(i) /\ slots(i) = {})
       \cup Wrong("formula-field-target-not-root", t, LAMBDA i :
                formula(i) /\ slots(i) # {} /\ ls[slot(i)] > 0)
       \cup Wrong("formula-field-incompatible-target", t, LAMBDA i :
                /\ formula(i) /\ slots(i) # {} /\ ls[slot(i)] = 0 /\ source(i)
                /\ fs[slot(i)].type \notin FormulaTargets(t.formulas[fs[i].bind.to]))
       \cup Wrong("formula-field-bad-trigger", t, LAMBDA i : formula(i) /\ fs[i].fmt = "bad")
       \cup UNION {When(k \in Keys(t, DOMAIN fs) \cup DOMAIN t.facets, Whole("formula-key-collision", {k}))
                   : k \in DOMAIN t.formulas}

\* A diagram draws a root table with a diagram pattern; a reference column of a
\* table names a field directly in a root loop.
DiagramErrors(t) ==
    LET fs == t.fields
        ls == LevelScopes(fs)
        tables == {j \in DOMAIN fs : fs[j].type = "table" /\ fs[j].fmt = "good" /\ ls[j] = 0}
        inLoop == {j \in DOMAIN fs : ls[j] = 1 /\ fs[j].type \notin Virtual \cup Markers}
    IN Wrong("diagram-field-source", t, LAMBDA i :
            fs[i].type = "diagram" /\ (fs[i].target = "" \/ fs[i].target \notin Keys(t, tables)))
       \cup Wrong("table-reference-target", t, LAMBDA i :
            fs[i].type = "table" /\ fs[i].target # "" /\ fs[i].target \notin Keys(t, inLoop))

Validate(t) ==
    UNION {KeyErrors(t), LoopErrors(t), SingleErrors(t), CollectionErrors(t), ModeErrors(t), ApiErrors(t),
           ClientErrors(t), ShapeErrors(t), LevelErrors(t), FacetFieldErrors(t), FormulaErrors(t), DiagramErrors(t)}

\* ValidateFieldDraft: the errors of the template with the candidate at place i that
\* concern the candidate.
WithField(t, c, i) ==
    [t EXCEPT !.fields = IF i > Len(@) THEN Append(@, c) ELSE ReplaceAt(@, i, c)]

ValidateFieldDraft(t, c, i) ==
    {e \in Validate(WithField(t, c, i)) :
        IF e.field THEN e.at = i ELSE c.key # "" /\ c.key \in e.keys}
===============================================================================
