--------------------------- MODULE MCTemplateEditor ---------------------------
EXTENDS TemplateEditor

Marker == {Field("loopstart", "a"), Field("loopstop", "a"), Field("loopstart", "b"), Field("loopstop", "b")}
MCFacets == [status |-> {"open", "done"}]
MCFormulas == [total |-> "number", name |-> "text"]
FacetTo(key, dflt) == [Field("facet", "f") EXCEPT !.bind = [kind |-> "facet", to |-> key], !.dflt = dflt]
FormulaInto(source, key) ==
    [Field("formula", "m") EXCEPT !.bind = [kind |-> "formula", to |-> source], !.target = key, !.fmt = "good"]
Bound == {FacetTo("status", "open"), FacetTo("status", "lost"), FacetTo("gone", "open"),
          FormulaInto("total", "n"), FormulaInto("name", "n"), FormulaInto("total", "c"),
          [Field("number", "n") EXCEPT !.pk = TRUE, !.expr = TRUE],
          [Field("table", "t") EXCEPT !.fmt = "good", !.target = "c"],
          [Field("diagram", "g") EXCEPT !.target = "t"]}
MCFiles == {<<>>, <<Field("guid", "")>>} \cup UNION {[1 .. n -> Marker] : n \in 1 .. 3}
           \cup {<<Field("loopstart", "a"), Field("loopstart", "b"), Field("loopstop", a), Field("loopstop", b)>> :
                 <<a, b>> \in {<<"a", "b">>, <<"b", "a">>}}
           \cup {<<Field("loopstart", "a"), Field("text", "c"), Field("loopstop", "a"), Field("project", "project")>>}
MCCandidates == {Field("text", "a"), Field("looper", "b"), Field("loopstart", "d"), Field("event", "event"),
                 [Field("guid", "") EXCEPT !.key = "id"]} \cup Bound
NoFields == {<<>>}
Unready == {Field("text", "a"), Field("api", "p")}
===============================================================================
