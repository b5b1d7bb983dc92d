------------------------------ MODULE MCFormDoctor ------------------------------
EXTENDS FormDoctor

\* A loop of a row name and a value, whose key a later version renames.
LoopOf(key) == <<Field("loopstart", "l"), Field("text", "row"), Field("number", key), Field("loopstop", "l")>>
Guid == <<Field("guid", "id")>>
StatusField == [Field("facet", "f") EXCEPT !.bind = [kind |-> "facet", to |-> "status"], !.dflt = "open"]
Version(fs, labels) == [fields |-> fs, facets |-> [status |-> labels]]
MCTemplates ==
    {Version(<<Field("text", "a"), Field("number", "n")>> \o LoopOf("x"), {"open"}),
     Version(<<Field("text", "b"), Field("number", "n"), Field("tags", "t"), StatusField>> \o Guid \o LoopOf("x"), {"open", "done"}),
     Version(<<Field("text", "b"), Field("boolean", "n"), Field("date", "d"), StatusField>> \o Guid \o LoopOf("y"), {"open"})}

Row(name, key, v) == Map([row |-> Str(name)] @@ (key :> v))
Fine == [data |-> [a |-> Str("one"), n |-> Num("7"), l |-> List(<<Row("r", "x", Num("0"))>>)], id |-> "", facets |-> <<>>]
Drifted == [data |-> [a |-> Num("7"), n |-> Str("7"), t |-> Str("one"), d |-> Str("02/01/2026"), id |-> Str("i1"),
                      l |-> List(<<Row("", "x", Str("")), Row("r", "x", Str("yes")), Row("s", "x", Num("7")),
                                   Map([row |-> Str("t"), z |-> Str("old")])>>)],
            id |-> "i2", facets |-> [status |-> "done"]]
Copy == [data |-> [b |-> Str("one"), id |-> Str("i1"), l |-> Str("yes")], id |-> "i1", facets |-> [flag |-> "on"]]
MCForms == <<"p", "q">>
MCDisks == {[p |-> Fine, q |-> Drifted], [p |-> Drifted, q |-> Copy]}
MCIds == <<"i1", "i2", "i3", "i4", "i5", "i6">>
MCInputs == {<<"a", Str("two")>>, <<"l", List(<<Row("r", "x", Num("0")), Map([x |-> Num("0")])>>)>>}
Kinds == {"extra_field", "missing_field", "type_mismatch", "bad_date_format", "meta_bad_format", "facet_unseeded",
          "duplicate_guid"}
Default(kind) ==
    CASE kind = "extra_field" -> "strip" [] kind = "missing_field" -> "fill_default"
      [] kind \in {"type_mismatch", "bad_date_format"} -> "coerce" [] kind = "meta_bad_format" -> "restamp"
      [] kind = "facet_unseeded" -> "seed_facet" [] OTHER -> "mint_uuid"
MCPlans == {[k \in Kinds |-> Default(k)],
            [k \in {"type_mismatch", "bad_date_format"} |-> "clear"],
            [k \in {"extra_field", "duplicate_guid"} |-> Default(k)]}
MCDateForms == [x \in {"2026-01-02", "02/01/2026"} |-> "2026-01-02"]
=================================================================================
