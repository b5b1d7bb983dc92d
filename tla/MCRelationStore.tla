--------------------------- MODULE MCRelationStore ---------------------------
(* Two templates of two records; the records of A have a field for B. *)
EXTENDS RelationStore, TLC
CONSTANTS A, B, a1, a2, b1, b2
MCTemplates == {A, B}
MCRecordsOf == A :> {a1, a2} @@ B :> {b1, b2}
MCFields == A :> {B} @@ B :> {}
MCDeclared == <<A, B>>
Symm == Permutations({a1, a2}) \cup Permutations({b1, b2})
=============================================================================
