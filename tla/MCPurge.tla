------------------------------- MODULE MCPurge -------------------------------
(* Two sessions on two values of one relationship found in the code.        *)
EXTENDS SchemaPromote, TLC

CONSTANTS r, x, y, s1, s2

None        == {}
RScope      == {r}
Two         == {x, y}
TwoOfRel    == (x :> r) @@ (y :> r)
TwoSessions == {s1, s2}
Symmetry    == Permutations(TwoSessions)
==============================================================================
