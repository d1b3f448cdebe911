--------------------------- MODULE MCSchemaPromote ---------------------------
(* The candidates of one table.  A behaviour is one of two: one session     *)
(* after another on a relationship with two values (found in the code, which *)
(* does not say what field it refers to, and as a foreign key, which does)  *)
(* and a field known as mere evidence; or two sessions at a time on two     *)
(* values of one field.                                                     *)
EXTENDS SchemaPromote, TLC

CONSTANTS rel, note, name, code, key, hint, x, y, s1, s2

MCScopes   == {rel, note, name}
MCRuled    == {note, name}
MCCands    == {code, key, hint, x, y}
MCScopeOf  == (code :> rel) @@ (key :> rel) @@ (hint :> note) @@ (x :> name) @@ (y :> name)
MCEvidence == {hint}
MCRepo     == {code, hint}
MCKeys     == {key}
MCBare     == {code}
MCSessions == {s1, s2}
Symmetry   == Permutations(MCSessions)

VARIABLE part  \* which of the two the behaviour is about

InTurn == part = "in turn"

\* The bounds of the two: the candidates that are written, the column that a user
\* edits, the sessions at a time.
Written == IF InTurn THEN {code, key, hint} ELSE {x, y}
Bounded ==
  /\ \A s \in Sessions, c \in Cands \ Written : tx'[s].plan.st[c] = "same"
  /\ InTurn \/ table'.value[rel] = NoCand
  /\ InTurn => \E s \in Sessions : \A u \in Sessions \ {s} : Idle(u)'

BothInit == Init /\ part \in {"in turn", "at a time"}
BothNext == Next /\ Bounded /\ UNCHANGED part
Both     == BothInit /\ [][BothNext]_<<vars, part>>
==============================================================================
