----------------------------- MODULE MCClarify -----------------------------
(* One run whose agent asks up to two questions, one after the other or at  *)
(* once, and a user who posts two answers.                                  *)
EXTENDS Clarify

CONSTANTS t1, c1, c2, p1, p2

MCTraces  == {t1}
MCCalls   == {c1, c2}
MCPosts   == {p1, p2}
MCTraceOf == [c \in MCCalls |-> t1]
============================================================================
