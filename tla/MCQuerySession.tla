--------------------------- MODULE MCQuerySession ---------------------------
(* One query and up to two cancel requests.                                 *)
EXTENDS QuerySession

CONSTANTS r1, r2

MCRequests == {r1, r2}
OneRequest == {r1}
============================================================================
