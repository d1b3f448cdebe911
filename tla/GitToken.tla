------------------------------ MODULE GitToken ------------------------------
(***************************************************************************)
(* The git tokens of the super admins (api/git_token_config.py) and what a *)
(* clone is given (knowledge/git_token_resolver.py).                       *)
(*                                                                         *)
(* Every endpoint is one transaction.  The unit of work writes the changed *)
(* rows in the order of their ids, and the partial unique index            *)
(* uq_git_token_configs_one_active is checked after each of the UPDATEs.   *)
(***************************************************************************)
EXTENDS Naturals, FiniteSets

CONSTANTS
  Ids,     \* git_token_configs rows, in the order they are added
  Tokens,  \* what a row may hold
  Default  \* settings.git_token

VARIABLES
  rows,    \* [made, token, active, deleted] by row
  reply,   \* [op, id, result] of the latest request
  cloned   \* the token the latest clone was given

vars == <<rows, reply, cloned>>

Init ==
  /\ rows = [i \in Ids |-> [made |-> FALSE, token |-> Default, active |-> FALSE, deleted |-> FALSE]]
  /\ reply = [op |-> "none", id |-> 0, result |-> "ok"]
  /\ cloned = Default

InUse(r) == {i \in Ids : r[i].active /\ ~r[i].deleted}

\* _get_or_404
Found(i) == rows[i].made /\ ~rows[i].deleted

Answer(op, i, result) == reply' = [op |-> op, id |-> i, result |-> result]

\* add_config: in use only after an activation.
Add(i, t) ==
  /\ ~rows[i].made /\ \A j \in Ids : j < i => rows[j].made
  /\ rows' = [rows EXCEPT ![i] = [made |-> TRUE, token |-> t, active |-> FALSE, deleted |-> FALSE]]
  /\ Answer("add", i, "ok") /\ UNCHANGED cloned

\* update_config: a masked token leaves the stored one.
Update(i, t) ==
  /\ Found(i)
  /\ rows' = [rows EXCEPT ![i].token = t]
  /\ Answer("update", i, "ok") /\ UNCHANGED cloned

\* delete_config
Delete(i) ==
  /\ Found(i)
  /\ rows' = [rows EXCEPT ![i].deleted = TRUE, ![i].active = FALSE]
  /\ Answer("delete", i, "ok") /\ UNCHANGED cloned

\* The rows after the UPDATEs of the ids up to k.
Flushed(i, k) ==
  [j \in Ids |-> IF j > k THEN rows[j] ELSE [rows[j] EXCEPT !.active = (j = i)]]

\* activate_config: the others first in the code, the ids in order in the flush.
Activate(i) ==
  /\ Found(i)
  /\ IF \A k \in Ids : Cardinality(InUse(Flushed(i, k))) <= 1
     THEN rows' = Flushed(i, CHOOSE k \in Ids : \A j \in Ids : j <= k) /\ Answer("activate", i, "ok")
     ELSE UNCHANGED rows /\ Answer("activate", i, "error")
  /\ UNCHANGED cloned

\* deactivate_config
Deactivate(i) ==
  /\ Found(i)
  /\ rows' = [rows EXCEPT ![i].active = FALSE]
  /\ Answer("deactivate", i, "ok") /\ UNCHANGED cloned

\* get_global_git_token: an empty token counts as none.
Clone ==
  /\ cloned' = IF InUse(rows) = {} THEN Default ELSE rows[CHOOSE i \in InUse(rows) : TRUE].token
  /\ UNCHANGED <<rows, reply>>

Next ==
  \/ \E i \in Ids, t \in Tokens : Add(i, t)
  \/ \E i \in Ids, t \in Tokens : Update(i, t)
  \/ \E i \in Ids : Delete(i)
  \/ \E i \in Ids : Activate(i)
  \/ \E i \in Ids : Deactivate(i)
  \/ Clone

Spec == Init /\ [][Next]_vars

----------------------------------------------------------------------------
(* Properties *)

\* "Activate (first disable the others)": a configuration that exists can be
\* put in use whichever one is in use before (api/git_token_config.py).
ActivationWorks == reply.op = "activate" => reply.result = "ok"
=============================================================================
