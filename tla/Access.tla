------------------------------- MODULE Access -------------------------------
(***************************************************************************)
(* Accounts and who may reach which namespace: api/users.py, the role      *)
(* checks of auth.py, and the ownership side of api/namespace.py.          *)
(*                                                                         *)
(* An endpoint reads the acting account and the account it is about,       *)
(* decides by what it read, and writes in the same transaction later;      *)
(* endpoints overlap.  PostgreSQL runs them at READ COMMITTED: a statement *)
(* that meets a locked row waits and looks at the row again.               *)
(***************************************************************************)
EXTENDS Integers, FiniteSets

CONSTANTS
  Users,       \* account ids
  Root,        \* the account the first start creates
  Namespaces,
  Requests     \* requests that may be under way together

VARIABLES
  users,   \* [made, role, active, by] by account; made: "no", "yes", "gone"
  owner,   \* namespaces.created_by: an account, Nobody, or Absent
  grants,  \* user_namespace_access rows: <<account, namespace>>
  reqs,    \* requests under way
  slipped  \* history: a super admin went unnoticed by the check

vars == <<users, owner, grants, reqs, slipped>>

Nobody == 0
Absent == -1
Roles  == {"user", "admin", "super_admin"}
NoReq  == [stage |-> "idle", op |-> "none", target |-> Root, role |-> "keep", active |-> "keep",
           counts |-> FALSE, held |-> {}, ids |-> {}, old |-> {}]
Unmade == [made |-> "no", role |-> "user", active |-> TRUE, by |-> Nobody]
Gone   == [Unmade EXCEPT !.made = "gone"]

\* _init_admin leaves one super admin; anything else is made through the API.
Init ==
  /\ users = [u \in Users |->
       IF u = Root THEN [made |-> "yes", role |-> "super_admin", active |-> TRUE, by |-> Nobody]
       ELSE Unmade]
  /\ owner = [n \in Namespaces |-> Absent]
  /\ grants = {} /\ reqs = [q \in Requests |-> NoReq] /\ slipped = FALSE

Level     == [user |-> 0, admin |-> 1, super_admin |-> 2]
Creatable == [user |-> {}, admin |-> {"user"}, super_admin |-> Roles]

Exists(u)      == users[u].made = "yes"
ActiveSuper(s) == s.made = "yes" /\ s.role = "super_admin" /\ s.active
Supers(us)     == {u \in Users : ActiveSuper(us[u])}

\* get_current_user and require_admin_or_above
Admits(a) == Exists(a) /\ users[a].active /\ Level[users[a].role] >= 1

CanManage(a, t) ==
  \/ users[a].role = "super_admin"
  \/ users[a].role = "admin" /\ users[t].role = "user" /\ users[t].by = a

\* accessible_namespace_ids
Reach(a) ==
  {n \in Namespaces :
     /\ owner[n] # Absent
     /\ users[a].role = "super_admin" \/ owner[n] = a \/ <<a, n>> \in grants}

\* Somebody else's transaction holds the row.
Held(q, u) == \E p \in Requests \ {q} : u \in reqs[p].held

----------------------------------------------------------------------------
(* Accounts *)

Create(a, u, role) ==
  /\ Admits(a) /\ users[u].made = "no"
  /\ role \in Creatable[users[a].role]
  /\ users' = [users EXCEPT ![u] = [made |-> "yes", role |-> role, active |-> TRUE, by |-> a]]
  /\ UNCHANGED <<owner, grants, reqs, slipped>>

\* A request under way: the account it is about, the role and flag it will
\* write ("keep": not written), the grants it will replace and add, and
\* whether assert_not_last_super_admin has to count first.
Start(q, r) ==
  /\ reqs[q].stage = "idle"
  /\ reqs' = [reqs EXCEPT ![q] = [r EXCEPT !.stage = "read"]]
  /\ UNCHANGED <<users, owner, grants, slipped>>

\* The reads and refusals of update_user.  Only what differs from what was read
\* is written; demoting and disabling a super admin needs the count.
Update(q, a, t, role, active) ==
  /\ Admits(a) /\ Exists(t) /\ CanManage(a, t)
  /\ role \in {users[t].role} \cup Creatable[users[a].role]
  /\ Start(q, [NoReq EXCEPT
       !.op = "update", !.target = t,
       !.role = IF role = users[t].role THEN "keep" ELSE role,
       !.active = IF active = "keep" \/ users[t].active = (active = "on") THEN "keep" ELSE active,
       !.counts = \/ users[t].role = "super_admin" /\ role # "super_admin"
                  \/ active = "off" /\ role = "super_admin"])

\* The reads and refusals of delete_user.
Delete(q, a, t) ==
  /\ Admits(a) /\ a # t /\ Exists(t) /\ CanManage(a, t)
  /\ Start(q, [NoReq EXCEPT !.op = "delete", !.target = t,
                            !.counts = users[t].role = "super_admin"])

\* The row a commit leaves; one that is gone stays gone.
Written(r) ==
  LET u == users[r.target] IN
  IF ~Exists(r.target) THEN u
  ELSE IF r.op = "delete" THEN Gone
  ELSE [u EXCEPT !.role = IF r.role = "keep" THEN @ ELSE r.role,
                 !.active = IF r.active = "keep" THEN @ ELSE r.active = "on"]

\* A role raised in the same request has been flushed when the rows are counted.
Counted(r) ==
  Supers(IF r.role = "super_admin" /\ Exists(r.target)
         THEN [users EXCEPT ![r.target].role = "super_admin"] ELSE users)

\* Mutant: the rows are counted and not locked.
CheckUnlocked(q) ==
  /\ reqs[q].stage = "read" /\ reqs[q].counts
  /\ LET rows == Counted(reqs[q]) IN
     reqs' = [reqs EXCEPT ![q] =
       IF Cardinality(rows) <= 1 THEN NoReq ELSE [@ EXCEPT !.stage = "checked"]]
  /\ UNCHANGED <<users, owner, grants, slipped>>

\* assert_not_last_super_admin: SELECT ... FOR UPDATE
Check(q) ==
  /\ reqs[q].stage = "read" /\ reqs[q].counts
  /\ LET rows == Counted(reqs[q]) IN
     /\ \A u \in rows : ~Held(q, u)
     /\ reqs' = [reqs EXCEPT ![q] =
          IF Cardinality(rows) <= 1 THEN NoReq
          ELSE [@ EXCEPT !.stage = "checked", !.held = rows]]
  /\ UNCHANGED <<users, owner, grants, slipped>>

\* Deleting an account takes its grants and leaves what it made to nobody.
Forget(u) ==
  /\ grants' = {g \in grants : g[1] # u}
  /\ owner' = [n \in Namespaces |-> IF owner[n] = u THEN Nobody ELSE owner[n]]
  /\ users' = [x \in Users |->
       IF x = u THEN Gone ELSE [users[x] EXCEPT !.by = IF @ = u THEN Nobody ELSE @]]

Commit(q) ==
  LET r == reqs[q] IN
  /\ r.op # "access"
  /\ r.stage = IF r.counts THEN "checked" ELSE "read"
  /\ ~Held(q, r.target)
  /\ IF r.op = "delete" /\ Exists(r.target) THEN Forget(r.target)
     ELSE users' = [users EXCEPT ![r.target] = Written(r)] /\ UNCHANGED <<owner, grants>>
  /\ reqs' = [reqs EXCEPT ![q] = NoReq]
  /\ slipped' = \/ slipped
                \/ ~r.counts /\ ActiveSuper(users[r.target]) /\ ~ActiveSuper(Written(r))

----------------------------------------------------------------------------
(* Namespaces and grants *)

\* set_user_access up to its DELETE, which is not yet committed.
SetAccess(q, a, t, ids) ==
  /\ Admits(a) /\ Exists(t) /\ CanManage(a, t)
  /\ users[a].role = "super_admin" \/ ids \subseteq Reach(a)
  /\ Start(q, [NoReq EXCEPT !.op = "access", !.target = t, !.ids = ids,
                            !.old = {g \in grants : g[1] = t}])

\* The INSERTs: a row another request has added meanwhile, or a namespace or
\* account that is gone, fails the transaction.
CommitAccess(q) ==
  LET r     == reqs[q]
      fresh == {<<r.target, n>> : n \in r.ids} IN
  /\ r.op = "access"
  /\ reqs' = [reqs EXCEPT ![q] = NoReq]
  /\ IF /\ Exists(r.target) /\ \A n \in r.ids : owner[n] # Absent
        /\ fresh \cap (grants \ r.old) = {}
     THEN grants' = (grants \ r.old) \cup fresh
     ELSE UNCHANGED grants
  /\ UNCHANGED <<users, owner, slipped>>

CreateNamespace(a, n) ==
  /\ Admits(a) /\ owner[n] = Absent
  /\ owner' = [owner EXCEPT ![n] = a]
  /\ grants' = grants \cup {g \in {<<a, n>>} : users[a].role = "admin"}
  /\ UNCHANGED <<users, reqs, slipped>>

\* assert_ns_owner, then the end of delete_namespace.
DeleteNamespace(a, n) ==
  /\ Admits(a) /\ owner[n] # Absent
  /\ users[a].role = "super_admin" \/ owner[n] = a
  /\ owner' = [owner EXCEPT ![n] = Absent]
  /\ grants' = {g \in grants : g[2] # n}
  /\ UNCHANGED <<users, reqs, slipped>>

----------------------------------------------------------------------------

Next ==
  \/ \E a, u \in Users, role \in Roles : Create(a, u, role)
  \/ \E q \in Requests, a, t \in Users, role \in Roles, active \in {"on", "off", "keep"} :
       Update(q, a, t, role, active)
  \/ \E q \in Requests, a, t \in Users : Delete(q, a, t)
  \/ \E q \in Requests : Check(q)
  \/ \E q \in Requests : Commit(q)
  \/ \E q \in Requests, a, t \in Users, ids \in SUBSET Namespaces : SetAccess(q, a, t, ids)
  \/ \E q \in Requests : CommitAccess(q)
  \/ \E a \in Users, n \in Namespaces : CreateNamespace(a, n)
  \/ \E a \in Users, n \in Namespaces : DeleteNamespace(a, n)

Spec == Init /\ [][Next]_vars

----------------------------------------------------------------------------
(* Properties *)

\* An active super admin remains, whichever accounts are deleted, demoted and
\* disabled at once (assert_not_last_super_admin), unless a request decided on
\* a role that was raised after it had read it.
SuperAdminRemains == slipped \/ Supers(users) # {}
=============================================================================
