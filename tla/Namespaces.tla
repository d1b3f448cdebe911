----------------------------- MODULE Namespaces -----------------------------
(***************************************************************************)
(* A namespace, its data sources, and the connection pools the drivers     *)
(* keep for them: api/namespace.py and the pool handling of                *)
(* engine/drivers (_get_pool, _get_client, invalidate_*,                   *)
(* evict_datasource).                                                      *)
(*                                                                         *)
(* The deletions are several steps of one request: entries are purged and  *)
(* committed, the rows go with a second commit, and only then are the      *)
(* pools closed.  Users of a pool load the data source's row, look for a   *)
(* pool, and may wait for a new one to connect.  A pool is named by the    *)
(* user that opened it.                                                    *)
(***************************************************************************)
EXTENDS Naturals, FiniteSets

CONSTANTS
  Sources,     \* datasources rows
  Waits,       \* those whose driver waits while it opens a pool (aiomysql)
  Runs,        \* tools, health checks and schema refreshes that use a pool
  Deleters,    \* requests to delete the namespace
  Above,       \* settings.bulk_op_require_confirm_above
  MaxEntries,  \* bound: knowledge entries of the namespace
  None

VARIABLES
  there,    \* the namespaces row exists
  entries,  \* how many knowledge entries it has
  rows,     \* data sources by row: "no", "yes" or "gone"
  cached,   \* _pools, _clients: the pool kept for a data source
  open,     \* the pools that are open, by data source
  runs,     \* [stage, ds] by run
  deleters, \* [stage, ids] by request
  shown,    \* counts a dry run has reported, and their confirm tokens
  leaving,  \* data sources deleted whose pool is still to be closed
  slot,     \* the registry serves a chat model of the namespace
  raced     \* history: data sources whose pool was opened during a deletion
            \* or by two at once, or did not let itself be closed

vars == <<there, entries, rows, cached, open, runs, deleters, shown, leaving, slot, raced>>
pools == <<cached, open, runs>>

Idle == [stage |-> "idle", ds |-> None]

Init ==
  /\ there = TRUE /\ entries = 0
  /\ rows = [d \in Sources |-> "no"]
  /\ cached = [d \in Sources |-> None] /\ open = [d \in Sources |-> {}]
  /\ runs = [r \in Runs |-> Idle]
  /\ deleters = [x \in Deleters |-> [stage |-> "idle", ids |-> {}]]
  /\ shown = {} /\ leaving = {} /\ slot = FALSE /\ raced = {}

\* Runs that have loaded the row and will put a pool into the cache.
Bound(d) == {r \in Runs : runs[r].ds = d /\ runs[r].stage \in {"loaded", "opening"}}

----------------------------------------------------------------------------
(* The pools *)

Load(r, d) ==
  /\ runs[r].stage = "idle" /\ rows[d] = "yes"
  /\ runs' = [runs EXCEPT ![r] = [stage |-> "loaded", ds |-> d]]
  /\ UNCHANGED <<there, entries, rows, cached, open, deleters, shown, leaving, slot, raced>>

\* A pool of the cache is used as it is; a driver that does not wait makes one.
GetPool(r) ==
  LET d == runs[r].ds IN
  /\ runs[r].stage = "loaded"
  /\ \/ /\ cached[d] # None
        /\ runs' = [runs EXCEPT ![r] = Idle]
        /\ UNCHANGED <<cached, open, raced>>
     \/ /\ cached[d] = None /\ d \notin Waits /\ r \notin open[d]
        /\ cached' = [cached EXCEPT ![d] = r] /\ open' = [open EXCEPT ![d] = @ \cup {r}]
        /\ runs' = [runs EXCEPT ![r] = Idle]
        /\ UNCHANGED raced
     \/ /\ cached[d] = None /\ d \in Waits /\ r \notin open[d]
        /\ runs' = [runs EXCEPT ![r].stage = "opening"]
        /\ raced' = raced \cup {e \in {d} : \E s \in Runs : s # r /\ runs[s] = [stage |-> "opening", ds |-> d]}
        /\ UNCHANGED <<cached, open>>
  /\ UNCHANGED <<there, entries, rows, deleters, shown, leaving, slot>>

\* _get_pool after create_pool, which may fail.
Opened(r, ok) ==
  LET d == runs[r].ds IN
  /\ runs[r].stage = "opening"
  /\ runs' = [runs EXCEPT ![r] = Idle]
  /\ cached' = IF ok THEN [cached EXCEPT ![d] = r] ELSE cached
  /\ open'   = IF ok THEN [open EXCEPT ![d] = @ \cup {r}] ELSE open
  /\ UNCHANGED <<there, entries, rows, deleters, shown, leaving, slot, raced>>

\* evict_datasource: invalidate_pool or invalidate_client of every driver.  A pool
\* that is in use may refuse to close (oracledb), which is ignored.
Evict(d, closed) ==
  /\ d \in leaving
  /\ leaving' = leaving \ {d}
  /\ cached' = [cached EXCEPT ![d] = None]
  /\ open' = IF closed THEN [open EXCEPT ![d] = @ \ {cached[d]}] ELSE open
  /\ raced' = raced \cup {e \in {d} : ~closed /\ cached[d] # None}
  /\ UNCHANGED <<there, entries, rows, runs, deleters, shown, slot>>

----------------------------------------------------------------------------
(* Data sources *)

\* add_datasource, when the temporary connection of fetch_db_profile worked.
AddSource(d) ==
  /\ there /\ rows[d] = "no"
  /\ rows' = [rows EXCEPT ![d] = "yes"]
  /\ raced' = raced \cup {e \in {d} : \E x \in Deleters : deleters[x].stage = "collected"}
  /\ UNCHANGED <<there, entries, pools, deleters, shown, leaving, slot>>

\* delete_datasource up to its commit
DeleteSource(d) ==
  /\ there /\ rows[d] = "yes"
  /\ rows' = [rows EXCEPT ![d] = "gone"]
  /\ leaving' = leaving \cup {d}
  /\ raced' = raced \cup {e \in {d} : Bound(d) # {}}
  /\ UNCHANGED <<there, entries, pools, deleters, shown, slot>>

----------------------------------------------------------------------------
(* The namespace *)

\* Knowledge and chat models of the namespace come and go.
Write(n) ==
  /\ there /\ n # entries
  /\ entries' = n
  /\ UNCHANGED <<there, rows, pools, deleters, shown, leaving, slot, raced>>

Serve ==
  /\ there /\ ~slot /\ slot' = TRUE
  /\ UNCHANGED <<there, entries, rows, pools, deleters, shown, leaving, raced>>

\* delete_namespace with dry_run: the report and its confirm token
Preview ==
  /\ there
  /\ shown' = shown \cup {entries}
  /\ UNCHANGED <<there, entries, rows, pools, deleters, leaving, slot, raced>>

\* _compute_confirm_token stands for the count it was made of.
Confirm(x) ==
  /\ there /\ deleters[x].stage = "idle"
  /\ entries > Above => entries \in shown
  /\ deleters' = [deleters EXCEPT ![x].stage = "confirmed"]
  /\ UNCHANGED <<there, entries, rows, pools, shown, leaving, slot, raced>>

\* BulkOperationGuard.execute, which commits.
Purge(x) ==
  /\ deleters[x].stage = "confirmed"
  /\ entries' = 0
  /\ deleters' = [deleters EXCEPT ![x].stage = "purged"]
  /\ UNCHANGED <<there, rows, pools, shown, leaving, slot, raced>>

\* Mutant: the ids are read when the rows have gone with the namespace.
CollectDeleted(x) ==
  /\ deleters[x].stage = "purged"
  /\ deleters' = [deleters EXCEPT ![x] = [stage |-> "collected", ids |-> {}]]
  /\ UNCHANGED <<there, entries, rows, pools, shown, leaving, slot, raced>>

Collect(x) ==
  /\ deleters[x].stage = "purged"
  /\ deleters' = [deleters EXCEPT ![x] =
       [stage |-> "collected", ids |-> {d \in Sources : rows[d] = "yes"}]]
  /\ UNCHANGED <<there, entries, rows, pools, shown, leaving, slot, raced>>

\* The second commit; entries and data sources go with the row.  A request
\* whose namespace another one has deleted is answered the same.
Remove(x) ==
  /\ deleters[x].stage = "collected"
  /\ there' = FALSE /\ entries' = 0
  /\ rows' = [d \in Sources |-> IF rows[d] = "yes" THEN "gone" ELSE rows[d]]
  /\ raced' = raced \cup {d \in Sources : rows[d] = "yes" /\ Bound(d) # {}}
  /\ deleters' = [deleters EXCEPT ![x].stage = "removed"]
  /\ UNCHANGED <<pools, shown, leaving, slot>>

\* registry.refresh_chat(None), then the pools one after the other
Release(x) ==
  /\ deleters[x].stage = "removed"
  /\ slot' = FALSE
  /\ leaving' = leaving \cup deleters[x].ids
  /\ deleters' = [deleters EXCEPT ![x] = [stage |-> "done", ids |-> {}]]
  /\ UNCHANGED <<there, entries, rows, pools, shown, raced>>

----------------------------------------------------------------------------

Next ==
  \/ \E r \in Runs, d \in Sources : Load(r, d)
  \/ \E r \in Runs : GetPool(r)
  \/ \E r \in Runs, ok \in BOOLEAN : Opened(r, ok)
  \/ \E d \in Sources, closed \in BOOLEAN : Evict(d, closed)
  \/ \E d \in Sources : AddSource(d)
  \/ \E d \in Sources : DeleteSource(d)
  \/ \E n \in 0..MaxEntries : Write(n)
  \/ Serve
  \/ Preview
  \/ \E x \in Deleters : Confirm(x)
  \/ \E x \in Deleters : Purge(x)
  \/ \E x \in Deleters : Collect(x)
  \/ \E x \in Deleters : Remove(x)
  \/ \E x \in Deleters : Release(x)

Spec == Init /\ [][Next]_vars

----------------------------------------------------------------------------
(* Properties *)

\* Somebody still has to close the pools of d.
Closing(d) == d \in leaving \/ \E x \in Deleters : d \in deleters[x].ids

\* No pool outlives its data source and none is out of the drivers' reach:
\* what is open is what the cache holds, and nothing once the source is gone
\* (evict_datasource).  The exceptions are pools two runs opened at once, pools
\* of a run that had loaded the row before it was deleted, data sources added
\* while the namespace was being deleted, and pools that refused to close.
PoolsAreClosed ==
  \A d \in Sources \ raced :
    /\ open[d] \subseteq {cached[d]}
    /\ rows[d] = "gone" /\ ~Closing(d) => open[d] = {}
=============================================================================
