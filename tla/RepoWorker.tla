----------------------------- MODULE RepoWorker -----------------------------
(***************************************************************************)
(* Background parsing of the Git repositories of one namespace:            *)
(* engine/repo_worker.py, the parse / batch-parse / cancel / delete        *)
(* endpoints of api/knowledge.py, and of the training pipeline             *)
(* (knowledge/trainer.py) the steps that write parse_status and the gate   *)
(* that promotes schema candidates once every repository is parsed.        *)
(*                                                                         *)
(* A worker is one asyncio task; what it does between two awaits is one    *)
(* action, and a short session that reads and commits a row is one too.    *)
(* The statuses "cloning" and "parsing" are one here.                      *)
(***************************************************************************)
EXTENDS FiniteSets, Naturals

CONSTANTS
  Repos,     \* git_repos rows of the namespace
  Workers,   \* bound: the workers that can ever be started
  Rebuilds,  \* bound: forced batch-parse requests
  Requests,  \* cancel requests in flight at a time
  Slots,     \* PARSE_CONCURRENCY
  Events,    \* what may happen besides parsing: a subset of AllEvents
  NoRepo, NoWorker

ASSUME SlotsAssumption == Slots \in Nat \ {0}
AllEvents == {"rebuild", "delete", "crash", "dbError"}

ASSUME EventsAssumption == Events \subseteq AllEvents
ASSUME NoneAssumption == NoRepo \notin Repos /\ NoWorker \notin Workers

VARIABLES
  pc,          \* where each worker is suspended
  repoOf,      \* the repository each started worker parses
  cancelReq,   \* workers with an undelivered cancellation
  failed,      \* workers in the finally block whose pipeline raised
  registry,    \* _active_workers
  wid,         \* git_repos.worker_id
  status,      \* git_repos.parse_status, "deleted" once the row is gone
  deleting,    \* repositories past the check of delete_repo
  mark,        \* the namespace is in _rebuilding_namespaces
  rebuild,     \* control state of each forced rebuild
  targets,     \* the repositories it read
  req,         \* cancel requests: control state and what they loaded
  unpromoted,  \* repositories with candidates no promote has selected
  batch,       \* the candidates an uncommitted promote has selected
  gaveUp,      \* a promote timed out on the namespace lock (history variable)
  lost         \* a crash or database failure lost a row update (history variable)

taskVars == <<pc, repoOf, cancelReq, failed, registry>>
rowVars  == <<wid, status, deleting>>
apiVars  == <<mark, rebuild, targets, req>>
promVars == <<unpromoted, batch, gaveUp>>
vars == <<taskVars, rowVars, apiVars, promVars, lost>>

\* Stages under the try block of the pipeline, those that hold a slot, and
\* those of a task that has not ended.
Pipeline == {"extract", "store", "gate", "lock", "promote", "promoted"}
InSlot   == Pipeline \cup {"slot", "finalize"}
Live     == InSlot \cup {"phase1", "aborting", "committed", "queued"}

NoRequest == [at |-> "idle", repo |-> NoRepo, seen |-> "none"]

Init ==
  /\ pc = [w \in Workers |-> "idle"]
  /\ repoOf = [w \in Workers |-> NoRepo]
  /\ cancelReq = {} /\ failed = {} /\ registry = {}
  /\ wid = [r \in Repos |-> NoWorker]
  /\ status = [r \in Repos |-> "pending"]
  /\ deleting = {}
  /\ mark = FALSE
  /\ rebuild = [b \in Rebuilds |-> "idle"]
  /\ targets = [b \in Rebuilds |-> {}]
  /\ req = [q \in Requests |-> NoRequest]
  /\ unpromoted = {}
  /\ batch = [w \in Workers |-> {}]
  /\ gaveUp = FALSE
  /\ lost = FALSE

Exists(r) == status[r] # "deleted"
Free      == {r \in Repos : Exists(r) /\ wid[r] = NoWorker}

----------------------------------------------------------------------------
(* Starting workers *)

\* start_parse_worker for every repository of rs: it creates and registers the
\* task without suspending, and does not look at the row.
Spawn(rs) ==
  \E f \in [rs -> {w \in Workers : pc[w] = "idle"}] :
    LET started == {f[r] : r \in rs}
    IN /\ Cardinality(started) = Cardinality(rs)
       /\ pc' = [w \in Workers |-> IF w \in started THEN "phase1" ELSE pc[w]]
       /\ repoOf' = [w \in Workers |->
                       IF w \in started THEN CHOOSE r \in rs : f[r] = w ELSE repoOf[w]]
       /\ registry' = registry \cup started

\* parse_repo: 409 if the row names a worker.
ParseRepo(r) ==
  /\ r \in Free
  /\ Spawn({r})
  /\ UNCHANGED <<cancelReq, failed, rowVars, apiVars, promVars, lost>>

\* batch_parse_repos(force=False)
BatchParse ==
  LET rs == {r \in Free : status[r] \in {"pending", "error"}}
  IN /\ rs # {}
     /\ Spawn(rs)
     /\ UNCHANGED <<cancelReq, failed, rowVars, apiVars, promVars, lost>>

\* batch_parse_repos(force=True): the namespace is marked before the response.
BatchForce(b) ==
  /\ "rebuild" \in Events /\ rebuild[b] = "idle" /\ Free # {}
  /\ rebuild' = [rebuild EXCEPT ![b] = "cleaning"]
  /\ targets' = [targets EXCEPT ![b] = Free]
  /\ mark' = TRUE
  /\ UNCHANGED <<taskVars, rowVars, req, promVars, lost>>

\* _force_rebuild_task: the candidates are wiped, then the workers started.
Cleaned(b) ==
  /\ rebuild[b] = "cleaning"
  /\ rebuild' = [rebuild EXCEPT ![b] = "done"]
  /\ unpromoted' = {}
  /\ targets' = [targets EXCEPT ![b] = {}]
  /\ Spawn(targets[b])
  /\ UNCHANGED <<cancelReq, failed, rowVars, mark, req, batch, gaveUp, lost>>

CleaningFails(b) ==
  /\ rebuild[b] = "cleaning"
  /\ rebuild' = [rebuild EXCEPT ![b] = "done"]
  /\ targets' = [targets EXCEPT ![b] = {}]
  /\ mark' = FALSE
  /\ UNCHANGED <<taskVars, rowVars, req, promVars, lost>>

----------------------------------------------------------------------------
(* A worker: Phase 1 *)

Goto(w, stage) == pc' = [pc EXCEPT ![w] = stage]

\* The row is gone: the mark is cleared, the registry entry stays.
Phase1Missing(w) ==
  /\ pc[w] = "phase1" /\ ~Exists(repoOf[w])
  /\ Goto(w, "done")
  /\ mark' = FALSE
  /\ UNCHANGED <<repoOf, cancelReq, failed, registry, rowVars,
                 rebuild, targets, req, promVars, lost>>

Phase1Commit(w) ==
  /\ pc[w] = "phase1" /\ Exists(repoOf[w])
  /\ Goto(w, "committed")
  /\ wid' = [wid EXCEPT ![repoOf[w]] = w]
  /\ status' = [status EXCEPT ![repoOf[w]] = "parsing"]
  /\ UNCHANGED <<repoOf, cancelReq, failed, registry, deleting, apiVars,
                 promVars, lost>>

\* except Exception: the mark goes first, the row follows in its own session.
Phase1Raises(w) ==
  /\ "dbError" \in Events /\ pc[w] = "phase1"
  /\ Goto(w, "aborting")
  /\ mark' = FALSE
  /\ UNCHANGED <<repoOf, cancelReq, failed, registry, rowVars,
                 rebuild, targets, req, promVars, lost>>

Phase1Aborted(w) ==
  /\ pc[w] = "aborting"
  /\ Goto(w, "done")
  /\ registry' = registry \ {w}
  /\ \/ /\ Exists(repoOf[w])
        /\ wid' = [wid EXCEPT ![repoOf[w]] = NoWorker]
        /\ status' = [status EXCEPT ![repoOf[w]] = "error"]
     \/ UNCHANGED <<wid, status>>
  /\ UNCHANGED <<repoOf, cancelReq, failed, deleting, apiVars, promVars, lost>>

\* worker_id is visible, so the mark may go.
Phase1Done(w) ==
  /\ pc[w] = "committed" /\ w \notin cancelReq
  /\ Goto(w, "queued")
  /\ mark' = FALSE
  /\ UNCHANGED <<repoOf, cancelReq, failed, registry, rowVars,
                 rebuild, targets, req, promVars, lost>>

----------------------------------------------------------------------------
(* A worker: the semaphore *)

\* Mutant: the slot of a worker that ended is never returned.
SlotsLeaked == {w \in Workers : pc[w] \in InSlot \cup {"done"}}

SlotsTaken == {w \in Workers : pc[w] \in InSlot}

Acquire(w) ==
  /\ pc[w] = "queued" /\ w \notin cancelReq
  /\ Cardinality(SlotsTaken) < Slots
  /\ Goto(w, "slot")
  /\ UNCHANGED <<repoOf, cancelReq, failed, registry, rowVars, apiVars,
                 promVars, lost>>

\* The progress message is stored and the pipeline begins.
SlotReady(w) ==
  /\ pc[w] = "slot" /\ w \notin cancelReq
  /\ Goto(w, "extract")
  /\ UNCHANGED <<repoOf, cancelReq, failed, registry, rowVars, apiVars,
                 promVars, lost>>

\* Storing it raises outside the try block: nobody cleans the row up.
SlotRaises(w) ==
  /\ "dbError" \in Events /\ pc[w] = "slot" /\ w \notin cancelReq
  /\ Goto(w, "done")
  /\ lost' = TRUE
  /\ UNCHANGED <<repoOf, cancelReq, failed, registry, rowVars, apiVars, promVars>>

\* CancelledError outside the try block: no except clause, no finally.
CancelledOutside(w) ==
  /\ pc[w] \in {"committed", "queued", "slot"} /\ w \in cancelReq
  /\ Goto(w, "done")
  /\ cancelReq' = cancelReq \ {w}
  /\ UNCHANGED <<repoOf, failed, registry, rowVars, apiVars, promVars, lost>>

----------------------------------------------------------------------------
(* A worker: the pipeline *)

SetStatus(r, s) == status' = IF Exists(r) THEN [status EXCEPT ![r] = s] ELSE status

\* Clone, extract, write the candidates; or report a failed extraction.
Extract(w) ==
  /\ pc[w] = "extract" /\ w \notin cancelReq
  /\ \/ /\ Goto(w, "store")
        /\ SetStatus(repoOf[w], "parsing")
        /\ unpromoted' = unpromoted \cup {repoOf[w]}
     \/ /\ Goto(w, "finalize")
        /\ SetStatus(repoOf[w], "error")
        /\ UNCHANGED unpromoted
  /\ UNCHANGED <<repoOf, cancelReq, failed, registry, wid, deleting,
                 apiVars, batch, gaveUp, lost>>

\* Mutant: the update that stores the report also resets worker_id.
StoreParsedResets(w) ==
  /\ pc[w] = "store" /\ w \notin cancelReq
  /\ Goto(w, "gate")
  /\ SetStatus(repoOf[w], "parsed")
  /\ wid' = [wid EXCEPT ![repoOf[w]] = NoWorker]
  /\ UNCHANGED <<repoOf, cancelReq, failed, registry, deleting,
                 apiVars, promVars, lost>>

\* Step 6: parse_status = "parsed" is committed before the gate is tried.
StoreParsed(w) ==
  /\ pc[w] = "store" /\ w \notin cancelReq
  /\ Goto(w, "gate")
  /\ SetStatus(repoOf[w], "parsed")
  /\ UNCHANGED <<repoOf, cancelReq, failed, registry, wid, deleting,
                 apiVars, promVars, lost>>

\* Mutant: the gate skips repositories another worker still claims.
GateUnclaimed(w) ==
  \A r \in Repos : Exists(r) => status[r] = "parsed" /\ wid[r] \in {NoWorker, w}

GateOpen(w) == \A r \in Repos : Exists(r) => status[r] = "parsed"

\* maybe_trigger_promote
Gate(w) ==
  /\ pc[w] = "gate" /\ w \notin cancelReq
  /\ Goto(w, IF GateOpen(w) THEN "lock" ELSE "finalize")
  /\ UNCHANGED <<repoOf, cancelReq, failed, registry, rowVars, apiVars,
                 promVars, lost>>

\* Candidates no committed promote has handled: those of a promote that has
\* released the lock but not committed are still selected by the next one.
StillPending == unpromoted \cup UNION {batch[v] : v \in {u \in Workers : pc[u] = "promoted"}}

\* The namespace lock is free: select the pending candidates.  wait_for may
\* drop a cancellation that arrives in the same tick.
PromoteBegins(w) ==
  /\ pc[w] = "lock" /\ \A v \in Workers : pc[v] # "promote"
  /\ Goto(w, "promote")
  /\ cancelReq' = cancelReq \ {w}
  /\ batch' = [batch EXCEPT ![w] = StillPending]
  /\ unpromoted' = {}
  /\ UNCHANGED <<repoOf, failed, registry, rowVars, apiVars, gaveUp, lost>>

\* The lock is released before the caller commits.
PromoteReleases(w) ==
  /\ pc[w] = "promote" /\ w \notin cancelReq
  /\ Goto(w, "promoted")
  /\ UNCHANGED <<repoOf, cancelReq, failed, registry, rowVars, apiVars,
                 promVars, lost>>

\* promote_lock_timeout_secs: the promote is abandoned, not the pipeline.
PromoteGivesUp(w) ==
  /\ pc[w] = "lock" /\ w \notin cancelReq
  /\ \E v \in Workers : pc[v] = "promote"
  /\ Goto(w, "finalize")
  /\ gaveUp' = TRUE
  /\ UNCHANGED <<repoOf, cancelReq, failed, registry, rowVars, apiVars,
                 unpromoted, batch, lost>>

PromoteCommits(w) ==
  /\ pc[w] = "promoted" /\ w \notin cancelReq
  /\ Goto(w, "finalize")
  /\ batch' = [batch EXCEPT ![w] = {}]
  /\ UNCHANGED <<repoOf, cancelReq, failed, registry, rowVars, apiVars,
                 unpromoted, gaveUp, lost>>

\* An exception or a cancellation anywhere in the pipeline; a promote that has
\* not committed is rolled back.
PipelineRaises(w) ==
  /\ pc[w] \in Pipeline
  /\ Goto(w, "finalize")
  /\ failed' = failed \cup {w}
  /\ cancelReq' = cancelReq \ {w}
  /\ unpromoted' = unpromoted \cup batch[w]
  /\ batch' = [batch EXCEPT ![w] = {}]
  /\ UNCHANGED <<repoOf, registry, rowVars, apiVars, gaveUp, lost>>

----------------------------------------------------------------------------
(* A worker: the finally block *)

\* Mutant: a status parse_status does not know.
FinalStatusFailed(w) == IF w \in failed THEN "failed" ELSE status[repoOf[w]]

FinalStatus(w) ==
  IF w \in failed \/ status[repoOf[w]] \notin {"parsed", "error"}
    THEN "error" ELSE status[repoOf[w]]

\* The row is rewritten without a look at whose worker_id it holds.
CleanRow(w) ==
  IF Exists(repoOf[w])
    THEN /\ wid' = [wid EXCEPT ![repoOf[w]] = NoWorker]
         /\ status' = [status EXCEPT ![repoOf[w]] = FinalStatus(w)]
    ELSE UNCHANGED <<wid, status>>

Finalize(w) ==
  /\ pc[w] = "finalize" /\ w \notin cancelReq
  /\ Goto(w, "done")
  /\ registry' = registry \ {w}
  /\ \/ CleanRow(w) /\ UNCHANGED lost
     \/ "dbError" \in Events /\ UNCHANGED <<wid, status>> /\ lost' = TRUE
  /\ failed' = failed \ {w}
  /\ UNCHANGED <<repoOf, cancelReq, deleting, apiVars, promVars>>

\* CancelledError passes the inner except Exception; the commit may have landed.
FinalizeCancelled(w) ==
  /\ pc[w] = "finalize" /\ w \in cancelReq
  /\ Goto(w, "done")
  /\ cancelReq' = cancelReq \ {w}
  /\ failed' = failed \ {w}
  /\ CleanRow(w) \/ UNCHANGED <<wid, status>>
  /\ UNCHANGED <<repoOf, registry, deleting, apiVars, promVars, lost>>

----------------------------------------------------------------------------
(* cancel_parse and delete_repo *)

\* The row is read, then cancel_worker pops and cancels a task still running.
CancelParse(q, r) ==
  LET w == wid[r]
      hit == w \in registry /\ pc[w] \in Live
  IN /\ req[q].at = "idle" /\ Exists(r) /\ w # NoWorker
     /\ req' = [req EXCEPT ![q] = [at |-> IF hit THEN "hit" ELSE "stale",
                                   repo |-> r, seen |-> status[r]]]
     /\ IF hit THEN cancelReq' = cancelReq \cup {w} /\ registry' = registry \ {w}
               ELSE UNCHANGED <<cancelReq, registry>>
     /\ UNCHANGED <<pc, repoOf, failed, rowVars, mark, rebuild, targets,
                    promVars, lost>>

\* Mutant: a running task is trusted to clean up its own row.
CancelCommitStaleOnly(q) ==
  LET r == req[q].repo
  IN /\ req[q].at # "idle"
     /\ req' = [req EXCEPT ![q] = NoRequest]
     /\ wid' = IF req[q].at = "stale" THEN [wid EXCEPT ![r] = NoWorker] ELSE wid
     /\ UNCHANGED <<taskVars, status, deleting, mark, rebuild, targets, promVars, lost>>

\* The commit that follows; an attribute is written only if it changed.
CancelCommit(q) ==
  LET r == req[q].repo
  IN /\ req[q].at # "idle"
     /\ req' = [req EXCEPT ![q] = NoRequest]
     /\ IF Exists(r)
          THEN /\ wid' = [wid EXCEPT ![r] = NoWorker]
               /\ IF req[q].at = "hit" /\ req[q].seen # "error"
                    THEN status' = [status EXCEPT ![r] = "error"]
                    ELSE UNCHANGED status
          ELSE UNCHANGED <<wid, status>>
     /\ UNCHANGED <<taskVars, deleting, mark, rebuild, targets, promVars, lost>>

\* 409 if the row names a worker; then the candidates are orphaned ...
DeleteCheck(r) ==
  /\ "delete" \in Events /\ r \in Free \ deleting
  /\ deleting' = deleting \cup {r}
  /\ UNCHANGED <<taskVars, wid, status, apiVars, promVars, lost>>

\* ... and the row is deleted.
DeleteCommit(r) ==
  /\ r \in deleting
  /\ deleting' = deleting \ {r}
  /\ status' = [status EXCEPT ![r] = "deleted"]
  /\ wid' = [wid EXCEPT ![r] = NoWorker]
  /\ UNCHANGED <<taskVars, apiVars, promVars, lost>>

\* The process restarts: rows survive, tasks and registries do not, and
\* start-up resets no row.
Crash ==
  /\ "crash" \in Events /\ ~lost
  /\ lost' = TRUE
  /\ pc' = [w \in Workers |-> IF pc[w] \in Live THEN "done" ELSE pc[w]]
  /\ cancelReq' = {} /\ registry' = {} /\ deleting' = {} /\ mark' = FALSE
  /\ rebuild' = [b \in Rebuilds |-> IF rebuild[b] = "cleaning" THEN "done" ELSE rebuild[b]]
  /\ req' = [q \in Requests |-> NoRequest]
  /\ unpromoted' = unpromoted \cup UNION {batch[w] : w \in Workers}
  /\ batch' = [w \in Workers |-> {}]
  /\ failed' = {} /\ targets' = [b \in Rebuilds |-> {}]
  /\ UNCHANGED <<repoOf, wid, status, gaveUp>>

----------------------------------------------------------------------------

WorkerStep(w) ==
  \/ Phase1Missing(w) \/ Phase1Commit(w) \/ Phase1Raises(w) \/ Phase1Aborted(w)
  \/ Phase1Done(w) \/ SlotReady(w) \/ SlotRaises(w) \/ CancelledOutside(w)
  \/ Extract(w) \/ StoreParsed(w) \/ Gate(w)
  \/ PromoteBegins(w) \/ PromoteGivesUp(w) \/ PromoteReleases(w)
  \/ PromoteCommits(w) \/ PipelineRaises(w)
  \/ Finalize(w) \/ FinalizeCancelled(w)

Next ==
  \/ \E w \in Workers : WorkerStep(w) \/ Acquire(w)
  \/ \E r \in Repos : ParseRepo(r) \/ DeleteCheck(r) \/ DeleteCommit(r)
  \/ BatchParse
  \/ \E b \in Rebuilds : BatchForce(b) \/ Cleaned(b) \/ CleaningFails(b)
  \/ \E q \in Requests : CancelCommit(q) \/ \E r \in Repos : CancelParse(q, r)
  \/ Crash

Spec == Init /\ [][Next]_vars

\* Tasks that can run do (the pipeline ends or raises: its model calls have
\* timeouts), and the semaphore wakes its waiters in turn.
Fairness ==
  /\ \A w \in Workers : WF_vars(WorkerStep(w)) /\ SF_vars(Acquire(w))
  /\ \A b \in Rebuilds : WF_vars(Cleaned(b) \/ CleaningFails(b))

FairSpec == Spec /\ Fairness

----------------------------------------------------------------------------
(* Properties *)

Statuses == {"pending", "parsing", "parsed", "error", "deleted"}

\* The shape of the state.
TypeOK ==
  /\ pc \in [Workers -> {"idle", "done"} \cup Live]
  /\ repoOf \in [Workers -> Repos \cup {NoRepo}]
  /\ \A w \in Workers : (pc[w] = "idle") = (repoOf[w] = NoRepo)
  /\ cancelReq \subseteq {w \in Workers : pc[w] \in Live}
  /\ failed \subseteq Workers
  /\ registry \subseteq Workers
  /\ wid \in [Repos -> Workers \cup {NoWorker}]
  /\ status \in [Repos -> Statuses]
  /\ deleting \subseteq Repos
  /\ mark \in BOOLEAN
  /\ rebuild \in [Rebuilds -> {"idle", "cleaning", "done"}]
  /\ targets \in [Rebuilds -> SUBSET Repos]
  /\ req \in [Requests -> [at : {"idle", "hit", "stale"}, repo : Repos \cup {NoRepo},
                           seen : Statuses \cup {"none"}]]
  /\ unpromoted \subseteq Repos
  /\ batch \in [Workers -> SUBSET Repos]
  /\ gaveUp \in BOOLEAN
  /\ lost \in BOOLEAN

\* A row never stays claimed by a worker that is gone, so its repository can be
\* parsed, deleted and batched again: wherever a cancellation lands, either the
\* worker's finally block or the cancel request clears worker_id.
RowNamesLiveWorker ==
  ~lost => \A r \in Repos : wid[r] # NoWorker =>
    \/ pc[wid[r]] \in Live
    \/ \E q \in Requests : req[q].at # "idle" /\ req[q].repo = r

\* A worker alone on its repository is visible in the row, and so can be
\* cancelled, from Phase 1 to its end, unless it has just been cancelled.
SoleWorkerVisible ==
  \A w \in registry :
    /\ pc[w] \in Live \ {"phase1", "aborting"}
    /\ Exists(repoOf[w])
    /\ \A v \in Workers \ {w} : repoOf[v] # repoOf[w]
    => wid[repoOf[w]] = w

\* When every repository is parsed and nothing is running, no candidate of
\* theirs waits for a promote: whichever worker finishes last opens the gate,
\* and one that fails past the gate takes its "parsed" back.  (Not if a
\* repository was deleted or a promote gave up on the lock: nothing opens the
\* gate again.)
AllParsedIsPromoted ==
  /\ \A r \in Repos : status[r] = "parsed"
  /\ \A w \in Workers : pc[w] \notin Live
  /\ \A q \in Requests : req[q].at = "idle"
  /\ ~lost /\ ~gaveUp
  => unpromoted = {}

\* Every worker ends and gives its slot back, queued, cancelled or failed.
WorkerEnds == \A w \in Workers : pc[w] \in Live ~> pc[w] = "done"

============================================================================
