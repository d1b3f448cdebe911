# Formal models of the self-evolution data agent

TLA+ models of the concurrent core of the backend (`src/backend/app`), the TLC
configurations that check them on small instances, and TLAPS proofs that hold
for every value of the constants.

The backend is one asyncio process behind FastAPI. A user's question starts an
agent loop that talks to a language model and to data sources, streams its
progress over SSE, may ask the user back, may be cancelled, and leaves a trace
and a history row. Around it background tasks parse Git repositories into
schema knowledge, promote that knowledge into a canonical form, and clean up.
Nothing runs in parallel in the strict sense, so what is hard is *where* the
coroutines suspend: every `await` is a point where another request may run,
where a cancellation may be delivered, or where a commit may already have taken
effect. Paths below are relative to `src/backend/app`.

## 1. Inventory

| Part | State it keeps | Operations | Model |
|---|---|---|---|
| Agent loop (`engine/agent_loop.py`, `engine/tools/error_class.py`) | iteration count, error-class window, recent calls, forced-clarification counts | one iteration per model turn; forced clarification; stop signals | `AgentLoop`; its cancellation in `QuerySession` |
| Query sessions (`api/query.py`, `engine/sse_manager.py`, `api/_session_cleanup.py`) | `_active_agent_workers`, `_cancel_reason`, `_sse_event_queues`, correction queues, `agent_traces` and `query_history` rows | start a stream, cancel, submit a correction, disconnect, finalise | `QuerySession` |
| Clarification rendezvous (`engine/tools/interaction_tools.py`, `engine/pending_cleanup.py`) | `_pending_events`, `_pending_answers`, `pending_clarifications` rows | ask, answer, time out, abandon, expire | `Clarify` |
| Repository workers (`engine/repo_worker.py`, `api/knowledge.py`, `knowledge/trainer.py`) | `_active_workers`, `_rebuilding_namespaces`, the semaphore, `git_repos.worker_id` / `parse_status` | parse, batch parse, force rebuild, cancel, delete, the pipeline | `RepoWorker` |
| Schema canonical (`knowledge/canonical_*.py`, `api/schema_canonical_v2.py`) | candidate, canonical and conflict rows, the namespace locks | write candidates, promote, resolve conflicts, confirm, lock, edit, purge, orphan, archive | `SchemaPromote`; the gate that starts a promote in `RepoWorker` |
| Knowledge entries (`api/knowledge.py`, `api/audit.py`, `jobs/knowledge_decay.py`, `knowledge/auto_expire.py`, `knowledge/bulk_guard.py`) | `knowledge_entries`, audit rows, the vectors in ChromaDB, the term automaton `_cache` | create, save, approve, reject, batch, restore, supersede, edit, patch, delete; decay, expiry, purge | `Knowledge` |
| Terminology (`knowledge/terminology_*.py`, `api/terminology_*.py`) | term entries, `terminology_conflicts`, `_refresh_tasks` | the gate, conflicts and their resolution, refresh | `Terminology`; vectors and automaton in `Knowledge` |
| Enum dictionary (`api/enum_dictionary.py`, `knowledge/enum_*.py`) | `enum_dictionaries`, copies in `fields_json`, `enum_sync_queue`, binding conflicts | change, enqueue, bind, unbind, drain | `EnumSync` |
| Query plans (`engine/plan_*.py`, `engine/tools/plan_tools.py`, row limits of `engine/drivers`) | plan steps, exports, results | parse, check, execute | `Plans` |
| Model configurations (`api/model_config.py`, `engine/model_registry.py`, `engine/embedding.py`) | `model_configs`, registry slots, cached clients, the embedder | add, update, activate, delete, resolve a client | `Registry` |
| Model calls (`engine/llm.py`) | attempt counters of a call | chat, checked chat, tool use; retries and fallbacks | `LLM` |
| Start-up (`main.py`, `db/schema_migrations.py`) | the schema of the database, the bootstrap account | `create_all`, every migration, the restart of services | `Startup` |
| Accounts (`api/users.py`, `auth.py`) | `users`, `user_namespace_access`, `namespaces.created_by` | create, change, delete, grant | `Access` |
| Git tokens (`api/git_token_config.py`) | `git_token_configs` | add, update, delete, activate, deactivate, clone | `GitToken` |
| Namespaces and pools (`api/namespace.py`, `engine/drivers`) | `namespaces`, `datasources`, `_pools`, `_clients` | add, delete with confirmation, open and evict pools | `Namespaces` |
| Records of runs (`api/session.py`, `api/share.py`, `api/agent_traces.py`) | `sessions`, `agent_traces`, `query_history`, `shared_results` | write, delete, expire, share, refine | `Records` |
| Extraction (`knowledge/skeleton`, `knowledge/extraction_agent.py`) | explorer and agent loops, work units, found objects | explore, split, read in parallel, merge | `Extraction` |
| Trace compression, extraction tools and writers, recall window, data access tools, history and prompt assembly, rendering, feedback and lists, frontend | rows only, or none | reads, network I/O, text | not modelled (section 8) |

### How the parts interact

* `POST /query/stream` registers an SSE session, then starts one task that runs
  `_run_and_finalize` around `run_agent_loop`. The loop registers *that* task in
  `_active_agent_workers`, under the same `trace_id` as every other registry.
* The cancel endpoint sets a flag, looks the task up, cancels it and waits with
  `wait_for`, which cancels it a second time when its grace period ends. The
  flag is read once between the loop's return and the history commit.
* A tool call `clarify_with_user` stores a row, shows a card over SSE and waits
  for an `asyncio.Event`; the endpoint that receives the answer finds the event
  by trace. A cancelled loop abandons the rows of its trace.
* A forced clarification calls the same tool from inside the loop.
* Workers, refreshes of the schema and the endpoints of the conflict page all
  write the candidate rows of a namespace, each in a database session of its
  own. Promotes of the whole namespace take an `asyncio.Lock`; the promote of
  one field after a resolution or a confirmation does not.
* The parse endpoints look at `worker_id` and start a task; the task stores its
  own id, queues for a slot, runs the pipeline, and after storing `parsed` tries
  the gate that promotes the namespace's candidates under a lock.

* Reviews, edits and sweeps change entries in the database; vectors and automaton
  follow after the commit, in steps of their own. A term enters through one gate,
  from people, agents, the extraction and the refresh; the refresh deletes and
  extracts again.
* A change of a dictionary commits, then puts an event on a queue in a second
  transaction; a background worker copies the values into the bound fields, the
  same column that promote and the binding endpoints write.
* Every model call asks the registry for settings and a client; the endpoints for
  configurations change the registry after their commit. The embedder of ChromaDB
  takes its settings once per process.
* Deleting a namespace purges its entries, forgets the automatons, deletes the
  rows, clears its slot of the registry and closes its pools, in this order and in
  several transactions, while runs may load its data sources.
* The start runs migrations on whatever database it finds, then restores the
  registry and the automatons, then starts the background loops.

### What makes it hard

Cancellation delivered twice, or during cleanup; an `except Exception` that does
not see `CancelledError`; a commit that lands although its `await` was
cancelled; registries keyed by trace and not by request; claims checked in an
endpoint and stored by a task; a row rewritten by a worker that no longer owns
it; a gate tried by whichever worker comes last; locks released before the
commit; caches that follow the rows step by step and best-effort; decisions
taken from rows that were read before another request's commit; events lost
between two commits; starts cut off between two migrations. PROJECT.json lists these hazards with the line where each one bites and
the properties that cover it.

### What makes each part correct

* *Agent loop*: it always stops; repeated errors reach the user before the
  dead-loop check ends the run; an answer really restarts the counting.
* *Query session*: a cancel acknowledged in time wins; the stream and the
  history agree; every stream ends, and says how; the registries do not leak.
* *Clarification*: an answer reaches the call it was given to, once, and no
  wake-up is lost; a stopped run leaves no open card; no call waits for ever.
* *Workers*: a claim never outlives its worker; a running worker can be found
  and cancelled; slots are returned; parsed repositories are promoted.
* *Schema canonical*: two values of one relationship are never both in force,
  and the canonical table says the one that is; a candidate in conflict can be
  resolved; what a user locked is changed by users alone; what is known from
  evidence waits for the user; a relationship found in the code survives the
  clean-up of foreign keys; nobody waits for ever for rows and locks.
* *Knowledge*: whatever chain of reviews, edits and sweeps led there, recall
  and the automaton say what the rows say; terms of two refreshes never mix; a
  bound field has the values of its dictionary.
* *Plans and calls*: later steps find the values of earlier ones; a result that
  was cut says so; a call ends within its budgets.
* *Registry*: what is served is what is in use; texts are embedded by one model.
* *Start-up and accounts*: any database is brought to this release from wherever
  it is, rights are extended once and never again; a super admin remains.
* *Namespaces*: no pool is left without an owner.
* *Extraction and records*: what calls itself complete is; one agent's failure
  costs the others nothing; a trace is refined once.

## 2. The modelling convention

An action is what a coroutine does between two awaits that really suspend. A
short session that loads, changes and commits one row is one action when nothing
it read is used after a suspension; where it is (the cancel endpoint reads the
row, cancels, and commits later) it is two. `task.cancel()` sets an undelivered
request, and every await of the task has one action for each way to resume.
Awaits whose cancellation may or may not have committed are nondeterministic.
`wait_for` of Python 3.11 may drop a cancellation that arrives in the tick in
which the awaited future completes, and the models let it.

Texts, rows' contents, SQL, and what the language model decides are abstracted:
an answer is the request that carries it, a query result is "progress", "empty"
or an error class, a repository's candidates are one element of a set.

Where the code keeps nothing in step - two requests that decide from the same
rows, an event lost between two commits, a best-effort write that fails and is
logged - a property would be false of the code
and of no use as a general claim. Such properties exempt what was touched, by
name: `serial` (SchemaPromote), `overlapped` and `unabandoned` (Clarify), `desynced` (Knowledge),
`missed` (EnumSync), `raced` (Registry, Namespaces), `unloaded` (Registry), `slipped` (Access),
`contested` (Records) and the mark `lowered` of a result (Plans) are histories that say exactly which objects, and
the definitions that add to them are the list of the gaps (section 6). They stay
sharp because everything else about the same objects is covered.

## 3. The modules

### Clarify

| Code | Model |
|---|---|
| `_pending_events[trace]` and its Event's state | `events`, `isSet` (an Event belongs to the call that created it) |
| `_pending_answers[trace]` | `answers` |
| `PendingClarification.status` | `row`; `expired` for `expires_at` |
| `clarify_with_user` L38-137 | `Start` (register, flush), `Commit`, `Show` (fast path or wait), `Wake`, `Timeout`, `FailDb`; all end in `PopRegistries`, the finally block |
| `submit_clarify_response`, `resolve_pending_clarification` | `Load`, `Resolve`, `Deliver` |
| cancellation of the loop, `_abandon_pending` | `CancelTrace`, then `AbandonPending` or `AbandonFails` |
| `_cleanup_once` | `Expire`, `CleanupOnce` |

The tool scheduler lets a turn issue several clarifications at once, which then
share the trace's registry entries. `overlapped` records the runs in which two
calls were active together; some properties hold until then (and for all forced
clarifications, of which there is one at a time). `unabandoned` records the runs
that stopped without their clean-up, because the UPDATE failed (and was logged)
or a second cancellation came first.

### Rendezvous

What a clarification promises, without events, rows, tasks and requests: an
answer is given to a run, is held by it until a question takes it or ends, or is
lost. `Clarify` instantiates it (`Promise`): a question is open from the moment
its card is shown, the answer a run holds is `answers[t]`. `KeepsPromise` is its
specification, checked as a property and proved.

### QuerySession

`pc` is where the endpoint and then the task are suspended: `loading`,
`created`, the loop's stages `loop`, `cleanup`, `flush`, `persist`, then
`history`, `refresh`, `cancelHistory`, `done`. `exit` remembers how the try
block of the loop ended while its finally block runs. The operators
`ResumeCancelled`, `ResumeRaised`, `ResumeFlagged` and `ResumeAnswer` are the
four ways `_run_and_finalize` goes on. `gen` is the SSE generator; `req` holds
the control state of each cancel request, and `seenAt`, a history variable, the
stage in which it was acknowledged. One session is enough because every
registry is keyed by a fresh uuid.

### Verdict

What a streamed query promises, without its task, registries, flags and
cancellations: the question is open until its answer is being written or it is
given up, which is decided once and not against a request in time; the answer is
stored before it is told; later only a client that leaves can have it dropped.
`QuerySession` instantiates it (`Promise`): `Phase` reads the verdict off `pc` and
`exit`, `told` is the terminal events, `stored` the history, `by` who has asked or
left. `KeepsPromise` is its specification, checked as a property and proved.

### AgentLoop

One action per outcome of an iteration: `CostExhausted`, `ModelEnds`,
`RunTools(batch)` with the complete judgement that follows a batch (`Record`,
`Judge`, `HandleFired`, `CheckDeadLoop`), `ClarifyAnswered`, `ClarifyTimeout`.
The window and the history of calls are sequences as in the code; `fresh`,
`since` and `answered` are history variables for the properties.

### RepoWorker

`pc[w]` follows one worker from `phase1` through `committed`, `queued`, `slot`,
the pipeline (`extract`, `store`, `gate`, `lock`, `promote`, `promoted`) to
`finalize` and `done`. `wid` and `status` are the columns of `git_repos`,
`registry` is `_active_workers`, `mark` the namespace's entry in
`_rebuilding_namespaces`. `Spawn` is `start_parse_worker`; the endpoints are
`ParseRepo`, `BatchParse`, `BatchForce` with `Cleaned`/`CleaningFails`,
`CancelParse` with `CancelCommit`, and `DeleteCheck` with `DeleteCommit`.
`Crash` loses tasks and registries and keeps the rows. `batch` and `unpromoted`
follow the candidates through promotes that select, release the lock, and commit
later.

### SchemaPromote

One table of one namespace, and the sessions that work on it.

| Code | Model |
|---|---|
| `SchemaCanonicalCandidate.status`, `confidence_status` | `status`, `weak` (those that are `evidence_only`) |
| open rows of `SchemaCanonicalConflict` with `candidate_ids_json` | `open`, by scope |
| `SchemaCanonicalObject`: `fields_json`, `relationships_json`, `user_locked` | `table` (`fk`: entries whose `sources` have `introspect_fk`) |
| `_ns_locks[ns]` | `nsLock` |
| an `AsyncSession`: what it read, what it flushed | `tx[s]` |
| `promote_candidates_to_canonical` | `LockAndSelect` or `LockTimeout`, `NextGroup`, `SkipGroup`, `DecideSingle`, `DecideMulti`, `EndPromote` |
| `promote_single_field` | `SelectField`, then the same |
| `write_canonical_candidate` | `WriteCandidate` |
| `resolve_conflict`, `confirm_field`, `lock_field`, `patch_canonical` | `Resolve`, `ConfirmField`, `ToggleLock`, `Patch` |
| `backfill_indexes_from_driver`, `cleanup_stale_fk_relationships` | `BackfillIndexes`, `DropStaleKeys` |
| `_delete_legacy_candidates` | `Purge` |
| deletion of a repository, a data source, a table | `DeleteRepo`, `DeleteSource`, `DeleteTable` |

A session reads what is committed plus what it has flushed itself (PostgreSQL,
READ COMMITTED). What it is about to flush is its `plan`, what it has flushed
its `done`, and a flush waits while another session's `done` locks one of its
rows. The rows of one flush are locked in one step, because the ORM emits them
in key order. A flush that finds the index `uq_one_open_conflict_per_field` or
the table's unique key taken, or its row deleted, fails; a session may be rolled
back at any point. `then` is where it goes on after the flush.

A scope is a field or the identity of a relationship; a candidate is one value
in it, and there is one row per value. Equivalence rules apply to fields
(`Ruled`) and choose any winner. The columns are written whole, as in the code:
a session that changes one entry writes the others back as it read them. The
values of one relationship differ in `to_field` only, which is not part of its
identity; a candidate without one (`Bare`) leaves the entry the `to_field` it has
(`Shown`, `_merge_relationship_into`). `NoCand` in the table stands for no entry or
one a user wrote, `ByUser` for a relationship the user wrote with its `to_field`.
The read of the protected relationships and the read of the table in
`cleanup_stale_fk_relationships` are one step. `evidence_only` is modelled as the model class, promote and the
endpoints handle it, although the writers of today confirm what they write.
`serial` is a history variable: no two transactions have overlapped so far.

### Knowledge

| Code | Model |
|---|---|
| `knowledge_entries`: `status`, `is_superseded`, `tier`, text | `row[e]`; the text is the request that wrote it |
| documents in ChromaDB, per entry | `vec[e]`: the text they were made of |
| `_cache` of the automaton | `cache`: the terms and texts it knows |
| a handler between its reads and its response | `req[r]`: what it read (`old`), the plan, the steps left (`todo`) |

`PlanOf` has one operator per endpoint and sweep: which rows it writes and which
steps follow (`commit`, `refresh`, `upsert`, `delete`, `sync`, `hq`, `audit`,
`clear`, `read`, `write`), in the order of the code. Each step is an action. A
commit writes the columns the handler changed over the row as it is by then
(`Merged`), and fails when a row it needs is gone. `sync` decides by what the row
was and is (`Drops`, `Puts`, `Rebuilds`) what becomes of the vectors, and puts a
rebuild of the automaton in front of the steps that are left. Vectors are written
at best effort (`chroma_upsert_safe`, `chroma_delete_safe`, `rewrite_hq_for_entry`):
`Writes` lets the write of any entry fail, with the vectors as they were or, where
the old ones are deleted first, none, and the handler goes on; `WriteCache` lets a
rebuild fail after the cache was cleared. What such a failure leaves wrong is in
`desynced` from then on, entries for good, the automaton until the next start. `Jobs` is what the
endpoints and sweeps accept, `Menu` what an instance asks for. `Unsynced` is the
list of cases in which the code leaves a cache behind although nothing fails.

### Terminology

`ke` and `conf` are the rows; a payload has a term, synonyms and an anchor, and
of an anchor at most one entry is active (`Holders`). `Find` to `Merge`, `Park`,
`Create` are the gate; `Resolve` and `Apply` the five resolutions; `Review` stands
for approval, rejection and deletion. A refresh is `Ask`, `Begin`, `Purge`, `Clear`, then
`Extract`, `WriteTerm`, `Finish`, or `RefreshFails`. A session that meets a row
another one is deleting waits (`Locked`).

### EnumSync

The dictionaries (`dict`, the values are a version), the copies in the fields
(`field`), the queue and the worker (`work`). An endpoint is two actions: the
change, and `Enqueue`. `Poll` takes a batch and folds it, keeping one event
per dictionary and kind; `Read`, `Write`, `Drop` handle one event; `HandlerFails`
drops it as the code does.

### Plans

`Generate` parses what the planner answered (steps that are no objects are
skipped, a bad one refuses the plan, the rest is sorted); `Execute` is the tool
call with the parsed plan or one the agent made up, and checks the references
first; `StepRuns`, `StepFails`, `Count`, `NoSteps` are the executor. `Applied`
says which limit a driver applies to a step. A limit in the middle of a pipeline
that is above the ceiling is lowered (`Lowered`): the stages behind it see fewer
documents, and how many rows come is arbitrary.

### Registry and LLM

`Registry` has the rows, the slots, the cached clients and the requests of the
administrators, which read, commit, read again and only then refresh the slot. A
restart loads the slots, but for any groups it fails to load (`unloaded`; `load_from_db`
logs every exception and the process serves), which a later request fills.
A call resolves its settings, reuses or builds a client under the lock, and takes
what is in the cache after it. `LLM` is one call: `OpenAIChat`, `ClaudeChat`,
`OpenAIChecked`, `ClaudeChecked`, `OpenAITools`, `ClaudeTools` say how an outcome
of the endpoint moves it on, with `Retry` and `Wake` for the back-off. `sends` counts
the requests the code makes of the client; what the SDK repeats by itself is below it.

### Startup

The database is a set of facts: a table, or a table with a column, an index, a
constraint or rows. Each migration of `run_all` is an operator from such a set
to what it leaves and whether it found what it needs; `Migration` puts them in
the order of the code. `History` says which facts a database of each earlier
release may have. A start may be cut off after any migration. What is stored in the rows is
left out but for the accounts: that rows which break a new constraint would stop a
migration (two canonical entries of one anchor and the index of
`db/schema_migrations.py:276-287`, for one) is not modelled.

### Access, GitToken, Namespaces

`Access`: endpoints read accounts, decide, and write later; `Check` is the
`SELECT ... FOR UPDATE` that waits for locked rows and counts again. `GitToken`:
`Flushed` is the flush of several changed rows, in the order of ids, under the
partial unique index. `Namespaces`: deletion in its steps `Preview`, `Confirm`,
`Purge`, `Collect`, `Remove`, `Release`; runs that `Load` a row and then `GetPool`,
which for aiomysql means to wait between the look into the cache and the entry. A
pool may refuse to be closed (`Evict`; `engine/drivers/oracle.py:699` ignores it).

### Records and Extraction

`Records`: a run writes its trace and later its history; `Read`, `Answer`, `Save`,
`Mark` are a refinement. `Extraction`: `Scan`, `Explore`, the agents' `Enter`,
`Round`, `Leave` or `Crash` under a semaphore, `Merge`, and the guard of the
pipeline that decides what is written.

### Composition

Components that share no state with each other are put side by side: `Services`
(plans, calls, registry, start-up, accounts, tokens, namespaces, extraction,
records) and `Vocabulary` (`Terminology`, `EnumSync`) declare the variables of all
and instantiate their modules, and a step is a step of one of them. The theorems
are about these compositions, so that two modules of proofs serve eleven components. For
TLC the MC module adds a variable `part`: a behaviour is a behaviour of one component,
chosen initially. The state spaces add up, they do not multiply, and as the
components share nothing, nothing is lost for properties that speak of one of them.
`MCServices` (of `Services`), `MCKnowledge` (of `Knowledge` and `Vocabulary`),
`MCEndings` and `MCSchemaPromote` are built this way. Components that do interact are composed
where the interaction is: the loop's cancellation and cleanup inside
`QuerySession`, promotes inside `RepoWorker` and `SchemaPromote`, the review of
terms inside `Terminology`, the purge of a namespace inside `Knowledge` (entries)
and `Namespaces` (pools).

All four extend the modules they are mainly about, so
that their runs check the very formulas the theorems state; `MCSchemaPromote`
has one set of candidates and bounds by `part` which of them are written and how
many sessions are open (`Bounded`).

### Proofs

`ClarifyProofs`, `QuerySessionProofs`, `RepoWorkerProofs`, `AgentLoopProofs`,
`SchemaPromoteProofs`, `KnowledgeProofs`, `ServicesProofs` and `VocabularyProofs`
extend the module they are named after (section 5).

## 4. The runs

| Run | Instance | Question |
|---|---|---|
| `clarify` | 1 trace, 2 calls, at once or in turn, 2 posts | stale events, double use, lost wake-ups, pending cards, calls that never end; is the abstract rendezvous implemented |
| `clarify_late` | the same | violated: does every answer belong to the card that was shown |
| `query` | 2 cancel requests, failing writes | all safety properties of a session; does every session end and every cancel return; is the abstract verdict implemented |
| `query_registry` | 1 cancel request | violated: is the worker always deregistered |
| `worker` | 2 repositories, 3 workers, 1 forced rebuild, 1 request, 2 slots, a restart, failing writes; or 2 workers and deletions | claims, visibility, promotion |
| `endings` | agent loop: 2 classes, 2 calls, 3 iterations, 2 calls a turn; or 2 workers of 1 repository with 1 slot, a delete, a restart, failing writes | stop conditions; does every run and every worker end |
| `promote` | one session after another on a relationship with two values, one of them a foreign key, and a field with one evidence; or 2 sessions at a time on a field with 2 values | do candidates, conflicts and the canonical table agree after any sequence of operations; conflicts under overlap; waiting for rows and locks |
| `promote_purge` | 2 sessions; a relationship with 2 values | violated: does the purge delete pending candidates alone |
| `knowledge` | a term, a rule and an example that contradict or supplement each other, 2 requests, 1 restart; or 2 refreshes beside 1 request; or 3 requests on a dictionary bound to 2 fields | do vectors, automaton and copies follow; do generations of terms mix |
| `terms_pending` | 1 request, 2 refreshes | violated: is a term that is refused as pending stored as a conflict |
| `token_activate` | 3 rows, 2 tokens | violated: can a token be activated whichever is in use |
| `services` | 9 parts, below | plans, calls, registry, start, accounts, tokens, pools, extraction, records |

### Bounds and why they are enough

* *Clarify*: two calls of one trace share a registry key. Two posts give
  duplicate answers to one card, answers to two cards, and a late answer followed
  by a fresh one. That traces do not mix is proved, for any number of them.
* *QuerySession*: the code distinguishes no cancellation, one and a second (the
  second arrives during cleanup of the first); two requests, each with the
  second cancellation of its grace period, make up to four deliveries.
* *AgentLoop*: window 4 > dead-loop window 3 > threshold 2 keeps the order of
  the configured values (the validator of `Settings` demands threshold not above
  the windows); turns of two calls jump over the threshold; one forced
  clarification per class is the default and shows the limit, its exhaustion and
  that an answer wipes the window; `Cap` 3 leaves room to fire, be answered, fire
  again and give up, two calls a turn. The model takes
  `agent_loop_iteration_limit_enabled` as TRUE, its default: with the limit off
  nothing bounds a run that makes progress.
* *RepoWorker*: three workers give an owner, its successor and a sibling; two
  repositories make the gate depend on more than one row. One crash or one lost
  update per behaviour (`lost`): the properties exclude what follows from it.
  `Workers`, `Rebuilds` and `Requests` bound how many are ever started. In
  `worker`, repositories are deleted in behaviours with at most two workers and
  without a rebuild, a crash or a lost write (the constraint `DeletionsApart`); in
  `endings`, where one repository is enough, a deletion meets crashes and failing
  writes.
* *SchemaPromote*: the properties stated for `serial` behaviours need no two
  sessions at a time (any number of them is proved); two
  values of a scope make a conflict, its resolution and a revival, and a second
  scope shares the table row and its lock. Overlap is between two sessions: a
  third one adds no new kind of cycle, as only rows, one lock and one index are
  waited for. With two sessions both values are the data source's: deleting the
  repository orphans rows as deleting the data source does, and the purge under
  overlap is the question of `promote_purge`. Nothing is counted, so no counter is
  bounded.
* *Knowledge*: three entries, as approving one may supersede one and reject
  another; all statuses and tiers of the term, of which the two caches depend, as
  initial states; the menu has each operation on the entries it treats
  differently. Two requests cover every chain of two operations and every
  interleaving of two; longer chains start in the states of other chains.
* *Terminology*: two refreshes and a person's request on one anchor with two
  terms, which merge, clash or replace each other; the model may name a source
  that does not exist. *EnumSync*: `BatchSize` 2 of three events, so that a batch
  is folded and one event is left; coverage differs by version and field.
* *Plans*: at most two steps from a
  menu of kinds, references to either, default limit 2 < ceiling 3 < 4 rows there
  are. *LLM*: the budgets 3 and 1 differ as the configured ones do. *Registry*:
  two configurations of one group that share a client key, one of the embedder,
  two administrators; two changes per behaviour and any number of restarts, each of
which loads any of the groups.
* *Startup*: every release of the history (0 is an empty database), any number
  of starts, each cut off anywhere. *Access*: two accounts with two overlapping
  requests (two super admins that remove each other), and two accounts with a
  namespace. *Namespaces*: one source whose driver waits and one whose does not,
  two users of pools, one deletion. *Extraction*: three files in units of two, two
  rounds, windows of two. *Records*: two runs with one refinement, or one run with
  two; a trace may yield two proposals.

`CHECK_DEADLOCK FALSE` in all runs but those of `SchemaPromote`: the other
systems come to rest when the queries, the workers or the requests of the
instance are used up. Sessions never are, and TLC checks that the promote runs
do not deadlock. Symmetry is used in no run that checks liveness.

### Fairness

Users, clients and the language model owe nothing: no fairness on starting,
answering, cancelling, disconnecting. Weak fairness is on what the event loop
resumes: coroutines that are ready, timers that run out, commits that complete, and
the round of the cleanup loop, which logs a failing round and goes on.
`SF` appears twice. `GenEnd`: the queue holds finitely many events ahead of the
sentinel, so the generator's detours are finite. `Acquire`: `asyncio.Semaphore`
wakes its waiters first in, first out, and the model's slot may be empty only
now and then. In `AgentLoop` every model and tool call has a timeout, so a step
is always taken; which one is not constrained. The other modules are about
safety: their requests may stop anywhere, as a restart would stop them.

## 5. Proofs

Every theorem is about `Spec` of its module, for every value of its constants.
Type correctness (`TypeCorrect`) is proved for six modules; the other theorems
are listed in PROJECT.json with the property they state. Each proof module
starts from a shape of the state, then strengthens the property to an inductive
invariant `IInv` (or one per property), which TLC checked before it was proved.

Assumed are the named assumptions on the constants, which TLC evaluates on the
runs' instances, and nothing else. They say what values are: the absent ones are
not elements (`NoneIsNoRun`, ...), `TraceOf` is a function, the switches are
Boolean, outcomes of a call are not names of error classes (`ClassesAssumption`), the first
account is an account (`RootIsUser`), budgets and batch sizes are numbers
(`BudgetsAreCounts`, `BatchesAreCounts`, `UnitsTakeFiles`: a unit of work takes at
least one file), `model_configs` is a finite table (`ModelsAreRows`), databases come
from a known release (`ReleasesAreKnown`), plans are lists of steps
(`PlansAreSteps`), and the requests of people are not refreshes (`WritersDiffer`).

**Clarify.** `TypeOK` is proved together with `CardInv`: a post past its first
step has a card. `StaleEventsNever` is inductive relative to it. `AnswerInv` says
where a delivered answer may be: filed under its card's trace, or the result of
one call of that trace, and never in two places; without it
`AnswersAreConsumedOnce` is not inductive,
because nothing excludes a second copy of a consumed answer. The three theorems
about runs that ask one question at a time need `SequentialInv`: until two calls
of a trace overlap, two active calls of it are the same call, an active call owns
its trace's Event, and a stored answer has set that Event. This is the documented
concurrency contract of `clarify_with_user`; after an overlap the code keeps none
of the three. `StoppedRunsLeaveNoCard` exempts the runs whose clean-up was lost
(`unabandoned`) besides: what is left to them is `CardsSettle`.

`PromiseIsKept` is the refinement: `Clarify` implements `Rendezvous` under the
mapping of `AskedAs` (how far a question has got), `result`, `answers` and the
posts that have been delivered. Initial states map to initial states, and each
action to one action of `Rendezvous` or a stutter. One step is not a matter of
the mapping alone: a call that wakes and finds no answer must be excused by
another call of its run (`Take`). That is `OverlapInv`: an Event that is set while
nothing is stored belongs to a run in which another call has been active.

**QuerySession.** `StageInv` ties `pc` to `exit`, `worker`, `events`, `closed`
and `history`. `EarlyInv` carries the argument for `EarlyCancelsWin`: after a
request acknowledged early there is, at each stage up to the history write, a
witness that still stops the answer: an undelivered cancellation, the flag, or
an exit that is already `cancelled` (or raised). The single flag is not enough,
as the loop removes it, and the single cancellation is not, as `wait_for` may
drop it. `OutcomeInv` relates the outcome shown to the rows stored. `CauseInv`
traces every silent end and every double record back to the party that caused
it.

`PromiseIsKept` is the refinement: `QuerySession` implements `Verdict`. Each action
is one action of `Verdict` or a stutter, and the three invariants are what its
guards need: `EarlyInv` that nobody has asked in time when the answer is decided,
`CauseInv` that a question is given up in silence, or its answer dropped while it
is written, only because of somebody, `OutcomeInv` that what is told is stored and
nothing was told before. That the code alone never ends a stream in silence
(`EndsAreAnnounced`) is proved by itself, and model-checked as part of the promise.

**RepoWorker.** `RowsNameLiveWorkers` is not inductive: that a row names a live
worker says nothing of who clears it when that worker goes. `ClaimInv` adds that a
row names a worker of its own that has written it, and that the row of a cancelled
worker names another one already or has a cancel request about to clear it.
`SoleWorkersAreVisible` needs `StaleInv`: a request that has yet to clear a row has
found one of the row's workers ended, or has taken it out of the registry, so that
it never clears the row of a sole worker that runs. `AllParsedArePromoted` needs
`PromoteInv`, the list of those who may still have to act: candidates wait only
while a repository is not parsed, a worker is at the gate or at the lock, or a
worker or a request is about to take `parsed` back.

**AgentLoop.** The windows are sequences, so the proof starts with lemmas about
counting in a sequence: what appending, cutting to the last `n` and wiping a class
do to the count. `AlignInv` says that the dead-loop history is the end of the error
window (unless it is the longer one) and `FreshInv` that every error of a class in
the window has arrived since the last answer for it; together they make
`RepeatedErrorsReachTheUser` and `AnswersAreWorthIt` inductive. `SinceInv` bounds the
dead-loop history by the results since the last answer, `AskInv` accounts for every
forced clarification: answered, pending or timed out. `ResetClass` is a recursive
function of the position, as the prover takes no `RECURSIVE` operators.

**SchemaPromote.** Three inductive invariants over the committed rows, what each
session has flushed and what it is about to flush.

* `ConflictInv` for `ConflictsResolvable`, with any number of overlapping
  transactions: the conflicts held by two sessions are of different scopes, a
  session that opens one has found the scope free or closed what was there, what
  it closes is open, and who closes a conflict decides on everything in it. This
  is where row locks and the index of one open conflict per scope are used.
* `ValueInv` for `RelationshipsSayOneThing`, `CodeStaysCanonical` and
  `LockedTablesKeepValues`, for transactions that do not overlap (`serial`; overlapping
  ones do lose values, section 6): what the properties say of the rows must hold of
  three views, the committed rows, what the session sees with its flushed changes,
  and what it will see after its plan (`Sound`, `After`, `With`). A confirmation that
  holds the table from its start sees it as it is (`Fits`). The two action properties
  follow, because a commit makes the second view the first.
* `EvidenceInv` for `EvidenceWaitsForUser`, again with any number of overlapping
  transactions. A session decides from statuses and confidences it selected
  earlier; `Knows` says that these can only have become firmer, unless the row was
  deleted, and `PlansFirm` and `DoesFirm` that nothing it is about to flush or has
  flushed puts mere evidence in force. A candidate that is deleted and written anew
  as evidence is the hard case: the flush of the session that still holds the old row
  fails (`lost`), and `RowsApart` (no two sessions hold one candidate's row) keeps the
  commit of another session from changing what a flushed row rests on.

**Knowledge.** `VectorsAreRight` and `AutomatonIsRight` speak of moments at which
nothing runs; the invariant `Inv` says what holds in between. It follows each
request that runs (`Mine`), in four parts:

* `Fitting`: the steps that are left are in an order that makes sense (a commit
  before what depends on it, a rebuild as clear, read, write), and will do: an entry
  whose vectors are to be deleted will not be recalled, one that is to be written is
  not erased, what `sync` and `hq` leave alone is right already, and a commit that
  changes what the automaton should know is followed by a rebuild;
* `RowsSoFar`: the rows are as they were loaded until the commit, and as the plan
  wants them from then on, and the request holds them so;
* `VecsSoFar`, `AutoSoFar`: the vectors and the automaton are right for the rows as
  they will be, or a step that is left makes them so.

This is said of what a request does not share with another one (`Apart`): what two
requests under way both touch is exempt from then on, as the code has nothing to
keep them in step. So is what a write has failed for: a failing write puts its own
entry among what is exempt and touches the vectors of no other (`WritesVectors`), so
that all the rest is still right (`SameExempt`, `Exempts`). What no request touches
has the caches its row asks for. There
are three arguments. `Planned`: each of the fourteen kinds of request plans its
steps so that `Mine` holds when it starts, whatever it has loaded - this is where
an endpoint that forgets a deletion or a rebuild fails, and where the cases of
`Unsynced` are needed. `TailFitting` and the lemma of each step: taking the first
step keeps `Mine`. `OtherMine`: it leaves the `Mine` of the others alone. Lists of
steps are sequences put together with `\o`; `Concatenated` and `TailLists` say
what that does to their order and their steps. `Inv` was model-checked on two
entries with the whole of `Jobs`, and with two requests on a smaller menu, before it
was proved.

**Services.** Nine components, of which eight have theorems; `StepOfOne` says that
a step of the composition is a step of one component or leaves its variables alone.

* *Namespaces*, `PoolsAreClosedAlways`: while nothing has raced, the cached pool is
  the one that is open (`OneOpen`), one run opens at a time (`OneOpener`), who is
  about to fill the cache still has a row (`BoundToRow`), a deletion that has
  collected ids knows every source (`CollectedAll`); so nothing of a removed source
  stays open once no deletion has to close it (`GoneIsClosed`).
* *Access*, `SuperAdminsRemain`: a request that has counted the super admins under
  `SELECT ... FOR UPDATE` holds the row of a *witness*, an active super admin other
  than its target (`WitnessInv`). The locks keep the witness in office until the
  commit.
* *Registry*, `SlotsAlwaysFollowRows` and `OneEmbedderAlways`: in a group no two
  requests overlapped on, one is under way at most (`OneAtATime`); what it has read
  is current until it commits, and what it has committed is what the rows say
  (`RequestsKnow`), so that the slot lags only between the two (`SlotsLag`), and holds
  nothing where the last start failed to load the group (`Served`).
  `EmbeddingIsFixed`: the embedding configuration in use can neither be edited nor give way
  to another one, and every text was embedded with it. That a group has one
  configuration in use holds even where requests overlap: the unique index refuses
  the second commit.
* *Records*, `RefinedOnceAlways`: a trace is read by one refinement at a time
  (`OneReader`), has no proposal before it is that refinement's turn, and cannot be
  read again once it has one (`YieldsOnce`).
* *LLM*, `CallsAlwaysEndWell`: what was sent and what the attempt may yet repeat
  (`Repeats`: without the extra parameters, after an empty answer) is within the
  bound; a back-off is counted before it is waited for.
* *Start-up*, `ScopesAreAlwaysKept`: of all the migrations one looks at the role
  column, and it decides by whether the column is wide. `WideWhenServing` says
  who can have seen the narrow column, `OldKeepTheirs` what was granted with it;
  `KeepsUsers` is the lemma that the other 48 migrations leave the table of
  accounts alone, one by one.
* *Extraction*, `ExtractionsAreAlwaysWhole`: the split covers every file whatever
  the size of a unit (the arithmetic of `Chunk`), nothing is merged before the
  agents have ended (`BeforeMerge`), and the status of the result is counted from how they
  ended (`MergedIs`, with lemmas about the cardinalities that the code compares).
* *Plans*, `ParsedPlansAlwaysRunInOrder` and `CutsAreAlwaysTold`: a parsed plan is numbered
  in its order (`ParsedIsNumbered`: a list of as many distinct indices as it is long,
  sorted), the first `at - 1` steps have left their exports (`ParsedIsAt`); the
  result shown is that of the *largest* index, which a plan of the agent's own need
  not run last (`LastIsTold`). Rows that stay below the limit applied are all there
  were, or a limit within the query was lowered (`BelowLimitIsAll`), which the
  property exempts (`Unseen`). That a list has a largest index, and that the sorted
  indices are 1, 2, ..., are inductions over data. The prover cannot use the
  library's induction theorems, which take an operator, but the least-number
  principle speaks of a set (`LeastNumber`, from the well-foundedness of the natural numbers), and
  both arguments are made with the least counterexample.

**Vocabulary.** `OneGenerationAlways` needs to know where a refresh is
(`GenerationInv`): one refresh is under way at a time and only it has a session open
to write (`OneRefresh`); every row and open conflict that a refresh has left is
among its doomed rows after the purge, none is left after the clearing of
conflicts, and what is there from then on the refresh itself has written
(`OneWriter`). Each step of the gate is shown to write on behalf of one request at
most (`WrittenBy`); a review or a resolution of a person changes no one's
authorship.

`CopiesAgreeAlways` speaks of a moment of rest; `CopiesInv` says why nothing is missing before.
A bound field has the values of its dictionary, or the event that will bring them is
`Coming` - a request has it to enqueue, or it is in the queue where the worker has
yet to read it - or it is `InHand`: the worker has read the field as it is, and what it is about to write is
current or itself still to be corrected (`FieldsAreCured`, `WorkIsCured`). Which
event that is depends on whether the dictionary still exists (`Cure`): only what is gone for
good has its deletion announced (`DeletedForGood`). The worker's folding of a
batch keeps one event of each kind (`Kept`), so that whatever was coming still is;
that a set of places can be listed in order (`InOrder`) is part of the model and not
of the proof.

**Model-checked only.**
* Liveness: `CallEnds`, `CardsSettle`, `StreamEnds`, `CancelAnswered`, `RunEnds`, `WorkerEnds`; and
  `NobodyIsStuck` of `SchemaPromote`, which speaks of ENABLED. Both are beyond the prover.
* `StartsFromAnyRelease`: its only parameter is the release a database comes from,
  and the run goes through all of them (0 to 35) with every place to be cut off at,
  so the check by TLC is exhaustive.
* `GitToken`, whose one property is the finding `token_activate`, and the other
  violations.

## 6. Where the code does not do what its text says

1. **A late answer answers the next question** (`clarify_late`).
   `resolve_pending_clarification` files the answer under the trace even when
   its call has timed out, and the next clarification takes it on its fast path.
   The comment at `engine/tools/interaction_tools.py:135` says the finally block
   prevents this; it does only for answers that came before it.
2. **The worker registry leaks** (`query_registry`). The loop's finally block
   awaits two guarded database writes before it deregisters the task; a second
   `CancelledError` is not an `Exception` and skips the rest.
3. **The purge deletes decided candidates** (`promote_purge`).
   `_delete_legacy_candidates` reads the ids of pending candidates and deletes by
   id. A promote that has flushed one of them as active, and commits between the
   two statements, loses the row, while the canonical table keeps its value. The
   docstring at `knowledge/trainer_purge.py:122` says only `pending` rows go.

4. **A pending term is not pending** (`terms_pending`). A term entered by hand
   that clashes with another is parked as a conflict by the gate, which only
   flushes; `create_knowledge` answers 422 `..._conflict_pending` before its commit
   (`api/knowledge.py:131`), and the session is closed. The conflict is gone.
5. **A token cannot always be activated** (`token_activate`). `activate_config`
   disables the others and enables one in the same flush; the UPDATEs go out in the
   order of ids, so a token with a smaller id than the one in use meets the unique
   index (`api/git_token_config.py:174`).

Also observed while modelling, without a run of its own.

*Cancellation and workers.*
* The cancel flag is read for the last time before the commit: a cancel that
  finds the worker gone while commit or refresh is suspended is answered
  `flag_set`, and the answer is stored and shown (`api/query.py:213`, `:566`).
* A flag set between the end of the task and the end of the generator is never
  removed (`api/query.py:199`, `:372`).
* The second cancellation may interrupt `write_cancelled_history`, so that a
  cancelled conversation is not saved (`api/query.py:355-364`).
* `_abandon_pending` swallows a failing UPDATE, and a second cancellation before it
  skips it: the run has stopped and its card stays pending until it expires
  (`engine/agent_loop.py:733`, `unabandoned`). A clarification that times out in a
  run that goes on leaves its card pending too.
* The rebuild mark is one per namespace, and any worker that leaves Phase 1
  clears it, also one that found its repository deleted
  (`engine/repo_worker.py:107`); a worker cancelled between its Phase-1 commit
  and `clear_rebuilding` leaves it set (`engine/repo_worker.py:132`).

*Overlapping promotes.* The namespace lock is released before the commit, and
`promote_single_field` takes none. Two promotes may then both write
`relationships_json` and one value is lost, or two values of one relationship
become active; the comment at `knowledge/canonical_promote.py:163` expects the
unique index to exclude dirty data, but it guards conflicts only. For the same
reason `backfill_indexes_from_driver` may overwrite an edit made while it waits
for a driver, and a running promote or resolution may make a candidate active
again that a deletion has orphaned. This is why three properties are stated for
behaviours without overlap.

*One session at a time.*
* `cleanup_stale_fk_relationships` does not look at `user_locked`.
* A foreign key that is dropped and created again does not come back: its
  candidate stayed active and is not pending again.
* `delete_datasource` deletes the table and leaves the repository's candidates
  active and the conflicts open.
* `reject_all` leaves the rejected value in the canonical table. So does a
  resolution in favour of a relationship that has no `to_field`: the merge keeps the
  `to_field` of the rejected one (`knowledge/canonical_promote.py:612`, as
  `tests/schema/test_upsert_relationship_key.py:37` wants it of extracted values).
  `CanonicalAgrees` claims nothing of such a winner, `CodeIsKept` only that its entry
  stays.
* Several pending candidates of one field are decided among themselves: an
  active one is not looked at, and an `evidence_only` one may win.
* An `evidence_only` winner of a resolution stays pending.

*Knowledge and terms* (the cases of `Unsynced` and the histories).
* Vectors are written at best effort after the commit: a failing write or deletion is
  logged and nothing repeats it (`api/_audit_helpers.py:98-129`, `api/knowledge.py:214`,
  `knowledge/hq_writer.py:133`, `knowledge/bulk_guard.py:306`,
  `jobs/knowledge_decay.py:123`), so that a retracted entry stays in recall, or an
  approved one out of it, until somebody writes it again.
* A rebuild of the automaton that fails after the cache was cleared is logged too
  (`api/_audit_helpers.py:243-258`): no term is matched until the next rebuild.
* `hq_writer` looks at neither status nor tier: an edit by hand writes vectors of
  an unreviewed or critical entry; edits and patches of rules leave vectors behind
  when `hq_writer` does not run; `PUT` looks at the content of a term, whose
  vectors are its payload's.
* Deleting a namespace clears the automatons of all namespaces and rebuilds
  none; decay retracts terms without a rebuild; approving a rule that beats a term
  looks at the rule's type only; resolutions of term conflicts leave vectors.
* Decisions are taken from rows read before: a sweep may undo a review of the
  same moment, an approval revive what was just rejected, a merge extend a term
  that was approved or retired meanwhile, and two resolutions of one conflict both
  pass the 409.
* Audit rows go with their entry (`ON DELETE CASCADE`).
* The term extractor raises when every batch succeeds without a term.

*Enum dictionaries* (`missed`).
* The event is committed after the change: a restart in between loses it. A failed
  handler drops its event. The extraction from code sends none. Bindings and the
  worker write `fields_json` as they read it, over each other's changes.
* A forced binding to a dictionary that does not cover the samples has the match
  status `conflict` and no row among the conflicts.

*Plans.*
* A plan the agent writes itself is not sorted: it runs in the order of the list.
* A result cut by the default limit, not by the ceiling, is not marked truncated.
* `_apply_mongo_limit` takes the last `$limit` wherever it stands and lowers one above
  the ceiling (`engine/drivers/mongo.py:348-361`), although its docstring says that
  a limit in the middle is left alone (line 346): the stages behind it - a
  group, a filter - see fewer documents, fewer rows than the limit come out, and
  the result is neither counted nor marked truncated (`lowered`, `Unseen`).

*Registry and calls.*
* `load_from_db` catches every exception, an unreachable database or a key that cannot
  be decrypted, and the process serves with empty or partly filled slots
  (`engine/model_registry.py:243-272`, `unloaded`): calls of a namespace fall back on
  the global configuration, or find none, until somebody activates one.
* Requests about one group that overlap may leave the slot with settings of a
  row that is not in use; a deletion beside an activation leaves it empty.
* A caller gets the settings and then the client; they may be of different
  versions of the same key (`get_chat_client`).
* `chat_completion_checked` neither retries nor refuses an empty answer, unlike
  `chat_completion`.

*Start-up and accounts.*
* Every start promotes the account `admin` again if it was demoted to `admin`.
* `update_user` and `delete_user` take the role from what was read before the
  row lock: with a promotion in between the last super admin may go (`slipped`).
* Two requests that set the grants of one account may leave the union.

*Namespaces, records, extraction.*
* Two first users of a MySQL source open two pools and one is lost
  (`engine/drivers/mysql.py:88-110`); a run that loaded a source before its
  deletion opens a pool afterwards; an Oracle pool that refuses to close because it
  is in use is forgotten all the same (`engine/drivers/oracle.py:699`).
* A query that runs while its session is deleted writes its trace and history
  into the deleted session.
* A refinement whose model call fails marks its traces all the same; two
  refinements of one trace both produce proposals.
* An extraction with a single agent throws away what the agent found before a
  failed call, which the comment at `knowledge/extraction_agent.py:242` says is
  kept; an agent that ends by itself in its last round counts as capped.

## 7. Plan

1. *(done)* `Clarify`, `QuerySession` and their proofs; `AgentLoop`;
   `RepoWorker`; `SchemaPromote`.
2. *(done)* The refinement of `Rendezvous` by `Clarify`, checked and proved.
3. *(done)* `Knowledge`, `Terminology`, `EnumSync`; `Plans`, `Registry`, `LLM`,
   `Startup`, `Access`, `GitToken`, `Namespaces`, `Records`, `Extraction`.
4. *(done)* Proofs of `RepoWorker`, `AgentLoop`, `SchemaPromote`, `Knowledge`.
5. *(done)* `Services` and `Vocabulary`, which compose the other components, and
   the proofs of every invariant their runs check, but for the start of databases
   of earlier releases.
6. *(done)* The refinement of `Verdict`, an abstract query, by `QuerySession`.

## 8. Not modelled, and why

* What a language model or a data source answers is arbitrary; prompts, message
  trimming, result formatting, charts, parsing of model output are data.
* Database access itself, sampling, embeddings, Git subprocesses: network I/O.
  What drivers decide - pools, row limits, restrictions - is modelled.
* The extraction inside a parse worker is one step `Extract` of `RepoWorker`,
  which succeeds, reports an error or raises; `Extraction` is that step in detail.
  The statuses `cloning` and `parsing` are one.
* Redirect corrections: they change the next prompt and nothing else.
* Knowledge extraction after an answer: the fact that it was started.
* Schema canonical: the reclassification of legacy conflicts, the audit log and
  the archive; several relationships of one field.
* Recall feedback: counters that only decay looks at, and `Knowledge` lets any
  entry without a human audit row decay at any time.
* Trace compression and payload compaction: what they keep is a matter of text.
* Feedback, lists, renaming, the workbench, login and passwords: single rows,
  no decision on earlier state, or cryptography.
* The frontend: its requests are the environment.

## 9. Running

    tlc -workers 2 -config MCClarify.cfg MCClarify
    tlapm SchemaPromoteProofs.tla

PROJECT.json lists every run with its configuration and, for each property, a
mutant of the modelled code that the run refutes; the mutants are defined next
to the definitions they change. `map` gives the source lines of each definition.
