---------------------------- MODULE QuerySession ----------------------------
(***************************************************************************)
(* One streamed query from POST /query/stream to the end of its SSE        *)
(* stream: the endpoint, the task running _run_and_finalize around         *)
(* run_agent_loop, the SSE generator, and the cancel requests that race    *)
(* with them.  Sources: api/query.py, api/_session_cleanup.py,             *)
(* engine/sse_manager.py, and the cancellation and finalisation paths of   *)
(* engine/agent_loop.py.  trace_id is a fresh uuid per query and every     *)
(* registry is keyed by it, so sessions share nothing and one is enough.   *)
(*                                                                         *)
(* asyncio: code between two awaits that really suspend is one action.     *)
(* task.cancel() is a request (cancelReq) that the task's next step turns  *)
(* into CancelledError at the await where it is suspended, so every await  *)
(* of the task has an action for each of the two ways to resume.           *)
(***************************************************************************)

CONSTANTS
  Requests,  \* POST /query/stream/{trace_id}/cancel requests
  DbFails    \* TRUE: database writes of the finalisation may raise

ASSUME DbFailsAssumption == DbFails \in BOOLEAN

VARIABLES
  pc,         \* where the endpoint, then the agent task, is suspended
  exit,       \* how run_agent_loop's try block ended, while its finally runs
  cancelReq,  \* the task has an undelivered cancellation
  worker,     \* trace_id \in _active_agent_workers
  flag,       \* _cancel_reason[trace_id] = "user_abort"
  abort,      \* an abort correction lies in the correction queue
  sse,        \* trace_id \in _sse_event_queues
  gen,        \* event_generator
  events,     \* lifecycle events put on the event queue
  closed,     \* the None sentinel has been put
  trace,      \* the agent_traces row
  history,    \* the assistant rows of query_history
  extracting, \* the knowledge extraction task has been created
  req,        \* control state of every cancel request
  seenAt      \* pc when a request that was acknowledged arrived (history variable)

taskVars == <<pc, exit, cancelReq, worker, events, closed, trace, history, extracting>>
streamVars == <<sse, gen>>
reqVars == <<req, seenAt>>
vars == <<taskVars, flag, abort, streamVars, reqVars>>

\* Stages during which run_agent_loop is on the stack.
InLoop == {"loop", "cleanup", "flush", "persist"}
Stages == {"loading", "loadFailed", "created", "history", "refresh",
           "cancelHistory", "done"} \cup InLoop
\* Stages before the task starts to write the answer to query_history.
Early == {"loading", "created"} \cup InLoop
Terminal == {"final_answer", "cancelled", "error"}

\* register_sse_session has run; the knowledge bundle is being loaded.
Init ==
  /\ pc = "loading"
  /\ exit = "none"
  /\ cancelReq = FALSE
  /\ worker = FALSE
  /\ flag = FALSE
  /\ abort = FALSE
  /\ sse = TRUE
  /\ gen = "none"
  /\ events = {}
  /\ closed = FALSE
  /\ trace = "none"
  /\ history = {}
  /\ extracting = FALSE
  /\ req = [r \in Requests |-> "idle"]
  /\ seenAt = [r \in Requests |-> "none"]

----------------------------------------------------------------------------
(* The endpoint *)

LoadDone ==
  /\ pc = "loading"
  /\ pc' = "created"
  /\ gen' = "waiting"
  /\ UNCHANGED <<exit, cancelReq, worker, events, closed, trace, history,
                 extracting, flag, abort, sse, reqVars>>

\* An exception before create_task: a 500 response, no task, no generator.
LoadFails ==
  /\ pc = "loading"
  /\ pc' = "loadFailed"
  /\ UNCHANGED <<exit, cancelReq, worker, events, closed, trace, history,
                 extracting, flag, abort, streamVars, reqVars>>

----------------------------------------------------------------------------
(* run_agent_loop *)

TaskStart ==
  /\ pc = "created"
  /\ pc' = "loop"
  /\ worker' = TRUE
  /\ events' = events \cup {"agent_started"}
  /\ UNCHANGED <<exit, cancelReq, closed, trace, history, extracting,
                 flag, abort, streamVars, reqVars>>

\* A stop reason: agent_finished is emitted and the finally block begins.
LoopReturn ==
  /\ pc = "loop" /\ ~cancelReq
  /\ pc' = "flush"
  /\ \E e \in {"completed", "failed"} : exit' = e
  /\ events' = events \cup {"agent_finished"}
  /\ UNCHANGED <<cancelReq, worker, closed, trace, history, extracting,
                 flag, abort, streamVars, reqVars>>

LoopRaise ==
  /\ pc = "loop" /\ ~cancelReq
  /\ pc' = "flush"
  /\ exit' = "raised"
  /\ UNCHANGED <<cancelReq, worker, events, closed, trace, history, extracting,
                 flag, abort, streamVars, reqVars>>

\* except CancelledError, up to the first await of _cleanup_on_cancel: reached
\* by a delivered cancellation or by an abort correction drained at the head
\* of an iteration.
LoopCancelled ==
  /\ pc = "loop"
  /\ cancelReq \/ abort
  /\ pc' = "cleanup"
  /\ exit' = "cancelled"
  /\ flag' = FALSE
  /\ events' = events \cup {"cancelled"}
  /\ \/ cancelReq /\ cancelReq' = FALSE /\ UNCHANGED abort
     \/ ~cancelReq /\ abort' = FALSE /\ UNCHANGED cancelReq
  /\ UNCHANGED <<worker, closed, trace, history, extracting, streamVars, reqVars>>

\* asyncio.wait_for of Python 3.11 drops a cancellation that arrives in the
\* tick in which the awaited event fires: here the user answers a forced
\* clarification, which the loop awaits directly.
CancelSwallowed ==
  /\ pc = "loop" /\ cancelReq
  /\ cancelReq' = FALSE
  /\ UNCHANGED <<pc, exit, worker, events, closed, trace, history, extracting,
                 flag, abort, streamVars, reqVars>>

\* _cleanup_on_cancel swallows Exception; a second cancellation leaves it
\* early.  Either way the finally block begins.
CleanupEnds ==
  /\ pc = "cleanup"
  /\ pc' = "flush"
  /\ cancelReq' = FALSE
  /\ UNCHANGED <<exit, worker, events, closed, trace, history, extracting,
                 flag, abort, streamVars, reqVars>>

\* Mutant: the worker is deregistered before its trace is persisted.
FlushDonePops ==
  /\ pc = "flush" /\ ~cancelReq
  /\ pc' = "persist"
  /\ worker' = FALSE
  /\ UNCHANGED <<exit, cancelReq, events, closed, trace, history,
                 extracting, flag, abort, streamVars, reqVars>>

FlushDone ==
  /\ pc = "flush" /\ ~cancelReq
  /\ pc' = "persist"
  /\ UNCHANGED <<exit, cancelReq, worker, events, closed, trace, history,
                 extracting, flag, abort, streamVars, reqVars>>

\* Mutant: the exception's name is stored instead of a status.
StatusOfExit == exit

\* final_status, as the finally block passes it to _persist_trace.
Status == IF exit = "raised" THEN "failed" ELSE exit

\* CancelledError is no Exception: it leaves the finally block at once, past
\* the code that pops the registry, into the caller's except CancelledError.
FinallyCancelled ==
  /\ pc \in {"flush", "persist"} /\ cancelReq
  /\ pc' = "cancelHistory"
  /\ cancelReq' = FALSE
  /\ \/ UNCHANGED trace
     \/ pc = "persist" /\ trace' = Status
  /\ UNCHANGED <<exit, worker, events, closed, history, extracting,
                 flag, abort, streamVars, reqVars>>

----------------------------------------------------------------------------
(* _run_and_finalize after the loop *)

\* The finally block: clear the flag, put the sentinel, end.
Finish ==
  /\ pc' = "done"
  /\ flag' = FALSE
  /\ closed' = TRUE

\* Mutant: the worker stays registered until the task is done.
PersistedKeepsWorker ==
  /\ pc = "persist" /\ ~cancelReq
  /\ trace' = Status
  /\ UNCHANGED worker

\* The end of the loop's finally block: the trace is stored (or the failure
\* logged) and the worker is popped.
Persisted ==
  /\ pc = "persist" /\ ~cancelReq
  /\ \/ trace' = Status
     \/ DbFails /\ UNCHANGED trace
  /\ worker' = FALSE

\* What follows in the same step, up to the next await.
ResumeCancelled ==
  /\ exit = "cancelled"
  /\ pc' = "cancelHistory"
  /\ UNCHANGED <<flag, closed, events, extracting>>

\* Mutant: an exception of the loop ends the task without an error event.
ResumeRaisedSilently ==
  /\ exit = "raised"
  /\ Finish
  /\ UNCHANGED <<events, extracting>>

ResumeRaised ==
  /\ exit = "raised"
  /\ events' = events \cup {"error"}
  /\ Finish
  /\ UNCHANGED extracting

\* A cancellation that only left its flag behind becomes CancelledError.
ResumeFlagged ==
  /\ exit \in {"completed", "failed"} /\ flag
  /\ flag' = FALSE
  /\ pc' = "cancelHistory"
  /\ UNCHANGED <<closed, events, extracting>>

\* Mutant: the flag is not checked before the history is written.
ResumeUnchecked ==
  /\ exit \in {"completed", "failed"}
  /\ extracting' = TRUE
  /\ pc' = "history"
  /\ UNCHANGED <<flag, closed, events>>

\* Extraction is started, then _write_query_history checks the flag again
\* (nothing has suspended in between) and suspends in its commit.
ResumeAnswer ==
  /\ exit \in {"completed", "failed"} /\ ~flag
  /\ extracting' = TRUE
  /\ pc' = "history"
  /\ UNCHANGED <<flag, closed, events>>

PersistDone ==
  /\ Persisted
  /\ ResumeCancelled \/ ResumeRaised \/ ResumeFlagged \/ ResumeAnswer
  /\ UNCHANGED <<exit, cancelReq, history, abort, streamVars, reqVars>>

\* Mutant: the answer is announced before its row is committed.
HistoryAnnounced ==
  /\ pc = "history" /\ ~cancelReq
  /\ pc' = "refresh"
  /\ events' = events \cup {"final_answer"}
  /\ UNCHANGED <<exit, cancelReq, worker, history, closed, trace, extracting,
                 flag, abort, streamVars, reqVars>>

HistoryCommitted ==
  /\ pc = "history" /\ ~cancelReq
  /\ pc' = "refresh"
  /\ history' = history \cup {"answer"}
  /\ UNCHANGED <<exit, cancelReq, worker, events, closed, trace, extracting,
                 flag, abort, streamVars, reqVars>>

\* except Exception around the write: commit or refresh raised.
HistoryFails ==
  /\ DbFails
  /\ pc \in {"history", "refresh"} /\ ~cancelReq
  /\ events' = events \cup {"error"}
  /\ Finish
  /\ UNCHANGED <<exit, cancelReq, worker, trace, history, extracting,
                 abort, streamVars, reqVars>>

\* A cancelled commit may have landed; a cancelled refresh comes after it.
HistoryCancelled ==
  /\ pc \in {"history", "refresh"} /\ cancelReq
  /\ pc' = "cancelHistory"
  /\ cancelReq' = FALSE
  /\ \/ UNCHANGED history
     \/ pc = "history" /\ history' = history \cup {"answer"}
  /\ UNCHANGED <<exit, worker, events, closed, trace, extracting,
                 flag, abort, streamVars, reqVars>>

AnswerSent ==
  /\ pc = "refresh" /\ ~cancelReq
  /\ events' = events \cup {"final_answer"}
  /\ Finish
  /\ UNCHANGED <<exit, cancelReq, worker, trace, history, extracting,
                 abort, streamVars, reqVars>>

\* write_cancelled_history: the record is stored, or its failure logged.
CancelHistoryDone ==
  /\ pc = "cancelHistory" /\ ~cancelReq
  /\ \/ history' = history \cup {"cancelled"}
     \/ DbFails /\ UNCHANGED history
  /\ Finish
  /\ UNCHANGED <<exit, cancelReq, worker, events, trace, extracting,
                 abort, streamVars, reqVars>>

\* A further cancellation leaves the except block; its finally still runs.
CancelHistoryCancelled ==
  /\ pc = "cancelHistory" /\ cancelReq
  /\ cancelReq' = FALSE
  /\ \/ history' = history \cup {"cancelled"}
     \/ UNCHANGED history
  /\ Finish
  /\ UNCHANGED <<exit, worker, events, trace, extracting, abort, streamVars, reqVars>>

----------------------------------------------------------------------------
(* event_generator and its client.  The task's first step precedes the     *)
(* generator's: create_task scheduled it before the response was returned. *)

GenYield ==
  /\ gen = "waiting" /\ pc # "created"
  /\ gen' = "yielding"
  /\ UNCHANGED <<taskVars, flag, abort, sse, reqVars>>

GenSent ==
  /\ gen = "yielding"
  /\ gen' = "waiting"
  /\ UNCHANGED <<taskVars, flag, abort, sse, reqVars>>

\* The queue is FIFO: the sentinel is read after every event.
GenEnd ==
  /\ gen = "waiting" /\ closed
  /\ gen' = "closed"
  /\ sse' = FALSE
  /\ UNCHANGED <<taskVars, flag, abort, reqVars>>

\* Mutant: GeneratorExit does not deregister the session.
DisconnectKeepsSse ==
  /\ gen = "yielding"
  /\ gen' = "aborted"
  /\ cancelReq' = (cancelReq \/ pc # "done")
  /\ UNCHANGED <<pc, exit, worker, events, closed, trace, history, extracting,
                 sse, flag, abort, reqVars>>

\* The client leaves while the generator is suspended in a yield: GeneratorExit
\* cancels the task (a no-op once it is done).
DisconnectAtYield ==
  /\ gen = "yielding"
  /\ gen' = "aborted"
  /\ sse' = FALSE
  /\ cancelReq' = (cancelReq \/ pc # "done")
  /\ UNCHANGED <<pc, exit, worker, events, closed, trace, history, extracting,
                 flag, abort, reqVars>>

\* The client leaves while the generator waits on the queue: the server cancels
\* that await, only the finally block runs and the agent carries on.
DisconnectAtGet ==
  /\ gen = "waiting" /\ pc # "created"
  /\ gen' = "dropped"
  /\ sse' = FALSE
  /\ UNCHANGED <<taskVars, flag, abort, reqVars>>

----------------------------------------------------------------------------
(* The user's other channels *)

\* POST .../correct with correction_type = "abort" (404 without a session).
SubmitAbort ==
  /\ sse /\ ~abort
  /\ abort' = TRUE
  /\ UNCHANGED <<taskVars, flag, streamVars, reqVars>>

\* POST .../cancel: the flag is set first, then the worker is looked up.
Cancel(r) ==
  /\ req[r] = "idle"
  /\ \/ /\ worker
        /\ flag' = TRUE
        /\ cancelReq' = (cancelReq \/ pc # "done")
        /\ req' = [req EXCEPT ![r] = "grace"]
        /\ seenAt' = [seenAt EXCEPT ![r] = pc]
     \/ /\ ~worker /\ sse
        /\ flag' = TRUE
        /\ req' = [req EXCEPT ![r] = "flagOnly"]
        /\ seenAt' = [seenAt EXCEPT ![r] = pc]
        /\ UNCHANGED cancelReq
     \/ /\ ~worker /\ ~sse
        /\ flag' = FALSE
        /\ req' = [req EXCEPT ![r] = "notFound"]
        /\ UNCHANGED <<cancelReq, seenAt>>
  /\ UNCHANGED <<pc, exit, worker, events, closed, trace, history, extracting,
                 abort, streamVars>>

\* Mutant: the endpoint only waits for a task that was still in time.
GraceEndsInTime(r) ==
  /\ req[r] = "grace" /\ pc = "done"
  /\ req' = [req EXCEPT ![r] = "ok"]
  /\ UNCHANGED <<taskVars, flag, abort, streamVars, seenAt>>

\* wait_for(task, agent_cancel_grace_secs) returns when the task has ended.
GraceEnds(r) ==
  /\ req[r] \in {"grace", "graceOver"} /\ pc = "done"
  /\ req' = [req EXCEPT ![r] = "ok"]
  /\ UNCHANGED <<taskVars, flag, abort, streamVars, seenAt>>

\* On timeout wait_for cancels the task once more and waits for its end.
GraceTimeout(r) ==
  /\ req[r] = "grace" /\ pc # "done"
  /\ req' = [req EXCEPT ![r] = "graceOver"]
  /\ cancelReq' = TRUE
  /\ UNCHANGED <<pc, exit, worker, events, closed, trace, history, extracting,
                 flag, abort, streamVars, seenAt>>

----------------------------------------------------------------------------

TaskStep ==
  \/ TaskStart \/ LoopReturn \/ LoopRaise \/ LoopCancelled \/ CleanupEnds
  \/ FlushDone \/ FinallyCancelled \/ PersistDone
  \/ HistoryCommitted \/ HistoryFails \/ HistoryCancelled \/ AnswerSent
  \/ CancelHistoryDone \/ CancelHistoryCancelled

Next ==
  \/ LoadDone \/ LoadFails \/ TaskStep \/ CancelSwallowed
  \/ GenYield \/ GenSent \/ GenEnd \/ DisconnectAtYield \/ DisconnectAtGet
  \/ SubmitAbort
  \/ \E r \in Requests : Cancel(r) \/ GraceEnds(r) \/ GraceTimeout(r)

Spec == Init /\ [][Next]_vars

\* The event loop resumes what is ready: the task (the iteration cap ends the
\* agent loop), the generator, and the requests waiting for the task.  A send
\* completes or the connection breaks.  GenEnd is strongly fair because the
\* queue holds finitely many events before the sentinel, and a keepalive is
\* only sent when it is empty.  Users and clients owe nothing.
FairSpec ==
  /\ Spec
  /\ WF_vars(TaskStep)
  /\ WF_vars(GenSent)
  /\ SF_vars(GenEnd)
  /\ \A r \in Requests : WF_vars(GraceEnds(r))

----------------------------------------------------------------------------
(* Properties *)

\* The shape of the state.
TypeOK ==
  /\ pc \in Stages
  /\ exit \in {"none", "completed", "failed", "raised", "cancelled"}
  /\ cancelReq \in BOOLEAN
  /\ worker \in BOOLEAN
  /\ flag \in BOOLEAN
  /\ abort \in BOOLEAN
  /\ sse \in BOOLEAN
  /\ gen \in {"none", "waiting", "yielding", "closed", "aborted", "dropped"}
  /\ events \subseteq {"agent_started", "agent_finished"} \cup Terminal
  /\ closed \in BOOLEAN
  /\ trace \in {"none", "completed", "failed", "cancelled"}
  /\ history \subseteq {"answer", "cancelled"}
  /\ extracting \in BOOLEAN
  /\ req \in [Requests -> {"idle", "grace", "graceOver", "flagOnly", "notFound", "ok"}]
  /\ seenAt \in [Requests -> Stages \cup {"none"}]

\* As long as run_agent_loop is on the stack, its finally block included, the
\* cancel endpoint can find the task.
RunningIsRegistered == pc \in InLoop => worker

\* A cancel request acknowledged before the task began to write its answer wins
\* over every later step, even if its CancelledError is swallowed, arrives in a
\* finally block, or finds no worker yet: no answer is stored or shown, and no
\* knowledge is extracted from the conversation.
EarlyCancelWins ==
  (\E r \in Requests : seenAt[r] \in Early) =>
     /\ "answer" \notin history
     /\ "final_answer" \notin events
     /\ ~extracting

\* The stream carries at most one outcome, and it agrees with the history: an
\* answer shown is stored, a cancellation shown excludes a stored answer.
OutcomeAgrees ==
  /\ \A e, f \in events \cap Terminal : e = f
  /\ "final_answer" \in events => history = {"answer"}
  /\ "cancelled" \in events => "answer" \notin history

\* Two assistant rows for one question, an answer and a cancellation, can only
\* come from a client that left while the answer was being committed: no
\* sequence of cancel requests produces them.
DoubleRecordNeedsDisconnect ==
  history = {"answer", "cancelled"} => gen = "aborted"

\* A stream that ends without final_answer, cancelled or error was interrupted
\* by somebody: the code on its own always tells the client how it ended.
NoSilentEnd ==
  closed /\ events \cap Terminal = {} =>
    gen = "aborted" \/ \E r \in Requests : req[r] # "idle"

\* A started query ends: its task finishes, its generator closes and its SSE
\* session is deregistered, whatever is cancelled and whoever leaves.
StreamEnds ==
  pc = "created" ~> (pc = "done" /\ ~sse /\ gen \in {"closed", "aborted", "dropped"})

\* A cancel request is answered: waiting for the task never hangs.
CancelAnswered ==
  \A r \in Requests : req[r] # "idle" ~> req[r] \in {"ok", "flagOnly", "notFound"}

\* What the module docstring of agent_loop.py claims of its finally block: the
\* registry entry goes away however the run ends.
WorkerReleased == pc = "done" => ~worker

----------------------------------------------------------------------------
(* What a query promises *)

Dropping == exit = "cancelled" \/ pc = "cancelHistory"
Phase ==
  IF pc \in {"loadFailed", "done"} THEN (IF pc = "done" THEN "over" ELSE "refused")
  ELSE IF pc \in {"history", "refresh"} THEN "answering"
  ELSE IF Dropping THEN "dropping" ELSE "open"
Interferers ==
  {w \in {"request", "client"} :
     IF w = "client" THEN gen = "aborted" ELSE \E r \in Requests : req[r] # "idle"}

Promise == INSTANCE Verdict WITH
  phase  <- Phase,
  told   <- events \cap Terminal,
  stored <- history,
  learnt <- extracting,
  inTime <- \E r \in Requests : seenAt[r] \in Early,
  by     <- Interferers

\* However cancellations, commits and disconnects meet, there is one verdict on a
\* query: whether it is answered is decided once and not against a cancel request
\* in time, an answer is stored before it is told and taken back by nobody, and
\* the code alone does not give up in silence.
KeepsPromise == Promise!Spec

============================================================================
