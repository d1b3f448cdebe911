------------------------------ MODULE Clarify ------------------------------
(***************************************************************************)
(* The rendezvous between a clarify_with_user tool call and the user's     *)
(* answer: engine/tools/interaction_tools.py, the clarify_response         *)
(* endpoint of api/query.py, engine/pending_cleanup.py, and the            *)
(* _abandon_pending step of the agent loop.                                *)
(*                                                                         *)
(* Everything between two awaits of a coroutine is one action.  An answer  *)
(* is represented by the POST that carries it: the text is irrelevant, the *)
(* card it was written for is not.                                         *)
(***************************************************************************)

CONSTANTS
  Traces,      \* agent runs; the registries are keyed by trace_id
  Calls,       \* invocations of clarify_with_user; a call owns one row (card)
  Posts,       \* POST .../clarify_response requests
  TraceOf,     \* the trace of every call
  NoCall,      \* an absent registry entry
  NoPost       \* an absent answer

ASSUME TraceOfAssumption == TraceOf \in [Calls -> Traces]
ASSUME NoneAssumption == NoCall \notin Calls /\ NoPost \notin Posts

VARIABLES
  call,      \* control state of each clarify_with_user coroutine
  result,    \* the answer each call returned, NoPost if none
  row,       \* pending_clarifications row of each call, as committed
  expired,   \* calls whose row's expires_at has passed
  events,    \* _pending_events: trace -> the call that owns the Event
  isSet,     \* the calls whose asyncio.Event is set
  answers,   \* _pending_answers: trace -> answer
  postPc,    \* control state of each POST
  postCard,  \* the card (pending_id) each POST answers
  agent,     \* the run that issues the calls
  overlapped, \* history: runs that had two clarifications in flight at once
  unabandoned \* history: runs that stopped without their clean-up

vars == <<call, result, row, expired, events, isSet, answers,
          postPc, postCard, agent, overlapped, unabandoned>>
callVars == <<call, result, events, isSet, answers>>
postVars == <<postPc, postCard>>

Active == {"flushing", "committed", "waiting"}
Ended  == {"answered", "timeout", "cancelled", "failed"}

Init ==
  /\ call = [c \in Calls |-> "idle"]
  /\ result = [c \in Calls |-> NoPost]
  /\ row = [c \in Calls |-> "none"]
  /\ expired = {}
  /\ events = [t \in Traces |-> NoCall]
  /\ isSet = {}
  /\ answers = [t \in Traces |-> NoPost]
  /\ postPc = [p \in Posts |-> "idle"]
  /\ postCard = [p \in Posts |-> NoCall]
  /\ agent = [t \in Traces |-> "running"]
  /\ overlapped = {}
  /\ unabandoned = {}

----------------------------------------------------------------------------
(* clarify_with_user *)

\* The Event is registered, then the coroutine suspends in flush and commit.
Start(c) ==
  /\ call[c] = "idle"
  /\ agent[TraceOf[c]] = "running"
  /\ call' = [call EXCEPT ![c] = "flushing"]
  /\ events' = [events EXCEPT ![TraceOf[c]] = c]
  /\ overlapped' = IF \E d \in Calls : TraceOf[d] = TraceOf[c] /\ call[d] \in Active
                     THEN overlapped \cup {TraceOf[c]} ELSE overlapped
  /\ UNCHANGED <<result, row, expired, isSet, answers, postVars, agent, unabandoned>>

\* The row is visible to other sessions before the coroutine resumes.
Commit(c) ==
  /\ call[c] = "flushing"
  /\ call' = [call EXCEPT ![c] = "committed"]
  /\ row' = [row EXCEPT ![c] = "pending"]
  /\ UNCHANGED <<result, expired, events, isSet, answers, postVars, agent, overlapped, unabandoned>>

\* Mutant: the Event is created after the commit and the fast path is missing.
ShowRegistersLate(c) ==
  /\ call[c] = "committed"
  /\ call' = [call EXCEPT ![c] = "waiting"]
  /\ isSet' = isSet \ {c}
  /\ UNCHANGED <<result, row, expired, events, answers, postVars, agent, overlapped, unabandoned>>

\* emit clarify_request, take the fast path, suspend in wait_for.
Show(c) ==
  /\ call[c] = "committed"
  /\ call' = [call EXCEPT ![c] = "waiting"]
  /\ isSet' = IF answers[TraceOf[c]] # NoPost THEN isSet \cup {c} ELSE isSet
  /\ UNCHANGED <<result, row, expired, events, answers, postVars, agent, overlapped, unabandoned>>

\* Mutant: a finally block that clears only one of the two registries.
PopEventOnly(t) ==
  /\ events' = [events EXCEPT ![t] = NoCall]
  /\ UNCHANGED answers

\* The finally block: both registries lose the trace's entry.
PopRegistries(t) ==
  /\ events' = [events EXCEPT ![t] = NoCall]
  /\ answers' = [answers EXCEPT ![t] = NoPost]

\* flush or commit raises.
FailDb(c) ==
  /\ call[c] = "flushing"
  /\ call' = [call EXCEPT ![c] = "failed"]
  /\ PopRegistries(TraceOf[c])
  /\ UNCHANGED <<result, row, expired, isSet, postVars, agent, overlapped, unabandoned>>

\* The Event is set: read the answer, then clean up.
Wake(c) ==
  /\ call[c] = "waiting"
  /\ c \in isSet
  /\ call' = [call EXCEPT ![c] = "answered"]
  /\ result' = [result EXCEPT ![c] = answers[TraceOf[c]]]
  /\ PopRegistries(TraceOf[c])
  /\ UNCHANGED <<row, expired, isSet, postVars, agent, overlapped, unabandoned>>

\* Mutant: the timeout only counts while the row can still be read as pending.
TimeoutIfPending(c) ==
  /\ call[c] = "waiting"
  /\ c \in expired
  /\ row[c] = "pending"
  /\ call' = [call EXCEPT ![c] = "timeout"]
  /\ PopRegistries(TraceOf[c])
  /\ UNCHANGED <<result, row, expired, isSet, postVars, agent, overlapped, unabandoned>>

\* wait_for times out.  The wait began after expires_at was computed, so the
\* row has expired by then.  A forced clarification ends the run and abandons
\* its pending rows; one the model asked for hands timeout=True back to it.
Timeout(c) ==
  /\ call[c] = "waiting"
  /\ c \in expired
  /\ call' = [call EXCEPT ![c] = "timeout"]
  /\ PopRegistries(TraceOf[c])
  /\ \E next \in {"running", "cleanup"} : agent' = [agent EXCEPT ![TraceOf[c]] = next]
  /\ UNCHANGED <<result, row, expired, isSet, postVars, overlapped, unabandoned>>

----------------------------------------------------------------------------
(* the run around the calls *)

\* The agent task is cancelled: every call in flight gets CancelledError and
\* runs its finally block; an interrupted commit may or may not have landed.
CancelTrace(t) ==
  LET live == {c \in Calls : TraceOf[c] = t /\ call[c] \in Active}
  IN /\ agent[t] = "running"
     /\ agent' = [agent EXCEPT ![t] = "cleanup"]
     /\ call' = [c \in Calls |-> IF c \in live THEN "cancelled" ELSE call[c]]
     /\ \E landed \in SUBSET {c \in live : call[c] = "flushing"} :
          row' = [c \in Calls |-> IF c \in landed THEN "pending" ELSE row[c]]
     /\ IF live = {} THEN UNCHANGED <<events, answers>> ELSE PopRegistries(t)
     /\ UNCHANGED <<result, expired, isSet, postVars, overlapped, unabandoned>>

\* Mutant: rows past their expiry are left to the cleanup loop.
AbandonUnexpired(t) ==
  /\ agent[t] = "cleanup"
  /\ agent' = [agent EXCEPT ![t] = "stopped"]
  /\ row' = [c \in Calls |-> IF TraceOf[c] = t /\ row[c] = "pending" /\ c \notin expired
                               THEN "abandoned" ELSE row[c]]
  /\ UNCHANGED <<callVars, expired, postVars, overlapped, unabandoned>>

\* _abandon_pending: one UPDATE over the trace's pending rows.
AbandonPending(t) ==
  /\ agent[t] = "cleanup"
  /\ agent' = [agent EXCEPT ![t] = "stopped"]
  /\ row' = [c \in Calls |-> IF TraceOf[c] = t /\ row[c] = "pending"
                               THEN "abandoned" ELSE row[c]]
  /\ UNCHANGED <<callVars, expired, postVars, overlapped, unabandoned>>

\* The UPDATE or its commit raises, which is logged and swallowed, or a second
\* CancelledError arrives before it: the run stops and its rows stay as they are.
AbandonFails(t) ==
  /\ agent[t] = "cleanup"
  /\ agent' = [agent EXCEPT ![t] = "stopped"]
  /\ unabandoned' = unabandoned \cup {t}
  /\ UNCHANGED <<callVars, row, expired, postVars, overlapped>>

----------------------------------------------------------------------------
(* POST .../clarify_response and resolve_pending_clarification *)

RowExists(c) == row[c] \in {"pending", "resolved", "abandoned"}

\* db.get: any existing row will do, whatever its status (404 otherwise).
Load(p, c) ==
  /\ postPc[p] = "idle"
  /\ RowExists(c)
  /\ postPc' = [postPc EXCEPT ![p] = "loaded"]
  /\ postCard' = [postCard EXCEPT ![p] = c]
  /\ UNCHANGED <<callVars, row, expired, agent, overlapped, unabandoned>>

\* status=resolved and commit; the UPDATE of a row deleted meanwhile raises.
Resolve(p) ==
  LET c == postCard[p]
  IN /\ postPc[p] = "loaded"
     /\ IF RowExists(c)
          THEN /\ row' = [row EXCEPT ![c] = "resolved"]
               /\ postPc' = [postPc EXCEPT ![p] = "committed"]
          ELSE /\ postPc' = [postPc EXCEPT ![p] = "error"]
               /\ UNCHANGED row
     /\ UNCHANGED <<callVars, expired, postCard, agent, overlapped, unabandoned>>

\* After the commit: store the answer under the row's trace, wake its Event.
Deliver(p) ==
  LET t == TraceOf[postCard[p]]
  IN /\ postPc[p] = "committed"
     /\ postPc' = [postPc EXCEPT ![p] = "done"]
     /\ answers' = [answers EXCEPT ![t] = p]
     /\ isSet' = IF events[t] # NoCall THEN isSet \cup {events[t]} ELSE isSet
     /\ UNCHANGED <<call, result, row, expired, events, postCard, agent, overlapped, unabandoned>>

----------------------------------------------------------------------------
(* time and the cleanup loop *)

Expire(c) ==
  /\ row[c] # "none"
  /\ c \notin expired
  /\ expired' = expired \cup {c}
  /\ UNCHANGED <<callVars, row, postVars, agent, overlapped, unabandoned>>

\* Mutant: the cards of runs that go on are left alone.
CleanupOfStopped ==
  LET due == {c \in expired : RowExists(c) /\ agent[TraceOf[c]] = "stopped"}
  IN /\ due # {}
     /\ row' = [c \in Calls |-> IF c \in due THEN "deleted" ELSE row[c]]
     /\ UNCHANGED <<callVars, expired, postVars, agent, overlapped, unabandoned>>

\* _cleanup_once deletes expired rows whatever their status.
CleanupOnce ==
  /\ \E c \in expired : RowExists(c)
  /\ row' = [c \in Calls |-> IF c \in expired THEN "deleted" ELSE row[c]]
  /\ UNCHANGED <<callVars, expired, postVars, agent, overlapped, unabandoned>>

----------------------------------------------------------------------------

CallStep(c) == Commit(c) \/ Show(c) \/ Wake(c) \/ Timeout(c)

Next ==
  \/ \E c \in Calls : Start(c) \/ FailDb(c) \/ CallStep(c) \/ Expire(c)
  \/ \E t \in Traces : CancelTrace(t) \/ AbandonPending(t) \/ AbandonFails(t)
  \/ \E p \in Posts : (\E c \in Calls : Load(p, c)) \/ Resolve(p) \/ Deliver(p)
  \/ CleanupOnce

Spec == Init /\ [][Next]_vars

\* The event loop resumes ready coroutines and time passes, and the cleanup
\* loop goes on after a failing round; nothing forces a user to
\* answer or to cancel, or the agent to ask.
FairSpec ==
  /\ Spec
  /\ \A c \in Calls : WF_vars(CallStep(c)) /\ WF_vars(Expire(c))
  /\ \A p \in Posts : WF_vars(Resolve(p)) /\ WF_vars(Deliver(p))
  /\ \A t \in Traces : WF_vars(AbandonPending(t) \/ AbandonFails(t))
  /\ WF_vars(CleanupOnce)

----------------------------------------------------------------------------
(* Properties *)

\* The shape of the state.
TypeOK ==
  /\ call \in [Calls -> {"idle"} \cup Active \cup Ended]
  /\ result \in [Calls -> Posts \cup {NoPost}]
  /\ row \in [Calls -> {"none", "pending", "resolved", "abandoned", "deleted"}]
  /\ expired \subseteq Calls
  /\ events \in [Traces -> Calls \cup {NoCall}]
  /\ isSet \subseteq Calls
  /\ answers \in [Traces -> Posts \cup {NoPost}]
  /\ postPc \in [Posts -> {"idle", "loaded", "committed", "done", "error"}]
  /\ postCard \in [Posts -> Calls \cup {NoCall}]
  /\ agent \in [Traces -> {"running", "cleanup", "stopped"}]
  /\ overlapped \subseteq Traces
  /\ unabandoned \subseteq Traces

\* A call never returns an answer given to another conversation: the answer
\* is filed under the row's session_id, and so is the waiting call.
TraceIsolation ==
  \A c \in Calls :
    result[c] # NoPost => TraceOf[postCard[result[c]]] = TraceOf[c]

\* One user answer is consumed by at most one call (the finally block takes it
\* out of _pending_answers in the step that reads it).
AnswerConsumedOnce ==
  \A c, d \in Calls : result[c] = result[d] /\ c # d => result[c] = NoPost

\* No lost wake-up: whenever an answer for the trace is stored while its call
\* waits, that call's Event is set, however the commit, the POST and the
\* registration interleave (the "concurrency contract" of clarify_with_user).
\* Two clarifications in flight share one Event entry, and lose wake-ups.
NoLostWakeup ==
  \A c \in Calls : TraceOf[c] \notin overlapped =>
    (call[c] = "waiting" /\ answers[TraceOf[c]] # NoPost => c \in isSet)

\* With one call in flight, a call that reports an answer really has one.
AnsweredHasAnswer ==
  \A c \in Calls : TraceOf[c] \notin overlapped =>
    (call[c] = "answered" => result[c] # NoPost)

\* The Event registry never names a call that has ended, on any exit path.
NoStaleEvent ==
  \A t \in Traces : events[t] # NoCall =>
    /\ TraceOf[events[t]] = t
    /\ call[events[t]] \in Active

\* Once a run has been cancelled (or ended by a forced clarification that
\* timed out) no card of it is left pending, even one whose commit was
\* interrupted, unless its UPDATE failed or was itself cancelled; a second
\* call in flight may still commit its card.
NoPendingAfterStop ==
  \A c \in Calls : TraceOf[c] \notin overlapped \cup unabandoned =>
    (agent[TraceOf[c]] = "stopped" => row[c] # "pending")

\* What _abandon_pending misses (the card of a clarification that timed out
\* in a run that goes on, or of a run that stopped without its clean-up) is
\* not pending for ever: the cleanup loop deletes it once it has expired.
CardsSettle == \A c \in Calls : row[c] = "pending" ~> row[c] # "pending"

\* No call blocks its agent for ever: an answer, the timeout or a failure ends
\* it, even if its row is deleted or its Event was taken over by another call.
CallEnds == \A c \in Calls : call[c] \in Active ~> call[c] \in Ended

\* What the comment on the finally block claims (I2): an answer that arrives
\* after its call timed out does not leak, so every answer a call returns was
\* written for that call's own card (if the run asks one question at a time).
OwnAnswerOnly ==
  \A c \in Calls : TraceOf[c] \notin overlapped =>
    (result[c] # NoPost => postCard[result[c]] = c)

----------------------------------------------------------------------------
(* What the rendezvous promises *)

AskedAs(pc) == IF pc \in Active THEN "open"
               ELSE IF pc \in {"idle", "answered"} THEN pc ELSE "closed"

Promise == INSTANCE Rendezvous WITH
  Answers <- Posts,
  None    <- NoPost,
  asked   <- [c \in Calls |-> AskedAs(call[c])],
  got     <- result,
  held    <- answers,
  given   <- {p \in Posts : postPc[p] = "done"}

\* Whatever the commits, events, timeouts and cancellations do, an answer is
\* lost or taken by one clarification of its own run, and a call is answered
\* for nothing only beside another call of the run.
KeepsPromise == Promise!Spec

============================================================================
