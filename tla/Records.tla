------------------------------ MODULE Records ------------------------------
(***************************************************************************)
(* What a finished run leaves behind: its trace, its history entry and the *)
(* shares of it; the sessions they belong to; and the refinement of traces *)
(* into proposals (api/session.py, api/share.py, api/agent_traces.py,      *)
(* knowledge/trace_refiner.py, jobs/agent_trace_cleanup.py,                *)
(* api/_session_cleanup.py).                                               *)
(*                                                                         *)
(* A run writes its trace and, in a second transaction, its history entry. *)
(* A refinement reads the traces, waits for the model in a thread, saves   *)
(* each proposal in a transaction of its own and marks the traces last.    *)
(***************************************************************************)
EXTENDS Naturals, FiniteSets

CONSTANTS
  Sessions,     \* sessions rows
  Runs,         \* runs, each the name of its trace, history entry and share
  Refiners,     \* requests to refine traces
  MaxProposals  \* bound: proposals made of one trace

VARIABLES
  sessions,  \* by session: "no", "yes" or "gone"
  runs,      \* [stage, session] by run
  traces,    \* agent_traces.status, or "none", by run
  history,   \* query_history entries
  shares,    \* shared_results by run: "none", "on" or "off"
  refiners,  \* [stage, rows, todo] by request
  proposed,  \* history: how many proposals came of each trace
  contested  \* history: traces two refinements had read, or that one could
             \* not mark because a trace read with them had gone

vars == <<sessions, runs, traces, history, shares, refiners, proposed, contested>>
records == <<traces, history, shares>>

NoReq == [stage |-> "idle", rows |-> {}, todo |-> {}]

Init ==
  /\ sessions = [s \in Sessions |-> "no"]
  /\ runs = [r \in Runs |-> [stage |-> "idle", session |-> {}]]
  /\ traces = [r \in Runs |-> "none"] /\ history = {} /\ shares = [r \in Runs |-> "none"]
  /\ refiners = [f \in Refiners |-> NoReq]
  /\ proposed = [r \in Runs |-> 0] /\ contested = {}

----------------------------------------------------------------------------
(* Runs and sessions *)

\* create_session
CreateSession(s) ==
  /\ sessions[s] = "no"
  /\ sessions' = [sessions EXCEPT ![s] = "yes"]
  /\ UNCHANGED <<runs, records, refiners, proposed, contested>>

\* query_stream takes the session it is given, also one deleted meanwhile.
Begin(r, own) ==
  /\ runs[r].stage = "idle"
  /\ \A s \in own : sessions[s] # "no"
  /\ runs' = [runs EXCEPT ![r] = [stage |-> "running", session |-> own]]
  /\ UNCHANGED <<sessions, records, refiners, proposed, contested>>

\* run_agent_loop commits its trace.
WriteTrace(r, status) ==
  /\ runs[r].stage = "running"
  /\ runs' = [runs EXCEPT ![r].stage = "traced"]
  /\ traces' = [traces EXCEPT ![r] = status]
  /\ UNCHANGED <<sessions, history, shares, refiners, proposed, contested>>

\* _write_query_history, or write_cancelled_history: with the trace if it is
\* still there, a minimal record if not.
WriteHistory(r) ==
  /\ runs[r].stage = "traced"
  /\ runs' = [runs EXCEPT ![r].stage = "ended"]
  /\ history' = history \cup {r}
  /\ UNCHANGED <<sessions, traces, shares, refiners, proposed, contested>>

OfSession(s) == {r \in Runs : runs[r].session = {s}}

\* delete_session: the entries and the traces that bear the session's id go
\* with it, the shares with the entries.
DeleteSession(s) ==
  /\ sessions[s] = "yes"
  /\ sessions' = [sessions EXCEPT ![s] = "gone"]
  /\ history' = history \ OfSession(s)
  /\ traces' = [r \in Runs |-> IF r \in OfSession(s) THEN "none" ELSE traces[r]]
  /\ shares' = [r \in Runs |-> IF r \in OfSession(s) \cap history THEN "none" ELSE shares[r]]
  /\ UNCHANGED <<runs, refiners, proposed, contested>>

\* cleanup_once, for a trace past agent_trace_retention_days
Expire(r) ==
  /\ traces[r] # "none"
  /\ traces' = [traces EXCEPT ![r] = "none"]
  /\ UNCHANGED <<sessions, runs, history, shares, refiners, proposed, contested>>

----------------------------------------------------------------------------
(* Shares: create_share, deactivate_share *)

Share(r) ==
  /\ r \in history /\ shares[r] # "on"
  /\ shares' = [shares EXCEPT ![r] = "on"]
  /\ UNCHANGED <<sessions, runs, traces, history, refiners, proposed, contested>>

Unshare(r) ==
  /\ shares[r] = "on"
  /\ shares' = [shares EXCEPT ![r] = "off"]
  /\ UNCHANGED <<sessions, runs, traces, history, refiners, proposed, contested>>

----------------------------------------------------------------------------
(* refine_traces_endpoint *)

\* Mutant: traces are read whatever their status.
ReadAll(f, asked) ==
  LET found == {r \in asked : traces[r] # "none"} IN
  /\ refiners[f].stage = "idle" /\ found # {}
  /\ refiners' = [refiners EXCEPT ![f] = [stage |-> "asked", rows |-> found, todo |-> {}]]
  /\ contested' = contested \cup {r \in found : \E g \in Refiners : r \in refiners[g].rows}
  /\ UNCHANGED <<sessions, runs, records, proposed>>

\* Completed traces only; none, and the request is over.
Read(f, asked) ==
  LET found == {r \in asked : traces[r] = "completed"} IN
  /\ refiners[f].stage = "idle" /\ found # {}
  /\ refiners' = [refiners EXCEPT ![f] = [stage |-> "asked", rows |-> found, todo |-> {}]]
  /\ contested' = contested \cup {r \in found : \E g \in Refiners : r \in refiners[g].rows}
  /\ UNCHANGED <<sessions, runs, records, proposed>>

\* refine_traces: the proposals by the trace they name; none of a failed call.
Answer(f, found) ==
  /\ refiners[f].stage = "asked" /\ found \subseteq refiners[f].rows
  /\ refiners' = [refiners EXCEPT ![f].stage = "saving", ![f].todo = found]
  /\ UNCHANGED <<sessions, runs, records, proposed, contested>>

\* save_knowledge commits a proposal, refuses it or raises; the loop goes on.
Save(f, r, saved) ==
  /\ refiners[f].stage = "saving" /\ r \in refiners[f].todo
  /\ refiners' = [refiners EXCEPT ![f].todo = @ \ {r}]
  /\ saved => proposed[r] < MaxProposals
  /\ proposed' = IF saved THEN [proposed EXCEPT ![r] = @ + 1] ELSE proposed
  /\ UNCHANGED <<sessions, runs, records, contested>>

\* The last commit.  An UPDATE of a row that has gone raises StaleDataError and
\* nothing is marked, unless it went in a batch whose rows are not counted.
Mark(f, counted) ==
  LET rows == refiners[f].rows
      left == {r \in rows : traces[r] # "none"}
      ok   == (left = rows) \/ (Cardinality(rows) > 1 /\ ~counted) IN
  /\ refiners[f].stage = "saving" /\ refiners[f].todo = {}
  /\ traces' = [r \in Runs |-> IF ok /\ r \in left THEN "refined" ELSE traces[r]]
  /\ contested' = IF ok THEN contested ELSE contested \cup rows
  /\ refiners' = [refiners EXCEPT ![f] = NoReq]
  /\ UNCHANGED <<sessions, runs, history, shares, proposed>>

----------------------------------------------------------------------------

Next ==
  \/ \E s \in Sessions : CreateSession(s)
  \/ \E r \in Runs, own \in {{}} \cup {{s} : s \in Sessions} : Begin(r, own)
  \/ \E r \in Runs, status \in {"completed", "cancelled", "failed"} : WriteTrace(r, status)
  \/ \E r \in Runs : WriteHistory(r)
  \/ \E s \in Sessions : DeleteSession(s)
  \/ \E r \in Runs : Expire(r)
  \/ \E r \in Runs : Share(r)
  \/ \E r \in Runs : Unshare(r)
  \/ \E f \in Refiners, asked \in SUBSET Runs : Read(f, asked)
  \/ \E f \in Refiners, found \in SUBSET Runs : Answer(f, found)
  \/ \E f \in Refiners, r \in Runs, saved \in BOOLEAN : Save(f, r, saved)
  \/ \E f \in Refiners, counted \in BOOLEAN : Mark(f, counted)

Spec == Init /\ [][Next]_vars

----------------------------------------------------------------------------
(* Properties *)

\* A trace yields its proposals once: the next refinement no longer reads it
\* (AgentTrace.status == "completed"), except where two requests had read it
\* together or the first could not mark it.
RefinedOnce == \A r \in Runs \ contested : proposed[r] <= 1
=============================================================================
