----------------------------- MODULE Extraction -----------------------------
(***************************************************************************)
(* What a repository's code is read with: the explorer, the split of its   *)
(* files into work units, the agents that read them side by side, and the  *)
(* merge of what they found (knowledge/skeleton, extraction_agent.py and   *)
(* the status guard of trainer.py).                                        *)
(*                                                                         *)
(* A tool call is a pair of its signature (name and input) and how it      *)
(* ends.  The window of recent calls is kept as its last call and how      *)
(* often that one was repeated.                                            *)
(***************************************************************************)
EXTENDS Naturals, FiniteSets, SequencesExt

CONSTANTS
  MaxFiles,    \* bound: files the explorer can name
  UnitSize,    \* settings.agentic_extract_max_work_unit_size
  Slots,       \* settings.agentic_extract_subagent_concurrency
  MaxRounds,   \* settings.agentic_extract_max_iterations
  Window,      \* agentic_extract_dead_loop_window, DEAD_LOOP_WINDOW
  MaxBatch     \* bound: tool calls in one reply of the model

VARIABLES
  stage,    \* "scan", "explore", "single", "many", "merged" or "done"
  files,    \* focus_files, in order
  window,   \* the explorer's latest tool calls
  agents,   \* [stage, rounds, window, found, end] by work unit
  result,   \* status and objects of the extraction
  written   \* what goes on to the candidates and proposals

vars == <<stage, files, window, agents, result, written>>

ToolCalls == {"read", "object", "knowledge"} \X {"ok", "error"}
Batches == UNION {[1..n -> ToolCalls] : n \in 1..MaxBatch}
NoCalls == [call |-> <<"none", "ok">>, times |-> 0]
Unit    == 1..MaxFiles
NoAgent == [stage |-> "none", rounds |-> 0, window |-> NoCalls, found |-> {}, end |-> "none"]

Init ==
  /\ stage = "scan" /\ files = 0 /\ window = NoCalls
  /\ agents = [u \in Unit |-> NoAgent]
  /\ result = [status |-> "none", found |-> {}] /\ written = {}

\* The window after one more call; more than Window repetitions look the same.
Seen(w, call) ==
  [call |-> call,
   times |-> IF w.call = call /\ w.times < Window THEN w.times + 1
             ELSE IF w.call = call THEN Window ELSE 1]

DeadLoop(w) == w.times >= Window

----------------------------------------------------------------------------
(* The explorer and the split *)

\* scan_skeleton; when it raises, one agent reads the whole repository.
Scan(works) ==
  /\ stage = "scan"
  /\ stage' = IF works THEN "explore" ELSE "single"
  /\ agents' = IF works THEN agents ELSE [agents EXCEPT ![1].stage = "running"]
  /\ UNCHANGED <<files, window, result, written>>

\* Mutant: the last, shorter chunk is left out.
UnitsFloor(n) == {u \in Unit : u * UnitSize <= n}

\* split_file_list
Units(n) == {u \in Unit : (u - 1) * UnitSize < n}
Chunk(n, u) == {f \in 1..n : (u - 1) * UnitSize < f /\ f <= u * UnitSize}

\* One agent when there is nothing to divide.
Explored(n) ==
  LET units == Units(n) IN
  /\ files' = n /\ window' = NoCalls
  /\ stage' = IF Cardinality(units) <= 1 THEN "single" ELSE "many"
  /\ agents' = IF Cardinality(units) <= 1 THEN [agents EXCEPT ![1].stage = "running"]
               ELSE [u \in Unit |-> IF u \in units THEN [NoAgent EXCEPT !.stage = "queued"] ELSE NoAgent]
  /\ UNCHANGED <<result, written>>

\* explore_repo looks at its window only after all calls of a reply; a failed
\* call, an empty reply, a dead loop and unreadable JSON all name no files.  It
\* does not look at how a call ends.
Explore(calls) ==
  LET w == FoldLeft(Seen, window, [i \in DOMAIN calls |-> <<calls[i][1], "ok">>]) IN
  /\ stage = "explore"
  /\ IF DeadLoop(w) THEN Explored(0)
     ELSE window' = w /\ UNCHANGED <<stage, files, agents, result, written>>

ExploreEnds(n) == stage = "explore" /\ Explored(n)

----------------------------------------------------------------------------
(* The agents: run_extraction_agent *)

Running == {u \in Unit : agents[u].stage = "running"}

\* The semaphore of orchestrated_extraction
Enter(u) ==
  /\ stage = "many" /\ agents[u].stage = "queued" /\ Cardinality(Running) < Slots
  /\ agents' = [agents EXCEPT ![u].stage = "running"]
  /\ UNCHANGED <<stage, files, window, result, written>>

Gone(a, end) ==
  [stage |-> "ended", rounds |-> a.rounds + 1, window |-> NoCalls, found |-> a.found, end |-> end]

Leave(u, end) ==
  /\ agents' = [agents EXCEPT ![u] = Gone(@, end)]
  /\ UNCHANGED <<stage, files, window, result, written>>

\* chat_completion_with_tools raises.
CallFails(u) == u \in Running /\ Leave(u, "llm_call_failed")

\* A reply without tool calls: in the last round it counts as the cap.
Stops(u) ==
  /\ u \in Running
  /\ Leave(u, IF agents[u].rounds + 1 >= MaxRounds THEN "iteration_cap" ELSE "")

\* One call after the other; nothing is run after a dead loop.
Did(s, call) ==
  IF DeadLoop(s.window) THEN s
  ELSE [window |-> Seen(s.window, call),
        found  |-> IF call[2] = "ok" THEN s.found \cup ({call[1]} \ {"read"}) ELSE s.found]

\* The tool calls of one reply.
Round(u, calls) ==
  LET a == agents[u]
      s == FoldLeft(Did, [window |-> a.window, found |-> a.found], calls)
      ends == DeadLoop(s.window) \/ a.rounds + 1 >= MaxRounds IN
  /\ u \in Running
  /\ agents' = [agents EXCEPT ![u] =
       [stage  |-> IF ends THEN "ended" ELSE "running", rounds |-> a.rounds + 1,
        window |-> IF ends THEN NoCalls ELSE s.window, found |-> s.found,
        end    |-> IF DeadLoop(s.window) THEN "dead_loop"
                   ELSE IF ends THEN "iteration_cap" ELSE a.end]]
  /\ UNCHANGED <<stage, files, window, result, written>>

\* An exception in an agent ends that one agent, or the whole parse when it
\* is the only one.
Crash(u) ==
  /\ u \in Running
  /\ IF stage = "many" THEN Leave(u, "exception")
     ELSE /\ stage' = "done" /\ agents' = [agents EXCEPT ![u] = Gone(@, "exception")]
          /\ UNCHANGED <<files, window, result, written>>

----------------------------------------------------------------------------
(* The results *)

StatusOf(end) ==
  CASE end = "" -> "ok"
    [] end \in {"exception", "llm_call_failed"} -> "failed"
    [] OTHER -> "partial"

Ended == {u \in Unit : agents[u].stage = "ended"}
Found(u) == {u} \X (IF agents[u].end = "exception" THEN {} ELSE agents[u].found)
Objects(found) == {f \in found : f[2] = "object"}

\* Mutant: one failed agent fails the extraction.
MergedStrictly(found, statuses) ==
  IF "failed" \in statuses THEN "failed"
  ELSE IF "partial" \in statuses THEN "partial" ELSE "ok"

\* merge_results: objects in hand make a failure a partial result.
Merged(found, statuses) ==
  IF "failed" \in statuses THEN IF Objects(found) = {} THEN "failed" ELSE "partial"
  ELSE IF "partial" \in statuses THEN "partial" ELSE "ok"

\* The result of the only agent is taken as it is.
Merge ==
  LET statuses == {StatusOf(agents[u].end) : u \in Ended}
      found    == UNION {Found(u) : u \in Ended} IN
  /\ stage \in {"single", "many"} /\ Ended # {}
  /\ \A u \in Unit : agents[u].stage \in {"ended", "none"}
  /\ result' = [status |-> IF stage = "single" THEN StatusOf(agents[1].end)
                           ELSE Merged(found, statuses),
                found |-> found]
  /\ stage' = "merged"
  /\ UNCHANGED <<files, window, agents, written>>

\* Step 3a of the training: a failed extraction ends the parse, a partial one
\* is put on record and used.
Guard ==
  /\ stage = "merged"
  /\ stage' = "done"
  /\ written' = IF result.status = "failed" THEN {} ELSE result.found
  /\ UNCHANGED <<files, window, agents, result>>

----------------------------------------------------------------------------

Next ==
  \/ \E works \in BOOLEAN : Scan(works)
  \/ \E calls \in Batches : Explore(calls)
  \/ \E n \in 0..MaxFiles : ExploreEnds(n)
  \/ \E u \in Unit : Enter(u)
  \/ \E u \in Unit : CallFails(u)
  \/ \E u \in Unit : Stops(u)
  \/ \E u \in Unit, calls \in Batches : Round(u, calls)
  \/ \E u \in Unit : Crash(u)
  \/ Merge
  \/ Guard

Spec == Init /\ [][Next]_vars

----------------------------------------------------------------------------
(* Properties *)

Fanned == Cardinality(Ended) > 1

\* An extraction that calls itself "ok" is complete: every file the explorer
\* named was in the hands of an agent that stopped by itself, and everything
\* the agents found goes on (status of ExtractionResult, merge_results).
OkIsComplete ==
  stage = "done" /\ result.status = "ok" =>
    /\ \A f \in 1..files : \E u \in Ended : f \in Chunk(files, u) /\ agents[u].end = ""
    /\ written = UNION {{u} \X agents[u].found : u \in Ended}

\* An agent that fails takes nothing away from the others: the objects of
\* every agent that returned are written ("exception-isolated" of
\* orchestrator.py).
OthersAreKept ==
  stage = "done" /\ Fanned =>
    \A u \in Ended : agents[u].end # "exception" => Objects({u} \X agents[u].found) \subseteq written
=============================================================================
