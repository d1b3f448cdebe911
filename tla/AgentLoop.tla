----------------------------- MODULE AgentLoop -----------------------------
(***************************************************************************)
(* The control of run_agent_loop (engine/agent_loop.py) with its sliding   *)
(* window of error classes (engine/tools/error_class.py): which of its     *)
(* stop reasons ends a run, and when it forces a clarification.  What the  *)
(* model and the tools answer is arbitrary.  Cancellation is modelled in   *)
(* QuerySession, the wait for the user in Clarify.                         *)
(***************************************************************************)
EXTENDS Naturals, Sequences, FiniteSets

CONSTANTS
  Classes,         \* normalised error classes
  Keys,            \* (tool name, input hash) pairs
  WindowSize,      \* agent_loop_error_class_window_size
  Threshold,       \* agent_loop_error_class_threshold
  MaxForced,       \* agent_loop_max_forced_clarify_per_class
  DeadLoopWindow,  \* agent_loop_dead_loop_window
  Cap,             \* agent_loop_max_total_iterations
  MaxBatch         \* bound: tool calls the model issues in one turn

\* What Settings validates at start-up.
ASSUME SettingsAssumption ==
  /\ {WindowSize, Threshold, DeadLoopWindow, Cap, MaxBatch} \subseteq Nat \ {0}
  /\ MaxForced \in Nat
  /\ Threshold <= DeadLoopWindow
  /\ Threshold <= WindowSize

\* The words that stand for no class (None, and the marks of a result) are none.
ASSUME ClassesAssumption == Classes \cap {"ok", "none", "progress", "empty"} = {}

VARIABLES
  mode,        \* "think", "clarify" or "stopped"
  iteration,   \* iterations begun
  window,      \* error_window._dq: an error class or "ok" per tool result
  recent,      \* recent_tool_calls, of which only the last entries matter
  forced,      \* forced_clarify_counts
  fired,       \* the class a forced clarification is about
  stop,        \* stop_reason
  hasClarify,  \* clarify_with_user \in tools_registry
  answered,    \* clarifications of a class the user answered (history variable)
  fresh,       \* results of a class since then, up to Threshold (history variable)
  since        \* results since the last answered clarification, up to
               \* DeadLoopWindow (history variable)

vars == <<mode, iteration, window, recent, forced, fired, stop, hasClarify,
          answered, fresh, since>>

\* An error leaves no progress marker; neither does a success without data.
Outcomes == {"progress", "empty"} \cup Classes
Results  == [key : Keys, outcome : Outcomes]
Batches  == UNION {[1..n -> Results] : n \in 1..MaxBatch}

Suffix(s, n) == IF Len(s) <= n THEN s ELSE SubSeq(s, Len(s) - n + 1, Len(s))
AtMost(n, bound) == IF n <= bound THEN n ELSE bound

Init ==
  /\ mode = "think"
  /\ iteration = 1
  /\ window = <<>>
  /\ recent = <<>>
  /\ forced = [c \in Classes |-> 0]
  /\ fired = "none"
  /\ stop = "none"
  /\ hasClarify \in BOOLEAN
  /\ answered = [c \in Classes |-> 0]
  /\ fresh = [c \in Classes |-> 0]
  /\ since = 0

----------------------------------------------------------------------------
(* ErrorClassWindow *)

ClassOf(r) == IF r.outcome \in Classes THEN r.outcome ELSE "ok"

\* record, once per result of the batch.
Record(w, batch) ==
  Suffix(w \o [i \in DOMAIN batch |-> ClassOf(batch[i])], WindowSize)

Count(w, c) == Cardinality({i \in DOMAIN w : w[i] = c})

\* Mutant: only the newest record of the class is removed.
ForgetNewest(w, c) ==
  LET i == CHOOSE k \in DOMAIN w : w[k] = c /\ \A j \in k + 1 .. Len(w) : w[j] # c
  IN SubSeq(w, 1, i - 1) \o SubSeq(w, i + 1, Len(w))

ResetClass(w, c) ==
  LET kept[i \in 0 .. Len(w)] ==
        IF i = 0 THEN <<>>
        ELSE IF w[i] = c THEN kept[i - 1] ELSE Append(kept[i - 1], w[i])
  IN kept[Len(w)]

\* Classes at the threshold, and the one whose first entry is oldest.
Over(w) == {c \in Classes : Count(w, c) >= Threshold}
FirstOver(w) ==
  LET i == CHOOSE k \in DOMAIN w : w[k] \in Over(w) /\ \A j \in 1 .. k - 1 : w[j] \notin Over(w)
  IN w[i]

----------------------------------------------------------------------------
(* Stop signals *)

StopWith(reason) == mode' = "stopped" /\ stop' = reason

\* _loop_stop_signal over the last entries of the history.
SameCall(h)  == \A i \in DOMAIN h : h[i].key = h[1].key
NoMarkers(h) == \A i \in DOMAIN h : h[i].outcome # "progress"
StopSignal(h) ==
  IF Len(h) < DeadLoopWindow THEN "none"
  ELSE IF SameCall(h) THEN "dead_loop"
  ELSE IF NoMarkers(h) THEN "stagnation" ELSE "none"

\* The head of an iteration: the cost cap comes before the model is asked.
CostExhausted ==
  /\ mode = "think" /\ iteration > Cap
  /\ StopWith("cost_exhausted")
  /\ UNCHANGED <<iteration, window, recent, forced, fired, hasClarify, answered, fresh, since>>

\* The model answers without tool calls, or its call times out.
ModelEnds ==
  /\ mode = "think" /\ iteration <= Cap
  /\ \E reason \in {"end_turn", "llm_timeout"} : StopWith(reason)
  /\ UNCHANGED <<iteration, window, recent, forced, fired, hasClarify, answered, fresh, since>>

----------------------------------------------------------------------------
(* An iteration with tool calls *)

\* Mutant: turns that made progress are free.
NextIterationIfIdle(batch) ==
  IF \A i \in DOMAIN batch : batch[i].outcome = "progress" THEN iteration ELSE iteration + 1

NextIteration(batch) == iteration + 1

\* No class is over the threshold, or nobody can be asked.
CheckDeadLoop(h) ==
  IF StopSignal(h) # "none"
    THEN StopWith(StopSignal(h))
    ELSE UNCHANGED <<mode, stop>>

\* Mutant: the limit is compared after counting.
MayForceOnceMore(c) == forced[c] <= MaxForced

MayForce(c) == forced[c] < MaxForced

\* A class over the threshold: ask, give up, or, when the tool is missing,
\* count the attempt and fall through to the dead-loop check.
HandleFired(c, h) ==
  IF ~MayForce(c)
    THEN /\ StopWith("forced_clarify_exhausted")
         /\ fired' = c
         /\ UNCHANGED forced
    ELSE /\ forced' = [forced EXCEPT ![c] = @ + 1]
         /\ IF hasClarify
              THEN mode' = "clarify" /\ fired' = c /\ UNCHANGED stop
              ELSE CheckDeadLoop(h) /\ UNCHANGED fired

\* Mutant: the dead-loop check comes first.
JudgeDeadLoopFirst(w, h) ==
  IF StopSignal(h) # "none" \/ Over(w) = {}
    THEN CheckDeadLoop(h) /\ UNCHANGED <<forced, fired>>
    ELSE HandleFired(FirstOver(w), h)

\* The forced-clarify threshold is judged strictly before the dead loop.
Judge(w, h) ==
  IF Over(w) = {}
    THEN CheckDeadLoop(h) /\ UNCHANGED <<forced, fired>>
    ELSE HandleFired(FirstOver(w), h)

RunTools(batch) ==
  /\ mode = "think" /\ iteration <= Cap
  /\ iteration' = NextIteration(batch)
  /\ window' = Record(window, batch)
  /\ recent' = Suffix(recent \o batch, DeadLoopWindow)
  /\ fresh' = [c \in Classes |->
                 AtMost(fresh[c] + Cardinality({i \in DOMAIN batch : batch[i].outcome = c}),
                        Threshold)]
  /\ since' = AtMost(since + Len(batch), DeadLoopWindow)
  /\ Judge(window', recent')
  /\ UNCHANGED <<hasClarify, answered>>

----------------------------------------------------------------------------
(* The forced clarification *)

\* Mutant: the dead-loop history survives the clarification.
KeepHistory == recent

ClearedHistory == <<>>

ClarifyAnswered ==
  /\ mode = "clarify"
  /\ mode' = "think"
  /\ window' = ResetClass(window, fired)
  /\ recent' = ClearedHistory
  /\ fired' = "none"
  /\ answered' = [answered EXCEPT ![fired] = @ + 1]
  /\ fresh' = [fresh EXCEPT ![fired] = 0]
  /\ since' = 0
  /\ UNCHANGED <<iteration, forced, stop, hasClarify>>

ClarifyTimeout ==
  /\ mode = "clarify"
  /\ StopWith("forced_clarify_timeout")
  /\ UNCHANGED <<iteration, window, recent, forced, fired, hasClarify, answered, fresh, since>>

----------------------------------------------------------------------------

Next ==
  \/ CostExhausted \/ ModelEnds
  \/ \E batch \in Batches : RunTools(batch)
  \/ ClarifyAnswered \/ ClarifyTimeout

Spec == Init /\ [][Next]_vars

\* The model and the tools answer or time out, and so does the user (CallEnds
\* of Clarify); which of them happens is not constrained.
FairSpec == Spec /\ WF_vars(Next)

----------------------------------------------------------------------------
(* Properties *)

\* The shape of the state.
TypeOK ==
  /\ mode \in {"think", "clarify", "stopped"}
  /\ iteration \in 1 .. Cap + 1
  /\ window \in UNION {[1..n -> Classes \cup {"ok"}] : n \in 0..WindowSize}
  /\ recent \in UNION {[1..n -> Results] : n \in 0..DeadLoopWindow}
  /\ forced \in [Classes -> 0..MaxForced]
  /\ fired \in Classes \cup {"none"}
  /\ stop \in {"none", "cost_exhausted", "end_turn", "llm_timeout", "dead_loop",
               "stagnation", "forced_clarify_exhausted", "forced_clarify_timeout"}
  /\ hasClarify \in BOOLEAN
  /\ answered \in [Classes -> 0..MaxForced]
  /\ fresh \in [Classes -> 0..Threshold]
  /\ since \in 0..DeadLoopWindow

\* The "first move" invariant Settings is validated for: repeated errors reach
\* the user before the dead-loop and stagnation checks end the run.  (It needs
\* a dead-loop window no longer than the error window, as configured.)
ErrorsReachUserFirst ==
  hasClarify /\ DeadLoopWindow <= WindowSize /\ stop \in {"dead_loop", "stagnation"}
    => \A c \in Classes : Cardinality({i \in DOMAIN recent : recent[i].outcome = c}) < Threshold

\* A class is brought to the user again only after Threshold new errors of it:
\* the answered clarification wiped its record from the window.
ClarifyNeedsFreshErrors == mode = "clarify" => fresh[fired] >= Threshold

\* Giving up on a class is the last resort: the user answered every
\* clarification it is entitled to, and the errors came back.
ExhaustedAfterAnswers ==
  hasClarify /\ stop = "forced_clarify_exhausted" =>
    answered[fired] = MaxForced /\ fresh[fired] >= Threshold

\* An answered clarification gives the run a full dead-loop window of new
\* results: repetitions from before the answer never count against it.
FullWindowAfterAnswer ==
  stop \in {"dead_loop", "stagnation"} => since = DeadLoopWindow

\* Asking the user is worth it: a class comes back only with new errors, is given
\* up only after every answer it is entitled to, and an answer buys a full window
\* of results before the run may be called a dead loop.
AnswersCount == ClarifyNeedsFreshErrors /\ ExhaustedAfterAnswers /\ FullWindowAfterAnswer

\* Every run stops, whatever the model asks for and the tools return.
Terminates == <>(mode = "stopped")

============================================================================
