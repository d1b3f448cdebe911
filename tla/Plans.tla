------------------------------- MODULE Plans -------------------------------
(***************************************************************************)
(* Query plans: the answer of the planner is parsed (plan_generator.py),   *)
(* the agent hands a plan - that one or another - to execute_plan_tool,    *)
(* and the executor (plan_executor.py) checks the references between steps *)
(* and runs the steps one after the other through the drivers, which cap   *)
(* the rows of every query (drivers/_sql_base.py, drivers/mongo.py).       *)
(*                                                                         *)
(* A step is [idx, db, known, refs, exports, uses, mid, tail]: whether its *)
(* datasource exists, the variables it refers to, what it uses of what     *)
(* a datasource may not support, and its row limits (0: none), within the  *)
(* pipeline and at its end.  A reference is [to, var, whole]: the step and *)
(* the variable, and whether it is a string of its own.                    *)
(***************************************************************************)
EXTENDS Integers, Sequences, FiniteSets, SequencesExt

CONSTANTS
  RawPlans,      \* answers of the planner
  AgentPlans,    \* plans the agent may make up or change, sequences of steps
  Caps,          \* restrictions of the document datasources
  Detected,      \* restrictions the executor has a detector for
  DefaultLimit,  \* settings.default_limit
  HardCeiling,   \* settings.hard_ceiling
  MaxRows        \* the most rows a query without row limit yields

PlanStep ==
  [idx : Int, db : STRING, known : BOOLEAN, exports : SUBSET STRING, uses : SUBSET STRING,
   refs : SUBSET [to : Int, var : STRING, whole : BOOLEAN], mid : Nat, tail : Nat]

VARIABLES
  phase,    \* "idle", "planned", "running", "counting", "done", "failed"
  plan,     \* the steps, in the order they are run in
  parsed,   \* the plan is the one _parse_plan returned
  at,       \* the step to run next, a position in plan
  prev,     \* exports of the steps run so far, by step_idx
  results,  \* [rows, all, truncated, total, lowered] by step_idx; all: what there was,
            \* lowered: a row limit within the query was not left as it is
  ran,      \* history: the step_idx run, in order
  why       \* why the plan failed

vars == <<phase, plan, parsed, at, prev, results, ran, why>>

Empty == [i \in {} |-> {}]
Init ==
  /\ phase = "idle" /\ plan = <<>> /\ parsed = FALSE /\ at = 1
  /\ prev = Empty /\ results = Empty /\ ran = <<>> /\ why = "none"

Fail(cause) == phase' = "failed" /\ why' = cause

----------------------------------------------------------------------------
(* plan_generator._parse_plan.  An answer is [strategy, steps], its steps   *)
(* [dict, fit, step]: whether it is a dictionary, whether type, operation,  *)
(* names and query pass the checks of the single step.                      *)

Dicts(raw) == {i \in DOMAIN raw.steps : raw.steps[i].dict}

\* Mutant: steps are run in the order of the answer.
TakeUnsorted(raw) == LET steps == SelectSeq(raw.steps, LAMBDA s : s.dict) IN
                     [i \in DOMAIN steps |-> steps[i].step]

\* Sorted by index: what is well-formed is numbered from 1 on.
Taken(raw) ==
  [k \in 1..Cardinality(Dicts(raw)) |->
     raw.steps[CHOOSE i \in Dicts(raw) : raw.steps[i].step.idx = k].step]

WellFormed(raw) ==
  /\ raw.strategy \in {"single_aggregate", "multi_step"}
  /\ raw.steps # <<>>
  /\ \A i \in Dicts(raw) : raw.steps[i].fit
  /\ {raw.steps[i].step.idx : i \in Dicts(raw)} = 1..Cardinality(Dicts(raw))
  /\ raw.strategy = "single_aggregate" => Cardinality(Dicts(raw)) <= 1

\* generate_query_plan
Generate(raw) ==
  /\ phase = "idle"
  /\ IF WellFormed(raw)
       THEN phase' = "planned" /\ plan' = Taken(raw) /\ parsed' = TRUE /\ UNCHANGED why
       ELSE Fail("plan") /\ UNCHANGED <<plan, parsed>>
  /\ UNCHANGED <<at, prev, results, ran>>

----------------------------------------------------------------------------
Sql(s)      == s.db = "sql"
Document(s) == s.db = "mongodb"
\* In a document query a token within a longer string stays as it is.
Bound(s)    == {r \in s.refs : Sql(s) \/ r.whole}

\* pre_validate_vars: of steps with the same index the last one counts.
Declared(p, i) == LET S == {k \in DOMAIN p : p[k].idx = i} IN
                  p[CHOOSE k \in S : \A o \in S : o <= k].exports
Valid(p) ==
  \A k \in DOMAIN p : \A r \in Bound(p[k]) :
    /\ r.to < p[k].idx
    /\ \E o \in DOMAIN p : p[o].idx = r.to
    /\ r.var \in Declared(p, r.to)

\* execute_plan_tool, with the plan it generated or any other.
Execute(p) ==
  /\ phase \in {"idle", "planned"}
  /\ p \in AgentPlans \/ (phase = "planned" /\ p = plan)
  /\ parsed' = (phase = "planned" /\ p = plan)
  /\ plan' = p
  /\ IF Valid(p) THEN phase' = "running" /\ UNCHANGED why ELSE Fail("references")
  /\ UNCHANGED <<at, prev, results, ran>>

----------------------------------------------------------------------------
Step == plan[at]
LastIdx == CHOOSE i \in {plan[k].idx : k \in DOMAIN plan} :
          \A k \in DOMAIN plan : plan[k].idx <= i

\* _resolve_vars and _render_sql_vars find every variable.
Resolved(s) == \A r \in Bound(s) : r.to \in DOMAIN prev /\ r.var \in prev[r.to]

\* validate_pipeline_against_caps; what has no detector is left to the driver.
Violates(s) == s.uses \cap Caps \cap Detected # {}

Lesser(a, b) == IF a < b THEN a ELSE b

\* _apply_cap
Cap(n) == IF n = 0 THEN DefaultLimit ELSE Lesser(n, HardCeiling)

\* _apply_mongo_limit takes the last $limit, wherever it stands.  Within the
\* pipeline it does not cut the rows: the stages behind it see fewer documents.
CapsTail(s) == Sql(s) \/ s.tail # 0 \/ s.mid = 0
TailCap(s)  == IF CapsTail(s) THEN Cap(s.tail) ELSE 0
\* What the row count is compared with to suspect that rows are missing.
Applied(s)  == Cap(IF CapsTail(s) THEN s.tail ELSE s.mid)
Lowered(s)  == ~CapsTail(s) /\ s.mid > HardCeiling

\* The step's rows are its exports and, for the last step, the result.
Finish(s, result) ==
  /\ results' = [i \in DOMAIN results \cup {s.idx} |->
                   IF i = s.idx THEN result ELSE results[i]]
  /\ prev' = [i \in DOMAIN prev \cup {s.idx} |-> IF i = s.idx THEN s.exports ELSE prev[i]]
  /\ ran' = Append(ran, s.idx)
  /\ at' = at + 1
  /\ phase' = IF at = Len(plan) THEN "done" ELSE "running"

Refuse(cause) == Fail(cause) /\ UNCHANGED <<plan, parsed, at, prev, results, ran>>

\* A step that does not get as far as its query: its pipeline breaks a
\* restriction, its type or its datasource is unknown, a variable is missing,
\* a statement is nothing but a token, or the driver raises.
StepFails ==
  /\ phase = "running" /\ plan # <<>>
  /\ \/ Document(Step) /\ Resolved(Step) /\ Violates(Step) /\ Refuse("restriction")
     \/ ~Sql(Step) /\ ~Document(Step) /\ Refuse("type")
     \/ ~Step.known /\ Refuse("datasource")
     \/ ~Resolved(Step) /\ Refuse("unresolved")
     \/ Sql(Step) /\ (\E r \in Step.refs : r.whole) /\ Refuse("statement")
     \/ Step.known /\ Resolved(Step) /\ Refuse("driver")

\* all rows the query would yield without the limits of the system, came of
\* them before its end is capped.  A suspected cut of the last step is followed
\* by a count of all.
StepRuns(all, came) ==
  /\ phase = "running" /\ plan # <<>>
  /\ Sql(Step) \/ (Document(Step) /\ ~Violates(Step))
  /\ Step.known /\ Resolved(Step) /\ (Sql(Step) => \A r \in Step.refs : ~r.whole)
  /\ came = all \/ Lowered(Step)
  /\ LET s    == Step
         rows == IF TailCap(s) = 0 THEN came ELSE Lesser(came, TailCap(s))
         cut  == rows >= Applied(s)
         result == [rows |-> rows, all |-> all, truncated |-> cut, total |-> rows,
                    lowered |-> Lowered(s)]
     IN /\ IF s.idx = LastIdx /\ cut
             THEN /\ phase' = "counting"
                  /\ results' = [i \in DOMAIN results \cup {s.idx} |->
                                   IF i = s.idx THEN result ELSE results[i]]
                  /\ UNCHANGED <<prev, ran, at>>
             ELSE Finish(s, result)
  /\ UNCHANGED <<plan, parsed, why>>

\* Mutant: the total is the number of rows that came.
CountShown(ok) ==
  /\ phase = "counting"
  /\ LET r == results[Step.idx] IN
     Finish(Step, IF ok THEN [r EXCEPT !.truncated = r.rows > HardCeiling]
                  ELSE [r EXCEPT !.total = 0])
  /\ UNCHANGED <<plan, parsed, why>>

\* The count is that of the query without its outer limit; if it fails the
\* total is unknown.
Count(ok) ==
  /\ phase = "counting"
  /\ LET r == results[Step.idx] IN
     Finish(Step, IF ok THEN [rows |-> r.rows, all |-> r.all, total |-> r.all,
                              truncated |-> r.all > HardCeiling, lowered |-> r.lowered]
                  ELSE [r EXCEPT !.total = 0])
  /\ UNCHANGED <<plan, parsed, why>>

\* A plan without steps yields no rows.
NoSteps ==
  /\ phase = "running" /\ plan = <<>>
  /\ phase' = "done"
  /\ UNCHANGED <<plan, parsed, at, prev, results, ran, why>>

Next ==
  \/ \E raw \in RawPlans : Generate(raw)
  \/ \E p \in AgentPlans \cup {plan} : Execute(p)
  \/ StepFails
  \/ \E all, came \in 0..MaxRows : StepRuns(all, came)
  \/ \E ok \in BOOLEAN : Count(ok)
  \/ NoSteps

Spec == Init /\ [][Next]_vars

----------------------------------------------------------------------------
Final == results[LastIdx]

\* A plan that _parse_plan returned runs its steps once each in the order of
\* their indices, so no reference that passed the check before the run is
\* without its value in the run, and the rows shown are those of the step that
\* ran last.
ParsedPlansRunInOrder ==
  parsed => /\ why # "unresolved"
            /\ \A i \in DOMAIN ran : ran[i] = i
            /\ phase = "done" => Len(ran) = Len(plan)

\* The executor cannot see that a limit within the query was lowered, unless as
\* many rows as the ceiling came all the same.
Unseen(result) == result.lowered /\ result.rows < HardCeiling

\* A result that lacks rows because there were more of them than may be shown is
\* never passed off as complete: it says so, whichever limit the query carried,
\* and when the rows could be counted it says how many there are.  What a limit
\* lowered within the query keeps from the stages behind it is not told.
CutsAreTold ==
  phase = "done" /\ plan # <<>> /\ ~Unseen(Final) =>
    /\ Final.rows < Final.all /\ Final.all > HardCeiling => Final.truncated
    /\ ~Final.truncated => Final.total = Final.all

============================================================================
