----------------------------- MODULE MCServices -----------------------------
(* A small instance of Services.  Its components share nothing, so that      *)
(* every behaviour explored moves one of them only.                          *)
EXTENDS Services, SequencesExt, TLC

CONSTANTS q1, q2, r1, r2

Symmetry == Permutations({q1, q2}) \cup Permutations({r1, r2})

StepOf(idx, where, refs, mid, tail) ==
  [idx |-> idx, db |-> where, known |-> TRUE, refs |-> refs, exports |-> {"ids"},
   uses |-> {}, mid |-> mid, tail |-> tail]
Ref(to, var, whole) == [to |-> to, var |-> var, whole |-> whole]

MCSteps ==
  {StepOf(1, "sql", {}, 0, n) : n \in {0, 1, 4}}
  \cup {StepOf(2, where, {Ref(1, var, where = "mongodb")}, 0, 4) :
          where \in {"sql", "mongodb"}, var \in {"ids", "other"}}
  \cup {StepOf(2, "mongodb", {Ref(to, "ids", FALSE)}, 4, 0) : to \in {1, 2}}
  \cup {[StepOf(1, "mongodb", {}, 0, 0) EXCEPT !.uses = u] :
          u \in {{"$facet"}, {"$lookup.new"}}}
  \cup {[StepOf(3, "sql", {Ref(1, "ids", TRUE)}, 0, 0) EXCEPT !.known = FALSE],
        StepOf(1, "neo4j", {}, 0, 0)}
MCRawPlans ==
  [strategy : {"single_aggregate", "multi_step", "guess"},
   steps : BoundedSeq([dict : {TRUE}, fit : {TRUE}, step : MCSteps]
                      \cup [dict : BOOLEAN, fit : {FALSE}, step : {StepOf(1, "sql", {}, 0, 0)}],
                      2)]
MCAgentPlans == BoundedSeq(MCSteps, 2)

MCBudget  == [rate |-> 3, fault |-> 1]
MCModels  == 1..3
MCGroupOf == <<"global", "global", "embedding">>
MCKeyOf   == <<"k", "k">>
MCReleases == 0..35

VARIABLE part  \* the component the behaviour is about

MCInit ==
  /\ Init
  /\ part \in {"plans", "llm", "registry", "startup", "accounts", "tokens", "namespaces",
               "extraction", "records"}

\* Two requests about accounts at once only while there is no namespace, and two
\* refinements at once only of the traces of a single run.
AccountsBound ==
  Cardinality({q \in Requests : reqs[q] # A!NoReq}) <= 1 \/ \A n \in Namespaces : owner[n] = A!Absent
RecordsBound ==
  \/ Cardinality({f \in Refiners : refiners[f] # C!NoReq}) <= 1
  \/ Cardinality({r \in Runs : finished[r].stage # "idle"}) <= 1

MCNext ==
  \/ part = "plans" /\ PlansNext /\ UNCHANGED part
  \/ part = "llm" /\ LLMNext /\ UNCHANGED part
  \/ part = "registry" /\ RegistryNext /\ UNCHANGED part
  \/ part = "startup" /\ StartupNext /\ UNCHANGED part
  \/ part = "accounts" /\ AccessNext /\ AccountsBound' /\ UNCHANGED part
  \/ part = "tokens" /\ TokensNext /\ UNCHANGED part
  \/ part = "namespaces" /\ NamespacesNext /\ UNCHANGED part
  \/ part = "extraction" /\ ExtractionNext /\ UNCHANGED part
  \/ part = "records" /\ RecordsNext /\ RecordsBound' /\ UNCHANGED part

MCSpec == MCInit /\ [][MCNext]_<<vars, part>>
=============================================================================
