------------------------------ MODULE Services ------------------------------
(***************************************************************************)
(* The components that share no state with a run, side by side: the        *)
(* planner and executor of query plans, calls of a model, the registry of  *)
(* models, the start-up, accounts and their namespaces, Git tokens, a      *)
(* namespace with its pools, the extraction, and the records of finished   *)
(* runs.  A step is a step of one of them.                                 *)
(***************************************************************************)
EXTENDS Integers, Sequences, FiniteSets

CONSTANTS
  RawPlans, AgentPlans, Caps, Detected, DefaultLimit, HardCeiling, MaxRows,  \* Plans
  Budget,  \* LLM
  Models, GroupOf, Vers, KeyOf, Admins, Calls, MaxRequests,  \* Registry
  Releases,  \* Startup
  Namespaces,  \* Registry and Access
  Users, Root, Requests,  \* Access
  TokenRows, Tokens, Default,  \* GitToken
  Sources, Waits, Runs, Deleters, Above, MaxEntries, None,  \* Namespaces
  MaxFiles, UnitSize, Slots, MaxRounds, Window, MaxBatch,  \* Extraction
  Sessions, Refiners, MaxProposals  \* Records, with the runs of Namespaces

\* Retries are counted, an error may have none.
ASSUME BudgetsAreCounts == Budget \in [{"rate", "fault"} -> Nat]

\* model_configs: a table of finitely many rows, each of one group; settings are
\* numbered from 1 on, 0 stands for a row that was not added.
ASSUME ModelsAreRows ==
  /\ IsFiniteSet(Models)
  /\ GroupOf \in [Models -> {"global", "embedding"} \cup Namespaces]
  /\ 0 \notin Vers

\* Databases come from this release or an earlier one.
ASSUME ReleasesAreKnown == Releases \subseteq 0..35

\* The account of the first start is one of the accounts.
ASSUME RootIsUser == Root \in Users

\* A repository can have files, and a unit of work takes at least one of them.
ASSUME UnitsTakeFiles == MaxFiles \in Nat \ {0} /\ UnitSize \in Nat \ {0}

\* "No pool" names no user of a pool.
ASSUME NoneIsNoRun == None \notin Runs

VARIABLES
  planPhase, plan, parsed, at, prev, results, ran, why,  \* Plans
  kind, protocol, callStage, wants, extra, tries, again, text, sends,  \* LLM
  models, changes, slots, clients, calls, embedder, begun, lapped, unloaded,
    embedded,  \* Registry
  release, db, root, admins, scopes, phase, step,  \* Startup
  users, owner, grants, reqs, slipped,  \* Access
  tokens, reply, cloned,  \* GitToken
  there, entries, sources, cached, open, runs, deleters, shown, leaving, slot, raced,  \* Namespaces
  stage, files, window, agents, result, written,  \* Extraction
  sessions, finished, traces, history, shares, refiners, proposed, contested  \* Records

P == INSTANCE Plans WITH phase <- planPhase
L == INSTANCE LLM WITH stage <- callStage
R == INSTANCE Registry WITH
  Ids <- Models, rows <- models, reqs <- changes, raced <- lapped
S == INSTANCE Startup WITH grants <- scopes
A == INSTANCE Access
G == INSTANCE GitToken WITH Ids <- TokenRows, rows <- tokens
N == INSTANCE Namespaces WITH rows <- sources
E == INSTANCE Extraction
C == INSTANCE Records WITH runs <- finished

\* Rows are counted, and the planner and the agent answer with lists of steps.
ASSUME PlansAreSteps ==
  /\ DefaultLimit \in Nat /\ HardCeiling \in Nat /\ MaxRows \in Nat
  /\ \A raw \in RawPlans : raw.steps \in Seq([dict : BOOLEAN, fit : BOOLEAN, step : P!PlanStep])
  /\ AgentPlans \subseteq Seq(P!PlanStep)

plansVars == <<planPhase, plan, parsed, at, prev, results, ran, why>>
llmVars == <<kind, protocol, callStage, wants, extra, tries, again, text, sends>>
registryVars == <<models, changes, slots, clients, calls, embedder, begun, lapped,
                   unloaded, embedded>>
startupVars == <<release, db, root, admins, scopes, phase, step>>
accessVars == <<users, owner, grants, reqs, slipped>>
tokensVars == <<tokens, reply, cloned>>
namespacesVars == <<there, entries, sources, cached, open, runs, deleters, shown,
                     leaving, slot, raced>>
extractionVars == <<stage, files, window, agents, result, written>>
recordsVars == <<sessions, finished, traces, history, shares, refiners, proposed, contested>>
vars == <<plansVars, llmVars, registryVars, startupVars, accessVars, tokensVars,
          namespacesVars, extractionVars, recordsVars>>

Init ==
  P!Init /\ L!Init /\ R!Init /\ S!Init /\ A!Init /\ G!Init /\ N!Init /\ E!Init /\ C!Init

PlansNext == P!Next
  /\ UNCHANGED <<llmVars, registryVars, startupVars, accessVars, tokensVars, namespacesVars,
                 extractionVars, recordsVars>>
LLMNext == L!Next
  /\ UNCHANGED <<plansVars, registryVars, startupVars, accessVars, tokensVars, namespacesVars,
                 extractionVars, recordsVars>>
RegistryNext == R!Next
  /\ UNCHANGED <<plansVars, llmVars, startupVars, accessVars, tokensVars, namespacesVars,
                 extractionVars, recordsVars>>
StartupNext == S!Next
  /\ UNCHANGED <<plansVars, llmVars, registryVars, accessVars, tokensVars, namespacesVars,
                 extractionVars, recordsVars>>
AccessNext == A!Next
  /\ UNCHANGED <<plansVars, llmVars, registryVars, startupVars, tokensVars, namespacesVars,
                 extractionVars, recordsVars>>
TokensNext == G!Next
  /\ UNCHANGED <<plansVars, llmVars, registryVars, startupVars, accessVars, namespacesVars,
                 extractionVars, recordsVars>>
NamespacesNext == N!Next
  /\ UNCHANGED <<plansVars, llmVars, registryVars, startupVars, accessVars, tokensVars,
                 extractionVars, recordsVars>>
ExtractionNext == E!Next
  /\ UNCHANGED <<plansVars, llmVars, registryVars, startupVars, accessVars, tokensVars,
                 namespacesVars, recordsVars>>
RecordsNext == C!Next
  /\ UNCHANGED <<plansVars, llmVars, registryVars, startupVars, accessVars, tokensVars,
                 namespacesVars, extractionVars>>

Next == PlansNext \/ LLMNext \/ RegistryNext \/ StartupNext \/ AccessNext \/ TokensNext
        \/ NamespacesNext \/ ExtractionNext \/ RecordsNext

Spec == Init /\ [][Next]_vars

----------------------------------------------------------------------------
(* What the modules state *)

\* A plan that was parsed runs its steps once each and in order, so that no step
\* misses the value of another one (Plans).
ParsedPlansRunInOrder == P!ParsedPlansRunInOrder

\* A result that lacks rows is never passed off as complete (Plans).
CutsAreTold == P!CutsAreTold

\* A model call ends after as many requests as its budgets allow, whichever errors
\* follow one another, and a chat never returns an empty answer (LLM).
CallsEndWell == L!SendsAreBounded /\ L!ChatsHaveText

\* A group has one configuration in use, and calls are served what the rows say
\* (Registry).
SlotsFollowRows == R!OneInUse /\ R!SlotsFollowRows

\* Texts are embedded with one model over all restarts (Registry).
OneEmbedder == R!OneEmbedder

\* A start brings a database of any release to this one, wherever earlier starts
\* were cut off (Startup).
StartsFromAnyRelease == S!StartsFromAnyRelease

\* Only administrators from before scopes are given every namespace (Startup).
ScopesAreKept == S!ScopesAreKept

\* An active super admin remains, whoever is deleted or demoted at once (Access).
SuperAdminRemains == A!SuperAdminRemains

\* No connection pool outlives its data source or the cache that names it
\* (Namespaces).
PoolsAreClosed == N!PoolsAreClosed

\* An extraction that calls itself complete is, and a failed agent takes nothing
\* away from the others (Extraction).
ExtractionsAreWhole == E!OkIsComplete /\ E!OthersAreKept

\* A trace is refined once, unless two refinements had read it (Records).
RefinedOnce == C!RefinedOnce
=============================================================================
