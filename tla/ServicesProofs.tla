--------------------------- MODULE ServicesProofs ---------------------------
(***************************************************************************)
(* Theorems about Services, for every value of its constants: each         *)
(* component has an inductive invariant of its own, which the steps of the *)
(* others leave alone because they leave its variables alone.              *)
(*                                                                         *)
(* The assumptions about the constants are those that Services names.      *)
(***************************************************************************)
EXTENDS Services, FiniteSetTheorems, SequenceTheorems, WellFoundedInduction, TLAPS

\* Every component starts at its beginning.
LEMMA AllStart ==
  Init => P!Init /\ L!Init /\ R!Init /\ S!Init /\ A!Init /\ G!Init /\ N!Init /\ E!Init /\ C!Init
BY DEF Init

\* What a step is to each of the components: a step of its own, or nothing.
LEMMA StepOfOne ==
  [Next]_vars =>
    /\ [P!Next]_plansVars /\ [L!Next]_llmVars /\ [R!Next]_registryVars /\ [S!Next]_startupVars
    /\ [A!Next]_accessVars /\ [G!Next]_tokensVars /\ [N!Next]_namespacesVars
    /\ [E!Next]_extractionVars /\ [C!Next]_recordsVars
BY DEF Next, vars, PlansNext, LLMNext, RegistryNext, StartupNext, AccessNext, TokensNext,
       NamespacesNext, ExtractionNext, RecordsNext

\* The instances count as this module does.
LEMMA OneCardinality ==
  ASSUME NEW T
  PROVE  /\ A!Cardinality(T) = Cardinality(T) /\ R!Cardinality(T) = Cardinality(T)
         /\ P!Cardinality(T) = Cardinality(T)
         /\ C!Cardinality(T) = Cardinality(T) /\ E!Cardinality(T) = Cardinality(T)
BY DEF P!Cardinality, A!Cardinality, R!Cardinality, C!Cardinality, E!Cardinality, Cardinality

----------------------------------------------------------------------------
(* Namespaces *)

DeletionStages == {"idle", "confirmed", "purged", "collected", "removed", "done"}

\* Pools are opened by runs, and a run that is under way has a data source.
PoolShape ==
  /\ sources \in [Sources -> {"no", "yes", "gone"}]
  /\ cached \in [Sources -> Runs \cup {None}]
  /\ open \in [Sources -> SUBSET Runs]
  /\ runs \in [Runs -> [stage : {"idle", "loaded", "opening"}, ds : Sources \cup {None}]]
  /\ \A r \in Runs : runs[r].stage # "idle" => runs[r].ds \in Sources
  /\ deleters \in [Deleters -> [stage : DeletionStages, ids : SUBSET Sources]]

\* The cache holds the one pool that is open.
OneOpen == \A d \in Sources \ raced : open[d] \subseteq {cached[d]}

\* Only a driver that waits leaves a run opening, and while one is, nothing is
\* cached and no other run opens a pool of the same data source.
OneOpener ==
  \A r \in Runs : runs[r].stage = "opening" =>
    /\ runs[r].ds \in Waits
    /\ runs[r].ds \notin raced =>
         /\ cached[runs[r].ds] = None
         /\ \A s \in Runs : runs[s].stage = "opening" /\ runs[s].ds = runs[r].ds => s = r

\* Who is about to put a pool into the cache still has a row to do it for.
BoundToRow == \A d \in Sources \ raced : N!Bound(d) # {} => sources[d] = "yes"

\* A request that has collected the ids knows every data source of the
\* namespace; before and after, it holds none.
CollectedAll ==
  \A x \in Deleters :
    /\ deleters[x].stage = "collected" =>
         \A d \in Sources \ raced : sources[d] = "yes" => d \in deleters[x].ids
    /\ deleters[x].stage \in {"idle", "confirmed", "purged", "done"} => deleters[x].ids = {}

\* Nothing of a data source that is gone is open once nobody has to close it.
GoneIsClosed ==
  \A d \in Sources \ raced : sources[d] = "gone" /\ ~ N!Closing(d) => open[d] = {}

PoolInv == PoolShape /\ OneOpen /\ OneOpener /\ BoundToRow /\ CollectedAll /\ GoneIsClosed

----------------------------------------------------------------------------

\* No pool is there at the start.
LEMMA PoolInitially == N!Init => PoolInv
BY DEF N!Init, N!Idle, PoolInv, PoolShape, DeletionStages, OneOpen, OneOpener, BoundToRow, N!Bound, CollectedAll,
       GoneIsClosed

\* The shape of the state is kept.
LEMMA PoolShapeStep == PoolInv /\ [N!Next]_namespacesVars => PoolShape'
<1> SUFFICES ASSUME PoolInv, [N!Next]_namespacesVars PROVE PoolShape'
  OBVIOUS
<1> USE DEF PoolInv, PoolShape, DeletionStages, N!pools, N!Idle
<1>1. ASSUME NEW r \in Runs, NEW d \in Sources, N!Load(r, d) PROVE PoolShape'
  BY <1>1 DEF N!Load
<1>2. ASSUME NEW r \in Runs, N!GetPool(r) PROVE PoolShape'
  <2>1. runs[r].ds \in Sources
    BY <1>2 DEF N!GetPool
  <2>2. CASE cached' = cached /\ open' = open
    BY <1>2, <2>1, <2>2, SMTT(30) DEF N!GetPool
  <2>3. CASE runs' = [runs EXCEPT ![r] = N!Idle]
    BY <1>2, <2>1, <2>3 DEF N!GetPool
  <2> QED
    BY <1>2, <2>2, <2>3, SMTT(30) DEF N!GetPool
<1>3. ASSUME NEW r \in Runs, NEW ok \in BOOLEAN, N!Opened(r, ok) PROVE PoolShape'
  BY <1>3 DEF N!Opened
<1>4. ASSUME NEW d \in Sources, NEW ok \in BOOLEAN, N!Evict(d, ok) PROVE PoolShape'
  BY <1>4 DEF N!Evict
<1>5. ASSUME NEW d \in Sources, N!AddSource(d) \/ N!DeleteSource(d) PROVE PoolShape'
  BY <1>5 DEF N!AddSource, N!DeleteSource
<1>6. CASE N!Serve \/ N!Preview \/ \E n \in 0..MaxEntries : N!Write(n)
  BY <1>6 DEF N!Serve, N!Preview, N!Write
<1>7. ASSUME NEW x \in Deleters, N!Confirm(x) \/ N!Purge(x) \/ N!Collect(x) PROVE PoolShape'
  BY <1>7 DEF N!Confirm, N!Purge, N!Collect
<1>8. ASSUME NEW x \in Deleters, N!Remove(x) \/ N!Release(x) PROVE PoolShape'
  BY <1>8 DEF N!Remove, N!Release
<1>9. CASE UNCHANGED namespacesVars
  BY <1>9 DEF namespacesVars
<1> QED
  BY <1>1, <1>2, <1>3, <1>4, <1>5, <1>6, <1>7, <1>8, <1>9 DEF N!Next

\* Pools are opened one at a time and by runs whose row is there.
LEMMA PoolOpenStep ==
  PoolInv /\ [N!Next]_namespacesVars => OneOpen' /\ OneOpener'
<1> SUFFICES ASSUME PoolInv, [N!Next]_namespacesVars PROVE OneOpen' /\ OneOpener'
  OBVIOUS
<1> USE NoneIsNoRun DEF PoolInv, PoolShape, OneOpen, OneOpener, N!pools, N!Idle
<1>1. ASSUME NEW r \in Runs, NEW d \in Sources, N!Load(r, d) PROVE OneOpen' /\ OneOpener'
  BY <1>1 DEF N!Load
<1>2. ASSUME NEW r \in Runs, N!GetPool(r) PROVE OneOpen' /\ OneOpener'
  <2> DEFINE d == runs[r].ds
  <2>1. d \in Sources /\ runs[r].stage = "loaded"
    BY <1>2 DEF N!GetPool
  <2>2. CASE runs' = [runs EXCEPT ![r] = N!Idle] /\ UNCHANGED <<cached, open, raced>>
    BY <1>2, <2>1, <2>2 DEF N!GetPool
  <2>3. CASE /\ cached[d] = None /\ d \notin Waits
             /\ cached' = [cached EXCEPT ![d] = r] /\ open' = [open EXCEPT ![d] = @ \cup {r}]
             /\ runs' = [runs EXCEPT ![r] = N!Idle] /\ UNCHANGED raced
    BY <1>2, <2>1, <2>3 DEF N!GetPool
  <2>4. CASE /\ cached[d] = None /\ d \in Waits
             /\ runs' = [runs EXCEPT ![r].stage = "opening"]
             /\ raced' = raced \cup {e \in {d} :
                  \E s \in Runs : s # r /\ runs[s] = [stage |-> "opening", ds |-> d]}
             /\ UNCHANGED <<cached, open>>
    <3>1. \A s \in Runs : s # r /\ runs[s].stage = "opening" /\ runs[s].ds = d => d \in raced'
      BY <2>4
    <3>2. /\ runs'[r].stage = "opening" /\ runs'[r].ds = d
          /\ \A s \in Runs : s # r => runs'[s] = runs[s]
          /\ raced \subseteq raced' /\ UNCHANGED <<cached, open>>
      BY <2>4
    <3>3. cached[d] = None /\ d \in Waits
      BY <2>4
    <3> HIDE <2>4
    <3>4. OneOpen'
      BY <3>2
    <3>5. OneOpener'
      BY <2>1, <3>1, <3>2, <3>3
    <3> QED
      BY <3>4, <3>5
  <2> QED
    BY <1>2, <2>2, <2>3, <2>4 DEF N!GetPool
<1>3. ASSUME NEW r \in Runs, NEW ok \in BOOLEAN, N!Opened(r, ok) PROVE OneOpen' /\ OneOpener'
  BY <1>3 DEF N!Opened
<1>4. ASSUME NEW d \in Sources, NEW ok \in BOOLEAN, N!Evict(d, ok) PROVE OneOpen' /\ OneOpener'
  BY <1>4 DEF N!Evict
<1>5. ASSUME NEW d \in Sources, N!AddSource(d) \/ N!DeleteSource(d) PROVE OneOpen' /\ OneOpener'
  BY <1>5 DEF N!AddSource, N!DeleteSource
<1>6. CASE N!Serve \/ N!Preview \/ \E n \in 0..MaxEntries : N!Write(n)
  BY <1>6 DEF N!Serve, N!Preview, N!Write
<1>7. ASSUME NEW x \in Deleters, N!Confirm(x) \/ N!Purge(x) \/ N!Collect(x) PROVE OneOpen' /\ OneOpener'
  BY <1>7 DEF N!Confirm, N!Purge, N!Collect
<1>8. ASSUME NEW x \in Deleters, N!Remove(x) \/ N!Release(x) PROVE OneOpen' /\ OneOpener'
  BY <1>8 DEF N!Remove, N!Release
<1>9. CASE UNCHANGED namespacesVars
  BY <1>9 DEF namespacesVars
<1> QED
  BY <1>1, <1>2, <1>3, <1>4, <1>5, <1>6, <1>7, <1>8, <1>9 DEF N!Next

\* A row that goes marks the runs that hold on to it.
LEMMA PoolBoundStep == PoolInv /\ [N!Next]_namespacesVars => BoundToRow'
<1> SUFFICES ASSUME PoolInv, [N!Next]_namespacesVars PROVE BoundToRow'
  OBVIOUS
<1> USE DEF PoolInv, PoolShape, BoundToRow, N!Bound, N!pools, N!Idle
<1>1. ASSUME NEW r \in Runs, NEW d \in Sources, N!Load(r, d) PROVE BoundToRow'
  BY <1>1 DEF N!Load
<1>2. ASSUME NEW r \in Runs, N!GetPool(r) PROVE BoundToRow'
  BY <1>2 DEF N!GetPool
<1>3. ASSUME NEW r \in Runs, NEW ok \in BOOLEAN, N!Opened(r, ok) PROVE BoundToRow'
  BY <1>3 DEF N!Opened
<1>4. ASSUME NEW d \in Sources, NEW ok \in BOOLEAN, N!Evict(d, ok) PROVE BoundToRow'
  BY <1>4 DEF N!Evict
<1>5. ASSUME NEW d \in Sources, N!AddSource(d) \/ N!DeleteSource(d) PROVE BoundToRow'
  BY <1>5 DEF N!AddSource, N!DeleteSource
<1>6. CASE N!Serve \/ N!Preview \/ \E n \in 0..MaxEntries : N!Write(n)
  BY <1>6 DEF N!Serve, N!Preview, N!Write
<1>7. ASSUME NEW x \in Deleters, N!Confirm(x) \/ N!Purge(x) \/ N!Collect(x) PROVE BoundToRow'
  BY <1>7 DEF N!Confirm, N!Purge, N!Collect
<1>8. ASSUME NEW x \in Deleters, N!Remove(x) \/ N!Release(x) PROVE BoundToRow'
  BY <1>8 DEF N!Remove, N!Release
<1>9. CASE UNCHANGED namespacesVars
  BY <1>9 DEF namespacesVars
<1> QED
  BY <1>1, <1>2, <1>3, <1>4, <1>5, <1>6, <1>7, <1>8, <1>9 DEF N!Next

\* No data source slips into a namespace between the ids and the deletion.
LEMMA PoolCollectStep == PoolInv /\ [N!Next]_namespacesVars => CollectedAll'
<1> SUFFICES ASSUME PoolInv, [N!Next]_namespacesVars PROVE CollectedAll'
  OBVIOUS
<1> USE DEF PoolInv, PoolShape, CollectedAll, N!pools, DeletionStages
<1>1. ASSUME NEW r \in Runs, NEW d \in Sources, N!Load(r, d) PROVE CollectedAll'
  BY <1>1 DEF N!Load
<1>2. ASSUME NEW r \in Runs, N!GetPool(r) PROVE CollectedAll'
  BY <1>2 DEF N!GetPool
<1>3. ASSUME NEW r \in Runs, NEW ok \in BOOLEAN, N!Opened(r, ok) PROVE CollectedAll'
  BY <1>3 DEF N!Opened
<1>4. ASSUME NEW d \in Sources, NEW ok \in BOOLEAN, N!Evict(d, ok) PROVE CollectedAll'
  BY <1>4 DEF N!Evict
<1>5. ASSUME NEW d \in Sources, N!AddSource(d) \/ N!DeleteSource(d) PROVE CollectedAll'
  BY <1>5 DEF N!AddSource, N!DeleteSource
<1>6. CASE N!Serve \/ N!Preview \/ \E n \in 0..MaxEntries : N!Write(n)
  BY <1>6 DEF N!Serve, N!Preview, N!Write
<1>7. ASSUME NEW x \in Deleters, N!Confirm(x) \/ N!Purge(x) \/ N!Collect(x) PROVE CollectedAll'
  BY <1>7 DEF N!Confirm, N!Purge, N!Collect
<1>8. ASSUME NEW x \in Deleters, N!Remove(x) \/ N!Release(x) PROVE CollectedAll'
  BY <1>8 DEF N!Remove, N!Release
<1>9. CASE UNCHANGED namespacesVars
  BY <1>9 DEF namespacesVars
<1> QED
  BY <1>1, <1>2, <1>3, <1>4, <1>5, <1>6, <1>7, <1>8, <1>9 DEF N!Next

\* Whoever lets a data source go without closing its pools leaves that to another.
LEMMA PoolCloseStep ==
  PoolInv /\ [N!Next]_namespacesVars => GoneIsClosed'
<1> SUFFICES ASSUME PoolInv, [N!Next]_namespacesVars PROVE GoneIsClosed'
  OBVIOUS
<1> USE NoneIsNoRun DEF PoolInv, PoolShape, GoneIsClosed, N!Closing, N!pools
<1>1. ASSUME NEW r \in Runs, NEW d \in Sources, N!Load(r, d) PROVE GoneIsClosed'
  BY <1>1 DEF N!Load
<1>2. ASSUME NEW r \in Runs, N!GetPool(r) PROVE GoneIsClosed'
  BY <1>2 DEF N!GetPool, BoundToRow, N!Bound
<1>3. ASSUME NEW r \in Runs, NEW ok \in BOOLEAN, N!Opened(r, ok) PROVE GoneIsClosed'
  BY <1>3 DEF N!Opened, BoundToRow, N!Bound
<1>4. ASSUME NEW d \in Sources, NEW ok \in BOOLEAN, N!Evict(d, ok) PROVE GoneIsClosed'
  BY <1>4 DEF N!Evict, OneOpen
<1>5. ASSUME NEW d \in Sources, N!AddSource(d) \/ N!DeleteSource(d) PROVE GoneIsClosed'
  BY <1>5 DEF N!AddSource, N!DeleteSource
<1>6. CASE N!Serve \/ N!Preview \/ \E n \in 0..MaxEntries : N!Write(n)
  BY <1>6 DEF N!Serve, N!Preview, N!Write
<1>7. ASSUME NEW x \in Deleters, N!Confirm(x) \/ N!Purge(x) \/ N!Collect(x) PROVE GoneIsClosed'
  BY <1>7 DEF N!Confirm, N!Purge, N!Collect, CollectedAll
<1>8. ASSUME NEW x \in Deleters, N!Remove(x) \/ N!Release(x) PROVE GoneIsClosed'
  <2>1. CASE N!Remove(x)
    <3>1. /\ \A y \in Deleters : deleters'[y].ids = deleters[y].ids
          /\ leaving' = leaving /\ open' = open /\ raced \subseteq raced'
      BY <2>1 DEF N!Remove
    <3>2. \A d \in Sources : sources'[d] = "gone" => sources[d] \in {"yes", "gone"}
      BY <2>1 DEF N!Remove
    <3>3. \A d \in Sources \ raced : sources[d] = "yes" => d \in deleters[x].ids
      BY <2>1 DEF N!Remove, CollectedAll
    <3> QED
      BY <3>1, <3>2, <3>3
  <2>2. CASE N!Release(x)
    <3>1. /\ \A y \in Deleters : y # x => deleters'[y] = deleters[y]
          /\ leaving' = leaving \cup deleters[x].ids
          /\ UNCHANGED <<open, sources, raced>>
      BY <2>2 DEF N!Release
    <3> QED
      BY <3>1
  <2> QED
    BY <1>8, <2>1, <2>2
<1>9. CASE UNCHANGED namespacesVars
  BY <1>9 DEF namespacesVars
<1> QED
  BY <1>1, <1>2, <1>3, <1>4, <1>5, <1>6, <1>7, <1>8, <1>9 DEF N!Next

\* No pool outlives its data source and none is out of the drivers' reach, but
\* for the pools and data sources that PoolsAreClosed excepts.
THEOREM PoolsAreClosedAlways == Spec => []PoolsAreClosed
<1>1. PoolInv /\ [Next]_vars => PoolInv'
  BY PoolShapeStep, PoolOpenStep, PoolBoundStep, PoolCollectStep, PoolCloseStep, StepOfOne
  DEF PoolInv
<1>2. PoolInv => PoolsAreClosed
  BY DEF PoolInv, OneOpen, GoneIsClosed, PoolsAreClosed, N!PoolsAreClosed
<1> QED
  BY AllStart, PoolInitially, <1>1, <1>2, PTL DEF Spec

----------------------------------------------------------------------------
(* Access *)

Accounts == [made : {"no", "yes", "gone"}, role : A!Roles, active : BOOLEAN, by : Users \cup {A!Nobody}]
UnderWay == [stage : {"idle", "read", "checked"}, op : {"none", "update", "delete", "access"},
             target : Users, role : A!Roles \cup {"keep"}, active : {"on", "off", "keep"},
             counts : BOOLEAN, held : SUBSET Users, ids : SUBSET Namespaces,
             old : SUBSET (Users \X Namespaces)]

AccountShape ==
  /\ users \in [Users -> Accounts]
  /\ owner \in [Namespaces -> Users \cup {A!Nobody, A!Absent}]
  /\ grants \subseteq Users \X Namespaces
  /\ reqs \in [Requests -> UnderWay]
  /\ slipped \in BOOLEAN

\* A request that has counted holds the rows of its witnesses: active super
\* admins other than its target, and at least one of them.
Witnesses(q) == reqs[q].held \ {reqs[q].target}
WitnessInv ==
  \A q \in Requests : reqs[q].stage = "checked" =>
    /\ Witnesses(q) # {}
    /\ \A u \in Witnesses(q) : A!ActiveSuper(users[u])

AccountInv == AccountShape /\ WitnessInv /\ A!SuperAdminRemains

----------------------------------------------------------------------------

\* More than one row is one besides the target's.
LEMMA MoreThanOne ==
  ASSUME NEW T, NEW t, ~ (Cardinality(T) <= 1)
  PROVE  T \ {t} # {}
<1> SUFFICES ASSUME T \ {t} = {} PROVE FALSE
  OBVIOUS
<1>1. T = {} \/ T = {t}
  OBVIOUS
<1>2. Cardinality({}) = 0 /\ Cardinality({t}) = 1
  BY FS_EmptySet, FS_Singleton
<1> QED
  BY <1>1, <1>2

\* Of the rows counted only the target's may not be an active super admin's yet.
LEMMA CountedAreSuper ==
  ASSUME AccountShape, NEW q \in Requests, NEW u \in A!Counted(reqs[q]), u # reqs[q].target
  PROVE  u \in Users /\ A!ActiveSuper(users[u])
BY DEF AccountShape, UnderWay, A!Counted, A!Supers, A!ActiveSuper

\* A commit writes its target, and slips when nobody has counted and it should.
LEMMA CommitWrites ==
  ASSUME AccountShape, NEW q \in Requests, A!Commit(q)
  PROVE  /\ \A u \in Users : u # reqs[q].target => A!ActiveSuper(users'[u]) = A!ActiveSuper(users[u])
         /\ users'[reqs[q].target] = A!Written(reqs[q])
         /\ reqs' = [reqs EXCEPT ![q] = A!NoReq]
         /\ slipped => slipped'
         /\ ~ reqs[q].counts /\ A!ActiveSuper(users[reqs[q].target])
              /\ ~ A!ActiveSuper(A!Written(reqs[q])) => slipped'
         /\ reqs[q].counts => reqs[q].stage = "checked"
         /\ \A p \in Requests : p # q => reqs[q].target \notin reqs[p].held
<1> DEFINE t == reqs[q].target
<1>1. t \in Users
  BY DEF AccountShape, UnderWay
<1>2. CASE reqs[q].op = "delete" /\ A!Exists(t)
  <2>1. users' = [x \in Users |->
          IF x = t THEN A!Gone ELSE [users[x] EXCEPT !.by = IF @ = t THEN A!Nobody ELSE @]]
    BY <1>2 DEF A!Commit, A!Forget
  <2>2. A!Written(reqs[q]) = A!Gone
    BY <1>2 DEF A!Written
  <2>3. users'[t] = A!Written(reqs[q])
    BY <1>1, <2>1, <2>2
  <2>4. \A u \in Users : u # t => A!ActiveSuper(users'[u]) = A!ActiveSuper(users[u])
    BY <2>1 DEF AccountShape, Accounts, A!ActiveSuper
  <2> QED
    BY <2>3, <2>4 DEF A!Commit, A!Held
<1>3. CASE ~ (reqs[q].op = "delete" /\ A!Exists(t))
  <2>1. users' = [users EXCEPT ![t] = A!Written(reqs[q])]
    BY <1>3 DEF A!Commit
  <2>2. users'[t] = A!Written(reqs[q]) /\ \A u \in Users : u # t => users'[u] = users[u]
    BY <1>1, <2>1 DEF AccountShape
  <2> HIDE <2>1
  <2> QED
    BY <2>2 DEF A!Commit, A!Held
<1> QED
  BY <1>2, <1>3

----------------------------------------------------------------------------

\* The invariant holds at the start, with root as the witness.
LEMMA AccountInitially ==
  A!Init => AccountInv
<1> SUFFICES ASSUME A!Init PROVE AccountInv
  OBVIOUS
<1> USE RootIsUser DEF A!Init, A!NoReq, A!Unmade
<1>1. AccountShape
  BY DEF AccountShape, Accounts, UnderWay, A!Roles
<1>2. WitnessInv
  BY DEF WitnessInv
<1>3. Root \in A!Supers(users)
  BY DEF A!Supers, A!ActiveSuper
<1> QED
  BY <1>1, <1>2, <1>3 DEF AccountInv, A!SuperAdminRemains

\* The account a commit writes keeps its shape.
LEMMA WrittenShape ==
  ASSUME AccountShape, NEW q \in Requests
  PROVE  A!Written(reqs[q]) \in Accounts
<1> DEFINE r == reqs[q]
           u == users[r.target]
<1>1. u \in Accounts /\ r \in UnderWay
  BY DEF AccountShape, UnderWay
<1>2. CASE ~ A!Exists(r.target)
  BY <1>1, <1>2 DEF A!Written
<1>3. CASE A!Exists(r.target) /\ r.op = "delete"
  BY <1>3 DEF A!Written, A!Gone, A!Unmade, Accounts, A!Roles
<1>4. CASE A!Exists(r.target) /\ r.op # "delete"
  <2>1. A!Written(r) = [u EXCEPT !.role = IF r.role = "keep" THEN @ ELSE r.role,
                               !.active = IF r.active = "keep" THEN @ ELSE r.active = "on"]
    BY <1>4 DEF A!Written
  <2> HIDE DEF r, u
  <2>2. [u EXCEPT !.role = IF r.role = "keep" THEN @ ELSE r.role,
                  !.active = IF r.active = "keep" THEN @ ELSE r.active = "on"] \in Accounts
    BY <1>1 DEF Accounts, UnderWay
  <2> QED
    BY <2>1, <2>2 DEF r
<1> QED
  BY <1>2, <1>3, <1>4

\* The shape of the state is kept.
LEMMA AccountShapeStep ==
  AccountInv /\ [A!Next]_accessVars => AccountShape'
<1> SUFFICES ASSUME AccountInv, [A!Next]_accessVars PROVE AccountShape'
  OBVIOUS
<1> USE DEF AccountInv, AccountShape
<1>1. A!NoReq \in UnderWay /\ A!Gone \in Accounts
  BY RootIsUser DEF A!NoReq, UnderWay, A!Gone, A!Unmade, Accounts, A!Roles
<1>2. ASSUME NEW a \in Users, NEW u \in Users, NEW role \in A!Roles, A!Create(a, u, role) PROVE AccountShape'
  BY <1>2 DEF A!Create, Accounts
<1>3. ASSUME NEW q \in Requests, NEW r \in UnderWay, A!Start(q, r) PROVE AccountShape'
  BY <1>3 DEF A!Start, UnderWay
<1>4. ASSUME NEW q \in Requests, NEW a \in Users, NEW t \in Users, NEW role \in A!Roles,
             NEW active \in {"on", "off", "keep"}, A!Update(q, a, t, role, active)
      PROVE  AccountShape'
  <2>1. ASSUME NEW c \in BOOLEAN, NEW ro \in A!Roles \cup {"keep"}, NEW ac \in {"on", "off", "keep"}
        PROVE  [A!NoReq EXCEPT !.op = "update", !.target = t, !.role = ro, !.active = ac, !.counts = c]
                 \in UnderWay
    BY <1>1 DEF UnderWay
  <2> QED
    BY <1>3, <1>4, <2>1 DEF A!Update
<1>5. ASSUME NEW q \in Requests, NEW a \in Users, NEW t \in Users, A!Delete(q, a, t)
      PROVE  AccountShape'
  <2>1. ASSUME NEW c \in BOOLEAN
        PROVE  [A!NoReq EXCEPT !.op = "delete", !.target = t, !.counts = c] \in UnderWay
    BY <1>1 DEF UnderWay
  <2> QED
    BY <1>3, <1>5, <2>1 DEF A!Delete
<1>6. ASSUME NEW q \in Requests, A!Check(q) PROVE AccountShape'
  <2>1. A!Counted(reqs[q]) \in SUBSET Users
    BY DEF A!Counted, A!Supers
  <2>2. ASSUME NEW r \in UnderWay, NEW rows \in SUBSET Users
        PROVE  [r EXCEPT !.stage = "checked", !.held = rows] \in UnderWay
    BY DEF UnderWay
  <2>3. [reqs[q] EXCEPT !.stage = "checked", !.held = A!Counted(reqs[q])] \in UnderWay
    BY <2>1, <2>2
  <2>4. reqs' = [reqs EXCEPT ![q] = A!NoReq] \/
        reqs' = [reqs EXCEPT ![q] =
                   [reqs[q] EXCEPT !.stage = "checked", !.held = A!Counted(reqs[q])]]
    BY <1>6 DEF A!Check
  <2>5. reqs' \in [Requests -> UnderWay]
    BY <1>1, <2>3, <2>4
  <2> QED
    BY <1>6, <2>5 DEF A!Check
<1>7. ASSUME NEW q \in Requests, A!Commit(q) PROVE AccountShape'
  <2>1. reqs[q].target \in Users /\ A!Written(reqs[q]) \in Accounts
    BY WrittenShape DEF UnderWay
  <2>2. reqs' \in [Requests -> UnderWay]
    BY <1>1, <1>7 DEF A!Commit
  <2>3. users' \in [Users -> Accounts]
    <3>1. CASE reqs[q].op = "delete" /\ A!Exists(reqs[q].target)
      <4>1. \A x \in Users : [users[x] EXCEPT !.by = IF @ = reqs[q].target THEN A!Nobody ELSE @] \in Accounts
        BY DEF Accounts
      <4> QED
        BY <1>1, <1>7, <3>1, <4>1 DEF A!Commit, A!Forget
    <3>2. CASE ~ (reqs[q].op = "delete" /\ A!Exists(reqs[q].target))
      BY <1>7, <2>1, <3>2 DEF A!Commit
    <3> QED
      BY <3>1, <3>2
  <2>4. grants' \subseteq Users \X Namespaces /\ owner' \in [Namespaces -> Users \cup {A!Nobody, A!Absent}]
    BY <1>7 DEF A!Commit, A!Forget
  <2>5. slipped' \in BOOLEAN
    BY <1>7 DEF A!Commit
  <2> QED
    BY <2>2, <2>3, <2>4, <2>5
<1>8. ASSUME NEW q \in Requests, NEW a \in Users, NEW t \in Users, NEW ids \in SUBSET Namespaces,
             A!SetAccess(q, a, t, ids)
      PROVE  AccountShape'
  <2>1. [A!NoReq EXCEPT !.op = "access", !.target = t, !.ids = ids, !.old = {g \in grants : g[1] = t}]
          \in UnderWay
    BY <1>1 DEF UnderWay
  <2> QED
    BY <1>3, <1>8, <2>1 DEF A!SetAccess
<1>9. ASSUME NEW q \in Requests, A!CommitAccess(q) PROVE AccountShape'
  <2>1. {<<reqs[q].target, n>> : n \in reqs[q].ids} \subseteq Users \X Namespaces
    BY DEF UnderWay
  <2> QED
    BY <1>1, <1>9, <2>1 DEF A!CommitAccess
<1>10. ASSUME NEW a \in Users, NEW n \in Namespaces, A!CreateNamespace(a, n) \/ A!DeleteNamespace(a, n)
       PROVE  AccountShape'
  BY <1>10 DEF A!CreateNamespace, A!DeleteNamespace
<1>11. CASE UNCHANGED accessVars
  BY <1>11 DEF accessVars
<1> QED
  BY <1>2, <1>4, <1>5, <1>6, <1>7, <1>8, <1>9, <1>10, <1>11 DEF A!Next

\* The witnesses of a request stay super admins: their rows are locked.
LEMMA AccountWitnessStep == AccountInv /\ [A!Next]_accessVars => WitnessInv'
<1> SUFFICES ASSUME AccountInv, [A!Next]_accessVars PROVE WitnessInv'
  OBVIOUS
<1> USE DEF AccountInv, WitnessInv, Witnesses
<1>1. reqs \in [Requests -> UnderWay] /\ \A q \in Requests : reqs[q].held \subseteq Users
  BY DEF AccountShape, UnderWay
<1>2. ASSUME NEW a \in Users, NEW u \in Users, NEW role \in A!Roles, A!Create(a, u, role)
      PROVE  WitnessInv'
  <2>1. reqs' = reqs /\ \A x \in Users : A!ActiveSuper(users[x]) => users'[x] = users[x]
    BY <1>2 DEF A!Create, A!ActiveSuper, AccountShape
  <2> QED
    BY <1>1, <2>1
<1>3. ASSUME NEW q \in Requests, users' = users, reqs'[q].stage # "checked",
             \A p \in Requests : p # q => reqs'[p] = reqs[p]
      PROVE  WitnessInv'
  BY <1>3
<1>4. ASSUME NEW q \in Requests, A!Check(q) PROVE WitnessInv'
  <2> DEFINE rows == A!Counted(reqs[q])
  <2>1. users' = users /\ \A p \in Requests : p # q => reqs'[p] = reqs[p]
    BY <1>1, <1>4 DEF A!Check
  <2>2. reqs'[q] = IF Cardinality(rows) <= 1 THEN A!NoReq
                   ELSE [reqs[q] EXCEPT !.stage = "checked", !.held = rows]
    <3>1. reqs' = [reqs EXCEPT ![q] = IF Cardinality(rows) <= 1 THEN A!NoReq
                     ELSE [reqs[q] EXCEPT !.stage = "checked", !.held = rows]]
      BY <1>4, OneCardinality DEF A!Check
    <3> QED
      BY <1>1, <3>1
  <2>3. \A u \in rows : u # reqs[q].target => A!ActiveSuper(users[u])
    BY CountedAreSuper
  <2>4. ~ (Cardinality(rows) <= 1) => rows \ {reqs[q].target} # {}
    BY MoreThanOne
  <2>5. reqs[q] \in UnderWay
    BY <1>1
  <2> HIDE DEF rows
  <2>6. CASE Cardinality(rows) <= 1
    <3>1. reqs'[q].stage # "checked"
      BY <2>2, <2>6 DEF A!NoReq
    <3> QED
      BY <2>1, <3>1
  <2>7. CASE ~ (Cardinality(rows) <= 1)
    <3>1. reqs'[q].held = rows /\ reqs'[q].target = reqs[q].target
      BY <2>2, <2>5, <2>7 DEF UnderWay
    <3> QED
      BY <2>1, <2>3, <2>4, <2>7, <3>1
  <2> QED
    BY <2>6, <2>7
<1>5. ASSUME NEW q \in Requests, A!Commit(q) PROVE WitnessInv'
  <2>1. /\ \A u \in Users : u # reqs[q].target => A!ActiveSuper(users'[u]) = A!ActiveSuper(users[u])
        /\ \A p \in Requests : p # q => reqs[q].target \notin reqs[p].held
        /\ reqs' = [reqs EXCEPT ![q] = A!NoReq]
    BY <1>5, CommitWrites
  <2>2. reqs'[q].stage # "checked" /\ \A p \in Requests : p # q => reqs'[p] = reqs[p]
    BY <1>1, <2>1 DEF A!NoReq
  <2>3. ASSUME NEW p \in Requests, p # q, NEW u \in reqs[p].held, A!ActiveSuper(users[u])
        PROVE  A!ActiveSuper(users'[u])
    BY <1>1, <2>1, <2>3
  <2> QED
    BY <2>2, <2>3
<1>6. ASSUME NEW q \in Requests, A!CommitAccess(q) PROVE WitnessInv'
  BY <1>1, <1>3, <1>6 DEF A!CommitAccess, A!NoReq
<1>7. ASSUME NEW q \in Requests, NEW a \in Users, NEW t \in Users, NEW role \in A!Roles,
             NEW active \in {"on", "off", "keep"}, A!Update(q, a, t, role, active)
      PROVE  WitnessInv'
  BY <1>1, <1>3, <1>7 DEF A!Update, A!Start, A!NoReq
<1>8. ASSUME NEW q \in Requests, NEW a \in Users, NEW t \in Users, A!Delete(q, a, t)
      PROVE  WitnessInv'
  BY <1>1, <1>3, <1>8 DEF A!Delete, A!Start, A!NoReq
<1>9. ASSUME NEW q \in Requests, NEW a \in Users, NEW t \in Users, NEW ids \in SUBSET Namespaces,
             A!SetAccess(q, a, t, ids)
      PROVE  WitnessInv'
  BY <1>1, <1>3, <1>9 DEF A!SetAccess, A!Start, A!NoReq
<1>10. CASE UNCHANGED <<users, reqs>>
  BY <1>10
<1> QED
  BY <1>2, <1>4, <1>5, <1>6, <1>7, <1>8, <1>9, <1>10
  DEF A!Next, A!CreateNamespace, A!DeleteNamespace, accessVars

\* Who commits has not counted, and slips, or leaves a witness behind.
LEMMA AccountRemainsStep == AccountInv /\ [A!Next]_accessVars => A!SuperAdminRemains'
<1> SUFFICES ASSUME AccountInv, [A!Next]_accessVars PROVE A!SuperAdminRemains'
  OBVIOUS
<1> USE DEF AccountInv, A!SuperAdminRemains, A!Supers
<1>1. CASE UNCHANGED <<users, slipped>>
  BY <1>1
<1>2. ASSUME NEW a \in Users, NEW u \in Users, NEW role \in A!Roles, A!Create(a, u, role)
      PROVE  A!SuperAdminRemains'
  <2>1. slipped' = slipped /\ \A x \in Users : A!ActiveSuper(users[x]) => users'[x] = users[x]
    BY <1>2 DEF A!Create, A!ActiveSuper, AccountShape
  <2> QED
    BY <2>1
<1>3. ASSUME NEW q \in Requests, A!Commit(q) PROVE A!SuperAdminRemains'
  <2> DEFINE t == reqs[q].target
  <2>1. /\ \A u \in Users : u # t => A!ActiveSuper(users'[u]) = A!ActiveSuper(users[u])
        /\ users'[t] = A!Written(reqs[q])
        /\ slipped => slipped'
        /\ ~ reqs[q].counts /\ A!ActiveSuper(users[t]) /\ ~ A!ActiveSuper(A!Written(reqs[q])) => slipped'
        /\ reqs[q].counts => reqs[q].stage = "checked"
    BY <1>3, CommitWrites
  <2>2. CASE reqs[q].counts
    <3>1. PICK u \in reqs[q].held : u # t /\ A!ActiveSuper(users[u])
      BY <2>1, <2>2 DEF WitnessInv, Witnesses
    <3>2. u \in Users
      BY <3>1 DEF AccountShape, UnderWay
    <3> QED
      BY <2>1, <3>1, <3>2
  <2>3. CASE ~ reqs[q].counts /\ ~ slipped'
    <3>1. PICK u \in Users : A!ActiveSuper(users[u])
      BY <2>1, <2>3
    <3>2. A!ActiveSuper(users'[u])
      <4>1. CASE u = t
        BY <2>1, <2>3, <3>1, <4>1
      <4>2. CASE u # t
        BY <2>1, <3>1, <4>2
      <4> QED
        BY <4>1, <4>2
    <3> QED
      BY <3>2
  <2> QED
    BY <2>2, <2>3
<1> QED
  BY <1>1, <1>2, <1>3, ZenonT(60)
  DEF A!Next, A!Update, A!Delete, A!Start, A!Check, A!SetAccess, A!CommitAccess, A!CreateNamespace,
      A!DeleteNamespace, accessVars

\* Whatever is deleted, demoted and disabled at once, somebody can still
\* administer the system, unless a role was raised behind a request's back.
THEOREM SuperAdminsRemain == Spec => []SuperAdminRemains
<1>1. AccountInv /\ [Next]_vars => AccountInv'
  BY AccountShapeStep, AccountWitnessStep, AccountRemainsStep, StepOfOne DEF AccountInv
<1>2. AccountInv => SuperAdminRemains
  BY DEF AccountInv, SuperAdminRemains
<1> QED
  BY AllStart, AccountInitially, <1>1, <1>2, PTL DEF Spec

----------------------------------------------------------------------------
(* Registry *)

Configs == [id : Models \cup {0}, ver : Vers \cup {0}]
Changes == [kind : {"none", "update", "delete", "activate"}, id : Models \cup {0},
            ver : Vers \cup {0}, saw : BOOLEAN, others : SUBSET Models,
            stage : {"idle", "read", "saved", "fresh"}, cfg : Configs]
Under(a)   == changes[a].stage # "idle"
GroupBy(a) == GroupOf[changes[a].id]

\* Rows are only used once they were added, and a request is about such a row
\* and others of its group.
RegistryShape ==
  /\ models \in [Models -> [ver : Vers \cup {0}, active : BOOLEAN, deleted : BOOLEAN]]
  /\ \A i \in Models : models[i].ver = 0 => ~ models[i].active /\ ~ models[i].deleted
  /\ changes \in [Admins -> Changes]
  /\ \A a \in Admins : Under(a) =>
       /\ changes[a].id \notin changes[a].others
       /\ changes[a].kind # "none" /\ changes[a].id \in Models /\ models[changes[a].id].ver # 0
       /\ changes[a].others \subseteq {i \in Models : GroupOf[i] = GroupBy(a)}
       /\ changes[a].kind = "update" => changes[a].ver \in Vers
  /\ slots \in [R!Groups -> Configs] /\ lapped \subseteq R!Groups

\* What the rows say of a group.
InUse(g)  == R!InUse(models, g)
Wanted(g) == IF InUse(g) = {} THEN R!Nothing ELSE R!Row(CHOOSE i \in InUse(g) : TRUE)
\* What the registry has of it: nothing, where the start did not load it.
Served(g) == IF g \in unloaded THEN R!Nothing ELSE Wanted(g)

\* One request at a time, where no two have overlapped.
OneAtATime ==
  \A a, b \in Admins :
    Under(a) /\ Under(b) /\ GroupBy(a) = GroupBy(b) /\ GroupBy(a) \notin lapped => a = b

\* What such a request has read is still so when it writes; once it has written,
\* the configuration it hands to the registry is the one in use.
ReadIsCurrent(a) ==
  LET q == changes[a]  m == models[q.id] IN
  /\ ~ m.deleted /\ q.saw = m.active /\ q.cfg = R!Nothing
  /\ q.others = IF q.kind = "activate" THEN InUse(GroupBy(a)) \ {q.id} ELSE {}
SavedIsInUse(a) ==
  LET q == changes[a] IN
  /\ q.kind # "delete"
  /\ IF models[q.id].active THEN InUse(GroupBy(a)) = {q.id}
     ELSE q.kind = "update" /\ slots[GroupBy(a)] = Served(GroupBy(a))
RequestsKnow ==
  \A a \in Admins : Under(a) /\ GroupBy(a) \notin lapped =>
    /\ changes[a].stage = "read"  => ReadIsCurrent(a)
    /\ changes[a].stage = "saved" => SavedIsInUse(a)
    /\ changes[a].stage = "fresh" => changes[a].cfg = Wanted(GroupBy(a))

\* A slot lags behind the rows only while a request is between the two.
SlotsLag ==
  \A g \in R!Groups \ lapped :
    (\A a \in Admins : Under(a) /\ GroupBy(a) = g => changes[a].stage = "read")
      => slots[g] = Served(g)

\* The configuration texts are embedded with never changes: it cannot be edited,
\* and only itself can be activated.
Emb == "embedding"
EmbeddingIsFixed ==
  Emb \notin lapped =>
    /\ slots[Emb] \in {R!Nothing, Wanted(Emb)} /\ embedder \in {R!Nothing, Wanted(Emb)}
    /\ embedded \subseteq {Wanted(Emb).ver} /\ (embedded # {} => InUse(Emb) # {})
    /\ \A a \in Admins : Under(a) /\ GroupBy(a) = Emb /\ changes[a].stage # "fresh" =>
         IF changes[a].kind = "activate" THEN InUse(Emb) \subseteq {changes[a].id}
         ELSE ~ models[changes[a].id].active

RegistryInv ==
  RegistryShape /\ R!OneInUse /\ OneAtATime /\ RequestsKnow /\ SlotsLag /\ EmbeddingIsFixed

----------------------------------------------------------------------------

\* The only member of a set that has at most one.
LEMMA OnlyMember ==
  ASSUME NEW T, IsFiniteSet(T), Cardinality(T) <= 1, NEW i \in T
  PROVE  T = {i}
<1> SUFFICES ASSUME NEW j \in T, j # i PROVE FALSE
  OBVIOUS
<1>1. IsFiniteSet(T \ {i}) /\ Cardinality(T \ {i}) = Cardinality(T) - 1
  BY FS_RemoveElement
<1>2. Cardinality(T \ {i}) \in Nat /\ Cardinality(T) \in Nat
  BY <1>1, FS_CardinalityType
<1>3. Cardinality(T \ {i}) = 0
  BY <1>1, <1>2
<1>4. T \ {i} = {}
  BY <1>1, <1>3, FS_EmptySet
<1> QED
  BY <1>4

\* In a group with one configuration in use, that one is it.
LEMMA OnlyInUse ==
  ASSUME R!OneInUse, NEW g \in R!Groups, NEW i \in InUse(g)
  PROVE  InUse(g) = {i}
<1>1. InUse(g) \subseteq Models /\ Cardinality(InUse(g)) <= 1
  BY OneCardinality DEF R!OneInUse, InUse, R!InUse
<1>2. IsFiniteSet(InUse(g))
  BY <1>1, ModelsAreRows, FS_Subset
<1> QED
  BY <1>1, <1>2, OnlyMember

\* Rows that are not in use do not matter to what the rows say of a group.
LEMMA WantedStays ==
  ASSUME NEW g,
         \A i \in Models : GroupOf[i] = g =>
           /\ (i \in InUse(g)') <=> (i \in InUse(g))
           /\ i \in InUse(g) => models'[i].ver = models[i].ver
  PROVE  InUse(g)' = InUse(g) /\ Wanted(g)' = Wanted(g)
<1>1. InUse(g)' = InUse(g)
  BY DEF InUse, R!InUse
<1>2. CASE InUse(g) = {}
  BY <1>1, <1>2 DEF Wanted, R!Nothing
<1>3. CASE InUse(g) # {}
  <2> DEFINE c == CHOOSE i \in InUse(g) : TRUE
  <2>1. c \in InUse(g) /\ c \in Models /\ GroupOf[c] = g
    BY <1>3 DEF InUse, R!InUse
  <2>2. models'[c].ver = models[c].ver
    BY <2>1
  <2>3. Wanted(g) = [id |-> c, ver |-> models[c].ver]
    BY <1>3 DEF Wanted, R!Row
  <2>4. Wanted(g)' = [id |-> c, ver |-> models'[c].ver]
    BY <1>1, <1>3 DEF Wanted, R!Row
  <2> QED
    BY <1>1, <2>2, <2>3, <2>4
<1> QED
  BY <1>2, <1>3

\* With one configuration in use, that is the one wanted.
LEMMA WantedIs ==
  ASSUME NEW g, NEW i, InUse(g) = {i}
  PROVE  Wanted(g) = R!Row(i)
BY DEF Wanted

\* What a group is served is a configuration.
LEMMA WantedShape ==
  ASSUME RegistryShape, NEW g
  PROVE  Wanted(g) \in Configs /\ (InUse(g) # {} => Wanted(g).ver # 0 /\ Wanted(g) # R!Nothing)
<1>1. CASE InUse(g) = {}
  BY <1>1 DEF Wanted, R!Nothing, Configs
<1>2. CASE InUse(g) # {}
  <2> DEFINE c == CHOOSE i \in InUse(g) : TRUE
  <2>1. c \in Models /\ models[c].active
    BY <1>2 DEF InUse, R!InUse
  <2>2. Wanted(g) = [id |-> c, ver |-> models[c].ver]
    BY <1>2 DEF Wanted, R!Row
  <2>3. models[c].ver \in Vers \cup {0} /\ models[c].ver # 0
    BY <2>1 DEF RegistryShape
  <2> HIDE DEF c
  <2> QED
    BY <2>1, <2>2, <2>3 DEF Configs, R!Nothing
<1> QED
  BY <1>1, <1>2

\* The requests that change nothing here are the calls.
LEMMA RegistryMoves ==
  ASSUME [R!Next]_registryVars
  PROVE  \/ \E i \in Models, v \in Vers : R!Add(i, v)
         \/ \E a \in Admins, i \in Models, v \in Vers \cup {0}, op \in {"update", "delete", "activate"} :
              (op = "update" => v \in Vers) /\ R!Begin(a, op, i, v)
         \/ \E a \in Admins : R!Commit(a)
         \/ \E a \in Admins : R!Reread(a)
         \/ \E a \in Admins : R!Refresh(a)
         \/ \E missed \in SUBSET R!Groups : R!Restart(missed)
         \/ R!Embed
         \/ UNCHANGED <<models, changes, slots, lapped, unloaded, embedder, embedded>>
BY DEF R!Next, R!Resolve, R!Reuse, R!Build, R!Take, R!Answer, registryVars

\* Nothing is in use and nobody at work at the start.
LEMMA RegistryInitially == R!Init => RegistryInv
<1> SUFFICES ASSUME R!Init PROVE RegistryInv
  OBVIOUS
<1>1. \A g : InUse(g) = {} /\ Wanted(g) = R!Nothing
  BY DEF R!Init, InUse, R!InUse, Wanted
<1>2. \A a \in Admins : ~ Under(a)
  BY DEF R!Init, R!NoReq, Under
<1>3. RegistryShape
  BY <1>2 DEF R!Init, R!NoReq, R!Nothing, RegistryShape, Changes, Configs
<1>4. R!OneInUse
  BY <1>1, OneCardinality, FS_EmptySet DEF R!OneInUse, InUse
<1>5. OneAtATime /\ RequestsKnow
  BY <1>2 DEF OneAtATime, RequestsKnow
<1>6. SlotsLag
  BY <1>1 DEF R!Init, SlotsLag, Served
<1>7. EmbeddingIsFixed
  BY <1>1, <1>2 DEF R!Init, EmbeddingIsFixed, Emb, R!Groups
<1> QED
  BY <1>3, <1>4, <1>5, <1>6, <1>7 DEF RegistryInv

\* A commit is refused, or it writes what the request made of the rows it had
\* read, all of one group.
LEMMA Committed ==
  ASSUME RegistryShape, NEW a \in Admins, R!Commit(a)
  PROVE  /\ changes[a].stage = "read" /\ Under(a)
         /\ UNCHANGED <<slots, lapped, unloaded, embedder, embedded>>
         /\ changes' = [changes EXCEPT ![a] = changes'[a]]
         /\ \/ models' = models /\ changes'[a] = R!NoReq
            \/ /\ models' = R!Written(changes[a])
               /\ Cardinality(R!InUse(models', GroupBy(a))) <= 1
               /\ \/ changes[a].kind # "delete" /\ changes'[a] = [changes[a] EXCEPT !.stage = "saved"]
                  \/ changes[a].kind = "delete" /\ changes[a].saw
                       /\ changes'[a] = [changes[a] EXCEPT !.stage = "fresh"]
                  \/ changes[a].kind = "delete" /\ ~ changes[a].saw /\ changes'[a] = R!NoReq
         /\ \A i \in Models : GroupOf[i] # GroupBy(a) => models'[i] = models[i]
<1> DEFINE q == changes[a]
           r == R!Written(q)
<1>1. q.stage = "read" /\ Under(a) /\ q \in Changes
  BY DEF R!Commit, Under, RegistryShape
<1>2. \A i \in Models : GroupOf[i] # GroupBy(a) => r[i] = models[i]
  BY <1>1 DEF R!Written, R!RowWritten, GroupBy, RegistryShape
<1>3. CASE R!Unique(r, GroupOf[q.id])
  <2>1. models' = r /\ UNCHANGED <<slots, lapped, unloaded, embedder, embedded>>
    BY <1>3 DEF R!Commit
  <2>2. Cardinality(R!InUse(models', GroupBy(a))) <= 1
    BY <1>3, <2>1, OneCardinality DEF R!Unique, GroupBy
  <2> HIDE DEF r
  <2>3. changes' = [changes EXCEPT ![a] = CASE q.kind # "delete" -> [q EXCEPT !.stage = "saved"]
                                            [] q.kind = "delete" /\ q.saw -> [q EXCEPT !.stage = "fresh"]
                                            [] q.kind = "delete" /\ ~ q.saw -> R!NoReq]
    BY <1>3 DEF R!Commit, r
  <2>4. /\ q.kind # "delete" => changes' = [changes EXCEPT ![a] = [q EXCEPT !.stage = "saved"]]
        /\ q.kind = "delete" /\ q.saw => changes' = [changes EXCEPT ![a] = [q EXCEPT !.stage = "fresh"]]
        /\ q.kind = "delete" /\ ~ q.saw => changes' = [changes EXCEPT ![a] = R!NoReq]
    <3>1. ASSUME q.kind # "delete" PROVE changes' = [changes EXCEPT ![a] = [q EXCEPT !.stage = "saved"]]
      BY <2>3, <3>1
    <3>2. ASSUME q.kind = "delete", q.saw
          PROVE  changes' = [changes EXCEPT ![a] = [q EXCEPT !.stage = "fresh"]]
      BY <2>3, <3>2
    <3>3. ASSUME q.kind = "delete", ~ q.saw PROVE changes' = [changes EXCEPT ![a] = R!NoReq]
      BY <2>3, <3>3
    <3> QED
      BY <3>1, <3>2, <3>3
  <2>5. /\ q.kind # "delete" => changes'[a] = [q EXCEPT !.stage = "saved"]
        /\ q.kind = "delete" /\ q.saw => changes'[a] = [q EXCEPT !.stage = "fresh"]
        /\ q.kind = "delete" /\ ~ q.saw => changes'[a] = R!NoReq
    BY <2>4 DEF RegistryShape
  <2>6. changes' = [changes EXCEPT ![a] = changes'[a]]
    BY <2>4, <2>5
  <2>7. models' = R!Written(changes[a])
    BY <2>1 DEF r
  <2>8. \A i \in Models : GroupOf[i] # GroupBy(a) => models'[i] = models[i]
    BY <1>2, <2>1
  <2> HIDE DEF q
  <2>9. changes[a].kind # "delete" \/ (changes[a].kind = "delete" /\ changes[a].saw)
        \/ (changes[a].kind = "delete" /\ ~ changes[a].saw)
    OBVIOUS
  <2> QED
    BY <1>1, <2>1, <2>2, <2>5, <2>6, <2>7, <2>8, <2>9 DEF q
<1>4. CASE ~ R!Unique(r, GroupOf[q.id])
  <2> HIDE DEF r
  <2>1. models' = models /\ changes' = [changes EXCEPT ![a] = R!NoReq]
        /\ UNCHANGED <<slots, lapped, unloaded, embedder, embedded>>
    BY <1>4 DEF R!Commit, r
  <2> QED
    BY <1>1, <2>1 DEF RegistryShape
<1> QED
  BY <1>3, <1>4

\* The shape of the state is kept.
LEMMA RegistryShapeStep == RegistryShape /\ [R!Next]_registryVars => RegistryShape'
<1> SUFFICES ASSUME RegistryShape, [R!Next]_registryVars PROVE RegistryShape'
  OBVIOUS
<1>1. /\ models \in [Models -> [ver : Vers \cup {0}, active : BOOLEAN, deleted : BOOLEAN]]
      /\ changes \in [Admins -> Changes] /\ slots \in [R!Groups -> Configs] /\ lapped \subseteq R!Groups
      /\ \A i \in Models : models[i].ver = 0 => ~ models[i].active /\ ~ models[i].deleted
      /\ 0 \notin Vers
  BY ModelsAreRows DEF RegistryShape
<1>2. R!NoReq \in Changes /\ R!NoReq.stage = "idle"
  BY DEF R!NoReq, R!Nothing, Changes, Configs
<1>3. ASSUME NEW i \in Models, NEW v \in Vers, R!Add(i, v) PROVE RegistryShape'
  <2>1. models' = [models EXCEPT ![i].ver = v] /\ UNCHANGED <<changes, slots, lapped>>
    BY <1>3 DEF R!Add
  <2>2. models' \in [Models -> [ver : Vers \cup {0}, active : BOOLEAN, deleted : BOOLEAN]]
    BY <1>1, <2>1
  <2>3. models'[i].ver = v /\ v # 0 /\ \A j \in Models : j # i => models'[j] = models[j]
    BY <1>1, <2>1
  <2> QED
    BY <1>1, <2>1, <2>2, <2>3 DEF RegistryShape, Under, GroupBy
<1>4. ASSUME NEW a \in Admins, NEW i \in Models, NEW v \in Vers \cup {0},
             NEW kd \in {"update", "delete", "activate"}, kd = "update" => v \in Vers, R!Begin(a, kd, i, v)
      PROVE  RegistryShape'
  <2> DEFINE q == [kind |-> kd, id |-> i, ver |-> v, saw |-> models[i].active, stage |-> "read",
                   others |-> IF kd = "activate" THEN R!InUse(models, GroupOf[i]) \ {i} ELSE {},
                   cfg |-> R!Nothing]
  <2>1. changes' = [changes EXCEPT ![a] = q] /\ UNCHANGED <<models, slots>> /\ models[i].ver # 0
        /\ lapped' \subseteq lapped \cup {GroupOf[i]}
    BY <1>4 DEF R!Begin, R!Live
  <2>2. q \in Changes /\ q.others \subseteq {j \in Models : GroupOf[j] = GroupOf[i]} /\ i \notin q.others
    BY <1>1 DEF Changes, Configs, R!Nothing, R!InUse
  <2>3. q.kind = kd /\ q.id = i /\ q.ver = v /\ q.kind # "none"
    OBVIOUS
  <2>4. GroupOf[i] \in R!Groups
    BY ModelsAreRows DEF R!Groups
  <2> HIDE DEF q
  <2>5. changes' \in [Admins -> Changes] /\ changes'[a] = q /\ \A b \in Admins : b # a => changes'[b] = changes[b]
    BY <1>1, <2>1, <2>2
  <2>6. lapped' \subseteq R!Groups
    BY <1>1, <2>1, <2>4
  <2> QED
    BY <1>4, <2>1, <2>2, <2>3, <2>5, <2>6 DEF RegistryShape, Under, GroupBy
<1>5. ASSUME NEW a \in Admins, R!Commit(a) PROVE RegistryShape'
  <2> DEFINE q == changes[a]
  <2>1. /\ changes' = [changes EXCEPT ![a] = changes'[a]] /\ UNCHANGED <<slots, lapped>> /\ Under(a)
        /\ \/ changes'[a] = R!NoReq
           \/ changes'[a] = [q EXCEPT !.stage = "saved"]
           \/ changes'[a] = [q EXCEPT !.stage = "fresh"]
        /\ models' = models \/ models' = R!Written(q)
    BY <1>5, Committed
  <2>2. q \in Changes /\ q.kind # "none" /\ q.id \in Models /\ models[q.id].ver # 0 /\ q.id \notin q.others
        /\ q.others \subseteq {i \in Models : GroupOf[i] = GroupOf[q.id]}
        /\ (q.kind = "update" => q.ver \in Vers)
    BY <1>1, <2>1 DEF RegistryShape, GroupBy
  <2> HIDE DEF q
  <2>3. changes'[a] \in Changes
    BY <1>2, <2>1, <2>2 DEF Changes
  <2>4. changes' \in [Admins -> Changes] /\ \A b \in Admins : b # a => changes'[b] = changes[b]
    BY <1>1, <2>1, <2>3
  <2>5. changes'[a] = R!NoReq \/ (changes'[a].kind = q.kind /\ changes'[a].id = q.id
          /\ changes'[a].others = q.others /\ changes'[a].ver = q.ver)
    BY <2>1, <2>2 DEF Changes
  <2>6. /\ models' \in [Models -> [ver : Vers \cup {0}, active : BOOLEAN, deleted : BOOLEAN]]
        /\ \A i \in Models : models'[i].ver = 0 => ~ models'[i].active /\ ~ models'[i].deleted
        /\ \A i \in Models : models[i].ver # 0 => models'[i].ver # 0
    <3>1. CASE models' = models
      BY <1>1, <3>1
    <3>2. CASE models' = R!Written(q)
      <4>1. ASSUME NEW i \in Models
            PROVE  /\ models'[i] \in [ver : Vers \cup {0}, active : BOOLEAN, deleted : BOOLEAN]
                   /\ models'[i].ver = 0 => ~ models'[i].active /\ ~ models'[i].deleted
                   /\ models[i].ver # 0 => models'[i].ver # 0
        <5>1. models[i] \in [ver : Vers \cup {0}, active : BOOLEAN, deleted : BOOLEAN] /\ q.saw \in BOOLEAN
          BY <1>1, <2>2 DEF Changes
        <5>2. \/ i = q.id /\ q.kind = "update" /\ models'[i] = [models[i] EXCEPT !.ver = q.ver]
              \/ i = q.id /\ models'[i] = [models[i] EXCEPT !.active = @ \/ ~ q.saw]
              \/ i = q.id /\ models'[i] = [models[i] EXCEPT !.deleted = TRUE, !.active = @ /\ ~ q.saw]
              \/ models'[i] = [models[i] EXCEPT !.active = FALSE]
              \/ models'[i] = models[i]
          <6>1. models'[i] = R!RowWritten(q, i)
            BY <3>2 DEF R!Written
          <6> QED
            BY <2>2, <6>1 DEF Changes, R!RowWritten
        <5> QED
          BY <1>1, <2>2, <5>1, <5>2, ZenonT(60)
      <4>2. R!Written(q) = [i \in Models |-> R!Written(q)[i]]
        BY DEF R!Written
      <4>3. models' = [i \in Models |-> models'[i]]
        BY <3>2, <4>2
      <4> QED
        BY <4>1, <4>3
    <3> QED
      BY <2>1, <3>1, <3>2
  <2> QED
    BY <1>1, <1>2, <2>1, <2>2, <2>4, <2>5, <2>6 DEF RegistryShape, Under, GroupBy
<1>6. ASSUME NEW a \in Admins, R!Reread(a) PROVE RegistryShape'
  <2> DEFINE q == changes[a]
  <2>1. /\ changes' = [changes EXCEPT ![a] = changes'[a]] /\ UNCHANGED <<models, slots, lapped>> /\ Under(a)
        /\ changes'[a] = R!NoReq \/ changes'[a] = [q EXCEPT !.stage = "fresh", !.cfg = R!Row(q.id)]
    BY <1>1, <1>6 DEF R!Reread, Under
  <2>2. q \in Changes /\ q.id \in Models
    BY <1>1, <2>1 DEF RegistryShape
  <2>3. R!Row(q.id) \in Configs
    BY <1>1, <2>2 DEF R!Row, Configs
  <2>4. changes'[a] \in Changes
    BY <1>2, <2>1, <2>2, <2>3 DEF Changes
  <2>5. changes'[a] = R!NoReq \/ (changes'[a].kind = q.kind /\ changes'[a].id = q.id
          /\ changes'[a].others = q.others /\ changes'[a].ver = q.ver)
    BY <2>1, <2>2 DEF Changes
  <2> HIDE DEF q
  <2>6. changes' \in [Admins -> Changes] /\ \A b \in Admins : b # a => changes'[b] = changes[b]
    BY <1>1, <2>1, <2>4
  <2> QED
    BY <1>1, <1>2, <2>1, <2>2, <2>5, <2>6 DEF RegistryShape, Under, GroupBy, q
<1>7. ASSUME NEW a \in Admins, R!Refresh(a) PROVE RegistryShape'
  <2>1. changes' = [changes EXCEPT ![a] = R!NoReq] /\ UNCHANGED <<models, lapped>>
        /\ slots' = [slots EXCEPT ![GroupOf[changes[a].id]] = changes[a].cfg]
    BY <1>7 DEF R!Refresh
  <2>2. slots' \in [R!Groups -> Configs] /\ changes' \in [Admins -> Changes]
    BY <1>1, <1>2, <2>1 DEF Changes
  <2> QED
    BY <1>1, <1>2, <2>1, <2>2 DEF RegistryShape, Under, GroupBy
<1>8. ASSUME NEW missed \in SUBSET R!Groups, R!Restart(missed) PROVE RegistryShape'
  <2>1. /\ changes' = [a \in Admins |-> R!NoReq] /\ models' = models /\ lapped' \subseteq lapped
        /\ slots' = [g \in R!Groups |-> IF g \in missed THEN R!Nothing ELSE Wanted(g)]
    BY <1>8 DEF R!Restart, Wanted, InUse
  <2>2. slots' \in [R!Groups -> Configs]
    BY <2>1, WantedShape DEF Configs, R!Nothing
  <2> QED
    BY <1>1, <1>2, <2>1, <2>2 DEF RegistryShape, Under
<1>9. CASE UNCHANGED <<models, changes, slots, lapped>>
  BY <1>1, <1>9 DEF RegistryShape, Under, GroupBy
<1> QED
  BY <1>3, <1>4, <1>5, <1>6, <1>7, <1>8, <1>9, RegistryMoves DEF R!Embed

\* The invariants beside the shape.
RegistryFacts == R!OneInUse /\ OneAtATime /\ RequestsKnow /\ SlotsLag /\ EmbeddingIsFixed

\* A row added is not in use, and no request is about it.
LEMMA RegistryAdd ==
  ASSUME RegistryShape, RegistryFacts, NEW i \in Models, NEW v \in Vers, R!Add(i, v)
  PROVE  RegistryFacts'
<1>1. /\ models' = [models EXCEPT ![i].ver = v] /\ models[i].ver = 0
      /\ UNCHANGED <<changes, slots, embedder, lapped, unloaded, embedded>>
  BY DEF R!Add
<1>2. /\ \A j \in Models : j # i => models'[j] = models[j]
      /\ models'[i].active = models[i].active /\ models'[i].deleted = models[i].deleted
      /\ ~ models[i].active /\ models \in [Models -> [ver : Vers \cup {0}, active : BOOLEAN, deleted : BOOLEAN]]
  BY <1>1 DEF RegistryShape
<1>3. \A g : InUse(g)' = InUse(g) /\ Wanted(g)' = Wanted(g)
  <2> SUFFICES ASSUME NEW g PROVE InUse(g)' = InUse(g) /\ Wanted(g)' = Wanted(g)
    OBVIOUS
  <2>1. \A j \in Models : GroupOf[j] = g =>
          /\ (j \in InUse(g)') <=> (j \in InUse(g))
          /\ j \in InUse(g) => models'[j].ver = models[j].ver
    BY <1>2 DEF InUse, R!InUse
  <2> QED
    BY <2>1, WantedStays
<1>4. \A a \in Admins : Under(a) => changes[a].id \in Models /\ models'[changes[a].id] = models[changes[a].id]
  BY <1>1, <1>2 DEF RegistryShape
<1>5. R!OneInUse'
  BY <1>3, OneCardinality DEF RegistryFacts, R!OneInUse, InUse
<1>6. OneAtATime'
  BY <1>1 DEF RegistryFacts, OneAtATime, Under, GroupBy
<1>7. RequestsKnow'
  <2>1. ASSUME NEW b \in Admins, Under(b), GroupBy(b) \notin lapped
        PROVE  /\ changes'[b].stage = "read"  => ReadIsCurrent(b)'
               /\ changes'[b].stage = "saved" => SavedIsInUse(b)'
               /\ changes'[b].stage = "fresh" => changes'[b].cfg = Wanted(GroupBy(b))'
    <3>1. PICK h : h = GroupBy(b)
      OBVIOUS
    <3>2. /\ h = GroupBy(b)' /\ changes' = changes /\ slots' = slots
          /\ models'[changes[b].id] = models[changes[b].id]
          /\ Served(h)' = Served(h) /\ InUse(h)' = InUse(h) /\ Wanted(h)' = Wanted(h)
      BY <1>1, <1>3, <1>4, <2>1, <3>1 DEF Served, GroupBy
    <3>3. /\ changes[b].stage = "read"  => ReadIsCurrent(b)
          /\ changes[b].stage = "saved" => SavedIsInUse(b)
          /\ changes[b].stage = "fresh" => changes[b].cfg = Wanted(GroupBy(b))
      BY <2>1 DEF RegistryFacts, RequestsKnow
    <3> QED
      BY <3>1, <3>2, <3>3 DEF ReadIsCurrent, SavedIsInUse
  <2> QED
    BY <1>1, <2>1 DEF RequestsKnow, Under, GroupBy
<1>8. SlotsLag'
  BY <1>1, <1>3 DEF RegistryFacts, SlotsLag, Served, Under, GroupBy
<1>9. EmbeddingIsFixed'
  BY <1>1, <1>3, <1>4 DEF RegistryFacts, EmbeddingIsFixed, Under, GroupBy
<1> QED
  BY <1>5, <1>6, <1>7, <1>8, <1>9 DEF RegistryFacts

\* A request that begins reads what is so, and overlaps where another one is.
LEMMA RegistryBegin ==
  ASSUME RegistryShape, RegistryFacts, NEW a \in Admins, NEW i \in Models, NEW v \in Vers \cup {0},
         NEW kd \in {"update", "delete", "activate"}, R!Begin(a, kd, i, v)
  PROVE  RegistryFacts'
<1> DEFINE g0 == GroupOf[i]
           q  == [kind |-> kd, id |-> i, ver |-> v, saw |-> models[i].active, stage |-> "read",
                  others |-> IF kd = "activate" THEN R!InUse(models, GroupOf[i]) \ {i} ELSE {},
                  cfg |-> R!Nothing]
<1>1. /\ changes' = [changes EXCEPT ![a] = q] /\ ~ Under(a) /\ ~ models[i].deleted
      /\ R!Allowed(kd, i) /\ UNCHANGED <<models, slots, unloaded, embedder, embedded>>
      /\ lapped' = lapped \cup {h \in {GroupOf[i]} :
                            \E b \in Admins : changes[b].stage # "idle" /\ GroupOf[changes[b].id] = h}
  BY DEF R!Begin, R!Live, Under
<1>2. \A g : InUse(g)' = InUse(g) /\ Wanted(g)' = Wanted(g)
  BY <1>1 DEF InUse, Wanted, R!InUse, R!Row
<1>3. /\ changes'[a] = q /\ \A b \in Admins : b # a => changes'[b] = changes[b]
  BY <1>1 DEF RegistryShape
<1>4. /\ Under(a)' /\ GroupBy(a)' = g0 /\ changes'[a].stage = "read"
      /\ \A b \in Admins : b # a => (Under(b)' <=> Under(b)) /\ GroupBy(b)' = GroupBy(b)
  BY <1>3 DEF Under, GroupBy
<1>5. /\ lapped \subseteq lapped'
      /\ g0 \notin lapped' => \A b \in Admins : Under(b) => GroupBy(b) # g0
  BY <1>1 DEF Under, GroupBy
<1>6. R!OneInUse'
  BY <1>2, OneCardinality DEF RegistryFacts, R!OneInUse, InUse
<1>7. OneAtATime'
  BY <1>4, <1>5 DEF RegistryFacts, OneAtATime
<1>8. RequestsKnow'
  <2>1. ReadIsCurrent(a)'
    BY <1>1, <1>2, <1>3, <1>4 DEF ReadIsCurrent, InUse
  <2>2. ASSUME NEW b \in Admins, b # a, Under(b), GroupBy(b) \notin lapped
        PROVE  /\ changes'[b].stage = "read"  => ReadIsCurrent(b)'
               /\ changes'[b].stage = "saved" => SavedIsInUse(b)'
               /\ changes'[b].stage = "fresh" => changes'[b].cfg = Wanted(GroupBy(b))'
    BY <1>1, <1>2, <1>3, <1>4, <2>2 DEF RegistryFacts, RequestsKnow, ReadIsCurrent, SavedIsInUse, Served
  <2> QED
    BY <1>3, <1>4, <1>5, <2>1, <2>2 DEF RequestsKnow
<1>9. SlotsLag'
  BY <1>1, <1>2, <1>3, <1>4, <1>5 DEF RegistryFacts, SlotsLag, Served
<1>10. EmbeddingIsFixed'
  <2> SUFFICES ASSUME Emb \notin lapped' PROVE EmbeddingIsFixed'
    BY DEF EmbeddingIsFixed
  <2>1. EmbeddingIsFixed /\ Emb \notin lapped
    BY <1>5 DEF RegistryFacts
  <2>2. g0 = Emb => IF kd = "activate" THEN InUse(Emb) \subseteq {i} ELSE ~ models[i].active
    BY <1>1 DEF R!Allowed, R!Embedding, Emb, InUse
  <2> QED
    BY <1>1, <1>2, <1>3, <1>4, <2>1, <2>2 DEF EmbeddingIsFixed
<1> QED
  BY <1>6, <1>7, <1>8, <1>9, <1>10 DEF RegistryFacts

\* What a commit that is not refused does to its group, when no request overlapped:
\* an update leaves who is in use, an activation leaves the row alone in use, and a
\* delete of the row in use leaves none.
LEMMA CommitMoves ==
  ASSUME RegistryShape, RegistryFacts, NEW a \in Admins, R!Commit(a),
         models' = R!Written(changes[a]), NEW q, q = changes[a],
         NEW g, g = GroupBy(a), g \notin lapped
  PROVE  /\ q.kind # "activate" /\ ~ q.saw => InUse(g)' = InUse(g) /\ Wanted(g)' = Wanted(g)
         /\ q.kind = "update" /\ q.saw => InUse(g)' = {q.id}
         /\ q.kind = "activate" => InUse(g)' = {q.id} /\ models'[q.id].ver = models[q.id].ver
         /\ q.kind = "delete" /\ q.saw => InUse(g)' = {}
         /\ q.kind \in {"update", "delete", "activate"} /\ q.id \in Models
         /\ models'[q.id].active <=>
              ((q.kind = "update" /\ q.saw) \/ q.kind = "activate")
<1> DEFINE m == models[q.id]
<1>1. q.stage = "read" /\ Under(a)
  BY Committed
<1>2. /\ q \in Changes /\ q.kind # "none" /\ q.id \in Models
      /\ q.others \subseteq {i \in Models : GroupOf[i] = g}
      /\ models \in [Models -> [ver : Vers \cup {0}, active : BOOLEAN, deleted : BOOLEAN]]
      /\ GroupOf[q.id] = g /\ g \in R!Groups
  BY <1>1, ModelsAreRows DEF RegistryShape, GroupBy, R!Groups
<1>3. /\ ~ m.deleted /\ q.saw = m.active
      /\ q.others = IF q.kind = "activate" THEN InUse(g) \ {q.id} ELSE {}
  BY <1>1 DEF RegistryFacts, RequestsKnow, ReadIsCurrent
<1>4. q.kind \in {"update", "delete", "activate"} /\ q.saw \in BOOLEAN
      /\ m \in [ver : Vers \cup {0}, active : BOOLEAN, deleted : BOOLEAN]
  BY <1>2 DEF Changes
<1>5. q.saw => InUse(g) = {q.id}
  <2>1. q.saw => q.id \in InUse(g)
    BY <1>2, <1>3, <1>4 DEF InUse, R!InUse
  <2> QED
    BY <1>2, <2>1, OnlyInUse DEF RegistryFacts
<1>6. /\ q.kind = "update" => models'[q.id] = [m EXCEPT !.ver = q.ver]
      /\ q.kind = "activate" => models'[q.id] = [m EXCEPT !.active = TRUE]
      /\ q.kind = "delete" => models'[q.id] = [m EXCEPT !.deleted = TRUE, !.active = FALSE]
  BY <1>2, <1>3, <1>4 DEF R!Written, R!RowWritten
<1>7. \A j \in Models : j # q.id =>
        models'[j] = IF j \in q.others THEN [models[j] EXCEPT !.active = FALSE] ELSE models[j]
  BY <1>2 DEF R!Written, R!RowWritten
<1> HIDE DEF m
<1>8. ASSUME q.kind # "activate", ~ q.saw
      PROVE  InUse(g)' = InUse(g) /\ Wanted(g)' = Wanted(g)
  <2>1. \A j \in Models : j # q.id => models'[j] = models[j]
    BY <1>3, <1>7, <1>8
  <2>2. ~ models[q.id].active /\ ~ models'[q.id].active
    BY <1>3, <1>4, <1>6, <1>8 DEF m
  <2>3. \A j \in Models : GroupOf[j] = g =>
          /\ (j \in InUse(g)') <=> (j \in InUse(g))
          /\ j \in InUse(g) => models'[j].ver = models[j].ver
    BY <2>1, <2>2 DEF InUse, R!InUse
  <2> QED
    BY <2>3, WantedStays
<1>9. ASSUME q.kind = "update", q.saw PROVE InUse(g)' = {q.id}
  <2>1. \A j \in Models : j # q.id => models'[j] = models[j]
    BY <1>3, <1>7, <1>9
  <2>2. models'[q.id].active = models[q.id].active /\ models'[q.id].deleted = models[q.id].deleted
    BY <1>4, <1>6, <1>9 DEF m
  <2>3. InUse(g)' = InUse(g)
    BY <2>1, <2>2, SMTT(30) DEF InUse, R!InUse
  <2> QED
    BY <1>5, <1>9, <2>3
<1>10. ASSUME q.kind = "activate" PROVE InUse(g)' = {q.id} /\ models'[q.id].ver = models[q.id].ver
  <2>1. models'[q.id].active /\ ~ models'[q.id].deleted /\ models'[q.id].ver = models[q.id].ver
    BY <1>3, <1>4, <1>6, <1>10 DEF m
  <2>2. \A j \in Models : j # q.id /\ GroupOf[j] = g => ~ models'[j].active \/ models'[j].deleted
    BY <1>2, <1>3, <1>7, <1>10, ZenonT(60) DEF InUse, R!InUse
  <2>3. {i \in Models : GroupOf[i] = g /\ models'[i].active /\ ~ models'[i].deleted} = {q.id}
    BY <1>2, <2>1, <2>2
  <2> QED
    BY <2>1, <2>3 DEF InUse, R!InUse
<1>11. ASSUME q.kind = "delete", q.saw PROVE InUse(g)' = {}
  <2>1. ~ models'[q.id].active
    BY <1>4, <1>6, <1>11 DEF m
  <2>2. \A j \in Models : j # q.id => models'[j] = models[j]
    BY <1>3, <1>7, <1>11
  <2>3. InUse(g) = {q.id}
    BY <1>5, <1>11
  <2> QED
    BY <2>1, <2>2, <2>3 DEF InUse, R!InUse
<1>12. models'[q.id].active <=> ((q.kind = "update" /\ q.saw) \/ q.kind = "activate")
  BY <1>3, <1>4, <1>6 DEF m
<1> QED
  BY <1>2, <1>4, <1>8, <1>9, <1>10, <1>11, <1>12

\* A commit writes what the request is known to have read, in its group only.
LEMMA RegistryCommit ==
  ASSUME RegistryShape, RegistryFacts, NEW a \in Admins, R!Commit(a)
  PROVE  RegistryFacts'
<1>1. PICK q : q = changes[a]
  OBVIOUS
<1>2. PICK g : g = GroupBy(a)
  OBVIOUS
<1>3. /\ q.stage = "read" /\ Under(a)
      /\ UNCHANGED <<slots, lapped, unloaded, embedder, embedded>>
      /\ changes' = [changes EXCEPT ![a] = changes'[a]]
      /\ \/ models' = models /\ changes'[a] = R!NoReq
         \/ /\ models' = R!Written(q)
            /\ Cardinality(R!InUse(models', g)) <= 1
            /\ \/ q.kind # "delete" /\ changes'[a] = [q EXCEPT !.stage = "saved"]
               \/ q.kind = "delete" /\ q.saw /\ changes'[a] = [q EXCEPT !.stage = "fresh"]
               \/ q.kind = "delete" /\ ~ q.saw /\ changes'[a] = R!NoReq
      /\ \A i \in Models : GroupOf[i] # g => models'[i] = models[i]
  BY <1>1, <1>2, Committed
<1>4. /\ q \in Changes /\ q.kind # "none" /\ q.id \in Models /\ GroupOf[q.id] = g /\ g \in R!Groups
      /\ \A b \in Admins : b # a => changes'[b] = changes[b]
      /\ \A b \in Admins : Under(b) => changes[b].id \in Models
  BY <1>1, <1>2, <1>3, ModelsAreRows DEF RegistryShape, GroupBy, R!Groups
<1>5. /\ Under(a)' => GroupBy(a)' = g
      /\ \A b \in Admins : b # a => (Under(b)' <=> Under(b)) /\ GroupBy(b)' = GroupBy(b)
  BY <1>1, <1>2, <1>3, <1>4 DEF Under, GroupBy, R!NoReq, Changes
<1>6. \A h : h # g => InUse(h)' = InUse(h) /\ Wanted(h)' = Wanted(h)
  <2> SUFFICES ASSUME NEW h, h # g PROVE InUse(h)' = InUse(h) /\ Wanted(h)' = Wanted(h)
    OBVIOUS
  <2>1. \A j \in Models : GroupOf[j] = h =>
          /\ (j \in InUse(h)') <=> (j \in InUse(h))
          /\ j \in InUse(h) => models'[j].ver = models[j].ver
    BY <1>3 DEF InUse, R!InUse
  <2> QED
    BY <2>1, WantedStays
<1>7. R!OneInUse'
  <2> SUFFICES ASSUME NEW h \in R!Groups PROVE Cardinality(R!InUse(models', h)) <= 1
    BY OneCardinality DEF R!OneInUse
  <2>1. CASE h # g \/ models' = models
    BY <1>6, <2>1, OneCardinality DEF RegistryFacts, R!OneInUse, InUse
  <2>2. CASE h = g /\ models' # models
    BY <1>3, <2>2
  <2> QED
    BY <2>1, <2>2
<1>8. OneAtATime'
  BY <1>2, <1>3, <1>5 DEF RegistryFacts, OneAtATime
<1>9. \A b \in Admins : b # a /\ Under(b) /\ GroupBy(b) \notin lapped => GroupBy(b) # g
  BY <1>2, <1>3 DEF RegistryFacts, OneAtATime
<1>10. g \notin lapped => slots[g] = Served(g)
  BY <1>1, <1>2, <1>3, <1>4, <1>9 DEF RegistryFacts, SlotsLag
<1>11. ASSUME models' = R!Written(q), g \notin lapped
       PROVE  /\ q.kind # "activate" /\ ~ q.saw => InUse(g)' = InUse(g) /\ Wanted(g)' = Wanted(g)
              /\ q.kind = "update" /\ q.saw => InUse(g)' = {q.id}
              /\ q.kind = "activate" => InUse(g)' = {q.id} /\ models'[q.id].ver = models[q.id].ver
              /\ q.kind = "delete" /\ q.saw => InUse(g)' = {}
              /\ q.kind \in {"update", "delete", "activate"} /\ q.id \in Models
              /\ models'[q.id].active <=> ((q.kind = "update" /\ q.saw) \/ q.kind = "activate")
  BY <1>1, <1>2, <1>11, CommitMoves
<1>12. ReadIsCurrent(a) \/ g \in lapped
  BY <1>1, <1>2, <1>3 DEF RegistryFacts, RequestsKnow
<1>13. RequestsKnow'
  <2>1. ASSUME NEW b \in Admins, b # a, Under(b), GroupBy(b) \notin lapped
        PROVE  /\ changes'[b].stage = "read"  => ReadIsCurrent(b)'
               /\ changes'[b].stage = "saved" => SavedIsInUse(b)'
               /\ changes'[b].stage = "fresh" => changes'[b].cfg = Wanted(GroupBy(b))'
    <3>1. PICK h : h = GroupBy(b)
      OBVIOUS
    <3>2. h # g /\ h = GroupBy(b)' /\ changes'[b] = changes[b] /\ GroupOf[changes[b].id] = h
      BY <1>4, <1>5, <1>9, <2>1, <3>1 DEF GroupBy
    <3>3. models'[changes[b].id] = models[changes[b].id]
      BY <1>3, <1>4, <2>1, <3>2
    <3>4. InUse(h)' = InUse(h) /\ Wanted(h)' = Wanted(h) /\ slots' = slots
      BY <1>3, <1>6, <3>2
    <3>5. /\ changes[b].stage = "read"  => ReadIsCurrent(b)
          /\ changes[b].stage = "saved" => SavedIsInUse(b)
          /\ changes[b].stage = "fresh" => changes[b].cfg = Wanted(GroupBy(b))
      BY <2>1 DEF RegistryFacts, RequestsKnow
    <3> QED
      BY <1>3, <3>1, <3>2, <3>3, <3>4, <3>5 DEF ReadIsCurrent, SavedIsInUse, Served
  <2>2. ASSUME Under(a)', g \notin lapped
        PROVE  /\ changes'[a].stage # "read"
               /\ changes'[a].stage = "saved" => SavedIsInUse(a)'
               /\ changes'[a].stage = "fresh" => changes'[a].cfg = Wanted(g)'
    <3>1. models' = R!Written(q) /\ ~ changes'[a] = R!NoReq /\ GroupBy(a)' = g
      BY <1>3, <1>5, <2>2 DEF Under, R!NoReq
    <3>2. CASE q.kind # "delete" /\ changes'[a] = [q EXCEPT !.stage = "saved"]
      <4>1. changes'[a].kind = q.kind /\ changes'[a].id = q.id /\ changes'[a].stage = "saved"
        BY <1>4, <3>2 DEF Changes
      <4>2. IF models'[q.id].active THEN InUse(g)' = {q.id}
            ELSE q.kind = "update" /\ slots'[g] = Served(g)'
        BY <1>3, <1>10, <1>11, <2>2, <3>1, <3>2 DEF Served
      <4> QED
        BY <3>1, <3>2, <4>1, <4>2 DEF SavedIsInUse
    <3>3. CASE q.kind = "delete" /\ q.saw /\ changes'[a] = [q EXCEPT !.stage = "fresh"]
      <4>1. changes'[a].cfg = R!Nothing /\ changes'[a].stage = "fresh"
        BY <1>1, <1>4, <1>12, <2>2, <3>3 DEF ReadIsCurrent, Changes
      <4>2. InUse(g)' = {}
        BY <1>11, <2>2, <3>1, <3>3
      <4> QED
        BY <4>1, <4>2 DEF Wanted
    <3> QED
      BY <1>3, <3>1, <3>2, <3>3
  <2> QED
    BY <1>3, <1>5, <2>1, <2>2 DEF RequestsKnow
<1>14. SlotsLag'
  <2> SUFFICES ASSUME NEW h \in R!Groups \ lapped,
                      \A b \in Admins : Under(b)' /\ GroupBy(b)' = h => changes'[b].stage = "read"
               PROVE  slots[h] = Served(h)'
    BY <1>3 DEF SlotsLag
  <2>1. CASE h # g
    BY <1>3, <1>4, <1>5, <1>6, <2>1, <1>2 DEF RegistryFacts, SlotsLag, Served
  <2>2. CASE h = g
    <3>1. changes'[a] = R!NoReq
      BY <1>3, <1>4, <1>5, <2>2 DEF Under, Changes
    <3>2. CASE models' = models
      BY <1>3, <1>10, <2>2, <3>2 DEF Served, Wanted, InUse, R!InUse, R!Row
    <3>3. CASE models' = R!Written(q) /\ q.kind = "delete" /\ ~ q.saw
      BY <1>3, <1>10, <1>11, <2>2, <3>3 DEF Served
    <3>4. [q EXCEPT !.stage = "saved"] # R!NoReq /\ [q EXCEPT !.stage = "fresh"] # R!NoReq
      BY <1>4 DEF R!NoReq, Changes
    <3> QED
      BY <1>3, <3>1, <3>2, <3>3, <3>4
  <2> QED
    BY <2>1, <2>2
<1>15. EmbeddingIsFixed'
  <2> SUFFICES ASSUME Emb \notin lapped PROVE EmbeddingIsFixed'
    BY <1>3 DEF EmbeddingIsFixed
  <2>0. EmbeddingIsFixed
    BY DEF RegistryFacts
  <2>1. CASE g # Emb
    <3>1. InUse(Emb)' = InUse(Emb) /\ Wanted(Emb)' = Wanted(Emb)
      BY <1>6, <2>1
    <3>2. \A b \in Admins : Under(b)' /\ GroupBy(b)' = Emb =>
            b # a /\ changes'[b] = changes[b] /\ models'[changes[b].id] = models[changes[b].id]
      BY <1>3, <1>4, <1>5, <2>1 DEF GroupBy
    <3> QED
      BY <1>3, <1>5, <2>0, <3>1, <3>2 DEF EmbeddingIsFixed
  <2>2. CASE g = Emb
    <3>1. \A b \in Admins : Under(b)' /\ GroupBy(b)' = Emb => b = a
      BY <1>5, <1>9, <2>2
    <3>2. CASE models' = models
      <4>1. InUse(Emb)' = InUse(Emb) /\ Wanted(Emb)' = Wanted(Emb)
        BY <3>2 DEF Wanted, InUse, R!InUse, R!Row
      <4>2. Under(a)' => changes'[a].kind = q.kind /\ changes'[a].id = q.id
        BY <1>3, <1>4 DEF Under, R!NoReq, Changes
      <4>3. IF q.kind = "activate" THEN InUse(Emb) \subseteq {q.id} ELSE ~ models[q.id].active
        BY <1>1, <1>2, <1>3, <2>0, <2>2 DEF EmbeddingIsFixed
      <4> QED
        BY <1>3, <2>0, <3>1, <3>2, <4>1, <4>2, <4>3 DEF EmbeddingIsFixed
    <3>3. CASE models' = R!Written(q)
      <4>1. IF q.kind = "activate" THEN InUse(Emb) \subseteq {q.id}
            ELSE ~ models[q.id].active
        BY <1>1, <1>2, <1>3, <2>0, <2>2 DEF EmbeddingIsFixed
      <4>2. q.kind # "activate" => ~ q.saw
        BY <1>1, <1>12, <2>2, <4>1 DEF ReadIsCurrent
      <4>3. Under(a)' => changes'[a].kind = q.kind /\ changes'[a].id = q.id
        BY <1>3, <1>4 DEF Under, R!NoReq, Changes
      <4>4. CASE q.kind # "activate"
        BY <1>3, <1>11, <2>0, <2>2, <3>1, <3>3, <4>2, <4>3, <4>4 DEF EmbeddingIsFixed
      <4>5. CASE q.kind = "activate"
        <5>1. InUse(Emb)' = {q.id} /\ models'[q.id].ver = models[q.id].ver
          BY <1>11, <2>2, <3>3, <4>5
        <5>2. CASE InUse(Emb) = {}
          <6>1. Wanted(Emb) = R!Nothing /\ embedded = {} /\ slots[Emb] = R!Nothing /\ embedder = R!Nothing
            BY <2>0, <5>2 DEF EmbeddingIsFixed, Wanted
          <6> QED
            BY <1>3, <3>1, <4>3, <4>5, <5>1, <6>1 DEF EmbeddingIsFixed
        <5>3. CASE InUse(Emb) = {q.id}
          <6>1. Wanted(Emb) = [id |-> q.id, ver |-> models[q.id].ver]
            BY <5>3, WantedIs DEF R!Row
          <6>2. Wanted(Emb)' = [id |-> q.id, ver |-> models'[q.id].ver]
            BY <5>1 DEF Wanted, R!Row
          <6> QED
            BY <1>3, <2>0, <3>1, <4>3, <4>5, <5>1, <5>3, <6>1, <6>2 DEF EmbeddingIsFixed
        <5> QED
          BY <4>1, <4>5, <5>2, <5>3
      <4> QED
        BY <4>4, <4>5
    <3> QED
      BY <1>3, <3>2, <3>3
  <2> QED
    BY <2>1, <2>2
<1> QED
  BY <1>7, <1>8, <1>13, <1>14, <1>15 DEF RegistryFacts

\* A request that goes on to the registry carries the configuration in use.
LEMMA RegistryReread ==
  ASSUME RegistryShape, RegistryFacts, NEW a \in Admins, R!Reread(a)
  PROVE  RegistryFacts'
<1>1. PICK q : q = changes[a]
  OBVIOUS
<1>2. PICK g : g = GroupBy(a)
  OBVIOUS
<1>3. /\ q.stage = "saved" /\ Under(a)
      /\ UNCHANGED <<models, slots, lapped, unloaded, embedder, embedded>>
      /\ changes' = [changes EXCEPT ![a] = changes'[a]]
      /\ \/ /\ q.kind = "activate" \/ models[q.id].active
            /\ changes'[a] = [q EXCEPT !.stage = "fresh", !.cfg = R!Row(q.id)]
         \/ /\ q.kind # "activate" /\ ~ models[q.id].active
            /\ changes'[a] = R!NoReq
  BY <1>1 DEF R!Reread, Under, RegistryShape
<1>4. /\ q \in Changes /\ GroupOf[q.id] = g
      /\ \A b \in Admins : b # a => changes'[b] = changes[b]
  BY <1>1, <1>2, <1>3 DEF RegistryShape, GroupBy
<1>5. /\ Under(a)' => GroupBy(a)' = g /\ changes'[a].stage = "fresh" /\ changes'[a].cfg = R!Row(q.id)
      /\ \A b \in Admins : b # a => (Under(b)' <=> Under(b)) /\ GroupBy(b)' = GroupBy(b)
  <2>1. CASE changes'[a] = [q EXCEPT !.stage = "fresh", !.cfg = R!Row(q.id)]
    <3>1. changes'[a].id = q.id /\ changes'[a].stage = "fresh" /\ changes'[a].cfg = R!Row(q.id)
      BY <1>4, <2>1 DEF Changes
    <3> QED
      BY <1>4, <3>1 DEF Under, GroupBy
  <2>2. CASE changes'[a] = R!NoReq
    BY <1>4, <2>2 DEF Under, GroupBy, R!NoReq
  <2> QED
    BY <1>3, <2>1, <2>2
<1>6. \A h : InUse(h)' = InUse(h) /\ Wanted(h)' = Wanted(h)
  BY <1>3 DEF InUse, Wanted, R!InUse, R!Row
<1>7. g \notin lapped => IF models[q.id].active THEN InUse(g) = {q.id}
                         ELSE q.kind = "update" /\ slots[g] = Served(g)
  BY <1>1, <1>2, <1>3 DEF RegistryFacts, RequestsKnow, SavedIsInUse
<1>8. Under(a)' /\ g \notin lapped => changes'[a].cfg = Wanted(g)'
  <2> SUFFICES ASSUME Under(a)', g \notin lapped PROVE changes'[a].cfg = Wanted(g)'
    OBVIOUS
  <2>1. models[q.id].active
    BY <1>3, <1>7 DEF Under, R!NoReq
  <2>2. Wanted(g) = R!Row(q.id)
    BY <1>7, <2>1, WantedIs
  <2> QED
    BY <1>5, <1>6, <2>2
<1>9. R!OneInUse'
  BY <1>6, OneCardinality DEF RegistryFacts, R!OneInUse, InUse
<1>10. OneAtATime'
  BY <1>2, <1>3, <1>5 DEF RegistryFacts, OneAtATime
<1>11. RequestsKnow'
  <2>1. ASSUME NEW b \in Admins, b # a, Under(b), GroupBy(b) \notin lapped
        PROVE  /\ changes'[b].stage = "read"  => ReadIsCurrent(b)'
               /\ changes'[b].stage = "saved" => SavedIsInUse(b)'
               /\ changes'[b].stage = "fresh" => changes'[b].cfg = Wanted(GroupBy(b))'
    <3>1. PICK h : h = GroupBy(b)
      OBVIOUS
    <3>2. /\ h = GroupBy(b)' /\ changes'[b] = changes[b] /\ models' = models /\ slots' = slots
          /\ Served(h)' = Served(h) /\ InUse(h)' = InUse(h) /\ Wanted(h)' = Wanted(h)
      BY <1>3, <1>4, <1>5, <1>6, <2>1, <3>1 DEF Served
    <3>3. /\ changes[b].stage = "read"  => ReadIsCurrent(b)
          /\ changes[b].stage = "saved" => SavedIsInUse(b)
          /\ changes[b].stage = "fresh" => changes[b].cfg = Wanted(GroupBy(b))
      BY <2>1 DEF RegistryFacts, RequestsKnow
    <3> QED
      BY <3>1, <3>2, <3>3 DEF ReadIsCurrent, SavedIsInUse
  <2> QED
    BY <1>3, <1>5, <1>8, <2>1 DEF RequestsKnow
<1>12. SlotsLag'
  <2> SUFFICES ASSUME NEW h \in R!Groups \ lapped,
                      \A b \in Admins : Under(b)' /\ GroupBy(b)' = h => changes'[b].stage = "read"
               PROVE  slots[h] = Served(h)
    BY <1>3, <1>6 DEF SlotsLag, Served
  <2>1. CASE h # g
    BY <1>2, <1>4, <1>5, <2>1 DEF RegistryFacts, SlotsLag
  <2>2. CASE h = g
    <3>1. ~ Under(a)'
      BY <1>5, <2>2
    <3>2. ~ models[q.id].active
      <4>1. q \in Changes /\ changes'[a].stage = "idle"
        BY <1>4, <3>1 DEF Under
      <4>2. changes'[a] = [q EXCEPT !.stage = "fresh", !.cfg = R!Row(q.id)] => changes'[a].stage = "fresh"
        BY <4>1 DEF Changes
      <4> QED
        BY <1>3, <4>1, <4>2
    <3> QED
      BY <1>7, <2>2, <3>2
  <2> QED
    BY <2>1, <2>2
<1>13. EmbeddingIsFixed'
  BY <1>3, <1>4, <1>5, <1>6 DEF RegistryFacts, EmbeddingIsFixed
<1> QED
  BY <1>9, <1>10, <1>11, <1>12, <1>13 DEF RegistryFacts

\* The registry is given what the rows say.
LEMMA RegistryRefresh ==
  ASSUME RegistryShape, RegistryFacts, NEW a \in Admins, R!Refresh(a)
  PROVE  RegistryFacts'
<1>1. PICK q : q = changes[a]
  OBVIOUS
<1>2. PICK g : g = GroupBy(a)
  OBVIOUS
<1>3. /\ q.stage = "fresh" /\ Under(a) /\ slots' = [slots EXCEPT ![g] = q.cfg]
      /\ unloaded' = unloaded \ {g} /\ UNCHANGED <<models, lapped, embedder, embedded>>
      /\ changes' = [changes EXCEPT ![a] = R!NoReq]
  BY <1>1, <1>2 DEF R!Refresh, Under, GroupBy
<1>4. /\ ~ Under(a)' /\ g \in R!Groups
      /\ \A b \in Admins : b # a => changes'[b] = changes[b] /\ (Under(b)' <=> Under(b))
                                    /\ GroupBy(b)' = GroupBy(b)
      /\ slots'[g] = q.cfg /\ \A h : h # g => slots'[h] = slots[h]
  BY <1>1, <1>2, <1>3, ModelsAreRows DEF RegistryShape, GroupBy, R!Groups, Under, R!NoReq
<1>5. \A h : InUse(h)' = InUse(h) /\ Wanted(h)' = Wanted(h)
  BY <1>3 DEF InUse, Wanted, R!InUse, R!Row
<1>6. g \notin lapped => q.cfg = Wanted(g)
  BY <1>1, <1>2, <1>3 DEF RegistryFacts, RequestsKnow
<1>7. \A b \in Admins : b # a /\ Under(b) /\ GroupBy(b) \notin lapped => GroupBy(b) # g
  BY <1>2, <1>3 DEF RegistryFacts, OneAtATime
<1>8. R!OneInUse'
  BY <1>5, OneCardinality DEF RegistryFacts, R!OneInUse, InUse
<1>9. OneAtATime'
  BY <1>3, <1>4 DEF RegistryFacts, OneAtATime
<1>10. RequestsKnow'
  <2>1. ASSUME NEW b \in Admins, b # a, Under(b), GroupBy(b) \notin lapped
        PROVE  /\ changes'[b].stage = "read"  => ReadIsCurrent(b)'
               /\ changes'[b].stage = "saved" => SavedIsInUse(b)'
               /\ changes'[b].stage = "fresh" => changes'[b].cfg = Wanted(GroupBy(b))'
    <3>1. PICK h : h = GroupBy(b)
      OBVIOUS
    <3>2. h # g /\ h = GroupBy(b)' /\ changes'[b] = changes[b] /\ models' = models
      BY <1>3, <1>4, <1>7, <2>1, <3>1
    <3>3. slots'[h] = slots[h] /\ Served(h)' = Served(h) /\ InUse(h)' = InUse(h) /\ Wanted(h)' = Wanted(h)
      BY <1>3, <1>4, <1>5, <3>2 DEF Served
    <3>4. /\ changes[b].stage = "read"  => ReadIsCurrent(b)
          /\ changes[b].stage = "saved" => SavedIsInUse(b)
          /\ changes[b].stage = "fresh" => changes[b].cfg = Wanted(GroupBy(b))
      BY <2>1 DEF RegistryFacts, RequestsKnow
    <3> QED
      BY <3>1, <3>2, <3>3, <3>4 DEF ReadIsCurrent, SavedIsInUse
  <2> QED
    BY <1>3, <1>4, <2>1 DEF RequestsKnow
<1>11. SlotsLag'
  <2> SUFFICES ASSUME NEW h \in R!Groups \ lapped,
                      \A b \in Admins : Under(b)' /\ GroupBy(b)' = h => changes'[b].stage = "read"
               PROVE  slots'[h] = Served(h)'
    BY <1>3, <1>5 DEF SlotsLag
  <2>1. CASE h # g
    BY <1>2, <1>3, <1>4, <1>5, <2>1 DEF RegistryFacts, SlotsLag, Served
  <2>2. CASE h = g
    BY <1>3, <1>4, <1>5, <1>6, <2>2 DEF Served
  <2> QED
    BY <2>1, <2>2
<1>12. EmbeddingIsFixed'
  BY <1>3, <1>4, <1>5, <1>6 DEF RegistryFacts, EmbeddingIsFixed
<1> QED
  BY <1>8, <1>9, <1>10, <1>11, <1>12 DEF RegistryFacts

\* A start reads the rows, or does not get as far as some of them.
LEMMA RegistryRestart ==
  ASSUME RegistryShape, RegistryFacts, NEW missed \in SUBSET R!Groups, R!Restart(missed)
  PROVE  RegistryFacts'
<1>1. /\ changes' = [a \in Admins |-> R!NoReq] /\ models' = models /\ lapped' = lapped \cap {Emb}
      /\ slots' = [g \in R!Groups |-> IF g \in missed THEN R!Nothing ELSE Wanted(g)]
      /\ unloaded' = missed /\ embedder' = R!Nothing /\ embedded' = embedded
  BY DEF R!Restart, Wanted, InUse, Emb
<1>2. \A h : InUse(h)' = InUse(h) /\ Wanted(h)' = Wanted(h)
  BY <1>1 DEF InUse, Wanted, R!InUse, R!Row
<1>3. \A a \in Admins : ~ Under(a)'
  BY <1>1 DEF Under, R!NoReq
<1>4. R!OneInUse'
  BY <1>2, OneCardinality DEF RegistryFacts, R!OneInUse, InUse
<1>5. OneAtATime' /\ RequestsKnow'
  BY <1>3 DEF OneAtATime, RequestsKnow
<1>6. SlotsLag'
  BY <1>1, <1>2 DEF SlotsLag, Served
<1>7. EmbeddingIsFixed'
  BY <1>1, <1>2, <1>3 DEF RegistryFacts, EmbeddingIsFixed, R!Groups, Emb
<1> QED
  BY <1>4, <1>5, <1>6, <1>7 DEF RegistryFacts

\* Texts are embedded with the configuration in use.
LEMMA RegistryEmbed ==
  ASSUME RegistryShape, RegistryFacts, R!Embed
  PROVE  RegistryFacts'
<1>1. /\ UNCHANGED <<models, changes, slots, lapped, unloaded>>
      /\ embedder' # R!Nothing /\ embedder' \in {embedder, slots[Emb]}
      /\ embedded' = embedded \cup {embedder'.ver}
  BY DEF R!Embed, Emb
<1>2. \A h : InUse(h)' = InUse(h) /\ Wanted(h)' = Wanted(h)
  BY <1>1 DEF InUse, Wanted, R!InUse, R!Row
<1>3. R!OneInUse'
  BY <1>2, OneCardinality DEF RegistryFacts, R!OneInUse, InUse
<1>4. OneAtATime' /\ RequestsKnow' /\ SlotsLag'
  BY <1>1, <1>2 DEF RegistryFacts, OneAtATime, RequestsKnow, SlotsLag, ReadIsCurrent, SavedIsInUse,
     Served, Under, GroupBy
<1>5. EmbeddingIsFixed'
  <2> SUFFICES ASSUME Emb \notin lapped PROVE EmbeddingIsFixed'
    BY <1>1 DEF EmbeddingIsFixed
  <2>1. EmbeddingIsFixed
    BY DEF RegistryFacts
  <2>2. embedder' = Wanted(Emb)
    BY <1>1, <2>1 DEF EmbeddingIsFixed
  <2>3. InUse(Emb) # {}
    BY <1>1, <2>2 DEF Wanted
  <2> QED
    BY <1>1, <1>2, <2>1, <2>2, <2>3 DEF EmbeddingIsFixed, Under, GroupBy
<1> QED
  BY <1>3, <1>4, <1>5 DEF RegistryFacts

\* Steps of the others leave the invariants alone.
LEMMA RegistryStutter ==
  ASSUME RegistryFacts, UNCHANGED <<models, changes, slots, lapped, unloaded, embedder, embedded>>
  PROVE  RegistryFacts'
<1>1. \A h : InUse(h)' = InUse(h) /\ Wanted(h)' = Wanted(h)
  BY DEF InUse, Wanted, R!InUse, R!Row
<1>2. R!OneInUse'
  BY <1>1, OneCardinality DEF RegistryFacts, R!OneInUse, InUse
<1>3. OneAtATime' /\ RequestsKnow' /\ SlotsLag'
  BY <1>1 DEF RegistryFacts, OneAtATime, RequestsKnow, SlotsLag, ReadIsCurrent, SavedIsInUse,
     Served, Under, GroupBy
<1>4. EmbeddingIsFixed'
  BY <1>1 DEF RegistryFacts, EmbeddingIsFixed, Under, GroupBy
<1> QED
  BY <1>2, <1>3, <1>4 DEF RegistryFacts

\* The invariants hold in every state.
LEMMA RegistryAlways == Spec => []RegistryInv
<1>1. RegistryInv /\ [Next]_vars => RegistryInv'
  <2> SUFFICES ASSUME RegistryInv, [Next]_vars PROVE RegistryInv'
    OBVIOUS
  <2>1. RegistryShape /\ RegistryFacts /\ [R!Next]_registryVars
    BY StepOfOne DEF RegistryInv, RegistryFacts
  <2>2. RegistryShape'
    BY <2>1, RegistryShapeStep
  <2>3. RegistryFacts'
    BY <2>1, RegistryMoves, RegistryAdd, RegistryBegin, RegistryCommit, RegistryReread,
       RegistryRefresh, RegistryRestart, RegistryEmbed, RegistryStutter
  <2> QED
    BY <2>2, <2>3 DEF RegistryInv, RegistryFacts
<1> QED
  BY AllStart, RegistryInitially, <1>1, PTL DEF Spec

\* However two administrators' requests interleave, a group has one configuration in
\* use; and outside a request's own commit and refresh, what calls are served is what
\* the rows say, in every group no two requests overlapped on, or nothing in a group the
\* last start failed to load (model_registry.py, load_from_db).
THEOREM SlotsAlwaysFollowRows == Spec => []SlotsFollowRows
<1>1. RegistryInv => SlotsFollowRows
  <2> SUFFICES ASSUME RegistryInv, \A a \in Admins : changes[a].stage \in {"idle", "read"},
                      NEW g \in R!Groups \ lapped
               PROVE  slots[g] = IF R!InUse(models, g) = {} \/ g \in unloaded THEN R!Nothing
                                 ELSE R!Row(CHOOSE i \in R!InUse(models, g) : TRUE)
    BY DEF SlotsFollowRows, R!SlotsFollowRows, RegistryInv
  <2> QED
    BY DEF RegistryInv, SlotsLag, Served, Under, Wanted, InUse
<1> QED
  BY RegistryAlways, <1>1, PTL

\* The texts that are compared with each other are embedded with one model, over all
\* restarts of the process, unless requests about it overlapped.
THEOREM OneEmbedderAlways == Spec => []OneEmbedder
<1>1. RegistryInv => OneEmbedder
  <2> SUFFICES ASSUME RegistryInv, Emb \notin lapped PROVE Cardinality(embedded) <= 1
    BY OneCardinality DEF OneEmbedder, R!OneEmbedder, Emb
  <2>1. PICK x : embedded \subseteq {x}
    BY DEF RegistryInv, EmbeddingIsFixed
  <2>2. embedded = {} \/ embedded = {x}
    BY <2>1
  <2> QED
    BY <2>2, FS_EmptySet, FS_Singleton
<1> QED
  BY RegistryAlways, <1>1, PTL

----------------------------------------------------------------------------
(* Records *)

Refining == [stage : {"idle", "asked", "saving"}, rows : SUBSET Runs, todo : SUBSET Runs]

RecordsShape ==
  /\ finished \in [Runs -> [stage : {"idle", "running", "traced", "ended"}, session : SUBSET Sessions]]
  /\ traces \in [Runs -> {"none", "completed", "cancelled", "failed", "refined"}]
  /\ refiners \in [Refiners -> Refining] /\ proposed \in [Runs -> Nat]
  /\ \A f \in Refiners : /\ refiners[f].todo \subseteq refiners[f].rows
                         /\ refiners[f].stage = "idle" => refiners[f].rows = {}

\* Nothing was read of a run that has not written its trace.
UntracedUnread ==
  \A r \in Runs : finished[r].stage \in {"idle", "running"} =>
    traces[r] = "none" /\ proposed[r] = 0 /\ \A f \in Refiners : r \notin refiners[f].rows

\* A trace is read by one refinement at a time; one that has yielded a proposal
\* cannot be read again, once that refinement is over.
Reads(f, r) == r \in refiners[f].rows
OneReader == \A r \in Runs \ contested, f, g \in Refiners : Reads(f, r) /\ Reads(g, r) => f = g
YieldsOnce ==
  \A r \in Runs \ contested :
    /\ proposed[r] <= 1
    /\ \A f \in Refiners :
         Reads(f, r) /\ (refiners[f].stage = "asked" \/ r \in refiners[f].todo) => proposed[r] = 0
    /\ (\A f \in Refiners : ~ Reads(f, r)) => proposed[r] = 0 \/ traces[r] # "completed"

RecordsInv == RecordsShape /\ UntracedUnread /\ OneReader /\ YieldsOnce

----------------------------------------------------------------------------

\* Nothing has been written at the start.
LEMMA RecordsInitially == C!Init => RecordsInv
BY DEF C!Init, C!NoReq, RecordsInv, RecordsShape, UntracedUnread, OneReader, YieldsOnce, Refining, Reads

\* The steps that matter to traces and their refinement.
LEMMA RecordsMoves ==
  ASSUME [C!Next]_recordsVars
  PROVE  \/ \E r \in Runs, own \in SUBSET Sessions : C!Begin(r, own)
         \/ \E r \in Runs, status \in {"completed", "cancelled", "failed"} : C!WriteTrace(r, status)
         \/ \E r \in Runs : C!WriteHistory(r)
         \/ \E s \in Sessions : C!DeleteSession(s)
         \/ \E r \in Runs : C!Expire(r)
         \/ \E f \in Refiners, asked \in SUBSET Runs : C!Read(f, asked)
         \/ \E f \in Refiners, found \in SUBSET Runs : C!Answer(f, found)
         \/ \E f \in Refiners, r \in Runs, saved \in BOOLEAN : C!Save(f, r, saved)
         \/ \E f \in Refiners, counted \in BOOLEAN : C!Mark(f, counted)
         \/ UNCHANGED <<finished, traces, refiners, proposed, contested>>
BY DEF C!Next, C!CreateSession, C!Share, C!Unshare, C!records, recordsVars

\* What changes of a trace that is neither written nor marked: it may go.
LEMMA TracesGo ==
  ASSUME RecordsInv, UNCHANGED <<refiners, proposed, contested>>,
         traces' \in [Runs -> {"none", "completed", "cancelled", "failed", "refined"}],
         finished' \in [Runs -> [stage : {"idle", "running", "traced", "ended"}, session : SUBSET Sessions]],
         \A r \in Runs : /\ traces'[r] \in {traces[r], "none"}
                         /\ finished'[r].stage \in {"idle", "running"} =>
                              finished[r].stage \in {"idle", "running"}
  PROVE  RecordsInv'
BY DEF RecordsInv, RecordsShape, UntracedUnread, OneReader, YieldsOnce, Reads

\* The request f becomes q: what it reads, and what it has yet to save.
LEMMA RefinerBecomes ==
  ASSUME RecordsShape, NEW f \in Refiners, NEW q \in Refining, refiners' = [refiners EXCEPT ![f] = q],
         q.todo \subseteq q.rows, q.stage = "idle" => q.rows = {}
  PROVE  /\ refiners' \in [Refiners -> Refining] /\ refiners'[f] = q
         /\ \A g \in Refiners : g # f => refiners'[g] = refiners[g]
         /\ \A g \in Refiners : /\ refiners'[g].todo \subseteq refiners'[g].rows
                                /\ refiners'[g].stage = "idle" => refiners'[g].rows = {}
BY DEF RecordsShape

\* Each step keeps the invariant.
LEMMA RecordsStep == RecordsInv /\ [C!Next]_recordsVars => RecordsInv'
<1> SUFFICES ASSUME RecordsInv, [C!Next]_recordsVars PROVE RecordsInv'
  OBVIOUS
<1>1. /\ finished \in [Runs -> [stage : {"idle", "running", "traced", "ended"}, session : SUBSET Sessions]]
      /\ traces \in [Runs -> {"none", "completed", "cancelled", "failed", "refined"}]
      /\ refiners \in [Refiners -> Refining] /\ proposed \in [Runs -> Nat]
      /\ RecordsShape /\ UntracedUnread /\ OneReader /\ YieldsOnce
  BY DEF RecordsInv, RecordsShape
<1>2. ASSUME NEW r \in Runs, NEW own \in SUBSET Sessions, C!Begin(r, own) PROVE RecordsInv'
  <2>1. /\ finished' = [finished EXCEPT ![r] = [stage |-> "running", session |-> own]]
        /\ finished[r].stage = "idle" /\ UNCHANGED <<traces, refiners, proposed, contested>>
    BY <1>2 DEF C!Begin, C!records
  <2> QED
    BY <1>1, <2>1, TracesGo
<1>3. ASSUME NEW r \in Runs, NEW status \in {"completed", "cancelled", "failed"}, C!WriteTrace(r, status)
      PROVE  RecordsInv'
  <2>1. /\ finished' = [finished EXCEPT ![r].stage = "traced"] /\ finished[r].stage = "running"
        /\ traces' = [traces EXCEPT ![r] = status] /\ UNCHANGED <<refiners, proposed, contested>>
    BY <1>3 DEF C!WriteTrace
  <2>2. /\ finished' \in [Runs -> [stage : {"idle", "running", "traced", "ended"}, session : SUBSET Sessions]]
        /\ finished'[r].stage = "traced" /\ \A t \in Runs : t # r => finished'[t] = finished[t]
    BY <1>1, <2>1
  <2>3. /\ traces' \in [Runs -> {"none", "completed", "cancelled", "failed", "refined"}]
        /\ \A t \in Runs : t # r => traces'[t] = traces[t]
    BY <1>1, <2>1
  <2>4. proposed[r] = 0
    BY <1>1, <2>1 DEF UntracedUnread
  <2>5. RecordsShape' /\ UntracedUnread' /\ OneReader'
    BY <1>1, <2>1, <2>2, <2>3 DEF RecordsShape, UntracedUnread, OneReader, Reads
  <2>6. YieldsOnce'
    BY <1>1, <2>1, <2>3, <2>4 DEF YieldsOnce, Reads
  <2> QED
    BY <2>5, <2>6 DEF RecordsInv
<1>4. ASSUME NEW r \in Runs, C!WriteHistory(r) PROVE RecordsInv'
  <2>1. /\ finished' = [finished EXCEPT ![r].stage = "ended"]
        /\ UNCHANGED <<traces, refiners, proposed, contested>>
    BY <1>4 DEF C!WriteHistory
  <2>2. /\ finished' \in [Runs -> [stage : {"idle", "running", "traced", "ended"}, session : SUBSET Sessions]]
        /\ finished'[r].stage = "ended" /\ \A t \in Runs : t # r => finished'[t] = finished[t]
    BY <1>1, <2>1
  <2> QED
    BY <1>1, <2>1, <2>2, TracesGo
<1>5. ASSUME NEW s \in Sessions, C!DeleteSession(s) PROVE RecordsInv'
  <2>1. /\ traces' = [r \in Runs |-> IF r \in C!OfSession(s) THEN "none" ELSE traces[r]]
        /\ UNCHANGED <<finished, refiners, proposed, contested>>
    BY <1>5 DEF C!DeleteSession
  <2> QED
    BY <1>1, <2>1, TracesGo
<1>6. ASSUME NEW r \in Runs, C!Expire(r) PROVE RecordsInv'
  <2>1. traces' = [traces EXCEPT ![r] = "none"] /\ UNCHANGED <<finished, refiners, proposed, contested>>
    BY <1>6 DEF C!Expire
  <2> QED
    BY <1>1, <2>1, TracesGo
<1>7. ASSUME NEW f \in Refiners, NEW asked \in SUBSET Runs, C!Read(f, asked) PROVE RecordsInv'
  <2> DEFINE found == {r \in asked : traces[r] = "completed"}
             q == [stage |-> "asked", rows |-> found, todo |-> {}]
  <2>1. /\ refiners[f].stage = "idle" /\ refiners' = [refiners EXCEPT ![f] = q]
        /\ contested' = contested \cup {r \in found : \E g \in Refiners : r \in refiners[g].rows}
        /\ UNCHANGED <<finished, traces, proposed>>
    BY <1>7 DEF C!Read, C!records
  <2>2. q \in Refining /\ q.todo = {} /\ q.rows = found /\ q.stage = "asked"
    BY DEF Refining
  <2>3. found \subseteq Runs /\ \A r \in found : traces[r] = "completed"
    OBVIOUS
  <2> HIDE DEF found, q
  <2>4. /\ refiners' \in [Refiners -> Refining] /\ refiners'[f] = q
        /\ \A g \in Refiners : g # f => refiners'[g] = refiners[g]
        /\ \A g \in Refiners : /\ refiners'[g].todo \subseteq refiners'[g].rows
                               /\ refiners'[g].stage = "idle" => refiners'[g].rows = {}
    BY <1>1, <2>1, <2>2, RefinerBecomes
  <2>5. \A r \in Runs \ contested' : r \notin contested /\ (r \in found => \A g \in Refiners : ~ Reads(g, r))
    BY <2>1 DEF Reads
  <2>6. RecordsShape'
    BY <1>1, <2>1, <2>4 DEF RecordsShape
  <2>7. UntracedUnread'
    BY <1>1, <2>1, <2>2, <2>3, <2>4 DEF UntracedUnread
  <2>8. OneReader'
    BY <1>1, <2>2, <2>4, <2>5 DEF OneReader, Reads
  <2>9. ASSUME NEW r \in Runs \ contested'
        PROVE  /\ proposed'[r] <= 1
               /\ \A g \in Refiners : Reads(g, r)' /\ (refiners'[g].stage = "asked" \/ r \in refiners'[g].todo)
                                        => proposed'[r] = 0
               /\ (\A g \in Refiners : ~ Reads(g, r)') => proposed'[r] = 0 \/ traces'[r] # "completed"
    <3>1. r \notin contested /\ refiners[f].rows = {}
      BY <1>1, <2>1, <2>5 DEF RecordsShape
    <3>2. CASE r \in found
      <4>1. proposed[r] = 0
        BY <1>1, <2>3, <2>5, <3>1, <3>2 DEF YieldsOnce
      <4> QED
        BY <2>1, <4>1
    <3>3. CASE r \notin found
      <4>1. \A g \in Refiners : Reads(g, r)' => g # f /\ Reads(g, r) /\ refiners'[g] = refiners[g]
        BY <2>2, <2>4, <3>3 DEF Reads
      <4>2. \A g \in Refiners : Reads(g, r) => Reads(g, r)'
        BY <2>4, <3>1 DEF Reads
      <4> QED
        BY <1>1, <2>1, <3>1, <4>1, <4>2 DEF YieldsOnce
    <3> QED
      BY <3>2, <3>3
  <2>10. YieldsOnce'
    BY <2>9 DEF YieldsOnce
  <2> QED
    BY <2>6, <2>7, <2>8, <2>10 DEF RecordsInv
<1>8. ASSUME NEW f \in Refiners, NEW found \in SUBSET Runs, C!Answer(f, found) PROVE RecordsInv'
  <2> DEFINE q == [refiners[f] EXCEPT !.stage = "saving", !.todo = found]
  <2>1. /\ refiners[f].stage = "asked" /\ found \subseteq refiners[f].rows
        /\ refiners' = [refiners EXCEPT ![f] = q]
        /\ UNCHANGED <<finished, traces, proposed, contested>>
    BY <1>1, <1>8 DEF C!Answer, C!records, Refining
  <2>2. q \in Refining /\ q.todo = found /\ q.rows = refiners[f].rows /\ q.stage = "saving"
    BY <1>1 DEF Refining
  <2> HIDE DEF q
  <2>4. /\ refiners' \in [Refiners -> Refining] /\ refiners'[f] = q
        /\ \A g \in Refiners : g # f => refiners'[g] = refiners[g]
        /\ \A g \in Refiners : /\ refiners'[g].todo \subseteq refiners'[g].rows
                               /\ refiners'[g].stage = "idle" => refiners'[g].rows = {}
    BY <1>1, <2>1, <2>2, RefinerBecomes
  <2>5. \A r : \A g \in Refiners : Reads(g, r)' <=> Reads(g, r)
    BY <2>2, <2>4 DEF Reads
  <2>6. RecordsShape'
    BY <1>1, <2>1, <2>4 DEF RecordsShape
  <2>7. UntracedUnread' /\ OneReader'
    BY <1>1, <2>1, <2>5 DEF UntracedUnread, OneReader, Reads
  <2>8. YieldsOnce'
    BY <1>1, <2>1, <2>2, <2>4, <2>5 DEF YieldsOnce
  <2> QED
    BY <2>6, <2>7, <2>8 DEF RecordsInv
<1>9. ASSUME NEW f \in Refiners, NEW t \in Runs, NEW saved \in BOOLEAN, C!Save(f, t, saved) PROVE RecordsInv'
  <2> DEFINE q == [refiners[f] EXCEPT !.todo = @ \ {t}]
  <2>1. /\ refiners[f].stage = "saving" /\ t \in refiners[f].todo
        /\ refiners' = [refiners EXCEPT ![f] = q]
        /\ proposed' = proposed \/ proposed' = [proposed EXCEPT ![t] = @ + 1]
        /\ UNCHANGED <<finished, traces, contested>>
    BY <1>1, <1>9 DEF C!Save, C!records, Refining
  <2>2. q \in Refining /\ q.todo = refiners[f].todo \ {t} /\ q.rows = refiners[f].rows /\ q.stage = "saving"
        /\ q.todo \subseteq q.rows
    BY <1>1, <2>1 DEF Refining, RecordsShape
  <2> HIDE DEF q
  <2>3. /\ proposed' \in [Runs -> Nat] /\ \A r \in Runs : r # t => proposed'[r] = proposed[r]
        /\ proposed'[t] <= proposed[t] + 1
    BY <1>1, <2>1
  <2>4. /\ refiners' \in [Refiners -> Refining] /\ refiners'[f] = q
        /\ \A g \in Refiners : g # f => refiners'[g] = refiners[g]
        /\ \A g \in Refiners : /\ refiners'[g].todo \subseteq refiners'[g].rows
                               /\ refiners'[g].stage = "idle" => refiners'[g].rows = {}
    BY <1>1, <2>1, <2>2, RefinerBecomes
  <2>5. /\ \A r : \A g \in Refiners : Reads(g, r)' <=> Reads(g, r)
        /\ Reads(f, t)
    BY <1>1, <2>1, <2>2, <2>4 DEF Reads, RecordsShape
  <2>6. RecordsShape'
    BY <1>1, <2>1, <2>3, <2>4 DEF RecordsShape
  <2>7. UntracedUnread'
    <3>1. ~ finished[t].stage \in {"idle", "running"}
      BY <1>1, <2>5 DEF UntracedUnread, Reads
    <3> QED
      BY <1>1, <2>1, <2>3, <2>5, <3>1 DEF UntracedUnread, Reads
  <2>8. OneReader'
    BY <1>1, <2>1, <2>5 DEF OneReader
  <2>9. YieldsOnce'
    <3>1. ASSUME t \notin contested
          PROVE  /\ proposed'[t] <= 1
                 /\ \A g \in Refiners : Reads(g, t)' => refiners'[g].stage # "asked" /\ t \notin refiners'[g].todo
      <4>1. proposed[t] = 0
        BY <1>1, <2>1, <2>5, <3>1 DEF YieldsOnce
      <4>2. \A g \in Refiners : Reads(g, t) => g = f
        BY <1>1, <2>5, <3>1 DEF OneReader
      <4> QED
        BY <1>1, <2>2, <2>3, <2>4, <2>5, <4>1, <4>2
    <3>2. ASSUME NEW r \in Runs \ contested, r # t
          PROVE  /\ proposed'[r] <= 1
                 /\ \A g \in Refiners :
                      Reads(g, r)' /\ (refiners'[g].stage = "asked" \/ r \in refiners'[g].todo)
                        => proposed'[r] = 0
                 /\ (\A g \in Refiners : ~ Reads(g, r)') => proposed'[r] = 0 \/ traces'[r] # "completed"
      BY <1>1, <2>1, <2>2, <2>3, <2>4, <2>5, <3>2 DEF YieldsOnce
    <3> QED
      BY <2>1, <2>5, <3>1, <3>2 DEF YieldsOnce
  <2> QED
    BY <2>6, <2>7, <2>8, <2>9 DEF RecordsInv
<1>10. ASSUME NEW f \in Refiners, NEW counted \in BOOLEAN, C!Mark(f, counted) PROVE RecordsInv'
  <2>1. /\ refiners[f].stage = "saving" /\ refiners' = [refiners EXCEPT ![f] = C!NoReq]
        /\ UNCHANGED <<finished, proposed>>
    BY <1>10 DEF C!Mark
  <2>2. \/ contested' = contested \cup refiners[f].rows /\ traces' = [r \in Runs |-> traces[r]]
        \/ /\ contested' = contested
           /\ traces' = [r \in Runs |-> IF r \in refiners[f].rows /\ traces[r] # "none"
                                          THEN "refined" ELSE traces[r]]
    <3> DEFINE left == {r \in refiners[f].rows : traces[r] # "none"}
               ok   == (left = refiners[f].rows) \/ (C!Cardinality(refiners[f].rows) > 1 /\ ~ counted)
    <3>1. /\ traces' = [r \in Runs |-> IF ok /\ r \in left THEN "refined" ELSE traces[r]]
          /\ contested' = IF ok THEN contested ELSE contested \cup refiners[f].rows
      BY <1>10 DEF C!Mark
    <3>2. \A r : r \in left <=> r \in refiners[f].rows /\ traces[r] # "none"
      OBVIOUS
    <3> HIDE DEF left, ok
    <3>3. CASE ok
      BY <3>1, <3>2, <3>3
    <3>4. CASE ~ ok
      BY <3>1, <3>4
    <3> QED
      BY <3>3, <3>4
  <2>3. C!NoReq \in Refining /\ C!NoReq.rows = {} /\ C!NoReq.todo = {} /\ C!NoReq.stage = "idle"
    BY DEF C!NoReq, Refining
  <2>4. /\ refiners' \in [Refiners -> Refining] /\ refiners'[f] = C!NoReq
        /\ \A g \in Refiners : g # f => refiners'[g] = refiners[g]
        /\ \A g \in Refiners : /\ refiners'[g].todo \subseteq refiners'[g].rows
                               /\ refiners'[g].stage = "idle" => refiners'[g].rows = {}
    BY <1>1, <2>1, <2>3, RefinerBecomes
  <2>5. /\ traces' \in [Runs -> {"none", "completed", "cancelled", "failed", "refined"}]
        /\ \A r \in Runs : traces'[r] = "completed" => traces[r] = "completed"
        /\ \A r \in Runs : traces[r] = "none" => traces'[r] = "none"
        /\ \A r \in Runs \ contested' : r \notin contested /\ (Reads(f, r) => traces'[r] # "completed")
    BY <1>1, <2>2 DEF Reads
  <2>6. \A r : \A g \in Refiners : Reads(g, r)' <=> g # f /\ Reads(g, r)
    BY <2>3, <2>4 DEF Reads
  <2>7. RecordsShape'
    BY <1>1, <2>1, <2>4, <2>5 DEF RecordsShape
  <2>8. UntracedUnread'
    BY <1>1, <2>1, <2>5, <2>6 DEF UntracedUnread, Reads
  <2>9. OneReader'
    BY <1>1, <2>5, <2>6 DEF OneReader
  <2>10. YieldsOnce'
    BY <1>1, <2>1, <2>4, <2>5, <2>6 DEF YieldsOnce
  <2> QED
    BY <2>7, <2>8, <2>9, <2>10 DEF RecordsInv
<1>11. CASE UNCHANGED <<finished, traces, refiners, proposed, contested>>
  BY <1>1, <1>11, TracesGo
<1> QED
  BY <1>2, <1>3, <1>4, <1>5, <1>6, <1>7, <1>8, <1>9, <1>10, <1>11, RecordsMoves

\* A trace yields at most one proposal, whoever asks for it to be refined and
\* whenever sessions and traces are deleted meanwhile; unless two refinements had
\* read it together, or a refinement could not mark it.
THEOREM RefinedOnceAlways == Spec => []RefinedOnce
<1>1. RecordsInv /\ [Next]_vars => RecordsInv'
  BY RecordsStep, StepOfOne
<1>2. RecordsInv => RefinedOnce
  BY DEF RecordsInv, YieldsOnce, RefinedOnce, C!RefinedOnce
<1> QED
  BY AllStart, RecordsInitially, <1>1, <1>2, PTL DEF Spec

----------------------------------------------------------------------------
(* LLM *)

\* How often the attempt may yet be repeated: without the extra parameters, and once
\* more after an answer without text.
Repeats ==
  IF protocol = "openai" THEN (IF extra THEN 1 ELSE 0)
  ELSE (IF extra THEN 2 ELSE 0) + (IF again THEN 0 ELSE 1)

CallsShape ==
  /\ kind \in {"chat", "checked", "tools"} /\ protocol \in {"openai", "anthropic"}
  /\ callStage \in {"idle", "asked", "waiting", "answered", "failed"}
  /\ wants \in BOOLEAN /\ extra \in BOOLEAN /\ again \in BOOLEAN /\ text \in BOOLEAN
  /\ tries \in Nat /\ sends \in Nat

\* A back-off is within the largest budget; what was sent and what may yet be
\* repeated is within the bound.
CallsInv ==
  /\ CallsShape /\ CallsEndWell
  /\ callStage = "waiting" => tries < L!MostRetries
  /\ sends + Repeats <= L!PerAttempt * (1 + tries)

----------------------------------------------------------------------------

\* Budgets are natural numbers, and the largest is one of them.
LEMMA BudgetsBound ==
  /\ L!MostRetries \in Nat
  /\ \A o : L!BudgetOf(o) \in Nat /\ L!BudgetOf(o) <= L!MostRetries
BY BudgetsAreCounts DEF L!MostRetries, L!BudgetOf

\* No call has been made at the start.
LEMMA CallsInitially == L!Init => CallsInv
<1> SUFFICES ASSUME L!Init PROVE CallsInv
  OBVIOUS
<1>1. CallsShape /\ callStage = "idle" /\ tries = 0 /\ sends = 0 /\ Repeats = 0 /\ L!PerAttempt = 2
  BY DEF L!Init, CallsShape, Repeats, L!PerAttempt
<1> QED
  BY <1>1, BudgetsBound DEF CallsInv, CallsEndWell, L!SendsAreBounded, L!ChatsHaveText

\* A request of the attempt ends it, has it wait, or repeats it with less to drop.
LEMMA RequestEnds ==
  ASSUME CallsInv, callStage = "asked",
         UNCHANGED <<kind, protocol, wants, tries>>,
         \/ callStage' = "failed" /\ UNCHANGED <<extra, again, text, sends>>
         \/ /\ callStage' = "answered" /\ text' \in BOOLEAN /\ (kind = "chat" => text')
            /\ UNCHANGED <<extra, again, sends>>
         \/ callStage' = "waiting" /\ tries < L!MostRetries /\ UNCHANGED <<extra, again, text, sends>>
         \/ /\ sends' = sends + 1 /\ UNCHANGED <<callStage, text>>
            /\ extra' \in BOOLEAN /\ again' \in BOOLEAN
            /\ \/ extra /\ ~ extra' /\ ~ again'
               \/ protocol = "anthropic" /\ extra' = extra /\ ~ again /\ again'
  PROVE  CallsInv'
<1>1. /\ CallsShape' /\ tries' <= L!MostRetries /\ L!MostRetries' = L!MostRetries
      /\ L!PerAttempt' = L!PerAttempt
  BY DEF CallsInv, CallsShape, CallsEndWell, L!SendsAreBounded, L!MostRetries, L!PerAttempt
<1>2. sends' + Repeats' <= sends + Repeats
  <2>1. CASE UNCHANGED <<extra, again, sends>>
    BY <2>1 DEF CallsInv, CallsShape, Repeats
  <2>2. CASE sends' = sends + 1 /\ extra /\ ~ extra' /\ ~ again'
    BY <2>2 DEF CallsInv, CallsShape, Repeats
  <2>3. CASE sends' = sends + 1 /\ protocol = "anthropic" /\ extra' = extra /\ ~ again /\ again'
    BY <2>3 DEF CallsInv, CallsShape, Repeats
  <2> QED
    BY <2>1, <2>2, <2>3
<1>3. Repeats \in Nat /\ Repeats' \in Nat /\ L!PerAttempt \in {2, 4}
  BY <1>1 DEF Repeats, L!PerAttempt, CallsInv, CallsShape
<1>4. L!PerAttempt * (1 + tries) \in Nat
  BY <1>3 DEF CallsInv, CallsShape
<1>5. sends' + Repeats' <= L!PerAttempt' * (1 + tries') /\ sends' <= L!PerAttempt' * (1 + tries')
  <2>1. sends + Repeats <= L!PerAttempt * (1 + tries)
    BY DEF CallsInv
  <2>2. L!PerAttempt' * (1 + tries') = L!PerAttempt * (1 + tries)
    BY <1>1
  <2>3. sends \in Nat /\ sends' \in Nat
    BY <1>1 DEF CallsInv, CallsShape
  <2>4. PICK b \in Nat : b = L!PerAttempt * (1 + tries)
    BY <1>4
  <2>5. PICK x \in Nat, y \in Nat : x = Repeats /\ y = Repeats'
    BY <1>3
  <2>6. sends' + y <= b /\ sends' <= b
    <3>1. PICK u \in Nat, v \in Nat : u = sends /\ v = sends'
      BY <2>3
    <3>2. u + x <= b
      BY <2>1, <2>4, <2>5, <3>1
    <3>3. v + y <= u + x
      BY <1>2, <2>5, <3>1
    <3>4. v + y <= b /\ v <= b
      BY <3>2, <3>3
    <3> QED
      BY <3>1, <3>4
  <2> QED
    BY <2>2, <2>4, <2>5, <2>6
<1>6. CallsEndWell'
  BY <1>1, <1>5 DEF CallsInv, CallsEndWell, L!SendsAreBounded, L!ChatsHaveText
<1> QED
  BY <1>1, <1>5, <1>6 DEF CallsInv

\* Each step keeps the invariant.
LEMMA CallsStep == CallsInv /\ [L!Next]_llmVars => CallsInv'
<1> SUFFICES ASSUME CallsInv, [L!Next]_llmVars PROVE CallsInv'
  OBVIOUS
<1>1. ASSUME NEW k \in {"chat", "checked", "tools"}, NEW p \in {"openai", "anthropic"}, NEW x \in BOOLEAN,
             L!Call(k, p, x)
      PROVE  CallsInv'
  <2>1. CallsShape' /\ callStage' = "asked" /\ tries' = 0 /\ sends' = 1
    BY <1>1 DEF L!Call, CallsShape
  <2>2. 1 + Repeats' <= L!PerAttempt' /\ L!PerAttempt' \in Nat /\ 1 <= L!PerAttempt'
    BY <1>1 DEF L!Call, L!PerAttempt, Repeats
  <2>3. 0 <= L!MostRetries /\ L!MostRetries' = L!MostRetries
    BY BudgetsBound DEF L!MostRetries
  <2>4. L!PerAttempt' * (1 + tries') = L!PerAttempt'
    <3>1. PICK m \in Nat : m = L!PerAttempt'
      BY <2>2
    <3>2. m * (1 + 0) = m
      OBVIOUS
    <3> QED
      BY <2>1, <3>1, <3>2
  <2>5. CallsEndWell'
    BY <2>1, <2>2, <2>3, <2>4 DEF CallsEndWell, L!SendsAreBounded, L!ChatsHaveText
  <2> QED
    BY <2>1, <2>2, <2>4, <2>5 DEF CallsInv
<1>2. CASE L!Wake
  <2>1. /\ callStage = "waiting" /\ callStage' = "asked" /\ tries' = tries + 1 /\ sends' = sends + 1
        /\ extra' = wants /\ again' = FALSE /\ UNCHANGED <<kind, protocol, wants, text>>
    BY <1>2 DEF L!Wake
  <2>2. CallsShape' /\ tries' <= L!MostRetries'
    <3>1. L!MostRetries' = L!MostRetries
      BY DEF L!MostRetries
    <3>2. CallsShape /\ tries < L!MostRetries
      BY <2>1 DEF CallsInv
    <3>3. PICK m \in Nat, t \in Nat : m = L!MostRetries /\ t = tries
      BY <3>2, BudgetsBound DEF CallsShape
    <3>4. t + 1 <= m
      BY <3>2, <3>3
    <3>5. tries' <= L!MostRetries'
      BY <2>1, <3>1, <3>3, <3>4
    <3>6. tries' \in Nat /\ sends' \in Nat
      BY <2>1, <3>2 DEF CallsShape
    <3> QED
      BY <2>1, <3>2, <3>5, <3>6 DEF CallsShape
  <2>3. /\ protocol = "openai" => L!PerAttempt = 2 /\ L!PerAttempt' = 2 /\ Repeats' <= 1 /\ Repeats' \in Nat
        /\ protocol # "openai" => L!PerAttempt = 4 /\ L!PerAttempt' = 4 /\ Repeats' <= 3 /\ Repeats' \in Nat
        /\ Repeats \in Nat
    BY <2>1, <2>2 DEF L!PerAttempt, Repeats, CallsInv, CallsShape
  <2>4. sends + Repeats <= L!PerAttempt * (1 + tries) /\ sends \in Nat /\ tries \in Nat
    BY DEF CallsInv, CallsShape
  <2>5. sends' + Repeats' <= L!PerAttempt' * (1 + tries') /\ sends' <= L!PerAttempt' * (1 + tries')
    <3>1. CASE protocol = "openai"
      <4>1. sends <= 2 * (1 + tries)
        BY <2>3, <2>4, <3>1
      <4>2. sends + 2 <= 2 * (1 + (tries + 1))
        BY <2>4, <4>1
      <4> QED
        BY <2>1, <2>3, <2>4, <3>1, <4>2
    <3>2. CASE protocol # "openai"
      <4>1. sends <= 4 * (1 + tries)
        BY <2>3, <2>4, <3>2
      <4>2. sends + 4 <= 4 * (1 + (tries + 1))
        BY <2>4, <4>1
      <4> QED
        BY <2>1, <2>3, <2>4, <3>2, <4>2
    <3> QED
      BY <3>1, <3>2
  <2>6. CallsEndWell'
    BY <2>1, <2>2, <2>5 DEF CallsEndWell, L!SendsAreBounded, L!ChatsHaveText
  <2> QED
    BY <2>1, <2>2, <2>5, <2>6 DEF CallsInv
<1>3. ASSUME NEW o \in L!Outcomes,
             \/ L!OpenAIChat(o) \/ L!OpenAIChecked(o) \/ L!ClaudeChecked(o)
             \/ L!OpenAITools(o) \/ L!ClaudeTools(o)
             \/ \E streamed \in BOOLEAN : L!ClaudeChat(o, streamed)
      PROVE  CallsInv'
  <2>1. callStage = "asked" /\ protocol \in {"openai", "anthropic"} /\ extra \in BOOLEAN /\ again \in BOOLEAN
    BY <1>3 DEF L!OpenAIChat, L!OpenAIChecked, L!ClaudeChecked, L!OpenAITools, L!ClaudeTools,
       L!ClaudeChat, L!At, CallsInv, CallsShape
  <2>2. L!Retry(o) =>
          /\ UNCHANGED <<kind, protocol, wants, tries>>
          /\ \/ callStage' = "failed" /\ UNCHANGED <<extra, again, text, sends>>
             \/ callStage' = "waiting" /\ tries < L!MostRetries /\ UNCHANGED <<extra, again, text, sends>>
    BY BudgetsBound DEF L!Retry, L!BacksOff, L!Fails, CallsInv, CallsShape
  <2>3. L!Rejected =>
          /\ UNCHANGED <<kind, protocol, wants, tries>>
          /\ \/ callStage' = "failed" /\ UNCHANGED <<extra, again, text, sends>>
             \/ /\ sends' = sends + 1 /\ UNCHANGED <<callStage, text>>
                /\ extra' \in BOOLEAN /\ again' \in BOOLEAN /\ extra /\ ~ extra' /\ ~ again'
    BY DEF L!Rejected, L!Resend, L!Fails
  <2>4. L!Retry(o) \/ L!Rejected => CallsInv'
    BY <2>1, <2>2, <2>3, RequestEnds
  <2>5. L!Fails => CallsInv'
    BY <2>1, RequestEnds DEF L!Fails
  <2>6. L!Answers(TRUE) => CallsInv'
    BY <2>1, RequestEnds DEF L!Answers
  <2>7. kind # "chat" /\ L!Answers(o = "text") => CallsInv'
    BY <2>1, RequestEnds DEF L!Answers
  <2>8. protocol = "anthropic" /\ ~ again /\ L!Resend(extra, TRUE) => CallsInv'
    BY <2>1, RequestEnds DEF L!Resend
  <2>9. CASE L!OpenAIChat(o)
    BY <2>4, <2>6, <2>9 DEF L!OpenAIChat, L!Outcomes
  <2>10. ASSUME NEW streamed \in BOOLEAN, L!ClaudeChat(o, streamed) PROVE CallsInv'
    BY <2>1, <2>4, <2>6, <2>8, <2>10 DEF L!ClaudeChat, L!At
  <2>11. CASE L!OpenAIChecked(o) \/ L!OpenAITools(o) \/ L!ClaudeTools(o)
    BY <2>5, <2>7, <2>11 DEF L!OpenAIChecked, L!OpenAITools, L!ClaudeTools, L!At
  <2>12. CASE L!ClaudeChecked(o)
    BY <2>1, <2>5, <2>6, <2>8, <2>12 DEF L!ClaudeChecked, L!At
  <2> QED
    BY <1>3, <2>9, <2>10, <2>11, <2>12
<1>4. CASE UNCHANGED llmVars
  BY <1>4 DEF llmVars, CallsInv, CallsShape, CallsEndWell, L!SendsAreBounded, L!ChatsHaveText,
     L!PerAttempt, L!MostRetries, Repeats
<1> QED
  BY <1>1, <1>2, <1>3, <1>4 DEF L!Next

\* Whatever errors follow one another, a model call ends after as many attempts as
\* the largest budget allows, each repeated at most as often as the protocol does;
\* and a chat that returns, returns text.
THEOREM CallsAlwaysEndWell == Spec => []CallsEndWell
<1>1. CallsInv /\ [Next]_vars => CallsInv'
  BY CallsStep, StepOfOne
<1>2. CallsInv => CallsEndWell
  BY DEF CallsInv
<1> QED
  BY AllStart, CallsInitially, <1>1, <1>2, PTL DEF Spec

----------------------------------------------------------------------------
(* Startup *)

\* The fact that tells a database from before scopes: the width of users.role.
Wide    == <<"users", "wide_role">>
Early   == 0 < release /\ release < 21

ScopesShape ==
  /\ release \in 0..35 /\ step \in Nat /\ (phase = "up" => step # 0)
  /\ phase \in {"none", "down", "up", "serving", "failed"}
  /\ phase = "none" => release = 0 /\ db = {} /\ admins = {} /\ scopes = {}
  /\ scopes \subseteq admins

\* Administrators made since have come to a database with scopes, as has whoever is
\* served; a new database gets the column as it is declared.
WideWhenServing ==
  /\ "new" \in admins \/ phase = "serving" \/ (phase = "up" /\ step > S!Rbac) \/ release >= 21
       => Wide \in db
  /\ release = 0 => Wide \in db \/ (phase \in {"none", "down"} /\ db = {})

\* The backfill gives the administrators of an early database what they could see,
\* and widens the column with it; it gives nobody else anything.
OldKeepTheirs ==
  /\ Early => <<"users">> \in db /\ "old" \in admins /\ ("old" \in scopes <=> Wide \in db)
  /\ ~ Early => "old" \notin scopes
  /\ "new" \notin scopes
  /\ release = 0 => "old" \notin admins

ScopesInv == ScopesShape /\ WideWhenServing /\ OldKeepTheirs

----------------------------------------------------------------------------

\* What the releases know of the users table: it comes with the first of them, its
\* wide column with release 21; an empty database has nothing.
LEMMA UsersHistory ==
  /\ <<Wide, 21, 99>> \in S!History /\ <<<<"users">>, 1, 99>> \in S!History
  /\ \A h \in S!History : h[2] \in 1..35 /\ (h[1] = Wide => h[2] = 21)
<1>1. <<<<"users">>, 1, 99>> \in S!FirstRelease /\ <<Wide, 21, 99>> \in S!SinceScopes
  BY DEF S!FirstRelease, S!SinceScopes, S!Lasting, Wide
<1>2. ASSUME NEW h \in S!FirstRelease PROVE h[2] = 1 /\ h[1] # Wide
  BY DEF S!FirstRelease, S!Lasting, Wide
<1>3. ASSUME NEW h \in S!BeforeScopes PROVE h[2] \in 2..20 /\ h[1] # Wide
  BY DEF S!BeforeScopes, S!Lasting, Wide
<1>4. ASSUME NEW h \in S!SinceScopes PROVE h[2] \in 21..35 /\ (h[1] = Wide => h[2] = 21)
  BY DEF S!SinceScopes, S!Lasting, Wide
<1>5. ASSUME NEW h \in S!History PROVE h[2] \in 1..35 /\ (h[1] = Wide => h[2] = 21)
  <2>1. CASE h \in S!FirstRelease
    BY <1>2, <2>1
  <2>2. CASE h \in S!BeforeScopes
    BY <1>3, <2>2
  <2>3. CASE h \in S!SinceScopes
    BY <1>4, <2>3
  <2> QED
    BY <2>1, <2>2, <2>3 DEF S!History
<1> QED
  BY <1>1, <1>5 DEF S!History

\* A database of a release has the column exactly from release 21 on.
LEMMA SchemaWide ==
  ASSUME NEW n \in 0..35
  PROVE  /\ Wide \in S!Schema(n) <=> n >= 21
         /\ n >= 1 => <<"users">> \in S!Schema(n)
         /\ n = 0 => S!Schema(n) = {}
<1>1. Wide \in S!Schema(n) => n >= 21
  BY UsersHistory DEF S!Schema
<1>2. n >= 21 => Wide \in S!Schema(n)
  <2> SUFFICES ASSUME n >= 21 PROVE Wide \in S!Schema(n)
    OBVIOUS
  <2>1. <<Wide, 21, 99>> \in {x \in S!History : x[2] <= n /\ n < x[3]}
    BY UsersHistory
  <2> QED
    BY <2>1 DEF S!Schema
<1>3. n >= 1 => <<"users">> \in S!Schema(n)
  <2> SUFFICES ASSUME n >= 1 PROVE <<"users">> \in S!Schema(n)
    OBVIOUS
  <2>1. <<<<"users">>, 1, 99>> \in {x \in S!History : x[2] <= n /\ n < x[3]}
    BY UsersHistory
  <2> QED
    BY <2>1 DEF S!Schema
<1>4. n = 0 => S!Schema(n) = {}
  BY UsersHistory DEF S!Schema
<1> QED
  BY <1>1, <1>2, <1>3, <1>4

\* A new database is made with the column, an early one keeps its own table.
LEMMA CreateAllWide ==
  ASSUME NEW d
  PROVE  /\ d = {} => Wide \in S!CreateAll(d)
         /\ <<"users">> \in d => (Wide \in S!CreateAll(d) <=> Wide \in d)
         /\ d \subseteq S!CreateAll(d)
<1>1. Wide \in S!Declared /\ Wide[1] = "users"
  <2>1. Wide \in S!Schema(35)
    BY SchemaWide
  <2> QED
    BY <2>1 DEF S!Declared, Wide
<1>2. d = {} => S!Tables(d) = {}
  BY DEF S!Tables
<1>3. <<"users">> \in d => "users" \in S!Tables(d)
  <2> SUFFICES ASSUME <<"users">> \in d PROVE "users" \in S!Tables(d)
    OBVIOUS
  <2>1. S!Len(<<"users">>) = 1
    OBVIOUS
  <2>2. <<"users">> \in {x \in d : S!Len(x) = 1} /\ <<"users">>[1] = "users"
    BY <2>1
  <2> QED
    BY <2>2 DEF S!Tables
<1> QED
  BY <1>1, <1>2, <1>3 DEF S!CreateAll

\* What a migration other than ThreeTierRbac leaves of the users table.
KeepsUsers(d, m) == /\ Wide \in m.db <=> Wide \in d
                    /\ <<"users">> \in d => <<"users">> \in m.db

\* The ways migrations are made leave another table alone.
LEMMA MigrationsKeepUsers ==
  ASSUME NEW d, NEW t, t # "users"
  PROVE  /\ \A x : KeepsUsers(d, S!Column(d, t, x))
         /\ \A refs : KeepsUsers(d, S!Table(d, t, refs))
         /\ \A ts : "users" \notin ts => KeepsUsers(d, S!DropsTable(d, ts))
         /\ \A m : KeepsUsers(d, m) => KeepsUsers(d, S!IfTable(d, t, m))
         /\ \A needs, new : Wide \notin new => KeepsUsers(d, S!Adds(d, needs, new))
<1>1. \A needs, new : Wide \notin new => KeepsUsers(d, S!Adds(d, needs, new))
  BY DEF KeepsUsers, S!Adds, S!Result
<1>2. \A x : KeepsUsers(d, S!Column(d, t, x))
  BY <1>1 DEF S!Column, Wide
<1>3. \A refs : KeepsUsers(d, S!Table(d, t, refs))
  <2>1. Wide \notin {f \in S!Declared : f[1] = t}
    BY DEF Wide
  <2>2. KeepsUsers(d, S!Result(TRUE, d))
    BY DEF KeepsUsers, S!Result
  <2> QED
    BY <1>1, <2>1, <2>2 DEF S!Table
<1>4. \A ts : "users" \notin ts => KeepsUsers(d, S!DropsTable(d, ts))
  BY DEF KeepsUsers, S!DropsTable, S!Drops, S!Result, Wide
<1>5. \A m : KeepsUsers(d, m) => KeepsUsers(d, S!IfTable(d, t, m))
  BY DEF KeepsUsers, S!IfTable, S!Result
<1> QED
  BY <1>1, <1>2, <1>3, <1>4, <1>5

\* The migrations in their order.
LEMMA MigrationAt ==
  ASSUME NEW d
  PROVE  /\ S!Migration(1, d) = S!KnowledgeColumns(d)
         /\ S!Migration(2, d) = S!MongoColumns(d)
         /\ S!Migration(3, d) = S!GitRepoColumns(d)
         /\ S!Migration(4, d) = S!PendingClarifications(d)
         /\ S!Migration(5, d) = S!Stage1Columns(d)
         /\ S!Migration(6, d) = S!DropBusinessTerms(d)
         /\ S!Migration(7, d) = S!DropNamespaceRules(d)
         /\ S!Migration(8, d) = S!DropAuditLog(d)
         /\ S!Migration(9, d) = S!TerminologyConflicts(d)
         /\ S!Migration(10, d) = S!AnchorIndex(d)
         /\ S!Migration(11, d) = S!CanonicalObjects(d)
         /\ S!Migration(12, d) = S!CanonicalColumns(d)
         /\ S!Migration(13, d) = S!ConflictScopes(d)
         /\ S!Migration(14, d) = S!Phase1Tables(d)
         /\ S!Migration(15, d) = S!DropMongoIndexes(d)
         /\ S!Migration(16, d) = S!EnumDictionaries(d)
         /\ S!Migration(17, d) = S!EnumSyncTables(d)
         /\ S!Migration(18, d) = S!DropMongoLayer(d)
         /\ S!Migration(19, d) = S!HypotheticalQueries(d)
         /\ S!Migration(20, d) = S!RecallColumns(d)
         /\ S!Migration(21, d) = S!RelatedEntries(d)
         /\ S!Migration(22, d) = S!AgentTraces(d)
         /\ S!Migration(23, d) = S!OpenIndexes(d)
         /\ S!Migration(24, d) = S!DropSnapshot(d)
         /\ S!Migration(25, d) = S!ThreeTierRbac(d)
         /\ S!Migration(26, d) = S!DatasourceProfile(d)
         /\ S!Migration(27, d) = S!ExtractorProfiles(d)
         /\ S!Migration(28, d) = S!RepoProfile(d)
         /\ S!Migration(29, d) = S!ProfileSeeds(d)
         /\ S!Migration(30, d) = S!Cascade(d)
         /\ S!Migration(31, d) = S!ModelConfigs(d)
         /\ S!Migration(32, d) = S!ModelProtocol(d)
         /\ S!Migration(33, d) = S!ModelAuditLogs(d)
         /\ S!Migration(34, d) = S!SessionsTable(d)
         /\ S!Migration(35, d) = S!FeedbackRating(d)
         /\ S!Migration(36, d) = S!Timezone(d)
         /\ S!Migration(37, d) = S!MaxHistoryTurns(d)
         /\ S!Migration(38, d) = S!CreatedAtDefault(d)
         /\ S!Migration(39, d) = S!NamespaceConfigs(d)
         /\ S!Migration(40, d) = S!NamespaceToken(d)
         /\ S!Migration(41, d) = S!RepoToken(d)
         /\ S!Migration(42, d) = S!TokenConfigs(d)
         /\ S!Migration(43, d) = S!TokenCreator(d)
         /\ S!Migration(44, d) = S!RenameStatus(d)
         /\ S!Migration(45, d) = S!WorkerId(d)
         /\ S!Migration(46, d) = S!RepoProgress(d)
         /\ S!Migration(47, d) = S!ProgressMessage(d)
         /\ S!Migration(48, d) = S!EntryRepo(d)
         /\ S!Migration(49, d) = S!ResultSnapshot(d)
<1>1. /\ S!Migration(1, d) = S!KnowledgeColumns(d)
      /\ S!Migration(2, d) = S!MongoColumns(d)
      /\ S!Migration(3, d) = S!GitRepoColumns(d)
      /\ S!Migration(4, d) = S!PendingClarifications(d)
      /\ S!Migration(5, d) = S!Stage1Columns(d)
      /\ S!Migration(6, d) = S!DropBusinessTerms(d)
      /\ S!Migration(7, d) = S!DropNamespaceRules(d)
      /\ S!Migration(8, d) = S!DropAuditLog(d)
      /\ S!Migration(9, d) = S!TerminologyConflicts(d)
      /\ S!Migration(10, d) = S!AnchorIndex(d)
  BY DEF S!Migration
<1>2. /\ S!Migration(11, d) = S!CanonicalObjects(d)
      /\ S!Migration(12, d) = S!CanonicalColumns(d)
      /\ S!Migration(13, d) = S!ConflictScopes(d)
      /\ S!Migration(14, d) = S!Phase1Tables(d)
      /\ S!Migration(15, d) = S!DropMongoIndexes(d)
      /\ S!Migration(16, d) = S!EnumDictionaries(d)
      /\ S!Migration(17, d) = S!EnumSyncTables(d)
      /\ S!Migration(18, d) = S!DropMongoLayer(d)
      /\ S!Migration(19, d) = S!HypotheticalQueries(d)
      /\ S!Migration(20, d) = S!RecallColumns(d)
  BY DEF S!Migration
<1>3. /\ S!Migration(21, d) = S!RelatedEntries(d)
      /\ S!Migration(22, d) = S!AgentTraces(d)
      /\ S!Migration(23, d) = S!OpenIndexes(d)
      /\ S!Migration(24, d) = S!DropSnapshot(d)
      /\ S!Migration(25, d) = S!ThreeTierRbac(d)
      /\ S!Migration(26, d) = S!DatasourceProfile(d)
      /\ S!Migration(27, d) = S!ExtractorProfiles(d)
      /\ S!Migration(28, d) = S!RepoProfile(d)
      /\ S!Migration(29, d) = S!ProfileSeeds(d)
      /\ S!Migration(30, d) = S!Cascade(d)
  BY DEF S!Migration
<1>4. /\ S!Migration(31, d) = S!ModelConfigs(d)
      /\ S!Migration(32, d) = S!ModelProtocol(d)
      /\ S!Migration(33, d) = S!ModelAuditLogs(d)
      /\ S!Migration(34, d) = S!SessionsTable(d)
      /\ S!Migration(35, d) = S!FeedbackRating(d)
      /\ S!Migration(36, d) = S!Timezone(d)
      /\ S!Migration(37, d) = S!MaxHistoryTurns(d)
      /\ S!Migration(38, d) = S!CreatedAtDefault(d)
      /\ S!Migration(39, d) = S!NamespaceConfigs(d)
      /\ S!Migration(40, d) = S!NamespaceToken(d)
  BY DEF S!Migration
<1>5. /\ S!Migration(41, d) = S!RepoToken(d)
      /\ S!Migration(42, d) = S!TokenConfigs(d)
      /\ S!Migration(43, d) = S!TokenCreator(d)
      /\ S!Migration(44, d) = S!RenameStatus(d)
      /\ S!Migration(45, d) = S!WorkerId(d)
      /\ S!Migration(46, d) = S!RepoProgress(d)
      /\ S!Migration(47, d) = S!ProgressMessage(d)
      /\ S!Migration(48, d) = S!EntryRepo(d)
      /\ S!Migration(49, d) = S!ResultSnapshot(d)
  BY DEF S!Migration
<1> QED
  BY <1>1, <1>2, <1>3, <1>4, <1>5

\* Every migration but one leaves the users table alone, and none drops it; that one
\* leaves the column wide.
LEMMA MigrationWide ==
  ASSUME NEW d, NEW n \in 1..49
  PROVE  /\ n # S!Rbac => KeepsUsers(d, S!Migration(n, d))
         /\ n = S!Rbac => Wide \in S!Migration(n, d).db /\ d \subseteq S!Migration(n, d).db
<1> DEFINE m == S!Migration(n, d)
<1>1. CASE n \in {1, 3, 12, 19, 20, 21, 26, 32, 35, 36, 37, 38, 40, 41, 45, 46, 47, 49}
  <2>1. /\ KeepsUsers(d, S!KnowledgeColumns(d))
        /\ KeepsUsers(d, S!GitRepoColumns(d))
        /\ KeepsUsers(d, S!CanonicalColumns(d))
        /\ KeepsUsers(d, S!HypotheticalQueries(d))
        /\ KeepsUsers(d, S!RecallColumns(d))
        /\ KeepsUsers(d, S!RelatedEntries(d))
    BY MigrationsKeepUsers DEF S!KnowledgeColumns, S!GitRepoColumns, S!CanonicalColumns, S!HypotheticalQueries,
                               S!RecallColumns, S!RelatedEntries
  <2>2. /\ KeepsUsers(d, S!DatasourceProfile(d))
        /\ KeepsUsers(d, S!ModelProtocol(d))
        /\ KeepsUsers(d, S!FeedbackRating(d))
        /\ KeepsUsers(d, S!Timezone(d))
        /\ KeepsUsers(d, S!MaxHistoryTurns(d))
        /\ KeepsUsers(d, S!CreatedAtDefault(d))
    BY MigrationsKeepUsers DEF S!DatasourceProfile, S!ModelProtocol, S!FeedbackRating, S!Timezone,
                               S!MaxHistoryTurns, S!CreatedAtDefault
  <2>3. /\ KeepsUsers(d, S!NamespaceToken(d))
        /\ KeepsUsers(d, S!RepoToken(d))
        /\ KeepsUsers(d, S!WorkerId(d))
        /\ KeepsUsers(d, S!RepoProgress(d))
        /\ KeepsUsers(d, S!ProgressMessage(d))
        /\ KeepsUsers(d, S!ResultSnapshot(d))
    BY MigrationsKeepUsers DEF S!NamespaceToken, S!RepoToken, S!WorkerId, S!RepoProgress,
                               S!ProgressMessage, S!ResultSnapshot
  <2> QED
    BY <1>1, <2>1, <2>2, <2>3, MigrationAt DEF S!Rbac
<1>2. CASE n \in {4, 9, 11, 16, 27, 31, 33, 34}
  <2>1. KeepsUsers(d, S!PendingClarifications(d))
    BY MigrationsKeepUsers DEF S!PendingClarifications
  <2>2. KeepsUsers(d, S!TerminologyConflicts(d))
    BY MigrationsKeepUsers DEF S!TerminologyConflicts
  <2>3. KeepsUsers(d, S!CanonicalObjects(d))
    BY MigrationsKeepUsers DEF S!CanonicalObjects
  <2>4. KeepsUsers(d, S!EnumDictionaries(d))
    BY MigrationsKeepUsers DEF S!EnumDictionaries
  <2>5. KeepsUsers(d, S!ExtractorProfiles(d))
    BY MigrationsKeepUsers DEF S!ExtractorProfiles
  <2>6. KeepsUsers(d, S!ModelConfigs(d))
    BY MigrationsKeepUsers DEF S!ModelConfigs
  <2>7. KeepsUsers(d, S!ModelAuditLogs(d))
    BY MigrationsKeepUsers DEF S!ModelAuditLogs
  <2>8. KeepsUsers(d, S!SessionsTable(d))
    BY MigrationsKeepUsers DEF S!SessionsTable
  <2> QED
    BY <1>2, <2>1, <2>2, <2>3, <2>4, <2>5, <2>6, <2>7, <2>8, MigrationAt DEF S!Rbac
<1>3. CASE n \in {6, 7, 8, 15, 18}
  <2>1. /\ KeepsUsers(d, S!DropBusinessTerms(d))
        /\ KeepsUsers(d, S!DropNamespaceRules(d))
        /\ KeepsUsers(d, S!DropAuditLog(d))
        /\ KeepsUsers(d, S!DropMongoIndexes(d))
        /\ KeepsUsers(d, S!DropMongoLayer(d))
    BY MigrationsKeepUsers DEF S!DropBusinessTerms, S!DropNamespaceRules, S!DropAuditLog,
                               S!DropMongoIndexes, S!DropMongoLayer
  <2> QED
    BY <1>3, <2>1, MigrationAt DEF S!Rbac
<1>4. CASE n \in {2, 43}
  <2>1. KeepsUsers(d, S!MongoColumns(d)) /\ KeepsUsers(d, S!TokenCreator(d))
    BY MigrationsKeepUsers DEF S!MongoColumns, S!TokenCreator
  <2> QED
    BY <1>4, <2>1, MigrationAt DEF S!Rbac
<1>5. CASE n \in {5, 10, 23, 28, 29, 48}
  <2>1. KeepsUsers(d, S!Stage1Columns(d))
    <3>1. Wide \notin {<<"knowledge_entries", "payload">>}
      BY DEF Wide
    <3> QED
      BY <3>1, MigrationsKeepUsers DEF S!Stage1Columns
  <2>2. KeepsUsers(d, S!AnchorIndex(d))
    <3>1. Wide \notin {<<"knowledge_entries", "anchor_index">>}
      BY DEF Wide
    <3> QED
      BY <3>1, MigrationsKeepUsers DEF S!AnchorIndex
  <2>3. KeepsUsers(d, S!OpenIndexes(d))
    <3>1. Wide \notin {<<t, "open_index">> : t \in {"schema_canonical_conflicts", "enum_binding_conflicts"}}
      BY DEF Wide
    <3> QED
      BY <3>1, MigrationsKeepUsers DEF S!OpenIndexes
  <2>4. KeepsUsers(d, S!RepoProfile(d))
    <3>1. Wide \notin {<<"git_repos", "profile_id">>}
      BY DEF Wide
    <3> QED
      BY <3>1, MigrationsKeepUsers DEF S!RepoProfile
  <2>5. KeepsUsers(d, S!ProfileSeeds(d))
    <3>1. Wide \notin {<<"extractor_profiles", "java-spring">>}
      BY DEF Wide
    <3> QED
      BY <3>1, MigrationsKeepUsers DEF S!ProfileSeeds
  <2>6. KeepsUsers(d, S!EntryRepo(d))
    <3>1. Wide \notin {<<"knowledge_entries", "repo_id">>}
      BY DEF Wide
    <3> QED
      BY <3>1, MigrationsKeepUsers DEF S!EntryRepo
  <2> QED
    BY <1>5, <2>1, <2>2, <2>3, <2>4, <2>5, <2>6, MigrationAt DEF S!Rbac
<1>6. CASE n \in {24, 30, 44}
  <2>1. KeepsUsers(d, S!DropSnapshot(d))
    BY DEF S!DropSnapshot, S!Drops, S!Result, KeepsUsers, Wide
  <2>2. KeepsUsers(d, S!Cascade(d))
    BY DEF S!Cascade, S!Drops, S!Result, KeepsUsers, Wide
  <2>3. KeepsUsers(d, S!RenameStatus(d))
    BY DEF S!RenameStatus, S!Drops, S!Result, KeepsUsers, Wide
  <2> QED
    BY <1>6, <2>1, <2>2, <2>3, MigrationAt DEF S!Rbac
<1>7. CASE n \in {14, 17}
  <2>1. KeepsUsers(d, S!Phase1Tables(d))
    <3> DEFINE new == {f \in S!Declared : f[1] \in {"schema_canonical_candidates", "schema_canonical_conflicts",
                             "schema_canonical_audit_logs", "extraction_failure_logs"} \ S!Tables(d)}
    <3>1. Wide \notin new
      BY DEF Wide
    <3>2. S!Phase1Tables(d).db = d \cup new
      BY DEF S!Phase1Tables, S!Result
    <3> HIDE DEF new
    <3> QED
      BY <3>1, <3>2 DEF KeepsUsers
  <2>2. KeepsUsers(d, S!EnumSyncTables(d))
    <3> DEFINE new == {f \in S!Declared :
                         f[1] \in {"enum_sync_queue", "enum_binding_conflicts"} \ S!Tables(d)}
    <3>1. Wide \notin new
      BY DEF Wide
    <3>2. S!EnumSyncTables(d).db = d \cup new
      BY DEF S!EnumSyncTables, S!Result
    <3> HIDE DEF new
    <3> QED
      BY <3>1, <3>2 DEF KeepsUsers
  <2> QED
    BY <1>7, <2>1, <2>2, MigrationAt DEF S!Rbac
<1>8. CASE n \in {22, 42}
  <2>1. KeepsUsers(d, S!AgentTraces(d))
    <3>1. KeepsUsers(d, S!Table(d, "agent_traces", {"namespaces"})) /\ <<"agent_traces", "session_id">> # Wide
      BY MigrationsKeepUsers DEF Wide
    <3>2. S!AgentTraces(d).db = S!Table(d, "agent_traces", {"namespaces"}).db \cup {<<"agent_traces", "session_id">>}
      BY DEF S!AgentTraces, S!Result
    <3> QED
      BY <3>1, <3>2 DEF KeepsUsers
  <2>2. KeepsUsers(d, S!TokenConfigs(d))
    <3>1. KeepsUsers(d, S!Table(d, "git_token_configs", {"users"})) /\ <<"git_token_configs", "one_in_use">> # Wide
      BY MigrationsKeepUsers DEF Wide
    <3>2. S!TokenConfigs(d).db = S!Table(d, "git_token_configs", {"users"}).db \cup {<<"git_token_configs", "one_in_use">>}
      BY DEF S!TokenConfigs, S!Result
    <3> QED
      BY <3>1, <3>2 DEF KeepsUsers
  <2> QED
    BY <1>8, <2>1, <2>2, MigrationAt DEF S!Rbac
<1>9. CASE n \in {13, 39}
  <2>1. KeepsUsers(d, S!ConflictScopes(d))
    <3> DEFINE old == {<<"schema_canonical_conflicts", "no_scope">>}
               new == {<<"schema_canonical_conflicts", x>> :
                         x \in {"conflict_scope", "scope_index", "open_index"}}
    <3>1. Wide \notin old /\ <<"users">> \notin old /\ Wide \notin new
      BY DEF Wide
    <3>2. S!ConflictScopes(d).db \in {d, (d \ old) \cup new}
      BY DEF S!ConflictScopes, S!IfTable, S!Result
    <3> HIDE DEF old, new
    <3> QED
      BY <3>1, <3>2 DEF KeepsUsers
  <2>2. KeepsUsers(d, S!NamespaceConfigs(d))
    <3> DEFINE old == {<<"model_configs", "two_in_use">>}
               new == {<<"model_configs", "namespace_id">>}
               one == {<<"model_configs", "one_in_use">>}
    <3>1. Wide \notin old /\ <<"users">> \notin old /\ Wide \notin new /\ Wide \notin one
      BY DEF Wide
    <3>2. S!NamespaceConfigs(d).db \in {d, ((d \cup new) \ old) \cup one}
      BY DEF S!NamespaceConfigs, S!UniqueInUse, S!IfTable, S!Result
    <3> HIDE DEF old, new, one
    <3> QED
      BY <3>1, <3>2 DEF KeepsUsers
  <2> QED
    BY <1>9, <2>1, <2>2, MigrationAt DEF S!Rbac
<1>10. CASE n = 25
  BY <1>10, MigrationAt DEF S!Rbac, S!ThreeTierRbac, S!Adds, S!Result, Wide
<1> QED
  BY <1>1, <1>2, <1>3, <1>4, <1>5, <1>6, <1>7, <1>8, <1>9, <1>10

\* Nothing is there before a database is chosen.
LEMMA ScopesInitially == S!Init => ScopesInv
BY DEF S!Init, ScopesInv, ScopesShape, WideWhenServing, OldKeepTheirs, Early

\* Each step keeps the invariant.
LEMMA ScopesStep == ScopesInv /\ [S!Next]_startupVars => ScopesInv'
<1> SUFFICES ASSUME ScopesInv, [S!Next]_startupVars PROVE ScopesInv'
  OBVIOUS
<1> USE DEF ScopesInv, ScopesShape, WideWhenServing, OldKeepTheirs, Early
<1>1. ASSUME NEW n \in Releases, S!Choose(n) PROVE ScopesInv'
  <2>1. n \in 0..35
    BY ReleasesAreKnown
  <2>2. /\ phase' = "down" /\ release' = n /\ db' = S!Schema(n) /\ admins' = IF n = 0 THEN {} ELSE {"old"}
        /\ UNCHANGED <<scopes, step>> /\ scopes = {}
    BY <1>1 DEF S!Choose
  <2>3. /\ Wide \in S!Schema(n) <=> n >= 21
        /\ n >= 1 => <<"users">> \in S!Schema(n)
        /\ n = 0 => S!Schema(n) = {}
    BY <2>1, SchemaWide
  <2>4. "new" \notin admins' /\ (n # 0 => "old" \in admins') /\ (n = 0 => "old" \notin admins')
    BY <2>2
  <2> QED
    BY <2>1, <2>2, <2>3, <2>4
<1>2. CASE S!Start
  <2>1. /\ phase = "down" /\ phase' = "up" /\ db' = S!CreateAll(db) /\ step' = 1
        /\ UNCHANGED <<release, root, admins, scopes>>
    BY <1>2 DEF S!Start
  <2>2. /\ db = {} => Wide \in db'
        /\ <<"users">> \in db => (Wide \in db' <=> Wide \in db)
        /\ db \subseteq db'
    BY <2>1, CreateAllWide
  <2> QED
    BY <2>1, <2>2 DEF S!Rbac
<1>3. CASE S!Migrate
  <2> DEFINE m == S!Migration(step, db)
  <2>1. /\ phase = "up" /\ step <= 49 /\ step' = step + 1
        /\ phase' = IF m.ok THEN "up" ELSE "failed"
        /\ db' = IF m.ok THEN m.db ELSE db
        /\ scopes' = IF step = S!Rbac /\ m.ok THEN S!Grants ELSE scopes
        /\ UNCHANGED <<release, admins>>
    BY <1>3 DEF S!Migrate, S!LastStep
  <2>2. /\ step # S!Rbac => KeepsUsers(db, m)
        /\ step = S!Rbac => Wide \in m.db /\ db \subseteq m.db
    <3>1. step \in 1..49
      BY <2>1
    <3> QED
      BY <3>1, MigrationWide
  <2> HIDE DEF m
  <2>3. CASE ~ m.ok
    BY <2>1, <2>3
  <2>4. CASE m.ok /\ step # S!Rbac
    BY <2>1, <2>2, <2>4 DEF KeepsUsers, S!Rbac
  <2>5. CASE m.ok /\ step = S!Rbac
    <3>1. scopes' = IF Wide \in db THEN scopes ELSE scopes \cup admins
      BY <2>1, <2>5 DEF S!Grants, Wide
    <3> QED
      BY <2>1, <2>2, <2>5, <3>1 DEF S!Rbac
  <2> QED
    BY <2>3, <2>4, <2>5
<1>4. CASE S!Serve
  BY <1>4 DEF S!Serve, S!LastStep, S!Rbac
<1>5. CASE S!Crash
  BY <1>5 DEF S!Crash
<1>6. CASE S!CreateAdmin
  BY <1>6 DEF S!CreateAdmin
<1>7. CASE S!Demote
  BY <1>7 DEF S!Demote
<1>8. CASE UNCHANGED startupVars
  BY <1>8 DEF startupVars
<1> QED
  BY <1>1, <1>2, <1>3, <1>4, <1>5, <1>6, <1>7, <1>8 DEF S!Next

\* Administrators from before scopes are given every namespace once, wherever the
\* start that did it was cut off, and nobody else ever is.
THEOREM ScopesAreAlwaysKept == Spec => []ScopesAreKept
<1>1. ScopesInv /\ [Next]_vars => ScopesInv'
  BY ScopesStep, StepOfOne
<1>2. ScopesInv => ScopesAreKept
  BY DEF ScopesInv, WideWhenServing, OldKeepTheirs, Early, ScopesAreKept, S!ScopesAreKept
<1> QED
  BY AllStart, ScopesInitially, <1>1, <1>2, PTL DEF Spec

----------------------------------------------------------------------------
(* Extraction *)

Units == 1..MaxFiles
AgentEnds == {"none", "", "exception", "llm_call_failed", "iteration_cap", "dead_loop"}

\* What is read of an agent's state, whatever its window and what it found.
IsAgent(a) ==
  /\ a = [stage |-> a.stage, rounds |-> a.rounds, window |-> a.window, found |-> a.found,
          end |-> a.end]
  /\ a.stage \in {"none", "queued", "running", "ended"}
  /\ a.end \in AgentEnds

AgentShape ==
  /\ files \in 0..MaxFiles
  /\ agents = [u \in Units |-> agents[u]]
  /\ \A u \in Units : IsAgent(agents[u])
  /\ stage \in {"scan", "explore", "single", "many", "merged", "done"}

\* Agents are started by the split and nothing is merged before they have ended.
BeforeMerge ==
  /\ stage \in {"scan", "explore"} =>
       files = 0 /\ \A u \in Units : agents[u].stage = "none"
  /\ stage = "single" =>
       /\ files <= UnitSize
       /\ agents[1].stage \in {"running", "ended"}
       /\ \A u \in Units : u # 1 => agents[u].stage = "none"
  /\ stage = "many" => \A u \in Units : agents[u].stage # "none" <=> u \in E!Units(files)
  /\ stage \in {"scan", "explore", "single", "many"} => result.status = "none"

\* Nobody is at work any more once there is a result, which says how the agents
\* ended; no result is left only by the crash of an agent that is alone.
MergedIs ==
  stage \in {"merged", "done"} =>
    /\ \A u \in Units : agents[u].stage \in {"none", "ended"}
    /\ IF result.status = "none"
       THEN /\ stage = "done"
            /\ \A u \in Units : u # 1 => agents[u].stage = "none"
       ELSE /\ result.found = UNION {E!Found(u) : u \in E!Ended}
            /\ result.status = "ok" =>
                 /\ \A u \in E!Ended : agents[u].end = ""
                 /\ \A f \in 1..files : \E u \in E!Ended : f \in E!Chunk(files, u)
            /\ result.status = "failed" /\ E!Fanned => E!Objects(result.found) = {}

\* What is written is the result, unless that is a failure.
WrittenIs ==
  stage = "done" /\ result.status # "none" =>
    written = IF result.status = "failed" THEN {} ELSE result.found

WholeInv == AgentShape /\ BeforeMerge /\ MergedIs /\ WrittenIs

\* Dividing brackets the number.
LEMMA Quotient ==
  ASSUME NEW f \in Nat, NEW m \in Nat \ {0}
  PROVE  (f \div m) \in Nat /\ (f \div m) * m <= f /\ f < (f \div m) * m + m
OBVIOUS

\* The chunks leave no file out.
LEMMA EachFileInUnit ==
  ASSUME NEW n \in 0..MaxFiles, NEW f \in 1..n
  PROVE  \E u \in E!Units(n) : f \in E!Chunk(n, u)
<1> DEFINE k == (f - 1) \div UnitSize
<1>1. k \in Nat /\ k * UnitSize <= f - 1 /\ f - 1 < k * UnitSize + UnitSize
  BY Quotient, UnitsTakeFiles
<1> HIDE DEF k
<1>2. k <= k * UnitSize
  BY <1>1, UnitsTakeFiles
<1>3. (k + 1) * UnitSize = k * UnitSize + UnitSize /\ (k + 1) - 1 = k
  BY <1>1, UnitsTakeFiles
<1>4. k + 1 \in E!Units(n)
  <2>1. k + 1 \in 1..MaxFiles
    BY <1>1, <1>2, UnitsTakeFiles
  <2>2. k * UnitSize < n
    BY <1>1, UnitsTakeFiles
  <2> QED
    BY <1>3, <2>1, <2>2 DEF E!Units, E!Unit
<1>5. f \in E!Chunk(n, k + 1)
  <2>1. k * UnitSize < f /\ f <= k * UnitSize + UnitSize
    BY <1>1, UnitsTakeFiles
  <2> QED
    BY <1>3, <2>1 DEF E!Chunk
<1> QED
  BY <1>4, <1>5

\* Files that need no dividing fit into one unit.
LEMMA OneUnitTakesAll ==
  ASSUME NEW n \in 0..MaxFiles, E!Cardinality(E!Units(n)) <= 1
  PROVE  n <= UnitSize
<1> SUFFICES ASSUME n > UnitSize PROVE FALSE
  BY UnitsTakeFiles
<1>1. {1, 2} \subseteq E!Units(n)
  BY UnitsTakeFiles DEF E!Units, E!Unit
<1>2. IsFiniteSet(E!Units(n))
  <2>1. E!Units(n) \subseteq 1..MaxFiles
    BY DEF E!Units, E!Unit
  <2>2. MaxFiles \in Int
    BY UnitsTakeFiles
  <2>3. IsFiniteSet(1..MaxFiles)
    BY <2>2, FS_Interval
  <2> QED
    BY <2>1, <2>3, FS_Subset
<1>3. Cardinality({1, 2}) = 2
  <2>1. IsFiniteSet({1}) /\ Cardinality({1}) = 1
    BY FS_Singleton
  <2>2. Cardinality({1} \cup {2}) = Cardinality({1}) + 1
    BY <2>1, FS_AddElement
  <2>3. {1} \cup {2} = {1, 2}
    OBVIOUS
  <2> QED
    BY <2>1, <2>2, <2>3
<1>4. Cardinality({1, 2}) <= Cardinality(E!Units(n)) /\ Cardinality(E!Units(n)) \in Nat
  BY <1>1, <1>2, FS_Subset, FS_CardinalityType
<1> QED
  BY <1>3, <1>4, OneCardinality

\* An agent alone is not several.
LEMMA AloneIsNotFanned ==
  ASSUME \A u \in Units : u # 1 => agents[u].stage = "none"
  PROVE  ~ E!Fanned
<1>1. E!Ended = {} \/ E!Ended = {1}
  BY DEF E!Ended, E!Unit, Units
<1> QED
  BY <1>1, OneCardinality, FS_EmptySet, FS_Singleton DEF E!Fanned

\* A file of a single unit is the first one's.
LEMMA FirstTakesAll ==
  ASSUME NEW n \in 0..MaxFiles, n <= UnitSize, NEW f \in 1..n
  PROVE  f \in E!Chunk(n, 1)
BY UnitsTakeFiles DEF E!Chunk

\* Nobody has begun.
LEMMA WholeInitially == E!Init => WholeInv
<1> SUFFICES ASSUME E!Init PROVE WholeInv
  OBVIOUS
<1>1. agents = [u \in Units |-> E!NoAgent] /\ stage = "scan" /\ files = 0 /\ result.status = "none"
  BY DEF E!Init, E!Unit, Units
<1>2. IsAgent(E!NoAgent) /\ E!NoAgent.stage = "none"
  BY DEF E!NoAgent, IsAgent, AgentEnds
<1>3. AgentShape
  BY <1>1, <1>2, UnitsTakeFiles DEF AgentShape
<1> QED
  BY <1>1, <1>2, <1>3 DEF WholeInv, BeforeMerge, MergedIs, WrittenIs

\* A new stage of one agent that keeps its place among the stages.
LEMMA AgentBecomes ==
  ASSUME AgentShape, NEW u \in Units, NEW a, IsAgent(a), agents' = [agents EXCEPT ![u] = a],
         UNCHANGED <<stage, files>>
  PROVE  /\ AgentShape'
         /\ agents'[u] = a
         /\ \A v \in Units : v # u => agents'[v] = agents[v]
BY DEF AgentShape, IsAgent

\* An agent that goes on or ends, before the merge.
LEMMA AgentRuns ==
  ASSUME WholeInv, NEW u \in Units, agents[u].stage \in {"queued", "running"},
         NEW a, IsAgent(a), a.stage \in {"running", "ended"},
         agents' = [agents EXCEPT ![u] = a], UNCHANGED <<stage, files, result, written>>
  PROVE  WholeInv'
<1>1. /\ AgentShape' /\ agents'[u] = a
      /\ \A v \in Units : v # u => agents'[v] = agents[v]
  BY AgentBecomes DEF WholeInv
<1>2. stage \in {"single", "many"}
  BY DEF WholeInv, AgentShape, BeforeMerge, MergedIs
<1>3. BeforeMerge'
  <2>1. CASE stage = "single"
    BY <1>1, <2>1 DEF WholeInv, BeforeMerge
  <2>2. CASE stage = "many"
    <3>1. u \in E!Units(files) /\ E!Units(files)' = E!Units(files)
      BY <2>2 DEF WholeInv, BeforeMerge, E!Units, E!Unit
    <3> QED
      BY <1>1, <2>2, <3>1 DEF WholeInv, BeforeMerge
  <2> QED
    BY <1>2, <2>1, <2>2
<1> QED
  BY <1>1, <1>2, <1>3 DEF WholeInv, MergedIs, WrittenIs

\* An agent is any that IsAgent describes.
LEMMA AgentMade ==
  ASSUME NEW st \in {"none", "queued", "running", "ended"}, NEW r, NEW w, NEW f, NEW e \in AgentEnds
  PROVE  IsAgent([stage |-> st, rounds |-> r, window |-> w, found |-> f, end |-> e])
BY DEF IsAgent

\* The agents after the split.
LEMMA ExploredStep ==
  ASSUME WholeInv, stage = "explore", NEW n \in 0..MaxFiles, E!Explored(n)
  PROVE  WholeInv'
<1>1. files' = n /\ result' = result /\ result.status = "none" /\ stage' \in {"single", "many"}
  BY DEF WholeInv, BeforeMerge, E!Explored
<1>2. CASE E!Cardinality(E!Units(n)) <= 1
  <2>1. n <= UnitSize
    BY <1>2, OneUnitTakesAll
  <2>2. stage' = "single" /\ agents' = [agents EXCEPT ![1].stage = "running"] /\ 1 \in Units
    BY <1>2, UnitsTakeFiles DEF E!Explored, Units
  <2> DEFINE a == [agents[1] EXCEPT !.stage = "running"]
  <2>3. agents' = [agents EXCEPT ![1] = a]
    BY <2>2
  <2>4. IsAgent(a) /\ a.stage = "running"
    BY <2>2 DEF WholeInv, AgentShape, IsAgent
  <2> HIDE DEF a
  <2>5. /\ agents' = [v \in Units |-> agents'[v]]
        /\ \A v \in Units : agents'[v] = IF v = 1 THEN a ELSE agents[v]
    BY <2>2, <2>3 DEF WholeInv, AgentShape
  <2>6. AgentShape'
    BY <1>1, <2>2, <2>4, <2>5 DEF WholeInv, AgentShape
  <2> QED
    BY <1>1, <2>1, <2>2, <2>4, <2>5, <2>6 DEF WholeInv, BeforeMerge, MergedIs, WrittenIs
<1>3. CASE ~ (E!Cardinality(E!Units(n)) <= 1)
  <2>1. /\ stage' = "many"
        /\ agents' = [u \in Units |-> IF u \in E!Units(n) THEN [E!NoAgent EXCEPT !.stage = "queued"]
                                      ELSE E!NoAgent]
    BY <1>3 DEF E!Explored, E!Unit, Units
  <2> DEFINE a == [E!NoAgent EXCEPT !.stage = "queued"]
  <2>2. IsAgent(a) /\ IsAgent(E!NoAgent) /\ a.stage = "queued" /\ E!NoAgent.stage = "none"
    BY DEF IsAgent, E!NoAgent, AgentEnds
  <2> HIDE DEF a
  <2>3. /\ agents' = [v \in Units |-> agents'[v]]
        /\ \A v \in Units : agents'[v] = IF v \in E!Units(n) THEN a ELSE E!NoAgent
    BY <2>1 DEF a
  <2>4. AgentShape'
    BY <1>1, <2>1, <2>2, <2>3 DEF WholeInv, AgentShape
  <2>5. E!Units(files)' = E!Units(n)
    BY <1>1 DEF E!Units, E!Unit
  <2> QED
    BY <1>1, <2>1, <2>2, <2>3, <2>4, <2>5 DEF WholeInv, BeforeMerge, MergedIs, WrittenIs
<1> QED
  BY <1>2, <1>3

\* The result of the merge.
LEMMA MergeStep ==
  ASSUME WholeInv, E!Merge
  PROVE  WholeInv'
<1>1. /\ stage \in {"single", "many"} /\ stage' = "merged" /\ E!Ended # {}
      /\ \A u \in Units : agents[u].stage \in {"ended", "none"}
      /\ UNCHANGED <<files, agents, written>>
      /\ result'.found = UNION {E!Found(u) : u \in E!Ended}
      /\ result'.status = IF stage = "single" THEN E!StatusOf(agents[1].end)
                          ELSE E!Merged(result'.found, {E!StatusOf(agents[u].end) : u \in E!Ended})
  BY DEF E!Merge, E!Unit, Units
<1>2. AgentShape' /\ BeforeMerge' /\ WrittenIs'
  BY <1>1 DEF WholeInv, AgentShape, BeforeMerge, WrittenIs, IsAgent
<1>3. \A u \in E!Ended : E!StatusOf(agents[u].end) = "ok" => agents[u].end = ""
  BY DEF WholeInv, AgentShape, IsAgent, AgentEnds, E!Ended, E!Unit, Units, E!StatusOf
<1>4. \A u \in E!Ended : E!StatusOf(agents[u].end) \in {"ok", "failed", "partial"}
  BY DEF WholeInv, AgentShape, IsAgent, AgentEnds, E!Ended, E!Unit, Units, E!StatusOf
<1>5. CASE stage = "single"
  <2>1. 1 \in E!Ended /\ E!Ended = {1}
    BY <1>1, <1>5, UnitsTakeFiles DEF WholeInv, BeforeMerge, E!Ended, E!Unit, Units
  <2>2. result'.status = E!StatusOf(agents[1].end)
    BY <1>1, <1>5
  <2>3. \A f \in 1..files : f \in E!Chunk(files, 1)
    BY <1>5, FirstTakesAll DEF WholeInv, AgentShape, BeforeMerge
  <2>4. ~ E!Fanned
    BY <1>5, AloneIsNotFanned DEF WholeInv, BeforeMerge
  <2>5. /\ E!Ended' = E!Ended /\ E!Fanned' = E!Fanned
        /\ \A u : E!Found(u)' = E!Found(u) /\ E!Chunk(files, u)' = E!Chunk(files, u)
    BY <1>1 DEF E!Ended, E!Fanned, E!Found, E!Chunk
  <2>6. result'.status # "none"
    BY <1>4, <2>1, <2>2
  <2>7. result'.status = "ok" =>
          /\ \A u \in E!Ended : agents[u].end = ""
          /\ \A f \in 1..files : \E u \in E!Ended : f \in E!Chunk(files, u)
    BY <1>3, <2>1, <2>2, <2>3
  <2>8. MergedIs'
    BY <1>1, <2>4, <2>5, <2>6, <2>7 DEF MergedIs
  <2> QED
    BY <1>2, <2>8 DEF WholeInv
<1>6. CASE stage = "many"
  <2> DEFINE statuses == {E!StatusOf(agents[u].end) : u \in E!Ended}
  <2>1. result'.status = E!Merged(result'.found, statuses)
    BY <1>1, <1>6
  <2>2. /\ result'.status \in {"ok", "partial", "failed"}
        /\ result'.status = "ok" => "failed" \notin statuses /\ "partial" \notin statuses
        /\ result'.status = "failed" => E!Objects(result'.found) = {}
    <3> HIDE DEF statuses
    <3> QED
      BY <2>1 DEF E!Merged
  <2>3. result'.status = "ok" => \A u \in E!Ended : agents[u].end = ""
    BY <1>3, <1>4, <2>2
  <2>4. \A f \in 1..files : \E u \in E!Ended : f \in E!Chunk(files, u)
    <3>1. E!Units(files) \subseteq E!Ended
      BY <1>1, <1>6 DEF WholeInv, BeforeMerge, E!Ended, E!Units, E!Unit, Units
    <3> QED
      BY <3>1, EachFileInUnit DEF WholeInv, AgentShape
  <2>5. /\ E!Ended' = E!Ended /\ E!Fanned' = E!Fanned
        /\ \A u : E!Found(u)' = E!Found(u) /\ E!Chunk(files, u)' = E!Chunk(files, u)
    BY <1>1 DEF E!Ended, E!Fanned, E!Found, E!Chunk
  <2>6. E!Objects(result.found)' = E!Objects(result'.found)
    BY DEF E!Objects
  <2> HIDE DEF statuses
  <2>7. MergedIs'
    BY <1>1, <2>2, <2>3, <2>4, <2>5, <2>6 DEF MergedIs
  <2> QED
    BY <1>2, <2>7 DEF WholeInv
<1> QED
  BY <1>1, <1>5, <1>6

\* Each step keeps the invariant.
LEMMA WholeStep == WholeInv /\ [E!Next]_extractionVars => WholeInv'
<1> SUFFICES ASSUME WholeInv, [E!Next]_extractionVars PROVE WholeInv'
  OBVIOUS
<1>a. E!Unit = Units
  BY DEF E!Unit, Units
<1>1. ASSUME NEW works \in BOOLEAN, E!Scan(works) PROVE WholeInv'
  <2>1. CASE works
    <3>1. stage = "scan" /\ stage' = "explore" /\ UNCHANGED <<files, agents, result, written>>
      BY <1>1, <2>1 DEF E!Scan
    <3> QED
      BY <3>1 DEF WholeInv, AgentShape, BeforeMerge, MergedIs, WrittenIs, IsAgent
  <2>2. CASE ~ works
    <3>1. /\ stage = "scan" /\ stage' = "single" /\ UNCHANGED <<files, result, written>>
          /\ agents' = [agents EXCEPT ![1].stage = "running"]
      BY <1>1, <2>2 DEF E!Scan
    <3> DEFINE a == [agents[1] EXCEPT !.stage = "running"]
    <3>2. agents' = [agents EXCEPT ![1] = a] /\ 1 \in Units
      BY <3>1, UnitsTakeFiles DEF Units
    <3>3. IsAgent(a) /\ a.stage = "running"
      BY <3>2 DEF WholeInv, AgentShape, IsAgent
    <3> HIDE DEF a
    <3>4. /\ agents' = [v \in Units |-> agents'[v]]
          /\ \A v \in Units : agents'[v] = IF v = 1 THEN a ELSE agents[v]
      BY <3>2 DEF WholeInv, AgentShape
    <3>5. files = 0
      BY <3>1 DEF WholeInv, BeforeMerge
    <3>6. AgentShape'
      BY <3>1, <3>3, <3>4 DEF WholeInv, AgentShape
    <3> QED
      BY <3>1, <3>2, <3>3, <3>4, <3>5, <3>6, UnitsTakeFiles
      DEF WholeInv, BeforeMerge, MergedIs, WrittenIs
  <2> QED
    BY <2>1, <2>2
<1>2. ASSUME NEW turn \in E!Batches, E!Explore(turn) PROVE WholeInv'
  <2>1. stage = "explore" /\ (E!Explored(0) \/ UNCHANGED <<stage, files, agents, result, written>>)
    BY <1>2 DEF E!Explore
  <2>2. CASE E!Explored(0)
    BY <2>1, <2>2, ExploredStep, UnitsTakeFiles
  <2>3. CASE UNCHANGED <<stage, files, agents, result, written>>
    BY <2>1, <2>3 DEF WholeInv, AgentShape, BeforeMerge, MergedIs, WrittenIs, IsAgent
  <2> QED
    BY <2>1, <2>2, <2>3
<1>3. ASSUME NEW n \in 0..MaxFiles, E!ExploreEnds(n) PROVE WholeInv'
  BY <1>3, ExploredStep DEF E!ExploreEnds
<1>4. ASSUME NEW u \in Units, E!Enter(u) PROVE WholeInv'
  <2> DEFINE a == [agents[u] EXCEPT !.stage = "running"]
  <2>1. /\ agents[u].stage = "queued" /\ agents' = [agents EXCEPT ![u] = a]
        /\ UNCHANGED <<stage, files, result, written>>
    BY <1>4 DEF E!Enter
  <2>2. IsAgent(a) /\ a.stage = "running"
    BY DEF WholeInv, AgentShape, IsAgent
  <2> QED
    BY <2>1, <2>2, AgentRuns
<1>5. ASSUME NEW u \in Units, NEW end \in AgentEnds, agents[u].stage = "running", E!Leave(u, end)
      PROVE  WholeInv'
  <2> DEFINE a == E!Gone(agents[u], end)
  <2>1. /\ agents' = [agents EXCEPT ![u] = a]
        /\ UNCHANGED <<stage, files, result, written>>
    BY <1>5 DEF E!Leave
  <2>2. IsAgent(a) /\ a.stage = "ended"
    BY <1>5 DEF IsAgent, E!Gone
  <2> QED
    BY <1>5, <2>1, <2>2, AgentRuns
<1>6. ASSUME NEW u \in Units, E!CallFails(u) PROVE WholeInv'
  BY <1>5, <1>6, <1>a DEF E!CallFails, E!Running, AgentEnds
<1>7. ASSUME NEW u \in Units, E!Stops(u) PROVE WholeInv'
  <2>1. PICK end \in {"", "iteration_cap"} : E!Leave(u, end)
    BY <1>7 DEF E!Stops
  <2> QED
    BY <1>5, <1>7, <1>a, <2>1 DEF E!Stops, E!Running, AgentEnds
<1>8. ASSUME NEW u \in Units, NEW turn \in E!Batches, E!Round(u, turn) PROVE WholeInv'
  <2>1. agents[u].stage = "running" /\ agents[u].end \in AgentEnds
    BY <1>8 DEF E!Round, E!Running, WholeInv, AgentShape, IsAgent
  <2> DEFINE s == E!FoldLeft(E!Did, [window |-> agents[u].window, found |-> agents[u].found], turn)
             ends == E!DeadLoop(s.window) \/ agents[u].rounds + 1 >= MaxRounds
             st == IF ends THEN "ended" ELSE "running"
             end == IF E!DeadLoop(s.window) THEN "dead_loop"
                    ELSE IF ends THEN "iteration_cap" ELSE agents[u].end
             w == IF ends THEN E!NoCalls ELSE s.window
             r == agents[u].rounds + 1
             f == s.found
             a == [stage |-> st, rounds |-> r, window |-> w, found |-> f, end |-> end]
  <2>2. agents' = [agents EXCEPT ![u] = a] /\ UNCHANGED <<stage, files, result, written>>
    BY <1>8 DEF E!Round
  <2>3. st \in {"running", "ended"}
    OBVIOUS
  <2>4. end \in AgentEnds
    BY <2>1 DEF AgentEnds
  <2>5. IsAgent(a) /\ a.stage \in {"running", "ended"}
    <3> HIDE DEF st, end, w, r, f
    <3> QED
      BY <2>3, <2>4, AgentMade
  <2> HIDE DEF a
  <2> QED
    BY <2>1, <2>2, <2>5, AgentRuns
<1>9. ASSUME NEW u \in Units, E!Crash(u) PROVE WholeInv'
  <2>1. agents[u].stage = "running"
    BY <1>9 DEF E!Crash, E!Running
  <2>2. CASE stage = "many"
    BY <1>5, <1>9, <2>1, <2>2 DEF E!Crash, AgentEnds
  <2>3. CASE stage # "many"
    <3>1. stage = "single" /\ u = 1
      BY <2>1, <2>3 DEF WholeInv, AgentShape, BeforeMerge, MergedIs
    <3>2. /\ stage' = "done" /\ UNCHANGED <<files, result, written>>
          /\ agents' = [agents EXCEPT ![u] = E!Gone(@, "exception")]
      BY <1>9, <2>3 DEF E!Crash
    <3> DEFINE a == E!Gone(agents[u], "exception")
    <3>3. agents' = [agents EXCEPT ![u] = a]
      BY <3>2
    <3>4. IsAgent(a) /\ a.stage = "ended"
      BY DEF IsAgent, AgentEnds, E!Gone
    <3> HIDE DEF a
    <3>5. /\ agents' = [v \in Units |-> agents'[v]]
          /\ \A v \in Units : agents'[v] = IF v = u THEN a ELSE agents[v]
      BY <3>3 DEF WholeInv, AgentShape
    <3>6. AgentShape'
      BY <3>2, <3>4, <3>5 DEF WholeInv, AgentShape
    <3> QED
      BY <3>1, <3>2, <3>4, <3>5, <3>6 DEF WholeInv, BeforeMerge, MergedIs, WrittenIs
  <2> QED
    BY <2>2, <2>3
<1>10. CASE E!Guard
  <2>1. /\ stage = "merged" /\ stage' = "done" /\ UNCHANGED <<files, agents, result>>
        /\ written' = IF result.status = "failed" THEN {} ELSE result.found
    BY <1>10 DEF E!Guard
  <2>2. /\ E!Ended' = E!Ended /\ E!Fanned' = E!Fanned
        /\ \A u : E!Found(u)' = E!Found(u) /\ E!Chunk(files, u)' = E!Chunk(files, u)
        /\ E!Objects(result.found)' = E!Objects(result.found)
    BY <2>1 DEF E!Ended, E!Fanned, E!Found, E!Chunk, E!Objects
  <2>3. AgentShape' /\ BeforeMerge' /\ WrittenIs'
    BY <2>1 DEF WholeInv, AgentShape, BeforeMerge, WrittenIs, IsAgent
  <2>4. MergedIs'
    BY <2>1, <2>2 DEF WholeInv, MergedIs
  <2> QED
    BY <2>3, <2>4 DEF WholeInv
<1>11. CASE UNCHANGED extractionVars
  <2>1. UNCHANGED <<stage, files, agents, result, written>>
    BY <1>11 DEF extractionVars
  <2>2. /\ E!Ended' = E!Ended /\ E!Fanned' = E!Fanned /\ E!Units(files)' = E!Units(files)
        /\ \A u : E!Found(u)' = E!Found(u) /\ E!Chunk(files, u)' = E!Chunk(files, u)
        /\ E!Objects(result.found)' = E!Objects(result.found)
    BY <2>1 DEF E!Ended, E!Fanned, E!Found, E!Chunk, E!Objects, E!Units
  <2>3. AgentShape' /\ BeforeMerge' /\ WrittenIs'
    BY <2>1, <2>2 DEF WholeInv, AgentShape, BeforeMerge, WrittenIs, IsAgent
  <2>4. MergedIs'
    BY <2>1, <2>2 DEF WholeInv, MergedIs
  <2> QED
    BY <2>3, <2>4 DEF WholeInv
<1> QED
  BY <1>1, <1>2, <1>3, <1>4, <1>6, <1>7, <1>8, <1>9, <1>10, <1>11, MergeStep, <1>a DEF E!Next

\* What the invariant says of an extraction that is over.
LEMMA WholeIsEnough == WholeInv => ExtractionsAreWhole
<1> SUFFICES ASSUME WholeInv, stage = "done" PROVE ExtractionsAreWhole
  BY DEF ExtractionsAreWhole, E!OkIsComplete, E!OthersAreKept
<1>1. E!OkIsComplete
  <2> SUFFICES ASSUME result.status = "ok"
               PROVE  /\ \A f \in 1..files : \E u \in E!Ended : f \in E!Chunk(files, u) /\ agents[u].end = ""
                      /\ written = UNION {{u} \X agents[u].found : u \in E!Ended}
    BY DEF E!OkIsComplete
  <2>1. \A u \in E!Ended : agents[u].end = "" /\ E!Found(u) = {u} \X agents[u].found
    BY DEF WholeInv, MergedIs, E!Found
  <2>2. written = UNION {E!Found(u) : u \in E!Ended}
    BY DEF WholeInv, MergedIs, WrittenIs
  <2>3. {E!Found(u) : u \in E!Ended} = {{u} \X agents[u].found : u \in E!Ended}
    BY <2>1
  <2> QED
    BY <2>1, <2>2, <2>3 DEF WholeInv, MergedIs
<1>2. E!OthersAreKept
  <2> SUFFICES ASSUME E!Fanned, NEW u \in E!Ended, agents[u].end # "exception"
               PROVE  E!Objects({u} \X agents[u].found) \subseteq written
    BY DEF E!OthersAreKept
  <2>1. result.status # "none"
    BY AloneIsNotFanned DEF WholeInv, MergedIs
  <2>2. result.found = UNION {E!Found(v) : v \in E!Ended} /\ E!Found(u) = {u} \X agents[u].found
    BY <2>1 DEF WholeInv, MergedIs, E!Found
  <2>3. E!Objects({u} \X agents[u].found) \subseteq E!Objects(result.found)
    BY <2>2 DEF E!Objects
  <2>4. E!Objects(result.found) \subseteq result.found
    BY DEF E!Objects
  <2> QED
    BY <2>1, <2>3, <2>4 DEF WholeInv, MergedIs, WrittenIs
<1> QED
  BY <1>1, <1>2 DEF ExtractionsAreWhole

\* An extraction that calls itself "ok" has read every file the explorer named, in
\* units of any size, and what an agent found is written whatever the others do.
THEOREM ExtractionsAreAlwaysWhole == Spec => []ExtractionsAreWhole
<1>1. WholeInv /\ [Next]_vars => WholeInv'
  BY WholeStep, StepOfOne
<1> QED
  BY AllStart, WholeInitially, <1>1, WholeIsEnough, PTL DEF Spec

----------------------------------------------------------------------------
(* Plans *)

\* A plan is a sequence of steps, in which some index is the largest (LargestIndex).
PlanShape ==
  /\ planPhase \in {"idle", "planned", "running", "counting", "done", "failed"}
  /\ plan \in Seq(P!PlanStep)
  /\ plan # <<>> => \E k \in DOMAIN plan : \A o \in DOMAIN plan : plan[o].idx <= plan[k].idx
  /\ parsed \in BOOLEAN
  /\ planPhase # "failed" => why = "none"
  /\ planPhase = "counting" => plan # <<>>

\* Nothing has run before a plan is executed.
NothingRan ==
  planPhase \in {"idle", "planned"} =>
    at = 1 /\ ran = <<>> /\ prev = P!Empty /\ results = P!Empty

\* The steps of a parsed plan are numbered in their order.
ParsedIsNumbered ==
  /\ parsed => \A k \in 1..Len(plan) : plan[k].idx = k
  /\ planPhase = "idle" => ~parsed
  /\ planPhase = "planned" => parsed

\* A parsed plan under way passed the check of its references, its first steps
\* have run in order and left their exports.
ParsedIsAt ==
  parsed =>
    /\ why # "unresolved"
    /\ ran \in Seq(Int) /\ \A i \in 1..Len(ran) : ran[i] = i
    /\ planPhase \in {"running", "counting"} =>
         /\ P!Valid(plan)
         /\ at \in 1..(Len(plan) + 1) /\ (plan # <<>> => at <= Len(plan))
         /\ Len(ran) = at - 1
         /\ DOMAIN prev = 1..(at - 1) /\ \A i \in 1..(at - 1) : prev[i] = plan[i].exports
    /\ planPhase = "done" => Len(ran) = Len(plan)

InOrderInv == PlanShape /\ NothingRan /\ ParsedIsNumbered /\ ParsedIsAt

\* A result that says what is missing, as far as the executor can see it.
Told(r) ==
  \/ P!Unseen(r)
  \/ /\ r.rows < r.all /\ r.all > HardCeiling => r.truncated
     /\ ~r.truncated => r.total = r.all

\* A result that lacks rows, as far as the driver can tell.
IsCut(r) ==
  \E rows, all, total \in Nat, lowered \in BOOLEAN :
    r = [rows |-> rows, all |-> all, truncated |-> TRUE, total |-> total, lowered |-> lowered]

\* Once a step with the last index has run, the result that is kept for it says
\* what is missing; while rows are counted it says that some are.
LastIsTold ==
  plan # <<>> /\ planPhase \in {"running", "counting", "done"} =>
    /\ at \in 1..(Len(plan) + 1)
    /\ planPhase \in {"running", "counting"} => at <= Len(plan)
    /\ planPhase = "done" => at = Len(plan) + 1
    /\ (\E k \in 1..(at - 1) : plan[k].idx = P!LastIdx) =>
          P!LastIdx \in DOMAIN results /\ Told(results[P!LastIdx])
    /\ planPhase = "counting" =>
         /\ plan[at].idx = P!LastIdx /\ P!LastIdx \in DOMAIN results
         /\ IsCut(results[P!LastIdx])

ToldInv == PlanShape /\ LastIsTold

\* A set of numbers has a least one.
LEMMA LeastNumber ==
  ASSUME NEW nums, nums \subseteq Nat, nums # {}
  PROVE  \E m \in nums : \A k \in nums : m <= k
<1> DEFINE less == {ss \in Nat \X Nat : ss[1] < ss[2]}
<1>1. IsWellFoundedOn(less, Nat)
  BY NatLessThanWellFounded DEF OpToRel
<1> HIDE DEF less
<1>2. PICK m \in nums : \A k \in nums : ~(<<k, m>> \in less)
  BY <1>1, WFMin
<1>3. \A k \in nums : ~(k < m)
  BY <1>2 DEF less
<1> QED
  BY <1>3

\* Of finitely many numbers one is the largest.
LEMMA LargestOf ==
  ASSUME NEW n \in Nat \ {0}, NEW f \in [1..n -> Int]
  PROVE  \E k \in 1..n : \A o \in 1..n : f[o] <= f[k]
<1> DEFINE Last(k, m) == \A o \in 1..m : f[o] <= f[k]
           none == {m \in 1..n : ~ \E k \in 1..m : Last(k, m)}
<1>1. none = {}
  <2> SUFFICES ASSUME none # {} PROVE FALSE
    OBVIOUS
  <2>1. PICK m \in none : \A k \in none : m <= k
    <3>1. none \subseteq Nat
      OBVIOUS
    <3> HIDE DEF none
    <3> QED
      BY <3>1, LeastNumber
  <2>2. m \in 1..n /\ ~ \E k \in 1..m : Last(k, m)
    BY <2>1
  <2>3. m # 1
    <3>1. m = 1 => Last(1, m)
      BY <2>2
    <3> QED
      BY <2>2, <3>1
  <2>4. PICK k \in 1..(m - 1) : Last(k, m - 1)
    <3>1. m - 1 \in 1..n /\ ~(m <= m - 1)
      BY <2>2, <2>3, SMTT(30)
    <3> QED
      BY <2>1, <3>1, ZenonT(60)
  <2>5. CASE f[m] <= f[k]
    <3>1. k \in 1..m
      BY <2>2, <2>4, SMTT(30)
    <3>2. Last(k, m)
      BY <2>2, <2>4, <2>5, SMTT(30)
    <3> QED
      BY <2>2, <3>1, <3>2
  <2>6. CASE ~(f[m] <= f[k])
    <3>1. m \in 1..m
      BY <2>2, SMTT(30)
    <3>2. ASSUME NEW o \in 1..m PROVE f[o] <= f[m]
      <4>1. f[o] \in Int /\ f[k] \in Int /\ f[m] \in Int
        BY <2>2, <2>4
      <4>2. o = m \/ f[o] <= f[k]
        BY <2>2, <2>4
      <4> QED
        BY <2>6, <4>1, <4>2, SMTT(30)
    <3> QED
      BY <2>2, <3>1, <3>2
  <2> QED
    BY <2>5, <2>6
<1>2. n \in 1..n
  OBVIOUS
<1>3. \E k \in 1..n : Last(k, n)
  BY <1>1, <1>2
<1> QED
  BY <1>3

\* Of the steps of a plan one has the largest index.
LEMMA LargestIndex ==
  ASSUME NEW p \in Seq(P!PlanStep), p # <<>>
  PROVE  \E k \in DOMAIN p : \A o \in DOMAIN p : p[o].idx <= p[k].idx
<1>1. PICK n : n = Len(p)
  OBVIOUS
<1>2. n \in Nat \ {0} /\ DOMAIN p = 1..n
  BY <1>1, EmptySeq, LenProperties
<1>3. PICK f : f = [k \in 1..n |-> p[k].idx]
  OBVIOUS
<1>4. \A k \in 1..n : p[k].idx \in Int
  <2>1. \A k \in 1..n : p[k] \in P!PlanStep
    BY <1>1, ElementOfSeq
  <2> QED
    BY <2>1 DEF P!PlanStep
<1>5. f \in [1..n -> Int]
  BY <1>3, <1>4
<1>6. PICK k \in 1..n : \A o \in 1..n : f[o] <= f[k]
  BY <1>2, <1>5, LargestOf
<1>7. \A o \in 1..n : p[o].idx <= p[k].idx
  BY <1>3, <1>6
<1> QED
  BY <1>2, <1>7

\* The plan that is taken from a well-formed answer is a sequence of steps that
\* are numbered from 1 on.
LEMMA TakenIsNumbered ==
  ASSUME NEW raw \in RawPlans, P!WellFormed(raw)
  PROVE  /\ P!Taken(raw) \in Seq(P!PlanStep)
         /\ \A k \in 1..Len(P!Taken(raw)) : P!Taken(raw)[k].idx = k
         /\ P!Taken(raw) # <<>> =>
              \E k \in DOMAIN P!Taken(raw) : \A o \in DOMAIN P!Taken(raw) :
                 P!Taken(raw)[o].idx <= P!Taken(raw)[k].idx
<1> DEFINE n == P!Cardinality(P!Dicts(raw))
           t == [k \in 1..n |->
                   raw.steps[CHOOSE i \in P!Dicts(raw) : raw.steps[i].step.idx = k].step]
<1>1. raw.steps \in Seq([dict : BOOLEAN, fit : BOOLEAN, step : P!PlanStep])
  BY PlansAreSteps
<1>2. n \in Nat
  <2>1. P!Dicts(raw) \subseteq 1..Len(raw.steps) /\ Len(raw.steps) \in Int
    BY <1>1 DEF P!Dicts
  <2>2. IsFiniteSet(1..Len(raw.steps))
    BY <2>1, FS_Interval
  <2>3. Cardinality(P!Dicts(raw)) \in Nat
    BY <2>1, <2>2, FS_Subset, FS_CardinalityType
  <2> QED
    BY <2>3, OneCardinality
<1>3. P!Taken(raw) = t
  BY DEF P!Taken
<1>4. {raw.steps[i].step.idx : i \in P!Dicts(raw)} = 1..n
  BY DEF P!WellFormed
<1> HIDE DEF n
<1>5. ASSUME NEW k \in 1..n
      PROVE  t[k] \in P!PlanStep /\ t[k].idx = k
  <2>1. \E i \in P!Dicts(raw) : raw.steps[i].step.idx = k
    BY <1>4
  <2>2. PICK i \in P!Dicts(raw) : t[k] = raw.steps[i].step /\ raw.steps[i].step.idx = k
    BY <2>1
  <2>3. i \in 1..Len(raw.steps)
    BY <1>1 DEF P!Dicts
  <2>4. raw.steps[i] \in [dict : BOOLEAN, fit : BOOLEAN, step : P!PlanStep]
    BY <1>1, <2>3, ElementOfSeq
  <2>5. raw.steps[i].step \in P!PlanStep
    BY <2>4
  <2> HIDE DEF t
  <2> QED
    BY <2>2, <2>5
<1>6. t \in Seq(P!PlanStep) /\ Len(t) = n /\ DOMAIN t = 1..n
  <2>1. t \in [1..n -> P!PlanStep]
    BY <1>5
  <2> HIDE DEF t
  <2> QED
    BY <1>2, <2>1
<1>7. t # <<>> => n \in 1..n
  BY <1>2, <1>6
<1> HIDE DEF t
<1> QED
  BY <1>2, <1>3, <1>5, <1>6, <1>7

\* The last index is that of some step, and no step's is larger.
LEMMA LastIs ==
  ASSUME PlanShape, plan # <<>>
  PROVE  /\ \E k \in 1..Len(plan) : plan[k].idx = P!LastIdx
         /\ P!LastIdx \in Int
<1> DEFINE idxs == {plan[k].idx : k \in DOMAIN plan}
<1>1. PICK k \in DOMAIN plan : \A o \in DOMAIN plan : plan[o].idx <= plan[k].idx
  BY DEF PlanShape
<1>2. plan[k].idx \in idxs /\ \A o \in DOMAIN plan : plan[o].idx <= plan[k].idx
  BY <1>1
<1>3. P!LastIdx \in idxs
  BY <1>2 DEF P!LastIdx
<1>4. DOMAIN plan = 1..Len(plan) /\ \A o \in 1..Len(plan) : plan[o] \in P!PlanStep
  BY DEF PlanShape
<1>5. PICK m \in 1..Len(plan) : plan[m].idx = P!LastIdx
  BY <1>3, <1>4
<1>6. plan[m].idx \in Int
  BY <1>4 DEF P!PlanStep
<1> QED
  BY <1>5, <1>6

\* Nothing is planned at first.
LEMMA PlansInitially == P!Init => InOrderInv /\ ToldInv
<1> SUFFICES ASSUME P!Init PROVE InOrderInv /\ ToldInv
  OBVIOUS
<1>1. planPhase = "idle" /\ plan = <<>> /\ parsed = FALSE /\ why = "none"
  BY DEF P!Init
<1>2. PlanShape
  <2>1. plan \in Seq(P!PlanStep)
    BY <1>1, EmptySeq
  <2> QED
    BY <1>1, <2>1 DEF PlanShape
<1>3. NothingRan
  BY Zenon DEF P!Init, NothingRan
<1> QED
  BY <1>1, <1>2, <1>3 DEF InOrderInv, ToldInv, ParsedIsNumbered, ParsedIsAt, LastIsTold

\* What a step leaves alone, and where it leads.
LEMMA PlanMoves ==
  ASSUME P!Next
  PROVE  \/ \E raw \in RawPlans : P!Generate(raw)
         \/ \E p : P!Execute(p)
         \/ /\ planPhase = "running" /\ plan # <<>>
            /\ planPhase' = "failed" /\ why' = "unresolved" /\ ~P!Resolved(plan[at])
            /\ UNCHANGED <<plan, parsed, at, prev, results, ran>>
         \/ /\ planPhase = "running"
            /\ planPhase' = "failed" /\ why' # "unresolved"
            /\ UNCHANGED <<plan, parsed, at, prev, results, ran>>
         \/ \E all, came \in 0..MaxRows : P!StepRuns(all, came)
         \/ \E ok \in BOOLEAN : P!Count(ok)
         \/ P!NoSteps
BY DEF P!Next, P!StepFails, P!Refuse, P!Fail, P!Step

\* The plan after the planner and before the executor.
LEMMA PlanShapeStep ==
  ASSUME PlanShape, ParsedIsNumbered, [P!Next]_plansVars
  PROVE  PlanShape' /\ ParsedIsNumbered'
<1>1. ASSUME NEW raw \in RawPlans, P!Generate(raw) PROVE PlanShape' /\ ParsedIsNumbered'
  <2>1. CASE P!WellFormed(raw)
    <3> DEFINE t == P!Taken(raw)
    <3>1. planPhase' = "planned" /\ plan' = t /\ parsed' = TRUE /\ why' = "none"
      BY <1>1, <2>1 DEF P!Generate, PlanShape
    <3>2. /\ t \in Seq(P!PlanStep) /\ \A k \in 1..Len(t) : t[k].idx = k
          /\ t # <<>> => \E k \in DOMAIN t : \A o \in DOMAIN t : t[o].idx <= t[k].idx
      BY <2>1, TakenIsNumbered
    <3> HIDE DEF t
    <3> QED
      BY <3>1, <3>2 DEF PlanShape, ParsedIsNumbered
  <2>2. CASE ~P!WellFormed(raw)
    BY <1>1, <2>2 DEF P!Generate, P!Fail, PlanShape, ParsedIsNumbered
  <2> QED
    BY <2>1, <2>2
<1>2. ASSUME NEW p, P!Execute(p) PROVE PlanShape' /\ ParsedIsNumbered'
  <2>1. /\ planPhase \in {"idle", "planned"} /\ plan' = p /\ planPhase' \in {"running", "failed"}
        /\ p \in AgentPlans \/ (planPhase = "planned" /\ p = plan)
        /\ parsed' <=> (planPhase = "planned" /\ p = plan)
        /\ parsed' \in BOOLEAN
        /\ planPhase' # "failed" => why' = why
    BY <1>2 DEF P!Execute, P!Fail
  <2>2. CASE planPhase = "planned" /\ p = plan
    BY <2>1, <2>2 DEF PlanShape, ParsedIsNumbered
  <2>3. CASE p \in AgentPlans /\ ~(planPhase = "planned" /\ p = plan)
    <3>1. p \in Seq(P!PlanStep)
      BY <2>3, PlansAreSteps
    <3>2. p # <<>> => \E k \in DOMAIN p : \A o \in DOMAIN p : p[o].idx <= p[k].idx
      BY <3>1, LargestIndex
    <3> QED
      BY <2>1, <2>3, <3>1, <3>2 DEF PlanShape, ParsedIsNumbered
  <2> QED
    BY <2>1, <2>2, <2>3
<1>3. ASSUME NEW all \in 0..MaxRows, NEW came \in 0..MaxRows, P!StepRuns(all, came)
      PROVE  PlanShape' /\ ParsedIsNumbered'
  <2>1. /\ plan # <<>> /\ planPhase = "running" /\ planPhase' \in {"counting", "running", "done"}
        /\ UNCHANGED <<plan, parsed, why>>
    BY <1>3 DEF P!StepRuns, P!Finish
  <2> QED
    BY <2>1 DEF PlanShape, ParsedIsNumbered
<1>4. ASSUME NEW ok \in BOOLEAN, P!Count(ok) PROVE PlanShape' /\ ParsedIsNumbered'
  <2>1. /\ planPhase = "counting" /\ planPhase' \in {"running", "done"}
        /\ UNCHANGED <<plan, parsed, why>>
    BY <1>4 DEF P!Count, P!Finish
  <2> QED
    BY <2>1 DEF PlanShape, ParsedIsNumbered
<1>5. CASE P!NoSteps
  BY <1>5 DEF P!NoSteps, PlanShape, ParsedIsNumbered
<1>6. CASE planPhase = "running" /\ planPhase' = "failed" /\ UNCHANGED <<plan, parsed>>
  BY <1>6 DEF PlanShape, ParsedIsNumbered
<1>7. CASE UNCHANGED plansVars
  BY <1>7 DEF plansVars, PlanShape, ParsedIsNumbered
<1> QED
  BY <1>1, <1>2, <1>3, <1>4, <1>5, <1>6, <1>7, PlanMoves

\* A parsed plan that passed the check finds the values its next step refers to.
LEMMA ParsedResolves ==
  ASSUME InOrderInv, parsed, planPhase = "running", plan # <<>>
  PROVE  P!Resolved(plan[at])
<1>1. /\ at \in 1..Len(plan) /\ P!Valid(plan) /\ DOMAIN plan = 1..Len(plan)
      /\ DOMAIN prev = 1..(at - 1) /\ \A i \in 1..(at - 1) : prev[i] = plan[i].exports
      /\ \A k \in 1..Len(plan) : plan[k].idx = k
  BY DEF InOrderInv, PlanShape, ParsedIsNumbered, ParsedIsAt
<1>2. SUFFICES ASSUME NEW r \in P!Bound(plan[at])
               PROVE  r.to \in DOMAIN prev /\ r.var \in prev[r.to]
  BY DEF P!Resolved
<1>3. /\ r.to < at /\ r.to \in 1..Len(plan)
      /\ r.var \in P!Declared(plan, r.to)
  BY <1>1 DEF P!Valid
<1>4. P!Declared(plan, r.to) = plan[r.to].exports
  <2>1. {k \in DOMAIN plan : plan[k].idx = r.to} = {r.to}
    BY <1>1, <1>3
  <2>2. (CHOOSE k \in {r.to} : \A o \in {r.to} : o <= k) = r.to
    BY <1>3
  <2> QED
    BY <2>1, <2>2 DEF P!Declared
<1>5. r.to \in 1..(at - 1)
  BY <1>1, <1>3
<1> QED
  BY <1>1, <1>3, <1>4, <1>5

\* A step that is over has run in its turn.
LEMMA InOrderFinish ==
  ASSUME InOrderInv, planPhase \in {"running", "counting"}, plan # <<>>, parsed,
         NEW res, P!Finish(plan[at], res), UNCHANGED <<plan, parsed, why>>
  PROVE  ParsedIsAt'
<1>1. /\ at \in 1..Len(plan) /\ P!Valid(plan) /\ Len(plan) \in Nat
      /\ ran \in Seq(Int) /\ Len(ran) = at - 1 /\ \A i \in 1..Len(ran) : ran[i] = i
      /\ DOMAIN prev = 1..(at - 1) /\ \A i \in 1..(at - 1) : prev[i] = plan[i].exports
      /\ plan[at].idx = at /\ why # "unresolved"
  BY DEF InOrderInv, PlanShape, ParsedIsNumbered, ParsedIsAt
<1>2. /\ prev' = [i \in DOMAIN prev \cup {at} |-> IF i = at THEN plan[at].exports ELSE prev[i]]
      /\ ran' = Append(ran, at) /\ at' = at + 1
      /\ planPhase' = IF at = Len(plan) THEN "done" ELSE "running"
  BY <1>1 DEF P!Finish
<1>3. ran' \in Seq(Int) /\ Len(ran') = at /\ \A i \in 1..at : ran'[i] = i
  BY <1>1, <1>2
<1>4. DOMAIN prev' = 1..at /\ \A i \in 1..at : prev'[i] = plan[i].exports
  <2>1. (1..(at - 1)) \cup {at} = 1..at
    BY <1>1
  <2> QED
    BY <1>1, <1>2, <2>1
<1>5. P!Valid(plan)'
  BY <1>1
<1>6. at = at' - 1
  BY <1>1, <1>2
<1> QED
  BY <1>1, <1>2, <1>3, <1>4, <1>5, <1>6 DEF ParsedIsAt

\* Each step keeps the order.
LEMMA InOrderStep == InOrderInv /\ [P!Next]_plansVars => InOrderInv'
<1> SUFFICES ASSUME InOrderInv, [P!Next]_plansVars PROVE InOrderInv'
  OBVIOUS
<1>0. PlanShape' /\ ParsedIsNumbered'
  BY PlanShapeStep DEF InOrderInv
<1> SUFFICES NothingRan' /\ ParsedIsAt'
  BY <1>0 DEF InOrderInv
<1>1. ASSUME NEW raw \in RawPlans, P!Generate(raw) PROVE NothingRan' /\ ParsedIsAt'
  <2>1. /\ planPhase = "idle" /\ planPhase' \in {"planned", "failed"} /\ why' # "unresolved"
        /\ UNCHANGED <<at, prev, results, ran>>
    BY <1>1 DEF P!Generate, P!Fail, InOrderInv, PlanShape
  <2>2. ran = <<>> /\ P!Empty' = P!Empty
    BY <2>1 DEF InOrderInv, NothingRan, P!Empty
  <2> QED
    BY <2>1, <2>2 DEF InOrderInv, NothingRan, ParsedIsAt
<1>2. ASSUME NEW p, P!Execute(p) PROVE NothingRan' /\ ParsedIsAt'
  <2>1. /\ planPhase \in {"idle", "planned"} /\ planPhase' \in {"running", "failed"} /\ plan' = p
        /\ UNCHANGED <<at, prev, results, ran>>
        /\ planPhase' = "running" => P!Valid(p)
        /\ why' # "unresolved"
    BY <1>2 DEF P!Execute, P!Fail, InOrderInv, PlanShape
  <2>2. ran = <<>> /\ at = 1 /\ DOMAIN prev = {}
    BY <2>1 DEF InOrderInv, NothingRan, P!Empty
  <2>3. P!Valid(p) => P!Valid(plan)'
    BY <2>1
  <2>4. Len(plan') \in Nat /\ (plan' # <<>> => 1 <= Len(plan'))
    <3>1. plan' \in Seq(P!PlanStep)
      BY <1>0 DEF PlanShape
    <3> QED
      BY <3>1, EmptySeq
  <2>5. 1 \in 1..(Len(plan') + 1) /\ 1..(1 - 1) = {} /\ Len(ran) = 0 /\ ran \in Seq(Int)
    BY <2>2, <2>4
  <2> QED
    BY <2>1, <2>2, <2>3, <2>4, <2>5 DEF NothingRan, ParsedIsAt
<1>3. ASSUME NEW all \in 0..MaxRows, NEW came \in 0..MaxRows, P!StepRuns(all, came)
      PROVE  NothingRan' /\ ParsedIsAt'
  <2>1. /\ plan # <<>> /\ planPhase = "running" /\ planPhase' \in {"counting", "running", "done"}
        /\ UNCHANGED <<plan, parsed, why>>
    BY <1>3 DEF P!StepRuns, P!Finish
  <2>a. \/ planPhase' = "counting" /\ UNCHANGED <<prev, ran, at>>
        \/ \E res : P!Finish(plan[at], res)
    BY <1>3 DEF P!StepRuns, P!Step
  <2>2. CASE planPhase' = "counting" /\ UNCHANGED <<prev, ran, at>>
    <3>1. P!Valid(plan)' <=> P!Valid(plan)
      BY <2>1 DEF P!Valid, P!Declared, P!Bound, P!Sql
    <3> QED
      BY <2>1, <2>2, <3>1 DEF InOrderInv, NothingRan, ParsedIsAt
  <2>3. CASE \E res : P!Finish(plan[at], res)
    <3>1. parsed => ParsedIsAt'
      BY <2>1, <2>3, InOrderFinish
    <3> QED
      BY <2>1, <3>1 DEF NothingRan, ParsedIsAt
  <2> QED
    BY <2>a, <2>2, <2>3
<1>4. ASSUME NEW ok \in BOOLEAN, P!Count(ok) PROVE NothingRan' /\ ParsedIsAt'
  <2>1. /\ planPhase = "counting" /\ planPhase' \in {"running", "done"} /\ plan # <<>>
        /\ UNCHANGED <<plan, parsed, why>>
        /\ \E res : P!Finish(plan[at], res)
    BY <1>4 DEF P!Count, P!Finish, P!Step, InOrderInv, PlanShape
  <2>2. parsed => ParsedIsAt'
    BY <2>1, InOrderFinish
  <2> QED
    BY <2>1, <2>2 DEF NothingRan, ParsedIsAt
<1>5. CASE P!NoSteps
  <2>1. /\ planPhase = "running" /\ plan = <<>> /\ planPhase' = "done"
        /\ UNCHANGED <<plan, parsed, at, prev, results, ran, why>>
    BY <1>5 DEF P!NoSteps
  <2>2. Len(plan) = 0
    BY <2>1
  <2>3. parsed => Len(ran) = Len(plan)
    BY <2>1, <2>2 DEF InOrderInv, ParsedIsAt
  <2>4. ParsedIsAt'
    BY <2>1, <2>3 DEF InOrderInv, ParsedIsAt
  <2> QED
    BY <2>1, <2>4 DEF NothingRan
<1>6. ASSUME planPhase' = "failed", UNCHANGED <<plan, parsed, at, prev, results, ran>>,
             why' = "unresolved" => ~parsed
      PROVE  NothingRan' /\ ParsedIsAt'
  BY <1>6 DEF InOrderInv, NothingRan, ParsedIsAt
<1>7. CASE UNCHANGED plansVars
  <2>1. UNCHANGED <<planPhase, plan, parsed, at, prev, results, ran, why>>
    BY <1>7 DEF plansVars
  <2>2. (P!Valid(plan)' <=> P!Valid(plan)) /\ P!Empty' = P!Empty
    BY <2>1 DEF P!Valid, P!Declared, P!Bound, P!Sql, P!Empty
  <2>3. NothingRan'
    BY <2>1, <2>2 DEF InOrderInv, NothingRan
  <2>4. ParsedIsAt'
    BY <2>1, <2>2 DEF InOrderInv, ParsedIsAt
  <2> QED
    BY <2>3, <2>4
<1>8. CASE /\ planPhase = "running" /\ plan # <<>>
           /\ planPhase' = "failed" /\ why' = "unresolved" /\ ~P!Resolved(plan[at])
           /\ UNCHANGED <<plan, parsed, at, prev, results, ran>>
  <2>1. ~parsed
    BY <1>8, ParsedResolves
  <2> QED
    BY <1>6, <1>8, <2>1
<1>9. CASE /\ planPhase' = "failed" /\ why' # "unresolved"
           /\ UNCHANGED <<plan, parsed, at, prev, results, ran>>
  BY <1>6, <1>9
<1> QED
  BY <1>1, <1>2, <1>3, <1>4, <1>5, <1>7, <1>8, <1>9, PlanMoves

\* A plan that was parsed runs each of its steps once and in order, whatever its
\* steps refer to, so that no value is missing (plan_generator.py, plan_executor.py).
THEOREM ParsedPlansAlwaysRunInOrder == Spec => []ParsedPlansRunInOrder
<1>1. InOrderInv /\ [Next]_vars => InOrderInv'
  BY InOrderStep, StepOfOne
<1>2. InOrderInv => ParsedPlansRunInOrder
  <2> SUFFICES ASSUME InOrderInv, parsed PROVE ParsedPlansRunInOrder
    BY DEF ParsedPlansRunInOrder, P!ParsedPlansRunInOrder
  <2>1. /\ why # "unresolved" /\ (planPhase = "done" => Len(ran) = Len(plan))
        /\ ran \in Seq(Int) /\ \A i \in 1..Len(ran) : ran[i] = i
    BY DEF InOrderInv, ParsedIsAt
  <2> QED
    BY <2>1 DEF ParsedPlansRunInOrder, P!ParsedPlansRunInOrder
<1> QED
  BY AllStart, PlansInitially, <1>1, <1>2, PTL DEF Spec

\* Rows that stay below the limit applied are all there were, unless a limit
\* within the query was lowered.
LEMMA BelowLimitIsAll ==
  ASSUME NEW s \in P!PlanStep, NEW all \in Nat, NEW came \in Nat, NEW rows,
         came = all \/ P!Lowered(s),
         rows = IF P!TailCap(s) = 0 THEN came ELSE P!Lesser(came, P!TailCap(s))
  PROVE  /\ rows \in Nat /\ P!Lowered(s) \in BOOLEAN
         /\ ~(rows >= P!Applied(s)) => rows = all \/ (P!Lowered(s) /\ rows < HardCeiling)
<1>1. \A n \in Nat : P!Cap(n) \in Nat
  BY PlansAreSteps DEF P!Cap, P!Lesser
<1>2. s.tail \in Nat /\ s.mid \in Nat
  BY DEF P!PlanStep
<1>3. P!TailCap(s) \in Nat /\ P!Applied(s) \in Nat
  BY <1>1, <1>2 DEF P!TailCap, P!Applied
<1>4. P!TailCap(s) # 0 => P!Applied(s) = P!TailCap(s)
  BY DEF P!TailCap, P!Applied
<1>5. P!Lowered(s) \in BOOLEAN
  BY DEF P!Lowered
<1>6. P!Lowered(s) => P!Applied(s) = HardCeiling /\ HardCeiling \in Nat
  BY <1>2, PlansAreSteps DEF P!Lowered, P!Applied, P!Cap, P!Lesser
<1>7. rows \in Nat /\ (~(rows >= P!Applied(s)) => rows = came)
  BY <1>3, <1>4 DEF P!Lesser
<1> QED
  BY <1>3, <1>5, <1>6, <1>7

\* A step that is over with a result that says what is missing.
LEMMA ToldFinish ==
  ASSUME ToldInv, planPhase \in {"running", "counting"}, plan # <<>>, UNCHANGED plan,
         NEW res, plan[at].idx = P!LastIdx => Told(res), P!Finish(plan[at], res)
  PROVE  LastIsTold'
<1>1. at \in 1..Len(plan) /\ Len(plan) \in Nat /\ P!LastIdx' = P!LastIdx
  BY DEF ToldInv, PlanShape, LastIsTold, P!LastIdx
<1>2. PICK s : s = plan[at]
  OBVIOUS
<1>3. PICK last : last = P!LastIdx
  OBVIOUS
<1>4. /\ results' = [i \in DOMAIN results \cup {s.idx} |-> IF i = s.idx THEN res ELSE results[i]]
      /\ at' = at + 1 /\ planPhase' = IF at = Len(plan) THEN "done" ELSE "running"
  BY <1>2 DEF P!Finish
<1>5. ASSUME NEW k \in 1..at, plan[k].idx = last
      PROVE  last \in DOMAIN results' /\ Told(results'[last])
  <2>1. CASE s.idx = last
    <3>1. Told(res) /\ last \in DOMAIN results' /\ results'[last] = res
      BY <1>2, <1>3, <1>4, <2>1
    <3> QED
      BY <3>1
  <2>2. CASE s.idx # last
    <3>1. k # at
      BY <1>2, <1>5, <2>2
    <3>2. k \in 1..(at - 1)
      BY <1>1, <3>1
    <3>3. last \in DOMAIN results /\ Told(results[last])
      BY <1>3, <1>5, <3>2 DEF ToldInv, LastIsTold
    <3>4. last \in DOMAIN results' /\ results'[last] = results[last]
      BY <1>4, <2>2, <3>3
    <3> QED
      BY <3>3, <3>4
  <2> QED
    BY <2>1, <2>2
<1>6. at = at' - 1 /\ P!LastIdx' = last /\ (planPhase' = "running" => at' <= Len(plan))
      /\ at' \in 1..(Len(plan) + 1) /\ planPhase' \in {"done", "running"}
      /\ (planPhase' = "done" => at' = Len(plan) + 1)
  BY <1>1, <1>3, <1>4
<1> QED
  BY <1>5, <1>6 DEF LastIsTold

\* Each step keeps the results telling what is missing.
LEMMA ToldStep == InOrderInv /\ ToldInv /\ [P!Next]_plansVars => ToldInv'
<1> SUFFICES ASSUME InOrderInv, ToldInv, [P!Next]_plansVars PROVE ToldInv'
  OBVIOUS
<1>0. PlanShape'
  BY PlanShapeStep DEF InOrderInv
<1> SUFFICES LastIsTold'
  BY <1>0 DEF ToldInv
<1>1. ASSUME NEW raw \in RawPlans, P!Generate(raw) PROVE LastIsTold'
  <2>1. planPhase' \in {"planned", "failed"}
    BY <1>1 DEF P!Generate, P!Fail
  <2> QED
    BY <2>1 DEF LastIsTold
<1>2. ASSUME NEW p, P!Execute(p) PROVE LastIsTold'
  <2>1. /\ planPhase \in {"idle", "planned"} /\ planPhase' \in {"running", "failed"}
        /\ at' = at
    BY <1>2 DEF P!Execute, P!Fail
  <2>2. at' = 1
    BY <2>1 DEF InOrderInv, NothingRan
  <2>3. plan' # <<>> => Len(plan') \in Nat /\ 1 <= Len(plan')
    <3>1. plan' \in Seq(P!PlanStep)
      BY <1>0 DEF PlanShape
    <3> QED
      BY <3>1, EmptySeq
  <2> QED
    BY <2>1, <2>2, <2>3 DEF LastIsTold
<1>3. ASSUME NEW all \in 0..MaxRows, NEW came \in 0..MaxRows, P!StepRuns(all, came)
      PROVE  LastIsTold'
  <2> DEFINE rows == IF P!TailCap(plan[at]) = 0 THEN came ELSE P!Lesser(came, P!TailCap(plan[at]))
             cut == rows >= P!Applied(plan[at])
             low == P!Lowered(plan[at])
             res == [rows |-> rows, all |-> all, truncated |-> cut, total |-> rows, lowered |-> low]
  <2>1. /\ planPhase = "running" /\ plan # <<>> /\ UNCHANGED plan
        /\ came = all \/ low
    BY <1>3 DEF P!StepRuns, P!Step
  <2>2. IF plan[at].idx = P!LastIdx /\ cut
        THEN /\ planPhase' = "counting" /\ at' = at
             /\ results' = [i \in DOMAIN results \cup {plan[at].idx} |->
                              IF i = plan[at].idx THEN res ELSE results[i]]
        ELSE P!Finish(plan[at], res)
    BY <1>3 DEF P!StepRuns, P!Step
  <2>3. at \in 1..Len(plan) /\ Len(plan) \in Nat /\ plan[at] \in P!PlanStep
    <3>1. at \in 1..Len(plan) /\ Len(plan) \in Nat
      BY <2>1 DEF ToldInv, PlanShape, LastIsTold
    <3> QED
      BY <3>1, ElementOfSeq DEF ToldInv, PlanShape
  <2>4. all \in Nat /\ came \in Nat
    BY PlansAreSteps
  <2>5. rows \in Nat /\ low \in BOOLEAN /\ (~cut => rows = all \/ (low /\ rows < HardCeiling))
    BY <2>1, <2>3, <2>4, BelowLimitIsAll
  <2> HIDE DEF rows, low
  <2>6. CASE plan[at].idx = P!LastIdx /\ cut
    <3>1. PICK last : last = P!LastIdx
      OBVIOUS
    <3>2. /\ planPhase' = "counting" /\ at' = at /\ P!LastIdx' = last /\ plan'[at'].idx = last
          /\ results' = [i \in DOMAIN results \cup {last} |-> IF i = last THEN res ELSE results[i]]
      BY <2>1, <2>2, <2>6, <3>1 DEF P!LastIdx
    <3>3. last \in DOMAIN results' /\ results'[last] = res
      BY <3>2
    <3>4. res = [rows |-> rows, all |-> all, truncated |-> TRUE, total |-> rows, lowered |-> low]
      BY <2>6
    <3>5. Told(res) /\ res.truncated
      BY <3>4 DEF Told
    <3>6. IsCut(res)
      <4> HIDE DEF res
      <4> QED
        BY <2>4, <2>5, <3>4 DEF IsCut
    <3>7. Told(results'[last]) /\ IsCut(results'[last])
      BY <3>3, <3>5, <3>6
    <3> HIDE DEF res
    <3> QED
      BY <2>1, <2>3, <3>2, <3>3, <3>7 DEF LastIsTold
  <2>7. CASE ~(plan[at].idx = P!LastIdx /\ cut)
    <3>1. plan[at].idx = P!LastIdx => Told(res)
      <4>1. SUFFICES ASSUME ~cut PROVE Told(res)
        BY <2>7
      <4>2. rows = all \/ (low /\ rows < HardCeiling)
        BY <2>5, <4>1
      <4> QED
        BY <2>4, <4>2 DEF Told, P!Unseen
    <3>2. P!Finish(plan[at], res)
      BY <2>2, <2>7
    <3> HIDE DEF res
    <3> QED
      BY <2>1, <3>1, <3>2, ToldFinish
  <2> QED
    BY <2>6, <2>7
<1>4. ASSUME NEW ok \in BOOLEAN, P!Count(ok) PROVE LastIsTold'
  <2> DEFINE old == results[plan[at].idx]
             res == IF ok THEN [rows |-> old.rows, all |-> old.all, total |-> old.all,
                              truncated |-> old.all > HardCeiling, lowered |-> old.lowered]
                    ELSE [old EXCEPT !.total = 0]
  <2>1. planPhase = "counting" /\ plan # <<>> /\ UNCHANGED plan /\ P!Finish(plan[at], res)
    BY <1>4 DEF P!Count, P!Step, ToldInv, PlanShape
  <2>2. PICK r, a, t \in Nat, low \in BOOLEAN :
          old = [rows |-> r, all |-> a, truncated |-> TRUE, total |-> t, lowered |-> low]
    BY <2>1 DEF ToldInv, LastIsTold, IsCut
  <2>3. old.truncated = TRUE /\ old.all = a /\ old.rows = r /\ old.lowered = low
    BY <2>2
  <2>4. Told(res)
    <3>1. CASE ok
      <4>1. res = [rows |-> r, all |-> a, total |-> a, truncated |-> a > HardCeiling,
                   lowered |-> low]
        BY <2>3, <3>1
      <4> HIDE DEF res
      <4> QED
        BY <4>1 DEF Told
    <3>2. CASE ~ok
      <4>1. res = [rows |-> r, all |-> a, truncated |-> TRUE, total |-> 0, lowered |-> low]
        <5>1. res = [old EXCEPT !.total = 0]
          BY <3>2
        <5> HIDE DEF res, old
        <5> QED
          BY <2>2, <5>1
      <4> HIDE DEF res
      <4> QED
        BY <4>1 DEF Told
    <3> QED
      BY <3>1, <3>2
  <2> HIDE DEF res
  <2> QED
    BY <2>1, <2>4, ToldFinish
<1>5. CASE P!NoSteps
  BY <1>5 DEF P!NoSteps, LastIsTold
<1>6. CASE planPhase' = "failed"
  BY <1>6 DEF LastIsTold
<1>7. CASE UNCHANGED plansVars
  <2>1. UNCHANGED <<planPhase, plan, at, results>> /\ P!LastIdx' = P!LastIdx
    BY <1>7 DEF plansVars, P!LastIdx
  <2> QED
    BY <2>1 DEF ToldInv, LastIsTold
<1> QED
  BY <1>1, <1>2, <1>3, <1>4, <1>5, <1>6, <1>7, PlanMoves

\* A result that lacks rows because there were more than may be shown says so, for
\* any limits and any plan, the agent's own included (plan_executor.py, drivers).
THEOREM CutsAreAlwaysTold == Spec => []CutsAreTold
<1>1. InOrderInv /\ ToldInv /\ [Next]_vars => InOrderInv' /\ ToldInv'
  BY InOrderStep, ToldStep, StepOfOne
<1>2. ToldInv => CutsAreTold
  <2> SUFFICES ASSUME ToldInv, planPhase = "done", plan # <<>> PROVE CutsAreTold
    BY DEF CutsAreTold, P!CutsAreTold
  <2>1. PICK k \in 1..Len(plan) : plan[k].idx = P!LastIdx
    BY LastIs DEF ToldInv
  <2>2. at - 1 = Len(plan)
    BY DEF ToldInv, PlanShape, LastIsTold
  <2>3. Told(results[P!LastIdx])
    BY <2>1, <2>2 DEF ToldInv, LastIsTold
  <2> QED
    BY <2>3 DEF Told, CutsAreTold, P!CutsAreTold, P!Final
<1> QED
  BY AllStart, PlansInitially, <1>1, <1>2, PTL DEF Spec
=============================================================================
