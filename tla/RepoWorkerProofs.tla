--------------------------- MODULE RepoWorkerProofs ---------------------------
(***************************************************************************)
(* Theorems about RepoWorker, for any number of repositories, workers,     *)
(* rebuilds, cancel requests and slots, and whatever Events allows.        *)
(*                                                                         *)
(* The types come first.  ClaimInv says whose worker_id a row can hold and *)
(* who will clear it when its worker has been cancelled; StaleInv, that    *)
(* a cancel request which has yet to clear a row is about a worker that    *)
(* can no longer be cancelled; PromoteInv, who is left to promote the      *)
(* candidates no promote has selected, or to take back a "parsed".         *)
(***************************************************************************)
EXTENDS RepoWorker, TLAPS

USE DEF taskVars, rowVars, apiVars, promVars, vars, Goto, Exists

\* TypeOK with less of cancelReq, and without the flags.
ShapeOK ==
  /\ pc \in [Workers -> {"idle", "done"} \cup Live]
  /\ repoOf \in [Workers -> Repos \cup {NoRepo}]
  /\ \A w \in Workers : (pc[w] = "idle") = (repoOf[w] = NoRepo)
  /\ cancelReq \subseteq Workers
  /\ failed \subseteq Workers
  /\ registry \subseteq Workers
  /\ wid \in [Repos -> Workers \cup {NoWorker}]
  /\ status \in [Repos -> Statuses]
  /\ deleting \subseteq Repos
  /\ rebuild \in [Rebuilds -> {"idle", "cleaning", "done"}]
  /\ targets \in [Rebuilds -> SUBSET Repos]
  /\ req \in [Requests -> [at : {"idle", "hit", "stale"}, repo : Repos \cup {NoRepo},
                           seen : Statuses \cup {"none"}]]
  /\ unpromoted \subseteq Repos
  /\ batch \in [Workers -> SUBSET Repos]

FlagsOK == mark \in BOOLEAN /\ gaveUp \in BOOLEAN /\ lost \in BOOLEAN

\* Stages of a worker that has not written its row.
Unwritten == {"idle", "phase1", "aborting"}

\* A request that will clear the row of r.
Pending(q, r) == req[q].at # "idle" /\ req[q].repo = r

\* A row names a worker of its own that has written it, a deleted row names none,
\* and the row of a cancelled worker names another one or is about to be cleared.
ClaimInv ==
  /\ \A r \in Repos : wid[r] # NoWorker =>
       repoOf[wid[r]] = r /\ pc[wid[r]] \notin Unwritten
  /\ \A r \in Repos : status[r] = "deleted" => wid[r] = NoWorker
  /\ \A w \in cancelReq :
       /\ pc[w] \in Live \ Unwritten
       /\ wid[repoOf[w]] = w => \E q \in Requests : Pending(q, repoOf[w])
  /\ \A q \in Requests : req[q].at # "idle" => req[q].repo \in Repos
  /\ RowNamesLiveWorker

\* A request that has yet to clear its row has found one of the row's workers
\* ended, or has taken it out of the registry.
StaleInv ==
  \A q \in Requests : req[q].at # "idle" =>
    \E w \in Workers : repoOf[w] = req[q].repo /\ ~(w \in registry /\ pc[w] \in Live)

\* Candidates wait for a promote only while a repository is not parsed, a worker
\* will look at the gate or promote, or one will turn a row to "error": the worker
\* that failed, or the request that cancelled it.
PromoteInv ==
  \/ unpromoted = {} \/ lost \/ gaveUp
  \/ \E r \in Repos : status[r] # "parsed"
  \/ \E w \in Workers : pc[w] \in {"gate", "lock"}
  \/ \E w \in Workers : pc[w] = "finalize" /\ w \in failed \ cancelReq
  \/ \E q \in Requests : req[q].at = "hit" /\ req[q].seen # "error"

----------------------------------------------------------------------------
\* Every action keeps the shape.
LEMMA ShapeStep ==
  ASSUME ShapeOK, [Next]_vars
  PROVE  ShapeOK'
<1> USE NoneAssumption DEF ShapeOK, Statuses, Live, InSlot, Pipeline, NoRequest
<1>1. ASSUME NEW r \in Repos, ParseRepo(r) PROVE ShapeOK'
  BY <1>1 DEF ParseRepo, Spawn, Free
<1>2. ASSUME BatchParse PROVE ShapeOK'
  BY <1>2 DEF BatchParse, Spawn, Free
<1>3. ASSUME NEW b \in Rebuilds, BatchForce(b) PROVE ShapeOK'
  BY <1>3 DEF BatchForce, Free
<1>4. ASSUME NEW b \in Rebuilds, Cleaned(b) PROVE ShapeOK'
  BY <1>4 DEF Cleaned, Spawn
<1>5. ASSUME NEW b \in Rebuilds, CleaningFails(b) PROVE ShapeOK'
  BY <1>5 DEF CleaningFails
<1>6. ASSUME NEW w \in Workers, Phase1Missing(w) PROVE ShapeOK'
  BY <1>6 DEF Phase1Missing
<1>7. ASSUME NEW w \in Workers, Phase1Commit(w) PROVE ShapeOK'
  BY <1>7 DEF Phase1Commit
<1>8. ASSUME NEW w \in Workers, Phase1Raises(w) PROVE ShapeOK'
  BY <1>8 DEF Phase1Raises
<1>9. ASSUME NEW w \in Workers, Phase1Aborted(w) PROVE ShapeOK'
  BY <1>9 DEF Phase1Aborted
<1>10. ASSUME NEW w \in Workers, Phase1Done(w) PROVE ShapeOK'
  BY <1>10 DEF Phase1Done
<1>11. ASSUME NEW w \in Workers, Acquire(w) PROVE ShapeOK'
  BY <1>11 DEF Acquire
<1>12. ASSUME NEW w \in Workers, SlotReady(w) PROVE ShapeOK'
  BY <1>12 DEF SlotReady
<1>13. ASSUME NEW w \in Workers, SlotRaises(w) PROVE ShapeOK'
  BY <1>13 DEF SlotRaises
<1>14. ASSUME NEW w \in Workers, CancelledOutside(w) PROVE ShapeOK'
  BY <1>14 DEF CancelledOutside
<1>15. ASSUME NEW w \in Workers, Extract(w) PROVE ShapeOK'
  BY <1>15 DEF Extract, SetStatus
<1>16. ASSUME NEW w \in Workers, StoreParsed(w) PROVE ShapeOK'
  BY <1>16 DEF StoreParsed, SetStatus
<1>17. ASSUME NEW w \in Workers, Gate(w) PROVE ShapeOK'
  BY <1>17 DEF Gate
<1>18. ASSUME NEW w \in Workers, PromoteBegins(w) PROVE ShapeOK'
  BY <1>18 DEF PromoteBegins, StillPending
<1>19. ASSUME NEW w \in Workers, PromoteReleases(w) PROVE ShapeOK'
  BY <1>19 DEF PromoteReleases
<1>20. ASSUME NEW w \in Workers, PromoteGivesUp(w) PROVE ShapeOK'
  BY <1>20 DEF PromoteGivesUp
<1>21. ASSUME NEW w \in Workers, PromoteCommits(w) PROVE ShapeOK'
  BY <1>21 DEF PromoteCommits
<1>22. ASSUME NEW w \in Workers, PipelineRaises(w) PROVE ShapeOK'
  BY <1>22 DEF PipelineRaises
<1>23. ASSUME NEW w \in Workers, Finalize(w) PROVE ShapeOK'
  BY <1>23 DEF Finalize, CleanRow, FinalStatus
<1>24. ASSUME NEW w \in Workers, FinalizeCancelled(w) PROVE ShapeOK'
  BY <1>24 DEF FinalizeCancelled, CleanRow, FinalStatus
<1>25. ASSUME NEW q \in Requests, NEW r \in Repos, CancelParse(q, r) PROVE ShapeOK'
  BY <1>25 DEF CancelParse
<1>26. ASSUME NEW q \in Requests, CancelCommit(q) PROVE ShapeOK'
  BY <1>26 DEF CancelCommit
<1>27. ASSUME NEW r \in Repos, DeleteCheck(r) PROVE ShapeOK'
  BY <1>27 DEF DeleteCheck
<1>28. ASSUME NEW r \in Repos, DeleteCommit(r) PROVE ShapeOK'
  BY <1>28 DEF DeleteCommit
<1>29. ASSUME Crash PROVE ShapeOK'
  BY <1>29 DEF Crash
<1>30. CASE UNCHANGED vars
  BY <1>30
<1> QED
  BY <1>1, <1>2, <1>3, <1>4, <1>5, <1>6, <1>7, <1>8, <1>9, <1>10, <1>11, <1>12, <1>13,
     <1>14, <1>15, <1>16, <1>17, <1>18, <1>19, <1>20, <1>21, <1>22, <1>23, <1>24,
     <1>25, <1>26, <1>27, <1>28, <1>29, <1>30 DEF Next, WorkerStep

\* Spawning changes nothing about the workers that have been started before, and
\* the new ones are before the commit of Phase 1.
LEMMA SpawnStarts ==
  ASSUME ShapeOK, NEW rs \in SUBSET Repos, Spawn(rs)
  PROVE  /\ \A w \in Workers : pc[w] # "idle" => pc'[w] = pc[w] /\ repoOf'[w] = repoOf[w]
         /\ \A w \in registry' : w \in registry \/ pc'[w] = "phase1"
         /\ \A w \in Workers : pc'[w] # pc[w] => pc'[w] = "phase1"
BY DEF Spawn, ShapeOK

\* Every action keeps the claims in order.
LEMMA ClaimStep ==
  ASSUME ShapeOK, ClaimInv, [Next]_vars
  PROVE  ClaimInv'
<1> USE NoneAssumption DEF ShapeOK, ClaimInv, RowNamesLiveWorker, Pending, Unwritten,
       Statuses, Live, InSlot, Pipeline, NoRequest
<1>1. ASSUME NEW r \in Repos, ParseRepo(r) PROVE ClaimInv'
  BY <1>1 DEF ParseRepo, Spawn, Free
<1>2. ASSUME BatchParse PROVE ClaimInv'
  BY <1>2 DEF BatchParse, Spawn, Free
<1>3. ASSUME NEW b \in Rebuilds, BatchForce(b) PROVE ClaimInv'
  BY <1>3 DEF BatchForce, Free
<1>4. ASSUME NEW b \in Rebuilds, Cleaned(b) PROVE ClaimInv'
  BY <1>4 DEF Cleaned, Spawn
<1>5. ASSUME NEW b \in Rebuilds, CleaningFails(b) PROVE ClaimInv'
  BY <1>5 DEF CleaningFails
<1>6. ASSUME NEW w \in Workers, Phase1Missing(w) PROVE ClaimInv'
  BY <1>6 DEF Phase1Missing
<1>7. ASSUME NEW w \in Workers, Phase1Commit(w) PROVE ClaimInv'
  BY <1>7 DEF Phase1Commit
<1>8. ASSUME NEW w \in Workers, Phase1Raises(w) PROVE ClaimInv'
  BY <1>8 DEF Phase1Raises
<1>9. ASSUME NEW w \in Workers, Phase1Aborted(w) PROVE ClaimInv'
  BY <1>9 DEF Phase1Aborted
<1>10. ASSUME NEW w \in Workers, Phase1Done(w) PROVE ClaimInv'
  BY <1>10 DEF Phase1Done
<1>11. ASSUME NEW w \in Workers, Acquire(w) PROVE ClaimInv'
  BY <1>11 DEF Acquire
<1>12. ASSUME NEW w \in Workers, SlotReady(w) PROVE ClaimInv'
  BY <1>12 DEF SlotReady
<1>13. ASSUME NEW w \in Workers, SlotRaises(w) PROVE ClaimInv'
  BY <1>13 DEF SlotRaises
<1>14. ASSUME NEW w \in Workers, CancelledOutside(w) PROVE ClaimInv'
  BY <1>14 DEF CancelledOutside
<1>15. ASSUME NEW w \in Workers, Extract(w) PROVE ClaimInv'
  BY <1>15 DEF Extract, SetStatus
<1>16. ASSUME NEW w \in Workers, StoreParsed(w) PROVE ClaimInv'
  BY <1>16 DEF StoreParsed, SetStatus
<1>17. ASSUME NEW w \in Workers, Gate(w) PROVE ClaimInv'
  BY <1>17 DEF Gate
<1>18. ASSUME NEW w \in Workers, PromoteBegins(w) PROVE ClaimInv'
  BY <1>18 DEF PromoteBegins, StillPending
<1>19. ASSUME NEW w \in Workers, PromoteReleases(w) PROVE ClaimInv'
  BY <1>19 DEF PromoteReleases
<1>20. ASSUME NEW w \in Workers, PromoteGivesUp(w) PROVE ClaimInv'
  BY <1>20 DEF PromoteGivesUp
<1>21. ASSUME NEW w \in Workers, PromoteCommits(w) PROVE ClaimInv'
  BY <1>21 DEF PromoteCommits
<1>22. ASSUME NEW w \in Workers, PipelineRaises(w) PROVE ClaimInv'
  BY <1>22 DEF PipelineRaises
<1>23. ASSUME NEW w \in Workers, Finalize(w) PROVE ClaimInv'
  BY <1>23 DEF Finalize, CleanRow, FinalStatus
<1>24. ASSUME NEW w \in Workers, FinalizeCancelled(w) PROVE ClaimInv'
  BY <1>24 DEF FinalizeCancelled, CleanRow, FinalStatus
<1>25. ASSUME NEW q \in Requests, NEW r \in Repos, CancelParse(q, r) PROVE ClaimInv'
  BY <1>25 DEF CancelParse
<1>26. ASSUME NEW q \in Requests, CancelCommit(q) PROVE ClaimInv'
  <2>1. /\ \A r \in Repos : wid'[r] \in {wid[r], NoWorker}
        /\ \A r \in Repos : wid'[r] # NoWorker => req[q].repo # r
        /\ \A r \in Repos : status'[r] = "deleted" <=> status[r] = "deleted"
        /\ \A p \in Requests : req'[p].at # "idle" => p # q /\ req'[p] = req[p]
        /\ \A p \in Requests \ {q} : req'[p] = req[p]
        /\ UNCHANGED <<pc, repoOf, cancelReq>>
    BY <1>26 DEF CancelCommit
  <2>2. \A w \in cancelReq' : wid'[repoOf'[w]] = w => \E p \in Requests : Pending(p, repoOf[w])'
    <3> SUFFICES ASSUME NEW w \in cancelReq, wid'[repoOf[w]] = w
                 PROVE  \E p \in Requests : req'[p].at # "idle" /\ req'[p].repo = repoOf[w]
      BY <2>1
    <3>1. repoOf[w] \in Repos /\ wid[repoOf[w]] = w
      BY <2>1
    <3>2. PICK p \in Requests : Pending(p, repoOf[w])
      BY <3>1
    <3> QED
      BY <2>1, <3>1, <3>2
  <2>3. RowNamesLiveWorker'
    <3> SUFFICES ASSUME NEW r \in Repos, ~lost', wid'[r] # NoWorker, pc'[wid'[r]] \notin Live
                 PROVE  \E p \in Requests : req'[p].at # "idle" /\ req'[p].repo = r
      OBVIOUS
    <3>1. PICK p \in Requests : Pending(p, r)
      BY <2>1, <1>26 DEF CancelCommit
    <3> QED
      BY <2>1, <3>1
  <2> QED
    BY <2>1, <2>2, <2>3
<1>27. ASSUME NEW r \in Repos, DeleteCheck(r) PROVE ClaimInv'
  BY <1>27 DEF DeleteCheck
<1>28. ASSUME NEW r \in Repos, DeleteCommit(r) PROVE ClaimInv'
  BY <1>28 DEF DeleteCommit
<1>29. ASSUME Crash PROVE ClaimInv'
  BY <1>29 DEF Crash
<1>30. CASE UNCHANGED vars
  BY <1>30
<1> QED
  BY <1>1, <1>2, <1>3, <1>4, <1>5, <1>6, <1>7, <1>8, <1>9, <1>10, <1>11, <1>12, <1>13,
     <1>14, <1>15, <1>16, <1>17, <1>18, <1>19, <1>20, <1>21, <1>22, <1>23, <1>24,
     <1>25, <1>26, <1>27, <1>28, <1>29, <1>30 DEF Next, WorkerStep

\* A cancel request never clears the row of workers that are all alive: whatever
\* happens between its look at the registry and its write.
LEMMA StaleStep ==
  ASSUME ShapeOK, ClaimInv, StaleInv, [Next]_vars
  PROVE  StaleInv'
<1> USE NoneAssumption DEF ShapeOK, ClaimInv, StaleInv, Unwritten, Live, InSlot, Pipeline,
       NoRequest
<1>1. ASSUME NEW r \in Repos, ParseRepo(r) PROVE StaleInv'
  BY <1>1 DEF ParseRepo, Spawn, Free
<1>2. ASSUME BatchParse PROVE StaleInv'
  BY <1>2 DEF BatchParse, Spawn, Free
<1>3. ASSUME NEW b \in Rebuilds, BatchForce(b) PROVE StaleInv'
  BY <1>3 DEF BatchForce, Free
<1>4. ASSUME NEW b \in Rebuilds, Cleaned(b) PROVE StaleInv'
  BY <1>4 DEF Cleaned, Spawn
<1>5. ASSUME NEW b \in Rebuilds, CleaningFails(b) PROVE StaleInv'
  BY <1>5 DEF CleaningFails
<1>6. ASSUME NEW w \in Workers, Phase1Missing(w) PROVE StaleInv'
  BY <1>6 DEF Phase1Missing
<1>7. ASSUME NEW w \in Workers, Phase1Commit(w) PROVE StaleInv'
  BY <1>7 DEF Phase1Commit
<1>8. ASSUME NEW w \in Workers, Phase1Raises(w) PROVE StaleInv'
  BY <1>8 DEF Phase1Raises
<1>9. ASSUME NEW w \in Workers, Phase1Aborted(w) PROVE StaleInv'
  BY <1>9 DEF Phase1Aborted
<1>10. ASSUME NEW w \in Workers, Phase1Done(w) PROVE StaleInv'
  BY <1>10 DEF Phase1Done
<1>11. ASSUME NEW w \in Workers, Acquire(w) PROVE StaleInv'
  BY <1>11 DEF Acquire
<1>12. ASSUME NEW w \in Workers, SlotReady(w) PROVE StaleInv'
  BY <1>12 DEF SlotReady
<1>13. ASSUME NEW w \in Workers, SlotRaises(w) PROVE StaleInv'
  BY <1>13 DEF SlotRaises
<1>14. ASSUME NEW w \in Workers, CancelledOutside(w) PROVE StaleInv'
  BY <1>14 DEF CancelledOutside
<1>15. ASSUME NEW w \in Workers, Extract(w) PROVE StaleInv'
  BY <1>15 DEF Extract, SetStatus
<1>16. ASSUME NEW w \in Workers, StoreParsed(w) PROVE StaleInv'
  BY <1>16 DEF StoreParsed, SetStatus
<1>17. ASSUME NEW w \in Workers, Gate(w) PROVE StaleInv'
  BY <1>17 DEF Gate
<1>18. ASSUME NEW w \in Workers, PromoteBegins(w) PROVE StaleInv'
  BY <1>18 DEF PromoteBegins, StillPending
<1>19. ASSUME NEW w \in Workers, PromoteReleases(w) PROVE StaleInv'
  BY <1>19 DEF PromoteReleases
<1>20. ASSUME NEW w \in Workers, PromoteGivesUp(w) PROVE StaleInv'
  BY <1>20 DEF PromoteGivesUp
<1>21. ASSUME NEW w \in Workers, PromoteCommits(w) PROVE StaleInv'
  BY <1>21 DEF PromoteCommits
<1>22. ASSUME NEW w \in Workers, PipelineRaises(w) PROVE StaleInv'
  BY <1>22 DEF PipelineRaises
<1>23. ASSUME NEW w \in Workers, Finalize(w) PROVE StaleInv'
  BY <1>23 DEF Finalize, CleanRow, FinalStatus
<1>24. ASSUME NEW w \in Workers, FinalizeCancelled(w) PROVE StaleInv'
  BY <1>24 DEF FinalizeCancelled, CleanRow, FinalStatus
<1>25. ASSUME NEW q \in Requests, NEW r \in Repos, CancelParse(q, r) PROVE StaleInv'
  BY <1>25 DEF CancelParse
<1>26. ASSUME NEW q \in Requests, CancelCommit(q) PROVE StaleInv'
  BY <1>26 DEF CancelCommit
<1>27. ASSUME NEW r \in Repos, DeleteCheck(r) PROVE StaleInv'
  BY <1>27 DEF DeleteCheck
<1>28. ASSUME NEW r \in Repos, DeleteCommit(r) PROVE StaleInv'
  BY <1>28 DEF DeleteCommit
<1>29. ASSUME Crash PROVE StaleInv'
  BY <1>29 DEF Crash
<1>30. CASE UNCHANGED vars
  BY <1>30
<1> QED
  BY <1>1, <1>2, <1>3, <1>4, <1>5, <1>6, <1>7, <1>8, <1>9, <1>10, <1>11, <1>12, <1>13,
     <1>14, <1>15, <1>16, <1>17, <1>18, <1>19, <1>20, <1>21, <1>22, <1>23, <1>24,
     <1>25, <1>26, <1>27, <1>28, <1>29, <1>30 DEF Next, WorkerStep

\* No step takes the worker_id of a sole worker off its row while it can be cancelled.
LEMMA VisibleStep ==
  ASSUME ShapeOK, ClaimInv, StaleInv, SoleWorkerVisible, [Next]_vars
  PROVE  SoleWorkerVisible'
<1> USE NoneAssumption DEF ShapeOK, ClaimInv, StaleInv, SoleWorkerVisible, Unwritten, Live,
       InSlot, Pipeline, NoRequest
<1>1. ASSUME NEW r \in Repos, ParseRepo(r) PROVE SoleWorkerVisible'
  BY <1>1 DEF ParseRepo, Spawn, Free
<1>2. ASSUME BatchParse PROVE SoleWorkerVisible'
  <2>1. \A w \in registry' : pc'[w] \in Live \ {"phase1", "aborting"} =>
          /\ w \in registry /\ pc[w] \in Live \ {"phase1", "aborting"}
          /\ repoOf'[w] = repoOf[w]
    BY <1>2, SpawnStarts DEF BatchParse, Free
  <2>2. \A v, w \in Workers : repoOf[v] = repoOf[w] /\ pc[w] # "idle" =>
          repoOf'[v] = repoOf'[w]
    BY <1>2, SpawnStarts DEF BatchParse, Free
  <2> QED
    BY <1>2, <2>1, <2>2 DEF BatchParse, Free
<1>3. ASSUME NEW b \in Rebuilds, BatchForce(b) PROVE SoleWorkerVisible'
  BY <1>3 DEF BatchForce, Free
<1>4. ASSUME NEW b \in Rebuilds, Cleaned(b) PROVE SoleWorkerVisible'
  <2>1. \A w \in registry' : pc'[w] \in Live \ {"phase1", "aborting"} =>
          /\ w \in registry /\ pc[w] \in Live \ {"phase1", "aborting"}
          /\ repoOf'[w] = repoOf[w]
    BY <1>4, SpawnStarts DEF Cleaned
  <2>2. \A v, w \in Workers : repoOf[v] = repoOf[w] /\ pc[w] # "idle" =>
          repoOf'[v] = repoOf'[w]
    BY <1>4, SpawnStarts DEF Cleaned
  <2> QED
    BY <1>4, <2>1, <2>2 DEF Cleaned
<1>5. ASSUME NEW b \in Rebuilds, CleaningFails(b) PROVE SoleWorkerVisible'
  BY <1>5 DEF CleaningFails
<1>6. ASSUME NEW w \in Workers, Phase1Missing(w) PROVE SoleWorkerVisible'
  BY <1>6 DEF Phase1Missing
<1>7. ASSUME NEW w \in Workers, Phase1Commit(w) PROVE SoleWorkerVisible'
  BY <1>7 DEF Phase1Commit
<1>8. ASSUME NEW w \in Workers, Phase1Raises(w) PROVE SoleWorkerVisible'
  BY <1>8 DEF Phase1Raises
<1>9. ASSUME NEW w \in Workers, Phase1Aborted(w) PROVE SoleWorkerVisible'
  BY <1>9 DEF Phase1Aborted
<1>10. ASSUME NEW w \in Workers, Phase1Done(w) PROVE SoleWorkerVisible'
  BY <1>10 DEF Phase1Done
<1>11. ASSUME NEW w \in Workers, Acquire(w) PROVE SoleWorkerVisible'
  BY <1>11 DEF Acquire
<1>12. ASSUME NEW w \in Workers, SlotReady(w) PROVE SoleWorkerVisible'
  BY <1>12 DEF SlotReady
<1>13. ASSUME NEW w \in Workers, SlotRaises(w) PROVE SoleWorkerVisible'
  BY <1>13 DEF SlotRaises
<1>14. ASSUME NEW w \in Workers, CancelledOutside(w) PROVE SoleWorkerVisible'
  BY <1>14 DEF CancelledOutside
<1>15. ASSUME NEW w \in Workers, Extract(w) PROVE SoleWorkerVisible'
  BY <1>15 DEF Extract, SetStatus
<1>16. ASSUME NEW w \in Workers, StoreParsed(w) PROVE SoleWorkerVisible'
  BY <1>16 DEF StoreParsed, SetStatus
<1>17. ASSUME NEW w \in Workers, Gate(w) PROVE SoleWorkerVisible'
  BY <1>17 DEF Gate
<1>18. ASSUME NEW w \in Workers, PromoteBegins(w) PROVE SoleWorkerVisible'
  BY <1>18 DEF PromoteBegins, StillPending
<1>19. ASSUME NEW w \in Workers, PromoteReleases(w) PROVE SoleWorkerVisible'
  BY <1>19 DEF PromoteReleases
<1>20. ASSUME NEW w \in Workers, PromoteGivesUp(w) PROVE SoleWorkerVisible'
  BY <1>20 DEF PromoteGivesUp
<1>21. ASSUME NEW w \in Workers, PromoteCommits(w) PROVE SoleWorkerVisible'
  BY <1>21 DEF PromoteCommits
<1>22. ASSUME NEW w \in Workers, PipelineRaises(w) PROVE SoleWorkerVisible'
  BY <1>22 DEF PipelineRaises
<1>23. ASSUME NEW w \in Workers, Finalize(w) PROVE SoleWorkerVisible'
  BY <1>23 DEF Finalize, CleanRow, FinalStatus
<1>24. ASSUME NEW w \in Workers, FinalizeCancelled(w) PROVE SoleWorkerVisible'
  BY <1>24 DEF FinalizeCancelled, CleanRow, FinalStatus
<1>25. ASSUME NEW q \in Requests, NEW r \in Repos, CancelParse(q, r) PROVE SoleWorkerVisible'
  BY <1>25 DEF CancelParse
<1>26. ASSUME NEW q \in Requests, CancelCommit(q) PROVE SoleWorkerVisible'
  BY <1>26 DEF CancelCommit
<1>27. ASSUME NEW r \in Repos, DeleteCheck(r) PROVE SoleWorkerVisible'
  BY <1>27 DEF DeleteCheck
<1>28. ASSUME NEW r \in Repos, DeleteCommit(r) PROVE SoleWorkerVisible'
  BY <1>28 DEF DeleteCommit
<1>29. ASSUME Crash PROVE SoleWorkerVisible'
  BY <1>29 DEF Crash
<1>30. CASE UNCHANGED vars
  BY <1>30
<1> QED
  BY <1>1, <1>2, <1>3, <1>4, <1>5, <1>6, <1>7, <1>8, <1>9, <1>10, <1>11, <1>12, <1>13,
     <1>14, <1>15, <1>16, <1>17, <1>18, <1>19, <1>20, <1>21, <1>22, <1>23, <1>24,
     <1>25, <1>26, <1>27, <1>28, <1>29, <1>30 DEF Next, WorkerStep

\* No step leaves candidates behind without a worker or a request that will see to them.
LEMMA PromoteStep ==
  ASSUME ShapeOK, ClaimInv, PromoteInv, [Next]_vars
  PROVE  PromoteInv'
<1> USE NoneAssumption DEF ShapeOK, ClaimInv, PromoteInv, Unwritten, Live, InSlot, Pipeline,
       NoRequest, Statuses
<1>1. ASSUME NEW r \in Repos, ParseRepo(r) PROVE PromoteInv'
  BY <1>1 DEF ParseRepo, Spawn, Free
<1>2. ASSUME BatchParse PROVE PromoteInv'
  BY <1>2 DEF BatchParse, Spawn, Free
<1>3. ASSUME NEW b \in Rebuilds, BatchForce(b) PROVE PromoteInv'
  BY <1>3 DEF BatchForce, Free
<1>4. ASSUME NEW b \in Rebuilds, Cleaned(b) PROVE PromoteInv'
  BY <1>4 DEF Cleaned, Spawn
<1>5. ASSUME NEW b \in Rebuilds, CleaningFails(b) PROVE PromoteInv'
  BY <1>5 DEF CleaningFails
<1>6. ASSUME NEW w \in Workers, Phase1Missing(w) PROVE PromoteInv'
  BY <1>6 DEF Phase1Missing
<1>7. ASSUME NEW w \in Workers, Phase1Commit(w) PROVE PromoteInv'
  BY <1>7 DEF Phase1Commit
<1>8. ASSUME NEW w \in Workers, Phase1Raises(w) PROVE PromoteInv'
  BY <1>8 DEF Phase1Raises
<1>9. ASSUME NEW w \in Workers, Phase1Aborted(w) PROVE PromoteInv'
  BY <1>9 DEF Phase1Aborted
<1>10. ASSUME NEW w \in Workers, Phase1Done(w) PROVE PromoteInv'
  BY <1>10 DEF Phase1Done
<1>11. ASSUME NEW w \in Workers, Acquire(w) PROVE PromoteInv'
  BY <1>11 DEF Acquire
<1>12. ASSUME NEW w \in Workers, SlotReady(w) PROVE PromoteInv'
  BY <1>12 DEF SlotReady
<1>13. ASSUME NEW w \in Workers, SlotRaises(w) PROVE PromoteInv'
  BY <1>13 DEF SlotRaises
<1>14. ASSUME NEW w \in Workers, CancelledOutside(w) PROVE PromoteInv'
  BY <1>14 DEF CancelledOutside
<1>15. ASSUME NEW w \in Workers, Extract(w) PROVE PromoteInv'
  BY <1>15 DEF Extract, SetStatus
<1>16. ASSUME NEW w \in Workers, StoreParsed(w) PROVE PromoteInv'
  BY <1>16 DEF StoreParsed, SetStatus
<1>17. ASSUME NEW w \in Workers, Gate(w) PROVE PromoteInv'
  BY <1>17 DEF Gate, GateOpen
<1>18. ASSUME NEW w \in Workers, PromoteBegins(w) PROVE PromoteInv'
  BY <1>18 DEF PromoteBegins, StillPending
<1>19. ASSUME NEW w \in Workers, PromoteReleases(w) PROVE PromoteInv'
  BY <1>19 DEF PromoteReleases
<1>20. ASSUME NEW w \in Workers, PromoteGivesUp(w) PROVE PromoteInv'
  BY <1>20 DEF PromoteGivesUp
<1>21. ASSUME NEW w \in Workers, PromoteCommits(w) PROVE PromoteInv'
  BY <1>21 DEF PromoteCommits
<1>22. ASSUME NEW w \in Workers, PipelineRaises(w) PROVE PromoteInv'
  BY <1>22 DEF PipelineRaises
<1>23. ASSUME NEW w \in Workers, Finalize(w) PROVE PromoteInv'
  BY <1>23 DEF Finalize, CleanRow, FinalStatus
<1>24. ASSUME NEW w \in Workers, FinalizeCancelled(w) PROVE PromoteInv'
  BY <1>24 DEF FinalizeCancelled, CleanRow, FinalStatus
<1>25. ASSUME NEW q \in Requests, NEW r \in Repos, CancelParse(q, r) PROVE PromoteInv'
  BY <1>25 DEF CancelParse
<1>26. ASSUME NEW q \in Requests, CancelCommit(q) PROVE PromoteInv'
  BY <1>26 DEF CancelCommit
<1>27. ASSUME NEW r \in Repos, DeleteCheck(r) PROVE PromoteInv'
  BY <1>27 DEF DeleteCheck
<1>28. ASSUME NEW r \in Repos, DeleteCommit(r) PROVE PromoteInv'
  BY <1>28 DEF DeleteCommit
<1>29. ASSUME Crash PROVE PromoteInv'
  BY <1>29 DEF Crash
<1>30. CASE UNCHANGED vars
  BY <1>30
<1> QED
  BY <1>1, <1>2, <1>3, <1>4, <1>5, <1>6, <1>7, <1>8, <1>9, <1>10, <1>11, <1>12, <1>13,
     <1>14, <1>15, <1>16, <1>17, <1>18, <1>19, <1>20, <1>21, <1>22, <1>23, <1>24,
     <1>25, <1>26, <1>27, <1>28, <1>29, <1>30 DEF Next, WorkerStep

----------------------------------------------------------------------------

\* The flags are Boolean at every step.
LEMMA FlagsStep ==
  ASSUME ShapeOK, FlagsOK, [Next]_vars
  PROVE  FlagsOK'
<1>1. ASSUME NEW r \in Repos, ParseRepo(r) PROVE FlagsOK'
  BY <1>1, Zenon DEF FlagsOK, ParseRepo
<1>2. ASSUME BatchParse PROVE FlagsOK'
  BY <1>2, Zenon DEF FlagsOK, BatchParse
<1>3. ASSUME NEW b \in Rebuilds, BatchForce(b) PROVE FlagsOK'
  BY <1>3, Zenon DEF FlagsOK, BatchForce
<1>4. ASSUME NEW b \in Rebuilds, Cleaned(b) PROVE FlagsOK'
  BY <1>4, Zenon DEF FlagsOK, Cleaned
<1>5. ASSUME NEW b \in Rebuilds, CleaningFails(b) PROVE FlagsOK'
  BY <1>5, Zenon DEF FlagsOK, CleaningFails
<1>6. ASSUME NEW w \in Workers, Phase1Missing(w) PROVE FlagsOK'
  BY <1>6, Zenon DEF FlagsOK, Phase1Missing
<1>7. ASSUME NEW w \in Workers, Phase1Commit(w) PROVE FlagsOK'
  BY <1>7, Zenon DEF FlagsOK, Phase1Commit
<1>8. ASSUME NEW w \in Workers, Phase1Raises(w) PROVE FlagsOK'
  BY <1>8, Zenon DEF FlagsOK, Phase1Raises
<1>9. ASSUME NEW w \in Workers, Phase1Aborted(w) PROVE FlagsOK'
  BY <1>9, Zenon DEF FlagsOK, Phase1Aborted
<1>10. ASSUME NEW w \in Workers, Phase1Done(w) PROVE FlagsOK'
  BY <1>10, Zenon DEF FlagsOK, Phase1Done
<1>11. ASSUME NEW w \in Workers, Acquire(w) PROVE FlagsOK'
  BY <1>11, Zenon DEF FlagsOK, Acquire
<1>12. ASSUME NEW w \in Workers, SlotReady(w) PROVE FlagsOK'
  BY <1>12, Zenon DEF FlagsOK, SlotReady
<1>13. ASSUME NEW w \in Workers, SlotRaises(w) PROVE FlagsOK'
  BY <1>13, Zenon DEF FlagsOK, SlotRaises
<1>14. ASSUME NEW w \in Workers, CancelledOutside(w) PROVE FlagsOK'
  BY <1>14, Zenon DEF FlagsOK, CancelledOutside
<1>15. ASSUME NEW w \in Workers, Extract(w) PROVE FlagsOK'
  BY <1>15, Zenon DEF FlagsOK, Extract
<1>16. ASSUME NEW w \in Workers, StoreParsed(w) PROVE FlagsOK'
  BY <1>16, Zenon DEF FlagsOK, StoreParsed
<1>17. ASSUME NEW w \in Workers, Gate(w) PROVE FlagsOK'
  BY <1>17, Zenon DEF FlagsOK, Gate
<1>18. ASSUME NEW w \in Workers, PromoteBegins(w) PROVE FlagsOK'
  BY <1>18, Zenon DEF FlagsOK, PromoteBegins
<1>19. ASSUME NEW w \in Workers, PromoteReleases(w) PROVE FlagsOK'
  BY <1>19, Zenon DEF FlagsOK, PromoteReleases
<1>20. ASSUME NEW w \in Workers, PromoteGivesUp(w) PROVE FlagsOK'
  BY <1>20, Zenon DEF FlagsOK, PromoteGivesUp
<1>21. ASSUME NEW w \in Workers, PromoteCommits(w) PROVE FlagsOK'
  BY <1>21, Zenon DEF FlagsOK, PromoteCommits
<1>22. ASSUME NEW w \in Workers, PipelineRaises(w) PROVE FlagsOK'
  BY <1>22, Zenon DEF FlagsOK, PipelineRaises
<1>23. ASSUME NEW w \in Workers, Finalize(w) PROVE FlagsOK'
  BY <1>23, Zenon DEF FlagsOK, Finalize
<1>24. ASSUME NEW w \in Workers, FinalizeCancelled(w) PROVE FlagsOK'
  BY <1>24, Zenon DEF FlagsOK, FinalizeCancelled
<1>25. ASSUME NEW q \in Requests, NEW r \in Repos, CancelParse(q, r) PROVE FlagsOK'
  BY <1>25, Zenon DEF FlagsOK, CancelParse
<1>26. ASSUME NEW q \in Requests, CancelCommit(q) PROVE FlagsOK'
  BY <1>26, Zenon DEF FlagsOK, CancelCommit
<1>27. ASSUME NEW r \in Repos, DeleteCheck(r) PROVE FlagsOK'
  BY <1>27, Zenon DEF FlagsOK, DeleteCheck
<1>28. ASSUME NEW r \in Repos, DeleteCommit(r) PROVE FlagsOK'
  BY <1>28, Zenon DEF FlagsOK, DeleteCommit
<1>29. ASSUME Crash PROVE FlagsOK'
  BY <1>29, Zenon DEF FlagsOK, Crash
<1>30. CASE UNCHANGED vars
  BY <1>30, Zenon DEF FlagsOK
<1> QED
  BY <1>1, <1>2, <1>3, <1>4, <1>5, <1>6, <1>7, <1>8, <1>9, <1>10, <1>11, <1>12, <1>13,
     <1>14, <1>15, <1>16, <1>17, <1>18, <1>19, <1>20, <1>21, <1>22, <1>23, <1>24,
     <1>25, <1>26, <1>27, <1>28, <1>29, <1>30 DEF Next, WorkerStep

IInv == ShapeOK /\ FlagsOK /\ ClaimInv /\ StaleInv /\ SoleWorkerVisible /\ PromoteInv

\* The conjunction of the invariants is inductive.
LEMMA Inductive == Spec => []IInv
<1>1. Init => IInv
  <2> SUFFICES ASSUME Init PROVE IInv
    OBVIOUS
  <2>1. ShapeOK
    BY NoneAssumption DEF Init, ShapeOK, Statuses, NoRequest
  <2>2. FlagsOK
    BY Zenon DEF Init, FlagsOK
  <2>3. ClaimInv /\ StaleInv /\ SoleWorkerVisible /\ PromoteInv
    BY DEF Init, ClaimInv, RowNamesLiveWorker, StaleInv, SoleWorkerVisible, PromoteInv,
           NoRequest
  <2> QED
    BY <2>1, <2>2, <2>3 DEF IInv
<1>2. IInv /\ [Next]_vars => IInv'
  BY ShapeStep, FlagsStep, ClaimStep, StaleStep, VisibleStep, PromoteStep DEF IInv
<1> QED
  BY <1>1, <1>2, PTL DEF Spec

\* Every action keeps the variables within their types.
THEOREM TypeCorrect == Spec => []TypeOK
<1>1. IInv => TypeOK
  <2> SUFFICES ASSUME IInv PROVE TypeOK
    OBVIOUS
  <2>1. cancelReq \subseteq {w \in Workers : pc[w] \in Live}
    BY DEF IInv, ShapeOK, ClaimInv
  <2> QED
    BY <2>1, Zenon DEF IInv, ShapeOK, FlagsOK, TypeOK
<1> QED
  BY <1>1, Inductive, PTL

\* A repository is never left claimed by a worker that is gone: wherever a
\* cancellation, a second worker of the repository or a deletion comes in between,
\* unless the process was restarted or a write failed.
THEOREM RowsNameLiveWorkers == Spec => []RowNamesLiveWorker
<1>1. IInv => RowNamesLiveWorker
  BY DEF IInv, ClaimInv
<1> QED
  BY <1>1, Inductive, PTL

\* A worker that is alone on its repository can be cancelled from the end of Phase 1
\* on: no other worker's finally block and no late cancel request takes its
\* worker_id off the row.
THEOREM SoleWorkersAreVisible == Spec => []SoleWorkerVisible
<1>1. IInv => SoleWorkerVisible
  BY DEF IInv
<1> QED
  BY <1>1, Inductive, PTL

\* Once every repository is parsed and the workers have ended, their candidates have
\* been promoted, unless a deletion, a restart, a failed write or the timeout of the
\* namespace lock came in between.
THEOREM AllParsedArePromoted == Spec => []AllParsedIsPromoted
<1>1. IInv => AllParsedIsPromoted
  BY DEF IInv, ShapeOK, PromoteInv, AllParsedIsPromoted, Live, InSlot, Pipeline
<1> QED
  BY <1>1, Inductive, PTL

===============================================================================
