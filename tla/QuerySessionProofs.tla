------------------------ MODULE QuerySessionProofs ------------------------
(***************************************************************************)
(* Theorems about QuerySession, for any number of cancel requests.         *)
(*                                                                         *)
(* Each invariant is strengthened by what holds at every stage of the      *)
(* task: StageInv for the registry and the stream, EarlyInv for the trail  *)
(* an early cancel request leaves from stage to stage (the flag, then the  *)
(* exit of the loop), OutcomeInv for what has been told and stored so far, *)
(* and CauseInv for who may have caused a cancellation.                    *)
(***************************************************************************)
EXTENDS QuerySession, TLAPS

\* The two halves of TypeOK: the flags, and the fields with more values.
BoolOK ==
  /\ cancelReq \in BOOLEAN
  /\ worker \in BOOLEAN
  /\ flag \in BOOLEAN
  /\ abort \in BOOLEAN
  /\ sse \in BOOLEAN
  /\ closed \in BOOLEAN
  /\ extracting \in BOOLEAN
ShapeOK ==
  /\ pc \in Stages
  /\ exit \in {"none", "completed", "failed", "raised", "cancelled"}
  /\ gen \in {"none", "waiting", "yielding", "closed", "aborted", "dropped"}
  /\ events \subseteq {"agent_started", "agent_finished"} \cup Terminal
  /\ trace \in {"none", "completed", "failed", "cancelled"}
  /\ history \subseteq {"answer", "cancelled"}
  /\ req \in [Requests -> {"idle", "grace", "graceOver", "flagOnly", "notFound", "ok"}]
  /\ seenAt \in [Requests -> Stages \cup {"none"}]

\* The worker is registered during the loop; the SSE session stands until the
\* task has started, because the generator cannot run before it.
StageInv ==
  /\ RunningIsRegistered
  /\ pc = "loading" => gen = "none"
  /\ pc = "created" => gen = "waiting"
  /\ pc \in {"loading", "created"} => sse
  /\ pc \in {"history", "refresh"} => ~worker
  /\ closed => pc = "done"

CancelledEarly == \E r \in Requests : seenAt[r] \in Early

\* No stage before "history" stores or announces an answer, and the trail of an
\* early cancel request keeps the task from reaching "history".
EarlyInv ==
  /\ pc \in Early =>
       "answer" \notin history /\ "final_answer" \notin events /\ ~extracting
  /\ pc = "cleanup" => exit = "cancelled"
  /\ CancelledEarly =>
       /\ pc \in {"loading", "created", "loop"} => flag
       /\ pc \in {"flush", "persist"} => flag \/ exit \in {"cancelled", "raised"}
       /\ pc \notin {"history", "refresh"}
  /\ EarlyCancelWins

\* The outcome told and the rows stored, stage by stage.
OutcomeInv ==
  /\ pc \in {"loading", "loadFailed", "created", "loop"} => exit = "none"
  /\ pc = "cleanup" => exit = "cancelled"
  /\ exit = "cancelled" =>
       "cancelled" \in events /\ "answer" \notin history /\ pc \notin {"history", "refresh"}
  /\ exit # "cancelled" => "cancelled" \notin events
  /\ pc \in {"cleanup", "flush", "persist", "cancelHistory", "done"} \/ exit # "cancelled"
  /\ pc # "done" => events \cap {"final_answer", "error"} = {}
  /\ ~("final_answer" \in events /\ "error" \in events)
  /\ exit = "cancelled" => events \cap {"final_answer", "error"} = {}
  /\ pc \in Early \cup {"loadFailed", "history"} => history = {}
  /\ pc = "refresh" => history = {"answer"}
  /\ pc = "cancelHistory" => history \subseteq {"answer"}
  /\ OutcomeAgrees

Somebody == gen = "aborted" \/ \E r \in Requests : req[r] # "idle"

\* A cancellation has an author, and while the answer is being committed the
\* only one left is a client that disconnected.
CauseInv ==
  /\ cancelReq \/ flag => Somebody
  /\ \A r \in Requests : req[r] # "idle" /\ req[r] # "notFound" => seenAt[r] # "none"
  /\ \A r \in Requests : req[r] = "idle" => seenAt[r] = "none"
  /\ \A r \in Requests : req[r] \in {"grace", "graceOver"} /\ pc \in Early
       => seenAt[r] \in Early
  /\ pc \in {"history", "refresh"} =>
       /\ \A r \in Requests : req[r] \notin {"grace", "graceOver"}
       /\ cancelReq => gen = "aborted"
  /\ pc \in {"cancelHistory", "done"} /\ "answer" \in history =>
       gen = "aborted" \/ ("cancelled" \notin history /\ pc = "done")
  /\ pc = "cancelHistory" => exit = "cancelled" \/ Somebody
  /\ pc = "done" => events \cap Terminal # {} \/ Somebody
  /\ DoubleRecordNeedsDisconnect
  /\ NoSilentEnd

----------------------------------------------------------------------------

\* Every action keeps the fields of the session within their types.
THEOREM TypeCorrect == Spec => []TypeOK
<1>1. Init => TypeOK
  BY DEF Init, TypeOK, Stages, InLoop, Terminal
<1>2. TypeOK /\ [Next]_vars => TypeOK'
  <2> SUFFICES ASSUME TypeOK, [Next]_vars PROVE TypeOK'
    OBVIOUS
  <2> USE DEF taskVars, streamVars, reqVars, TypeOK, Stages, InLoop, Terminal
  <2>1. CASE LoadDone
    <3>1. BoolOK'
      BY <2>1, Zenon DEF BoolOK, LoadDone
    <3>2. ShapeOK'
      BY <2>1 DEF ShapeOK, LoadDone
    <3> QED
      BY <3>1, <3>2 DEF BoolOK, ShapeOK
  <2>2. CASE LoadFails
    <3>1. BoolOK'
      BY <2>2, Zenon DEF BoolOK, LoadFails
    <3>2. ShapeOK'
      BY <2>2 DEF ShapeOK, LoadFails
    <3> QED
      BY <3>1, <3>2 DEF BoolOK, ShapeOK
  <2>3. CASE TaskStart
    <3>1. BoolOK'
      BY <2>3, Zenon DEF BoolOK, TaskStart
    <3>2. ShapeOK'
      BY <2>3 DEF ShapeOK, TaskStart
    <3> QED
      BY <3>1, <3>2 DEF BoolOK, ShapeOK
  <2>4. CASE LoopReturn
    <3>1. BoolOK'
      BY <2>4, Zenon DEF BoolOK, LoopReturn
    <3>2. ShapeOK'
      BY <2>4 DEF ShapeOK, LoopReturn
    <3> QED
      BY <3>1, <3>2 DEF BoolOK, ShapeOK
  <2>5. CASE LoopRaise
    <3>1. BoolOK'
      BY <2>5, Zenon DEF BoolOK, LoopRaise
    <3>2. ShapeOK'
      BY <2>5 DEF ShapeOK, LoopRaise
    <3> QED
      BY <3>1, <3>2 DEF BoolOK, ShapeOK
  <2>6. CASE LoopCancelled
    <3>1. BoolOK'
      BY <2>6, Zenon DEF BoolOK, LoopCancelled
    <3>2. ShapeOK'
      BY <2>6 DEF ShapeOK, LoopCancelled
    <3> QED
      BY <3>1, <3>2 DEF BoolOK, ShapeOK
  <2>7. CASE CancelSwallowed
    <3>1. BoolOK'
      BY <2>7, Zenon DEF BoolOK, CancelSwallowed
    <3>2. ShapeOK'
      BY <2>7 DEF ShapeOK, CancelSwallowed
    <3> QED
      BY <3>1, <3>2 DEF BoolOK, ShapeOK
  <2>8. CASE CleanupEnds
    <3>1. BoolOK'
      BY <2>8, Zenon DEF BoolOK, CleanupEnds
    <3>2. ShapeOK'
      BY <2>8 DEF ShapeOK, CleanupEnds
    <3> QED
      BY <3>1, <3>2 DEF BoolOK, ShapeOK
  <2>9. CASE FlushDone
    <3>1. BoolOK'
      BY <2>9, Zenon DEF BoolOK, FlushDone
    <3>2. ShapeOK'
      BY <2>9 DEF ShapeOK, FlushDone
    <3> QED
      BY <3>1, <3>2 DEF BoolOK, ShapeOK
  <2>10. CASE FinallyCancelled
    <3>1. BoolOK'
      BY <2>10, Zenon DEF BoolOK, FinallyCancelled, Status
    <3>2. ShapeOK'
      BY <2>10 DEF ShapeOK, FinallyCancelled, Status
    <3> QED
      BY <3>1, <3>2 DEF BoolOK, ShapeOK
  <2>11. CASE PersistDone
    <3>1. BoolOK'
      BY <2>11, Zenon DEF BoolOK, PersistDone, Persisted, ResumeCancelled,
           ResumeRaised, ResumeFlagged, ResumeAnswer, Finish, Status
    <3>2. ShapeOK'
      BY <2>11 DEF ShapeOK, PersistDone, Persisted, ResumeCancelled, ResumeRaised,
           ResumeFlagged, ResumeAnswer, Finish, Status
    <3> QED
      BY <3>1, <3>2 DEF BoolOK, ShapeOK
  <2>12. CASE HistoryCommitted
    <3>1. BoolOK'
      BY <2>12, Zenon DEF BoolOK, HistoryCommitted
    <3>2. ShapeOK'
      BY <2>12 DEF ShapeOK, HistoryCommitted
    <3> QED
      BY <3>1, <3>2 DEF BoolOK, ShapeOK
  <2>13. CASE HistoryFails
    <3>1. BoolOK'
      BY <2>13, Zenon DEF BoolOK, HistoryFails, Finish
    <3>2. ShapeOK'
      BY <2>13 DEF ShapeOK, HistoryFails, Finish
    <3> QED
      BY <3>1, <3>2 DEF BoolOK, ShapeOK
  <2>14. CASE HistoryCancelled
    <3>1. BoolOK'
      BY <2>14, Zenon DEF BoolOK, HistoryCancelled
    <3>2. ShapeOK'
      BY <2>14 DEF ShapeOK, HistoryCancelled
    <3> QED
      BY <3>1, <3>2 DEF BoolOK, ShapeOK
  <2>15. CASE AnswerSent
    <3>1. BoolOK'
      BY <2>15, Zenon DEF BoolOK, AnswerSent, Finish
    <3>2. ShapeOK'
      BY <2>15 DEF ShapeOK, AnswerSent, Finish
    <3> QED
      BY <3>1, <3>2 DEF BoolOK, ShapeOK
  <2>16. CASE CancelHistoryDone
    <3>1. BoolOK'
      BY <2>16, Zenon DEF BoolOK, CancelHistoryDone, Finish
    <3>2. ShapeOK'
      BY <2>16 DEF ShapeOK, CancelHistoryDone, Finish
    <3> QED
      BY <3>1, <3>2 DEF BoolOK, ShapeOK
  <2>17. CASE CancelHistoryCancelled
    <3>1. BoolOK'
      BY <2>17, Zenon DEF BoolOK, CancelHistoryCancelled, Finish
    <3>2. ShapeOK'
      BY <2>17 DEF ShapeOK, CancelHistoryCancelled, Finish
    <3> QED
      BY <3>1, <3>2 DEF BoolOK, ShapeOK
  <2>18. CASE GenYield
    <3>1. BoolOK'
      BY <2>18, Zenon DEF BoolOK, GenYield
    <3>2. ShapeOK'
      BY <2>18 DEF ShapeOK, GenYield
    <3> QED
      BY <3>1, <3>2 DEF BoolOK, ShapeOK
  <2>19. CASE GenSent
    <3>1. BoolOK'
      BY <2>19, Zenon DEF BoolOK, GenSent
    <3>2. ShapeOK'
      BY <2>19 DEF ShapeOK, GenSent
    <3> QED
      BY <3>1, <3>2 DEF BoolOK, ShapeOK
  <2>20. CASE GenEnd
    <3>1. BoolOK'
      BY <2>20, Zenon DEF BoolOK, GenEnd
    <3>2. ShapeOK'
      BY <2>20 DEF ShapeOK, GenEnd
    <3> QED
      BY <3>1, <3>2 DEF BoolOK, ShapeOK
  <2>21. CASE DisconnectAtYield
    <3>1. BoolOK'
      BY <2>21, Zenon DEF BoolOK, DisconnectAtYield
    <3>2. ShapeOK'
      BY <2>21 DEF ShapeOK, DisconnectAtYield
    <3> QED
      BY <3>1, <3>2 DEF BoolOK, ShapeOK
  <2>22. CASE DisconnectAtGet
    <3>1. BoolOK'
      BY <2>22, Zenon DEF BoolOK, DisconnectAtGet
    <3>2. ShapeOK'
      BY <2>22 DEF ShapeOK, DisconnectAtGet
    <3> QED
      BY <3>1, <3>2 DEF BoolOK, ShapeOK
  <2>23. CASE SubmitAbort
    <3>1. BoolOK'
      BY <2>23, Zenon DEF BoolOK, SubmitAbort
    <3>2. ShapeOK'
      BY <2>23 DEF ShapeOK, SubmitAbort
    <3> QED
      BY <3>1, <3>2 DEF BoolOK, ShapeOK
  <2>24. ASSUME NEW r \in Requests, Cancel(r) PROVE TypeOK'
    <3>1. BoolOK'
      BY <2>24, Zenon DEF BoolOK, Cancel
    <3>2. ShapeOK'
      BY <2>24 DEF ShapeOK, Cancel
    <3> QED
      BY <3>1, <3>2 DEF BoolOK, ShapeOK
  <2>25. ASSUME NEW r \in Requests, GraceEnds(r) PROVE TypeOK'
    <3>1. BoolOK'
      BY <2>25, Zenon DEF BoolOK, GraceEnds
    <3>2. ShapeOK'
      BY <2>25 DEF ShapeOK, GraceEnds
    <3> QED
      BY <3>1, <3>2 DEF BoolOK, ShapeOK
  <2>26. ASSUME NEW r \in Requests, GraceTimeout(r) PROVE TypeOK'
    <3>1. BoolOK'
      BY <2>26, Zenon DEF BoolOK, GraceTimeout
    <3>2. ShapeOK'
      BY <2>26 DEF ShapeOK, GraceTimeout
    <3> QED
      BY <3>1, <3>2 DEF BoolOK, ShapeOK
  <2>27. CASE UNCHANGED vars
    <3>1. BoolOK'
      BY <2>27, Zenon DEF BoolOK, vars
    <3>2. ShapeOK'
      BY <2>27 DEF ShapeOK, vars
    <3> QED
      BY <3>1, <3>2 DEF BoolOK, ShapeOK
  <2> QED
    BY <2>1, <2>2, <2>3, <2>4, <2>5, <2>6, <2>7, <2>8, <2>9, <2>10, <2>11,
       <2>12, <2>13, <2>14, <2>15, <2>16, <2>17, <2>18, <2>19, <2>20, <2>21,
       <2>22, <2>23, <2>24, <2>25, <2>26, <2>27
       DEF Next, TaskStep
<1> QED
  BY <1>1, <1>2, PTL DEF Spec

----------------------------------------------------------------------------

\* What each stage says of the registry and the stream.
LEMMA StageInvariant == Spec => []StageInv
<1>1. Init => StageInv
  BY DEF Init, StageInv, RunningIsRegistered, Stages, InLoop
<1>2. TypeOK /\ StageInv /\ [Next]_vars => StageInv'
  <2> SUFFICES ASSUME TypeOK, StageInv, [Next]_vars PROVE StageInv'
    OBVIOUS
  <2> USE DEF taskVars, streamVars, reqVars, TypeOK, StageInv, RunningIsRegistered,
       Stages, InLoop
  <2>1. CASE LoadDone
    BY <2>1 DEF LoadDone
  <2>2. CASE LoadFails
    BY <2>2 DEF LoadFails
  <2>3. CASE TaskStart
    BY <2>3 DEF TaskStart
  <2>4. CASE LoopReturn
    BY <2>4 DEF LoopReturn
  <2>5. CASE LoopRaise
    BY <2>5 DEF LoopRaise
  <2>6. CASE LoopCancelled
    BY <2>6 DEF LoopCancelled
  <2>7. CASE CancelSwallowed
    BY <2>7 DEF CancelSwallowed
  <2>8. CASE CleanupEnds
    BY <2>8 DEF CleanupEnds
  <2>9. CASE FlushDone
    BY <2>9 DEF FlushDone
  <2>10. CASE FinallyCancelled
    BY <2>10 DEF FinallyCancelled, Status
  <2>11. CASE PersistDone
    BY <2>11 DEF PersistDone, Persisted, ResumeCancelled, ResumeRaised,
         ResumeFlagged, ResumeAnswer, Finish, Status
  <2>12. CASE HistoryCommitted
    BY <2>12 DEF HistoryCommitted
  <2>13. CASE HistoryFails
    BY <2>13 DEF HistoryFails, Finish
  <2>14. CASE HistoryCancelled
    BY <2>14 DEF HistoryCancelled
  <2>15. CASE AnswerSent
    BY <2>15 DEF AnswerSent, Finish
  <2>16. CASE CancelHistoryDone
    BY <2>16 DEF CancelHistoryDone, Finish
  <2>17. CASE CancelHistoryCancelled
    BY <2>17 DEF CancelHistoryCancelled, Finish
  <2>18. CASE GenYield
    BY <2>18 DEF GenYield
  <2>19. CASE GenSent
    BY <2>19 DEF GenSent
  <2>20. CASE GenEnd
    BY <2>20 DEF GenEnd
  <2>21. CASE DisconnectAtYield
    BY <2>21 DEF DisconnectAtYield
  <2>22. CASE DisconnectAtGet
    BY <2>22 DEF DisconnectAtGet
  <2>23. CASE SubmitAbort
    BY <2>23 DEF SubmitAbort
  <2>24. ASSUME NEW r \in Requests, Cancel(r) PROVE StageInv'
    BY <2>24 DEF Cancel
  <2>25. ASSUME NEW r \in Requests, GraceEnds(r) PROVE StageInv'
    BY <2>25 DEF GraceEnds
  <2>26. ASSUME NEW r \in Requests, GraceTimeout(r) PROVE StageInv'
    BY <2>26 DEF GraceTimeout
  <2>27. CASE UNCHANGED vars
    BY <2>27 DEF vars
  <2> QED
    BY <2>1, <2>2, <2>3, <2>4, <2>5, <2>6, <2>7, <2>8, <2>9, <2>10, <2>11,
       <2>12, <2>13, <2>14, <2>15, <2>16, <2>17, <2>18, <2>19, <2>20, <2>21,
       <2>22, <2>23, <2>24, <2>25, <2>26, <2>27
       DEF Next, TaskStep
<1> QED
  BY <1>1, <1>2, TypeCorrect, PTL DEF Spec

\* While run_agent_loop is on the stack the cancel endpoint finds its task.
THEOREM LoopIsRegistered == Spec => []RunningIsRegistered
<1>1. StageInv => RunningIsRegistered
  BY DEF StageInv
<1> QED
  BY <1>1, StageInvariant, PTL

----------------------------------------------------------------------------

\* The trail of an early cancel request is never lost.
LEMMA EarlyInvariant == Spec => []EarlyInv
<1>1. Init => EarlyInv
  BY DEF Init, EarlyInv, CancelledEarly, EarlyCancelWins, Early, InLoop,
       RunningIsRegistered
<1>2. TypeOK /\ StageInv /\ EarlyInv /\ [Next]_vars => EarlyInv'
  <2> SUFFICES ASSUME TypeOK, StageInv, EarlyInv, [Next]_vars PROVE EarlyInv'
    OBVIOUS
  <2> USE DEF taskVars, streamVars, reqVars, TypeOK, StageInv, EarlyInv,
       CancelledEarly, EarlyCancelWins, Early, InLoop, RunningIsRegistered
  <2>1. CASE LoadDone
    BY <2>1 DEF LoadDone
  <2>2. CASE LoadFails
    BY <2>2 DEF LoadFails
  <2>3. CASE TaskStart
    BY <2>3 DEF TaskStart
  <2>4. CASE LoopReturn
    BY <2>4 DEF LoopReturn
  <2>5. CASE LoopRaise
    BY <2>5 DEF LoopRaise
  <2>6. CASE LoopCancelled
    BY <2>6 DEF LoopCancelled
  <2>7. CASE CancelSwallowed
    BY <2>7 DEF CancelSwallowed
  <2>8. CASE CleanupEnds
    BY <2>8 DEF CleanupEnds
  <2>9. CASE FlushDone
    BY <2>9 DEF FlushDone
  <2>10. CASE FinallyCancelled
    BY <2>10 DEF FinallyCancelled, Status
  <2>11. CASE PersistDone
    BY <2>11 DEF PersistDone, Persisted, ResumeCancelled, ResumeRaised,
         ResumeFlagged, ResumeAnswer, Finish, Status
  <2>12. CASE HistoryCommitted
    BY <2>12 DEF HistoryCommitted
  <2>13. CASE HistoryFails
    BY <2>13 DEF HistoryFails, Finish
  <2>14. CASE HistoryCancelled
    BY <2>14 DEF HistoryCancelled
  <2>15. CASE AnswerSent
    BY <2>15 DEF AnswerSent, Finish
  <2>16. CASE CancelHistoryDone
    BY <2>16 DEF CancelHistoryDone, Finish
  <2>17. CASE CancelHistoryCancelled
    BY <2>17 DEF CancelHistoryCancelled, Finish
  <2>18. CASE GenYield
    BY <2>18 DEF GenYield
  <2>19. CASE GenSent
    BY <2>19 DEF GenSent
  <2>20. CASE GenEnd
    BY <2>20 DEF GenEnd
  <2>21. CASE DisconnectAtYield
    BY <2>21 DEF DisconnectAtYield
  <2>22. CASE DisconnectAtGet
    BY <2>22 DEF DisconnectAtGet
  <2>23. CASE SubmitAbort
    BY <2>23 DEF SubmitAbort
  <2>24. ASSUME NEW r \in Requests, Cancel(r) PROVE EarlyInv'
    BY <2>24 DEF Cancel
  <2>25. ASSUME NEW r \in Requests, GraceEnds(r) PROVE EarlyInv'
    BY <2>25 DEF GraceEnds
  <2>26. ASSUME NEW r \in Requests, GraceTimeout(r) PROVE EarlyInv'
    BY <2>26 DEF GraceTimeout
  <2>27. CASE UNCHANGED vars
    BY <2>27 DEF vars
  <2> QED
    BY <2>1, <2>2, <2>3, <2>4, <2>5, <2>6, <2>7, <2>8, <2>9, <2>10, <2>11,
       <2>12, <2>13, <2>14, <2>15, <2>16, <2>17, <2>18, <2>19, <2>20, <2>21,
       <2>22, <2>23, <2>24, <2>25, <2>26, <2>27
       DEF Next, TaskStep
<1> QED
  BY <1>1, <1>2, TypeCorrect, StageInvariant, PTL DEF Spec

\* A cancel request acknowledged before the answer is being written prevents the
\* answer, its announcement and the extraction of knowledge from it.
THEOREM EarlyCancelsWin == Spec => []EarlyCancelWins
<1>1. EarlyInv => EarlyCancelWins
  BY DEF EarlyInv
<1> QED
  BY <1>1, EarlyInvariant, PTL

----------------------------------------------------------------------------

\* What has been told and stored at each stage.
LEMMA OutcomeInvariant == Spec => []OutcomeInv
<1>1. Init => OutcomeInv
  BY DEF Init, OutcomeInv, OutcomeAgrees, Terminal, Early, InLoop
<1>2. TypeOK /\ StageInv /\ OutcomeInv /\ [Next]_vars => OutcomeInv'
  <2> SUFFICES ASSUME TypeOK, StageInv, OutcomeInv, [Next]_vars PROVE OutcomeInv'
    OBVIOUS
  <2> USE DEF taskVars, streamVars, reqVars, TypeOK, StageInv, OutcomeInv,
       OutcomeAgrees, Terminal, Early, InLoop
  <2>1. CASE LoadDone
    BY <2>1 DEF LoadDone
  <2>2. CASE LoadFails
    BY <2>2 DEF LoadFails
  <2>3. CASE TaskStart
    BY <2>3 DEF TaskStart
  <2>4. CASE LoopReturn
    BY <2>4 DEF LoopReturn
  <2>5. CASE LoopRaise
    BY <2>5 DEF LoopRaise
  <2>6. CASE LoopCancelled
    BY <2>6 DEF LoopCancelled
  <2>7. CASE CancelSwallowed
    BY <2>7 DEF CancelSwallowed
  <2>8. CASE CleanupEnds
    BY <2>8 DEF CleanupEnds
  <2>9. CASE FlushDone
    BY <2>9 DEF FlushDone
  <2>10. CASE FinallyCancelled
    BY <2>10 DEF FinallyCancelled, Status
  <2>11. CASE PersistDone
    BY <2>11 DEF PersistDone, Persisted, ResumeCancelled, ResumeRaised,
         ResumeFlagged, ResumeAnswer, Finish, Status
  <2>12. CASE HistoryCommitted
    BY <2>12 DEF HistoryCommitted
  <2>13. CASE HistoryFails
    BY <2>13 DEF HistoryFails, Finish
  <2>14. CASE HistoryCancelled
    BY <2>14 DEF HistoryCancelled
  <2>15. CASE AnswerSent
    BY <2>15 DEF AnswerSent, Finish
  <2>16. CASE CancelHistoryDone
    BY <2>16 DEF CancelHistoryDone, Finish
  <2>17. CASE CancelHistoryCancelled
    BY <2>17 DEF CancelHistoryCancelled, Finish
  <2>18. CASE GenYield
    BY <2>18 DEF GenYield
  <2>19. CASE GenSent
    BY <2>19 DEF GenSent
  <2>20. CASE GenEnd
    BY <2>20 DEF GenEnd
  <2>21. CASE DisconnectAtYield
    BY <2>21 DEF DisconnectAtYield
  <2>22. CASE DisconnectAtGet
    BY <2>22 DEF DisconnectAtGet
  <2>23. CASE SubmitAbort
    BY <2>23 DEF SubmitAbort
  <2>24. ASSUME NEW r \in Requests, Cancel(r) PROVE OutcomeInv'
    BY <2>24 DEF Cancel
  <2>25. ASSUME NEW r \in Requests, GraceEnds(r) PROVE OutcomeInv'
    BY <2>25 DEF GraceEnds
  <2>26. ASSUME NEW r \in Requests, GraceTimeout(r) PROVE OutcomeInv'
    BY <2>26 DEF GraceTimeout
  <2>27. CASE UNCHANGED vars
    BY <2>27 DEF vars
  <2> QED
    BY <2>1, <2>2, <2>3, <2>4, <2>5, <2>6, <2>7, <2>8, <2>9, <2>10, <2>11,
       <2>12, <2>13, <2>14, <2>15, <2>16, <2>17, <2>18, <2>19, <2>20, <2>21,
       <2>22, <2>23, <2>24, <2>25, <2>26, <2>27
       DEF Next, TaskStep
<1> QED
  BY <1>1, <1>2, TypeCorrect, StageInvariant, PTL DEF Spec

\* One outcome per stream, and the one the history holds.
THEOREM OutcomesAgree == Spec => []OutcomeAgrees
<1>1. OutcomeInv => OutcomeAgrees
  BY DEF OutcomeInv
<1> QED
  BY <1>1, OutcomeInvariant, PTL

----------------------------------------------------------------------------

\* Who caused a cancellation, at each stage.
LEMMA CauseInvariant == Spec => []CauseInv
<1>1. Init => CauseInv
  BY DEF Init, CauseInv, Somebody, DoubleRecordNeedsDisconnect, NoSilentEnd,
       Terminal, Early, InLoop, CancelledEarly
<1>2. TypeOK /\ StageInv /\ EarlyInv /\ OutcomeInv /\ CauseInv /\ [Next]_vars => CauseInv'
  <2> SUFFICES ASSUME TypeOK, StageInv, EarlyInv, OutcomeInv, CauseInv, [Next]_vars PROVE CauseInv'
    OBVIOUS
  <2> USE DEF taskVars, streamVars, reqVars, TypeOK, StageInv, EarlyInv, OutcomeInv,
       CauseInv, Somebody, DoubleRecordNeedsDisconnect, NoSilentEnd, Terminal,
       Early, InLoop, CancelledEarly
  <2>1. CASE LoadDone
    BY <2>1 DEF LoadDone
  <2>2. CASE LoadFails
    BY <2>2 DEF LoadFails
  <2>3. CASE TaskStart
    BY <2>3 DEF TaskStart
  <2>4. CASE LoopReturn
    BY <2>4 DEF LoopReturn
  <2>5. CASE LoopRaise
    BY <2>5 DEF LoopRaise
  <2>6. CASE LoopCancelled
    BY <2>6 DEF LoopCancelled
  <2>7. CASE CancelSwallowed
    BY <2>7 DEF CancelSwallowed
  <2>8. CASE CleanupEnds
    BY <2>8 DEF CleanupEnds
  <2>9. CASE FlushDone
    BY <2>9 DEF FlushDone
  <2>10. CASE FinallyCancelled
    BY <2>10 DEF FinallyCancelled, Status
  <2>11. CASE PersistDone
    BY <2>11 DEF PersistDone, Persisted, ResumeCancelled, ResumeRaised,
         ResumeFlagged, ResumeAnswer, Finish, Status
  <2>12. CASE HistoryCommitted
    BY <2>12 DEF HistoryCommitted
  <2>13. CASE HistoryFails
    BY <2>13 DEF HistoryFails, Finish
  <2>14. CASE HistoryCancelled
    BY <2>14 DEF HistoryCancelled
  <2>15. CASE AnswerSent
    BY <2>15 DEF AnswerSent, Finish
  <2>16. CASE CancelHistoryDone
    BY <2>16 DEF CancelHistoryDone, Finish
  <2>17. CASE CancelHistoryCancelled
    BY <2>17 DEF CancelHistoryCancelled, Finish
  <2>18. CASE GenYield
    BY <2>18 DEF GenYield
  <2>19. CASE GenSent
    BY <2>19 DEF GenSent
  <2>20. CASE GenEnd
    BY <2>20 DEF GenEnd
  <2>21. CASE DisconnectAtYield
    BY <2>21 DEF DisconnectAtYield
  <2>22. CASE DisconnectAtGet
    BY <2>22 DEF DisconnectAtGet
  <2>23. CASE SubmitAbort
    BY <2>23 DEF SubmitAbort
  <2>24. ASSUME NEW r \in Requests, Cancel(r) PROVE CauseInv'
    <3>1. Somebody'
      <4>1. req' \in [Requests -> {"grace", "flagOnly", "notFound", "idle", "graceOver", "ok"}]
            /\ req'[r] # "idle"
        BY <2>24 DEF Cancel
      <4> QED
        BY <4>1
    <3>2. pc' = pc /\ exit' = exit /\ gen' = gen /\ events' = events /\ history' = history
          /\ closed' = closed
      BY <2>24 DEF Cancel
    <3>3. CASE worker
      <4>1. \A x \in Requests : /\ req'[x] = IF x = r THEN "grace" ELSE req[x]
                                /\ seenAt'[x] = IF x = r THEN pc ELSE seenAt[x]
        BY <2>24, <3>3 DEF Cancel
      <4>2. pc \notin {"history", "refresh"} /\ pc # "none"
        BY <3>3 DEF Stages
      <4> QED
        BY <3>1, <3>2, <4>1, <4>2
    <3>4. CASE ~worker /\ sse
      <4>1. \A x \in Requests : /\ req'[x] = IF x = r THEN "flagOnly" ELSE req[x]
                                /\ seenAt'[x] = IF x = r THEN pc ELSE seenAt[x]
        BY <2>24, <3>4 DEF Cancel
      <4>2. cancelReq' = cancelReq
        BY <2>24, <3>4 DEF Cancel
      <4>3. pc # "none"
        BY DEF Stages
      <4> QED
        BY <3>1, <3>2, <4>1, <4>2, <4>3
    <3>5. CASE ~worker /\ ~sse
      BY <2>24, <3>1, <3>5 DEF Cancel
    <3> QED
      BY <3>3, <3>4, <3>5
  <2>25. ASSUME NEW r \in Requests, GraceEnds(r) PROVE CauseInv'
    BY <2>25 DEF GraceEnds
  <2>26. ASSUME NEW r \in Requests, GraceTimeout(r) PROVE CauseInv'
    BY <2>26 DEF GraceTimeout
  <2>27. CASE UNCHANGED vars
    BY <2>27 DEF vars
  <2> QED
    BY <2>1, <2>2, <2>3, <2>4, <2>5, <2>6, <2>7, <2>8, <2>9, <2>10, <2>11,
       <2>12, <2>13, <2>14, <2>15, <2>16, <2>17, <2>18, <2>19, <2>20, <2>21,
       <2>22, <2>23, <2>24, <2>25, <2>26, <2>27
       DEF Next, TaskStep
<1> QED
  BY <1>1, <1>2, TypeCorrect, StageInvariant, EarlyInvariant, OutcomeInvariant, PTL DEF Spec

\* No sequence of cancel requests stores both an answer and a cancellation.
THEOREM DoubleRecordsNeedDisconnect == Spec => []DoubleRecordNeedsDisconnect
<1>1. CauseInv => DoubleRecordNeedsDisconnect
  BY DEF CauseInv
<1> QED
  BY <1>1, CauseInvariant, PTL

\* The code on its own never ends a stream without saying how.
THEOREM EndsAreAnnounced == Spec => []NoSilentEnd
<1>1. CauseInv => NoSilentEnd
  BY DEF CauseInv
<1> QED
  BY <1>1, CauseInvariant, PTL

----------------------------------------------------------------------------
(* The refinement *)

\* Who has interfered changes with the requests and the generator alone.
LEMMA InterferersStay ==
  ASSUME gen' = "aborted" <=> gen = "aborted",
         (\E r \in Requests : req'[r] # "idle") <=> (\E r \in Requests : req[r] # "idle")
  PROVE  Interferers' = Interferers
BY DEF Interferers

\* A session starts as an open question.
LEMMA PromiseInitially == Init => Promise!Init
<1> SUFFICES ASSUME Init PROVE Promise!Init
  OBVIOUS
<1>1. Phase = "open"
  BY DEF Init, Phase, Dropping
<1>2. ~ \E r \in Requests : seenAt[r] \in Early
  BY DEF Init, Early, InLoop
<1>3. Interferers = {}
  BY DEF Init, Interferers
<1> QED
  BY <1>1, <1>2, <1>3 DEF Init, Promise!Init

\* A step that nobody sees.
LEMMA Unseen ==
  ASSUME UNCHANGED <<events \cap Terminal, history, extracting, seenAt>>,
         Phase' = Phase, Interferers' = Interferers
  PROVE  UNCHANGED Promise!vars
BY DEF Promise!vars


\* Interference is somebody's.
LEMMA InterferersAre ==
  /\ Interferers # {} <=> Somebody
  /\ "client" \in Interferers <=> gen = "aborted"
BY DEF Interferers, Somebody

\* The question is open up to the end of the loop, or is being given up.
LEMMA PhaseIs ==
  ASSUME OutcomeInv, pc \in Stages
  PROVE  /\ Phase = "open" <=> pc \in Early /\ exit # "cancelled"
         /\ Phase = "dropping" <=> pc = "cancelHistory" \/ (pc \in Early /\ exit = "cancelled")
         /\ Phase = "answering" <=> pc \in {"history", "refresh"}
         /\ Phase = "over" <=> pc = "done"
         /\ Phase = "refused" <=> pc = "loadFailed"
BY DEF Phase, Dropping, OutcomeInv, Stages, Early, InLoop

\* The steps of the endpoint, the task and the generator that nobody sees.
LEMMA UnseenSteps ==
  ASSUME TypeOK, StageInv, EarlyInv, OutcomeInv,
         \/ LoadDone \/ TaskStart \/ LoopReturn \/ LoopRaise \/ CleanupEnds \/ FlushDone
         \/ CancelSwallowed \/ GenYield \/ GenSent \/ GenEnd \/ DisconnectAtGet \/ SubmitAbort
         \/ UNCHANGED vars
  PROVE  UNCHANGED Promise!vars
<1>1. UNCHANGED <<history, extracting, seenAt, req>>
  BY DEF LoadDone, TaskStart, LoopReturn, LoopRaise, CleanupEnds, FlushDone, CancelSwallowed,
         GenYield, GenSent, GenEnd, DisconnectAtGet, SubmitAbort, vars, taskVars, streamVars,
         reqVars
<1>2. events' \cap Terminal = events \cap Terminal
  BY DEF LoadDone, TaskStart, LoopReturn, LoopRaise, CleanupEnds, FlushDone, CancelSwallowed,
         GenYield, GenSent, GenEnd, DisconnectAtGet, SubmitAbort, vars, taskVars, streamVars,
         reqVars, Terminal
<1>3. gen' = "aborted" <=> gen = "aborted"
  BY DEF LoadDone, TaskStart, LoopReturn, LoopRaise, CleanupEnds, FlushDone, CancelSwallowed,
         GenYield, GenSent, GenEnd, DisconnectAtGet, SubmitAbort, vars, taskVars, streamVars,
         reqVars, StageInv
<1>4. Phase' = Phase
  BY DEF LoadDone, TaskStart, LoopReturn, LoopRaise, CleanupEnds, FlushDone, CancelSwallowed,
         GenYield, GenSent, GenEnd, DisconnectAtGet, SubmitAbort, vars, taskVars, streamVars,
         reqVars, Phase, Dropping, OutcomeInv
<1>5. Interferers' = Interferers
  BY <1>1, <1>3, InterferersStay
<1> QED
  BY <1>1, <1>2, <1>4, <1>5, Unseen

\* What a step of the task leaves of the requests and the generator.
LEMMA OthersStay ==
  ASSUME UNCHANGED <<req, seenAt, gen>>
  PROVE  /\ Interferers' = Interferers
         /\ (\E r \in Requests : seenAt[r] \in Early)' = (\E r \in Requests : seenAt[r] \in Early)
BY InterferersStay

\* The loop is told to stop, or the finally block is left by a cancellation.
LEMMA GivenUp ==
  ASSUME TypeOK, StageInv, OutcomeInv, CauseInv, LoopCancelled \/ FinallyCancelled
  PROVE  Promise!GiveUp \/ UNCHANGED Promise!vars
<1> USE DEF taskVars, streamVars, reqVars
<1>1. UNCHANGED <<req, seenAt, gen, history, extracting>>
  BY DEF LoopCancelled, FinallyCancelled
<1>2. CASE LoopCancelled
  <2>1. Phase = "open" /\ events \cap Terminal = {}
    BY <1>2 DEF LoopCancelled, Phase, Dropping, OutcomeInv, Terminal
  <2>2. Phase' = "dropping"
    BY <1>2 DEF LoopCancelled, Phase, Dropping
  <2>3. events' \cap Terminal = {"cancelled"}
    BY <1>2, <2>1 DEF LoopCancelled, Terminal
  <2> QED
    BY <1>1, <2>1, <2>2, <2>3, OthersStay DEF Promise!GiveUp
<1>3. CASE FinallyCancelled
  <2>1. Phase' = "dropping" /\ events' = events
    BY <1>3 DEF FinallyCancelled, Phase, Dropping
  <2>2. Interferers # {}
    BY <1>3, InterferersAre DEF FinallyCancelled, CauseInv
  <2>3. CASE exit = "cancelled"
    <3>1. Phase = "dropping"
      BY <1>3, <2>3 DEF FinallyCancelled, Phase, Dropping
    <3> QED
      BY <1>1, <2>1, <3>1, OthersStay, Unseen
  <2>4. CASE exit # "cancelled"
    <3>1. Phase = "open"
      BY <1>3, <2>4 DEF FinallyCancelled, Phase, Dropping
    <3> QED
      BY <1>1, <2>1, <2>2, <3>1, OthersStay DEF Promise!GiveUp
  <2> QED
    BY <2>3, <2>4
<1> QED
  BY <1>2, <1>3

\* The end of the loop is where the verdict is given: a flag, an exception or no
\* cancel request in time.
LEMMA VerdictGiven ==
  ASSUME TypeOK, StageInv, EarlyInv, OutcomeInv, CauseInv, PersistDone
  PROVE  [Promise!Next]_Promise!vars
<1> USE DEF taskVars, streamVars, reqVars, Persisted
<1>1. pc = "persist" /\ UNCHANGED <<req, seenAt, gen, history, exit>>
  BY DEF PersistDone
<1>2. CASE ResumeCancelled
  <2>1. Phase = "dropping" /\ Phase' = "dropping" /\ UNCHANGED <<events, extracting>>
    BY <1>1, <1>2 DEF ResumeCancelled, Phase, Dropping
  <2> QED
    BY <1>1, <2>1, OthersStay, Unseen
<1>3. CASE ResumeRaised
  <2>1. Phase = "open" /\ Phase' = "over" /\ UNCHANGED extracting
    BY <1>1, <1>3 DEF ResumeRaised, Finish, Phase, Dropping
  <2>2. events' \cap Terminal = {"error"}
    BY <1>1, <1>3 DEF ResumeRaised, OutcomeInv, Terminal
  <2> QED
    BY <1>1, <2>1, <2>2, OthersStay DEF Promise!Fail, Promise!Next
<1>4. CASE ResumeFlagged
  <2>1. Phase = "open" /\ Phase' = "dropping" /\ UNCHANGED <<events, extracting>>
    BY <1>1, <1>4 DEF ResumeFlagged, Phase, Dropping
  <2>2. Interferers # {}
    BY <1>4, InterferersAre DEF ResumeFlagged, CauseInv
  <2> QED
    BY <1>1, <2>1, <2>2, OthersStay DEF Promise!GiveUp, Promise!Next
<1>5. CASE ResumeAnswer
  <2>1. Phase = "open" /\ Phase' = "answering" /\ events' = events /\ extracting' = TRUE
    BY <1>1, <1>5 DEF ResumeAnswer, Phase, Dropping
  <2>2. ~ \E r \in Requests : seenAt[r] \in Early
    BY <1>1, <1>5 DEF ResumeAnswer, EarlyInv, CancelledEarly
  <2> QED
    BY <1>1, <2>1, <2>2, OthersStay DEF Promise!Decide, Promise!Next
<1> QED
  BY <1>2, <1>3, <1>4, <1>5 DEF PersistDone

\* While the answer is written, and while a cancellation is recorded.
LEMMA Written ==
  ASSUME TypeOK, StageInv, OutcomeInv, CauseInv,
         \/ HistoryCommitted \/ HistoryFails \/ HistoryCancelled \/ AnswerSent
         \/ CancelHistoryDone \/ CancelHistoryCancelled
  PROVE  Promise!Next
<1> USE DEF taskVars, streamVars, reqVars, Finish
<1>1. UNCHANGED <<req, seenAt, gen, exit, extracting>>
  BY DEF HistoryCommitted, HistoryFails, HistoryCancelled, AnswerSent, CancelHistoryDone,
         CancelHistoryCancelled
<1>2. CASE HistoryCommitted
  <2>1. Phase = "answering" /\ Phase' = "answering" /\ events' = events
    BY <1>2 DEF HistoryCommitted, Phase, Dropping
  <2>2. history = {} /\ history' = {"answer"}
    BY <1>2 DEF HistoryCommitted, OutcomeInv
  <2> QED
    BY <1>1, <2>1, <2>2, OthersStay DEF Promise!Store, Promise!Next
<1>3. CASE HistoryFails
  <2>1. Phase = "answering" /\ Phase' = "over" /\ history' = history
    BY <1>3 DEF HistoryFails, Phase, Dropping
  <2>2. events' \cap Terminal = {"error"}
    BY <1>3 DEF HistoryFails, OutcomeInv, Terminal
  <2> QED
    BY <1>1, <2>1, <2>2, OthersStay DEF Promise!Fail, Promise!Next
<1>4. CASE HistoryCancelled
  <2>1. Phase = "answering" /\ Phase' = "dropping" /\ events' = events
    BY <1>4 DEF HistoryCancelled, Phase, Dropping
  <2>2. history' \in {history, {"answer"}}
    BY <1>4 DEF HistoryCancelled, OutcomeInv, Early
  <2>3. "client" \in Interferers
    BY <1>4, InterferersAre DEF HistoryCancelled, CauseInv
  <2> QED
    BY <1>1, <2>1, <2>2, <2>3, OthersStay DEF Promise!Interrupt, Promise!Next
<1>5. CASE AnswerSent
  <2>1. Phase = "answering" /\ Phase' = "over" /\ history' = history
    BY <1>5 DEF AnswerSent, Phase, Dropping
  <2>2. history = {"answer"} /\ events' \cap Terminal = {"final_answer"}
    BY <1>5 DEF AnswerSent, OutcomeInv, Terminal
  <2> QED
    BY <1>1, <2>1, <2>2, OthersStay DEF Promise!Tell, Promise!Next
<1>6. CASE CancelHistoryDone \/ CancelHistoryCancelled
  <2>1. Phase = "dropping" /\ Phase' = "over" /\ events' = events
    BY <1>6 DEF CancelHistoryDone, CancelHistoryCancelled, Phase, Dropping
  <2>2. history' \in {history, history \cup {"cancelled"}}
    BY <1>6 DEF CancelHistoryDone, CancelHistoryCancelled
  <2> QED
    BY <1>1, <2>1, <2>2, OthersStay DEF Promise!Record, Promise!Next
<1> QED
  BY <1>2, <1>3, <1>4, <1>5, <1>6

\* What users and clients do beside the task, and a load that fails.
LEMMA Interfered ==
  ASSUME TypeOK, StageInv, OutcomeInv, CauseInv,
         \/ LoadFails \/ DisconnectAtYield
         \/ \E r \in Requests : Cancel(r) \/ GraceEnds(r) \/ GraceTimeout(r)
  PROVE  [Promise!Next]_Promise!vars
<1> USE DEF taskVars, streamVars, reqVars
<1>1. CASE LoadFails
  <2>1. Phase = "open" /\ Phase' = "refused" /\ history = {} /\ events \cap Terminal = {}
    BY <1>1 DEF LoadFails, Phase, Dropping, OutcomeInv, Early, Terminal
  <2>2. UNCHANGED <<req, seenAt, gen, events, history, extracting>>
    BY <1>1 DEF LoadFails
  <2> QED
    BY <2>1, <2>2, OthersStay DEF Promise!Refuse, Promise!Next
<1>2. CASE DisconnectAtYield
  <2>1. Phase' = Phase /\ UNCHANGED <<req, seenAt, events, history, extracting>>
    BY <1>2 DEF DisconnectAtYield, Phase, Dropping
  <2>2. Interferers' = Interferers \cup {"client"}
    BY <1>2, <2>1 DEF DisconnectAtYield, Interferers
  <2> QED
    BY <2>1, <2>2 DEF Promise!Leave, Promise!Next
<1>3. ASSUME NEW r \in Requests, Cancel(r) PROVE Promise!Next
  <2>1. UNCHANGED <<pc, exit, gen, events, history, extracting>> /\ req'[r] # "idle"
        /\ \A q \in Requests \ {r} : req'[q] = req[q]
    BY <1>3 DEF Cancel, TypeOK
  <2>2. Phase' = Phase
    BY <2>1 DEF Phase, Dropping
  <2>3. Interferers' = Interferers \cup {"request"}
    BY <2>1 DEF Interferers
  <2>4. seenAt' = seenAt \/ seenAt' = [seenAt EXCEPT ![r] = pc]
    BY <1>3 DEF Cancel
  <2>5. CASE seenAt' = seenAt
    BY <2>1, <2>2, <2>3, <2>5 DEF Promise!Ask, Promise!Next
  <2>6. CASE seenAt' = [seenAt EXCEPT ![r] = pc] /\ pc \in Early
    <3>1. \E q \in Requests : seenAt'[q] \in Early
      BY <2>6 DEF TypeOK
    <3>2. Phase \in {"open", "dropping"}
      BY <2>6 DEF Phase, Dropping, Early, InLoop
    <3> QED
      BY <2>1, <2>2, <2>3, <3>1, <3>2 DEF Promise!Ask, Promise!Next
  <2>7. CASE seenAt' = [seenAt EXCEPT ![r] = pc] /\ pc \notin Early /\ seenAt[r] = "none"
    <3>1. (\E q \in Requests : seenAt'[q] \in Early) <=> \E q \in Requests : seenAt[q] \in Early
      BY <2>7 DEF TypeOK, Early, InLoop
    <3> QED
      BY <2>1, <2>2, <2>3, <3>1 DEF Promise!Ask, Promise!Next
  <2> QED
    BY <1>3, <2>4, <2>5, <2>6, <2>7 DEF Cancel, CauseInv
<1>4. ASSUME NEW r \in Requests, GraceEnds(r) \/ GraceTimeout(r) PROVE UNCHANGED Promise!vars
  <2>1. UNCHANGED <<seenAt, gen, events, history, extracting>>
        /\ req[r] # "idle" /\ req'[r] # "idle" /\ \A q \in Requests \ {r} : req'[q] = req[q]
    BY <1>4 DEF GraceEnds, GraceTimeout, TypeOK
  <2>2. Phase' = Phase
    BY <1>4 DEF GraceEnds, GraceTimeout, Phase, Dropping
  <2>3. Interferers' = Interferers
    BY <2>1, InterferersStay
  <2> QED
    BY <2>1, <2>2, <2>3, Unseen
<1> QED
  BY <1>1, <1>2, <1>3, <1>4

\* QuerySession implements Verdict, for any number of cancel requests: whatever is
\* cancelled, committed, interrupted and disconnected, the query is decided once.
THEOREM PromiseIsKept == Spec => KeepsPromise
<1>1. /\ TypeOK /\ StageInv /\ EarlyInv /\ OutcomeInv /\ CauseInv
      /\ [Next]_vars
      => [Promise!Next]_Promise!vars
  BY UnseenSteps, GivenUp, VerdictGiven, Written, Interfered DEF Next, TaskStep, Promise!Next
<1> QED
  BY PromiseInitially, <1>1, TypeCorrect, StageInvariant, EarlyInvariant, OutcomeInvariant,
     CauseInvariant, PTL DEF Spec, KeepsPromise, Promise!Spec

============================================================================
