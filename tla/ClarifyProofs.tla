--------------------------- MODULE ClarifyProofs ---------------------------
(***************************************************************************)
(* Theorems about Clarify, for any number of runs, calls and answers.      *)
(*                                                                         *)
(* TypeOK is inductive together with CardInv (a request past its first     *)
(* step has a card), and so is NoStaleEvent.  The properties of answers    *)
(* follow from AnswerInv, which says where a delivered answer can be; the  *)
(* ones about runs that ask one question at a time follow from             *)
(* SequentialInv, which ties a call in flight to its registry entry until  *)
(* two calls of its run overlap.                                           *)
(***************************************************************************)
EXTENDS Clarify, TLAPS

\* A request that has passed its first step answers a card.
CardInv == \A p \in Posts : postPc[p] # "idle" => postCard[p] \in Calls
TypeInv == TypeOK /\ CardInv

\* A delivered answer lies in the registry of its card's trace or in the result
\* of one call of that trace, and never in two places.
AnswerInv ==
  /\ \A t \in Traces : answers[t] # NoPost =>
       /\ postPc[answers[t]] = "done"
       /\ TraceOf[postCard[answers[t]]] = t
       /\ \A c \in Calls : result[c] # answers[t]
  /\ \A c \in Calls : result[c] # NoPost =>
       /\ postPc[result[c]] = "done"
       /\ TraceOf[postCard[result[c]]] = TraceOf[c]
  /\ AnswerConsumedOnce

\* Until two calls of its run overlap, a call in flight owns the Event, its run
\* has not ended, and its Event is set exactly when an answer is stored.
SequentialInv ==
  /\ \A c \in Calls : TraceOf[c] \notin overlapped /\ call[c] \in Active =>
       /\ events[TraceOf[c]] = c
       /\ agent[TraceOf[c]] = "running"
       /\ c \in isSet => answers[TraceOf[c]] # NoPost
  /\ \A c \in Calls : call[c] = "idle" => c \notin isSet
  /\ NoLostWakeup
  /\ AnsweredHasAnswer
  /\ NoPendingAfterStop

----------------------------------------------------------------------------

\* Types and cards are preserved together by every action.
LEMMA TypeInvariant == Spec => []TypeInv
<1>1. Init => TypeInv
  BY TraceOfAssumption DEF Init, TypeInv, TypeOK, CardInv, Active, Ended
<1>2. TypeInv /\ [Next]_vars => TypeInv'
  <2> SUFFICES ASSUME TypeInv, [Next]_vars PROVE TypeInv'
    OBVIOUS
  <2> USE TraceOfAssumption DEF TypeInv, TypeOK, CardInv, Active, Ended, callVars, postVars
  <2>1. ASSUME NEW c \in Calls, Start(c) PROVE TypeInv'
    BY <2>1 DEF Start
  <2>2. ASSUME NEW c \in Calls, FailDb(c) PROVE TypeInv'
    BY <2>2 DEF FailDb, PopRegistries
  <2>3. ASSUME NEW c \in Calls, Commit(c) PROVE TypeInv'
    BY <2>3 DEF Commit
  <2>4. ASSUME NEW c \in Calls, Show(c) PROVE TypeInv'
    BY <2>4 DEF Show
  <2>5. ASSUME NEW c \in Calls, Wake(c) PROVE TypeInv'
    BY <2>5 DEF Wake, PopRegistries
  <2>6. ASSUME NEW c \in Calls, Timeout(c) PROVE TypeInv'
    BY <2>6 DEF Timeout, PopRegistries
  <2>7. ASSUME NEW c \in Calls, Expire(c) PROVE TypeInv'
    BY <2>7 DEF Expire
  <2>8. ASSUME NEW t \in Traces, CancelTrace(t) PROVE TypeInv'
    BY <2>8 DEF CancelTrace, PopRegistries
  <2>9. ASSUME NEW t \in Traces, AbandonPending(t) PROVE TypeInv'
    BY <2>9 DEF AbandonPending
  <2>10. ASSUME NEW p \in Posts, NEW c \in Calls, Load(p, c) PROVE TypeInv'
    BY <2>10 DEF Load
  <2>11. ASSUME NEW p \in Posts, Resolve(p) PROVE TypeInv'
    BY <2>11 DEF Resolve
  <2>12. ASSUME NEW p \in Posts, Deliver(p) PROVE TypeInv'
    BY <2>12 DEF Deliver
  <2>13. CASE CleanupOnce
    BY <2>13 DEF CleanupOnce
  <2>14. CASE UNCHANGED vars
    BY <2>14 DEF vars
  <2>15. ASSUME NEW t \in Traces, AbandonFails(t) PROVE TypeInv'
    BY <2>15 DEF AbandonFails
  <2> QED
    BY <2>1, <2>2, <2>3, <2>4, <2>5, <2>6, <2>7, <2>8, <2>9, <2>10, <2>11, <2>12,
       <2>13, <2>14, <2>15 DEF Next, CallStep
<1> QED
  BY <1>1, <1>2, PTL DEF Spec

\* The state keeps its shape: every handler writes values of its field's type.
THEOREM TypeCorrect == Spec => []TypeOK
<1>1. TypeInv => TypeOK
  BY DEF TypeInv
<1> QED
  BY <1>1, TypeInvariant, PTL

----------------------------------------------------------------------------

\* Every exit path of a call clears the Event it registered: an entry of
\* _pending_events always names a call of that trace that is still in flight.
THEOREM StaleEventsNever == Spec => []NoStaleEvent
<1>1. Init => NoStaleEvent
  BY DEF Init, NoStaleEvent
<1>2. TypeInv /\ NoStaleEvent /\ [Next]_vars => NoStaleEvent'
  <2> SUFFICES ASSUME TypeInv, NoStaleEvent, [Next]_vars PROVE NoStaleEvent'
    OBVIOUS
  <2> USE TraceOfAssumption, NoneAssumption
      DEF TypeInv, TypeOK, CardInv, NoStaleEvent, Active, callVars, postVars
  <2>1. ASSUME NEW c \in Calls, Start(c) PROVE NoStaleEvent'
    BY <2>1 DEF Start
  <2>2. ASSUME NEW c \in Calls, FailDb(c) PROVE NoStaleEvent'
    BY <2>2 DEF FailDb, PopRegistries
  <2>3. ASSUME NEW c \in Calls, Commit(c) PROVE NoStaleEvent'
    BY <2>3 DEF Commit
  <2>4. ASSUME NEW c \in Calls, Show(c) PROVE NoStaleEvent'
    BY <2>4 DEF Show
  <2>5. ASSUME NEW c \in Calls, Wake(c) PROVE NoStaleEvent'
    BY <2>5 DEF Wake, PopRegistries
  <2>6. ASSUME NEW c \in Calls, Timeout(c) PROVE NoStaleEvent'
    BY <2>6 DEF Timeout, PopRegistries
  <2>7. ASSUME NEW t \in Traces, CancelTrace(t) PROVE NoStaleEvent'
    BY <2>7 DEF CancelTrace, PopRegistries
  <2>8. ASSUME UNCHANGED <<call, events>> PROVE NoStaleEvent'
    BY <2>8
  <2> QED
    BY <2>1, <2>2, <2>3, <2>4, <2>5, <2>6, <2>7, <2>8
       DEF Next, CallStep, Expire, AbandonPending, AbandonFails, Load, Resolve, Deliver, CleanupOnce, vars
<1> QED
  BY <1>1, <1>2, TypeInvariant, PTL DEF Spec

----------------------------------------------------------------------------

\* Where answers are: preserved because an answer moves from its POST to the
\* registry in Deliver, and from there to one result in Wake, which also
\* empties the registry.
LEMMA AnswerInvariant == Spec => []AnswerInv
<1>1. Init => AnswerInv
  BY DEF Init, AnswerInv, AnswerConsumedOnce
<1>2. TypeInv /\ AnswerInv /\ [Next]_vars => AnswerInv'
  <2> SUFFICES ASSUME TypeInv, AnswerInv, [Next]_vars PROVE AnswerInv'
    OBVIOUS
  <2> USE TraceOfAssumption, NoneAssumption
      DEF TypeInv, TypeOK, CardInv, AnswerInv, AnswerConsumedOnce, callVars, postVars
  <2>1. ASSUME NEW t \in Traces, UNCHANGED <<result, postPc, postCard>>,
               answers' = [answers EXCEPT ![t] = NoPost] \/ UNCHANGED answers
        PROVE AnswerInv'
    BY <2>1
  <2>2. ASSUME NEW c \in Calls, Wake(c) PROVE AnswerInv'
    BY <2>2 DEF Wake, PopRegistries
  <2>3. ASSUME NEW p \in Posts, NEW c \in Calls, Load(p, c) PROVE AnswerInv'
    BY <2>3 DEF Load
  <2>4. ASSUME NEW p \in Posts, Resolve(p) PROVE AnswerInv'
    BY <2>4 DEF Resolve
  <2>5. ASSUME NEW p \in Posts, Deliver(p) PROVE AnswerInv'
    BY <2>5 DEF Deliver
  <2>6. ASSUME NEW c \in Calls, Start(c) \/ Commit(c) \/ Show(c) \/ Expire(c)
        PROVE AnswerInv'
    BY <2>6 DEF Start, Commit, Show, Expire
  <2>7. ASSUME NEW c \in Calls, FailDb(c) \/ Timeout(c) PROVE AnswerInv'
    BY <2>1, <2>7 DEF FailDb, Timeout, PopRegistries
  <2>8. ASSUME NEW t \in Traces, CancelTrace(t) PROVE AnswerInv'
    BY <2>1, <2>8 DEF CancelTrace, PopRegistries
  <2>9. ASSUME NEW t \in Traces, AbandonPending(t) \/ AbandonFails(t) PROVE AnswerInv'
    BY <2>9 DEF AbandonPending, AbandonFails
  <2>10. CASE CleanupOnce
    BY <2>10 DEF CleanupOnce
  <2>11. CASE UNCHANGED vars
    BY <2>11 DEF vars
  <2> QED
    BY <2>2, <2>3, <2>4, <2>5, <2>6, <2>7, <2>8, <2>9, <2>10, <2>11 DEF Next, CallStep
<1> QED
  BY <1>1, <1>2, TypeInvariant, PTL DEF Spec

\* Conversations never receive each other's answers, however many run at once.
THEOREM AnswersStayInTheirTrace == Spec => []TraceIsolation
<1>1. AnswerInv => TraceIsolation
  BY DEF AnswerInv, TraceIsolation
<1> QED
  BY <1>1, AnswerInvariant, PTL

\* One answer of the user is returned by at most one clarify_with_user call.
THEOREM AnswersAreConsumedOnce == Spec => []AnswerConsumedOnce
<1>1. AnswerInv => AnswerConsumedOnce
  BY DEF AnswerInv
<1> QED
  BY <1>1, AnswerInvariant, PTL

----------------------------------------------------------------------------

\* What holds of the runs whose calls have not overlapped.
LEMMA SequentialInvariant == Spec => []SequentialInv
<1> USE TraceOfAssumption, NoneAssumption
    DEF SequentialInv, NoLostWakeup, AnsweredHasAnswer, NoPendingAfterStop, Active
<1>1. Init => SequentialInv
  BY DEF Init
<1>2. TypeInv /\ NoStaleEvent /\ SequentialInv /\ [Next]_vars => SequentialInv'
  <2> SUFFICES ASSUME TypeInv, NoStaleEvent, SequentialInv, [Next]_vars
               PROVE SequentialInv'
    OBVIOUS
  <2> USE DEF TypeInv, TypeOK, CardInv, callVars, postVars, Ended
  <2>1. ASSUME NEW c \in Calls, Start(c) PROVE SequentialInv'
    BY <2>1 DEF Start
  <2>2. ASSUME NEW c \in Calls, FailDb(c) PROVE SequentialInv'
    BY <2>2 DEF FailDb, PopRegistries
  <2>3. ASSUME NEW c \in Calls, Commit(c) PROVE SequentialInv'
    BY <2>3 DEF Commit
  <2>4. ASSUME NEW c \in Calls, Show(c) PROVE SequentialInv'
    BY <2>4 DEF Show
  <2>5. ASSUME NEW c \in Calls, Wake(c) PROVE SequentialInv'
    BY <2>5 DEF Wake, PopRegistries
  <2>6. ASSUME NEW c \in Calls, Timeout(c) PROVE SequentialInv'
    BY <2>6 DEF Timeout, PopRegistries
  <2>7. ASSUME NEW c \in Calls, Expire(c) PROVE SequentialInv'
    BY <2>7 DEF Expire
  <2>8. ASSUME NEW t \in Traces, CancelTrace(t) PROVE SequentialInv'
    BY <2>8 DEF CancelTrace, PopRegistries
  <2>9. ASSUME NEW t \in Traces, AbandonPending(t) PROVE SequentialInv'
    BY <2>9 DEF AbandonPending
  <2>10. ASSUME NEW p \in Posts, NEW c \in Calls, Load(p, c) PROVE SequentialInv'
    BY <2>10 DEF Load
  <2>11. ASSUME NEW p \in Posts, Resolve(p) PROVE SequentialInv'
    BY <2>11 DEF Resolve
  <2>12. ASSUME NEW p \in Posts, Deliver(p) PROVE SequentialInv'
    BY <2>12 DEF Deliver, NoStaleEvent
  <2>13. CASE CleanupOnce
    BY <2>13 DEF CleanupOnce
  <2>14. CASE UNCHANGED vars
    BY <2>14 DEF vars
  <2>15. ASSUME NEW t \in Traces, AbandonFails(t) PROVE SequentialInv'
    BY <2>15 DEF AbandonFails
  <2> QED
    BY <2>1, <2>2, <2>3, <2>4, <2>5, <2>6, <2>7, <2>8, <2>9, <2>10, <2>11, <2>12,
       <2>13, <2>14, <2>15 DEF Next, CallStep
<1> QED
  BY <1>1, <1>2, TypeInvariant, StaleEventsNever, PTL DEF Spec

\* The concurrency contract of clarify_with_user: an answer stored while the
\* only call of its trace waits has set that call's Event.
THEOREM WakeupsAreNotLost == Spec => []NoLostWakeup
<1>1. SequentialInv => NoLostWakeup
  BY DEF SequentialInv
<1> QED
  BY <1>1, SequentialInvariant, PTL

\* A call that reports an answer to the model returns one.
THEOREM AnsweredCallsHaveAnswers == Spec => []AnsweredHasAnswer
<1>1. SequentialInv => AnsweredHasAnswer
  BY DEF SequentialInv
<1> QED
  BY <1>1, SequentialInvariant, PTL

\* A run that has stopped on a cancellation or an unanswered forced
\* clarification leaves no card pending, unless its clean-up was lost.
THEOREM StoppedRunsLeaveNoCard == Spec => []NoPendingAfterStop
<1>1. SequentialInv => NoPendingAfterStop
  BY DEF SequentialInv
<1> QED
  BY <1>1, SequentialInvariant, PTL
----------------------------------------------------------------------------

\* A run's calls have overlapped only if two of them were made.
OverlapInv ==
  \A t \in overlapped :
    \E c, d \in Calls : /\ c # d /\ TraceOf[c] = t /\ TraceOf[d] = t
                       /\ call[c] # "idle" /\ call[d] # "idle"

\* Calls of a run overlap only by being made.
LEMMA OverlapInvariant == Spec => []OverlapInv
<1>1. Init => OverlapInv
  BY DEF Init, OverlapInv
<1>2. TypeInv /\ OverlapInv /\ [Next]_vars => OverlapInv'
  <2> SUFFICES ASSUME TypeInv, OverlapInv, [Next]_vars PROVE OverlapInv'
    OBVIOUS
  <2> USE DEF TypeInv, TypeOK, OverlapInv, callVars, postVars
  <2>1. ASSUME NEW c \in Calls, Start(c) PROVE OverlapInv'
    BY <2>1 DEF Start, Active
  <2>2. ASSUME UNCHANGED overlapped,
               \A c \in Calls : call[c] # "idle" => call'[c] # "idle"
        PROVE OverlapInv'
    BY <2>2
  <2>3. ASSUME NEW c \in Calls, FailDb(c) \/ CallStep(c) PROVE OverlapInv'
    BY <2>2, <2>3 DEF FailDb, CallStep, Commit, Show, Wake, Timeout
  <2>4. ASSUME NEW t \in Traces, CancelTrace(t) PROVE OverlapInv'
    BY <2>2, <2>4 DEF CancelTrace
  <2>5. CASE UNCHANGED <<call, overlapped>>
    BY <2>2, <2>5
  <2>6. ASSUME NEW c \in Calls, Expire(c) PROVE OverlapInv'
    BY <2>5, <2>6 DEF Expire
  <2>7. ASSUME NEW t \in Traces, AbandonPending(t) \/ AbandonFails(t) PROVE OverlapInv'
    BY <2>5, <2>7 DEF AbandonPending, AbandonFails
  <2>8. ASSUME NEW p \in Posts, (\E c \in Calls : Load(p, c)) \/ Resolve(p) \/ Deliver(p)
        PROVE OverlapInv'
    BY <2>5, <2>8 DEF Load, Resolve, Deliver
  <2>9. CASE CleanupOnce
    BY <2>5, <2>9 DEF CleanupOnce
  <2>10. CASE UNCHANGED vars
    BY <2>5, <2>10 DEF vars
  <2> QED
    BY <2>1, <2>3, <2>4, <2>6, <2>7, <2>8, <2>9, <2>10 DEF Next
<1> QED
  BY <1>1, <1>2, TypeInvariant, PTL DEF Spec

\* Clarify implements Rendezvous: every step asks, gives, takes or closes, or is
\* one that the promise does not see.
THEOREM PromiseIsKept == Spec => KeepsPromise
<1> USE TraceOfAssumption, NoneAssumption
<1>1. Init => Promise!Init
  BY DEF Init, Promise!Init, AskedAs, Active
<1>2. TypeInv /\ SequentialInv /\ OverlapInv /\ [Next]_vars
        => [Promise!Next]_(Promise!vars)
  <2> SUFFICES ASSUME TypeInv, SequentialInv, OverlapInv, [Next]_vars
               PROVE [Promise!Next]_(Promise!vars)
    OBVIOUS
  <2> USE DEF TypeInv, TypeOK, callVars, postVars, AskedAs, Active, Ended
  <2>1. ASSUME NEW c \in Calls, Start(c) PROVE Promise!Ask(c)
    BY <2>1 DEF Start, Promise!Ask
  <2>2. ASSUME NEW c \in Calls, Wake(c) PROVE Promise!Take(c)
    <3>1. answers[TraceOf[c]] # NoPost \/
          \E d \in Calls \ {c} : TraceOf[d] = TraceOf[c] /\ call[d] # "idle"
      BY <2>2 DEF Wake, SequentialInv, OverlapInv
    <3> QED
      BY <2>2, <3>1 DEF Wake, PopRegistries, Promise!Take
  <2>3. ASSUME NEW c \in Calls, FailDb(c) \/ Timeout(c)
        PROVE Promise!Close(TraceOf[c], {c})
    BY <2>3 DEF FailDb, Timeout, PopRegistries, Promise!Close
  <2>4. ASSUME NEW t \in Traces, CancelTrace(t)
        PROVE [Promise!Next]_(Promise!vars)
    <3>1. PICK live \in SUBSET Calls : live = {c \in Calls : TraceOf[c] = t /\ call[c] \in Active}
      OBVIOUS
    <3>2. CASE live = {}
      BY <2>4, <3>1, <3>2 DEF CancelTrace, Promise!vars
    <3>3. CASE live # {}
      <4>1. /\ call' = [c \in Calls |-> IF c \in live THEN "cancelled" ELSE call[c]]
            /\ answers' = [answers EXCEPT ![t] = NoPost]
            /\ UNCHANGED <<result, postPc>>
        BY <2>4, <3>1, <3>3 DEF CancelTrace, PopRegistries
      <4>2. \A c \in Calls : AskedAs(call[c])' = IF c \in live THEN "closed" ELSE AskedAs(call[c])
        BY <4>1
      <4>3. Promise!Close(t, live)
        BY <3>1, <4>1, <4>2 DEF Promise!Close
      <4> QED
        BY <4>3 DEF Promise!Next
    <3> QED
      BY <3>2, <3>3
  <2>5. ASSUME NEW p \in Posts, Deliver(p) PROVE Promise!Next
    <3>1. PICK t \in Traces : t = TraceOf[postCard[p]]
      BY <2>5 DEF Deliver, CardInv
    <3>2. Promise!Give(p, t)
      BY <2>5, <3>1 DEF Deliver, Promise!Give
    <3> QED
      BY <3>2 DEF Promise!Next
  <2>6. ASSUME NEW c \in Calls, Commit(c) \/ Show(c) \/ Expire(c)
        PROVE UNCHANGED Promise!vars
    BY <2>6 DEF Commit, Show, Expire, Promise!vars
  <2>7. ASSUME NEW t \in Traces, AbandonPending(t) \/ AbandonFails(t)
        PROVE UNCHANGED Promise!vars
    BY <2>7 DEF AbandonPending, AbandonFails, Promise!vars
  <2>8. ASSUME NEW p \in Posts, (\E c \in Calls : Load(p, c)) \/ Resolve(p)
        PROVE UNCHANGED Promise!vars
    BY <2>8 DEF Load, Resolve, Promise!vars
  <2>9. CASE CleanupOnce
    BY <2>9 DEF CleanupOnce, Promise!vars
  <2>10. CASE UNCHANGED vars
    BY <2>10 DEF vars, Promise!vars
  <2>11. ASSUME NEW c \in Calls, Start(c) \/ Wake(c) \/ FailDb(c) \/ Timeout(c)
         PROVE Promise!Next
    BY <2>1, <2>2, <2>3, <2>11 DEF Promise!Next
  <2> QED
    BY <2>4, <2>5, <2>6, <2>7, <2>8, <2>9, <2>10, <2>11 DEF Next, CallStep
<1> QED
  BY <1>1, <1>2, TypeInvariant, SequentialInvariant, OverlapInvariant,
     PTL DEF Spec, KeepsPromise, Promise!Spec

============================================================================
