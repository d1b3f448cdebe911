------------------------------ MODULE Verdict -------------------------------
(***************************************************************************)
(* What a streamed query promises (QuerySession.tla), without the task,    *)
(* its registries, flags and cancellations: a question is open until its   *)
(* answer is being written or it is given up, which is decided once.  A    *)
(* user who asks in time to give it up prevents the answer; later only a   *)
(* client that leaves can.  What has been stored and told stays.           *)
(***************************************************************************)

VARIABLES
  phase,   \* "open", then "answering" or "dropping" and "over", or "refused"
  told,    \* the outcomes the client has been told
  stored,  \* the rows of the conversation
  learnt,  \* knowledge is drawn from the answer
  inTime,  \* somebody has asked in time to give the question up
  by       \* who has interfered: "request", "client"

vars == <<phase, told, stored, learnt, inTime, by>>

Init ==
  /\ phase = "open"
  /\ told = {} /\ stored = {} /\ learnt = FALSE
  /\ inTime = FALSE /\ by = {}

\* No conversation comes about.
Refuse ==
  /\ phase = "open" /\ told = {} /\ stored = {}
  /\ phase' = "refused"
  /\ UNCHANGED <<told, stored, learnt, inTime, by>>

\* A request to give the question up; until the answer is written it is in time.
Ask ==
  /\ \/ phase \in {"open", "dropping"} /\ inTime' = TRUE
     \/ UNCHANGED inTime
  /\ by' = by \cup {"request"}
  /\ UNCHANGED <<phase, told, stored, learnt>>

Leave ==
  /\ by' = by \cup {"client"}
  /\ UNCHANGED <<phase, told, stored, learnt, inTime>>

\* The question is given up: the user is told, or somebody knows anyway.
GiveUp ==
  /\ phase = "open"
  /\ phase' = "dropping"
  /\ \/ told' = {"cancelled"}
     \/ by # {} /\ UNCHANGED told
  /\ UNCHANGED <<stored, learnt, inTime, by>>

Decide ==
  /\ phase = "open" /\ ~inTime
  /\ phase' = "answering"
  /\ learnt' = TRUE
  /\ UNCHANGED <<told, stored, inTime, by>>

Store ==
  /\ phase = "answering" /\ stored = {}
  /\ stored' = {"answer"}
  /\ UNCHANGED <<phase, told, learnt, inTime, by>>

\* Only what is stored is told.
Tell ==
  /\ phase = "answering" /\ stored = {"answer"}
  /\ phase' = "over"
  /\ told' = {"final_answer"}
  /\ UNCHANGED <<stored, learnt, inTime, by>>

Fail ==
  /\ phase \in {"open", "answering"}
  /\ phase' = "over"
  /\ told' = {"error"}
  /\ UNCHANGED <<stored, learnt, inTime, by>>

\* The answer is dropped while it is being written, if it can still be.
Interrupt ==
  /\ phase = "answering" /\ "client" \in by
  /\ phase' = "dropping"
  /\ stored' \in {stored, {"answer"}}
  /\ UNCHANGED <<told, learnt, inTime, by>>

Record ==
  /\ phase = "dropping"
  /\ phase' = "over"
  /\ stored' \in {stored, stored \cup {"cancelled"}}
  /\ UNCHANGED <<told, learnt, inTime, by>>

Next ==
  \/ Refuse \/ Ask \/ Leave \/ GiveUp \/ Decide
  \/ Store \/ Tell \/ Fail \/ Interrupt \/ Record

Spec == Init /\ [][Next]_vars
=============================================================================
