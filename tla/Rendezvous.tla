----------------------------- MODULE Rendezvous -----------------------------
(***************************************************************************)
(* What the clarification of Clarify.tla promises, without events, rows,   *)
(* tasks or requests: a run asks questions, its user gives answers, and    *)
(* each answer is lost or taken by one question, of the run it was given   *)
(* to.  A run holds the latest answer until a question takes it or ends.   *)
(***************************************************************************)

CONSTANTS
  Traces,   \* runs
  Calls,    \* questions
  Answers,
  TraceOf,  \* the run of every question
  None      \* an absent answer

VARIABLES
  asked,  \* by question: "idle", "open", "answered" or "closed"
  got,    \* the answer each question took
  held,   \* the answer each run holds
  given   \* answers given so far

vars == <<asked, got, held, given>>

Init ==
  /\ asked = [c \in Calls |-> "idle"]
  /\ got = [c \in Calls |-> None]
  /\ held = [t \in Traces |-> None]
  /\ given = {}

Ask(c) ==
  /\ asked[c] = "idle"
  /\ asked' = [asked EXCEPT ![c] = "open"]
  /\ UNCHANGED <<got, held, given>>

Give(a, t) ==
  /\ a \notin given
  /\ given' = given \cup {a}
  /\ held' = [held EXCEPT ![t] = a]
  /\ UNCHANGED <<asked, got>>

\* A question is answered with what the run holds.  There is nothing to take
\* only where another question of the run has taken it.
Take(c) ==
  /\ asked[c] = "open"
  /\ held[TraceOf[c]] # None \/ \E d \in Calls \ {c} : TraceOf[d] = TraceOf[c] /\ asked[d] # "idle"
  /\ asked' = [asked EXCEPT ![c] = "answered"]
  /\ got' = [got EXCEPT ![c] = held[TraceOf[c]]]
  /\ held' = [held EXCEPT ![TraceOf[c]] = None]
  /\ UNCHANGED given

\* Questions of a run end without an answer.
Close(t, ended) ==
  /\ \A c \in ended : TraceOf[c] = t /\ asked[c] = "open"
  /\ asked' = [c \in Calls |-> IF c \in ended THEN "closed" ELSE asked[c]]
  /\ held' = [held EXCEPT ![t] = None]
  /\ UNCHANGED <<got, given>>

Next ==
  \/ \E c \in Calls : Ask(c) \/ Take(c)
  \/ \E a \in Answers, t \in Traces : Give(a, t)
  \/ \E t \in Traces, ended \in SUBSET Calls : Close(t, ended)

Spec == Init /\ [][Next]_vars
=============================================================================
