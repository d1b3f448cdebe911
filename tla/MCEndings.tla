----------------------------- MODULE MCEndings -----------------------------
(* What must end: a run of the agent loop, with two error classes, two     *)
(* distinct calls and up to two calls per turn; or two workers of one      *)
(* repository that share one slot.  A behaviour is one of the two.         *)
EXTENDS AgentLoop, TLC

CONSTANTS a, w1, w2, q1

MCClasses == {"e1", "e2"}
MCKeys    == {"k1", "k2"}

VARIABLES
  part,  \* which of the two the behaviour is about
  pc, repoOf, cancelReq, failed, registry, wid, status, deleting, mark, rebuild,
  targets, req, unpromoted, batch, gaveUp, lost

W == INSTANCE RepoWorker WITH
  Repos <- {a}, Workers <- {w1, w2}, Rebuilds <- {}, Requests <- {q1}, Slots <- 1,
  Events <- {"delete", "crash", "dbError"}, NoRepo <- "none", NoWorker <- "none"

workerVars == <<pc, repoOf, cancelReq, failed, registry, wid, status, deleting, mark, rebuild,
                targets, req, unpromoted, batch, gaveUp, lost>>
all == <<vars, workerVars, part>>

EndingsInit == Init /\ W!Init /\ part \in {"agent", "worker"}

Agent  == part = "agent" /\ Next /\ UNCHANGED <<workerVars, part>>
Worker == part = "worker" /\ W!Next /\ UNCHANGED <<vars, part>>

EndingsNext == Agent \/ Worker

Endings == EndingsInit /\ [][EndingsNext]_all /\ WF_all(Agent) /\ W!Fairness

\* Every run of the agent loop stops (Terminates of AgentLoop).
RunEnds == part = "agent" => Terminates

\* Every worker ends and gives its slot back (WorkerEnds of RepoWorker).
WorkerEnds == W!WorkerEnds
============================================================================
