---------------------------- MODULE Terminology ----------------------------
(***************************************************************************)
(* Business terms: the gate every channel writes through                   *)
(* (knowledge/terminology_intake.py), the conflicts it parks and their     *)
(* resolution (api/terminology_conflict.py), and the refresh of a          *)
(* namespace, which deletes its schema terms and has them extracted again  *)
(* (api/terminology_refresh.py, knowledge/terminology_refresher.py and     *)
(* terminology_extractor.py).                                              *)
(*                                                                         *)
(* A payload is [term, syn, anchor]: the anchor stands for collection,     *)
(* database and database type, of which at most one entry is active.  A    *)
(* session reads, then commits; it waits for a row that is being deleted.  *)
(* The vectors and the automaton made from the entries are left out.       *)
(***************************************************************************)
EXTENDS Naturals, Sequences, FiniteSets, SequencesExt

CONSTANTS
  Ids,       \* primary keys of entries, 1..n, given out in this order
  Cids,      \* primary keys of conflicts, likewise
  Payloads,  \* what a channel may hand to the gate
  Routable,  \* anchors whose datasource exists and has the payload's type
  Described, \* canonical objects with a description, named by their anchors
  RawTerms,  \* what the model may answer, for a batch or when it consolidates
  Jobs,      \* requests of people and of agents, each made once
  Tasks      \* requests for a refresh, each made once

VARIABLES
  ke,       \* knowledge_entries of type terminology
  conf,     \* terminology_conflicts
  job,      \* sessions: of requests, and of the refreshes
  task      \* _refresh_tasks and the coroutines behind them

vars == <<ke, conf, job, task>>

Lex(p)     == {p.term} \cup p.syn
Exists(i)  == ke[i].st \notin {"none", "deleted"}
Active(i)  == Exists(i) /\ ~ke[i].sup
Holders(a) == {i \in Ids : Active(i) /\ ke[i].p.anchor = a}
Unborn     == [st |-> "none"]
Gone       == [st |-> "deleted"]
Of(c, S)   == conf[c].st \in {"open", "resolved"} /\ conf[c].ex \in S
\* run: who wrote the row, a request or a refresh
Entry(st, src, p, run) == [st |-> st, sup |-> FALSE, src |-> src, p |-> p, run |-> run]

Init ==
  /\ ke \in {[i \in Ids |-> IF i = 1 THEN e ELSE Unborn] :
               e \in {Entry(st, src, p, "old") : st \in {"proposed", "canonical"},
                        src \in {"schema", "manual"}, p \in Payloads} \cup {Unborn}}
  /\ conf = [c \in Cids |-> Unborn]
  /\ job = [j \in Jobs \cup Tasks |-> [pc |-> "idle"]]
  /\ task = [t \in Tasks |-> [pc |-> "none", status |-> "none"]]

----------------------------------------------------------------------------
\* Rows whose deletion is under way and not committed.
Locked == UNION {task[t].doomed : t \in {x \in Tasks : task[x].pc = "clear"}}
At(j, pc) == job[j].pc = pc
End(j, how) == job' = [job EXCEPT ![j] = [pc |-> how]]

Insert(i, e) == ke' = [ke EXCEPT ![i] = e]
Fresh(f, S)  == {i \in S : f[i].st = "none"}

\* upsert_terminology_with_validation up to _find_active_duplicate; a payload
\* that does not fit its schema or its datasource is refused.
Find(j, src, p) ==
  /\ At(j, "idle")
  /\ IF p.anchor \notin Routable THEN End(j, "invalid")
     ELSE job' = [job EXCEPT ![j] =
            [pc |-> "store", src |-> src, p |-> p, hit |-> Holders(p.anchor),
             seen |-> {ke[i] : i \in Holders(p.anchor)}]]
  /\ UNCHANGED <<ke, conf>>

MergedWith(p, q) == [p EXCEPT !.syn = (@ \cup Lex(q)) \ {p.term}]

\* _create_proposed; the partial unique index has the last word.
Create(j) ==
  /\ At(j, "store") /\ job[j].hit = {}
  /\ Fresh(ke, Ids) # {} /\ Holders(job[j].p.anchor) \cap Locked = {}
  /\ IF Holders(job[j].p.anchor) = {}
       THEN /\ Insert(Min(Fresh(ke, Ids)), Entry("proposed", job[j].src, job[j].p, j))
            /\ End(j, "stored")
       ELSE End(j, "error") /\ UNCHANGED ke
  /\ UNCHANGED <<conf, task>>

Merges(j) == \E e \in job[j].seen : e.st # "canonical" /\ Lex(e.p) \cap Lex(job[j].p) # {}

\* _merge_or_skip: the payload as it was read, with the words of the candidate.
Merge(j) ==
  /\ At(j, "store") /\ job[j].hit # {} /\ Merges(j)
  /\ job[j].hit \cap Locked = {}
  /\ \E i \in job[j].hit, e \in job[j].seen :
       IF Exists(i)
         THEN Insert(i, [ke[i] EXCEPT !.p = MergedWith(e.p, job[j].p)]) /\ End(j, "stored")
         ELSE End(j, "error") /\ UNCHANGED ke
  /\ UNCHANGED <<conf, task>>

\* _record_conflict.  The endpoint for manual entry answers 422 without having
\* committed, which takes the conflict back.
Park(j) ==
  /\ At(j, "store") /\ job[j].hit # {} /\ ~Merges(j)
  /\ job[j].hit \cap Locked = {} /\ Fresh(conf, Cids) # {}
  /\ \E i \in job[j].hit :
       IF ~Exists(i) THEN End(j, "error") /\ UNCHANGED conf
       ELSE /\ End(j, "parked")
            /\ IF job[j].src = "manual" THEN UNCHANGED conf
               ELSE conf' = [conf EXCEPT ![Min(Fresh(conf, Cids))] =
                      [st |-> "open", ex |-> i, p |-> job[j].p, src |-> job[j].src, run |-> j]]
  /\ UNCHANGED <<ke, task>>

----------------------------------------------------------------------------
Resolutions == {"keep_existing", "replace", "merge_both", "manual_edit", "reject_both"}

\* resolve_conflict up to its writes: 404 and 409 end it, and so does 422 for
\* an edit that leaves the anchor.
Resolve(j, c, choice, edit) ==
  /\ At(j, "idle") /\ conf[c].st \in {"open", "resolved"}
  /\ IF conf[c].st = "resolved" \/ ~Exists(conf[c].ex)
        \/ (choice = "manual_edit" /\ edit.anchor # ke[conf[c].ex].p.anchor)
       THEN End(j, "invalid")
       ELSE job' = [job EXCEPT ![j] = [pc |-> "apply", c |-> c, choice |-> choice, edit |-> edit,
                 p |-> conf[c].p, ex |-> conf[c].ex, seen |-> ke[conf[c].ex]]]
  /\ UNCHANGED <<ke, conf, task>>

\* What the choice makes of the row, from what was read of it: a column that
\* was read with its new value is not written.
Resolved(now, seen, choice, edit, p) ==
  LET Becomes(st, sup, q) == [st |-> st, sup |-> sup, src |-> now.src, p |-> q, run |-> now.run] IN
  CASE choice = "replace" -> Becomes(now.st, now.sup \/ ~seen.sup, now.p)
    [] choice = "merge_both" -> Becomes(now.st, now.sup, MergedWith(seen.p, p))
    [] choice = "manual_edit" ->
         Becomes(IF seen.st = "canonical" THEN now.st ELSE "canonical", now.sup, edit)
    [] choice = "reject_both" ->
         Becomes(IF seen.st = "rejected" THEN now.st ELSE "rejected", now.sup, now.p)
    [] OTHER -> now

\* The writes of resolve_conflict and its commit.
Apply(j) ==
  /\ At(j, "apply")
  /\ LET q       == job[j]
         written == [ke EXCEPT ![q.ex] = Resolved(@, q.seen, q.choice, q.edit, q.p)]
     IN
     /\ q.ex \notin Locked
     /\ q.choice = "replace" => Fresh(ke, Ids) # {}
     /\ IF \/ conf[q.c].st = "deleted" \/ ~Exists(q.ex)
           \/ q.choice = "replace" /\ Holders(q.p.anchor) \ {q.ex} # {}
          THEN End(j, "error") /\ UNCHANGED <<ke, conf>>
          ELSE /\ ke' = IF q.choice # "replace" THEN written
                        ELSE [written EXCEPT ![Min(Fresh(ke, Ids))] =
                                Entry("proposed", conf[q.c].src, q.p, j)]
               /\ conf' = [conf EXCEPT ![q.c].st = "resolved"]
               /\ End(j, "resolved")
  /\ UNCHANGED <<task>>

\* A review elsewhere (api/audit.py, api/knowledge.py) approves, rejects or
\* deletes an entry; the deletion takes its conflicts with it.
Review(i) ==
  /\ Exists(i) /\ i \notin Locked
  /\ \/ ke[i].st = "proposed" /\ ke' = [ke EXCEPT ![i].st = "canonical"] /\ UNCHANGED conf
     \/ ke[i].st = "proposed" /\ ke' = [ke EXCEPT ![i].st = "rejected"] /\ UNCHANGED conf
     \/ /\ ke' = [ke EXCEPT ![i] = Gone]
        /\ conf' = [c \in Cids |-> IF Of(c, {i}) THEN Gone ELSE conf[c]]
  /\ UNCHANGED <<job, task>>

----------------------------------------------------------------------------
(* The refresh.  status is what _refresh_tasks says, pc where the coroutine *)
(* is.                                                                      *)

Goto(t, pc) == task' = [task EXCEPT ![t].pc = pc]
Finish(t, status) == task' = [task EXCEPT ![t] = [pc |-> "ended", status |-> status]]

\* refresh_terminology looks the namespace up ...
Ask(t) ==
  /\ task[t].pc = "none" /\ Goto(t, "asked")
  /\ UNCHANGED <<ke, conf, job>>

\* Mutant: whatever runs already.
BeginAnyway(t) ==
  /\ task[t].pc = "asked"
  /\ task' = [task EXCEPT ![t] = [pc |-> "purge", status |-> "running"]]
  /\ UNCHANGED <<ke, conf, job>>

\* ... then, in one go, finds a running refresh or starts its own.
Begin(t) ==
  /\ task[t].pc = "asked"
  /\ IF \E u \in Tasks : task[u].status = "running" THEN Finish(t, "refused")
     ELSE task' = [task EXCEPT ![t] = [pc |-> "purge", status |-> "running"]]
  /\ UNCHANGED <<ke, conf, job>>

SchemaTerms == {i \in Ids : Exists(i) /\ ke[i].src = "schema"}

\* Mutant: what a person has approved stays.
PurgeProposed(t) ==
  /\ task[t].pc = "purge"
  /\ LET doomed == {i \in SchemaTerms : ke[i].st # "canonical"} IN
     task' = [task EXCEPT ![t] = [pc |-> "clear", status |-> "running", doomed |-> doomed]]
  /\ UNCHANGED <<ke, conf, job>>

\* _purge_schema_terminology: the rows are locked ...
Purge(t) ==
  /\ task[t].pc = "purge"
  /\ task' = [task EXCEPT ![t] = [pc |-> "clear", status |-> "running", doomed |-> SchemaTerms]]
  /\ UNCHANGED <<ke, conf, job>>

\* ... and gone with the commit, as are the open conflicts with a candidate of
\* the schema.
Clear(t) ==
  /\ task[t].pc = "clear"
  /\ ke' = [i \in Ids |-> IF i \in task[t].doomed THEN Gone ELSE ke[i]]
  /\ conf' = [c \in Cids |->
       IF Of(c, task[t].doomed) \/ (conf[c].st = "open" /\ conf[c].src = "schema")
         THEN Gone ELSE conf[c]]
  /\ task' = [task EXCEPT ![t] = [pc |-> "extract", status |-> "running"]]
  /\ UNCHANGED <<job>>

\* A raw term is [word, syn, from]: the canonical objects the model named, in
\* its order.  Terms without one that exists are dropped, the first that exists
\* gives the anchor.
Named(raw) == SelectSeq(raw.from, LAMBDA a : a \in Described)
Routed(raws) == {[term |-> r.word, syn |-> r.syn, anchor |-> Head(Named(r))] :
                   r \in {x \in raws : Named(x) # <<>>}}

\* _dedup_by_term, when the model does not consolidate: sets of terms by word.
Deduped(raws) ==
  {LET same == {r \in raws : r.word = w} IN
   [word |-> w, syn |-> UNION {r.syn : r \in same},
    from |-> SetToSortSeq(UNION {ToSet(r.from) : r \in same}, LAMBDA a, b : a < b)] :
   w \in {r.word : r \in raws}}

\* refresh_namespace_terminology: raws are the terms of the batches that did
\* not fail, consolidated is what the model makes of them unless it fails too.
Extract(t, raws, model, consolidated) ==
  /\ task[t].pc = "extract"
  /\ IF Described = {} THEN Finish(t, "completed")
     ELSE IF raws = {} THEN Finish(t, "failed")
     ELSE task' = [task EXCEPT ![t] =
            [pc |-> "write", status |-> "running",
             todo |-> Routed(IF model THEN consolidated ELSE Deduped(raws))]]
  /\ UNCHANGED <<ke, conf, job>>

\* _upsert_terminology_ke: every term in a session of its own, through the gate;
\* whatever becomes of it the next one follows.
WriteTerm(t) ==
  /\ task[t].pc = "write"
  /\ \E p \in task[t].todo :
       Find(t, "schema", p) /\ task' = [task EXCEPT ![t].todo = @ \ {p}]
Written(t) ==
  /\ task[t].pc = "write" /\ job[t].pc \notin {"idle", "store"}
  /\ End(t, "idle")
  /\ UNCHANGED <<ke, conf, task>>
Complete(t) ==
  /\ task[t].pc = "write" /\ task[t].todo = {} /\ At(t, "idle")
  /\ Finish(t, "completed")
  /\ UNCHANGED <<ke, conf, job>>

\* An exception of the purge, which is then rolled back, or of the extraction.
RefreshFails(t) ==
  /\ task[t].pc \in {"purge", "clear", "extract"}
  /\ Finish(t, "failed")
  /\ UNCHANGED <<ke, conf, job>>

\* A restart ends every session and every refresh; _refresh_tasks is not kept.
Restart ==
  /\ \E t \in Tasks : task[t].status = "running"
  /\ task' = [t \in Tasks |-> IF task[t].status = "running"
                                THEN [pc |-> "ended", status |-> "lost"] ELSE task[t]]
  /\ job' = [j \in Jobs \cup Tasks |-> IF job[j].pc \in {"store", "apply"}
                                         THEN [pc |-> "error"] ELSE job[j]]
  /\ UNCHANGED <<ke, conf>>

\* The channels of people and agents; _write_terminology_ke of a parse run is
\* one too, with source schema.
Request(j) ==
  \/ \E src \in {"manual", "agent_learn", "schema"}, p \in Payloads :
       Find(j, src, p) /\ UNCHANGED task
  \/ \E c \in Cids, choice \in Resolutions, edit \in Payloads :
       (choice # "manual_edit" => edit = CHOOSE p \in Payloads : TRUE) /\ Resolve(j, c, choice, edit)
  \/ Apply(j)

Gate(j) == Create(j) \/ Merge(j) \/ Park(j)

Refresh(t) ==
  \/ Ask(t) \/ Begin(t) \/ Purge(t) \/ Clear(t)
  \/ \E raws, c \in SUBSET RawTerms, model \in BOOLEAN : (model \/ c = {}) /\ Extract(t, raws, model, c)
  \/ WriteTerm(t) \/ Written(t) \/ Complete(t) \/ RefreshFails(t)

Next ==
  \/ \E j \in Jobs : Request(j)
  \/ \E j \in Jobs \cup Tasks : Gate(j)
  \/ \E i \in Ids : Review(i)
  \/ \E t \in Tasks : Refresh(t)
  \/ Restart

Spec == Init /\ [][Next]_vars

----------------------------------------------------------------------------
Runs(S) == {r.run : r \in S} \cap (Tasks \cup {"old"})

\* The terms that refreshes wrote are those of one refresh: a second one does
\* not start beside it, and what an earlier one left, reviewed or not, as an
\* entry or as an open conflict, is gone before the first new term is written.
OneGeneration ==
  Cardinality(Runs({ke[i] : i \in SchemaTerms}
                   \cup {conf[c] : c \in {x \in Cids : conf[x].st = "open"
                                                     /\ conf[x].src = "schema"}})) <= 1

\* knowledge/terminology_intake.py: a candidate whose anchor is taken by another
\* term is recorded as a conflict, and the endpoint says it is pending.
RefusedIsPending ==
  \A j \in Jobs : At(j, "parked") =>
    \E c \in Cids : conf[c].st = "deleted" \/ (conf[c].st # "none" /\ conf[c].run = j)
=============================================================================
