----------------------------- MODULE Knowledge -----------------------------
(***************************************************************************)
(* Knowledge entries and the two caches derived from them: the vectors of  *)
(* ChromaDB and the term automaton.  The endpoints of api/knowledge.py and *)
(* api/audit.py, the sweeps of jobs/knowledge_decay.py and                 *)
(* knowledge/auto_expire.py, and the deletion of a namespace, which goes   *)
(* through knowledge/bulk_guard.py.                                        *)
(*                                                                         *)
(* A handler loads its entries without locking them and decides everything *)
(* from what it loaded: its plan is what it will write and the steps that  *)
(* follow, each of which starts at an await.  The session writes the       *)
(* columns it changed, by primary key, over whatever the row holds by then.*)
(***************************************************************************)
EXTENDS Naturals, Sequences

CONSTANTS
  Entries,   \* knowledge entries of one namespace
  Requests,  \* requests and sweeps, each carried out once
  TypeOf,    \* entry_type; "rule" stands for route_hint as well
  Related,   \* entry -> {[to, rel]}: the relations found when it was proposed
  Doomed,    \* entries of another namespace, one that may be deleted
  Menu,      \* what a request may ask for
  Restarts,  \* how often the process may be restarted
  Missing,   \* the automaton's cache holds nothing for the namespace
  Automaton  \* the automaton, as a member of desynced

Types    == {"terminology", "rule", "example", "alias"}
Statuses == {"proposed", "canonical", "superseded", "rejected"}
Terminal == {"superseded", "rejected"}
Tiers    == {"normal", "critical"}
Versions == {"v0"} \cup Requests   \* the text a request wrote

ASSUME TypeOfAssumption == TypeOf \in [Entries -> Types]
ASSUME RelatedAssumption ==
  Related \in [Entries -> SUBSET [to : Entries,
                                  rel : {"equivalent", "supplement", "conflict"}]]
\* What the endpoints and the sweeps accept; a PATCH has no payload.
Jobs ==
  LET Tier == Tiers \cup {"same"}
  IN [op : {"reject", "restore", "supersede", "soft", "hard"}, e : Entries]
     \cup [op : {"create", "save"}, e : Entries, tier : Tiers]
     \cup [op : {"approve"}, e : Entries, ids : SUBSET Entries, tier : Tier,
           what : {"none", "content", "payload"}]
     \cup [op : {"patch"}, e : Entries, st : Statuses \cup {"same"}, tier : Tier,
           what : {"none", "content"}]
     \cup [op : {"edit"}, e : Entries, tier : Tier,
           what : {"none", "content", "payload"}, hq : BOOLEAN]
     \cup [op : {"batch"}, yes : SUBSET Entries, no : SUBSET Entries, ids : SUBSET Entries]
     \cup [op : {"decay", "expire"}, on : SUBSET Entries]
     \cup [op : {"purge"}]

ASSUME MenuAssumption == Menu \subseteq Jobs /\ Doomed \subseteq Entries
ASSUME NoneAssumption == Automaton \notin Entries /\ "none" \notin Requests

VARIABLES
  row,       \* knowledge_entries, as committed; st = "absent" without a row
  human,     \* entries with an approve or edit audit row of a person
  vec,       \* the text the entry's vectors were made of, "none" without any
  cache,     \* the automaton: the terms it was built from
  req,       \* the requests
  restarts,  \* restarts left
  desynced   \* history: entries (or Automaton) that something the code does not
             \* synchronise has touched, see Unsynced and Load, and those a write
             \* failed for, see Writes and WriteCache

vars == <<row, human, vec, cache, req, restarts, desynced>>

Terms(S) == {e \in S : TypeOf[e] = "terminology"}
HqTypes  == {"rule", "example"}
Exists(e) == row[e].st # "absent"

\* What ChromaDB and the automaton should hold for a row.
Recalled(w) == IF w.st = "canonical" /\ w.tier = "normal" THEN w.ver ELSE "none"
Known(rows) == {<<e, rows[e].ver>> : e \in {x \in Terms(Entries) :
                                        rows[x].st = "canonical" /\ ~rows[x].sup}}

\* Entries that are in some state of the review, with caches that agree.
Init ==
  /\ row \in [Entries -> {w \in [st : Statuses \cup {"absent"}, sup : BOOLEAN,
                                 tier : Tiers, ver : {"v0"}] :
                /\ w.sup = (w.st = "superseded")
                /\ w.st = "absent" => w.tier = "normal"}]
  /\ human \in SUBSET {e \in Entries : row[e].st = "canonical"}
  /\ vec = [e \in Entries |-> Recalled(row[e])]
  /\ cache = Known(row)
  /\ req = [r \in Requests |-> [pc |-> "idle"]]
  /\ restarts = Restarts
  /\ desynced = {}

----------------------------------------------------------------------------
(* Plans.  must: rows whose absence makes the commit fail (an UPDATE of a  *)
(* missing row, an audit row without its entry).                           *)

Step(do, S)  == <<[do |-> do, on |-> S]>>
Nothing      == [e \in {} |-> "absent"]
Plan(want, erase, by, todo) ==
  [want |-> want, erase |-> erase, human |-> by, todo |-> todo,
   must |-> DOMAIN want \cup erase \cup by]
Refused      == Plan(Nothing, {}, {}, <<>>)
Only(e, w)   == [x \in {e} |-> w]
Pick(new, old) == IF new = "same" THEN old ELSE new

\* automaton_invalidate_safe: only for terms; clears every namespace, then
\* reads and writes each of them.
Rebuild(S) ==
  IF Terms(S) = {} THEN <<>>
  ELSE Step("clear", {}) \o Step("read", {}) \o Step("write", {})

Edited(w, tier, ver) == [w EXCEPT !.tier = Pick(tier, @), !.ver = ver]
\* The vectors of a term are made of its payload, the others of the content.
NewText(e, what, old, r) ==
  IF what = (IF TypeOf[e] = "terminology" THEN "payload" ELSE "content")
    THEN r ELSE old.ver

\* create_knowledge: an entry starts as a proposal.
Create(j, old, r) ==
  IF old[j.e].st # "absent" THEN Refused
  ELSE [Plan(Only(j.e, [st |-> "proposed", sup |-> FALSE, tier |-> j.tier, ver |-> r]),
             {}, {}, Step("commit", {}) \o Step("refresh", {j.e})
                     \o Step("upsert", {j.e} \ Terms({j.e})))
          EXCEPT !.must = {}]

\* save_knowledge, the agent's tool: the entry waits for its review.  Terms take
\* another way (module Terminology); the relations are those of Related.
Save(j, old, r) ==
  IF old[j.e].st # "absent" \/ TypeOf[j.e] = "terminology" THEN Refused
  ELSE [Plan(Only(j.e, [st |-> "proposed", sup |-> FALSE, tier |-> j.tier, ver |-> r]),
             {}, {}, Step("commit", {}))
          EXCEPT !.must = {}]

\* The entries approve takes out of the canon: the ones the reviewer named and
\* the ones the agent found equivalent or in conflict when it saved the entry.
Named(ids, old) == {o \in ids : old[o].st = "canonical"}
Found(e, rels, old, but) ==
  {x.to : x \in {y \in Related[e] : y.rel \in rels /\ old[y.to].st = "canonical"}} \ but
Superseding(old, S) == [x \in S |-> [old[x] EXCEPT !.st = "superseded", !.sup = TRUE]]
Rejecting(old, S)   == [x \in S |-> [old[x] EXCEPT !.st = "rejected"]]
Over(f, g) == [x \in DOMAIN f \cup DOMAIN g |-> IF x \in DOMAIN f THEN f[x] ELSE g[x]]

Approve(j, old, r) ==
  LET e      == j.e
      mine   == Only(e, [Edited(old[e], j.tier, NewText(e, j.what, old[e], r))
                           EXCEPT !.st = "canonical"])
      named  == Named(j.ids, old)
      equal  == Found(e, {"equivalent"}, old, named)
      beaten == Found(e, {"conflict"}, old, named \cup equal)
      gone   == {x.to : x \in {y \in Related[e] : y.rel # "supplement"
                                                  /\ old[y.to].st \in Terminal}}
  IN IF old[e].st # "proposed" THEN Refused
     ELSE Plan(Over(mine, Over(Superseding(old, named \cup equal), Rejecting(old, beaten))),
               {}, {e} \cup Found(e, {"supplement"}, old, named),
               Step("commit", {}) \o Step("refresh", {e})
               \o Step(IF TypeOf[e] \in HqTypes THEN "hq" ELSE "upsert", {e})
               \o Step("delete", equal \cup beaten \cup gone \cup named)
               \o Rebuild({e}))

\* Mutant: a rejected term is left in the automaton.
RejectWithoutRebuild(j, old, r) ==
  IF old[j.e].st \notin {"proposed", "canonical"} THEN Refused
  ELSE Plan(Rejecting(old, {j.e}), {}, {},
            Step("commit", {}) \o Step("refresh", {j.e}) \o Step("delete", {j.e}))

Reject(j, old, r) ==
  LET e == j.e IN
  IF old[e].st \notin {"proposed", "canonical"} THEN Refused
  ELSE Plan(Rejecting(old, {e}), {}, {},
            Step("commit", {}) \o Step("refresh", {e})
            \o IF old[e].st = "canonical" THEN Step("delete", {e}) \o Rebuild({e}) ELSE <<>>)

\* One transaction; nothing is refreshed, hypothetical questions and relations
\* are left alone.
Batch(j, old, r) ==
  LET named == Named(j.ids, old)
      out   == {e \in j.no : old[e].st = "canonical"} \cup named
  IN IF (\E e \in j.yes : old[e].st # "proposed")
        \/ (\E e \in j.no : old[e].st \notin {"proposed", "canonical"}) THEN Refused
     ELSE Plan(Over([e \in j.yes |-> [old[e] EXCEPT !.st = "canonical"]],
                    Over(Rejecting(old, j.no), Superseding(old, named))),
               {}, j.yes,
               Step("commit", {}) \o Step("upsert", j.yes) \o Step("delete", out)
               \o Rebuild(j.yes \cup out))

Restore(j, old, r) ==
  LET e == j.e IN
  IF old[e].st # "rejected" THEN Refused
  ELSE Plan(Only(e, [old[e] EXCEPT !.st = "canonical"]), {}, {},
            Step("commit", {}) \o Step("refresh", {e}) \o Step("upsert", {e}) \o Rebuild({e}))

Supersede(j, old, r) ==
  LET e == j.e IN
  IF old[e].st = "absent" THEN Refused
  ELSE Plan(Superseding(old, {e}), {}, {},
            Step("commit", {}) \o Step("refresh", {e}) \o Step("delete", {e}) \o Rebuild({e}))

\* Mutant: the vectors of a soft-deleted entry are kept.
SoftDeleteKeepsVectors(j, old, r) ==
  IF old[j.e].st # "canonical" THEN Refused
  ELSE Plan(Rejecting(old, {j.e}), {}, {}, Step("commit", {}) \o Rebuild({j.e}))

\* A proposal is removed, a canonical entry rejected; its vectors go first.
SoftDelete(j, old, r) ==
  LET e == j.e IN
  CASE old[e].st = "proposed"  -> Plan(Nothing, {e}, {}, Step("commit", {}))
    [] old[e].st = "canonical" -> Plan(Rejecting(old, {e}), {}, {},
                                       Step("delete", {e}) \o Step("commit", {}) \o Rebuild({e}))
    [] OTHER -> Refused

HardDelete(j, old, r) ==
  LET e == j.e IN
  IF old[e].st = "absent" THEN Refused
  ELSE Plan(Nothing, {e}, {},
            Step("delete", {e}) \o Step("commit", {})
            \o IF old[e].st = "canonical" THEN Rebuild({e}) ELSE <<>>)

\* No guard on the status and no audit row.
Patch(j, old, r) ==
  LET e == j.e IN
  IF old[e].st = "absent" THEN Refused
  ELSE Plan(Only(e, [Edited(old[e], j.tier, NewText(e, j.what, old[e], r))
                       EXCEPT !.st = Pick(j.st, @)]),
            {}, {}, Step("commit", {}) \o Step("refresh", {e}) \o Step("sync", {e}))

Edit(j, old, r) ==
  LET e == j.e IN
  IF old[e].st \notin {"canonical", "proposed", "superseded"} THEN Refused
  ELSE Plan(Only(e, Edited(old[e], j.tier, NewText(e, j.what, old[e], r))), {}, {},
            Step("commit", {}) \o Step("refresh", {e}) \o Step("sync", {e})
            \o Step("hq", {e}) \o Step("audit", {e}))

\* sweep_once: which entries are stale is a matter of counters.
Decay(j, old, r) ==
  LET S == {e \in j.on : old[e].st = "canonical" /\ e \notin human} IN
  Plan(Superseding(old, S), {}, {}, Step("delete", S) \o Step("commit", {}))

Expire(j, old, r) ==
  LET S == {e \in j.on : old[e].st = "proposed"} IN
  Plan(Rejecting(old, S), {}, {}, Step("commit", {}))

\* The guard's candidates, with full_purge: nobody is protected.
Candidates(old) == {e \in Doomed : old[e].st # "absent"}

\* delete_namespace: the audit row has no entry, and the automatons of all
\* namespaces are forgotten, not rebuilt.
Purge(j, old, r) ==
  [Plan(Nothing, Candidates(old), {},
        Step("commit", {}) \o Step("delete", Doomed) \o Step("clear", {}))
     EXCEPT !.must = {}]

PlanOf(j, old, r) ==
  CASE j.op = "create"    -> Create(j, old, r)
    [] j.op = "save"      -> Save(j, old, r)
    [] j.op = "approve"   -> Approve(j, old, r)
    [] j.op = "reject"    -> Reject(j, old, r)
    [] j.op = "batch"     -> Batch(j, old, r)
    [] j.op = "restore"   -> Restore(j, old, r)
    [] j.op = "supersede" -> Supersede(j, old, r)
    [] j.op = "soft"      -> SoftDelete(j, old, r)
    [] j.op = "hard"      -> HardDelete(j, old, r)
    [] j.op = "patch"     -> Patch(j, old, r)
    [] j.op = "edit"      -> Edit(j, old, r)
    [] j.op = "decay"     -> Decay(j, old, r)
    [] j.op = "expire"    -> Expire(j, old, r)
    [] j.op = "purge"     -> Purge(j, old, r)

----------------------------------------------------------------------------
(* What the code leaves out of step with the rows, for a request that runs *)
(* alone: known gaps, and the reason the properties exempt what they touch.*)

HqRuns(j, was) ==
  /\ TypeOf[j.e] \in HqTypes
  /\ \/ j.op = "approve"
     \/ j.op = "edit" /\ (j.hq \/ (j.what = "content" /\ was.st = "canonical"))

UnsyncedEntries(j, p, old) ==
  IF j.op \notin {"approve", "patch", "edit"} \/ p.todo = <<>> THEN {}
  ELSE LET was == old[j.e]
           new == p.want[j.e]
       IN {e \in {j.e} :
             \* hq_writer asks neither for the status nor for the tier
             \/ HqRuns(j, was) /\ Recalled(new) = "none"
             \* PATCH and PUT leave rules to hq_writer, which does not always run
             \/ /\ TypeOf[e] = "rule" /\ j.op # "approve" /\ ~HqRuns(j, was)
                /\ Recalled(new) # Recalled(was)
             \* PUT looks at the content only, a term's vectors are its payload's
             \/ /\ TypeOf[e] = "terminology" /\ j.op = "edit"
                /\ j.what = "payload" /\ new.tier = was.tier}

UnsyncedAutomaton(j, p, old) ==
  \/ j.op = "purge"
  \/ p.todo # <<>> /\ j.op = "decay" /\ Terms(DOMAIN p.want) # {}
  \* only the type of the approved entry is looked at
  \/ /\ j.op = "approve" /\ p.todo # <<>>
     /\ Terms({j.e}) = {} /\ Terms(DOMAIN p.want) # {}
  \/ /\ j.op \in {"patch", "edit"} /\ p.todo # <<>> /\ Terms({j.e}) # {}
     /\ \/ j.e \in UnsyncedEntries(j, p, old)
        \* a critical term enters the canon: no vectors to write, so no rebuild
        \/ /\ j.op = "patch" /\ j.what # "content"
           /\ p.want[j.e].st = "canonical" /\ old[j.e].st # "canonical"
           /\ p.want[j.e].tier = "critical" /\ old[j.e].tier = "critical"

Unsynced(j, p, old) ==
  UnsyncedEntries(j, p, old)
    \cup (IF UnsyncedAutomaton(j, p, old) THEN {Automaton} ELSE {})

----------------------------------------------------------------------------
Busy    == {r \in Requests : req[r].pc = "busy"}
At(r, do) == r \in Busy /\ req[r].todo # <<>> /\ Head(req[r].todo).do = do
On(r)   == Head(req[r].todo).on
End(r, how) == req' = [req EXCEPT ![r] = [pc |-> how]]

\* A request that fails leaves what it touched as it is: the steps after the
\* failing one are not taken.
Lost(r) == req[r].on \cup {a \in {Automaton} : Terms(req[r].on) # {}}
Fail(r) == End(r, "failed") /\ desynced' = desynced \cup Lost(r)

\* req[r] after its next step: w is what it holds of the rows, todo what is left.
Proceed(r, w, todo) ==
  req' = [req EXCEPT ![r] = IF todo = <<>> THEN [pc |-> "done"]
                            ELSE [@ EXCEPT !.seen = w, !.todo = todo]]
GoOn(r) == Proceed(r, req[r].seen, Tail(req[r].todo))

\* db.get of every entry the handler looks at, and its guards.  Requests that
\* share an entry (or terms, hence the automaton) while they run are not kept
\* in step with each other by anything: what they share is exempt.
Load(r, j) ==
  LET p  == PlanOf(j, row, r)
      S  == p.must \cup DOMAIN p.want \cup UNION {p.todo[i].on : i \in DOMAIN p.todo}
  IN /\ req[r].pc = "idle"
     /\ IF p.todo = <<>> THEN /\ End(r, "refused")
                              /\ UNCHANGED desynced
        ELSE /\ req' = [req EXCEPT ![r] =
                          [pc |-> "busy", job |-> j, old |-> row, plan |-> p,
                           todo |-> p.todo, seen |-> row, read |-> {}, on |-> S]]
             /\ desynced' = desynced \cup Unsynced(j, p, row)
                  \cup (UNION {S \cap req[o].on : o \in Busy})
                  \cup {a \in {Automaton} :
                          Terms(S) # {} /\ \E o \in Busy : Terms(req[o].on) # {}}
     /\ UNCHANGED <<row, human, vec, cache, restarts>>

\* No row, as a value.
Gone == [st |-> "absent", sup |-> FALSE, tier |-> "normal", ver |-> "v0"]

\* A column is written when the handler changed it; the rest of the row stays.
Merged(now, old, want) ==
  IF now.st = "absent" THEN want
  ELSE [c \in DOMAIN want |-> IF want[c] = old[c] THEN now[c] ELSE want[c]]

Commit(r) ==
  /\ At(r, "commit")
  /\ LET p == req[r].plan IN
     IF \E e \in p.must : ~Exists(e)
       THEN /\ Fail(r)
            /\ UNCHANGED <<row, human>>
       ELSE /\ row' = [e \in Entries |->
                         IF e \in p.erase THEN Gone
                         ELSE IF e \in DOMAIN p.want
                           THEN Merged(row[e], req[r].old[e], p.want[e])
                         ELSE row[e]]
            /\ human' = (human \cup p.human) \ p.erase
            /\ Proceed(r, [e \in Entries |-> IF e \in DOMAIN p.want THEN p.want[e]
                                             ELSE req[r].seen[e]],
                       Tail(req[r].todo))
            /\ UNCHANGED desynced
  /\ UNCHANGED <<vec, cache, restarts>>

\* db.refresh; a row that is gone is an error.
Refresh(r) ==
  /\ At(r, "refresh")
  /\ IF \A e \in On(r) : Exists(e)
       THEN Proceed(r, [e \in Entries |-> IF e \in On(r) THEN row[e] ELSE req[r].seen[e]],
                    Tail(req[r].todo)) /\ UNCHANGED desynced
       ELSE Fail(r)
  /\ UNCHANGED <<row, human, vec, cache, restarts>>

\* upsert_knowledge_entry: what is not recalled is not written, and only the
\* vectors of a term are deleted first.
Upserted(e, w) ==
  IF Recalled(w) # "none" THEN Recalled(w)
  ELSE IF TypeOf[e] = "terminology" THEN "none" ELSE vec[e]

\* Vectors are written at best effort: each entry's failure is logged and the
\* handler goes on, with the vectors as they were or, where the old ones are deleted
\* first, without any.  Entries left with other vectors than wanted are exempt.
Writes(wanted, deletesFirst) ==
  LET S == DOMAIN wanted IN
  \E failed \in SUBSET S : \E bare \in SUBSET (failed \cap deletesFirst) :
    /\ vec' = [e \in Entries |-> IF e \in bare THEN "none"
                                 ELSE IF e \in S \ failed THEN wanted[e] ELSE vec[e]]
    /\ desynced' = desynced \cup {e \in S : vec'[e] # wanted[e]}

Upsert(r) ==
  /\ At(r, "upsert")
  /\ Writes([e \in On(r) |-> Upserted(e, req[r].seen[e])], Terms(On(r)))
  /\ GoOn(r)
  /\ UNCHANGED <<row, human, cache, restarts>>

Delete(r) ==
  /\ At(r, "delete")
  /\ Writes([e \in On(r) |-> "none"], {})
  /\ GoOn(r)
  /\ UNCHANGED <<row, human, cache, restarts>>

\* _sync_chromadb_after_patch, by what the row was and what it is now: vectors are
\* deleted, or written, or left; hq_writer has those of rules.
Drops(was, now) ==
  \/ now.tier # was.tier /\ now.tier = "critical"
  \/ was.st = "canonical" /\ now.st # "canonical"
Puts(j, was, now) ==
  /\ now.st = "canonical" /\ now.tier = "normal"
  /\ was.st # "canonical" \/ was.tier = "critical" \/ j.what = "content"
Synced(j, was, now) ==
  IF TypeOf[j.e] = "rule" THEN vec[j.e]
  ELSE IF Drops(was, now) THEN "none"
  ELSE IF Puts(j, was, now) THEN Upserted(j.e, now)
  ELSE vec[j.e]

\* The automaton is rebuilt if vectors change or the text has changed.
Rebuilds(j, was, now) == Drops(was, now) \/ Puts(j, was, now) \/ j.what = "content"

Sync(r) ==
  LET j   == req[r].job
      was == req[r].old[j.e]
      now == req[r].seen[j.e]
  IN /\ At(r, "sync")
     /\ Writes(Only(j.e, Synced(j, was, now)),
               IF Puts(j, was, now) THEN Terms({j.e}) ELSE {})
     /\ Proceed(r, req[r].seen, (IF Rebuilds(j, was, now) THEN Rebuild({j.e}) ELSE <<>>)
                                 \o Tail(req[r].todo))
     /\ UNCHANGED <<row, human, cache, restarts>>

\* rewrite_hq_for_entry; its UPDATE fails when the row is gone.  The questions may
\* not be found, or the vectors not be written: that is logged.
Hq(r) ==
  LET e == CHOOSE x \in On(r) : TRUE IN
  /\ At(r, "hq")
  /\ IF ~HqRuns(req[r].job, req[r].seen[e]) THEN GoOn(r) /\ UNCHANGED <<vec, desynced>>
     ELSE IF Exists(e) THEN GoOn(r) /\ Writes(Only(e, req[r].seen[e].ver), {e})
     ELSE Fail(r) /\ UNCHANGED vec
  /\ UNCHANGED <<row, human, cache, restarts>>

Audit(r) ==
  /\ At(r, "audit")
  /\ IF \A e \in On(r) : Exists(e)
       THEN GoOn(r) /\ human' = human \cup On(r) /\ UNCHANGED desynced
       ELSE Fail(r) /\ UNCHANGED human
  /\ UNCHANGED <<row, vec, cache, restarts>>

Clear(r) ==
  /\ At(r, "clear")
  /\ cache' = Missing
  /\ GoOn(r)
  /\ UNCHANGED <<row, human, vec, restarts, desynced>>

ReadTerms(r) ==
  /\ At(r, "read")
  /\ req' = [req EXCEPT ![r].read = Known(row), ![r].todo = Tail(@)]
  /\ UNCHANGED <<row, human, vec, cache, restarts, desynced>>

\* automaton_invalidate_safe logs a read or a build that fails and goes on: the
\* automaton stays forgotten.  A session whose read failed has no more statements,
\* so a request with an audit row still to write fails with it.
WriteCache(r) ==
  /\ At(r, "write")
  /\ \/ cache' = req[r].read /\ GoOn(r) /\ UNCHANGED desynced
     \/ GoOn(r) /\ desynced' = desynced \cup {Automaton} /\ UNCHANGED cache
     \/ Tail(req[r].todo) # <<>> /\ Fail(r) /\ UNCHANGED cache
  /\ UNCHANGED <<row, human, vec, restarts>>

\* The process stops and starts: what was under way is lost, the automatons are
\* built anew (init_all_automatons; a start that cannot does not serve), the vectors
\* stay as they are.
Restart ==
  /\ restarts > 0
  /\ restarts' = restarts - 1
  /\ req' = [r \in Requests |-> IF r \in Busy THEN [pc |-> "failed"] ELSE req[r]]
  /\ cache' = Known(row)
  /\ desynced' = (desynced \cup UNION {req[r].on : r \in Busy}) \ {Automaton}
  /\ UNCHANGED <<row, human, vec>>

Next ==
  \/ \E r \in Requests :
       \/ \E j \in Menu : Load(r, j)
       \/ Commit(r) \/ Refresh(r) \/ Upsert(r) \/ Delete(r) \/ Sync(r) \/ Hq(r)
       \/ Audit(r) \/ Clear(r) \/ ReadTerms(r) \/ WriteCache(r)
  \/ Restart

Spec == Init /\ [][Next]_vars

----------------------------------------------------------------------------
TypeOK ==
  /\ \A e \in Entries : /\ row[e].st \in Statuses \cup {"absent"}
                        /\ row[e].sup \in BOOLEAN
                        /\ row[e].tier \in Tiers
                        /\ row[e].ver \in Versions
  /\ human \subseteq Entries
  /\ vec \in [Entries -> Versions \cup {"none"}]
  /\ cache = Missing \/ cache \subseteq Terms(Entries) \X Versions
  /\ \A r \in Requests : req[r].pc \in {"idle", "busy", "done", "failed", "refused"}
  /\ desynced \subseteq Entries \cup {Automaton}

\* When no request is under way, ChromaDB holds for an entry exactly what its
\* row says: canonical entries of the normal tier with the text they have now,
\* nothing of proposals, of critical entries and of what was superseded,
\* rejected or deleted - whatever chain of reviews, edits, deletions, sweeps,
\* relations between entries and restarts led there.  Only entries that are in
\* desynced may differ: a write that failed spoils the vectors of its own entry alone.
VectorsFollowRows ==
  Busy = {} => \A e \in Entries \ desynced : vec[e] = Recalled(row[e])

\* Likewise the automaton: it knows the canonical terms and their present text,
\* so a question is never matched against a term that was taken back - unless a
\* rebuild failed, which leaves no automaton until the next one.
AutomatonFollowsRows ==
  Busy = {} /\ Automaton \notin desynced => cache = Known(row)

============================================================================
