------------------------------ MODULE Registry ------------------------------
(***************************************************************************)
(* Model configurations: the rows the administrators manage                *)
(* (api/model_config.py) and the process-wide registry that serves them to *)
(* every model call (engine/model_registry.py).                            *)
(*                                                                         *)
(* A configuration belongs to a group: "global", a namespace, or           *)
(* "embedding".  Its settings are a version; versions that share a key     *)
(* differ only in what the registry leaves out of its cache key, the path  *)
(* and the proxy.  An endpoint reads its row, commits and only then        *)
(* changes the registry, and endpoints overlap.  Calls run in threads.     *)
(***************************************************************************)
EXTENDS Naturals, FiniteSets

CONSTANTS
  Ids,      \* model_configs rows
  Namespaces,
  GroupOf,  \* Ids -> {"global", "embedding"} \cup Namespaces
  Vers,     \* settings a row may be given
  KeyOf,    \* Vers -> (protocol, api_key, base_url)
  Admins,   \* requests of administrators that may be under way together
  Calls,    \* model calls under way together
  MaxRequests  \* bound: requests that change or activate a row

VARIABLES
  rows,     \* [ver, active, deleted] by row, ver = 0: not yet added
  reqs,     \* administrators' requests
  slots,    \* _chat_configs and _embedding_config: [id, ver]
  clients,  \* _chat_clients and _embedding_client: what each was built from
  calls,    \* [stage, cfg, client] by call
  embedder, \* the settings embedding._instance was made with
  begun,    \* requests begun so far
  raced,    \* history: groups two requests overlapped on
  unloaded, \* history: groups in use the last start did not load
  embedded  \* history: versions texts were embedded with

vars == <<rows, reqs, slots, clients, calls, embedder, begun, raced, unloaded, embedded>>

Nothing == [id |-> 0, ver |-> 0]
Groups  == {"global", "embedding"} \cup Namespaces
NoReq   == [kind |-> "none", id |-> 0, ver |-> 0, saw |-> FALSE, others |-> {},
            stage |-> "idle", cfg |-> Nothing]
NoCall  == [stage |-> "idle", cfg |-> Nothing, client |-> Nothing]

Init ==
  /\ rows = [i \in Ids |-> [ver |-> 0, active |-> FALSE, deleted |-> FALSE]]
  /\ reqs = [a \in Admins |-> NoReq]
  /\ slots = [g \in Groups |-> Nothing] /\ clients = [g \in Groups |-> Nothing]
  /\ calls = [c \in Calls |-> NoCall]
  /\ embedder = Nothing /\ begun = 0 /\ raced = {} /\ unloaded = {} /\ embedded = {}

Live(i)       == rows[i].ver # 0 /\ ~rows[i].deleted
InUse(r, g)   == {i \in Ids : GroupOf[i] = g /\ r[i].active /\ ~r[i].deleted}
Row(i)        == [id |-> i, ver |-> rows[i].ver]
Embedding(i)  == GroupOf[i] = "embedding"

----------------------------------------------------------------------------
(* Administrators *)

\* add_config
Add(i, v) ==
  /\ rows[i].ver = 0
  /\ rows' = [rows EXCEPT ![i].ver = v]
  /\ UNCHANGED <<reqs, slots, clients, calls, embedder, begun, raced, unloaded, embedded>>

\* Mutant: the configuration texts are embedded with may be edited.
AllowedAlways(kind, i) == kind = "activate" /\ Embedding(i) => InUse(rows, "embedding") \subseteq {i}

\* What is embedded stays comparable only as long as the model stays.
Allowed(kind, i) ==
  Embedding(i) => IF kind = "activate" THEN InUse(rows, "embedding") \subseteq {i}
                  ELSE ~rows[i].active

\* The reads of update_config, delete_config and activate_config.
Begin(a, kind, i, v) ==
  /\ reqs[a].stage = "idle" /\ Live(i)
  /\ Allowed(kind, i)
  /\ begun < MaxRequests /\ begun' = begun + 1
  /\ reqs' = [reqs EXCEPT ![a] =
       [kind |-> kind, id |-> i, ver |-> v, saw |-> rows[i].active, stage |-> "read",
        others |-> IF kind = "activate" THEN InUse(rows, GroupOf[i]) \ {i} ELSE {},
        cfg |-> Nothing]]
  /\ raced' = raced \cup {g \in {GroupOf[i]} :
                            \E b \in Admins : reqs[b].stage # "idle" /\ GroupOf[reqs[b].id] = g}
  /\ UNCHANGED <<rows, slots, clients, calls, embedder, unloaded, embedded>>

\* Only what the request changed of the row it had read is written.
RowWritten(q, i) ==
  CASE i = q.id /\ q.kind = "update"    -> [rows[i] EXCEPT !.ver = q.ver]
    [] i = q.id /\ q.kind = "activate"  -> [rows[i] EXCEPT !.active = @ \/ ~q.saw]
    [] i = q.id /\ q.kind = "delete"    -> [rows[i] EXCEPT !.deleted = TRUE, !.active = @ /\ ~q.saw]
    [] i # q.id /\ i \in q.others       -> [rows[i] EXCEPT !.active = FALSE]
    [] i # q.id /\ i \notin q.others    -> rows[i]

Written(q) == [i \in Ids |-> RowWritten(q, i)]

\* Mutant: the index lets a group have two (NULL namespaces are distinct).
UniqueNot(r, g) == g = "global" \/ Cardinality(InUse(r, g)) <= 1

\* uq_model_configs_one_active_per_type, with NULLS NOT DISTINCT.
Unique(r, g) == Cardinality(InUse(r, g)) <= 1

Commit(a) ==
  /\ reqs[a].stage = "read"
  /\ LET q == reqs[a]  r == Written(q) IN
     IF Unique(r, GroupOf[q.id])
       THEN /\ rows' = r
            /\ reqs' = [reqs EXCEPT ![a] =
                 CASE q.kind # "delete" -> [q EXCEPT !.stage = "saved"]
                   [] q.kind = "delete" /\ q.saw  -> [q EXCEPT !.stage = "fresh"]
                   [] q.kind = "delete" /\ ~q.saw -> NoReq]
       ELSE reqs' = [reqs EXCEPT ![a] = NoReq] /\ UNCHANGED rows
  /\ UNCHANGED <<slots, clients, calls, embedder, begun, raced, unloaded, embedded>>

\* Mutant: only an activation reaches the registry.
RereadActivated(a) ==
  /\ reqs[a].stage = "saved"
  /\ LET q == reqs[a] IN
     reqs' = [reqs EXCEPT ![a] = IF q.kind = "activate"
                                   THEN [q EXCEPT !.stage = "fresh", !.cfg = Row(q.id)]
                                   ELSE NoReq]
  /\ UNCHANGED <<rows, slots, clients, calls, embedder, begun, raced, unloaded, embedded>>

\* db.refresh(row); an update goes on only if the row is active now.
Reread(a) ==
  /\ reqs[a].stage = "saved"
  /\ LET q == reqs[a] IN
     reqs' = [reqs EXCEPT ![a] = IF q.kind = "activate" \/ rows[q.id].active
                                   THEN [q EXCEPT !.stage = "fresh", !.cfg = Row(q.id)]
                                   ELSE NoReq]
  /\ UNCHANGED <<rows, slots, clients, calls, embedder, begun, raced, unloaded, embedded>>

\* refresh_chat, refresh_embedding: the client of the slot goes too.
Refresh(a) ==
  /\ reqs[a].stage = "fresh"
  /\ LET g == GroupOf[reqs[a].id] IN
     /\ slots' = [slots EXCEPT ![g] = reqs[a].cfg] /\ clients' = [clients EXCEPT ![g] = Nothing]
     /\ unloaded' = unloaded \ {g}
  /\ reqs' = [reqs EXCEPT ![a] = NoReq]
  /\ UNCHANGED <<rows, calls, embedder, begun, raced, embedded>>

\* The process ends and starts: load_from_db.  An exception, be it of the database
\* or of a key that cannot be decrypted, is caught, and the groups in missed stay
\* without a configuration until somebody activates or changes one.
Restart(missed) ==
  /\ \A g \in missed : InUse(rows, g) # {}
  /\ reqs' = [a \in Admins |-> NoReq] /\ calls' = [c \in Calls |-> NoCall]
  /\ slots' = [g \in Groups |-> IF InUse(rows, g) = {} \/ g \in missed THEN Nothing
                                ELSE Row(CHOOSE i \in InUse(rows, g) : TRUE)]
  /\ unloaded' = missed
  /\ clients' = [g \in Groups |-> Nothing] /\ embedder' = Nothing
  /\ raced' = raced \cap {"embedding"}
  /\ UNCHANGED <<rows, begun, embedded>>

----------------------------------------------------------------------------
(* Calls *)

\* resolve_chat_config: the namespace's configuration, or else the global one.
Resolved(g) == IF slots[g] # Nothing THEN slots[g] ELSE slots["global"]

Resolve(c, g) ==
  /\ calls[c].stage = "idle" /\ g # "embedding"
  /\ Resolved(g) # Nothing
  /\ calls' = [calls EXCEPT ![c] = [NoCall EXCEPT !.stage = "ready", !.cfg = Resolved(g)]]
  /\ UNCHANGED <<rows, reqs, slots, clients, embedder, begun, raced, unloaded, embedded>>

\* The slot is that of the configuration, not that of the caller.
Slot(c) == GroupOf[calls[c].cfg.id]
SameKey(x, y) == x # Nothing /\ KeyOf[x.ver] = KeyOf[y.ver]

\* _get_chat_client finds a client with the same key.
Reuse(c) ==
  /\ calls[c].stage = "ready" /\ SameKey(clients[Slot(c)], calls[c].cfg)
  /\ calls' = [calls EXCEPT ![c].stage = "sent", ![c].client = clients[Slot(c)]]
  /\ UNCHANGED <<rows, reqs, slots, clients, embedder, begun, raced, unloaded, embedded>>

\* _get_chat_client, under the lock.
Build(c) ==
  /\ calls[c].stage = "ready" /\ ~SameKey(clients[Slot(c)], calls[c].cfg)
  /\ clients' = [clients EXCEPT ![Slot(c)] = calls[c].cfg]
  /\ calls' = [calls EXCEPT ![c].stage = "built"]
  /\ UNCHANGED <<rows, reqs, slots, embedder, begun, raced, unloaded, embedded>>

\* Its return statement, after the lock: whatever is in the slot by now.
Take(c) ==
  /\ calls[c].stage = "built"
  /\ calls' = [calls EXCEPT ![c] = IF clients[Slot(c)] = Nothing THEN NoCall
                                   ELSE [@ EXCEPT !.stage = "sent", !.client = clients[Slot(c)]]]
  /\ UNCHANGED <<rows, reqs, slots, clients, embedder, begun, raced, unloaded, embedded>>

\* A call that is tried again asks for a client again, for the same settings.
Answer(c, again) ==
  /\ calls[c].stage = "sent"
  /\ calls' = [calls EXCEPT ![c] = IF again THEN [@ EXCEPT !.stage = "ready", !.client = Nothing]
                                   ELSE NoCall]
  /\ UNCHANGED <<rows, reqs, slots, clients, embedder, begun, raced, unloaded, embedded>>

\* get_embedding_function: the settings are taken once per process.
Embed ==
  /\ embedder # Nothing \/ slots["embedding"] # Nothing
  /\ embedder' = IF embedder = Nothing THEN slots["embedding"] ELSE embedder
  /\ embedded' = embedded \cup {embedder'.ver}
  /\ UNCHANGED <<rows, reqs, slots, clients, calls, begun, raced, unloaded>>

Next ==
  \/ \E i \in Ids, v \in Vers : Add(i, v)
  \/ \E a \in Admins, i \in Ids :
       \/ \E v \in Vers : Begin(a, "update", i, v)
       \/ \E kind \in {"delete", "activate"} : Begin(a, kind, i, 0)
  \/ \E a \in Admins : Commit(a) \/ Reread(a) \/ Refresh(a)
  \/ \E missed \in SUBSET Groups : Restart(missed)
  \/ \E c \in Calls : (\E g \in Groups : Resolve(c, g)) \/ Reuse(c) \/ Build(c) \/ Take(c)
  \/ \E c \in Calls, again \in BOOLEAN : Answer(c, again)
  \/ Embed

Spec == Init /\ [][Next]_vars

----------------------------------------------------------------------------
\* A group never has two configurations in use, although two activations may
\* both have read the rows before either of them committed.
OneInUse == \A g \in Groups : Cardinality(InUse(rows, g)) <= 1

\* When no request is between its commit and the registry, calls are served what
\* the rows say, in every group no two requests overlapped on since the start; a
\* group the start could not load has no configuration of its own until the next
\* request about it, and then has what the rows say.
SlotsFollowRows ==
  (\A a \in Admins : reqs[a].stage \in {"idle", "read"}) =>
    \A g \in Groups \ raced :
      slots[g] = IF InUse(rows, g) = {} \/ g \in unloaded THEN Nothing
                 ELSE Row(CHOOSE i \in InUse(rows, g) : TRUE)

\* Texts are embedded with one model over all restarts, unless requests about
\* embedding configurations overlapped.
OneEmbedder == "embedding" \notin raced => Cardinality(embedded) <= 1

============================================================================
