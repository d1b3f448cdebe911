------------------------------ MODULE EnumSync ------------------------------
(***************************************************************************)
(* Enum dictionaries and the fields bound to them.  A field carries a copy *)
(* of the values of its dictionary; a change of the dictionary puts an     *)
(* event on enum_sync_queue, in a transaction after the one that made the  *)
(* change (api/enum_dictionary.py), and a worker brings the copies up to   *)
(* date (knowledge/enum_sync.py).  People bind and unbind fields           *)
(* (api/schema_canonical_v2.py), a promote binds by hint                   *)
(* (knowledge/canonical_promote.py), and the extraction from code writes   *)
(* dictionaries (knowledge/enum_dictionary_writer.py).                     *)
(*                                                                         *)
(* The fields are those of one schema object: one column, written whole.   *)
(* The values of a dictionary are a version number.                        *)
(***************************************************************************)
EXTENDS Naturals, Sequences, FiniteSets

CONSTANTS
  Fields, Enums,
  Matching,    \* <<f, e>>: the hint or the name of f leads to e
  Suffixed,    \* fields whose name ends like that of an enum
  Uncovered,   \* <<f, v>>: samples of f are not among the values of version v
  Requests,    \* requests, each made once
  BatchSize,   \* settings.enum_sync_batch_size
  MaxVersion,  \* bound on the changes of a dictionary
  None

VARIABLES
  dict,    \* enum_dictionaries: [st, ver, manual]
  field,   \* fields_json: the dictionary bound, the copy, the match status
  open,    \* open rows of enum_binding_conflicts, <<field, enum>>
  queue,   \* enum_sync_queue in the order of creation: [e, event]
  work,    \* the worker
  req,     \* the requests
  missed   \* history: what changed without the queue, see Overwrites

vars == <<dict, field, open, queue, work, req, missed>>

Live(e)  == dict[e].st = "live"
Unbound(f) == [ref |-> None, ver |-> 0, st |-> IF f \in Suffixed THEN "pending" ELSE None]
Bound(e, v, st) == [ref |-> e, ver |-> v, st |-> st]
Idle == [pc |-> "idle"]

\* Dictionaries that do not exist, or exist with the fields that match them bound.
Init ==
  /\ dict \in [Enums -> {[st |-> "none", ver |-> 0, manual |-> FALSE],
                         [st |-> "live", ver |-> 1, manual |-> TRUE]}]
  /\ field = [f \in Fields |->
       LET S == {e \in Enums : Live(e) /\ <<f, e>> \in Matching} IN
       IF S = {} THEN Unbound(f) ELSE Bound(CHOOSE e \in S : TRUE, 1, "matched")]
  /\ open = {} /\ queue = <<>> /\ work = Idle /\ missed = {}
  /\ req = [r \in Requests |-> Idle]

Becomes(r, state) == req' = [req EXCEPT ![r] = state]
Done(r) == Becomes(r, [pc |-> "done"])

\* What is written over fields that are no longer what was read is no longer
\* vouched for.
Overwrites(seen) == IF field # seen THEN Fields ELSE {}

----------------------------------------------------------------------------
(* The endpoints for dictionaries: a commit, and then the event. *)

Enqueue(r) ==
  /\ req[r].pc = "enqueue"
  /\ queue' = Append(queue, [e |-> req[r].e, event |-> req[r].event])
  /\ Done(r)
  /\ UNCHANGED <<dict, field, open, work, missed>>

Changed(r, e, event) == Becomes(r, [pc |-> "enqueue", e |-> e, event |-> event])

\* create_enum_dictionary; 409 for a class name that is taken.
CreateEnum(r, e) ==
  /\ req[r] = Idle
  /\ IF Live(e) THEN Done(r) /\ UNCHANGED dict
     ELSE /\ dict[e].st = "none"
          /\ dict' = [dict EXCEPT ![e] = [st |-> "live", ver |-> 1, manual |-> TRUE]]
          /\ Changed(r, e, "create")
  /\ UNCHANGED <<field, open, queue, work, missed>>

\* update_enum_dictionary
UpdateEnum(r, e) ==
  /\ req[r] = Idle /\ Live(e) /\ dict[e].ver < MaxVersion
  /\ dict' = [dict EXCEPT ![e] = [st |-> "live", ver |-> @.ver + 1, manual |-> TRUE]]
  /\ Changed(r, e, "update")
  /\ UNCHANGED <<field, open, queue, work, missed>>

\* delete_enum_dictionary, confirmed if need be
DeleteEnum(r, e) ==
  /\ req[r] = Idle /\ Live(e)
  /\ dict' = [dict EXCEPT ![e].st = "deleted"]
  /\ Changed(r, e, "delete")
  /\ UNCHANGED <<field, open, queue, work, missed>>

\* upsert_enum_dictionary_from_code: no event.
ExtractEnum(e) ==
  /\ dict[e].st # "deleted" /\ ~dict[e].manual /\ dict[e].ver < MaxVersion
  /\ dict' = [dict EXCEPT ![e] = [st |-> "live", ver |-> @.ver + 1, manual |-> FALSE]]
  /\ missed' = missed \cup {e}
  /\ UNCHANGED <<field, open, queue, work, req>>

----------------------------------------------------------------------------
(* The endpoints for fields: read, then write the column. *)

\* bind_field_to_enum and the hint of a promote, which asks for no coverage.
ReadToBind(r, f, e, how) ==
  /\ req[r] = Idle /\ Live(e)
  /\ how = "hint" => <<f, e>> \in Matching
  /\ IF how = "plain" /\ <<f, dict[e].ver>> \in Uncovered THEN Done(r)
     ELSE Becomes(r, [pc |-> "bind", f |-> f, e |-> e, seen |-> field, dict |-> dict[e],
            st |-> IF how = "forced" /\ <<f, dict[e].ver>> \in Uncovered
                     THEN "conflict" ELSE "matched"])
  /\ UNCHANGED <<dict, field, open, queue, work, missed>>

Bind(r) ==
  /\ req[r].pc = "bind"
  /\ LET q == req[r] IN
     /\ field' = [q.seen EXCEPT ![q.f] = Bound(q.e, q.dict.ver, q.st)]
     /\ missed' = missed \cup Overwrites(q.seen) \cup (IF dict[q.e] # q.dict THEN {q.f} ELSE {})
  /\ Done(r)
  /\ UNCHANGED <<dict, open, queue, work>>

\* unbind_field_enum
ReadToUnbind(r, f) ==
  /\ req[r] = Idle
  /\ Becomes(r, [pc |-> "unbind", f |-> f, seen |-> field])
  /\ UNCHANGED <<dict, field, open, queue, work, missed>>

Unbind(r) ==
  /\ req[r].pc = "unbind"
  /\ LET q == req[r] IN
     /\ field' = [q.seen EXCEPT ![q.f] = Unbound(q.f)]
     /\ open' = open \ {<<q.f, q.seen[q.f].ref>>}
     /\ missed' = missed \cup Overwrites(q.seen)
  /\ Done(r)
  /\ UNCHANGED <<dict, queue, work>>

----------------------------------------------------------------------------
(* The worker. *)

\* Of the events of a batch with the same dictionary and kind the latest counts,
\* at the place of the first.
Firsts(batch) == {i \in DOMAIN batch : \A k \in 1..(i - 1) : batch[k] # batch[i]}
InOrder(S) ==
  {at \in [1..Cardinality(S) -> S] :
     /\ \A i, k \in 1..Cardinality(S) : i < k => at[i] < at[k]
     /\ \A s \in S : \E i \in 1..Cardinality(S) : at[i] = s}
Kept(batch, at) == [i \in DOMAIN at |-> batch[at[i]]]

\* enum_sync_loop_once reads its batch; the superfluous rows go with the first
\* commit, which is taken to be now.
Poll ==
  /\ work = Idle /\ queue # <<>>
  /\ LET n     == IF Len(queue) < BatchSize THEN Len(queue) ELSE BatchSize
         batch == SubSeq(queue, 1, n)
     IN \E at \in InOrder(Firsts(batch)) :
          /\ queue' = Kept(batch, at) \o SubSeq(queue, n + 1, Len(queue))
          /\ work' = [pc |-> "read", left |-> Len(Kept(batch, at))]
  /\ UNCHANGED <<dict, field, open, req, missed>>

Task == queue[1]

\* Handlers start from the dictionary and the fields as they are now.
Read ==
  /\ work.pc = "read"
  /\ work' = IF Task.event # "delete" /\ ~Live(Task.e)
               THEN [pc |-> "drop", left |-> work.left]
               ELSE [pc |-> "write", left |-> work.left, seen |-> field, ver |-> dict[Task.e].ver]
  /\ UNCHANGED <<dict, field, open, queue, req, missed>>

Refreshed(f, old) == Bound(Task.e, work.ver,
                           IF <<f, work.ver>> \in Uncovered THEN "conflict" ELSE "matched")

\* _handle_create, _handle_update, _handle_delete.  The column is written only if
\* some field changes.
Handled ==
  [f \in Fields |->
     LET old == work.seen[f] IN
     CASE Task.event = "create" /\ old.st = "pending" /\ <<f, Task.e>> \in Matching ->
            Bound(Task.e, work.ver, "matched")
       [] Task.event = "update" /\ old.ref = Task.e -> Refreshed(f, old)
       [] Task.event = "delete" /\ old.ref = Task.e -> Unbound(f)
       [] OTHER -> old]

Touched == {f \in Fields : work.seen[f].ref = Task.e}

Write ==
  /\ work.pc = "write"
  /\ IF Handled = work.seen THEN UNCHANGED <<field, missed>>
     ELSE field' = Handled /\ missed' = missed \cup Overwrites(work.seen)
  /\ LET missing == {<<f, Task.e>> : f \in {g \in Touched : Handled[g].st = "conflict"}} IN
     open' = IF Task.event = "create" THEN open
             ELSE (open \ {<<f, Task.e>> : f \in Touched}) \cup missing
  /\ work' = [pc |-> "drop", left |-> work.left]
  /\ UNCHANGED <<dict, queue, req>>

\* An exception in a handler is written to the audit log, and the event is
\* dropped like any other.
HandlerFails ==
  /\ work.pc \in {"read", "write"}
  /\ work' = [pc |-> "drop", left |-> work.left]
  /\ missed' = missed \cup {Task.e}
  /\ UNCHANGED <<dict, field, open, queue, req>>

\* Mutant: all events of this kind for the dictionary go.
DropAlike ==
  /\ work.pc = "drop"
  /\ queue' = SelectSeq(queue, LAMBDA t : t # Task)
  /\ work' = IF work.left = 1 THEN Idle ELSE [pc |-> "read", left |-> work.left - 1]
  /\ UNCHANGED <<dict, field, open, req, missed>>

Drop ==
  /\ work.pc = "drop"
  /\ queue' = Tail(queue)
  /\ work' = IF work.left = 1 THEN Idle ELSE [pc |-> "read", left |-> work.left - 1]
  /\ UNCHANGED <<dict, field, open, req, missed>>

\* A restart: the queue is kept, an event on its way to the queue is not.
Restart ==
  /\ work # Idle \/ \E r \in Requests : req[r].pc = "enqueue"
  /\ work' = Idle
  /\ req' = [r \in Requests |-> IF req[r] = Idle THEN Idle ELSE [pc |-> "done"]]
  /\ missed' = missed \cup {req[r].e : r \in {x \in Requests : req[x].pc = "enqueue"}}
  /\ UNCHANGED <<dict, field, open, queue>>

Next ==
  \/ \E r \in Requests, e \in Enums : CreateEnum(r, e) \/ UpdateEnum(r, e) \/ DeleteEnum(r, e)
  \/ \E e \in Enums : ExtractEnum(e)
  \/ \E r \in Requests, f \in Fields, e \in Enums, how \in {"plain", "forced", "hint"} :
       ReadToBind(r, f, e, how)
  \/ \E r \in Requests, f \in Fields : ReadToUnbind(r, f)
  \/ \E r \in Requests : Enqueue(r) \/ Bind(r) \/ Unbind(r)
  \/ Poll \/ Read \/ Write \/ HandlerFails \/ Drop \/ Restart

Spec == Init /\ [][Next]_vars

----------------------------------------------------------------------------
Quiet == queue = <<>> /\ work = Idle /\ \A r \in Requests : req[r].pc \in {"idle", "done"}

\* When the queue is empty and nobody is at work, every bound field has the values
\* of a dictionary that exists, however the changes, the batches of the worker,
\* its restarts and the bindings came in between; except for what changed without
\* an event, lost its event, or was written from a stale read.
CopiesAgree ==
  Quiet => \A f \in Fields \ missed :
             LET e == field[f].ref IN
             e # None /\ e \notin missed => Live(e) /\ field[f].ver = dict[e].ver

=============================================================================
