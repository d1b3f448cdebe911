---------------------------- MODULE SchemaPromote ----------------------------
(***************************************************************************)
(* The schema candidates of one table and how they become canonical:       *)
(* knowledge/canonical_promote.py with its callers, the endpoints of       *)
(* api/schema_canonical_v2.py that resolve conflicts, confirm evidence and *)
(* lock the table, the writers of candidates, the purge before a reparse,  *)
(* the editor of the table, the clean-up of foreign keys and the deletions.*)
(*                                                                         *)
(* A session is one SQLAlchemy session on PostgreSQL, READ COMMITTED.  It  *)
(* reads what is committed and what it flushed itself; its flushed rows    *)
(* are locked until it commits or rolls back.  An action lies between two  *)
(* queries.  The rows of one flush are locked in one step: the ORM emits   *)
(* them in key order, so two flushes cannot block each other crosswise.    *)
(* Statements of deletions, edits and locks are one action each.           *)
(***************************************************************************)
EXTENDS FiniteSets, Naturals

CONSTANTS
  Scopes,     \* conflict scopes: a field, or a relationship identity
  Ruled,      \* the scopes of fields: equivalence rules apply to them
  Cands,      \* candidate rows, one per distinct value
  ScopeOf,    \* the scope of each candidate
  Evidence,   \* the candidates first written as evidence_only
  RepoCands,  \* the candidates of the repository; the others are the data source's
  Keys,       \* the relationships found as foreign keys of the data source
  Bare,       \* the relationships that do not name the field they refer to (to_field)
  Sessions,   \* bound: database sessions open at a time
  ByUser,     \* a relationship as a user wrote it, with its to_field
  NoCand, NoSession

ASSUME ScopesAssumption == Ruled \subseteq Scopes /\ ScopeOf \in [Cands -> Scopes]
ASSUME CandsAssumption == Evidence \subseteq RepoCands /\ RepoCands \subseteq Cands
ASSUME KeysAssumption ==
  Keys \subseteq Cands \ RepoCands /\ \A c \in Keys : ScopeOf[c] \notin Ruled
ASSUME BareAssumption == Bare \subseteq Cands /\ \A c \in Bare : ScopeOf[c] \notin Ruled
ASSUME AbsentAssumption ==
  {NoCand, ByUser} \cap Cands = {} /\ ByUser # NoCand /\ NoSession \notin Sessions

VARIABLES
  status,  \* SchemaCanonicalCandidate.status; "absent" before it is written
  weak,    \* the candidates whose confidence_status is evidence_only
  open,    \* the candidates each scope's open conflict lists (NoCand: a row
           \* that was deleted); {} if there is none
  table,   \* the SchemaCanonicalObject
  nsLock,  \* the holder of the namespace's asyncio.Lock
  tx,      \* the sessions
  serial   \* no two transactions have overlapped so far (history variable)

vars == <<status, weak, open, table, nsLock, tx, serial>>

\* value: the candidate whose value each scope's entry has (NoCand: there is no
\* entry, or a user wrote it and it is not ByUser); fk: the relationships whose sources include introspect_fk.
NoTable == [exists |-> FALSE, locked |-> FALSE,
            value |-> [s \in Scopes |-> NoCand], fk |-> {}]

\* Row changes: new statuses ("same": none), a new confidence, conflicts closed
\* and opened, and of the table a touched row and new JSON columns by scope.
NoChange == [st |-> [c \in Cands |-> "same"], firm |-> {}, close |-> {}, opened |-> {},
             touch |-> FALSE, insert |-> FALSE, cols |-> {},
             value |-> [s \in Scopes |-> NoCand], fk |-> {}]

\* at: where the session is suspended; then: where it goes after its next flush;
\* todo: the pending candidates it has selected and not handled; soft: those
\* of them it has read as evidence_only; group: the group at hand; sco: the
\* table as it read it; pinned: it holds that object from its start; gone: the
\* row it read was deleted; lost: the candidates of which that is so;
\* plan: what it is about to flush; done: flushed.
Closed == [at |-> "idle", then |-> "idle",
           todo |-> {}, soft |-> {}, group |-> {},
           sco |-> NoTable, pinned |-> FALSE, gone |-> FALSE, lost |-> {},
           plan |-> NoChange, done |-> NoChange]

Init ==
  /\ status = [c \in Cands |-> "absent"]
  /\ weak = {}
  /\ open = [s \in Scopes |-> {}]
  /\ table = NoTable
  /\ nsLock = NoSession
  /\ tx = [s \in Sessions |-> Closed]
  /\ serial = TRUE

----------------------------------------------------------------------------
(* What a session sees and holds *)

\* fields_json for fields, relationships_json for relationships
Column(scope) == IF scope \in Ruled THEN Ruled ELSE Scopes \ Ruled

Of(scope) == {c \in Cands : ScopeOf[c] = scope}
ScopesOf(cs) == {ScopeOf[c] : c \in cs}

StatusIn(s, c) == LET d == tx[s].done.st[c] IN IF d = "same" THEN status[c] ELSE d
Pending(s) == {c \in Cands : StatusIn(s, c) = "pending"}
WeakIn(s) == LET d == tx[s].done
             IN {c \in weak \ d.firm : d.st[c] # "absent"} \cup
                {c \in Evidence : status[c] = "absent" /\ d.st[c] \notin {"same", "absent"}}

OpenIn(s, scope) ==
  \/ scope \in ScopesOf(tx[s].done.opened)
  \/ open[scope] # {} /\ scope \notin tx[s].done.close

TableIn(s) ==
  LET d == tx[s].done
  IN [exists |-> table.exists \/ d.insert,
      locked |-> table.locked,
      value |-> [x \in Scopes |-> IF x \in d.cols THEN d.value[x] ELSE table.value[x]],
      fk |-> (table.fk \ d.cols) \cup (d.fk \cap d.cols)]

\* The rows and index entries a change locks.
CandLocks(ch)  == {c \in Cands : ch.st[c] # "same"} \cup ch.firm
ScopeLocks(ch) == ch.close \cup ScopesOf(ch.opened)
Clash(p, d) ==
  \/ CandLocks(p) \cap CandLocks(d) # {}
  \/ ScopeLocks(p) \cap ScopeLocks(d) # {}
  \/ p.touch /\ d.touch

BlockedBy(s, u) == u # s /\ Clash(tx[s].plan, tx[u].done)

Idle(s) == tx[s].at = "idle"
Alone == serial' = (serial /\ \A u \in Sessions : Idle(u))

Set(s, t)  == tx' = [tx EXCEPT ![s] = t]
RowsKept   == UNCHANGED <<status, weak, open, table>>
Open(s, t) == Idle(s) /\ Set(s, t) /\ Alone /\ RowsKept /\ UNCHANGED nsLock
Step(s, t) == Set(s, t) /\ RowsKept /\ UNCHANGED <<nsLock, serial>>

\* Flush plan p and go on at stage x.
Plan(t, p, x) == [t EXCEPT !.at = "flush", !.then = x, !.plan = p, !.gone = FALSE]

St(cs, new) == [c \in Cands |-> IF c \in cs THEN new ELSE "same"]

----------------------------------------------------------------------------
(* Opening a session *)

\* promote_endpoint, the trainer's step 6.5, and a refresh with nothing to write
Promote(s) == Open(s, [Closed EXCEPT !.at = "lock"])

\* The trainer's step 6.6: indexes and foreign keys in a session of their own.
TidyUp(s) == Open(s, [Closed EXCEPT !.at = "indexes"])

\* write_canonical_candidate: a new candidate is pending, a rejected one becomes
\* pending again, any other keeps its status.  A worker commits it; a refresh of
\* the schema promotes in the same transaction.
Revivable(c) == status[c] \in {"absent", "rejected"}

WriteCandidate(s, c) ==
  /\ Revivable(c)
  /\ LET p == [NoChange EXCEPT
                 !.st = St({c}, IF status[c] = "absent" THEN "new" ELSE "pending")]
     IN \/ Open(s, Plan(Closed, p, "commit"))
        \/ /\ c \notin RepoCands
           /\ Open(s, Plan(Closed, p, "lock"))

\* _delete_legacy_candidates: the rows are read as pending and deleted by id.
Purge(s) ==
  LET cs == {c \in RepoCands : status[c] = "pending"}
  IN cs # {} /\ Open(s, Plan(Closed, [NoChange EXCEPT !.st = St(cs, "absent")], "commit"))

\* An attribute that has its value already is not written.
Resolution(s, scope, winners, losers, next) ==
  LET new == [c \in Cands |-> IF c \in winners THEN "pending"
                              ELSE IF c \in losers THEN "rejected" ELSE "same"]
      p == [NoChange EXCEPT
              !.close = {scope},
              !.st = [c \in Cands |-> IF new[c] = status[c] THEN "same" ELSE new[c]]]
  IN Open(s, Plan([Closed EXCEPT !.group = winners], p, next))

\* Mutant: the losers are left as they are.
ResolveWinnerOnly(s, scope) ==
  LET listed == open[scope] \ {NoCand}
  IN /\ open[scope] # {}
     /\ \/ \E w \in listed : Resolution(s, scope, {w}, {}, "single")
        \/ Resolution(s, scope, {}, listed, "commit")

\* resolve_conflict: keep_a, keep_b and merge choose a winner; reject_all none.
Resolve(s, scope) ==
  LET listed == open[scope] \ {NoCand}
  IN /\ open[scope] # {}
     /\ \/ \E w \in listed : Resolution(s, scope, {w}, listed \ {w}, "single")
        \/ Resolution(s, scope, {}, listed, "commit")

\* confirm_field: confirm or correct every pending evidence_only candidate of a
\* field, or ignore them.  Only descriptions of fields are promoted.
ConfirmField(s, scope) ==
  LET cs == {c \in Of(scope) \cap weak : status[c] = "pending"}
      t == [Closed EXCEPT !.group = cs, !.sco = table, !.pinned = TRUE]
  IN /\ table.exists /\ cs # {}
     /\ \/ Open(s, Plan(t, [NoChange EXCEPT !.firm = cs],
                        IF scope \in Ruled THEN "single" ELSE "commit"))
        \/ Open(s, Plan(Closed, [NoChange EXCEPT !.st = St(cs, "rejected")], "commit"))

----------------------------------------------------------------------------
(* promote_candidates_to_canonical and promote_single_field *)

Selected(s, cs) ==
  [tx[s] EXCEPT !.at = "group", !.todo = cs, !.soft = cs \cap WeakIn(s),
                !.group = {}, !.lost = {}]

\* The namespace lock is free: all pending candidates are selected under it.
LockAndSelect(s) ==
  /\ tx[s].at = "lock" /\ nsLock = NoSession
  /\ nsLock' = s
  /\ Set(s, Selected(s, Pending(s)))
  /\ RowsKept /\ UNCHANGED serial

\* promote_single_field: no lock, the pending candidates of one field.
SelectField(s) ==
  /\ tx[s].at = "single"
  /\ Step(s, Selected(s, {c \in Pending(s) : ScopeOf[c] \in ScopesOf(tx[s].group)}))

\* Where the callers of promote go on: a refresh tidies up, the others commit.
AfterPromote == {"indexes", "commit"}

\* Mutant: the lock is awaited without a timeout.
WaitForLock(s) == FALSE

\* promote_lock_timeout_secs: the promote returns an empty report.
LockTimeout(s) ==
  /\ tx[s].at = "lock" /\ nsLock # NoSession
  /\ \E x \in AfterPromote : Step(s, [tx[s] EXCEPT !.at = x])

\* _process_group: a scope with an open conflict is skipped.
NextGroup(s) ==
  /\ tx[s].at = "group"
  /\ \E scope \in ScopesOf(tx[s].todo) :
       LET g == tx[s].todo \cap Of(scope)
           t == [tx[s] EXCEPT !.todo = @ \ g]
       IN Step(s, IF OpenIn(s, scope) THEN t ELSE [t EXCEPT !.at = "decide", !.group = g])

\* The table is read, from the session's own object if it holds one.
TableRead(s) == IF tx[s].pinned /\ ~tx[s].gone THEN tx[s].sco ELSE TableIn(s)

\* Mutants: a single candidate is promoted whatever its confidence; the lock of
\* the table is not looked at.
SkipsLocked(s) == TableRead(s).exists /\ TableRead(s).locked
SkipsEvidence(s) == Cardinality(tx[s].group) = 1 /\ tx[s].group \subseteq tx[s].soft

\* A locked table is skipped, and a single evidence_only candidate waits for the user.
Skips(s) ==
  \/ TableRead(s).exists /\ TableRead(s).locked
  \/ Cardinality(tx[s].group) = 1 /\ tx[s].group \subseteq tx[s].soft

SkipGroup(s) ==
  /\ tx[s].at = "decide" /\ Skips(s)
  /\ Step(s, [tx[s] EXCEPT !.at = "group", !.group = {}])

\* Mutant: the entry keeps its to_field also when the candidate has another one.
ShownKeepsOld(old, w) == IF old # NoCand THEN old ELSE w

\* The values of one relationship differ in to_field alone, and a candidate without
\* one takes it over from the entry it is merged into (_merge_relationship_into).
Shown(old, w) == IF w \in Bare /\ old # NoCand THEN old ELSE w

\* _apply_to_canonical, and the status of the others of the group: a new row is
\* inserted whole, of an old one the column that changed is written.  The sources
\* of a relationship only grow.
Applied(s, w, others) ==
  LET sco == TableRead(s)
      scope == ScopeOf[w]
      fk == sco.fk \cup ScopesOf({w} \cap Keys)
  IN [NoChange EXCEPT
        !.st = [c \in Cands |-> IF c = w THEN "active"
                                ELSE IF c \in tx[s].group THEN others ELSE "same"],
        !.touch = TRUE,
        !.insert = ~sco.exists,
        !.cols = IF ~sco.exists THEN Scopes
                 ELSE IF sco.value[scope] = w /\ fk = sco.fk THEN {} ELSE Column(scope),
        !.value = [sco.value EXCEPT ![scope] = Shown(@, w)],
        !.fk = fk]

\* Mutant: a status the candidates do not have.
ConflictingMisnamed(cs) == [NoChange EXCEPT !.st = St(cs, "conflict"), !.opened = cs]

\* _create_conflict, and the candidates it lists.
Conflicting(cs) == [NoChange EXCEPT !.st = St(cs, "in_conflict"), !.opened = cs]

Decided(s, p) == Step(s, [Plan(tx[s], p, "group") EXCEPT !.group = {}])

\* The active candidates of the same scope and another value.
Rivals(s) == {c \in Cands \ tx[s].group :
                ScopeOf[c] \in ScopesOf(tx[s].group) /\ StatusIn(s, c) = "active"}

\* Mutant: an active candidate of another value does not conflict.
DecideSingleBlind(s) ==
  /\ tx[s].at = "decide" /\ ~Skips(s)
  /\ \E c \in Cands : tx[s].group = {c} /\ Decided(s, Applied(s, c, "same"))

\* _handle_single_candidate
DecideSingle(s) ==
  /\ tx[s].at = "decide" /\ ~Skips(s)
  /\ \E c \in Cands :
       /\ tx[s].group = {c}
       /\ Decided(s, IF Rivals(s) # {} THEN Conflicting(Rivals(s) \cup {c})
                                       ELSE Applied(s, c, "same"))

\* _handle_multi_candidates: a rule may find a winner among field candidates.
DecideMulti(s) ==
  /\ tx[s].at = "decide" /\ ~Skips(s) /\ Cardinality(tx[s].group) > 1
  /\ \/ Decided(s, Conflicting(tx[s].group))
     \/ /\ ScopesOf(tx[s].group) \subseteq Ruled
        /\ \E w \in tx[s].group, others \in {"active", "rejected"} :
             Decided(s, Applied(s, w, others))

Released(s) == nsLock' = IF nsLock = s THEN NoSession ELSE nsLock

\* The lock goes before the caller commits.
EndPromote(s) ==
  /\ tx[s].at = "group" /\ tx[s].todo = {}
  /\ Released(s)
  /\ \E x \in IF nsLock = s THEN AfterPromote ELSE {"commit"} :
       Set(s, [Closed EXCEPT !.at = x, !.done = tx[s].done])
  /\ RowsKept /\ UNCHANGED serial

\* backfill_indexes_from_driver skips a locked table.  It rewrites fields_json as
\* it read it, if there are indexes to add.
BackfillIndexes(s) ==
  /\ tx[s].at = "indexes" /\ TableIn(s).exists /\ ~TableIn(s).locked
  /\ Step(s, Plan(tx[s], [NoChange EXCEPT !.touch = TRUE, !.cols = Ruled,
                                          !.value = TableIn(s).value], "keys"))

\* Mutant: nothing protects a relationship found in the code too.
ProtectedNever(s, scope) == FALSE

\* An active confirmed_by_code candidate of the same field.
Protected(s, scope) ==
  \E c \in (Of(scope) \cap RepoCands) \ Evidence : StatusIn(s, c) = "active"

\* cleanup_stale_fk_relationships: the entries of foreign keys the data source no
\* longer has are dropped, of locked tables too.
DropStaleKeys(s) ==
  /\ tx[s].at \in {"indexes", "keys"}
  /\ \E dropped \in SUBSET {x \in TableIn(s).fk : ~Protected(s, x)} :
       Step(s, IF dropped = {} THEN [tx[s] EXCEPT !.at = "commit"] ELSE
               Plan(tx[s], [NoChange EXCEPT
                 !.touch = TRUE, !.cols = Scopes \ Ruled, !.fk = TableIn(s).fk \ dropped,
                 !.value = [x \in Scopes |-> IF x \in dropped THEN NoCand
                                                              ELSE TableIn(s).value[x]]],
                 "commit"))

----------------------------------------------------------------------------
(* Flush, commit, rollback *)

\* A second open conflict, a second table row, or a row that was deleted.
Rejected(s) ==
  LET p == tx[s].plan
  IN \/ \E scope \in ScopesOf(p.opened) :
          open[scope] # {} /\ scope \notin tx[s].done.close
     \/ p.insert /\ table.exists
     \/ p.touch /\ ~p.insert /\ tx[s].gone
     \/ \E c \in tx[s].lost : p.st[c] \notin {"same", "new", "absent"} \/ c \in p.firm

Merged(d, p) ==
  [st |-> [c \in Cands |-> IF p.st[c] = "same" THEN d.st[c] ELSE p.st[c]],
   firm |-> d.firm \cup p.firm,
   close |-> d.close \cup p.close,
   opened |-> d.opened \cup p.opened,
   touch |-> d.touch \/ p.touch,
   insert |-> d.insert \/ p.insert,
   cols |-> d.cols \cup p.cols,
   value |-> [x \in Scopes |-> IF x \in p.cols THEN p.value[x] ELSE d.value[x]],
   fk |-> (d.fk \ p.cols) \cup (p.fk \cap p.cols)]

\* An insert that meets a candidate of another session falls back to its row.
Settled(p) ==
  [p EXCEPT !.st = [c \in Cands |->
     IF p.st[c] = "new" THEN (IF Revivable(c) THEN "pending" ELSE "same") ELSE p.st[c]]]

Flush(s) ==
  /\ tx[s].at = "flush" /\ \A u \in Sessions : ~BlockedBy(s, u) /\ ~Rejected(s)
  /\ Step(s, [tx[s] EXCEPT !.at = tx[s].then, !.then = "idle",
                           !.done = Merged(tx[s].done, Settled(tx[s].plan)),
                           !.plan = NoChange])

\* An open conflict row that another session has closed is no longer the one
\* this session will close.
WithClosed(t, scopes) ==
  [t EXCEPT !.plan.close = @ \ scopes, !.done.close = @ \ scopes]

\* Rows of candidates another session has deleted.
WithDeleted(t, cs) ==
  LET held == t.todo \cup t.group \cup t.plan.firm \cup
              {c \in Cands : t.plan.st[c] \notin {"same", "new"}}
  IN [t EXCEPT !.lost = @ \cup (cs \cap held)]

Commit(s) ==
  LET d == tx[s].done
      deleted == {c \in Cands : d.st[c] = "absent"}
  IN /\ tx[s].at = "commit"
     /\ status' = [c \in Cands |-> StatusIn(s, c)]
     /\ weak' = WeakIn(s)
     /\ open' = [x \in Scopes |->
                   IF x \in ScopesOf(d.opened) THEN d.opened \cap Of(x)
                   ELSE IF x \in d.close THEN {}
                   ELSE {IF c \in deleted THEN NoCand ELSE c : c \in open[x]}]
     /\ table' = TableIn(s)
     /\ tx' = [u \in Sessions |-> IF u = s THEN Closed
                                   ELSE WithDeleted(WithClosed(tx[u], d.close), deleted)]
     /\ UNCHANGED <<nsLock, serial>>

\* An error anywhere, a cancellation, a rejected flush, or a deadlock the database
\* has found.
Rollback(s) ==
  /\ ~Idle(s)
  /\ Set(s, Closed)
  /\ Released(s)
  /\ RowsKept /\ UNCHANGED serial

FlushFails(s) ==
  /\ tx[s].at = "flush" /\ \A u \in Sessions : ~BlockedBy(s, u) /\ Rejected(s)
  /\ Rollback(s)

----------------------------------------------------------------------------
(* Short transactions: they wait until the rows they write are free. *)

Free(cs) == \A u \in Sessions : CandLocks(tx[u].done) \cap cs = {}
TableFree == \A u \in Sessions : ~tx[u].done.touch

Orphaned(cs) == status' = [c \in Cands |-> IF c \in cs THEN "orphaned" ELSE status[c]]

\* orphan_candidates_for_repo
DeleteRepo ==
  LET cs == {c \in RepoCands : status[c] \notin {"absent", "orphaned", "rejected"}}
  IN /\ cs # {} /\ Free(cs)
     /\ Orphaned(cs)
     /\ UNCHANGED <<weak, open, table, nsLock, tx>> /\ Alone

\* Sessions that hold the table's row, and the conflicts that are closed with it.
TableGone(closed) ==
  tx' = [u \in Sessions |-> [WithClosed(tx[u], closed) EXCEPT
                               !.gone = tx[u].pinned \/ tx[u].plan.touch]]

\* delete_datasource: its candidates are orphaned and the table goes, but the
\* conflicts and the candidates of the repository stay.
DeleteSource ==
  LET cs == {c \in Cands \ RepoCands : status[c] \notin {"absent", "orphaned", "rejected"}}
  IN /\ cs # {} \/ table.exists
     /\ Free(cs) /\ TableFree
     /\ Orphaned(cs)
     /\ table' = NoTable
     /\ TableGone({})
     /\ UNCHANGED <<weak, open, nsLock>> /\ Alone

\* delete_canonical: candidates are orphaned, open conflicts closed, the row deleted.
DeleteTable ==
  LET cs == {c \in Cands : status[c] \in {"active", "pending", "in_conflict"}}
      closed == {x \in Scopes : open[x] # {}}
  IN /\ table.exists /\ Free(cs) /\ TableFree
     /\ \A u \in Sessions : closed \cap ScopeLocks(tx[u].done) = {}
     /\ Orphaned(cs)
     /\ open' = [x \in Scopes |-> {}]
     /\ table' = NoTable
     /\ TableGone(closed)
     /\ UNCHANGED <<weak, nsLock>> /\ Alone

\* lock_field, unlock_field
ToggleLock ==
  /\ table.exists /\ TableFree
  /\ table' = [table EXCEPT !.locked = ~@]
  /\ UNCHANGED <<status, weak, open, nsLock, tx>> /\ Alone

\* A column as a user leaves it: parts of it written (relationships) or gone.
Edited(column, edited, written) ==
  [table EXCEPT !.locked = TRUE, !.fk = @ \ column,
                !.value = [x \in Scopes |-> IF x \in written THEN ByUser
                                            ELSE IF x \in edited THEN NoCand ELSE @[x]]]

\* patch_canonical: the user rewrites a column, or parts of it, and locks the table.
Patch ==
  /\ table.exists /\ TableFree
  /\ \E scope \in Scopes : \E edited \in SUBSET Column(scope) :
       \E written \in SUBSET (edited \ Ruled) : table' = Edited(Column(scope), edited, written)
  /\ UNCHANGED <<status, weak, open, nsLock, tx>> /\ Alone

----------------------------------------------------------------------------

\* What a session does without anybody's help.
SessionStep(s) ==
  \/ LockAndSelect(s) \/ LockTimeout(s) \/ SelectField(s) \/ NextGroup(s)
  \/ SkipGroup(s) \/ DecideSingle(s) \/ DecideMulti(s)
  \/ EndPromote(s) \/ BackfillIndexes(s) \/ DropStaleKeys(s)
  \/ Flush(s) \/ FlushFails(s) \/ Commit(s)

Next ==
  \/ \E s \in Sessions :
       \/ Promote(s) \/ TidyUp(s) \/ Purge(s) \/ \E c \in Cands : WriteCandidate(s, c)
       \/ \E scope \in Scopes : Resolve(s, scope) \/ ConfirmField(s, scope)
       \/ SessionStep(s) \/ Rollback(s)
  \/ DeleteRepo \/ DeleteSource \/ DeleteTable \/ ToggleLock \/ Patch

Spec == Init /\ [][Next]_vars
----------------------------------------------------------------------------
(* Properties *)

Statuses == {"absent", "pending", "active", "in_conflict", "rejected", "orphaned"}
Entries == [Scopes -> Cands \cup {NoCand, ByUser}]
Changes == [st : [Cands -> Statuses \cup {"same", "new"}], firm : SUBSET Cands,
            close : SUBSET Scopes, opened : SUBSET Cands, touch : BOOLEAN,
            insert : BOOLEAN, cols : SUBSET Scopes, value : Entries, fk : SUBSET Scopes]
Tables == [exists : BOOLEAN, locked : BOOLEAN, value : Entries, fk : SUBSET Scopes]
Stages == {"idle", "lock", "single", "group", "decide", "indexes", "keys", "flush", "commit"}

\* The shape of the state.
TypeOK ==
  /\ status \in [Cands -> Statuses]
  /\ weak \in SUBSET Evidence
  /\ open \in [Scopes -> SUBSET (Cands \cup {NoCand})]
  /\ table \in Tables
  /\ nsLock \in Sessions \cup {NoSession}
  /\ DOMAIN tx = Sessions
  /\ \A s \in Sessions :
       /\ tx[s].at \in Stages /\ tx[s].then \in Stages
       /\ tx[s].pinned \in BOOLEAN /\ tx[s].gone \in BOOLEAN
       /\ tx[s].todo \in SUBSET Cands /\ tx[s].soft \in SUBSET Cands
       /\ tx[s].group \in SUBSET Cands /\ tx[s].lost \in SUBSET Cands
       /\ tx[s].sco \in Tables /\ tx[s].plan \in Changes /\ tx[s].done \in Changes

Relations == Scopes \ Ruled

\* Two values of one relationship are never both in force, as long as no two
\* transactions overlap: whatever is extracted, resolved, confirmed, rejected or
\* deleted in between, a new value meets the active one in a conflict.
AtMostOneActive ==
  serial =>
    \A c, d \in Cands :
      /\ status[c] = "active" /\ status[d] = "active"
      /\ ScopeOf[c] = ScopeOf[d] /\ ScopeOf[c] \in Relations
      => c = d

\* The canonical table never says another candidate's value than the active one's,
\* again without overlap: the entry may be gone or edited by a user, no more.  An
\* active candidate without a to_field makes no such claim: the entry may keep the
\* one of a value that was rejected in its favour.
CanonicalAgrees ==
  serial => \A c \in Cands \ Bare :
              status[c] = "active" /\ ScopeOf[c] \in Relations
              => table.value[ScopeOf[c]] \in {c, NoCand, ByUser}

\* What a relationship says is one thing: among the candidates and in the table.
OneValueInForce == AtMostOneActive /\ CanonicalAgrees

\* The table has the relationship a candidate found, with the candidate's to_field
\* if it has one.
Says(value, c) == value = c \/ (c \in Bare /\ value # NoCand)
IsCanonical(c) == table.exists /\ Says(table.value[ScopeOf[c]], c)

\* An active relationship found in the code stays in the canonical table: the
\* clean-up of foreign keys does not take it, though it may bear their mark from
\* a value that was there before, nor does another path but the user's edit.
Kept(c) ==
  IsCanonical(c) /\ status[c] = "active" /\ status'[c] = "active" /\ table'.exists
  => IsCanonical(c)' \/ Patch

FromCode == {c \in RepoCands \ Evidence : ScopeOf[c] \in Relations}

CodeKept   == serial => \A c \in FromCode : Kept(c)
CodeIsKept == [][CodeKept]_vars

\* A candidate in conflict can be resolved: the open conflict of its scope lists
\* it.  This one holds for overlapping transactions too, thanks to the row locks
\* and the index that admits one open conflict per scope.
InConflictIsListed ==
  \A c \in Cands : status[c] = "in_conflict" => c \in open[ScopeOf[c]]

\* What is known from evidence only is never in force before a user has confirmed
\* it, not even as the winner of a conflict or the last of its group.  (Among the
\* values of one field an equivalence rule may choose it.)
EvidenceNeedsUser ==
  \A c \in weak : status[c] = "active" =>
    ScopeOf[c] \in Ruled /\ Of(ScopeOf[c]) # {c}

\* user_locked: while a table is locked, what a user wrote or a candidate left there
\* is changed by the user alone, whichever of the paths to the canonical is taken;
\* only entries of foreign keys may be dropped.  (A session open when the lock is
\* set may have looked at it before, so overlap is excluded.)
ValueKept ==
  serial /\ table.locked /\ table'.exists =>
    \A x \in Scopes : \/ table'.value[x] = table.value[x]
                      \/ x \in table.fk /\ table'.value[x] = NoCand
                      \/ Patch
LockedKeepsValue == [][ValueKept]_vars

\* Mutual waiting the database detects: sessions that each wait for another one.
Deadlocked(s) ==
  \E D \in SUBSET {u \in Sessions : tx[u].at = "flush"} :
    s \in D /\ \A u \in D : \E v \in D : BlockedBy(u, v)

\* Sessions that wait for each other's rows or for the namespace lock do not wait
\* for ever: one can go on, or the database sees a cycle and rolls one back.  A
\* refresh holds rows while it waits for the lock, whose holder may want these
\* rows: neither asyncio nor the database sees that cycle, and only the timeout of
\* the lock ends it.
NobodyIsStuck ==
  (\E s \in Sessions : ~Idle(s)) =>
    \E s \in Sessions : ~Idle(s) /\ (ENABLED SessionStep(s) \/ Deadlocked(s))

\* What the docstring of _delete_legacy_candidates says: only pending candidates
\* are deleted, those that were decided keep their row.
DecisionsAreKept ==
  [][\A c \in Cands :
       status[c] \in {"active", "in_conflict", "rejected"} => status'[c] # "absent"]_vars

============================================================================
