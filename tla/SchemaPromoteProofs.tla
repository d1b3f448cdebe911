------------------------- MODULE SchemaPromoteProofs -------------------------
(***************************************************************************)
(* Theorems about SchemaPromote, for any scopes and candidates and any     *)
(* number of sessions at a time.                                           *)
(***************************************************************************)
EXTENDS SchemaPromote, FiniteSetTheorems, TLAPS

----------------------------------------------------------------------------
(* The shape of the state *)

\* A session's fields, and the changes it has flushed: nothing is "new" there.
Flushed == {d \in Changes : \A c \in Cands : d.st[c] # "new"}
Txs == [at : Stages, then : Stages, todo : SUBSET Cands, soft : SUBSET Cands,
        group : SUBSET Cands, sco : Tables, pinned : BOOLEAN, gone : BOOLEAN,
        lost : SUBSET Cands, plan : Changes, done : Flushed]

ShapeOK ==
  /\ status \in [Cands -> Statuses]
  /\ weak \in SUBSET Evidence
  /\ open \in [Scopes -> SUBSET (Cands \cup {NoCand})]
  /\ table \in Tables
  /\ nsLock \in Sessions \cup {NoSession}
  /\ tx \in [Sessions -> Txs]

\* The constants, as the proofs use them.
LEMMA Constants ==
  /\ ScopeOf \in [Cands -> Scopes] /\ Ruled \subseteq Scopes
  /\ Evidence \subseteq RepoCands /\ RepoCands \subseteq Cands /\ Keys \subseteq Cands
  /\ Bare \subseteq Cands /\ (\A c \in Bare : ScopeOf[c] \notin Ruled)
  /\ NoCand \notin Cands /\ ByUser \notin Cands /\ ByUser # NoCand
  /\ NoSession \notin Sessions
BY ScopesAssumption, CandsAssumption, KeysAssumption, BareAssumption, AbsentAssumption

\* The empty table, change and session have their shapes.
LEMMA Nothing ==
  /\ NoTable \in Tables /\ NoChange \in Changes /\ NoChange \in Flushed
  /\ Closed \in Txs
<1>1. NoTable \in Tables
  BY DEF NoTable, Tables, Entries
<1>2. NoChange \in Changes
  BY DEF NoChange, Changes, Entries, Statuses
<1>3. NoChange \in Flushed
  BY <1>2 DEF NoChange, Flushed
<1>4. Closed \in Txs
  BY <1>1, <1>2, <1>3 DEF Closed, Txs, Stages
<1> QED
  BY <1>1, <1>2, <1>3, <1>4

\* What a session sees has the shape of what is committed.
LEMMA Views ==
  ASSUME ShapeOK, NEW s \in Sessions
  PROVE  /\ \A c \in Cands : StatusIn(s, c) \in Statuses
         /\ Pending(s) \subseteq Cands
         /\ WeakIn(s) \subseteq Evidence
         /\ TableIn(s) \in Tables
         /\ TableRead(s) \in Tables
<1>1. tx[s] \in Txs /\ tx[s].done \in Changes /\ tx[s].sco \in Tables /\ tx[s].done \in Flushed
  BY DEF ShapeOK, Txs, Flushed
<1>2. \A c \in Cands : StatusIn(s, c) \in Statuses
  BY <1>1 DEF ShapeOK, StatusIn, Flushed, Changes
<1>3. WeakIn(s) \subseteq Evidence
  BY <1>1 DEF ShapeOK, WeakIn
<1>4. TableIn(s) \in Tables
  <2>1. ASSUME NEW d \in Changes, NEW u \in Tables
        PROVE  [exists |-> u.exists \/ d.insert,
                locked |-> u.locked,
                value |-> [x \in Scopes |-> IF x \in d.cols THEN d.value[x] ELSE u.value[x]],
                fk |-> (u.fk \ d.cols) \cup (d.fk \cap d.cols)] \in Tables
    BY DEF Changes, Tables, Entries
  <2> QED
    BY <1>1, <2>1 DEF TableIn, ShapeOK
<1>5. TableRead(s) \in Tables
  BY <1>1, <1>4 DEF TableRead
<1> QED
  BY <1>2, <1>3, <1>4, <1>5 DEF Pending

\* A session that has a plan.
LEMMA PlanShape ==
  ASSUME NEW t \in Txs, NEW p \in Changes, NEW x \in Stages
  PROVE  Plan(t, p, x) \in Txs
BY DEF Plan, Txs, Stages

\* The plans.
LEMMA PlansShape ==
  ASSUME NEW cs \in SUBSET Cands
  PROVE  /\ \A st \in [Cands -> Statuses \cup {"same", "new"}] : [NoChange EXCEPT !.st = st] \in Changes
         /\ \A new \in Statuses \cup {"new"} : St(cs, new) \in [Cands -> Statuses \cup {"same", "new"}]
         /\ [NoChange EXCEPT !.firm = cs] \in Changes
         /\ Conflicting(cs) \in Changes
<1>1. \A st \in [Cands -> Statuses \cup {"same", "new"}] : [NoChange EXCEPT !.st = st] \in Changes
  BY DEF NoChange, Changes, Entries
<1>2. \A new \in Statuses \cup {"new"} : St(cs, new) \in [Cands -> Statuses \cup {"same", "new"}]
  BY DEF St
<1>3. [NoChange EXCEPT !.firm = cs] \in Changes
  BY Nothing DEF Changes
<1>4. Conflicting(cs) \in Changes
  <2>1. St(cs, "in_conflict") \in [Cands -> Statuses \cup {"same", "new"}]
    BY <1>2 DEF Statuses
  <2> QED
    BY <2>1, Nothing DEF Conflicting, Changes
<1> QED
  BY <1>1, <1>2, <1>3, <1>4

\* What applying a candidate to the table changes.
LEMMA AppliedShape ==
  ASSUME ShapeOK, NEW s \in Sessions, NEW w \in Cands, NEW others \in {"same", "active", "rejected"}
  PROVE  Applied(s, w, others) \in Changes
<1> DEFINE sco == TableRead(s)
           scope == ScopeOf[w]
           st == [c \in Cands |-> IF c = w THEN "active"
                                  ELSE IF c \in tx[s].group THEN others ELSE "same"]
           fk == sco.fk \cup ScopesOf({w} \cap Keys)
           cols == IF ~sco.exists THEN Scopes
                   ELSE IF sco.value[scope] = w /\ fk = sco.fk THEN {} ELSE Column(scope)
           value == [sco.value EXCEPT ![scope] = Shown(@, w)]
<1>1. sco \in Tables /\ scope \in Scopes
  BY Views, Constants
<1>2. st \in [Cands -> Statuses \cup {"same", "new"}]
  BY DEF Statuses
<1>3. cols \subseteq Scopes
  BY Constants DEF Column
<1>4. value \in Entries
  BY <1>1 DEF Tables, Entries, Shown
<1>5. fk \subseteq Scopes
  BY <1>1, Constants DEF Tables, ScopesOf
<1>6. Applied(s, w, others) = [NoChange EXCEPT !.st = st, !.touch = TRUE, !.insert = ~sco.exists,
                                               !.cols = cols, !.value = value, !.fk = fk]
  BY DEF Applied
<1>7. (~sco.exists) \in BOOLEAN
  OBVIOUS
<1> DEFINE new == ~sco.exists
<1> HIDE DEF sco, scope, st, cols, value, fk, new
<1>8. [NoChange EXCEPT !.st = st, !.touch = TRUE, !.insert = new] \in Changes
  BY <1>2, <1>7, Nothing DEF Changes, new
<1>9. \A d \in Changes : [d EXCEPT !.cols = cols, !.value = value, !.fk = fk] \in Changes
  BY <1>3, <1>4, <1>5 DEF Changes
<1>10. Applied(s, w, others) = [[NoChange EXCEPT !.st = st, !.touch = TRUE, !.insert = new]
                                  EXCEPT !.cols = cols, !.value = value, !.fk = fk]
  BY <1>6 DEF new
<1> QED
  BY <1>8, <1>9, <1>10

\* What has been flushed after a flush: nothing "new" remains.
LEMMA MergedShape ==
  ASSUME NEW d \in Flushed, NEW p \in Changes, status \in [Cands -> Statuses]
  PROVE  Merged(d, Settled(p)) \in Flushed
<1>1. Settled(p) \in Flushed
  <2>1. [c \in Cands |-> IF p.st[c] = "new" THEN (IF Revivable(c) THEN "pending" ELSE "same") ELSE p.st[c]]
          \in [Cands -> Statuses \cup {"same"}]
    BY DEF Changes, Statuses
  <2> QED
    BY <2>1 DEF Settled, Flushed, Changes, Statuses
<1>2. ASSUME NEW q \in Flushed PROVE Merged(d, q) \in Flushed
  <2>1. d \in Changes /\ q \in Changes
    BY DEF Flushed
  <2>2. [c \in Cands |-> IF q.st[c] = "same" THEN d.st[c] ELSE q.st[c]]
          \in [Cands -> Statuses \cup {"same"}]
    BY <2>1 DEF Flushed, Changes
  <2>3. [x \in Scopes |-> IF x \in q.cols THEN q.value[x] ELSE d.value[x]] \in Entries
    BY <2>1 DEF Changes, Entries
  <2>4. Merged(d, q) \in Changes
    BY <2>1, <2>2, <2>3 DEF Merged, Changes
  <2>5. \A c \in Cands : Merged(d, q).st[c] # "new"
    BY <2>2 DEF Merged, Statuses
  <2> QED
    BY <2>4, <2>5 DEF Flushed
<1> QED
  BY <1>1, <1>2

\* Opening a session, or a step of one, keeps the shape.
LEMMA StepShape ==
  ASSUME ShapeOK, NEW s \in Sessions, NEW t \in Txs,
         tx' = [tx EXCEPT ![s] = t], RowsKept, nsLock' \in Sessions \cup {NoSession}
  PROVE  ShapeOK'
BY DEF ShapeOK, RowsKept

\* A session that opens or goes on keeps the shape, whatever it is to do next.
LEMMA OpenShape ==
  ASSUME ShapeOK, NEW s \in Sessions, NEW t \in Txs, Open(s, t) \/ Step(s, t)
  PROVE  ShapeOK'
<1>1. tx' = [tx EXCEPT ![s] = t] /\ RowsKept /\ nsLock' = nsLock
  BY DEF Open, Step, Set
<1> QED
  BY <1>1, StepShape DEF ShapeOK

\* The opening of a session.
LEMMA BeginShape ==
  ASSUME ShapeOK, NEW s \in Sessions,
         \/ Promote(s) \/ TidyUp(s) \/ Purge(s)
         \/ \E c \in Cands : WriteCandidate(s, c)
         \/ \E scope \in Scopes : Resolve(s, scope) \/ ConfirmField(s, scope)
  PROVE  ShapeOK'
<1> USE DEF Stages
<1>1. CASE Promote(s)
  <2>1. [Closed EXCEPT !.at = "lock"] \in Txs
    BY Nothing DEF Txs
  <2> QED
    BY <1>1, <2>1, OpenShape DEF Promote
<1>2. CASE TidyUp(s)
  <2>1. [Closed EXCEPT !.at = "indexes"] \in Txs
    BY Nothing DEF Txs
  <2> QED
    BY <1>2, <2>1, OpenShape DEF TidyUp
<1>3. CASE Purge(s)
  <2> DEFINE cs == {c \in RepoCands : status[c] = "pending"}
             p == [NoChange EXCEPT !.st = St(cs, "absent")]
  <2>1. p \in Changes
    BY PlansShape, Constants DEF Statuses
  <2> HIDE DEF p
  <2>2. Plan(Closed, p, "commit") \in Txs
    BY <2>1, PlanShape, Nothing
  <2> QED
    BY <1>3, <2>2, OpenShape DEF Purge, p
<1>4. ASSUME NEW c \in Cands, WriteCandidate(s, c) PROVE ShapeOK'
  <2> DEFINE new == IF status[c] = "absent" THEN "new" ELSE "pending"
             p == [NoChange EXCEPT !.st = St({c}, new)]
  <2>1. p \in Changes
    BY PlansShape DEF Statuses
  <2> HIDE DEF p
  <2>2. Plan(Closed, p, "commit") \in Txs /\ Plan(Closed, p, "lock") \in Txs
    BY <2>1, PlanShape, Nothing
  <2> QED
    BY <1>4, <2>2, OpenShape DEF WriteCandidate, p
<1>5. ASSUME NEW scope \in Scopes, NEW winners \in SUBSET Cands, NEW losers,
             NEW next \in Stages, Resolution(s, scope, winners, losers, next)
      PROVE  ShapeOK'
  <2> DEFINE new == [c \in Cands |-> IF c \in winners THEN "pending"
                                     ELSE IF c \in losers THEN "rejected" ELSE "same"]
             st == [c \in Cands |-> IF new[c] = status[c] THEN "same" ELSE new[c]]
             p == [NoChange EXCEPT !.close = {scope}, !.st = st]
             t == [Closed EXCEPT !.group = winners]
  <2>1. st \in [Cands -> Statuses \cup {"same", "new"}]
    BY DEF Statuses
  <2> HIDE DEF st
  <2>2. p \in Changes
    BY <2>1, Nothing DEF Changes
  <2>3. t \in Txs
    BY Nothing DEF Txs
  <2> HIDE DEF p, t
  <2>4. Plan(t, p, next) \in Txs
    BY <2>2, <2>3, PlanShape
  <2> QED
    BY <1>5, <2>4, OpenShape DEF Resolution, p, t, st
<1>6. ASSUME NEW scope \in Scopes, Resolve(s, scope) PROVE ShapeOK'
  <2>1. open[scope] \ {NoCand} \subseteq Cands
    BY DEF ShapeOK
  <2> QED
    BY <1>5, <1>6, <2>1 DEF Resolve
<1>7. ASSUME NEW scope \in Scopes, ConfirmField(s, scope) PROVE ShapeOK'
  <2> DEFINE cs == {c \in Of(scope) \cap weak : status[c] = "pending"}
             t == [Closed EXCEPT !.group = cs, !.sco = table, !.pinned = TRUE]
             p == [NoChange EXCEPT !.firm = cs]
             q == [NoChange EXCEPT !.st = St(cs, "rejected")]
             x == IF scope \in Ruled THEN "single" ELSE "commit"
  <2>1. cs \in SUBSET Cands
    BY DEF Of
  <2> HIDE DEF cs
  <2>2. t \in Txs /\ p \in Changes /\ q \in Changes /\ x \in Stages
    BY <2>1, Nothing, PlansShape DEF Txs, ShapeOK, Statuses
  <2> HIDE DEF t, p, q, x
  <2>3. Plan(t, p, x) \in Txs /\ Plan(Closed, q, "commit") \in Txs
    BY <2>2, Nothing, PlanShape
  <2>4. Open(s, Plan(t, p, x)) \/ Open(s, Plan(Closed, q, "commit"))
    BY <1>7 DEF ConfirmField, cs, t, p, q, x
  <2> QED
    BY <2>3, <2>4, OpenShape
<1> QED
  BY <1>1, <1>2, <1>3, <1>4, <1>6, <1>7

\* A session whose conflict rows another one has closed.
LEMMA ClosedShape ==
  ASSUME NEW t \in Txs, NEW scopes
  PROVE  /\ WithClosed(t, scopes)
              = [t EXCEPT !.plan = [t.plan EXCEPT !.close = @ \ scopes],
                          !.done = [t.done EXCEPT !.close = @ \ scopes]]
         /\ WithClosed(t, scopes) \in Txs
<1>1. ASSUME NEW d \in Changes PROVE [d EXCEPT !.close = @ \ scopes] \in Changes
  BY DEF Changes
<1>2. ASSUME NEW d \in Flushed PROVE [d EXCEPT !.close = @ \ scopes] \in Flushed
  BY DEF Flushed, Changes
<1>3. t.plan \in Changes /\ t.done \in Flushed
  BY DEF Txs
<1>4. WithClosed(t, scopes)
        = [t EXCEPT !.plan = [t.plan EXCEPT !.close = @ \ scopes],
                    !.done = [t.done EXCEPT !.close = @ \ scopes]]
  BY DEF WithClosed, Txs
<1>5. WithClosed(t, scopes) \in Txs
  BY <1>1, <1>2, <1>3, <1>4 DEF Txs
<1> QED
  BY <1>4, <1>5

\* The steps of a session, its flushes, commit and rollback.
LEMMA GoOnShape ==
  ASSUME ShapeOK, NEW s \in Sessions, SessionStep(s) \/ Rollback(s)
  PROVE  ShapeOK'
<1> USE DEF Stages
<1>1. tx[s] \in Txs /\ tx[s].done \in Flushed /\ tx[s].plan \in Changes /\ tx[s].then \in Stages
  BY DEF ShapeOK, Txs
<1>2. ASSUME NEW x \in Stages, NEW p \in Changes PROVE Plan(tx[s], p, x) \in Txs
  BY <1>1, PlanShape
<1>3. ASSUME NEW cs \in SUBSET Cands PROVE Selected(s, cs) \in Txs
  BY <1>1 DEF Selected, Txs
<1>4. CASE LockAndSelect(s)
  <2>1. Selected(s, Pending(s)) \in Txs
    BY <1>3, Views
  <2>2. tx' = [tx EXCEPT ![s] = Selected(s, Pending(s))] /\ RowsKept /\ nsLock' = s
    BY <1>4 DEF LockAndSelect, Set
  <2> QED
    BY <2>1, <2>2, StepShape
<1>5. CASE LockTimeout(s)
  <2>1. ASSUME NEW x \in AfterPromote PROVE [tx[s] EXCEPT !.at = x] \in Txs
    BY <1>1 DEF Txs, AfterPromote
  <2> QED
    BY <1>5, <2>1, OpenShape DEF LockTimeout
<1>6. CASE SelectField(s)
  <2>1. {c \in Pending(s) : ScopeOf[c] \in ScopesOf(tx[s].group)} \in SUBSET Cands
    BY Views
  <2> QED
    BY <1>3, <1>6, <2>1, OpenShape DEF SelectField
<1>7. CASE NextGroup(s)
  <2>1. PICK scope \in ScopesOf(tx[s].todo) :
          LET g == tx[s].todo \cap Of(scope)
              t == [tx[s] EXCEPT !.todo = @ \ g]
          IN Step(s, IF OpenIn(s, scope) THEN t ELSE [t EXCEPT !.at = "decide", !.group = g])
    BY <1>7 DEF NextGroup
  <2> DEFINE g == tx[s].todo \cap Of(scope)
             t == [tx[s] EXCEPT !.todo = @ \ g]
  <2>2. t \in Txs /\ g \in SUBSET Cands
    BY <1>1 DEF Txs
  <2>3. Step(s, t) \/ Step(s, [t EXCEPT !.at = "decide", !.group = g])
    BY <2>1
  <2> HIDE DEF t, g
  <2>4. [t EXCEPT !.at = "decide", !.group = g] \in Txs
    BY <2>2 DEF Txs
  <2> QED
    BY <2>2, <2>3, <2>4, OpenShape
<1>8. CASE SkipGroup(s)
  <2>1. [tx[s] EXCEPT !.at = "group", !.group = {}] \in Txs
    BY <1>1 DEF Txs
  <2> QED
    BY <1>8, <2>1, OpenShape DEF SkipGroup
<1>9. ASSUME NEW p \in Changes, Decided(s, p) PROVE ShapeOK'
  <2>1. Plan(tx[s], p, "group") \in Txs
    BY <1>2
  <2>2. [Plan(tx[s], p, "group") EXCEPT !.group = {}] \in Txs
    BY <2>1 DEF Txs
  <2> QED
    BY <1>9, <2>2, OpenShape DEF Decided
<1>10. CASE DecideSingle(s)
  <2>1. PICK c \in Cands : Decided(s, IF Rivals(s) # {} THEN Conflicting(Rivals(s) \cup {c})
                                                       ELSE Applied(s, c, "same"))
    BY <1>10 DEF DecideSingle
  <2>2. Conflicting(Rivals(s) \cup {c}) \in Changes /\ Applied(s, c, "same") \in Changes
    BY PlansShape, AppliedShape DEF Rivals
  <2> QED
    BY <1>9, <2>1, <2>2
<1>11. CASE DecideMulti(s)
  <2>1. tx[s].group \in SUBSET Cands
    BY <1>1 DEF Txs
  <2>2. Conflicting(tx[s].group) \in Changes
    BY <2>1, PlansShape
  <2>3. \A w \in tx[s].group, others \in {"active", "rejected"} : Applied(s, w, others) \in Changes
    BY <2>1, AppliedShape
  <2> QED
    BY <1>9, <1>11, <2>2, <2>3 DEF DecideMulti
<1>12. CASE EndPromote(s)
  <2>1. ASSUME NEW x \in Stages PROVE [Closed EXCEPT !.at = x, !.done = tx[s].done] \in Txs
    BY <1>1, Nothing DEF Txs
  <2>2. AfterPromote \subseteq Stages
    BY DEF AfterPromote
  <2>3. PICK x \in Stages : tx' = [tx EXCEPT ![s] = [Closed EXCEPT !.at = x, !.done = tx[s].done]]
    BY <1>12, <2>2 DEF EndPromote, Set
  <2>4. RowsKept /\ nsLock' \in Sessions \cup {NoSession}
    BY <1>12 DEF EndPromote, Released, ShapeOK
  <2> QED
    BY <2>1, <2>3, <2>4, StepShape
<1>13. CASE BackfillIndexes(s)
  <2> DEFINE p == [NoChange EXCEPT !.touch = TRUE, !.cols = Ruled, !.value = TableIn(s).value]
  <2>1. p \in Changes
    BY Nothing, Views, Constants DEF Changes, Tables
  <2> HIDE DEF p
  <2>2. Plan(tx[s], p, "keys") \in Txs
    BY <1>2, <2>1
  <2> QED
    BY <1>13, <2>2, OpenShape DEF BackfillIndexes, p
<1>14. CASE DropStaleKeys(s)
  <2>1. PICK dropped \in SUBSET {x \in TableIn(s).fk : ~Protected(s, x)} :
          Step(s, IF dropped = {} THEN [tx[s] EXCEPT !.at = "commit"] ELSE
                  Plan(tx[s], [NoChange EXCEPT
                    !.touch = TRUE, !.cols = Scopes \ Ruled, !.fk = TableIn(s).fk \ dropped,
                    !.value = [x \in Scopes |-> IF x \in dropped THEN NoCand
                                                                 ELSE TableIn(s).value[x]]],
                    "commit"))
    BY <1>14 DEF DropStaleKeys
  <2> DEFINE value == [x \in Scopes |-> IF x \in dropped THEN NoCand ELSE TableIn(s).value[x]]
             p == [NoChange EXCEPT !.touch = TRUE, !.cols = Scopes \ Ruled,
                                   !.fk = TableIn(s).fk \ dropped, !.value = value]
  <2>2. value \in Entries
    BY Views DEF Tables, Entries
  <2> HIDE DEF value
  <2>3. p \in Changes
    BY <2>2, Nothing, Views, Constants DEF Changes, Tables
  <2> HIDE DEF p
  <2>4. Plan(tx[s], p, "commit") \in Txs /\ [tx[s] EXCEPT !.at = "commit"] \in Txs
    BY <1>1, <1>2, <2>3 DEF Txs
  <2> QED
    BY <2>1, <2>4, OpenShape DEF p, value
<1>15. CASE Flush(s)
  <2>1. Merged(tx[s].done, Settled(tx[s].plan)) \in Flushed
    BY <1>1, MergedShape DEF ShapeOK
  <2>2. ASSUME NEW d \in Flushed
        PROVE  [tx[s] EXCEPT !.at = tx[s].then, !.then = "idle", !.done = d, !.plan = NoChange] \in Txs
    BY <1>1, Nothing DEF Txs
  <2> QED
    BY <1>15, <2>1, <2>2, OpenShape DEF Flush
<1>16. CASE Rollback(s) \/ FlushFails(s)
  <2>1. tx' = [tx EXCEPT ![s] = Closed] /\ RowsKept /\ nsLock' \in Sessions \cup {NoSession}
    BY <1>16 DEF Rollback, FlushFails, Set, Released, ShapeOK
  <2> QED
    BY <2>1, Nothing, StepShape
<1>17. CASE Commit(s)
  <2>1. status' \in [Cands -> Statuses] /\ weak' \in SUBSET Evidence /\ table' \in Tables
    BY <1>17, Views DEF Commit
  <2>2. open' \in [Scopes -> SUBSET (Cands \cup {NoCand})]
    <3>1. tx[s].done.opened \subseteq Cands
      BY <1>1 DEF Flushed, Changes
    <3> QED
      BY <1>17, <3>1 DEF Commit, ShapeOK
  <2>3. ASSUME NEW t \in Txs, NEW scopes, NEW cs \in SUBSET Cands
        PROVE  WithDeleted(WithClosed(t, scopes), cs) \in Txs
    BY ClosedShape DEF WithDeleted, Txs
  <2>4. tx' \in [Sessions -> Txs]
    BY <1>17, <2>3, Nothing DEF Commit, ShapeOK
  <2>5. nsLock' = nsLock
    BY <1>17 DEF Commit
  <2> QED
    BY <2>1, <2>2, <2>4, <2>5 DEF ShapeOK
<1> QED
  BY <1>4, <1>5, <1>6, <1>7, <1>8, <1>10, <1>11, <1>12, <1>13, <1>14, <1>15, <1>16, <1>17
  DEF SessionStep

\* The transactions of one step.
LEMMA ShortShape ==
  ASSUME ShapeOK, DeleteRepo \/ DeleteSource \/ DeleteTable \/ ToggleLock \/ Patch
  PROVE  ShapeOK'
<1> USE DEF ShapeOK
<1>1. ASSUME NEW cs PROVE [c \in Cands |-> IF c \in cs THEN "orphaned" ELSE status[c]] \in [Cands -> Statuses]
  BY DEF Statuses
<1>2. ASSUME NEW closed, TableGone(closed) PROVE tx' \in [Sessions -> Txs]
  <2>1. ASSUME NEW u \in Sessions
        PROVE  [WithClosed(tx[u], closed) EXCEPT !.gone = tx[u].pinned \/ tx[u].plan.touch] \in Txs
    <3>1. WithClosed(tx[u], closed) \in Txs
      BY ClosedShape
    <3>2. (tx[u].pinned \/ tx[u].plan.touch) \in BOOLEAN
      OBVIOUS
    <3> QED
      BY <3>1, <3>2 DEF Txs
  <2> QED
    BY <1>2, <2>1 DEF TableGone
<1>3. CASE DeleteRepo
  BY <1>1, <1>3 DEF DeleteRepo, Orphaned
<1>4. CASE DeleteSource
  BY <1>1, <1>2, <1>4, Nothing DEF DeleteSource, Orphaned
<1>5. CASE DeleteTable
  <2>1. status' \in [Cands -> Statuses]
    BY <1>1, <1>5 DEF DeleteTable, Orphaned
  <2>2. tx' \in [Sessions -> Txs]
    BY <1>2, <1>5 DEF DeleteTable
  <2> QED
    BY <1>5, <2>1, <2>2, Nothing DEF DeleteTable
<1>6. CASE ToggleLock
  <2>1. [table EXCEPT !.locked = ~@] \in Tables
    BY DEF Tables
  <2> QED
    BY <1>6, <2>1 DEF ToggleLock
<1>7. CASE Patch
  <2>1. ASSUME NEW column, NEW edited, NEW written
        PROVE  Edited(column, edited, written) \in Tables
    <3>1. [x \in Scopes |-> IF x \in written THEN ByUser
                            ELSE IF x \in edited THEN NoCand ELSE table.value[x]] \in Entries
      BY DEF Tables, Entries
    <3> QED
      BY <3>1 DEF Tables, Edited
  <2> QED
    BY <1>7, <2>1 DEF Patch
<1> QED
  BY <1>3, <1>4, <1>5, <1>6, <1>7

\* Every step keeps the shape.
LEMMA ShapeStep == ShapeOK /\ [Next]_vars => ShapeOK'
<1> SUFFICES ASSUME ShapeOK, [Next]_vars PROVE ShapeOK'
  OBVIOUS
<1>1. CASE UNCHANGED vars
  BY <1>1 DEF vars, ShapeOK
<1>2. CASE Next
  BY <1>2, BeginShape, GoOnShape, ShortShape DEF Next
<1> QED
  BY <1>1, <1>2

\* The shape of the first state.
LEMMA ShapeInit == Init => ShapeOK
BY Nothing DEF Init, ShapeOK, Statuses

\* The state has its shape; nothing flushed is "new".
THEOREM ShapeAlways == Spec => []ShapeOK
BY ShapeInit, ShapeStep, PTL DEF Spec

\* Type correctness of the candidates, the table and the sessions.
THEOREM TypeCorrect == Spec => []TypeOK
<1>1. ShapeOK => TypeOK
  <2> SUFFICES ASSUME ShapeOK, NEW s \in Sessions
               PROVE  /\ tx[s].at \in Stages /\ tx[s].then \in Stages
                      /\ tx[s].pinned \in BOOLEAN /\ tx[s].gone \in BOOLEAN
                      /\ tx[s].todo \in SUBSET Cands /\ tx[s].soft \in SUBSET Cands
                      /\ tx[s].group \in SUBSET Cands /\ tx[s].lost \in SUBSET Cands
                      /\ tx[s].sco \in Tables /\ tx[s].plan \in Changes /\ tx[s].done \in Changes
    BY DEF TypeOK, ShapeOK
  <2>1. tx[s] \in Txs
    BY DEF ShapeOK
  <2> QED
    BY <2>1 DEF Txs, Flushed
<1> QED
  BY <1>1, ShapeAlways, PTL

----------------------------------------------------------------------------
(* A candidate in conflict is listed by the open conflict of its scope, with *)
(* any number of overlapping transactions.  What keeps it so are the locks   *)
(* of the flushed rows and the index that admits one open conflict a scope.  *)

\* No two sessions hold the conflicts of one scope.
LocksApart ==
  \A s, u \in Sessions :
    s # u => ScopeLocks(tx[s].done) \cap ScopeLocks(tx[u].done) = {}

\* A scope for which a session has opened a conflict has no other one, unless the
\* session has closed that.
OpensFreeScopes ==
  \A s \in Sessions : \A k \in ScopesOf(tx[s].done.opened) :
    open[k] = {} \/ k \in tx[s].done.close

\* Conflicts to be closed are open.
ClosesOpenScopes ==
  \A s \in Sessions : \A k \in tx[s].plan.close \cup tx[s].done.close : open[k] # {}

\* A change that puts a candidate in conflict opens the conflict that lists it.
Lists(d) == \A c \in Cands : d.st[c] = "in_conflict" => c \in d.opened
ListsConflicts == \A s \in Sessions : Lists(tx[s].plan) /\ Lists(tx[s].done)

\* Who closes a conflict decides on everything that is in conflict there.
SettlesConflicts ==
  \A s \in Sessions, c \in Cands :
    status[c] = "in_conflict" =>
      /\ ScopeOf[c] \in tx[s].plan.close => tx[s].plan.st[c] \in {"pending", "rejected"}
      /\ ScopeOf[c] \in tx[s].done.close => tx[s].done.st[c] # "same"

ConflictInv ==
  /\ LocksApart /\ OpensFreeScopes /\ ClosesOpenScopes
  /\ ListsConflicts /\ SettlesConflicts /\ InConflictIsListed

\* A plan that closes no conflict.
Calm(p) == p.close = {} /\ Lists(p)

\* The plans that close no conflict: no change, a confirmation, new statuses, a
\* conflict of their own, an applied candidate.
LEMMA CalmPlans ==
  /\ Calm(NoChange) /\ ScopeLocks(NoChange) = {}
  /\ \A cs : Calm([NoChange EXCEPT !.firm = cs]) /\ Calm(Conflicting(cs))
  /\ \A cs, new : new # "in_conflict" => Calm([NoChange EXCEPT !.st = St(cs, new)])
  /\ \A s, w, others : others # "in_conflict" => Calm(Applied(s, w, others))
BY DEF Calm, Lists, NoChange, Conflicting, St, Applied, ScopeLocks, ScopesOf

\* A session goes on and has flushed nothing more than before, or nothing at all:
\* what it will flush is as before or closes no conflict.
LEMMA Quiet ==
  ASSUME ShapeOK, ConflictInv, NEW s \in Sessions, NEW t,
         tx' = [tx EXCEPT ![s] = t], RowsKept,
         t.done = tx[s].done \/ t.done = NoChange,
         t.plan = tx[s].plan \/ Calm(t.plan)
  PROVE  ConflictInv'
<1>1. tx'[s] = t /\ \A u \in Sessions : u # s => tx'[u] = tx[u]
  BY DEF ShapeOK
<1>2. status' = status /\ open' = open
  BY DEF RowsKept
<1>3. NoChange.close = {} /\ ScopesOf(NoChange.opened) = {} /\ Lists(NoChange)
  BY CalmPlans DEF Calm, ScopeLocks
<1>4. LocksApart'
  BY <1>1, CalmPlans DEF ConflictInv, LocksApart
<1>5. OpensFreeScopes'
  BY <1>1, <1>2, <1>3 DEF ConflictInv, OpensFreeScopes
<1>6. ClosesOpenScopes'
  BY <1>1, <1>2, <1>3 DEF ConflictInv, ClosesOpenScopes, Calm
<1>7. ListsConflicts'
  BY <1>1, <1>3 DEF ConflictInv, ListsConflicts, Calm
<1>8. SettlesConflicts'
  BY <1>1, <1>2, <1>3 DEF ConflictInv, SettlesConflicts, Calm
<1>9. InConflictIsListed'
  BY <1>2 DEF ConflictInv, InConflictIsListed
<1> QED
  BY <1>4, <1>5, <1>6, <1>7, <1>8, <1>9 DEF ConflictInv

\* As Quiet, for a session that opens or goes on.
LEMMA QuietStep ==
  ASSUME ShapeOK, ConflictInv, NEW s \in Sessions, NEW t, Open(s, t) \/ Step(s, t),
         t.done = tx[s].done \/ t.done = NoChange,
         t.plan = tx[s].plan \/ Calm(t.plan)
  PROVE  ConflictInv'
<1>1. tx' = [tx EXCEPT ![s] = t] /\ RowsKept
  BY DEF Open, Step, Set
<1> QED
  BY <1>1, Quiet

\* A plan replaces the plan and nothing flushed.
LEMMA PlanFields ==
  ASSUME NEW t \in Txs, NEW p, NEW x
  PROVE  Plan(t, p, x).plan = p /\ Plan(t, p, x).done = t.done
BY DEF Plan, Txs

\* An idle session plans and has flushed nothing.
LEMMA ClosedFields == Closed.plan = NoChange /\ Closed.done = NoChange /\ Closed \in Txs
BY Nothing DEF Closed

\* Opening a session changes no row, and it closes a conflict only to settle it.
LEMMA BeginConflict ==
  ASSUME ShapeOK, ConflictInv, NEW s \in Sessions,
         \/ Promote(s) \/ TidyUp(s) \/ Purge(s)
         \/ \E c \in Cands : WriteCandidate(s, c)
         \/ \E scope \in Scopes : Resolve(s, scope) \/ ConfirmField(s, scope)
  PROVE  ConflictInv'
<1>1. CASE Promote(s)
  <2>1. [Closed EXCEPT !.at = "lock"].done = NoChange /\ [Closed EXCEPT !.at = "lock"].plan = NoChange
    BY DEF Closed
  <2> QED
    BY <1>1, <2>1, CalmPlans, QuietStep DEF Promote
<1>2. CASE TidyUp(s)
  <2>1. [Closed EXCEPT !.at = "indexes"].done = NoChange /\ [Closed EXCEPT !.at = "indexes"].plan = NoChange
    BY DEF Closed
  <2> QED
    BY <1>2, <2>1, CalmPlans, QuietStep DEF TidyUp
<1>3. ASSUME NEW p, NEW x, Calm(p), Open(s, Plan(Closed, p, x)) PROVE ConflictInv'
  <2>1. Plan(Closed, p, x).plan = p /\ Plan(Closed, p, x).done = NoChange
    BY PlanFields, ClosedFields
  <2> QED
    BY <1>3, <2>1, QuietStep
<1>4. CASE Purge(s)
  BY <1>3, <1>4, CalmPlans DEF Purge
<1>5. ASSUME NEW c \in Cands, WriteCandidate(s, c) PROVE ConflictInv'
  <2> DEFINE new == IF status[c] = "absent" THEN "new" ELSE "pending"
  <2>1. Calm([NoChange EXCEPT !.st = St({c}, new)])
    BY CalmPlans
  <2> QED
    BY <1>3, <1>5, <2>1 DEF WriteCandidate
<1>6. ASSUME NEW scope \in Scopes, NEW winners \in SUBSET Cands, NEW losers, NEW next \in Stages,
             open[scope] # {}, open[scope] \cap Cands \subseteq winners \cup losers,
             Resolution(s, scope, winners, losers, next)
      PROVE  ConflictInv'
  <2> DEFINE new == [c \in Cands |-> IF c \in winners THEN "pending"
                                     ELSE IF c \in losers THEN "rejected" ELSE "same"]
             st == [c \in Cands |-> IF new[c] = status[c] THEN "same" ELSE new[c]]
             p == [NoChange EXCEPT !.close = {scope}, !.st = st]
             t == [Closed EXCEPT !.group = winners]
  <2>1. t \in Txs /\ t.done = NoChange
    BY Nothing DEF Txs, Closed
  <2>2. p.close = {scope} /\ p.st = st
    BY DEF NoChange
  <2> HIDE DEF p, t
  <2>3. Plan(t, p, next).plan = p /\ Plan(t, p, next).done = NoChange
    BY <2>1, PlanFields
  <2>4. Open(s, Plan(t, p, next))
    BY <1>6 DEF Resolution, p, t
  <2>5. /\ tx'[s].plan = p /\ tx'[s].done = NoChange
        /\ \A u \in Sessions : u # s => tx'[u] = tx[u]
    BY <2>3, <2>4 DEF Open, Set, ShapeOK
  <2>6. status' = status /\ open' = open
    BY <2>4 DEF Open, RowsKept
  <2>7. NoChange.close = {} /\ ScopesOf(NoChange.opened) = {} /\ Lists(NoChange)
    BY CalmPlans DEF Calm, ScopeLocks
  <2>8. LocksApart'
    BY <2>5, CalmPlans DEF ConflictInv, LocksApart
  <2>9. OpensFreeScopes'
    BY <2>5, <2>6, <2>7 DEF ConflictInv, OpensFreeScopes
  <2>10. ClosesOpenScopes'
    BY <1>6, <2>2, <2>5, <2>6, <2>7 DEF ConflictInv, ClosesOpenScopes
  <2>11. \A c \in Cands : st[c] # "in_conflict"
    OBVIOUS
  <2>12. ListsConflicts'
    BY <2>2, <2>5, <2>7, <2>11 DEF ConflictInv, ListsConflicts, Lists
  <2>13. ASSUME NEW c \in Cands, status[c] = "in_conflict", ScopeOf[c] = scope
         PROVE  st[c] \in {"pending", "rejected"}
    <3>1. c \in winners \cup losers
      BY <1>6, <2>13 DEF ConflictInv, InConflictIsListed
    <3> QED
      BY <2>13, <3>1
  <2> HIDE DEF st
  <2>14. SettlesConflicts'
    BY <2>2, <2>5, <2>6, <2>7, <2>13 DEF ConflictInv, SettlesConflicts
  <2>15. InConflictIsListed'
    BY <2>6 DEF ConflictInv, InConflictIsListed
  <2> QED
    BY <2>8, <2>9, <2>10, <2>12, <2>14, <2>15 DEF ConflictInv
<1>7. ASSUME NEW scope \in Scopes, Resolve(s, scope) PROVE ConflictInv'
  <2> DEFINE listed == open[scope] \ {NoCand}
  <2>1. listed \subseteq Cands /\ open[scope] \cap Cands = listed /\ open[scope] # {}
    BY <1>7, Constants DEF ShapeOK, Resolve
  <2>2. CASE \E w \in listed : Resolution(s, scope, {w}, listed \ {w}, "single")
    <3>1. PICK w \in listed : Resolution(s, scope, {w}, listed \ {w}, "single")
      BY <2>2
    <3>2. open[scope] \cap Cands \subseteq {w} \cup (listed \ {w}) /\ {w} \in SUBSET Cands
      BY <2>1
    <3> QED
      BY <1>6, <2>1, <3>1, <3>2 DEF Stages
  <2>3. CASE Resolution(s, scope, {}, listed, "commit")
    BY <1>6, <2>1, <2>3 DEF Stages
  <2> QED
    BY <1>7, <2>2, <2>3 DEF Resolve
<1>8. ASSUME NEW scope \in Scopes, ConfirmField(s, scope) PROVE ConflictInv'
  <2> DEFINE cs == {c \in Of(scope) \cap weak : status[c] = "pending"}
             t == [Closed EXCEPT !.group = cs, !.sco = table, !.pinned = TRUE]
             p == [NoChange EXCEPT !.firm = cs]
             q == [NoChange EXCEPT !.st = St(cs, "rejected")]
             x == IF scope \in Ruled THEN "single" ELSE "commit"
  <2>1. cs \in SUBSET Cands /\ table \in Tables
    BY DEF Of, ShapeOK
  <2>2. Calm(p) /\ Calm(q)
    BY CalmPlans
  <2> HIDE DEF cs
  <2>3. t \in Txs /\ t.done = NoChange
    BY <2>1, Nothing DEF Txs, Closed
  <2> HIDE DEF t, p, q, x
  <2>4. Open(s, Plan(t, p, x)) \/ Open(s, Plan(Closed, q, "commit"))
    BY <1>8 DEF ConfirmField, cs, t, p, q, x
  <2>5. Plan(t, p, x).plan = p /\ Plan(t, p, x).done = NoChange
    BY <2>3, PlanFields
  <2> QED
    BY <1>3, <2>2, <2>4, <2>5, QuietStep
<1> QED
  BY <1>1, <1>2, <1>4, <1>5, <1>7, <1>8

\* What a flush adds: it waits for the rows of the others, and it fails where
\* another conflict of the scope is open.
LEMMA FlushConflict ==
  ASSUME ShapeOK, ConflictInv, NEW s \in Sessions, Flush(s)
  PROVE  ConflictInv'
<1> DEFINE d == tx[s].done
           p == tx[s].plan
           q == Settled(p)
           m == Merged(d, q)
<1>1. d \in Flushed /\ p \in Changes
  BY DEF ShapeOK, Txs
<1>2. /\ tx' = [tx EXCEPT ![s] = [tx[s] EXCEPT !.at = tx[s].then, !.then = "idle",
                                               !.done = m, !.plan = NoChange]]
      /\ RowsKept
  BY DEF Flush, Step, Set
<1>3. /\ tx'[s].done = m /\ tx'[s].plan = NoChange
      /\ \A u \in Sessions : u # s => tx'[u] = tx[u]
  BY <1>2 DEF ShapeOK, Txs
<1>4. status' = status /\ open' = open
  BY <1>2 DEF RowsKept
<1>5. /\ q.close = p.close /\ q.opened = p.opened
      /\ \A c \in Cands : p.st[c] # "new" => q.st[c] = p.st[c]
      /\ \A c \in Cands : p.st[c] = "new" => q.st[c] \in {"pending", "same"}
  BY <1>1 DEF Settled, Changes
<1> HIDE DEF q
<1>6. /\ m.close = d.close \cup p.close /\ m.opened = d.opened \cup p.opened
      /\ \A c \in Cands : m.st[c] = IF q.st[c] = "same" THEN d.st[c] ELSE q.st[c]
  BY <1>5 DEF Merged
<1> HIDE DEF m, d, p
<1>7. ScopeLocks(m) = ScopeLocks(d) \cup ScopeLocks(p)
      /\ ScopesOf(m.opened) = ScopesOf(d.opened) \cup ScopesOf(p.opened)
  BY <1>6 DEF ScopeLocks, ScopesOf
<1>8. \A u \in Sessions : u # s => ScopeLocks(p) \cap ScopeLocks(tx[u].done) = {}
  BY DEF Flush, BlockedBy, Clash, p
<1>9. \A k \in ScopesOf(p.opened) : open[k] = {} \/ k \in d.close
  BY DEF Flush, Rejected, p, d
<1>10. LocksApart'
  BY <1>3, <1>7, <1>8 DEF ConflictInv, LocksApart, d
<1>11. OpensFreeScopes'
  BY <1>3, <1>4, <1>6, <1>7, <1>9 DEF ConflictInv, OpensFreeScopes, d
<1>12. NoChange.close = {} /\ Lists(NoChange)
  BY CalmPlans DEF Calm
<1>13. ClosesOpenScopes'
  BY <1>3, <1>4, <1>6, <1>12 DEF ConflictInv, ClosesOpenScopes, d, p
<1>14. Lists(m)
  BY <1>5, <1>6 DEF ConflictInv, ListsConflicts, Lists, d, p
<1>15. ListsConflicts'
  BY <1>3, <1>12, <1>14 DEF ConflictInv, ListsConflicts
<1>16. ASSUME NEW c \in Cands, status[c] = "in_conflict", ScopeOf[c] \in m.close
       PROVE  m.st[c] # "same"
  <2>1. CASE ScopeOf[c] \in p.close
    <3>1. p.st[c] \in {"pending", "rejected"}
      BY <1>16, <2>1 DEF ConflictInv, SettlesConflicts, p
    <3> QED
      BY <1>5, <1>6, <3>1
  <2>2. CASE ScopeOf[c] \in d.close
    <3>1. d.st[c] # "same"
      BY <1>16, <2>2 DEF ConflictInv, SettlesConflicts, d
    <3> QED
      BY <1>6, <3>1
  <2> QED
    BY <1>6, <1>16, <2>1, <2>2
<1>17. SettlesConflicts'
  BY <1>3, <1>4, <1>12, <1>16 DEF ConflictInv, SettlesConflicts
<1>18. InConflictIsListed'
  BY <1>4 DEF ConflictInv, InConflictIsListed
<1> QED
  BY <1>10, <1>11, <1>13, <1>15, <1>17, <1>18 DEF ConflictInv

\* A commit: the conflicts it has closed are the work of no other session.
LEMMA CommitConflict ==
  ASSUME ShapeOK, ConflictInv, NEW s \in Sessions, Commit(s)
  PROVE  ConflictInv'
<1> DEFINE d == tx[s].done
           deleted == {c \in Cands : d.st[c] = "absent"}
           After(u) == WithDeleted(WithClosed(tx[u], d.close), deleted)
<1>1. d \in Flushed /\ d.opened \subseteq Cands /\ d.close \subseteq Scopes
      /\ ScopesOf(d.opened) \subseteq Scopes
  BY Constants DEF ShapeOK, Txs, Flushed, Changes, ScopesOf
<1>2. tx'[s].plan = NoChange /\ tx'[s].done = NoChange
  BY DEF Commit, Closed
<1>3. ASSUME NEW u \in Sessions, u # s
      PROVE  /\ tx'[u].plan.st = tx[u].plan.st /\ tx'[u].done.st = tx[u].done.st
             /\ tx'[u].plan.opened = tx[u].plan.opened /\ tx'[u].done.opened = tx[u].done.opened
             /\ tx'[u].plan.close = tx[u].plan.close \ d.close
             /\ tx'[u].done.close = tx[u].done.close \ d.close
  <2>1. tx'[u] = After(u)
    BY <1>3 DEF Commit
  <2>2. tx[u] \in Txs
    BY DEF ShapeOK
  <2> DEFINE w == WithClosed(tx[u], d.close)
  <2>3. /\ w = [tx[u] EXCEPT !.plan = [tx[u].plan EXCEPT !.close = @ \ d.close],
                             !.done = [tx[u].done EXCEPT !.close = @ \ d.close]]
        /\ w \in Txs
    BY <2>2, ClosedShape
  <2>4. /\ w.plan = [tx[u].plan EXCEPT !.close = @ \ d.close]
        /\ w.done = [tx[u].done EXCEPT !.close = @ \ d.close]
    BY <2>2, <2>3 DEF Txs
  <2>5. After(u) = WithDeleted(w, deleted)
    OBVIOUS
  <2> HIDE DEF w
  <2>6. After(u).plan = w.plan /\ After(u).done = w.done
    BY <2>3, <2>5 DEF WithDeleted, Txs
  <2> HIDE DEF After
  <2>7. tx[u].plan \in Changes /\ tx[u].done \in Changes
    BY <2>2 DEF Txs, Flushed
  <2> QED
    BY <2>1, <2>4, <2>6, <2>7 DEF Changes
<1>4. \A u \in Sessions : u # s => ScopeLocks(tx[u].done) \cap ScopeLocks(d) = {}
  BY DEF ConflictInv, LocksApart
<1>5. \A k \in Scopes :
        /\ k \in ScopesOf(d.opened) => open'[k] = d.opened \cap Of(k)
        /\ k \notin ScopesOf(d.opened) /\ k \in d.close => open'[k] = {}
        /\ k \notin ScopeLocks(d) =>
             open'[k] = {IF c \in deleted THEN NoCand ELSE c : c \in open[k]}
  BY DEF Commit, ScopeLocks
<1>6. \A c \in Cands : status'[c] = IF d.st[c] = "same" THEN status[c] ELSE d.st[c]
  BY DEF Commit, StatusIn
<1>7. NoChange.close = {} /\ ScopesOf(NoChange.opened) = {} /\ Lists(NoChange)
      /\ ScopeLocks(NoChange) = {}
  BY CalmPlans DEF Calm, ScopeLocks
<1> HIDE DEF After
<1>8. LocksApart'
  BY <1>2, <1>3, <1>7 DEF ConflictInv, LocksApart, ScopeLocks
<1>9. \A k \in Scopes : k \notin ScopeLocks(d) /\ open[k] = {} => open'[k] = {}
  BY <1>5
<1>10. OpensFreeScopes'
  <2> SUFFICES ASSUME NEW u \in Sessions, u # s, NEW k \in ScopesOf(tx[u].done.opened)
               PROVE  open'[k] = {} \/ k \in tx[u].done.close \ d.close
    BY <1>2, <1>3, <1>7 DEF OpensFreeScopes
  <2>1. k \notin ScopeLocks(d)
    BY <1>4 DEF ScopeLocks
  <2>2. k \in Scopes
    BY Constants DEF ShapeOK, Txs, Flushed, Changes, ScopesOf
  <2>3. open[k] = {} \/ k \in tx[u].done.close
    BY DEF ConflictInv, OpensFreeScopes
  <2> QED
    BY <1>9, <2>1, <2>2, <2>3 DEF ScopeLocks
<1>11. \A k \in Scopes : open[k] # {} /\ k \notin d.close => open'[k] # {}
  <2> SUFFICES ASSUME NEW k \in Scopes, open[k] # {}, k \notin d.close PROVE open'[k] # {}
    OBVIOUS
  <2>1. CASE k \in ScopesOf(d.opened)
    BY <1>1, <1>5, <2>1 DEF ScopesOf, Of
  <2>2. CASE k \notin ScopesOf(d.opened)
    BY <1>5, <2>2 DEF ScopeLocks
  <2> QED
    BY <2>1, <2>2
<1>12. ClosesOpenScopes'
  <2> SUFFICES ASSUME NEW u \in Sessions, u # s,
                      NEW k \in (tx[u].plan.close \cup tx[u].done.close) \ d.close
               PROVE  open'[k] # {}
    BY <1>2, <1>3, <1>7 DEF ClosesOpenScopes
  <2>1. k \in Scopes
    BY DEF ShapeOK, Txs, Flushed, Changes
  <2> QED
    BY <1>11, <2>1 DEF ConflictInv, ClosesOpenScopes
<1>13. ListsConflicts'
  BY <1>2, <1>3, <1>7 DEF ConflictInv, ListsConflicts, Lists
<1>14. \A c \in Cands : d.st[c] = "in_conflict" => c \in d.opened
  BY DEF ConflictInv, ListsConflicts, Lists
<1>15. SettlesConflicts'
  <2> SUFFICES ASSUME NEW u \in Sessions, u # s, NEW c \in Cands, status'[c] = "in_conflict"
               PROVE  /\ ScopeOf[c] \in tx[u].plan.close \ d.close =>
                           tx[u].plan.st[c] \in {"pending", "rejected"}
                      /\ ScopeOf[c] \in tx[u].done.close \ d.close => tx[u].done.st[c] # "same"
    BY <1>2, <1>3, <1>7 DEF SettlesConflicts
  <2>1. CASE status[c] = "in_conflict"
    BY <2>1 DEF ConflictInv, SettlesConflicts
  <2>2. CASE status[c] # "in_conflict"
    <3>1. ScopeOf[c] \in ScopesOf(d.opened)
      BY <1>6, <1>14, <2>2 DEF ScopesOf
    <3>2. open[ScopeOf[c]] = {} \/ ScopeOf[c] \in d.close
      BY <3>1 DEF ConflictInv, OpensFreeScopes
    <3> QED
      BY <3>2 DEF ConflictInv, ClosesOpenScopes
  <2> QED
    BY <2>1, <2>2
<1>16. InConflictIsListed'
  <2> SUFFICES ASSUME NEW c \in Cands, status'[c] = "in_conflict" PROVE c \in open'[ScopeOf[c]]
    BY DEF InConflictIsListed
  <2>1. ScopeOf[c] \in Scopes
    BY Constants
  <2>2. CASE d.st[c] # "same"
    <3>1. c \in d.opened
      BY <1>6, <1>14, <2>2
    <3> QED
      BY <1>5, <2>1, <3>1 DEF ScopesOf, Of
  <2>3. CASE d.st[c] = "same"
    <3>1. status[c] = "in_conflict" /\ c \in open[ScopeOf[c]]
      BY <1>6, <2>3 DEF ConflictInv, InConflictIsListed
    <3>2. ScopeOf[c] \notin d.close
      BY <2>3, <3>1 DEF ConflictInv, SettlesConflicts
    <3>3. ScopeOf[c] \notin ScopeLocks(d)
      BY <3>1, <3>2 DEF ConflictInv, OpensFreeScopes, ScopeLocks
    <3>4. c \notin deleted
      BY <2>3
    <3> QED
      BY <1>5, <2>1, <3>1, <3>3, <3>4
  <2> QED
    BY <2>2, <2>3
<1> QED
  BY <1>8, <1>10, <1>12, <1>13, <1>15, <1>16 DEF ConflictInv

\* The steps of a session.
LEMMA GoOnConflict ==
  ASSUME ShapeOK, ConflictInv, NEW s \in Sessions, SessionStep(s) \/ Rollback(s)
  PROVE  ConflictInv'
<1>1. tx[s] \in Txs
  BY DEF ShapeOK
<1>2. CASE LockAndSelect(s) \/ SelectField(s)
  <2>1. \A cs : Selected(s, cs).plan = tx[s].plan /\ Selected(s, cs).done = tx[s].done
    BY <1>1 DEF Selected, Txs
  <2>2. PICK cs : tx' = [tx EXCEPT ![s] = Selected(s, cs)] /\ RowsKept
    BY <1>2 DEF LockAndSelect, SelectField, Step, Set
  <2> QED
    BY <2>1, <2>2, Quiet
<1>3. CASE LockTimeout(s)
  <2>1. PICK x : Step(s, [tx[s] EXCEPT !.at = x])
    BY <1>3 DEF LockTimeout
  <2>2. [tx[s] EXCEPT !.at = x].plan = tx[s].plan /\ [tx[s] EXCEPT !.at = x].done = tx[s].done
    BY <1>1 DEF Txs
  <2> QED
    BY <2>1, <2>2, QuietStep
<1>4. CASE NextGroup(s)
  <2>1. PICK scope \in ScopesOf(tx[s].todo) :
          LET g == tx[s].todo \cap Of(scope)
              t == [tx[s] EXCEPT !.todo = @ \ g]
          IN Step(s, IF OpenIn(s, scope) THEN t ELSE [t EXCEPT !.at = "decide", !.group = g])
    BY <1>4 DEF NextGroup
  <2> DEFINE g == tx[s].todo \cap Of(scope)
             t == [tx[s] EXCEPT !.todo = @ \ g]
             v == [t EXCEPT !.at = "decide", !.group = g]
  <2>2. Step(s, t) \/ Step(s, v)
    BY <2>1
  <2>3. t.plan = tx[s].plan /\ t.done = tx[s].done /\ v.plan = tx[s].plan /\ v.done = tx[s].done
    BY <1>1 DEF Txs
  <2> HIDE DEF t, v
  <2> QED
    BY <2>2, <2>3, QuietStep
<1>5. CASE SkipGroup(s)
  <2> DEFINE t == [tx[s] EXCEPT !.at = "group", !.group = {}]
  <2>1. t.plan = tx[s].plan /\ t.done = tx[s].done /\ Step(s, t)
    BY <1>1, <1>5 DEF Txs, SkipGroup
  <2> HIDE DEF t
  <2> QED
    BY <2>1, QuietStep
<1>6. ASSUME NEW p, NEW x, Calm(p), Step(s, Plan(tx[s], p, x)) PROVE ConflictInv'
  BY <1>1, <1>6, PlanFields, QuietStep
<1>7. ASSUME NEW p, Calm(p), Decided(s, p) PROVE ConflictInv'
  <2> DEFINE t == Plan(tx[s], p, "group")
             v == [t EXCEPT !.group = {}]
  <2>1. v.plan = p /\ v.done = tx[s].done
    BY <1>1 DEF Plan, Txs
  <2>2. Step(s, v)
    BY <1>7 DEF Decided
  <2> HIDE DEF v
  <2> QED
    BY <1>7, <2>1, <2>2, QuietStep
<1>8. CASE DecideSingle(s)
  <2>1. PICK c \in Cands : Decided(s, IF Rivals(s) # {} THEN Conflicting(Rivals(s) \cup {c})
                                                       ELSE Applied(s, c, "same"))
    BY <1>8 DEF DecideSingle
  <2> QED
    BY <1>7, <2>1, CalmPlans
<1>9. CASE DecideMulti(s)
  <2>1. \A w : Calm(Applied(s, w, "active")) /\ Calm(Applied(s, w, "rejected"))
    BY CalmPlans
  <2>2. Calm(Conflicting(tx[s].group))
    BY CalmPlans
  <2> QED
    BY <1>7, <1>9, <2>1, <2>2 DEF DecideMulti
<1>10. CASE EndPromote(s)
  <2>1. PICK x : tx' = [tx EXCEPT ![s] = [Closed EXCEPT !.at = x, !.done = tx[s].done]]
    BY <1>10 DEF EndPromote, Set
  <2> DEFINE t == [Closed EXCEPT !.at = x, !.done = tx[s].done]
  <2>2. t.plan = NoChange /\ t.done = tx[s].done
    BY DEF Closed
  <2>3. RowsKept
    BY <1>10 DEF EndPromote
  <2> HIDE DEF t
  <2> QED
    BY <2>1, <2>2, <2>3, Quiet, CalmPlans DEF t
<1>11. CASE BackfillIndexes(s)
  <2> DEFINE p == [NoChange EXCEPT !.touch = TRUE, !.cols = Ruled, !.value = TableIn(s).value]
  <2>1. Calm(p)
    BY DEF Calm, Lists, NoChange
  <2> QED
    BY <1>6, <1>11, <2>1 DEF BackfillIndexes
<1>12. CASE DropStaleKeys(s)
  <2>1. PICK dropped \in SUBSET {x \in TableIn(s).fk : ~Protected(s, x)} :
          Step(s, IF dropped = {} THEN [tx[s] EXCEPT !.at = "commit"] ELSE
                  Plan(tx[s], [NoChange EXCEPT
                    !.touch = TRUE, !.cols = Scopes \ Ruled, !.fk = TableIn(s).fk \ dropped,
                    !.value = [x \in Scopes |-> IF x \in dropped THEN NoCand
                                                                 ELSE TableIn(s).value[x]]],
                    "commit"))
    BY <1>12 DEF DropStaleKeys
  <2> DEFINE p == [NoChange EXCEPT
                    !.touch = TRUE, !.cols = Scopes \ Ruled, !.fk = TableIn(s).fk \ dropped,
                    !.value = [x \in Scopes |-> IF x \in dropped THEN NoCand
                                                                 ELSE TableIn(s).value[x]]]
             t == [tx[s] EXCEPT !.at = "commit"]
  <2>2. Calm(p)
    BY DEF Calm, Lists, NoChange
  <2>3. t.plan = tx[s].plan /\ t.done = tx[s].done
    BY <1>1 DEF Txs
  <2>4. Step(s, t) \/ Step(s, Plan(tx[s], p, "commit"))
    BY <2>1
  <2> HIDE DEF p, t
  <2> QED
    BY <1>6, <2>2, <2>3, <2>4, QuietStep
<1>13. CASE Rollback(s) \/ FlushFails(s)
  <2>1. tx' = [tx EXCEPT ![s] = Closed] /\ RowsKept
    BY <1>13 DEF Rollback, FlushFails, Set
  <2> QED
    BY <2>1, ClosedFields, CalmPlans, Quiet
<1> QED
  BY <1>2, <1>3, <1>4, <1>5, <1>8, <1>9, <1>10, <1>11, <1>12, <1>13,
     FlushConflict, CommitConflict DEF SessionStep

\* The transactions of one step: they put nothing in conflict, and a table is
\* deleted with all its conflicts when no session holds one.
LEMMA ShortConflict ==
  ASSUME ShapeOK, ConflictInv, DeleteRepo \/ DeleteSource \/ DeleteTable \/ ToggleLock \/ Patch
  PROVE  ConflictInv'
<1>1. ASSUME NEW closed, TableGone(closed), NEW u \in Sessions
      PROVE  /\ tx'[u].plan.st = tx[u].plan.st /\ tx'[u].done.st = tx[u].done.st
             /\ tx'[u].plan.opened = tx[u].plan.opened /\ tx'[u].done.opened = tx[u].done.opened
             /\ tx'[u].plan.close = tx[u].plan.close \ closed
             /\ tx'[u].done.close = tx[u].done.close \ closed
  <2>1. tx[u] \in Txs /\ tx[u].plan \in Changes /\ tx[u].done \in Changes
    BY DEF ShapeOK, Txs, Flushed
  <2> DEFINE w == WithClosed(tx[u], closed)
  <2>2. /\ w = [tx[u] EXCEPT !.plan = [tx[u].plan EXCEPT !.close = @ \ closed],
                             !.done = [tx[u].done EXCEPT !.close = @ \ closed]]
        /\ w \in Txs
    BY <2>1, ClosedShape
  <2>3. /\ w.plan = [tx[u].plan EXCEPT !.close = @ \ closed]
        /\ w.done = [tx[u].done EXCEPT !.close = @ \ closed]
    BY <2>1, <2>2 DEF Txs
  <2>4. tx'[u] = [w EXCEPT !.gone = tx[u].pinned \/ tx[u].plan.touch]
    BY <1>1 DEF TableGone
  <2> HIDE DEF w
  <2>5. tx'[u].plan = w.plan /\ tx'[u].done = w.done
    BY <2>2, <2>4 DEF Txs
  <2> QED
    BY <2>1, <2>3, <2>5 DEF Changes
<1>2. ASSUME open' = open,
             \A c \in Cands : status'[c] = "in_conflict" => status[c] = "in_conflict",
             \A u \in Sessions :
               /\ tx'[u].plan.st = tx[u].plan.st /\ tx'[u].done.st = tx[u].done.st
               /\ tx'[u].plan.opened = tx[u].plan.opened /\ tx'[u].done.opened = tx[u].done.opened
               /\ tx'[u].plan.close = tx[u].plan.close /\ tx'[u].done.close = tx[u].done.close
      PROVE  ConflictInv'
  <2>1. LocksApart'
    BY <1>2 DEF ConflictInv, LocksApart, ScopeLocks
  <2>2. OpensFreeScopes' /\ ClosesOpenScopes'
    BY <1>2 DEF ConflictInv, OpensFreeScopes, ClosesOpenScopes
  <2>3. ListsConflicts'
    BY <1>2 DEF ConflictInv, ListsConflicts, Lists
  <2>4. SettlesConflicts'
    BY <1>2 DEF ConflictInv, SettlesConflicts
  <2>5. InConflictIsListed'
    BY <1>2 DEF ConflictInv, InConflictIsListed
  <2> QED
    BY <2>1, <2>2, <2>3, <2>4, <2>5 DEF ConflictInv
<1>3. ASSUME NEW cs, Orphaned(cs), NEW c \in Cands
      PROVE  status'[c] = "in_conflict" => status[c] = "in_conflict" /\ c \notin cs
  BY <1>3 DEF Orphaned
<1>4. CASE DeleteRepo
  <2>1. \A c \in Cands : status'[c] = "in_conflict" => status[c] = "in_conflict"
    BY <1>3, <1>4 DEF DeleteRepo
  <2>2. open' = open /\ tx' = tx
    BY <1>4 DEF DeleteRepo
  <2> QED
    BY <1>2, <2>1, <2>2
<1>5. CASE DeleteSource
  <2>1. \A c \in Cands : status'[c] = "in_conflict" => status[c] = "in_conflict"
    BY <1>3, <1>5 DEF DeleteSource
  <2>2. open' = open /\ TableGone({})
    BY <1>5 DEF DeleteSource
  <2>3. \A u \in Sessions :
          /\ tx'[u].plan.st = tx[u].plan.st /\ tx'[u].done.st = tx[u].done.st
          /\ tx'[u].plan.opened = tx[u].plan.opened /\ tx'[u].done.opened = tx[u].done.opened
          /\ tx'[u].plan.close = tx[u].plan.close /\ tx'[u].done.close = tx[u].done.close
    <3> TAKE u \in Sessions
    <3>1. /\ tx'[u].plan.close = tx[u].plan.close \ {}
          /\ tx'[u].done.close = tx[u].done.close \ {}
      BY <1>1, <2>2
    <3>2. \A k : k \ {} = k
      OBVIOUS
    <3>3. tx'[u].plan.close = tx[u].plan.close /\ tx'[u].done.close = tx[u].done.close
      BY <3>1, <3>2
    <3> QED
      BY <1>1, <2>2, <3>3
  <2> QED
    BY <1>2, <2>1, <2>2, <2>3
<1>6. CASE DeleteTable
  <2> DEFINE cs == {c \in Cands : status[c] \in {"active", "pending", "in_conflict"}}
             closed == {k \in Scopes : open[k] # {}}
  <2>1. /\ Orphaned(cs) /\ open' = [k \in Scopes |-> {}] /\ TableGone(closed)
        /\ \A u \in Sessions : closed \cap ScopeLocks(tx[u].done) = {}
    BY <1>6 DEF DeleteTable
  <2>2. \A c \in Cands : status'[c] # "in_conflict"
    BY <1>3, <2>1
  <2>3. \A u \in Sessions : tx[u].plan.close \cup tx[u].done.close \subseteq closed
    BY DEF ConflictInv, ClosesOpenScopes, ShapeOK, Txs, Flushed, Changes
  <2> HIDE DEF cs, closed
  <2>4. \A u \in Sessions :
          /\ tx'[u].plan.close = {} /\ tx'[u].done.close = {}
          /\ tx'[u].plan.st = tx[u].plan.st /\ tx'[u].done.st = tx[u].done.st
          /\ tx'[u].plan.opened = tx[u].plan.opened /\ tx'[u].done.opened = tx[u].done.opened
    <3> TAKE u \in Sessions
    <3>1. tx[u].plan.close \ closed = {} /\ tx[u].done.close \ closed = {}
      BY <2>3
    <3> QED
      BY <1>1, <2>1, <3>1
  <2>5. LocksApart'
    BY <2>4 DEF ConflictInv, LocksApart, ScopeLocks
  <2>6. \A u \in Sessions : ScopesOf(tx[u].done.opened) \subseteq Scopes
    BY Constants DEF ShapeOK, Txs, Flushed, Changes, ScopesOf
  <2>7. OpensFreeScopes' /\ ClosesOpenScopes'
    BY <2>1, <2>4, <2>6 DEF OpensFreeScopes, ClosesOpenScopes
  <2>8. ListsConflicts'
    BY <2>4 DEF ConflictInv, ListsConflicts, Lists
  <2>9. SettlesConflicts' /\ InConflictIsListed'
    BY <2>2 DEF SettlesConflicts, InConflictIsListed
  <2> QED
    BY <2>5, <2>7, <2>8, <2>9 DEF ConflictInv
<1>7. CASE ToggleLock \/ Patch
  <2>1. open' = open /\ tx' = tx /\ status' = status
    BY <1>7 DEF ToggleLock, Patch
  <2> QED
    BY <1>2, <2>1
<1> QED
  BY <1>4, <1>5, <1>6, <1>7

\* No conflict is there at the start.
LEMMA ConflictInit == Init => ConflictInv
<1> SUFFICES ASSUME Init PROVE ConflictInv
  OBVIOUS
<1>1. \A s \in Sessions : tx[s].plan = NoChange /\ tx[s].done = NoChange
  BY ClosedFields DEF Init
<1>2. NoChange.close = {} /\ ScopesOf(NoChange.opened) = {} /\ Lists(NoChange)
      /\ ScopeLocks(NoChange) = {}
  BY CalmPlans DEF Calm, ScopeLocks
<1>3. \A c \in Cands : status[c] # "in_conflict"
  BY DEF Init
<1> QED
  BY <1>1, <1>2, <1>3 DEF ConflictInv, LocksApart, OpensFreeScopes, ClosesOpenScopes,
     ListsConflicts, SettlesConflicts, InConflictIsListed

\* Every step keeps conflicts and the candidates in them together.
LEMMA ConflictStep == ShapeOK /\ ConflictInv /\ [Next]_vars => ConflictInv'
<1> SUFFICES ASSUME ShapeOK, ConflictInv, [Next]_vars PROVE ConflictInv'
  OBVIOUS
<1>1. CASE UNCHANGED vars
  BY <1>1 DEF vars, ConflictInv, LocksApart, OpensFreeScopes, ClosesOpenScopes,
     ListsConflicts, SettlesConflicts, InConflictIsListed, ScopesOf, ScopeLocks
<1>2. CASE Next
  BY <1>2, BeginConflict, GoOnConflict, ShortConflict DEF Next
<1> QED
  BY <1>1, <1>2

\* The invariant about conflicts.
THEOREM ConflictsAlways == Spec => []ConflictInv
BY ShapeAlways, ConflictInit, ConflictStep, PTL DEF Spec

\* A candidate in conflict can be resolved: the open conflict of its scope lists it,
\* whatever is extracted, promoted, resolved, rolled back or deleted at the same time
\* (_create_conflict, resolve_conflict, delete_canonical).
THEOREM ConflictsResolvable == Spec => []InConflictIsListed
<1>1. ConflictInv => InConflictIsListed
  BY DEF ConflictInv
<1> QED
  BY <1>1, ConflictsAlways, PTL

----------------------------------------------------------------------------
(* What is in force while transactions do not overlap.  A session sees the   *)
(* committed rows with its flushed changes, and it will see its plan; the    *)
(* invariant says of both views what the properties say of the rows.         *)

\* Statuses and a table after a change.
After(st, ch) == [c \in Cands |-> IF ch.st[c] \in {"same", "new"} THEN st[c] ELSE ch.st[c]]
With(tab, ch) ==
  [exists |-> tab.exists \/ ch.insert,
   locked |-> tab.locked,
   value |-> [x \in Scopes |-> IF x \in ch.cols THEN ch.value[x] ELSE tab.value[x]],
   fk |-> (tab.fk \ ch.cols) \cup (ch.fk \cap ch.cols)]

\* A relationship says one thing, and the table nothing else.
Agreed(st, tab) ==
  \A c \in Cands : st[c] = "active" /\ ScopeOf[c] \in Relations =>
    /\ c \notin Bare => tab.value[ScopeOf[c]] \in {c, NoCand, ByUser}
    /\ \A d \in Cands : st[d] = "active" /\ ScopeOf[d] = ScopeOf[c] => d = c

\* What the code says stays canonical, seen from statuses bst and table btab.
Keeps(bst, btab, st, tab) ==
  \A c \in FromCode :
    /\ btab.exists /\ Says(btab.value[ScopeOf[c]], c)
    /\ bst[c] = "active" /\ st[c] = "active"
    => Says(tab.value[ScopeOf[c]], c)

\* A locked table keeps its values, but for entries of foreign keys.
Heeds(btab, tab) ==
  btab.locked =>
    /\ btab.exists /\ tab.fk \subseteq btab.fk
    /\ \A x \in Scopes : tab.value[x] = btab.value[x] \/ (x \in btab.fk /\ tab.value[x] = NoCand)

Sound(bst, btab, st, tab) == Agreed(st, tab) /\ Keeps(bst, btab, st, tab) /\ Heeds(btab, tab)
SoundFor(bst, btab, t) ==
  /\ Sound(bst, btab, After(bst, t.done), With(btab, t.done))
  /\ Sound(bst, btab, After(After(bst, t.done), t.plan), With(With(btab, t.done), t.plan))

\* A session that is not open has nothing; one that confirms a field promotes it
\* and nothing else.
Plain(t) ==
  /\ t.at = "idle" => t.plan = NoChange /\ t.done = NoChange /\ ~t.pinned
  /\ t.at = "flush" => t.then \notin {"idle", "flush"}
  /\ t.pinned =>
       /\ t.sco.exists
       /\ \/ t.at = "commit" \/ (t.at = "flush" /\ t.then = "commit")
          \/ /\ ScopesOf(t.todo \cup t.group) \subseteq Ruled
             /\ \/ t.at \in {"single", "group", "decide"}
                \/ t.at = "flush" /\ t.then \in {"single", "group"}

Fits(bst, btab, t) == (t.pinned => t.sco = btab) /\ SoundFor(bst, btab, t)

ValueInv ==
  /\ \A s \in Sessions : Plain(tx[s])
  /\ serial =>
       /\ \A s, u \in Sessions : s # u => Idle(s) \/ Idle(u)
       /\ Sound(status, table, status, table)
       /\ \A s \in Sessions : Fits(status, table, tx[s])

\* A plan that puts nothing in force and leaves the table alone.
Tame(p) == p.cols = {} /\ \A c \in Cands : p.st[c] # "active"

\* The plans that neither put anything in force nor write the table.
LEMMA TamePlans ==
  /\ Tame(NoChange)
  /\ \A cs : Tame([NoChange EXCEPT !.firm = cs]) /\ Tame(Conflicting(cs))
  /\ \A cs, new : new # "active" => Tame([NoChange EXCEPT !.st = St(cs, new)])
BY DEF Tame, NoChange, Conflicting, St

\* Less in force, the same in the table.
LEMMA SoundLess ==
  ASSUME NEW bst, NEW btab, NEW st, NEW tab, NEW st2, NEW tab2,
         Sound(bst, btab, st, tab),
         \A c \in Cands : st2[c] = "active" => st[c] = "active",
         \A x \in Scopes : tab2.value[x] = tab.value[x],
         tab2.fk \subseteq tab.fk
  PROVE  Sound(bst, btab, st2, tab2)
<1>1. Agreed(st2, tab2)
  BY Constants DEF Sound, Agreed
<1>2. Keeps(bst, btab, st2, tab2)
  BY Constants DEF Sound, Keeps, FromCode
<1>3. Heeds(btab, tab2)
  BY DEF Sound, Heeds
<1> QED
  BY <1>1, <1>2, <1>3 DEF Sound

\* Such a plan keeps what a session sees sound.
LEMMA SoundTame ==
  ASSUME NEW bst, NEW btab, NEW st, NEW tab, NEW p, Sound(bst, btab, st, tab), Tame(p)
  PROVE  Sound(bst, btab, After(st, p), With(tab, p))
<1>1. \A c \in Cands : After(st, p)[c] = "active" => st[c] = "active"
  BY DEF After, Tame
<1>2. \A x \in Scopes : With(tab, p).value[x] = tab.value[x]
  BY DEF With, Tame
<1>3. With(tab, p).fk \subseteq tab.fk
  BY DEF With, Tame
<1> QED
  BY <1>1, <1>2, <1>3, SoundLess

\* A session goes on with a tame plan, or with the plan it had.
LEMMA FitsTame ==
  ASSUME NEW bst, NEW btab, NEW v, NEW t, Fits(bst, btab, v), t.done = v.done,
         t.pinned => v.pinned /\ t.sco = v.sco,
         t.plan = v.plan \/ Tame(t.plan)
  PROVE  Fits(bst, btab, t)
BY SoundTame DEF Fits, SoundFor

\* A session that has flushed nothing.
LEMMA FitsOpen ==
  ASSUME NEW bst, NEW btab, NEW t, Sound(bst, btab, bst, btab), t.done = NoChange,
         t.pinned => t.sco = btab, Tame(t.plan)
  PROVE  Fits(bst, btab, t)
<1>1. Sound(bst, btab, After(bst, NoChange), With(btab, NoChange))
  BY SoundTame, TamePlans
<1>2. Sound(bst, btab, After(After(bst, NoChange), t.plan), With(With(btab, NoChange), t.plan))
  BY <1>1, SoundTame
<1> QED
  BY <1>1, <1>2 DEF Fits, SoundFor

\* What the operators of the model see is what After and With say.
LEMMA Seeing ==
  ASSUME ShapeOK, NEW s \in Sessions
  PROVE  /\ \A c \in Cands : StatusIn(s, c) = After(status, tx[s].done)[c]
         /\ TableIn(s) = With(table, tx[s].done)
<1>1. \A c \in Cands : tx[s].done.st[c] # "new"
  BY DEF ShapeOK, Txs, Flushed
<1> QED
  BY <1>1 DEF StatusIn, After, TableIn, With

\* The index backfill rewrites the fields as they are.
LEMMA SoundBackfill ==
  ASSUME NEW bst, NEW btab, NEW st, NEW tab, Sound(bst, btab, st, tab),
         NEW p, p = [NoChange EXCEPT !.touch = TRUE, !.cols = Ruled, !.value = tab.value]
  PROVE  Sound(bst, btab, After(st, p), With(tab, p))
<1>1. p.cols = Ruled /\ p.value = tab.value /\ p.fk = {} /\ \A c \in Cands : p.st[c] = "same"
  BY DEF NoChange
<1>2. \A c \in Cands : After(st, p)[c] = "active" => st[c] = "active"
  BY <1>1 DEF After
<1>3. \A x \in Scopes : With(tab, p).value[x] = tab.value[x]
  BY <1>1 DEF With
<1>4. With(tab, p).fk \subseteq tab.fk
  BY <1>1 DEF With
<1> QED
  BY <1>2, <1>3, <1>4, SoundLess

\* The clean-up of foreign keys drops entries that are marked as such and not
\* protected by an active candidate of the code.
LEMMA SoundDrop ==
  ASSUME NEW bst, NEW btab, NEW st, NEW tab, Sound(bst, btab, st, tab),
         NEW dropped \in SUBSET tab.fk,
         \A x \in dropped : \A c \in (Of(x) \cap RepoCands) \ Evidence : st[c] # "active",
         NEW p, p = [NoChange EXCEPT
                       !.touch = TRUE, !.cols = Scopes \ Ruled, !.fk = tab.fk \ dropped,
                       !.value = [x \in Scopes |-> IF x \in dropped THEN NoCand ELSE tab.value[x]]]
  PROVE  Sound(bst, btab, After(st, p), With(tab, p))
<1> DEFINE st2 == After(st, p)
           tab2 == With(tab, p)
<1>1. /\ p.cols = Scopes \ Ruled /\ p.fk = tab.fk \ dropped
      /\ p.value = [x \in Scopes |-> IF x \in dropped THEN NoCand ELSE tab.value[x]]
      /\ \A c \in Cands : p.st[c] = "same"
  BY DEF NoChange
<1>2. \A c \in Cands : st2[c] = st[c]
  BY <1>1 DEF After
<1>3. \A x \in Scopes : tab2.value[x] = tab.value[x] \/ (x \in dropped /\ tab2.value[x] = NoCand)
  BY <1>1 DEF With
<1>4. tab2.fk \subseteq tab.fk
  BY <1>1 DEF With
<1> HIDE DEF st2, tab2
<1>5. Agreed(st2, tab2)
  BY <1>2, <1>3, Constants DEF Sound, Agreed
<1>6. Keeps(bst, btab, st2, tab2)
  <2> SUFFICES ASSUME NEW c \in FromCode, btab.exists, Says(btab.value[ScopeOf[c]], c),
                      bst[c] = "active", st2[c] = "active"
               PROVE  Says(tab2.value[ScopeOf[c]], c)
    BY DEF Keeps
  <2>1. c \in Cands /\ ScopeOf[c] \in Scopes /\ c \in (Of(ScopeOf[c]) \cap RepoCands) \ Evidence
    BY Constants DEF FromCode, Of
  <2>2. ScopeOf[c] \notin dropped
    BY <1>2, <2>1
  <2>3. Says(tab.value[ScopeOf[c]], c)
    BY <1>2, <2>1 DEF Sound, Keeps
  <2> QED
    BY <1>3, <2>1, <2>2, <2>3
<1>7. Heeds(btab, tab2)
  BY <1>3, <1>4 DEF Sound, Heeds
<1> QED
  BY <1>5, <1>6, <1>7 DEF Sound, st2, tab2

\* A candidate that is applied meets no other value in force; a locked table is
\* not looked at.
LEMMA SoundApplied ==
  ASSUME ShapeOK, NEW s \in Sessions, Plain(tx[s]), Fits(status, table, tx[s]),
         Sound(status, table, status, table),
         tx[s].at = "decide", ~Skips(s),
         NEW w \in Cands, NEW others, w \in tx[s].group,
         \/ tx[s].group = {w} /\ Rivals(s) = {}
         \/ ScopesOf(tx[s].group) \subseteq Ruled
  PROVE  LET st == After(status, tx[s].done)
             tab == With(table, tx[s].done)
             p == Applied(s, w, others)
         IN Sound(status, table, After(st, p), With(tab, p))
<1> DEFINE st == After(status, tx[s].done)
           tab == With(table, tx[s].done)
           p == Applied(s, w, others)
           sco == TableRead(s)
           scope == ScopeOf[w]
           fk == sco.fk \cup ScopesOf({w} \cap Keys)
<1>1. /\ \A c \in Cands : StatusIn(s, c) = st[c]
      /\ TableIn(s) = tab
  BY Seeing
<1>2. Sound(status, table, st, tab)
  BY DEF Fits, SoundFor
<1>3. tab \in Tables /\ table \in Tables /\ tx[s] \in Txs
  BY <1>1, Views DEF ShapeOK
<1>4. scope \in Scopes
  BY Constants
<1>5. \/ sco = tab
      \/ sco = table /\ sco.exists /\ ScopesOf(tx[s].group) \subseteq Ruled
  <2>1. CASE tx[s].pinned /\ ~tx[s].gone
    <3>1. sco = table
      BY <2>1 DEF TableRead, Fits
    <3>2. tx[s].sco.exists /\ ScopesOf(tx[s].todo \cup tx[s].group) \subseteq Ruled
      BY <2>1 DEF Plain
    <3> QED
      BY <2>1, <3>1, <3>2 DEF Fits, ScopesOf
  <2>2. CASE ~(tx[s].pinned /\ ~tx[s].gone)
    BY <1>1, <2>2 DEF TableRead
  <2> QED
    BY <2>1, <2>2
<1>6. ~table.locked
  <2> SUFFICES ASSUME table.locked PROVE FALSE
    OBVIOUS
  <2>1. table.exists
    BY DEF Sound, Heeds
  <2>2. tab.exists /\ tab.locked
    BY <2>1 DEF With
  <2>3. sco.exists /\ sco.locked
    BY <1>5, <2>1, <2>2
  <2> QED
    BY <2>3 DEF Skips
<1>7. /\ p.st = [c \in Cands |-> IF c = w THEN "active"
                                 ELSE IF c \in tx[s].group THEN others ELSE "same"]
      /\ p.cols = IF ~sco.exists THEN Scopes
                  ELSE IF sco.value[scope] = w /\ fk = sco.fk THEN {} ELSE Column(scope)
      /\ p.value = [sco.value EXCEPT ![scope] = Shown(@, w)]
  BY DEF Applied, NoChange
<1> HIDE DEF p, sco, st, tab, fk
<1>8. ASSUME NEW c \in Cands, ScopeOf[c] \in Relations, After(st, p)[c] = "active"
      PROVE  c = w \/ (st[c] = "active" /\ ScopeOf[c] # scope)
  <2>1. CASE c = w
    BY <2>1
  <2>2. CASE c # w /\ c \in tx[s].group
    <3>1. ScopeOf[c] \in ScopesOf(tx[s].group)
      BY <2>2 DEF ScopesOf
    <3> QED
      BY <1>8, <2>2, <3>1 DEF Relations
  <2>3. CASE c \notin tx[s].group
    <3>1. st[c] = "active"
      BY <1>7, <1>8, <2>3 DEF After
    <3>2. CASE tx[s].group = {w} /\ Rivals(s) = {}
      BY <1>1, <2>3, <3>1, <3>2 DEF Rivals, ScopesOf
    <3>3. CASE ScopesOf(tx[s].group) \subseteq Ruled
      BY <1>8, <3>1, <3>3 DEF ScopesOf, Relations
    <3> QED
      BY <3>2, <3>3
  <2> QED
    BY <2>1, <2>2, <2>3
<1>9. ASSUME NEW x \in Relations
      PROVE  With(tab, p).value[x] = IF x = scope THEN Shown(tab.value[x], w) ELSE tab.value[x]
  <2>1. x \in Scopes /\ x \notin Ruled
    BY DEF Relations
  <2>2. With(tab, p).value[x] = IF x \in p.cols THEN p.value[x] ELSE tab.value[x]
    BY <2>1 DEF With
  <2>3. CASE sco = tab
    <3>1. p.value[x] = IF x = scope THEN Shown(tab.value[x], w) ELSE tab.value[x]
      BY <1>3, <1>7, <2>1, <2>3 DEF Tables, Entries
    <3>2. x = scope /\ x \notin p.cols => tab.value[x] = w
      BY <1>7, <2>1, <2>3 DEF Column
    <3> QED
      BY <2>2, <3>1, <3>2 DEF Shown
  <2>4. CASE sco.exists /\ ScopesOf(tx[s].group) \subseteq Ruled
    <3>1. scope \in Ruled
      BY <2>4 DEF ScopesOf
    <3>2. x \notin p.cols /\ x # scope
      BY <1>7, <2>1, <2>4, <3>1 DEF Column
    <3> QED
      BY <2>2, <3>2
  <2> QED
    BY <1>5, <2>3, <2>4
<1>10. Agreed(After(st, p), With(tab, p))
  <2> SUFFICES ASSUME NEW c \in Cands, ScopeOf[c] \in Relations, After(st, p)[c] = "active"
               PROVE  /\ c \notin Bare => With(tab, p).value[ScopeOf[c]] \in {c, NoCand, ByUser}
                      /\ \A d \in Cands :
                           After(st, p)[d] = "active" /\ ScopeOf[d] = ScopeOf[c] => d = c
    BY DEF Agreed
  <2>1. CASE c = w
    BY <1>8, <1>9, <2>1 DEF Shown
  <2>2. CASE st[c] = "active" /\ ScopeOf[c] # scope
    <3>1. /\ c \notin Bare => tab.value[ScopeOf[c]] \in {c, NoCand, ByUser}
          /\ \A d \in Cands : st[d] = "active" /\ ScopeOf[d] = ScopeOf[c] => d = c
      BY <1>2, <2>2 DEF Sound, Agreed
    <3> QED
      BY <1>8, <1>9, <2>2, <3>1
  <2> QED
    BY <1>8, <2>1, <2>2
<1>11. Keeps(status, table, After(st, p), With(tab, p))
  <2> SUFFICES ASSUME NEW c \in FromCode, table.exists, Says(table.value[ScopeOf[c]], c),
                      status[c] = "active", After(st, p)[c] = "active"
               PROVE  Says(With(tab, p).value[ScopeOf[c]], c)
    BY DEF Keeps
  <2>1. c \in Cands /\ ScopeOf[c] \in Relations
    BY Constants DEF FromCode
  <2>2. CASE c = w
    BY <1>9, <2>1, <2>2, Constants DEF Shown, Says
  <2>3. CASE st[c] = "active" /\ ScopeOf[c] # scope
    <3>1. Says(tab.value[ScopeOf[c]], c)
      BY <1>2, <2>3 DEF Sound, Keeps
    <3> QED
      BY <1>9, <2>1, <2>3, <3>1
  <2> QED
    BY <1>8, <2>1, <2>2, <2>3
<1>12. Heeds(table, With(tab, p))
  BY <1>6 DEF Heeds
<1> QED
  BY <1>10, <1>11, <1>12 DEF Sound, p, st, tab

\* A session goes on and the rows stay.
LEMMA ValueQuiet ==
  ASSUME ShapeOK, ValueInv, NEW s \in Sessions, NEW t,
         tx' = [tx EXCEPT ![s] = t], RowsKept, Plain(t),
         \/ serial' = serial /\ (~Idle(s) \/ t.at = "idle")
         \/ Alone,
         serial' /\ serial => Fits(status, table, t)
  PROVE  ValueInv'
<1>1. tx'[s] = t /\ \A u \in Sessions : u # s => tx'[u] = tx[u]
  BY DEF ShapeOK
<1>2. status' = status /\ table' = table
  BY DEF RowsKept
<1>3. \A u \in Sessions : Plain(tx'[u])
  BY <1>1 DEF ValueInv
<1>4. ASSUME serial'
      PROVE  /\ \A v, u \in Sessions : v # u => Idle(v)' \/ Idle(u)'
             /\ Sound(status, table, status, table)
             /\ \A u \in Sessions : Fits(status, table, tx'[u])
  <2>1. serial
    BY <1>4 DEF Alone
  <2>2. \A v, u \in Sessions : v # u => Idle(v)' \/ Idle(u)'
    BY <1>1, <1>4, <2>1 DEF ValueInv, Alone, Idle
  <2> QED
    BY <1>1, <1>4, <2>1, <2>2 DEF ValueInv
<1> QED
  BY <1>2, <1>3, <1>4 DEF ValueInv

\* A session that opens to put nothing in force.
LEMMA ValueOpen ==
  ASSUME ShapeOK, ValueInv, NEW s \in Sessions, NEW t, Open(s, t), Plain(t),
         t.done = NoChange, t.pinned => t.sco = table, Tame(t.plan)
  PROVE  ValueInv'
<1>1. tx' = [tx EXCEPT ![s] = t] /\ RowsKept /\ Alone
  BY DEF Open, Set
<1>2. serial => Fits(status, table, t)
  BY FitsOpen DEF ValueInv
<1> QED
  BY <1>1, <1>2, ValueQuiet

\* A session that goes on and flushes nothing.
LEMMA ValueStep ==
  ASSUME ShapeOK, ValueInv, NEW s \in Sessions, NEW t, Step(s, t), Plain(t), ~Idle(s),
         t.done = tx[s].done, t.pinned => tx[s].pinned /\ t.sco = tx[s].sco,
         t.plan = tx[s].plan \/ Tame(t.plan)
  PROVE  ValueInv'
<1>1. tx' = [tx EXCEPT ![s] = t] /\ RowsKept /\ serial' = serial
  BY DEF Step, Set
<1>2. serial => Fits(status, table, t)
  BY FitsTame DEF ValueInv
<1> QED
  BY <1>1, <1>2, ValueQuiet

\* A session that has just opened.
LEMMA PlainFields ==
  /\ Closed.plan = NoChange /\ Closed.done = NoChange /\ ~Closed.pinned /\ Closed.at = "idle"
  /\ \A p, x : x \notin {"idle", "flush"} => /\ Plain(Plan(Closed, p, x)) /\ ~Plan(Closed, p, x).pinned
                                           /\ Plan(Closed, p, x).done = NoChange
                                           /\ Plan(Closed, p, x).plan = p
BY DEF Closed, Plan, Plain

\* Opening a session.
LEMMA BeginValue ==
  ASSUME ShapeOK, ValueInv, NEW s \in Sessions,
         \/ Promote(s) \/ TidyUp(s) \/ Purge(s)
         \/ \E c \in Cands : WriteCandidate(s, c)
         \/ \E scope \in Scopes : Resolve(s, scope) \/ ConfirmField(s, scope)
  PROVE  ValueInv'
<1>1. ASSUME NEW p, NEW x, x \notin {"idle", "flush"}, Tame(p), Open(s, Plan(Closed, p, x)) PROVE ValueInv'
  BY <1>1, PlainFields, ValueOpen
<1>2. CASE Promote(s) \/ TidyUp(s)
  <2>1. PICK x \in {"lock", "indexes"} : Open(s, [Closed EXCEPT !.at = x])
    BY <1>2 DEF Promote, TidyUp
  <2> DEFINE t == [Closed EXCEPT !.at = x]
  <2>2. t.done = NoChange /\ t.plan = NoChange /\ ~t.pinned /\ Plain(t)
    BY DEF Closed, Plain
  <2> HIDE DEF t
  <2> QED
    BY <2>1, <2>2, TamePlans, ValueOpen DEF t
<1>3. CASE Purge(s)
  BY <1>1, <1>3, TamePlans DEF Purge
<1>4. ASSUME NEW c \in Cands, WriteCandidate(s, c) PROVE ValueInv'
  <2> DEFINE new == IF status[c] = "absent" THEN "new" ELSE "pending"
  <2>1. Tame([NoChange EXCEPT !.st = St({c}, new)])
    BY TamePlans
  <2> QED
    BY <1>1, <1>4, <2>1 DEF WriteCandidate
<1>5. ASSUME NEW scope, NEW winners, NEW losers, NEW next, next \notin {"idle", "flush"},
             Resolution(s, scope, winners, losers, next)
      PROVE  ValueInv'
  <2> DEFINE new == [c \in Cands |-> IF c \in winners THEN "pending"
                                     ELSE IF c \in losers THEN "rejected" ELSE "same"]
             st == [c \in Cands |-> IF new[c] = status[c] THEN "same" ELSE new[c]]
             p == [NoChange EXCEPT !.close = {scope}, !.st = st]
             t == Plan([Closed EXCEPT !.group = winners], p, next)
  <2>1. Tame(p)
    BY DEF NoChange, Tame
  <2> HIDE DEF p
  <2>2. t.done = NoChange /\ t.plan = p /\ ~t.pinned /\ Plain(t)
    BY <1>5 DEF Closed, Plan, Plain
  <2>3. Open(s, t)
    BY <1>5 DEF Resolution, p
  <2> HIDE DEF t
  <2> QED
    BY <2>1, <2>2, <2>3, ValueOpen
<1>6. ASSUME NEW scope \in Scopes, Resolve(s, scope) PROVE ValueInv'
  <2> DEFINE listed == open[scope] \ {NoCand}
  <2>1. \/ \E w \in listed : Resolution(s, scope, {w}, listed \ {w}, "single")
        \/ Resolution(s, scope, {}, listed, "commit")
    BY <1>6 DEF Resolve
  <2>2. "single" \notin {"idle", "flush"} /\ "commit" \notin {"idle", "flush"}
    OBVIOUS
  <2> HIDE DEF listed
  <2> QED
    BY <1>5, <2>1, <2>2
<1>7. ASSUME NEW scope \in Scopes, ConfirmField(s, scope) PROVE ValueInv'
  <2> DEFINE cs == {c \in Of(scope) \cap weak : status[c] = "pending"}
             p == [NoChange EXCEPT !.firm = cs]
             q == [NoChange EXCEPT !.st = St(cs, "rejected")]
             x == IF scope \in Ruled THEN "single" ELSE "commit"
             t == Plan([Closed EXCEPT !.group = cs, !.sco = table, !.pinned = TRUE], p, x)
  <2>1. Tame(p) /\ Tame(q)
    BY TamePlans
  <2>2. table.exists /\ (Open(s, t) \/ Open(s, Plan(Closed, q, "commit")))
    BY <1>7 DEF ConfirmField
  <2>3. ScopesOf(cs) \subseteq {scope}
    BY DEF ScopesOf, Of
  <2> HIDE DEF cs, p, q
  <2>4. /\ t.done = NoChange /\ t.plan = p /\ t.sco = table
        /\ t.at = "flush" /\ t.then = x /\ t.todo = {} /\ t.group = cs
    BY DEF Closed, Plan
  <2> HIDE DEF t
  <2>5. Plain(t)
    <3>1. CASE scope \in Ruled
      BY <2>2, <2>3, <2>4, <3>1 DEF Plain
    <3>2. CASE scope \notin Ruled
      BY <2>2, <2>4, <3>2 DEF Plain
    <3> QED
      BY <3>1, <3>2
  <2>6. CASE Open(s, t)
    BY <2>1, <2>4, <2>5, <2>6, ValueOpen
  <2> QED
    BY <1>1, <2>1, <2>2, <2>6
<1> QED
  BY <1>2, <1>3, <1>4, <1>6, <1>7

\* A flush: what was planned is seen.
LEMMA FlushValue ==
  ASSUME ShapeOK, ValueInv, NEW s \in Sessions, Flush(s)
  PROVE  ValueInv'
<1> DEFINE d == tx[s].done
           p == tx[s].plan
           q == Settled(p)
           m == Merged(d, q)
           t == [tx[s] EXCEPT !.at = tx[s].then, !.then = "idle", !.done = m, !.plan = NoChange]
           st == After(After(status, d), p)
           tab == With(With(table, d), p)
<1>1. Step(s, t) /\ tx[s].at = "flush"
  BY DEF Flush
<1>2. tx[s] \in Txs /\ d \in Changes /\ p \in Changes /\ \A c \in Cands : d.st[c] # "new"
  BY DEF ShapeOK, Txs, Flushed
<1>3. /\ q.cols = p.cols /\ q.value = p.value /\ q.fk = p.fk
      /\ \A c \in Cands : p.st[c] # "new" => q.st[c] = p.st[c]
      /\ \A c \in Cands : p.st[c] = "new" => q.st[c] \in {"pending", "same"}
  BY <1>2 DEF Settled, Changes
<1> HIDE DEF q
<1>4. /\ m.cols = d.cols \cup p.cols
      /\ m.value = [x \in Scopes |-> IF x \in p.cols THEN p.value[x] ELSE d.value[x]]
      /\ m.fk = (d.fk \ p.cols) \cup (p.fk \cap p.cols)
      /\ \A c \in Cands : m.st[c] = IF q.st[c] = "same" THEN d.st[c] ELSE q.st[c]
  BY <1>3 DEF Merged
<1>5. /\ t.at = tx[s].then /\ t.then = "idle" /\ t.done = m /\ t.plan = NoChange
      /\ t.pinned = tx[s].pinned /\ t.sco = tx[s].sco /\ t.todo = tx[s].todo /\ t.group = tx[s].group
  BY <1>2 DEF Txs
<1> HIDE DEF m, d, p, t
<1>6. Plain(t)
  <2>1. Plain(tx[s])
    BY DEF ValueInv
  <2>2. t.at \notin {"idle", "flush"}
    BY <1>1, <1>5, <2>1 DEF Plain
  <2> QED
    BY <1>1, <1>5, <2>1, <2>2 DEF Plain
<1>7. \A c \in Cands : After(status, m)[c] = "active" => st[c] = "active"
  BY <1>2, <1>3, <1>4 DEF After
<1>8. \A x \in Scopes : With(table, m).value[x] = tab.value[x]
  BY <1>4 DEF With
<1>9. With(table, m).fk \subseteq tab.fk
  BY <1>4 DEF With
<1> HIDE DEF st, tab
<1>10. ASSUME serial PROVE Fits(status, table, t)
  <2>1. Fits(status, table, tx[s])
    BY <1>10 DEF ValueInv
  <2>2. Sound(status, table, st, tab)
    BY <2>1 DEF Fits, SoundFor, st, tab, d, p
  <2>3. Sound(status, table, After(status, m), With(table, m))
    BY <1>7, <1>8, <1>9, <2>2, SoundLess
  <2>4. Sound(status, table, After(After(status, m), NoChange), With(With(table, m), NoChange))
    BY <2>3, TamePlans, SoundTame
  <2> QED
    BY <1>5, <2>1, <2>3, <2>4 DEF Fits, SoundFor
<1>11. tx' = [tx EXCEPT ![s] = t] /\ RowsKept /\ serial' = serial /\ ~Idle(s)
  BY <1>1 DEF Step, Set, Idle
<1> QED
  BY <1>6, <1>10, <1>11, ValueQuiet

\* Statuses and a table that agree are sound with respect to themselves.
LEMMA SoundItself ==
  ASSUME NEW st, NEW tab, Agreed(st, tab), tab.locked => tab.exists
  PROVE  Sound(st, tab, st, tab)
BY DEF Sound, Keeps, Heeds

\* A commit: what the session saw is now there for all.
LEMMA CommitValue ==
  ASSUME ShapeOK, ValueInv, NEW s \in Sessions, Commit(s)
  PROVE  ValueInv'
<1> DEFINE d == tx[s].done
           deleted == {c \in Cands : d.st[c] = "absent"}
<1>1. ASSUME NEW u \in Sessions, u # s
      PROVE  /\ tx'[u].at = tx[u].at /\ tx'[u].then = tx[u].then
             /\ tx'[u].pinned = tx[u].pinned /\ tx'[u].sco = tx[u].sco
             /\ tx'[u].todo = tx[u].todo /\ tx'[u].group = tx[u].group
             /\ tx[u].plan = NoChange => tx'[u].plan = NoChange
             /\ tx[u].done = NoChange => tx'[u].done = NoChange
  <2>1. tx'[u] = WithDeleted(WithClosed(tx[u], d.close), deleted)
    BY <1>1 DEF Commit
  <2>2. tx[u] \in Txs
    BY DEF ShapeOK
  <2> DEFINE w == WithClosed(tx[u], d.close)
  <2>3. /\ w = [tx[u] EXCEPT !.plan = [tx[u].plan EXCEPT !.close = @ \ d.close],
                             !.done = [tx[u].done EXCEPT !.close = @ \ d.close]]
        /\ w \in Txs
    BY <2>2, ClosedShape
  <2>4. /\ w.plan = [tx[u].plan EXCEPT !.close = @ \ d.close]
        /\ w.done = [tx[u].done EXCEPT !.close = @ \ d.close]
        /\ w.at = tx[u].at /\ w.then = tx[u].then
        /\ w.pinned = tx[u].pinned /\ w.sco = tx[u].sco
        /\ w.todo = tx[u].todo /\ w.group = tx[u].group
    BY <2>2, <2>3 DEF Txs
  <2> HIDE DEF w
  <2>5. /\ tx'[u].plan = w.plan /\ tx'[u].done = w.done
        /\ tx'[u].at = w.at /\ tx'[u].then = w.then
        /\ tx'[u].pinned = w.pinned /\ tx'[u].sco = w.sco
        /\ tx'[u].todo = w.todo /\ tx'[u].group = w.group
    BY <2>1, <2>3 DEF WithDeleted, Txs, w
  <2>6. NoChange.close \ d.close = NoChange.close
    BY DEF NoChange
  <2>7. [NoChange EXCEPT !.close = NoChange.close] = NoChange
    BY DEF NoChange
  <2> QED
    BY <2>4, <2>5, <2>6, <2>7
<1>2. tx'[s] = Closed /\ tx[s].at = "commit" /\ serial' = serial /\ DOMAIN tx' = Sessions
  BY DEF Commit
<1>3. \A u \in Sessions : Plain(tx'[u])
  <2> TAKE u \in Sessions
  <2>1. CASE u = s
    BY <1>2, <2>1, PlainFields DEF Plain
  <2>2. CASE u # s
    BY <1>1, <2>2 DEF ValueInv, Plain
  <2> QED
    BY <2>1, <2>2
<1>4. ASSUME serial
      PROVE  /\ \A v, u \in Sessions : v # u => Idle(v)' \/ Idle(u)'
             /\ Sound(status', table', status', table')
             /\ \A u \in Sessions : Fits(status', table', tx'[u])
  <2>1. \A u \in Sessions : u # s => Idle(u)
    BY <1>2, <1>4 DEF ValueInv, Idle
  <2>2. \A u \in Sessions : tx'[u].at = "idle"
    BY <1>1, <1>2, <2>1, PlainFields DEF Idle
  <2>3. \A u \in Sessions : tx'[u].plan = NoChange /\ tx'[u].done = NoChange /\ ~tx'[u].pinned
    BY <1>3, <2>2 DEF Plain
  <2>4. \A c \in Cands : status'[c] = After(status, d)[c]
    BY Seeing DEF Commit
  <2>5. table' = With(table, d)
    BY Seeing DEF Commit
  <2>6. Sound(status, table, After(status, d), With(table, d))
    BY <1>4 DEF ValueInv, Fits, SoundFor
  <2>7. Agreed(status', table')
    BY <2>4, <2>5, <2>6 DEF Sound, Agreed
  <2>8. table'.locked => table'.exists
    BY <1>4, <2>5 DEF With, ValueInv, Sound, Heeds
  <2>9. Sound(status', table', status', table')
    BY <2>7, <2>8, SoundItself
  <2>10. \A u \in Sessions : Fits(status', table', tx'[u])
    BY <2>3, <2>9, FitsOpen, TamePlans
  <2> QED
    BY <2>2, <2>9, <2>10 DEF Idle
<1> QED
  BY <1>2, <1>3, <1>4 DEF ValueInv

\* The other steps of a session.
LEMMA GoOnValue ==
  ASSUME ShapeOK, ValueInv, NEW s \in Sessions, SessionStep(s) \/ Rollback(s)
  PROVE  ValueInv'
<1>1. tx[s] \in Txs /\ Plain(tx[s])
  BY DEF ShapeOK, ValueInv
<1>3. CASE LockAndSelect(s)
  <2> DEFINE t == Selected(s, Pending(s))
  <2>1. tx[s].at = "lock" /\ RowsKept /\ serial' = serial /\ tx' = [tx EXCEPT ![s] = t]
    BY <1>3 DEF LockAndSelect, Set
  <2>2. /\ t.at = "group" /\ t.plan = tx[s].plan /\ t.done = tx[s].done
        /\ t.pinned = tx[s].pinned /\ t.sco = tx[s].sco
    BY <1>1 DEF Selected, Txs
  <2>3. ~tx[s].pinned
    BY <1>1, <2>1 DEF Plain
  <2> HIDE DEF t
  <2>4. Plain(t) /\ ~Idle(s)
    BY <2>1, <2>2, <2>3 DEF Plain, Idle
  <2>5. serial => Fits(status, table, t)
    BY <2>2, FitsTame DEF ValueInv
  <2> QED
    BY <2>1, <2>4, <2>5, ValueQuiet
<1>4. CASE SelectField(s)
  <2> DEFINE cs == {c \in Pending(s) : ScopeOf[c] \in ScopesOf(tx[s].group)}
             t == Selected(s, cs)
  <2>1. tx[s].at = "single" /\ RowsKept /\ serial' = serial /\ tx' = [tx EXCEPT ![s] = t]
    BY <1>4 DEF SelectField, Step, Set
  <2>2. ScopesOf(cs) \subseteq ScopesOf(tx[s].group)
    BY DEF ScopesOf
  <2> HIDE DEF cs
  <2>3. /\ t.at = "group" /\ t.plan = tx[s].plan /\ t.done = tx[s].done
        /\ t.pinned = tx[s].pinned /\ t.sco = tx[s].sco /\ t.todo = cs /\ t.group = {}
    BY <1>1 DEF Selected, Txs
  <2> HIDE DEF t
  <2>4. tx[s].pinned => ScopesOf(t.todo \cup t.group) \subseteq Ruled
    BY <1>1, <2>1, <2>2, <2>3 DEF Plain, ScopesOf
  <2>5. Plain(t) /\ ~Idle(s)
    BY <1>1, <2>1, <2>3, <2>4 DEF Plain, Idle
  <2>6. serial => Fits(status, table, t)
    BY <2>3, FitsTame DEF ValueInv
  <2> QED
    BY <2>1, <2>5, <2>6, ValueQuiet
<1>5. CASE LockTimeout(s)
  <2>1. PICK x \in AfterPromote : Step(s, [tx[s] EXCEPT !.at = x])
    BY <1>5 DEF LockTimeout
  <2> DEFINE t == [tx[s] EXCEPT !.at = x]
  <2>2. /\ t.at = x /\ t.plan = tx[s].plan /\ t.done = tx[s].done /\ t.pinned = tx[s].pinned
        /\ tx[s].at = "lock"
    BY <1>1, <1>5 DEF Txs, LockTimeout
  <2> HIDE DEF t
  <2>3. ~t.pinned /\ Plain(t) /\ ~Idle(s)
    BY <1>1, <2>2 DEF Plain, AfterPromote, Idle
  <2> QED
    BY <2>1, <2>2, <2>3, ValueStep DEF t
<1>6. CASE NextGroup(s)
  <2>1. PICK scope \in ScopesOf(tx[s].todo) :
          LET g == tx[s].todo \cap Of(scope)
              t == [tx[s] EXCEPT !.todo = @ \ g]
          IN Step(s, IF OpenIn(s, scope) THEN t ELSE [t EXCEPT !.at = "decide", !.group = g])
    BY <1>6 DEF NextGroup
  <2> DEFINE g == tx[s].todo \cap Of(scope)
             t == [tx[s] EXCEPT !.todo = @ \ g]
             v == [t EXCEPT !.at = "decide", !.group = g]
  <2>2. Step(s, t) \/ Step(s, v)
    BY <2>1
  <2>3. /\ t.plan = tx[s].plan /\ t.done = tx[s].done /\ t.pinned = tx[s].pinned /\ t.sco = tx[s].sco
        /\ t.at = "group" /\ t.todo = tx[s].todo \ g /\ t.group = tx[s].group
        /\ v.plan = tx[s].plan /\ v.done = tx[s].done /\ v.pinned = tx[s].pinned /\ v.sco = tx[s].sco
        /\ v.at = "decide" /\ v.todo = tx[s].todo \ g /\ v.group = g
    BY <1>1, <1>6 DEF Txs, NextGroup
  <2>4. ~Idle(s) /\ tx[s].at = "group"
    BY <1>6 DEF NextGroup, Idle
  <2>5. ScopesOf(t.todo \cup t.group) \subseteq ScopesOf(tx[s].todo \cup tx[s].group)
        /\ ScopesOf(v.todo \cup v.group) \subseteq ScopesOf(tx[s].todo \cup tx[s].group)
    BY <2>3 DEF ScopesOf
  <2> HIDE DEF t, v, g
  <2>6. Plain(t) /\ Plain(v)
    BY <1>1, <2>3, <2>4, <2>5 DEF Plain
  <2> QED
    BY <2>2, <2>3, <2>4, <2>6, ValueStep
<1>7. CASE SkipGroup(s)
  <2> DEFINE t == [tx[s] EXCEPT !.at = "group", !.group = {}]
  <2>1. /\ t.plan = tx[s].plan /\ t.done = tx[s].done /\ t.pinned = tx[s].pinned /\ t.sco = tx[s].sco
        /\ t.at = "group" /\ t.todo = tx[s].todo /\ t.group = {}
        /\ Step(s, t) /\ tx[s].at = "decide" /\ ~Idle(s)
    BY <1>1, <1>7 DEF Txs, SkipGroup, Idle
  <2> HIDE DEF t
  <2>2. ScopesOf(t.todo \cup t.group) \subseteq ScopesOf(tx[s].todo \cup tx[s].group)
    BY <2>1 DEF ScopesOf
  <2>3. Plain(t)
    BY <1>1, <2>1, <2>2 DEF Plain
  <2> QED
    BY <2>1, <2>3, ValueStep
<1>8. ASSUME NEW p, Decided(s, p), tx[s].at = "decide",
             \/ Tame(p)
             \/ serial => LET st == After(status, tx[s].done)
                              tab == With(table, tx[s].done)
                          IN Sound(status, table, After(st, p), With(tab, p))
      PROVE  ValueInv'
  <2> DEFINE t == [Plan(tx[s], p, "group") EXCEPT !.group = {}]
  <2>1. /\ t.plan = p /\ t.done = tx[s].done /\ t.pinned = tx[s].pinned /\ t.sco = tx[s].sco
        /\ t.at = "flush" /\ t.then = "group" /\ t.todo = tx[s].todo /\ t.group = {}
    BY <1>1 DEF Txs, Plan
  <2>2. Step(s, t)
    BY <1>8 DEF Decided
  <2> HIDE DEF t
  <2>3. ScopesOf(t.todo \cup t.group) \subseteq ScopesOf(tx[s].todo \cup tx[s].group)
    BY <2>1 DEF ScopesOf
  <2>4. Plain(t) /\ ~Idle(s)
    BY <1>1, <1>8, <2>1, <2>3 DEF Plain, Idle
  <2>5. serial => Fits(status, table, t)
    <3>1. CASE Tame(p)
      BY <2>1, <3>1, FitsTame DEF ValueInv
    <3>2. CASE ~Tame(p)
      BY <1>8, <2>1, <3>2 DEF ValueInv, Fits, SoundFor
    <3> QED
      BY <3>1, <3>2
  <2>6. tx' = [tx EXCEPT ![s] = t] /\ RowsKept /\ serial' = serial
    BY <2>2 DEF Step, Set
  <2> QED
    BY <2>4, <2>5, <2>6, ValueQuiet
<1>9. CASE DecideSingle(s)
  <2>1. PICK c \in Cands :
          /\ tx[s].group = {c}
          /\ Decided(s, IF Rivals(s) # {} THEN Conflicting(Rivals(s) \cup {c})
                                          ELSE Applied(s, c, "same"))
    BY <1>9 DEF DecideSingle
  <2>2. tx[s].at = "decide" /\ ~Skips(s)
    BY <1>9 DEF DecideSingle
  <2>3. CASE Rivals(s) # {}
    BY <1>8, <2>1, <2>2, <2>3, TamePlans
  <2>4. CASE Rivals(s) = {}
    <3>1. ASSUME serial
          PROVE  LET st == After(status, tx[s].done)
                     tab == With(table, tx[s].done)
                     p == Applied(s, c, "same")
                 IN Sound(status, table, After(st, p), With(tab, p))
      BY <1>1, <2>1, <2>2, <2>4, <3>1, SoundApplied DEF ValueInv
    <3> QED
      BY <1>8, <2>1, <2>2, <2>4, <3>1
  <2> QED
    BY <2>3, <2>4
<1>10. CASE DecideMulti(s)
  <2>1. tx[s].at = "decide" /\ ~Skips(s)
    BY <1>10 DEF DecideMulti
  <2>2. CASE Decided(s, Conflicting(tx[s].group))
    BY <1>8, <2>1, <2>2, TamePlans
  <2>3. ASSUME ScopesOf(tx[s].group) \subseteq Ruled,
               NEW w \in tx[s].group, NEW others \in {"active", "rejected"},
               Decided(s, Applied(s, w, others))
        PROVE  ValueInv'
    <3>1. w \in Cands
      BY <1>1 DEF Txs
    <3>2. ASSUME serial
          PROVE  LET st == After(status, tx[s].done)
                     tab == With(table, tx[s].done)
                     p == Applied(s, w, others)
                 IN Sound(status, table, After(st, p), With(tab, p))
      BY <1>1, <2>1, <2>3, <3>1, <3>2, SoundApplied DEF ValueInv
    <3> QED
      BY <1>8, <2>1, <2>3, <3>2
  <2> QED
    BY <1>10, <2>2, <2>3 DEF DecideMulti
<1>11. CASE EndPromote(s)
  <2>1. PICK x : /\ x \in AfterPromote \cup {"commit"}
                 /\ tx' = [tx EXCEPT ![s] = [Closed EXCEPT !.at = x, !.done = tx[s].done]]
    BY <1>11 DEF EndPromote, Set
  <2> DEFINE t == [Closed EXCEPT !.at = x, !.done = tx[s].done]
  <2>2. t.plan = NoChange /\ t.done = tx[s].done /\ t.at = x /\ ~t.pinned
    BY DEF Closed
  <2>3. RowsKept /\ serial' = serial /\ ~Idle(s)
    BY <1>11 DEF EndPromote, Idle
  <2> HIDE DEF t
  <2>4. Plain(t)
    BY <2>1, <2>2 DEF Plain, AfterPromote
  <2>5. serial => Fits(status, table, t)
    BY <2>2, FitsTame, TamePlans DEF ValueInv
  <2> QED
    BY <2>1, <2>3, <2>4, <2>5, ValueQuiet DEF t
<1>12. ASSUME NEW p, NEW x \in {"keys", "commit"}, Step(s, Plan(tx[s], p, x)),
              tx[s].at \in {"indexes", "keys"},
              serial => LET st == After(status, tx[s].done)
                            tab == With(table, tx[s].done)
                        IN Sound(status, table, After(st, p), With(tab, p))
       PROVE  ValueInv'
  <2> DEFINE t == Plan(tx[s], p, x)
  <2>1. /\ t.plan = p /\ t.done = tx[s].done /\ t.pinned = tx[s].pinned /\ t.sco = tx[s].sco
        /\ t.at = "flush" /\ t.then = x
    BY <1>1 DEF Txs, Plan
  <2>2. tx' = [tx EXCEPT ![s] = t] /\ RowsKept /\ serial' = serial
    BY <1>12 DEF Step, Set
  <2> HIDE DEF t
  <2>3. Plain(t) /\ ~Idle(s)
    BY <1>1, <1>12, <2>1 DEF Plain, Idle
  <2>4. serial => Fits(status, table, t)
    BY <1>12, <2>1 DEF ValueInv, Fits, SoundFor
  <2> QED
    BY <2>2, <2>3, <2>4, ValueQuiet
<1>13. serial => Sound(status, table, After(status, tx[s].done), With(table, tx[s].done))
  BY DEF ValueInv, Fits, SoundFor
<1>14. /\ \A c \in Cands : StatusIn(s, c) = After(status, tx[s].done)[c]
       /\ TableIn(s) = With(table, tx[s].done)
  BY Seeing
<1>15. CASE BackfillIndexes(s)
  <2> DEFINE p == [NoChange EXCEPT !.touch = TRUE, !.cols = Ruled, !.value = TableIn(s).value]
  <2>1. Step(s, Plan(tx[s], p, "keys")) /\ tx[s].at = "indexes"
    BY <1>15 DEF BackfillIndexes
  <2>2. p = [NoChange EXCEPT !.touch = TRUE, !.cols = Ruled,
                             !.value = With(table, tx[s].done).value]
    BY <1>14
  <2> HIDE DEF p
  <2>3. serial => Sound(status, table, After(After(status, tx[s].done), p),
                                       With(With(table, tx[s].done), p))
    BY <1>13, <2>2, SoundBackfill
  <2> QED
    BY <1>12, <2>1, <2>3
<1>16. CASE DropStaleKeys(s)
  <2>1. PICK dropped \in SUBSET {x \in TableIn(s).fk : ~Protected(s, x)} :
          Step(s, IF dropped = {} THEN [tx[s] EXCEPT !.at = "commit"] ELSE
                  Plan(tx[s], [NoChange EXCEPT
                    !.touch = TRUE, !.cols = Scopes \ Ruled, !.fk = TableIn(s).fk \ dropped,
                    !.value = [x \in Scopes |-> IF x \in dropped THEN NoCand
                                                                 ELSE TableIn(s).value[x]]],
                    "commit"))
    BY <1>16 DEF DropStaleKeys
  <2> DEFINE tab == With(table, tx[s].done)
             p == [NoChange EXCEPT
                    !.touch = TRUE, !.cols = Scopes \ Ruled, !.fk = tab.fk \ dropped,
                    !.value = [x \in Scopes |-> IF x \in dropped THEN NoCand ELSE tab.value[x]]]
             t == [tx[s] EXCEPT !.at = "commit"]
  <2>2. /\ t.plan = tx[s].plan /\ t.done = tx[s].done /\ t.at = "commit"
        /\ t.pinned = tx[s].pinned /\ t.sco = tx[s].sco
    BY <1>1 DEF Txs
  <2>3. Step(s, t) \/ Step(s, Plan(tx[s], p, "commit"))
    BY <1>14, <2>1
  <2>4. tx[s].at \in {"indexes", "keys"}
    BY <1>16 DEF DropStaleKeys
  <2>5. \A x \in dropped : \A c \in (Of(x) \cap RepoCands) \ Evidence :
          After(status, tx[s].done)[c] # "active"
    BY <1>14, <2>1 DEF Protected, Of
  <2>6. dropped \in SUBSET tab.fk
    BY <1>14, <2>1
  <2> HIDE DEF t, tab
  <2>7. serial => Sound(status, table, After(After(status, tx[s].done), p), With(tab, p))
    BY <1>13, <2>5, <2>6, SoundDrop DEF tab
  <2> HIDE DEF p
  <2>8. CASE Step(s, t)
    <3>1. Plain(t) /\ ~Idle(s)
      BY <1>1, <2>2, <2>4 DEF Plain, Idle
    <3> QED
      BY <2>2, <2>8, <3>1, ValueStep
  <2> QED
    BY <1>12, <2>3, <2>4, <2>7, <2>8 DEF tab
<1>17. CASE Rollback(s) \/ FlushFails(s)
  <2>1. tx' = [tx EXCEPT ![s] = Closed] /\ RowsKept /\ serial' = serial
    BY <1>17 DEF Rollback, FlushFails, Set
  <2>2. Plain(Closed)
    BY PlainFields DEF Plain
  <2>3. serial => Fits(status, table, Closed)
    BY PlainFields, FitsOpen, TamePlans DEF ValueInv
  <2> QED
    BY <2>1, <2>2, <2>3, PlainFields, ValueQuiet
<1> QED
  BY <1>3, <1>4, <1>5, <1>6, <1>7, <1>9, <1>10, <1>11, <1>15, <1>16, <1>17,
     FlushValue, CommitValue DEF SessionStep

\* The transactions of one step: only a user changes an entry, and a table goes
\* with all that is in force.
LEMMA ShortValue ==
  ASSUME ShapeOK, ValueInv, DeleteRepo \/ DeleteSource \/ DeleteTable \/ ToggleLock \/ Patch
  PROVE  ValueInv'
<1>1. Alone
  BY DEF DeleteRepo, DeleteSource, DeleteTable, ToggleLock, Patch
<1>2. ASSUME NEW closed, TableGone(closed), NEW u \in Sessions
      PROVE  /\ tx'[u].at = tx[u].at /\ tx'[u].then = tx[u].then
             /\ tx'[u].pinned = tx[u].pinned /\ tx'[u].sco = tx[u].sco
             /\ tx'[u].todo = tx[u].todo /\ tx'[u].group = tx[u].group
             /\ tx[u].plan = NoChange => tx'[u].plan = NoChange
             /\ tx[u].done = NoChange => tx'[u].done = NoChange
  <2>1. tx[u] \in Txs
    BY DEF ShapeOK
  <2> DEFINE w == WithClosed(tx[u], closed)
  <2>2. /\ w = [tx[u] EXCEPT !.plan = [tx[u].plan EXCEPT !.close = @ \ closed],
                             !.done = [tx[u].done EXCEPT !.close = @ \ closed]]
        /\ w \in Txs
    BY <2>1, ClosedShape
  <2>3. /\ w.plan = [tx[u].plan EXCEPT !.close = @ \ closed]
        /\ w.done = [tx[u].done EXCEPT !.close = @ \ closed]
        /\ w.at = tx[u].at /\ w.then = tx[u].then
        /\ w.pinned = tx[u].pinned /\ w.sco = tx[u].sco
        /\ w.todo = tx[u].todo /\ w.group = tx[u].group
    BY <2>1, <2>2 DEF Txs
  <2>4. tx'[u] = [w EXCEPT !.gone = tx[u].pinned \/ tx[u].plan.touch]
    BY <1>2 DEF TableGone
  <2> HIDE DEF w
  <2>5. /\ tx'[u].plan = w.plan /\ tx'[u].done = w.done
        /\ tx'[u].at = w.at /\ tx'[u].then = w.then
        /\ tx'[u].pinned = w.pinned /\ tx'[u].sco = w.sco
        /\ tx'[u].todo = w.todo /\ tx'[u].group = w.group
    BY <2>2, <2>4 DEF Txs
  <2>6. NoChange.close \ closed = NoChange.close
    BY DEF NoChange
  <2>7. [NoChange EXCEPT !.close = NoChange.close] = NoChange
    BY DEF NoChange
  <2> QED
    BY <2>3, <2>5, <2>6, <2>7
<1>3. \/ tx' = tx
      \/ \A u \in Sessions :
            /\ tx'[u].at = tx[u].at /\ tx'[u].then = tx[u].then
            /\ tx'[u].pinned = tx[u].pinned /\ tx'[u].sco = tx[u].sco
            /\ tx'[u].todo = tx[u].todo /\ tx'[u].group = tx[u].group
            /\ tx[u].plan = NoChange => tx'[u].plan = NoChange
            /\ tx[u].done = NoChange => tx'[u].done = NoChange
  <2>1. CASE DeleteRepo \/ ToggleLock \/ Patch
    BY <2>1 DEF DeleteRepo, ToggleLock, Patch
  <2>2. CASE DeleteSource \/ DeleteTable
    <3>1. \E closed : TableGone(closed)
      BY <2>2 DEF DeleteSource, DeleteTable
    <3> QED
      BY <1>2, <3>1
  <2> QED
    BY <2>1, <2>2
<1>4. \A u \in Sessions : Plain(tx'[u])
  BY <1>3, SMTT(30) DEF ValueInv, Plain
<1>5. /\ \A c \in Cands : status'[c] = "active" => status[c] = "active"
      /\ \/ table' = NoTable
         \/ /\ table'.locked => table'.exists \/ table.locked
            /\ table'.exists = table.exists
            /\ \A x \in Scopes : table'.value[x] \in {table.value[x], NoCand, ByUser}
  <2>1. ASSUME NEW cs, Orphaned(cs) PROVE \A c \in Cands : status'[c] = "active" => status[c] = "active"
    BY <2>1 DEF Orphaned
  <2>2. table \in Tables
    BY DEF ShapeOK
  <2>3. CASE DeleteRepo
    <3>1. table' = table /\ \A c \in Cands : status'[c] = "active" => status[c] = "active"
      BY <2>1, <2>3 DEF DeleteRepo
    <3> QED
      BY <3>1
  <2>4. CASE DeleteSource \/ DeleteTable
    BY <2>1, <2>4 DEF DeleteSource, DeleteTable
  <2>5. CASE ToggleLock
    <3>1. /\ table' = [table EXCEPT !.locked = ~@] /\ table.exists /\ status' = status
      BY <2>5 DEF ToggleLock
    <3>2. table'.exists = table.exists /\ table'.value = table.value
      BY <2>2, <3>1 DEF Tables
    <3> QED
      BY <3>1, <3>2
  <2>6. CASE Patch
    <3>1. PICK scope, edited, written :
            table' = Edited(Column(scope), edited, written)
      BY <2>6 DEF Patch
    <3>2. /\ table'.exists = table.exists
          /\ table'.value = [x \in Scopes |-> IF x \in written THEN ByUser
                                               ELSE IF x \in edited THEN NoCand ELSE table.value[x]]
      BY <2>2, <3>1 DEF Tables, Edited
    <3>3. table.exists /\ status' = status
      BY <2>6 DEF Patch
    <3> QED
      BY <3>2, <3>3
  <2> QED
    BY <2>3, <2>4, <2>5, <2>6
<1>6. ASSUME serial'
      PROVE  /\ \A v, u \in Sessions : v # u => Idle(v)' \/ Idle(u)'
             /\ Sound(status', table', status', table')
             /\ \A u \in Sessions : Fits(status', table', tx'[u])
  <2>1. serial /\ \A u \in Sessions : Idle(u)
    BY <1>1, <1>6 DEF Alone
  <2>2. \A u \in Sessions : tx'[u].at = "idle"
    BY <1>3, <2>1 DEF Idle
  <2>3. \A u \in Sessions : tx'[u].plan = NoChange /\ tx'[u].done = NoChange /\ ~tx'[u].pinned
    BY <1>4, <2>2 DEF Plain
  <2>4. Agreed(status, table) /\ (table.locked => table.exists)
    BY <2>1 DEF ValueInv, Sound, Heeds
  <2>5. Agreed(status', table')
    <3>1. CASE table' = NoTable
      <4>1. \A x \in Scopes : table'.value[x] = NoCand
        BY <3>1 DEF NoTable
      <4> QED
        BY <1>5, <2>4, <4>1, Constants DEF Agreed
    <3>2. CASE \A x \in Scopes : table'.value[x] \in {table.value[x], NoCand, ByUser}
      BY <1>5, <2>4, <3>2, Constants DEF Agreed
    <3> QED
      BY <1>5, <3>1, <3>2
  <2>6. table'.locked => table'.exists
    BY <1>5, <2>4 DEF NoTable
  <2>7. Sound(status', table', status', table')
    BY <2>5, <2>6, SoundItself
  <2>8. \A u \in Sessions : Fits(status', table', tx'[u])
    BY <2>3, <2>7, FitsOpen, TamePlans
  <2> QED
    BY <2>2, <2>7, <2>8 DEF Idle
<1> QED
  BY <1>4, <1>6 DEF ValueInv

\* No value is in force at the start.
LEMMA ValueInit == Init => ValueInv
<1> SUFFICES ASSUME Init PROVE ValueInv
  OBVIOUS
<1>1. \A s \in Sessions : tx[s] = Closed
  BY DEF Init
<1>2. \A s \in Sessions : Plain(tx[s]) /\ Idle(s)
  BY <1>1, PlainFields DEF Plain, Idle
<1>3. Agreed(status, table) /\ ~table.locked
  BY DEF Init, Agreed, NoTable
<1>4. Sound(status, table, status, table)
  BY <1>3, SoundItself
<1>5. Fits(status, table, Closed)
  BY <1>4, PlainFields, FitsOpen, TamePlans
<1> QED
  BY <1>1, <1>2, <1>4, <1>5 DEF ValueInv

\* Every step keeps the values in force and the table together.
LEMMA ValueStepwise == ShapeOK /\ ValueInv /\ [Next]_vars => ValueInv'
<1> SUFFICES ASSUME ShapeOK, ValueInv, [Next]_vars PROVE ValueInv'
  OBVIOUS
<1>1. CASE UNCHANGED vars
  BY <1>1 DEF vars, ValueInv, Idle
<1>2. CASE Next
  BY <1>2, BeginValue, GoOnValue, ShortValue DEF Next
<1> QED
  BY <1>1, <1>2

\* The invariant about values, for transactions that do not overlap.
THEOREM ValuesAlways == Spec => []ValueInv
BY ShapeAlways, ValueInit, ValueStepwise, PTL DEF Spec

\* While transactions do not overlap, a relationship has one value in force and the
\* canonical table says no other (_handle_single_candidate, _apply_to_canonical).
THEOREM RelationshipsSayOneThing == Spec => []OneValueInForce
<1>1. ValueInv => OneValueInForce
  <2> SUFFICES ASSUME ValueInv, serial PROVE Agreed(status, table)
    BY DEF OneValueInForce, AtMostOneActive, CanonicalAgrees, Agreed, Relations
  <2> QED
    BY DEF ValueInv, Sound
<1> QED
  BY <1>1, ValuesAlways, PTL

\* What a step does to the canonical table, unless a user edits it: a commit writes
\* what its session saw, a deletion takes the table.
LEMMA TableSteps ==
  ASSUME ShapeOK, ValueInv, serial, [Next]_vars, table'.exists, ~Patch
  PROVE  /\ Keeps(status, table, status', table')
         /\ table.locked => \A x \in Scopes :
              \/ table'.value[x] = table.value[x]
              \/ x \in table.fk /\ table'.value[x] = NoCand
<1>1. CASE \E s \in Sessions : Commit(s)
  <2>1. PICK s \in Sessions : Commit(s)
    BY <1>1
  <2> DEFINE d == tx[s].done
  <2>2. \A c \in Cands : status'[c] = After(status, d)[c]
    BY <2>1, Seeing DEF Commit
  <2>3. table' = With(table, d)
    BY <2>1, Seeing DEF Commit
  <2>4. Sound(status, table, After(status, d), With(table, d))
    BY DEF ValueInv, Fits, SoundFor
  <2> QED
    BY <2>2, <2>3, <2>4, Constants DEF Sound, Keeps, Heeds, FromCode
<1>2. CASE table'.value = table.value
  BY <1>2 DEF Keeps
<1>3. CASE DeleteSource \/ DeleteTable
  <2>1. table' = NoTable
    BY <1>3 DEF DeleteSource, DeleteTable
  <2> QED
    BY <2>1 DEF NoTable
<1>4. \/ \E s \in Sessions : Commit(s)
      \/ DeleteSource \/ DeleteTable
      \/ table'.value = table.value
  <2>1. CASE UNCHANGED vars
    BY <2>1 DEF vars
  <2>2. ASSUME NEW s \in Sessions, NEW t, Open(s, t) \/ Step(s, t) PROVE table' = table
    BY <2>2 DEF Open, Step, RowsKept
  <2>3. ASSUME NEW s \in Sessions,
               \/ Promote(s) \/ TidyUp(s) \/ Purge(s)
               \/ \E c \in Cands : WriteCandidate(s, c)
               \/ \E scope \in Scopes : Resolve(s, scope) \/ ConfirmField(s, scope)
        PROVE  table' = table
    BY <2>2, <2>3 DEF Promote, TidyUp, Purge, WriteCandidate, Resolve, Resolution, ConfirmField
  <2>4. ASSUME NEW s \in Sessions, SessionStep(s) \/ Rollback(s), ~Commit(s) PROVE table' = table
    <3>1. CASE LockAndSelect(s) \/ EndPromote(s) \/ FlushFails(s) \/ Rollback(s)
      BY <3>1 DEF LockAndSelect, EndPromote, FlushFails, Rollback, RowsKept
    <3>2. CASE \/ LockTimeout(s) \/ SelectField(s) \/ NextGroup(s) \/ SkipGroup(s)
               \/ BackfillIndexes(s) \/ DropStaleKeys(s) \/ Flush(s)
      BY <2>2, <3>2 DEF LockTimeout, SelectField, NextGroup, SkipGroup, BackfillIndexes,
         DropStaleKeys, Flush
    <3>3. CASE DecideSingle(s) \/ DecideMulti(s)
      BY <2>2, <3>3 DEF DecideSingle, DecideMulti, Decided
    <3> QED
      BY <2>4, <3>1, <3>2, <3>3 DEF SessionStep
  <2>5. CASE DeleteRepo \/ ToggleLock
    <3>1. table' = table \/ table' = [table EXCEPT !.locked = ~@]
      BY <2>5 DEF DeleteRepo, ToggleLock
    <3> QED
      BY <3>1 DEF ShapeOK, Tables
  <2> QED
    BY <2>1, <2>3, <2>4, <2>5 DEF Next
<1> QED
  BY <1>1, <1>2, <1>3, <1>4

\* No path but a user's edit takes an active relationship found in the code out of
\* the canonical table (cleanup_stale_fk_relationships, promote, the deletions).
THEOREM CodeStaysCanonical == Spec => CodeIsKept
<1>1. ShapeOK /\ ValueInv /\ [Next]_vars => [CodeKept]_vars
  <2> SUFFICES ASSUME ShapeOK, ValueInv, [Next]_vars, serial, ~Patch, NEW c \in FromCode,
                      IsCanonical(c), status[c] = "active", status'[c] = "active", table'.exists
               PROVE  IsCanonical(c)'
    BY DEF CodeKept, Kept
  <2>1. Keeps(status, table, status', table')
    BY TableSteps
  <2> QED
    BY <2>1 DEF Keeps, IsCanonical
<1> QED
  BY <1>1, ShapeAlways, ValuesAlways, PTL DEF Spec, CodeIsKept

\* What stands in a locked table is changed by a user alone, but for dropped entries
\* of foreign keys (user_locked, in every path to the canonical).
THEOREM LockedTablesKeepValues == Spec => LockedKeepsValue
<1>1. ShapeOK /\ ValueInv /\ [Next]_vars => [ValueKept]_vars
  BY TableSteps DEF ValueKept
<1> QED
  BY <1>1, ShapeAlways, ValuesAlways, PTL DEF Spec, LockedKeepsValue

----------------------------------------------------------------------------
(* Mere evidence is not in force before a user has confirmed it, with any    *)
(* number of overlapping transactions: what a session has read as evidence   *)
(* and as pending may have changed since, but not without it noticing.       *)

\* The one case in which a rule may choose it: among the values of one field.
RuleMayChoose(c) == ScopeOf[c] \in Ruled /\ Of(ScopeOf[c]) # {c}

SeenStatus(d, c) == IF d.st[c] = "same" THEN status[c] ELSE d.st[c]
SeenWeak(d, c) ==
  \/ c \in weak \ d.firm /\ d.st[c] # "absent"
  \/ c \in Evidence /\ status[c] = "absent" /\ d.st[c] \notin {"same", "absent"}

\* In the loop over groups, what was selected is still there, and known as evidence
\* if it is; unless it was deleted.  (Only who is about to flush has a plan.)
Selecting(t) == t.at \in {"group", "decide"} \/ (t.at = "flush" /\ t.then \in {"group", "decide"})
Knows(t) ==
  /\ t.at # "flush" => \A c \in Cands : t.plan.st[c] = "same"
  /\ Selecting(t) =>
       /\ \A c \in (t.todo \cup t.group) \ t.lost :
            SeenStatus(t.done, c) # "absent" /\ (SeenWeak(t.done, c) => c \in t.soft)
       /\ \A c \in Cands : t.plan.st[c] # "absent"
       /\ \A c, d \in t.group : ScopeOf[c] = ScopeOf[d]

\* What is put in force, in a plan or in flushed rows, is not mere evidence.
PlansFirm(t) ==
  \A c \in Cands \ t.lost :
    t.plan.st[c] = "active" =>
      SeenStatus(t.done, c) # "absent" /\ (SeenWeak(t.done, c) => RuleMayChoose(c))
DoesFirm(t) ==
  \A c \in Cands : t.done.st[c] = "active" => (SeenWeak(t.done, c) => RuleMayChoose(c))

\* No two sessions hold the row of one candidate.
RowsApart ==
  \A s, u \in Sessions :
    s # u => CandLocks(tx[s].done) \cap CandLocks(tx[u].done) = {}

EvidenceInv ==
  /\ \A s \in Sessions : Knows(tx[s]) /\ PlansFirm(tx[s]) /\ DoesFirm(tx[s])
  /\ RowsApart
  /\ EvidenceNeedsUser

\* What a session sees of a candidate.
LEMMA SeeingEvidence ==
  ASSUME NEW s \in Sessions
  PROVE  /\ \A c \in Cands : StatusIn(s, c) = SeenStatus(tx[s].done, c)
         /\ \A c : c \in WeakIn(s) <=> SeenWeak(tx[s].done, c)
BY DEF StatusIn, SeenStatus, WeakIn, SeenWeak

\* An idle session holds no row and puts nothing in force.
LEMMA NothingFirm ==
  /\ CandLocks(NoChange) = {} /\ \A c \in Cands : NoChange.st[c] = "same"
  /\ DoesFirm(Closed) /\ PlansFirm(Closed) /\ Knows(Closed)
  /\ Closed.done = NoChange /\ Closed.plan = NoChange /\ Closed.at = "idle"
BY DEF CandLocks, NoChange, DoesFirm, PlansFirm, Knows, Selecting, Closed

\* A session goes on with what it has flushed, or with nothing, and the rows stay.
LEMMA EvidenceQuiet ==
  ASSUME ShapeOK, EvidenceInv, NEW s \in Sessions, NEW t,
         tx' = [tx EXCEPT ![s] = t], RowsKept,
         t.done = tx[s].done \/ t.done = NoChange,
         Knows(t), PlansFirm(t)
  PROVE  EvidenceInv'
<1>1. tx'[s] = t /\ \A u \in Sessions : u # s => tx'[u] = tx[u]
  BY DEF ShapeOK
<1>2. status' = status /\ weak' = weak
  BY DEF RowsKept
<1>3. DoesFirm(t)
  BY NothingFirm DEF EvidenceInv, DoesFirm
<1>4. \A u \in Sessions : Knows(tx'[u]) /\ PlansFirm(tx'[u]) /\ DoesFirm(tx'[u])
  BY <1>1, <1>3 DEF EvidenceInv
<1>5. \A u \in Sessions : (Knows(tx[u]) /\ PlansFirm(tx[u]) /\ DoesFirm(tx[u]))'
  BY <1>2, <1>4 DEF Knows, PlansFirm, DoesFirm, SeenStatus, SeenWeak
<1>6. RowsApart'
  BY <1>1, NothingFirm DEF EvidenceInv, RowsApart
<1>7. EvidenceNeedsUser'
  BY <1>2 DEF EvidenceInv, EvidenceNeedsUser
<1> QED
  BY <1>5, <1>6, <1>7 DEF EvidenceInv

\* A plan that puts nothing in force is firm.
LEMMA FirmPlan ==
  ASSUME NEW t, \A c \in Cands : t.plan.st[c] # "active"
  PROVE  PlansFirm(t)
BY DEF PlansFirm

\* Opening a session puts nothing in force.
LEMMA BeginEvidence ==
  ASSUME ShapeOK, EvidenceInv, NEW s \in Sessions,
         \/ Promote(s) \/ TidyUp(s) \/ Purge(s)
         \/ \E c \in Cands : WriteCandidate(s, c)
         \/ \E scope \in Scopes : Resolve(s, scope) \/ ConfirmField(s, scope)
  PROVE  EvidenceInv'
<1>1. ASSUME NEW t, Open(s, t), t.done = NoChange,
             \/ t.at \in {"lock", "indexes"} /\ t.plan = NoChange
             \/ /\ t.at = "flush" /\ t.then \notin {"group", "decide"}
                /\ \A c \in Cands : t.plan.st[c] # "active"
      PROVE  EvidenceInv'
  <2>1. tx' = [tx EXCEPT ![s] = t] /\ RowsKept
    BY <1>1 DEF Open, Set
  <2>2. \A c \in Cands : t.plan.st[c] # "active"
    BY <1>1, NothingFirm
  <2>3. Knows(t) /\ PlansFirm(t)
    BY <1>1, <2>2, NothingFirm, FirmPlan DEF Knows, Selecting
  <2> QED
    BY <1>1, <2>1, <2>3, EvidenceQuiet
<1>2. CASE Promote(s) \/ TidyUp(s)
  <2>1. PICK x \in {"lock", "indexes"} : Open(s, [Closed EXCEPT !.at = x])
    BY <1>2 DEF Promote, TidyUp
  <2> DEFINE t == [Closed EXCEPT !.at = x]
  <2>2. t.done = NoChange /\ t.plan = NoChange /\ t.at = x
    BY DEF Closed
  <2> HIDE DEF t
  <2> QED
    BY <1>1, <2>1, <2>2 DEF t
<1>3. ASSUME NEW p, NEW x, x \notin {"group", "decide"}, \A c \in Cands : p.st[c] # "active",
             Open(s, Plan(Closed, p, x))
      PROVE  EvidenceInv'
  <2> DEFINE t == Plan(Closed, p, x)
  <2>1. t.done = NoChange /\ t.plan = p /\ t.at = "flush" /\ t.then = x
    BY DEF Closed, Plan
  <2> HIDE DEF t
  <2> QED
    BY <1>1, <1>3, <2>1 DEF t
<1>4. ASSUME NEW cs, NEW new, new # "active", NEW c \in Cands
      PROVE  [NoChange EXCEPT !.st = St(cs, new)].st[c] # "active"
  BY <1>4 DEF NoChange, St
<1>5. CASE Purge(s)
  <2> DEFINE cs == {c \in RepoCands : status[c] = "pending"}
             p == [NoChange EXCEPT !.st = St(cs, "absent")]
  <2>1. \A c \in Cands : p.st[c] # "active"
    BY <1>4
  <2>2. Open(s, Plan(Closed, p, "commit")) /\ "commit" \notin {"group", "decide"}
    BY <1>5 DEF Purge
  <2> HIDE DEF p
  <2> QED
    BY <1>3, <2>1, <2>2
<1>6. ASSUME NEW c \in Cands, WriteCandidate(s, c) PROVE EvidenceInv'
  <2> DEFINE new == IF status[c] = "absent" THEN "new" ELSE "pending"
             p == [NoChange EXCEPT !.st = St({c}, new)]
  <2>1. \A e \in Cands : p.st[e] # "active"
    BY <1>4
  <2>2. Open(s, Plan(Closed, p, "commit")) \/ Open(s, Plan(Closed, p, "lock"))
    BY <1>6 DEF WriteCandidate
  <2> HIDE DEF p
  <2> QED
    BY <1>3, <2>1, <2>2
<1>7. ASSUME NEW scope, NEW winners, NEW losers, NEW next, next \notin {"group", "decide"},
             Resolution(s, scope, winners, losers, next)
      PROVE  EvidenceInv'
  <2> DEFINE new == [c \in Cands |-> IF c \in winners THEN "pending"
                                     ELSE IF c \in losers THEN "rejected" ELSE "same"]
             st == [c \in Cands |-> IF new[c] = status[c] THEN "same" ELSE new[c]]
             p == [NoChange EXCEPT !.close = {scope}, !.st = st]
             t == Plan([Closed EXCEPT !.group = winners], p, next)
  <2>1. \A c \in Cands : p.st[c] # "active"
    BY DEF NoChange
  <2> HIDE DEF p
  <2>2. t.done = NoChange /\ t.plan = p /\ t.at = "flush" /\ t.then = next
    BY DEF Closed, Plan
  <2>3. Open(s, t)
    BY <1>7 DEF Resolution, p
  <2> HIDE DEF t
  <2> QED
    BY <1>1, <1>7, <2>1, <2>2, <2>3
<1>8. ASSUME NEW scope \in Scopes, Resolve(s, scope) PROVE EvidenceInv'
  <2> DEFINE listed == open[scope] \ {NoCand}
  <2>1. \/ \E w \in listed : Resolution(s, scope, {w}, listed \ {w}, "single")
        \/ Resolution(s, scope, {}, listed, "commit")
    BY <1>8 DEF Resolve
  <2>2. "single" \notin {"group", "decide"} /\ "commit" \notin {"group", "decide"}
    OBVIOUS
  <2> HIDE DEF listed
  <2> QED
    BY <1>7, <2>1, <2>2
<1>9. ASSUME NEW scope \in Scopes, ConfirmField(s, scope) PROVE EvidenceInv'
  <2> DEFINE cs == {c \in Of(scope) \cap weak : status[c] = "pending"}
             p == [NoChange EXCEPT !.firm = cs]
             q == [NoChange EXCEPT !.st = St(cs, "rejected")]
             x == IF scope \in Ruled THEN "single" ELSE "commit"
             t == Plan([Closed EXCEPT !.group = cs, !.sco = table, !.pinned = TRUE], p, x)
  <2>1. \A c \in Cands : p.st[c] # "active" /\ q.st[c] # "active"
    BY <1>4 DEF NoChange
  <2>2. Open(s, t) \/ Open(s, Plan(Closed, q, "commit"))
    BY <1>9 DEF ConfirmField
  <2> HIDE DEF cs, p, q
  <2>3. t.done = NoChange /\ t.plan = p /\ t.at = "flush" /\ t.then = x
    BY DEF Closed, Plan
  <2> HIDE DEF t
  <2>4. x \notin {"group", "decide"} /\ "commit" \notin {"group", "decide"}
    OBVIOUS
  <2> QED
    BY <1>1, <1>3, <2>1, <2>2, <2>3, <2>4
<1> QED
  BY <1>2, <1>5, <1>6, <1>8, <1>9

\* A candidate that is applied: the last of its group if it is not evidence, or one
\* of several among which a rule chooses.
LEMMA FirmApplied ==
  ASSUME ShapeOK, EvidenceInv, NEW s \in Sessions, tx[s].at = "decide", ~Skips(s),
         NEW w \in Cands, w \in tx[s].group, NEW others \in {"same", "active", "rejected"},
         \/ tx[s].group = {w}
         \/ Cardinality(tx[s].group) > 1 /\ ScopesOf(tx[s].group) \subseteq Ruled,
         NEW t, t.plan = Applied(s, w, others), t.done = tx[s].done, t.lost = tx[s].lost
  PROVE  PlansFirm(t)
<1>1. t.plan.st = [c \in Cands |-> IF c = w THEN "active"
                                   ELSE IF c \in tx[s].group THEN others ELSE "same"]
  BY DEF Applied, NoChange
<1>2. SUFFICES ASSUME NEW c \in Cands \ tx[s].lost, t.plan.st[c] = "active"
               PROVE  /\ SeenStatus(tx[s].done, c) # "absent"
                      /\ SeenWeak(tx[s].done, c) => RuleMayChoose(c)
  BY DEF PlansFirm
<1>3. c \in tx[s].group
  BY <1>1, <1>2
<1>4. /\ SeenStatus(tx[s].done, c) # "absent"
      /\ SeenWeak(tx[s].done, c) => c \in tx[s].soft
      /\ \A d \in tx[s].group : ScopeOf[d] = ScopeOf[c]
  BY <1>3 DEF EvidenceInv, Knows, Selecting
<1>5. CASE tx[s].group = {w}
  <2>1. Cardinality(tx[s].group) = 1
    BY <1>5, FS_Singleton
  <2>2. c \notin tx[s].soft
    BY <1>3, <1>5, <2>1 DEF Skips
  <2> QED
    BY <1>4, <2>2
<1>6. CASE Cardinality(tx[s].group) > 1 /\ ScopesOf(tx[s].group) \subseteq Ruled
  <2>1. tx[s].group # {c}
    <3>1. Cardinality({c}) = 1
      BY FS_Singleton
    <3>2. ~(1 > 1)
      OBVIOUS
    <3> QED
      BY <1>6, <3>1, <3>2
  <2>2. PICK d \in tx[s].group : d # c
    BY <1>3, <2>1
  <2>3. d \in Of(ScopeOf[c])
    BY <1>4 DEF ShapeOK, Txs, Of
  <2>4. ScopeOf[c] \in Ruled
    BY <1>3, <1>6 DEF ScopesOf
  <2> QED
    BY <1>4, <2>2, <2>3, <2>4 DEF RuleMayChoose
<1> QED
  BY <1>5, <1>6

\* The steps of a session, but for its flushes and commits.
LEMMA GoOnEvidence ==
  ASSUME ShapeOK, EvidenceInv, NEW s \in Sessions, SessionStep(s) \/ Rollback(s),
         ~Flush(s), ~Commit(s)
  PROVE  EvidenceInv'
<1>1. tx[s] \in Txs /\ Knows(tx[s]) /\ PlansFirm(tx[s])
  BY DEF ShapeOK, EvidenceInv
<1>2. ASSUME NEW cs, cs \subseteq Pending(s), tx[s].at \in {"lock", "single"}, RowsKept,
             tx' = [tx EXCEPT ![s] = Selected(s, cs)]
      PROVE  EvidenceInv'
  <2> DEFINE t == Selected(s, cs)
  <2>1. /\ t.at = "group" /\ t.todo = cs /\ t.group = {} /\ t.plan = tx[s].plan
        /\ t.done = tx[s].done /\ t.soft = cs \cap WeakIn(s) /\ t.lost = {}
    BY <1>1, <1>2 DEF Selected, Txs
  <2>2. tx' = [tx EXCEPT ![s] = t]
    BY <1>2
  <2> HIDE DEF t
  <2>3. \A c \in Cands : t.plan.st[c] = "same"
    BY <1>1, <1>2, <2>1 DEF Knows
  <2>4. \A c \in cs : /\ SeenStatus(t.done, c) # "absent"
                      /\ SeenWeak(t.done, c) => c \in t.soft
    BY <1>2, <2>1, SeeingEvidence DEF Pending
  <2>5. Knows(t) /\ PlansFirm(t)
    BY <2>1, <2>3, <2>4, FirmPlan DEF Knows
  <2> QED
    BY <1>2, <2>1, <2>2, <2>5, EvidenceQuiet
<1>3. CASE LockAndSelect(s)
  <2>1. /\ tx[s].at \in {"lock", "single"} /\ RowsKept
        /\ tx' = [tx EXCEPT ![s] = Selected(s, Pending(s))]
    BY <1>3 DEF LockAndSelect, Set
  <2> QED
    BY <1>2, <2>1
<1>4. CASE SelectField(s)
  <2> DEFINE cs == {c \in Pending(s) : ScopeOf[c] \in ScopesOf(tx[s].group)}
  <2>1. /\ tx[s].at \in {"lock", "single"} /\ RowsKept /\ cs \subseteq Pending(s)
        /\ tx' = [tx EXCEPT ![s] = Selected(s, cs)]
    BY <1>4 DEF SelectField, Step, Set
  <2> HIDE DEF cs
  <2> QED
    BY <1>2, <2>1
<1>5. ASSUME NEW t, Step(s, t), t.done = tx[s].done, Knows(t), PlansFirm(t)
      PROVE  EvidenceInv'
  BY <1>5, EvidenceQuiet DEF Step, Set
<1>6. ASSUME NEW t, \A c \in Cands : t.plan.st[c] = "same", ~Selecting(t)
      PROVE  Knows(t) /\ PlansFirm(t)
  BY <1>6, FirmPlan DEF Knows
<1>7. CASE LockTimeout(s)
  <2>1. PICK x \in AfterPromote : Step(s, [tx[s] EXCEPT !.at = x])
    BY <1>7 DEF LockTimeout
  <2> DEFINE t == [tx[s] EXCEPT !.at = x]
  <2>2. t.done = tx[s].done /\ t.plan = tx[s].plan /\ t.at = x /\ tx[s].at = "lock"
    BY <1>1, <1>7 DEF Txs, LockTimeout
  <2> HIDE DEF t
  <2>3. \A c \in Cands : t.plan.st[c] = "same"
    BY <1>1, <2>2 DEF Knows
  <2>4. ~Selecting(t)
    BY <2>2 DEF Selecting, AfterPromote
  <2>5. Knows(t) /\ PlansFirm(t)
    BY <1>6, <2>3, <2>4
  <2> QED
    BY <1>5, <2>1, <2>2, <2>5 DEF t
<1>8. CASE NextGroup(s)
  <2>1. PICK scope \in ScopesOf(tx[s].todo) :
          LET g == tx[s].todo \cap Of(scope)
              t == [tx[s] EXCEPT !.todo = @ \ g]
          IN Step(s, IF OpenIn(s, scope) THEN t ELSE [t EXCEPT !.at = "decide", !.group = g])
    BY <1>8 DEF NextGroup
  <2> DEFINE g == tx[s].todo \cap Of(scope)
             t == [tx[s] EXCEPT !.todo = @ \ g]
             v == [t EXCEPT !.at = "decide", !.group = g]
  <2>2. Step(s, t) \/ Step(s, v)
    BY <2>1
  <2>3. /\ t.plan = tx[s].plan /\ t.done = tx[s].done /\ t.soft = tx[s].soft /\ t.lost = tx[s].lost
        /\ t.at = "group" /\ t.todo \subseteq tx[s].todo /\ t.group = tx[s].group
        /\ v.plan = tx[s].plan /\ v.done = tx[s].done /\ v.soft = tx[s].soft /\ v.lost = tx[s].lost
        /\ v.at = "decide" /\ v.todo \subseteq tx[s].todo /\ v.group = g
    BY <1>1, <1>8 DEF Txs, NextGroup
  <2>4. tx[s].at = "group"
    BY <1>8 DEF NextGroup
  <2>5. g \subseteq tx[s].todo /\ \A c, d \in g : ScopeOf[c] = ScopeOf[d]
    BY DEF Of
  <2> HIDE DEF t, v, g
  <2>6. /\ \A c \in Cands : tx[s].plan.st[c] = "same"
        /\ \A c \in (tx[s].todo \cup tx[s].group) \ tx[s].lost :
             /\ SeenStatus(tx[s].done, c) # "absent"
             /\ SeenWeak(tx[s].done, c) => c \in tx[s].soft
        /\ \A c, d \in tx[s].group : ScopeOf[c] = ScopeOf[d]
    BY <1>1, <2>4 DEF Knows, Selecting
  <2>7. Knows(t) /\ PlansFirm(t)
    BY <2>3, <2>6, FirmPlan DEF Knows
  <2>8. Knows(v) /\ PlansFirm(v)
    BY <2>3, <2>5, <2>6, FirmPlan DEF Knows
  <2> QED
    BY <1>5, <2>2, <2>3, <2>7, <2>8
<1>9. CASE SkipGroup(s)
  <2> DEFINE t == [tx[s] EXCEPT !.at = "group", !.group = {}]
  <2>1. /\ t.plan = tx[s].plan /\ t.done = tx[s].done /\ t.soft = tx[s].soft /\ t.lost = tx[s].lost
        /\ t.at = "group" /\ t.todo = tx[s].todo /\ t.group = {}
        /\ Step(s, t) /\ tx[s].at = "decide"
    BY <1>1, <1>9 DEF Txs, SkipGroup
  <2> HIDE DEF t
  <2>2. /\ \A c \in Cands : t.plan.st[c] = "same"
        /\ \A c \in t.todo \ t.lost :
             /\ SeenStatus(t.done, c) # "absent"
             /\ SeenWeak(t.done, c) => c \in t.soft
    BY <1>1, <2>1 DEF Knows, Selecting
  <2>3. Knows(t) /\ PlansFirm(t)
    BY <2>1, <2>2, FirmPlan DEF Knows
  <2> QED
    BY <1>5, <2>1, <2>3
<1>10. ASSUME NEW p, Decided(s, p), tx[s].at = "decide", \A c \in Cands : p.st[c] # "absent",
              \A t : t.plan = p /\ t.done = tx[s].done /\ t.lost = tx[s].lost => PlansFirm(t)
       PROVE  EvidenceInv'
  <2> DEFINE t == [Plan(tx[s], p, "group") EXCEPT !.group = {}]
  <2>1. /\ t.plan = p /\ t.done = tx[s].done /\ t.soft = tx[s].soft /\ t.lost = tx[s].lost
        /\ t.at = "flush" /\ t.then = "group" /\ t.todo = tx[s].todo /\ t.group = {}
    BY <1>1 DEF Txs, Plan
  <2>2. Step(s, t)
    BY <1>10 DEF Decided
  <2> HIDE DEF t
  <2>3. \A c \in t.todo \ t.lost :
          SeenStatus(t.done, c) # "absent" /\ (SeenWeak(t.done, c) => c \in t.soft)
    BY <1>1, <1>10, <2>1 DEF Knows, Selecting
  <2>4. Knows(t)
    BY <1>10, <2>1, <2>3 DEF Knows
  <2> QED
    BY <1>5, <1>10, <2>1, <2>2, <2>4
<1>11. ASSUME NEW cs PROVE /\ \A c \in Cands : Conflicting(cs).st[c] \notin {"absent", "active"}
                           /\ \A t : t.plan = Conflicting(cs) => PlansFirm(t)
  <2>1. \A c \in Cands : Conflicting(cs).st[c] \notin {"absent", "active"}
    BY DEF Conflicting, NoChange, St
  <2> QED
    BY <2>1, FirmPlan
<1>12. ASSUME NEW w, NEW others \in {"same", "active", "rejected"}, NEW c \in Cands
       PROVE  Applied(s, w, others).st[c] # "absent"
  BY <1>12 DEF Applied, NoChange
<1>13. CASE DecideSingle(s)
  <2>1. PICK c \in Cands :
          /\ tx[s].group = {c}
          /\ Decided(s, IF Rivals(s) # {} THEN Conflicting(Rivals(s) \cup {c})
                                          ELSE Applied(s, c, "same"))
    BY <1>13 DEF DecideSingle
  <2>2. tx[s].at = "decide" /\ ~Skips(s)
    BY <1>13 DEF DecideSingle
  <2>3. CASE Rivals(s) # {}
    BY <1>10, <1>11, <2>1, <2>2, <2>3
  <2>4. CASE Rivals(s) = {}
    <3>1. \A t : t.plan = Applied(s, c, "same") /\ t.done = tx[s].done /\ t.lost = tx[s].lost
                 => PlansFirm(t)
      BY <2>1, <2>2, FirmApplied
    <3> QED
      BY <1>10, <1>12, <2>1, <2>2, <2>4, <3>1
  <2> QED
    BY <2>3, <2>4
<1>14. CASE DecideMulti(s)
  <2>1. tx[s].at = "decide" /\ ~Skips(s) /\ Cardinality(tx[s].group) > 1
    BY <1>14 DEF DecideMulti
  <2>2. CASE Decided(s, Conflicting(tx[s].group))
    BY <1>10, <1>11, <2>1, <2>2
  <2>3. ASSUME ScopesOf(tx[s].group) \subseteq Ruled,
               NEW w \in tx[s].group, NEW others \in {"active", "rejected"},
               Decided(s, Applied(s, w, others))
        PROVE  EvidenceInv'
    <3>1. w \in Cands
      BY <1>1 DEF Txs
    <3>2. \A t : t.plan = Applied(s, w, others) /\ t.done = tx[s].done /\ t.lost = tx[s].lost
                 => PlansFirm(t)
      BY <2>1, <2>3, <3>1, FirmApplied
    <3> QED
      BY <1>10, <1>12, <2>1, <2>3, <3>2
  <2> QED
    BY <1>14, <2>2, <2>3 DEF DecideMulti
<1>15. CASE EndPromote(s)
  <2>1. PICK x : /\ x \in AfterPromote \cup {"commit"}
                 /\ tx' = [tx EXCEPT ![s] = [Closed EXCEPT !.at = x, !.done = tx[s].done]]
    BY <1>15 DEF EndPromote, Set
  <2> DEFINE t == [Closed EXCEPT !.at = x, !.done = tx[s].done]
  <2>2. t.plan = NoChange /\ t.done = tx[s].done /\ t.at = x
    BY DEF Closed
  <2>3. RowsKept
    BY <1>15 DEF EndPromote
  <2> HIDE DEF t
  <2>4. ~Selecting(t)
    BY <2>1, <2>2 DEF Selecting, AfterPromote
  <2>5. Knows(t) /\ PlansFirm(t)
    BY <1>6, <2>2, <2>4, NothingFirm
  <2> QED
    BY <2>1, <2>2, <2>3, <2>5, EvidenceQuiet DEF t
<1>16. ASSUME NEW p, NEW x, x \notin {"group", "decide"}, Step(s, Plan(tx[s], p, x)), \A c \in Cands : p.st[c] = "same"
       PROVE  EvidenceInv'
  <2> DEFINE t == Plan(tx[s], p, x)
  <2>1. t.plan = p /\ t.done = tx[s].done /\ t.at = "flush" /\ t.then = x
    BY <1>1 DEF Txs, Plan
  <2> HIDE DEF t
  <2>2. Knows(t) /\ PlansFirm(t)
    BY <1>6, <1>16, <2>1 DEF Selecting
  <2> QED
    BY <1>5, <1>16, <2>1, <2>2 DEF t
<1>17. CASE BackfillIndexes(s)
  <2> DEFINE p == [NoChange EXCEPT !.touch = TRUE, !.cols = Ruled, !.value = TableIn(s).value]
  <2>1. Step(s, Plan(tx[s], p, "keys"))
    BY <1>17 DEF BackfillIndexes
  <2>2. \A c \in Cands : p.st[c] = "same"
    BY DEF NoChange
  <2> HIDE DEF p
  <2> QED
    BY <1>16, <2>1, <2>2
<1>18. CASE DropStaleKeys(s)
  <2>1. PICK dropped \in SUBSET {x \in TableIn(s).fk : ~Protected(s, x)} :
          Step(s, IF dropped = {} THEN [tx[s] EXCEPT !.at = "commit"] ELSE
                  Plan(tx[s], [NoChange EXCEPT
                    !.touch = TRUE, !.cols = Scopes \ Ruled, !.fk = TableIn(s).fk \ dropped,
                    !.value = [x \in Scopes |-> IF x \in dropped THEN NoCand
                                                                 ELSE TableIn(s).value[x]]],
                    "commit"))
    BY <1>18 DEF DropStaleKeys
  <2> DEFINE p == [NoChange EXCEPT
                    !.touch = TRUE, !.cols = Scopes \ Ruled, !.fk = TableIn(s).fk \ dropped,
                    !.value = [x \in Scopes |-> IF x \in dropped THEN NoCand
                                                                 ELSE TableIn(s).value[x]]]
             t == [tx[s] EXCEPT !.at = "commit"]
  <2>2. Step(s, t) \/ Step(s, Plan(tx[s], p, "commit"))
    BY <2>1
  <2>3. \A c \in Cands : p.st[c] = "same"
    BY DEF NoChange
  <2>4. t.plan = tx[s].plan /\ t.done = tx[s].done /\ t.at = "commit" /\ tx[s].at # "flush"
    BY <1>1, <1>18 DEF Txs, DropStaleKeys
  <2> HIDE DEF p, t
  <2>5. Knows(t) /\ PlansFirm(t)
    BY <1>1, <1>6, <2>4 DEF Knows, Selecting
  <2> QED
    BY <1>5, <1>16, <2>2, <2>3, <2>4, <2>5
<1>19. CASE Rollback(s) \/ FlushFails(s)
  <2>1. tx' = [tx EXCEPT ![s] = Closed] /\ RowsKept
    BY <1>19 DEF Rollback, FlushFails, Set
  <2> QED
    BY <2>1, NothingFirm, EvidenceQuiet
<1> QED
  BY <1>3, <1>4, <1>7, <1>8, <1>9, <1>13, <1>14, <1>15, <1>17, <1>18, <1>19 DEF SessionStep

\* What a session puts in force, no other can have flushed or be about to flush:
\* a flush waits for the rows of the others, and fails if one of its own is gone.
LEMMA FlushEvidence ==
  ASSUME ShapeOK, EvidenceInv, NEW s \in Sessions, Flush(s)
  PROVE  EvidenceInv'
<1> DEFINE d == tx[s].done
           p == tx[s].plan
           e == Merged(d, Settled(p))
           t == [tx[s] EXCEPT !.at = tx[s].then, !.then = "idle", !.done = e, !.plan = NoChange]
<1>1. tx[s] \in Txs /\ Knows(tx[s]) /\ PlansFirm(tx[s]) /\ DoesFirm(tx[s])
  BY DEF ShapeOK, EvidenceInv
<1>2. /\ tx[s].at = "flush" /\ ~Rejected(s) /\ tx' = [tx EXCEPT ![s] = t] /\ RowsKept
      /\ \A u \in Sessions : ~BlockedBy(s, u)
  BY DEF Flush, Step, Set
<1>3. /\ t.at = tx[s].then /\ t.then = "idle" /\ t.done = e /\ t.plan = NoChange
      /\ t.todo = tx[s].todo /\ t.group = tx[s].group /\ t.soft = tx[s].soft
      /\ t.lost = tx[s].lost
  BY <1>1 DEF Txs
<1>4. \A c \in Cands :
        e.st[c] = IF p.st[c] = "same" THEN d.st[c]
                  ELSE IF p.st[c] # "new" THEN p.st[c]
                  ELSE IF Revivable(c) THEN "pending" ELSE d.st[c]
  <2>1. Settled(p).st = [c \in Cands |-> IF p.st[c] = "new"
                                         THEN (IF Revivable(c) THEN "pending" ELSE "same")
                                         ELSE p.st[c]]
    BY <1>1 DEF Settled, Txs, Changes
  <2>2. \A c \in Cands : Settled(p).st[c] = IF p.st[c] = "new"
                                            THEN (IF Revivable(c) THEN "pending" ELSE "same")
                                            ELSE p.st[c]
    BY <2>1
  <2>3. \A c \in Cands : e.st[c] = IF Settled(p).st[c] = "same" THEN d.st[c] ELSE Settled(p).st[c]
    BY DEF Merged
  <2> QED
    BY <2>2, <2>3
<1>5. e.firm = d.firm \cup p.firm
  BY <1>1 DEF Merged, Settled, Txs, Changes
<1>6. CandLocks(e) \subseteq CandLocks(d) \cup CandLocks(p)
  BY <1>4, <1>5 DEF CandLocks
<1> HIDE DEF t, e
<1>7. ASSUME NEW c \in Cands, SeenStatus(d, c) # "absent", p.st[c] # "absent"
      PROVE  SeenStatus(e, c) # "absent" /\ (SeenWeak(e, c) => SeenWeak(d, c))
  BY <1>4, <1>5, <1>7 DEF SeenStatus, SeenWeak
<1>8. Knows(t)
  <2>1. ASSUME Selecting(t) PROVE Selecting(tx[s])
    BY <1>2, <1>3, <2>1 DEF Selecting
  <2>2. ASSUME Selecting(t), NEW c \in (t.todo \cup t.group) \ t.lost
        PROVE  SeenStatus(e, c) # "absent" /\ (SeenWeak(e, c) => c \in t.soft)
    <3>1. c \in Cands /\ p.st[c] # "absent" /\ SeenStatus(d, c) # "absent"
          /\ (SeenWeak(d, c) => c \in t.soft)
      BY <1>1, <1>3, <2>1, <2>2 DEF Knows, Txs
    <3> QED
      BY <1>7, <3>1
  <2> QED
    BY <1>1, <1>3, <2>1, <2>2, NothingFirm DEF Knows
<1>9. DoesFirm(t)
  <2>1. SUFFICES ASSUME NEW c \in Cands, e.st[c] = "active", SeenWeak(e, c)
                 PROVE  RuleMayChoose(c)
    BY <1>3 DEF DoesFirm
  <2>2. CASE p.st[c] = "active"
    <3>1. c \notin tx[s].lost
      BY <1>2, <2>2 DEF Rejected
    <3> QED
      BY <1>1, <1>7, <2>1, <2>2, <3>1 DEF PlansFirm
  <2>3. CASE p.st[c] # "active"
    <3>1. d.st[c] = "active"
      BY <1>4, <2>1, <2>3
    <3>2. SeenWeak(d, c)
      BY <1>5, <2>1, <3>1 DEF SeenWeak
    <3> QED
      BY <1>1, <3>1, <3>2 DEF DoesFirm
  <2> QED
    BY <2>2, <2>3
<1>10. PlansFirm(t)
  BY <1>3, NothingFirm, FirmPlan
<1>11. tx'[s] = t /\ \A u \in Sessions : u # s => tx'[u] = tx[u]
  BY <1>2 DEF ShapeOK
<1>12. status' = status /\ weak' = weak
  BY <1>2 DEF RowsKept
<1>13. \A u \in Sessions : Knows(tx'[u]) /\ PlansFirm(tx'[u]) /\ DoesFirm(tx'[u])
  BY <1>8, <1>9, <1>10, <1>11 DEF EvidenceInv
<1>14. \A u \in Sessions : (Knows(tx[u]) /\ PlansFirm(tx[u]) /\ DoesFirm(tx[u]))'
  BY <1>12, <1>13 DEF Knows, PlansFirm, DoesFirm, SeenStatus, SeenWeak
<1>15. \A u \in Sessions : u # s => CandLocks(e) \cap CandLocks(tx[u].done) = {}
  <2>1. SUFFICES ASSUME NEW u \in Sessions, u # s
                 PROVE  CandLocks(e) \cap CandLocks(tx[u].done) = {}
    OBVIOUS
  <2>2. CandLocks(p) \cap CandLocks(tx[u].done) = {}
    BY <1>2, <2>1 DEF BlockedBy, Clash
  <2>3. CandLocks(d) \cap CandLocks(tx[u].done) = {}
    BY <2>1 DEF EvidenceInv, RowsApart
  <2> QED
    BY <1>6, <2>2, <2>3
<1>16. RowsApart'
  <2>1. SUFFICES ASSUME NEW u \in Sessions, NEW v \in Sessions, u # v
                 PROVE  CandLocks(tx'[u].done) \cap CandLocks(tx'[v].done) = {}
    BY DEF RowsApart, CandLocks
  <2>2. CASE u = s
    BY <1>3, <1>11, <1>15, <2>1, <2>2
  <2>3. CASE v = s
    BY <1>3, <1>11, <1>15, <2>1, <2>3
  <2>4. CASE u # s /\ v # s
    BY <1>11, <2>1, <2>4 DEF EvidenceInv, RowsApart
  <2> QED
    BY <2>2, <2>3, <2>4
<1>17. EvidenceNeedsUser'
  BY <1>12 DEF EvidenceInv, EvidenceNeedsUser
<1> QED
  BY <1>14, <1>16, <1>17 DEF EvidenceInv

\* What the commit of another session, or a short transaction, leaves of a session.
LEMMA OthersStayFirm ==
  ASSUME ShapeOK, EvidenceInv, NEW u \in Sessions, NEW cs,
         \A c \in Cands \ cs :
           SeenStatus(tx[u].done, c) # "absent" =>
             /\ SeenStatus(tx[u].done, c)' # "absent"
             /\ SeenWeak(tx[u].done, c)' => SeenWeak(tx[u].done, c),
         tx[u]'.at = tx[u].at, tx[u]'.then = tx[u].then, tx[u]'.todo = tx[u].todo,
         tx[u]'.group = tx[u].group, tx[u]'.soft = tx[u].soft,
         tx[u]'.plan.st = tx[u].plan.st, tx[u]'.done.st = tx[u].done.st,
         tx[u].lost \subseteq tx[u]'.lost,
         \A c \in cs : /\ c \in tx[u].todo \cup tx[u].group \/ tx[u].plan.st[c] = "active"
                         => c \in tx[u]'.lost
                      /\ tx[u].done.st[c] # "active"
  PROVE  (Knows(tx[u]) /\ PlansFirm(tx[u]) /\ DoesFirm(tx[u]))'
<1>1. Knows(tx[u]) /\ PlansFirm(tx[u]) /\ DoesFirm(tx[u])
  BY DEF EvidenceInv
<1>2. Knows(tx[u])'
  <2>1. Selecting(tx[u])' <=> Selecting(tx[u])
    BY DEF Selecting
  <2>2. tx[u]'.at # "flush" => \A c \in Cands : tx[u]'.plan.st[c] = "same"
    BY <1>1 DEF Knows
  <2>3. ASSUME Selecting(tx[u]), NEW c \in (tx[u]'.todo \cup tx[u]'.group) \ tx[u]'.lost, c \in Cands
        PROVE  /\ SeenStatus(tx[u].done, c)' # "absent"
               /\ SeenWeak(tx[u].done, c)' => c \in tx[u]'.soft
    BY <1>1, <2>3 DEF Knows
  <2>4. Selecting(tx[u]) => /\ \A c \in Cands : tx[u]'.plan.st[c] # "absent"
                            /\ \A c, e \in tx[u]'.group : ScopeOf[c] = ScopeOf[e]
    BY <1>1 DEF Knows
  <2>5. tx[u]'.todo \cup tx[u]'.group \subseteq Cands
    BY DEF ShapeOK, Txs
  <2> QED
    BY <2>1, <2>2, <2>3, <2>4, <2>5 DEF Knows
<1>3. PlansFirm(tx[u])'
  BY <1>1 DEF PlansFirm
<1>4. DoesFirm(tx[u])'
  <2>1. \A c \in Cands : tx[u].done.st[c] = "active" => SeenStatus(tx[u].done, c) # "absent"
    BY DEF SeenStatus
  <2> QED
    BY <1>1, <2>1 DEF DoesFirm
<1> QED
  BY <1>2, <1>3, <1>4

\* A commit shows its rows to the others: new statuses, new confidence, deletions,
\* which the others notice when they flush.
LEMMA CommitEvidence ==
  ASSUME ShapeOK, EvidenceInv, NEW s \in Sessions, Commit(s)
  PROVE  EvidenceInv'
<1> DEFINE d == tx[s].done
           deleted == {c \in Cands : d.st[c] = "absent"}
           held(t) == t.todo \cup t.group \cup t.plan.firm \cup
                        {c \in Cands : t.plan.st[c] \notin {"same", "new"}}
<1>1. /\ \A c \in Cands : status'[c] = SeenStatus(d, c)
      /\ \A c : c \in weak' <=> SeenWeak(d, c)
  BY SeeingEvidence DEF Commit
<1>2. tx'[s] = Closed
  BY DEF Commit, ShapeOK
<1>3. ASSUME NEW u \in Sessions, u # s
      PROVE  /\ tx'[u].at = tx[u].at /\ tx'[u].then = tx[u].then /\ tx'[u].todo = tx[u].todo
             /\ tx'[u].group = tx[u].group /\ tx'[u].soft = tx[u].soft
             /\ tx'[u].plan.st = tx[u].plan.st /\ tx'[u].done.st = tx[u].done.st
             /\ tx'[u].done.firm = tx[u].done.firm
             /\ tx'[u].lost = tx[u].lost \cup (deleted \cap held(tx[u]))
  <2>1. tx'[u] = WithDeleted(WithClosed(tx[u], d.close), deleted)
    BY <1>3 DEF Commit
  <2>2. ASSUME NEW t \in Txs, NEW scopes, NEW cs
        PROVE  LET v == WithDeleted(WithClosed(t, scopes), cs)
               IN /\ v.at = t.at /\ v.then = t.then /\ v.todo = t.todo
                  /\ v.group = t.group /\ v.soft = t.soft
                  /\ v.plan.st = t.plan.st /\ v.done.st = t.done.st
                  /\ v.done.firm = t.done.firm
                  /\ v.lost = t.lost \cup (cs \cap held(t))
    BY DEF WithDeleted, WithClosed, Txs, Changes, Flushed
  <2>3. tx[u] \in Txs
    BY DEF ShapeOK
  <2> QED
    BY <2>1, <2>2, <2>3
<1>4. \A u \in Sessions : u # s => CandLocks(tx[u].done) \cap CandLocks(d) = {}
  BY DEF EvidenceInv, RowsApart
<1>5. ASSUME NEW u \in Sessions, u # s, NEW c \in Cands \ deleted,
             SeenStatus(tx[u].done, c) # "absent"
      PROVE  /\ SeenStatus(tx[u].done, c)' # "absent"
             /\ SeenWeak(tx[u].done, c)' => SeenWeak(tx[u].done, c)
  <2>1. tx'[u].done.st = tx[u].done.st /\ tx'[u].done.firm = tx[u].done.firm
    BY <1>3, <1>5
  <2>2. d.st[c] = "same" \/ tx[u].done.st[c] = "same"
    BY <1>4, <1>5 DEF CandLocks
  <2>3. d.st[c] # "absent" /\ status'[c] = SeenStatus(d, c) /\ (c \in weak' <=> SeenWeak(d, c))
    BY <1>1, <1>5
  <2> QED
    BY <1>5, <2>1, <2>2, <2>3 DEF SeenStatus, SeenWeak
<1>6. ASSUME NEW u \in Sessions, u # s
      PROVE  (Knows(tx[u]) /\ PlansFirm(tx[u]) /\ DoesFirm(tx[u]))'
  <2>1. ASSUME NEW c \in deleted
        PROVE  /\ c \in tx[u].todo \cup tx[u].group \/ tx[u].plan.st[c] = "active"
                  => c \in tx'[u].lost
               /\ tx[u].done.st[c] # "active"
    <3>1. c \in CandLocks(d)
      BY <2>1 DEF CandLocks
    <3>2. c \notin CandLocks(tx[u].done)
      BY <1>4, <1>6, <3>1
    <3>3. tx'[u].lost = tx[u].lost \cup (deleted \cap held(tx[u]))
      BY <1>3, <1>6
    <3> QED
      BY <2>1, <3>2, <3>3 DEF CandLocks
  <2>2. /\ tx'[u].at = tx[u].at /\ tx'[u].then = tx[u].then /\ tx'[u].todo = tx[u].todo
        /\ tx'[u].group = tx[u].group /\ tx'[u].soft = tx[u].soft
        /\ tx'[u].plan.st = tx[u].plan.st /\ tx'[u].done.st = tx[u].done.st
        /\ tx[u].lost \subseteq tx'[u].lost
    BY <1>3, <1>6
  <2>3. \A c \in Cands \ deleted :
           SeenStatus(tx[u].done, c) # "absent" =>
             /\ SeenStatus(tx[u].done, c)' # "absent"
             /\ SeenWeak(tx[u].done, c)' => SeenWeak(tx[u].done, c)
    BY <1>5, <1>6
  <2> HIDE DEF deleted
  <2> QED
    BY <2>1, <2>2, <2>3, OthersStayFirm
<1>7. (Knows(tx[s]) /\ PlansFirm(tx[s]) /\ DoesFirm(tx[s]))'
  BY <1>2 DEF Knows, PlansFirm, DoesFirm, Selecting, Closed, NoChange
<1>8. RowsApart'
  <2>1. CandLocks(tx'[s].done) = {}
    BY <1>2, NothingFirm
  <2>2. \A u \in Sessions : u # s => CandLocks(tx'[u].done) = CandLocks(tx[u].done)
    BY <1>3 DEF CandLocks
  <2>3. \A u, v \in Sessions :
           u # v => CandLocks(tx'[u].done) \cap CandLocks(tx'[v].done) = {}
    BY <2>1, <2>2 DEF EvidenceInv, RowsApart
  <2> QED
    BY <2>3 DEF RowsApart, CandLocks
<1>9. EvidenceNeedsUser'
  <2>1. SUFFICES ASSUME NEW c \in Cands, SeenWeak(d, c), SeenStatus(d, c) = "active"
                 PROVE  RuleMayChoose(c)
    <3>1. weak' \subseteq Cands
      <4>1. weak' = WeakIn(s)
        BY DEF Commit
      <4> QED
        BY <4>1, Views, Constants
    <3> QED
      BY <1>1, <3>1 DEF EvidenceNeedsUser, RuleMayChoose, Of
  <2>2. CASE d.st[c] = "same"
    BY <2>1, <2>2 DEF SeenStatus, SeenWeak, EvidenceInv, EvidenceNeedsUser, RuleMayChoose
  <2>3. CASE d.st[c] # "same"
    BY <2>1, <2>3 DEF SeenStatus, EvidenceInv, DoesFirm
  <2> QED
    BY <2>2, <2>3
<1> QED
  BY <1>6, <1>7, <1>8, <1>9 DEF EvidenceInv

\* The short transactions: they only orphan candidates whose rows are free.
LEMMA ShortEvidence ==
  ASSUME ShapeOK, EvidenceInv,
         DeleteRepo \/ DeleteSource \/ DeleteTable \/ ToggleLock \/ Patch
  PROVE  EvidenceInv'
<1>1. ASSUME NEW cs, Free(cs), \A c \in cs : status[c] # "absent",
             \A c \in Cands : status'[c] = IF c \in cs THEN "orphaned" ELSE status[c],
             weak' = weak,
             \A u \in Sessions :
               /\ tx'[u].at = tx[u].at /\ tx'[u].then = tx[u].then /\ tx'[u].todo = tx[u].todo
               /\ tx'[u].group = tx[u].group /\ tx'[u].soft = tx[u].soft
               /\ tx'[u].lost = tx[u].lost /\ tx'[u].plan.st = tx[u].plan.st
               /\ tx'[u].done.st = tx[u].done.st /\ tx'[u].done.firm = tx[u].done.firm
      PROVE  EvidenceInv'
  <2>1. ASSUME NEW u \in Sessions
        PROVE  (Knows(tx[u]) /\ PlansFirm(tx[u]) /\ DoesFirm(tx[u]))'
    <3>1. ASSUME NEW c \in Cands \ {}, SeenStatus(tx[u].done, c) # "absent"
          PROVE  /\ SeenStatus(tx[u].done, c)' # "absent"
                 /\ SeenWeak(tx[u].done, c)' => SeenWeak(tx[u].done, c)
      <4>1. /\ tx'[u].done.st = tx[u].done.st /\ tx'[u].done.firm = tx[u].done.firm
            /\ status'[c] = "absent" <=> status[c] = "absent"
        BY <1>1
      <4> QED
        BY <1>1, <3>1, <4>1 DEF SeenStatus, SeenWeak
    <3>2. /\ tx'[u].at = tx[u].at /\ tx'[u].then = tx[u].then /\ tx'[u].todo = tx[u].todo
          /\ tx'[u].group = tx[u].group /\ tx'[u].soft = tx[u].soft
          /\ tx'[u].plan.st = tx[u].plan.st /\ tx'[u].done.st = tx[u].done.st
          /\ tx[u].lost \subseteq tx'[u].lost
      BY <1>1
    <3> DEFINE none == {}
    <3>3. /\ \A c \in Cands \ none :
               SeenStatus(tx[u].done, c) # "absent" =>
                 /\ SeenStatus(tx[u].done, c)' # "absent"
                 /\ SeenWeak(tx[u].done, c)' => SeenWeak(tx[u].done, c)
          /\ \A c \in none : /\ c \in tx[u].todo \cup tx[u].group \/ tx[u].plan.st[c] = "active"
                                => c \in tx[u]'.lost
                             /\ tx[u].done.st[c] # "active"
      BY <3>1
    <3> HIDE DEF none
    <3> QED
      BY <3>2, <3>3, OthersStayFirm
  <2>2. RowsApart'
    <3>1. \A u \in Sessions : CandLocks(tx'[u].done) = CandLocks(tx[u].done)
      BY <1>1 DEF CandLocks
    <3>2. \A u, v \in Sessions :
             u # v => CandLocks(tx'[u].done) \cap CandLocks(tx'[v].done) = {}
      BY <3>1 DEF EvidenceInv, RowsApart
    <3> QED
      BY <3>2 DEF RowsApart, CandLocks
  <2>3. EvidenceNeedsUser'
    <3>1. weak \subseteq Cands
      BY Constants DEF ShapeOK
    <3> QED
      BY <1>1, <3>1 DEF EvidenceInv, EvidenceNeedsUser
  <2> QED
    BY <2>1, <2>2, <2>3 DEF EvidenceInv
<1>2. ASSUME NEW closed, TableGone(closed), NEW u \in Sessions
      PROVE  /\ tx'[u].at = tx[u].at /\ tx'[u].then = tx[u].then /\ tx'[u].todo = tx[u].todo
             /\ tx'[u].group = tx[u].group /\ tx'[u].soft = tx[u].soft
             /\ tx'[u].lost = tx[u].lost /\ tx'[u].plan.st = tx[u].plan.st
             /\ tx'[u].done.st = tx[u].done.st /\ tx'[u].done.firm = tx[u].done.firm
  <2>1. ASSUME NEW t \in Txs
        PROVE  LET v == [WithClosed(t, closed) EXCEPT !.gone = t.pinned \/ t.plan.touch]
               IN /\ v.at = t.at /\ v.then = t.then /\ v.todo = t.todo
                  /\ v.group = t.group /\ v.soft = t.soft /\ v.lost = t.lost
                  /\ v.plan.st = t.plan.st /\ v.done.st = t.done.st
                  /\ v.done.firm = t.done.firm
    BY DEF WithClosed, Txs, Changes, Flushed
  <2>2. tx[u] \in Txs
    BY DEF ShapeOK
  <2> QED
    BY <1>2, <2>1, <2>2 DEF TableGone
<1>3. CASE DeleteRepo
  <2> DEFINE cs == {c \in RepoCands : status[c] \notin {"absent", "orphaned", "rejected"}}
  <2>1. /\ Free(cs) /\ \A c \in cs : status[c] # "absent"
        /\ \A c \in Cands : status'[c] = IF c \in cs THEN "orphaned" ELSE status[c]
        /\ weak' = weak /\ tx' = tx
    BY <1>3 DEF DeleteRepo, Orphaned
  <2> HIDE DEF cs
  <2> QED
    BY <1>1, <2>1
<1>4. CASE DeleteSource
  <2> DEFINE cs == {c \in Cands \ RepoCands : status[c] \notin {"absent", "orphaned", "rejected"}}
  <2>1. /\ Free(cs) /\ \A c \in cs : status[c] # "absent"
        /\ \A c \in Cands : status'[c] = IF c \in cs THEN "orphaned" ELSE status[c]
        /\ weak' = weak /\ TableGone({})
    BY <1>4 DEF DeleteSource, Orphaned
  <2> HIDE DEF cs
  <2> QED
    BY <1>1, <1>2, <2>1
<1>5. CASE DeleteTable
  <2> DEFINE cs == {c \in Cands : status[c] \in {"active", "pending", "in_conflict"}}
             closed == {x \in Scopes : open[x] # {}}
  <2>1. /\ Free(cs) /\ \A c \in cs : status[c] # "absent"
        /\ \A c \in Cands : status'[c] = IF c \in cs THEN "orphaned" ELSE status[c]
        /\ weak' = weak /\ TableGone(closed)
    BY <1>5 DEF DeleteTable, Orphaned
  <2> HIDE DEF cs, closed
  <2> QED
    BY <1>1, <1>2, <2>1
<1>6. CASE ToggleLock \/ Patch
  <2>1. status' = status /\ weak' = weak /\ tx' = tx /\ Free({})
    BY <1>6 DEF ToggleLock, Patch, Free
  <2>2. \A c \in Cands : status'[c] = IF c \in {} THEN "orphaned" ELSE status[c]
    BY <2>1
  <2> QED
    BY <1>1, <2>1, <2>2
<1> QED
  BY <1>3, <1>4, <1>5, <1>6

\* Nothing is known at the start.
LEMMA EvidenceInit == Init => EvidenceInv
<1> SUFFICES ASSUME Init PROVE EvidenceInv
  OBVIOUS
<1>1. \A s \in Sessions : tx[s] = Closed
  BY DEF Init
<1>2. \A s \in Sessions : Knows(tx[s]) /\ PlansFirm(tx[s]) /\ DoesFirm(tx[s])
  BY <1>1, NothingFirm
<1>3. RowsApart
  BY <1>1, NothingFirm DEF RowsApart
<1>4. EvidenceNeedsUser
  BY DEF Init, EvidenceNeedsUser
<1> QED
  BY <1>2, <1>3, <1>4 DEF EvidenceInv

\* Every step keeps mere evidence out of force.
LEMMA EvidenceStepwise ==
  ASSUME ShapeOK, EvidenceInv, [Next]_vars
  PROVE  EvidenceInv'
<1>1. ASSUME NEW s \in Sessions,
             \/ Promote(s) \/ TidyUp(s) \/ Purge(s)
             \/ \E c \in Cands : WriteCandidate(s, c)
             \/ \E scope \in Scopes : Resolve(s, scope) \/ ConfirmField(s, scope)
      PROVE  EvidenceInv'
  BY <1>1, BeginEvidence
<1>2. ASSUME NEW s \in Sessions, SessionStep(s) \/ Rollback(s)
      PROVE  EvidenceInv'
  BY <1>2, GoOnEvidence, FlushEvidence, CommitEvidence
<1>3. CASE DeleteRepo \/ DeleteSource \/ DeleteTable \/ ToggleLock \/ Patch
  BY <1>3, ShortEvidence
<1>4. CASE UNCHANGED vars
  BY <1>4 DEF vars, EvidenceInv, Knows, Selecting, PlansFirm, DoesFirm, SeenStatus, SeenWeak,
              RowsApart, EvidenceNeedsUser
<1> QED
  BY <1>1, <1>2, <1>3, <1>4 DEF Next

\* The invariant about evidence, for transactions that overlap too.
THEOREM EvidenceAlways == Spec => []EvidenceInv
<1>1. ShapeOK /\ EvidenceInv /\ [Next]_vars => EvidenceInv'
  BY EvidenceStepwise
<1> QED
  BY <1>1, EvidenceInit, ShapeAlways, PTL DEF Spec

\* What is known from evidence only is never in force before a user has confirmed
\* it (_handle_single_candidate leaves it pending, confirm_field makes it firm), with
\* any number of transactions that overlap in any way: neither a conflict resolved
\* in its favour, nor a candidate that was read before it was written anew, nor one
\* deleted meanwhile brings it into the canonical table.
THEOREM EvidenceWaitsForUser == Spec => []EvidenceNeedsUser
<1>1. EvidenceInv => EvidenceNeedsUser
  BY DEF EvidenceInv
<1> QED
  BY <1>1, EvidenceAlways, PTL
=============================================================================
