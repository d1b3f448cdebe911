--------------------------- MODULE KnowledgeProofs ---------------------------
(***************************************************************************)
(* Theorems about Knowledge, for any entries, relations, requests, menu    *)
(* and number of restarts.                                                 *)
(*                                                                         *)
(* A request is followed from its load to its last step (Mine): the rows   *)
(* it works on are as it loaded them until its commit, and as it planned   *)
(* them from then on; the vectors of an entry are right, or a step that is *)
(* left will make them so; likewise the automaton.  This holds of what no  *)
(* other request works on (Apart), and every kind of request is planned so *)
(* that it holds when it starts (Planned).                                 *)
(***************************************************************************)
EXTENDS Knowledge, SequenceTheorems, TLAPS

Row     == [st : Statuses \cup {"absent"}, sup : BOOLEAN, tier : Tiers, ver : Versions]
Rows    == [Entries -> Row]
Acts    == {"commit", "refresh", "upsert", "delete", "sync", "hq", "audit",
            "clear", "read", "write"}
Todos   == Seq([do : Acts, on : SUBSET Entries])
Wants   == UNION {[S -> Row] : S \in SUBSET Entries}
Plans   == [want : Wants, erase : SUBSET Entries, human : SUBSET Entries,
            todo : Todos, must : SUBSET Entries]
Caches  == SUBSET (Terms(Entries) \X Versions)
Running == [pc : {"busy"}, job : Jobs, old : Rows, plan : Plans, todo : Todos,
            seen : Rows, read : Caches, on : SUBSET Entries]
Ended   == [pc : {"idle", "done", "failed", "refused"}]

ShapeOK ==
  /\ row \in Rows
  /\ human \subseteq Entries
  /\ vec \in [Entries -> Versions \cup {"none"}]
  /\ cache = Missing \/ cache \in Caches
  /\ req \in [Requests -> Running \cup Ended]
  /\ desynced \subseteq Entries \cup {Automaton}

\* The steps of a list; which of them hit an entry; which may precede another.
Left(todo)      == {todo[i] : i \in DOMAIN todo}
Has(T, d)       == \E s \in T : s.do = d
Hits(T, d, e)   == \E s \in T : s.do = d /\ e \in s.on
Fine(a, b) ==
  /\ b = "commit" => a = "delete"
  /\ b = "sync" => a \in {"commit", "refresh"}
  /\ a = "sync" => b \in {"hq", "audit"}
  /\ b = "clear" => a \notin {"read", "write"}
  /\ b = "read" => a # "write"
Orderly(todo) ==
  \A i, k \in DOMAIN todo : i < k => Fine(todo[i].do, todo[k].do)

\* What a plan makes of a row.
Final(p, old, e) ==
  IF e \in p.erase THEN Gone ELSE IF e \in DOMAIN p.want THEN p.want[e] ELSE old[e]
Finals(p, old) == [e \in Entries |-> Final(p, old, e)]

\* What sync leaves to be done for an entry whose vectors were right before.
SyncFits(j, was, now) ==
  \/ HqRuns(j, now)
  \/ IF TypeOf[j.e] = "rule" THEN Recalled(now) = Recalled(was)
     ELSE IF Drops(was, now) THEN Recalled(now) = "none"
     ELSE ~Puts(j, was, now) => Recalled(now) = Recalled(was)

\* Steps that are left keep within the request and fit together.
StepsFit(T, j, p, S) ==
  /\ \A s \in T : s.on \subseteq S
  /\ \A s \in T : s.do \in {"sync", "hq"} => s.on = {j.e} /\ j.e \in Entries
  /\ Has(T, "sync") => S = {j.e} /\ j.e \notin p.erase /\ ~Has(T, "write")
  /\ Has(T, "read") => Has(T, "write")
  /\ Has(T, "commit") /\ Has(T, "write") => Has(T, "read")
  /\ DOMAIN p.want \cup p.erase \subseteq S

\* The steps that are left will do for the vectors of e.
StepsDo(T, j, p, old, e) ==
  LET w == Final(p, old, e) IN
  /\ Hits(T, "delete", e) => /\ Recalled(w) = "none"
                             /\ \A d \in {"upsert", "hq", "sync"} : ~Hits(T, d, e)
  /\ Hits(T, "upsert", e) => /\ e \notin p.erase
                             /\ \A d \in {"hq", "sync"} : ~Hits(T, d, e)
  /\ Hits(T, "hq", e) => e \notin p.erase /\ (HqRuns(j, w) => Recalled(w) # "none")
  /\ Hits(T, "sync", e) => /\ SyncFits(j, old[e], w)
                           /\ HqRuns(j, w) => Hits(T, "hq", e)

\* The steps that are left will do for the automaton.
StepsRebuild(T, j, p, old) ==
  /\ Has(T, "clear") => Has(T, "read")
  /\ Has(T, "commit") /\ ~Has(T, "write") /\ ~Has(T, "sync") =>
       Known(Finals(p, old)) = Known(old)
  /\ Has(T, "sync") /\ ~Rebuilds(j, old[j.e], Final(p, old, j.e)) =>
       Known(Finals(p, old)) = Known(old)

\* What e's vectors are while T is left to do.
VecSoFar(T, j, p, old, e, text) ==
  LET w == Final(p, old, e) IN
  /\ (\A d \in {"delete", "upsert", "hq", "sync"} : ~Hits(T, d, e)) => text = Recalled(w)
  /\ Hits(T, "upsert", e) => text \in {"none", Recalled(w)}
  /\ Hits(T, "sync", e) => text = Recalled(old[e])
  /\ Hits(T, "hq", e) /\ ~Hits(T, "sync", e) /\ ~HqRuns(j, w) => text = Recalled(w)

\* What the automaton is while T is left to do.
CacheSoFar(T, old, rows, read, c) ==
  /\ Has(T, "write") /\ ~Has(T, "read") => read = Known(rows)
  /\ ~Has(T, "write") =>
       c = IF Has(T, "commit") \/ Has(T, "sync") THEN Known(old) ELSE Known(rows)

\* A request answers for what no other one works on, see Load.
Answers(on, ds)   == Terms(on) # {} /\ Automaton \notin ds
Owns(on, ds, e)   == (e \in on /\ e \notin ds) \/ (Answers(on, ds) /\ e \in Terms(Entries))

\* The four parts of what holds of a request under way.
Fitting(q, ds) ==
  LET T == Left(q.todo) IN
  /\ Orderly(q.todo)
  /\ StepsFit(T, q.job, q.plan, q.on)
  /\ (Has(T, "clear") \/ Has(T, "read") \/ Has(T, "write")) =>
       Terms(q.on) # {} \/ Automaton \in ds
  /\ \A e \in q.on \ ds : StepsDo(T, q.job, q.plan, q.old, e)
  /\ Answers(q.on, ds) => StepsRebuild(T, q.job, q.plan, q.old)

RowsSoFar(q, rows, ds) ==
  \A e \in Entries : Owns(q.on, ds, e) =>
    /\ rows[e] = IF Has(Left(q.todo), "commit") THEN q.old[e] ELSE Final(q.plan, q.old, e)
    /\ e \in q.plan.erase \/ q.seen[e] = rows[e]

VecsSoFar(q, v, ds) ==
  \A e \in q.on \ ds : VecSoFar(Left(q.todo), q.job, q.plan, q.old, e, v[e])

AutoSoFar(q, rows, c, ds) ==
  Answers(q.on, ds) => CacheSoFar(Left(q.todo), q.old, rows, q.read, c)

Mine(q, rows, v, c, ds) ==
  /\ Fitting(q, ds) /\ RowsSoFar(q, rows, ds)
  /\ VecsSoFar(q, v, ds) /\ AutoSoFar(q, rows, c, ds)

Apart(r, o) ==
  /\ req[r].on \cap req[o].on \subseteq desynced
  /\ Terms(req[r].on) # {} /\ Terms(req[o].on) # {} => Automaton \in desynced

Inv ==
  /\ ShapeOK
  /\ \A r \in Busy : Mine(req[r], row, vec, cache, desynced)
  /\ \A r, o \in Busy : r # o => Apart(r, o)
  /\ \A e \in Entries \ desynced : (\A r \in Busy : e \notin req[r].on)
       => vec[e] = Recalled(row[e])
  /\ Automaton \notin desynced /\ (\A r \in Busy : Terms(req[r].on) = {})
       => cache = Known(row)

----------------------------------------------------------------------------
(* Lists of steps.                                                         *)

\* todo has the steps of T, in a possible order.
Lists(todo, T) == todo \in Todos /\ Orderly(todo) /\ Left(todo) = T
Follows(T, U)  == \A s \in T, u \in U : Fine(s.do, u.do)

\* Concatenation, which plans are made with, keeps lists in order.
LEMMA Concatenated ==
  ASSUME NEW a, NEW b, NEW T, NEW U, Lists(a, T), Lists(b, U), Follows(T, U)
  PROVE  Lists(a \o b, T \cup U)
<1> DEFINE S == [do : Acts, on : SUBSET Entries]
           c == a \o b
<1>1. a \in Seq(S) /\ b \in Seq(S) BY DEF Lists, Todos
<1>2. /\ c \in Seq(S)
      /\ Len(c) = Len(a) + Len(b)
      /\ \A i \in 1..(Len(a) + Len(b)) : c[i] = IF i <= Len(a) THEN a[i] ELSE b[i - Len(a)]
  BY <1>1, ConcatProperties
<1> HIDE DEF c, S
<1>3. /\ Len(a) \in Nat /\ Len(b) \in Nat
      /\ DOMAIN a = 1..Len(a) /\ DOMAIN b = 1..Len(b) /\ DOMAIN c = 1..(Len(a) + Len(b))
  BY <1>1, <1>2, LenProperties
<1>4. \A i \in DOMAIN a : i \in DOMAIN c /\ c[i] = a[i] BY <1>2, <1>3
<1>5. \A i \in DOMAIN b : i + Len(a) \in DOMAIN c /\ c[i + Len(a)] = b[i] BY <1>2, <1>3
<1>6. \A i \in DOMAIN c : \/ i \in DOMAIN a /\ i <= Len(a) /\ c[i] = a[i]
                          \/ i - Len(a) \in DOMAIN b /\ i > Len(a) /\ c[i] = b[i - Len(a)]
  BY <1>2, <1>3
<1>7. Left(c) = T \cup U
  <2>1. T = {a[i] : i \in DOMAIN a} /\ U = {b[i] : i \in DOMAIN b} BY DEF Lists, Left
  <2> QED BY <2>1, <1>4, <1>5, <1>6 DEF Left
<1>8. Orderly(c)
  <2> SUFFICES ASSUME NEW i \in DOMAIN c, NEW k \in DOMAIN c, i < k
               PROVE  Fine(c[i].do, c[k].do)
    BY DEF Orderly
  <2> USE DEF Lists, Orderly, Left, Follows
  <2>1. CASE k <= Len(a) BY <2>1, <1>3, <1>6
  <2>2. CASE i > Len(a)
    <3>1. /\ i - Len(a) \in DOMAIN b /\ k - Len(a) \in DOMAIN b
          /\ i - Len(a) < k - Len(a)
          /\ c[i] = b[i - Len(a)] /\ c[k] = b[k - Len(a)]
      BY <2>2, <1>3, <1>6
    <3> QED BY <3>1
  <2>3. CASE i <= Len(a) /\ k > Len(a)
    <3>1. c[i] \in T /\ c[k] \in U BY <2>3, <1>3, <1>6
    <3> QED BY <3>1
  <2> QED BY <2>1, <2>2, <2>3, <1>3
<1> QED BY <1>2, <1>7, <1>8 DEF Lists, Todos, S, c

\* One step is a list.
LEMMA SingleStep ==
  ASSUME NEW d \in Acts, NEW S \in SUBSET Entries
  PROVE  Lists(Step(d, S), {[do |-> d, on |-> S]})
BY DEF Lists, Todos, Orderly, Left, Step

\* So is none.
LEMMA NoStep == Lists(<<>>, {})
BY DEF Lists, Todos, Orderly, Left

RebuildSteps == {[do |-> "clear", on |-> {}], [do |-> "read", on |-> {}],
                 [do |-> "write", on |-> {}]}

RebuildOf(S) == IF Terms(S) = {} THEN {} ELSE RebuildSteps

\* The steps of a rebuild are in order.
LEMMA RebuildLists ==
  ASSUME NEW S
  PROVE  Lists(Rebuild(S), RebuildOf(S))
<1> DEFINE C(d) == [do |-> d, on |-> {}]
<1>1. /\ Lists(Step("clear", {}), {C("clear")}) /\ Lists(Step("read", {}), {C("read")})
      /\ Lists(Step("write", {}), {C("write")})
  BY SingleStep DEF Acts
<1>2. Follows({C("clear")}, {C("read")}) /\ Follows({C("clear")} \cup {C("read")}, {C("write")})
  BY DEF Follows, Fine
<1> HIDE DEF C
<1>3. Lists(Step("clear", {}) \o Step("read", {}), {C("clear")} \cup {C("read")})
  BY <1>1, <1>2, Concatenated
<1>4. Lists(Step("clear", {}) \o Step("read", {}) \o Step("write", {}),
            {C("clear")} \cup {C("read")} \cup {C("write")})
  BY <1>1, <1>2, <1>3, Concatenated
<1>5. {C("clear")} \cup {C("read")} \cup {C("write")} = RebuildSteps BY DEF C, RebuildSteps
<1> QED BY <1>4, <1>5, NoStep DEF Rebuild, RebuildOf

\* Taking the first step: the rest is a list, which that step may precede.
LEMMA TailLists ==
  ASSUME NEW todo \in Todos, Orderly(todo), todo # <<>>
  PROVE  /\ Lists(Tail(todo), Left(Tail(todo)))
         /\ Left(todo) = {Head(todo)} \cup Left(Tail(todo))
         /\ Follows({Head(todo)}, Left(Tail(todo)))
         /\ Head(todo) \in [do : Acts, on : SUBSET Entries]
<1> DEFINE S == [do : Acts, on : SUBSET Entries]
           c == Tail(todo)
<1>1. todo \in Seq(S) BY DEF Todos
<1>2. /\ Head(todo) \in S /\ c \in Seq(S) /\ Len(c) = Len(todo) - 1
      /\ \A i \in 1..Len(c) : c[i] = todo[i + 1]
  BY <1>1, HeadTailProperties
<1>3. Head(todo) = todo[1] BY <1>1
<1>4. Len(todo) \in Nat /\ Len(todo) > 0 BY <1>1, EmptySeq
<1> HIDE DEF c, S
<1>5. DOMAIN todo = 1..Len(todo) /\ DOMAIN c = 1..(Len(todo) - 1)
  BY <1>1, <1>2, LenProperties
<1>6. 1 \in DOMAIN todo /\ \A i \in DOMAIN c : i + 1 \in DOMAIN todo /\ c[i] = todo[i + 1]
  BY <1>2, <1>4, <1>5
<1>7. \A i \in DOMAIN todo : i # 1 => i - 1 \in DOMAIN c /\ todo[i] = c[i - 1]
  <2>1. ASSUME NEW i \in DOMAIN todo, i # 1
        PROVE  i - 1 \in DOMAIN c /\ (i - 1) + 1 = i
    BY <2>1, <1>4, <1>5
  <2>2. ASSUME NEW i \in DOMAIN todo, i # 1
        PROVE  i - 1 \in DOMAIN c /\ todo[i] = c[i - 1]
    BY <2>1, <2>2, <1>6
  <2> QED BY <2>2
<1>8. Left(todo) = {Head(todo)} \cup Left(c) BY <1>3, <1>6, <1>7 DEF Left
<1>9. Orderly(c)
  <2> SUFFICES ASSUME NEW i \in DOMAIN c, NEW k \in DOMAIN c, i < k
               PROVE  Fine(c[i].do, c[k].do)
    BY DEF Orderly
  <2>1. i + 1 < k + 1 BY <1>4, <1>5
  <2> QED BY <2>1, <1>6 DEF Orderly
<1>10. Follows({todo[1]}, Left(c))
  <2> SUFFICES ASSUME NEW i \in DOMAIN c PROVE Fine(todo[1].do, c[i].do)
    BY DEF Follows, Left
  <2>1. 1 < i + 1 BY <1>4, <1>5
  <2> QED BY <2>1, <1>6 DEF Orderly
<1> QED BY <1>2, <1>3, <1>8, <1>9, <1>10 DEF Lists, Todos, S, c

----------------------------------------------------------------------------
(* Plans.                                                                  *)

Scope(p) == p.must \cup DOMAIN p.want \cup UNION {p.todo[i].on : i \in DOMAIN p.todo}

\* What holds of a plan when its request has loaded the rows old, for an entry
\* and an automaton that the code keeps in step.
Fits(j, p, old) ==
  LET T == Left(p.todo)
      S == Scope(p)
  IN /\ Orderly(p.todo) /\ Has(T, "commit")
     /\ StepsFit(T, j, p, S)
     /\ \A e \in S \ UnsyncedEntries(j, p, old) :
          StepsDo(T, j, p, old, e) /\ VecSoFar(T, j, p, old, e, Recalled(old[e]))
     /\ UnsyncedAutomaton(j, p, old) \/
          /\ (Has(T, "clear") \/ Has(T, "read") \/ Has(T, "write")) => Terms(S) # {}
          /\ Has(T, "write") => Has(T, "read")
          /\ StepsRebuild(T, j, p, old)

Good(j, p, old) == p \in Plans /\ (p.todo # <<>> => Fits(j, p, old))

\* What the automaton knows of a row.
Counts(w) == w.st = "canonical" /\ ~w.sup

\* The automaton's terms depend on the rows of terms alone.
LEMMA KnownSame ==
  ASSUME NEW a, NEW b,
         \A e \in Terms(Entries) : /\ Counts(a[e]) <=> Counts(b[e])
                                   /\ Counts(a[e]) => a[e].ver = b[e].ver
  PROVE  Known(a) = Known(b)
<1>1. \A e \in Terms(Entries) : (a[e].st = "canonical" /\ ~a[e].sup)
                              = (b[e].st = "canonical" /\ ~b[e].sup)
  BY DEF Counts
<1>2. {x \in Terms(Entries) : a[x].st = "canonical" /\ ~a[x].sup}
    = {x \in Terms(Entries) : b[x].st = "canonical" /\ ~b[x].sup}
  BY <1>1
<1>3. \A e \in {x \in Terms(Entries) : a[x].st = "canonical" /\ ~a[x].sup} : a[e].ver = b[e].ver
  BY DEF Counts
<1> QED BY <1>2, <1>3 DEF Known

\* Rows that are written are rows.
LEMMA Wanted ==
  ASSUME NEW S \in SUBSET Entries, NEW f \in [S -> Row]
  PROVE  f \in Wants /\ DOMAIN f = S
BY DEF Wants

\* p is a plan of these parts.
Made(p, want, erase, must, todo) ==
  /\ p \in Plans
  /\ p.want = want /\ p.erase = erase /\ p.todo = todo /\ p.must = must

\* A plan is what Plan was given, and names the rows its commit needs; the other
\* is create_knowledge's and delete_namespace's, which needs none.
LEMMA PlanMade ==
  ASSUME NEW want, NEW erase, NEW by, NEW todo,
         want \in Wants /\ erase \subseteq Entries /\ by \subseteq Entries /\ todo \in Todos
  PROVE  /\ Made(Plan(want, erase, by, todo), want, erase,
                 DOMAIN want \cup erase \cup by, todo)
         /\ Made([Plan(want, erase, by, todo) EXCEPT !.must = {}], want, erase, {}, todo)
<1>1. DOMAIN want \subseteq Entries BY DEF Wants
<1> QED BY <1>1 DEF Plan, Plans, Made

\* The entries a request touches.
LEMMA ScopeIs ==
  ASSUME NEW p, NEW T, Lists(p.todo, T)
  PROVE  Scope(p) = p.must \cup DOMAIN p.want \cup UNION {s.on : s \in T}
BY DEF Scope, Lists, Left

\* A request that is refused has no steps, so nothing is asked of its plan.
LEMMA RefusedGood == ASSUME NEW j, NEW old PROVE Good(j, Refused, old)
<1>1. Nothing \in [{} -> Row] BY DEF Nothing
<1>2. Nothing \in Wants BY <1>1, Wanted
<1>3. <<>> \in Todos BY NoStep DEF Lists
<1>4. Made(Refused, Nothing, {}, DOMAIN Nothing \cup {} \cup {}, <<>>)
  BY <1>2, <1>3, PlanMade DEF Refused
<1> HIDE DEF Refused
<1> QED BY <1>4 DEF Good, Made

\* A plan whose steps write the vectors of U, delete those of D and rebuild the
\* automaton for Q.
Plain(T, U, D, Q) ==
  /\ Has(T, "commit")
  /\ \A s \in T : s.do \notin {"hq", "sync"}
  /\ \A e \in Entries : Hits(T, "delete", e) <=> e \in D
  /\ \A e \in Entries : Hits(T, "upsert", e) <=> e \in U
  /\ \A d \in {"clear", "read", "write"} : Has(T, d) <=> Terms(Q) # {}

Served(p, old, U, D) ==
  \A e \in Scope(p) :
    LET w == Final(p, old, e)
    IN /\ e \in D => e \notin U /\ Recalled(w) = "none"
       /\ e \in U => e \notin p.erase /\ Recalled(old[e]) = "none"
       /\ e \notin U \cup D => Recalled(w) = Recalled(old[e])

\* It changes nothing that the automaton knows.
Unknown(p, old) ==
  \A e \in Terms(Scope(p)) :
    LET w == Final(p, old, e)
    IN (Counts(w) <=> Counts(old[e])) /\ (Counts(w) => w.ver = old[e].ver)

\* Such a plan is good if it writes vectors where there are none and deletes those
\* of what will not be recalled, and leaves what it does not touch as it is.
LEMMA PlainGood ==
  ASSUME NEW j, NEW p \in Plans, NEW old \in Rows, NEW T, NEW U, NEW D, NEW Q,
         Lists(p.todo, T), Plain(T, U, D, Q), Q \subseteq Scope(p), p.erase \subseteq Scope(p),
         Served(p, old, U, D),
         UnsyncedAutomaton(j, p, old) \/ Terms(Q) # {} \/ Unknown(p, old)
  PROVE  Good(j, p, old)
<1> DEFINE S == Scope(p)
<1>1. p.todo \in Todos /\ Orderly(p.todo) /\ Left(p.todo) = T BY DEF Lists
<1>2. S \subseteq Entries /\ DOMAIN p.want \subseteq S /\ \A s \in T : s.on \subseteq S
  <2>1. \A s \in T : \E i \in DOMAIN p.todo : s = p.todo[i] BY <1>1 DEF Left
  <2>2. \A i \in DOMAIN p.todo : p.todo[i].on \subseteq Entries
    <3>1. p.todo \in Seq([do : Acts, on : SUBSET Entries]) BY <1>1 DEF Todos
    <3>2. p.todo \in [DOMAIN p.todo -> [do : Acts, on : SUBSET Entries]]
      BY <3>1, LenProperties
    <3> QED BY <3>2
  <2>3. p.must \subseteq Entries /\ DOMAIN p.want \subseteq Entries BY DEF Plans, Wants
  <2> QED BY <2>1, <2>2, <2>3 DEF Scope
<1>3. StepsFit(T, j, p, S) BY <1>2 DEF StepsFit, Plain, Has
<1>4. ASSUME NEW e \in S
      PROVE  StepsDo(T, j, p, old, e) /\ VecSoFar(T, j, p, old, e, Recalled(old[e]))
  BY <1>2 DEF StepsDo, VecSoFar, Plain, Hits, Served
<1>5. \/ UnsyncedAutomaton(j, p, old)
      \/ /\ (Has(T, "clear") \/ Has(T, "read") \/ Has(T, "write")) => Terms(S) # {}
         /\ Has(T, "write") => Has(T, "read")
         /\ StepsRebuild(T, j, p, old)
  <2>1. CASE Terms(Q) # {}
    <3>1. Terms(S) # {} BY <2>1 DEF Terms
    <3>2. ~Has(T, "sync") BY DEF Plain, Has
    <3> QED BY <2>1, <3>1, <3>2 DEF StepsRebuild, Plain
  <2>2. CASE Terms(Q) = {} /\ ~UnsyncedAutomaton(j, p, old)
    <3>1. ASSUME NEW e \in Terms(Entries)
          PROVE  LET w == Final(p, old, e)
                 IN (Counts(w) <=> Counts(old[e])) /\ (Counts(w) => w.ver = old[e].ver)
      <4>1. CASE e \in S BY <4>1, <2>2 DEF Terms, Unknown
      <4>2. CASE e \notin S BY <4>2, <1>2 DEF Final
      <4> QED BY <4>1, <4>2
    <3>2. \A e \in Terms(Entries) : Finals(p, old)[e] = Final(p, old, e)
      BY DEF Finals, Terms
    <3>3. Known(Finals(p, old)) = Known(old) BY <3>1, <3>2, KnownSame
    <3>4. ~Has(T, "sync") BY DEF Plain, Has
    <3> QED BY <2>2, <3>3, <3>4 DEF StepsRebuild, Plain
  <2> QED BY <2>1, <2>2
<1>6. Has(T, "commit") BY DEF Plain
<1> QED BY <1>1, <1>3, <1>4, <1>5, <1>6 DEF Good, Fits

Cell(d, S) == [do |-> d, on |-> S]

\* What a request names, by its kind.
LEMMA JobTypes ==
  ASSUME NEW j \in Jobs
  PROVE  /\ j.op \in {"reject", "restore", "supersede", "soft", "hard", "create", "save",
                      "approve", "patch", "edit", "batch", "decay", "expire", "purge"}
         /\ j.op \notin {"batch", "decay", "expire", "purge"} => j.e \in Entries
         /\ j.op \in {"create", "save"} => j.tier \in Tiers
         /\ j.op \in {"approve", "patch", "edit"} =>
              j.tier \in Tiers \cup {"same"} /\ j.what \in {"none", "content", "payload"}
         /\ j.op \in {"approve", "batch"} => j.ids \subseteq Entries
         /\ j.op = "patch" => j.st \in Statuses \cup {"same"} /\ j.what # "payload"
         /\ j.op = "edit" => j.hq \in BOOLEAN
         /\ j.op = "batch" => j.yes \subseteq Entries /\ j.no \subseteq Entries
         /\ j.op \in {"decay", "expire"} => j.on \subseteq Entries
BY DEF Jobs

\* The lists of most plans: a step or two, then a rebuild.
LEMMA CommitLists == Lists(Step("commit", {}), {Cell("commit", {})})
BY SingleStep DEF Acts, Cell

\* commit, then one step: the handlers that answer without a refresh.
LEMMA CommitThen ==
  ASSUME NEW d \in {"refresh", "upsert", "delete"}, NEW S \in SUBSET Entries
  PROVE  Lists(Step("commit", {}) \o Step(d, S), {Cell("commit", {}), Cell(d, S)})
<1>1. Lists(Step(d, S), {Cell(d, S)}) BY SingleStep DEF Acts, Cell
<1>2. Follows({Cell("commit", {})}, {Cell(d, S)}) BY DEF Follows, Fine, Cell
<1>3. {Cell("commit", {})} \cup {Cell(d, S)} = {Cell("commit", {}), Cell(d, S)} OBVIOUS
<1> QED BY <1>1, <1>2, <1>3, CommitLists, Concatenated

\* commit, db.refresh, then one step: most of the review's handlers.
LEMMA CommitRefreshThen ==
  ASSUME NEW R \in SUBSET Entries, NEW d \in {"upsert", "delete", "hq", "sync"},
         NEW S \in SUBSET Entries
  PROVE  Lists(Step("commit", {}) \o Step("refresh", R) \o Step(d, S),
               {Cell("commit", {}), Cell("refresh", R), Cell(d, S)})
<1> DEFINE T == {Cell("commit", {}), Cell("refresh", R)}
<1>1. Lists(Step(d, S), {Cell(d, S)}) BY SingleStep DEF Acts, Cell
<1>2. Follows(T, {Cell(d, S)}) BY DEF Follows, Fine, Cell
<1>3. T \cup {Cell(d, S)} = {Cell("commit", {}), Cell("refresh", R), Cell(d, S)} OBVIOUS
<1> QED BY <1>1, <1>2, <1>3, CommitThen, Concatenated

\* Vectors first, then the commit: delete_knowledge and the decay.
LEMMA DeleteCommit ==
  ASSUME NEW S \in SUBSET Entries
  PROVE  Lists(Step("delete", S) \o Step("commit", {}), {Cell("delete", S), Cell("commit", {})})
<1>1. Lists(Step("delete", S), {Cell("delete", S)}) BY SingleStep DEF Acts, Cell
<1>2. Follows({Cell("delete", S)}, {Cell("commit", {})}) BY DEF Follows, Fine, Cell
<1>3. {Cell("delete", S)} \cup {Cell("commit", {})} = {Cell("delete", S), Cell("commit", {})}
  OBVIOUS
<1> QED BY <1>1, <1>2, <1>3, CommitLists, Concatenated

\* A rebuild may follow what neither reads nor writes the automaton.
LEMMA ThenRebuild ==
  ASSUME NEW todo, NEW T, Lists(todo, T), NEW Q,
         \A s \in T : s.do \notin {"sync", "read", "write"}
  PROVE  Lists(todo \o Rebuild(Q), T \cup RebuildOf(Q))
<1>1. Follows(T, RebuildOf(Q)) BY DEF Follows, Fine, RebuildSteps, RebuildOf
<1>2. Lists(Rebuild(Q), RebuildOf(Q)) BY RebuildLists
<1> QED BY <1>1, <1>2, Concatenated

\* A rebuild adds nothing but itself.
LEMMA PlainThen ==
  ASSUME NEW T, NEW U, NEW D, NEW Q, Plain(T, U, D, {})
  PROVE  Plain(T \cup RebuildOf(Q), U, D, Q) /\ \A s \in RebuildOf(Q) : s.on = {}
<1>1. Terms({}) = {} BY DEF Terms
<1>2. ASSUME NEW d \in {"clear", "read", "write"}
      PROVE  Has(T \cup RebuildOf(Q), d) <=> Terms(Q) # {}
  <2>1. ~Has(T, d) BY <1>1 DEF Plain
  <2>2. Has(RebuildOf(Q), d) <=> Terms(Q) # {} BY DEF Has, RebuildOf, RebuildSteps
  <2> QED BY <2>1, <2>2 DEF Has
<1>3. \A s \in RebuildOf(Q) : s.on = {} /\ s.do \in {"clear", "read", "write"}
  BY DEF RebuildOf, RebuildSteps
<1>4. \A e \in Entries, d \in {"delete", "upsert"} :
        Hits(T \cup RebuildOf(Q), d, e) <=> Hits(T, d, e)
  BY <1>3 DEF Hits
<1> QED BY <1>2, <1>3, <1>4 DEF Plain, Has

\* A plan that writes one row.
OneRow(p, T, U, D, Q, e, old) ==
  /\ e \in Entries /\ old \in Rows /\ p \in Plans
  /\ Lists(p.todo, T) /\ Plain(T, U, D, Q) /\ Q \subseteq {e}
  /\ \A s \in T : s.on \subseteq {e}
  /\ DOMAIN p.want = {e} /\ p.erase = {} /\ p.must \subseteq {e}
  /\ LET w == p.want[e] IN
     /\ e \in D => e \notin U /\ Recalled(w) = "none"
     /\ e \in U => Recalled(old[e]) = "none"
     /\ e \notin U \cup D => Recalled(w) = Recalled(old[e])
     /\ \/ Terms(Q) # {}
        \/ e \notin Terms(Entries)
        \/ (Counts(w) <=> Counts(old[e])) /\ (Counts(w) => w.ver = old[e].ver)

\* A handler that writes one row has a good plan if the vectors it writes or deletes
\* are those its new row asks for and it rebuilds when the automaton's terms change.
LEMMA OneRowGood ==
  ASSUME NEW j, NEW p, NEW T, NEW U, NEW D, NEW Q, NEW e, NEW old,
         OneRow(p, T, U, D, Q, e, old)
  PROVE  Good(j, p, old)
<1> USE DEF OneRow
<1>1. Scope(p) = {e} BY ScopeIs
<1>2. Final(p, old, e) = p.want[e] BY DEF Final
<1>3. Served(p, old, U, D) BY <1>1, <1>2 DEF Served
<1>4. Terms(Q) # {} \/ Unknown(p, old) BY <1>1, <1>2 DEF Unknown, Terms
<1>5. Q \subseteq Scope(p) /\ p.erase \subseteq Scope(p) BY <1>1
<1> QED BY <1>3, <1>4, <1>5, PlainGood

\* A plan that removes one row.
OneGone(p, T, D, Q, e, old) ==
  /\ e \in Entries /\ old \in Rows /\ p \in Plans
  /\ Lists(p.todo, T) /\ Plain(T, {}, D, Q) /\ Q \subseteq {e} /\ D \subseteq {e}
  /\ \A s \in T : s.on \subseteq {e}
  /\ DOMAIN p.want = {} /\ p.erase = {e} /\ p.must = {e}
  /\ e \notin D => Recalled(old[e]) = "none"
  /\ Terms(Q) # {} \/ e \notin Terms(Entries) \/ ~Counts(old[e])

\* Likewise a handler that deletes one row: its vectors go unless it had none.
LEMMA OneGoneGood ==
  ASSUME NEW j, NEW p, NEW T, NEW D, NEW Q, NEW e, NEW old, OneGone(p, T, D, Q, e, old)
  PROVE  Good(j, p, old)
<1> USE DEF OneGone
<1>1. Scope(p) = {e} BY ScopeIs
<1>2. Final(p, old, e) = Gone /\ Recalled(Gone) = "none" /\ ~Counts(Gone)
  BY DEF Final, Gone, Recalled, Counts
<1>3. Served(p, old, {}, D) BY <1>1, <1>2 DEF Served
<1>4. Terms(Q) # {} \/ Unknown(p, old) BY <1>1, <1>2 DEF Unknown, Terms
<1>5. Q \subseteq Scope(p) /\ p.erase \subseteq Scope(p) BY <1>1
<1> QED BY <1>3, <1>4, <1>5, PlainGood

\* create_knowledge.
LEMMA CreateGood ==
  ASSUME NEW j \in Jobs, j.op = "create", NEW old \in Rows, NEW r \in Requests
  PROVE  Good(j, Create(j, old, r), old)
<1>1. CASE old[j.e].st # "absent"
  BY <1>1, RefusedGood DEF Create
<1>2. CASE old[j.e].st = "absent"
  <2> DEFINE e    == j.e
             w    == [st |-> "proposed", sup |-> FALSE, tier |-> j.tier, ver |-> r]
             U    == {e} \ Terms({e})
             T    == {Cell("commit", {}), Cell("refresh", {e}), Cell("upsert", U)}
             todo == Step("commit", {}) \o Step("refresh", {e}) \o Step("upsert", U)
             p    == Create(j, old, r)
  <2>1. e \in Entries /\ j.tier \in Tiers BY JobTypes
  <2>2. w \in Row BY <2>1 DEF Row, Statuses, Versions
  <2>3. Only(e, w) \in Wants /\ DOMAIN Only(e, w) = {e} /\ Only(e, w)[e] = w
    BY <2>1, <2>2, Wanted DEF Only
  <2>4. Lists(todo, T) BY <2>1, CommitRefreshThen
  <2>5. p = [Plan(Only(e, w), {}, {}, todo) EXCEPT !.must = {}] BY <1>2 DEF Create
  <2>6. Plain(T, U, {}, {}) /\ \A s \in T : s.on \subseteq {e}
    BY DEF Plain, Has, Hits, Cell, Terms
  <2>7. /\ Recalled(w) = "none" /\ ~Counts(w)
        /\ Recalled(old[e]) = "none" /\ ~Counts(old[e])
    BY <1>2 DEF Recalled, Counts
  <2> HIDE DEF p, todo, w, T, U
  <2>8. Made(p, Only(e, w), {}, {}, todo)
    <3>1. todo \in Todos BY <2>4 DEF Lists
    <3> QED BY <2>3, <2>5, <3>1, PlanMade
  <2>9. OneRow(p, T, U, {}, {}, e, old)
    BY <2>1, <2>3, <2>4, <2>6, <2>7, <2>8 DEF OneRow, Made
  <2>10. Good(j, p, old) BY <2>9, OneRowGood
  <2> QED BY <2>10 DEF p
<1> QED BY <1>1, <1>2

\* save_knowledge.
LEMMA SaveGood ==
  ASSUME NEW j \in Jobs, j.op = "save", NEW old \in Rows, NEW r \in Requests
  PROVE  Good(j, Save(j, old, r), old)
<1>1. CASE old[j.e].st # "absent" \/ TypeOf[j.e] = "terminology"
  BY <1>1, RefusedGood DEF Save
<1>2. CASE old[j.e].st = "absent" /\ TypeOf[j.e] # "terminology"
  <2> DEFINE e    == j.e
             w    == [st |-> "proposed", sup |-> FALSE, tier |-> j.tier, ver |-> r]
             T    == {Cell("commit", {})}
             todo == Step("commit", {})
             p    == Save(j, old, r)
  <2>1. e \in Entries /\ j.tier \in Tiers BY JobTypes
  <2>2. w \in Row BY <2>1 DEF Row, Statuses, Versions
  <2>3. Only(e, w) \in Wants /\ DOMAIN Only(e, w) = {e} /\ Only(e, w)[e] = w
    BY <2>1, <2>2, Wanted DEF Only
  <2>4. Lists(todo, T) BY CommitLists
  <2>5. p = [Plan(Only(e, w), {}, {}, todo) EXCEPT !.must = {}] BY <1>2 DEF Save
  <2>6. Plain(T, {}, {}, {}) /\ \A s \in T : s.on \subseteq {e}
    BY DEF Plain, Has, Hits, Cell, Terms
  <2>7. /\ Recalled(w) = "none" /\ ~Counts(w)
        /\ Recalled(old[e]) = "none" /\ ~Counts(old[e])
    BY <1>2 DEF Recalled, Counts
  <2> HIDE DEF p, todo, w, T
  <2>8. Made(p, Only(e, w), {}, {}, todo)
    <3>1. todo \in Todos BY <2>4 DEF Lists
    <3> QED BY <2>3, <2>5, <3>1, PlanMade
  <2>9. OneRow(p, T, {}, {}, {}, e, old)
    BY <2>1, <2>3, <2>4, <2>6, <2>7, <2>8 DEF OneRow, Made
  <2>10. Good(j, p, old) BY <2>9, OneRowGood
  <2> QED BY <2>10 DEF p
<1> QED BY <1>1, <1>2

\* _reject_entry.
LEMMA RejectGood ==
  ASSUME NEW j \in Jobs, j.op = "reject", NEW old \in Rows, NEW r \in Requests
  PROVE  Good(j, Reject(j, old, r), old)
<1> DEFINE e == j.e
           p == Reject(j, old, r)
           w == [old[e] EXCEPT !.st = "rejected"]
           R == {Cell("commit", {}), Cell("refresh", {e})}
           todo == Step("commit", {}) \o Step("refresh", {e})
<1>1. e \in Entries BY JobTypes
<1>2. Rejecting(old, {e}) \in Wants /\ DOMAIN Rejecting(old, {e}) = {e}
      /\ Rejecting(old, {e})[e] = w
  <2>1. Rejecting(old, {e}) \in [{e} -> Row] BY <1>1 DEF Rejecting, Rows, Row, Statuses
  <2> QED BY <2>1, <1>1, Wanted DEF Rejecting
<1>3. Recalled(w) = "none" /\ ~Counts(w) BY <1>1 DEF Recalled, Counts, Rows, Row
<1>4. CASE old[e].st \notin {"proposed", "canonical"} BY <1>4, RefusedGood DEF Reject
<1>5. CASE old[e].st = "proposed"
  <2>1. p = Plan(Rejecting(old, {e}), {}, {}, todo \o <<>>) BY <1>5 DEF Reject
  <2>2. Lists(todo, R) BY <1>1, CommitThen
  <2>3. Lists(todo \o <<>>, R)
    <3>1. todo \o <<>> = todo BY <2>2, ConcatEmptySeq DEF Lists, Todos
    <3> QED BY <2>2, <3>1
  <2>4. Plain(R, {}, {}, {}) /\ \A s \in R : s.on \subseteq {e}
    BY DEF Plain, Has, Hits, Cell, Terms
  <2>5. Recalled(old[e]) = "none" /\ ~Counts(old[e]) BY <1>5 DEF Recalled, Counts
  <2> HIDE DEF p, w, R, todo
  <2>6. Made(p, Rejecting(old, {e}), {}, {e} \cup {} \cup {}, todo \o <<>>)
    <3>1. todo \o <<>> \in Todos BY <2>3 DEF Lists
    <3> QED BY <1>2, <2>1, <3>1, PlanMade
  <2>7. OneRow(p, R, {}, {}, {}, e, old)
    BY <1>1, <1>2, <1>3, <2>3, <2>4, <2>5, <2>6 DEF OneRow, Made
  <2>8. Good(j, p, old) BY <2>7, OneRowGood
  <2> QED BY <2>8 DEF p
<1>6. CASE old[e].st = "canonical"
  <2> DEFINE D   == {Cell("delete", {e})}
             all == todo \o (Step("delete", {e}) \o Rebuild({e}))
             T   == (R \cup D) \cup RebuildOf({e})
  <2>1. p = Plan(Rejecting(old, {e}), {}, {}, all) BY <1>6 DEF Reject
  <2>2. Lists(all, T)
    <3>1. Lists(todo, R) BY <1>1, CommitThen
    <3>2. Lists(Step("delete", {e}), D) BY <1>1, SingleStep DEF Acts, Cell
    <3>3. Lists(Step("delete", {e}) \o Rebuild({e}), D \cup RebuildOf({e}))
      BY <3>2, ThenRebuild, SMTT(30) DEF Cell
    <3>4. Follows(R, D \cup RebuildOf({e}))
      BY DEF Follows, Fine, Cell, RebuildOf, RebuildSteps
    <3>5. Lists(all, R \cup (D \cup RebuildOf({e}))) BY <3>1, <3>3, <3>4, Concatenated
    <3>6. R \cup (D \cup RebuildOf({e})) = T OBVIOUS
    <3> QED BY <3>5, <3>6
  <2>3. Plain(T, {}, {e}, {e}) /\ \A s \in T : s.on \subseteq {e}
    <3>1. Plain(R \cup D, {}, {e}, {}) /\ \A s \in R \cup D : s.on \subseteq {e}
      BY DEF Plain, Has, Hits, Cell, Terms
    <3> QED BY <3>1, PlainThen
  <2> HIDE DEF p, w, T, all, R, D, todo
  <2>4. Made(p, Rejecting(old, {e}), {}, {e} \cup {} \cup {}, all)
    <3>1. all \in Todos BY <2>2 DEF Lists
    <3> QED BY <1>2, <2>1, <3>1, PlanMade
  <2>5. Terms({e}) # {} \/ e \notin Terms(Entries) BY DEF Terms
  <2>6. OneRow(p, T, {}, {e}, {e}, e, old)
    BY <1>1, <1>2, <1>3, <2>2, <2>3, <2>4, <2>5 DEF OneRow, Made
  <2>7. Good(j, p, old) BY <2>6, OneRowGood
  <2> QED BY <2>7 DEF p
<1> QED BY <1>4, <1>5, <1>6

\* _restore_entry.
LEMMA RestoreGood ==
  ASSUME NEW j \in Jobs, j.op = "restore", NEW old \in Rows, NEW r \in Requests
  PROVE  Good(j, Restore(j, old, r), old)
<1>1. CASE old[j.e].st # "rejected" BY <1>1, RefusedGood DEF Restore
<1>2. CASE old[j.e].st = "rejected"
  <2> DEFINE e    == j.e
             w    == [old[e] EXCEPT !.st = "canonical"]
             A    == {Cell("commit", {}), Cell("refresh", {e}), Cell("upsert", {e})}
             T    == A \cup RebuildOf({e})
             todo == Step("commit", {}) \o Step("refresh", {e}) \o Step("upsert", {e})
                     \o Rebuild({e})
             p    == Restore(j, old, r)
  <2>1. e \in Entries BY JobTypes
  <2>2. w \in Row BY <2>1 DEF Row, Rows, Statuses
  <2>3. Only(e, w) \in Wants /\ DOMAIN Only(e, w) = {e} /\ Only(e, w)[e] = w
    BY <2>1, <2>2, Wanted DEF Only
  <2>4. Lists(todo, T)
    <3>1. Lists(Step("commit", {}) \o Step("refresh", {e}) \o Step("upsert", {e}), A)
      BY <2>1, CommitRefreshThen
    <3>2. \A s \in A : s.do \notin {"sync", "read", "write"} BY DEF Cell
    <3> HIDE DEF A
    <3> QED BY <3>1, <3>2, ThenRebuild
  <2>5. p = Plan(Only(e, w), {}, {}, todo) BY <1>2 DEF Restore
  <2>6. Plain(T, {e}, {}, {e}) /\ \A s \in T : s.on \subseteq {e}
    <3>1. Plain(A, {e}, {}, {}) /\ \A s \in A : s.on \subseteq {e}
      BY DEF Plain, Has, Hits, Cell, Terms
    <3> QED BY <3>1, PlainThen
  <2>7. Recalled(old[e]) = "none" BY <1>2 DEF Recalled
  <2>8. Terms({e}) # {} \/ e \notin Terms(Entries) BY DEF Terms
  <2> HIDE DEF p, todo, w, T
  <2>9. Made(p, Only(e, w), {}, {e} \cup {} \cup {}, todo)
    <3>1. todo \in Todos BY <2>4 DEF Lists
    <3> QED BY <2>3, <2>5, <3>1, PlanMade
  <2>10. OneRow(p, T, {e}, {}, {e}, e, old)
    BY <2>1, <2>3, <2>4, <2>6, <2>7, <2>8, <2>9 DEF OneRow, Made
  <2>11. Good(j, p, old) BY <2>10, OneRowGood
  <2> QED BY <2>11 DEF p
<1> QED BY <1>1, <1>2

\* _supersede_entry.
LEMMA SupersedeGood ==
  ASSUME NEW j \in Jobs, j.op = "supersede", NEW old \in Rows, NEW r \in Requests
  PROVE  Good(j, Supersede(j, old, r), old)
<1>1. CASE old[j.e].st = "absent" BY <1>1, RefusedGood DEF Supersede
<1>2. CASE old[j.e].st # "absent"
  <2> DEFINE e    == j.e
             want == Superseding(old, {e})
             A    == {Cell("commit", {}), Cell("refresh", {e}), Cell("delete", {e})}
             T    == A \cup RebuildOf({e})
             todo == Step("commit", {}) \o Step("refresh", {e}) \o Step("delete", {e})
                     \o Rebuild({e})
             p    == Supersede(j, old, r)
  <2>1. e \in Entries BY JobTypes
  <2>2. want \in Wants /\ DOMAIN want = {e} /\ Recalled(want[e]) = "none"
    <3>1. want \in [{e} -> Row] BY <2>1 DEF Superseding, Rows, Row, Statuses
    <3>2. want[e].st = "superseded" BY <2>1 DEF Superseding, Rows, Row
    <3> QED BY <2>1, <3>1, <3>2, Wanted DEF Recalled
  <2>3. Lists(todo, T)
    <3>1. Lists(Step("commit", {}) \o Step("refresh", {e}) \o Step("delete", {e}), A)
      BY <2>1, CommitRefreshThen
    <3>2. \A s \in A : s.do \notin {"sync", "read", "write"} BY DEF Cell
    <3> HIDE DEF A
    <3> QED BY <3>1, <3>2, ThenRebuild
  <2>4. p = Plan(want, {}, {}, todo) BY <1>2 DEF Supersede
  <2>5. Plain(T, {}, {e}, {e}) /\ \A s \in T : s.on \subseteq {e}
    <3>1. Plain(A, {}, {e}, {}) /\ \A s \in A : s.on \subseteq {e}
      BY DEF Plain, Has, Hits, Cell, Terms
    <3> QED BY <3>1, PlainThen
  <2>6. Terms({e}) # {} \/ e \notin Terms(Entries) BY DEF Terms
  <2> HIDE DEF p, todo, want, T
  <2>7. Made(p, want, {}, {e} \cup {} \cup {}, todo)
    <3>1. todo \in Todos BY <2>3 DEF Lists
    <3> QED BY <2>2, <2>4, <3>1, PlanMade
  <2>8. OneRow(p, T, {}, {e}, {e}, e, old)
    BY <2>1, <2>2, <2>3, <2>5, <2>6, <2>7 DEF OneRow, Made
  <2>9. Good(j, p, old) BY <2>8, OneRowGood
  <2> QED BY <2>9 DEF p
<1> QED BY <1>1, <1>2

\* delete_knowledge, the soft way.
LEMMA SoftGood ==
  ASSUME NEW j \in Jobs, j.op = "soft", NEW old \in Rows, NEW r \in Requests
  PROVE  Good(j, SoftDelete(j, old, r), old)
<1> DEFINE e == j.e
           p == SoftDelete(j, old, r)
<1>1. e \in Entries BY JobTypes
<1>2. CASE old[e].st \notin {"proposed", "canonical"} BY <1>2, RefusedGood DEF SoftDelete
<1>3. CASE old[e].st = "proposed"
  <2> DEFINE T == {Cell("commit", {})}
             todo == Step("commit", {})
  <2>1. p = Plan(Nothing, {e}, {}, todo) BY <1>3 DEF SoftDelete
  <2>2. Nothing \in Wants /\ DOMAIN Nothing = {}
    <3>1. Nothing \in [{} -> Row] BY DEF Nothing
    <3> QED BY <3>1, Wanted
  <2>3. Lists(todo, T) BY CommitLists
  <2>4. Plain(T, {}, {}, {}) /\ \A s \in T : s.on \subseteq {e}
    BY DEF Plain, Has, Hits, Cell, Terms
  <2>5. Recalled(old[e]) = "none" /\ ~Counts(old[e]) BY <1>3 DEF Recalled, Counts
  <2> HIDE DEF p, todo, T
  <2>6. Made(p, Nothing, {e}, {} \cup {e} \cup {}, todo)
    <3>1. todo \in Todos BY <2>3 DEF Lists
    <3> QED BY <1>1, <2>1, <2>2, <3>1, PlanMade
  <2>7. OneGone(p, T, {}, {}, e, old)
    BY <1>1, <2>2, <2>3, <2>4, <2>5, <2>6 DEF OneGone, Made
  <2>8. Good(j, p, old) BY <2>7, OneGoneGood
  <2> QED BY <2>8 DEF p
<1>4. CASE old[e].st = "canonical"
  <2> DEFINE want == Rejecting(old, {e})
             A    == {Cell("delete", {e}), Cell("commit", {})}
             T    == A \cup RebuildOf({e})
             todo == Step("delete", {e}) \o Step("commit", {}) \o Rebuild({e})
  <2>1. p = Plan(want, {}, {}, todo) BY <1>4 DEF SoftDelete
  <2>2. want \in Wants /\ DOMAIN want = {e} /\ Recalled(want[e]) = "none"
    <3>1. want \in [{e} -> Row] BY <1>1 DEF Rejecting, Rows, Row, Statuses
    <3>2. want[e].st = "rejected" BY <1>1 DEF Rejecting, Rows, Row
    <3> QED BY <1>1, <3>1, <3>2, Wanted DEF Recalled
  <2>3. Lists(todo, T)
    <3>1. Lists(Step("delete", {e}) \o Step("commit", {}), A)
      BY <1>1, DeleteCommit
    <3>2. \A s \in A : s.do \notin {"sync", "read", "write"} BY DEF Cell
    <3> HIDE DEF A
    <3> QED BY <3>1, <3>2, ThenRebuild
  <2>4. Plain(T, {}, {e}, {e}) /\ \A s \in T : s.on \subseteq {e}
    <3>1. Plain(A, {}, {e}, {}) /\ \A s \in A : s.on \subseteq {e}
      BY DEF Plain, Has, Hits, Cell, Terms
    <3> QED BY <3>1, PlainThen
  <2>5. Terms({e}) # {} \/ e \notin Terms(Entries) BY DEF Terms
  <2> HIDE DEF p, todo, want, T
  <2>6. Made(p, want, {}, {e} \cup {} \cup {}, todo)
    <3>1. todo \in Todos BY <2>3 DEF Lists
    <3> QED BY <2>1, <2>2, <3>1, PlanMade
  <2>7. OneRow(p, T, {}, {e}, {e}, e, old)
    BY <1>1, <2>2, <2>3, <2>4, <2>5, <2>6 DEF OneRow, Made
  <2>8. Good(j, p, old) BY <2>7, OneRowGood
  <2> QED BY <2>8 DEF p
<1> QED BY <1>2, <1>3, <1>4

\* delete_knowledge, the hard way.
LEMMA HardGood ==
  ASSUME NEW j \in Jobs, j.op = "hard", NEW old \in Rows, NEW r \in Requests
  PROVE  Good(j, HardDelete(j, old, r), old)
<1> DEFINE e == j.e
           p == HardDelete(j, old, r)
           A == {Cell("delete", {e}), Cell("commit", {})}
           steps == Step("delete", {e}) \o Step("commit", {})
           Q == IF old[e].st = "canonical" THEN {e} ELSE {}
           T == A \cup RebuildOf(Q)
           todo == steps \o Rebuild(Q)
<1>1. e \in Entries BY JobTypes
<1>2. CASE old[e].st = "absent" BY <1>2, RefusedGood DEF HardDelete
<1>3. CASE old[e].st # "absent"
  <2>1. p = Plan(Nothing, {e}, {}, todo)
    <3>1. Rebuild({}) = <<>> BY DEF Rebuild, Terms
    <3> QED BY <1>3, <3>1 DEF HardDelete
  <2>2. Nothing \in Wants /\ DOMAIN Nothing = {}
    <3>1. Nothing \in [{} -> Row] BY DEF Nothing
    <3> QED BY <3>1, Wanted
  <2>3. Lists(todo, T)
    <3>1. Lists(steps, A) /\ \A s \in A : s.do \notin {"sync", "read", "write"}
      BY <1>1, DeleteCommit DEF Cell
    <3> HIDE DEF steps, A, Q
    <3> QED BY <3>1, ThenRebuild
  <2>4. Plain(T, {}, {e}, Q) /\ \A s \in T : s.on \subseteq {e}
    <3>1. Plain(A, {}, {e}, {}) /\ \A s \in A : s.on \subseteq {e}
      BY DEF Plain, Has, Hits, Cell, Terms
    <3> HIDE DEF A, Q
    <3> QED BY <3>1, PlainThen
  <2>5. Terms(Q) # {} \/ e \notin Terms(Entries) \/ ~Counts(old[e]) BY DEF Terms, Counts
  <2>6. Q \subseteq {e} OBVIOUS
  <2> HIDE DEF p, todo, T, Q
  <2>7. Made(p, Nothing, {e}, {} \cup {e} \cup {}, todo)
    <3>1. todo \in Todos BY <2>3 DEF Lists
    <3> QED BY <1>1, <2>1, <2>2, <3>1, PlanMade
  <2>8. OneGone(p, T, {e}, Q, e, old)
    BY <1>1, <2>2, <2>3, <2>4, <2>5, <2>6, <2>7 DEF OneGone, Made
  <2>9. Good(j, p, old) BY <2>8, OneGoneGood
  <2> QED BY <2>9 DEF p
<1> QED BY <1>2, <1>3

\* A list of some step is not empty.
LEMMA SomeSteps ==
  ASSUME NEW todo, NEW T, Lists(todo, T), T # {}
  PROVE  todo # <<>>
BY DEF Lists, Left

\* sweep_once of the decay.
LEMMA DecayGood ==
  ASSUME NEW j \in Jobs, j.op = "decay", NEW old \in Rows, NEW r \in Requests
  PROVE  Good(j, Decay(j, old, r), old)
<1> DEFINE S    == {e \in j.on : old[e].st = "canonical" /\ e \notin human}
           want == Superseding(old, S)
           T    == {Cell("delete", S), Cell("commit", {})}
           todo == Step("delete", S) \o Step("commit", {})
           p    == Decay(j, old, r)
<1>1. S \subseteq Entries BY JobTypes
<1>2. want \in Wants /\ DOMAIN want = S /\ \A e \in S : Recalled(want[e]) = "none"
  <2>1. want \in [S -> Row] BY <1>1 DEF Superseding, Rows, Row, Statuses
  <2>2. \A e \in S : want[e].st = "superseded" BY <1>1 DEF Superseding, Rows, Row
  <2> HIDE DEF S, want
  <2> QED BY <1>1, <2>1, <2>2, Wanted DEF Recalled
<1>3. Lists(todo, T) BY <1>1, DeleteCommit
<1>4. p = Plan(want, {}, {}, todo) BY DEF Decay
<1>5. Plain(T, {}, S, {}) /\ UNION {s.on : s \in T} = S
  BY DEF Plain, Has, Hits, Cell, Terms
<1>6. T # {} OBVIOUS
<1> HIDE DEF p, todo, want, T, S
<1>7. Made(p, want, {}, S \cup {} \cup {}, todo)
  <2>1. todo \in Todos BY <1>3 DEF Lists
  <2> QED BY <1>2, <1>4, <2>1, PlanMade
<1>8. Scope(p) = S BY <1>2, <1>3, <1>5, <1>7, ScopeIs DEF Made
<1>9. Served(p, old, {}, S) BY <1>2, <1>7, <1>8 DEF Served, Made, Final
<1>10. UnsyncedAutomaton(j, p, old) \/ Unknown(p, old)
  <2>1. todo # <<>> BY <1>3, <1>6, SomeSteps
  <2>2. CASE Terms(S) # {} BY <2>1, <2>2, <1>2, <1>7 DEF UnsyncedAutomaton, Made
  <2>3. CASE Terms(S) = {} BY <2>3, <1>8 DEF Unknown
  <2> QED BY <2>2, <2>3
<1>11. Lists(p.todo, T) /\ p.erase \subseteq Scope(p) /\ {} \subseteq Scope(p) /\ p \in Plans
  BY <1>3, <1>7 DEF Made
<1>12. Good(j, p, old) BY <1>5, <1>9, <1>10, <1>11, PlainGood
<1> QED BY <1>12 DEF p

\* Rejection of proposals nobody looked at.
LEMMA ExpireGood ==
  ASSUME NEW j \in Jobs, j.op = "expire", NEW old \in Rows, NEW r \in Requests
  PROVE  Good(j, Expire(j, old, r), old)
<1> DEFINE S    == {e \in j.on : old[e].st = "proposed"}
           want == Rejecting(old, S)
           T    == {Cell("commit", {})}
           todo == Step("commit", {})
           p    == Expire(j, old, r)
<1>1. S \subseteq Entries BY JobTypes
<1>2. /\ want \in Wants /\ DOMAIN want = S
      /\ \A e \in S : /\ Recalled(want[e]) = "none" /\ ~Counts(want[e])
                      /\ Recalled(old[e]) = "none" /\ ~Counts(old[e])
  <2>1. want \in [S -> Row] BY <1>1 DEF Rejecting, Rows, Row, Statuses
  <2>2. \A e \in S : want[e].st = "rejected" BY <1>1 DEF Rejecting, Rows, Row
  <2>3. \A e \in S : old[e].st = "proposed" OBVIOUS
  <2> HIDE DEF S, want
  <2> QED BY <1>1, <2>1, <2>2, <2>3, Wanted DEF Recalled, Counts
<1>3. Lists(todo, T) BY CommitLists
<1>4. p = Plan(want, {}, {}, todo) BY DEF Expire
<1>5. Plain(T, {}, {}, {}) /\ UNION {s.on : s \in T} = {}
  BY DEF Plain, Has, Hits, Cell, Terms
<1> HIDE DEF p, todo, want, T, S
<1>6. Made(p, want, {}, S \cup {} \cup {}, todo)
  <2>1. todo \in Todos BY <1>3 DEF Lists
  <2> QED BY <1>2, <1>4, <2>1, PlanMade
<1>7. Scope(p) = S
  <2>1. Lists(p.todo, T) /\ p.must = S \cup {} \cup {} /\ DOMAIN p.want = S
    BY <1>2, <1>3, <1>6 DEF Made
  <2>2. Scope(p) = p.must \cup DOMAIN p.want \cup UNION {s.on : s \in T} BY <2>1, ScopeIs
  <2> QED BY <2>1, <2>2, <1>5
<1>8. Served(p, old, {}, {}) BY <1>2, <1>6, <1>7 DEF Served, Made, Final
<1>9. Unknown(p, old) BY <1>2, <1>6, <1>7 DEF Unknown, Made, Final, Terms
<1>10. Lists(p.todo, T) /\ p.erase \subseteq Scope(p) /\ {} \subseteq Scope(p) /\ p \in Plans
  BY <1>3, <1>6 DEF Made
<1>11. Good(j, p, old) BY <1>5, <1>8, <1>9, <1>10, PlainGood
<1> QED BY <1>11 DEF p

\* batch_review.
LEMMA BatchGood ==
  ASSUME NEW j \in Jobs, j.op = "batch", NEW old \in Rows, NEW r \in Requests
  PROVE  Good(j, Batch(j, old, r), old)
<1> DEFINE named == Named(j.ids, old)
           out   == {e \in j.no : old[e].st = "canonical"} \cup named
           yes   == [e \in j.yes |-> [old[e] EXCEPT !.st = "canonical"]]
           want  == Over(yes, Over(Rejecting(old, j.no), Superseding(old, named)))
           S     == j.yes \cup (j.no \cup named)
           Q     == j.yes \cup out
           steps == Step("commit", {}) \o Step("upsert", j.yes) \o Step("delete", out)
           A     == {Cell("commit", {}), Cell("upsert", j.yes), Cell("delete", out)}
           T     == A \cup RebuildOf(Q)
           todo  == steps \o Rebuild(Q)
           p     == Batch(j, old, r)
<1>1. /\ j.yes \subseteq Entries /\ j.no \subseteq Entries /\ named \subseteq Entries
      /\ out \subseteq Entries
  BY JobTypes DEF Named
<1>2. CASE \/ \E e \in j.yes : old[e].st # "proposed"
           \/ \E e \in j.no : old[e].st \notin {"proposed", "canonical"}
  BY <1>2, RefusedGood DEF Batch
<1>3. CASE /\ \A e \in j.yes : old[e].st = "proposed"
           /\ \A e \in j.no : old[e].st \in {"proposed", "canonical"}
  <2>1. want \in Wants /\ DOMAIN want = S
    <3>1. yes \in [j.yes -> Row] BY <1>1 DEF Rows, Row, Statuses
    <3>2. Rejecting(old, j.no) \in [j.no -> Row]
      BY <1>1 DEF Rejecting, Rows, Row, Statuses
    <3>3. Superseding(old, named) \in [named -> Row]
      BY <1>1 DEF Superseding, Rows, Row, Statuses
    <3> HIDE DEF yes, named
    <3>4. Over(Rejecting(old, j.no), Superseding(old, named)) \in [j.no \cup named -> Row]
      BY <3>2, <3>3 DEF Over
    <3>5. want \in [S -> Row] BY <3>1, <3>4 DEF Over
    <3> HIDE DEF want
    <3> QED BY <3>5, <1>1, Wanted
  <2>2. \A e \in S : want[e].st = IF e \in j.yes THEN "canonical"
                                  ELSE IF e \in j.no THEN "rejected" ELSE "superseded"
    BY <1>1 DEF Over, Rejecting, Superseding, Rows, Row
  <2>3. \A e \in Entries : /\ e \in named => old[e].st = "canonical"
                           /\ e \in out => e \notin j.yes /\ old[e].st = "canonical"
                           /\ e \in S \ Q => e \in j.no /\ old[e].st = "proposed"
    BY <1>3 DEF Named
  <2>4. Lists(todo, T)
    <3>1. Lists(Step("commit", {}) \o Step("upsert", j.yes),
                {Cell("commit", {}), Cell("upsert", j.yes)})
      BY <1>1, CommitThen
    <3>2. Lists(Step("delete", out), {Cell("delete", out)})
      BY <1>1, SingleStep DEF Acts, Cell
    <3>3. Follows({Cell("commit", {}), Cell("upsert", j.yes)}, {Cell("delete", out)})
      BY DEF Follows, Fine, Cell
    <3>4. Lists(steps, {Cell("commit", {}), Cell("upsert", j.yes)} \cup {Cell("delete", out)})
      BY <3>1, <3>2, <3>3, Concatenated
    <3>5. {Cell("commit", {}), Cell("upsert", j.yes)} \cup {Cell("delete", out)} = A OBVIOUS
    <3>6. \A s \in A : s.do \notin {"sync", "read", "write"} BY DEF Cell
    <3> HIDE DEF A, steps, Q
    <3> QED BY <3>4, <3>5, <3>6, ThenRebuild
  <2>5. p = Plan(want, {}, j.yes, todo) BY <1>3 DEF Batch
  <2>6. Plain(T, j.yes, out, Q) /\ UNION {s.on : s \in T} = Q
    <3>1. Plain(A, j.yes, out, {}) /\ UNION {s.on : s \in A} = Q
      BY DEF Plain, Has, Hits, Cell, Terms
    <3> HIDE DEF A, Q, out
    <3>2. Plain(T, j.yes, out, Q) /\ \A s \in RebuildOf(Q) : s.on = {} BY <3>1, PlainThen
    <3> QED BY <3>1, <3>2
  <2>7. Q \subseteq S OBVIOUS
  <2>8. \A e \in Entries : e \in Q <=> e \in j.yes \/ e \in out BY <1>1
  <2>9. S \subseteq Entries /\ j.yes \subseteq S BY <1>1
  <2> HIDE DEF p, todo, want, T, Q, S, out, named
  <2>10. Made(p, want, {}, S \cup {} \cup j.yes, todo)
    <3>1. todo \in Todos BY <2>4 DEF Lists
    <3> QED BY <1>1, <2>1, <2>5, <3>1, PlanMade
  <2>11. Scope(p) = S
    <3>1. Lists(p.todo, T) /\ p.must = S \cup {} \cup j.yes /\ DOMAIN p.want = S
      BY <2>1, <2>4, <2>10 DEF Made
    <3>2. Scope(p) = p.must \cup DOMAIN p.want \cup UNION {s.on : s \in T} BY <3>1, ScopeIs
    <3> QED BY <3>1, <3>2, <2>6, <2>7, <2>9
  <2>12. \A e \in S : Final(p, old, e) = want[e] BY <2>1, <2>10 DEF Final, Made
  <2>13. Served(p, old, j.yes, out)
    <3> SUFFICES ASSUME NEW e \in S
                 PROVE  /\ e \in out => e \notin j.yes /\ Recalled(want[e]) = "none"
                        /\ e \in j.yes => Recalled(old[e]) = "none"
                        /\ e \notin j.yes \cup out => Recalled(want[e]) = Recalled(old[e])
      BY <2>10, <2>11, <2>12 DEF Served, Made
    <3> QED BY <1>3, <2>2, <2>3, <2>8, <2>9 DEF Recalled
  <2>14. Terms(Q) # {} \/ Unknown(p, old)
    <3> SUFFICES ASSUME Terms(Q) = {}, NEW e \in S, TypeOf[e] = "terminology"
                 PROVE  ~Counts(want[e]) /\ ~Counts(old[e])
      BY <2>11, <2>12 DEF Unknown, Terms
    <3>1. e \notin Q BY DEF Terms
    <3> QED BY <3>1, <2>2, <2>3, <2>8, <2>9 DEF Counts
  <2>15. Lists(p.todo, T) /\ p.erase \subseteq Scope(p) /\ Q \subseteq Scope(p) /\ p \in Plans
    BY <2>4, <2>7, <2>10, <2>11 DEF Made
  <2>16. Good(j, p, old) BY <2>6, <2>13, <2>14, <2>15, PlainGood
  <2> QED BY <2>16 DEF p
<1> QED BY <1>2, <1>3

\* What the automaton knows stays if nothing it knows is written.
LEMMA UnknownSame ==
  ASSUME NEW p, NEW old, Unknown(p, old), p.erase \subseteq Scope(p)
  PROVE  Known(Finals(p, old)) = Known(old)
<1>1. ASSUME NEW e \in Terms(Entries)
      PROVE  LET w == Final(p, old, e)
             IN (Counts(w) <=> Counts(old[e])) /\ (Counts(w) => w.ver = old[e].ver)
  <2>1. CASE e \in Scope(p) BY <2>1 DEF Terms, Unknown
  <2>2. CASE e \notin Scope(p) BY <2>2 DEF Final, Scope
  <2> QED BY <2>1, <2>2
<1>2. \A e \in Terms(Entries) : Finals(p, old)[e] = Final(p, old, e) BY DEF Finals, Terms
<1> QED BY <1>1, <1>2, KnownSame

\* delete_namespace.
LEMMA PurgeGood ==
  ASSUME NEW j \in Jobs, j.op = "purge", NEW old \in Rows, NEW r \in Requests
  PROVE  Good(j, Purge(j, old, r), old)
<1> DEFINE C    == Candidates(old)
           A    == {Cell("commit", {}), Cell("delete", Doomed)}
           T    == A \cup {Cell("clear", {})}
           todo == Step("commit", {}) \o Step("delete", Doomed) \o Step("clear", {})
           p    == Purge(j, old, r)
<1>1. C \subseteq Doomed /\ Doomed \subseteq Entries BY MenuAssumption DEF Candidates
<1>2. Nothing \in Wants /\ DOMAIN Nothing = {}
  <2>1. Nothing \in [{} -> Row] BY DEF Nothing
  <2> QED BY <2>1, Wanted
<1>3. Lists(todo, T)
  <2>1. Lists(Step("commit", {}) \o Step("delete", Doomed), A) BY <1>1, CommitThen
  <2>2. Lists(Step("clear", {}), {Cell("clear", {})}) BY SingleStep DEF Acts, Cell
  <2>3. Follows(A, {Cell("clear", {})}) BY DEF Follows, Fine, Cell
  <2> HIDE DEF A
  <2> QED BY <2>1, <2>2, <2>3, Concatenated
<1>4. p = [Plan(Nothing, C, {}, todo) EXCEPT !.must = {}] BY DEF Purge
<1>5. /\ UNION {s.on : s \in T} = Doomed /\ Has(T, "commit")
      /\ \A s \in T : s.do \in {"commit", "delete", "clear"}
      /\ \A e \in Entries : Hits(T, "delete", e) <=> e \in Doomed
  BY DEF Has, Hits, Cell
<1>6. \A e \in Doomed : Recalled(IF e \in C THEN Gone ELSE old[e]) = "none"
  BY DEF Candidates, Recalled, Gone
<1> HIDE DEF p, todo, T, C
<1>7. Made(p, Nothing, C, {}, todo)
  <2>1. todo \in Todos BY <1>3 DEF Lists
  <2> QED BY <1>1, <1>2, <1>4, <2>1, PlanMade
<1>8. Orderly(p.todo) /\ Left(p.todo) = T BY <1>3, <1>7 DEF Lists, Made
<1>9. Scope(p) = Doomed
  <2>1. Lists(p.todo, T) /\ p.must = {} /\ DOMAIN p.want = {} BY <1>2, <1>3, <1>7 DEF Made
  <2>2. Scope(p) = p.must \cup DOMAIN p.want \cup UNION {s.on : s \in T} BY <2>1, ScopeIs
  <2> QED BY <2>1, <2>2, <1>5
<1>10. StepsFit(T, j, p, Doomed) BY <1>1, <1>2, <1>5, <1>7 DEF StepsFit, Has, Made
<1>11. ASSUME NEW e \in Doomed
       PROVE  StepsDo(T, j, p, old, e) /\ VecSoFar(T, j, p, old, e, Recalled(old[e]))
  <2>1. Final(p, old, e) = IF e \in C THEN Gone ELSE old[e] BY <1>2, <1>7 DEF Final, Made
  <2>2. /\ Hits(T, "delete", e)
        /\ \A d \in {"upsert", "hq", "sync"} : ~Hits(T, d, e)
    BY <1>1, <1>5 DEF Hits
  <2> QED BY <2>1, <2>2, <1>6 DEF StepsDo, VecSoFar
<1>12. UnsyncedAutomaton(j, p, old) BY DEF UnsyncedAutomaton
<1>13. Good(j, p, old) BY <1>5, <1>7, <1>8, <1>9, <1>10, <1>11, <1>12 DEF Good, Fits, Made
<1> QED BY <1>13 DEF p

\* PATCH and PUT: a row is written, its vectors and the automaton follow.
SyncPlan(j, p, T, e, old, hq) ==
  /\ j.e = e /\ e \in Entries /\ old \in Rows /\ p \in Plans
  /\ Lists(p.todo, T) /\ Has(T, "commit")
  /\ \A s \in T : s.on \subseteq {e}
  /\ \A s \in T : s.do \in {"commit", "refresh", "sync", "audit"} \cup {d \in {"hq"} : hq}
  /\ \A s \in T : s.do \in {"sync", "hq"} => s.on = {e}
  /\ Hits(T, "sync", e) /\ (Hits(T, "hq", e) <=> hq)
  /\ DOMAIN p.want = {e} /\ p.erase = {} /\ p.must \subseteq {e}
  /\ LET w == p.want[e] IN
     /\ e \notin UnsyncedEntries(j, p, old) =>
          SyncFits(j, old[e], w) /\ (HqRuns(j, w) => hq /\ Recalled(w) # "none")
     /\ \/ UnsyncedAutomaton(j, p, old)
        \/ Rebuilds(j, old[e], w)
        \/ e \notin Terms(Entries)
        \/ (Counts(w) <=> Counts(old[e])) /\ (Counts(w) => w.ver = old[e].ver)

\* PATCH and PUT have good plans: what sync does fits the row they write.
LEMMA SyncGood ==
  ASSUME NEW j, NEW p, NEW T, NEW e, NEW old, NEW hq, SyncPlan(j, p, T, e, old, hq)
  PROVE  Good(j, p, old)
<1> USE DEF SyncPlan
<1>1. Orderly(p.todo) /\ Left(p.todo) = T BY DEF Lists
<1>2. Scope(p) = {e} BY ScopeIs DEF Hits
<1>3. Final(p, old, e) = p.want[e] BY DEF Final
<1>4. StepsFit(T, j, p, {e}) BY DEF StepsFit, Has
<1>5. ASSUME e \notin UnsyncedEntries(j, p, old)
      PROVE  StepsDo(T, j, p, old, e) /\ VecSoFar(T, j, p, old, e, Recalled(old[e]))
  <2>1. ~Hits(T, "delete", e) /\ ~Hits(T, "upsert", e) BY DEF Hits
  <2>2. /\ SyncFits(j, old[e], p.want[e])
        /\ HqRuns(j, p.want[e]) => hq /\ Recalled(p.want[e]) # "none"
    BY <1>5
  <2> QED BY <2>1, <2>2, <1>3 DEF StepsDo, VecSoFar
<1>6. ~Has(T, "clear") /\ ~Has(T, "read") /\ ~Has(T, "write") /\ Has(T, "sync")
  BY DEF Has, Hits
<1>7. \/ UnsyncedAutomaton(j, p, old)
      \/ Rebuilds(j, old[e], p.want[e])
      \/ Known(Finals(p, old)) = Known(old)
  <2> SUFFICES ASSUME \/ e \notin Terms(Entries)
                      \/ LET w == p.want[e]
                         IN (Counts(w) <=> Counts(old[e])) /\ (Counts(w) => w.ver = old[e].ver)
               PROVE  Known(Finals(p, old)) = Known(old)
    OBVIOUS
  <2>1. Unknown(p, old) BY <1>2, <1>3 DEF Unknown, Terms
  <2>2. p.erase \subseteq Scope(p) BY <1>2
  <2> QED BY <2>1, <2>2, UnknownSame
<1>8. UnsyncedAutomaton(j, p, old) \/ StepsRebuild(T, j, p, old)
  BY <1>3, <1>6, <1>7 DEF StepsRebuild
<1> QED BY <1>1, <1>2, <1>4, <1>5, <1>6, <1>8 DEF Good, Fits

\* A text that changes in the canon without its tier is the content, to sync.
SameText(j, was, w) ==
  j.what # "content" /\ w.st = was.st /\ w.tier = was.tier => w.ver = was.ver

\* What sync does to the vectors of an entry is what its new row asks for.
LEMMA SyncFitsRows ==
  ASSUME NEW j, NEW was, NEW w, was \in Row, w \in Row, TypeOf[j.e] # "rule",
         SameText(j, was, w)
  PROVE  SyncFits(j, was, w)
<1> USE DEF Row, Statuses, Tiers
<1>1. CASE Drops(was, w) BY <1>1 DEF SyncFits, Drops, Recalled
<1>2. CASE ~Drops(was, w) /\ ~Puts(j, was, w)
  <2>1. Recalled(w) = Recalled(was) BY <1>2 DEF Drops, Puts, Recalled, SameText
  <2> QED BY <2>1, <1>2 DEF SyncFits
<1> QED BY <1>1, <1>2 DEF SyncFits

\* If sync leaves the automaton alone, the automaton knew what the row says.
LEMMA SyncFitsTerms ==
  ASSUME NEW j, NEW was, NEW w, was \in Row, w \in Row, w.sup = was.sup,
         SameText(j, was, w), ~Rebuilds(j, was, w),
         was.st = "canonical" \/ w.st # "canonical" \/ w.tier = "normal" \/ was.tier = "normal"
  PROVE  (Counts(w) <=> Counts(was)) /\ (Counts(w) => w.ver = was.ver)
BY DEF Row, Statuses, Tiers, Rebuilds, Drops, Puts, Counts, SameText

\* patch_knowledge.
LEMMA PatchGood ==
  ASSUME NEW j \in Jobs, j.op = "patch", NEW old \in Rows, NEW r \in Requests
  PROVE  Good(j, Patch(j, old, r), old)
<1> DEFINE e    == j.e
           o    == old[e]
           w    == [Edited(o, j.tier, NewText(e, j.what, o, r)) EXCEPT !.st = Pick(j.st, @)]
           T    == {Cell("commit", {}), Cell("refresh", {e}), Cell("sync", {e})}
           todo == Step("commit", {}) \o Step("refresh", {e}) \o Step("sync", {e})
           p    == Patch(j, old, r)
<1>1. /\ e \in Entries /\ j.tier \in Tiers \cup {"same"} /\ j.what \in {"none", "content"}
      /\ j.st \in Statuses \cup {"same"} /\ o \in Row
  BY JobTypes DEF Rows
<1>2. CASE o.st = "absent" BY <1>2, RefusedGood DEF Patch
<1>3. CASE o.st # "absent"
  <2>1. /\ w \in Row /\ w.sup = o.sup /\ w.tier = Pick(j.tier, o.tier)
        /\ w.ver = NewText(e, j.what, o, r)
    BY <1>1 DEF Row, Statuses, Tiers, Versions, Edited, NewText, Pick
  <2>2. Only(e, w) \in Wants /\ DOMAIN Only(e, w) = {e} /\ Only(e, w)[e] = w
    BY <1>1, <2>1, Wanted DEF Only
  <2>3. Lists(todo, T) BY <1>1, CommitRefreshThen
  <2>4. p = Plan(Only(e, w), {}, {}, todo) BY <1>3 DEF Patch
  <2>5. /\ Has(T, "commit") /\ \A s \in T : s.on \subseteq {e}
        /\ \A s \in T : s.do \in {"commit", "refresh", "sync", "audit"}
        /\ \A s \in T : s.do \in {"sync", "hq"} => s.on = {e}
        /\ Hits(T, "sync", e) /\ ~Hits(T, "hq", e)
    BY DEF Has, Hits, Cell
  <2>6. \A x : ~HqRuns(j, x) BY DEF HqRuns
  <2>7. SameText(j, o, w) BY <1>1, <2>1 DEF SameText, NewText
  <2>8. T # {} OBVIOUS
  <2> HIDE DEF p, todo, T, w
  <2>9. Made(p, Only(e, w), {}, {e} \cup {} \cup {}, todo)
    <3>1. todo \in Todos BY <2>3 DEF Lists
    <3> QED BY <2>2, <2>4, <3>1, PlanMade
  <2>10. p.want[e] = w /\ p.todo # <<>> BY <2>2, <2>3, <2>8, <2>9, SomeSteps DEF Made
  <2>11. ASSUME e \notin UnsyncedEntries(j, p, old) PROVE SyncFits(j, o, w)
    <3>1. CASE TypeOf[e] = "rule"
      <4>1. Recalled(w) = Recalled(o) BY <3>1, <2>6, <2>10, <2>11 DEF UnsyncedEntries
      <4> QED BY <3>1, <4>1 DEF SyncFits
    <3>2. CASE TypeOf[e] # "rule" BY <3>2, <1>1, <2>1, <2>7, SyncFitsRows
    <3> QED BY <3>1, <3>2
  <2>12. \/ UnsyncedAutomaton(j, p, old)
         \/ Rebuilds(j, o, w)
         \/ e \notin Terms(Entries)
         \/ (Counts(w) <=> Counts(o)) /\ (Counts(w) => w.ver = o.ver)
    <3> SUFFICES ASSUME ~UnsyncedAutomaton(j, p, old), ~Rebuilds(j, o, w), e \in Terms(Entries)
                 PROVE  (Counts(w) <=> Counts(o)) /\ (Counts(w) => w.ver = o.ver)
      OBVIOUS
    <3>1. j.what # "content" BY DEF Rebuilds
    <3>2. Terms({e}) # {} BY DEF Terms
    <3>3. ~(w.st = "canonical" /\ o.st # "canonical" /\ w.tier = "critical" /\ o.tier = "critical")
      BY <3>1, <3>2, <2>10 DEF UnsyncedAutomaton
    <3> QED BY <3>3, <1>1, <2>1, <2>7, SyncFitsTerms DEF Row, Tiers
  <2>13. SyncPlan(j, p, T, e, old, FALSE)
    BY <1>1, <2>2, <2>3, <2>5, <2>6, <2>9, <2>10, <2>11, <2>12 DEF SyncPlan, Made
  <2>14. Good(j, p, old) BY <2>13, SyncGood
  <2> QED BY <2>14 DEF p
<1> QED BY <1>2, <1>3

\* update_knowledge.
LEMMA EditGood ==
  ASSUME NEW j \in Jobs, j.op = "edit", NEW old \in Rows, NEW r \in Requests
  PROVE  Good(j, Edit(j, old, r), old)
<1> DEFINE e    == j.e
           o    == old[e]
           w    == Edited(o, j.tier, NewText(e, j.what, o, r))
           A    == {Cell("commit", {}), Cell("refresh", {e}), Cell("sync", {e})}
           T    == (A \cup {Cell("hq", {e})}) \cup {Cell("audit", {e})}
           todo == Step("commit", {}) \o Step("refresh", {e}) \o Step("sync", {e})
                   \o Step("hq", {e}) \o Step("audit", {e})
           p    == Edit(j, old, r)
<1>1. /\ e \in Entries /\ j.tier \in Tiers \cup {"same"}
      /\ j.what \in {"none", "content", "payload"} /\ o \in Row
  BY JobTypes DEF Rows
<1>2. CASE o.st \notin {"canonical", "proposed", "superseded"}
  BY <1>2, RefusedGood DEF Edit
<1>3. CASE o.st \in {"canonical", "proposed", "superseded"}
  <2>1. /\ w \in Row /\ w.sup = o.sup /\ w.tier = Pick(j.tier, o.tier) /\ w.st = o.st
        /\ w.ver = NewText(e, j.what, o, r)
    BY <1>1 DEF Row, Statuses, Tiers, Versions, Edited, NewText, Pick
  <2>2. Only(e, w) \in Wants /\ DOMAIN Only(e, w) = {e} /\ Only(e, w)[e] = w
    BY <1>1, <2>1, Wanted DEF Only
  <2>3. Lists(todo, T)
    <3>1. Lists(Step("commit", {}) \o Step("refresh", {e}) \o Step("sync", {e}), A)
      BY <1>1, CommitRefreshThen
    <3>2. /\ Lists(Step("hq", {e}), {Cell("hq", {e})})
          /\ Lists(Step("audit", {e}), {Cell("audit", {e})})
      BY <1>1, SingleStep DEF Acts, Cell
    <3>3. /\ Follows(A, {Cell("hq", {e})})
          /\ Follows(A \cup {Cell("hq", {e})}, {Cell("audit", {e})})
      BY DEF Follows, Fine, Cell
    <3> HIDE DEF A
    <3>4. Lists(Step("commit", {}) \o Step("refresh", {e}) \o Step("sync", {e})
                \o Step("hq", {e}), A \cup {Cell("hq", {e})})
      BY <3>1, <3>2, <3>3, Concatenated
    <3> QED BY <3>2, <3>3, <3>4, Concatenated
  <2>4. p = Plan(Only(e, w), {}, {}, todo) BY <1>3 DEF Edit
  <2>5. /\ Has(T, "commit") /\ \A s \in T : s.on \subseteq {e}
        /\ \A s \in T : s.do \in {"commit", "refresh", "sync", "audit", "hq"}
        /\ \A s \in T : s.do \in {"sync", "hq"} => s.on = {e}
        /\ Hits(T, "sync", e) /\ Hits(T, "hq", e)
    BY DEF Has, Hits, Cell
  <2>6. HqRuns(j, w) <=> HqRuns(j, o) BY <2>1 DEF HqRuns
  <2>7. T # {} OBVIOUS
  <2> HIDE DEF p, todo, T, w
  <2>8. Made(p, Only(e, w), {}, {e} \cup {} \cup {}, todo)
    <3>1. todo \in Todos BY <2>3 DEF Lists
    <3> QED BY <2>2, <2>4, <3>1, PlanMade
  <2>9. p.want[e] = w /\ p.todo # <<>> BY <2>2, <2>3, <2>7, <2>8, SomeSteps DEF Made
  <2>10. e \in UnsyncedEntries(j, p, old) <=>
           \/ HqRuns(j, o) /\ Recalled(w) = "none"
           \/ TypeOf[e] = "rule" /\ ~HqRuns(j, o) /\ Recalled(w) # Recalled(o)
           \/ TypeOf[e] = "terminology" /\ j.what = "payload" /\ w.tier = o.tier
    BY <2>9 DEF UnsyncedEntries
  <2>11. e \notin UnsyncedEntries(j, p, old) => SameText(j, o, w)
    BY <1>1, <2>1, <2>10 DEF SameText, NewText
  <2>12. ASSUME e \notin UnsyncedEntries(j, p, old)
         PROVE  SyncFits(j, o, w) /\ (HqRuns(j, w) => Recalled(w) # "none")
    <3>1. CASE HqRuns(j, w) BY <3>1, <2>6, <2>10, <2>12 DEF SyncFits
    <3>2. CASE ~HqRuns(j, w) /\ TypeOf[e] = "rule"
      BY <3>2, <2>6, <2>10, <2>12 DEF SyncFits
    <3>3. CASE ~HqRuns(j, w) /\ TypeOf[e] # "rule"
      <4>1. SyncFits(j, o, w) BY <3>3, <1>1, <2>1, <2>11, <2>12, SyncFitsRows
      <4> QED BY <3>3, <4>1
    <3> QED BY <3>1, <3>2, <3>3
  <2>13. \/ UnsyncedAutomaton(j, p, old)
         \/ Rebuilds(j, o, w)
         \/ e \notin Terms(Entries)
         \/ (Counts(w) <=> Counts(o)) /\ (Counts(w) => w.ver = o.ver)
    <3> SUFFICES ASSUME ~UnsyncedAutomaton(j, p, old), ~Rebuilds(j, o, w), e \in Terms(Entries)
                 PROVE  (Counts(w) <=> Counts(o)) /\ (Counts(w) => w.ver = o.ver)
      OBVIOUS
    <3>1. Terms({e}) # {} BY DEF Terms
    <3>2. e \notin UnsyncedEntries(j, p, old) BY <3>1, <2>9 DEF UnsyncedAutomaton
    <3> QED BY <3>2, <1>1, <2>1, <2>11, SyncFitsTerms
  <2>14. SyncPlan(j, p, T, e, old, TRUE)
    BY <1>1, <2>2, <2>3, <2>5, <2>8, <2>9, <2>12, <2>13 DEF SyncPlan, Made
  <2>15. Good(j, p, old) BY <2>14, SyncGood
  <2> QED BY <2>15 DEF p
<1> QED BY <1>2, <1>3

\* What _approve_entry writes and deletes.
Equal(j, old)  == Found(j.e, {"equivalent"}, old, Named(j.ids, old))
Beaten(j, old) == Found(j.e, {"conflict"}, old, Named(j.ids, old) \cup Equal(j, old))
Stale(j, old)  == {x.to : x \in {y \in Related[j.e] : y.rel # "supplement"
                                                       /\ old[y.to].st \in Terminal}}
Extra(j, old)  == Found(j.e, {"supplement"}, old, Named(j.ids, old))
Taken(j, old)  == Named(j.ids, old) \cup Equal(j, old) \cup Beaten(j, old)
Deleted(j, old) == Equal(j, old) \cup Beaten(j, old) \cup Stale(j, old) \cup Named(j.ids, old)

\* approve_knowledge.
LEMMA ApproveGood ==
  ASSUME NEW j \in Jobs, j.op = "approve", NEW old \in Rows, NEW r \in Requests
  PROVE  Good(j, Approve(j, old, r), old)
<1> DEFINE e    == j.e
           o    == old[e]
           w    == [Edited(o, j.tier, NewText(e, j.what, o, r)) EXCEPT !.st = "canonical"]
           S1   == Named(j.ids, old) \cup Equal(j, old)
           want == Over(Only(e, w), Over(Superseding(old, S1), Rejecting(old, Beaten(j, old))))
           by   == {e} \cup Extra(j, old)
           D    == Deleted(j, old)
           do   == IF TypeOf[e] \in HqTypes THEN "hq" ELSE "upsert"
           A    == {Cell("commit", {}), Cell("refresh", {e}), Cell(do, {e})}
           B    == A \cup {Cell("delete", D)}
           T    == B \cup RebuildOf({e})
           steps == Step("commit", {}) \o Step("refresh", {e}) \o Step(do, {e})
                    \o Step("delete", D)
           todo == steps \o Rebuild({e})
           p    == Approve(j, old, r)
           S    == ({e} \cup Taken(j, old)) \cup D \cup by
<1>1. /\ e \in Entries /\ j.tier \in Tiers \cup {"same"} /\ j.ids \subseteq Entries
      /\ j.what \in {"none", "content", "payload"} /\ o \in Row
  BY JobTypes DEF Rows
<1>2. CASE o.st # "proposed" BY <1>2, RefusedGood DEF Approve
<1>3. CASE o.st = "proposed"
  <2>1. w \in Row /\ w.st = "canonical"
    BY <1>1 DEF Row, Statuses, Tiers, Versions, Edited, NewText, Pick
  <2>2. \A x \in Related[e] : x.to \in Entries BY <1>1, RelatedAssumption
  <2>3. /\ Taken(j, old) \subseteq Entries /\ D \subseteq Entries /\ Extra(j, old) \subseteq Entries
        /\ Taken(j, old) \subseteq D
        /\ \A x \in Taken(j, old) : old[x].st = "canonical"
        /\ \A x \in D \ Taken(j, old) : old[x].st \in Terminal
    BY <1>1, <2>2 DEF Taken, Deleted, Extra, Equal, Beaten, Stale, Named, Found
  <2>4. e \notin D BY <1>3, <2>3 DEF Terminal
  <2>5. want \in Wants /\ DOMAIN want = {e} \cup Taken(j, old)
    <3>1. Only(e, w) \in [{e} -> Row] BY <2>1 DEF Only
    <3>2. S1 \subseteq Entries /\ Beaten(j, old) \subseteq Entries BY <2>3 DEF Taken
    <3>3. Superseding(old, S1) \in [S1 -> Row]
      BY <3>2 DEF Superseding, Rows, Row, Statuses
    <3>4. Rejecting(old, Beaten(j, old)) \in [Beaten(j, old) -> Row]
      BY <3>2 DEF Rejecting, Rows, Row, Statuses
    <3>5. S1 \cup Beaten(j, old) = Taken(j, old) BY DEF Taken
    <3> HIDE DEF S1, w
    <3>6. Over(Superseding(old, S1), Rejecting(old, Beaten(j, old))) \in [Taken(j, old) -> Row]
      BY <3>3, <3>4, <3>5 DEF Over
    <3>7. want \in [{e} \cup Taken(j, old) -> Row] BY <3>1, <3>6 DEF Over
    <3> HIDE DEF want
    <3> QED BY <3>7, <1>1, <2>3, Wanted
  <2>6. want[e] = w /\ \A x \in Taken(j, old) : Recalled(want[x]) = "none"
    <3>1. want[e] = w BY DEF Over, Only
    <3>2. ASSUME NEW x \in Taken(j, old)
          PROVE  want[x].st \in {"superseded", "rejected"}
      <4>1. x # e /\ x \in Entries BY <2>3, <2>4
      <4>2. x \in S1 \/ x \in Beaten(j, old) BY DEF Taken
      <4> HIDE DEF S1, w
      <4> QED BY <4>1, <4>2 DEF Over, Only, Superseding, Rejecting, Rows, Row
    <3> HIDE DEF want
    <3> QED BY <3>1, <3>2 DEF Recalled
  <2>7. Lists(todo, T)
    <3>1. Lists(Step("commit", {}) \o Step("refresh", {e}) \o Step(do, {e}), A)
      BY <1>1, CommitRefreshThen
    <3>2. Lists(Step("delete", D), {Cell("delete", D)})
      BY <2>3, SingleStep DEF Acts, Cell
    <3>3. do \in {"hq", "upsert"} OBVIOUS
    <3> HIDE DEF D, do
    <3>4. /\ Follows(A, {Cell("delete", D)})
          /\ \A s \in B : s.do \notin {"sync", "read", "write"}
      BY <3>3 DEF Follows, Fine, Cell
    <3> HIDE DEF A
    <3>5. Lists(steps, B) BY <3>1, <3>2, <3>4, Concatenated
    <3> HIDE DEF steps, B
    <3> QED BY <3>4, <3>5, ThenRebuild
  <2>8. p = Plan(want, {}, by, todo)
    BY <1>3 DEF Approve, Equal, Beaten, Stale, Extra, Deleted
  <2> HIDE DEF w, want, D, todo, p
  <2>9. Made(p, want, {}, ({e} \cup Taken(j, old)) \cup {} \cup by, todo)
    <3>1. todo \in Todos BY <2>7 DEF Lists
    <3>2. by \subseteq Entries BY <1>1, <2>3
    <3> HIDE DEF by
    <3> QED BY <2>5, <2>8, <3>1, <3>2, PlanMade
  <2>10. Lists(p.todo, T) /\ p.todo # <<>>
    <3>1. T # {} OBVIOUS
    <3> QED BY <2>7, <2>9, <3>1, SomeSteps DEF Made
  <2>11. Scope(p) = S
    <3>1. UNION {s.on : s \in T} = {e} \cup D
      <4>1. UNION {s.on : s \in B} = {e} \cup D BY DEF Cell
      <4>2. \A s \in RebuildOf({e}) : s.on = {} BY DEF RebuildOf, RebuildSteps
      <4> HIDE DEF B
      <4> QED BY <4>1, <4>2
    <3>2. p.must = ({e} \cup Taken(j, old)) \cup {} \cup by /\ DOMAIN p.want = {e} \cup Taken(j, old)
      BY <2>5, <2>9 DEF Made
    <3> HIDE DEF T, by
    <3>3. Scope(p) = p.must \cup DOMAIN p.want \cup UNION {s.on : s \in T} BY <2>10, ScopeIs
    <3> QED BY <3>1, <3>2, <3>3
  <2>12. \A x \in S : /\ x = e => Final(p, old, x) = w
                      /\ x \in Taken(j, old) => Recalled(Final(p, old, x)) = "none"
                      /\ x # e /\ x \notin Taken(j, old) => Final(p, old, x) = old[x]
    BY <2>5, <2>6, <2>9 DEF Final, Made
  <2>13. UnsyncedAutomaton(j, p, old) \/ e \in Terms(Entries) \/ Unknown(p, old)
    <3> SUFFICES ASSUME ~UnsyncedAutomaton(j, p, old), e \notin Terms(Entries)
                 PROVE  Unknown(p, old)
      OBVIOUS
    <3>1. Terms({e}) = {} BY <1>1 DEF Terms
    <3>2. Terms(DOMAIN p.want) = {} BY <3>1, <2>10 DEF UnsyncedAutomaton
    <3>3. \A x \in Terms(S) : x # e /\ x \notin Taken(j, old)
      BY <3>2, <2>5, <2>9 DEF Terms, Made
    <3> QED BY <3>3, <2>11, <2>12 DEF Unknown, Terms
  <2>14. ASSUME NEW x \in D
         PROVE  x # e /\ Recalled(Final(p, old, x)) = "none"
    <3>1. x \in S /\ x # e BY <2>4
    <3>2. CASE x \in Taken(j, old) BY <3>1, <3>2, <2>12
    <3>3. CASE x \notin Taken(j, old)
      BY <3>1, <3>3, <2>3, <2>12 DEF Recalled, Terminal
    <3> QED BY <3>1, <3>2, <3>3
  <2>15. S \subseteq Entries BY <1>1, <2>3
  <2>16. Taken(j, old) \subseteq D BY <2>3
  <2>17. p \in Plans /\ p.erase = {} BY <2>9 DEF Made
  <2>18. CASE TypeOf[e] \notin HqTypes
    <3>1. Plain(T, {e}, D, {e})
      <4>1. Plain(B, {e}, D, {}) BY <2>18, <1>1, <2>3 DEF Plain, Has, Hits, Cell, Terms
      <4> HIDE DEF B
      <4> QED BY <4>1, PlainThen
    <3>2. Served(p, old, {e}, D)
      <4>1. Recalled(o) = "none" BY <1>3 DEF Recalled
      <4> HIDE DEF S
      <4> QED BY <4>1, <2>4, <2>11, <2>12, <2>14, <2>16, <2>17 DEF Served
    <3>3. UnsyncedAutomaton(j, p, old) \/ Terms({e}) # {} \/ Unknown(p, old)
      BY <2>13 DEF Terms
    <3>4. {e} \subseteq Scope(p) /\ p.erase \subseteq Scope(p) BY <2>11, <2>17
    <3> HIDE DEF T, S
    <3>5. Good(j, p, old) BY <2>10, <2>17, <3>1, <3>2, <3>3, <3>4, PlainGood
    <3> QED BY <3>5 DEF p
  <2>19. CASE TypeOf[e] \in HqTypes
    <3>1. T = B
      <4>1. Terms({e}) = {} BY <2>19 DEF Terms, HqTypes
      <4> QED BY <4>1 DEF RebuildOf
    <3>2. /\ Has(T, "commit") /\ \A s \in T : s.on \subseteq S
          /\ \A s \in T : s.do \in {"commit", "refresh", "hq", "delete"}
          /\ \A s \in T : s.do = "hq" => s.on = {e}
          /\ \A x \in Entries : (Hits(T, "hq", x) <=> x = e) /\ (Hits(T, "delete", x) <=> x \in D)
      <4>1. T = {Cell("commit", {}), Cell("refresh", {e}), Cell("hq", {e}), Cell("delete", D)}
        BY <3>1, <2>19
      <4>2. {e} \subseteq S /\ D \subseteq S OBVIOUS
      <4> HIDE DEF T, S
      <4>3. /\ Has(T, "commit") /\ \A s \in T : s.on \subseteq S
            /\ \A s \in T : s.do \in {"commit", "refresh", "hq", "delete"}
            /\ \A s \in T : s.do = "hq" => s.on = {e}
        BY <4>1, <4>2 DEF Has, Cell
      <4>4. \A x \in Entries : (Hits(T, "hq", x) <=> x = e) /\ (Hits(T, "delete", x) <=> x \in D)
        BY <4>1 DEF Hits, Cell
      <4> QED BY <4>3, <4>4
    <3> HIDE DEF T, S
    <3>3. StepsFit(T, j, p, S)
      <4>1. DOMAIN p.want \cup p.erase \subseteq S BY <2>5, <2>9, <2>17 DEF Made, S
      <4> QED BY <4>1, <3>2, <1>1 DEF StepsFit, Has
    <3>4. HqRuns(j, w) /\ HqRuns(j, o) BY <2>19 DEF HqRuns
    <3>5. e \notin UnsyncedEntries(j, p, old) => Recalled(w) # "none"
      BY <3>4, <2>6, <2>9, <2>10 DEF UnsyncedEntries, Made
    <3>6. ASSUME NEW x \in S \ UnsyncedEntries(j, p, old)
          PROVE  StepsDo(T, j, p, old, x) /\ VecSoFar(T, j, p, old, x, Recalled(old[x]))
      <4>1. /\ ~Hits(T, "upsert", x) /\ ~Hits(T, "sync", x)
            /\ Hits(T, "hq", x) <=> x = e
            /\ Hits(T, "delete", x) <=> x \in D
        BY <3>2, <2>15 DEF Hits
      <4>2. CASE x = e
        BY <4>1, <4>2, <3>4, <3>5, <2>4, <2>12, <2>17 DEF StepsDo, VecSoFar
      <4>3. CASE x \in D BY <4>1, <4>3, <2>14 DEF StepsDo, VecSoFar
      <4>4. CASE x # e /\ x \notin D
        BY <4>1, <4>4, <2>12, <2>16 DEF StepsDo, VecSoFar
      <4> QED BY <4>2, <4>3, <4>4
    <3>7. UnsyncedAutomaton(j, p, old) \/
            /\ ~Has(T, "clear") /\ ~Has(T, "read") /\ ~Has(T, "write")
            /\ StepsRebuild(T, j, p, old)
      <4>1. ~Has(T, "clear") /\ ~Has(T, "read") /\ ~Has(T, "write") /\ ~Has(T, "sync")
        BY <3>2 DEF Has
      <4>2. e \notin Terms(Entries) BY <2>19 DEF Terms, HqTypes
      <4>3. p.erase \subseteq Scope(p) BY <2>17
      <4>4. UnsyncedAutomaton(j, p, old) \/ Known(Finals(p, old)) = Known(old)
        BY <4>2, <4>3, <2>13, UnknownSame
      <4> QED BY <4>1, <4>4 DEF StepsRebuild
    <3>8. Orderly(p.todo) /\ Left(p.todo) = T BY <2>10 DEF Lists
    <3>9. Good(j, p, old) BY <3>2, <3>3, <3>6, <3>7, <3>8, <2>11, <2>17 DEF Good, Fits
    <3> QED BY <3>9 DEF p
  <2> QED BY <2>18, <2>19
<1> QED BY <1>2, <1>3

\* Every request is planned so that it can be followed.
LEMMA Planned ==
  ASSUME NEW j \in Jobs, NEW old \in Rows, NEW r \in Requests
  PROVE  Good(j, PlanOf(j, old, r), old)
<1>1. j.op \in {"reject", "restore", "supersede", "soft", "hard", "create", "save",
                "approve", "patch", "edit", "batch", "decay", "expire", "purge"}
  BY JobTypes
<1> QED
  BY <1>1, CreateGood, SaveGood, ApproveGood, RejectGood, BatchGood, RestoreGood,
     SupersedeGood, SoftGood, HardGood, PatchGood, EditGood, DecayGood, ExpireGood, PurgeGood
  DEF PlanOf

----------------------------------------------------------------------------
(* A request's steps.                                                      *)

After(q, w, todo) == [q EXCEPT !.seen = w, !.todo = todo]

\* What the steps leave alone in a request.
LEMMA AfterFields ==
  ASSUME NEW q, NEW w, NEW todo, q \in Running, w \in Rows, todo \in Todos
  PROVE  /\ After(q, w, todo) \in Running
         /\ After(q, w, todo).seen = w /\ After(q, w, todo).todo = todo
         /\ After(q, w, todo).job = q.job /\ After(q, w, todo).old = q.old
         /\ After(q, w, todo).plan = q.plan /\ After(q, w, todo).on = q.on
         /\ After(q, w, todo).read = q.read /\ After(q, w, todo).pc = "busy"
BY DEF After, Running

\* T is what is left of T0 when h has been done.
Rest(T0, h, T) == T0 = {h} \cup T /\ Follows({h}, T)

\* A step that is done is the only one that is no longer left.
LEMMA RestHas ==
  ASSUME NEW T0, NEW h, NEW T, Rest(T0, h, T)
  PROVE  /\ \A d : d # h.do => (Has(T, d) <=> Has(T0, d))
         /\ \A d, e : d # h.do => (Hits(T, d, e) <=> Hits(T0, d, e))
         /\ \A d : Has(T, d) => Has(T0, d) /\ Fine(h.do, d)
         /\ \A d, e : Hits(T, d, e) => Hits(T0, d, e) /\ Has(T, d)
         /\ Has(T0, h.do)
BY DEF Rest, Has, Hits, Follows

\* What is left still fits together,
LEMMA RestFits ==
  ASSUME NEW T0, NEW h, NEW T, NEW j, NEW p, NEW S, Rest(T0, h, T), StepsFit(T0, j, p, S)
  PROVE  StepsFit(T, j, p, S)
<1>1. \A s \in T : s \in T0 BY DEF Rest
<1> QED BY <1>1, RestHas DEF StepsFit, Fine

\* ... and does for the vectors,
LEMMA RestDoes ==
  ASSUME NEW T0, NEW h, NEW T, NEW j, NEW p, NEW old, NEW e, Rest(T0, h, T),
         StepsDo(T0, j, p, old, e)
  PROVE  StepsDo(T, j, p, old, e)
BY RestHas DEF StepsDo, Fine

\* ... and for the automaton.
LEMMA RestRebuilds ==
  ASSUME NEW T0, NEW h, NEW T, NEW j, NEW p, NEW old, Rest(T0, h, T),
         StepsRebuild(T0, j, p, old)
  PROVE  StepsRebuild(T, j, p, old)
BY RestHas DEF StepsRebuild, Fine

\* Doing the first step of a list.
LEMMA TailFitting ==
  ASSUME NEW q, NEW ds, NEW w, q \in Running, q.todo # <<>>, w \in Rows, Fitting(q, ds)
  PROVE  /\ Fitting(After(q, w, Tail(q.todo)), ds)
         /\ Rest(Left(q.todo), Head(q.todo), Left(Tail(q.todo)))
         /\ Tail(q.todo) \in Todos
         /\ Head(q.todo) \in [do : Acts, on : SUBSET Entries]
<1> DEFINE h == Head(q.todo)
           t == Tail(q.todo)
           T == Left(t)
           n == After(q, w, t)
<1>1. q.todo \in Todos /\ Orderly(q.todo) BY DEF Running, Fitting
<1>2. Lists(t, T) /\ Rest(Left(q.todo), h, T) /\ h \in [do : Acts, on : SUBSET Entries]
  BY <1>1, TailLists DEF Rest
<1> HIDE DEF h, t, T
<1>3. t \in Todos /\ Orderly(t) /\ T = Left(t) BY <1>2 DEF Lists, T
<1>4. n.todo = t /\ n.job = q.job /\ n.plan = q.plan /\ n.old = q.old /\ n.on = q.on
  BY <1>3, AfterFields
<1> HIDE DEF n
<1>5. StepsFit(T, q.job, q.plan, q.on) BY <1>2, RestFits DEF Fitting
<1>6. (Has(T, "clear") \/ Has(T, "read") \/ Has(T, "write")) =>
         Terms(q.on) # {} \/ Automaton \in ds
  BY <1>2, RestHas DEF Fitting
<1>7. \A e \in q.on \ ds : StepsDo(T, q.job, q.plan, q.old, e)
  BY <1>2, RestDoes DEF Fitting
<1>8. Answers(q.on, ds) => StepsRebuild(T, q.job, q.plan, q.old)
  BY <1>2, RestRebuilds DEF Fitting
<1>9. Fitting(n, ds) BY <1>3, <1>4, <1>5, <1>6, <1>7, <1>8 DEF Fitting
<1> QED BY <1>2, <1>3, <1>9 DEF n, h, t, T

\* What a step that is not the commit leaves alone.
LEMMA RowsKept ==
  ASSUME NEW q, NEW n, NEW rows, NEW ds, NEW h, RowsSoFar(q, rows, ds),
         Rest(Left(q.todo), h, Left(n.todo)), h.do # "commit",
         n.on = q.on, n.plan = q.plan, n.old = q.old,
         \A e \in Entries : n.seen[e] = q.seen[e] \/ n.seen[e] = rows[e]
  PROVE  RowsSoFar(n, rows, ds)
<1>1. Has(Left(n.todo), "commit") <=> Has(Left(q.todo), "commit") BY RestHas
<1> QED BY <1>1 DEF RowsSoFar

\* ... one that writes no vectors.
LEMMA VecsKept ==
  ASSUME NEW q, NEW n, NEW v, NEW ds, NEW h, VecsSoFar(q, v, ds),
         Rest(Left(q.todo), h, Left(n.todo)), h.do \notin {"delete", "upsert", "hq", "sync"},
         n.on = q.on, n.plan = q.plan, n.old = q.old, n.job = q.job
  PROVE  VecsSoFar(n, v, ds)
<1>1. ASSUME NEW e, \A d \in {"delete", "upsert", "hq", "sync"} :
                      Hits(Left(n.todo), d, e) <=> Hits(Left(q.todo), d, e),
             VecSoFar(Left(q.todo), q.job, q.plan, q.old, e, v[e])
      PROVE  VecSoFar(Left(n.todo), n.job, n.plan, n.old, e, v[e])
  BY <1>1 DEF VecSoFar
<1>2. \A d \in {"delete", "upsert", "hq", "sync"} : \A e :
        Hits(Left(n.todo), d, e) <=> Hits(Left(q.todo), d, e)
  BY RestHas
<1> QED BY <1>1, <1>2 DEF VecsSoFar

\* ... and one that is not about the automaton.
LEMMA AutoKept ==
  ASSUME NEW q, NEW n, NEW rows, NEW c, NEW ds, NEW h, AutoSoFar(q, rows, c, ds),
         Rest(Left(q.todo), h, Left(n.todo)), h.do \notin {"commit", "sync", "read", "write"},
         n.on = q.on, n.old = q.old, n.read = q.read
  PROVE  AutoSoFar(n, rows, c, ds)
<1>1. \A d \in {"commit", "sync", "read", "write"} :
        Has(Left(n.todo), d) <=> Has(Left(q.todo), d)
  BY RestHas
<1> QED BY <1>1 DEF AutoSoFar, CacheSoFar

\* With nothing left to do, caches are what rows say.
Settled(on, rows, v, c, ds) ==
  /\ \A e \in on \ ds : v[e] = Recalled(rows[e])
  /\ Answers(on, ds) => c = Known(rows)

\* A request that has taken all its steps leaves its caches as the rows say.
LEMMA MineSettled ==
  ASSUME NEW q, NEW rows, NEW v, NEW c, NEW ds, q \in Running, q.todo = <<>>,
         Mine(q, rows, v, c, ds)
  PROVE  Settled(q.on, rows, v, c, ds)
<1>1. Left(q.todo) = {} BY DEF Left
<1>2. \A d, e : ~Has({}, d) /\ ~Hits({}, d, e) BY DEF Has, Hits
<1>3. ASSUME NEW e \in q.on \ ds PROVE v[e] = Recalled(rows[e])
  <2>1. e \in Entries /\ Owns(q.on, ds, e) BY DEF Running, Owns
  <2>2. rows[e] = Final(q.plan, q.old, e) BY <1>1, <1>2, <2>1 DEF Mine, RowsSoFar
  <2>3. VecSoFar({}, q.job, q.plan, q.old, e, v[e]) BY <1>1 DEF Mine, VecsSoFar
  <2>4. v[e] = Recalled(Final(q.plan, q.old, e)) BY <2>3, <1>2 DEF VecSoFar
  <2> QED BY <2>2, <2>4
<1>4. ASSUME Answers(q.on, ds) PROVE c = Known(rows)
  <2>1. CacheSoFar({}, q.old, rows, q.read, c) BY <1>1, <1>4 DEF Mine, AutoSoFar
  <2> QED BY <2>1, <1>2 DEF CacheSoFar
<1> QED BY <1>3, <1>4 DEF Settled

\* A request writes what is its own, and the automaton if it has terms.
Keeps(r) ==
  /\ \A e \in Entries \ req[r].on : row'[e] = row[e] /\ vec'[e] = vec[e]
  /\ cache' = cache \/ Terms(req[r].on) # {} \/ Automaton \in desynced

\* The others are not disturbed by it.
LEMMA OtherMine ==
  ASSUME ShapeOK, NEW r \in Busy, NEW o \in Busy, r # o, Apart(r, o),
         Mine(req[o], row, vec, cache, desynced), Keeps(r), desynced \subseteq desynced'
  PROVE  Mine(req[o], row', vec', cache', desynced')
<1> DEFINE q == req[o]
           T == Left(q.todo)
<1>1. req[r] \in Running /\ q \in Running BY DEF ShapeOK, Busy, Ended
<1>2. req[r].on \subseteq Entries /\ q.on \subseteq Entries BY <1>1 DEF Running
<1>3. \A e \in Entries : Owns(q.on, desynced', e) =>
        Owns(q.on, desynced, e) /\ e \notin req[r].on
  BY <1>2 DEF Owns, Answers, Apart, Terms
<1>4. Answers(q.on, desynced') => Answers(q.on, desynced) /\ Terms(req[r].on) = {}
  BY DEF Answers, Apart
<1> HIDE DEF q
<1>5. Fitting(q, desynced') BY <1>4 DEF Mine, Fitting, q
<1>6. RowsSoFar(q, row', desynced') BY <1>3 DEF Mine, RowsSoFar, Keeps, q
<1>7. VecsSoFar(q, vec', desynced')
  <2>1. ASSUME NEW e \in q.on \ desynced'
        PROVE  vec'[e] = vec[e] /\ e \in q.on \ desynced
    BY <1>2, <1>3 DEF Keeps, Owns, q
  <2> QED BY <2>1 DEF Mine, VecsSoFar, q
<1>8. AutoSoFar(q, row', cache', desynced')
  <2> SUFFICES ASSUME Answers(q.on, desynced')
               PROVE  CacheSoFar(Left(q.todo), q.old, row', q.read, cache')
    BY DEF AutoSoFar
  <2>1. cache' = cache BY <1>4 DEF Keeps, Answers
  <2>2. \A e \in Terms(Entries) : row'[e] = row[e] BY <1>4 DEF Keeps, Terms
  <2>3. Known(row') = Known(row) BY <2>2, KnownSame
  <2>4. CacheSoFar(Left(q.todo), q.old, row, q.read, cache)
    BY <1>4 DEF Mine, AutoSoFar, q
  <2> QED BY <2>1, <2>3, <2>4 DEF CacheSoFar
<1> QED BY <1>5, <1>6, <1>7, <1>8 DEF Mine, q

\* What becomes of a request that has taken a step: it goes on as it should, it is
\* done and leaves things in order, or it fails and what it touched is exempt.
Outcome(r, n) ==
  \/ /\ n \in Running /\ n.on = req[r].on /\ desynced \subseteq desynced'
     /\ Mine(n, row', vec', cache', desynced')
  \/ /\ n \in Ended /\ desynced \subseteq desynced'
     /\ Settled(req[r].on, row', vec', cache', desynced')
  \/ n \in Ended /\ desynced' = desynced \cup Lost(r)

\* A step of one request keeps the invariant if that request comes out well.
LEMMA Carried ==
  ASSUME Inv, NEW r \in Busy, NEW n, req' = [req EXCEPT ![r] = n], ShapeOK',
         Keeps(r), Outcome(r, n)
  PROVE  Inv'
<1>1. r \in Requests /\ req[r] \in Running /\ req[r].on \subseteq Entries
  BY DEF Inv, ShapeOK, Busy, Ended, Running
<1>2. req'[r] = n /\ \A o \in Requests \ {r} : req'[o] = req[o]
  BY <1>1 DEF Inv, ShapeOK
<1>3. desynced \subseteq desynced' BY DEF Outcome
<1>4. \A x \in Ended : x.pc # "busy" BY DEF Ended
<1>5. Busy' \subseteq Busy /\ Busy \ {r} \subseteq Busy'
  BY <1>1, <1>2 DEF Busy
<1>6. r \in Busy' => n \in Running /\ n.on = req[r].on /\ Mine(n, row', vec', cache', desynced')
  BY <1>2, <1>4 DEF Busy, Outcome
<1>7. \A o \in Busy' : req'[o].on = req[o].on BY <1>2, <1>5, <1>6 DEF Busy
<1>8. ASSUME NEW o \in Busy' PROVE Mine(req[o]', row', vec', cache', desynced')
  <2>1. CASE o = r BY <2>1, <1>2, <1>6
  <2>2. CASE o # r
    <3>1. o \in Busy /\ o \in Requests BY <1>5 DEF Busy
    <3>2. Apart(r, o) /\ Mine(req[o], row, vec, cache, desynced) /\ ShapeOK
      BY <2>2, <3>1 DEF Inv
    <3>3. Mine(req[o], row', vec', cache', desynced') BY <2>2, <3>1, <3>2, <1>3, OtherMine
    <3> QED BY <2>2, <3>1, <3>3, <1>2
  <2> QED BY <2>1, <2>2
<1>9. ASSUME NEW o \in Busy', NEW k \in Busy', o # k PROVE Apart(o, k)'
  <2>1. Apart(o, k) BY <1>5, <1>9 DEF Inv
  <2> QED BY <2>1, <1>3, <1>7 DEF Apart
<1>10. r \notin Busy' => \/ Settled(req[r].on, row', vec', cache', desynced')
                          \/ desynced' = desynced \cup Lost(r)
  BY <1>1, <1>2 DEF Outcome, Busy, Running
<1>11. ASSUME NEW e \in Entries \ desynced', \A o \in Busy' : e \notin req'[o].on
       PROVE  vec'[e] = Recalled(row'[e])
  <2>1. CASE e \in req[r].on
    <3>1. r \notin Busy' BY <2>1, <1>7, <1>11
    <3>2. CASE Settled(req[r].on, row', vec', cache', desynced')
      BY <3>2, <2>1, <1>11 DEF Settled
    <3>3. CASE desynced' = desynced \cup Lost(r) BY <3>3, <2>1, <1>11 DEF Lost
    <3> QED BY <3>1, <3>2, <3>3, <1>10
  <2>2. CASE e \notin req[r].on
    <3>1. \A o \in Busy : e \notin req[o].on BY <2>2, <1>5, <1>7, <1>11
    <3>2. vec[e] = Recalled(row[e]) BY <3>1, <1>3, <1>11 DEF Inv
    <3> QED BY <2>2, <3>2 DEF Keeps
  <2> QED BY <2>1, <2>2
<1>12. ASSUME Automaton \notin desynced', \A o \in Busy' : Terms(req'[o].on) = {}
       PROVE  cache' = Known(row')
  <2>1. CASE Terms(req[r].on) = {}
    <3>1. \A o \in Busy : Terms(req[o].on) = {} BY <2>1, <1>5, <1>7, <1>12
    <3>2. cache = Known(row) BY <3>1, <1>3, <1>12 DEF Inv
    <3>3. cache' = cache BY <2>1, <1>3, <1>12 DEF Keeps
    <3>4. \A e \in Terms(Entries) : row'[e] = row[e] BY <2>1 DEF Keeps, Terms
    <3>5. Known(row') = Known(row) BY <3>4, KnownSame
    <3> QED BY <3>2, <3>3, <3>5
  <2>2. CASE Terms(req[r].on) # {}
    <3>1. r \notin Busy' BY <2>2, <1>7, <1>12
    <3>2. CASE Settled(req[r].on, row', vec', cache', desynced')
      BY <3>2, <2>2, <1>12 DEF Settled, Answers
    <3>3. CASE desynced' = desynced \cup Lost(r) BY <3>3, <2>2, <1>12 DEF Lost
    <3> QED BY <3>1, <3>2, <3>3, <1>10
  <2> QED BY <2>1, <2>2
<1> QED BY <1>8, <1>9, <1>11, <1>12 DEF Inv

\* The types of what is not a request.
DataOK(rw, hu, v, c) ==
  /\ rw \in Rows
  /\ hu \subseteq Entries
  /\ v \in [Entries -> Versions \cup {"none"}]
  /\ c = Missing \/ c \in Caches

\* More may be exempt after a step.
Exempts == desynced \subseteq desynced' /\ desynced' \subseteq Entries \cup {Automaton}

\* Nothing more is.
LEMMA SameExempt == ASSUME ShapeOK, UNCHANGED desynced PROVE Exempts
BY DEF ShapeOK, Exempts

\* A request that goes on, or is done.
LEMMA Proceeds ==
  ASSUME Inv, NEW r \in Busy, NEW w \in Rows, NEW todo \in Todos, Proceed(r, w, todo),
         Exempts, Keeps(r), DataOK(row', human', vec', cache'),
         Mine(After(req[r], w, todo), row', vec', cache', desynced')
  PROVE  Inv'
<1>1. r \in Requests /\ req[r] \in Running /\ ShapeOK
  BY DEF Inv, ShapeOK, Busy, Ended
<1>2. After(req[r], w, todo) \in Running /\ After(req[r], w, todo).on = req[r].on
      /\ After(req[r], w, todo).todo = todo
  BY <1>1, AfterFields
<1>3. [pc |-> "done"] \in Ended BY DEF Ended
<1>4. CASE todo = <<>>
  <2>1. req' = [req EXCEPT ![r] = [pc |-> "done"]] BY <1>4 DEF Proceed
  <2>2. ShapeOK' BY <2>1, <1>1, <1>3 DEF ShapeOK, DataOK, Exempts
  <2>3. Outcome(r, [pc |-> "done"]) BY <1>2, <1>3, <1>4, MineSettled DEF Outcome, Exempts
  <2> QED BY <2>1, <2>2, <2>3, Carried
<1>5. CASE todo # <<>>
  <2>1. req' = [req EXCEPT ![r] = After(req[r], w, todo)] BY <1>1, <1>5 DEF Proceed, After
  <2>2. ShapeOK' BY <2>1, <1>1, <1>2 DEF ShapeOK, DataOK, Exempts
  <2>3. Outcome(r, After(req[r], w, todo)) BY <1>2 DEF Outcome, Exempts
  <2> QED BY <2>1, <2>2, <2>3, Carried
<1> QED BY <1>4, <1>5

\* A request that fails.
LEMMA Fails ==
  ASSUME Inv, NEW r \in Busy, Fail(r), UNCHANGED <<row, human, vec, cache>>
  PROVE  Inv'
<1>1. r \in Requests /\ req[r] \in Running /\ ShapeOK
  BY DEF Inv, ShapeOK, Busy, Ended
<1>2. [pc |-> "failed"] \in Ended BY DEF Ended
<1>3. req' = [req EXCEPT ![r] = [pc |-> "failed"]] /\ desynced' = desynced \cup Lost(r)
  BY DEF Fail, End
<1>4. Lost(r) \subseteq Entries \cup {Automaton} BY <1>1 DEF Lost, Running
<1>5. ShapeOK' BY <1>1, <1>2, <1>3, <1>4 DEF ShapeOK
<1>6. Keeps(r) BY DEF Keeps
<1>7. Outcome(r, [pc |-> "failed"]) BY <1>2, <1>3 DEF Outcome
<1> QED BY <1>3, <1>5, <1>6, <1>7, Carried

\* What there is to know about a request whose next step is d.
Ready(r, d, T0, T, w) ==
  /\ r \in Busy /\ r \in Requests /\ req[r] \in Running /\ ShapeOK
  /\ T0 = Left(req[r].todo) /\ T = Left(Tail(req[r].todo))
  /\ Tail(req[r].todo) \in Todos
  /\ On(r) \subseteq Entries
  /\ Rest(T0, [do |-> d, on |-> On(r)], T)
  /\ Mine(req[r], row, vec, cache, desynced)
  /\ Fitting(After(req[r], w, Tail(req[r].todo)), desynced)

\* All of this holds when the next step is d.
LEMMA ReadyAt ==
  ASSUME Inv, NEW r, NEW d, NEW w \in Rows, At(r, d)
  PROVE  Ready(r, d, Left(req[r].todo), Left(Tail(req[r].todo)), w)
<1> DEFINE q == req[r]
<1>1. r \in Busy /\ r \in Requests /\ q \in Running /\ ShapeOK /\ q.todo # <<>>
      /\ Head(q.todo).do = d
  BY DEF At, Inv, ShapeOK, Busy, Ended
<1>2. Mine(q, row, vec, cache, desynced) BY <1>1 DEF Inv
<1>3. Fitting(q, desynced) BY <1>2 DEF Mine
<1> HIDE DEF q
<1>4. /\ Fitting(After(q, w, Tail(q.todo)), desynced)
      /\ Rest(Left(q.todo), Head(q.todo), Left(Tail(q.todo)))
      /\ Tail(q.todo) \in Todos
      /\ Head(q.todo) \in [do : Acts, on : SUBSET Entries]
  BY <1>1, <1>3, TailFitting
<1>5. Head(q.todo) = [do |-> d, on |-> Head(q.todo).on] /\ Head(q.todo).on \subseteq Entries
  BY <1>1, <1>4
<1> QED BY <1>1, <1>2, <1>4, <1>5 DEF Ready, On, q

\* A row is overwritten, where the request changed it, over what is there by then.
LEMMA MergedRow ==
  ASSUME NEW now \in Row, NEW old \in Row, NEW want \in Row
  PROVE  Merged(now, old, want) \in Row /\ (now = old => Merged(now, old, want) = want)
<1>1. DOMAIN want = {"st", "sup", "tier", "ver"} BY DEF Row
<1>2. CASE now.st = "absent" BY <1>2 DEF Merged
<1>3. CASE now.st # "absent"
  <2>1. Merged(now, old, want) =
          [c \in {"st", "sup", "tier", "ver"} |-> IF want[c] = old[c] THEN now[c] ELSE want[c]]
    BY <1>1, <1>3 DEF Merged
  <2>2. Merged(now, old, want) =
          [st |-> IF want.st = old.st THEN now.st ELSE want.st,
           sup |-> IF want.sup = old.sup THEN now.sup ELSE want.sup,
           tier |-> IF want.tier = old.tier THEN now.tier ELSE want.tier,
           ver |-> IF want.ver = old.ver THEN now.ver ELSE want.ver]
    BY <2>1
  <2> QED BY <2>2 DEF Row
<1> QED BY <1>2, <1>3

\* Once a step other than a deletion is at hand, the commit has been.
LEMMA Committed ==
  ASSUME NEW r, NEW d, NEW T0, NEW T, NEW w, Ready(r, d, T0, T, w), d \notin {"commit", "delete"}
  PROVE  /\ ~Has(T0, "commit") /\ ~Has(T, "commit")
         /\ \A e \in Entries : Owns(req[r].on, desynced, e) =>
              /\ row[e] = Final(req[r].plan, req[r].old, e)
              /\ e \notin req[r].plan.erase => req[r].seen[e] = row[e]
<1>1. ~Has(T, "commit") BY RestHas DEF Ready, Fine
<1>2. ~Has(T0, "commit") BY <1>1, RestHas DEF Ready
<1> QED BY <1>1, <1>2 DEF Ready, Mine, RowsSoFar

\* What a step does not hit is hit by the same steps before and after.
LEMMA RestHits ==
  ASSUME NEW T0, NEW d, NEW S, NEW T, Rest(T0, [do |-> d, on |-> S], T), NEW e, e \notin S
  PROVE  \A k : Hits(T, k, e) <=> Hits(T0, k, e)
BY DEF Rest, Hits

\* Commit, its failure included.
LEMMA CommitKeeps == ASSUME Inv, NEW r \in Requests, Commit(r) PROVE Inv'
<1> DEFINE q  == req[r]
           p  == q.plan
           w  == [e \in Entries |-> IF e \in DOMAIN p.want THEN p.want[e] ELSE q.seen[e]]
           T0 == Left(q.todo)
           T  == Left(Tail(q.todo))
           n  == After(q, w, Tail(q.todo))
<1>1. At(r, "commit") BY DEF Commit
<1>2. q \in Running BY <1>1 DEF At, Busy, Inv, ShapeOK, Ended
<1>3. CASE \E e \in p.must : ~Exists(e)
  <2>1. r \in Busy BY <1>1 DEF At
  <2>2. Fail(r) /\ UNCHANGED <<row, human, vec, cache>> BY <1>3 DEF Commit
  <2> QED BY <2>1, <2>2, Fails
<1>4. CASE ~\E e \in p.must : ~Exists(e)
  <2>1. /\ row' = [e \in Entries |->
                     IF e \in p.erase THEN Gone
                     ELSE IF e \in DOMAIN p.want THEN Merged(row[e], q.old[e], p.want[e])
                     ELSE row[e]]
        /\ human' = (human \cup p.human) \ p.erase
        /\ Proceed(r, w, Tail(q.todo))
        /\ desynced' = desynced /\ vec' = vec /\ cache' = cache
    BY <1>4 DEF Commit
  <2>2. /\ p \in Plans /\ q.old \in Rows /\ q.seen \in Rows
        /\ \A e \in DOMAIN p.want : e \in Entries /\ p.want[e] \in Row
    BY <1>2 DEF Running, Plans, Wants
  <2>3. w \in Rows BY <2>2 DEF Rows
  <2>4. Gone \in Row BY DEF Gone, Row, Statuses, Tiers, Versions
  <2> HIDE DEF w
  <2>5. Ready(r, "commit", T0, T, w) BY <1>1, <2>3, ReadyAt
  <2>6. row \in Rows BY <2>5 DEF Ready, ShapeOK
  <2>7. ASSUME NEW e \in Entries
        PROVE  row'[e] \in Row /\ (row[e] = q.old[e] => row'[e] = Final(p, q.old, e))
    <3>1. row[e] \in Row /\ q.old[e] \in Row BY <2>2, <2>6 DEF Rows
    <3>2. row'[e] = IF e \in p.erase THEN Gone
                    ELSE IF e \in DOMAIN p.want THEN Merged(row[e], q.old[e], p.want[e])
                    ELSE row[e]
      BY <2>1
    <3>3. CASE e \in p.erase BY <3>2, <3>3, <2>4 DEF Final
    <3>4. CASE e \notin p.erase /\ e \in DOMAIN p.want
      <4>1. p.want[e] \in Row BY <3>4, <2>2
      <4>2. row'[e] = Merged(row[e], q.old[e], p.want[e]) BY <3>2, <3>4
      <4>3. Final(p, q.old, e) = p.want[e] BY <3>4 DEF Final
      <4> QED BY <3>1, <4>1, <4>2, <4>3, MergedRow
    <3>5. CASE e \notin p.erase /\ e \notin DOMAIN p.want
      BY <3>1, <3>2, <3>5 DEF Final
    <3> QED BY <3>3, <3>4, <3>5
  <2>8. row' \in Rows
    <3>1. row' = [e \in Entries |-> row'[e]] BY <2>1
    <3> QED BY <3>1, <2>7 DEF Rows
  <2>9. DataOK(row', human', vec', cache')
    BY <2>1, <2>2, <2>5, <2>8 DEF DataOK, Ready, ShapeOK, Plans
  <2>10. StepsFit(T0, q.job, p, q.on) /\ q.on \subseteq Entries
    BY <1>2, <2>5 DEF Ready, Mine, Fitting, Running
  <2>11. Keeps(r)
    <3>1. ASSUME NEW e \in Entries \ q.on PROVE row'[e] = row[e]
      BY <2>1, <2>10 DEF StepsFit
    <3> QED BY <2>1, <3>1 DEF Keeps
  <2>12. Has(T0, "commit") /\ ~Has(T, "commit") BY <2>5, RestHas DEF Ready, Fine
  <2>13. Tail(q.todo) \in Todos /\ Rest(T0, [do |-> "commit", on |-> On(r)], T)
         /\ Mine(q, row, vec, cache, desynced)
    BY <2>5 DEF Ready
  <2>14. /\ n.seen = w /\ n.todo = Tail(q.todo) /\ n.on = q.on /\ n.plan = p /\ n.old = q.old
         /\ n.job = q.job /\ n.read = q.read
    BY <1>2, <2>3, <2>13, AfterFields
  <2>15. ASSUME NEW e \in Entries, Owns(q.on, desynced, e)
         PROVE  row'[e] = Final(p, q.old, e) /\ (e \in p.erase \/ w[e] = row'[e])
    <3>1. row[e] = q.old[e] /\ (e \in p.erase \/ q.seen[e] = row[e])
      BY <2>12, <2>13, <2>15 DEF Mine, RowsSoFar
    <3>2. row'[e] = Final(p, q.old, e) BY <3>1, <2>7
    <3> QED BY <3>1, <3>2 DEF Final, w
  <2> HIDE DEF n, q, T0
  <2>16. Fitting(n, desynced) BY <2>5 DEF Ready, n, q
  <2>17. RowsSoFar(n, row', desynced) BY <2>12, <2>14, <2>15 DEF RowsSoFar
  <2>18. VecsSoFar(n, vec, desynced)
    BY <2>13, <2>14, VecsKept DEF Mine, T0
  <2>19. AutoSoFar(n, row', cache, desynced)
    <3> SUFFICES ASSUME Answers(q.on, desynced)
                 PROVE  CacheSoFar(T, q.old, row', q.read, cache)
      BY <2>14 DEF AutoSoFar
    <3>1. CacheSoFar(T0, q.old, row, q.read, cache) /\ StepsRebuild(T0, q.job, p, q.old)
      BY <2>13 DEF Mine, AutoSoFar, Fitting, T0
    <3>2. \A d \in {"write", "read", "sync"} : Has(T, d) <=> Has(T0, d) BY <2>13, RestHas
    <3>3. Has(T, "write") => Has(T, "read") BY <3>2, <2>10, <2>12 DEF StepsFit
    <3>4. Known(row') = Known(Finals(p, q.old))
      <4>1. \A e \in Terms(Entries) : row'[e] = Finals(p, q.old)[e]
        BY <2>15 DEF Owns, Finals, Terms
      <4> QED BY <4>1, KnownSame
    <3> QED BY <3>1, <3>2, <3>3, <3>4, <2>12 DEF CacheSoFar, StepsRebuild
  <2>20. Mine(n, row', vec', cache', desynced')
    BY <2>1, <2>16, <2>17, <2>18, <2>19 DEF Mine
  <2>21. r \in Busy /\ ShapeOK BY <2>5 DEF Ready
  <2>22. Exempts BY <2>1, <2>21, SameExempt
  <2> QED
    BY <2>1, <2>3, <2>9, <2>11, <2>13, <2>20, <2>21, <2>22, Proceeds DEF n, q
<1> QED BY <1>3, <1>4

\* A step that reads rows or writes neither vectors nor the automaton.
LEMMA QuietStep ==
  ASSUME Inv, NEW r \in Requests, NEW d \in {"refresh", "audit"}, NEW w \in Rows,
         At(r, d), Proceed(r, w, Tail(req[r].todo)),
         \A e \in Entries : w[e] = req[r].seen[e] \/ w[e] = row[e],
         UNCHANGED <<row, vec, cache, desynced>>, human' \subseteq Entries
  PROVE  Inv'
<1> DEFINE q  == req[r]
           T0 == Left(q.todo)
           T  == Left(Tail(q.todo))
           n  == After(q, w, Tail(q.todo))
<1>1. Ready(r, d, T0, T, w) BY ReadyAt
<1>2. /\ Rest(T0, [do |-> d, on |-> On(r)], T) /\ Mine(q, row, vec, cache, desynced)
      /\ Fitting(n, desynced) /\ Tail(q.todo) \in Todos /\ q \in Running /\ r \in Busy
      /\ ShapeOK
  BY <1>1 DEF Ready
<1>3. /\ n.seen = w /\ n.todo = Tail(q.todo) /\ n.on = q.on /\ n.plan = q.plan
      /\ n.old = q.old /\ n.job = q.job /\ n.read = q.read
  BY <1>2, AfterFields
<1> HIDE DEF n, q
<1>4. RowsSoFar(n, row, desynced) BY <1>2, <1>3, RowsKept DEF Mine, q
<1>5. VecsSoFar(n, vec, desynced) BY <1>2, <1>3, VecsKept DEF Mine
<1>6. AutoSoFar(n, row, cache, desynced) BY <1>2, <1>3, AutoKept DEF Mine
<1>7. Mine(n, row', vec', cache', desynced') BY <1>2, <1>4, <1>5, <1>6 DEF Mine
<1>8. Keeps(r) BY DEF Keeps
<1>9. DataOK(row', human', vec', cache') BY <1>2 DEF DataOK, ShapeOK
<1>10. Exempts BY <1>2, SameExempt
<1> QED BY <1>2, <1>7, <1>8, <1>9, <1>10, Proceeds DEF n, q

\* db.refresh reads rows, or fails if one is gone.
LEMMA RefreshKeeps == ASSUME Inv, NEW r \in Requests, Refresh(r) PROVE Inv'
<1> DEFINE w == [e \in Entries |-> IF e \in On(r) THEN row[e] ELSE req[r].seen[e]]
<1>1. At(r, "refresh") BY DEF Refresh
<1>2. r \in Busy /\ req[r] \in Running /\ row \in Rows /\ human \subseteq Entries
  BY <1>1 DEF At, Busy, Inv, ShapeOK, Ended
<1>3. w \in Rows BY <1>2 DEF Rows, Running
<1>4. CASE \A e \in On(r) : Exists(e)
  <2>1. Proceed(r, w, Tail(req[r].todo)) /\ UNCHANGED <<row, human, vec, cache, desynced>>
    BY <1>4 DEF Refresh
  <2>2. \A e \in Entries : w[e] = req[r].seen[e] \/ w[e] = row[e] OBVIOUS
  <2> HIDE DEF w
  <2> QED BY <1>1, <1>2, <1>3, <2>1, <2>2, QuietStep
<1>5. CASE ~\A e \in On(r) : Exists(e)
  <2>1. Fail(r) /\ UNCHANGED <<row, human, vec, cache>> BY <1>5 DEF Refresh
  <2> QED BY <1>2, <2>1, Fails
<1> QED BY <1>4, <1>5

\* The audit row of an edit, or its failure if the entry is gone.
LEMMA AuditKeeps == ASSUME Inv, NEW r \in Requests, Audit(r) PROVE Inv'
<1>1. At(r, "audit") BY DEF Audit
<1>2. r \in Busy /\ req[r] \in Running /\ row \in Rows /\ human \subseteq Entries
  BY <1>1 DEF At, Busy, Inv, ShapeOK, Ended
<1>3. req[r].seen \in Rows BY <1>2 DEF Running
<1>4. CASE \A e \in On(r) : Exists(e)
  <2>1. /\ Proceed(r, req[r].seen, Tail(req[r].todo))
        /\ human' = human \cup On(r) /\ UNCHANGED <<row, vec, cache, desynced>>
    BY <1>4 DEF Audit, GoOn
  <2>2. On(r) \subseteq Entries BY <1>1, <1>3, ReadyAt DEF Ready
  <2> QED BY <1>1, <1>2, <1>3, <2>1, <2>2, QuietStep
<1>5. CASE ~\A e \in On(r) : Exists(e)
  <2>1. Fail(r) /\ UNCHANGED <<row, human, vec, cache>> BY <1>5 DEF Audit
  <2> QED BY <1>2, <2>1, Fails
<1> QED BY <1>4, <1>5

\* What holds of a request holds if more is exempt.
LEMMA Exempting ==
  ASSUME NEW q, NEW rows, NEW v, NEW c, NEW ds, NEW more, ds \subseteq more,
         Mine(q, rows, v, c, ds)
  PROVE  Mine(q, rows, v, c, more)
<1>1. /\ \A e \in Entries : Owns(q.on, more, e) => Owns(q.on, ds, e)
      /\ Answers(q.on, more) => Answers(q.on, ds)
      /\ \A e \in q.on \ more : e \in q.on \ ds
      /\ Automaton \in ds => Automaton \in more
  BY DEF Owns, Answers
<1>2. Fitting(q, more) BY <1>1 DEF Mine, Fitting
<1>3. RowsSoFar(q, rows, more) BY <1>1 DEF Mine, RowsSoFar
<1>4. VecsSoFar(q, v, more) BY <1>1 DEF Mine, VecsSoFar
<1>5. AutoSoFar(q, rows, c, more) BY <1>1 DEF Mine, AutoSoFar
<1> QED BY <1>2, <1>3, <1>4, <1>5 DEF Mine

\* A step that writes the vectors of what it names: it is enough that they are as
\* they should be with the steps that are left.
LEMMA VectorStep ==
  ASSUME Inv, NEW r \in Requests, NEW d \in {"upsert", "delete", "hq"}, At(r, d), GoOn(r),
         UNCHANGED <<row, human, cache>>, Exempts,
         vec' \in [Entries -> Versions \cup {"none"}],
         \A e \in Entries \ On(r) : vec'[e] = vec[e],
         \A e \in (On(r) \cap req[r].on) \ desynced' :
           VecSoFar(Left(Tail(req[r].todo)), req[r].job, req[r].plan, req[r].old, e, vec'[e])
  PROVE  Inv'
<1> DEFINE q  == req[r]
           T0 == Left(q.todo)
           T  == Left(Tail(q.todo))
           n  == After(q, q.seen, Tail(q.todo))
<1>1. q \in Running BY DEF At, Busy, Inv, ShapeOK, Ended
<1>2. q.seen \in Rows BY <1>1 DEF Running
<1>3. Ready(r, d, T0, T, q.seen) BY <1>2, ReadyAt
<1>4. /\ Rest(T0, [do |-> d, on |-> On(r)], T) /\ Mine(q, row, vec, cache, desynced')
      /\ Fitting(n, desynced') /\ Tail(q.todo) \in Todos /\ r \in Busy /\ ShapeOK
  <2>1. Mine(q, row, vec, cache, desynced') BY <1>3, Exempting DEF Ready, Exempts
  <2>2. Fitting(q, desynced') /\ q.todo # <<>> BY <2>1 DEF Mine, At
  <2>3. Fitting(n, desynced') BY <1>1, <1>2, <2>2, TailFitting
  <2> QED BY <1>3, <2>1, <2>3 DEF Ready
<1>5. /\ n.seen = q.seen /\ n.todo = Tail(q.todo) /\ n.on = q.on /\ n.plan = q.plan
      /\ n.old = q.old /\ n.job = q.job /\ n.read = q.read
  BY <1>1, <1>2, <1>4, AfterFields
<1>6. Proceed(r, q.seen, Tail(q.todo)) BY DEF GoOn
<1>7. q.on \subseteq Entries /\ On(r) \subseteq q.on
  <2> HIDE DEF q, T0, T, n
  <2>1. StepsFit(T0, q.job, q.plan, q.on) BY <1>4 DEF Mine, Fitting, T0
  <2>2. [do |-> d, on |-> On(r)] \in T0 BY <1>4 DEF Rest
  <2>3. On(r) \subseteq q.on BY <2>1, <2>2 DEF StepsFit
  <2> QED BY <2>3, <1>1 DEF Running
<1> HIDE DEF n, q
<1>8. RowsSoFar(n, row, desynced') BY <1>4, <1>5, RowsKept DEF Mine
<1>9. VecsSoFar(n, vec', desynced')
  <2> SUFFICES ASSUME NEW e \in q.on \ desynced'
               PROVE  VecSoFar(T, q.job, q.plan, q.old, e, vec'[e])
    BY <1>5 DEF VecsSoFar
  <2>1. CASE e \in On(r) BY <2>1 DEF q
  <2>2. CASE e \notin On(r)
    <3>1. vec'[e] = vec[e] BY <2>2, <1>7
    <3>2. VecSoFar(T0, q.job, q.plan, q.old, e, vec[e]) BY <1>4 DEF Mine, VecsSoFar
    <3>3. \A k : Hits(T, k, e) <=> Hits(T0, k, e) BY <2>2, <1>4, RestHits
    <3> QED BY <3>1, <3>2, <3>3 DEF VecSoFar
  <2> QED BY <2>1, <2>2
<1>10. AutoSoFar(n, row, cache, desynced') BY <1>4, <1>5, AutoKept DEF Mine
<1>11. Mine(n, row', vec', cache', desynced') BY <1>4, <1>8, <1>9, <1>10 DEF Mine
<1>12. Keeps(r) BY <1>7 DEF Keeps, q
<1>13. DataOK(row', human', vec', cache') BY <1>4 DEF DataOK, ShapeOK
<1> QED BY <1>2, <1>4, <1>6, <1>11, <1>12, <1>13, Proceeds DEF n, q

\* What is known of an entry that the next step hits.
LEMMA HitBy ==
  ASSUME NEW r, NEW d, NEW T0, NEW T, NEW w, Ready(r, d, T0, T, w),
         NEW e, e \in (On(r) \cap req[r].on) \ desynced
  PROVE  /\ e \in Entries /\ Owns(req[r].on, desynced, e)
         /\ Hits(T0, d, e)
         /\ StepsDo(T0, req[r].job, req[r].plan, req[r].old, e)
         /\ StepsDo(T, req[r].job, req[r].plan, req[r].old, e)
         /\ VecSoFar(T0, req[r].job, req[r].plan, req[r].old, e, vec[e])
<1> DEFINE q == req[r]
<1>1. /\ Rest(T0, [do |-> d, on |-> On(r)], T) /\ Mine(q, row, vec, cache, desynced)
      /\ T0 = Left(q.todo) /\ On(r) \subseteq Entries
  BY DEF Ready
<1> HIDE DEF q
<1>2. e \in Entries /\ e \in q.on \ desynced /\ Owns(q.on, desynced, e)
  BY <1>1 DEF Owns, q
<1>3. Hits(T0, d, e) BY <1>1 DEF Rest, Hits
<1>4. StepsDo(T0, q.job, q.plan, q.old, e) BY <1>1, <1>2 DEF Mine, Fitting
<1>5. StepsDo(T, q.job, q.plan, q.old, e) BY <1>1, <1>4, RestDoes
<1>6. VecSoFar(T0, q.job, q.plan, q.old, e, vec[e]) BY <1>1, <1>2 DEF Mine, VecsSoFar
<1> QED BY <1>2, <1>3, <1>4, <1>5, <1>6 DEF q

\* Vectors as they should be in the end are as they should be now, unless sync is
\* to come.
LEMMA VecRight ==
  ASSUME NEW T, NEW j, NEW p, NEW old, NEW e, NEW text,
         text = Recalled(Final(p, old, e)), ~Hits(T, "sync", e)
  PROVE  VecSoFar(T, j, p, old, e, text)
BY DEF VecSoFar

\* Vectors are as wanted after a write, where nothing new is exempt.
LEMMA WritesVectors ==
  ASSUME ShapeOK, NEW wanted, NEW first, Writes(wanted, first), DOMAIN wanted \subseteq Entries,
         \A e \in DOMAIN wanted : wanted[e] \in Versions \cup {"none"}
  PROVE  /\ Exempts /\ vec' \in [Entries -> Versions \cup {"none"}]
         /\ \A e \in Entries \ DOMAIN wanted : vec'[e] = vec[e]
         /\ \A e \in DOMAIN wanted \ desynced' : vec'[e] = wanted[e]
<1> DEFINE S == DOMAIN wanted
<1>1. PICK failed \in SUBSET S : \E bare \in SUBSET (failed \cap first) :
        /\ vec' = [e \in Entries |-> IF e \in bare THEN "none"
                                     ELSE IF e \in S \ failed THEN wanted[e] ELSE vec[e]]
        /\ desynced' = desynced \cup {e \in S : vec'[e] # wanted[e]}
  BY DEF Writes
<1>2. PICK bare \in SUBSET (failed \cap first) :
        /\ vec' = [e \in Entries |-> IF e \in bare THEN "none"
                                     ELSE IF e \in S \ failed THEN wanted[e] ELSE vec[e]]
        /\ desynced' = desynced \cup {e \in S : vec'[e] # wanted[e]}
  BY <1>1
<1>3. vec \in [Entries -> Versions \cup {"none"}] /\ desynced \subseteq Entries \cup {Automaton}
  BY DEF ShapeOK
<1>4. Exempts BY <1>2, <1>3 DEF Exempts
<1>5. vec' \in [Entries -> Versions \cup {"none"}] BY <1>2, <1>3
<1>6. \A e \in Entries \ S : vec'[e] = vec[e] BY <1>2
<1>7. \A e \in S \ desynced' : vec'[e] = wanted[e] BY <1>2
<1> QED BY <1>4, <1>5, <1>6, <1>7

\* upsert_knowledge_entry: the vectors become what the row asks for.
LEMMA UpsertKeeps == ASSUME Inv, NEW r \in Requests, Upsert(r) PROVE Inv'
<1> DEFINE q  == req[r]
           T0 == Left(q.todo)
           T  == Left(Tail(q.todo))
           want == [e \in On(r) |-> Upserted(e, q.seen[e])]
<1>1. At(r, "upsert") /\ GoOn(r) /\ UNCHANGED <<row, human, cache>>
      /\ Writes(want, Terms(On(r)))
  BY DEF Upsert
<1>2. q \in Running /\ q.seen \in Rows BY <1>1 DEF At, Busy, Inv, ShapeOK, Ended, Running
<1>3. Ready(r, "upsert", T0, T, q.seen) BY <1>1, <1>2, ReadyAt
<1>4. vec \in [Entries -> Versions \cup {"none"}] BY DEF Inv, ShapeOK
<1>5. /\ Exempts /\ vec' \in [Entries -> Versions \cup {"none"}]
      /\ \A e \in Entries \ On(r) : vec'[e] = vec[e]
      /\ \A e \in On(r) \ desynced' : vec'[e] = Upserted(e, q.seen[e])
  <2>1. \A e \in Entries : Upserted(e, q.seen[e]) \in Versions \cup {"none"}
    BY <1>2, <1>4 DEF Upserted, Recalled, Rows, Row
  <2>2. On(r) \subseteq Entries /\ ShapeOK BY <1>3 DEF Ready
  <2>3. DOMAIN want = On(r) /\ \A e \in On(r) : want[e] = Upserted(e, q.seen[e]) OBVIOUS
  <2> HIDE DEF want, q, T0, T
  <2> QED BY <2>1, <2>2, <2>3, <1>1, WritesVectors
<1>6. ASSUME NEW e \in (On(r) \cap q.on) \ desynced'
      PROVE  VecSoFar(T, q.job, q.plan, q.old, e, vec'[e])
  <2>1. /\ e \in Entries /\ Owns(q.on, desynced, e) /\ Hits(T0, "upsert", e)
        /\ StepsDo(T0, q.job, q.plan, q.old, e)
        /\ VecSoFar(T0, q.job, q.plan, q.old, e, vec[e])
    BY <1>3, <1>5, <1>6, HitBy DEF Exempts
  <2>2. e \notin q.plan.erase /\ ~Hits(T0, "sync", e) BY <2>1 DEF StepsDo
  <2>3. q.seen[e] = Final(q.plan, q.old, e) BY <1>3, <2>1, <2>2, Committed
  <2>4. vec[e] \in {"none", Recalled(Final(q.plan, q.old, e))} BY <2>1 DEF VecSoFar
  <2>5. vec'[e] = Recalled(Final(q.plan, q.old, e))
    BY <1>5, <1>6, <2>1, <2>3, <2>4 DEF Upserted
  <2>6. ~Hits(T, "sync", e) BY <1>3, <2>2, RestHas DEF Ready
  <2> QED BY <2>5, <2>6, VecRight
<1> QED BY <1>1, <1>5, <1>6, VectorStep

\* delete_knowledge_entry: only of what will not be recalled.
LEMMA DeleteKeeps == ASSUME Inv, NEW r \in Requests, Delete(r) PROVE Inv'
<1> DEFINE q  == req[r]
           T0 == Left(q.todo)
           T  == Left(Tail(q.todo))
           want == [e \in On(r) |-> "none"]
<1>1. At(r, "delete") /\ GoOn(r) /\ UNCHANGED <<row, human, cache>> /\ Writes(want, {})
  BY DEF Delete
<1>2. q \in Running /\ q.seen \in Rows BY <1>1 DEF At, Busy, Inv, ShapeOK, Ended, Running
<1>3. Ready(r, "delete", T0, T, q.seen) BY <1>1, <1>2, ReadyAt
<1>4. /\ Exempts /\ vec' \in [Entries -> Versions \cup {"none"}]
      /\ \A e \in Entries \ On(r) : vec'[e] = vec[e]
      /\ \A e \in On(r) \ desynced' : vec'[e] = "none"
  <2>1. On(r) \subseteq Entries /\ ShapeOK BY <1>3 DEF Ready
  <2>2. DOMAIN want = On(r) /\ \A e \in On(r) : want[e] = "none" OBVIOUS
  <2> HIDE DEF want, q, T0, T
  <2> QED BY <2>1, <2>2, <1>1, WritesVectors
<1>5. ASSUME NEW e \in (On(r) \cap q.on) \ desynced'
      PROVE  VecSoFar(T, q.job, q.plan, q.old, e, vec'[e])
  <2>1. e \in Entries /\ Hits(T0, "delete", e) /\ StepsDo(T0, q.job, q.plan, q.old, e)
    BY <1>3, <1>4, <1>5, HitBy DEF Exempts
  <2>2. Recalled(Final(q.plan, q.old, e)) = "none" /\ ~Hits(T0, "sync", e)
    BY <2>1 DEF StepsDo
  <2>3. vec'[e] = Recalled(Final(q.plan, q.old, e)) BY <1>4, <1>5, <2>2
  <2>4. ~Hits(T, "sync", e) BY <1>3, <2>2, RestHas DEF Ready
  <2> QED BY <2>3, <2>4, VecRight
<1> QED BY <1>1, <1>4, <1>5, VectorStep

\* rewrite_hq_for_entry, when it runs and when it does not, and its failure.
LEMMA HqKeeps == ASSUME Inv, NEW r \in Requests, Hq(r) PROVE Inv'
<1> DEFINE q  == req[r]
           T0 == Left(q.todo)
           T  == Left(Tail(q.todo))
           e  == CHOOSE x \in On(r) : TRUE
<1>1. At(r, "hq") /\ UNCHANGED <<row, human, cache>> BY DEF Hq
<1>2. q \in Running /\ q.seen \in Rows /\ r \in Busy
  BY <1>1 DEF At, Busy, Inv, ShapeOK, Ended, Running
<1>3. Ready(r, "hq", T0, T, q.seen) BY <1>1, <1>2, ReadyAt
<1>4. On(r) = {q.job.e} /\ q.job.e \in Entries
  <2>1. StepsFit(T0, q.job, q.plan, q.on) BY <1>3 DEF Ready, Mine, Fitting
  <2>2. [do |-> "hq", on |-> On(r)] \in T0 BY <1>3 DEF Ready, Rest
  <2> QED BY <2>1, <2>2 DEF StepsFit
<1>5. e = q.job.e BY <1>4
<1>6. vec \in [Entries -> Versions \cup {"none"}] BY DEF Inv, ShapeOK
<1> HIDE DEF e
<1>7. ASSUME e \in q.on \ desynced
      PROVE  LET w == Final(q.plan, q.old, e)
             IN /\ q.seen[e] = w /\ (HqRuns(q.job, w) => Recalled(w) # "none")
                /\ \A k \in {"delete", "upsert", "sync"} : ~Hits(T, k, e)
                /\ ~HqRuns(q.job, w) => vec[e] = Recalled(w)
  <2>1. e \in (On(r) \cap q.on) \ desynced BY <1>4, <1>5, <1>7
  <2>2. /\ Owns(q.on, desynced, e) /\ Hits(T0, "hq", e) /\ e \in Entries
        /\ StepsDo(T0, q.job, q.plan, q.old, e)
        /\ VecSoFar(T0, q.job, q.plan, q.old, e, vec[e])
    BY <1>3, <2>1, HitBy
  <2>3. e \notin q.plan.erase BY <2>2 DEF StepsDo
  <2>4. q.seen[e] = Final(q.plan, q.old, e) BY <1>3, <2>2, <2>3, Committed
  <2>5. \A k \in {"delete", "upsert"} : ~Hits(T0, k, e) BY <2>2 DEF StepsDo
  <2>6. ~Has(T, "sync") BY <1>3, RestHas DEF Ready, Fine
  <2>7. ~Hits(T, "sync", e) /\ ~Hits(T0, "sync", e) BY <1>3, <2>6, RestHas DEF Ready
  <2>8. \A k \in {"delete", "upsert", "sync"} : ~Hits(T, k, e)
    BY <1>3, <2>5, <2>7, RestHas DEF Ready
  <2> QED BY <2>2, <2>4, <2>7, <2>8 DEF StepsDo, VecSoFar
<1>8. CASE ~HqRuns(q.job, q.seen[e])
  <2>1. GoOn(r) /\ UNCHANGED <<vec, desynced>> BY <1>8 DEF Hq, e
  <2>2. ASSUME NEW x \in (On(r) \cap q.on) \ desynced'
        PROVE  VecSoFar(T, q.job, q.plan, q.old, x, vec'[x])
    <3>1. x = e BY <1>4, <1>5
    <3> QED BY <3>1, <2>1, <2>2, <1>7, <1>8, VecRight
  <2>3. Exempts BY <2>1, <1>3, SameExempt DEF Ready
  <2> QED BY <1>1, <1>6, <2>1, <2>2, <2>3, VectorStep
<1>9. CASE HqRuns(q.job, q.seen[e]) /\ Exists(e)
  <2> DEFINE want == Only(e, q.seen[e].ver)
  <2>1. GoOn(r) /\ Writes(want, {e}) BY <1>9 DEF Hq, e
  <2>2. q.seen[e].ver \in Versions BY <1>2, <1>4, <1>5 DEF Rows, Row
  <2>3. DOMAIN want = On(r) /\ \A x \in On(r) : want[x] = q.seen[e].ver
    BY <1>4, <1>5 DEF Only
  <2>4. On(r) \subseteq Entries /\ ShapeOK BY <1>3 DEF Ready
  <2> HIDE DEF want
  <2>5. /\ Exempts /\ vec' \in [Entries -> Versions \cup {"none"}]
        /\ \A x \in Entries \ On(r) : vec'[x] = vec[x]
        /\ \A x \in On(r) \ desynced' : vec'[x] = q.seen[e].ver
    BY <2>1, <2>2, <2>3, <2>4, WritesVectors
  <2>6. ASSUME NEW x \in (On(r) \cap q.on) \ desynced'
        PROVE  VecSoFar(T, q.job, q.plan, q.old, x, vec'[x])
    <3>1. x = e /\ vec'[e] = q.seen[e].ver BY <1>4, <1>5, <2>5, <2>6
    <3>2. e \in q.on \ desynced BY <3>1, <2>5, <2>6 DEF Exempts
    <3>3. vec'[e] = Recalled(Final(q.plan, q.old, e)) BY <3>1, <3>2, <1>7, <1>9 DEF Recalled
    <3> QED BY <3>1, <3>2, <3>3, <1>7, VecRight
  <2> QED BY <1>1, <2>1, <2>5, <2>6, VectorStep
<1>10. CASE HqRuns(q.job, q.seen[e]) /\ ~Exists(e)
  <2>1. Fail(r) /\ UNCHANGED vec BY <1>10 DEF Hq, e
  <2> QED BY <1>1, <1>2, <2>1, Fails
<1> QED BY <1>8, <1>9, <1>10

\* A step that writes the automaton: it is enough that it is as it should be with
\* the steps that are left.
LEMMA CacheStep ==
  ASSUME Inv, NEW r \in Requests, NEW d \in {"clear", "write"}, At(r, d), GoOn(r),
         UNCHANGED <<row, human, vec>>, Exempts,
         cache' = Missing \/ cache' \in Caches,
         Answers(req[r].on, desynced') =>
           CacheSoFar(Left(Tail(req[r].todo)), req[r].old, row, req[r].read, cache')
  PROVE  Inv'
<1> DEFINE q  == req[r]
           T0 == Left(q.todo)
           T  == Left(Tail(q.todo))
           n  == After(q, q.seen, Tail(q.todo))
<1>1. q \in Running BY DEF At, Busy, Inv, ShapeOK, Ended
<1>2. q.seen \in Rows BY <1>1 DEF Running
<1>3. Ready(r, d, T0, T, q.seen) BY <1>2, ReadyAt
<1>4. /\ Rest(T0, [do |-> d, on |-> On(r)], T) /\ Mine(q, row, vec, cache, desynced')
      /\ Mine(q, row, vec, cache, desynced)
      /\ Fitting(n, desynced') /\ Tail(q.todo) \in Todos /\ r \in Busy /\ ShapeOK
  <2>1. Mine(q, row, vec, cache, desynced') BY <1>3, Exempting DEF Ready, Exempts
  <2>2. Fitting(q, desynced') /\ q.todo # <<>> BY <2>1 DEF Mine, At
  <2>3. Fitting(n, desynced') BY <1>1, <1>2, <2>2, TailFitting
  <2> QED BY <1>3, <2>1, <2>3 DEF Ready
<1>5. /\ n.seen = q.seen /\ n.todo = Tail(q.todo) /\ n.on = q.on /\ n.plan = q.plan
      /\ n.old = q.old /\ n.job = q.job /\ n.read = q.read
  BY <1>1, <1>2, <1>4, AfterFields
<1>6. Proceed(r, q.seen, Tail(q.todo)) BY DEF GoOn
<1>7. Terms(q.on) # {} \/ Automaton \in desynced
  <2>1. Has(T0, d) BY <1>4, RestHas
  <2> QED BY <2>1, <1>4 DEF Mine, Fitting
<1>8. AutoSoFar(n, row, cache', desynced') BY <1>5 DEF AutoSoFar
<1> HIDE DEF n, q
<1>9. RowsSoFar(n, row, desynced') BY <1>4, <1>5, RowsKept DEF Mine
<1>10. VecsSoFar(n, vec, desynced') BY <1>4, <1>5, VecsKept DEF Mine
<1>11. Mine(n, row', vec', cache', desynced') BY <1>4, <1>8, <1>9, <1>10 DEF Mine
<1>12. Keeps(r) BY <1>7 DEF Keeps, q
<1>13. DataOK(row', human', vec', cache') BY <1>4 DEF DataOK, ShapeOK
<1> QED BY <1>2, <1>4, <1>6, <1>11, <1>12, <1>13, Proceeds DEF n, q

\* The first step of a rebuild forgets the automaton, so that the others are left.
LEMMA ClearKeeps == ASSUME Inv, NEW r \in Requests, Clear(r) PROVE Inv'
<1> DEFINE q  == req[r]
           T0 == Left(q.todo)
           T  == Left(Tail(q.todo))
<1>1. At(r, "clear") /\ GoOn(r) /\ UNCHANGED <<row, human, vec, desynced>> /\ cache' = Missing
      /\ Exempts
  BY SameExempt DEF Clear, Inv
<1>2. q \in Running /\ q.seen \in Rows BY <1>1 DEF At, Busy, Inv, ShapeOK, Ended, Running
<1>3. Ready(r, "clear", T0, T, q.seen) BY <1>1, <1>2, ReadyAt
<1>4. ASSUME Answers(q.on, desynced') PROVE CacheSoFar(T, q.old, row, q.read, cache')
  <2>1. Rest(T0, [do |-> "clear", on |-> On(r)], T) /\ StepsFit(T0, q.job, q.plan, q.on)
        /\ StepsRebuild(T0, q.job, q.plan, q.old)
    BY <1>1, <1>3, <1>4 DEF Ready, Mine, Fitting
  <2>2. Has(T0, "read") /\ Has(T0, "write") BY <2>1, RestHas DEF StepsFit, StepsRebuild
  <2>3. Has(T, "read") /\ Has(T, "write") BY <2>1, <2>2, RestHas
  <2> QED BY <2>3 DEF CacheSoFar
<1> QED BY <1>1, <1>4, CacheStep

\* The last step of a rebuild: what was read is still what the rows say.  If it
\* fails the automaton is exempt.
LEMMA WriteKeeps == ASSUME Inv, NEW r \in Requests, WriteCache(r) PROVE Inv'
<1> DEFINE q  == req[r]
           T0 == Left(q.todo)
           T  == Left(Tail(q.todo))
<1>1. At(r, "write") /\ UNCHANGED <<row, human, vec>> /\ ShapeOK BY DEF WriteCache, Inv
<1>2. q \in Running /\ q.seen \in Rows /\ q.read \in Caches /\ r \in Busy
  BY <1>1 DEF At, Busy, Inv, ShapeOK, Ended, Running
<1>3. CASE cache' = q.read /\ GoOn(r) /\ UNCHANGED desynced
  <2>1. Ready(r, "write", T0, T, q.seen) BY <1>1, <1>2, ReadyAt
  <2>2. ASSUME Answers(q.on, desynced') PROVE CacheSoFar(T, q.old, row, q.read, cache')
    <3>1. Rest(T0, [do |-> "write", on |-> On(r)], T)
          /\ CacheSoFar(T0, q.old, row, q.read, cache)
      BY <1>3, <2>1, <2>2 DEF Ready, Mine, AutoSoFar
    <3>2. ~Has(T, "read") /\ ~Has(T, "commit") /\ ~Has(T, "sync") BY <3>1, RestHas DEF Fine
    <3>3. ~Has(T0, "read") /\ Has(T0, "write") BY <3>1, <3>2, RestHas
    <3>4. q.read = Known(row) BY <3>1, <3>3 DEF CacheSoFar
    <3> QED BY <3>2, <3>4, <1>3 DEF CacheSoFar
  <2>3. Exempts BY <1>1, <1>3, SameExempt
  <2> QED BY <1>1, <1>2, <1>3, <2>2, <2>3, CacheStep
<1>4. CASE GoOn(r) /\ desynced' = desynced \cup {Automaton} /\ UNCHANGED cache
  <2>1. Exempts /\ ~Answers(q.on, desynced') BY <1>1, <1>4 DEF Exempts, ShapeOK, Answers
  <2>2. cache' = Missing \/ cache' \in Caches BY <1>1, <1>4 DEF ShapeOK
  <2> QED BY <1>1, <1>4, <2>1, <2>2, CacheStep
<1>5. CASE Fail(r) /\ UNCHANGED cache BY <1>1, <1>2, <1>5, Fails
<1> QED BY <1>3, <1>4, <1>5 DEF WriteCache

\* What is read is the automaton of the rows as they are.
LEMMA ReadKeeps == ASSUME Inv, NEW r \in Requests, ReadTerms(r) PROVE Inv'
<1> DEFINE q  == req[r]
           T0 == Left(q.todo)
           T  == Left(Tail(q.todo))
           m  == After(q, q.seen, Tail(q.todo))
           n  == [q EXCEPT !.read = Known(row), !.todo = Tail(q.todo)]
<1>1. At(r, "read") /\ UNCHANGED <<row, human, vec, cache, desynced>> BY DEF ReadTerms
<1>2. q \in Running /\ q.seen \in Rows /\ row \in Rows
  BY <1>1 DEF At, Busy, Inv, ShapeOK, Ended, Running
<1>3. Ready(r, "read", T0, T, q.seen) BY <1>1, <1>2, ReadyAt
<1>4. /\ Rest(T0, [do |-> "read", on |-> On(r)], T) /\ Mine(q, row, vec, cache, desynced)
      /\ Fitting(m, desynced) /\ Tail(q.todo) \in Todos /\ r \in Busy /\ ShapeOK
  BY <1>3 DEF Ready
<1>5. /\ m.todo = Tail(q.todo) /\ m.on = q.on /\ m.plan = q.plan /\ m.old = q.old
      /\ m.job = q.job
  BY <1>2, <1>4, AfterFields
<1>6. Known(row) \in Caches BY <1>2 DEF Known, Caches, Rows, Row, Terms
<1>7. /\ n \in Running /\ n.seen = q.seen /\ n.todo = Tail(q.todo) /\ n.on = q.on
      /\ n.plan = q.plan /\ n.old = q.old /\ n.job = q.job /\ n.read = Known(row)
  <2> HIDE DEF q
  <2> QED BY <1>2, <1>4, <1>6 DEF Running
<1>8. req' = [req EXCEPT ![r] = n] BY <1>2, <1>4 DEF ReadTerms, ShapeOK
<1> HIDE DEF m, n, q
<1>9. RowsSoFar(n, row, desynced) BY <1>4, <1>7, RowsKept DEF Mine
<1>10. VecsSoFar(n, vec, desynced) BY <1>4, <1>7, VecsKept DEF Mine
<1>11. AutoSoFar(n, row, cache, desynced)
  <2>1. Has(T0, "read") BY <1>4, RestHas
  <2>2. Has(T0, "write") BY <2>1, <1>4 DEF Mine, Fitting, StepsFit
  <2>3. Has(T, "write") BY <2>2, <1>4, RestHas
  <2> QED BY <2>3, <1>7 DEF AutoSoFar, CacheSoFar
<1>12. Fitting(n, desynced) BY <1>4, <1>5, <1>7 DEF Fitting
<1>13. Mine(n, row', vec', cache', desynced') BY <1>1, <1>9, <1>10, <1>11, <1>12 DEF Mine
<1>14. Keeps(r) BY <1>1 DEF Keeps
<1>15. ShapeOK' BY <1>1, <1>4, <1>7, <1>8 DEF ShapeOK
<1>16. Outcome(r, n) BY <1>1, <1>7, <1>13 DEF Outcome, q
<1> QED BY <1>4, <1>8, <1>14, <1>15, <1>16, Carried

\* Sync, which decides by what the row was and is whether the automaton is rebuilt.
LEMMA SyncKeeps == ASSUME Inv, NEW r \in Requests, Sync(r) PROVE Inv'
<1> DEFINE q    == req[r]
           j    == q.job
           e    == j.e
           was  == q.old[e]
           now  == q.seen[e]
           T0   == Left(q.todo)
           T    == Left(Tail(q.todo))
           add  == IF Rebuilds(j, was, now) THEN Rebuild({e}) ELSE <<>>
           A    == IF Rebuilds(j, was, now) THEN RebuildOf({e}) ELSE {}
           U    == A \cup T
           todo == add \o Tail(q.todo)
           n    == After(q, q.seen, todo)
           want == Only(e, Synced(j, was, now))
<1>1. /\ At(r, "sync") /\ UNCHANGED <<row, human, cache>>
      /\ Writes(want, IF Puts(j, was, now) THEN Terms({e}) ELSE {}) /\ Proceed(r, q.seen, todo)
  BY DEF Sync
<1>2. q \in Running /\ q.seen \in Rows /\ q.old \in Rows
  BY <1>1 DEF At, Busy, Inv, ShapeOK, Ended, Running
<1>3. Ready(r, "sync", T0, T, q.seen) BY <1>1, <1>2, ReadyAt
<1>4. /\ Rest(T0, [do |-> "sync", on |-> On(r)], T) /\ Mine(q, row, vec, cache, desynced)
      /\ Fitting(After(q, q.seen, Tail(q.todo)), desynced)
      /\ Fitting(q, desynced) /\ StepsFit(T0, j, q.plan, q.on)
      /\ Tail(q.todo) \in Todos /\ r \in Busy /\ ShapeOK
  BY <1>3 DEF Ready, Mine, Fitting
<1>5. /\ q.on = {e} /\ On(r) = {e} /\ e \in Entries /\ e \notin q.plan.erase
      /\ ~Has(T0, "write") /\ Has(T0, "sync")
  <2> HIDE DEF q, j, T0, T
  <2>1. Has(T0, "sync") BY <1>4, RestHas
  <2>2. [do |-> "sync", on |-> On(r)] \in T0 BY <1>4 DEF Rest
  <2> QED BY <2>1, <2>2, <1>4 DEF StepsFit
<1>6. \A s \in T : s.do \in {"hq", "audit"} BY <1>4 DEF Rest, Follows, Fine
<1>7. /\ ~Has(T0, "commit")
      /\ \A x \in Entries : Owns(q.on, desynced, x) =>
           /\ row[x] = Final(q.plan, q.old, x)
           /\ x \notin q.plan.erase => q.seen[x] = row[x]
  BY <1>3, Committed
<1>8. Owns(q.on, desynced, e) => row[e] = Final(q.plan, q.old, e) /\ now = row[e]
  <2> HIDE DEF T0, T, q, j
  <2> QED BY <1>5, <1>7
<1>9. Lists(todo, U)
  <2>1. Lists(Tail(q.todo), T)
    BY <1>1, <1>2, <1>4, TailLists DEF At, Fitting, Running
  <2>2. Lists(add, A) BY RebuildLists, NoStep
  <2>3. Follows(A, T) BY <1>6 DEF Follows, Fine, RebuildOf, RebuildSteps
  <2> HIDE DEF add, A, T
  <2> QED BY <2>1, <2>2, <2>3, Concatenated
<1>10. /\ todo \in Todos /\ Orderly(todo) /\ Left(todo) = U BY <1>9 DEF Lists
<1>11. /\ n.seen = q.seen /\ n.todo = todo /\ n.on = q.on /\ n.plan = q.plan
       /\ n.old = q.old /\ n.job = j /\ n.read = q.read
  <2> HIDE DEF todo
  <2> QED BY <1>2, <1>10, AfterFields
<1>12. /\ A \in {{}, RebuildSteps} /\ (A # {} => Terms({e}) # {})
       /\ (Terms({e}) # {} => (A = RebuildSteps <=> Rebuilds(j, was, now)))
  BY DEF RebuildOf, RebuildSteps
<1>13. vec \in [Entries -> Versions \cup {"none"}] BY <1>4 DEF ShapeOK
<1>14. now \in Row BY <1>2, <1>5 DEF Rows
<1>15. /\ Exempts /\ vec' \in [Entries -> Versions \cup {"none"}]
       /\ \A x \in Entries \ {e} : vec'[x] = vec[x]
       /\ e \notin desynced' => vec'[e] = Synced(j, was, now)
  <2>1. Synced(j, was, now) \in Versions \cup {"none"}
    BY <1>5, <1>13, <1>14 DEF Synced, Upserted, Recalled, Row
  <2>2. DOMAIN want = {e} /\ \A x \in {e} : want[x] = Synced(j, was, now) BY DEF Only
  <2> HIDE DEF want, todo, q, j, was, now
  <2> QED BY <2>1, <2>2, <1>1, <1>4, <1>5, WritesVectors
<1>16. /\ Mine(q, row, vec, cache, desynced') /\ Fitting(q, desynced')
       /\ \A x : Owns(q.on, desynced', x) => Owns(q.on, desynced, x)
  <2>1. Mine(q, row, vec, cache, desynced') BY <1>4, <1>15, Exempting DEF Exempts
  <2>2. ASSUME NEW x, Owns(q.on, desynced', x) PROVE Owns(q.on, desynced, x)
    BY <2>2, <1>15 DEF Owns, Answers, Exempts
  <2> QED BY <2>1, <2>2 DEF Mine
<1> HIDE DEF n, todo, add, A, want
<1>17. /\ \A d, x : Hits(U, d, x) <=> Hits(T, d, x)
       /\ \A d \in {"commit", "sync", "delete", "upsert"} : ~Has(U, d)
       /\ \A d \in {"clear", "read", "write"} : Has(U, d) <=> A # {}
       /\ \A s \in U : s \in T \/ (s.on = {} /\ s.do \in {"clear", "read", "write"})
  <2>1. \A s \in T : s.do \notin {"commit", "sync", "delete", "upsert", "clear", "read", "write"}
    BY <1>6
  <2>2. \A s \in A : s.on = {} /\ s.do \in {"clear", "read", "write"}
    BY <1>12 DEF RebuildSteps
  <2>3. A # {} => \A d \in {"clear", "read", "write"} : Has(A, d)
    <3>1. \A d \in {"clear", "read", "write"} :
            [do |-> d, on |-> {}] \in RebuildSteps /\ [do |-> d, on |-> {}].do = d
      BY DEF RebuildSteps
    <3> QED BY <3>1, <1>12 DEF Has
  <2> HIDE DEF T
  <2>4. \A s : s \in U <=> s \in A \/ s \in T OBVIOUS
  <2> HIDE DEF U
  <2>5. \A d, x : Hits(U, d, x) <=> Hits(T, d, x) BY <2>2, <2>4 DEF Hits
  <2>6. \A d \in {"commit", "sync", "delete", "upsert"} : ~Has(U, d)
    BY <2>1, <2>2, <2>4 DEF Has
  <2>7. \A d \in {"clear", "read", "write"} : Has(U, d) <=> A # {}
    BY <2>1, <2>3, <2>4 DEF Has
  <2> QED BY <2>2, <2>4, <2>5, <2>6, <2>7
<1>18. Fitting(n, desynced')
  <2>1. StepsFit(U, j, q.plan, q.on)
    <3>1. StepsFit(T, j, q.plan, q.on) BY <1>4, RestFits
    <3> HIDE DEF U, T, q, j
    <3> QED BY <3>1, <1>17 DEF StepsFit
  <2>2. ASSUME NEW x \in q.on \ desynced' PROVE StepsDo(U, j, q.plan, q.old, x)
    <3>1. StepsDo(T0, j, q.plan, q.old, x) BY <1>16 DEF Fitting
    <3>2. StepsDo(T, j, q.plan, q.old, x) BY <3>1, <1>4, RestDoes
    <3> HIDE DEF U, T
    <3> QED BY <3>2, <1>17 DEF StepsDo
  <2>3. StepsRebuild(U, j, q.plan, q.old)
    <3> HIDE DEF U
    <3> QED BY <1>17 DEF StepsRebuild
  <2>4. A # {} => Terms(q.on) # {} BY <1>5, <1>12
  <2> HIDE DEF U, q, j
  <2> QED BY <2>1, <2>2, <2>3, <2>4, <1>10, <1>11, <1>17 DEF Fitting
<1>19. RowsSoFar(n, row, desynced')
  <2>1. RowsSoFar(q, row, desynced') BY <1>16 DEF Mine
  <2> HIDE DEF U, q, j
  <2> QED BY <2>1, <1>7, <1>10, <1>11, <1>17 DEF RowsSoFar, T0
<1>20. VecsSoFar(n, vec', desynced')
  <2> SUFFICES ASSUME e \notin desynced'
               PROVE  VecSoFar(U, j, q.plan, q.old, e, vec'[e])
    BY <1>5, <1>10, <1>11 DEF VecsSoFar
  <2>1. e \in (On(r) \cap q.on) \ desynced BY <1>5, <1>15 DEF Exempts
  <2>2. /\ Owns(q.on, desynced, e) /\ Hits(T0, "sync", e)
        /\ StepsDo(T0, j, q.plan, q.old, e)
        /\ VecSoFar(T0, j, q.plan, q.old, e, vec[e])
    BY <1>3, <2>1, HitBy
  <2>3. now = Final(q.plan, q.old, e) BY <1>8, <2>2
  <2>4. /\ SyncFits(j, was, now) /\ (HqRuns(j, now) => Hits(T0, "hq", e))
        /\ vec[e] = Recalled(was)
    BY <2>2, <2>3 DEF StepsDo, VecSoFar
  <2>5. HqRuns(j, now) => Hits(U, "hq", e)
    <3>1. Hits(T0, "hq", e) => Hits(T, "hq", e) BY <1>4, RestHas
    <3> QED BY <3>1, <2>4, <1>17
  <2>6. now.ver # "none" BY <1>14, NoneAssumption DEF Row, Versions
  <2>7. ~HqRuns(j, now) => vec'[e] = Recalled(now)
    BY <1>15, <2>4, <2>6 DEF SyncFits, Synced, Puts, Upserted, Recalled
  <2>8. \A d \in {"delete", "upsert", "sync"} : ~Hits(U, d, e) BY <1>17 DEF Hits, Has
  <2> HIDE DEF U
  <2> QED BY <2>3, <2>5, <2>7, <2>8 DEF VecSoFar
<1>21. AutoSoFar(n, row, cache, desynced')
  <2> SUFFICES ASSUME Answers(q.on, desynced')
               PROVE  CacheSoFar(U, q.old, row, q.read, cache)
    BY <1>10, <1>11 DEF AutoSoFar
  <2>1. CASE A # {} BY <2>1, <1>17 DEF CacheSoFar
  <2>2. CASE A = {}
    <3>1. Terms({e}) # {} BY <1>5 DEF Answers
    <3>2. ~Rebuilds(j, was, now) BY <3>1, <2>2, <1>12 DEF RebuildSteps
    <3>3. Owns(q.on, desynced', e) BY <3>1, <1>5 DEF Owns, Terms
    <3>4. StepsRebuild(T0, j, q.plan, q.old) BY <1>16 DEF Fitting
    <3>5. Known(Finals(q.plan, q.old)) = Known(q.old)
      BY <3>2, <3>3, <3>4, <1>5, <1>8, <1>16 DEF StepsRebuild
    <3>6. \A x \in Terms(Entries) : row[x] = Finals(q.plan, q.old)[x]
      <4>1. \A x \in Terms(Entries) : x \in Entries /\ Owns(q.on, desynced', x)
        BY DEF Owns, Terms
      <4> HIDE DEF q, T0
      <4> QED BY <4>1, <1>7, <1>16 DEF Finals
    <3>7. Known(row) = Known(q.old) BY <3>5, <3>6, KnownSame
    <3>8. CacheSoFar(T0, q.old, row, q.read, cache) BY <1>16 DEF Mine, AutoSoFar
    <3>9. cache = Known(q.old) BY <3>8, <1>5 DEF CacheSoFar
    <3> HIDE DEF U
    <3> QED BY <3>7, <3>9, <2>2, <1>17 DEF CacheSoFar
  <2> QED BY <2>1, <2>2
<1>22. Mine(n, row', vec', cache', desynced') BY <1>1, <1>18, <1>19, <1>20, <1>21 DEF Mine
<1>23. Keeps(r) BY <1>1, <1>5, <1>15 DEF Keeps
<1>24. DataOK(row', human', vec', cache') BY <1>1, <1>4, <1>15 DEF DataOK, ShapeOK
<1> QED BY <1>1, <1>2, <1>4, <1>10, <1>15, <1>22, <1>23, <1>24, Proceeds DEF n

\* A request that starts with a plan that fits: what it finds is what its plan was
\* made for.
LEMMA Started ==
  ASSUME NEW n, NEW p, NEW j, NEW ds, row \in Rows,
         n.todo = p.todo, n.plan = p, n.job = j, n.old = row, n.seen = row, n.on = Scope(p),
         Fits(j, p, row), Unsynced(j, p, row) \subseteq ds,
         \A e \in Scope(p) \ ds : vec[e] = Recalled(row[e]),
         Answers(Scope(p), ds) => cache = Known(row)
  PROVE  Mine(n, row, vec, cache, ds)
<1> DEFINE T == Left(p.todo)
           S == Scope(p)
<1>1. /\ \A e \in S \ ds : e \notin UnsyncedEntries(j, p, row)
      /\ Automaton \notin ds => ~UnsyncedAutomaton(j, p, row)
  BY DEF Unsynced
<1> HIDE DEF T, S
<1>2. /\ Orderly(p.todo) /\ Has(T, "commit") /\ StepsFit(T, j, p, S)
      /\ \A e \in S \ ds :
           StepsDo(T, j, p, row, e) /\ VecSoFar(T, j, p, row, e, Recalled(row[e]))
      /\ Automaton \notin ds =>
           /\ (Has(T, "clear") \/ Has(T, "read") \/ Has(T, "write")) => Terms(S) # {}
           /\ Has(T, "write") => Has(T, "read")
           /\ StepsRebuild(T, j, p, row)
  BY <1>1 DEF Fits, T, S
<1>3. Fitting(n, ds) BY <1>2 DEF Fitting, Answers, T, S
<1>4. RowsSoFar(n, row, ds) BY <1>2 DEF RowsSoFar, T
<1>5. VecsSoFar(n, vec, ds) BY <1>2 DEF VecsSoFar, T, S
<1>6. AutoSoFar(n, row, cache, ds)
  <2> SUFFICES ASSUME Answers(S, ds) PROVE CacheSoFar(T, row, row, n.read, cache)
    BY DEF AutoSoFar, S, T
  <2>1. cache = Known(row) BY DEF S
  <2> QED BY <1>2, <2>1 DEF CacheSoFar, Answers
<1> QED BY <1>3, <1>4, <1>5, <1>6 DEF Mine

\* The start of a request, or its refusal.
LEMMA LoadKeeps == ASSUME Inv, NEW r \in Requests, NEW j \in Menu, Load(r, j) PROVE Inv'
<1> DEFINE p == PlanOf(j, row, r)
           S == Scope(p)
           n == [pc |-> "busy", job |-> j, old |-> row, plan |-> p, todo |-> p.todo,
                 seen |-> row, read |-> {}, on |-> S]
<1>1. ShapeOK /\ row \in Rows /\ j \in Jobs BY MenuAssumption DEF Inv, ShapeOK
<1>2. UNCHANGED <<row, human, vec, cache>> /\ req[r].pc = "idle" BY DEF Load
<1>3. r \notin Busy BY <1>2 DEF Busy
<1>4. \A o \in Busy : o \in Requests /\ o # r /\ req[o] \in Running
  BY <1>1, <1>3 DEF Busy, ShapeOK, Ended
<1>5. \A o \in Busy : req[o].on \subseteq Entries BY <1>4 DEF Running
<1>6. Good(j, p, row) BY <1>1, Planned
<1>7. CASE p.todo = <<>>
  <2>1. req' = [req EXCEPT ![r] = [pc |-> "refused"]] /\ desynced' = desynced
    BY <1>7 DEF Load, End
  <2>2. Busy' = Busy /\ \A o \in Busy : req'[o] = req[o]
    BY <1>1, <1>3, <1>4, <2>1 DEF Busy, ShapeOK
  <2>3. [pc |-> "refused"] \in Ended BY DEF Ended
  <2>4. ShapeOK' BY <1>1, <1>2, <2>1, <2>3 DEF ShapeOK
  <2> HIDE DEF p, S, n
  <2> QED BY <1>2, <2>1, <2>2, <2>4 DEF Inv, Apart
<1>8. CASE p.todo # <<>>
  <2>1. /\ req' = [req EXCEPT ![r] = n]
        /\ desynced' = desynced \cup Unsynced(j, p, row)
             \cup (UNION {S \cap req[o].on : o \in Busy})
             \cup {a \in {Automaton} : Terms(S) # {} /\ \E o \in Busy : Terms(req[o].on) # {}}
    BY <1>8 DEF Load, Scope
  <2>2. p \in Plans /\ Fits(j, p, row) BY <1>6, <1>8 DEF Good
  <2> HIDE DEF p
  <2>3. S \subseteq Entries
    <3>1. p.must \subseteq Entries /\ p.want \in Wants /\ p.todo \in Todos BY <2>2 DEF Plans
    <3>2. DOMAIN p.want \subseteq Entries BY <3>1 DEF Wants
    <3>3. \A i \in DOMAIN p.todo : p.todo[i] \in [do : Acts, on : SUBSET Entries]
      <4> DEFINE X == [do : Acts, on : SUBSET Entries]
      <4>1. p.todo \in Seq(X) BY <3>1 DEF Todos
      <4> HIDE DEF X
      <4>2. \A i \in DOMAIN p.todo : p.todo[i] \in X BY <4>1, ElementOfSeq, LenProperties
      <4> QED BY <4>2 DEF X
    <3> QED BY <3>1, <3>2, <3>3 DEF Scope
  <2>4. n \in Running
    <3>1. p.todo \in Todos BY <2>2 DEF Plans
    <3> HIDE DEF S
    <3> QED BY <1>1, <2>2, <2>3, <3>1 DEF Running, Caches
  <2>5. /\ n.todo = p.todo /\ n.plan = p /\ n.job = j /\ n.old = row /\ n.seen = row
        /\ n.on = S /\ n.pc = "busy"
    OBVIOUS
  <2> HIDE DEF n, S
  <2>6. Busy' = Busy \cup {r} /\ req'[r] = n /\ \A o \in Busy : req'[o] = req[o]
    BY <1>1, <1>3, <1>4, <2>1, <2>5 DEF Busy, ShapeOK
  <2>7. /\ desynced \subseteq desynced' /\ Unsynced(j, p, row) \subseteq desynced'
        /\ \A o \in Busy : S \cap req[o].on \subseteq desynced'
        /\ \A o \in Busy : Terms(S) # {} /\ Terms(req[o].on) # {} => Automaton \in desynced'
    <3> DEFINE both == UNION {S \cap req[o].on : o \in Busy}
               auto == {a \in {Automaton} : Terms(S) # {} /\ \E o \in Busy : Terms(req[o].on) # {}}
    <3>1. \A o \in Busy : S \cap req[o].on \subseteq both OBVIOUS
    <3>2. \A o \in Busy : Terms(S) # {} /\ Terms(req[o].on) # {} => Automaton \in auto
      OBVIOUS
    <3>3. desynced' = desynced \cup Unsynced(j, p, row) \cup both \cup auto BY <2>1
    <3> HIDE DEF both, auto
    <3> QED BY <3>1, <3>2, <3>3
  <2>8. ASSUME NEW e \in S \ desynced' PROVE vec[e] = Recalled(row[e])
    <3>1. e \in Entries \ desynced /\ \A o \in Busy : e \notin req[o].on
      BY <2>3, <2>7, <2>8
    <3> QED BY <3>1 DEF Inv
  <2>9. ASSUME Answers(S, desynced') PROVE cache = Known(row)
    <3>1. Automaton \notin desynced /\ \A o \in Busy : Terms(req[o].on) = {}
      BY <2>7, <2>9 DEF Answers
    <3> QED BY <3>1 DEF Inv
  <2>10. Mine(n, row, vec, cache, desynced')
    BY <1>1, <2>2, <2>5, <2>7, <2>8, <2>9, Started DEF S
  <2>11. ASSUME NEW o \in Busy PROVE Mine(req[o], row, vec, cache, desynced')
    BY <2>7, Exempting DEF Inv
  <2>12. ASSUME NEW o \in Busy', NEW k \in Busy', o # k PROVE Apart(o, k)'
    <3>1. CASE o = r
      <4>1. k \in Busy BY <3>1, <2>6, <2>12
      <4>2. req'[o].on = S /\ req'[k].on = req[k].on BY <3>1, <4>1, <2>5, <2>6
      <4> QED BY <4>1, <4>2, <2>7 DEF Apart
    <3>2. CASE k = r
      <4>1. o \in Busy BY <3>2, <2>6, <2>12
      <4>2. req'[k].on = S /\ req'[o].on = req[o].on BY <3>2, <4>1, <2>5, <2>6
      <4> QED BY <4>1, <4>2, <2>7 DEF Apart
    <3>3. CASE o # r /\ k # r
      <4>1. o \in Busy /\ k \in Busy BY <3>3, <2>6
      <4>2. Apart(o, k) BY <4>1, <2>12 DEF Inv
      <4> QED BY <4>1, <4>2, <2>6, <2>7 DEF Apart
    <3> QED BY <3>1, <3>2, <3>3
  <2>13. desynced' \subseteq Entries \cup {Automaton}
    <3>1. UnsyncedEntries(j, p, row) \subseteq Entries
      <4>1. CASE j.op \notin {"approve", "patch", "edit"} BY <4>1 DEF UnsyncedEntries
      <4>2. CASE j.op \in {"approve", "patch", "edit"}
        <5>1. j.e \in Entries BY <1>1, <4>2, JobTypes
        <5> QED BY <5>1 DEF UnsyncedEntries
      <4> QED BY <4>1, <4>2
    <3>2. Unsynced(j, p, row) \subseteq Entries \cup {Automaton} BY <3>1 DEF Unsynced
    <3>3. (UNION {S \cap req[o].on : o \in Busy}) \subseteq Entries BY <2>3
    <3>4. desynced \subseteq Entries \cup {Automaton} BY <1>1 DEF ShapeOK
    <3> QED BY <2>1, <3>2, <3>3, <3>4
  <2>14. ShapeOK' BY <1>1, <1>2, <2>1, <2>4, <2>13 DEF ShapeOK
  <2>15. ASSUME NEW o \in Busy' PROVE Mine(req'[o], row', vec', cache', desynced')
    BY <1>2, <2>6, <2>10, <2>11
  <2>16. ASSUME NEW e \in Entries \ desynced', \A o \in Busy' : e \notin req'[o].on
         PROVE  vec'[e] = Recalled(row'[e])
    BY <1>2, <2>6, <2>7, <2>16 DEF Inv
  <2>17. ASSUME Automaton \notin desynced', \A o \in Busy' : Terms(req'[o].on) = {}
         PROVE  cache' = Known(row')
    <3>1. \A o \in Busy : Terms(req[o].on) = {} BY <2>6, <2>17
    <3> QED BY <1>2, <2>7, <2>17, <3>1 DEF Inv
  <2> QED BY <2>12, <2>14, <2>15, <2>16, <2>17 DEF Inv
<1> QED BY <1>7, <1>8

\* A restart: what was under way is exempt, and the automaton is built anew.
LEMMA RestartKeeps == ASSUME Inv, Restart PROVE Inv'
<1>1. ShapeOK /\ row \in Rows /\ UNCHANGED <<row, human, vec>> /\ cache' = Known(row)
      /\ req' = [r \in Requests |-> IF r \in Busy THEN [pc |-> "failed"] ELSE req[r]]
      /\ desynced' = (desynced \cup UNION {req[r].on : r \in Busy}) \ {Automaton}
  BY DEF Inv, ShapeOK, Restart
<1>2. \A r \in Requests : IF r \in Busy THEN req[r] \in Running ELSE req[r] \in Ended
  BY <1>1 DEF ShapeOK, Busy, Running, Ended
<1>3. Busy' = {} BY <1>1 DEF Busy
<1>4. req' \in [Requests -> Running \cup Ended]
  <2>1. [pc |-> "failed"] \in Ended BY DEF Ended
  <2> QED BY <1>1, <1>2, <2>1
<1>5. Known(row) \in Caches BY <1>1 DEF Known, Caches, Rows, Row, Terms
<1>6. \A r \in Busy : req[r].on \subseteq Entries BY <1>2 DEF Running, Busy
<1>7. desynced' \subseteq Entries \cup {Automaton}
  <2>1. (UNION {req[r].on : r \in Busy}) \subseteq Entries BY <1>6
  <2> QED BY <1>1, <2>1 DEF ShapeOK
<1>8. ShapeOK' BY <1>1, <1>4, <1>5, <1>7 DEF ShapeOK
<1>9. ASSUME NEW e \in Entries \ desynced' PROVE vec'[e] = Recalled(row'[e])
  <2>1. e # Automaton BY NoneAssumption
  <2>2. e \notin desynced /\ \A r \in Busy : e \notin req[r].on BY <1>1, <1>9, <2>1
  <2> QED BY <1>1, <2>2 DEF Inv
<1>10. cache' = Known(row') BY <1>1
<1> QED BY <1>3, <1>8, <1>9, <1>10 DEF Inv

\* The invariant holds at the start.
LEMMA Starts == ASSUME Init PROVE Inv
<1>1. row \in Rows /\ human \subseteq Entries BY DEF Init, Rows, Row, Versions
<1>2. Busy = {} BY DEF Init, Busy
<1>3. ShapeOK
  <2>1. \A e \in Entries : Recalled(row[e]) \in Versions \cup {"none"}
    BY <1>1 DEF Recalled, Rows, Row
  <2>2. Known(row) \in Caches BY <1>1 DEF Known, Caches, Rows, Row, Terms
  <2>3. [pc |-> "idle"] \in Ended BY DEF Ended
  <2> QED BY <1>1, <2>1, <2>2, <2>3 DEF Init, ShapeOK
<1> QED BY <1>2, <1>3 DEF Init, Inv

\* ... and after every step.
LEMMA NextKeeps == ASSUME Inv, [Next]_vars PROVE Inv'
<1>1. ASSUME NEW r \in Requests, NEW j \in Menu, Load(r, j) PROVE Inv' BY <1>1, LoadKeeps
<1>2. ASSUME NEW r \in Requests, Commit(r) PROVE Inv' BY <1>2, CommitKeeps
<1>3. ASSUME NEW r \in Requests, Refresh(r) PROVE Inv' BY <1>3, RefreshKeeps
<1>4. ASSUME NEW r \in Requests, Upsert(r) PROVE Inv' BY <1>4, UpsertKeeps
<1>5. ASSUME NEW r \in Requests, Delete(r) PROVE Inv' BY <1>5, DeleteKeeps
<1>6. ASSUME NEW r \in Requests, Sync(r) PROVE Inv' BY <1>6, SyncKeeps
<1>7. ASSUME NEW r \in Requests, Hq(r) PROVE Inv' BY <1>7, HqKeeps
<1>8. ASSUME NEW r \in Requests, Audit(r) PROVE Inv' BY <1>8, AuditKeeps
<1>9. ASSUME NEW r \in Requests, Clear(r) PROVE Inv' BY <1>9, ClearKeeps
<1>10. ASSUME NEW r \in Requests, ReadTerms(r) PROVE Inv' BY <1>10, ReadKeeps
<1>11. ASSUME NEW r \in Requests, WriteCache(r) PROVE Inv' BY <1>11, WriteKeeps
<1>12. CASE Restart BY <1>12, RestartKeeps
<1>13. CASE UNCHANGED vars
  <2>1. Busy' = Busy BY <1>13 DEF vars, Busy
  <2> QED BY <1>13, <2>1 DEF vars, Inv, ShapeOK, Apart
<1> QED
  BY <1>1, <1>2, <1>3, <1>4, <1>5, <1>6, <1>7, <1>8, <1>9, <1>10, <1>11, <1>12, <1>13
  DEF Next

----------------------------------------------------------------------------

\* The invariant, for every reachable state.
THEOREM Invariant == Spec => []Inv
<1> QED BY Starts, NextKeeps, PTL DEF Spec

\* Rows, vectors, the automaton and the requests stay within their types: no merge
\* of a stale row, no failed or interrupted request produces anything else.
THEOREM TypeCorrect == Spec => []TypeOK
<1>1. ASSUME Inv PROVE TypeOK
  BY <1>1 DEF Inv, ShapeOK, TypeOK, Rows, Row, Caches, Running, Ended
<1> QED BY <1>1, Invariant, PTL

\* Whatever reviews, edits, deletions, sweeps and restarts came before, in whatever
\* order their steps interleaved: when no request is under way ChromaDB holds for an
\* entry what its row says, nothing if it is out of the canon - but for the entries
\* the code is known to leave, see Unsynced and Load, and those a write failed for:
\* what fails for one entry leaves the others of its request, and the steps that
\* follow, in order.
THEOREM VectorsAreRight == Spec => []VectorsFollowRows
<1>1. ASSUME Inv PROVE VectorsFollowRows BY <1>1 DEF Inv, VectorsFollowRows
<1> QED BY <1>1, Invariant, PTL

\* Likewise the automaton: with no request under way it knows the canonical terms
\* and their texts as the rows have them, and no other - unless a rebuild failed, or
\* requests for terms overlapped, since the last restart.
THEOREM AutomatonIsRight == Spec => []AutomatonFollowsRows
<1>1. ASSUME Inv PROVE AutomatonFollowsRows BY <1>1 DEF Inv, AutomatonFollowsRows
<1> QED BY <1>1, Invariant, PTL

==============================================================================
