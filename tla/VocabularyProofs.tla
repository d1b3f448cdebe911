-------------------------- MODULE VocabularyProofs --------------------------
(***************************************************************************)
(* Theorems about Vocabulary, for every value of its constants.            *)
(***************************************************************************)
EXTENDS Vocabulary, Integers, FiniteSetTheorems, SequenceTheorems, WellFoundedInduction, TLAPS

\* The instances count as this module does.
LEMMA OneCardinality == ASSUME NEW S PROVE T!Cardinality(S) = Cardinality(S)
BY DEF T!Cardinality, Cardinality

----------------------------------------------------------------------------
(* Terms *)

\* Rows and conflicts, as they come and go.
IsRow(e) ==
  \/ e.st \in {"none", "deleted"}
  \/ e = [st |-> e.st, sup |-> e.sup, src |-> e.src, p |-> e.p, run |-> e.run]
IsConflict(e) ==
  \/ e = [st |-> e.st] /\ e.st # "open"
  \/ e = [st |-> e.st, ex |-> e.ex, p |-> e.p, src |-> e.src, run |-> e.run]

\* A refresh, as far as it has come.
Working == {"purge", "clear", "extract", "write"}
IsRefresh(k) ==
  /\ k = IF k.pc = "clear" THEN [pc |-> k.pc, status |-> k.status, doomed |-> k.doomed]
         ELSE IF k.pc = "write" THEN [pc |-> k.pc, status |-> k.status, todo |-> k.todo]
         ELSE [pc |-> k.pc, status |-> k.status]
  /\ k.status = "running" <=> k.pc \in Working

TermShape ==
  /\ ke = [i \in TermIds |-> ke[i]] /\ \A i \in TermIds : IsRow(ke[i])
  /\ conf = [c \in ConflictIds |-> conf[c]] /\ \A c \in ConflictIds : IsConflict(conf[c])
  /\ job = [j \in Askers \cup Refreshes |-> job[j]]
  /\ task = [t \in Refreshes |-> task[t]] /\ \A t \in Refreshes : IsRefresh(task[t])

\* One refresh is under way at a time, and only it has a session open, to write.
OneRefresh ==
  /\ \A t, u \in Refreshes : task[t].status = "running" /\ task[u].status = "running" => t = u
  /\ \A t \in Refreshes : job[t].pc = "store" => task[t].pc = "write"
  /\ \A t \in Refreshes : job[t].pc # "apply"

\* What refreshes wrote, and what was there before.
Generations == Refreshes \cup {"old"}
OldRows == {i \in T!SchemaTerms : ke[i].run \in Generations}
OpenConflicts == {c \in ConflictIds : conf[c].st = "open" /\ conf[c].src = "schema"}
OldConflicts == {c \in OpenConflicts : conf[c].run \in Generations}
Writers == {ke[i].run : i \in OldRows} \cup {conf[c].run : c \in OldConflicts}

\* There is one generation at most; a refresh has doomed its rows, then nothing is
\* left of it, and then there is only what the refresh has written itself.
OneWriter ==
  /\ \A v, w \in Writers : v = w
  /\ \A t \in Refreshes :
       /\ task[t].pc = "clear" => OldRows \subseteq task[t].doomed
       /\ task[t].pc = "extract" => Writers = {}
       /\ task[t].pc = "write" => Writers \subseteq {t}

GenerationInv == TermShape /\ OneRefresh /\ OneWriter

\* What becomes of a row and of a conflict that nobody writes anew.
KeptRow(e, f) ==
  f.st \in {"none", "deleted"}
  \/ (e.st \notin {"none", "deleted"} /\ f.src = e.src /\ f.run = e.run)
KeptConflict(e, f) == f.st # "open" \/ (e.st = "open" /\ f.src = e.src /\ f.run = e.run)

\* The rows and conflicts after a step that writes on behalf of j.
WrittenBy(j) ==
  /\ ke' = [i \in TermIds |-> ke'[i]]
  /\ \A i \in TermIds : IsRow(ke'[i]) /\ (KeptRow(ke[i], ke'[i]) \/ ke'[i].run = j)
  /\ conf' = [c \in ConflictIds |-> conf'[c]]
  /\ \A c \in ConflictIds :
       IsConflict(conf'[c]) /\ (KeptConflict(conf[c], conf'[c]) \/ conf'[c].run = j)

\* Only j can be new among the writers.
LEMMA WritersAfter ==
  ASSUME NEW j, WrittenBy(j)
  PROVE  /\ Writers' \subseteq Writers \cup {j}
         /\ j \notin Generations => OldRows' \subseteq OldRows /\ Writers' \subseteq Writers
<1>1. \A i \in OldRows' : (i \in OldRows /\ ke'[i].run = ke[i].run)
                          \/ (ke'[i].run = j /\ j \in Generations)
  BY DEF WrittenBy, KeptRow, OldRows, T!SchemaTerms, T!Exists, Generations
<1>2. \A c \in OldConflicts' : (c \in OldConflicts /\ conf'[c].run = conf[c].run)
                               \/ (conf'[c].run = j /\ j \in Generations)
  BY DEF WrittenBy, KeptConflict, OldConflicts, OpenConflicts, Generations
<1>3. ASSUME NEW w \in Writers' PROVE w \in Writers \/ (w = j /\ j \in Generations)
  <2>1. \/ \E i \in OldRows' : w = ke'[i].run
        \/ \E c \in OldConflicts' : w = conf'[c].run
    BY DEF Writers
  <2> QED
    BY <1>1, <1>2, <2>1 DEF Writers
<1> QED
  BY <1>1, <1>3

\* A step that writes nothing.
LEMMA NothingWritten ==
  ASSUME TermShape, UNCHANGED <<ke, conf>>
  PROVE  WrittenBy("nobody") /\ OldRows' = OldRows /\ Writers' = Writers
<1>1. WrittenBy("nobody")
  BY DEF TermShape, WrittenBy, KeptRow, KeptConflict
<1>2. OldRows' = OldRows
  BY DEF OldRows, T!SchemaTerms, T!Exists, Generations
<1>3. OldConflicts' = OldConflicts
  BY DEF OldConflicts, OpenConflicts, Generations
<1> QED
  BY <1>1, <1>2, <1>3 DEF Writers

\* A session ends, a person's or that of the refresh that writes.
LEMMA SessionEnds ==
  ASSUME GenerationInv, NEW j \in Askers \cup Refreshes, j \in Refreshes => task[j].pc = "write",
         WrittenBy(j), UNCHANGED task, NEW q, q.pc \notin {"store", "apply"},
         job' = [job EXCEPT ![j] = q]
  PROVE  GenerationInv'
<1>1. TermShape'
  BY DEF GenerationInv, TermShape, WrittenBy
<1>2. OneRefresh'
  BY DEF GenerationInv, TermShape, OneRefresh
<1>3. OneWriter'
  <2>1. CASE j \in Askers
    <3>1. j \notin Generations
      BY <2>1, WritersDiffer DEF Generations
    <3> QED
      BY <3>1, WritersAfter DEF GenerationInv, OneWriter
  <2>2. CASE j \in Refreshes
    <3>1. Writers' \subseteq {j}
      BY <2>2, WritersAfter DEF GenerationInv, OneWriter
    <3>2. task[j].status = "running"
      BY <2>2 DEF GenerationInv, TermShape, IsRefresh, Working
    <3>3. \A t \in Refreshes : task[t].pc \in Working => t = j
      BY <2>2, <3>2 DEF GenerationInv, TermShape, OneRefresh, IsRefresh
    <3> QED
      BY <2>2, <3>1, <3>3 DEF OneWriter, Working
  <2> QED
    BY <2>1, <2>2
<1> QED
  BY <1>1, <1>2, <1>3 DEF GenerationInv

\* At first there is what was there before.
LEMMA GenerationInitially == T!Init => GenerationInv
<1> SUFFICES ASSUME T!Init PROVE GenerationInv
  OBVIOUS
<1>1. /\ conf = [c \in ConflictIds |-> T!Unborn]
      /\ job = [j \in Askers \cup Refreshes |-> [pc |-> "idle"]]
      /\ task = [t \in Refreshes |-> [pc |-> "none", status |-> "none"]]
  BY DEF T!Init
<1>2. PICK e : /\ ke = [i \in TermIds |-> IF i = 1 THEN e ELSE T!Unborn]
               /\ e = T!Unborn \/ (IsRow(e) /\ e.run = "old")
  <2>1. PICK e \in {T!Entry(st, src, p, "old") : st \in {"proposed", "canonical"},
                      src \in {"schema", "manual"}, p \in Payloads} \cup {T!Unborn} :
               ke = [i \in TermIds |-> IF i = 1 THEN e ELSE T!Unborn]
    BY DEF T!Init
  <2>2. e = T!Unborn \/ (IsRow(e) /\ e.run = "old")
    BY DEF T!Entry, IsRow
  <2> QED
    BY <2>1, <2>2
<1>3. T!Unborn = [st |-> "none"] /\ T!Unborn.st = "none" /\ IsConflict(T!Unborn)
  BY DEF T!Unborn, IsConflict
<1>4. TermShape
  BY <1>1, <1>2, <1>3 DEF TermShape, IsRow, IsRefresh, Working
<1>5. OneRefresh
  BY <1>1 DEF OneRefresh
<1>6. \A w \in Writers : w = "old"
  BY <1>1, <1>2, <1>3 DEF Writers, OldRows, OldConflicts, OpenConflicts, T!SchemaTerms, T!Exists
<1>7. OneWriter
  BY <1>1, <1>6 DEF OneWriter
<1> QED
  BY <1>4, <1>5, <1>7 DEF GenerationInv

\* One writer is at most one in number.
LEMMA GenerationIsEnough == GenerationInv => OneGeneration
<1> SUFFICES ASSUME GenerationInv PROVE OneGeneration
  OBVIOUS
<1> DEFINE S == {ke[i] : i \in T!SchemaTerms} \cup {conf[c] : c \in OpenConflicts}
<1>1. T!Runs(S) = Writers
  <2>1. \A w : w \in T!Runs(S) <=> (\E r \in S : r.run = w) /\ w \in Generations
    BY DEF T!Runs, Generations
  <2>2. \A w : w \in Writers <=> (\E r \in S : r.run = w) /\ w \in Generations
    BY DEF Writers, OldRows, OldConflicts
  <2> QED
    BY <2>1, <2>2
<1>2. \A v, w \in Writers : v = w
  BY DEF GenerationInv, OneWriter
<1>3. Cardinality(Writers) <= 1
  <2> HIDE DEF Writers
  <2>1. CASE Writers = {}
    BY <2>1, FS_EmptySet
  <2>2. CASE Writers # {}
    <3>1. PICK w : Writers = {w}
      BY <1>2, <2>2
    <3>2. Cardinality({w}) = 1
      BY FS_Singleton
    <3> QED
      BY <3>1, <3>2
  <2> QED
    BY <2>1, <2>2
<1>4. OneGeneration <=> T!Cardinality(T!Runs(S)) <= 1
  BY DEF OneGeneration, T!OneGeneration, OpenConflicts
<1> QED
  BY <1>1, <1>3, <1>4, OneCardinality

\* The gate and a resolution write one row and one conflict.
LEMMA GateWrites ==
  ASSUME TermShape, NEW j \in Askers \cup Refreshes
  PROVE  T!Create(j) \/ T!Merge(j) \/ T!Park(j) \/ T!Apply(j) =>
           /\ WrittenBy(j)
           /\ \E q : q.pc \notin {"store", "apply"} /\ job' = [job EXCEPT ![j] = q]
<1>1. ASSUME NEW how \in {"stored", "error", "parked", "invalid", "resolved"}, T!End(j, how)
      PROVE  \E q : q.pc \notin {"store", "apply"} /\ job' = [job EXCEPT ![j] = q]
  <2>1. [pc |-> how].pc \notin {"store", "apply"} /\ job' = [job EXCEPT ![j] = [pc |-> how]]
    BY <1>1 DEF T!End
  <2> QED
    BY <2>1
<1>2. ASSUME UNCHANGED ke PROVE \A i \in TermIds : IsRow(ke'[i]) /\ KeptRow(ke[i], ke'[i])
  BY <1>2 DEF TermShape, KeptRow
<1>3. ASSUME UNCHANGED conf
      PROVE  \A c \in ConflictIds : IsConflict(conf'[c]) /\ KeptConflict(conf[c], conf'[c])
  BY <1>3 DEF TermShape, KeptConflict
<1>4. ASSUME NEW m, NEW e, ke' = [ke EXCEPT ![m] = e], IsRow(e),
             m \in TermIds => KeptRow(ke[m], e) \/ e.run = j
      PROVE  /\ ke' = [i \in TermIds |-> ke'[i]]
             /\ \A i \in TermIds : IsRow(ke'[i]) /\ (KeptRow(ke[i], ke'[i]) \/ ke'[i].run = j)
  BY <1>4 DEF TermShape, KeptRow
<1>5. CASE T!Create(j)
  <2>1. UNCHANGED conf
    BY <1>5 DEF T!Create
  <2>2. (T!End(j, "stored") \/ T!End(j, "error"))
    BY <1>5 DEF T!Create
  <2>3. UNCHANGED ke \/ \E m, src, p : ke' = [ke EXCEPT ![m] = T!Entry("proposed", src, p, j)]
    BY <1>5 DEF T!Create, T!Insert
  <2>4. \A src, p : IsRow(T!Entry("proposed", src, p, j)) /\ T!Entry("proposed", src, p, j).run = j
    BY DEF IsRow, T!Entry
  <2>5. WrittenBy(j)
    BY <1>2, <1>3, <1>4, <2>1, <2>3, <2>4 DEF WrittenBy, TermShape
  <2> QED
    BY <1>1, <2>2, <2>5
<1>6. CASE T!Merge(j)
  <2>1. UNCHANGED conf
    BY <1>6 DEF T!Merge
  <2>2. (T!End(j, "stored") \/ T!End(j, "error"))
    BY <1>6 DEF T!Merge
  <2>3. UNCHANGED ke \/ \E m, p : T!Exists(m) /\ ke' = [ke EXCEPT ![m] = [ke[m] EXCEPT !.p = p]]
    BY <1>6 DEF T!Merge, T!Insert
  <2>4. ASSUME NEW m, NEW p, T!Exists(m), ke' = [ke EXCEPT ![m] = [ke[m] EXCEPT !.p = p]], m \in TermIds
        PROVE  /\ ke' = [i \in TermIds |-> ke'[i]]
               /\ \A i \in TermIds : IsRow(ke'[i]) /\ (KeptRow(ke[i], ke'[i]) \/ ke'[i].run = j)
    <3> DEFINE e == [ke[m] EXCEPT !.p = p]
    <3>1. e = [st |-> ke[m].st, sup |-> ke[m].sup, src |-> ke[m].src, p |-> p, run |-> ke[m].run]
      BY <2>4 DEF TermShape, IsRow, T!Exists
    <3>2. IsRow(e) /\ KeptRow(ke[m], e)
      BY <2>4, <3>1 DEF IsRow, KeptRow, T!Exists
    <3> HIDE DEF e
    <3>3. ke' = [ke EXCEPT ![m] = e]
      BY <2>4 DEF e
    <3> QED
      BY <1>4, <3>2, <3>3
  <2>5. ASSUME NEW m, NEW p, ke' = [ke EXCEPT ![m] = [ke[m] EXCEPT !.p = p]], m \notin TermIds
        PROVE  UNCHANGED ke
    BY <2>5 DEF TermShape
  <2>6. WrittenBy(j)
    BY <1>2, <1>3, <2>1, <2>3, <2>4, <2>5 DEF WrittenBy, TermShape
  <2> QED
    BY <1>1, <2>2, <2>6
<1>7. CASE T!Park(j)
  <2>1. UNCHANGED ke
    BY <1>7 DEF T!Park
  <2>2. (T!End(j, "parked") \/ T!End(j, "error"))
    BY <1>7 DEF T!Park
  <2>3. UNCHANGED conf
        \/ \E m, i, p, src : conf' = [conf EXCEPT ![m] =
                               [st |-> "open", ex |-> i, p |-> p, src |-> src, run |-> j]]
    BY <1>7 DEF T!Park
  <2>4. ASSUME NEW m, NEW i, NEW p, NEW src,
               conf' = [conf EXCEPT ![m] = [st |-> "open", ex |-> i, p |-> p, src |-> src, run |-> j]]
        PROVE  /\ conf' = [c \in ConflictIds |-> conf'[c]]
               /\ \A c \in ConflictIds :
                    IsConflict(conf'[c]) /\ (KeptConflict(conf[c], conf'[c]) \/ conf'[c].run = j)
    BY <2>4 DEF TermShape, IsConflict, KeptConflict
  <2>5. WrittenBy(j)
    BY <1>2, <1>3, <2>1, <2>3, <2>4 DEF WrittenBy, TermShape
  <2> QED
    BY <1>1, <2>2, <2>5
<1>8. CASE T!Apply(j)
  <2> DEFINE q == job[j]
             new == T!Resolved(ke[q.ex], q.seen, q.choice, q.edit, q.p)
             fresh == T!Min(T!Fresh(ke, TermIds))
             row == T!Entry("proposed", conf[q.c].src, q.p, j)
             conflict == [conf[q.c] EXCEPT !.st = "resolved"]
  <2>1. \/ T!End(j, "error") /\ UNCHANGED <<ke, conf>>
        \/ /\ T!Exists(q.ex)
           /\ ke' = IF q.choice # "replace" THEN [ke EXCEPT ![q.ex] = new]
                    ELSE [[ke EXCEPT ![q.ex] = new] EXCEPT ![fresh] = row]
           /\ conf' = [conf EXCEPT ![q.c] = conflict]
           /\ conf[q.c].st # "deleted"
           /\ T!End(j, "resolved")
    BY <1>8 DEF T!Apply
  <2>2. CASE T!End(j, "error") /\ UNCHANGED <<ke, conf>>
    BY <1>1, <1>2, <1>3, <2>2 DEF WrittenBy, TermShape
  <2>3. CASE /\ T!Exists(q.ex)
             /\ ke' = IF q.choice # "replace" THEN [ke EXCEPT ![q.ex] = new]
                      ELSE [[ke EXCEPT ![q.ex] = new] EXCEPT ![fresh] = row]
             /\ conf' = [conf EXCEPT ![q.c] = conflict]
             /\ T!End(j, "resolved")
    <3>1. q.ex \in TermIds => IsRow(new) /\ KeptRow(ke[q.ex], new)
      <4> HIDE DEF q
      <4> QED
        BY <2>3 DEF T!Resolved, IsRow, KeptRow, T!Exists, TermShape
    <3>2. IsRow(row) /\ row.run = j
      BY DEF IsRow, T!Entry
    <3>3. q.c \in ConflictIds => IsConflict(conflict) /\ KeptConflict(conf[q.c], conflict)
      <4> SUFFICES ASSUME q.c \in ConflictIds PROVE IsConflict(conflict) /\ KeptConflict(conf[q.c], conflict)
        OBVIOUS
      <4>1. PICK e : e = conf[q.c]
        OBVIOUS
      <4>2. IsConflict(e)
        BY <4>1 DEF TermShape
      <4>3. PICK f : f = [e EXCEPT !.st = "resolved"]
        OBVIOUS
      <4>4. f.st = "resolved" /\ IsConflict(f)
        <5>1. CASE e = [st |-> e.st]
          <6>1. f = [st |-> "resolved"]
            BY <4>3, <5>1
          <6> QED
            BY <6>1 DEF IsConflict
        <5>2. CASE e = [st |-> e.st, ex |-> e.ex, p |-> e.p, src |-> e.src, run |-> e.run]
          <6>1. f = [st |-> "resolved", ex |-> e.ex, p |-> e.p, src |-> e.src, run |-> e.run]
            BY <4>3, <5>2
          <6> QED
            BY <6>1 DEF IsConflict
        <5> QED
          BY <4>2, <5>1, <5>2 DEF IsConflict
      <4> QED
        BY <4>1, <4>3, <4>4 DEF KeptConflict
    <3> HIDE DEF new, row, conflict, fresh, q
    <3>4. /\ ke' = [i \in TermIds |-> ke'[i]]
          /\ \A i \in TermIds : ke'[i] = ke[i] \/ (i = q.ex /\ ke'[i] = new) \/ ke'[i] = row
      BY <2>3 DEF TermShape
    <3>5. \A i \in TermIds : IsRow(ke'[i]) /\ (KeptRow(ke[i], ke'[i]) \/ ke'[i].run = j)
      BY <3>1, <3>2, <3>4 DEF TermShape, KeptRow
    <3>6. /\ conf' = [c \in ConflictIds |-> conf'[c]]
          /\ \A c \in ConflictIds : conf'[c] = conf[c] \/ (c = q.c /\ conf'[c] = conflict)
      BY <2>3 DEF TermShape
    <3>7. \A c \in ConflictIds : IsConflict(conf'[c]) /\ KeptConflict(conf[c], conf'[c])
      BY <3>3, <3>6 DEF TermShape, KeptConflict
    <3>8. WrittenBy(j)
      BY <3>4, <3>5, <3>6, <3>7 DEF WrittenBy
    <3> QED
      BY <1>1, <2>3, <3>8
  <2> QED
    BY <2>1, <2>2, <2>3
<1> QED
  BY <1>5, <1>6, <1>7, <1>8

\* Sessions are read and opened for people and for the refresh that writes.
LEMMA SessionOpens ==
  ASSUME GenerationInv, NEW j \in Askers \cup Refreshes, j \in Refreshes => task[j].pc = "write",
         UNCHANGED <<ke, conf>>, NEW q, q.pc = "apply" => j \in Askers, job' = [job EXCEPT ![j] = q],
         TermShape', \A k \in Refreshes : task'[k].pc = task[k].pc /\ task'[k].status = task[k].status,
         \A k \in Refreshes : task[k].pc = "clear" => task'[k].doomed = task[k].doomed
  PROVE  GenerationInv'
<1>1. OneRefresh'
  BY WritersDiffer DEF GenerationInv, TermShape, OneRefresh
<1>2. OneWriter'
  <2>1. OldRows' = OldRows /\ Writers' = Writers
    BY NothingWritten DEF GenerationInv
  <2> QED
    BY <2>1 DEF GenerationInv, OneWriter
<1> QED
  BY <1>1, <1>2 DEF GenerationInv

\* A refresh that changes nothing of the tables goes on.
LEMMA RefreshSteps ==
  ASSUME GenerationInv, NEW t \in Refreshes, UNCHANGED <<ke, conf, job>>, NEW k,
         task' = [task EXCEPT ![t] = k], IsRefresh(k),
         k.status = "running" => \A u \in Refreshes : task[u].status = "running" => u = t,
         job[t].pc = "store" => k.pc = "write",
         k.pc = "clear" => OldRows \subseteq k.doomed,
         k.pc = "extract" => Writers = {},
         k.pc = "write" => Writers \subseteq {t}
  PROVE  GenerationInv'
<1>1. TermShape'
  BY DEF GenerationInv, TermShape
<1>2. OneRefresh'
  BY DEF GenerationInv, TermShape, OneRefresh
<1>3. OldRows' = OldRows /\ Writers' = Writers
  BY NothingWritten DEF GenerationInv
<1>4. OneWriter'
  BY <1>3 DEF GenerationInv, TermShape, OneWriter
<1> QED
  BY <1>1, <1>2, <1>4 DEF GenerationInv

\* What the endpoints, the channels and reviews do.
LEMMA GenerationAsked ==
  ASSUME GenerationInv, NEW j \in Askers, T!Request(j)
  PROVE  GenerationInv'
<1>1. ASSUME NEW src, NEW p, T!Find(j, src, p), UNCHANGED task
      PROVE  GenerationInv'
  <2>1. PICK q : (q.pc = "invalid" \/ q.pc = "store") /\ job' = [job EXCEPT ![j] = q]
    <3>1. CASE p.anchor \notin Routable
      <4>1. PICK r : r = [pc |-> "invalid"]
        OBVIOUS
      <4>2. job' = [job EXCEPT ![j] = r] /\ r.pc = "invalid"
        BY <1>1, <3>1, <4>1 DEF T!Find, T!End
      <4> QED
        BY <4>2
    <3>2. CASE p.anchor \in Routable
      <4> DEFINE s == [pc |-> "store", src |-> src, p |-> p, hit |-> T!Holders(p.anchor),
                       seen |-> {ke[i] : i \in T!Holders(p.anchor)}]
      <4>1. PICK r : r = s
        OBVIOUS
      <4>2. job' = [job EXCEPT ![j] = r] /\ r.pc = "store"
        BY <1>1, <3>2, <4>1 DEF T!Find
      <4> QED
        BY <4>2
    <3> QED
      BY <3>1, <3>2
  <2>2. UNCHANGED <<ke, conf>>
    BY <1>1 DEF T!Find
  <2>3. TermShape'
    BY <1>1, <2>1, <2>2 DEF GenerationInv, TermShape
  <2>4. j \notin Refreshes
    BY WritersDiffer
  <2> QED
    BY <1>1, <2>1, <2>2, <2>3, <2>4, SessionOpens
<1>2. ASSUME NEW c, NEW choice, NEW edit, T!Resolve(j, c, choice, edit)
      PROVE  GenerationInv'
  <2> DEFINE s == [pc |-> "apply", c |-> c, choice |-> choice, edit |-> edit,
                   p |-> conf[c].p, ex |-> conf[c].ex, seen |-> ke[conf[c].ex]]
  <2>1. PICK q : job' = [job EXCEPT ![j] = q]
    <3>1. job' = [job EXCEPT ![j] = [pc |-> "invalid"]] \/ job' = [job EXCEPT ![j] = s]
      BY <1>2 DEF T!Resolve, T!End
    <3> QED
      BY <3>1
  <2>2. UNCHANGED <<ke, conf, task>>
    BY <1>2 DEF T!Resolve
  <2>3. TermShape'
    BY <2>1, <2>2 DEF GenerationInv, TermShape
  <2>4. j \notin Refreshes
    BY WritersDiffer
  <2> QED
    BY <2>1, <2>2, <2>3, <2>4, SessionOpens
<1>3. ASSUME T!Apply(j) PROVE GenerationInv'
  <2>1. WrittenBy(j) /\ \E q : q.pc \notin {"store", "apply"} /\ job' = [job EXCEPT ![j] = q]
    BY <1>3, GateWrites DEF GenerationInv
  <2>2. UNCHANGED task /\ j \notin Refreshes
    BY <1>3, WritersDiffer DEF T!Apply
  <2> QED
    BY <2>1, <2>2, SessionEnds
<1> QED
  BY <1>1, <1>2, <1>3 DEF T!Request

\* The gate, for people and for the refresh that writes.
LEMMA GenerationGate ==
  ASSUME GenerationInv, NEW j \in Askers \cup Refreshes, T!Gate(j)
  PROVE  GenerationInv'
<1>1. WrittenBy(j) /\ \E q : q.pc \notin {"store", "apply"} /\ job' = [job EXCEPT ![j] = q]
  BY GateWrites DEF GenerationInv, T!Gate
<1>2. UNCHANGED task /\ job[j].pc = "store"
  BY DEF T!Gate, T!Create, T!Merge, T!Park, T!At
<1>3. j \in Refreshes => task[j].pc = "write"
  BY <1>2 DEF GenerationInv, OneRefresh
<1> QED
  BY <1>1, <1>2, <1>3, SessionEnds

\* A review changes what became of a row, not who wrote it.
LEMMA GenerationReviewed ==
  ASSUME GenerationInv, NEW i \in TermIds, T!Review(i)
  PROVE  GenerationInv'
<1> PICK nobody : nobody \notin Generations
  BY NoSetContainsEverything
<1>1. WrittenBy(nobody)
  <2>1. ASSUME NEW st, ke' = [ke EXCEPT ![i].st = st], UNCHANGED conf
        PROVE  WrittenBy(nobody)
    <3>1. PICK e : e = ke[i]
      OBVIOUS
    <3>2. e = [st |-> e.st, sup |-> e.sup, src |-> e.src, p |-> e.p, run |-> e.run]
          /\ e.st \notin {"none", "deleted"}
      BY <3>1 DEF GenerationInv, TermShape, IsRow, T!Review, T!Exists
    <3>3. PICK f : f = [e EXCEPT !.st = st]
      OBVIOUS
    <3>4. f = [st |-> st, sup |-> e.sup, src |-> e.src, p |-> e.p, run |-> e.run]
      BY <3>2, <3>3
    <3>5. IsRow(f) /\ KeptRow(e, f)
      BY <3>2, <3>4 DEF IsRow, KeptRow
    <3>6. ke' = [ke EXCEPT ![i] = f]
      BY <2>1, <3>1, <3>3
    <3>7. \A k \in TermIds : IsRow(ke'[k]) /\ KeptRow(ke[k], ke'[k])
      BY <3>1, <3>5, <3>6 DEF GenerationInv, TermShape, KeptRow
    <3>8. \A c \in ConflictIds : IsConflict(conf'[c]) /\ KeptConflict(conf[c], conf'[c])
      BY <2>1 DEF GenerationInv, TermShape, KeptConflict
    <3> QED
      BY <2>1, <3>6, <3>7, <3>8 DEF WrittenBy, GenerationInv, TermShape
  <2>2. CASE /\ ke' = [ke EXCEPT ![i] = T!Gone]
             /\ conf' = [c \in ConflictIds |-> IF T!Of(c, {i}) THEN T!Gone ELSE conf[c]]
    <3>1. T!Gone.st = "deleted" /\ IsConflict(T!Gone) /\ IsRow(T!Gone)
      BY DEF T!Gone, IsConflict, IsRow
    <3>2. ke' = [k \in TermIds |-> ke'[k]] /\ conf' = [c \in ConflictIds |-> conf'[c]]
      BY <2>2 DEF GenerationInv, TermShape
    <3>3. \A k \in TermIds : IsRow(ke'[k]) /\ KeptRow(ke[k], ke'[k])
      BY <2>2, <3>1 DEF GenerationInv, TermShape, KeptRow
    <3>4. \A c \in ConflictIds : IsConflict(conf'[c]) /\ KeptConflict(conf[c], conf'[c])
      BY <2>2, <3>1 DEF GenerationInv, TermShape, KeptConflict
    <3> QED
      BY <3>2, <3>3, <3>4 DEF WrittenBy
  <2> QED
    BY <2>1, <2>2 DEF T!Review
<1>2. UNCHANGED <<job, task>>
  BY DEF T!Review
<1>3. OldRows' \subseteq OldRows /\ Writers' \subseteq Writers
  BY <1>1, WritersAfter
<1>4. TermShape' /\ OneRefresh'
  BY <1>1, <1>2 DEF GenerationInv, TermShape, OneRefresh, WrittenBy
<1>5. OneWriter'
  BY <1>2, <1>3 DEF GenerationInv, OneWriter
<1> QED
  BY <1>4, <1>5 DEF GenerationInv

\* A refresh: it begins alone, dooms what there is, clears it, and writes.
LEMMA GenerationRefreshed ==
  ASSUME GenerationInv, NEW t \in Refreshes, T!Refresh(t)
  PROVE  GenerationInv'
<1>1. \A k : k.pc \notin Working /\ k.status # "running"
             /\ k = [pc |-> k.pc, status |-> k.status] /\ UNCHANGED <<ke, conf, job>>
             /\ job[t].pc # "store" /\ task' = [task EXCEPT ![t] = k]
             => GenerationInv'
  <2> SUFFICES ASSUME NEW k, k.pc \notin Working, k.status # "running",
                      k = [pc |-> k.pc, status |-> k.status], UNCHANGED <<ke, conf, job>>,
                      job[t].pc # "store", task' = [task EXCEPT ![t] = k]
               PROVE  GenerationInv'
    OBVIOUS
  <2>1. IsRefresh(k) /\ k.pc \notin {"clear", "extract", "write"}
    BY DEF IsRefresh, Working
  <2> QED
    BY <2>1, RefreshSteps
<1>2. ASSUME NEW status, status # "running", T!Finish(t, status), UNCHANGED <<ke, conf, job>>,
             job[t].pc # "store"
      PROVE  GenerationInv'
  <2>1. PICK k : k = [pc |-> "ended", status |-> status]
    OBVIOUS
  <2>2. k.pc \notin Working /\ k.status # "running" /\ k = [pc |-> k.pc, status |-> k.status]
    BY <1>2, <2>1 DEF Working
  <2>3. task' = [task EXCEPT ![t] = k]
    BY <1>2, <2>1 DEF T!Finish
  <2> QED
    BY <1>1, <1>2, <2>2, <2>3
<1>3. task[t].pc # "write" => job[t].pc # "store"
  BY DEF GenerationInv, OneRefresh
<1>4. CASE T!Ask(t)
  <2>1. PICK k : k = [task[t] EXCEPT !.pc = "asked"]
    OBVIOUS
  <2>2. task[t] = [pc |-> "none", status |-> task[t].status] /\ task[t].status # "running"
    BY <1>4 DEF T!Ask, GenerationInv, TermShape, IsRefresh, Working
  <2>3. k = [pc |-> "asked", status |-> task[t].status]
    BY <2>1, <2>2
  <2>4. k.pc \notin Working /\ k.status # "running" /\ k = [pc |-> k.pc, status |-> k.status]
    BY <2>2, <2>3 DEF Working
  <2>5. task' = [task EXCEPT ![t] = k]
    BY <1>4, <2>1 DEF T!Ask, T!Goto
  <2> QED
    BY <1>1, <1>3, <1>4, <2>4, <2>5 DEF T!Ask
<1>5. CASE T!Begin(t)
  <2>1. CASE \E u \in Refreshes : task[u].status = "running"
    <3>1. T!Finish(t, "refused")
      BY <1>5, <2>1 DEF T!Begin
    <3> QED
      BY <1>2, <1>3, <1>5, <3>1 DEF T!Begin
  <2>2. CASE ~\E u \in Refreshes : task[u].status = "running"
    <3>1. PICK k : k = [pc |-> "purge", status |-> "running"]
      OBVIOUS
    <3>2. IsRefresh(k) /\ k.pc = "purge"
      BY <3>1 DEF IsRefresh, Working
    <3>3. task' = [task EXCEPT ![t] = k]
      BY <1>5, <2>2, <3>1 DEF T!Begin
    <3> QED
      BY <1>3, <1>5, <2>2, <3>2, <3>3, RefreshSteps DEF T!Begin
  <2> QED
    BY <2>1, <2>2
<1>6. task[t].status = "running" =>
        \A u \in Refreshes : task[u].status = "running" => u = t
  BY DEF GenerationInv, OneRefresh
<1>7. task[t].pc \in Working => task[t].status = "running"
  BY DEF GenerationInv, TermShape, IsRefresh
<1>8. CASE T!Purge(t)
  <2>1. PICK k : k = [pc |-> "clear", status |-> "running", doomed |-> T!SchemaTerms]
    OBVIOUS
  <2>2. IsRefresh(k) /\ k.pc = "clear" /\ OldRows \subseteq k.doomed
    BY <2>1 DEF IsRefresh, Working, OldRows
  <2>3. task' = [task EXCEPT ![t] = k] /\ task[t].pc = "purge" /\ UNCHANGED <<ke, conf, job>>
    BY <1>8, <2>1 DEF T!Purge
  <2> QED
    BY <1>3, <1>6, <1>7, <2>2, <2>3, RefreshSteps DEF Working
<1>9. CASE T!Clear(t)
  <2>1. PICK k : k = [pc |-> "extract", status |-> "running"]
    OBVIOUS
  <2>2. task' = [task EXCEPT ![t] = k] /\ task[t].pc = "clear" /\ UNCHANGED job
    BY <1>9, <2>1 DEF T!Clear
  <2>3. T!Gone.st = "deleted" /\ IsConflict(T!Gone) /\ IsRow(T!Gone)
    BY DEF T!Gone, IsConflict, IsRow
  <2>4. /\ ke' = [i \in TermIds |-> IF i \in task[t].doomed THEN T!Gone ELSE ke[i]]
        /\ conf' = [c \in ConflictIds |->
                      IF T!Of(c, task[t].doomed) \/ (conf[c].st = "open" /\ conf[c].src = "schema")
                        THEN T!Gone ELSE conf[c]]
    BY <1>9 DEF T!Clear
  <2>5. TermShape'
    BY <2>1, <2>2, <2>3, <2>4 DEF GenerationInv, TermShape, IsRefresh, Working
  <2>6. OldRows \subseteq task[t].doomed
    BY <2>2 DEF GenerationInv, OneWriter
  <2>7. Writers' = {}
    <3>1. OldRows' = {}
      BY <2>3, <2>4, <2>6 DEF OldRows, T!SchemaTerms, T!Exists, Generations
    <3>2. OldConflicts' = {}
      BY <2>3, <2>4 DEF OldConflicts, OpenConflicts, Generations
    <3> QED
      BY <3>1, <3>2 DEF Writers
  <2>8. OneRefresh'
    BY <1>3, <1>7, <2>1, <2>2 DEF GenerationInv, TermShape, OneRefresh, Working
  <2>9. OneWriter'
    <3>1. \A u \in Refreshes : task'[u].pc \notin {"clear", "write"} \/ u # t
      BY <2>1, <2>2 DEF GenerationInv, TermShape
    <3>2. \A u \in Refreshes : u # t => task'[u] = task[u] /\ task[u].pc \notin Working
      BY <1>6, <1>7, <2>2 DEF GenerationInv, TermShape, IsRefresh, Working
    <3> QED
      BY <2>7, <3>1, <3>2 DEF OneWriter, Working
  <2> QED
    BY <2>5, <2>8, <2>9 DEF GenerationInv
<1>10. ASSUME NEW raws, NEW model, NEW made, T!Extract(t, raws, model, made)
       PROVE  GenerationInv'
  <2>1. \/ T!Finish(t, "completed") \/ T!Finish(t, "failed")
        \/ \E todo : task' = [task EXCEPT ![t] = [pc |-> "write", status |-> "running", todo |-> todo]]
    BY <1>10 DEF T!Extract
  <2>2. task[t].pc = "extract" /\ UNCHANGED <<ke, conf, job>>
    BY <1>10 DEF T!Extract
  <2>3. ASSUME NEW todo,
               task' = [task EXCEPT ![t] = [pc |-> "write", status |-> "running", todo |-> todo]]
        PROVE  GenerationInv'
    <3>1. PICK k : k = [pc |-> "write", status |-> "running", todo |-> todo]
      OBVIOUS
    <3>2. IsRefresh(k) /\ k.pc = "write"
      BY <3>1 DEF IsRefresh, Working
    <3>3. task' = [task EXCEPT ![t] = k]
      BY <2>3, <3>1
    <3>4. Writers = {}
      BY <2>2 DEF GenerationInv, OneWriter
    <3> QED
      BY <1>6, <1>7, <2>2, <3>2, <3>3, <3>4, RefreshSteps DEF Working
  <2> QED
    BY <1>2, <1>3, <2>1, <2>2, <2>3
<1>11. CASE T!WriteTerm(t)
  <2>1. PICK p \in task[t].todo :
          T!Find(t, "schema", p) /\ task' = [task EXCEPT ![t].todo = @ \ {p}]
    BY <1>11 DEF T!WriteTerm
  <2>2. task[t].pc = "write" /\ UNCHANGED <<ke, conf>>
    BY <1>11, <2>1 DEF T!WriteTerm, T!Find
  <2>3. PICK q : q.pc # "apply" /\ job' = [job EXCEPT ![t] = q]
    <3>1. CASE p.anchor \notin Routable
      <4>1. PICK r : r = [pc |-> "invalid"]
        OBVIOUS
      <4>2. job' = [job EXCEPT ![t] = r] /\ r.pc # "apply"
        BY <2>1, <3>1, <4>1 DEF T!Find, T!End
      <4> QED
        BY <4>2
    <3>2. CASE p.anchor \in Routable
      <4>1. PICK r : r = [pc |-> "store", src |-> "schema", p |-> p, hit |-> T!Holders(p.anchor),
                          seen |-> {ke[i] : i \in T!Holders(p.anchor)}]
        OBVIOUS
      <4>2. job' = [job EXCEPT ![t] = r] /\ r.pc # "apply"
        BY <2>1, <3>2, <4>1 DEF T!Find
      <4> QED
        BY <4>2
    <3> QED
      BY <3>1, <3>2
  <2>4. PICK k : k = task[t]
    OBVIOUS
  <2>5. k = [pc |-> "write", status |-> k.status, todo |-> k.todo] /\ k.status = "running"
    BY <2>2, <2>4 DEF GenerationInv, TermShape, IsRefresh, Working
  <2>6. PICK g : g = [pc |-> "write", status |-> "running", todo |-> k.todo \ {p}]
    OBVIOUS
  <2>7. task' = [task EXCEPT ![t] = g]
    <3>1. [k EXCEPT !.todo = k.todo \ {p}] = g
      BY <2>5, <2>6
    <3>2. task' = [task EXCEPT ![t] = [k EXCEPT !.todo = k.todo \ {p}]]
      BY <2>1, <2>4
    <3> QED
      BY <3>1, <3>2
  <2>8. IsRefresh(g) /\ g.pc = "write" /\ g.status = "running"
    BY <2>6 DEF IsRefresh, Working
  <2>9. TermShape'
    BY <2>2, <2>3, <2>7, <2>8 DEF GenerationInv, TermShape
  <2>10. /\ \A u \in Refreshes : task'[u].pc = task[u].pc /\ task'[u].status = task[u].status
         /\ \A u \in Refreshes : task[u].pc = "clear" => task'[u].doomed = task[u].doomed
    BY <2>2, <2>4, <2>5, <2>7, <2>8 DEF GenerationInv, TermShape
  <2> QED
    BY <2>2, <2>3, <2>9, <2>10, SessionOpens
<1>12. CASE T!Written(t)
  <2>1. PICK q : q = [pc |-> "idle"]
    OBVIOUS
  <2>2. q.pc \notin {"store", "apply"} /\ job' = [job EXCEPT ![t] = q]
    BY <1>12, <2>1 DEF T!Written, T!End
  <2>3. task[t].pc = "write" /\ UNCHANGED <<ke, conf, task>>
    BY <1>12 DEF T!Written
  <2>4. WrittenBy(t)
    BY <2>3 DEF GenerationInv, TermShape, WrittenBy, KeptRow, KeptConflict
  <2> QED
    BY <2>2, <2>3, <2>4, SessionEnds
<1>13. CASE T!Complete(t)
  BY <1>2, <1>13 DEF T!Complete, T!At
<1>14. CASE T!RefreshFails(t)
  BY <1>2, <1>3, <1>14 DEF T!RefreshFails
<1> QED
  BY <1>4, <1>5, <1>8, <1>9, <1>10, <1>11, <1>12, <1>13, <1>14 DEF T!Refresh

\* A restart ends the refresh that is under way, whatever it has written.
LEMMA GenerationRestarted ==
  ASSUME GenerationInv, T!Restart
  PROVE  GenerationInv'
<1>1. \A t \in Refreshes : task'[t].pc \notin Working /\ task'[t].status # "running"
                           /\ task'[t] = [pc |-> task'[t].pc, status |-> task'[t].status]
  <2> TAKE t \in Refreshes
  <2>1. CASE task[t].status = "running"
    BY <2>1 DEF T!Restart, Working
  <2>2. CASE task[t].status # "running"
    BY <2>2 DEF T!Restart, Working, GenerationInv, TermShape, IsRefresh
  <2> QED
    BY <2>1, <2>2
<1>2. \A t \in Refreshes : IsRefresh(task'[t])
  BY <1>1 DEF IsRefresh, Working
<1>3. /\ task' = [t \in Refreshes |-> task'[t]]
      /\ job' = [j \in Askers \cup Refreshes |-> job'[j]]
      /\ UNCHANGED <<ke, conf>>
  BY DEF T!Restart
<1>4. TermShape'
  BY <1>2, <1>3 DEF GenerationInv, TermShape
<1>5. \A j \in Askers \cup Refreshes : job'[j].pc \notin {"store", "apply"}
  BY DEF T!Restart
<1>6. OneRefresh'
  BY <1>1, <1>5 DEF OneRefresh
<1>7. Writers' = Writers
  BY <1>3, NothingWritten DEF GenerationInv
<1>8. OneWriter'
  BY <1>1, <1>7 DEF GenerationInv, OneWriter, Working
<1> QED
  BY <1>4, <1>6, <1>8 DEF GenerationInv

\* OneGeneration, whatever the terms, the people, the refreshes and the restarts:
\* what refreshes left, as an entry or as an open conflict, is of one refresh
\* (terminology_refresh.py, terminology_refresher.py).
THEOREM OneGenerationAlways == Vocabulary => []OneGeneration
<1>1. T!Init => GenerationInv
  BY GenerationInitially
<1>2. GenerationInv /\ [TermsNext \/ EnumsNext]_<<termVars, enumVars>> => GenerationInv'
  <2> SUFFICES ASSUME GenerationInv, [TermsNext \/ EnumsNext]_<<termVars, enumVars>>
               PROVE  GenerationInv'
    OBVIOUS
  <2>1. CASE T!Next
    BY <2>1, GenerationAsked, GenerationGate, GenerationReviewed, GenerationRefreshed,
       GenerationRestarted DEF T!Next
  <2>2. CASE UNCHANGED termVars
    <3>1. UNCHANGED <<ke, conf, job, task>>
      BY <2>2 DEF termVars
    <3>2. TermShape' /\ OneRefresh'
      BY <3>1 DEF GenerationInv, TermShape, OneRefresh
    <3>3. OneWriter'
      BY <3>1, NothingWritten DEF GenerationInv, OneWriter
    <3> QED
      BY <3>2, <3>3 DEF GenerationInv
  <2> QED
    BY <2>1, <2>2 DEF TermsNext, EnumsNext, termVars, enumVars
<1>3. GenerationInv => OneGeneration
  BY GenerationIsEnough
<1> QED
  BY <1>1, <1>2, <1>3, PTL DEF Vocabulary

----------------------------------------------------------------------------
(* Dictionaries *)

Kinds == {"create", "update", "delete"}
Events == [e : Enums, event : Kinds]
IsDict(d) ==
  d = [st |-> d.st, ver |-> d.ver, manual |-> d.manual] /\ d.st \in {"none", "live", "deleted"}
IsFields(s) == s = [f \in Fields |-> s[f]]
IsChange(q) ==
  /\ q.pc = "enqueue" => q.e \in Enums /\ q.event \in Kinds
  /\ q.pc = "bind" => q.e \in Enums /\ q.dict.st = "live" /\ IsFields(q.seen)
  /\ q.pc = "unbind" => IsFields(q.seen)

EnumShape ==
  /\ dict = [e \in Enums |-> dict[e]]
  /\ \A e \in Enums : IsDict(dict[e])
  /\ IsFields(field)
  /\ queue \in Seq(Events)
  /\ reqs = [r \in Changers |-> reqs[r]] /\ \A r \in Changers : IsChange(reqs[r])
  /\ \/ work = D!Idle
     \/ work.pc \in {"read", "write", "drop"} /\ work.left \in 1..Len(queue)
  /\ work.pc = "write" => IsFields(work.seen)

\* Only what is gone for good has its deletion announced.
DeletedForGood ==
  /\ \A k \in 1..Len(queue) : queue[k].event = "delete" => dict[queue[k].e].st = "deleted"
  /\ \A r \in Changers :
       reqs[r].pc = "enqueue" /\ reqs[r].event = "delete" => dict[reqs[r].e].st = "deleted"

\* The event that brings the fields of a dictionary up to date, and that it is
\* still to be read.
Cure(e) == IF dict[e].st = "deleted" THEN "delete" ELSE "update"
Asked(e) == \E r \in Changers : reqs[r].pc = "enqueue" /\ reqs[r].e = e /\ reqs[r].event = Cure(e)
Queued(e) ==
  \E k \in 1..Len(queue) :
    queue[k].e = e /\ queue[k].event = Cure(e) /\ (k > 1 \/ work.pc \in {"idle", "read"})
Coming(e) == Asked(e) \/ Queued(e)

\* The worker has read what it takes to bring f up to date.
InHand(f) ==
  /\ work.pc = "write"
  /\ queue[1].e = field[f].ref /\ queue[1].event = Cure(field[f].ref)
  /\ work.seen[f] = field[f]

Current(e, ver) == dict[e].st = "live" /\ ver = dict[e].ver

\* What the worker is about to write, and what fields have, is current, or the
\* change that it misses is still to come.
WorkIsCured ==
  work.pc = "write" /\ queue[1].event # "delete" /\ queue[1].e \notin missed =>
    /\ dict[queue[1].e].st # "none"
    /\ Current(queue[1].e, work.ver) \/ Coming(queue[1].e)
FieldsAreCured ==
  \A f \in Fields \ missed :
    field[f].ref # NoEnum /\ field[f].ref \notin missed =>
      /\ field[f].ref \in Enums /\ dict[field[f].ref].st # "none"
      /\ Current(field[f].ref, field[f].ver) \/ Coming(field[f].ref) \/ InHand(f)

CopiesInv == EnumShape /\ DeletedForGood /\ WorkIsCured /\ FieldsAreCured

\* A field that is bound, and one that is not.
LEMMA FieldValues ==
  /\ \A f : D!Unbound(f).ref = NoEnum
  /\ \A e, ver, st : D!Bound(e, ver, st).ref = e /\ D!Bound(e, ver, st).ver = ver
BY DEF D!Unbound, D!Bound

\* Nobody asks for anything before a request is under way.
LEMMA IdleAsksNothing == D!Idle.pc = "idle" /\ IsChange(D!Idle)
BY DEF D!Idle, IsChange

\* Events are of dictionaries, and who works has one in hand.
LEMMA EventsOfDictionaries ==
  ASSUME EnumShape
  PROVE  /\ \A k \in 1..Len(queue) : queue[k] \in Events /\ queue[k].e \in Enums
         /\ Len(queue) \in Nat
         /\ work # D!Idle => 1 \in 1..Len(queue)
<1>1. queue \in Seq(Events) /\ Len(queue) \in Nat
  BY DEF EnumShape
<1>2. \A k \in 1..Len(queue) : queue[k] \in Events
  BY <1>1, ElementOfSeq
<1>3. \A t \in Events : t.e \in Enums
  BY DEF Events
<1>4. work # D!Idle => 1 \in 1..Len(queue)
  BY <1>1 DEF EnumShape
<1> QED
  BY <1>1, <1>2, <1>3, <1>4

\* At first nothing is bound but to dictionaries as they are.
LEMMA CopiesInitially == D!Init => CopiesInv
<1> SUFFICES ASSUME D!Init PROVE CopiesInv
  OBVIOUS
<1>1. /\ queue = <<>> /\ work = D!Idle /\ missed = {} /\ reqs = [r \in Changers |-> D!Idle]
      /\ dict \in [Enums -> {[st |-> "none", ver |-> 0, manual |-> FALSE],
                             [st |-> "live", ver |-> 1, manual |-> TRUE]}]
  BY DEF D!Init
<1>2. EnumShape
  <2>1. \A e \in Enums : IsDict(dict[e])
    BY <1>1 DEF IsDict
  <2>2. IsFields(field)
    BY DEF D!Init, IsFields
  <2> QED
    BY <1>1, <2>1, <2>2, IdleAsksNothing DEF EnumShape
<1>3. DeletedForGood /\ WorkIsCured
  BY <1>1, IdleAsksNothing DEF DeletedForGood, WorkIsCured
<1>4. ASSUME NEW f \in Fields, field[f].ref # NoEnum
      PROVE  field[f].ref \in Enums /\ Current(field[f].ref, field[f].ver)
  <2> DEFINE S == {e \in Enums : D!Live(e) /\ <<f, e>> \in Matching}
  <2>1. field[f] = IF S = {} THEN D!Unbound(f) ELSE D!Bound(CHOOSE e \in S : TRUE, 1, "matched")
    BY DEF D!Init
  <2>2. S # {}
    BY <1>4, <2>1, FieldValues
  <2>3. PICK e : e = CHOOSE x \in S : TRUE
    OBVIOUS
  <2>4. e \in S
    BY <2>2, <2>3
  <2>5. field[f].ref = e /\ field[f].ver = 1
    BY <2>1, <2>2, <2>3, FieldValues
  <2>6. dict[e].st = "live" => dict[e].ver = 1
    BY <1>1, <2>4
  <2> QED
    BY <2>4, <2>5, <2>6 DEF D!Live, Current
<1>5. FieldsAreCured
  BY <1>4 DEF FieldsAreCured, Current
<1> QED
  BY <1>2, <1>3, <1>5 DEF CopiesInv

\* What is still to come, when the queue stays as it is.
LEMMA ComingStays ==
  ASSUME UNCHANGED <<queue, work>>, NEW e, Coming(e), Cure(e)' = Cure(e),
         \A r \in Changers : reqs[r].pc = "enqueue" /\ reqs[r].e = e => reqs'[r] = reqs[r]
  PROVE  Coming(e)'
BY DEF Coming, Asked, Queued

\* A step that changes one request, and that request announces nothing.
LEMMA RequestSteps ==
  ASSUME CopiesInv, NEW r \in Changers, reqs[r].pc # "enqueue", NEW q, q.pc # "enqueue", IsChange(q),
         reqs' = [reqs EXCEPT ![r] = q], UNCHANGED <<dict, queue, work>>,
         IsFields(field'), missed \subseteq missed',
         \A f \in Fields \ missed' :
           \/ field'[f] = field[f]
           \/ field'[f].ref = NoEnum
           \/ field'[f].ref \in Enums /\ Current(field'[f].ref, field'[f].ver)
  PROVE  CopiesInv'
<1>1. EnumShape'
  BY DEF CopiesInv, EnumShape
<1>2. DeletedForGood'
  BY DEF CopiesInv, EnumShape, DeletedForGood
<1>3. ASSUME NEW e, Coming(e) PROVE Coming(e)'
  BY <1>3, ComingStays DEF CopiesInv, EnumShape, Cure
<1>4. WorkIsCured'
  BY <1>3 DEF CopiesInv, WorkIsCured, Current
<1>5. FieldsAreCured'
  BY <1>3 DEF CopiesInv, FieldsAreCured, Current, InHand, Cure
<1> QED
  BY <1>1, <1>2, <1>4, <1>5 DEF CopiesInv

\* Fields are bound and unbound from what was read.
LEMMA CopiesBound ==
  ASSUME CopiesInv, NEW r \in Changers
  PROVE  /\ \A f, e, how : e \in Enums /\ D!ReadToBind(r, f, e, how) => CopiesInv'
         /\ \A f : D!ReadToUnbind(r, f) => CopiesInv'
         /\ D!Bind(r) => CopiesInv'
         /\ D!Unbind(r) => CopiesInv'
<1>1. [pc |-> "done"].pc = "done" /\ IsChange([pc |-> "done"])
  BY DEF IsChange
<1>2. ASSUME NEW f, NEW e \in Enums, NEW how, D!ReadToBind(r, f, e, how) PROVE CopiesInv'
  <2>1. PICK q : IsChange(q) /\ q.pc # "enqueue" /\ reqs' = [reqs EXCEPT ![r] = q]
    <3>1. CASE how = "plain" /\ <<f, dict[e].ver>> \in Uncovered
      BY <1>1, <1>2, <3>1 DEF D!ReadToBind, D!Done, D!Becomes
    <3>2. CASE ~(how = "plain" /\ <<f, dict[e].ver>> \in Uncovered)
      <4>1. PICK q : q = [pc |-> "bind", f |-> f, e |-> e, seen |-> field, dict |-> dict[e],
                          st |-> IF how = "forced" /\ <<f, dict[e].ver>> \in Uncovered
                                   THEN "conflict" ELSE "matched"]
        OBVIOUS
      <4>2. reqs' = [reqs EXCEPT ![r] = q]
        BY <1>2, <3>2, <4>1 DEF D!ReadToBind, D!Becomes
      <4>3. IsChange(q) /\ q.pc = "bind"
        BY <1>2, <4>1 DEF IsChange, D!ReadToBind, D!Live, CopiesInv, EnumShape
      <4> QED
        BY <4>2, <4>3
    <3> QED
      BY <3>1, <3>2
  <2>2. UNCHANGED <<dict, field, queue, work, missed>> /\ reqs[r].pc # "enqueue"
    BY <1>2, IdleAsksNothing DEF D!ReadToBind
  <2> QED
    BY <2>1, <2>2, RequestSteps DEF CopiesInv, EnumShape, IsFields
<1>3. ASSUME NEW f, D!ReadToUnbind(r, f) PROVE CopiesInv'
  <2>1. PICK q : q = [pc |-> "unbind", f |-> f, seen |-> field]
    OBVIOUS
  <2>2. reqs' = [reqs EXCEPT ![r] = q] /\ UNCHANGED <<dict, field, queue, work, missed>>
        /\ reqs[r].pc # "enqueue"
    BY <1>3, <2>1, IdleAsksNothing DEF D!ReadToUnbind, D!Becomes
  <2>3. IsChange(q) /\ q.pc # "enqueue"
    BY <2>1 DEF IsChange, CopiesInv, EnumShape
  <2> QED
    BY <2>2, <2>3, RequestSteps DEF CopiesInv, EnumShape, IsFields
<1>4. ASSUME D!Bind(r) PROVE CopiesInv'
  <2>1. PICK q : q = reqs[r]
    OBVIOUS
  <2>2. /\ q.pc = "bind" /\ q.e \in Enums /\ q.dict.st = "live" /\ IsFields(q.seen)
        /\ field' = [q.seen EXCEPT ![q.f] = D!Bound(q.e, q.dict.ver, q.st)]
        /\ missed' = missed \cup (IF field # q.seen THEN Fields ELSE {})
                     \cup (IF dict[q.e] # q.dict THEN {q.f} ELSE {})
        /\ UNCHANGED <<dict, queue, work>>
    BY <1>4, <2>1 DEF D!Bind, D!Overwrites, CopiesInv, EnumShape, IsChange
  <2>3. IsFields(field')
    BY <2>2 DEF IsFields
  <2>4. ASSUME NEW f \in Fields \ missed'
        PROVE  field'[f] = field[f] \/ (field'[f].ref \in Enums /\ Current(field'[f].ref, field'[f].ver))
    <3>1. field = q.seen /\ (f = q.f => dict[q.e] = q.dict)
      BY <2>2, <2>4
    <3>2. f = q.f => field'[f] = D!Bound(q.e, q.dict.ver, q.st)
      BY <2>2 DEF IsFields
    <3>3. f # q.f => field'[f] = field[f]
      BY <2>2, <3>1 DEF IsFields
    <3> QED
      BY <2>2, <3>1, <3>2, <3>3, FieldValues DEF Current
  <2>5. reqs' = [reqs EXCEPT ![r] = [pc |-> "done"]]
    BY <1>4 DEF D!Bind, D!Done, D!Becomes
  <2> QED
    BY <1>1, <2>1, <2>2, <2>3, <2>4, <2>5, RequestSteps
<1>5. ASSUME D!Unbind(r) PROVE CopiesInv'
  <2>1. PICK q : q = reqs[r]
    OBVIOUS
  <2>2. /\ q.pc = "unbind" /\ IsFields(q.seen)
        /\ field' = [q.seen EXCEPT ![q.f] = D!Unbound(q.f)]
        /\ missed' = missed \cup (IF field # q.seen THEN Fields ELSE {})
        /\ UNCHANGED <<dict, queue, work>>
    BY <1>5, <2>1 DEF D!Unbind, D!Overwrites, CopiesInv, EnumShape, IsChange
  <2>3. IsFields(field')
    BY <2>2 DEF IsFields
  <2>4. ASSUME NEW f \in Fields \ missed'
        PROVE  field'[f] = field[f] \/ field'[f].ref = NoEnum
    BY <2>2, <2>4, FieldValues DEF IsFields
  <2>5. reqs' = [reqs EXCEPT ![r] = [pc |-> "done"]]
    BY <1>5 DEF D!Unbind, D!Done, D!Becomes
  <2> QED
    BY <1>1, <2>1, <2>2, <2>3, <2>4, <2>5, RequestSteps
<1> QED
  BY <1>2, <1>3, <1>4, <1>5

\* A dictionary is changed by a request that is about to announce it, or is no
\* longer vouched for, or had nothing bound to it.
LEMMA DictSteps ==
  ASSUME CopiesInv, NEW e \in Enums, NEW d, IsDict(d),
         dict' = [dict EXCEPT ![e] = d], UNCHANGED <<field, queue, work>>, missed \subseteq missed',
         reqs' = [r \in Changers |-> reqs'[r]], \A r \in Changers : IsChange(reqs'[r]),
         \A r \in Changers : reqs[r].pc = "enqueue" => reqs'[r] = reqs[r],
         \A r \in Changers : reqs'[r].pc = "enqueue" => reqs'[r] = reqs[r]
                               \/ (reqs'[r].event = "delete" => d.st = "deleted" /\ reqs'[r].e = e),
         dict[e].st = "deleted" => d.st = "deleted", d.st # "none",
         \/ e \in missed'
         \/ dict[e].st = "none" /\ d.st = "live"
         \/ Asked(e)'
  PROVE  CopiesInv'
<1>1. EnumShape'
  BY DEF CopiesInv, EnumShape
<1>2. DeletedForGood'
  <2>1. \A x \in Enums : dict[x].st = "deleted" => dict'[x].st = "deleted"
    BY DEF CopiesInv, EnumShape
  <2>2. \A k \in 1..Len(queue) : queue[k].e \in Enums
    BY EventsOfDictionaries DEF CopiesInv
  <2>3. \A r \in Changers : reqs[r].pc = "enqueue" => reqs[r].e \in Enums
    BY DEF CopiesInv, EnumShape, IsChange
  <2>4. dict'[e] = d
    BY DEF CopiesInv, EnumShape
  <2> QED
    BY <2>1, <2>2, <2>3, <2>4 DEF CopiesInv, DeletedForGood
<1>3. \A x \in Enums : x # e => dict'[x] = dict[x] /\ Cure(x)' = Cure(x)
  BY DEF CopiesInv, EnumShape, Cure
<1>4. ASSUME NEW x \in Enums, x # e, Coming(x) PROVE Coming(x)'
  BY <1>3, <1>4, ComingStays
<1>5. ASSUME dict[e].st # "none", e \notin missed' PROVE Coming(e)'
  BY <1>5 DEF Coming
<1>6. dict'[e].st # "none"
  BY DEF CopiesInv, EnumShape
<1>7. WorkIsCured'
  <2> SUFFICES ASSUME work.pc = "write", queue[1].event # "delete", queue[1].e \notin missed'
               PROVE  /\ dict'[queue[1].e].st # "none"
                      /\ Current(queue[1].e, work.ver)' \/ Coming(queue[1].e)'
    BY DEF WorkIsCured
  <2>1. queue[1].e \in Enums
    BY EventsOfDictionaries, IdleAsksNothing DEF CopiesInv
  <2>2. dict[queue[1].e].st # "none" /\ (Current(queue[1].e, work.ver) \/ Coming(queue[1].e))
    BY DEF CopiesInv, WorkIsCured
  <2>3. CASE queue[1].e = e
    BY <1>5, <1>6, <2>2, <2>3
  <2>4. CASE queue[1].e # e
    BY <1>3, <1>4, <2>1, <2>2, <2>4 DEF Current
  <2> QED
    BY <2>3, <2>4
<1>8. FieldsAreCured'
  <2> SUFFICES ASSUME NEW f \in Fields \ missed', field[f].ref # NoEnum, field[f].ref \notin missed'
               PROVE  /\ field[f].ref \in Enums /\ dict'[field[f].ref].st # "none"
                      /\ Current(field[f].ref, field[f].ver)' \/ Coming(field[f].ref)' \/ InHand(f)'
    BY DEF FieldsAreCured
  <2>1. /\ field[f].ref \in Enums /\ dict[field[f].ref].st # "none"
        /\ Current(field[f].ref, field[f].ver) \/ Coming(field[f].ref) \/ InHand(f)
    BY DEF CopiesInv, FieldsAreCured
  <2>2. CASE field[f].ref = e
    BY <1>5, <1>6, <2>1, <2>2
  <2>3. CASE field[f].ref # e
    BY <1>3, <1>4, <2>1, <2>3 DEF Current, InHand
  <2> QED
    BY <2>2, <2>3
<1> QED
  BY <1>1, <1>2, <1>7, <1>8 DEF CopiesInv

\* Dictionaries are created, updated and deleted by people, and written from code.
LEMMA CopiesChanged ==
  ASSUME CopiesInv, NEW e \in Enums
  PROVE  /\ \A r \in Changers : D!CreateEnum(r, e) => CopiesInv'
         /\ \A r \in Changers : D!UpdateEnum(r, e) => CopiesInv'
         /\ \A r \in Changers : D!DeleteEnum(r, e) => CopiesInv'
         /\ D!ExtractEnum(e) => CopiesInv'
<1>1. ASSUME NEW r \in Changers, NEW event \in Kinds, D!Changed(r, e, event), reqs[r] = D!Idle
      PROVE  /\ reqs' = [x \in Changers |-> reqs'[x]]
             /\ \A x \in Changers : IsChange(reqs'[x])
             /\ \A x \in Changers : reqs[x].pc = "enqueue" => reqs'[x] = reqs[x]
             /\ \A x \in Changers : x # r => reqs'[x] = reqs[x]
             /\ reqs'[r].pc = "enqueue" /\ reqs'[r].e = e /\ reqs'[r].event = event
  <2>1. PICK q : q = [pc |-> "enqueue", e |-> e, event |-> event]
    OBVIOUS
  <2>2. reqs' = [reqs EXCEPT ![r] = q]
    BY <1>1, <2>1 DEF D!Changed, D!Becomes
  <2>3. IsChange(q)
    BY <2>1 DEF IsChange
  <2> QED
    BY <1>1, <2>1, <2>2, <2>3, IdleAsksNothing DEF CopiesInv, EnumShape
<1>2. ASSUME NEW r \in Changers, D!CreateEnum(r, e) PROVE CopiesInv'
  <2>1. CASE D!Live(e)
    <3>1. /\ reqs' = [reqs EXCEPT ![r] = [pc |-> "done"]] /\ reqs[r].pc # "enqueue"
          /\ UNCHANGED <<dict, field, queue, work, missed>>
      BY <1>2, <2>1, IdleAsksNothing DEF D!CreateEnum, D!Done, D!Becomes
    <3>2. [pc |-> "done"].pc = "done" /\ IsChange([pc |-> "done"])
      BY DEF IsChange
    <3> QED
      BY <3>1, <3>2, RequestSteps DEF CopiesInv, EnumShape, IsFields
  <2>2. CASE ~D!Live(e)
    <3>1. PICK d : d = [st |-> "live", ver |-> 1, manual |-> TRUE]
      OBVIOUS
    <3>2. IsDict(d) /\ d.st = "live"
      BY <3>1 DEF IsDict
    <3>3. /\ dict' = [dict EXCEPT ![e] = d] /\ dict[e].st = "none"
          /\ D!Changed(r, e, "create") /\ reqs[r] = D!Idle
          /\ UNCHANGED <<field, queue, work, missed>>
      BY <1>2, <2>2, <3>1 DEF D!CreateEnum
    <3> QED
      BY <1>1, <3>2, <3>3, DictSteps DEF Kinds
  <2> QED
    BY <2>1, <2>2
<1>3. ASSUME NEW r \in Changers, D!UpdateEnum(r, e) PROVE CopiesInv'
  <2>1. PICK d : d = [st |-> "live", ver |-> dict[e].ver + 1, manual |-> TRUE]
    OBVIOUS
  <2>2. IsDict(d) /\ d.st = "live"
    BY <2>1 DEF IsDict
  <2>3. /\ dict' = [dict EXCEPT ![e] = d] /\ dict[e].st = "live"
        /\ D!Changed(r, e, "update") /\ reqs[r] = D!Idle
        /\ UNCHANGED <<field, queue, work, missed>>
    BY <1>3, <2>1 DEF D!UpdateEnum, D!Live, CopiesInv, EnumShape
  <2>4. Asked(e)'
    <3>1. dict'[e].st = "live"
      BY <2>2, <2>3 DEF CopiesInv, EnumShape
    <3> QED
      BY <1>1, <2>3, <3>1 DEF Asked, Cure, Kinds
  <2> QED
    BY <1>1, <2>2, <2>3, <2>4, DictSteps DEF Kinds
<1>4. ASSUME NEW r \in Changers, D!DeleteEnum(r, e) PROVE CopiesInv'
  <2>1. PICK d : d = [dict[e] EXCEPT !.st = "deleted"]
    OBVIOUS
  <2>2. IsDict(d) /\ d.st = "deleted"
    <3>1. PICK old : old = dict[e] /\ old = [st |-> old.st, ver |-> old.ver, manual |-> old.manual]
      BY DEF IsDict, CopiesInv, EnumShape
    <3>2. d = [st |-> "deleted", ver |-> old.ver, manual |-> old.manual]
      BY <2>1, <3>1
    <3> QED
      BY <3>2 DEF IsDict
  <2>3. /\ dict' = [dict EXCEPT ![e] = d] /\ dict[e].st = "live"
        /\ D!Changed(r, e, "delete") /\ reqs[r] = D!Idle
        /\ UNCHANGED <<field, queue, work, missed>>
    BY <1>4, <2>1 DEF D!DeleteEnum, D!Live
  <2>4. Asked(e)'
    <3>1. dict'[e].st = "deleted"
      BY <2>2, <2>3 DEF CopiesInv, EnumShape
    <3> QED
      BY <1>1, <2>3, <3>1 DEF Asked, Cure, Kinds
  <2> QED
    BY <1>1, <2>2, <2>3, <2>4, DictSteps DEF Kinds
<1>5. ASSUME D!ExtractEnum(e) PROVE CopiesInv'
  <2>1. PICK d : d = [st |-> "live", ver |-> dict[e].ver + 1, manual |-> FALSE]
    OBVIOUS
  <2>2. IsDict(d) /\ d.st = "live"
    BY <2>1 DEF IsDict
  <2>3. /\ dict' = [dict EXCEPT ![e] = d] /\ dict[e].st # "deleted" /\ missed' = missed \cup {e}
        /\ UNCHANGED <<field, queue, work, reqs>>
    BY <1>5, <2>1 DEF D!ExtractEnum, CopiesInv, EnumShape
  <2> QED
    BY <2>2, <2>3, DictSteps DEF CopiesInv, EnumShape
<1> QED
  BY <1>2, <1>3, <1>4, <1>5

\* A request announces its change.
LEMMA CopiesAnnounced ==
  ASSUME CopiesInv, NEW r \in Changers, D!Enqueue(r)
  PROVE  CopiesInv'
<1>1. PICK event : event = [e |-> reqs[r].e, event |-> reqs[r].event]
  OBVIOUS
<1>2. /\ reqs[r].pc = "enqueue" /\ reqs' = [reqs EXCEPT ![r] = [pc |-> "done"]]
      /\ queue' = Append(queue, event) /\ UNCHANGED <<dict, field, open, work, missed>>
  BY <1>1 DEF D!Enqueue, D!Done, D!Becomes
<1>3. event \in Events
  BY <1>1, <1>2 DEF CopiesInv, EnumShape, IsChange, Events
<1>4. /\ queue \in Seq(Events) /\ queue' \in Seq(Events) /\ Len(queue') = Len(queue) + 1
      /\ \A k \in 1..Len(queue) : queue'[k] = queue[k]
      /\ queue'[Len(queue) + 1] = event /\ Len(queue) \in Nat
  BY <1>2, <1>3 DEF CopiesInv, EnumShape
<1>5. work = D!Idle \/ Len(queue) >= 1
  BY <1>4 DEF CopiesInv, EnumShape
<1>6. [pc |-> "done"].pc = "done" /\ IsChange([pc |-> "done"])
  BY DEF IsChange
<1>7. EnumShape'
  <2>1. work = D!Idle \/ (work.pc \in {"read", "write", "drop"} /\ work.left \in 1..Len(queue'))
    BY <1>4 DEF CopiesInv, EnumShape
  <2> QED
    BY <1>2, <1>4, <1>6, <2>1 DEF CopiesInv, EnumShape
<1>8. DeletedForGood'
  <2>1. \A k \in 1..Len(queue') : k \in 1..Len(queue) \/ (k = Len(queue) + 1)
    BY <1>4
  <2> QED
    BY <1>1, <1>2, <1>4, <1>6, <2>1 DEF CopiesInv, EnumShape, DeletedForGood
<1>9. ASSUME NEW e, Coming(e) PROVE Coming(e)'
  <2>1. Cure(e)' = Cure(e)
    BY <1>2 DEF Cure
  <2>2. CASE Queued(e)
    <3>1. PICK k \in 1..Len(queue) : queue[k].e = e /\ queue[k].event = Cure(e)
                                     /\ (k > 1 \/ work.pc \in {"idle", "read"})
      BY <2>2 DEF Queued
    <3>2. k \in 1..Len(queue') /\ queue'[k] = queue[k]
      BY <1>4
    <3> QED
      BY <1>2, <2>1, <3>1, <3>2 DEF Coming, Queued
  <2>3. CASE Asked(e)
    <3>1. PICK x \in Changers : reqs[x].pc = "enqueue" /\ reqs[x].e = e /\ reqs[x].event = Cure(e)
      BY <2>3 DEF Asked
    <3>2. CASE x # r
      <4>1. reqs'[x] = reqs[x]
        BY <1>2, <3>2 DEF CopiesInv, EnumShape
      <4> QED
        BY <2>1, <3>1, <4>1 DEF Coming, Asked
    <3>3. CASE x = r
      <4>1. event.e = e /\ event.event = Cure(e)
        BY <1>1, <3>1, <3>3
      <4>2. PICK k : k = Len(queue) + 1
        OBVIOUS
      <4>3. k \in 1..Len(queue') /\ queue'[k] = event /\ (k > 1 \/ work = D!Idle)
        BY <1>4, <1>5, <4>2
      <4> QED
        BY <1>2, <2>1, <4>1, <4>3, IdleAsksNothing DEF Coming, Queued
    <3> QED
      BY <3>2, <3>3
  <2> QED
    BY <1>9, <2>2, <2>3 DEF Coming
<1>10. work.pc = "write" => queue'[1] = queue[1]
  BY <1>4, <1>5, IdleAsksNothing
<1>11. WorkIsCured'
  BY <1>2, <1>9, <1>10 DEF CopiesInv, WorkIsCured, Current
<1>12. FieldsAreCured'
  BY <1>2, <1>9, <1>10 DEF CopiesInv, FieldsAreCured, Current, InHand, Cure
<1> QED
  BY <1>7, <1>8, <1>11, <1>12 DEF CopiesInv

\* A set of numbers has a least one.
LEMMA LeastNumber ==
  ASSUME NEW S, S \subseteq Nat, S # {}
  PROVE  \E m \in S : \A k \in S : m <= k
<1> DEFINE R == {ss \in Nat \X Nat : ss[1] < ss[2]}
<1>1. IsWellFoundedOn(R, Nat)
  BY NatLessThanWellFounded DEF OpToRel
<1> HIDE DEF R
<1>2. PICK m \in S : \A k \in S : ~(<<k, m>> \in R)
  BY <1>1, WFMin
<1>3. \A k \in S : ~(k < m)
  BY <1>2 DEF R
<1> QED
  BY <1>3

\* What counts of a batch is of the batch, and nothing of it is left out.
LEMMA KeptOfBatch ==
  ASSUME NEW S, NEW batch \in Seq(S), batch # <<>>, NEW at \in D!InOrder(D!Firsts(batch))
  PROVE  /\ D!Kept(batch, at) \in Seq(S)
         /\ Len(D!Kept(batch, at)) \in Nat \ {0}
         /\ \A k \in 1..Len(batch) :
              \E i \in 1..Len(D!Kept(batch, at)) : D!Kept(batch, at)[i] = batch[k]
         /\ \A i \in 1..Len(D!Kept(batch, at)) :
              \E k \in 1..Len(batch) : D!Kept(batch, at)[i] = batch[k]
<1> DEFINE F == D!Firsts(batch)
           n == D!Cardinality(F)
           kept == D!Kept(batch, at)
<1>1. F \subseteq 1..Len(batch)
  BY DEF D!Firsts
<1>2. IsFiniteSet(F) /\ n = Cardinality(F) /\ n \in Nat
  <2>1. IsFiniteSet(1..Len(batch))
    BY FS_Interval
  <2>2. IsFiniteSet(F) /\ Cardinality(F) \in Nat
    BY <1>1, <2>1, FS_Subset, FS_CardinalityType
  <2>3. D!Cardinality(F) = Cardinality(F)
    BY DEF D!Cardinality, Cardinality
  <2> QED
    BY <2>2, <2>3
<1>3. at \in [1..n -> F] /\ \A s \in F : \E i \in 1..n : at[i] = s
  BY DEF D!InOrder
<1>4. kept = [i \in 1..n |-> batch[at[i]]]
  BY <1>3 DEF D!Kept
<1>5. \A k \in 1..Len(batch) : batch[k] \in S
  BY ElementOfSeq
<1>6. kept \in Seq(S) /\ Len(kept) = n
  <2>1. \A i \in 1..n : batch[at[i]] \in S
    BY <1>1, <1>3, <1>5
  <2>2. kept \in [1..n -> S]
    BY <1>4, <2>1
  <2>3. kept \in Seq(S)
    BY <1>2, <2>2
  <2>4. DOMAIN kept = 1..n
    BY <1>4
  <2> QED
    BY <1>2, <2>3, <2>4, LenProperties
<1>7. ASSUME NEW k \in 1..Len(batch) PROVE \E i \in F : batch[i] = batch[k]
  <2> DEFINE Same == {i \in 1..Len(batch) : batch[i] = batch[k]}
  <2>1. PICK i \in Same : \A m \in Same : i <= m
    <3>1. Same \subseteq Nat /\ Same # {}
      OBVIOUS
    <3> HIDE DEF Same
    <3> QED
      BY <3>1, LeastNumber
  <2>2. \A m \in 1..(i - 1) : batch[m] # batch[i]
    BY <2>1
  <2> QED
    BY <2>1, <2>2 DEF D!Firsts
<1>8. ASSUME NEW k \in 1..Len(batch) PROVE \E i \in 1..Len(kept) : kept[i] = batch[k]
  <2>1. PICK s \in F : batch[s] = batch[k]
    BY <1>7
  <2>2. PICK i \in 1..n : at[i] = s
    BY <1>3
  <2> HIDE DEF n, F, kept
  <2> QED
    BY <1>4, <1>6, <2>1, <2>2
<1>9. n # 0
  <2>1. 1 \in 1..Len(batch)
    BY EmptySeq
  <2>2. F # {}
    BY <1>7, <2>1
  <2> QED
    BY <1>2, <2>2, FS_EmptySet
<1>10. ASSUME NEW i \in 1..Len(kept) PROVE \E k \in 1..Len(batch) : kept[i] = batch[k]
  BY <1>1, <1>3, <1>4, <1>6
<1> QED
  BY <1>2, <1>6, <1>8, <1>9, <1>10

\* What a step of the worker must not lose sight of.
Wanted(e) == Queued(e) \/ \E f \in Fields : InHand(f) /\ field[f].ref = e

\* The worker goes on with the queue, or with part of it.
LEMMA WorkSteps ==
  ASSUME CopiesInv, UNCHANGED <<dict, field>>, missed \subseteq missed',
         queue' \in Seq(Events),
         \A k \in 1..Len(queue') : \E i \in 1..Len(queue) : queue'[k] = queue[i],
         work' = D!Idle \/ (work'.pc \in {"read", "drop"} /\ work'.left \in 1..Len(queue')),
         reqs' = [r \in Changers |-> reqs'[r]],
         \A r \in Changers : IsChange(reqs'[r])
                             /\ (reqs'[r].pc = "enqueue" => reqs'[r] = reqs[r]),
         \A e \in Enums \ missed' : dict[e].st # "none" /\ Asked(e) => Asked(e)',
         \A e \in Enums \ missed' : dict[e].st # "none" /\ Wanted(e) => Queued(e)'
  PROVE  CopiesInv'
<1>1. work'.pc # "write"
  BY IdleAsksNothing
<1>2. EnumShape'
  BY <1>1 DEF CopiesInv, EnumShape
<1>3. DeletedForGood'
  BY DEF CopiesInv, DeletedForGood
<1>4. WorkIsCured'
  BY <1>1 DEF WorkIsCured
<1>5. FieldsAreCured'
  <2> SUFFICES ASSUME NEW f \in Fields \ missed', field[f].ref # NoEnum, field[f].ref \notin missed'
               PROVE  /\ field[f].ref \in Enums /\ dict[field[f].ref].st # "none"
                      /\ Current(field[f].ref, field[f].ver)' \/ Coming(field[f].ref)'
    BY DEF FieldsAreCured
  <2>1. /\ field[f].ref \in Enums /\ dict[field[f].ref].st # "none"
        /\ Current(field[f].ref, field[f].ver) \/ Coming(field[f].ref) \/ InHand(f)
    BY DEF CopiesInv, FieldsAreCured
  <2> QED
    BY <2>1 DEF Coming, Wanted, Current
<1> QED
  BY <1>2, <1>3, <1>4, <1>5 DEF CopiesInv

\* Requests stay as they are.
LEMMA RequestsStay ==
  ASSUME CopiesInv, UNCHANGED <<dict, reqs>>
  PROVE  /\ reqs' = [r \in Changers |-> reqs'[r]]
         /\ \A r \in Changers : IsChange(reqs'[r])
                                /\ (reqs'[r].pc = "enqueue" => reqs'[r] = reqs[r])
         /\ \A e : Asked(e) => Asked(e)'
BY DEF CopiesInv, EnumShape, Asked, Cure

\* The worker takes a batch.
LEMMA CopiesPolled ==
  ASSUME CopiesInv, D!Poll
  PROVE  CopiesInv'
<1> DEFINE n == IF Len(queue) < BatchSize THEN Len(queue) ELSE BatchSize
           batch == SubSeq(queue, 1, n)
           rest == SubSeq(queue, n + 1, Len(queue))
<1>1. PICK at \in D!InOrder(D!Firsts(batch)) :
        /\ queue' = D!Kept(batch, at) \o rest
        /\ work' = [pc |-> "read", left |-> Len(D!Kept(batch, at))]
  BY DEF D!Poll
<1>2. work = D!Idle /\ queue # <<>> /\ UNCHANGED <<dict, field, reqs, missed>>
  BY DEF D!Poll
<1>3. PICK kept : kept = D!Kept(batch, at)
  OBVIOUS
<1>4. queue \in Seq(Events) /\ Len(queue) \in Nat \ {0} /\ n \in 1..Len(queue)
  BY <1>2, EmptySeq, BatchesAreCounts DEF CopiesInv, EnumShape
<1>5. /\ batch \in Seq(Events) /\ Len(batch) = n /\ batch # <<>>
      /\ \A k \in 1..n : batch[k] = queue[k]
  BY <1>4
<1>6. /\ rest \in Seq(Events) /\ Len(rest) = Len(queue) - n
      /\ \A k \in 1..(Len(queue) - n) : rest[k] = queue[n + k]
  BY <1>4
<1> HIDE DEF n, batch, rest
<1>7. /\ kept \in Seq(Events) /\ Len(kept) \in Nat \ {0}
      /\ \A k \in 1..Len(batch) : \E i \in 1..Len(kept) : kept[i] = batch[k]
      /\ \A i \in 1..Len(kept) : \E k \in 1..Len(batch) : kept[i] = batch[k]
  <2>1. at \in D!InOrder(D!Firsts(batch))
    BY <1>1
  <2>2. /\ D!Kept(batch, at) \in Seq(Events)
        /\ Len(D!Kept(batch, at)) \in Nat \ {0}
        /\ \A k \in 1..Len(batch) :
             \E i \in 1..Len(D!Kept(batch, at)) : D!Kept(batch, at)[i] = batch[k]
        /\ \A i \in 1..Len(D!Kept(batch, at)) :
             \E k \in 1..Len(batch) : D!Kept(batch, at)[i] = batch[k]
    BY <1>5, <2>1, KeptOfBatch, SMTT(30)
  <2> QED
    BY <1>3, <2>2
<1>8. /\ queue' \in Seq(Events) /\ Len(queue') = Len(kept) + Len(rest)
      /\ \A i \in 1..Len(kept) : queue'[i] = kept[i]
      /\ \A i \in 1..Len(rest) : queue'[Len(kept) + i] = rest[i]
  <2>1. queue' = kept \o rest
    BY <1>1, <1>3
  <2>2. /\ kept \o rest \in Seq(Events) /\ Len(kept \o rest) = Len(kept) + Len(rest)
        /\ \A i \in 1..(Len(kept) + Len(rest)) :
             (kept \o rest)[i] = IF i <= Len(kept) THEN kept[i] ELSE rest[i - Len(kept)]
    BY <1>6, <1>7, ConcatProperties, ZenonT(60)
  <2>3. PICK both : both = kept \o rest
    OBVIOUS
  <2>4. Len(rest) \in Nat /\ Len(kept) \in Nat
    BY <1>4, <1>6, <1>7
  <2>5. ASSUME NEW i \in 1..Len(rest) PROVE both[Len(kept) + i] = rest[i]
    <3>1. PICK k : k = Len(kept) + i
      OBVIOUS
    <3>2. k \in 1..(Len(kept) + Len(rest)) /\ ~(k <= Len(kept)) /\ k - Len(kept) = i
      BY <2>4, <3>1
    <3> QED
      BY <2>2, <2>3, <3>1, <3>2
  <2>6. ASSUME NEW i \in 1..Len(kept) PROVE both[i] = kept[i]
    BY <2>2, <2>3, <2>4
  <2> QED
    BY <2>1, <2>2, <2>3, <2>5, <2>6
<1>9. \A k \in 1..Len(queue') : \E i \in 1..Len(queue) : queue'[k] = queue[i]
  <2> TAKE k \in 1..Len(queue')
  <2>1. CASE k \in 1..Len(kept)
    <3>1. PICK i \in 1..Len(batch) : kept[k] = batch[i]
      BY <1>7, <2>1
    <3>2. i \in 1..Len(queue) /\ batch[i] = queue[i]
      BY <1>4, <1>5, <3>1
    <3> QED
      BY <1>8, <2>1, <3>1, <3>2
  <2>2. CASE k \notin 1..Len(kept)
    <3>1. PICK i : i = k - Len(kept)
      OBVIOUS
    <3>2. i \in 1..Len(rest)
      BY <1>4, <1>6, <1>7, <1>8, <2>2, <3>1
    <3>3. k = Len(kept) + i
      BY <1>7, <3>1
    <3>4. queue'[k] = rest[i]
      BY <1>8, <3>2, <3>3
    <3>5. n + i \in 1..Len(queue) /\ rest[i] = queue[n + i]
      BY <1>4, <1>6, <3>2
    <3> QED
      BY <3>4, <3>5
  <2> QED
    BY <2>1, <2>2
<1>10. \A i \in 1..Len(queue) : \E k \in 1..Len(queue') : queue'[k] = queue[i]
  <2> TAKE i \in 1..Len(queue)
  <2>1. CASE i \in 1..n
    <3>1. PICK k \in 1..Len(kept) : kept[k] = batch[i]
      BY <1>5, <1>7, <2>1
    <3>2. k \in 1..Len(queue')
      BY <1>4, <1>6, <1>7, <1>8
    <3> QED
      BY <1>5, <1>8, <2>1, <3>1, <3>2
  <2>2. CASE i \notin 1..n
    <3>1. PICK k : k = i - n
      OBVIOUS
    <3>2. k \in 1..Len(rest) /\ rest[k] = queue[i]
      BY <1>4, <1>6, <2>2, <3>1
    <3>3. Len(kept) + k \in 1..Len(queue') /\ queue'[Len(kept) + k] = queue[i]
      <4>1. Len(kept) + k \in 1..Len(queue')
        BY <1>4, <1>6, <1>7, <1>8, <3>2
      <4>2. queue'[Len(kept) + k] = rest[k]
        BY <1>8, <3>2
      <4> QED
        BY <3>2, <4>1, <4>2
    <3> QED
      BY <3>3
  <2> QED
    BY <2>1, <2>2
<1>11. work'.pc = "read" /\ work'.left \in 1..Len(queue')
  BY <1>1, <1>3, <1>4, <1>6, <1>7, <1>8
<1>12. \A e : Wanted(e) => Queued(e)'
  <2>1. \A f : ~InHand(f)
    BY <1>2, IdleAsksNothing DEF InHand
  <2>2. \A e : Cure(e)' = Cure(e)
    BY <1>2 DEF Cure
  <2> QED
    BY <1>10, <1>11, <2>1, <2>2 DEF Wanted, Queued
<1> QED
  BY <1>2, <1>8, <1>9, <1>11, <1>12, RequestsStay, WorkSteps

\* The worker reads, and drops what is about a dictionary that is gone.
LEMMA CopiesRead ==
  ASSUME CopiesInv, D!Read
  PROVE  CopiesInv'
<1>1. work.pc = "read" /\ UNCHANGED <<dict, field, queue, reqs, missed>>
  BY DEF D!Read
<1>2. /\ queue \in Seq(Events) /\ 1 \in 1..Len(queue) /\ work.left \in 1..Len(queue)
      /\ queue[1].e \in Enums
  BY <1>1, EventsOfDictionaries, IdleAsksNothing DEF CopiesInv, EnumShape
<1>3. CASE queue[1].event # "delete" /\ ~D!Live(queue[1].e)
  <2>1. work' = [pc |-> "drop", left |-> work.left]
    BY <1>3 DEF D!Read, D!Task
  <2>2. work'.pc = "drop" /\ work'.left \in 1..Len(queue')
    BY <1>1, <1>2, <2>1
  <2>3. ASSUME NEW e \in Enums, dict[e].st # "none", Wanted(e)
        PROVE  Queued(e)'
    <3>1. PICK k \in 1..Len(queue) : queue[k].e = e /\ queue[k].event = Cure(e)
      BY <1>1, <2>3 DEF Wanted, Queued, InHand
    <3>2. k # 1
      BY <1>3, <2>3, <3>1 DEF Cure, D!Live, CopiesInv, EnumShape, IsDict
    <3> QED
      BY <1>1, <3>1, <3>2 DEF Queued, Cure
  <2> QED
    BY <1>1, <1>2, <2>2, <2>3, RequestsStay, WorkSteps
<1>4. CASE ~(queue[1].event # "delete" /\ ~D!Live(queue[1].e))
  <2>1. work' = [pc |-> "write", left |-> work.left, seen |-> field, ver |-> dict[queue[1].e].ver]
    BY <1>4 DEF D!Read, D!Task
  <2>2. /\ work'.pc = "write" /\ work'.left = work.left /\ work'.seen = field
        /\ work'.ver = dict[queue[1].e].ver
    BY <2>1
  <2>3. EnumShape'
    BY <1>1, <1>2, <2>2 DEF CopiesInv, EnumShape, IsFields
  <2>4. DeletedForGood'
    BY <1>1 DEF CopiesInv, DeletedForGood
  <2>5. WorkIsCured'
    BY <1>1, <1>4, <2>2 DEF WorkIsCured, Current, D!Live
  <2>6. FieldsAreCured'
    <3> SUFFICES ASSUME NEW f \in Fields \ missed, field[f].ref # NoEnum, field[f].ref \notin missed
                 PROVE  /\ field[f].ref \in Enums /\ dict[field[f].ref].st # "none"
                        /\ Current(field[f].ref, field[f].ver)' \/ Coming(field[f].ref)' \/ InHand(f)'
      BY <1>1 DEF FieldsAreCured
    <3>1. /\ field[f].ref \in Enums /\ dict[field[f].ref].st # "none"
          /\ Current(field[f].ref, field[f].ver) \/ Coming(field[f].ref)
      BY <1>1 DEF CopiesInv, FieldsAreCured, InHand
    <3>2. \A e : Cure(e)' = Cure(e) /\ (Asked(e) => Asked(e)')
      BY <1>1 DEF Cure, Asked
    <3>3. ASSUME Queued(field[f].ref) PROVE Queued(field[f].ref)' \/ InHand(f)'
      BY <1>1, <2>2, <3>2, <3>3 DEF Queued, InHand
    <3> QED
      BY <1>1, <3>1, <3>2, <3>3 DEF Coming, Current
  <2> QED
    BY <2>3, <2>4, <2>5, <2>6 DEF CopiesInv
<1> QED
  BY <1>3, <1>4

\* A handler fails, and its dictionary is no longer vouched for.
LEMMA CopiesFailed ==
  ASSUME CopiesInv, D!HandlerFails
  PROVE  CopiesInv'
<1>1. /\ work.pc \in {"read", "write"} /\ UNCHANGED <<dict, field, queue, reqs>>
      /\ work' = [pc |-> "drop", left |-> work.left] /\ missed' = missed \cup {queue[1].e}
  BY DEF D!HandlerFails, D!Task
<1>2. queue \in Seq(Events) /\ 1 \in 1..Len(queue) /\ work.left \in 1..Len(queue)
  BY <1>1, EventsOfDictionaries, IdleAsksNothing DEF CopiesInv, EnumShape
<1>3. work'.pc = "drop" /\ work'.left \in 1..Len(queue')
  BY <1>1, <1>2
<1>4. ASSUME NEW e \in Enums \ missed', Wanted(e) PROVE Queued(e)'
  <2>1. e # queue[1].e
    BY <1>1, <1>4
  <2>2. PICK k \in 1..Len(queue) : queue[k].e = e /\ queue[k].event = Cure(e)
    BY <1>4, <2>1 DEF Wanted, Queued, InHand
  <2>3. k > 1
    BY <1>2, <2>1, <2>2
  <2> QED
    BY <1>1, <2>2, <2>3 DEF Queued, Cure
<1> QED
  BY <1>1, <1>2, <1>3, <1>4, RequestsStay, WorkSteps

\* The worker is done with the first event.
LEMMA CopiesDropped ==
  ASSUME CopiesInv, D!Drop
  PROVE  CopiesInv'
<1>1. /\ work.pc = "drop" /\ UNCHANGED <<dict, field, reqs, missed>> /\ queue' = Tail(queue)
      /\ work' = IF work.left = 1 THEN D!Idle ELSE [pc |-> "read", left |-> work.left - 1]
  BY DEF D!Drop
<1>2. queue \in Seq(Events) /\ 1 \in 1..Len(queue) /\ work.left \in 1..Len(queue) /\ Len(queue) \in Nat
  BY <1>1, EventsOfDictionaries, IdleAsksNothing DEF CopiesInv, EnumShape
<1>3. /\ queue' \in Seq(Events) /\ Len(queue') = Len(queue) - 1
      /\ \A k \in 1..Len(queue') : queue'[k] = queue[k + 1]
  <2>1. queue # <<>>
    BY <1>2
  <2> QED
    BY <1>1, <1>2, <2>1
<1>4. \A k \in 1..Len(queue') : \E i \in 1..Len(queue) : queue'[k] = queue[i]
  <2> TAKE k \in 1..Len(queue')
  <2>1. k + 1 \in 1..Len(queue)
    BY <1>2, <1>3
  <2> QED
    BY <1>3, <2>1
<1>5. work' = D!Idle \/ (work'.pc = "read" /\ work'.left \in 1..Len(queue'))
  <2>1. CASE work.left = 1
    BY <1>1, <2>1
  <2>2. CASE work.left # 1
    <3>1. work' = [pc |-> "read", left |-> work.left - 1]
      BY <1>1, <2>2
    <3>2. work.left - 1 \in 1..Len(queue')
      BY <1>2, <1>3, <2>2
    <3> QED
      BY <3>1, <3>2
  <2> QED
    BY <2>1, <2>2
<1>6. ASSUME NEW e, Wanted(e) PROVE Queued(e)'
  <2>1. PICK k \in 1..Len(queue) : queue[k].e = e /\ queue[k].event = Cure(e) /\ k > 1
    BY <1>1, <1>6 DEF Wanted, Queued, InHand
  <2>2. PICK i : i = k - 1
    OBVIOUS
  <2>3. i \in 1..Len(queue') /\ queue'[i] = queue[k]
    BY <1>2, <1>3, <2>1, <2>2
  <2>4. work'.pc \in {"idle", "read"}
    BY <1>5, IdleAsksNothing
  <2> QED
    BY <1>1, <2>1, <2>3, <2>4 DEF Queued, Cure
<1> QED
  BY <1>1, <1>3, <1>4, <1>5, <1>6, RequestsStay, WorkSteps

\* A restart: the events on their way to the queue are lost, those on it are not.
LEMMA CopiesRestarted ==
  ASSUME CopiesInv, D!Restart
  PROVE  CopiesInv'
<1>1. /\ UNCHANGED <<dict, field, queue>> /\ work' = D!Idle
      /\ reqs' = [r \in Changers |-> IF reqs[r] = D!Idle THEN D!Idle ELSE [pc |-> "done"]]
      /\ missed' = missed \cup {reqs[r].e : r \in {x \in Changers : reqs[x].pc = "enqueue"}}
  BY DEF D!Restart
<1>2. [pc |-> "done"].pc = "done" /\ IsChange([pc |-> "done"])
  BY DEF IsChange
<1>3. \A r \in Changers : IsChange(reqs'[r]) /\ reqs'[r].pc # "enqueue"
  BY <1>1, <1>2, IdleAsksNothing
<1>4. reqs' = [r \in Changers |-> reqs'[r]]
  BY <1>1
<1>5. \A e \in Enums \ missed' : ~Asked(e)
  BY <1>1 DEF Asked
<1>6. queue \in Seq(Events)
  BY DEF CopiesInv, EnumShape
<1>7. ASSUME NEW e, Wanted(e) PROVE Queued(e)'
  <2>1. \E k \in 1..Len(queue) : queue[k].e = e /\ queue[k].event = Cure(e)
    <3>1. work.pc = "write" => 1 \in 1..Len(queue)
      BY EventsOfDictionaries, IdleAsksNothing DEF CopiesInv
    <3> QED
      BY <1>7, <3>1 DEF Wanted, Queued, InHand
  <2> QED
    BY <1>1, <2>1, IdleAsksNothing DEF Queued, Cure
<1> QED
  BY <1>1, <1>3, <1>4, <1>5, <1>6, <1>7, WorkSteps

\* The worker writes, what it has read, unless that is what it has read.
LEMMA CopiesWritten ==
  ASSUME CopiesInv, D!Write
  PROVE  CopiesInv'
<1>1. /\ work.pc = "write" /\ UNCHANGED <<dict, queue, reqs>>
      /\ work' = [pc |-> "drop", left |-> work.left]
      /\ \/ D!Handled = work.seen /\ UNCHANGED <<field, missed>>
         \/ field' = D!Handled /\ missed' = missed \cup (IF field # work.seen THEN Fields ELSE {})
  BY DEF D!Write, D!Overwrites
<1>2. /\ queue \in Seq(Events) /\ 1 \in 1..Len(queue) /\ work.left \in 1..Len(queue)
      /\ queue[1].e \in Enums
  BY <1>1, EventsOfDictionaries, IdleAsksNothing DEF CopiesInv, EnumShape
<1>3. work'.pc = "drop" /\ work'.left = work.left
  BY <1>1
<1>4. ASSUME NEW f \in Fields
      PROVE  \/ /\ D!Handled[f].ref = queue[1].e /\ D!Handled[f].ver = work.ver
                /\ queue[1].event # "delete"
             \/ D!Handled[f].ref = NoEnum
             \/ /\ D!Handled[f] = work.seen[f]
                /\ work.seen[f].ref = queue[1].e => queue[1].event \notin {"update", "delete"}
  <2>1. D!Handled[f] =
          CASE queue[1].event = "create" /\ work.seen[f].st = "pending" /\ <<f, queue[1].e>> \in Matching ->
                 D!Bound(queue[1].e, work.ver, "matched")
            [] queue[1].event = "update" /\ work.seen[f].ref = queue[1].e ->
                 D!Refreshed(f, work.seen[f])
            [] queue[1].event = "delete" /\ work.seen[f].ref = queue[1].e -> D!Unbound(f)
            [] OTHER -> work.seen[f]
    BY DEF D!Handled, D!Task
  <2>2. D!Refreshed(f, work.seen[f]).ref = queue[1].e /\ D!Refreshed(f, work.seen[f]).ver = work.ver
    BY FieldValues DEF D!Refreshed, D!Task
  <2> QED
    BY <2>1, <2>2, FieldValues
<1>5. IsFields(field')
  <2>1. IsFields(D!Handled)
    BY DEF IsFields, D!Handled
  <2> QED
    BY <1>1, <2>1 DEF CopiesInv, EnumShape, IsFields
<1>6. \A e : Cure(e)' = Cure(e) /\ (Asked(e) => Asked(e)')
  BY <1>1 DEF Cure, Asked
<1>7. \A e : Coming(e) => Coming(e)'
  BY <1>1, <1>6 DEF Coming, Queued
<1>8. ASSUME NEW f \in Fields \ missed', field'[f].ref # NoEnum, field'[f].ref \notin missed'
      PROVE  /\ field'[f].ref \in Enums /\ dict[field'[f].ref].st # "none"
             /\ Current(field'[f].ref, field'[f].ver) \/ Coming(field'[f].ref)
  <2>1. f \notin missed /\ field'[f].ref \notin missed
    BY <1>1, <1>8
  <2>2. CASE D!Handled[f] = field'[f] /\ field'[f].ref = queue[1].e /\ field'[f].ver = work.ver
             /\ queue[1].event # "delete"
    BY <1>1, <1>2, <2>1, <2>2 DEF CopiesInv, WorkIsCured
  <2>3. CASE /\ field'[f] = field[f]
             /\ InHand(f) => FALSE
    BY <1>8, <2>1, <2>3 DEF CopiesInv, FieldsAreCured
  <2>4. CASE D!Handled = work.seen /\ UNCHANGED <<field, missed>>
    <3>1. CASE InHand(f)
      <4>1. /\ D!Handled[f] = field'[f] /\ field'[f].ref = queue[1].e
            /\ queue[1].event \in {"update", "delete"}
        BY <2>4, <3>1 DEF InHand, Cure
      <4> QED
        BY <1>4, <1>8, <2>2, <2>4, <4>1
    <3> QED
      BY <2>3, <2>4, <3>1
  <2>5. CASE field' = D!Handled /\ missed' = missed \cup (IF field # work.seen THEN Fields ELSE {})
    <3>1. field = work.seen
      BY <1>8, <2>5
    <3>2. CASE D!Handled[f] = work.seen[f] /\
               (work.seen[f].ref = queue[1].e => queue[1].event \notin {"update", "delete"})
      BY <2>3, <2>5, <3>1, <3>2 DEF InHand, Cure
    <3> QED
      BY <1>4, <1>8, <2>2, <2>5, <3>2
  <2> QED
    BY <1>1, <2>4, <2>5
<1>9. FieldsAreCured'
  BY <1>1, <1>7, <1>8 DEF FieldsAreCured, Current
<1>10. EnumShape'
  BY <1>1, <1>2, <1>3, <1>5 DEF CopiesInv, EnumShape
<1>11. DeletedForGood' /\ WorkIsCured'
  BY <1>1, <1>3 DEF CopiesInv, DeletedForGood, WorkIsCured
<1> QED
  BY <1>9, <1>10, <1>11 DEF CopiesInv

\* At rest nothing is to come and nothing is in hand.
LEMMA CopiesAreEnough == CopiesInv => CopiesAgree
<1> SUFFICES ASSUME CopiesInv, D!Quiet, NEW f \in Fields \ missed, field[f].ref # NoEnum,
                    field[f].ref \notin missed
             PROVE  D!Live(field[f].ref) /\ field[f].ver = dict[field[f].ref].ver
  BY DEF CopiesAgree, D!CopiesAgree
<1>1. work.pc = "idle" /\ Len(queue) = 0 /\ \A r \in Changers : reqs[r].pc # "enqueue"
  BY IdleAsksNothing, EmptySeq DEF D!Quiet
<1>2. ~Coming(field[f].ref) /\ ~InHand(f)
  BY <1>1 DEF Coming, Asked, Queued, InHand
<1> QED
  BY <1>2 DEF CopiesInv, FieldsAreCured, Current, D!Live

\* CopiesAgree, whatever the dictionaries and fields, the size of a batch and the
\* failures and restarts of the worker: when the queue is empty and nobody is at
\* work, fields have the values of a dictionary that exists (enum_sync.py).
THEOREM CopiesAgreeAlways == Vocabulary => []CopiesAgree
<1>1. D!Init => CopiesInv
  BY CopiesInitially
<1>2. CopiesInv /\ [TermsNext \/ EnumsNext]_<<termVars, enumVars>> => CopiesInv'
  <2> SUFFICES ASSUME CopiesInv, [TermsNext \/ EnumsNext]_<<termVars, enumVars>>
               PROVE  CopiesInv'
    OBVIOUS
  <2>1. CASE D!Next
    BY <2>1, CopiesBound, CopiesChanged, CopiesAnnounced, CopiesPolled, CopiesRead, CopiesWritten,
       CopiesFailed, CopiesDropped, CopiesRestarted DEF D!Next
  <2>2. CASE UNCHANGED enumVars
    <3>1. UNCHANGED <<dict, field, queue, work, reqs, missed>>
      BY <2>2 DEF enumVars
    <3>2. EnumShape' /\ DeletedForGood'
      BY <3>1 DEF CopiesInv, EnumShape, DeletedForGood, IsFields
    <3>3. \A e : Coming(e) => Coming(e)'
      BY <3>1 DEF Coming, Asked, Queued, Cure
    <3>4. WorkIsCured' /\ FieldsAreCured'
      BY <3>1, <3>3 DEF CopiesInv, WorkIsCured, FieldsAreCured, Current, InHand, Cure
    <3> QED
      BY <3>2, <3>4 DEF CopiesInv
  <2> QED
    BY <2>1, <2>2 DEF TermsNext, EnumsNext, termVars, enumVars
<1>3. CopiesInv => CopiesAgree
  BY CopiesAreEnough
<1> QED
  BY <1>1, <1>2, <1>3, PTL DEF Vocabulary
=============================================================================
