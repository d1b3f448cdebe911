--------------------------- MODULE AgentLoopProofs ---------------------------
(***************************************************************************)
(* Theorems about AgentLoop, for any classes, calls and settings.          *)
(***************************************************************************)
EXTENDS AgentLoop, FiniteSetTheorems, SequenceTheorems, WellFoundedInduction, TLAPS

----------------------------------------------------------------------------
(* Numbers, sets and sequences *)

\* A set of natural numbers that is not empty has a least element.
LEMMA LeastOf ==
  ASSUME NEW T \in SUBSET Nat, T # {}
  PROVE  \E m \in T : \A k \in T : m <= k
<1>1. IsWellFoundedOn(OpToRel(<, Nat), Nat)
  BY NatLessThanWellFounded
<1>2. PICK m \in T : \A k \in T : ~ (<<k, m>> \in OpToRel(<, Nat))
  BY <1>1, WFMin
<1>3. \A k \in T : k < m => <<k, m>> \in OpToRel(<, Nat)
  BY DEF OpToRel
<1>4. \A k \in T : ~ (k < m)
  BY <1>2, <1>3
<1>5. m \in Nat /\ T \subseteq Nat
  OBVIOUS
<1> HIDE <1>2, <1>3
<1>6. \A k \in T : m <= k
  BY <1>4, <1>5
<1> QED
  BY <1>6

\* A set of positions is no larger than one that holds them all, shifted by k.
LEMMA Shifted ==
  ASSUME NEW A \in SUBSET Int, NEW B, IsFiniteSet(B), NEW k \in Int, \A i \in A : i + k \in B
  PROVE  IsFiniteSet(A) /\ Cardinality(A) <= Cardinality(B)
<1> DEFINE f == [i \in A |-> i + k]
<1>1. f \in Injection(A, B)
  BY DEF Injection, IsInjective
<1> QED
  BY <1>1, FS_Injection

\* Count is the size of a finite set.
LEMMA Counts ==
  ASSUME NEW S, NEW s \in Seq(S), NEW c
  PROVE  IsFiniteSet({i \in DOMAIN s : s[i] = c}) /\ Count(s, c) \in Nat
<1>1. IsFiniteSet(1 .. Len(s)) /\ DOMAIN s = 1 .. Len(s)
  BY FS_Interval
<1> QED
  BY <1>1, FS_Subset, FS_CardinalityType DEF Count

\* The last n entries.
LEMMA SuffixOf ==
  ASSUME NEW S, NEW s \in Seq(S), NEW n \in Nat
  PROVE  /\ Suffix(s, n) \in Seq(S)
         /\ Len(Suffix(s, n)) = AtMost(Len(s), n)
         /\ \A i \in 1 .. Len(Suffix(s, n)) :
              Suffix(s, n)[i] = s[Len(s) - Len(Suffix(s, n)) + i]
<1>1. Len(s) \in Nat /\ \A i \in 1 .. Len(s) : s[i] \in S
  BY LenProperties, ElementOfSeq
<1>2. CASE Len(s) <= n
  BY <1>1, <1>2 DEF Suffix, AtMost
<1>3. CASE Len(s) > n
  <2> DEFINE m == Len(s) - n + 1
  <2>1. m \in Int /\ m >= 1 /\ m <= Len(s) + 1
    BY <1>1, <1>3
  <2>2. \A i \in m .. Len(s) : s[i] \in S
    BY <1>1, <2>1
  <2>3. Suffix(s, n) = SubSeq(s, m, Len(s))
    BY <1>1, <1>3 DEF Suffix
  <2> HIDE DEF m
  <2>4. /\ Suffix(s, n) \in Seq(S)
        /\ Len(Suffix(s, n)) = IF m <= Len(s) THEN Len(s) - m + 1 ELSE 0
        /\ \A i \in 1 .. Len(s) - m + 1 : Suffix(s, n)[i] = s[m + i - 1]
    BY <1>1, <2>1, <2>2, <2>3, SubSeqProperties
  <2> QED
    BY <1>1, <1>3, <2>4 DEF AtMost, m
<1> QED
  BY <1>1, <1>2, <1>3

\* Entries that are dropped are not counted.
LEMMA CountSuffix ==
  ASSUME NEW S, NEW s \in Seq(S), NEW n \in Nat, NEW c
  PROVE  Count(Suffix(s, n), c) <= Count(s, c)
<1> DEFINE t == Suffix(s, n)
           A == {j \in DOMAIN t : t[j] = c}
           B == {j \in DOMAIN s : s[j] = c}
           k == Len(s) - Len(t)
<1>1. /\ t \in Seq(S) /\ Len(s) \in Nat /\ Len(t) \in Nat /\ Len(t) <= Len(s)
      /\ DOMAIN t = 1 .. Len(t) /\ DOMAIN s = 1 .. Len(s)
  BY SuffixOf, LenProperties DEF AtMost
<1>2. \A i \in 1 .. Len(t) : t[i] = s[Len(s) - Len(t) + i]
  BY SuffixOf
<1>3. \A i \in A : i + k \in B
  BY <1>1, <1>2
<1>4. A \in SUBSET Int /\ k \in Int
  BY <1>1
<1>5. IsFiniteSet(B)
  BY Counts
<1> HIDE DEF A, B, k
<1>6. Cardinality(A) <= Cardinality(B)
  BY <1>3, <1>4, <1>5, Shifted
<1> QED
  BY <1>6 DEF Count, A, B

\* The entries of a concatenation are those of its parts.
LEMMA CountConcat ==
  ASSUME NEW S, NEW s \in Seq(S), NEW t \in Seq(S), NEW c
  PROVE  Count(s \o t, c) <= Count(s, c) + Count(t, c)
<1> DEFINE A == {i \in DOMAIN s : s[i] = c}
           B == {i \in DOMAIN t : t[i] = c}
           C == {i \in DOMAIN (s \o t) : (s \o t)[i] = c}
           D == C \ A
           k == 0 - Len(s)
<1>1. C \subseteq A \cup D /\ A \cap D = {}
  OBVIOUS
<1>2. \A i \in D : i + k \in B
  BY ConcatProperties
<1>3. D \in SUBSET Int /\ k \in Int
  BY ConcatProperties, LenProperties
<1>4. IsFiniteSet(A) /\ IsFiniteSet(B)
  BY Counts
<1>5. Count(s \o t, c) = Cardinality(C) /\ Count(s, c) = Cardinality(A) /\ Count(t, c) = Cardinality(B)
  BY DEF Count
<1> HIDE DEF A, B, C, D, k
<1>6. IsFiniteSet(D) /\ Cardinality(D) <= Cardinality(B)
  BY <1>2, <1>3, <1>4, Shifted
<1>7. IsFiniteSet(A \cup D) /\ Cardinality(A \cup D) = Cardinality(A) + Cardinality(D) - Cardinality(A \cap D)
  BY <1>4, <1>6, FS_Union
<1>8. Cardinality(A \cap D) = 0
  BY <1>1, FS_EmptySet
<1>9. IsFiniteSet(C) /\ Cardinality(C) <= Cardinality(A \cup D)
  BY <1>1, <1>7, FS_Subset
<1>10. {Cardinality(A), Cardinality(B), Cardinality(C), Cardinality(D), Cardinality(A \cup D)} \subseteq Nat
  BY <1>4, <1>6, <1>7, <1>9, FS_CardinalityType
<1> QED
  BY <1>5, <1>6, <1>7, <1>8, <1>9, <1>10

\* One entry more.
LEMMA CountAppend ==
  ASSUME NEW S, NEW s \in Seq(S), NEW x \in S, NEW c
  PROVE  Count(Append(s, x), c) = IF x = c THEN Count(s, c) + 1 ELSE Count(s, c)
<1> DEFINE A == {i \in DOMAIN s : s[i] = c}
           C == {i \in DOMAIN Append(s, x) : Append(s, x)[i] = c}
           n == Len(s) + 1
<1>1. Count(s, c) = Cardinality(A) /\ Count(Append(s, x), c) = Cardinality(C) /\ IsFiniteSet(A)
  BY Counts DEF Count
<1>2. n \notin A /\ C = IF x = c THEN A \cup {n} ELSE A
  BY AppendProperties, LenProperties
<1> HIDE DEF A, C, n
<1>3. n \notin A => Cardinality(A \cup {n}) = Cardinality(A) + 1
  BY <1>1, FS_AddElement
<1> QED
  BY <1>1, <1>2, <1>3

\* The first i entries end in the i-th one.
LEMMA PrefixStep ==
  ASSUME NEW S, NEW s \in Seq(S), NEW i \in 1 .. Len(s)
  PROVE  /\ SubSeq(s, 1, i - 1) \in Seq(S) /\ s[i] \in S
         /\ SubSeq(s, 1, i) = Append(SubSeq(s, 1, i - 1), s[i])
<1>1. Len(s) \in Nat /\ \A j \in 1 .. Len(s) : s[j] \in S
  BY LenProperties, ElementOfSeq
<1>2. /\ SubSeq(s, 1, i - 1) \in Seq(S) /\ Len(SubSeq(s, 1, i - 1)) = i - 1
      /\ \A j \in 1 .. i - 1 : SubSeq(s, 1, i - 1)[j] = s[j]
  BY <1>1, SubSeqProperties
<1>3. /\ SubSeq(s, 1, i) \in Seq(S) /\ Len(SubSeq(s, 1, i)) = i
      /\ \A j \in 1 .. i : SubSeq(s, 1, i)[j] = s[j]
  BY <1>1, SubSeqProperties
<1> DEFINE a == SubSeq(s, 1, i - 1)
           b == SubSeq(s, 1, i)
<1>4. /\ Append(a, s[i]) \in Seq(S) /\ Len(Append(a, s[i])) = i
      /\ \A j \in 1 .. i : Append(a, s[i])[j] = s[j]
  BY <1>1, <1>2, AppendProperties
<1> HIDE DEF a, b
<1>5. b = Append(a, s[i])
  BY <1>3, <1>4, SeqEqual DEF b
<1> QED
  BY <1>1, <1>2, <1>5 DEF a, b

\* What ResetClass keeps of the first n entries, entry by entry.
Keeps(g, n, w, c) ==
  g = [i \in 0 .. n |->
        IF i = 0 THEN <<>> ELSE IF w[i] = c THEN g[i - 1] ELSE Append(g[i - 1], w[i])]

\* The recursion of ResetClass has a solution: there is no first n without one.
LEMMA KeptExists ==
  ASSUME NEW n \in Nat, NEW w, NEW c
  PROVE  \E g : Keeps(g, n, w, c)
<1> DEFINE T == {m \in Nat : ~ \E g : Keeps(g, m, w, c)}
<1>1. SUFFICES ASSUME T # {} PROVE FALSE
  OBVIOUS
<1>2. PICK m \in T : \A k \in T : m <= k
  BY <1>1, LeastOf
<1>3. CASE m = 0
  <2>1. Keeps([i \in 0 .. 0 |-> <<>>], 0, w, c)
    BY DEF Keeps
  <2> QED
    BY <1>3, <2>1
<1>4. CASE m # 0
  <2>1. m \in Nat /\ m - 1 \in Nat /\ m - 1 \notin T
    BY <1>2, <1>4
  <2>2. PICK g : Keeps(g, m - 1, w, c)
    BY <2>1
  <2> DEFINE h == [i \in 0 .. m |->
                     IF i < m THEN g[i]
                     ELSE IF w[m] = c THEN g[m - 1] ELSE Append(g[m - 1], w[m])]
  <2>3. \A i \in 0 .. m - 1 :
          g[i] = IF i = 0 THEN <<>> ELSE IF w[i] = c THEN g[i - 1] ELSE Append(g[i - 1], w[i])
    BY <2>2 DEF Keeps
  <2>4. \A i \in 0 .. m :
          h[i] = IF i = 0 THEN <<>> ELSE IF w[i] = c THEN h[i - 1] ELSE Append(h[i - 1], w[i])
    <3> SUFFICES ASSUME NEW i \in 0 .. m
                 PROVE  h[i] = IF i = 0 THEN <<>>
                               ELSE IF w[i] = c THEN h[i - 1] ELSE Append(h[i - 1], w[i])
      OBVIOUS
    <3>1. CASE i = m
      BY <2>1, <3>1
    <3>2. CASE i < m
      BY <2>1, <2>3, <3>2
    <3> QED
      BY <2>1, <3>1, <3>2
  <2>5. h = [i \in 0 .. m |-> h[i]]
    OBVIOUS
  <2> HIDE DEF h
  <2>6. Keeps(h, m, w, c)
    BY <2>4, <2>5 DEF Keeps
  <2> QED
    BY <2>6
<1> QED
  BY <1>3, <1>4

\* Resetting a class leaves no entry of it and adds none of another.
LEMMA Resets ==
  ASSUME NEW S, NEW w \in Seq(S), NEW c
  PROVE  /\ ResetClass(w, c) \in Seq(S)
         /\ Len(ResetClass(w, c)) <= Len(w)
         /\ Count(ResetClass(w, c), c) = 0
         /\ \A d : Count(ResetClass(w, c), d) <= Count(w, d)
<1> DEFINE g == CHOOSE f : Keeps(f, Len(w), w, c)
           Good(s, i) == /\ s \in Seq(S) /\ Len(s) <= i
                         /\ Count(s, c) = 0
                         /\ \A d : Count(s, d) <= Count(SubSeq(w, 1, i), d)
           T == {i \in Nat : i <= Len(w) /\ ~ Good(g[i], i)}
<1>1. Len(w) \in Nat
  BY LenProperties
<1>2. ResetClass(w, c) = g[Len(w)]
  BY DEF ResetClass, Keeps
<1>3. Keeps(g, Len(w), w, c)
  BY <1>1, KeptExists
<1> HIDE DEF g
<1>4. \A i \in 0 .. Len(w) :
        g[i] = IF i = 0 THEN <<>> ELSE IF w[i] = c THEN g[i - 1] ELSE Append(g[i - 1], w[i])
  BY <1>1, <1>3 DEF Keeps
<1>5. Good(<<>>, 0)
  <2>1. <<>> \in Seq(S) /\ Len(<<>>) = 0
    BY EmptySeq
  <2>2. \A d : Count(<<>>, d) = 0
    <3>1. \A d : {i \in DOMAIN <<>> : <<>>[i] = d} = {}
      OBVIOUS
    <3> QED
      BY <3>1, FS_EmptySet DEF Count
  <2>3. SubSeq(w, 1, 0) = <<>>
    BY SubSeqEmpty
  <2>4. \A d : Count(<<>>, d) <= Count(SubSeq(w, 1, 0), d)
    <3>1. ASSUME NEW d PROVE Count(SubSeq(w, 1, 0), d) = Count(<<>>, d)
      BY <2>3, Zenon
    <3> QED
      BY <2>2, <3>1
  <2>5. Len(<<>>) <= 0 /\ Count(<<>>, c) = 0
    BY <2>1, <2>2
  <2> QED
    BY <2>1, <2>4, <2>5
<1>6. ASSUME NEW i \in 1 .. Len(w), Good(g[i - 1], i - 1)
      PROVE  Good(g[i], i)
  <2> DEFINE s == g[i - 1]
             a == SubSeq(w, 1, i - 1)
             b == SubSeq(w, 1, i)
  <2>1. a \in Seq(S) /\ w[i] \in S /\ b = Append(a, w[i])
    BY PrefixStep
  <2>2. g[i] = IF w[i] = c THEN s ELSE Append(s, w[i])
    BY <1>1, <1>4
  <2>3. s \in Seq(S) /\ Len(s) <= i - 1 /\ Count(s, c) = 0 /\ \A d : Count(s, d) <= Count(a, d)
    BY <1>6
  <2> HIDE DEF s, a, b
  <2>4. \A d : Count(s, d) \in Nat /\ Count(a, d) \in Nat
    BY <2>1, <2>3, Counts
  <2>5. \A d : Count(b, d) = IF w[i] = d THEN Count(a, d) + 1 ELSE Count(a, d)
    BY <2>1, CountAppend
  <2>6. \A d : Count(Append(s, w[i]), d) = IF w[i] = d THEN Count(s, d) + 1 ELSE Count(s, d)
    BY <2>1, <2>3, CountAppend
  <2>7. Append(s, w[i]) \in Seq(S) /\ Len(Append(s, w[i])) = Len(s) + 1 /\ Len(s) \in Nat
    BY <2>1, <2>3, AppendProperties, LenProperties
  <2>8. g[i] \in Seq(S) /\ Len(g[i]) <= i
    BY <1>1, <2>2, <2>3, <2>7
  <2>9. Count(g[i], c) = 0
    BY <2>2, <2>3, <2>6
  <2>10. \A d : Count(g[i], d) <= Count(b, d)
    BY <2>2, <2>3, <2>4, <2>5, <2>6
  <2> QED
    BY <2>8, <2>9, <2>10 DEF b
<1>7. T = {}
  <2> SUFFICES ASSUME T # {} PROVE FALSE
    OBVIOUS
  <2>1. PICK m \in T : \A k \in T : m <= k
    BY LeastOf
  <2>2. m \in 0 .. Len(w) /\ ~ Good(g[m], m) /\ m \in Nat
    BY <1>1, <2>1
  <2> HIDE DEF Good
  <2>3. m # 0
    BY <1>1, <1>4, <1>5, <2>2
  <2>4. m - 1 \notin T /\ m - 1 \in Nat /\ m - 1 <= Len(w)
    BY <1>1, <2>1, <2>2, <2>3
  <2>5. Good(g[m - 1], m - 1)
    BY <2>4
  <2> QED
    BY <1>1, <1>6, <2>2, <2>3, <2>5
<1>8. Good(g[Len(w)], Len(w))
  BY <1>1, <1>7
<1> QED
  BY <1>2, <1>8, SubSeqFull

\* The short sequences of TypeOK.
LEMMA ShortSeq ==
  ASSUME NEW S, NEW s \in Seq(S), NEW n \in Nat, Len(s) <= n
  PROVE  s \in UNION {[1..m -> S] : m \in 0..n}
<1>1. Len(s) \in 0 .. n /\ s \in [1..Len(s) -> S]
  BY LenProperties
<1> QED
  BY <1>1

----------------------------------------------------------------------------
(* The operators of the loop *)

ClassSeqs == Seq(Classes \cup {"ok"})

\* The classes of a batch, as Record appends them.
ClassesOf(batch) == [i \in DOMAIN batch |-> ClassOf(batch[i])]

\* The settings of the loop, as the proofs use them.
LEMMA Constants ==
  /\ WindowSize \in Nat /\ Threshold \in Nat /\ DeadLoopWindow \in Nat
  /\ Cap \in Nat /\ MaxBatch \in Nat /\ MaxForced \in Nat
  /\ WindowSize # 0 /\ Threshold # 0 /\ DeadLoopWindow # 0 /\ Cap # 0
  /\ Threshold <= WindowSize /\ Threshold <= DeadLoopWindow
BY SettingsAssumption

\* Every result has a class or counts as "ok", never as another class.
LEMMA ClassOfResult ==
  ASSUME NEW r \in Results
  PROVE  /\ ClassOf(r) \in Classes \cup {"ok"}
         /\ \A c \in Classes : ClassOf(r) = c <=> r.outcome = c
BY ClassesAssumption DEF ClassOf, Results, Outcomes

\* A batch is a sequence of results, and so are their classes.
LEMMA BatchOf ==
  ASSUME NEW batch \in Batches
  PROVE  /\ batch \in Seq(Results) /\ Len(batch) >= 1
         /\ ClassesOf(batch) \in ClassSeqs /\ Len(ClassesOf(batch)) = Len(batch)
<1>1. PICK n \in 1 .. MaxBatch : batch \in [1 .. n -> Results]
  BY DEF Batches
<1>2. n \in Nat /\ n >= 1
  BY Constants
<1>3. batch \in Seq(Results) /\ Len(batch) = n
  BY <1>1, <1>2
<1>4. ClassesOf(batch) \in [1 .. n -> Classes \cup {"ok"}]
  BY <1>1, ClassOfResult DEF ClassesOf
<1>5. ClassesOf(batch) \in ClassSeqs /\ Len(ClassesOf(batch)) = n
  BY <1>2, <1>4 DEF ClassSeqs
<1> QED
  BY <1>2, <1>3, <1>5

\* The errors of a class in a batch are its records of the class.
LEMMA BatchCount ==
  ASSUME NEW batch \in Batches, NEW c \in Classes
  PROVE  /\ Count(ClassesOf(batch), c) = Cardinality({i \in DOMAIN batch : batch[i].outcome = c})
         /\ Count(ClassesOf(batch), c) \in Nat
<1>1. \A i \in DOMAIN batch : batch[i] \in Results
  BY BatchOf, LenProperties, ElementOfSeq
<1>2. DOMAIN ClassesOf(batch) = DOMAIN batch
  BY DEF ClassesOf
<1>3. {i \in DOMAIN ClassesOf(batch) : ClassesOf(batch)[i] = c}
        = {i \in DOMAIN batch : batch[i].outcome = c}
  BY <1>1, <1>2, ClassOfResult DEF ClassesOf
<1>4. Count(ClassesOf(batch), c) \in Nat
  BY BatchOf, Counts DEF ClassSeqs
<1> QED
  BY <1>3, <1>4 DEF Count

\* What a turn adds to the window and to the history.
LEMMA Recording ==
  ASSUME NEW w \in ClassSeqs, NEW h \in Seq(Results), NEW batch \in Batches
  PROVE  /\ Record(w, batch) = Suffix(w \o ClassesOf(batch), WindowSize)
         /\ w \o ClassesOf(batch) \in ClassSeqs /\ h \o batch \in Seq(Results)
         /\ Record(w, batch) \in ClassSeqs /\ Len(Record(w, batch)) <= WindowSize
         /\ Suffix(h \o batch, DeadLoopWindow) \in Seq(Results)
         /\ Len(Suffix(h \o batch, DeadLoopWindow)) = AtMost(Len(h) + Len(batch), DeadLoopWindow)
<1>1. w \o ClassesOf(batch) \in ClassSeqs /\ h \o batch \in Seq(Results)
  BY BatchOf, ConcatProperties DEF ClassSeqs
<1>2. Record(w, batch) = Suffix(w \o ClassesOf(batch), WindowSize)
  BY DEF Record, ClassesOf
<1>3. Len(h \o batch) = Len(h) + Len(batch)
  BY BatchOf, ConcatProperties
<1>4. /\ Record(w, batch) \in ClassSeqs
      /\ Len(Record(w, batch)) = AtMost(Len(w \o ClassesOf(batch)), WindowSize)
  BY <1>1, <1>2, Constants, SuffixOf DEF ClassSeqs
<1>5. /\ Suffix(h \o batch, DeadLoopWindow) \in Seq(Results)
      /\ Len(Suffix(h \o batch, DeadLoopWindow)) = AtMost(Len(h \o batch), DeadLoopWindow)
  BY <1>1, Constants, SuffixOf
<1>6. Len(w \o ClassesOf(batch)) \in Nat
  BY <1>1, LenProperties DEF ClassSeqs
<1> QED
  BY <1>1, <1>2, <1>3, <1>4, <1>5, <1>6, Constants DEF AtMost

\* The window counts at most what it held and what the batch brings.
LEMMA RecordCount ==
  ASSUME NEW w \in ClassSeqs, NEW batch \in Batches, NEW c \in Classes
  PROVE  /\ Count(w, c) \in Nat /\ Count(Record(w, batch), c) \in Nat
         /\ Count(Record(w, batch), c)
              <= Count(w, c) + Cardinality({i \in DOMAIN batch : batch[i].outcome = c})
<1> DEFINE m == ClassesOf(batch)
<1>1. m \in ClassSeqs /\ Count(m, c) = Cardinality({i \in DOMAIN batch : batch[i].outcome = c})
  BY BatchOf, BatchCount
<1>2. Record(w, batch) = Suffix(w \o m, WindowSize)
  BY DEF Record, ClassesOf
<1> HIDE DEF m
<1>3. w \o m \in ClassSeqs
  BY <1>1, ConcatProperties DEF ClassSeqs
<1>4. Suffix(w \o m, WindowSize) \in ClassSeqs
  BY <1>3, SuffixOf, Constants DEF ClassSeqs
<1>5. Count(Suffix(w \o m, WindowSize), c) <= Count(w \o m, c)
  BY <1>3, CountSuffix, Constants DEF ClassSeqs
<1>6. Count(w \o m, c) <= Count(w, c) + Count(m, c)
  BY <1>1, CountConcat DEF ClassSeqs
<1>7. /\ Count(w, c) \in Nat /\ Count(m, c) \in Nat /\ Count(w \o m, c) \in Nat
      /\ Count(Suffix(w \o m, WindowSize), c) \in Nat
  BY <1>1, <1>3, <1>4, Counts DEF ClassSeqs
<1> QED
  BY <1>1, <1>2, <1>5, <1>6, <1>7

\* FirstOver finds a class that is over the threshold.
LEMMA FirstIsOver ==
  ASSUME NEW w \in ClassSeqs, Over(w) # {}
  PROVE  FirstOver(w) \in Over(w)
<1> DEFINE T == {k \in Nat : k \in DOMAIN w /\ w[k] \in Over(w)}
<1>1. DOMAIN w = 1 .. Len(w) /\ Len(w) \in Nat
  BY LenProperties DEF ClassSeqs
<1>2. T # {}
  <2>1. PICK c \in Over(w) : TRUE
    OBVIOUS
  <2>2. c \in Classes /\ Count(w, c) >= Threshold
    BY <2>1 DEF Over
  <2>3. {i \in DOMAIN w : w[i] = c} # {}
    BY <2>2, FS_EmptySet, Constants DEF Count
  <2> QED
    BY <1>1, <2>1, <2>3
<1>3. PICK m \in T : \A k \in T : m <= k
  BY <1>2, LeastOf
<1>4. m \in DOMAIN w /\ w[m] \in Over(w) /\ \A j \in 1 .. m - 1 : w[j] \notin Over(w)
  BY <1>1, <1>3
<1> QED
  BY <1>4 DEF FirstOver

----------------------------------------------------------------------------
(* The two histories agree *)

\* The results of the dead-loop history are the newest entries of the window.
Aligned(w, h) ==
  /\ Len(h) <= Len(w)
  /\ \A i \in 1 .. Len(h) : w[Len(w) - Len(h) + i] = ClassOf(h[i])

\* Of a longer window and a shorter history the newest entries still agree.
LEMMA SuffixAligns ==
  ASSUME NEW W \in ClassSeqs, NEW H \in Seq(Results), NEW n \in Nat, NEW k \in Nat,
         k <= n, Aligned(W, H)
  PROVE  Aligned(Suffix(W, n), Suffix(H, k))
<1> DEFINE V == Suffix(W, n)
           G == Suffix(H, k)
<1>1. Len(V) = AtMost(Len(W), n) /\ \A i \in 1 .. Len(V) : V[i] = W[Len(W) - Len(V) + i]
  BY SuffixOf DEF ClassSeqs
<1>2. Len(G) = AtMost(Len(H), k) /\ \A i \in 1 .. Len(G) : G[i] = H[Len(H) - Len(G) + i]
  BY SuffixOf
<1>3. Len(W) \in Nat /\ Len(H) \in Nat
  BY LenProperties DEF ClassSeqs
<1> HIDE DEF V, G
<1>4. /\ Len(G) <= Len(V) /\ Len(G) \in Nat /\ Len(V) \in Nat
      /\ Len(G) <= Len(H) /\ Len(V) <= Len(W)
  BY <1>1, <1>2, <1>3 DEF Aligned, AtMost
<1>5. ASSUME NEW i \in 1 .. Len(G)
      PROVE  V[Len(V) - Len(G) + i] = ClassOf(G[i])
  <2>1. Len(V) - Len(G) + i \in 1 .. Len(V) /\ Len(H) - Len(G) + i \in 1 .. Len(H)
    BY <1>3, <1>4
  <2>2. /\ Len(W) - Len(V) + (Len(V) - Len(G) + i) = Len(W) - Len(G) + i
        /\ Len(W) - Len(H) + (Len(H) - Len(G) + i) = Len(W) - Len(G) + i
    BY <1>3, <1>4
  <2>3. V[Len(V) - Len(G) + i] = W[Len(W) - Len(G) + i]
    BY <1>1, <2>1, <2>2
  <2>4. W[Len(W) - Len(H) + (Len(H) - Len(G) + i)] = ClassOf(H[Len(H) - Len(G) + i])
    BY <2>1 DEF Aligned
  <2> QED
    BY <1>2, <2>2, <2>3, <2>4
<1> QED
  BY <1>4, <1>5 DEF Aligned, V, G

\* A turn keeps them so, when the window is the longer one.
LEMMA RecordingAligns ==
  ASSUME NEW w \in ClassSeqs, NEW h \in Seq(Results), NEW batch \in Batches,
         DeadLoopWindow <= WindowSize, Aligned(w, h)
  PROVE  Aligned(Record(w, batch), Suffix(h \o batch, DeadLoopWindow))
<1> DEFINE m == ClassesOf(batch)
           W == w \o m
           H == h \o batch
<1>1. /\ m \in ClassSeqs /\ batch \in Seq(Results) /\ Len(m) = Len(batch) /\ Len(batch) \in Nat
      /\ Len(w) \in Nat /\ Len(h) \in Nat
  BY BatchOf, LenProperties DEF ClassSeqs
<1>2. \A i \in 1 .. Len(batch) : m[i] = ClassOf(batch[i])
  BY <1>1, LenProperties DEF ClassesOf
<1> HIDE DEF m
<1>3. /\ W \in ClassSeqs /\ Len(W) = Len(w) + Len(m)
      /\ \A i \in 1 .. Len(w) + Len(m) : W[i] = IF i <= Len(w) THEN w[i] ELSE m[i - Len(w)]
  BY <1>1, ConcatProperties DEF ClassSeqs
<1>4. /\ H \in Seq(Results) /\ Len(H) = Len(h) + Len(batch)
      /\ \A i \in 1 .. Len(h) + Len(batch) : H[i] = IF i <= Len(h) THEN h[i] ELSE batch[i - Len(h)]
  BY <1>1, ConcatProperties
<1>5. Record(w, batch) = Suffix(W, WindowSize)
  BY DEF Record, ClassesOf, m
<1> HIDE DEF W, H
<1>6. Aligned(W, H)
  <2>1. Len(H) <= Len(W)
    BY <1>1, <1>3, <1>4 DEF Aligned
  <2>2. ASSUME NEW i \in 1 .. Len(H)
        PROVE  W[Len(W) - Len(H) + i] = ClassOf(H[i])
    <3>1. CASE i <= Len(h)
      <4>1. w[Len(w) - Len(h) + i] = ClassOf(h[i])
        BY <1>1, <3>1 DEF Aligned
      <4>2. H[i] = h[i]
        BY <1>1, <1>4, <3>1
      <4>3. Len(W) - Len(H) + i = Len(w) - Len(h) + i /\ Len(w) - Len(h) + i \in 1 .. Len(w)
        BY <1>1, <1>3, <1>4, <3>1 DEF Aligned
      <4>4. W[Len(w) - Len(h) + i] = w[Len(w) - Len(h) + i]
        BY <1>1, <1>3, <4>3
      <4> QED
        BY <4>1, <4>2, <4>3, <4>4
    <3>2. CASE i > Len(h)
      <4> DEFINE j == i - Len(h)
      <4>1. /\ j \in 1 .. Len(batch) /\ Len(W) - Len(H) + i = Len(w) + j
            /\ Len(w) + j \in 1 .. Len(w) + Len(m)
            /\ ~ (Len(w) + j <= Len(w)) /\ (Len(w) + j) - Len(w) = j
        BY <1>1, <1>3, <1>4, <3>2
      <4>2. H[i] = batch[j]
        BY <1>1, <1>4, <3>2
      <4> HIDE DEF j
      <4>3. W[Len(w) + j] = m[j]
        BY <1>3, <4>1
      <4>4. m[j] = ClassOf(batch[j])
        BY <1>2, <4>1
      <4> QED
        BY <4>1, <4>2, <4>3, <4>4
    <3> QED
      BY <1>1, <1>4, <3>1, <3>2
  <2> QED
    BY <2>1, <2>2 DEF Aligned
<1> QED
  BY <1>3, <1>4, <1>5, <1>6, SuffixAligns, Constants DEF H

\* So the window counts every error of the history.
LEMMA AlignedCount ==
  ASSUME NEW w \in ClassSeqs, NEW h \in Seq(Results), Aligned(w, h), NEW c \in Classes
  PROVE  Cardinality({i \in DOMAIN h : h[i].outcome = c}) <= Count(w, c)
<1> DEFINE A == {i \in DOMAIN h : h[i].outcome = c}
           B == {i \in DOMAIN w : w[i] = c}
           k == Len(w) - Len(h)
<1>1. Len(w) \in Nat /\ Len(h) \in Nat /\ DOMAIN w = 1 .. Len(w) /\ DOMAIN h = 1 .. Len(h)
  BY LenProperties DEF ClassSeqs
<1>2. \A i \in 1 .. Len(h) : h[i] \in Results
  BY ElementOfSeq
<1>3. \A i \in A : ClassOf(h[i]) = c
  BY <1>1, <1>2, ClassOfResult
<1>4. \A i \in A : i + k \in 1 .. Len(w) /\ w[k + i] = c
  BY <1>1, <1>3 DEF Aligned
<1>5. \A i \in A : i + k \in B
  BY <1>1, <1>4
<1>6. A \in SUBSET Int /\ k \in Int
  BY <1>1
<1>7. IsFiniteSet(B)
  BY Counts DEF ClassSeqs
<1> HIDE DEF A, B, k
<1>8. Cardinality(A) <= Cardinality(B)
  BY <1>5, <1>6, <1>7, Shifted
<1> QED
  BY <1>8 DEF Count, A, B

----------------------------------------------------------------------------
(* The inductive invariant *)

ShapeOK ==
  /\ mode \in {"think", "clarify", "stopped"}
  /\ iteration \in 1 .. Cap + 1
  /\ window \in ClassSeqs /\ Len(window) <= WindowSize
  /\ recent \in Seq(Results) /\ Len(recent) <= DeadLoopWindow
  /\ forced \in [Classes -> 0..MaxForced]
  /\ fired \in Classes \cup {"none"}
  /\ stop \in {"none", "cost_exhausted", "end_turn", "llm_timeout", "dead_loop",
               "stagnation", "forced_clarify_exhausted", "forced_clarify_timeout"}
  /\ hasClarify \in BOOLEAN
  /\ answered \in [Classes -> Nat]
  /\ fresh \in [Classes -> 0..Threshold]
  /\ since \in 0..DeadLoopWindow

\* A run that has not stopped has no reason to, and a pending clarification a class.
ModeInv ==
  /\ mode # "stopped" => stop = "none"
  /\ mode = "clarify" => fired \in Classes

\* The dead-loop history is the end of the window, unless it is the longer one.
AlignInv == DeadLoopWindow <= WindowSize => Aligned(window, recent)

\* What either history holds has arrived since the answer that wiped it.
SinceInv == Len(recent) <= since
FreshInv == \A c \in Classes : AtMost(Count(window, c), Threshold) <= fresh[c]

\* Of the forced clarifications of a class all are answered but the pending one
\* and the one that timed out.
Pending(c) == IF mode = "clarify" /\ fired = c THEN 1 ELSE 0
AskInv ==
  \A c \in Classes :
    /\ answered[c] + Pending(c) <= forced[c]
    /\ hasClarify /\ stop # "forced_clarify_timeout" => forced[c] = answered[c] + Pending(c)

IInv ==
  /\ ShapeOK /\ ModeInv /\ AlignInv /\ SinceInv /\ FreshInv /\ AskInv
  /\ ErrorsReachUserFirst /\ ClarifyNeedsFreshErrors
  /\ ExhaustedAfterAnswers /\ FullWindowAfterAnswer

----------------------------------------------------------------------------
(* A turn with tool calls *)

\* The ways a turn can go on: with no class over the threshold, giving a class
\* up, asking about it, or with nobody to ask.
Quiet(h)      == Over(window') = {} /\ CheckDeadLoop(h) /\ UNCHANGED <<forced, fired>>
GivesUp(c)    == ~ MayForce(c) /\ StopWith("forced_clarify_exhausted") /\ fired' = c /\ UNCHANGED forced
Asks(c)       == /\ MayForce(c) /\ hasClarify
                 /\ forced' = [forced EXCEPT ![c] = @ + 1]
                 /\ mode' = "clarify" /\ fired' = c /\ UNCHANGED stop
NobodyIsAsked(c, h) == /\ MayForce(c) /\ ~ hasClarify
                       /\ forced' = [forced EXCEPT ![c] = @ + 1]
                       /\ CheckDeadLoop(h) /\ UNCHANGED fired

\* What a turn does to the histories, whichever way it goes on.
LEMMA TurnRecords ==
  ASSUME IInv, NEW batch \in Batches, RunTools(batch)
  PROVE  /\ mode = "think" /\ stop = "none" /\ iteration' \in 1 .. Cap + 1
         /\ window' \in ClassSeqs /\ Len(window') <= WindowSize
         /\ recent' \in Seq(Results) /\ Len(recent') <= DeadLoopWindow
         /\ fresh' \in [Classes -> 0..Threshold] /\ since' \in 0..DeadLoopWindow
         /\ Len(recent') <= since'
         /\ \A c \in Classes : AtMost(Count(window', c), Threshold) <= fresh'[c]
         /\ DeadLoopWindow <= WindowSize => Aligned(window', recent')
         /\ UNCHANGED <<hasClarify, answered>>
<1> USE DEF IInv, ShapeOK, ModeInv
<1>1. mode = "think" /\ stop = "none" /\ UNCHANGED <<hasClarify, answered>>
  BY DEF RunTools
<1>2. iteration' \in 1 .. Cap + 1
  BY Constants DEF RunTools, NextIteration
<1>3. /\ window' = Record(window, batch) /\ recent' = Suffix(recent \o batch, DeadLoopWindow)
      /\ since' = AtMost(since + Len(batch), DeadLoopWindow)
  BY DEF RunTools
<1>4. /\ window' \in ClassSeqs /\ Len(window') <= WindowSize
      /\ recent' \in Seq(Results)
      /\ Len(recent') = AtMost(Len(recent) + Len(batch), DeadLoopWindow)
  BY <1>3, Recording
<1>5. /\ Len(recent) \in Nat /\ Len(batch) \in Nat /\ since \in Nat /\ DeadLoopWindow \in Nat
      /\ Len(recent) <= since
  BY BatchOf, LenProperties, Constants DEF SinceInv
<1>6. /\ Len(recent') <= DeadLoopWindow /\ since' \in 0..DeadLoopWindow
      /\ Len(recent') <= since'
  BY <1>3, <1>4, <1>5 DEF AtMost
<1>7. ASSUME NEW c \in Classes
      PROVE  /\ fresh'[c] \in 0..Threshold
             /\ AtMost(Count(window', c), Threshold) <= fresh'[c]
  <2> DEFINE n == Cardinality({i \in DOMAIN batch : batch[i].outcome = c})
  <2>1. n \in Nat
    BY BatchCount
  <2>2. fresh'[c] = AtMost(fresh[c] + n, Threshold)
    BY DEF RunTools
  <2>3. Count(window, c) \in Nat /\ Count(window', c) \in Nat /\ Count(window', c) <= Count(window, c) + n
    BY <1>3, RecordCount
  <2>4. AtMost(Count(window, c), Threshold) <= fresh[c] /\ fresh[c] \in 0..Threshold
    BY DEF FreshInv
  <2> HIDE DEF n
  <2> QED
    BY <2>1, <2>2, <2>3, <2>4, Constants DEF AtMost
<1>8. fresh' \in [Classes -> 0..Threshold]
  <2>1. fresh' = [c \in Classes |-> fresh'[c]]
    BY DEF RunTools
  <2> QED
    BY <1>7, <2>1
<1>9. DeadLoopWindow <= WindowSize => Aligned(window', recent')
  BY <1>3, RecordingAligns DEF AlignInv
<1> QED
  BY <1>1, <1>2, <1>4, <1>6, <1>7, <1>8, <1>9

\* A class a turn acts on is over the threshold, with as many fresh errors.
LEMMA TurnJudges ==
  ASSUME IInv, NEW batch \in Batches, RunTools(batch)
  PROVE  \/ Quiet(recent')
         \/ \E c \in Classes : /\ fresh'[c] >= Threshold
                               /\ GivesUp(c) \/ Asks(c) \/ NobodyIsAsked(c, recent')
<1>1. Judge(window', recent')
  BY DEF RunTools
<1>2. CASE Over(window') = {}
  BY <1>1, <1>2 DEF Judge, Quiet
<1>3. CASE Over(window') # {}
  <2> DEFINE c == FirstOver(window')
  <2>1. c \in Over(window')
    BY <1>3, TurnRecords, FirstIsOver
  <2>2. HandleFired(c, recent')
    BY <1>1, <1>3 DEF Judge
  <2> HIDE DEF c
  <2>3. c \in Classes /\ Count(window', c) >= Threshold
    BY <2>1 DEF Over
  <2>4. Count(window', c) \in Nat
    BY TurnRecords, Counts DEF ClassSeqs
  <2>5. fresh'[c] >= Threshold
    <3>1. AtMost(Count(window', c), Threshold) <= fresh'[c] /\ fresh'[c] \in 0..Threshold
      BY <2>3, TurnRecords
    <3> QED
      BY <2>3, <2>4, <3>1, Constants DEF AtMost
  <2>6. GivesUp(c) \/ Asks(c) \/ NobodyIsAsked(c, recent')
    BY <2>2 DEF HandleFired, GivesUp, Asks, NobodyIsAsked
  <2> QED
    BY <2>3, <2>5, <2>6
<1> QED
  BY <1>2, <1>3

\* The dead-loop check stops only a run whose history is full.
LEMMA DeadLoopIsFull ==
  ASSUME NEW h \in Seq(Results), CheckDeadLoop(h)
  PROVE  \/ UNCHANGED <<mode, stop>>
         \/ mode' = "stopped" /\ stop' \in {"dead_loop", "stagnation"} /\ Len(h) >= DeadLoopWindow
<1>1. Len(h) \in Nat /\ DeadLoopWindow \in Nat
  BY LenProperties, Constants
<1> QED
  BY <1>1 DEF CheckDeadLoop, StopWith, StopSignal

\* A turn that asks nobody keeps the questions it has asked, and a run it ends
\* with a dead loop or stagnation has no class over the threshold to ask about.
LEMMA QuietTurn ==
  ASSUME IInv, NEW batch \in Batches, RunTools(batch), Quiet(recent')
  PROVE  IInv'
<1> USE DEF IInv, ShapeOK, ModeInv
<1>1. /\ mode = "think" /\ stop = "none" /\ UNCHANGED <<hasClarify, answered, forced, fired>>
      /\ Over(window') = {}
  BY TurnRecords DEF Quiet
<1>2. \/ UNCHANGED <<mode, stop>>
      \/ mode' = "stopped" /\ stop' \in {"dead_loop", "stagnation"} /\ Len(recent') >= DeadLoopWindow
  BY TurnRecords, DeadLoopIsFull DEF Quiet
<1>3. ShapeOK' /\ ModeInv'
  BY <1>1, <1>2, TurnRecords
<1>4. AlignInv' /\ SinceInv' /\ FreshInv'
  BY TurnRecords DEF AlignInv, SinceInv, FreshInv
<1>5. AskInv'
  BY <1>1, <1>2 DEF AskInv, Pending
<1>6. ErrorsReachUserFirst'
  <2> SUFFICES ASSUME DeadLoopWindow <= WindowSize, NEW c \in Classes
               PROVE  Cardinality({i \in DOMAIN recent' : recent'[i].outcome = c}) < Threshold
    BY DEF ErrorsReachUserFirst
  <2>1. Cardinality({i \in DOMAIN recent' : recent'[i].outcome = c}) <= Count(window', c)
    BY TurnRecords, AlignedCount
  <2>2. ~ (Count(window', c) >= Threshold) /\ Count(window', c) \in Nat
    BY <1>1, TurnRecords, Counts DEF Over, ClassSeqs
  <2>3. Cardinality({i \in DOMAIN recent' : recent'[i].outcome = c}) \in Nat
    <3>1. recent' \in Seq(Results)
      BY TurnRecords
    <3>2. IsFiniteSet(1 .. Len(recent')) /\ DOMAIN recent' = 1 .. Len(recent')
      BY <3>1, LenProperties, FS_Interval
    <3> QED
      BY <3>2, FS_Subset, FS_CardinalityType
  <2> QED
    BY <2>1, <2>2, <2>3, Constants
<1>7. ClarifyNeedsFreshErrors' /\ ExhaustedAfterAnswers'
  BY <1>1, <1>2 DEF ClarifyNeedsFreshErrors, ExhaustedAfterAnswers
<1>8. FullWindowAfterAnswer'
  BY <1>1, <1>2, TurnRecords, Constants DEF FullWindowAfterAnswer
<1> QED
  BY <1>3, <1>4, <1>5, <1>6, <1>7, <1>8

\* A turn that acts on a class finds it with Threshold fresh errors.
LEMMA ActingTurn ==
  ASSUME IInv, NEW batch \in Batches, RunTools(batch), NEW c \in Classes,
         fresh'[c] >= Threshold, GivesUp(c) \/ Asks(c) \/ NobodyIsAsked(c, recent')
  PROVE  IInv'
<1> USE DEF IInv, ShapeOK, ModeInv
<1>1. mode = "think" /\ stop = "none" /\ UNCHANGED <<hasClarify, answered>>
  BY TurnRecords
<1>2. AlignInv' /\ SinceInv' /\ FreshInv'
  BY TurnRecords DEF AlignInv, SinceInv, FreshInv
<1>3. CASE GivesUp(c)
  <2>1. mode' = "stopped" /\ stop' = "forced_clarify_exhausted" /\ fired' = c /\ forced' = forced
    BY <1>3 DEF GivesUp, StopWith
  <2>2. forced[c] = MaxForced
    BY <1>3, Constants DEF GivesUp, MayForce
  <2>3. ShapeOK' /\ ModeInv'
    BY <2>1, TurnRecords
  <2>4. AskInv'
    BY <1>1, <2>1 DEF AskInv, Pending
  <2>5. hasClarify => answered[c] = MaxForced
    BY <1>1, <2>2 DEF AskInv, Pending
  <2>6. ErrorsReachUserFirst' /\ ClarifyNeedsFreshErrors' /\ FullWindowAfterAnswer'
    BY <2>1 DEF ErrorsReachUserFirst, ClarifyNeedsFreshErrors, FullWindowAfterAnswer
  <2>7. ExhaustedAfterAnswers'
    BY <1>1, <2>1, <2>5 DEF ExhaustedAfterAnswers
  <2> QED
    BY <1>2, <2>3, <2>4, <2>6, <2>7
<1>4. CASE Asks(c)
  <2>1. /\ mode' = "clarify" /\ fired' = c /\ stop' = "none"
        /\ forced' = [forced EXCEPT ![c] = @ + 1] /\ forced[c] < MaxForced
    BY <1>1, <1>4 DEF Asks, MayForce
  <2>2. ShapeOK' /\ ModeInv'
    <3>1. forced' \in [Classes -> 0..MaxForced]
      BY <2>1, Constants
    <3> QED
      BY <2>1, TurnRecords, Constants, <3>1
  <2>3. AskInv'
    BY <1>1, <2>1 DEF AskInv, Pending
  <2>4. ErrorsReachUserFirst' /\ ExhaustedAfterAnswers' /\ FullWindowAfterAnswer'
    BY <2>1 DEF ErrorsReachUserFirst, ExhaustedAfterAnswers, FullWindowAfterAnswer
  <2>5. ClarifyNeedsFreshErrors'
    BY <2>1 DEF ClarifyNeedsFreshErrors
  <2> QED
    BY <1>2, <2>2, <2>3, <2>4, <2>5
<1>5. CASE NobodyIsAsked(c, recent')
  <2>1. /\ ~ hasClarify /\ fired' = fired
        /\ forced' = [forced EXCEPT ![c] = @ + 1] /\ forced[c] < MaxForced
    BY <1>5 DEF NobodyIsAsked, MayForce
  <2>2. \/ UNCHANGED <<mode, stop>>
        \/ mode' = "stopped" /\ stop' \in {"dead_loop", "stagnation"} /\ Len(recent') >= DeadLoopWindow
    BY <1>5, TurnRecords, DeadLoopIsFull DEF NobodyIsAsked
  <2>3. ShapeOK' /\ ModeInv'
    <3>1. forced' \in [Classes -> 0..MaxForced]
      BY <2>1, Constants
    <3> QED
      BY <1>1, <2>1, <2>2, TurnRecords, Constants, <3>1
  <2>4. AskInv'
    BY <1>1, <2>1, <2>2 DEF AskInv, Pending
  <2>5. ErrorsReachUserFirst' /\ ClarifyNeedsFreshErrors' /\ ExhaustedAfterAnswers'
    BY <1>1, <2>1, <2>2 DEF ErrorsReachUserFirst, ClarifyNeedsFreshErrors, ExhaustedAfterAnswers
  <2>6. FullWindowAfterAnswer'
    BY <1>1, <2>2, TurnRecords, Constants DEF FullWindowAfterAnswer
  <2> QED
    BY <1>2, <2>3, <2>4, <2>5, <2>6
<1> QED
  BY <1>3, <1>4, <1>5

----------------------------------------------------------------------------
(* The other actions *)

\* The answer wipes the class from the window and everything from the history.
LEMMA AnswerStep ==
  ASSUME IInv, ClarifyAnswered
  PROVE  IInv'
<1> USE DEF IInv, ShapeOK, ModeInv
<1>1. /\ mode = "clarify" /\ mode' = "think" /\ stop = "none" /\ fired \in Classes /\ fired' = "none"
      /\ UNCHANGED <<iteration, forced, stop, hasClarify>>
      /\ window' = ResetClass(window, fired) /\ recent' = <<>> /\ since' = 0
      /\ answered' = [answered EXCEPT ![fired] = @ + 1] /\ fresh' = [fresh EXCEPT ![fired] = 0]
  BY DEF ClarifyAnswered, ClearedHistory
<1>2. /\ window' \in ClassSeqs /\ Len(window') <= Len(window)
      /\ Count(window', fired) = 0 /\ \A d : Count(window', d) <= Count(window, d)
  BY <1>1, Resets DEF ClassSeqs
<1>3. Len(window) \in Nat /\ Len(window') \in Nat
  BY <1>2, LenProperties DEF ClassSeqs
<1>4. ShapeOK' /\ ModeInv'
  BY <1>1, <1>2, <1>3, EmptySeq, Constants
<1>5. AlignInv' /\ SinceInv'
  BY <1>1, <1>3, EmptySeq DEF AlignInv, Aligned, SinceInv
<1>6. FreshInv'
  <2> SUFFICES ASSUME NEW d \in Classes
               PROVE  AtMost(Count(window', d), Threshold) <= fresh'[d]
    BY DEF FreshInv
  <2>1. Count(window, d) \in Nat /\ Count(window', d) \in Nat
    BY <1>2, Counts DEF ClassSeqs
  <2>2. CASE d = fired
    BY <1>1, <1>2, <2>2, Constants DEF AtMost
  <2>3. CASE d # fired
    <3>1. AtMost(Count(window, d), Threshold) <= fresh[d] /\ fresh'[d] = fresh[d]
      BY <1>1, <2>3 DEF FreshInv
    <3>2. Count(window', d) <= Count(window, d) /\ fresh[d] \in 0..Threshold
      BY <1>2
    <3> QED
      BY <2>1, <3>1, <3>2, Constants DEF AtMost
  <2> QED
    BY <2>2, <2>3
<1>7. AskInv'
  BY <1>1 DEF AskInv, Pending
<1>8. ErrorsReachUserFirst' /\ ClarifyNeedsFreshErrors' /\ ExhaustedAfterAnswers' /\ FullWindowAfterAnswer'
  BY <1>1 DEF ErrorsReachUserFirst, ClarifyNeedsFreshErrors, ExhaustedAfterAnswers, FullWindowAfterAnswer
<1> QED
  BY <1>4, <1>5, <1>6, <1>7, <1>8

\* The actions that end a run outside a turn change nothing else.
LEMMA EndStep ==
  ASSUME IInv, CostExhausted \/ ModelEnds \/ ClarifyTimeout
  PROVE  IInv'
<1> USE DEF IInv, ShapeOK, ModeInv
<1>1. /\ UNCHANGED <<iteration, window, recent, forced, fired, hasClarify, answered, fresh, since>>
      /\ stop = "none" /\ mode' = "stopped"
      /\ \/ mode = "think" /\ stop' \in {"cost_exhausted", "end_turn", "llm_timeout"}
         \/ mode = "clarify" /\ stop' = "forced_clarify_timeout"
  BY DEF CostExhausted, ModelEnds, ClarifyTimeout, StopWith
<1>2. ShapeOK' /\ ModeInv'
  BY <1>1
<1>3. AlignInv' /\ SinceInv' /\ FreshInv'
  BY <1>1 DEF AlignInv, SinceInv, FreshInv
<1>4. AskInv'
  BY <1>1 DEF AskInv, Pending
<1>5. ErrorsReachUserFirst' /\ ClarifyNeedsFreshErrors' /\ ExhaustedAfterAnswers' /\ FullWindowAfterAnswer'
  BY <1>1 DEF ErrorsReachUserFirst, ClarifyNeedsFreshErrors, ExhaustedAfterAnswers, FullWindowAfterAnswer
<1> QED
  BY <1>2, <1>3, <1>4, <1>5

\* The invariant holds before the first iteration.
LEMMA Initially == Init => IInv
<1> SUFFICES ASSUME Init PROVE IInv
  OBVIOUS
<1> USE DEF Init
<1>1. <<>> \in ClassSeqs /\ <<>> \in Seq(Results) /\ Len(<<>>) = 0
  BY EmptySeq DEF ClassSeqs
<1>2. ShapeOK /\ ModeInv
  BY <1>1, Constants DEF ShapeOK, ModeInv
<1>3. AlignInv /\ SinceInv
  BY <1>1 DEF AlignInv, Aligned, SinceInv
<1>4. FreshInv
  <2>1. \A c : {i \in DOMAIN <<>> : <<>>[i] = c} = {}
    OBVIOUS
  <2>2. \A c : Count(<<>>, c) = 0
    BY <2>1, FS_EmptySet DEF Count
  <2> QED
    BY <2>2, Constants DEF FreshInv, AtMost
<1>5. AskInv
  BY DEF AskInv, Pending
<1>6. ErrorsReachUserFirst /\ ClarifyNeedsFreshErrors /\ ExhaustedAfterAnswers /\ FullWindowAfterAnswer
  BY DEF ErrorsReachUserFirst, ClarifyNeedsFreshErrors, ExhaustedAfterAnswers, FullWindowAfterAnswer
<1> QED
  BY <1>2, <1>3, <1>4, <1>5, <1>6 DEF IInv

\* Every iteration, answer and stop keeps the invariant.
LEMMA Stepwise == IInv /\ [Next]_vars => IInv'
<1> SUFFICES ASSUME IInv, [Next]_vars PROVE IInv'
  OBVIOUS
<1>1. CASE CostExhausted \/ ModelEnds \/ ClarifyTimeout
  BY <1>1, EndStep
<1>2. ASSUME NEW batch \in Batches, RunTools(batch) PROVE IInv'
  BY <1>2, TurnJudges, QuietTurn, ActingTurn
<1>3. CASE ClarifyAnswered
  BY <1>3, AnswerStep
<1>4. CASE UNCHANGED vars
  BY <1>4 DEF vars, IInv, ShapeOK, ModeInv, AlignInv, SinceInv, FreshInv, AskInv, Pending,
              ErrorsReachUserFirst, ClarifyNeedsFreshErrors, ExhaustedAfterAnswers,
              FullWindowAfterAnswer
<1> QED
  BY <1>1, <1>2, <1>3, <1>4 DEF Next

\* The conjunction of the invariants is inductive.
THEOREM Inductive == Spec => []IInv
BY Initially, Stepwise, PTL DEF Spec

----------------------------------------------------------------------------
(* Theorems *)

\* Type correctness of the loop's state.
THEOREM TypeCorrect == Spec => []TypeOK
<1>1. IInv => TypeOK
  <2> SUFFICES ASSUME IInv PROVE TypeOK
    OBVIOUS
  <2> USE DEF IInv, ShapeOK
  <2>1. window \in UNION {[1..n -> Classes \cup {"ok"}] : n \in 0..WindowSize}
    BY ShortSeq, Constants DEF ClassSeqs
  <2>2. recent \in UNION {[1..n -> Results] : n \in 0..DeadLoopWindow}
    BY ShortSeq, Constants
  <2>3. answered \in [Classes -> 0..MaxForced]
    <3>1. ASSUME NEW c \in Classes PROVE answered[c] \in 0..MaxForced
      <4>1. answered[c] + Pending(c) <= forced[c] /\ forced[c] \in 0..MaxForced /\ answered[c] \in Nat
        BY DEF AskInv
      <4> QED
        BY <4>1, Constants DEF Pending
    <3> QED
      BY <3>1
  <2> QED
    BY <2>1, <2>2, <2>3 DEF TypeOK
<1> QED
  BY <1>1, Inductive, PTL

\* No dead loop and no stagnation ends a run while a class of errors has reached
\* the threshold and the user can be asked.
THEOREM RepeatedErrorsReachTheUser == Spec => []ErrorsReachUserFirst
<1>1. IInv => ErrorsReachUserFirst
  BY DEF IInv
<1> QED
  BY <1>1, Inductive, PTL

\* Asking the user is worth it: a class is asked about only with Threshold errors
\* since its last answer, given up only after the user has answered for it MaxForced
\* times, and a dead loop is judged by results since the last answer alone.
THEOREM AnswersAreWorthIt == Spec => []AnswersCount
<1>1. IInv => AnswersCount
  BY DEF IInv, AnswersCount
<1> QED
  BY <1>1, Inductive, PTL
=============================================================================
