----------------------- MODULE GroundedEvaluation_proofs -----------------------
(***************************************************************************)
(* Proofs about what is computed from a saved measurement, for any number  *)
(* of queries, profiles, sources, citations, proposed items and findings:  *)
(* its scores never contradict one another, and a saved report answers for *)
(* everything it was made from.                                            *)
(***************************************************************************)
EXTENDS GroundedEvaluation, FiniteSetTheorems, TLAPS

----------------------------------------------------------------------------
(* Induction over the subsets of a finite set, and over numbers.           *)

\* A family of subsets of a finite set has a minimal member.
LEMMA Minimal ==
    ASSUME NEW S, IsFiniteSet(S), NEW B \in SUBSET (SUBSET S), B # {}
    PROVE  \E s \in B : \A t \in B : t \subseteq s => t = s
  <1> DEFINE R == StrictSubsetOrdering(S)
  <1>1. IsWellFoundedOn(R, SUBSET S)
    BY FS_StrictSubsetOrderingWellFounded, FS_FiniteSubsetsOfFinite
  <1> HIDE DEF R
  <1>2. PICK s \in B : \A t \in B : ~(<<t, s>> \in R)
    BY <1>1, WFMin
  <1>3. \A t \in B : t \subseteq s => t = s
    BY <1>2 DEF R, StrictSubsetOrdering
  <1> QED BY <1>3

\* Every set of numbers has a least one.
LEMMA LeastNumber ==
    ASSUME NEW T \in SUBSET Nat, T # {}
    PROVE  \E m \in T : \A n \in T : m <= n
  <1> DEFINE R == {ss \in Nat \X Nat : ss[1] < ss[2]}
  <1>1. IsWellFoundedOn(R, Nat)
    BY NatLessThanWellFounded DEF OpToRel
  <1> HIDE DEF R
  <1>2. PICK m \in T : \A n \in T : ~(<<n, m>> \in R)
    BY <1>1, WFMin
  <1>3. ASSUME NEW n \in T PROVE m <= n
    <2>1. <<n, m>> \in Nat \X Nat /\ ~ (<<n, m>> \in R)
      BY <1>2
    <2> QED BY <2>1 DEF R
  <1> QED BY <1>3

\* A family that has the empty set, and with a set the set with one element
\* more, has every subset.
LEMMA EverySubset ==
    ASSUME NEW S, IsFiniteSet(S), NEW G, {} \in G,
           \A t \in SUBSET S : \A x \in S \ t : t \in G => t \cup {x} \in G
    PROVE  SUBSET S \subseteq G
  <1> DEFINE B == {s \in SUBSET S : s \notin G}
  <1>1. SUFFICES ASSUME B # {} PROVE FALSE
    OBVIOUS
  <1>2. PICK s \in B : \A t \in B : t \subseteq s => t = s
    <2>1. B \in SUBSET (SUBSET S)
      OBVIOUS
    <2> HIDE DEF B
    <2> QED BY <1>1, <2>1, Minimal
  <1>3. PICK x \in s : TRUE
    BY <1>2
  <1>4. s \ {x} \in G
    BY <1>2, <1>3
  <1>5. s = (s \ {x}) \cup {x} /\ s \ {x} \in SUBSET S /\ x \in S \ (s \ {x})
    BY <1>2, <1>3
  <1>6. s \in G
    BY <1>4, <1>5
  <1> QED BY <1>2, <1>6

----------------------------------------------------------------------------
(* Sums of a function over a finite set.                                   *)

\* How SumFunctionOnSet goes through a set: it takes one element at a time.
Pick(s) == CHOOSE x \in s : TRUE
Iterates(g, S, h) ==
    h = [s \in SUBSET S |-> IF s = {} THEN 0 ELSE g[Pick(s)] + h[s \ {Pick(s)}]]

\* A set that is not empty has the member it is known by.
LEMMA Picked == \A s : s # {} => Pick(s) \in s
  BY DEF Pick

\* There is one such function.
LEMMA IterationsAgree ==
    ASSUME NEW S, IsFiniteSet(S), NEW g, NEW T \in SUBSET S,
           NEW h, Iterates(g, S, h), NEW k, Iterates(g, T, k)
    PROVE  \A s \in SUBSET T : h[s] = k[s]
  <1> DEFINE G == {s \in SUBSET S : s \in SUBSET T => h[s] = k[s]}
             B == {s \in SUBSET T : h[s] # k[s]}
  <1>1. SUFFICES ASSUME B # {} PROVE FALSE
    OBVIOUS
  <1>2. PICK s \in B : \A t \in B : t \subseteq s => t = s
    <2>1. B \in SUBSET (SUBSET T) /\ IsFiniteSet(T)
      BY FS_Subset
    <2> HIDE DEF B
    <2> QED BY <1>1, <2>1, Minimal
  <1>3. s \in SUBSET T /\ s \in SUBSET S /\ h[s] # k[s]
    BY <1>2
  <1>4. \A t \in SUBSET S : h[t] = IF t = {} THEN 0 ELSE g[Pick(t)] + h[t \ {Pick(t)}]
    BY DEF Iterates
  <1>5. \A t \in SUBSET T : k[t] = IF t = {} THEN 0 ELSE g[Pick(t)] + k[t \ {Pick(t)}]
    BY DEF Iterates
  <1>6. s # {}
    BY <1>3, <1>4, <1>5
  <1>7. s \ {Pick(s)} # s /\ s \ {Pick(s)} \in SUBSET T
    BY <1>3, <1>6, Picked
  <1>8. h[s \ {Pick(s)}] = k[s \ {Pick(s)}]
    BY <1>2, <1>7
  <1> QED BY <1>3, <1>4, <1>5, <1>6, <1>8

\* A sum over a finite set can be computed, one member after the other.
LEMMA IterationExists ==
    ASSUME NEW S, IsFiniteSet(S), NEW g
    PROVE  \E h : Iterates(g, S, h)
  <1> DEFINE B == {s \in SUBSET S : ~ \E h : Iterates(g, s, h)}
  <1>1. SUFFICES ASSUME B # {} PROVE FALSE
    OBVIOUS
  <1>2. PICK s \in B : \A t \in B : t \subseteq s => t = s
    <2>1. B \in SUBSET (SUBSET S)
      OBVIOUS
    <2> HIDE DEF B
    <2> QED BY <1>1, <2>1, Minimal
  <1> DEFINE F(t) == CHOOSE h : Iterates(g, t, h)
             v == [t \in SUBSET s |-> F(t)[t]]
             h == [t \in SUBSET s |-> IF t = {} THEN 0 ELSE g[Pick(t)] + v[t \ {Pick(t)}]]
  <1>3. IsFiniteSet(s)
    BY <1>2, FS_Subset
  <1>4. \A t \in SUBSET s : t # s => Iterates(g, t, F(t))
    <2> TAKE t \in SUBSET s
    <2> HAVE t # s
    <2>1. \E k : Iterates(g, t, k)
      BY <1>2
    <2> QED BY <2>1
  <1>5. \A t \in SUBSET s : t # s => v[t] = h[t]
    <2> TAKE t \in SUBSET s
    <2> HAVE t # s
    <2>1. Iterates(g, t, F(t)) /\ v[t] = F(t)[t]
      BY <1>4
    <2>2. CASE t = {}
      BY <2>1, <2>2 DEF Iterates
    <2>3. CASE t # {}
      <3> DEFINE u == t \ {Pick(t)}
      <3>1. u \in SUBSET t /\ u \in SUBSET s /\ u # s
        BY <2>3
      <3>2. Iterates(g, u, F(u)) /\ v[u] = F(u)[u] /\ IsFiniteSet(t) /\ u \in SUBSET u
        BY <1>3, <1>4, <3>1, FS_Subset
      <3> HIDE DEF F, v, u
      <3>3. F(t)[u] = F(u)[u]
        BY <2>1, <3>1, <3>2, IterationsAgree
      <3>4. F(t)[t] = g[Pick(t)] + F(t)[u]
        BY <2>1, <2>3 DEF Iterates, u
      <3>5. h[t] = g[Pick(t)] + v[u]
        BY <2>3 DEF u
      <3> QED BY <2>1, <3>2, <3>3, <3>4, <3>5
    <2> QED BY <2>2, <2>3
  <1>6. h = [t \in SUBSET s |-> IF t = {} THEN 0 ELSE g[Pick(t)] + h[t \ {Pick(t)}]]
    <2>1. \A t \in SUBSET s : t # {} => t \ {Pick(t)} \in SUBSET s /\ t \ {Pick(t)} # s
      BY Picked
    <2>2. \A t \in SUBSET s : t # {} => v[t \ {Pick(t)}] = h[t \ {Pick(t)}]
      BY <1>5, <2>1
    <2> HIDE DEF v
    <2> QED BY <2>2
  <1>7. Iterates(g, s, h)
    BY <1>6 DEF Iterates
  <1> QED BY <1>2, <1>7

\* The sum is the value of that function.
LEMMA SumIterates ==
    ASSUME NEW S, IsFiniteSet(S), NEW g
    PROVE  \E k : Iterates(g, S, k) /\ SumFunctionOnSet(g, S) = k[S]
  <1> DEFINE Is(k) == k = [s \in SUBSET S |->
                              IF s = {} THEN 0
                              ELSE g[CHOOSE x \in s : TRUE] + k[s \ {CHOOSE x \in s : TRUE}]]
  <1>1. \E k : Is(k)
    <2>1. PICK h : Iterates(g, S, h)
      BY IterationExists
    <2>2. Is(h)
      BY <2>1 DEF Iterates, Pick
    <2> QED BY <2>2
  <1>2. Is(CHOOSE k : Is(k))
    <2> HIDE DEF Is
    <2> QED BY <1>1
  <1>3. SumFunctionOnSet(g, S) = (CHOOSE k : Is(k))[S]
    BY DEF SumFunctionOnSet, FoldFunctionOnSet, MapThenFoldSet
  <1>4. Iterates(g, S, CHOOSE k : Is(k))
    BY <1>2 DEF Iterates, Pick
  <1> QED BY <1>3, <1>4

\* Over no element, and over a set from which one is picked.
LEMMA SumEmpty ==
    ASSUME NEW g
    PROVE  SumFunctionOnSet(g, {}) = 0
  <1>1. IsFiniteSet({})
    BY FS_EmptySet
  <1>2. PICK k : Iterates(g, {}, k) /\ SumFunctionOnSet(g, {}) = k[{}]
    BY <1>1, SumIterates
  <1> QED BY <1>2 DEF Iterates

\* A sum is the term of the picked member and the sum of the rest.
LEMMA SumPicked ==
    ASSUME NEW S, IsFiniteSet(S), S # {}, NEW g
    PROVE  SumFunctionOnSet(g, S) = g[Pick(S)] + SumFunctionOnSet(g, S \ {Pick(S)})
  <1> DEFINE T == S \ {Pick(S)}
  <1>1. PICK h : Iterates(g, S, h) /\ SumFunctionOnSet(g, S) = h[S]
    BY SumIterates
  <1>2. T \in SUBSET S /\ IsFiniteSet(T)
    BY FS_Subset
  <1>3. PICK k : Iterates(g, T, k) /\ SumFunctionOnSet(g, T) = k[T]
    BY <1>2, SumIterates
  <1>4. h[S] = g[Pick(S)] + h[T]
    BY <1>1 DEF Iterates
  <1> HIDE DEF T
  <1>5. h[T] = k[T]
    BY <1>1, <1>2, <1>3, IterationsAgree
  <1> QED BY <1>1, <1>3, <1>4, <1>5 DEF T

\* The sum of numbers is a number, whichever element is taken first.
LEMMA SumRemove ==
    ASSUME NEW S, IsFiniteSet(S), NEW g, \A x \in S : g[x] \in Nat
    PROVE  /\ SumFunctionOnSet(g, S) \in Nat
           /\ \A x \in S : SumFunctionOnSet(g, S) = g[x] + SumFunctionOnSet(g, S \ {x})
  <1> DEFINE Sum(s) == SumFunctionOnSet(g, s)
             Good(s) == Sum(s) \in Nat /\ \A x \in s : Sum(s) = g[x] + Sum(s \ {x})
             B == {s \in SUBSET S : ~ Good(s)}
  <1>1. SUFFICES ASSUME B # {} PROVE FALSE
    <2>1. S \in SUBSET S
      OBVIOUS
    <2> QED BY <2>1
  <1>2. PICK s \in B : \A t \in B : t \subseteq s => t = s
    <2>1. B \in SUBSET (SUBSET S)
      OBVIOUS
    <2> HIDE DEF B
    <2> QED BY <1>1, <2>1, Minimal
  <1>3. s \in SUBSET S /\ IsFiniteSet(s) /\ ~ Good(s)
    BY <1>2, FS_Subset
  <1>4. \A t \in SUBSET s : t # s => Good(t)
    BY <1>2
  <1>5. s # {}
    <2>1. Good({})
      BY SumEmpty
    <2> QED BY <1>3, <2>1
  <1> DEFINE y == Pick(s)
  <1>6. y \in s /\ g[y] \in Nat /\ Sum(s) = g[y] + Sum(s \ {y})
    <2>1. y \in s
      BY <1>5, Picked
    <2>2. Sum(s) = g[y] + Sum(s \ {y})
      BY <1>3, <1>5, SumPicked
    <2> QED BY <1>3, <2>1, <2>2
  <1> HIDE DEF y, Sum, B
  <1>7. Good(s \ {y})
    BY <1>4, <1>6
  <1>8. Sum(s) \in Nat
    BY <1>6, <1>7
  <1>9. ASSUME NEW x \in s, x # y
        PROVE  Sum(s) = g[x] + Sum(s \ {x})
    <2>1. Good(s \ {x}) /\ x \in s \ {y} /\ y \in s \ {x}
      BY <1>4, <1>6, <1>9
    <2>2. (s \ {y}) \ {x} = (s \ {x}) \ {y}
      OBVIOUS
    <2>3. Sum(s \ {y}) = g[x] + Sum((s \ {x}) \ {y})
      BY <1>7, <2>1, <2>2
    <2>4. Sum(s \ {x}) = g[y] + Sum((s \ {x}) \ {y})
      BY <2>1
    <2>5. Good((s \ {x}) \ {y})
      BY <1>4, <1>6
    <2>6. g[x] \in Nat /\ Sum((s \ {x}) \ {y}) \in Nat
      BY <1>3, <1>9, <2>5
    <2> QED BY <1>6, <2>3, <2>4, <2>6
  <1>10. Good(s)
    BY <1>6, <1>8, <1>9
  <1> QED BY <1>3, <1>10

\* One element more.
LEMMA SumAdd ==
    ASSUME NEW S, IsFiniteSet(S), NEW y, y \notin S, NEW g, \A x \in S \cup {y} : g[x] \in Nat
    PROVE  /\ SumFunctionOnSet(g, S) \in Nat
           /\ SumFunctionOnSet(g, S \cup {y}) = g[y] + SumFunctionOnSet(g, S)
  <1>1. IsFiniteSet(S \cup {y}) /\ y \in S \cup {y} /\ (S \cup {y}) \ {y} = S
    BY FS_AddElement
  <1>2. SumFunctionOnSet(g, S \cup {y}) = g[y] + SumFunctionOnSet(g, (S \cup {y}) \ {y})
    BY <1>1, SumRemove
  <1>3. SumFunctionOnSet(g, S) \in Nat
    BY SumRemove
  <1> QED BY <1>1, <1>2, <1>3

\* Sums compare as their terms do.
LEMMA SumAtMost ==
    ASSUME NEW S, IsFiniteSet(S), NEW g, NEW h,
           \A x \in S : g[x] \in Nat /\ h[x] \in Nat /\ g[x] <= h[x]
    PROVE  SumFunctionOnSet(g, S) <= SumFunctionOnSet(h, S)
  <1> DEFINE A(s) == SumFunctionOnSet(g, s)
             C(s) == SumFunctionOnSet(h, s)
             G == {s \in SUBSET S : A(s) <= C(s)}
  <1>1. {} \in G
    BY SumEmpty
  <1>2. ASSUME NEW t \in SUBSET S, NEW x \in S \ t, t \in G
        PROVE  t \cup {x} \in G
    <2>1. IsFiniteSet(t) /\ t \cup {x} \in SUBSET S /\ A(t) <= C(t)
      BY <1>2, FS_Subset
    <2>2. A(t) \in Nat /\ A(t \cup {x}) = g[x] + A(t)
      BY <2>1, SumAdd
    <2>3. C(t) \in Nat /\ C(t \cup {x}) = h[x] + C(t)
      BY <2>1, SumAdd
    <2>4. g[x] \in Nat /\ h[x] \in Nat /\ g[x] <= h[x]
      OBVIOUS
    <2> HIDE DEF A, C
    <2>5. A(t \cup {x}) <= C(t \cup {x})
      BY <2>1, <2>2, <2>3, <2>4
    <2> QED BY <2>1, <2>5
  <1>3. SUBSET S \subseteq G
    <2> HIDE DEF G
    <2> QED BY <1>1, <1>2, EverySubset
  <1> QED BY <1>3

\* Terms that are nothing need not be summed; the others alone say the sum.
LEMMA SumOfTerms ==
    ASSUME NEW S, IsFiniteSet(S), NEW T \in SUBSET S, NEW g, NEW h,
           \A x \in S : g[x] \in Nat,
           \A x \in T : g[x] = h[x],
           \A x \in S \ T : g[x] = 0
    PROVE  SumFunctionOnSet(g, S) = SumFunctionOnSet(h, T)
  <1> DEFINE A(s) == SumFunctionOnSet(g, s)
             C(s) == SumFunctionOnSet(h, s \cap T)
             G == {s \in SUBSET S : A(s) = C(s)}
  <1>1. {} \in G
    <2>1. {} \cap T = {}
      OBVIOUS
    <2> QED BY <2>1, SumEmpty
  <1>2. ASSUME NEW t \in SUBSET S, NEW x \in S \ t, t \in G
        PROVE  t \cup {x} \in G
    <2>1. IsFiniteSet(t) /\ IsFiniteSet(t \cap T) /\ t \cup {x} \in SUBSET S /\ A(t) = C(t)
      BY <1>2, FS_Subset
    <2>2. A(t) \in Nat /\ A(t \cup {x}) = g[x] + A(t)
      BY <2>1, SumAdd
    <2>3. CASE x \in T
      <3>1. (t \cup {x}) \cap T = (t \cap T) \cup {x} /\ x \notin t \cap T
        BY <2>3
      <3>2. \A y \in (t \cap T) \cup {x} : h[y] \in Nat
        <4>1. \A y \in (t \cap T) \cup {x} : y \in S /\ y \in T
          BY <2>3
        <4> QED BY <4>1
      <3>3. C(t \cup {x}) = h[x] + C(t)
        BY <2>1, <3>1, <3>2, SumAdd
      <3> QED BY <2>1, <2>2, <2>3, <3>3
    <2>4. CASE x \notin T
      <3>1. (t \cup {x}) \cap T = t \cap T /\ g[x] = 0
        BY <2>4
      <3>2. C(t \cup {x}) = C(t)
        BY <3>1
      <3> HIDE DEF A, C
      <3>3. A(t \cup {x}) = C(t \cup {x})
        BY <2>1, <2>2, <3>1, <3>2
      <3> QED BY <2>1, <3>3
    <2> QED BY <2>3, <2>4
  <1>3. SUBSET S \subseteq G
    <2> HIDE DEF G
    <2> QED BY <1>1, <1>2, EverySubset
  <1>4. S \in G /\ S \cap T = T
    BY <1>3
  <1> QED BY <1>4

\* A set counted class by class.
LEMMA CountByClass ==
    ASSUME NEW I, IsFiniteSet(I), NEW X, IsFiniteSet(X), NEW class \in [X -> I],
           NEW g, \A i \in I : g[i] = Cardinality({x \in X : class[x] = i})
    PROVE  SumFunctionOnSet(g, I) = Cardinality(X)
  <1> DEFINE A(s) == SumFunctionOnSet(g, s)
             In(s) == {x \in X : class[x] \in s}
             G == {s \in SUBSET I : A(s) = Cardinality(In(s))}
  <1>1. {} \in G
    <2>1. In({}) = {}
      OBVIOUS
    <2> QED BY <2>1, SumEmpty, FS_EmptySet
  <1>2. ASSUME NEW t \in SUBSET I, NEW i \in I \ t, t \in G
        PROVE  t \cup {i} \in G
    <2> DEFINE one == {x \in X : class[x] = i}
    <2>1. IsFiniteSet(t) /\ t \cup {i} \in SUBSET I /\ A(t) = Cardinality(In(t))
      BY <1>2, FS_Subset
    <2>2. \A j \in t \cup {i} : g[j] \in Nat
      <3> TAKE j \in t \cup {i}
      <3> DEFINE cl == {x \in X : class[x] = j}
      <3>1. IsFiniteSet(cl) /\ g[j] = Cardinality(cl)
        BY FS_Subset
      <3> QED BY <3>1, FS_CardinalityType
    <2>3. A(t \cup {i}) = g[i] + A(t)
      BY <2>1, <2>2, SumAdd
    <2>4. IsFiniteSet(In(t)) /\ IsFiniteSet(one)
      BY FS_Subset
    <2>5. In(t \cup {i}) = In(t) \cup one /\ In(t) \cap one = {}
      OBVIOUS
    <2>6. Cardinality(In(t) \cup one) = Cardinality(In(t)) + Cardinality(one)
      <3> HIDE DEF In, one
      <3>1. Cardinality(In(t) \cup one) = Cardinality(In(t)) + Cardinality(one) - Cardinality(In(t) \cap one)
        BY <2>4, FS_Union
      <3>2. Cardinality(In(t)) \in Nat /\ Cardinality(one) \in Nat
        BY <2>4, FS_CardinalityType
      <3>3. Cardinality(In(t) \cap one) = 0
        BY <2>5, FS_EmptySet
      <3> QED BY <3>1, <3>2, <3>3
    <2>7. g[i] = Cardinality(one)
      OBVIOUS
    <2>8. Cardinality(In(t)) \in Nat /\ Cardinality(one) \in Nat
      BY <2>4, FS_CardinalityType
    <2> HIDE DEF A, In, one
    <2>9. A(t \cup {i}) = Cardinality(In(t \cup {i}))
      BY <2>1, <2>3, <2>5, <2>6, <2>7, <2>8
    <2> QED BY <2>1, <2>9
  <1>3. SUBSET I \subseteq G
    <2> HIDE DEF G
    <2> QED BY <1>1, <1>2, EverySubset
  <1>4. I \in G /\ In(I) = X
    BY <1>3
  <1> QED BY <1>4
----------------------------------------------------------------------------
(* Measurements.                                                           *)

PacketRecords ==
    {p \in [status : {"completed", "error"}, sources : Seq(SourceRecords)] :
        p.status = "error" => p.sources = <<>>}
AnswerRecords ==
    [status : {"completed", "error"}, citations : {c \in SUBSET Nat : IsFiniteSet(c)}]

Measurements ==
    [retrievals : [Queries -> {None} \cup PacketRecords],
     results : [Pairs -> {None} \cup AnswerRecords]]

Sound(m) == m \in Measurements /\ ValidMeasurement(m)

\* The grid of queries and profiles is finite and not empty.
LEMMA Grid ==
    /\ IsFiniteSet(Queries) /\ Cardinality(Queries) = NumQueries
    /\ IsFiniteSet(Profiles) /\ 1 \in Queries /\ 1 \in Profiles
    /\ IsFiniteSet(Pairs) /\ <<1, 1>> \in Pairs
  <1>1. NumQueries \in Nat \ {0} /\ NumProfiles \in Nat \ {0}
    BY EvidenceAssumption
  <1>2. IsFiniteSet(Queries) /\ Cardinality(Queries) = NumQueries /\ 1 \in Queries
    BY <1>1, FS_Interval DEF Queries
  <1>3. IsFiniteSet(Profiles) /\ 1 \in Profiles
    BY <1>1, FS_Interval DEF Profiles
  <1>4. IsFiniteSet(Pairs)
    BY <1>2, <1>3, FS_Product DEF Pairs
  <1> QED BY <1>2, <1>3, <1>4 DEF Pairs

\* The sources of a query are a finite sequence.
LEMMA SourcesAreListed ==
    ASSUME NEW m, Sound(m), NEW q \in Queries
    PROVE  /\ Sources(m, q) \in Seq(SourceRecords)
           /\ IsFiniteSet(DOMAIN Sources(m, q))
           /\ DOMAIN Sources(m, q) \subseteq Nat
  <1>1. m.retrievals[q] \in {None} \cup PacketRecords
    BY DEF Sound, Measurements
  <1>2. Sources(m, q) \in Seq(SourceRecords)
    BY <1>1 DEF Sources, PacketRecords
  <1>3. Len(Sources(m, q)) \in Nat /\ DOMAIN Sources(m, q) = 1 .. Len(Sources(m, q))
    BY <1>2
  <1> QED BY <1>2, <1>3, FS_Interval

\* What an answer cites, by kind of source.
Kind(m, qp, c) ==
    IF c \in DOMAIN Sources(m, qp[1]) THEN Sources(m, qp[1])[c].relation ELSE "unsupported"

\* What an answer cites of a kind, read from the sources it was given.
LEMMA CitesByKind ==
    ASSUME NEW m, NEW qp, NEW kinds
    PROVE  Cites(m, qp, kinds) =
               IF Completed(m.results[qp])
               THEN {c \in m.results[qp].citations : Kind(m, qp, c) \in kinds} ELSE {}
  <1> DEFINE cited == m.results[qp].citations
             rows == Matches(m, qp)
  <1>1. CASE ~ Completed(m.results[qp])
    <2>1. rows = {}
      BY <1>1 DEF Matches
    <2> QED BY <1>1, <2>1 DEF Cites
  <1>2. CASE Completed(m.results[qp])
    <2>1. rows = {[id |-> c, kind |-> Kind(m, qp, c)] : c \in cited}
      BY <1>2 DEF Matches, Kind
    <2>2. Cites(m, qp, kinds) = {x.id : x \in {y \in rows : y.kind \in kinds}}
      BY DEF Cites
    <2> HIDE DEF rows, cited
    <2>3. \A x \in rows : x.id \in cited /\ x.kind = Kind(m, qp, x.id)
      BY <2>1
    <2>4. \A c \in cited : \E x \in rows : x.id = c
      <3> TAKE c \in cited
      <3>1. [id |-> c, kind |-> Kind(m, qp, c)] \in rows
        BY <2>1
      <3> QED BY <3>1
    <2>5. Cites(m, qp, kinds) = {c \in cited : Kind(m, qp, c) \in kinds}
      <3>1. ASSUME NEW c \in Cites(m, qp, kinds) PROVE c \in cited /\ Kind(m, qp, c) \in kinds
        BY <2>2, <2>3
      <3>2. ASSUME NEW c \in cited, Kind(m, qp, c) \in kinds PROVE c \in Cites(m, qp, kinds)
        <4>1. PICK x \in rows : x.id = c
          BY <2>4
        <4>2. x.kind \in kinds
          BY <2>3, <3>2, <4>1
        <4> QED BY <2>2, <4>1, <4>2
      <3> QED BY <3>1, <3>2
    <2> QED BY <1>2, <2>5 DEF cited
  <1> QED BY <1>1, <1>2

\* What an answer cites is among its sources, or without one.
LEMMA CitedSources ==
    ASSUME NEW m, Sound(m), NEW qp \in Pairs, Completed(m.results[qp])
    PROVE  LET cited == m.results[qp].citations
               given == DOMAIN Sources(m, qp[1])
           IN /\ cited \subseteq Nat /\ IsFiniteSet(cited)
              /\ Cites(m, qp, Relations) = cited \cap given
              /\ Cites(m, qp, {"unsupported"}) = cited \ given
              /\ Cites(m, qp, {"exact-page"}) =
                     {i \in cited \cap given : Sources(m, qp[1])[i].relation = "exact-page"}
  <1> DEFINE cited == m.results[qp].citations
             given == DOMAIN Sources(m, qp[1])
  <1>1. qp[1] \in Queries
    BY DEF Pairs
  <1>2. Sources(m, qp[1]) \in Seq(SourceRecords)
    BY <1>1, SourcesAreListed
  <1>3. \A i \in given : Sources(m, qp[1])[i].relation \in Relations
    <2> TAKE i \in given
    <2>1. Sources(m, qp[1])[i] \in SourceRecords
      BY <1>2
    <2> QED BY <2>1 DEF SourceRecords
  <1>4. "unsupported" \notin Relations /\ "exact-page" \in Relations
    BY DEF Relations
  <1>5. m.results[qp] \in AnswerRecords
    BY DEF Sound, Measurements, Completed
  <1>6. cited \subseteq Nat /\ IsFiniteSet(cited)
    BY <1>5 DEF AnswerRecords
  <1>7. \A kinds : Cites(m, qp, kinds) = {c \in cited : Kind(m, qp, c) \in kinds}
    BY CitesByKind
  <1>8. \A c : Kind(m, qp, c) = IF c \in given THEN Sources(m, qp[1])[c].relation ELSE "unsupported"
    BY DEF Kind
  <1> HIDE DEF cited, given
  <1>9. Cites(m, qp, Relations) = cited \cap given
    BY <1>3, <1>4, <1>7, <1>8
  <1>10. Cites(m, qp, {"unsupported"}) = cited \ given
    BY <1>3, <1>4, <1>7, <1>8
  <1>11. Cites(m, qp, {"exact-page"}) =
             {i \in cited \cap given : Sources(m, qp[1])[i].relation = "exact-page"}
    BY <1>3, <1>4, <1>7, <1>8
  <1> QED BY <1>6, <1>9, <1>10, <1>11 DEF cited, given

\* An answer that is not there cites nothing.
LEMMA NothingCited ==
    ASSUME NEW m, NEW qp, ~ Completed(m.results[qp]), NEW kinds
    PROVE  Cites(m, qp, kinds) = {}
  BY CitesByKind

----------------------------------------------------------------------------
(* Scores.                                                                 *)

\* The pairs a score counts under each of its names.
Answered(m, pairs) == {qp \in pairs : m.results[qp] # None}
Done(m, pairs) == {qp \in pairs : Completed(m.results[qp])}
CountedPairs(m, pairs) ==
    [numerator |-> {qp \in Done(m, pairs) : CitesPage(m, qp)},
     denominator |-> Done(m, pairs),
     intended |-> pairs,
     errors |-> Answered(m, pairs) \ Done(m, pairs),
     missing |-> pairs \ Answered(m, pairs)]

\* Every field of a score counts the pairs it is about (score_results).
LEMMA ScoreCounts ==
    ASSUME NEW m, NEW pairs \in SUBSET Pairs
    PROVE  /\ \A f \in Fields : /\ CountedPairs(m, pairs)[f] \in SUBSET pairs
                                /\ Score(m, pairs)[f] = Cardinality(CountedPairs(m, pairs)[f])
           /\ Score(m, pairs).provisional = (pairs = {} \/ Done(m, pairs) # pairs)
  <1> DEFINE outcomes == {qp \in pairs : m.results[qp] # None}
             done == {qp \in outcomes : Completed(m.results[qp])}
             counted == CountedPairs(m, pairs)
             score == Score(m, pairs)
  <1>1. outcomes = Answered(m, pairs) /\ done = Done(m, pairs)
    BY DEF Answered, Done, Completed
  <1>2. /\ score.numerator = Cardinality({qp \in done : CitesPage(m, qp)})
        /\ score.denominator = Cardinality(done)
        /\ score.intended = Cardinality(pairs)
        /\ score.errors = Cardinality(outcomes) - Cardinality(done)
        /\ score.missing = Cardinality(pairs) - Cardinality(outcomes)
        /\ score.provisional = (pairs = {} \/ done # pairs)
    BY DEF Score
  <1>3. IsFiniteSet(pairs) /\ IsFiniteSet(outcomes) /\ IsFiniteSet(done)
    <2>1. IsFiniteSet(pairs)
      BY Grid, FS_Subset
    <2> QED BY <2>1, FS_Subset
  <1>4. Cardinality(outcomes \ done) = Cardinality(outcomes) - Cardinality(done)
    <2>1. outcomes \cap done = done
      OBVIOUS
    <2> HIDE DEF outcomes, done
    <2> QED BY <1>3, <2>1, FS_Difference
  <1>5. Cardinality(pairs \ outcomes) = Cardinality(pairs) - Cardinality(outcomes)
    <2>1. pairs \cap outcomes = outcomes
      OBVIOUS
    <2> HIDE DEF outcomes
    <2> QED BY <1>3, <2>1, FS_Difference
  <1>6. /\ counted.numerator = {qp \in done : CitesPage(m, qp)}
        /\ counted.denominator = done
        /\ counted.intended = pairs
        /\ counted.errors = outcomes \ done
        /\ counted.missing = pairs \ outcomes
    BY <1>1 DEF CountedPairs
  <1>7. \A f \in Fields : counted[f] \in SUBSET pairs
    BY <1>6 DEF Fields
  <1>8. \A f \in Fields : score[f] = Cardinality(counted[f])
    <2> HIDE DEF score, counted, done, outcomes
    <2> QED BY <1>2, <1>4, <1>5, <1>6 DEF Fields
  <1> QED BY <1>1, <1>2, <1>7, <1>8

\* What is counted of a part is what is counted of the whole, in the part.
LEMMA CountedInPart ==
    ASSUME NEW m, NEW pairs \in SUBSET Pairs, NEW f \in Fields
    PROVE  CountedPairs(m, pairs)[f] = {qp \in CountedPairs(m, Pairs)[f] : qp \in pairs}
  <1> DEFINE part == CountedPairs(m, pairs)
             whole == CountedPairs(m, Pairs)
  <1>1. /\ part.numerator = {qp \in whole.numerator : qp \in pairs}
        /\ part.denominator = {qp \in whole.denominator : qp \in pairs}
        /\ part.intended = {qp \in whole.intended : qp \in pairs}
        /\ part.errors = {qp \in whole.errors : qp \in pairs}
        /\ part.missing = {qp \in whole.missing : qp \in pairs}
    BY DEF CountedPairs, Done, Answered
  <1> HIDE DEF part, whole
  <1> QED BY <1>1 DEF Fields, part, whole

\* A breakdown by classes of pairs adds up to the score.
LEMMA ClassesAddUp ==
    ASSUME NEW m, NEW I, IsFiniteSet(I), NEW class \in [Pairs -> I],
           NEW group, \A i \in I : group[i] = {qp \in Pairs : class[qp] = i},
           NEW parts, parts = [i \in I |-> Score(m, group[i])]
    PROVE  Adds(parts, Score(m, Pairs))
  <1>1. DOMAIN parts = I
    OBVIOUS
  <1>2. SUFFICES ASSUME NEW f \in Fields
                 PROVE  SumFunction([i \in I |-> parts[i][f]]) = Score(m, Pairs)[f]
    BY <1>1 DEF Adds
  <1> DEFINE X == CountedPairs(m, Pairs)[f]
             g == [i \in I |-> parts[i][f]]
             k == [qp \in X |-> class[qp]]
  <1>3. X \in SUBSET Pairs /\ Score(m, Pairs)[f] = Cardinality(X)
    BY ScoreCounts
  <1>4. IsFiniteSet(X)
    BY <1>3, Grid, FS_Subset
  <1>5. k \in [X -> I]
    BY <1>3
  <1>6. \A i \in I : g[i] = Cardinality({qp \in X : k[qp] = i})
    <2> TAKE i \in I
    <2>1. group[i] \in SUBSET Pairs
      OBVIOUS
    <2>2. g[i] = Cardinality(CountedPairs(m, group[i])[f])
      BY <2>1, ScoreCounts
    <2>3. CountedPairs(m, group[i])[f] = {qp \in X : qp \in group[i]}
      BY <2>1, CountedInPart
    <2>4. {qp \in X : qp \in group[i]} = {qp \in X : k[qp] = i}
      BY <1>3
    <2> QED BY <2>2, <2>3, <2>4
  <1>7. SumFunction(g) = SumFunctionOnSet(g, I)
    BY DEF SumFunction
  <1> HIDE DEF X, g, k
  <1>8. SumFunctionOnSet(g, I) = Cardinality(X)
    BY <1>4, <1>5, <1>6, CountByClass
  <1> QED BY <1>3, <1>7, <1>8 DEF g

\* The breakdowns of the score add up to it (measurement_scores).
LEMMA BreakdownsAddUp ==
    ASSUME NEW m
    PROVE  PartsAddUp(MeasurementScores(m))
  <1> DEFINE s == MeasurementScores(m)
  <1>1. s.overall = Score(m, Pairs)
    BY DEF MeasurementScores
  <1>2. Adds(s.byProfile, s.overall)
    <2> DEFINE class == [qp \in Pairs |-> qp[2]]
               group == [p \in Profiles |-> PairsFor(p)]
    <2>1. class \in [Pairs -> Profiles]
      BY DEF Pairs
    <2>2. \A p \in Profiles : group[p] = {qp \in Pairs : class[qp] = p}
      BY DEF PairsFor, Pairs
    <2>3. s.byProfile = [p \in Profiles |-> Score(m, group[p])]
      BY DEF MeasurementScores
    <2> HIDE DEF class, group, s
    <2> QED BY <1>1, <2>1, <2>2, <2>3, Grid, ClassesAddUp
  <1>3. Adds(s.byQuery, s.overall)
    <2> DEFINE class == [qp \in Pairs |-> qp[1]]
               group == [q \in Queries |-> PairsOf({q})]
    <2>1. class \in [Pairs -> Queries]
      BY DEF Pairs
    <2>2. \A q \in Queries : group[q] = {qp \in Pairs : class[qp] = q}
      BY DEF PairsOf, Pairs
    <2>3. s.byQuery = [q \in Queries |-> Score(m, group[q])]
      BY DEF MeasurementScores
    <2> HIDE DEF class, group, s
    <2> QED BY <1>1, <2>1, <2>2, <2>3, Grid, ClassesAddUp
  <1>4. Adds(s.byType, s.overall)
    <2> DEFINE class == [qp \in Pairs |-> qp[1] \in Branded]
               group == [b \in BOOLEAN |-> PairsOf({q \in Queries : (q \in Branded) = b})]
    <2>1. class \in [Pairs -> BOOLEAN]
      OBVIOUS
    <2>2. \A b \in BOOLEAN : group[b] = {qp \in Pairs : class[qp] = b}
      BY DEF PairsOf, Pairs
    <2>3. s.byType = [b \in BOOLEAN |-> Score(m, group[b])]
      BY DEF MeasurementScores
    <2>4. IsFiniteSet(BOOLEAN)
      <3>1. BOOLEAN = {TRUE} \cup {FALSE}
        OBVIOUS
      <3>2. IsFiniteSet({TRUE}) /\ IsFiniteSet({FALSE})
        BY FS_Singleton, Zenon
      <3>3. \A a, b : IsFiniteSet(a) /\ IsFiniteSet(b) => IsFiniteSet(a \cup b)
        BY FS_Union
      <3> QED BY <3>1, <3>2, <3>3, Zenon
    <2> HIDE DEF class, group, s
    <2> QED BY <1>1, <2>1, <2>2, <2>3, <2>4, ClassesAddUp
  <1>5. s.overall.denominator + s.overall.errors + s.overall.missing = s.overall.intended
    <2> DEFINE outcomes == {qp \in Pairs : m.results[qp] # None}
               done == {qp \in outcomes : Completed(m.results[qp])}
    <2>1. /\ s.overall.denominator = Cardinality(done)
          /\ s.overall.errors = Cardinality(outcomes) - Cardinality(done)
          /\ s.overall.missing = Cardinality(Pairs) - Cardinality(outcomes)
          /\ s.overall.intended = Cardinality(Pairs)
      BY <1>1 DEF Score
    <2>2. IsFiniteSet(outcomes)
      BY Grid, FS_Subset
    <2>3. IsFiniteSet(done)
      BY <2>2, FS_Subset
    <2>4. Cardinality(Pairs) \in Nat /\ Cardinality(outcomes) \in Nat /\ Cardinality(done) \in Nat
      BY <2>2, <2>3, Grid, FS_CardinalityType
    <2> HIDE DEF outcomes, done, s
    <2> QED BY <2>1, <2>4
  <1>6. s.overall.numerator = Cardinality({qp \in Pairs : s.byAnswer[qp].cited = TRUE})
    <2>1. "numerator" \in Fields
      BY DEF Fields
    <2>2. s.overall.numerator = Cardinality(CountedPairs(m, Pairs).numerator)
      BY <1>1, <2>1, ScoreCounts
    <2>3. CountedPairs(m, Pairs).numerator = {qp \in Done(m, Pairs) : CitesPage(m, qp)}
      BY DEF CountedPairs
    <2>4. \A qp \in Pairs :
              s.byAnswer[qp].cited = IF Completed(m.results[qp]) THEN CitesPage(m, qp) ELSE None
      BY DEF MeasurementScores, AnswerRow
    <2>5. None # TRUE /\ \A qp \in Pairs : CitesPage(m, qp) \in BOOLEAN
      BY EvidenceAssumption DEF CitesPage
    <2> HIDE DEF s
    <2>6. {qp \in Pairs : s.byAnswer[qp].cited = TRUE} = {qp \in Done(m, Pairs) : CitesPage(m, qp)}
      BY <2>4, <2>5 DEF Done
    <2> QED BY <2>2, <2>3, <2>6
  <1> HIDE DEF s
  <1>7. PartsAddUp(s)
    BY <1>2, <1>3, <1>4, <1>5, <1>6 DEF PartsAddUp
  <1> QED BY <1>7 DEF s

\* Every profile answered a common query, so nothing else is counted.
LEMMA ProfilesCompareAlike ==
    ASSUME NEW m
    PROVE  ProfilesCompare(m, MeasurementScores(m), EvidenceAssessment(m))
  <1> DEFINE s == MeasurementScores(m)
             a == EvidenceAssessment(m)
  <1>1. SUFFICES ASSUME NEW p \in Profiles
                 PROVE  /\ s.comparable[p].denominator = Cardinality(CommonQueries(m))
                        /\ s.comparable[p].errors = 0
                        /\ a.comparable[p].coverage =
                               Rate(s.comparable[p].denominator, s.comparable[p].intended)
    BY DEF ProfilesCompare
  <1> DEFINE common == CommonQueries(m)
             pairs == common \X {p}
  <1>2. common \in SUBSET Queries /\ pairs \in SUBSET Pairs
    BY DEF CommonQueries, Pairs
  <1>3. \A qp \in pairs : Completed(m.results[qp])
    BY DEF CommonQueries
  <1>4. s.comparable[p] = Score(m, pairs)
    BY DEF MeasurementScores
  <1>5. a.comparable[p] = AnswerSummary(m, pairs)
    BY DEF EvidenceAssessment
  <1> HIDE DEF s, a, common, pairs
  <1>6. Done(m, pairs) = pairs /\ Answered(m, pairs) \ Done(m, pairs) = {}
    BY <1>3 DEF Done, Answered
  <1>7. /\ CountedPairs(m, pairs).denominator = pairs
        /\ CountedPairs(m, pairs).intended = pairs
        /\ CountedPairs(m, pairs).errors = {}
    BY <1>6 DEF CountedPairs
  <1>8. /\ Score(m, pairs).denominator = Cardinality(pairs)
        /\ Score(m, pairs).intended = Cardinality(pairs)
        /\ Score(m, pairs).errors = 0
    <2>1. "denominator" \in Fields /\ "intended" \in Fields /\ "errors" \in Fields
      BY DEF Fields
    <2>2. \A f \in Fields : Score(m, pairs)[f] = Cardinality(CountedPairs(m, pairs)[f])
      BY <1>2, ScoreCounts
    <2>3. Cardinality({}) = 0
      BY FS_EmptySet
    <2> QED BY <1>7, <2>1, <2>2, <2>3
  <1>9. Cardinality(pairs) = Cardinality(common)
    <2>1. IsFiniteSet(common) /\ IsFiniteSet({p})
      BY <1>2, Grid, FS_Subset, FS_Singleton
    <2>2. Cardinality({p}) = 1 /\ Cardinality(common) \in Nat
      BY <2>1, FS_Singleton, FS_CardinalityType
    <2>3. Cardinality(pairs) = Cardinality(common) * Cardinality({p})
      BY <2>1, FS_Product DEF pairs
    <2> QED BY <2>2, <2>3
  <1>10. AnswerSummary(m, pairs).coverage = Rate(Cardinality(pairs), Cardinality(pairs))
    <2>1. {qp \in pairs : Completed(m.results[qp])} = pairs
      BY <1>3
    <2> QED BY <2>1 DEF AnswerSummary
  <1> QED BY <1>4, <1>5, <1>8, <1>9, <1>10 DEF common

\* An answer that cites the page was given a packet with the page.
LEMMA CitedPageWasReturned ==
    ASSUME NEW m, Sound(m), NEW qp \in Pairs, Completed(m.results[qp]), CitesPage(m, qp)
    PROVE  TargetPosition(m, qp[1]) # None
  <1> DEFINE q == qp[1]
             at == {i \in DOMAIN Sources(m, q) : Sources(m, q)[i].relation = "exact-page"}
  <1>1. q \in Queries
    BY DEF Pairs
  <1>2. Completed(m.retrievals[q])
    BY DEF Sound, ValidMeasurement
  <1>3. at # {}
    <2>1. Cites(m, qp, {"exact-page"}) # {}
      BY DEF CitesPage
    <2> QED BY <2>1, CitedSources
  <1>4. at \in SUBSET Nat
    BY <1>1, SourcesAreListed
  <1>5. Min(at) \in at
    <2> HIDE DEF at
    <2>1. \E i \in at : \A j \in at : i <= j
      BY <1>3, <1>4, LeastNumber
    <2> QED BY <2>1 DEF Min
  <1>6. Min(at) # None
    BY <1>4, <1>5, EvidenceAssumption
  <1>7. TargetPosition(m, q) = Min(at)
    BY <1>2, <1>3 DEF TargetPosition
  <1> QED BY <1>6, <1>7

\* The gap of a query is read off the profiles, the score off the pairs.
LEMMA GapsShowInScores ==
    ASSUME NEW m, Sound(m)
    PROVE  GapsShow(m, MeasurementScores(m))
  <1>1. SUFFICES ASSUME NEW q \in Queries
                 PROVE  LET score == MeasurementScores(m).byQuery[q]
                        IN /\ GapClass(m, q) = "cited" <=>
                                  score.numerator > 0 /\ score.numerator = score.denominator
                           /\ GapClass(m, q) = "partially-cited" <=>
                                  score.numerator > 0 /\ score.numerator < score.denominator
                           /\ score.numerator > 0 => TargetPosition(m, q) # None
    BY DEF GapsShow
  <1> DEFINE pairs == PairsOf({q})
             done == Done(m, pairs)
             citing == {qp \in done : CitesPage(m, qp)}
             score == MeasurementScores(m).byQuery[q]
             cp == CitingProfiles(m, q)
             ap == AnsweringProfiles(m, q)
  <1>2. pairs \in SUBSET Pairs /\ pairs = {<<q, p>> : p \in Profiles}
    BY DEF PairsOf, Pairs
  <1>3. score = Score(m, pairs)
    BY DEF MeasurementScores
  <1>4. score.numerator = Cardinality(citing) /\ score.denominator = Cardinality(done)
    <2>1. "denominator" \in Fields /\ "numerator" \in Fields
      BY DEF Fields
    <2>2. CountedPairs(m, pairs).numerator = citing /\ CountedPairs(m, pairs).denominator = done
      BY DEF CountedPairs
    <2> HIDE DEF pairs, score
    <2>3. \A f \in Fields : Score(m, pairs)[f] = Cardinality(CountedPairs(m, pairs)[f])
      BY <1>2, ScoreCounts
    <2> QED BY <1>3, <2>1, <2>2, <2>3
  <1>5. IsFiniteSet(done) /\ citing \in SUBSET done
    <2>1. done \in SUBSET Pairs
      BY <1>2 DEF Done
    <2> HIDE DEF done
    <2> QED BY <2>1, Grid, FS_Subset
  <1>6. citing = {<<q, p>> : p \in cp} /\ done = {<<q, p>> : p \in ap}
    <2>1. done = {<<q, p>> : p \in ap}
      BY <1>2 DEF Done, AnsweringProfiles
    <2>2. \A p \in Profiles : CitesPage(m, <<q, p>>) => Completed(m.results[<<q, p>>])
      BY NothingCited DEF CitesPage
    <2>3. citing = {<<q, p>> : p \in cp}
      BY <1>2, <2>2 DEF Done, CitingProfiles
    <2> QED BY <2>1, <2>3
  <1> HIDE DEF pairs, done, citing, score, cp, ap
  <1>7. citing = {} <=> cp = {}
    BY <1>6
  <1>8. citing = done <=> cp = ap
    <2>1. \A p : (p \in cp <=> <<q, p>> \in citing) /\ (p \in ap <=> <<q, p>> \in done)
      BY <1>6
    <2>2. ASSUME citing = done PROVE cp = ap
      BY <2>1, <2>2
    <2>3. ASSUME cp = ap PROVE citing = done
      BY <1>6, <2>3
    <2> QED BY <2>2, <2>3
  <1>9. /\ score.numerator \in Nat /\ score.denominator \in Nat
        /\ score.numerator <= score.denominator
        /\ score.numerator > 0 <=> citing # {}
        /\ score.numerator = score.denominator <=> citing = done
    <2>1. IsFiniteSet(citing) /\ Cardinality(citing) <= Cardinality(done)
          /\ (Cardinality(done) = Cardinality(citing) => done = citing)
      BY <1>5, FS_Subset
    <2>2. Cardinality(citing) \in Nat /\ Cardinality(done) \in Nat
      BY <1>5, <2>1, FS_CardinalityType
    <2>3. Cardinality(citing) = 0 <=> citing = {}
      BY <2>1, FS_EmptySet
    <2> QED BY <1>4, <2>1, <2>2, <2>3
  <1>10. citing # {} => TargetPosition(m, q) # None
    <2> HAVE citing # {}
    <2>1. PICK qp \in citing : TRUE
      OBVIOUS
    <2>2. qp \in Pairs /\ qp[1] = q /\ Completed(m.results[qp]) /\ CitesPage(m, qp)
      BY <1>2, <2>1 DEF citing, done, Done
    <2> QED BY <2>2, CitedPageWasReturned
  <1>11. GapClass(m, q) = IF TargetPosition(m, q) = None THEN "not-retrieved"
                          ELSE IF cp = {} THEN "retrieved-not-cited"
                          ELSE IF cp # ap THEN "partially-cited" ELSE "cited"
    BY DEF GapClass, cp, ap
  <1>12. GapClass(m, q) = "cited" <=> TargetPosition(m, q) # None /\ citing # {} /\ citing = done
    BY <1>7, <1>8, <1>11
  <1>13. GapClass(m, q) = "partially-cited" <=>
             TargetPosition(m, q) # None /\ citing # {} /\ citing # done
    BY <1>7, <1>8, <1>11
  <1>14. score.numerator < score.denominator <=> citing # done
    BY <1>9
  <1> QED BY <1>9, <1>10, <1>12, <1>13, <1>14 DEF score

----------------------------------------------------------------------------
(* The views of a measurement.                                             *)

\* The competitors' sources of an answer, and those among them it cites.
LEMMA CompetitorsCited ==
    ASSUME NEW m, Sound(m), NEW qp \in Pairs
    PROVE  /\ AnswerTrace(m, qp).competitorSources > 0 <=> Competing(m, qp[1]) # {}
           /\ AnswerTrace(m, qp).competitorSources \in Nat
           /\ AnswerTrace(m, qp).competitorCited > 0 <=>
                  /\ Completed(m.results[qp])
                  /\ m.results[qp].citations \cap Competing(m, qp[1]) # {}
  <1> DEFINE rivals == Competing(m, qp[1])
             valid == Cites(m, qp, Relations)
             given == DOMAIN Sources(m, qp[1])
  <1>1. qp[1] \in Queries
    BY DEF Pairs
  <1>2. rivals \subseteq given /\ IsFiniteSet(given)
    BY <1>1, SourcesAreListed DEF Competing, Positions
  <1>3. IsFiniteSet(rivals)
    BY <1>2, FS_Subset
  <1>4. IsFiniteSet(rivals \cap valid)
    BY <1>3, FS_Subset
  <1>5. AnswerTrace(m, qp).competitorSources = Cardinality(rivals)
    BY DEF AnswerTrace
  <1>6. AnswerTrace(m, qp).competitorCited = Cardinality(rivals \cap valid)
    BY DEF AnswerTrace
  <1>7. rivals \cap valid # {} <=>
            Completed(m.results[qp]) /\ m.results[qp].citations \cap rivals # {}
    <2>1. CASE Completed(m.results[qp])
      <3>1. valid = m.results[qp].citations \cap given
        BY <2>1, CitedSources
      <3> QED BY <1>2, <2>1, <3>1
    <2>2. CASE ~ Completed(m.results[qp])
      BY <2>2, NothingCited
    <2> QED BY <2>1, <2>2
  <1> HIDE DEF rivals, valid, given
  <1>8. \A s : IsFiniteSet(s) => Cardinality(s) \in Nat /\ (Cardinality(s) > 0 <=> s # {})
    <2> TAKE s
    <2> HAVE IsFiniteSet(s)
    <2> QED BY FS_CardinalityType, FS_EmptySet
  <1> QED BY <1>3, <1>4, <1>5, <1>6, <1>7, <1>8 DEF rivals

\* The competitor summary and the assessment tell the same of competitors.
LEMMA CompetitorsAgree ==
    ASSUME NEW m, Sound(m)
    PROVE  LET a == EvidenceAssessment(m)
           IN /\ (CompetitorSummary(m).status = "cited") =
                     \E qp \in Pairs : a.answers[qp].competitorCited > 0
              /\ (CompetitorSummary(m).status = "none-found") =
                     \A qp \in Pairs : a.answers[qp].competitorSources = 0
  <1> DEFINE a == EvidenceAssessment(m)
             cited == {qp \in Pairs : /\ Completed(m.results[qp])
                                      /\ m.results[qp].citations \cap Competing(m, qp[1]) # {}}
             grounding == {q \in Queries : Competing(m, q) # {}}
             status == CompetitorSummary(m).status
  <1>1. status = IF cited # {} THEN "cited"
                 ELSE IF grounding # {} THEN "grounding-found" ELSE "none-found"
    BY DEF CompetitorSummary
  <1>2. \A qp \in Pairs : a.answers[qp] = AnswerTrace(m, qp)
    BY DEF EvidenceAssessment
  <1>3. \A qp \in Pairs : qp[1] \in Queries
    BY DEF Pairs
  <1>4. \A q \in Queries : <<q, 1>> \in Pairs
    BY Grid DEF Pairs
  <1> HIDE DEF a, status
  <1>5. status = "cited" <=> \E qp \in Pairs : a.answers[qp].competitorCited > 0
    <2>1. status = "cited" <=> cited # {}
      BY <1>1
    <2>2. \A qp \in Pairs : qp \in cited <=> a.answers[qp].competitorCited > 0
      BY <1>2, CompetitorsCited
    <2> QED BY <2>1, <2>2
  <1>6. status = "none-found" <=> grounding = {}
    <2>1. \A qp \in cited : qp[1] \in grounding
      BY <1>3
    <2> HIDE DEF cited, grounding
    <2> QED BY <1>1, <2>1
  <1>7. grounding = {} <=> \A qp \in Pairs : a.answers[qp].competitorSources = 0
    <2>1. \A qp \in Pairs : a.answers[qp].competitorSources = 0 <=> Competing(m, qp[1]) = {}
      <3> TAKE qp \in Pairs
      <3>1. /\ AnswerTrace(m, qp).competitorSources > 0 <=> Competing(m, qp[1]) # {}
            /\ AnswerTrace(m, qp).competitorSources \in Nat
        BY CompetitorsCited
      <3> QED BY <1>2, <3>1
    <2>2. ASSUME grounding = {}, NEW qp \in Pairs PROVE Competing(m, qp[1]) = {}
      BY <1>3, <2>2
    <2>3. ASSUME \A qp \in Pairs : Competing(m, qp[1]) = {}, NEW q \in Queries
          PROVE  Competing(m, q) = {}
      <3>1. <<q, 1>>[1] = q
        OBVIOUS
      <3> QED BY <1>4, <2>3, <3>1
    <2> QED BY <2>1, <2>2, <2>3
  <1> QED BY <1>5, <1>6, <1>7 DEF a, status

\* As many citations without a source, whichever code counts them.
LEMMA UnsupportedAgree ==
    ASSUME NEW m, Sound(m)
    PROVE  LET a == EvidenceAssessment(m)
               s == MeasurementScores(m)
           IN /\ a.answer.unsupported = ContentStrategy(m).unsupported
              /\ a.answer.unsupported =
                     SumFunction([qp \in Pairs |-> Cardinality(s.byAnswer[qp].unsupported)])
  <1> DEFINE a == EvidenceAssessment(m)
             s == MeasurementScores(m)
             done == {qp \in Pairs : Completed(m.results[qp])}
             traced == [qp \in done |-> Cardinality(AnswerTrace(m, qp).unsupported)]
             listed == [qp \in done |-> Cardinality(m.results[qp].citations \ DOMAIN Sources(m, qp[1]))]
             scored == [qp \in Pairs |-> Cardinality(s.byAnswer[qp].unsupported)]
  <1>1. a.answer.unsupported = SumFunction(traced)
    BY DEF EvidenceAssessment, AnswerSummary
  <1>2. ContentStrategy(m).unsupported = SumFunction(listed)
    BY DEF ContentStrategy
  <1>3. \A qp \in done : traced[qp] = Cardinality(Cites(m, qp, {"unsupported"}))
    BY DEF AnswerTrace
  <1>4. \A qp \in done : listed[qp] = Cardinality(Cites(m, qp, {"unsupported"}))
    BY CitedSources
  <1>5. \A qp \in Pairs : scored[qp] = Cardinality(Cites(m, qp, {"unsupported"}))
    BY DEF MeasurementScores, AnswerRow
  <1>6. \A qp \in Pairs \ done : scored[qp] = 0
    BY <1>5, NothingCited, FS_EmptySet
  <1>7. \A qp \in Pairs : scored[qp] \in Nat
    <2> TAKE qp \in Pairs
    <2>1. CASE qp \in done
      <3>1. /\ IsFiniteSet(m.results[qp].citations)
            /\ Cites(m, qp, {"unsupported"}) = m.results[qp].citations \ DOMAIN Sources(m, qp[1])
        BY <2>1, CitedSources
      <3>2. IsFiniteSet(Cites(m, qp, {"unsupported"}))
        BY <3>1, FS_Subset
      <3> HIDE DEF scored
      <3> QED BY <1>5, <3>2, FS_CardinalityType
    <2>2. CASE qp \notin done
      BY <1>6, <2>2
    <2> QED BY <2>1, <2>2
  <1>8. traced = listed
    BY <1>3, <1>4
  <1>9. DOMAIN traced = done /\ DOMAIN scored = Pairs /\ done \in SUBSET Pairs
    OBVIOUS
  <1> HIDE DEF a, s, traced, listed, scored, done
  <1>10. SumFunctionOnSet(scored, Pairs) = SumFunctionOnSet(traced, done)
    <2>1. \A qp \in done : scored[qp] = traced[qp]
      BY <1>3, <1>5, <1>9
    <2> QED BY <1>6, <1>7, <1>9, <2>1, Grid, SumOfTerms
  <1>11. SumFunction(scored) = SumFunction(traced)
    BY <1>9, <1>10 DEF SumFunction
  <1> QED BY <1>1, <1>2, <1>8, <1>11 DEF a, s, scored

\* A source appears at most as often as it could.
LEMMA AppearancesAreOpportunities ==
    ASSUME NEW m
    PROVE  ContentStrategy(m).appearances <= ContentStrategy(m).opportunities
  <1> DEFINE answered(q) == {p \in Profiles : Completed(m.results[<<q, p>>])}
             shown == {s \in Queries \X (1..5) : s[2] \in Positions(m, s[1], LAMBDA x : x.cue)}
             cites(s) == {p \in answered(s[1]) : s[2] \in m.results[<<s[1], p>>].citations}
             could == [s \in shown |-> Cardinality(answered(s[1]))]
             did == [s \in shown |-> Cardinality(cites(s))]
  <1>1. /\ ContentStrategy(m).opportunities = SumFunction(could)
        /\ ContentStrategy(m).appearances = SumFunction(did)
    BY DEF ContentStrategy
  <1>2. DOMAIN could = shown /\ DOMAIN did = shown
    OBVIOUS
  <1>3. IsFiniteSet(shown)
    <2>1. IsFiniteSet(1 .. 5)
      <3>1. \A n \in Nat : IsFiniteSet(1 .. n)
        BY FS_Interval
      <3> QED BY <3>1
    <2>2. IsFiniteSet(Queries \X (1 .. 5))
      BY <2>1, Grid, FS_Product
    <2>3. shown \in SUBSET (Queries \X (1 .. 5))
      OBVIOUS
    <2> HIDE DEF shown
    <2> QED BY <2>2, <2>3, FS_Subset
  <1>4. \A s \in shown : did[s] \in Nat /\ could[s] \in Nat /\ did[s] <= could[s]
    <2> TAKE s \in shown
    <2>1. cites(s) \in SUBSET answered(s[1]) /\ answered(s[1]) \in SUBSET Profiles
      OBVIOUS
    <2>2. did[s] = Cardinality(cites(s)) /\ could[s] = Cardinality(answered(s[1]))
      OBVIOUS
    <2> HIDE DEF cites, answered, did, could, shown
    <2>3. IsFiniteSet(answered(s[1]))
      BY <2>1, Grid, FS_Subset
    <2>4. IsFiniteSet(cites(s)) /\ Cardinality(cites(s)) <= Cardinality(answered(s[1]))
      BY <2>1, <2>3, FS_Subset
    <2> QED BY <2>2, <2>3, <2>4, FS_CardinalityType
  <1> HIDE DEF shown, could, did
  <1>5. SumFunctionOnSet(did, shown) <= SumFunctionOnSet(could, shown)
    BY <1>3, <1>4, SumAtMost
  <1> QED BY <1>1, <1>2, <1>5 DEF SumFunction

\* The pages of a measurement agree on it.
LEMMA ViewsOfMeasurementAgree ==
    ASSUME NEW m, Sound(m)
    PROVE  ViewsAgree(m, MeasurementScores(m), EvidenceAssessment(m))
  <1> DEFINE s == MeasurementScores(m)
             a == EvidenceAssessment(m)
  <1>1. \A qp \in Pairs : s.byAnswer[qp].cited = a.answers[qp].cited
    BY DEF MeasurementScores, EvidenceAssessment, AnswerRow, AnswerTrace
  <1>2. a.grounding.coverage = Rate(s.retrieval.denominator, NumQueries)
    <2> DEFINE packets == {q \in Queries : m.retrievals[q] # None}
    <2>1. {q \in packets : Completed(m.retrievals[q])} = {q \in Queries : Completed(m.retrievals[q])}
      BY DEF Completed
    <2>2. s.retrieval.denominator = Cardinality({q \in packets : Completed(m.retrievals[q])})
      BY DEF MeasurementScores, Retrieval
    <2>3. a.grounding.coverage =
              Rate(Cardinality({q \in Queries : Completed(m.retrievals[q])}), Cardinality(Queries))
      BY DEF EvidenceAssessment, GroundingSummary
    <2> QED BY <2>1, <2>2, <2>3, Grid
  <1>3. a.answer.coverage = Rate(s.overall.denominator, s.overall.intended)
    <2> DEFINE outcomes == {qp \in Pairs : m.results[qp] # None}
    <2>1. {qp \in outcomes : Completed(m.results[qp])} = {qp \in Pairs : Completed(m.results[qp])}
      BY DEF Completed
    <2>2. /\ s.overall.denominator = Cardinality({qp \in outcomes : Completed(m.results[qp])})
          /\ s.overall.intended = Cardinality(Pairs)
      BY DEF MeasurementScores, Score
    <2>3. a.answer.coverage =
              Rate(Cardinality({qp \in Pairs : Completed(m.results[qp])}), Cardinality(Pairs))
      BY DEF EvidenceAssessment, AnswerSummary
    <2> QED BY <2>1, <2>2, <2>3
  <1>4. /\ a.answer.unsupported = ContentStrategy(m).unsupported
        /\ a.answer.unsupported =
               SumFunction([qp \in Pairs |-> Cardinality(s.byAnswer[qp].unsupported)])
    BY UnsupportedAgree
  <1>5. ContentStrategy(m).appearances <= ContentStrategy(m).opportunities
    BY AppearancesAreOpportunities
  <1>6. /\ (CompetitorSummary(m).status = "cited") = \E qp \in Pairs : a.answers[qp].competitorCited > 0
        /\ (CompetitorSummary(m).status = "none-found") =
               \A qp \in Pairs : a.answers[qp].competitorSources = 0
    BY CompetitorsAgree
  <1> HIDE DEF s, a
  <1>7. ViewsAgree(m, s, a)
    BY <1>1, <1>2, <1>3, <1>4, <1>5, <1>6 DEF ViewsAgree
  <1> QED BY <1>7 DEF s, a

----------------------------------------------------------------------------
(* The run.                                                                *)

\* The inductive invariant: what is built and what is saved is a measurement in
\* which every answer was given a packet, and the state of the run says what was
\* measured, or that it is being measured.
EvaluationInv ==
    /\ job \in {"evaluate", "recover", None}
    /\ Sound(work)
    /\ run = [measurement |-> run.measurement, state |-> run.state, report |-> run.report]
    /\ run.measurement # None => Sound(run.measurement)
    /\ (run.state = "evaluating") <=> (job # None)
    /\ run.state # "evaluating" =>
           Sound(run.measurement) /\ run.state = MeasuredState(run.measurement)

\* Nothing measured yet is a measurement.
LEMMA UnmeasuredIsSound == Sound(Unmeasured)
  <1>1. Unmeasured \in Measurements
    BY DEF Unmeasured, Measurements
  <1>2. \A qp \in Pairs : ~ Completed(Unmeasured.results[qp])
    BY DEF Unmeasured, Completed
  <1> QED BY <1>1, <1>2 DEF Sound, ValidMeasurement

\* A run begins with nothing measured.
LEMMA EvaluationInit == ASSUME Init PROVE EvaluationInv
  BY UnmeasuredIsSound, EvaluationAssumption DEF Init, EvaluationInv

\* A packet that is there now answers for nothing when it failed.
LEMMA RetrieveKeeps ==
    ASSUME EvaluationInv, NEW q \in Queries, NEW packet \in SearchResults, Retrieve(q, packet)
    PROVE  EvaluationInv'
  <1>1. packet \in PacketRecords
    <2>1. FailedPacket \in PacketRecords
      BY DEF FailedPacket, PacketRecords
    <2>2. \A s \in Packets : [status |-> "completed", sources |-> s] \in PacketRecords
      BY EvaluationAssumption DEF PacketRecords
    <2> QED BY <2>1, <2>2 DEF SearchResults
  <1>2. FailedAnswer \in AnswerRecords /\ ~ Completed(FailedAnswer)
    BY FS_EmptySet DEF FailedAnswer, AnswerRecords, Completed
  <1> DEFINE failed == packet.status = "error"
             results == [qp \in Pairs |-> IF failed /\ qp[1] = q THEN FailedAnswer ELSE work.results[qp]]
             retrievals == [work.retrievals EXCEPT ![q] = packet]
  <1>3. work' = [retrievals |-> retrievals, results |-> results] /\ UNCHANGED <<job, run>>
    BY DEF Retrieve
  <1>4. work \in Measurements /\ ValidMeasurement(work)
    BY DEF EvaluationInv, Sound
  <1>5. retrievals \in [Queries -> {None} \cup PacketRecords]
    BY <1>1, <1>4 DEF Measurements
  <1>6. results \in [Pairs -> {None} \cup AnswerRecords]
    BY <1>2, <1>4 DEF Measurements
  <1>7. ASSUME NEW qp \in Pairs, Completed(results[qp]) PROVE Completed(retrievals[qp[1]])
    <2>1. ~ (failed /\ qp[1] = q) /\ Completed(work.results[qp])
      BY <1>2, <1>7
    <2>2. qp[1] \in Queries /\ Completed(work.retrievals[qp[1]])
      BY <1>4, <2>1 DEF ValidMeasurement, Pairs
    <2>3. work.retrievals[q] = None
      BY DEF Retrieve
    <2>4. qp[1] # q
      BY <2>2, <2>3 DEF Completed
    <2>5. retrievals[qp[1]] = work.retrievals[qp[1]]
      BY <1>4, <2>2, <2>4 DEF Measurements
    <2> QED BY <2>2, <2>5
  <1> HIDE DEF results, retrievals
  <1>8. Sound(work')
    BY <1>3, <1>5, <1>6, <1>7 DEF Sound, Measurements, ValidMeasurement
  <1>9. Sound(work)'
    BY <1>8 DEF Sound, Measurements, ValidMeasurement
  <1> QED BY <1>3, <1>9 DEF EvaluationInv, Sound, ValidMeasurement, MeasuredState

\* An answer is given the sources of a packet.
LEMMA AnswerKeeps ==
    ASSUME EvaluationInv, NEW qp \in Pairs, NEW outcome \in Outcomes, Answer(qp, outcome)
    PROVE  EvaluationInv'
  <1>1. outcome \in AnswerRecords
    <2>1. FailedAnswer \in AnswerRecords
      BY FS_EmptySet DEF FailedAnswer, AnswerRecords
    <2>2. \A c \in Citations : [status |-> "completed", citations |-> c] \in AnswerRecords
      BY EvaluationAssumption DEF AnswerRecords
    <2> QED BY <2>1, <2>2 DEF Outcomes
  <1> DEFINE results == [work.results EXCEPT ![qp] = outcome]
  <1>2. work \in Measurements /\ ValidMeasurement(work)
    BY DEF EvaluationInv, Sound
  <1>3. work = [retrievals |-> work.retrievals, results |-> work.results]
    BY <1>2 DEF Measurements
  <1>4. work' = [retrievals |-> work.retrievals, results |-> results] /\ UNCHANGED <<job, run>>
    BY <1>3 DEF Answer
  <1>5. results \in [Pairs -> {None} \cup AnswerRecords]
    BY <1>1, <1>2 DEF Measurements
  <1>6. Completed(work.retrievals[qp[1]])
    BY DEF Answer
  <1>7. ASSUME NEW x \in Pairs, Completed(results[x]) PROVE Completed(work.retrievals[x[1]])
    <2>1. CASE x = qp
      BY <1>6, <2>1
    <2>2. CASE x # qp
      <3>1. results[x] = work.results[x]
        BY <1>2, <2>2 DEF Measurements
      <3> QED BY <1>2, <1>7, <3>1 DEF ValidMeasurement
    <2> QED BY <2>1, <2>2
  <1>8. work.retrievals \in [Queries -> {None} \cup PacketRecords]
    BY <1>2 DEF Measurements
  <1> HIDE DEF results
  <1>9. Sound(work')
    BY <1>4, <1>5, <1>7, <1>8 DEF Sound, Measurements, ValidMeasurement
  <1>10. Sound(work)'
    BY <1>9 DEF Sound, Measurements, ValidMeasurement
  <1> QED BY <1>4, <1>10 DEF EvaluationInv, Sound, ValidMeasurement, MeasuredState

\* What was built becomes what is saved, with its state.
LEMMA SaveKeeps == ASSUME EvaluationInv, Save PROVE EvaluationInv'
  <1>1. /\ run' = [measurement |-> work, state |-> MeasuredState(work), report |-> None]
        /\ job' = None /\ work' = Unmeasured
    BY DEF Save
  <1>2. /\ run'.measurement = work
        /\ run'.state = MeasuredState(work)
        /\ run' = [measurement |-> run'.measurement, state |-> run'.state, report |-> run'.report]
    BY <1>1
  <1>3. MeasuredState(work) # "evaluating"
    BY DEF MeasuredState
  <1>4. Sound(work) /\ Sound(Unmeasured)
    BY UnmeasuredIsSound DEF EvaluationInv
  <1>5. Sound(work)' /\ Sound(run.measurement)' /\ MeasuredState(run.measurement)' = MeasuredState(work)
    BY <1>1, <1>2, <1>4 DEF Sound, ValidMeasurement, MeasuredState
  <1> QED BY <1>1, <1>2, <1>3, <1>5 DEF EvaluationInv

\* A recovery begins with what was saved.
LEMMA RecoverKeeps == ASSUME EvaluationInv, Recover PROVE EvaluationInv'
  <1>1. /\ job' = "recover" /\ work' = run.measurement
        /\ run' = [run EXCEPT !.state = "evaluating"]
        /\ run.state \in {"failed", "partial"}
    BY DEF Recover
  <1>2. /\ run'.measurement = run.measurement /\ run'.state = "evaluating"
        /\ run' = [measurement |-> run'.measurement, state |-> run'.state, report |-> run'.report]
    BY <1>1 DEF EvaluationInv
  <1>3. Sound(run.measurement)
    BY <1>1 DEF EvaluationInv
  <1>4. Sound(work)' /\ Sound(run.measurement)'
    BY <1>1, <1>2, <1>3 DEF Sound, ValidMeasurement
  <1>5. job' # None
    BY <1>1, EvaluationAssumption
  <1> QED BY <1>1, <1>2, <1>4, <1>5 DEF EvaluationInv

\* A report changes nothing that was measured.
LEMMA ReportKeeps ==
    ASSUME EvaluationInv, NEW report, run' = [run EXCEPT !.report = report], UNCHANGED <<job, todo, work>>
    PROVE  EvaluationInv'
  <1>1. /\ run'.measurement = run.measurement /\ run'.state = run.state
        /\ run' = [measurement |-> run'.measurement, state |-> run'.state, report |-> run'.report]
    BY DEF EvaluationInv
  <1>2. /\ Sound(work)' <=> Sound(work)
        /\ Sound(run.measurement)' <=> Sound(run.measurement)
        /\ MeasuredState(run.measurement)' = MeasuredState(run.measurement)
    BY <1>1 DEF Sound, ValidMeasurement, MeasuredState
  <1> QED BY <1>1, <1>2 DEF EvaluationInv

\* No step of the run breaks a measurement.
LEMMA EvaluationNext == ASSUME EvaluationInv, [Next]_vars PROVE EvaluationInv'
  <1>1. ASSUME NEW q \in Queries, NEW packet \in SearchResults, Retrieve(q, packet)
        PROVE  EvaluationInv'
    BY <1>1, RetrieveKeeps
  <1>2. ASSUME NEW qp \in Pairs, NEW outcome \in Outcomes, Answer(qp, outcome)
        PROVE  EvaluationInv'
    BY <1>2, AnswerKeeps
  <1>3. CASE Save
    BY <1>3, SaveKeeps
  <1>4. CASE Recover
    BY <1>4, RecoverKeeps
  <1>5. ASSUME NEW drafts \in Drafts, RecommendBaseline(drafts)
        PROVE  EvaluationInv'
    <2>1. /\ run' = [run EXCEPT !.report = BaselineReport(run.measurement, drafts)]
          /\ UNCHANGED <<job, todo, work>>
      BY <1>5 DEF RecommendBaseline
    <2> QED BY <2>1, ReportKeeps
  <1>6. ASSUME NEW signals \in Signals, NEW proposal \in Proposals, RecommendPlan(signals, proposal)
        PROVE  EvaluationInv'
    <2> DEFINE context == [measurement |-> run.measurement, captured |-> signals.captured,
                           fields |-> signals.fields, findings |-> signals.findings]
    <2>1. /\ run' = [run EXCEPT !.report = PlanReport(context, proposal)]
          /\ UNCHANGED <<job, todo, work>>
      BY <1>6 DEF RecommendPlan
    <2> QED BY <2>1, ReportKeeps
  <1>7. CASE UNCHANGED vars
    <2>1. UNCHANGED <<job, work, run>>
      BY <1>7 DEF vars
    <2> QED BY <2>1 DEF EvaluationInv, Sound, ValidMeasurement, MeasuredState
  <1> QED BY <1>1, <1>2, <1>3, <1>4, <1>5, <1>6, <1>7 DEF Next

\* What is built and saved is always a measurement (EvaluationHandler, its
\* recovery and MeasurementResults.validate_results).
THEOREM MeasurementsAreSound == Spec => []EvaluationInv
  <1>1. Init => EvaluationInv
    BY EvaluationInit
  <1>2. EvaluationInv /\ [Next]_vars => EvaluationInv'
    BY EvaluationNext
  <1> QED BY <1>1, <1>2, PTL DEF Spec

\* The computations agree on every measurement the run saves.
LEMMA SoundScoresAgree == ASSUME EvaluationInv PROVE ScoresAgree
  <1>1. SUFFICES ASSUME run.measurement # None
                 PROVE  LET m == run.measurement
                            s == MeasurementScores(m)
                            a == EvidenceAssessment(m)
                        IN /\ ValidMeasurement(m)
                           /\ PartsAddUp(s)
                           /\ ProfilesCompare(m, s, a)
                           /\ GapsShow(m, s)
                           /\ ViewsAgree(m, s, a)
                           /\ run.state = "ready" <=> job = None /\ ~s.overall.provisional
                           /\ run.state = "failed" => s.overall.denominator = 0
    BY DEF ScoresAgree
  <1> DEFINE m == run.measurement
             s == MeasurementScores(m)
             a == EvidenceAssessment(m)
             done == Done(m, Pairs)
  <1>2. Sound(m)
    BY <1>1 DEF EvaluationInv
  <1>3. s.overall = Score(m, Pairs)
    BY DEF MeasurementScores
  <1>4. s.overall.provisional = (done # Pairs) /\ s.overall.denominator = Cardinality(done)
    <2>1. "denominator" \in Fields /\ CountedPairs(m, Pairs).denominator = done /\ Pairs \in SUBSET Pairs
      BY DEF Fields, CountedPairs
    <2>2. \A f \in Fields : Score(m, Pairs)[f] = Cardinality(CountedPairs(m, Pairs)[f])
      BY <2>1, ScoreCounts
    <2>3. Score(m, Pairs).provisional = (Pairs = {} \/ done # Pairs)
      BY <2>1, ScoreCounts
    <2>4. Pairs # {}
      BY Grid
    <2> HIDE DEF s, done
    <2> QED BY <1>3, <2>1, <2>2, <2>3, <2>4
  <1>5. job = None => run.state = IF done = Pairs THEN "ready" ELSE IF done # {} THEN "partial" ELSE "failed"
    BY DEF EvaluationInv, MeasuredState, Done
  <1>6. job # None => run.state = "evaluating"
    BY DEF EvaluationInv
  <1> HIDE DEF m, s, a, done
  <1>7. run.state = "ready" <=> job = None /\ ~s.overall.provisional
    BY <1>4, <1>5, <1>6
  <1>8. run.state = "failed" => s.overall.denominator = 0
    <2>1. run.state = "failed" => done = {}
      BY <1>5, <1>6
    <2> QED BY <1>4, <2>1, FS_EmptySet
  <1>9. ValidMeasurement(m)
    BY <1>2 DEF Sound
  <1>10. PartsAddUp(s) /\ ProfilesCompare(m, s, a)
    BY BreakdownsAddUp, ProfilesCompareAlike DEF s, a
  <1>11. GapsShow(m, s) /\ ViewsAgree(m, s, a)
    BY <1>2, GapsShowInScores, ViewsOfMeasurementAgree DEF s, a
  <1> QED BY <1>7, <1>8, <1>9, <1>10, <1>11 DEF m, s, a

\* The score, its breakdowns, the assessment, the competitor summary, the
\* content strategy, the gaps and the state of the run never contradict one
\* another, for any number of queries, profiles, sources and citations
\* (measurement_scores, build_evidence_assessment, build_competitor_summary,
\* build_content_strategy, _gap_class).
THEOREM ScoresNeverContradict == Spec => []ScoresAgree
  <1>1. EvaluationInv => ScoresAgree
    BY SoundScoresAgree
  <1> QED BY <1>1, MeasurementsAreSound, PTL

----------------------------------------------------------------------------
(* Folds over a sequence.                                                  *)

\* What holds of the first number, and of a number if of the one before it,
\* holds up to the last.
LEMMA UpTo ==
    ASSUME NEW n \in Nat, NEW G, 0 \in G, \A i \in 1 .. n : i - 1 \in G => i \in G
    PROVE  0 .. n \subseteq G
  <1> DEFINE Bad == {i \in 0 .. n : i \notin G}
  <1> SUFFICES ASSUME Bad # {} PROVE FALSE
    OBVIOUS
  <1>1. PICK m \in Bad : \A i \in Bad : m <= i
    <2>1. Bad \in SUBSET Nat
      OBVIOUS
    <2> HIDE DEF Bad
    <2> QED BY <2>1, LeastNumber
  <1>2. m \in 1 .. n
    BY <1>1
  <1>3. m - 1 \in 0 .. n /\ m - 1 \notin Bad
    BY <1>1, <1>2
  <1> QED BY <1>1, <1>2, <1>3

\* The greatest of some of the first numbers, and of all.
LEMMA Greatest ==
    ASSUME NEW n \in Nat, NEW s \in SUBSET (1 .. n), s # {}
    PROVE  Max(s) \in s
  <1> DEFINE D == {d \in Nat : \E x \in s : d = n - x}
  <1>1. D \in SUBSET Nat /\ D # {}
    <2>1. PICK x \in s : TRUE
      OBVIOUS
    <2>2. n - x \in Nat
      BY <2>1
    <2> QED BY <2>1, <2>2
  <1>2. PICK d \in D : \A e \in D : d <= e
    <2> HIDE DEF D
    <2> QED BY <1>1, LeastNumber
  <1>3. PICK x \in s : d = n - x
    BY <1>2
  <1>4. ASSUME NEW y \in s PROVE x >= y
    <2>1. x \in 1 .. n /\ y \in 1 .. n
      BY <1>3, <1>4
    <2>2. n - y \in D
      BY <2>1, <1>4
    <2>3. n - x <= n - y
      BY <1>2, <1>3, <2>2
    <2> QED BY <2>1, <2>3
  <1>5. \E m \in s : \A y \in s : m >= y
    BY <1>3, <1>4
  <1> QED BY <1>5 DEF Max

\* The greatest of the first k numbers is k.
LEMMA GreatestOfAll ==
    ASSUME NEW k \in Nat \ {0}
    PROVE  Max(1 .. k) = k
  <1>1. Max(1 .. k) \in 1 .. k
    <2>1. 1 .. k \in SUBSET (1 .. k) /\ 1 .. k # {} /\ k \in Nat
      OBVIOUS
    <2> QED BY <2>1, Greatest
  <1>2. \E m \in 1 .. k : \A y \in 1 .. k : m >= y
    OBVIOUS
  <1>3. \A y \in 1 .. k : Max(1 .. k) >= y
    BY <1>2 DEF Max
  <1> QED BY <1>1, <1>3

\* How FoldLeft goes through a sequence: the last element first, in a set of
\* places that shrinks; the value so far is one of a type.
Folds(n, T, b, st, h) ==
    h = [s \in SUBSET (1 .. n) |-> IF s = {} THEN b ELSE st[<<h[s \ {Max(s)}], Max(s)>>]]

\* A fold through a finite sequence can be computed, and has the type of its steps.
LEMMA FoldExists ==
    ASSUME NEW n \in Nat, NEW T, NEW b \in T, NEW st \in [T \X (1 .. n) -> T]
    PROVE  \E h \in [SUBSET (1 .. n) -> T] : Folds(n, T, b, st, h)
  <1> DEFINE S == 1 .. n
             Eq(s, h) == \A t \in SUBSET s :
                             h[t] = IF t = {} THEN b ELSE st[<<h[t \ {Max(t)}], Max(t)>>]
             Is(s, h) == h \in [SUBSET s -> T] /\ Eq(s, h)
             Good == {s \in SUBSET S : \E h : Is(s, h)}
             B == {s \in SUBSET S : s \notin Good}
  <1>1. \A s \in SUBSET S : s # {} => Max(s) \in s
    BY Greatest
  <1>2. IsFiniteSet(S)
    BY FS_Interval
  <1> HIDE DEF S
  <1>3. ASSUME NEW s \in SUBSET S, NEW r \in SUBSET S, NEW h, NEW k,
               r \subseteq s, Is(s, h), Is(r, k)
        PROVE  \A t \in SUBSET r : h[t] = k[t]
    <2> DEFINE D == {t \in SUBSET r : h[t] # k[t]}
    <2> SUFFICES ASSUME D # {} PROVE FALSE
      OBVIOUS
    <2>1. PICK t \in D : \A u \in D : u \subseteq t => u = t
      <3>1. D \in SUBSET (SUBSET S) /\ D # {}
        OBVIOUS
      <3> HIDE DEF D
      <3> QED BY <1>2, <3>1, Minimal
    <2>2. t \in SUBSET r /\ t \in SUBSET s /\ t \in SUBSET S /\ h[t] # k[t]
      BY <1>3, <2>1
    <2>3. h[t] = IF t = {} THEN b ELSE st[<<h[t \ {Max(t)}], Max(t)>>]
      BY <1>3, <2>2
    <2>4. k[t] = IF t = {} THEN b ELSE st[<<k[t \ {Max(t)}], Max(t)>>]
      BY <1>3, <2>2
    <2>5. t # {}
      BY <2>2, <2>3, <2>4
    <2>6. t \ {Max(t)} # t /\ t \ {Max(t)} \in SUBSET r
      BY <1>1, <2>2, <2>5
    <2>7. h[t \ {Max(t)}] = k[t \ {Max(t)}]
      BY <2>1, <2>6
    <2> QED BY <2>2, <2>3, <2>4, <2>5, <2>7
  <1>4. SUFFICES B = {}
    <2>1. S \in Good
      BY <1>4
    <2>2. PICK h : Is(S, h)
      BY <2>1
    <2> QED BY <2>2 DEF Folds, S
  <1>5. SUFFICES ASSUME B # {} PROVE FALSE
    OBVIOUS
  <1>6. PICK s \in B : \A t \in B : t \subseteq s => t = s
    <2>1. B \in SUBSET (SUBSET S)
      OBVIOUS
    <2> HIDE DEF B
    <2> QED BY <1>2, <1>5, <2>1, Minimal
  <1>7. s \in SUBSET S /\ ~ \E h : Is(s, h)
    BY <1>6
  <1> DEFINE F(t) == CHOOSE h : Is(t, h)
             v == [t \in SUBSET s |-> F(t)[t]]
             h == [t \in SUBSET s |-> IF t = {} THEN b ELSE st[<<v[t \ {Max(t)}], Max(t)>>]]
  <1>8. \A t \in SUBSET s : t # s => Is(t, F(t))
    <2> TAKE t \in SUBSET s
    <2> HAVE t # s
    <2>1. t \in SUBSET S /\ t \notin B
      BY <1>6, <1>7
    <2>2. \E k : Is(t, k)
      BY <2>1
    <2> HIDE DEF Is
    <2> QED BY <2>2
  <1>9. \A t \in SUBSET s : t # {} => Max(t) \in t /\ Max(t) \in S
                                     /\ t \ {Max(t)} \in SUBSET s /\ t \ {Max(t)} # s
    <2> TAKE t \in SUBSET s
    <2> HAVE t # {}
    <2>1. t \in SUBSET S
      BY <1>7
    <2>2. Max(t) \in t
      BY <1>1, <2>1
    <2> QED BY <2>1, <2>2
  <1>10. \A t \in SUBSET s : t # s => v[t] \in T
    <2> TAKE t \in SUBSET s
    <2> HAVE t # s
    <2>1. Is(t, F(t)) /\ v[t] = F(t)[t]
      BY <1>8
    <2>2. F(t) \in [SUBSET t -> T] /\ t \in SUBSET t
      BY <2>1
    <2> HIDE DEF F, v
    <2> QED BY <2>1, <2>2
  <1>11. h \in [SUBSET s -> T]
    <2>1. ASSUME NEW t \in SUBSET s, t # {}
          PROVE  st[<<v[t \ {Max(t)}], Max(t)>>] \in T
      <3>1. v[t \ {Max(t)}] \in T /\ Max(t) \in S
        BY <1>9, <1>10, <2>1
      <3> HIDE DEF v
      <3> QED BY <3>1 DEF S
    <2> HIDE DEF v
    <2> QED BY <2>1
  <1>12. \A t \in SUBSET s : t # s => v[t] = h[t]
    <2> TAKE t \in SUBSET s
    <2> HAVE t # s
    <2>1. Is(t, F(t)) /\ v[t] = F(t)[t]
      BY <1>8
    <2>2. F(t)[t] = IF t = {} THEN b ELSE st[<<F(t)[t \ {Max(t)}], Max(t)>>]
      <3>1. Eq(t, F(t)) /\ t \in SUBSET t
        BY <2>1
      <3> HIDE DEF F
      <3> QED BY <3>1
    <2>3. CASE t = {}
      BY <2>1, <2>2, <2>3
    <2>4. CASE t # {}
      <3> DEFINE u == t \ {Max(t)}
      <3>1. u \in SUBSET t /\ u \in SUBSET s /\ u # s /\ t \in SUBSET S /\ u \in SUBSET S
        BY <1>7, <1>9, <2>4
      <3>2. Is(u, F(u)) /\ v[u] = F(u)[u] /\ u \in SUBSET u
        BY <1>8, <3>1
      <3>3. h[t] = st[<<v[u], Max(t)>>]
        BY <2>4
      <3>4. F(t)[t] = st[<<F(t)[u], Max(t)>>]
        BY <2>2, <2>4
      <3> HIDE DEF F, v, u, h, Is
      <3>5. F(t)[u] = F(u)[u]
        BY <1>3, <2>1, <3>1, <3>2
      <3> QED BY <2>1, <3>2, <3>3, <3>4, <3>5
    <2> QED BY <2>3, <2>4
  <1>13. Eq(s, h)
    <2> SUFFICES ASSUME NEW t \in SUBSET s
                 PROVE  h[t] = IF t = {} THEN b ELSE st[<<h[t \ {Max(t)}], Max(t)>>]
      OBVIOUS
    <2>1. CASE t = {}
      BY <2>1
    <2>2. CASE t # {}
      <3>1. h[t] = st[<<v[t \ {Max(t)}], Max(t)>>]
        BY <2>2
      <3>2. v[t \ {Max(t)}] = h[t \ {Max(t)}]
        BY <1>9, <1>12, <2>2
      <3> HIDE DEF v, h
      <3> QED BY <2>2, <3>1, <3>2
    <2> QED BY <2>1, <2>2
  <1>14. Is(s, h)
    <2> HIDE DEF h, Eq
    <2> QED BY <1>11, <1>13
  <1> HIDE DEF Is, h
  <1> QED BY <1>7, <1>14

----------------------------------------------------------------------------
(* Entries of a log.                                                       *)

\* How often an item is in a log.
LoggedOf(log, id) == Cardinality({i \in DOMAIN log : log[i].item = id})

\* A log is finite.
LEMMA LogCounts ==
    ASSUME NEW X, NEW log \in Seq(X), NEW id
    PROVE  /\ IsFiniteSet({i \in DOMAIN log : log[i].item = id})
           /\ LoggedOf(log, id) \in Nat
  <1>1. Len(log) \in Nat /\ DOMAIN log = 1 .. Len(log)
    OBVIOUS
  <1>2. IsFiniteSet(DOMAIN log)
    BY <1>1, FS_Interval
  <1>3. IsFiniteSet({i \in DOMAIN log : log[i].item = id})
    BY <1>2, FS_Subset
  <1> QED BY <1>3, FS_CardinalityType DEF LoggedOf

\* An entry counts for its item.
LEMMA LogGrows ==
    ASSUME NEW X, NEW log \in Seq(X), NEW e \in X, NEW id
    PROVE  LoggedOf(Append(log, e), id) = LoggedOf(log, id) + (IF e.item = id THEN 1 ELSE 0)
  <1> DEFINE n == Len(log)
             new == Append(log, e)
             A == {i \in DOMAIN log : log[i].item = id}
             C == {i \in DOMAIN new : new[i].item = id}
  <1>1. /\ n \in Nat /\ DOMAIN log = 1 .. n /\ DOMAIN new = 1 .. n + 1
        /\ new[n + 1] = e /\ \A i \in 1 .. n : new[i] = log[i]
    OBVIOUS
  <1>2. IsFiniteSet(A) /\ Cardinality(A) \in Nat /\ n + 1 \notin A
    <2>1. IsFiniteSet(A) /\ LoggedOf(log, id) \in Nat
      BY LogCounts
    <2>2. n + 1 \notin A
      BY <1>1
    <2> QED BY <2>1, <2>2 DEF LoggedOf
  <1>3. CASE e.item = id
    <2>1. C = A \cup {n + 1}
      <3> HIDE DEF n, new
      <3> QED BY <1>1, <1>3
    <2> HIDE DEF A, C, n
    <2>2. Cardinality(A \cup {n + 1}) = Cardinality(A) + 1
      BY <1>2, FS_AddElement
    <2> QED BY <1>3, <2>1, <2>2 DEF LoggedOf, A, C
  <1>4. CASE e.item # id
    <2>1. C = A
      <3> HIDE DEF n, new
      <3> QED BY <1>1, <1>4
    <2>2. LoggedOf(new, id) = Cardinality(C) /\ LoggedOf(log, id) = Cardinality(A)
      BY DEF LoggedOf
    <2> HIDE DEF A, C, n
    <2>3. LoggedOf(new, id) = LoggedOf(log, id) + 0
      BY <1>2, <2>1, <2>2
    <2> QED BY <1>4, <2>3
  <1> QED BY <1>3, <1>4

\* The entries of two logs add up.
LEMMA LogsJoin ==
    ASSUME NEW X, NEW log \in Seq(X), NEW more \in Seq(X), NEW id
    PROVE  /\ log \o more \in Seq(X)
           /\ LoggedOf(log \o more, id) = LoggedOf(log, id) + LoggedOf(more, id)
  <1> DEFINE n == Len(log)
             k == Len(more)
             new == log \o more
             A == {i \in DOMAIN log : log[i].item = id}
             B == {i \in DOMAIN more : more[i].item = id}
             C == {i \in DOMAIN new : new[i].item = id}
             D == {i \in (n + 1) .. (n + k) : i - n \in B}
             f == [j \in B |-> n + j]
  <1>1. /\ n \in Nat /\ k \in Nat /\ DOMAIN log = 1 .. n /\ DOMAIN more = 1 .. k
        /\ new \in Seq(X) /\ DOMAIN new = 1 .. n + k
        /\ \A i \in 1 .. n : new[i] = log[i]
        /\ \A i \in (n + 1) .. (n + k) : new[i] = more[i - n]
    OBVIOUS
  <1>2. IsFiniteSet(A) /\ IsFiniteSet(B) /\ Cardinality(A) \in Nat /\ Cardinality(B) \in Nat
    BY LogCounts DEF LoggedOf
  <1>3. A \in SUBSET (1 .. n) /\ B \in SUBSET (1 .. k)
    BY <1>1
  <1>4. C = A \cup D
    <2>1. \A i \in 1 .. n : i \in C <=> i \in A
      BY <1>1
    <2>2. \A i \in (n + 1) .. (n + k) : i \in C <=> i \in D
      <3> TAKE i \in (n + 1) .. (n + k)
      <3>1. i - n \in 1 .. k /\ i \in 1 .. n + k /\ new[i] = more[i - n]
        BY <1>1
      <3>2. i \in C <=> more[i - n].item = id
        BY <1>1, <3>1
      <3>3. i \in D <=> more[i - n].item = id
        BY <1>1, <3>1
      <3> QED BY <3>2, <3>3
    <2>3. C \in SUBSET (1 .. n + k) /\ D \in SUBSET ((n + 1) .. (n + k))
      BY <1>1
    <2>4. \A i \in 1 .. n + k : i \in 1 .. n \/ i \in (n + 1) .. (n + k)
      BY <1>1
    <2>5. \A i \in 1 .. n : i \notin D
      BY <1>1
    <2>6. \A i \in (n + 1) .. (n + k) : i \notin A /\ i \in 1 .. n + k
      BY <1>1
    <2>7. \A i \in 1 .. n : i \in 1 .. n + k
      BY <1>1
    <2> HIDE DEF A, C, D, n, k
    <2> QED BY <1>3, <2>1, <2>2, <2>3, <2>4, <2>5, <2>6, <2>7
  <1>5. f \in Bijection(B, D)
    <2>1. f \in [B -> D]
      BY <1>1, <1>3
    <2>2. \A x, y \in B : f[x] = f[y] => x = y
      BY <1>1, <1>3
    <2>3. \A d \in D : \E x \in B : f[x] = d
      <3> TAKE d \in D
      <3>1. d - n \in B /\ f[d - n] = d
        BY <1>1
      <3> QED BY <3>1
    <2> HIDE DEF f, B, D
    <2> QED BY <2>1, <2>2, <2>3 DEF Bijection, Injection, Surjection, IsInjective
  <1>6. IsFiniteSet(D) /\ Cardinality(D) = Cardinality(B)
    <2> HIDE DEF f, B, D
    <2>1. ExistsBijection(B, D)
      BY <1>5 DEF ExistsBijection
    <2> QED BY <1>2, <2>1, FS_Bijection
  <1>7. A \cap D = {}
    BY <1>1
  <1>8. Cardinality(A \cup D) = Cardinality(A) + Cardinality(D)
    <2> HIDE DEF A, D
    <2>1. Cardinality(A \cup D) = Cardinality(A) + Cardinality(D) - Cardinality(A \cap D)
      BY <1>2, <1>6, FS_Union
    <2>2. Cardinality(A \cap D) = 0
      BY <1>7, FS_EmptySet
    <2> QED BY <1>2, <1>6, <2>1, <2>2
  <1>9. LoggedOf(new, id) = Cardinality(C) /\ LoggedOf(log, id) = Cardinality(A)
        /\ LoggedOf(more, id) = Cardinality(B)
    BY DEF LoggedOf
  <1> HIDE DEF A, B, C, D, n, k, new
  <1>10. LoggedOf(new, id) = LoggedOf(log, id) + LoggedOf(more, id)
    BY <1>4, <1>6, <1>8, <1>9
  <1> QED BY <1>1, <1>10 DEF new

----------------------------------------------------------------------------
(* The review of a proposal.                                               *)

Ids(proposal) == {proposal[i].id : i \in DOMAIN proposal}
Named(proposal) == UNION {proposal[i].checks : i \in DOMAIN proposal}

\* The items a review may keep, and what it may write of the others.
Candidates(context, proposal) ==
    {Ranked(context.measurement, item) : item \in {x \in ToSet(proposal) : Supported(context, x)}}
Entries(ids) ==
    [item : ids, rule : {"duplicate-item-id", "item-validation",
                         "unaddressed-technical-finding", "report-size"}]

Reviews(context, proposal) ==
    [seen : SUBSET Ids(proposal), addressed : SUBSET Named(proposal),
     ranked : SUBSET Candidates(context, proposal), log : Seq(Entries(Ids(proposal)))]

\* An item leaves a line in the log, or is kept as the first of its identifier.
ReviewStep(context, proposal, item, r, new) ==
    /\ new \in Reviews(context, proposal)
    /\ new.seen = r.seen \cup {item.id}
    /\ \/ /\ new.ranked = r.ranked
          /\ \E e \in Entries(Ids(proposal)) : e.item = item.id /\ new.log = Append(r.log, e)
       \/ /\ item.id \notin r.seen
          /\ \E a \in Candidates(context, proposal) : a.id = item.id /\ new.ranked = r.ranked \cup {a}
          /\ new.log = r.log

\* What the review of one item does, test by test (validate_plan).
LEMMA ReviewOfOne ==
    ASSUME NEW context, NEW proposal, NEW i \in DOMAIN proposal, NEW r \in Reviews(context, proposal)
    PROVE  ReviewStep(context, proposal, proposal[i], r, Review(context, r, proposal[i]))
  <1> DEFINE item == proposal[i]
             new == Review(context, r, item)
             ids == Ids(proposal)
             names == Named(proposal)
             ranks == Candidates(context, proposal)
             entries == Entries(ids)
             a == Ranked(context.measurement, item)
             twice == [item |-> item.id, rule |-> "duplicate-item-id"]
             refused == [item |-> item.id, rule |-> "item-validation"]
             more == r.seen \cup {item.id}
             named == r.addressed \cup item.checks
  <1>1. item.id \in ids /\ item.checks \subseteq names /\ item \in ToSet(proposal)
    BY DEF Ids, Named, ToSet
  <1>2. Supported(context, item) => a \in ranks
    BY <1>1 DEF Candidates
  <1>3. a.id = item.id
    BY DEF Ranked
  <1>4. twice \in entries /\ refused \in entries /\ twice.item = item.id /\ refused.item = item.id
    BY <1>1 DEF Entries
  <1>5. new = IF item.id \in r.seen THEN [r EXCEPT !.log = Append(@, twice)]
              ELSE IF ~Supported(context, item)
                   THEN [r EXCEPT !.seen = more, !.log = Append(r.log, refused)]
              ELSE IF item.unsound
                   THEN [r EXCEPT !.seen = more, !.addressed = named, !.log = Append(r.log, refused)]
              ELSE [r EXCEPT !.seen = more, !.addressed = named, !.ranked = r.ranked \cup {a}]
    BY DEF Review, Logged
  <1>6. r \in [seen : SUBSET ids, addressed : SUBSET names, ranked : SUBSET ranks, log : Seq(entries)]
    BY DEF Reviews
  <1> SUFFICES /\ new \in [seen : SUBSET ids, addressed : SUBSET names, ranked : SUBSET ranks,
                            log : Seq(entries)]
               /\ new.seen = more
               /\ \/ /\ new.ranked = r.ranked
                     /\ \E e \in entries : e.item = item.id /\ new.log = Append(r.log, e)
                  \/ /\ item.id \notin r.seen
                     /\ \E x \in ranks : x.id = item.id /\ new.ranked = r.ranked \cup {x}
                     /\ new.log = r.log
    BY DEF Reviews, ReviewStep
  <1>11. /\ more \in SUBSET ids /\ named \in SUBSET names
         /\ r.seen \in SUBSET ids /\ r.addressed \in SUBSET names /\ r.ranked \in SUBSET ranks
    <2> HIDE DEF item, ids, names, ranks, entries
    <2> QED BY <1>1, <1>6
  <1>12. /\ r.log \in Seq(entries) /\ Append(r.log, twice) \in Seq(entries)
         /\ Append(r.log, refused) \in Seq(entries)
    <2> HIDE DEF item, ids, names, ranks, entries, twice, refused
    <2> QED BY <1>4, <1>6
  <1> HIDE DEF item, new, ids, names, ranks, entries, a, twice, refused
  <1>13. item.id \in r.seen => more = r.seen
    OBVIOUS
  <1> HIDE DEF more, named
  <1>7. CASE item.id \in r.seen
    <2>1. new = [r EXCEPT !.log = Append(r.log, twice)]
      BY <1>5, <1>7
    <2> DEFINE log == Append(r.log, twice)
    <2>3. log \in Seq(entries)
      BY <1>12
    <2> HIDE DEF log
    <2>2. /\ new \in [seen : SUBSET ids, addressed : SUBSET names, ranked : SUBSET ranks, log : Seq(entries)]
          /\ new.seen = more /\ new.ranked = r.ranked /\ new.log = Append(r.log, twice)
      BY <1>6, <1>7, <1>11, <1>13, <2>1, <2>3 DEF log
    <2> QED BY <1>4, <2>2
  <1>8. CASE item.id \notin r.seen /\ ~Supported(context, item)
    <2>1. new = [r EXCEPT !.seen = more, !.log = Append(r.log, refused)]
      BY <1>5, <1>8
    <2>2. /\ new \in [seen : SUBSET ids, addressed : SUBSET names, ranked : SUBSET ranks, log : Seq(entries)]
          /\ new.seen = more /\ new.ranked = r.ranked /\ new.log = Append(r.log, refused)
      BY <1>6, <1>11, <1>12, <2>1
    <2> QED BY <1>4, <2>2
  <1>9. CASE item.id \notin r.seen /\ Supported(context, item) /\ item.unsound
    <2>1. new = [r EXCEPT !.seen = more, !.addressed = named, !.log = Append(r.log, refused)]
      BY <1>5, <1>9
    <2>2. /\ new \in [seen : SUBSET ids, addressed : SUBSET names, ranked : SUBSET ranks, log : Seq(entries)]
          /\ new.seen = more /\ new.ranked = r.ranked /\ new.log = Append(r.log, refused)
      BY <1>6, <1>11, <1>12, <2>1
    <2> QED BY <1>4, <2>2
  <1>10. CASE item.id \notin r.seen /\ Supported(context, item) /\ ~item.unsound
    <2>1. new = [r EXCEPT !.seen = more, !.addressed = named, !.ranked = r.ranked \cup {a}]
      BY <1>5, <1>10
    <2>2. /\ new \in [seen : SUBSET ids, addressed : SUBSET names, ranked : SUBSET ranks, log : Seq(entries)]
          /\ new.seen = more /\ new.ranked = r.ranked \cup {a} /\ new.log = r.log
      BY <1>2, <1>6, <1>10, <1>11, <2>1
    <2> QED BY <1>2, <1>3, <1>10, <2>2
  <1> QED BY <1>7, <1>8, <1>9, <1>10

\* The review goes through the proposal from its first item to its last.
LEMMA ReviewSteps ==
    ASSUME NEW context, NEW X, NEW proposal \in Seq(X)
    PROVE  \E after \in [0 .. Len(proposal) -> Reviews(context, proposal)] :
               /\ after[0] = NoReview
               /\ \A k \in 1 .. Len(proposal) : after[k] = Review(context, after[k - 1], proposal[k])
               /\ ReviewOf(context, proposal) = after[Len(proposal)]
  <1> DEFINE n == Len(proposal)
             T == Reviews(context, proposal)
             st == [x \in T \X (1 .. n) |-> Review(context, x[1], proposal[x[2]])]
             Is(h) == h = [s \in SUBSET (DOMAIN proposal) |->
                              IF s = {} THEN NoReview
                              ELSE Review(context, h[s \ {Max(s)}], proposal[Max(s)])]
  <1>1. n \in Nat /\ DOMAIN proposal = 1 .. n
    OBVIOUS
  <1>2. NoReview \in T
    BY DEF NoReview, Reviews
  <1>3. \A r \in T : \A k \in 1 .. n : Review(context, r, proposal[k]) \in T
    BY <1>1, ReviewOfOne DEF ReviewStep
  <1>4. \E h : Is(h)
    <2>1. st \in [T \X (1 .. n) -> T]
      <3> HIDE DEF T, n
      <3> QED BY <1>3
    <2>2. PICK h \in [SUBSET (1 .. n) -> T] : Folds(n, T, NoReview, st, h)
      <3> HIDE DEF T, n, st
      <3> QED BY <1>1, <1>2, <2>1, FoldExists
    <2>3. \A s \in SUBSET (1 .. n) :
              h[s] = IF s = {} THEN NoReview ELSE Review(context, h[s \ {Max(s)}], proposal[Max(s)])
      <3> TAKE s \in SUBSET (1 .. n)
      <3>1. h[s] = IF s = {} THEN NoReview ELSE st[<<h[s \ {Max(s)}], Max(s)>>]
        <4> HIDE DEF T, n, st
        <4> QED BY <2>2 DEF Folds
      <3>2. CASE s = {}
        BY <3>1, <3>2
      <3>3. CASE s # {}
        <4>1. Max(s) \in 1 .. n
          <5>1. Max(s) \in s
            BY <1>1, <3>3, Greatest
          <5> QED BY <5>1
        <4>2. h[s \ {Max(s)}] \in T
          <5> HIDE DEF T, n
          <5> QED BY <2>2
        <4>3. st[<<h[s \ {Max(s)}], Max(s)>>] = Review(context, h[s \ {Max(s)}], proposal[Max(s)])
          <5> HIDE DEF T, n
          <5> QED BY <4>1, <4>2
        <4> HIDE DEF st
        <4> QED BY <3>1, <3>3, <4>3
      <3> QED BY <3>2, <3>3
    <2>4. h = [s \in SUBSET (1 .. n) |->
                  IF s = {} THEN NoReview ELSE Review(context, h[s \ {Max(s)}], proposal[Max(s)])]
      <3> HIDE DEF T, n, st
      <3> QED BY <2>2, <2>3
    <2>5. Is(h)
      BY <1>1, <2>4
    <2> QED BY <2>5
  <1> DEFINE h == CHOOSE k : Is(k)
  <1>5. Is(h)
    <2> HIDE DEF Is
    <2> QED BY <1>4
  <1>6. ReviewOf(context, proposal) = h[DOMAIN proposal]
    BY DEF ReviewOf, FoldLeft, MapThenFoldSet
  <1> HIDE DEF h
  <1>7. h[{}] = NoReview
    BY <1>5
  <1>8. ASSUME NEW k \in 1 .. n
        PROVE  h[1 .. k] = Review(context, h[1 .. (k - 1)], proposal[k])
    <2>1. 1 .. k \in SUBSET (1 .. n) /\ 1 .. k # {} /\ (1 .. k) \ {k} = 1 .. (k - 1)
      <3> HIDE DEF n
      <3>1. k \in Nat \ {0} /\ k <= n /\ n \in Nat
        BY <1>1
      <3>2. \A i \in 1 .. k : i \in 1 .. n /\ (i # k => i \in 1 .. (k - 1))
        BY <3>1
      <3>3. \A i \in 1 .. (k - 1) : i \in 1 .. k /\ i # k
        BY <3>1
      <3>4. k \in 1 .. k
        BY <3>1
      <3> QED BY <3>2, <3>3, <3>4
    <2>2. Max(1 .. k) = k
      BY <1>1, GreatestOfAll
    <2>3. h[1 .. k] = Review(context, h[(1 .. k) \ {Max(1 .. k)}], proposal[Max(1 .. k)])
      BY <1>1, <1>5, <2>1
    <2> QED BY <2>1, <2>2, <2>3
  <1> DEFINE G == {k \in 0 .. n : h[1 .. k] \in T}
             after == [k \in 0 .. n |-> h[1 .. k]]
  <1>9. 0 .. n \subseteq G
    <2>1. 0 \in G
      <3>1. 1 .. 0 = {}
        OBVIOUS
      <3> QED BY <1>1, <1>2, <1>7, <3>1
    <2>2. ASSUME NEW k \in 1 .. n, k - 1 \in G PROVE k \in G
      <3>1. h[1 .. (k - 1)] \in T
        BY <2>2
      <3> HIDE DEF T
      <3>2. Review(context, h[1 .. (k - 1)], proposal[k]) \in T
        BY <1>3, <3>1
      <3> QED BY <1>1, <1>8, <3>2
    <2> HIDE DEF G, n
    <2> QED BY <1>1, <2>1, <2>2, UpTo
  <1>10. after \in [0 .. n -> T]
    BY <1>9
  <1>11. after[0] = NoReview
    <2>1. 1 .. 0 = {} /\ 0 \in 0 .. n
      BY <1>1
    <2> QED BY <1>7, <2>1
  <1>12. \A k \in 1 .. n : after[k] = Review(context, after[k - 1], proposal[k])
    <2> TAKE k \in 1 .. n
    <2>1. k \in 0 .. n /\ k - 1 \in 0 .. n
      BY <1>1
    <2> QED BY <1>8, <2>1
  <1>13. ReviewOf(context, proposal) = after[n]
    BY <1>1, <1>6
  <1> HIDE DEF after, n, T
  <1> QED BY <1>10, <1>11, <1>12, <1>13 DEF n, T

\* What a review of the first items knows: each is kept or logged, once for each
\* time it was proposed, and one is kept of an identifier.
Reviewed(proposal, k, r) ==
    /\ r.seen = {proposal[j].id : j \in 1 .. k}
    /\ IsFiniteSet(r.ranked)
    /\ \A a \in r.ranked : a.id \in r.seen
    /\ \A a, b \in r.ranked : a.id = b.id => a = b
    /\ \A id \in Nat : Cardinality({a \in r.ranked : a.id = id}) + LoggedOf(r.log, id)
                           = Cardinality({j \in 1 .. k : proposal[j].id = id})

\* One item more is accounted for.
LEMMA ReviewedOne ==
    ASSUME NEW context, NEW X, NEW proposal \in Seq(X), NEW k \in 1 .. Len(proposal),
           NEW r \in Reviews(context, proposal), Reviewed(proposal, k - 1, r)
    PROVE  Reviewed(proposal, k, Review(context, r, proposal[k]))
  <1> DEFINE item == proposal[k]
             new == Review(context, r, item)
             entries == Entries(Ids(proposal))
             Kept(q, id) == {a \in q.ranked : a.id = id}
             Asked(j, id) == {x \in 1 .. j : proposal[x].id = id}
  <1>1. k \in DOMAIN proposal /\ k \in Nat \ {0} /\ k - 1 \in Nat
    OBVIOUS
  <1>2. /\ new \in Reviews(context, proposal)
        /\ new.seen = r.seen \cup {item.id}
        /\ \/ /\ new.ranked = r.ranked
              /\ \E e \in entries : e.item = item.id /\ new.log = Append(r.log, e)
           \/ /\ item.id \notin r.seen
              /\ \E a \in Candidates(context, proposal) :
                     a.id = item.id /\ new.ranked = r.ranked \cup {a}
              /\ new.log = r.log
    <2>1. k \in DOMAIN proposal
      BY <1>1
    <2>2. ReviewStep(context, proposal, proposal[k], r, Review(context, r, proposal[k]))
      BY <2>1, ReviewOfOne
    <2> QED BY <2>2 DEF ReviewStep
  <1>3. r.log \in Seq(entries)
    BY DEF Reviews
  <1>4. new.seen = {proposal[j].id : j \in 1 .. k}
    <2>1. 1 .. k = (1 .. (k - 1)) \cup {k}
      BY <1>1
    <2>2. r.seen = {proposal[j].id : j \in 1 .. (k - 1)}
      BY DEF Reviewed
    <2> HIDE DEF new
    <2> QED BY <1>2, <2>1, <2>2
  <1>5. \A id \in Nat : /\ IsFiniteSet(Asked(k - 1, id)) /\ Cardinality(Asked(k - 1, id)) \in Nat
                        /\ Cardinality(Asked(k, id)) =
                               Cardinality(Asked(k - 1, id)) + (IF item.id = id THEN 1 ELSE 0)
    <2> TAKE id \in Nat
    <2>1. IsFiniteSet(1 .. (k - 1))
      BY <1>1, FS_Interval
    <2>2. IsFiniteSet(Asked(k - 1, id))
      BY <2>1, FS_Subset
    <2>3. Cardinality(Asked(k - 1, id)) \in Nat
      BY <2>2, FS_CardinalityType
    <2>4. k \notin Asked(k - 1, id)
      BY <1>1
    <2>5. CASE item.id = id
      <3>1. Asked(k, id) = Asked(k - 1, id) \cup {k}
        BY <1>1, <2>5
      <3> HIDE DEF Asked
      <3>2. Cardinality(Asked(k - 1, id) \cup {k}) = Cardinality(Asked(k - 1, id)) + 1
        BY <2>2, <2>4, FS_AddElement
      <3> QED BY <2>2, <2>3, <2>5, <3>1, <3>2
    <2>6. CASE item.id # id
      <3>1. Asked(k, id) = Asked(k - 1, id)
        BY <1>1, <2>6
      <3> HIDE DEF Asked
      <3> QED BY <2>2, <2>3, <2>6, <3>1
    <2> QED BY <2>5, <2>6
  <1>6. \A id \in Nat : LoggedOf(r.log, id) \in Nat
    BY <1>3, LogCounts
  <1>7. \A id \in Nat : IsFiniteSet(Kept(r, id)) /\ Cardinality(Kept(r, id)) \in Nat
    <2> TAKE id \in Nat
    <2>1. IsFiniteSet(Kept(r, id))
      <3>1. IsFiniteSet(r.ranked)
        BY DEF Reviewed
      <3> QED BY <3>1, FS_Subset
    <2> QED BY <2>1, FS_CardinalityType
  <1>8. \A id \in Nat : Cardinality(Kept(r, id)) + LoggedOf(r.log, id) = Cardinality(Asked(k - 1, id))
    BY DEF Reviewed
  <1>9. /\ IsFiniteSet(r.ranked) /\ \A a \in r.ranked : a.id \in r.seen
        /\ \A a, b \in r.ranked : a.id = b.id => a = b
    BY DEF Reviewed
  <1>10. CASE new.ranked = r.ranked /\ \E e \in entries : e.item = item.id /\ new.log = Append(r.log, e)
    <2>1. PICK e \in entries : e.item = item.id /\ new.log = Append(r.log, e)
      BY <1>10
    <2>2. \A id \in Nat :
              LoggedOf(new.log, id) = LoggedOf(r.log, id) + (IF item.id = id THEN 1 ELSE 0)
      <3> TAKE id \in Nat
      <3>1. LoggedOf(Append(r.log, e), id) = LoggedOf(r.log, id) + (IF e.item = id THEN 1 ELSE 0)
        BY <1>3, LogGrows
      <3> HIDE DEF new
      <3> QED BY <2>1, <3>1
    <2>3. \A id \in Nat : Kept(new, id) = Kept(r, id)
      BY <1>10
    <2>4. \A id \in Nat : Cardinality(Kept(new, id)) + LoggedOf(new.log, id) = Cardinality(Asked(k, id))
      <3> TAKE id \in Nat
      <3>1. Cardinality(Kept(new, id)) = Cardinality(Kept(r, id))
        BY <2>3
      <3> HIDE DEF new, Kept, Asked, item
      <3>2. /\ LoggedOf(r.log, id) \in Nat
            /\ LoggedOf(new.log, id) = LoggedOf(r.log, id) + (IF item.id = id THEN 1 ELSE 0)
        BY <1>6, <2>2
      <3>3. /\ Cardinality(Kept(r, id)) \in Nat /\ Cardinality(Asked(k - 1, id)) \in Nat
            /\ Cardinality(Kept(r, id)) + LoggedOf(r.log, id) = Cardinality(Asked(k - 1, id))
            /\ Cardinality(Asked(k, id)) =
                   Cardinality(Asked(k - 1, id)) + (IF item.id = id THEN 1 ELSE 0)
        BY <1>5, <1>7, <1>8
      <3> QED BY <3>1, <3>2, <3>3
    <2> HIDE DEF new
    <2> QED BY <1>2, <1>4, <1>9, <1>10, <2>4 DEF Reviewed, new
  <1>11. CASE /\ item.id \notin r.seen
              /\ \E a \in Candidates(context, proposal) :
                     a.id = item.id /\ new.ranked = r.ranked \cup {a}
              /\ new.log = r.log
    <2>1. PICK a \in Candidates(context, proposal) :
              a.id = item.id /\ new.ranked = r.ranked \cup {a}
      BY <1>11
    <2>2. a \notin r.ranked
      BY <1>9, <1>11, <2>1
    <2>3. IsFiniteSet(new.ranked)
      <3> HIDE DEF new
      <3> QED BY <1>9, <2>1, FS_AddElement
    <2>4. \A id \in Nat : Cardinality(Kept(new, id)) =
                              Cardinality(Kept(r, id)) + (IF item.id = id THEN 1 ELSE 0)
      <3> TAKE id \in Nat
      <3>1. CASE item.id = id
        <4>1. Kept(new, id) = Kept(r, id) \cup {a} /\ a \notin Kept(r, id)
          <5> HIDE DEF new, item
          <5> QED BY <2>1, <2>2, <3>1
        <4> HIDE DEF Kept, new
        <4>2. Cardinality(Kept(r, id) \cup {a}) = Cardinality(Kept(r, id)) + 1
          BY <1>7, <4>1, FS_AddElement
        <4> QED BY <3>1, <4>1, <4>2
      <3>2. CASE item.id # id
        <4>1. Kept(new, id) = Kept(r, id)
          <5> HIDE DEF new, item
          <5> QED BY <2>1, <2>2, <3>2
        <4> HIDE DEF Kept, new
        <4> QED BY <1>7, <3>2, <4>1
      <3> QED BY <3>1, <3>2
    <2>5. \A id \in Nat : Cardinality(Kept(new, id)) + LoggedOf(new.log, id) = Cardinality(Asked(k, id))
      <3> TAKE id \in Nat
      <3>1. new.log = r.log
        BY <1>11
      <3> HIDE DEF new, Kept, Asked, item
      <3>2. /\ LoggedOf(r.log, id) \in Nat
            /\ Cardinality(Kept(new, id)) = Cardinality(Kept(r, id)) + (IF item.id = id THEN 1 ELSE 0)
        BY <1>6, <2>4
      <3>3. /\ Cardinality(Kept(r, id)) \in Nat /\ Cardinality(Asked(k - 1, id)) \in Nat
            /\ Cardinality(Kept(r, id)) + LoggedOf(r.log, id) = Cardinality(Asked(k - 1, id))
            /\ Cardinality(Asked(k, id)) =
                   Cardinality(Asked(k - 1, id)) + (IF item.id = id THEN 1 ELSE 0)
        BY <1>5, <1>7, <1>8
      <3> QED BY <3>1, <3>2, <3>3
    <2>6. \A x \in new.ranked : x.id \in new.seen
      <3> HIDE DEF new, item
      <3> QED BY <1>2, <1>9, <2>1
    <2>7. \A x, y \in new.ranked : x.id = y.id => x = y
      <3>1. \A x \in r.ranked : x.id # a.id
        BY <1>9, <1>11, <2>1
      <3> HIDE DEF new, item
      <3> QED BY <1>9, <2>1, <3>1
    <2> HIDE DEF new
    <2> QED BY <1>4, <2>3, <2>5, <2>6, <2>7 DEF Reviewed, new
  <1> HIDE DEF new, item
  <1> QED BY <1>2, <1>10, <1>11 DEF new, item

\* The review accounts for the whole proposal.
LEMMA ReviewedAll ==
    ASSUME NEW context, NEW X, NEW proposal \in Seq(X)
    PROVE  /\ ReviewOf(context, proposal) \in Reviews(context, proposal)
           /\ Reviewed(proposal, Len(proposal), ReviewOf(context, proposal))
  <1> DEFINE n == Len(proposal)
  <1>1. PICK after \in [0 .. n -> Reviews(context, proposal)] :
            /\ after[0] = NoReview
            /\ \A k \in 1 .. n : after[k] = Review(context, after[k - 1], proposal[k])
            /\ ReviewOf(context, proposal) = after[n]
    BY ReviewSteps
  <1>2. n \in Nat
    OBVIOUS
  <1> DEFINE G == {k \in 0 .. n : Reviewed(proposal, k, after[k])}
  <1>3. 0 \in G
    <2>1. /\ NoReview.seen = {} /\ NoReview.ranked = {} /\ NoReview.log = <<>>
      BY DEF NoReview
    <2>2. 1 .. 0 = {}
      OBVIOUS
    <2>3. \A id \in Nat : LoggedOf(<<>>, id) = 0
      <3>1. \A id \in Nat : {i \in DOMAIN <<>> : <<>>[i].item = id} = {}
        OBVIOUS
      <3> QED BY <3>1, FS_EmptySet DEF LoggedOf
    <2>4. \A id \in Nat : {a \in {} : a.id = id} = {} /\ {j \in {} : proposal[j].id = id} = {}
      OBVIOUS
    <2>5. {proposal[j].id : j \in {}} = {}
      OBVIOUS
    <2>6. IsFiniteSet({}) /\ Cardinality({}) = 0
      BY FS_EmptySet
    <2>7. Reviewed(proposal, 0, NoReview)
      BY <2>1, <2>2, <2>3, <2>4, <2>5, <2>6 DEF Reviewed
    <2> QED BY <1>1, <1>2, <2>7
  <1>4. ASSUME NEW k \in 1 .. n, k - 1 \in G PROVE k \in G
    <2>1. k - 1 \in 0 .. n /\ k \in 0 .. n /\ Reviewed(proposal, k - 1, after[k - 1])
      BY <1>4
    <2>2. after[k - 1] \in Reviews(context, proposal)
      BY <1>1, <2>1
    <2>3. Reviewed(proposal, k, Review(context, after[k - 1], proposal[k]))
      BY <2>1, <2>2, ReviewedOne
    <2> QED BY <1>1, <2>1, <2>3
  <1>5. 0 .. n \subseteq G
    <2> HIDE DEF G, n
    <2> QED BY <1>2, <1>3, <1>4, UpTo
  <1>6. n \in 0 .. n
    BY <1>2
  <1>7. Reviewed(proposal, n, after[n]) /\ after[n] \in Reviews(context, proposal)
    BY <1>1, <1>5, <1>6
  <1> QED BY <1>1, <1>7

----------------------------------------------------------------------------
(* The scores of items.                                                    *)

\* A set of numbers has a least member.
LEMMA LeastOf ==
    ASSUME NEW s \in SUBSET Nat, s # {}
    PROVE  Min(s) \in s /\ \A x \in s : Min(s) <= x
  BY LeastNumber DEF Min

\* The lesser of two integers is one.
LEMMA LesserInt ==
    ASSUME NEW a \in Int, NEW b \in Int
    PROVE  Min({a, b}) \in Int
  <1>1. \E x \in {a, b} : \A y \in {a, b} : x <= y
    OBVIOUS
  <1>2. Min({a, b}) \in {a, b}
    BY <1>1 DEF Min
  <1> QED BY <1>2

\* The severity of a gap is a number, whichever the gap.
LEMMA SeverityIsNumber ==
    ASSUME NEW m, NEW q
    PROVE  GapSeverity(m, q) \in Int
  <1> DEFINE gap == GapClass(m, q)
             base == CASE gap = "not-retrieved" -> 100 [] gap = "retrieved-not-cited" -> 80
                       [] gap = "partially-cited" -> 55 [] gap = "cited" -> 30
             competitor == IF Competing(m, q) # {} THEN 15 ELSE 0
             sibling == IF Positions(m, q, LAMBDA s : s.relation = "same-domain-other-page") # {}
                        THEN 10 ELSE 0
  <1>1. gap \in {"not-retrieved", "retrieved-not-cited", "partially-cited", "cited"}
    BY DEF GapClass
  <1>2. base \in Int
    <2> HIDE DEF gap
    <2> QED BY <1>1
  <1>3. competitor \in Int /\ sibling \in Int
    OBVIOUS
  <1>4. GapSeverity(m, q) = Min({100, base + competitor + sibling})
    BY DEF GapSeverity
  <1> HIDE DEF base, competitor, sibling
  <1>5. base + competitor + sibling \in Int /\ 100 \in Int
    BY <1>2, <1>3
  <1> QED BY <1>4, <1>5, LesserInt

\* The reach of an item is a number, however many queries it lists.
LEMMA ReachIsNumber ==
    ASSUME NEW m, NEW queries \in Seq(Nat)
    PROVE  Reach(m, queries) \in Int
  <1> DEFINE n == Len(queries)
             st == [x \in Int \X (1 .. n) |->
                       x[1] + (6 - queries[x[2]]) * GapSeverity(m, queries[x[2]])]
             Is(h) == h = [s \in SUBSET (DOMAIN queries) |->
                              IF s = {} THEN 0
                              ELSE h[s \ {Max(s)}]
                                   + (6 - queries[Max(s)]) * GapSeverity(m, queries[Max(s)])]
             h == CHOOSE k : Is(k)
  <1>1. n \in Nat /\ DOMAIN queries = 1 .. n /\ \A k \in 1 .. n : queries[k] \in Nat
    OBVIOUS
  <1>2. \A k \in 1 .. n : (6 - queries[k]) * GapSeverity(m, queries[k]) \in Int
    <2> TAKE k \in 1 .. n
    <2>1. 6 - queries[k] \in Int /\ GapSeverity(m, queries[k]) \in Int
      BY <1>1, SeverityIsNumber
    <2> QED BY <2>1
  <1>3. st \in [Int \X (1 .. n) -> Int]
    <2>1. ASSUME NEW x \in Int \X (1 .. n)
          PROVE  x[1] + (6 - queries[x[2]]) * GapSeverity(m, queries[x[2]]) \in Int
      <3>1. x[1] \in Int /\ x[2] \in 1 .. n
        OBVIOUS
      <3>2. (6 - queries[x[2]]) * GapSeverity(m, queries[x[2]]) \in Int
        BY <1>2, <3>1
      <3> QED BY <3>1, <3>2
    <2> HIDE DEF n
    <2> QED BY <2>1
  <1>4. PICK g \in [SUBSET (1 .. n) -> Int] : Folds(n, Int, 0, st, g)
    <2> DEFINE T == Int
               zero == 0
    <2>1. zero \in T /\ st \in [T \X (1 .. n) -> T]
      BY <1>3
    <2> HIDE DEF n, st, T, zero
    <2>2. \E g \in [SUBSET (1 .. n) -> T] : Folds(n, T, zero, st, g)
      BY <1>1, <2>1, FoldExists
    <2> QED BY <2>2 DEF T, zero
  <1>5. \A s \in SUBSET (1 .. n) :
            g[s] = IF s = {} THEN 0
                   ELSE g[s \ {Max(s)}] + (6 - queries[Max(s)]) * GapSeverity(m, queries[Max(s)])
    <2> TAKE s \in SUBSET (1 .. n)
    <2>1. g[s] = IF s = {} THEN 0 ELSE st[<<g[s \ {Max(s)}], Max(s)>>]
      <3> HIDE DEF n, st
      <3>1. g = [t \in SUBSET (1 .. n) |->
                    IF t = {} THEN 0 ELSE st[<<g[t \ {Max(t)}], Max(t)>>]]
        BY <1>4 DEF Folds
      <3> QED BY <3>1
    <2>2. CASE s = {}
      BY <2>1, <2>2
    <2>3. CASE s # {}
      <3>1. Max(s) \in 1 .. n
        <4>1. Max(s) \in s
          BY <1>1, <2>3, Greatest
        <4> QED BY <4>1
      <3>2. g[s \ {Max(s)}] \in Int
        <4> HIDE DEF n
        <4> QED BY <1>4
      <3> DEFINE x == <<g[s \ {Max(s)}], Max(s)>>
      <3>3. x \in Int \X (1 .. n) /\ x[1] = g[s \ {Max(s)}] /\ x[2] = Max(s)
        BY <3>1, <3>2
      <3> HIDE DEF x
      <3>4. st[x] = g[s \ {Max(s)}] + (6 - queries[Max(s)]) * GapSeverity(m, queries[Max(s)])
        <4>1. st[x] = x[1] + (6 - queries[x[2]]) * GapSeverity(m, queries[x[2]])
          BY <3>3
        <4> HIDE DEF st, n
        <4> QED BY <3>3, <4>1
      <3> HIDE DEF st
      <3> QED BY <2>1, <2>3, <3>4 DEF x
    <2> QED BY <2>2, <2>3
  <1>6. Is(g)
    <2>1. g = [s \in SUBSET (1 .. n) |->
                  IF s = {} THEN 0
                  ELSE g[s \ {Max(s)}] + (6 - queries[Max(s)]) * GapSeverity(m, queries[Max(s)])]
      <3> HIDE DEF n, st
      <3> QED BY <1>4, <1>5
    <2> QED BY <1>1, <2>1
  <1>7. Is(h)
    <2> HIDE DEF Is
    <2> QED BY <1>6
  <1>8. Reach(m, queries) = Min({1250, h[DOMAIN queries]})
    BY DEF Reach, FoldLeft, MapThenFoldSet
  <1> HIDE DEF h
  <1>9. h[{}] = 0
    BY <1>7
  <1> DEFINE G == {k \in 0 .. n : h[1 .. k] \in Int}
  <1>10. ASSUME NEW k \in 1 .. n, k - 1 \in G PROVE k \in G
    <2>1. 1 .. k \in SUBSET (DOMAIN queries) /\ 1 .. k # {}
      BY <1>1
    <2>2. Max(1 .. k) = k
      BY <1>1, GreatestOfAll
    <2>3. h[1 .. k] = h[(1 .. k) \ {Max(1 .. k)}]
                      + (6 - queries[Max(1 .. k)]) * GapSeverity(m, queries[Max(1 .. k)])
      BY <1>7, <2>1
    <2>4. (1 .. k) \ {k} = 1 .. (k - 1)
      <3>1. k \in Nat \ {0}
        BY <1>1
      <3> QED BY <3>1
    <2>5. h[1 .. (k - 1)] \in Int /\ (6 - queries[k]) * GapSeverity(m, queries[k]) \in Int
      BY <1>2, <1>10
    <2>6. h[1 .. k] \in Int
      <3> DEFINE term == (6 - queries[k]) * GapSeverity(m, queries[k])
      <3>1. h[1 .. k] = h[1 .. (k - 1)] + term /\ term \in Int
        BY <2>2, <2>3, <2>4, <2>5
      <3> HIDE DEF term
      <3> QED BY <2>5, <3>1
    <2> QED BY <1>1, <2>6
  <1>11. 0 .. n \subseteq G
    <2>1. 0 \in G
      <3>1. 1 .. 0 = {} /\ 0 \in 0 .. n
        BY <1>1
      <3> QED BY <1>9, <3>1
    <2> HIDE DEF G, n
    <2> QED BY <1>1, <1>10, <2>1, UpTo
  <1>12. h[DOMAIN queries] \in Int
    <2>1. n \in 0 .. n
      BY <1>1
    <2>2. n \in G
      BY <1>11, <2>1
    <2> QED BY <1>1, <2>2
  <1> QED BY <1>8, <1>12, LesserInt

\* What is ranked has an identifier, a score and a priority to be compared by.
Comparable(a) == a.id \in Nat /\ a.score \in Int /\ a.priority \in Nat

\* A reviewed item has a score and a priority (_score).
LEMMA RankedIsComparable ==
    ASSUME NEW m, NEW item, item.id \in Nat, item.queries \in Seq(Nat) \ {<<>>},
           item.impact \in {"high", "medium", "low"}, item.effort \in {"S", "M", "L"},
           item.confidence \in {"medium", "low"}
    PROVE  Comparable(Ranked(m, item))
  <1> DEFINE reach == Reach(m, item.queries)
             weight == [high |-> 3, medium |-> 2, low |-> 1][item.impact]
             certainty == [medium |-> 10, low |-> 7][item.confidence]
             basis == IF item.basis = "not-observable-in-snapshot" THEN 8 ELSE 10
             effort == [S |-> 10, M |-> 16, L |-> 25][item.effort]
             numerator == 2 * reach * weight * certainty * basis
  <1>1. weight \in Nat /\ certainty \in Nat /\ basis \in Nat /\ effort \in Nat \ {0}
    OBVIOUS
  <1>2. reach \in Int
    BY ReachIsNumber
  <1>3. PriorityScore(m, item) = (2 * numerator + 75 * effort) \div (150 * effort)
    BY DEF PriorityScore
  <1>4. PriorityScore(m, item) \in Int
    <2> HIDE DEF weight, certainty, basis, effort, reach
    <2>1. numerator \in Int
      BY <1>1, <1>2
    <2> HIDE DEF numerator
    <2>2. 2 * numerator + 75 * effort \in Int /\ 150 * effort \in Nat \ {0}
      BY <1>1, <2>1
    <2>3. \A x \in Int, y \in Nat \ {0} : x \div y \in Int
      OBVIOUS
    <2> QED BY <1>3, <2>2, <2>3
  <1>5. Min(ToSet(item.queries)) \in Nat
    <2>1. ToSet(item.queries) \in SUBSET Nat /\ ToSet(item.queries) # {}
      <3>1. 1 \in DOMAIN item.queries /\ \A i \in DOMAIN item.queries : item.queries[i] \in Nat
        OBVIOUS
      <3> QED BY <3>1 DEF ToSet
    <2>2. Min(ToSet(item.queries)) \in ToSet(item.queries)
      BY <2>1, LeastOf
    <2> QED BY <2>1, <2>2
  <1> QED BY <1>4, <1>5 DEF Comparable, Ranked

----------------------------------------------------------------------------
(* The order of a report.                                                  *)

\* A one-to-one function into a set of the same size reaches all of it.
LEMMA ReachesAll ==
    ASSUME NEW S, NEW T, IsFiniteSet(S), IsFiniteSet(T), Cardinality(S) = Cardinality(T),
           NEW f \in [S -> T], \A x, y \in S : f[x] = f[y] => x = y
    PROVE  \A t \in T : \E x \in S : f[x] = t
  <1>1. f \in Injection(S, T)
    BY DEF Injection, IsInjective
  <1>2. f \in Surjection(S, T)
    BY <1>1, FS_Injection
  <1> QED BY <1>2 DEF Surjection

\* Sets that correspond one to one have the same number of elements.
LEMMA SameNumber ==
    ASSUME NEW S, NEW T, IsFiniteSet(S), NEW f \in [S -> T],
           \A x, y \in S : f[x] = f[y] => x = y, \A t \in T : \E x \in S : f[x] = t
    PROVE  IsFiniteSet(T) /\ Cardinality(T) = Cardinality(S)
  <1>1. f \in Bijection(S, T)
    BY DEF Bijection, Injection, Surjection, IsInjective
  <1>2. ExistsBijection(S, T)
    BY <1>1 DEF ExistsBijection
  <1> QED BY <1>2, FS_Bijection

\* What a review ends with can be put in one order only.
Rankable(ranked) ==
    /\ IsFiniteSet(ranked)
    /\ \A a \in ranked : Comparable(a)
    /\ \A a, b \in ranked : a.id = b.id => a = b

Before(ranked, a) == {b \in ranked : RanksBefore(b, a)}

\* Of two items one ranks before the other (_tiered).
LEMMA OrderIsTotal ==
    ASSUME NEW ranked, Rankable(ranked)
    PROVE  /\ \A a \in ranked : ~ RanksBefore(a, a)
           /\ \A a, b \in ranked : a = b \/ RanksBefore(a, b) \/ RanksBefore(b, a)
           /\ \A a, b, c \in ranked : RanksBefore(a, b) /\ RanksBefore(b, c) => RanksBefore(a, c)
  <1>1. \A a \in ranked : ~ RanksBefore(a, a)
    BY DEF Rankable, Comparable, RanksBefore
  <1>2. \A a, b \in ranked : a = b \/ RanksBefore(a, b) \/ RanksBefore(b, a)
    <2> TAKE a, b \in ranked
    <2>1. Comparable(a) /\ Comparable(b) /\ (a.id = b.id => a = b)
      BY DEF Rankable
    <2> QED BY <2>1 DEF Comparable, RanksBefore
  <1>3. \A a, b, c \in ranked : RanksBefore(a, b) /\ RanksBefore(b, c) => RanksBefore(a, c)
    <2> TAKE a, b, c \in ranked
    <2>1. Comparable(a) /\ Comparable(b) /\ Comparable(c)
      BY DEF Rankable
    <2> QED BY <2>1 DEF Comparable, RanksBefore
  <1> QED BY <1>1, <1>2, <1>3

\* Every place from none before it to all but itself before it is taken once.
LEMMA PlacesAreTaken ==
    ASSUME NEW ranked, Rankable(ranked)
    PROVE  /\ Cardinality(ranked) \in Nat
           /\ \A a \in ranked : Cardinality(Before(ranked, a)) \in 0 .. (Cardinality(ranked) - 1)
           /\ \A a, b \in ranked : RanksBefore(a, b) <=>
                  Cardinality(Before(ranked, a)) < Cardinality(Before(ranked, b))
           /\ \A k \in 0 .. (Cardinality(ranked) - 1) :
                  \E a \in ranked : Cardinality(Before(ranked, a)) = k
  <1> DEFINE n == Cardinality(ranked)
             place(a) == Cardinality(Before(ranked, a))
             f == [a \in ranked |-> place(a)]
  <1>1. IsFiniteSet(ranked) /\ n \in Nat
    BY FS_CardinalityType DEF Rankable
  <1>2. \A a \in ranked : IsFiniteSet(Before(ranked, a)) /\ place(a) \in Nat
    <2> TAKE a \in ranked
    <2>1. Before(ranked, a) \in SUBSET ranked
      BY DEF Before
    <2>2. IsFiniteSet(Before(ranked, a))
      BY <1>1, <2>1, FS_Subset
    <2> QED BY <2>2, FS_CardinalityType
  <1>3. \A a \in ranked : place(a) \in 0 .. (n - 1)
    <2> TAKE a \in ranked
    <2>1. Before(ranked, a) \in SUBSET ranked /\ a \notin Before(ranked, a)
      BY OrderIsTotal DEF Before
    <2>2. place(a) <= n /\ (n = place(a) => ranked = Before(ranked, a))
      BY <1>1, <2>1, FS_Subset
    <2>3. place(a) \in Nat
      BY <1>2
    <2> HIDE DEF place, n
    <2> QED BY <1>1, <2>1, <2>2, <2>3
  <1>4. ASSUME NEW a \in ranked, NEW b \in ranked, RanksBefore(a, b)
        PROVE  place(a) < place(b)
    <2>1. Before(ranked, a) \in SUBSET Before(ranked, b)
      BY <1>4, OrderIsTotal DEF Before
    <2>2. a \in Before(ranked, b) /\ a \notin Before(ranked, a)
      BY <1>4, OrderIsTotal DEF Before
    <2>3. IsFiniteSet(Before(ranked, b))
      BY <1>2
    <2>4. place(a) <= place(b) /\ (place(b) = place(a) => Before(ranked, b) = Before(ranked, a))
      BY <2>1, <2>3, FS_Subset
    <2>5. place(a) \in Nat /\ place(b) \in Nat
      BY <1>2
    <2> HIDE DEF place
    <2> QED BY <2>2, <2>4, <2>5
  <1>5. \A a, b \in ranked : RanksBefore(a, b) <=> place(a) < place(b)
    <2> TAKE a, b \in ranked
    <2>1. place(a) \in Nat /\ place(b) \in Nat
      BY <1>2
    <2>2. a = b \/ RanksBefore(a, b) \/ RanksBefore(b, a)
      BY OrderIsTotal
    <2>3. RanksBefore(b, a) => place(b) < place(a)
      BY <1>4
    <2>4. RanksBefore(a, b) => place(a) < place(b)
      BY <1>4
    <2> HIDE DEF place
    <2> QED BY <2>1, <2>2, <2>3, <2>4
  <1>6. f \in [ranked -> 0 .. (n - 1)]
    <2> HIDE DEF place, n
    <2> QED BY <1>3
  <1>7. \A a, b \in ranked : f[a] = f[b] => a = b
    <2> TAKE a, b \in ranked
    <2>1. f[a] = place(a) /\ f[b] = place(b) /\ place(a) \in Nat /\ place(b) \in Nat
      BY <1>2
    <2>2. a = b \/ place(a) < place(b) \/ place(b) < place(a)
      BY <1>5, OrderIsTotal
    <2> HIDE DEF place, f
    <2> QED BY <2>1, <2>2
  <1>8. IsFiniteSet(0 .. (n - 1)) /\ Cardinality(0 .. (n - 1)) = n
    <2>1. 0 \in Int /\ n - 1 \in Int
      BY <1>1
    <2>2. /\ IsFiniteSet(0 .. (n - 1))
          /\ Cardinality(0 .. (n - 1)) = IF 0 > n - 1 THEN 0 ELSE (n - 1) - 0 + 1
      BY <2>1, FS_Interval
    <2> HIDE DEF n
    <2> QED BY <1>1, <2>2
  <1>9. \A k \in 0 .. (n - 1) : \E a \in ranked : f[a] = k
    <2> DEFINE T == 0 .. (n - 1)
    <2>1. f \in [ranked -> T] /\ IsFiniteSet(T) /\ Cardinality(ranked) = Cardinality(T)
      BY <1>6, <1>8
    <2> HIDE DEF f, T
    <2>2. \A k \in T : \E a \in ranked : f[a] = k
      BY <1>1, <1>7, <2>1, ReachesAll
    <2> QED BY <2>2 DEF T
  <1>10. \A k \in 0 .. (n - 1) : \E a \in ranked : place(a) = k
    BY <1>9
  <1> QED BY <1>1, <1>3, <1>5, <1>10

\* The order of a report: every item once, and as they rank.
InOrder(ranked, t) ==
    LET n == Cardinality(ranked)
    IN /\ n \in Nat /\ DOMAIN t = 1 .. n /\ t \in Seq({t[i] : i \in 1 .. n}) /\ Len(t) = n
       /\ \A i \in 1 .. n : t[i].item \in ranked
       /\ \A i, j \in 1 .. n : i < j => RanksBefore(t[i].item, t[j].item)
       /\ \A a \in ranked : \E i \in 1 .. n : t[i].item = a
       /\ \A i \in 1 .. n : t[i].tier = "P1" <=> t[i].item.score >= 400 /\ i <= TopItems

\* A report lists its items as they rank (_tiered).
LEMMA TieredInOrder ==
    ASSUME NEW ranked, Rankable(ranked)
    PROVE  InOrder(ranked, Tiered(ranked))
  <1> DEFINE n == Cardinality(ranked)
             place(a) == Cardinality(Before(ranked, a))
             order == [i \in 1 .. n |-> CHOOSE a \in ranked : place(a) = i - 1]
             tier(i) == IF order[i].score >= 400 /\ i <= TopItems THEN "P1"
                        ELSE IF order[i].score >= 200 THEN "P2" ELSE "P3"
             t == Tiered(ranked)
  <1>1. /\ n \in Nat
        /\ \A a \in ranked : place(a) \in 0 .. (n - 1)
        /\ \A a, b \in ranked : RanksBefore(a, b) <=> place(a) < place(b)
        /\ \A k \in 0 .. (n - 1) : \E a \in ranked : place(a) = k
    BY PlacesAreTaken
  <1>2. t = [i \in DOMAIN order |-> [item |-> order[i], tier |-> tier(i)]]
    BY DEF Tiered, Before
  <1>3. \A i \in 1 .. n : order[i] \in ranked /\ place(order[i]) = i - 1
    <2> TAKE i \in 1 .. n
    <2>1. i - 1 \in 0 .. (n - 1)
      BY <1>1
    <2>2. \E a \in ranked : place(a) = i - 1
      BY <1>1, <2>1
    <2>3. order[i] = CHOOSE a \in ranked : place(a) = i - 1
      OBVIOUS
    <2> HIDE DEF order, place
    <2> QED BY <2>2, <2>3
  <1>4. DOMAIN order = 1 .. n
    OBVIOUS
  <1> HIDE DEF t, order, place
  <1>5. DOMAIN t = 1 .. n /\ \A i \in 1 .. n : t[i] = [item |-> order[i], tier |-> tier(i)]
    BY <1>2, <1>4
  <1>6. t \in Seq({t[i] : i \in 1 .. n}) /\ Len(t) = n
    <2>1. t \in [1 .. n -> {t[i] : i \in 1 .. n}]
      BY <1>2, <1>4, <1>5
    <2> HIDE DEF n
    <2> QED BY <1>1, <2>1
  <1>7. \A i \in 1 .. n : t[i].item = order[i] /\ t[i].item \in ranked
    BY <1>3, <1>5
  <1>8. ASSUME NEW i \in 1 .. n, NEW j \in 1 .. n, i < j
        PROVE  RanksBefore(t[i].item, t[j].item)
    <2>1. /\ order[i] \in ranked /\ order[j] \in ranked
          /\ place(order[i]) = i - 1 /\ place(order[j]) = j - 1
      BY <1>3
    <2>2. place(order[i]) < place(order[j])
      BY <1>1, <1>8, <2>1
    <2> QED BY <1>1, <1>7, <2>1, <2>2
  <1>9. ASSUME NEW a \in ranked PROVE \E i \in 1 .. n : t[i].item = a
    <2> DEFINE i == place(a) + 1
    <2>1. place(a) \in 0 .. (n - 1)
      BY <1>1
    <2>2. i \in 1 .. n /\ i - 1 = place(a)
      BY <1>1, <2>1
    <2> HIDE DEF i
    <2>3. order[i] \in ranked /\ place(order[i]) = place(a)
      BY <1>3, <2>2
    <2>4. ~ (place(order[i]) < place(a)) /\ ~ (place(a) < place(order[i]))
      BY <1>1, <2>1, <2>3
    <2>5. order[i] = a
      BY <1>1, <2>3, <2>4, OrderIsTotal
    <2> QED BY <1>7, <2>2, <2>5
  <1>10. \A i \in 1 .. n : t[i].tier = "P1" <=> t[i].item.score >= 400 /\ i <= TopItems
    <2> TAKE i \in 1 .. n
    <2>1. t[i].tier = tier(i) /\ t[i].item = order[i]
      BY <1>5
    <2> QED BY <2>1
  <1> QED BY <1>1, <1>5, <1>6, <1>7, <1>8, <1>9, <1>10 DEF t, InOrder

----------------------------------------------------------------------------
(* The cut, and the findings nobody addressed.                             *)

\* An identifier has as many places in the order as items, one at most.
TakesOnePlace(ranked, t, id) ==
    LET places == {i \in 1 .. Cardinality(ranked) : t[i].item.id = id}
        kept == {a \in ranked : a.id = id}
    IN /\ Cardinality(places) = Cardinality(kept)
       /\ Cardinality(kept) \in Nat /\ Cardinality(kept) <= 1

\* An item reviewed once is listed once.
LEMMA TieredCounts ==
    ASSUME NEW ranked, Rankable(ranked), NEW id
    PROVE  TakesOnePlace(ranked, Tiered(ranked), id)
  <1> DEFINE n == Cardinality(ranked)
             t == Tiered(ranked)
             places == {i \in 1 .. n : t[i].item.id = id}
             kept == {a \in ranked : a.id = id}
             f == [i \in places |-> t[i].item]
  <1>1. /\ n \in Nat
        /\ \A i \in 1 .. n : t[i].item \in ranked
        /\ \A i, j \in 1 .. n : i < j => RanksBefore(t[i].item, t[j].item)
        /\ \A a \in ranked : \E i \in 1 .. n : t[i].item = a
    BY TieredInOrder DEF InOrder
  <1>2. \A a \in ranked : ~ RanksBefore(a, a)
    BY OrderIsTotal
  <1>3. IsFiniteSet(places)
    <2>1. IsFiniteSet(1 .. n)
      BY <1>1, FS_Interval
    <2> HIDE DEF n, t
    <2> QED BY <2>1, FS_Subset
  <1> HIDE DEF n, t
  <1>4. f \in [places -> kept]
    BY <1>1
  <1>5. \A i, j \in places : f[i] = f[j] => i = j
    <2> TAKE i, j \in places
    <2>1. i \in 1 .. n /\ j \in 1 .. n /\ f[i] = t[i].item /\ f[j] = t[j].item
      OBVIOUS
    <2>2. i < j \/ j < i \/ i = j
      BY <1>1, <2>1
    <2> HIDE DEF f, places
    <2> QED BY <1>1, <1>2, <2>1, <2>2
  <1>6. \A a \in kept : \E i \in places : f[i] = a
    <2> TAKE a \in kept
    <2>1. PICK i \in 1 .. n : t[i].item = a
      BY <1>1
    <2>2. i \in places /\ f[i] = a
      BY <2>1
    <2> QED BY <2>2
  <1>7. Cardinality(kept) = Cardinality(places) /\ IsFiniteSet(kept)
    <2> HIDE DEF f, places, kept
    <2> QED BY <1>3, <1>4, <1>5, <1>6, SameNumber
  <1>8. Cardinality(kept) \in Nat
    BY <1>7, FS_CardinalityType
  <1>9. Cardinality(kept) <= 1
    <2>1. CASE kept = {}
      <3>1. Cardinality(kept) = 0
        BY <2>1, FS_EmptySet
      <3> QED BY <3>1
    <2>2. CASE kept # {}
      <3>1. PICK a \in kept : TRUE
        BY <2>2
      <3>2. kept = {a}
        BY <3>1 DEF Rankable
      <3>3. Cardinality({a}) = 1
        BY FS_Singleton
      <3> QED BY <3>2, <3>3
    <2> QED BY <2>1, <2>2
  <1> QED BY <1>7, <1>8, <1>9 DEF n, t, TakesOnePlace

\* What is cut off is in the log, item by item.
CutCounts(items, log, c, id) ==
    LET k == Len(c.items)
        saved == Cardinality({i \in DOMAIN c.items : c.items[i].item.id = id})
    IN /\ k \in Nat /\ k <= Len(items) /\ k <= ReportSize /\ DOMAIN c.items = 1 .. k
       /\ \A i \in 1 .. k : c.items[i] = items[i]
       /\ saved \in Nat /\ LoggedOf(c.log, id) \in Nat
       /\ saved + LoggedOf(c.log, id)
              = Cardinality({i \in 1 .. Len(items) : items[i].item.id = id}) + LoggedOf(log, id)

\* The cut to the report's size loses no item without an entry.
LEMMA CutKeepsCount ==
    ASSUME NEW X, NEW items \in Seq(X), NEW Y, NEW log \in Seq(Y), NEW id
    PROVE  CutCounts(items, log, Cut(items, log), id)
  <1> DEFINE n == Len(items)
             size == Min({n, ReportSize})
             kept == SubSeq(items, 1, size)
             removed == SubSeq(items, Len(kept) + 1, n)
             entry(x) == [item |-> x.item.id, rule |-> "report-size"]
             cut == [i \in DOMAIN removed |-> entry(removed[i])]
             saved == [i \in 1 .. size |-> entry(items[i])]
             all == [i \in 1 .. n |-> entry(items[i])]
             E == {entry(items[i]) : i \in 1 .. n}
             c == Cut(items, log)
  <1>1. n \in Nat /\ ReportSize \in Nat /\ DOMAIN items = 1 .. n
    BY ReportAssumption
  <1>2. size \in Nat /\ size <= n /\ size <= ReportSize
    <2>1. {n, ReportSize} \in SUBSET Nat /\ {n, ReportSize} # {}
      BY <1>1
    <2>2. size \in {n, ReportSize} /\ \A x \in {n, ReportSize} : size <= x
      BY <2>1, LeastOf
    <2> HIDE DEF n, size
    <2> QED BY <1>1, <2>2
  <1>3. c.items = kept /\ c.log = log \o cut
    BY DEF Cut
  <1> HIDE DEF size, c
  <1>4. Len(kept) = size /\ DOMAIN kept = 1 .. size /\ \A i \in 1 .. size : kept[i] = items[i]
    <2> HIDE DEF n
    <2>1. kept = [i \in 1 .. size |-> items[1 + i - 1]]
      BY <1>1, <1>2
    <2>2. \A i \in 1 .. size : kept[i] = items[i]
      BY <1>2, <2>1
    <2>3. DOMAIN kept = 1 .. size
      BY <2>1
    <2>4. Len(kept) = size
      BY <1>2, <2>3
    <2> QED BY <2>2, <2>3, <2>4
  <1> HIDE DEF n
  <1>5. DOMAIN removed = 1 .. n - size /\ \A i \in 1 .. n - size : removed[i] = items[size + i]
    <2> HIDE DEF kept
    <2>1. removed = [i \in 1 .. n - (size + 1) + 1 |-> items[(size + 1) + i - 1]]
      BY <1>1, <1>2, <1>4
    <2>2. n - (size + 1) + 1 = n - size
      BY <1>1, <1>2
    <2>3. \A i \in 1 .. n - size : removed[i] = items[size + i]
      <3> TAKE i \in 1 .. n - size
      <3>1. (size + 1) + i - 1 = size + i
        BY <1>1, <1>2
      <3> QED BY <2>1, <2>2, <3>1
    <2> QED BY <2>1, <2>2, <2>3
  <1> HIDE DEF kept, removed
  <1>6. /\ DOMAIN cut = 1 .. n - size /\ \A i \in 1 .. n - size : cut[i] = entry(items[size + i])
        /\ DOMAIN saved = 1 .. size /\ \A i \in 1 .. size : saved[i] = entry(items[i])
        /\ DOMAIN all = 1 .. n /\ \A i \in 1 .. n : all[i] = entry(items[i])
    BY <1>5
  <1>7. saved \in Seq(E) /\ cut \in Seq(E) /\ Len(saved) = size /\ Len(cut) = n - size
    <2>1. \A i \in 1 .. n : entry(items[i]) \in E
      OBVIOUS
    <2>2. \A i \in 1 .. size : saved[i] \in E
      <3> TAKE i \in 1 .. size
      <3>1. i \in 1 .. n
        BY <1>1, <1>2
      <3> HIDE DEF saved, E, entry
      <3> QED BY <1>6, <2>1, <3>1
    <2>3. \A i \in 1 .. n - size : cut[i] \in E
      <3> TAKE i \in 1 .. n - size
      <3>1. size + i \in 1 .. n
        BY <1>1, <1>2
      <3> HIDE DEF cut, E, entry
      <3> QED BY <1>6, <2>1, <3>1
    <2>4. saved \in [1 .. size -> E] /\ cut \in [1 .. n - size -> E]
      <3>1. saved = [i \in 1 .. size |-> saved[i]]
        OBVIOUS
      <3>2. cut = [i \in 1 .. n - size |-> cut[i]]
        BY <1>5
      <3> HIDE DEF saved, cut, E
      <3> QED BY <2>2, <2>3, <3>1, <3>2
    <2> DEFINE rest == n - size
    <2>5. rest \in Nat /\ cut \in [1 .. rest -> E]
      <3>1. rest \in Nat
        BY <1>1, <1>2
      <3> HIDE DEF saved, cut, E
      <3> QED BY <2>4, <3>1
    <2> HIDE DEF saved, cut, E, rest
    <2>6. \A k \in Nat : \A s \in [1 .. k -> E] : s \in Seq(E) /\ Len(s) = k
      OBVIOUS
    <2>7. saved \in Seq(E) /\ Len(saved) = size
      BY <1>2, <2>4, <2>6
    <2>8. cut \in Seq(E) /\ Len(cut) = rest
      BY <2>5, <2>6
    <2> QED BY <2>7, <2>8 DEF rest
  <1> HIDE DEF saved, cut, all, E
  <1>8. saved \o cut = all
    <2> DEFINE both == saved \o cut
    <2>1. DOMAIN both = 1 .. n
      <3>1. Len(both) = size + (n - size) /\ both \in Seq(E)
        BY <1>7
      <3>2. size + (n - size) = n
        BY <1>1, <1>2
      <3> QED BY <3>1, <3>2
    <2>2. \A i \in 1 .. n : both[i] = all[i]
      <3> TAKE i \in 1 .. n
      <3>1. CASE i <= size
        <4>1. i \in 1 .. size
          BY <1>1, <1>2, <3>1
        <4>2. both[i] = saved[i]
          BY <1>1, <1>2, <1>7, <4>1
        <4> HIDE DEF both, entry
        <4> QED BY <1>6, <4>1, <4>2
      <3>2. CASE i > size
        <4>1. i - size \in 1 .. n - size /\ size + (i - size) = i
          BY <1>1, <1>2, <3>2
        <4>2. both[i] = cut[i - size]
          BY <1>1, <1>2, <1>7, <3>2
        <4> HIDE DEF both, entry
        <4> QED BY <1>6, <4>1, <4>2
      <3>3. i <= size \/ i > size
        BY <1>1, <1>2
      <3> HIDE DEF both
      <3> QED BY <3>1, <3>2, <3>3
    <2>3. both \in Seq(E) /\ Len(both) = n /\ all \in [1 .. n -> E]
      <3>1. both \in Seq(E) /\ Len(both) = size + (n - size)
        BY <1>7
      <3>2. size + (n - size) = n
        BY <1>1, <1>2
      <3>3. all \in [1 .. n -> E]
        BY DEF all, E
      <3> QED BY <3>1, <3>2, <3>3
    <2> HIDE DEF both
    <2>4. both \in [1 .. n -> E]
      BY <2>3
    <2>5. both = all
      BY <2>2, <2>3, <2>4
    <2> QED BY <2>5 DEF both
  <1>9. LoggedOf(saved, id) + LoggedOf(cut, id) = LoggedOf(all, id)
    <2>1. LoggedOf(saved \o cut, id) = LoggedOf(saved, id) + LoggedOf(cut, id)
      BY <1>7, LogsJoin
    <2> QED BY <1>8, <2>1
  <1>10. LoggedOf(all, id) = Cardinality({i \in 1 .. n : items[i].item.id = id})
    <2>1. {i \in DOMAIN all : all[i].item = id} = {i \in 1 .. n : items[i].item.id = id}
      BY <1>6
    <2> QED BY <2>1 DEF LoggedOf
  <1>11. LoggedOf(saved, id) = Cardinality({i \in DOMAIN kept : kept[i].item.id = id})
    <2>1. {i \in DOMAIN saved : saved[i].item = id} = {i \in DOMAIN kept : kept[i].item.id = id}
      BY <1>4, <1>6
    <2> QED BY <2>1 DEF LoggedOf
  <1>12. LoggedOf(c.log, id) = LoggedOf(log, id) + LoggedOf(cut, id)
    <2>1. log \in Seq(Y \cup E) /\ cut \in Seq(Y \cup E)
      BY <1>7
    <2> QED BY <1>3, <2>1, LogsJoin
  <1>13. LoggedOf(saved, id) \in Nat /\ LoggedOf(cut, id) \in Nat /\ LoggedOf(log, id) \in Nat
    <2>1. LoggedOf(log, id) \in Nat
      BY LogCounts
    <2> QED BY <1>7, <2>1, LogCounts
  <1>14. /\ LoggedOf(saved, id) + LoggedOf(c.log, id) = LoggedOf(all, id) + LoggedOf(log, id)
         /\ LoggedOf(c.log, id) \in Nat
    BY <1>9, <1>12, <1>13
  <1>15. /\ Len(c.items) = size /\ DOMAIN c.items = 1 .. size
         /\ \A i \in 1 .. size : c.items[i] = items[i]
    BY <1>3, <1>4
  <1>16. {i \in DOMAIN c.items : c.items[i].item.id = id} = {i \in DOMAIN kept : kept[i].item.id = id}
    BY <1>3
  <1> QED BY <1>2, <1>10, <1>11, <1>13, <1>14, <1>15, <1>16 DEF c, n, CutCounts

\* A set as a list: every member once.
LEMMA Listed ==
    ASSUME NEW S, IsFiniteSet(S)
    PROVE  /\ SetToSeq(S) \in [1 .. Cardinality(S) -> S] /\ SetToSeq(S) \in Seq(S)
           /\ \A i, j \in 1 .. Cardinality(S) : SetToSeq(S)[i] = SetToSeq(S)[j] => i = j
           /\ \A x \in S : \E i \in 1 .. Cardinality(S) : SetToSeq(S)[i] = x
  <1> DEFINE n == Cardinality(S)
             list == SetToSeq(S)
  <1>1. n \in Nat /\ ExistsBijection(1 .. n, S)
    BY FS_CardinalityType
  <1>2. PICK f \in [1 .. n -> S] : IsInjective(f)
    BY <1>1 DEF ExistsBijection, Bijection, Injection
  <1>3. list \in [1 .. n -> S] /\ IsInjective(list)
    BY <1>2 DEF SetToSeq
  <1>4. \A i, j \in 1 .. n : list[i] = list[j] => i = j
    BY <1>3 DEF IsInjective
  <1>5. IsFiniteSet(1 .. n) /\ Cardinality(1 .. n) = n
    <2>1. /\ IsFiniteSet(1 .. n)
          /\ Cardinality(1 .. n) = IF 1 > n THEN 0 ELSE n - 1 + 1
      BY <1>1, FS_Interval
    <2> HIDE DEF n
    <2> QED BY <1>1, <2>1
  <1>6. \A x \in S : \E i \in 1 .. n : list[i] = x
    <2> DEFINE I == 1 .. n
    <2>1. IsFiniteSet(I) /\ Cardinality(I) = Cardinality(S) /\ list \in [I -> S]
      BY <1>3, <1>5
    <2>2. \A i, j \in I : list[i] = list[j] => i = j
      BY <1>4
    <2> HIDE DEF I, list
    <2>3. \A x \in S : \E i \in I : list[i] = x
      BY <2>1, <2>2, ReachesAll
    <2> QED BY <2>3 DEF I
  <1>7. list \in Seq(S)
    <2> HIDE DEF n, list
    <2> QED BY <1>1, <1>3
  <1> QED BY <1>3, <1>4, <1>6, <1>7

\* Entries about different items are listed once each.
LEMMA ListedCounts ==
    ASSUME NEW S, IsFiniteSet(S), \A x, y \in S : x.item = y.item => x = y, NEW id
    PROVE  /\ (\E x \in S : x.item = id) => LoggedOf(SetToSeq(S), id) = 1
           /\ (\A x \in S : x.item # id) => LoggedOf(SetToSeq(S), id) = 0
  <1> DEFINE n == Cardinality(S)
             list == SetToSeq(S)
             at == {i \in DOMAIN list : list[i].item = id}
  <1>1. /\ list \in [1 .. n -> S]
        /\ \A i, j \in 1 .. n : list[i] = list[j] => i = j
        /\ \A x \in S : \E i \in 1 .. n : list[i] = x
    BY Listed
  <1> HIDE DEF list, n
  <1>2. ASSUME NEW x \in S, x.item = id PROVE Cardinality(at) = 1
    <2>1. PICK i \in 1 .. n : list[i] = x
      BY <1>1
    <2>2. at = {i}
      <3>1. i \in at
        BY <1>1, <1>2, <2>1
      <3>2. \A j \in at : j = i
        <4> TAKE j \in at
        <4>1. j \in 1 .. n /\ list[j] \in S /\ list[j].item = id
          BY <1>1
        <4>2. list[j] = x
          BY <1>2, <4>1
        <4> QED BY <1>1, <2>1, <4>1, <4>2
      <3> HIDE DEF at
      <3> QED BY <3>1, <3>2
    <2>3. Cardinality({i}) = 1
      BY FS_Singleton
    <2> QED BY <2>2, <2>3
  <1>3. ASSUME \A x \in S : x.item # id PROVE Cardinality(at) = 0
    <2>1. at = {}
      BY <1>1, <1>3
    <2> QED BY <2>1, FS_EmptySet
  <1>4. LoggedOf(list, id) = Cardinality(at)
    BY DEF LoggedOf
  <1> HIDE DEF at
  <1> QED BY <1>2, <1>3, <1>4 DEF list

\* A log has no entry of what none of its entries is about.
LEMMA NeverLogged ==
    ASSUME NEW X, NEW log \in Seq(X), NEW id, \A e \in X : e.item # id
    PROVE  LoggedOf(log, id) = 0
  <1>1. {i \in DOMAIN log : log[i].item = id} = {}
    OBVIOUS
  <1> QED BY <1>1, FS_EmptySet DEF LoggedOf

----------------------------------------------------------------------------
(* The reviewed proposal, with the findings nobody addressed.              *)

\* A proposed item that is kept can be ranked.
LEMMA CandidatesAreComparable ==
    ASSUME NEW context, NEW proposal \in Proposals, NEW a \in Candidates(context, proposal)
    PROVE  Comparable(a)
  <1>1. PICK item \in ToSet(proposal) : a = Ranked(context.measurement, item)
    BY DEF Candidates
  <1>2. /\ item.id \in Nat /\ item.queries \in Seq(Nat) \ {<<>>}
        /\ item.impact \in {"high", "medium", "low"} /\ item.effort \in {"S", "M", "L"}
        /\ item.confidence \in {"medium", "low"}
    BY <1>1, ProposalAssumption
  <1> QED BY <1>1, <1>2, RankedIsComparable

\* The item a finding becomes can be ranked, and refers to the finding.
LEMMA RuleItems ==
    ASSUME NEW m, NEW f, f.check \in Nat
    PROVE  /\ Comparable(RuleItem(m, f)) /\ RuleItem(m, f).id = RuleId + f.check
           /\ RuleItem(m, f).evidence = {<<"tech", f.check>>}
  <1> DEFINE item == [id |-> RuleId + f.check, evidence |-> {<<"tech", f.check>>},
                      comparison |-> {}, checks |-> {f.check}, queries |-> <<1>>, impact |-> "high", effort |-> "S",
                      confidence |-> "medium", basis |-> "observed-in-technical-browse"]
  <1>1. /\ item.id \in Nat /\ item.queries \in Seq(Nat) \ {<<>>}
        /\ item.impact \in {"high", "medium", "low"} /\ item.effort \in {"S", "M", "L"}
        /\ item.confidence \in {"medium", "low"}
    BY DEF RuleId
  <1>2. /\ item.id = RuleId + f.check
        /\ item.evidence = {<<"tech", f.check>>} /\ item.comparison = {}
    OBVIOUS
  <1>3. RuleItem(m, f) = Ranked(m, item)
    BY DEF RuleItem
  <1> HIDE DEF item
  <1>4. Comparable(Ranked(m, item))
    BY <1>1, RankedIsComparable
  <1>5. /\ Ranked(m, item).id = item.id
        /\ Ranked(m, item).evidence = item.evidence \cup item.comparison
    BY DEF Ranked
  <1> QED BY <1>2, <1>3, <1>4, <1>5

\* What the report is made from: the items are ranked apart, every proposed one
\* is kept or logged as often as proposed, every finding to report is there once.
LEMMA FinalReview ==
    ASSUME NEW m, NEW signals \in Signals, NEW proposal \in Proposals, NEW context,
           context = [measurement |-> m, captured |-> signals.captured,
                      fields |-> signals.fields, findings |-> signals.findings]
    PROVE  LET w == WithRules(context, ReviewOf(context, proposal))
               kept(id) == Cardinality({a \in w.ranked : a.id = id})
           IN /\ Rankable(w.ranked)
              /\ \E X : w.log \in Seq(X)
              /\ \A id \in Ids(proposal) :
                     kept(id) + LoggedOf(w.log, id)
                         = Cardinality({j \in 1 .. Len(proposal) : proposal[j].id = id})
              /\ \A f \in signals.findings :
                     f.severity \in {"high", "medium"} /\ f.check \notin Named(proposal) =>
                         kept(RuleId + f.check) + LoggedOf(w.log, RuleId + f.check) = 1
              /\ \A a \in w.ranked : a.evidence \subseteq Registry(context)
  <1> DEFINE findings == signals.findings
             r == ReviewOf(context, proposal)
             open(severity) == {f \in findings : f.check \notin r.addressed /\ f.severity = severity}
             entry(f) == [item |-> RuleId + f.check, rule |-> "unaddressed-technical-finding"]
             rules == {RuleItem(m, f) : f \in open("high")}
             entries == {entry(f) : f \in open("medium")}
             w == WithRules(context, r)
             ids == Ids(proposal)
             X == Entries(ids) \cup entries
  <1>1. /\ IsFiniteSet(findings)
        /\ \A f \in findings : f.check \in Nat
        /\ \A f, g \in findings : f.check = g.check => f = g
    BY ProposalAssumption
  <1>2. \A id \in ids : id \in Nat /\ \A f \in findings : id # RuleId + f.check
    <2> TAKE id \in ids
    <2>1. PICK i \in DOMAIN proposal : id = proposal[i].id
      BY DEF Ids
    <2>2. proposal[i] \in ToSet(proposal)
      BY DEF ToSet
    <2> QED BY <2>1, <2>2, ProposalAssumption
  <1>3. r \in Reviews(context, proposal) /\ Reviewed(proposal, Len(proposal), r)
    <2>1. proposal \in Seq(ToSet(proposal))
      BY ProposalAssumption
    <2> QED BY <2>1, ReviewedAll
  <1> HIDE DEF r
  <1>4. /\ r.ranked \in SUBSET Candidates(context, proposal) /\ r.seen \in SUBSET ids
        /\ r.addressed \in SUBSET Named(proposal) /\ r.log \in Seq(Entries(ids))
        /\ r = [seen |-> r.seen, addressed |-> r.addressed, ranked |-> r.ranked, log |-> r.log]
    BY <1>3 DEF Reviews
  <1>5. w.ranked = r.ranked \cup rules /\ w.log = r.log \o SetToSeq(entries)
    <2>1. context.findings = findings /\ context.measurement = m
      OBVIOUS
    <2>2. w = [r EXCEPT !.ranked = @ \cup rules, !.log = @ \o SetToSeq(entries)]
      BY <2>1 DEF WithRules
    <2> HIDE DEF rules, entries, w
    <2> QED BY <1>4, <2>2
  <1>6. \A f \in findings : /\ Comparable(RuleItem(m, f)) /\ RuleItem(m, f).id = RuleId + f.check
                            /\ RuleItem(m, f).evidence = {<<"tech", f.check>>}
    BY <1>1, RuleItems
  <1>7. /\ IsFiniteSet(r.ranked) /\ \A a \in r.ranked : a.id \in ids
        /\ \A a, b \in r.ranked : a.id = b.id => a = b
    BY <1>3, <1>4 DEF Reviewed
  <1>8. \A a \in rules : \E f \in findings : /\ a = RuleItem(m, f) /\ f \in open("high")
                                             /\ a.id = RuleId + f.check /\ Comparable(a)
    BY <1>6
  <1>9. \A f, g \in findings : RuleId + f.check = RuleId + g.check => f = g
    <2> TAKE f, g \in findings
    <2>1. f.check \in Nat /\ g.check \in Nat /\ RuleId \in Nat
      BY <1>1 DEF RuleId
    <2>2. RuleId + f.check = RuleId + g.check => f.check = g.check
      <3>1. \A x, y, z \in Nat : x + y = x + z => y = z
        OBVIOUS
      <3> QED BY <2>1, <3>1
    <2>3. f.check = g.check => f = g
      BY <1>1
    <2> QED BY <2>2, <2>3
  <1>10. IsFiniteSet(rules)
    <2> DEFINE h == [f \in open("high") |-> RuleItem(m, f)]
    <2>1. IsFiniteSet(open("high"))
      BY <1>1, FS_Subset
    <2>2. h \in Surjection(open("high"), rules)
      BY DEF Surjection
    <2> HIDE DEF h, open, rules
    <2> QED BY <2>1, <2>2, FS_Surjection
  <1>11. IsFiniteSet(entries)
    <2> DEFINE h == [f \in open("medium") |-> entry(f)]
    <2>1. IsFiniteSet(open("medium"))
      BY <1>1, FS_Subset
    <2>2. h \in Surjection(open("medium"), entries)
      BY DEF Surjection
    <2> HIDE DEF h, open, entries
    <2> QED BY <2>1, <2>2, FS_Surjection
  <1>12. \A e \in entries : \E f \in findings : /\ e = entry(f) /\ f \in open("medium")
                                                /\ e.item = RuleId + f.check
    OBVIOUS
  <1>13. \A x, y \in entries : x.item = y.item => x = y
    <2> TAKE x, y \in entries
    <2>1. PICK f \in findings : x = entry(f) /\ x.item = RuleId + f.check
      BY <1>12
    <2>2. PICK g \in findings : y = entry(g) /\ y.item = RuleId + g.check
      BY <1>12
    <2> HIDE DEF entry, entries
    <2> QED BY <1>9, <2>1, <2>2
  <1>14. Rankable(w.ranked)
    <2>1. IsFiniteSet(w.ranked)
      <3> DEFINE first == r.ranked
      <3>1. IsFiniteSet(first)
        BY <1>7
      <3> HIDE DEF w, rules, first
      <3>2. IsFiniteSet(first \cup rules)
        BY <1>10, <3>1, FS_Union
      <3> QED BY <1>5, <3>2 DEF first
    <2>2. \A a \in w.ranked : Comparable(a)
      <3>1. \A a \in r.ranked : Comparable(a)
        BY <1>4, CandidatesAreComparable
      <3>2. \A a \in rules : Comparable(a)
        BY <1>8
      <3> HIDE DEF w, rules
      <3> QED BY <1>5, <3>1, <3>2
    <2>3. ASSUME NEW a \in w.ranked, NEW b \in w.ranked, a.id = b.id PROVE a = b
      <3>1. \A x \in rules : \E f \in findings : x = RuleItem(m, f) /\ x.id = RuleId + f.check
        BY <1>8
      <3> HIDE DEF w, rules, open
      <3>2. CASE a \in r.ranked /\ b \in r.ranked
        BY <1>7, <2>3, <3>2
      <3>3. CASE a \in r.ranked /\ b \in rules
        BY <1>2, <1>7, <2>3, <3>1, <3>3
      <3>4. CASE a \in rules /\ b \in r.ranked
        BY <1>2, <1>7, <2>3, <3>1, <3>4
      <3>5. CASE a \in rules /\ b \in rules
        BY <1>9, <2>3, <3>1, <3>5
      <3> QED BY <1>5, <3>2, <3>3, <3>4, <3>5
    <2> QED BY <2>1, <2>2, <2>3 DEF Rankable
  <1>15. SetToSeq(entries) \in Seq(entries)
    <2> HIDE DEF entries
    <2> QED BY <1>11, Listed
  <1>16. r.log \in Seq(X) /\ SetToSeq(entries) \in Seq(X)
    <2> HIDE DEF entries
    <2> QED BY <1>4, <1>15
  <1> HIDE DEF X
  <1>17. /\ w.log \in Seq(X)
         /\ \A id : LoggedOf(w.log, id) = LoggedOf(r.log, id) + LoggedOf(SetToSeq(entries), id)
    <2>1. \A id : LoggedOf(r.log \o SetToSeq(entries), id) =
                      LoggedOf(r.log, id) + LoggedOf(SetToSeq(entries), id)
      <3> HIDE DEF entries
      <3> QED BY <1>16, LogsJoin
    <2>2. r.log \o SetToSeq(entries) \in Seq(X)
      <3> HIDE DEF entries
      <3> QED BY <1>16, LogsJoin
    <2> HIDE DEF w, entries
    <2> QED BY <1>5, <2>1, <2>2
  <1>18. ASSUME NEW id \in ids
         PROVE  Cardinality({a \in w.ranked : a.id = id}) + LoggedOf(w.log, id)
                    = Cardinality({j \in 1 .. Len(proposal) : proposal[j].id = id})
    <2>1. {a \in w.ranked : a.id = id} = {a \in r.ranked : a.id = id}
      <3>1. \A a \in rules : a.id # id
        BY <1>2, <1>8
      <3> HIDE DEF w, rules
      <3> QED BY <1>5, <3>1
    <2>2. LoggedOf(SetToSeq(entries), id) = 0
      <3>1. \A e \in entries : e.item # id
        BY <1>2, <1>12
      <3> HIDE DEF entries
      <3> QED BY <1>15, <3>1, NeverLogged
    <2>3. LoggedOf(r.log, id) \in Nat
      BY <1>4, LogCounts
    <2>4. LoggedOf(w.log, id) = LoggedOf(r.log, id)
      <3>1. LoggedOf(w.log, id) = LoggedOf(r.log, id) + LoggedOf(SetToSeq(entries), id)
        BY <1>17
      <3> HIDE DEF w, entries
      <3> QED BY <2>2, <2>3, <3>1
    <2>5. Cardinality({a \in r.ranked : a.id = id}) + LoggedOf(r.log, id)
              = Cardinality({j \in 1 .. Len(proposal) : proposal[j].id = id})
      BY <1>2, <1>3 DEF Reviewed
    <2> HIDE DEF w
    <2> QED BY <2>1, <2>4, <2>5
  <1>19. ASSUME NEW f \in findings, f.severity \in {"high", "medium"}, f.check \notin Named(proposal)
         PROVE  Cardinality({a \in w.ranked : a.id = RuleId + f.check})
                    + LoggedOf(w.log, RuleId + f.check) = 1
    <2> DEFINE id == RuleId + f.check
    <2>1. f.check \notin r.addressed
      BY <1>4, <1>19
    <2>2. LoggedOf(r.log, id) = 0
      <3>1. \A e \in Entries(ids) : e.item # id
        BY <1>2 DEF Entries
      <3> HIDE DEF id, ids
      <3> QED BY <1>4, <3>1, NeverLogged
    <2>3. \A a \in r.ranked : a.id # id
      BY <1>2, <1>7
    <2>4. LoggedOf(w.log, id) = LoggedOf(r.log, id) + LoggedOf(SetToSeq(entries), id)
      BY <1>17
    <2>5. CASE f.severity = "high"
      <3>1. RuleItem(m, f) \in rules /\ RuleItem(m, f).id = id
        BY <1>6, <2>1, <2>5
      <3>2. \A a \in rules : a.id = id => a = RuleItem(m, f)
        <4>1. \A a \in rules : \E g \in findings : a = RuleItem(m, g) /\ a.id = RuleId + g.check
          BY <1>8
        <4> HIDE DEF rules
        <4> QED BY <1>9, <4>1
      <3>3. {a \in w.ranked : a.id = id} = {RuleItem(m, f)}
        <4> HIDE DEF w, rules, id
        <4> QED BY <1>5, <2>3, <3>1, <3>2
      <3>4. \A e \in entries : e.item # id
        <4> TAKE e \in entries
        <4>1. PICK g \in findings : g.severity = "medium" /\ e.item = RuleId + g.check
          BY <1>12
        <4>2. g # f
          BY <2>5, <4>1
        <4> QED BY <1>9, <4>1, <4>2
      <3>5. LoggedOf(SetToSeq(entries), id) = 0
        <4> HIDE DEF entries, id
        <4> QED BY <1>15, <3>4, NeverLogged
      <3>6. Cardinality({RuleItem(m, f)}) = 1
        BY FS_Singleton
      <3> HIDE DEF w, entries, id
      <3>7. Cardinality({a \in w.ranked : a.id = id}) = 1 /\ LoggedOf(w.log, id) = 0
        BY <2>2, <2>4, <3>3, <3>5, <3>6
      <3>8. Cardinality({a \in w.ranked : a.id = id}) + LoggedOf(w.log, id) = 1
        BY <3>7
      <3> QED BY <3>8 DEF id
    <2>6. CASE f.severity = "medium"
      <3>1. entry(f) \in entries /\ entry(f).item = id
        BY <2>1, <2>6
      <3>2. LoggedOf(SetToSeq(entries), id) = 1
        <4> HIDE DEF entries, id, entry
        <4> QED BY <1>11, <1>13, <3>1, ListedCounts
      <3>3. \A a \in rules : a.id # id
        <4> TAKE a \in rules
        <4>1. PICK g \in findings : g.severity = "high" /\ a.id = RuleId + g.check
          BY <1>8
        <4>2. g # f
          BY <2>6, <4>1
        <4> QED BY <1>9, <4>1, <4>2
      <3>4. {a \in w.ranked : a.id = id} = {}
        <4> HIDE DEF w, rules, id
        <4> QED BY <1>5, <2>3, <3>3
      <3>5. Cardinality({}) = 0
        BY FS_EmptySet
      <3> HIDE DEF w, entries, id
      <3>6. Cardinality({a \in w.ranked : a.id = id}) = 0 /\ LoggedOf(w.log, id) = 1
        BY <2>2, <2>4, <3>2, <3>4, <3>5
      <3>7. Cardinality({a \in w.ranked : a.id = id}) + LoggedOf(w.log, id) = 1
        BY <3>6
      <3> QED BY <3>7 DEF id
    <2> QED BY <1>19, <2>5, <2>6
  <1>20. ASSUME NEW a \in w.ranked PROVE a.evidence \subseteq Registry(context)
    <2>1. CASE a \in r.ranked
      <3>1. PICK item \in ToSet(proposal) : Supported(context, item) /\ a = Ranked(context.measurement, item)
        BY <1>4, <2>1 DEF Candidates
      <3>2. a.evidence = item.evidence \cup item.comparison
        BY <3>1 DEF Ranked
      <3>3. item.evidence \cup item.comparison \subseteq Registry(context)
        BY <3>1 DEF Supported
      <3> QED BY <3>2, <3>3
    <2>2. CASE a \in rules
      <3>1. PICK f \in findings : a = RuleItem(m, f)
        BY <2>2
      <3>2. a.evidence = {<<"tech", f.check>>}
        BY <1>6, <3>1
      <3> DEFINE found == {<<"tech", g.check>> : g \in findings}
                 others == {<<"page">>}
                     \cup {<<"ans", qp[1], qp[2]>> : qp \in {x \in Pairs : Completed(m.results[x])}}
                     \cup (UNION {{<<"src", q, i>> : i \in PlanComparisons(m, q)} : q \in Queries})
                     \cup {<<"sig", q>> : q \in Queries}
                     \cup TechnicalEvidence(context)
      <3>3. Registry(context) = others \cup found
        BY DEF Registry
      <3>4. <<"tech", f.check>> \in Registry(context)
        <4>1. <<"tech", f.check>> \in found
          OBVIOUS
        <4> HIDE DEF others, found
        <4> QED BY <3>3, <4>1
      <3> QED BY <3>2, <3>4
    <2> HIDE DEF w, rules
    <2> QED BY <1>5, <1>20, <2>1, <2>2
  <1> HIDE DEF w, entries, rules
  <1> QED BY <1>14, <1>17, <1>18, <1>19, <1>20 DEF w, r

----------------------------------------------------------------------------
(* The reports.                                                            *)

\* Only a completed packet lists sources.
LEMMA SourcesWereReturned ==
    ASSUME NEW m, Sound(m), NEW q \in Queries, NEW i \in DOMAIN Sources(m, q)
    PROVE  Completed(m.retrievals[q])
  <1>1. m.retrievals[q] \in {None} \cup PacketRecords
    BY DEF Sound, Measurements
  <1>2. m.retrievals[q] # None
    BY DEF Sources
  <1>3. Sources(m, q) = m.retrievals[q].sources
    BY <1>2 DEF Sources
  <1>4. m.retrievals[q].status # "error"
    BY <1>1, <1>2, <1>3 DEF PacketRecords
  <1> QED BY <1>1, <1>2, <1>4 DEF PacketRecords, Completed

\* Whatever the registry has can be found again in the report.
LEMMA RegistryResolves ==
    ASSUME NEW report, Sound(report.measurement), report.findings # {} => report.captured,
           NEW ref \in Registry(report)
    PROVE  Resolves(report, ref)
  <1> DEFINE m == report.measurement
             answers == {<<"ans", qp[1], qp[2]>> : qp \in {x \in Pairs : Completed(m.results[x])}}
             compared == UNION {{<<"src", q, i>> : i \in PlanComparisons(m, q)} : q \in Queries}
             signals == {<<"sig", q>> : q \in Queries}
             provided == {<<"tech", n>> : n \in IF report.captured THEN report.fields ELSE {}}
             found == {<<"tech", f.check>> : f \in report.findings}
  <1>1. ref \in {<<"page">>} \cup answers \cup compared \cup signals \cup provided \cup found
    BY DEF Registry, TechnicalEvidence
  <1>2. CASE ref \in {<<"page">>}
    <2>1. ref[1] = "page"
      BY <1>2
    <2> QED BY <2>1 DEF Resolves
  <1>3. CASE ref \in answers
    <2>1. PICK qp \in Pairs : Completed(m.results[qp]) /\ ref = <<"ans", qp[1], qp[2]>>
      BY <1>3
    <2>2. ref[1] = "ans" /\ ref[2] = qp[1] /\ ref[3] = qp[2]
      BY <2>1
    <2>3. <<ref[2], ref[3]>> = qp
      BY <2>2 DEF Pairs
    <2> QED BY <2>1, <2>2, <2>3 DEF Resolves
  <1>4. CASE ref \in compared
    <2>1. PICK q \in Queries : \E i \in PlanComparisons(m, q) : ref = <<"src", q, i>>
      BY <1>4
    <2>2. PICK i \in PlanComparisons(m, q) : ref = <<"src", q, i>>
      BY <2>1
    <2>3. i \in DOMAIN Sources(m, q)
      BY DEF PlanComparisons, Best, Positions
    <2>4. Completed(m.retrievals[q])
      BY <2>3, SourcesWereReturned
    <2>5. ref[1] = "src" /\ ref[2] = q /\ ref[3] = i
      BY <2>2
    <2> QED BY <2>3, <2>4, <2>5 DEF Resolves
  <1>5. CASE ref \in signals
    <2>1. ref[1] = "sig"
      BY <1>5
    <2> QED BY <2>1 DEF Resolves
  <1>6. CASE ref \in found
    <2>1. PICK f \in report.findings : ref = <<"tech", f.check>>
      BY <1>6
    <2>2. ref[1] = "tech" /\ ref[2] = f.check
      BY <2>1
    <2> QED BY <2>2 DEF Resolves
  <1>7. CASE ref \in provided
    <2>1. PICK n \in report.fields : report.captured /\ ref = <<"tech", n>>
      BY <1>7
    <2>2. ref[1] = "tech" /\ ref[2] = n
      BY <2>1
    <2> QED BY <2>1, <2>2 DEF Resolves
  <1> HIDE DEF answers, compared, signals, provided, found
  <1> QED BY <1>1, <1>2, <1>3, <1>4, <1>5, <1>6, <1>7

\* An accepted baseline report rests on compared sources (_validate_quotes).
LEMMA BaselineAnswers ==
    ASSUME NEW m, NEW drafts, BaselineAccepts(m, drafts)
    PROVE  BaselineRests(BaselineReport(m, drafts))
  <1> DEFINE report == BaselineReport(m, drafts)
  <1>1. report.measurement = m /\ report.items = drafts
    BY DEF BaselineReport
  <1>2. ASSUME NEW i \in DOMAIN drafts, NEW n \in drafts[i].sources
        PROVE  LET q == drafts[i].query
               IN /\ Completed(m.retrievals[q]) /\ n \in DOMAIN Sources(m, q)
                  /\ Sources(m, q)[n].relation # "exact-page"
    <2> DEFINE q == drafts[i].query
    <2>1. <<q, n>> \in Compared(m)
      BY DEF BaselineAccepts, Quotes
    <2>2. PICK r \in Queries :
              /\ Completed(m.retrievals[r])
              /\ \E k \in Best(2, Alternatives(m, r), LAMBDA x, y : Preferred(m, r, x, y)) :
                     <<q, n>> = <<r, k>>
      BY <2>1 DEF Compared
    <2>3. PICK k \in Best(2, Alternatives(m, r), LAMBDA x, y : Preferred(m, r, x, y)) :
              <<q, n>> = <<r, k>>
      BY <2>2
    <2>4. k \in Alternatives(m, r)
      BY DEF Best
    <2>5. r = q /\ k = n
      BY <2>3
    <2> QED BY <2>2, <2>4, <2>5 DEF Alternatives
  <1>3. ASSUME NEW i \in DOMAIN drafts
        PROVE  /\ drafts[i].sources # {}
               /\ \A j \in DOMAIN drafts : drafts[i].priority = drafts[j].priority => i = j
    BY DEF BaselineAccepts, Quotes
  <1> HIDE DEF report
  <1> QED BY <1>1, <1>2, <1>3 DEF BaselineRests, report

\* The items of a report are the first of the order, and what it lost is logged.
LEMMA PlanAnswers ==
    ASSUME NEW m, Sound(m), NEW signals \in Signals, NEW proposal \in Proposals, NEW context,
           context = [measurement |-> m, captured |-> signals.captured,
                      fields |-> signals.fields, findings |-> signals.findings]
    PROVE  LET report == PlanReport(context, proposal)
           IN /\ NothingIsLost(report)
              /\ RanksAreKept(report)
              /\ \A i \in DOMAIN report.items :
                     \A ref \in report.items[i].item.evidence : Resolves(report, ref)
  <1> DEFINE w == WithRules(context, ReviewOf(context, proposal))
             ranked == w.ranked
             log == w.log
             t == Tiered(ranked)
             n == Cardinality(ranked)
             c == Cut(t, log)
             k == Len(c.items)
             report == PlanReport(context, proposal)
             kept(id) == Cardinality({a \in ranked : a.id = id})
             saved(id) == Cardinality({i \in DOMAIN report.items : report.items[i].item.id = id})
             logged(id) == Cardinality({i \in DOMAIN report.log : report.log[i].item = id})
  <1>1. /\ Rankable(ranked)
        /\ \E X : log \in Seq(X)
        /\ \A id \in Ids(proposal) :
               kept(id) + LoggedOf(log, id)
                   = Cardinality({j \in 1 .. Len(proposal) : proposal[j].id = id})
        /\ \A f \in signals.findings :
               f.severity \in {"high", "medium"} /\ f.check \notin Named(proposal) =>
                   kept(RuleId + f.check) + LoggedOf(log, RuleId + f.check) = 1
        /\ \A a \in ranked : a.evidence \subseteq Registry(context)
    BY FinalReview
  <1>2. /\ report.items = c.items /\ report.log = c.log /\ report.proposal = proposal
        /\ report.measurement = m /\ report.findings = signals.findings
        /\ report.captured = signals.captured /\ report.fields = signals.fields
    BY DEF PlanReport
  <1> HIDE DEF w, report, ranked, log
  <1>3. /\ n \in Nat /\ t \in Seq({t[i] : i \in 1 .. n}) /\ Len(t) = n
        /\ \A i \in 1 .. n : t[i].item \in ranked
        /\ \A i, j \in 1 .. n : i < j => RanksBefore(t[i].item, t[j].item)
        /\ \A i \in 1 .. n : t[i].tier = "P1" <=> t[i].item.score >= 400 /\ i <= TopItems
    <2>1. Rankable(ranked)
      BY <1>1
    <2> HIDE DEF n
    <2>2. InOrder(ranked, t)
      BY <2>1, TieredInOrder
    <2> QED BY <2>2 DEF InOrder, n
  <1>4. PICK Y : log \in Seq(Y)
    BY <1>1
  <1> DEFINE X == {t[i] : i \in 1 .. n}
  <1>5. t \in Seq(X)
    BY <1>3
  <1> HIDE DEF X, n, t
  <1>6. ASSUME NEW id
        PROVE  /\ k \in Nat /\ k <= n /\ k <= ReportSize /\ DOMAIN c.items = 1 .. k
               /\ \A i \in 1 .. k : c.items[i] = t[i]
               /\ Cardinality({i \in DOMAIN c.items : c.items[i].item.id = id}) \in Nat
               /\ LoggedOf(c.log, id) \in Nat
               /\ Cardinality({i \in DOMAIN c.items : c.items[i].item.id = id}) + LoggedOf(c.log, id)
                      = Cardinality({i \in 1 .. n : t[i].item.id = id}) + LoggedOf(log, id)
    <2>1. Len(t) = n
      BY <1>3
    <2>2. CutCounts(t, log, c, id)
      BY <1>4, <1>5, CutKeepsCount
    <2> HIDE DEF c
    <2> QED BY <2>1, <2>2 DEF CutCounts
  <1> HIDE DEF c, k
  <1>7. ASSUME NEW id
        PROVE  /\ saved(id) \in Nat /\ logged(id) \in Nat /\ kept(id) \in Nat /\ kept(id) <= 1
               /\ LoggedOf(log, id) \in Nat
               /\ saved(id) + logged(id) = kept(id) + LoggedOf(log, id)
    <2>1. Cardinality({i \in 1 .. n : t[i].item.id = id}) = kept(id) /\ kept(id) \in Nat /\ kept(id) <= 1
      <3>1. Rankable(ranked)
        BY <1>1
      <3>2. TakesOnePlace(ranked, t, id)
        BY <3>1, TieredCounts DEF t
      <3> QED BY <3>2 DEF TakesOnePlace, n
    <2>2. saved(id) = Cardinality({i \in DOMAIN c.items : c.items[i].item.id = id})
      BY <1>2
    <2>3. logged(id) = LoggedOf(c.log, id)
      BY <1>2 DEF LoggedOf
    <2>4. LoggedOf(log, id) \in Nat
      BY <1>4, LogCounts
    <2> HIDE DEF saved, logged, kept
    <2> QED BY <1>6, <2>1, <2>2, <2>3, <2>4
  <1>8. /\ k \in Nat /\ k <= n /\ k <= ReportSize /\ DOMAIN report.items = 1 .. k
        /\ \A i \in 1 .. k : report.items[i] = t[i]
    BY <1>2, <1>6
  <1>9. \A i \in 1 .. k : i \in 1 .. n
    BY <1>3, <1>8
  <1>10. ASSUME NEW id PROVE saved(id) <= 1
    <2> DEFINE at == {i \in DOMAIN report.items : report.items[i].item.id = id}
    <2>1. at \in SUBSET {i \in 1 .. n : t[i].item.id = id}
      <3>1. \A i \in at : i \in 1 .. n /\ t[i].item.id = id
        <4> TAKE i \in at
        <4>1. i \in 1 .. k /\ report.items[i].item.id = id
          BY <1>8
        <4>2. i \in 1 .. n /\ report.items[i] = t[i]
          BY <1>8, <1>9, <4>1
        <4> QED BY <4>1, <4>2
      <3> HIDE DEF at
      <3> QED BY <3>1
    <2>2. IsFiniteSet({i \in 1 .. n : t[i].item.id = id})
      <3>1. n \in Nat
        BY <1>3
      <3>2. IsFiniteSet(1 .. n)
        BY <3>1, FS_Interval
      <3> QED BY <3>2, FS_Subset
    <2>3. Cardinality(at) <= Cardinality({i \in 1 .. n : t[i].item.id = id})
      <3> HIDE DEF at
      <3> QED BY <2>1, <2>2, FS_Subset
    <2>4. Cardinality({i \in 1 .. n : t[i].item.id = id}) = kept(id)
      <3>1. Rankable(ranked)
        BY <1>1
      <3>2. TakesOnePlace(ranked, t, id)
        BY <3>1, TieredCounts DEF t
      <3> QED BY <3>2 DEF TakesOnePlace, n
    <2>5. saved(id) = Cardinality(at)
      OBVIOUS
    <2>6. saved(id) \in Nat /\ kept(id) \in Nat /\ kept(id) <= 1
      BY <1>7
    <2> HIDE DEF saved, kept, at
    <2> QED BY <2>3, <2>4, <2>5, <2>6
  <1>11. NothingIsLost(report)
    <2>1. DOMAIN proposal = 1 .. Len(proposal)
      <3>1. proposal \in Seq(ToSet(proposal))
        BY ProposalAssumption
      <3> QED BY <3>1
    <2>2. ASSUME NEW id \in Ids(proposal)
          PROVE  /\ saved(id) <= 1
                 /\ saved(id) + logged(id) = Cardinality({j \in DOMAIN proposal : proposal[j].id = id})
      <3>1. saved(id) + logged(id) = kept(id) + LoggedOf(log, id)
        BY <1>7
      <3>2. kept(id) + LoggedOf(log, id)
                = Cardinality({j \in DOMAIN proposal : proposal[j].id = id})
        BY <1>1, <2>1
      <3> HIDE DEF saved, logged, kept
      <3> QED BY <1>10, <3>1, <3>2
    <2>3. ASSUME NEW f \in signals.findings, f.severity \in {"high", "medium"}
          PROVE  f.check \in Named(proposal) \/ saved(RuleId + f.check) + logged(RuleId + f.check) = 1
      <3>1. f.check \notin Named(proposal) =>
                kept(RuleId + f.check) + LoggedOf(log, RuleId + f.check) = 1
        BY <1>1, <2>3
      <3>2. saved(RuleId + f.check) + logged(RuleId + f.check)
                = kept(RuleId + f.check) + LoggedOf(log, RuleId + f.check)
        BY <1>7
      <3> HIDE DEF saved, logged, kept
      <3> QED BY <3>1, <3>2
    <2>4. /\ Ids(proposal) = {report.proposal[i].id : i \in DOMAIN report.proposal}
          /\ Named(proposal) = UNION {report.proposal[i].checks : i \in DOMAIN report.proposal}
      BY <1>2 DEF Ids, Named
    <2>5. \A id \in {report.proposal[i].id : i \in DOMAIN report.proposal} :
              /\ saved(id) <= 1
              /\ saved(id) + logged(id)
                     = Cardinality({j \in DOMAIN report.proposal : report.proposal[j].id = id})
      <3> HIDE DEF saved, logged
      <3> QED BY <1>2, <2>2, <2>4
    <2>6. \A f \in report.findings : f.severity \in {"high", "medium"} =>
              \/ f.check \in UNION {report.proposal[i].checks : i \in DOMAIN report.proposal}
              \/ saved(RuleId + f.check) + logged(RuleId + f.check) = 1
      <3> HIDE DEF saved, logged
      <3> QED BY <1>2, <2>3, <2>4
    <2> QED BY <2>5, <2>6 DEF NothingIsLost
  <1>12. RanksAreKept(report)
    <2>1. Len(report.items) <= ReportSize
      BY <1>2, <1>8 DEF k
    <2>2. Cardinality({i \in DOMAIN report.items : report.items[i].tier = "P1"}) <= TopItems
      <3> DEFINE top == {i \in DOMAIN report.items : report.items[i].tier = "P1"}
      <3>1. TopItems \in Nat
        BY ReportAssumption
      <3>2. \A i \in top : i \in 1 .. TopItems
        <4> TAKE i \in top
        <4>1. i \in 1 .. k /\ t[i].tier = "P1" /\ i \in 1 .. n
          BY <1>8, <1>9
        <4>2. i <= TopItems
          BY <1>3, <4>1
        <4> QED BY <3>1, <4>1, <4>2
      <3>3. top \in SUBSET (1 .. TopItems)
        <4> HIDE DEF top
        <4> QED BY <3>2
      <3>4. /\ IsFiniteSet(1 .. TopItems)
            /\ Cardinality(1 .. TopItems) = IF 1 > TopItems THEN 0 ELSE TopItems - 1 + 1
        BY <3>1, FS_Interval
      <3>5. Cardinality(1 .. TopItems) = TopItems
        BY <3>1, <3>4
      <3>6. Cardinality(top) <= Cardinality(1 .. TopItems)
        <4> HIDE DEF top
        <4> QED BY <3>3, <3>4, FS_Subset
      <3> QED BY <3>5, <3>6
    <2>3. ASSUME NEW i \in DOMAIN report.items, NEW j \in DOMAIN report.items, i < j
          PROVE  /\ report.items[i].item.score >= report.items[j].item.score
                 /\ report.items[j].tier = "P1" => report.items[i].tier = "P1"
      <3>1. /\ i \in 1 .. n /\ j \in 1 .. n /\ report.items[i] = t[i] /\ report.items[j] = t[j]
        BY <1>8, <1>9
      <3>2. RanksBefore(t[i].item, t[j].item)
        BY <1>3, <2>3, <3>1
      <3>3. t[i].item.score \in Int /\ t[j].item.score \in Int
        BY <1>1, <1>3, <3>1 DEF Rankable, Comparable
      <3>4. t[i].item.score >= t[j].item.score
        BY <3>2, <3>3 DEF RanksBefore
      <3>5. t[j].tier = "P1" => t[i].tier = "P1"
        <4>1. TopItems \in Nat /\ i \in Nat /\ j \in Nat
          BY <3>1, ReportAssumption
        <4>2. /\ t[i].tier = "P1" <=> t[i].item.score >= 400 /\ i <= TopItems
              /\ t[j].tier = "P1" <=> t[j].item.score >= 400 /\ j <= TopItems
          BY <1>3, <3>1
        <4> QED BY <2>3, <3>3, <3>4, <4>1, <4>2
      <3> QED BY <3>1, <3>4, <3>5
    <2> QED BY <2>1, <2>2, <2>3 DEF RanksAreKept
  <1>13. ASSUME NEW i \in DOMAIN report.items, NEW ref \in report.items[i].item.evidence
         PROVE  Resolves(report, ref)
    <2>1. report.items[i].item \in ranked
      BY <1>3, <1>8, <1>9
    <2>2. ref \in Registry(context)
      BY <1>1, <1>13, <2>1
    <2>3. Registry(report) = Registry(context)
      BY <1>2 DEF Registry, TechnicalEvidence
    <2>4. report.findings # {} => report.captured
      <3>1. signals.findings # {} => signals.captured
        BY ProposalAssumption
      <3> QED BY <1>2, <3>1
    <2>5. Sound(report.measurement) /\ ref \in Registry(report)
      BY <1>2, <2>2, <2>3
    <2> QED BY <2>4, <2>5, RegistryResolves
  <1> QED BY <1>11, <1>12, <1>13 DEF report

\* A run begins without a report.
LEMMA AccountableInit == ASSUME Init PROVE ReportIsAccountable
  BY DEF Init, ReportIsAccountable

\* A report is made for the measurement it is saved with; what takes away the
\* measurement takes the report with it.
LEMMA AccountableNext ==
    ASSUME EvaluationInv, ReportIsAccountable, [Next]_vars
    PROVE  ReportIsAccountable'
  <1> DEFINE Answers(m, report) ==
                 /\ report.measurement = m
                 /\ (report.status = "completed") = (report.items # <<>>)
                 /\ report.version = 2 => BaselineRests(report)
                 /\ report.version = 3 =>
                       /\ NothingIsLost(report)
                       /\ RanksAreKept(report)
                       /\ \A i \in DOMAIN report.items :
                              \A ref \in report.items[i].item.evidence : Resolves(report, ref)
  <1>0. ASSUME run'.report # None => Answers(run'.measurement, run'.report)
        PROVE  ReportIsAccountable'
    BY <1>0 DEF ReportIsAccountable, BaselineRests, NothingIsLost, RanksAreKept, Resolves
  <1>10. run.report # None => Answers(run.measurement, run.report)
    BY DEF ReportIsAccountable
  <1> HIDE DEF Answers
  <1>1. ASSUME run'.report = run.report, run'.measurement = run.measurement
        PROVE  ReportIsAccountable'
    BY <1>0, <1>1, <1>10
  <1>2. ASSUME NEW q \in Queries, NEW packet \in SearchResults, Retrieve(q, packet)
        PROVE  ReportIsAccountable'
    BY <1>1, <1>2 DEF Retrieve
  <1>3. ASSUME NEW qp \in Pairs, NEW outcome \in Outcomes, Answer(qp, outcome)
        PROVE  ReportIsAccountable'
    BY <1>1, <1>3 DEF Answer
  <1>4. CASE Save
    <2>1. run'.report = None
      BY <1>4 DEF Save
    <2> QED BY <2>1 DEF ReportIsAccountable
  <1>5. CASE Recover
    <2>1. run'.report = run.report /\ run'.measurement = run.measurement
      BY <1>5 DEF Recover, EvaluationInv
    <2> QED BY <1>1, <2>1
  <1>6. ASSUME Reportable PROVE Sound(run.measurement)
    BY <1>6 DEF Reportable, EvaluationInv
  <1>7. ASSUME NEW drafts \in Drafts, RecommendBaseline(drafts)
        PROVE  ReportIsAccountable'
    <2> DEFINE report == BaselineReport(run.measurement, drafts)
    <2>1. run'.report = report /\ run'.measurement = run.measurement
      BY <1>7 DEF RecommendBaseline, EvaluationInv
    <2>2. BaselineRests(report)
      BY <1>7, BaselineAnswers DEF RecommendBaseline
    <2>3. /\ report.measurement = run.measurement /\ report.version = 2
          /\ (report.status = "completed") = (report.items # <<>>)
      BY DEF BaselineReport
    <2> HIDE DEF report
    <2>4. Answers(run.measurement, report)
      BY <2>2, <2>3 DEF Answers
    <2> QED BY <1>0, <2>1, <2>4
  <1>8. ASSUME NEW signals \in Signals, NEW proposal \in Proposals, RecommendPlan(signals, proposal)
        PROVE  ReportIsAccountable'
    <2> DEFINE context == [measurement |-> run.measurement, captured |-> signals.captured,
                           fields |-> signals.fields, findings |-> signals.findings]
               report == PlanReport(context, proposal)
    <2>1. run'.report = report /\ run'.measurement = run.measurement
      BY <1>8 DEF RecommendPlan, EvaluationInv
    <2>2. Sound(run.measurement)
      BY <1>6, <1>8 DEF RecommendPlan
    <2>3. /\ NothingIsLost(report) /\ RanksAreKept(report)
          /\ \A i \in DOMAIN report.items :
                 \A ref \in report.items[i].item.evidence : Resolves(report, ref)
      BY <2>2, PlanAnswers
    <2>4. /\ report.measurement = run.measurement /\ report.version = 3
          /\ (report.status = "completed") = (report.items # <<>>)
      BY DEF PlanReport
    <2> HIDE DEF report
    <2>5. Answers(run.measurement, report)
      BY <2>3, <2>4 DEF Answers
    <2> QED BY <1>0, <2>1, <2>5
  <1>9. CASE UNCHANGED vars
    BY <1>1, <1>9 DEF vars
  <1> QED BY <1>2, <1>3, <1>4, <1>5, <1>7, <1>8, <1>9 DEF Next

\* A saved report is about the saved measurement, rests on evidence that is in
\* it, accounts for everything proposed and found, and keeps the order it was
\* ranked in, whatever is proposed, found, measured, recovered and cut
\* (SpecialistStageHandler, validate_plan, validate_recommendations).
THEOREM ReportsAnswerForTheirInput == Spec => []ReportIsAccountable
  <1>1. Init => ReportIsAccountable
    BY AccountableInit
  <1>2. EvaluationInv /\ ReportIsAccountable /\ [Next]_vars => ReportIsAccountable'
    BY AccountableNext
  <1> QED BY <1>1, <1>2, MeasurementsAreSound, PTL DEF Spec

================================================================================
