----------------------------- MODULE SumTheorems -----------------------------
(***************************************************************************)
(* Induction over finite sets and numbers, with a set in the place of a    *)
(* predicate, and what follows from it for the sums of the community       *)
(* modules: the equation their recursive definition stands for, and the    *)
(* laws that the proofs about amounts use.                                 *)
(***************************************************************************)
EXTENDS Integers, FiniteSetsExt, FiniteSetTheorems, WellFoundedInduction, TLAPS

-----------------------------------------------------------------------------
(* Induction *)

\* What holds for 0 and from n to n + 1 holds for all natural numbers.
LEMMA InductionOnNat ==
    ASSUME NEW G, 0 \in G, \A n \in Nat : n \in G => n + 1 \in G
    PROVE  Nat \subseteq G
<1> DEFINE Bad == Nat \ G
<1> SUFFICES ASSUME Bad # {} PROVE FALSE
  OBVIOUS
<1>1. PICK n \in Bad : \A m \in Bad : ~(<<m, n>> \in OpToRel(<, Nat))
  <2> HIDE DEF Bad
  <2>1. Bad \subseteq Nat
    BY DEF Bad
  <2> QED BY <2>1, NatLessThanWellFounded, WFMin
<1>2. \A m \in Bad : ~(m < n)
  BY <1>1 DEF OpToRel
<1>3. n # 0 /\ n - 1 \in Nat /\ n - 1 < n
  OBVIOUS
<1>4. n - 1 \in G
  BY <1>2, <1>3
<1> QED BY <1>3, <1>4

\* What holds for a set whenever it holds for the set without any one of its
\* elements holds for all finite sets.
LEMMA InductionOnSets ==
    ASSUME NEW S, IsFiniteSet(S), NEW G,
           \A U \in SUBSET S : (\A x \in U : U \ {x} \in G) => U \in G
    PROVE  SUBSET S \subseteq G
<1> DEFINE Bad == (SUBSET S) \ G
<1> SUFFICES ASSUME Bad # {} PROVE FALSE
  OBVIOUS
<1>1. PICK U \in Bad : \A V \in Bad : ~(<<V, U>> \in StrictSubsetOrdering(S))
  <2> HIDE DEF Bad
  <2>1. Bad \subseteq SUBSET S
    BY DEF Bad
  <2>2. IsWellFoundedOn(StrictSubsetOrdering(S), SUBSET S)
    BY FS_StrictSubsetOrderingWellFounded, FS_FiniteSubsetsOfFinite
  <2> QED BY <2>1, <2>2, WFMin
<1>2. ASSUME NEW x \in U PROVE U \ {x} \in G
  <2>1. <<U \ {x}, U>> \in StrictSubsetOrdering(S)
    BY <1>2 DEF StrictSubsetOrdering
  <2>2. U \ {x} \notin Bad
    BY <1>1, <2>1
  <2> QED BY <2>2
<1> QED BY <1>2

-----------------------------------------------------------------------------
(* Least and greatest elements, and limits *)

\* A set of natural numbers has a least element ...
LEMMA LeastExists ==
    ASSUME NEW S \in SUBSET Nat, S # {}
    PROVE  \E n \in S : \A m \in S : n <= m
<1>1. PICK n \in S : \A m \in S : ~(<<m, n>> \in OpToRel(<, Nat))
  BY NatLessThanWellFounded, WFMin
<1>2. \A m \in S : m \in Nat /\ n \in Nat /\ ~(m < n)
  BY <1>1 DEF OpToRel
<1> QED BY <1>2

\* ... and a greatest one, if it is bounded.
LEMMA GreatestExists ==
    ASSUME NEW c \in Nat, NEW S \in SUBSET (1..c), S # {}
    PROVE  \E n \in S : \A m \in S : m <= n
<1> DEFINE T == {c - n : n \in S}
<1>1. T \in SUBSET Nat /\ T # {}
  <2>1. \A n \in S : c - n \in Nat
    OBVIOUS
  <2> QED BY <2>1
<1>2. PICK t \in T : \A u \in T : t <= u
  BY <1>1, LeastExists
<1>3. PICK n \in S : t = c - n
  OBVIOUS
<1>4. \A m \in S : c - n <= c - m
  BY <1>2, <1>3
<1> QED BY <1>4

\* A limit that is not reached leaves nothing out.
LEMMA FewEnough ==
    ASSUME NEW S, IsFiniteSet(S), NEW limit \in Nat, Cardinality(S) <= limit, NEW U \in SUBSET S, U # S
    PROVE  Cardinality(U) < limit
<1>1. Cardinality(U) <= Cardinality(S) /\ Cardinality(U) # Cardinality(S)
  BY FS_Subset
<1>2. Cardinality(U) \in Nat /\ Cardinality(S) \in Nat
  BY FS_Subset, FS_CardinalityType
<1> QED BY <1>1, <1>2

-----------------------------------------------------------------------------
(* The sums as a table *)

Chosen(s) == CHOOSE x \in s : TRUE

\* The recursive definition of a sum: a table of the sums of all subsets.
TableRow(G, f, s) == IF s = {} THEN 0 ELSE f[Chosen(s)] + G[s \ {Chosen(s)}]

IsTable(G, f, S) == G = [s \in SUBSET S |-> TableRow(G, f, s)]

\* The element that is taken out first is one of the set.
LEMMA OneIsIn == \A s : s # {} => Chosen(s) \in s
  BY DEF Chosen

\* There is such a table.
LEMMA TableExists ==
    ASSUME NEW S, IsFiniteSet(S), NEW f, \A x \in S : f[x] \in Int
    PROVE  \E G \in [SUBSET S -> Int] : IsTable(G, f, S)
<1> DEFINE Upto(n) == \E G \in [SUBSET S -> Int] :
                          \A s \in SUBSET S : Cardinality(s) <= n => G[s] = TableRow(G, f, s)
<1>1. \A s \in SUBSET S : IsFiniteSet(s) /\ Cardinality(s) \in Nat /\ Cardinality(s) <= Cardinality(S)
  BY FS_Subset, FS_CardinalityType
<1>2. Upto(0)
  <2>1. [s \in SUBSET S |-> 0] \in [SUBSET S -> Int]
    OBVIOUS
  <2>2. \A s \in SUBSET S : Cardinality(s) <= 0 => s = {}
    BY <1>1, FS_EmptySet
  <2> QED BY <2>1, <2>2 DEF TableRow
<1>3. ASSUME NEW n \in Nat, Upto(n) PROVE Upto(n + 1)
  <2>1. PICK G \in [SUBSET S -> Int] : \A s \in SUBSET S : Cardinality(s) <= n => G[s] = TableRow(G, f, s)
    BY <1>3
  <2> DEFINE H == [s \in SUBSET S |-> TableRow(G, f, s)]
  <2>2. \A s \in SUBSET S : s # {} => Chosen(s) \in s /\ s \ {Chosen(s)} \in SUBSET S
    BY OneIsIn
  <2>3. H \in [SUBSET S -> Int]
    BY <2>2 DEF TableRow
  <2>4. ASSUME NEW s \in SUBSET S, Cardinality(s) <= n + 1 PROVE H[s] = TableRow(H, f, s)
    <3>1. CASE s = {}
      BY <3>1 DEF TableRow
    <3>2. CASE s # {}
      <4> DEFINE t == s \ {Chosen(s)}
      <4>1. t \in SUBSET S /\ Cardinality(t) = Cardinality(s) - 1
        BY <1>1, <2>2, <3>2, FS_RemoveElement
      <4>2. Cardinality(t) <= n
        BY <1>1, <2>4, <4>1
      <4>3. H[t] = G[t]
        BY <2>1, <4>1, <4>2
      <4> QED BY <3>2, <4>3 DEF TableRow
    <3> QED BY <3>1, <3>2
  <2> QED BY <2>3, <2>4
<1>4. Upto(Cardinality(S))
  <2> DEFINE Good == {n \in Nat : Upto(n)}
  <2> HIDE DEF Upto
  <2>1. Nat \subseteq Good
    <3>1. 0 \in Good
      BY <1>2
    <3>2. \A n \in Nat : n \in Good => n + 1 \in Good
      BY <1>3
    <3> HIDE DEF Good
    <3> QED BY <3>1, <3>2, InductionOnNat
  <2> QED BY <2>1, FS_CardinalityType
<1> QED BY <1>1, <1>4 DEF IsTable

\* A set has the same sum in every table it is in.
LEMMA TableUnique ==
    ASSUME NEW S, IsFiniteSet(S), NEW f, NEW T, NEW G, NEW H,
           IsTable(G, f, S), IsTable(H, f, T), NEW U \in SUBSET S, U \in SUBSET T
    PROVE  G[U] = H[U]
<1> DEFINE Good == {s \in SUBSET S : s \in SUBSET T => G[s] = H[s]}
<1>1. ASSUME NEW s \in SUBSET S, \A x \in s : s \ {x} \in Good PROVE s \in Good
  <2> SUFFICES ASSUME s \in SUBSET T PROVE G[s] = H[s]
    OBVIOUS
  <2>1. G[s] = TableRow(G, f, s) /\ H[s] = TableRow(H, f, s)
    BY DEF IsTable
  <2>2. CASE s = {}
    BY <2>1, <2>2 DEF TableRow
  <2>3. CASE s # {}
    <3>1. Chosen(s) \in s
      BY <2>3, OneIsIn
    <3>2. G[s \ {Chosen(s)}] = H[s \ {Chosen(s)}]
      BY <1>1, <3>1
    <3> QED BY <2>1, <2>3, <3>2 DEF TableRow
  <2> QED BY <2>2, <2>3
<1> HIDE DEF Good
<1>2. SUBSET S \subseteq Good
  BY <1>1, InductionOnSets
<1> QED BY <1>2 DEF Good

\* The sum is the one in the table.
LEMMA SumIsInTable ==
    ASSUME NEW S, IsFiniteSet(S), NEW f, \A x \in S : f[x] \in Int
    PROVE  \E G \in [SUBSET S -> Int] : IsTable(G, f, S) /\ SumFunctionOnSet(f, S) = G[S]
<1> DEFINE G == CHOOSE H : H = [s \in SUBSET S |-> IF s = {} THEN 0
                                 ELSE f[CHOOSE x \in s : TRUE] + H[s \ {CHOOSE x \in s : TRUE}]]
<1>1. SumFunctionOnSet(f, S) = G[S]
  BY DEF SumFunctionOnSet, FoldFunctionOnSet, MapThenFoldSet
<1>2. \E H : H = [s \in SUBSET S |-> IF s = {} THEN 0
                                 ELSE f[CHOOSE x \in s : TRUE] + H[s \ {CHOOSE x \in s : TRUE}]]
  <2>1. PICK H : IsTable(H, f, S)
    BY TableExists
  <2>2. H = [s \in SUBSET S |-> IF s = {} THEN 0
                              ELSE f[CHOOSE x \in s : TRUE] + H[s \ {CHOOSE x \in s : TRUE}]]
    BY <2>1 DEF IsTable, TableRow, Chosen
  <2> QED BY <2>2
<1>3. G = [s \in SUBSET S |-> IF s = {} THEN 0
                                 ELSE f[CHOOSE x \in s : TRUE] + G[s \ {CHOOSE x \in s : TRUE}]]
  BY <1>2
<1>4. IsTable(G, f, S)
  BY <1>3 DEF IsTable, TableRow, Chosen
<1> HIDE DEF G
<1>5. PICK H \in [SUBSET S -> Int] : IsTable(H, f, S)
  BY TableExists
<1>6. G = H
  <2>1. \A U \in SUBSET S : G[U] = H[U]
    BY <1>4, <1>5, TableUnique
  <2> QED BY <1>4, <1>5, <2>1 DEF IsTable
<1> QED BY <1>1, <1>4, <1>5, <1>6

-----------------------------------------------------------------------------
(* Laws of sums *)

\* A sum of integers is an integer.
LEMMA SumIsInt ==
    ASSUME NEW S, IsFiniteSet(S), NEW f, \A x \in S : f[x] \in Int
    PROVE  SumFunctionOnSet(f, S) \in Int
<1>1. PICK G \in [SUBSET S -> Int] : IsTable(G, f, S) /\ SumFunctionOnSet(f, S) = G[S]
  BY SumIsInTable
<1> QED BY <1>1

\* The sum of nothing is 0.
LEMMA SumOfNothing == ASSUME NEW f PROVE SumFunctionOnSet(f, {}) = 0
<1>1. PICK G \in [SUBSET {} -> Int] : IsTable(G, f, {}) /\ SumFunctionOnSet(f, {}) = G[{}]
  BY FS_EmptySet, SumIsInTable
<1> QED BY <1>1 DEF IsTable, TableRow

\* The equation of the recursive definition.
LEMMA SumEquation ==
    ASSUME NEW S, IsFiniteSet(S), S # {}, NEW f, \A x \in S : f[x] \in Int
    PROVE  SumFunctionOnSet(f, S) = f[Chosen(S)] + SumFunctionOnSet(f, S \ {Chosen(S)})
<1> DEFINE T == S \ {Chosen(S)}
<1>1. Chosen(S) \in S /\ T \in SUBSET S /\ IsFiniteSet(T)
  BY OneIsIn, FS_Subset
<1>2. PICK G \in [SUBSET S -> Int] : IsTable(G, f, S) /\ SumFunctionOnSet(f, S) = G[S]
  BY SumIsInTable
<1>3. PICK H \in [SUBSET T -> Int] : IsTable(H, f, T) /\ SumFunctionOnSet(f, T) = H[T]
  BY <1>1, SumIsInTable
<1>4. G[T] = H[T]
  BY <1>1, <1>2, <1>3, TableUnique
<1>5. G[S] = f[Chosen(S)] + G[T]
  BY <1>2 DEF IsTable, TableRow
<1> QED BY <1>2, <1>3, <1>4, <1>5

\* Any element can be taken out, not only the one that the definition chooses.
LEMMA SumRemove ==
    ASSUME NEW S, IsFiniteSet(S), NEW f, \A x \in S : f[x] \in Int, NEW a \in S
    PROVE  SumFunctionOnSet(f, S) = f[a] + SumFunctionOnSet(f, S \ {a})
<1> DEFINE Sum(U) == SumFunctionOnSet(f, U)
           Good == {U \in SUBSET S : \A x \in U : Sum(U) = f[x] + Sum(U \ {x})}
<1>1. \A U \in SUBSET S : IsFiniteSet(U) /\ Sum(U) \in Int
                          /\ (U # {} => Chosen(U) \in U /\ Sum(U) = f[Chosen(U)] + Sum(U \ {Chosen(U)}))
  BY FS_Subset, SumIsInt, SumEquation, OneIsIn
<1> HIDE DEF Sum
<1>2. ASSUME NEW U \in SUBSET S, \A x \in U : U \ {x} \in Good, NEW x \in U
      PROVE  Sum(U) = f[x] + Sum(U \ {x})
  <2> DEFINE o == Chosen(U)
  <2>1. o \in U /\ Sum(U) = f[o] + Sum(U \ {o})
    BY <1>1
  <2> HIDE DEF o
  <2>2. CASE x = o
    BY <2>1, <2>2
  <2>3. CASE x # o
    <3>1. Sum(U \ {o}) = f[x] + Sum((U \ {o}) \ {x})
      BY <1>2, <2>1, <2>3
    <3>2. Sum(U \ {x}) = f[o] + Sum((U \ {x}) \ {o})
      BY <1>2, <2>1, <2>3
    <3>3. (U \ {o}) \ {x} = (U \ {x}) \ {o}
      OBVIOUS
    <3>4. PICK r \in Int : r = Sum((U \ {x}) \ {o})
      BY <1>1
    <3>5. PICK m \in Int, n \in Int : m = f[x] /\ n = f[o]
      BY <2>1
    <3>6. Sum(U) = n + (m + r)
      BY <2>1, <3>1, <3>3, <3>4, <3>5
    <3>7. Sum(U \ {x}) = n + r
      BY <3>2, <3>4, <3>5
    <3> QED BY <3>5, <3>6, <3>7
  <2> QED BY <2>2, <2>3
<1>3. \A U \in SUBSET S : (\A x \in U : U \ {x} \in Good) => U \in Good
  BY <1>2
<1>4. SUBSET S \subseteq Good
  <2> HIDE DEF Good
  <2> QED BY <1>3, InductionOnSets
<1> QED BY <1>4 DEF Sum

\* One more element adds its value.
LEMMA SumAdd ==
    ASSUME NEW S, IsFiniteSet(S), NEW f, NEW a, a \notin S, \A x \in S \cup {a} : f[x] \in Int
    PROVE  SumFunctionOnSet(f, S \cup {a}) = f[a] + SumFunctionOnSet(f, S)
<1>1. IsFiniteSet(S \cup {a}) /\ (S \cup {a}) \ {a} = S
  BY FS_AddElement
<1> QED BY <1>1, SumRemove

\* Only the values at the elements matter.
LEMMA SumEqual ==
    ASSUME NEW S, IsFiniteSet(S), NEW f, NEW g, \A x \in S : f[x] \in Int /\ g[x] = f[x]
    PROVE  SumFunctionOnSet(f, S) = SumFunctionOnSet(g, S)
<1>1. PICK G \in [SUBSET S -> Int] : IsTable(G, f, S) /\ SumFunctionOnSet(f, S) = G[S]
  BY SumIsInTable
<1>2. PICK H \in [SUBSET S -> Int] : IsTable(H, g, S) /\ SumFunctionOnSet(g, S) = H[S]
  BY SumIsInTable
<1>3. \A s \in SUBSET S : TableRow(H, g, s) = TableRow(H, f, s)
  BY OneIsIn DEF TableRow
<1>4. IsTable(H, f, S)
  BY <1>2, <1>3 DEF IsTable
<1>5. G[S] = H[S]
  BY <1>1, <1>4, TableUnique
<1> QED BY <1>1, <1>2, <1>5

\* Sums are ordered as their terms are.
LEMMA SumMonotone ==
    ASSUME NEW S, IsFiniteSet(S), NEW f, NEW g,
           \A x \in S : f[x] \in Int /\ g[x] \in Int /\ f[x] <= g[x]
    PROVE  SumFunctionOnSet(f, S) <= SumFunctionOnSet(g, S)
<1> DEFINE Good == {U \in SUBSET S : SumFunctionOnSet(f, U) <= SumFunctionOnSet(g, U)}
<1>1. ASSUME NEW U \in SUBSET S, \A x \in U : U \ {x} \in Good PROVE U \in Good
  <2>1. CASE U = {}
    BY <2>1, SumOfNothing
  <2>2. CASE U # {}
    <3>1. PICK x \in U : TRUE
      BY <2>2
    <3> DEFINE V == U \ {x}
    <3>2. IsFiniteSet(U) /\ IsFiniteSet(V)
      BY FS_Subset
    <3>3. SumFunctionOnSet(f, V) \in Int /\ SumFunctionOnSet(g, V) \in Int
      BY <3>2, SumIsInt
    <3>4. SumFunctionOnSet(f, U) = f[x] + SumFunctionOnSet(f, V)
      BY <3>2, SumRemove
    <3>5. SumFunctionOnSet(g, U) = g[x] + SumFunctionOnSet(g, V)
      BY <3>2, SumRemove
    <3>6. SumFunctionOnSet(f, V) <= SumFunctionOnSet(g, V)
      BY <1>1
    <3> QED BY <3>3, <3>4, <3>5, <3>6
  <2> QED BY <2>1, <2>2
<1>2. SUBSET S \subseteq Good
  <2> HIDE DEF Good
  <2> QED BY <1>1, InductionOnSets
<1> QED BY <1>2

\* A sum of naturals is one.
LEMMA SumIsNat ==
    ASSUME NEW S, IsFiniteSet(S), NEW f, \A x \in S : f[x] \in Nat
    PROVE  SumFunctionOnSet(f, S) \in Nat
<1> DEFINE Good == {U \in SUBSET S : SumFunctionOnSet(f, U) \in Nat}
<1>1. ASSUME NEW U \in SUBSET S, \A x \in U : U \ {x} \in Good
      PROVE  U \in Good
  <2>1. CASE U = {}
    BY <2>1, SumOfNothing
  <2>2. CASE U # {}
    <3>1. PICK x \in U : TRUE
      BY <2>2
    <3>2. IsFiniteSet(U) /\ \A y \in U : f[y] \in Int
      BY FS_Subset
    <3>3. SumFunctionOnSet(f, U) = f[x] + SumFunctionOnSet(f, U \ {x})
      BY <3>2, SumRemove
    <3>4. SumFunctionOnSet(f, U \ {x}) \in Nat /\ f[x] \in Nat
      BY <1>1
    <3> QED BY <3>3, <3>4
  <2> QED BY <2>1, <2>2
<1> HIDE DEF Good
<1>2. SUBSET S \subseteq Good
  BY <1>1, InductionOnSets
<1> QED BY <1>2 DEF Good

\* So many terms of bounded size have a bounded sum.
LEMMA SumBounded ==
    ASSUME NEW S, IsFiniteSet(S), NEW c \in Nat,
           NEW f, \A x \in S : f[x] \in Int /\ -c <= f[x] /\ f[x] <= c
    PROVE  /\ -(c * Cardinality(S)) <= SumFunctionOnSet(f, S)
           /\ SumFunctionOnSet(f, S) <= c * Cardinality(S)
<1> DEFINE Good == {U \in SUBSET S : /\ -(c * Cardinality(U)) <= SumFunctionOnSet(f, U)
                                    /\ SumFunctionOnSet(f, U) <= c * Cardinality(U)}
<1>1. ASSUME NEW U \in SUBSET S, \A x \in U : U \ {x} \in Good
      PROVE  U \in Good
  <2>1. CASE U = {}
    <3>1. SumFunctionOnSet(f, U) = 0 /\ Cardinality(U) = 0
      BY <2>1, SumOfNothing, FS_EmptySet
    <3>2. c * Cardinality(U) = 0
      BY <3>1
    <3> QED BY <3>1, <3>2
  <2>2. CASE U # {}
    <3>1. PICK x \in U : TRUE
      BY <2>2
    <3>2. IsFiniteSet(U) /\ IsFiniteSet(U \ {x}) /\ \A y \in U : f[y] \in Int
      BY FS_Subset
    <3>3. SumFunctionOnSet(f, U) = f[x] + SumFunctionOnSet(f, U \ {x}) /\ SumFunctionOnSet(f, U \ {x}) \in Int
      BY <3>2, SumRemove, SumIsInt
    <3>4. PICK k \in Nat : Cardinality(U \ {x}) = k /\ Cardinality(U) = k + 1
      <4>1. Cardinality(U \ {x}) = Cardinality(U) - 1
        BY <3>2, FS_RemoveElement
      <4>2. Cardinality(U) \in Nat /\ Cardinality(U \ {x}) \in Nat
        BY <3>2, FS_CardinalityType
      <4> QED BY <4>1, <4>2
    <3>5. PICK ck \in Int : ck = c * k /\ c * (k + 1) = ck + c
      <4>1. \A a, b \in Nat : a * b \in Int /\ a * (b + 1) = a * b + a
        OBVIOUS
      <4> QED BY <4>1
    <3>6. -ck <= SumFunctionOnSet(f, U \ {x}) /\ SumFunctionOnSet(f, U \ {x}) <= ck
      BY <1>1, <3>4, <3>5
    <3>7. f[x] \in Int /\ -c <= f[x] /\ f[x] <= c
      OBVIOUS
    <3>8. -(ck + c) <= SumFunctionOnSet(f, U) /\ SumFunctionOnSet(f, U) <= ck + c
      BY <3>3, <3>6, <3>7
    <3> QED BY <3>4, <3>5, <3>8
  <2> QED BY <2>1, <2>2
<1> HIDE DEF Good
<1>2. SUBSET S \subseteq Good
  BY <1>1, InductionOnSets
<1> QED BY <1>2 DEF Good

\* The sum over two sets without common elements.
LEMMA SumUnion ==
    ASSUME NEW S, IsFiniteSet(S), NEW T, IsFiniteSet(T), S \cap T = {},
           NEW f, \A x \in S \cup T : f[x] \in Int
    PROVE  SumFunctionOnSet(f, S \cup T) = SumFunctionOnSet(f, S) + SumFunctionOnSet(f, T)
<1> DEFINE Good == {U \in SUBSET S : SumFunctionOnSet(f, U \cup T)
                                       = SumFunctionOnSet(f, U) + SumFunctionOnSet(f, T)}
<1>1. SumFunctionOnSet(f, T) \in Int
  BY SumIsInt
<1>2. ASSUME NEW U \in SUBSET S, \A x \in U : U \ {x} \in Good PROVE U \in Good
  <2>1. CASE U = {}
    <3>1. U \cup T = T
      BY <2>1
    <3> QED BY <1>1, <2>1, <3>1, SumOfNothing
  <2>2. CASE U # {}
    <3>1. PICK x \in U : TRUE
      BY <2>2
    <3> DEFINE V == U \ {x}
    <3>2. IsFiniteSet(U) /\ IsFiniteSet(V) /\ IsFiniteSet(V \cup T)
      BY FS_Subset, FS_Union
    <3>3. SumFunctionOnSet(f, V) \in Int
      BY <3>2, SumIsInt
    <3>4. SumFunctionOnSet(f, U) = f[x] + SumFunctionOnSet(f, V)
      BY <3>2, SumRemove
    <3>5. SumFunctionOnSet(f, U \cup T) = f[x] + SumFunctionOnSet(f, V \cup T)
      <4>1. U \cup T = (V \cup T) \cup {x} /\ x \notin V \cup T
        OBVIOUS
      <4> QED BY <3>2, <4>1, SumAdd
    <3>6. SumFunctionOnSet(f, V \cup T) = SumFunctionOnSet(f, V) + SumFunctionOnSet(f, T)
      BY <1>2
    <3> QED BY <1>1, <3>3, <3>4, <3>5, <3>6
  <2> QED BY <2>1, <2>2
<1>3. SUBSET S \subseteq Good
  <2> HIDE DEF Good
  <2> QED BY <1>2, InductionOnSets
<1> QED BY <1>3

\* The sum of sums.
LEMMA SumPlus ==
    ASSUME NEW S, IsFiniteSet(S), NEW f, NEW g, NEW h,
           \A x \in S : f[x] \in Int /\ g[x] \in Int /\ h[x] = f[x] + g[x]
    PROVE  SumFunctionOnSet(h, S) = SumFunctionOnSet(f, S) + SumFunctionOnSet(g, S)
<1> DEFINE Good == {U \in SUBSET S : SumFunctionOnSet(h, U)
                                       = SumFunctionOnSet(f, U) + SumFunctionOnSet(g, U)}
<1>1. ASSUME NEW U \in SUBSET S, \A x \in U : U \ {x} \in Good PROVE U \in Good
  <2>1. CASE U = {}
    BY <2>1, SumOfNothing
  <2>2. CASE U # {}
    <3>1. PICK x \in U : TRUE
      BY <2>2
    <3> DEFINE V == U \ {x}
    <3>2. IsFiniteSet(U) /\ IsFiniteSet(V)
      BY FS_Subset
    <3>3. SumFunctionOnSet(f, V) \in Int /\ SumFunctionOnSet(g, V) \in Int
      BY <3>2, SumIsInt
    <3>4. SumFunctionOnSet(f, U) = f[x] + SumFunctionOnSet(f, V)
      BY <3>2, SumRemove
    <3>5. SumFunctionOnSet(g, U) = g[x] + SumFunctionOnSet(g, V)
      BY <3>2, SumRemove
    <3>6. SumFunctionOnSet(h, U) = h[x] + SumFunctionOnSet(h, V)
      BY <3>2, SumRemove
    <3>7. SumFunctionOnSet(h, V) = SumFunctionOnSet(f, V) + SumFunctionOnSet(g, V)
      BY <1>1
    <3> QED BY <3>3, <3>4, <3>5, <3>6, <3>7
  <2> QED BY <2>1, <2>2
<1>2. SUBSET S \subseteq Good
  <2> HIDE DEF Good
  <2> QED BY <1>1, InductionOnSets
<1> QED BY <1>2

\* The sum of products with one factor.
LEMMA SumTimes ==
    ASSUME NEW S, IsFiniteSet(S), NEW c \in Int, NEW f, NEW h,
           \A x \in S : f[x] \in Int /\ h[x] = c * f[x]
    PROVE  SumFunctionOnSet(h, S) = c * SumFunctionOnSet(f, S)
<1> DEFINE Good == {U \in SUBSET S : SumFunctionOnSet(h, U) = c * SumFunctionOnSet(f, U)}
<1>0. \A x, y \in Int : c * (x + y) = c * x + c * y /\ c * x \in Int
  OBVIOUS
<1>1. ASSUME NEW U \in SUBSET S, \A x \in U : U \ {x} \in Good PROVE U \in Good
  <2>1. CASE U = {}
    BY <2>1, SumOfNothing
  <2>2. CASE U # {}
    <3>1. PICK x \in U : TRUE
      BY <2>2
    <3> DEFINE V == U \ {x}
    <3>2. IsFiniteSet(U) /\ IsFiniteSet(V)
      BY FS_Subset
    <3>3. SumFunctionOnSet(f, V) \in Int
      BY <3>2, SumIsInt
    <3>4. SumFunctionOnSet(f, U) = f[x] + SumFunctionOnSet(f, V)
      BY <3>2, SumRemove
    <3>5. SumFunctionOnSet(h, U) = h[x] + SumFunctionOnSet(h, V)
      BY <1>0, <3>2, SumRemove
    <3>6. SumFunctionOnSet(h, V) = c * SumFunctionOnSet(f, V)
      BY <1>1
    <3>7. c * (f[x] + SumFunctionOnSet(f, V)) = c * f[x] + c * SumFunctionOnSet(f, V)
      BY <1>0, <3>3
    <3> QED BY <3>4, <3>5, <3>6, <3>7
  <2> QED BY <2>1, <2>2
<1>2. SUBSET S \subseteq Good
  <2> HIDE DEF Good
  <2> QED BY <1>1, InductionOnSets
<1> QED BY <1>2

\* The elements of one group.
InGroup(S, group, t) == {x \in S : group[x] = t}

\* A sum group by group.
LEMMA SumByGroup ==
    ASSUME NEW S, IsFiniteSet(S), NEW T, IsFiniteSet(T),
           NEW f, NEW group, \A x \in S : f[x] \in Int /\ group[x] \in T,
           NEW h, \A t \in T : h[t] = SumFunctionOnSet(f, InGroup(S, group, t))
    PROVE  SumFunctionOnSet(f, S) = SumFunctionOnSet(h, T)
<1> DEFINE In(U) == {x \in S : group[x] \in U}
           Of(t) == InGroup(S, group, t)
           Good  == {U \in SUBSET T : SumFunctionOnSet(h, U) = SumFunctionOnSet(f, In(U))}
<1>1. \A t \in T : IsFiniteSet(Of(t)) /\ h[t] \in Int
  <2> SUFFICES ASSUME NEW t \in T PROVE IsFiniteSet(Of(t)) /\ h[t] \in Int
    OBVIOUS
  <2>1. IsFiniteSet(Of(t)) /\ Of(t) \subseteq S
    BY FS_Subset DEF InGroup
  <2> QED BY <2>1, SumIsInt
<1>2. ASSUME NEW U \in SUBSET T, \A t \in U : U \ {t} \in Good PROVE U \in Good
  <2>1. CASE U = {}
    <3>1. In(U) = {}
      BY <2>1
    <3> QED BY <2>1, <3>1, SumOfNothing
  <2>2. CASE U # {}
    <3>1. PICK t \in U : TRUE
      BY <2>2
    <3> DEFINE V == U \ {t}
    <3>2. IsFiniteSet(U) /\ IsFiniteSet(In(V)) /\ IsFiniteSet(Of(t))
      BY <1>1, FS_Subset
    <3>3. SumFunctionOnSet(h, U) = h[t] + SumFunctionOnSet(h, V)
      BY <1>1, <3>2, SumRemove
    <3>4. SumFunctionOnSet(f, In(U)) = SumFunctionOnSet(f, Of(t)) + SumFunctionOnSet(f, In(V))
      <4>1. In(U) = Of(t) \cup In(V) /\ Of(t) \cap In(V) = {}
        BY DEF InGroup
      <4>2. \A x \in Of(t) \cup In(V) : f[x] \in Int
        BY DEF InGroup
      <4> HIDE DEF Of, In, V
      <4> QED BY <3>2, <4>1, <4>2, SumUnion
    <3>5. SumFunctionOnSet(h, V) = SumFunctionOnSet(f, In(V))
      BY <1>2
    <3> QED BY <3>3, <3>4, <3>5
  <2> QED BY <2>1, <2>2
<1>3. SUBSET T \subseteq Good
  <2> HIDE DEF Good
  <2> QED BY <1>2, InductionOnSets
<1>4. In(T) = S
  OBVIOUS
<1> QED BY <1>3, <1>4

\* The sum of one value is the value.
LEMMA SumOfOne == ASSUME NEW a, NEW f, f[a] \in Int PROVE SumFunctionOnSet(f, {a}) = f[a]
<1>1. SumFunctionOnSet(f, {} \cup {a}) = f[a] + SumFunctionOnSet(f, {})
  BY FS_EmptySet, SumAdd
<1> QED BY <1>1, SumOfNothing

\* A sum over other names of the elements.
LEMMA SumRenamed ==
    ASSUME NEW S, IsFiniteSet(S), NEW T, IsFiniteSet(T), NEW f, NEW h, NEW name,
           \A x \in S : f[x] \in Int /\ name[x] \in T /\ h[name[x]] = f[x],
           \A x, y \in S : name[x] = name[y] => x = y,
           \A t \in T : \E x \in S : name[x] = t
    PROVE  SumFunctionOnSet(f, S) = SumFunctionOnSet(h, T)
<1>1. ASSUME NEW t \in T PROVE h[t] = SumFunctionOnSet(f, InGroup(S, name, t))
  <2>1. PICK x \in S : name[x] = t
    OBVIOUS
  <2>2. InGroup(S, name, t) = {x}
    BY <2>1 DEF InGroup
  <2>3. f[x] \in Int /\ h[t] = f[x]
    BY <2>1
  <2>4. SumFunctionOnSet(f, {x}) = f[x]
    BY <2>3, SumOfOne
  <2> QED BY <2>2, <2>3, <2>4
<1>2. \A x \in S : f[x] \in Int /\ name[x] \in T
  OBVIOUS
<1> QED BY <1>1, <1>2, SumByGroup

\* The sum of the values at 1 to n, one after the other.
LEMMA SumUpto ==
    ASSUME NEW n \in Nat \ {0}, NEW f, \A j \in 1..n : f[j] \in Int
    PROVE  /\ SumFunctionOnSet(f, 1..n) = SumFunctionOnSet(f, 1..(n - 1)) + f[n]
           /\ SumFunctionOnSet(f, 1..(n - 1)) \in Int
<1>1. IsFiniteSet(1..(n - 1))
  <2>1. 1 \in Int /\ n - 1 \in Int
    OBVIOUS
  <2> QED BY <2>1, FS_Interval
<1>2. n \notin 1..(n - 1) /\ 1..n = 1..(n - 1) \cup {n}
  OBVIOUS
<1>3. \A j \in 1..(n - 1) \cup {n} : f[j] \in Int
  BY <1>2
<1>4. SumFunctionOnSet(f, 1..n) = f[n] + SumFunctionOnSet(f, 1..(n - 1))
  BY <1>1, <1>2, <1>3, SumAdd
<1>5. SumFunctionOnSet(f, 1..(n - 1)) \in Int /\ f[n] \in Int
  BY <1>1, <1>3, SumIsInt
<1> QED BY <1>4, <1>5
=============================================================================
