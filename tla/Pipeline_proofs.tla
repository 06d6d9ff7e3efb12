---------------------------- MODULE Pipeline_proofs ----------------------------
(***************************************************************************)
(* Proofs about what every bet of a strategy goes through, simulated,      *)
(* paper or live: the risk engine, for all global limits, all overrides of *)
(* a strategy and all states of an account; and the lemmas on sums and     *)
(* sets in order that the proofs about a ledger rest on.                   *)
(***************************************************************************)
EXTENDS Pipeline, Portfolio, FiniteSetTheorems, WellFoundedInduction, TLAPS

-----------------------------------------------------------------------------
\* Sums over finite sets.

\* Induction over the subsets of a finite set, for a property given as the set of those that have it.
LEMMA SetInduction ==
  ASSUME NEW S, IsFiniteSet(S), NEW Good,
         \A T \in SUBSET S : (\A U \in SUBSET T : U # T => U \in Good) => T \in Good
  PROVE  SUBSET S \subseteq Good
<1>. DEFINE Bad == {T \in SUBSET S : T \notin Good}
            R == StrictSubsetOrdering(S)
<1>1. IsWellFoundedOn(R, SUBSET S)
  BY FS_StrictSubsetOrderingWellFounded, FS_FiniteSubsetsOfFinite
<1>2. ASSUME Bad # {} PROVE FALSE
  <2>1. PICK T \in Bad : \A U \in Bad : <<U, T>> \notin R
    <3>1. Bad \subseteq SUBSET S
      OBVIOUS
    <3>. HIDE DEF Bad, R
    <3>. QED  BY <1>1, <1>2, <3>1, WFMin
  <2>2. ASSUME NEW U \in SUBSET T, U # T
        PROVE  U \in Good
    <3>1. <<U, T>> \in R
      BY <2>1, <2>2 DEF StrictSubsetOrdering
    <3>. QED  BY <2>1, <3>1
  <2>. QED  BY <2>1, <2>2
<1>. QED  BY <1>2

\* The element a sum over s takes first.
First(s) == CHOOSE x \in s : TRUE

\* g[s] is the sum of f over s, for the sets s of D.
AreSums(g, f, D) ==
  g = [s \in D |-> IF s = {} THEN 0 ELSE f[First(s)] + g[s \ {First(s)}]]

\* The sums of f over the subsets of S, where there are any.
Sums(f, S) == CHOOSE g : AreSums(g, f, SUBSET S)

\* The Sum of the community modules, which folds over the set, is one of these.
LEMMA SumIsOneOfSums ==
  ASSUME NEW f, NEW S
  PROVE  Sum(f, S) = Sums(f, S)[S]
  BY DEF Sum, Sums, AreSums, First, SumFunctionOnSet, FoldFunctionOnSet, MapThenFoldSet

\* The element taken first is one of the set.
LEMMA FirstIn ==
  ASSUME NEW s, s # {}
  PROVE  First(s) \in s
  BY DEF First

\* There are sums over a finite set: those of the sets of at most n + 1 elements follow from those
\* of the sets of at most n.
LEMMA SumsExist ==
  ASSUME NEW f, NEW S, IsFiniteSet(S)
  PROVE  AreSums(Sums(f, S), f, SUBSET S)
<1>. DEFINE Good == {T \in SUBSET S :
                       \E g : AreSums(g, f, {s \in SUBSET S : Cardinality(s) <= Cardinality(T)})}
<1>1. ASSUME NEW T \in SUBSET S, \A U \in SUBSET T : U # T => U \in Good
      PROVE  T \in Good
  <2>. DEFINE n == Cardinality(T)
              D == {s \in SUBSET S : Cardinality(s) <= n}
  <2>0. /\ IsFiniteSet(T) /\ n \in Nat
        /\ \A s \in SUBSET S : IsFiniteSet(s) /\ Cardinality(s) \in Nat
    BY FS_Subset, FS_CardinalityType
  <2>1. CASE T = {}
    <3>. DEFINE g == [s \in D |-> 0]
    <3>1. \A s \in D : s = {}
      BY <2>0, <2>1, FS_EmptySet
    <3>2. AreSums(g, f, D)
      BY <3>1 DEF AreSums
    <3>. QED  BY <3>2
  <2>2. CASE T # {}
    <3>. DEFINE U == T \ {First(T)}
                E == {s \in SUBSET S : Cardinality(s) <= Cardinality(U)}
    <3>1. U \in SUBSET T /\ U # T /\ Cardinality(U) = n - 1
      BY <2>0, <2>2, FirstIn, FS_RemoveElement
    <3>2. PICK h : AreSums(h, f, E)
      BY <1>1, <3>1
    <3>. DEFINE g == [s \in D |-> IF s = {} THEN 0 ELSE f[First(s)] + h[s \ {First(s)}]]
    <3>3. ASSUME NEW s \in D, s # {}
          PROVE  s \ {First(s)} \in D /\ s \ {First(s)} \in E
      <4>1. First(s) \in s
        BY <3>3, FirstIn
      <4>2. Cardinality(s \ {First(s)}) = Cardinality(s) - 1
        BY <4>1, <2>0, FS_RemoveElement
      <4>. QED  BY <4>2, <3>1, <2>0
    <3>4. ASSUME NEW s \in E
          PROVE  s \in D /\ h[s] = g[s]
      <4>1. s \in D
        BY <3>1, <2>0
      <4>2. h[s] = IF s = {} THEN 0 ELSE f[First(s)] + h[s \ {First(s)}]
        BY <3>2, Zenon DEF AreSums
      <4>. HIDE DEF D
      <4>. QED  BY <4>1, <4>2
    <3>5. ASSUME NEW s \in D
          PROVE  g[s] = IF s = {} THEN 0 ELSE f[First(s)] + g[s \ {First(s)}]
      <4>1. s # {} => g[s \ {First(s)}] = h[s \ {First(s)}]
        BY <3>3, <3>4, Zenon
      <4>. HIDE DEF D
      <4>. QED  BY <4>1
    <3>6. AreSums(g, f, D)
      <4>. HIDE DEF D
      <4>1. g = [s \in D |-> g[s]]
        OBVIOUS
      <4>. HIDE DEF g
      <4>. QED  BY <4>1, <3>5, Zenon DEF AreSums
    <3>. QED  BY <3>6
  <2>. QED  BY <2>1, <2>2
<1>2. SUBSET S \subseteq Good
  <2>. HIDE DEF Good
  <2>. QED  BY <1>1, SetInduction
<1>3. PICK g : AreSums(g, f, {s \in SUBSET S : Cardinality(s) <= Cardinality(S)})
  BY <1>2
<1>4. {s \in SUBSET S : Cardinality(s) <= Cardinality(S)} = SUBSET S
  BY FS_Subset
<1>5. AreSums(g, f, SUBSET S)
  BY <1>3, <1>4
<1>. QED  BY <1>5, Zenon DEF Sums

\* The sums over the subsets of S are the same whatever set they are taken within, and look at
\* the elements of S only.
LEMMA SumsAgree ==
  ASSUME NEW C, IsFiniteSet(C), NEW S \in SUBSET C, NEW f, NEW d, \A x \in S : d[x] = f[x]
  PROVE  Sums(f, C)[S] = Sums(d, S)[S]
<1>. DEFINE g == Sums(f, C)
            h == Sums(d, S)
            Good == {T \in SUBSET S : g[T] = h[T]}
<1>0. AreSums(g, f, SUBSET C) /\ AreSums(h, d, SUBSET S) /\ IsFiniteSet(S)
  BY SumsExist, FS_Subset
<1>. HIDE DEF g, h
<1>1. ASSUME NEW T \in SUBSET S, \A U \in SUBSET T : U # T => U \in Good
      PROVE  T \in Good
  <2>1. /\ g[T] = IF T = {} THEN 0 ELSE f[First(T)] + g[T \ {First(T)}]
        /\ h[T] = IF T = {} THEN 0 ELSE d[First(T)] + h[T \ {First(T)}]
    <3>1. T \in SUBSET C
      OBVIOUS
    <3>. QED  BY <1>0, <3>1, Zenon DEF AreSums
  <2>2. CASE T = {}
    BY <2>1, <2>2
  <2>3. CASE T # {}
    <3>1. First(T) \in T
      BY <2>3, FirstIn
    <3>2. T \ {First(T)} \in Good
      BY <1>1, <3>1
    <3>3. g[T \ {First(T)}] = h[T \ {First(T)}] /\ f[First(T)] = d[First(T)]
      BY <3>1, <3>2
    <3>4. g[T] = h[T]
      BY <2>1, <2>3, <3>3, Zenon
    <3>. QED  BY <3>4
  <2>. QED  BY <2>2, <2>3
<1>2. SUBSET S \subseteq Good
  <2>. HIDE DEF Good
  <2>. QED  BY <1>0, <1>1, SetInduction
<1>. QED  BY <1>2 DEF g, h

\* A sum looks at the set's elements only.
LEMMA SumAgrees ==
  ASSUME NEW S, IsFiniteSet(S), NEW f, NEW g, \A x \in S : f[x] = g[x]
  PROVE  Sum(f, S) = Sum(g, S)
<1>1. Sums(g, S)[S] = Sums(f, S)[S]
  BY SumsAgree
<1>. QED  BY <1>1, SumIsOneOfSums

\* Nothing adds up to zero.
LEMMA SumOfNone ==
  ASSUME NEW f
  PROVE  Sum(f, {}) = 0
<1>1. AreSums(Sums(f, {}), f, SUBSET {})
  BY SumsExist, FS_EmptySet
<1>2. Sums(f, {})[{}] = 0
  BY <1>1 DEF AreSums
<1>. QED  BY <1>2, SumIsOneOfSums

\* A sum is its first summand and the sum of the others.
LEMMA SumFromFirst ==
  ASSUME NEW S, IsFiniteSet(S), NEW f, S # {}
  PROVE  Sum(f, S) = f[First(S)] + Sum(f, S \ {First(S)})
<1>. DEFINE T == S \ {First(S)}
<1>1. IsFiniteSet(T) /\ T \in SUBSET S
  BY FS_RemoveElement
<1>2. AreSums(Sums(f, S), f, SUBSET S) /\ AreSums(Sums(f, T), f, SUBSET T)
  BY <1>1, SumsExist
<1>3. Sums(f, S)[T] = Sums(f, T)[T]
  <2>. HIDE DEF T
  <2>. QED  BY <1>1, SumsAgree
<1>4. Sums(f, S)[S] = f[First(S)] + Sums(f, S)[T]
  <2>1. S \in SUBSET S
    OBVIOUS
  <2>. QED  BY <1>2, <2>1, Zenon DEF AreSums
<1>. QED  BY <1>3, <1>4, SumIsOneOfSums

\* Integers add up to an integer.
LEMMA SumIsInt ==
  ASSUME NEW S, IsFiniteSet(S), NEW f, \A x \in S : f[x] \in Int
  PROVE  Sum(f, S) \in Int
<1>. DEFINE Good == {T \in SUBSET S : Sum(f, T) \in Int}
<1>1. ASSUME NEW T \in SUBSET S, \A U \in SUBSET T : U # T => U \in Good
      PROVE  T \in Good
  <2>1. CASE T = {}
    BY <2>1, SumOfNone
  <2>2. CASE T # {}
    <3>1. First(T) \in T /\ IsFiniteSet(T)
      BY <2>2, FirstIn, FS_Subset
    <3>2. Sum(f, T) = f[First(T)] + Sum(f, T \ {First(T)})
      BY <3>1, <2>2, SumFromFirst
    <3>3. T \ {First(T)} \in Good
      BY <1>1, <3>1
    <3>. QED  BY <3>1, <3>2, <3>3
  <2>. QED  BY <2>1, <2>2
<1>2. SUBSET S \subseteq Good
  <2>. HIDE DEF Good
  <2>. QED  BY <1>1, SetInduction
<1>. QED  BY <1>2

\* The order of the summands does not matter: any element may be taken first.
LEMMA SumWithout ==
  ASSUME NEW S, IsFiniteSet(S), NEW f, \A x \in S : f[x] \in Int
  PROVE  \A x \in S : Sum(f, S) = f[x] + Sum(f, S \ {x})
<1>. DEFINE Good == {T \in SUBSET S : \A x \in T : Sum(f, T) = f[x] + Sum(f, T \ {x})}
<1>1. ASSUME NEW T \in SUBSET S, \A U \in SUBSET T : U # T => U \in Good
      PROVE  T \in Good
  <2>. SUFFICES ASSUME NEW x \in T
                PROVE  Sum(f, T) = f[x] + Sum(f, T \ {x})
    OBVIOUS
  <2>. DEFINE y == First(T)
              both == (T \ {x}) \ {y}
  <2>1. y \in T /\ IsFiniteSet(T)
    BY FirstIn, FS_Subset
  <2>2. Sum(f, T) = f[y] + Sum(f, T \ {y})
    BY <2>1, SumFromFirst
  <2>3. CASE y = x
    BY <2>2, <2>3
  <2>4. CASE y # x
    <3>1. T \ {x} \in Good /\ T \ {y} \in Good
      BY <1>1, <2>1
    <3>2. (T \ {y}) \ {x} = both
      OBVIOUS
    <3>3. Sum(f, T \ {x}) = f[y] + Sum(f, both) /\ Sum(f, T \ {y}) = f[x] + Sum(f, both)
      BY <3>1, <3>2, <2>1, <2>4
    <3>4. f[x] \in Int /\ f[y] \in Int /\ Sum(f, both) \in Int
      <4>1. IsFiniteSet(both) /\ \A z \in both : f[z] \in Int
        BY <2>1, FS_RemoveElement
      <4>2. Sum(f, both) \in Int
        <5>. HIDE DEF both
        <5>. QED  BY <4>1, SumIsInt
      <4>. QED  BY <4>2, <2>1
    <3>. HIDE DEF y, both
    <3>. QED  BY <2>2, <3>3, <3>4
  <2>. QED  BY <2>3, <2>4
<1>2. SUBSET S \subseteq Good
  <2>. HIDE DEF Good
  <2>. QED  BY <1>1, SetInduction
<1>. QED  BY <1>2

\* A part of nonnegative summands adds up to no more than all of them.
LEMMA SumOfPart ==
  ASSUME NEW S, IsFiniteSet(S), NEW f, \A x \in S : f[x] \in Nat
  PROVE  \A T \in SUBSET S : Sum(f, T) \in Nat /\ Sum(f, T) <= Sum(f, S)
<1>. DEFINE Good == {U \in SUBSET S : /\ Sum(f, U) \in Nat
                                      /\ \A T \in SUBSET U : Sum(f, T) <= Sum(f, U)}
<1>1. ASSUME NEW U \in SUBSET S, \A V \in SUBSET U : V # U => V \in Good
      PROVE  U \in Good
  <2>0. IsFiniteSet(U) /\ \A x \in U : f[x] \in Int
    BY FS_Subset
  <2>1. ASSUME NEW x \in U
        PROVE  /\ Sum(f, U) = f[x] + Sum(f, U \ {x})
               /\ Sum(f, U \ {x}) \in Nat /\ f[x] \in Nat
               /\ \A T \in SUBSET (U \ {x}) : Sum(f, T) <= Sum(f, U \ {x})
    <3>1. Sum(f, U) = f[x] + Sum(f, U \ {x})
      BY <2>0, SumWithout
    <3>2. U \ {x} \in Good
      BY <1>1
    <3>. QED  BY <3>1, <3>2
  <2>2. Sum(f, U) \in Nat
    <3>1. CASE U = {}
      BY <3>1, SumOfNone
    <3>2. ASSUME NEW x \in U PROVE Sum(f, U) \in Nat
      <4>1. Sum(f, U) = f[x] + Sum(f, U \ {x})
        BY <2>1
      <4>2. Sum(f, U \ {x}) \in Nat
        BY <2>1
      <4>3. f[x] \in Nat
        BY <2>1
      <4>. QED  BY <4>1, <4>2, <4>3
    <3>. QED  BY <3>1, <3>2
  <2>3. ASSUME NEW T \in SUBSET U
        PROVE  Sum(f, T) <= Sum(f, U)
    <3>1. CASE T = U
      BY <3>1, <2>2
    <3>2. CASE T # U
      <4>1. PICK x \in U : x \notin T
        BY <3>2
      <4>2. T \in SUBSET (U \ {x})
        BY <4>1
      <4>3. Sum(f, T) <= Sum(f, U \ {x})
        BY <2>1, <4>2
      <4>4. Sum(f, T) \in Int
        <5>1. T \in Good
          BY <1>1, <3>2
        <5>2. Sum(f, T) \in Nat
          BY <5>1
        <5>. QED  BY <5>2
      <4>5. /\ Sum(f, U) = f[x] + Sum(f, U \ {x})
            /\ Sum(f, U \ {x}) \in Nat /\ f[x] \in Nat
        BY <2>1
      <4>. QED  BY <4>3, <4>4, <4>5
    <3>. QED  BY <3>1, <3>2
  <2>. QED  BY <2>2, <2>3
<1>2. SUBSET S \subseteq Good
  <2>. HIDE DEF Good
  <2>. QED  BY <1>1, SetInduction
<1>. QED  BY <1>2

\* What two sets without a common element add up to.
LEMMA SumOfUnion ==
  ASSUME NEW S, IsFiniteSet(S), NEW T, IsFiniteSet(T), S \cap T = {},
         NEW f, \A x \in S \cup T : f[x] \in Int
  PROVE  Sum(f, S \cup T) = Sum(f, S) + Sum(f, T)
<1>. DEFINE Good == {U \in SUBSET T : Sum(f, S \cup U) = Sum(f, S) + Sum(f, U)}
<1>1. ASSUME NEW U \in SUBSET T, \A V \in SUBSET U : V # U => V \in Good
      PROVE  U \in Good
  <2>1. CASE U = {}
    <3>1. Sum(f, S) \in Int /\ Sum(f, U) = 0 /\ S \cup U = S
      BY <2>1, SumIsInt, SumOfNone
    <3>2. Sum(f, S \cup U) = Sum(f, S) + Sum(f, U)
      <4>. DEFINE a == Sum(f, S)
      <4>1. a \in Int /\ Sum(f, S \cup U) = a
        BY <3>1
      <4>. HIDE DEF a
      <4>2. Sum(f, S \cup U) = a + 0
        BY <4>1
      <4>. QED  BY <4>2, <3>1, Zenon DEF a
    <3>. QED  BY <3>2
  <2>2. CASE U # {}
    <3>1. PICK x \in U : TRUE
      BY <2>2
    <3>2. IsFiniteSet(U)
      BY FS_Subset
    <3>3. IsFiniteSet(S \cup U)
      BY <3>2, FS_Union
    <3>4. Sum(f, S \cup U) = f[x] + Sum(f, (S \cup U) \ {x})
      BY <3>3, SumWithout
    <3>5. Sum(f, U) = f[x] + Sum(f, U \ {x})
      BY <3>2, SumWithout
    <3>6. (S \cup U) \ {x} = S \cup (U \ {x})
      OBVIOUS
    <3>7. Sum(f, S \cup (U \ {x})) = Sum(f, S) + Sum(f, U \ {x})
      <4>1. U \ {x} \in Good
        BY <1>1
      <4>. QED  BY <4>1
    <3>8. Sum(f, S) \in Int /\ Sum(f, U \ {x}) \in Int /\ f[x] \in Int
      <4>1. IsFiniteSet(U \ {x})
        BY <3>2, FS_Subset
      <4>. QED  BY <4>1, SumIsInt
    <3>9. Sum(f, S \cup U) = Sum(f, S) + Sum(f, U)
      <4>. DEFINE a == Sum(f, S)
                  b == Sum(f, U \ {x})
                  both == Sum(f, S \cup U)
                  own == Sum(f, U)
      <4>1. both = f[x] + (a + b) /\ own = f[x] + b /\ a \in Int /\ b \in Int /\ f[x] \in Int
        BY <3>4, <3>5, <3>6, <3>7, <3>8, Zenon
      <4>. HIDE DEF a, b, both, own
      <4>2. both = a + own
        BY <4>1
      <4>. QED  BY <4>2 DEF a, both, own
    <3>. QED  BY <3>9
  <2>. QED  BY <2>1, <2>2
<1>. HIDE DEF Good
<1>2. SUBSET T \subseteq Good
  BY <1>1, SetInduction
<1>3. T \in Good
  BY <1>2
<1>. QED  BY <1>3 DEF Good

\* Greater summands add up to more.
LEMMA SumGrows ==
  ASSUME NEW S, IsFiniteSet(S), NEW f, NEW g, \A x \in S : f[x] \in Int /\ g[x] \in Int /\ f[x] <= g[x]
  PROVE  Sum(f, S) \in Int /\ Sum(g, S) \in Int /\ Sum(f, S) <= Sum(g, S)
<1>. DEFINE Good == {T \in SUBSET S : Sum(f, T) <= Sum(g, T)}
<1>1. ASSUME NEW T \in SUBSET S, \A U \in SUBSET T : U # T => U \in Good
      PROVE  T \in Good
  <2>1. CASE T = {}
    BY <2>1, SumOfNone
  <2>2. CASE T # {}
    <3>1. PICK x \in T : TRUE
      BY <2>2
    <3>2. IsFiniteSet(T) /\ IsFiniteSet(T \ {x})
      BY FS_Subset
    <3>3. Sum(f, T) = f[x] + Sum(f, T \ {x}) /\ Sum(g, T) = g[x] + Sum(g, T \ {x})
      BY <3>2, SumWithout
    <3>4. Sum(f, T \ {x}) <= Sum(g, T \ {x})
      <4>1. T \ {x} \in Good
        BY <1>1
      <4>. QED  BY <4>1
    <3>5. f[x] \in Int /\ g[x] \in Int /\ f[x] <= g[x] /\ Sum(f, T \ {x}) \in Int /\ Sum(g, T \ {x}) \in Int
      BY <3>2, SumIsInt
    <3>6. Sum(f, T) <= Sum(g, T)
      BY <3>3, <3>4, <3>5
    <3>. QED  BY <3>6
  <2>. QED  BY <2>1, <2>2
<1>. HIDE DEF Good
<1>2. SUBSET S \subseteq Good
  BY <1>1, SetInduction
<1>3. S \in Good
  BY <1>2
<1>. QED  BY <1>3, SumIsInt DEF Good

\* Sums of sums, with a constant c in every summand.
LEMMA SumOfParts ==
  ASSUME NEW S, IsFiniteSet(S), NEW f, NEW g, NEW h, NEW c \in Nat,
         \A x \in S : f[x] \in Int /\ g[x] \in Int /\ h[x] = f[x] + g[x] + c
  PROVE  Sum(h, S) = Sum(f, S) + Sum(g, S) + Cardinality(S) * c
<1>. DEFINE Good == {T \in SUBSET S : Sum(h, T) = Sum(f, T) + Sum(g, T) + Cardinality(T) * c}
<1>0. \A x \in S : h[x] \in Int
  OBVIOUS
<1>1. ASSUME NEW T \in SUBSET S, \A U \in SUBSET T : U # T => U \in Good
      PROVE  T \in Good
  <2>0. IsFiniteSet(T)
    BY FS_Subset
  <2>1. CASE T = {}
    <3>1. Sum(h, T) = 0 /\ Sum(f, T) = 0 /\ Sum(g, T) = 0 /\ Cardinality(T) = 0
      BY <2>1, SumOfNone, FS_EmptySet
    <3>. QED  BY <3>1
  <2>2. CASE T # {}
    <3>1. PICK x \in T : TRUE
      BY <2>2
    <3>. DEFINE rest == T \ {x}
                n == Cardinality(T)
    <3>2. Sum(h, T) = h[x] + Sum(h, rest) /\ Sum(f, T) = f[x] + Sum(f, rest) /\ Sum(g, T) = g[x] + Sum(g, rest)
      BY <1>0, <2>0, SumWithout
    <3>3. n \in Nat /\ Cardinality(rest) = n - 1 /\ IsFiniteSet(rest)
      BY <2>0, FS_RemoveElement, FS_CardinalityType
    <3>4. Sum(h, rest) \in Int /\ Sum(f, rest) \in Int /\ Sum(g, rest) \in Int
      BY <1>0, <3>3, SumIsInt
    <3>5. Sum(h, rest) = Sum(f, rest) + Sum(g, rest) + (n - 1) * c
      <4>1. rest \in Good
        BY <1>1
      <4>. HIDE DEF rest, n
      <4>. QED  BY <4>1, <3>3
    <3>6. (n - 1) * c + c = n * c /\ (n - 1) * c \in Int
      <4>. HIDE DEF n
      <4>. QED  BY <3>3
    <3>. DEFINE a == (n - 1) * c
                b == n * c
    <3>7. a + c = b /\ a \in Int /\ Sum(h, rest) = Sum(f, rest) + Sum(g, rest) + a
      BY <3>5, <3>6
    <3>. HIDE DEF a, b, rest
    <3>8. h[x] = f[x] + g[x] + c /\ f[x] \in Int /\ g[x] \in Int
      OBVIOUS
    <3>9. Sum(h, T) = Sum(f, T) + Sum(g, T) + b
      BY <3>2, <3>4, <3>7, <3>8
    <3>. QED  BY <3>9 DEF b
  <2>. QED  BY <2>1, <2>2
<1>2. SUBSET S \subseteq Good
  <2>. HIDE DEF Good
  <2>. QED  BY <1>1, SetInduction
<1>. QED  BY <1>2

\* Naturals add up to one.
LEMMA SumIsNat ==
  ASSUME NEW S, IsFiniteSet(S), NEW f, \A x \in S : f[x] \in Nat
  PROVE  Sum(f, S) \in Nat
<1>. DEFINE Good == {T \in SUBSET S : Sum(f, T) \in Nat}
<1>1. ASSUME NEW T \in SUBSET S, \A U \in SUBSET T : U # T => U \in Good
      PROVE  T \in Good
  <2>1. CASE T = {}
    BY <2>1, SumOfNone
  <2>2. CASE T # {}
    <3>1. PICK x \in T : TRUE
      BY <2>2
    <3>2. IsFiniteSet(T) /\ \A y \in T : f[y] \in Int
      BY FS_Subset
    <3>3. Sum(f, T) = f[x] + Sum(f, T \ {x})
      BY <3>2, SumWithout
    <3>4. T \ {x} \in Good
      BY <1>1
    <3>. QED  BY <3>3, <3>4
  <2>. QED  BY <2>1, <2>2
<1>2. SUBSET S \subseteq Good
  <2>. HIDE DEF Good
  <2>. QED  BY <1>1, SetInduction
<1>. QED  BY <1>2

\* Summands of at most k each add up to at most k times their number.
LEMMA SumIsBounded ==
  ASSUME NEW S, IsFiniteSet(S), NEW f, NEW k \in Nat, \A x \in S : f[x] \in 0 .. k
  PROVE  Sum(f, S) <= Cardinality(S) * k
<1>. DEFINE Good == {T \in SUBSET S : Sum(f, T) <= Cardinality(T) * k}
<1>1. ASSUME NEW T \in SUBSET S, \A U \in SUBSET T : U # T => U \in Good
      PROVE  T \in Good
  <2>0. IsFiniteSet(T) /\ \A x \in T : f[x] \in Int
    BY FS_Subset
  <2>1. CASE T = {}
    BY <2>1, SumOfNone, FS_EmptySet
  <2>2. CASE T # {}
    <3>1. PICK x \in T : TRUE
      BY <2>2
    <3>2. Sum(f, T) = f[x] + Sum(f, T \ {x}) /\ T \ {x} \in Good
      BY <1>1, <2>0, SumWithout
    <3>. DEFINE n == Cardinality(T)
    <3>3. n \in Nat /\ Cardinality(T \ {x}) = n - 1 /\ Sum(f, T \ {x}) \in Int
      <4>1. IsFiniteSet(T \ {x}) /\ Cardinality(T \ {x}) = n - 1
        BY <2>0, FS_RemoveElement
      <4>2. Sum(f, T \ {x}) \in Int
        BY <4>1, <2>0, SumIsInt
      <4>. QED  BY <4>1, <4>2, <2>0, FS_CardinalityType
    <3>4. Sum(f, T \ {x}) <= (n - 1) * k
      BY <3>2, <3>3
    <3>5. f[x] \in 0 .. k
      OBVIOUS
    <3>. HIDE DEF n
    <3>6. (n - 1) * k + k = n * k /\ n * k \in Int /\ (n - 1) * k \in Int
      BY <3>3
    <3>7. Sum(f, T) <= n * k
      <4>. DEFINE a == (n - 1) * k
                  b == n * k
      <4>1. Sum(f, T \ {x}) <= a /\ a + k = b /\ a \in Int /\ b \in Int
        BY <3>4, <3>6
      <4>. HIDE DEF a, b
      <4>2. Sum(f, T) <= b
        BY <3>2, <3>3, <3>5, <4>1
      <4>. QED  BY <4>2 DEF b
    <3>. QED  BY <3>7 DEF n
  <2>. QED  BY <2>1, <2>2
<1>2. SUBSET S \subseteq Good
  <2>. HIDE DEF Good
  <2>. QED  BY <1>1, SetInduction
<1>. QED  BY <1>2

\* Part of the summands, some of them smaller.
LEMMA SumAtMost ==
  ASSUME NEW S, IsFiniteSet(S), NEW f, \A x \in S : f[x] \in Nat,
         NEW T, IsFiniteSet(T), NEW g,
         \A x \in T : g[x] \in Nat /\ (g[x] = 0 \/ (x \in S /\ g[x] <= f[x]))
  PROVE  Sum(g, T) \in Nat /\ Sum(f, S) \in Nat /\ Sum(g, T) <= Sum(f, S)
<1>. DEFINE Good == {U \in SUBSET T : Sum(g, U) <= Sum(f, U \cap S)}
<1>1. /\ \A U \in SUBSET T : IsFiniteSet(U) /\ Sum(g, U) \in Nat
      /\ \A U \in SUBSET S : Sum(f, U) \in Nat /\ Sum(f, U) <= Sum(f, S)
  BY FS_Subset, SumOfPart
<1>2. ASSUME NEW U \in SUBSET T, \A V \in SUBSET U : V # U => V \in Good
      PROVE  U \in Good
  <2>1. CASE U = {}
    <3>1. U \cap S = {}
      BY <2>1
    <3>2. Sum(g, U) = 0 /\ Sum(f, U \cap S) = 0
      BY <2>1, <3>1, SumOfNone
    <3>. QED  BY <3>2
  <2>2. CASE U # {}
    <3>1. PICK x \in U : TRUE
      BY <2>2
    <3>. DEFINE V == U \ {x}
    <3>2. V \in Good
      BY <1>2
    <3>3. Sum(g, U) = g[x] + Sum(g, V)
      BY <1>1, SumWithout
    <3>4. Sum(g, V) <= Sum(f, V \cap S)
      BY <3>2
    <3>5. Sum(g, V) \in Nat /\ Sum(f, V \cap S) \in Nat /\ Sum(f, U \cap S) \in Nat
      <4>1. V \in SUBSET T /\ V \cap S \in SUBSET S /\ U \cap S \in SUBSET S
        OBVIOUS
      <4>. QED  BY <4>1, <1>1
    <3>6. CASE x \in S
      <4>1. (U \cap S) \ {x} = V \cap S /\ x \in U \cap S /\ IsFiniteSet(U \cap S)
        BY <3>6, FS_Subset
      <4>2. \A y \in U \cap S : f[y] \in Int
        OBVIOUS
      <4>3. \A y \in U \cap S : Sum(f, U \cap S) = f[y] + Sum(f, (U \cap S) \ {y})
        <5>. DEFINE W == U \cap S
        <5>. HIDE DEF W
        <5>1. IsFiniteSet(W) /\ \A y \in W : f[y] \in Int
          BY <4>1, <4>2 DEF W
        <5>2. \A y \in W : Sum(f, W) = f[y] + Sum(f, W \ {y})
          BY <5>1, SumWithout
        <5>. QED  BY <5>2 DEF W
      <4>4. Sum(f, U \cap S) = f[x] + Sum(f, V \cap S)
        BY <4>1, <4>3
      <4>5. g[x] \in Nat /\ f[x] \in Nat /\ g[x] <= f[x]
        BY <3>6
      <4>. HIDE DEF V
      <4>6. Sum(g, U) <= Sum(f, U \cap S)
        BY <3>3, <3>4, <3>5, <4>4, <4>5
      <4>. QED  BY <4>6
    <3>7. CASE x \notin S
      <4>1. V \cap S = U \cap S /\ g[x] = 0
        BY <3>7
      <4>. HIDE DEF V
      <4>2. Sum(f, V \cap S) = Sum(f, U \cap S)
        BY <4>1
      <4>3. Sum(g, U) <= Sum(f, U \cap S)
        BY <3>3, <3>4, <3>5, <4>1, <4>2
      <4>. QED  BY <4>3
    <3>. QED  BY <3>6, <3>7
  <2>. QED  BY <2>1, <2>2
<1>3. SUBSET T \subseteq Good
  <2>. HIDE DEF Good
  <2>. QED  BY <1>2, SetInduction
<1>4. Sum(g, T) <= Sum(f, T \cap S)
  BY <1>3
<1>5. T \in SUBSET T /\ S \in SUBSET S /\ T \cap S \in SUBSET S
  OBVIOUS
<1>6. Sum(g, T) \in Nat /\ Sum(f, S) \in Nat /\ Sum(f, T \cap S) \in Nat /\ Sum(f, T \cap S) <= Sum(f, S)
  BY <1>1, <1>5
<1>. QED  BY <1>4, <1>6

-----------------------------------------------------------------------------
\* Sets in order.

IsOrder(S, R) ==
  /\ \A x, y \in S : <<x, y>> \in R \/ <<y, x>> \in R
  /\ \A x, y \in S : <<x, y>> \in R /\ <<y, x>> \in R => x = y
  /\ \A x, y, z \in S : <<x, y>> \in R /\ <<y, z>> \in R => <<x, z>> \in R

\* In a total order every element has a rank of its own, from 1 to the number of elements.
LEMMA RanksAreDistinct ==
  ASSUME NEW S, IsFiniteSet(S), NEW R, IsOrder(S, R)
  PROVE  /\ Cardinality(S) \in Nat
         /\ \A x \in S : RankBy(S, R, x) \in 1 .. Cardinality(S)
         /\ \A x, y \in S : RankBy(S, R, x) <= RankBy(S, R, y) <=> <<x, y>> \in R
         /\ \A k \in 1 .. Cardinality(S) : \E x \in S : RankBy(S, R, x) = k
<1>. DEFINE n == Cardinality(S)
            Below(x) == {y \in S : <<y, x>> \in R}
            rank == [x \in S |-> RankBy(S, R, x)]
<1>1. n \in Nat /\ \A x \in S : /\ IsFiniteSet(Below(x)) /\ Cardinality(Below(x)) \in Nat
                               /\ Cardinality(Below(x)) <= n
  BY FS_Subset, FS_CardinalityType
<1>2. \A x \in S : x \in Below(x)
  BY DEF IsOrder
<1>3. \A x \in S : Cardinality(Below(x)) # 0
  BY <1>1, <1>2, FS_EmptySet
<1>4. ASSUME NEW x \in S, NEW y \in S, <<x, y>> \in R, x # y
      PROVE  Cardinality(Below(x)) < Cardinality(Below(y))
  <2>1. Below(x) \in SUBSET Below(y)
    BY <1>4 DEF IsOrder
  <2>2. y \in Below(y) /\ y \notin Below(x)
    BY <1>4 DEF IsOrder
  <2>. HIDE DEF Below
  <2>. QED  BY <2>1, <2>2, <1>1, FS_Subset
<1>5. \A x \in S : Below(x) = {y \in S : <<y, x>> \in R}
  OBVIOUS
<1>6. \A x \in S : RankBy(S, R, x) = Cardinality(Below(x))
  BY DEF RankBy
<1>7. \A x \in S : RankBy(S, R, x) \in 1 .. n
  <2>. HIDE DEF Below
  <2>. QED  BY <1>1, <1>3, <1>6
<1>8. ASSUME NEW x \in S, NEW y \in S
      PROVE  RankBy(S, R, x) <= RankBy(S, R, y) <=> <<x, y>> \in R
  <2>1. <<x, y>> \in R \/ <<y, x>> \in R
    BY DEF IsOrder
  <2>2. RankBy(S, R, x) \in Int /\ RankBy(S, R, y) \in Int
    BY <1>7
  <2>3. <<x, y>> \in R /\ x # y => RankBy(S, R, x) < RankBy(S, R, y)
    BY <1>4, <1>6
  <2>4. <<y, x>> \in R /\ x # y => RankBy(S, R, y) < RankBy(S, R, x)
    BY <1>4, <1>6
  <2>. QED  BY <2>1, <2>2, <2>3, <2>4
<1>9. rank \in Injection(S, 1 .. n)
  <2>1. rank \in [S -> 1 .. n]
    BY <1>7
  <2>2. ASSUME NEW x \in S, NEW y \in S, rank[x] = rank[y]
        PROVE  x = y
    <3>1. RankBy(S, R, x) = RankBy(S, R, y) /\ RankBy(S, R, x) \in Int
      BY <2>2, <1>7
    <3>2. <<x, y>> \in R /\ <<y, x>> \in R
      BY <3>1, <1>8
    <3>. QED  BY <3>2 DEF IsOrder
  <2>. HIDE DEF rank
  <2>. QED  BY <2>1, <2>2 DEF Injection, IsInjective
<1>10. IsFiniteSet(1 .. n) /\ Cardinality(1 .. n) = n
  BY <1>1, FS_Interval
<1>11. rank \in Surjection(S, 1 .. n)
  <2>. HIDE DEF rank
  <2>. QED  BY <1>9, <1>10, FS_Injection
<1>12. \A k \in 1 .. n : \E x \in S : rank[x] = k
  <2>. HIDE DEF rank
  <2>. QED  BY <1>11 DEF Surjection
<1>. QED  BY <1>1, <1>7, <1>8, <1>12

\* What Ascending makes of a set: all its elements, each once, in ascending order.
LEMMA AscendingSorts ==
  ASSUME NEW S \in SUBSET Int, IsFiniteSet(S)
  PROVE  LET a == Ascending(S) n == Cardinality(S) IN
         /\ n \in Nat /\ a \in [1 .. n -> S] /\ a \in Seq(S) /\ Len(a) = n /\ DOMAIN a = 1 .. n
         /\ \A x \in S : \E k \in 1 .. n : a[k] = x
         /\ \A j, k \in 1 .. n : j < k <=> a[j] < a[k]
<1>. DEFINE a == Ascending(S)
            n == Cardinality(S)
            R == {p \in S \X S : p[1] <= p[2]}
<1>1. IsOrder(S, R)
  BY DEF IsOrder
<1>2. \A x \in S : Rank(S, x) = RankBy(S, R, x)
  <2>1. ASSUME NEW x \in S PROVE {y \in S : y <= x} = {y \in S : <<y, x>> \in R}
    OBVIOUS
  <2>. QED  BY <2>1 DEF Rank, RankBy
<1>3. \A x, y \in S : <<x, y>> \in R <=> x <= y
  OBVIOUS
<1>. HIDE DEF R
<1>4. /\ n \in Nat
      /\ \A x \in S : Rank(S, x) \in 1 .. n
      /\ \A x, y \in S : Rank(S, x) <= Rank(S, y) <=> x <= y
      /\ \A k \in 1 .. n : \E x \in S : Rank(S, x) = k
  <2>1. /\ Cardinality(S) \in Nat
        /\ \A x \in S : RankBy(S, R, x) \in 1 .. Cardinality(S)
        /\ \A x, y \in S : RankBy(S, R, x) <= RankBy(S, R, y) <=> <<x, y>> \in R
        /\ \A k \in 1 .. Cardinality(S) : \E x \in S : RankBy(S, R, x) = k
    BY <1>1, RanksAreDistinct, Zenon
  <2>2. ASSUME NEW x \in S, NEW y \in S
        PROVE  Rank(S, x) <= Rank(S, y) <=> x <= y
    <3>1. Rank(S, x) = RankBy(S, R, x) /\ Rank(S, y) = RankBy(S, R, y)
      BY <1>2
    <3>2. RankBy(S, R, x) <= RankBy(S, R, y) <=> <<x, y>> \in R
      BY <2>1
    <3>. QED  BY <3>1, <3>2, <1>3, Zenon
  <2>3. \A k \in 1 .. n : \E x \in S : Rank(S, x) = k
    BY <2>1, <1>2, Zenon
  <2>4. \A x \in S : Rank(S, x) \in 1 .. n
    BY <2>1, <1>2, Zenon
  <2>. QED  BY <2>1, <2>2, <2>3, <2>4, Zenon
<1>5. DOMAIN a = 1 .. n /\ a = [k \in 1 .. n |-> a[k]]
  BY DEF Ascending
<1>6. ASSUME NEW k \in 1 .. n
      PROVE  a[k] \in S /\ Rank(S, a[k]) = k
  <2>1. a[k] = CHOOSE x \in S : Rank(S, x) = k
    BY DEF Ascending
  <2>. HIDE DEF a
  <2>. QED  BY <1>4, <2>1
<1>. HIDE DEF a
<1>7. a \in [1 .. n -> S]
  BY <1>5, <1>6
<1>8. a \in Seq(S) /\ Len(a) = n
  BY <1>4, <1>7
<1>9. ASSUME NEW x \in S PROVE \E k \in 1 .. n : a[k] = x
  <2>1. Rank(S, x) \in 1 .. n
    BY <1>4
  <2>2. a[Rank(S, x)] \in S /\ Rank(S, a[Rank(S, x)]) = Rank(S, x)
    BY <1>6, <2>1
  <2>. DEFINE y == a[Rank(S, x)]
  <2>. HIDE DEF y
  <2>3. y \in S /\ Rank(S, y) = Rank(S, x) /\ Rank(S, x) \in Int
    BY <2>1, <2>2 DEF y
  <2>4. y <= x /\ x <= y
    <3>1. \A r \in Int : r <= r
      OBVIOUS
    <3>2. Rank(S, y) <= Rank(S, x) /\ Rank(S, x) <= Rank(S, y)
      BY <2>3, <3>1, Zenon
    <3>3. \A u, v \in S : Rank(S, u) <= Rank(S, v) => u <= v
      BY <1>4, Zenon
    <3>. QED  BY <2>3, <3>2, <3>3, Zenon
  <2>5. x \in Int /\ y \in Int
    BY <2>3
  <2>6. y = x
    BY <2>4, <2>5
  <2>. QED  BY <2>1, <2>6 DEF y
<1>10. ASSUME NEW j \in 1 .. n, NEW k \in 1 .. n
       PROVE  j < k <=> a[j] < a[k]
  <2>1. a[j] \in S /\ a[k] \in S /\ Rank(S, a[j]) = j /\ Rank(S, a[k]) = k
    BY <1>6
  <2>. DEFINE x == a[j] y == a[k]
  <2>. HIDE DEF x, y
  <2>2. x \in S /\ y \in S /\ Rank(S, x) = j /\ Rank(S, y) = k
    BY <2>1 DEF x, y
  <2>3. Rank(S, y) <= Rank(S, x) <=> y <= x
    BY <1>4, <2>2
  <2>4. j < k <=> x < y
    BY <2>2, <2>3
  <2>. QED  BY <2>4 DEF x, y
<1>. QED  BY <1>4, <1>5, <1>7, <1>8, <1>9, <1>10 DEF a, n

\* The elements at some indices depend on nothing but the elements there.
LEMMA AtAgrees ==
  ASSUME NEW I \in SUBSET Int, IsFiniteSet(I), NEW s, NEW t, \A n \in I : s[n] = t[n]
  PROVE  Picked(s, I) = Picked(t, I)
<1>. DEFINE order == Ascending(I)
<1>1. \A k \in DOMAIN order : order[k] \in I
  BY AscendingSorts
<1>2. \A k \in DOMAIN order : s[order[k]] = t[order[k]]
  BY <1>1
<1>. HIDE DEF order
<1>. QED  BY <1>2 DEF Picked, order

\* They are as many as the indices, and each is at one of them.
LEMMA AtTyped ==
  ASSUME NEW I \in SUBSET Int, IsFiniteSet(I), NEW s
  PROVE  /\ Cardinality(I) \in Nat /\ DOMAIN Picked(s, I) = 1 .. Cardinality(I)
         /\ \A k \in 1 .. Cardinality(I) : \E n \in I : Picked(s, I)[k] = s[n]
<1>. DEFINE order == Ascending(I)
<1>1. Cardinality(I) \in Nat /\ DOMAIN order = 1 .. Cardinality(I) /\ \A k \in DOMAIN order : order[k] \in I
  BY AscendingSorts
<1>. HIDE DEF order
<1>. QED  BY <1>1 DEF Picked, order

-----------------------------------------------------------------------------
\* The risk engine.

\* What a strategy may set of them.
IsOverrides(o) ==
  /\ {o.maxStake, o.escalationStake, o.escalationStreak, o.bankrollFraction, o.maxDailyLoss,
      o.maxConsecutiveLosses, o.cooldownRounds, o.maxExposure, o.minBalance, o.minConfidence,
      o.minSeconds, o.maxGasPrice, o.stopLoss} \subseteq Optional
  /\ o.minEdge \in Int \cup {Null}

\* An account and a round a bet is asked in.
IsRequest(i) ==
  /\ {i.minBet, i.confidence} \subseteq Nat
  /\ i.stake \in Int /\ i.edge \in Int \cup {Null}
  /\ {i.state.gasReserve, i.state.lossStreak} \subseteq Nat
  /\ {i.state.bankroll, i.state.exposure, i.state.secondsToLock, i.state.available,
      i.state.dailyNetPnl, i.state.strategyNetPnl} \subseteq Int
  /\ i.state.roundsSinceLastLoss \in Int \cup {Null}
  /\ i.state.gasPrice \in Optional

-----------------------------------------------------------------------------
\* The ways two values of a limit are merged.

LEMMA MinNullableTightens ==
  ASSUME NEW a \in Optional, NEW b \in Optional
  PROVE  /\ minNullable(a, b) \in Optional
         /\ a # Null => minNullable(a, b) \in Nat /\ minNullable(a, b) <= a
  BY NullAssumption DEF minNullable, Least2, Optional

LEMMA MinPositiveTightens ==
  ASSUME NEW a \in Nat, NEW b \in Optional
  PROVE  /\ minPositive(a, b) \in Nat
         /\ a > 0 => minPositive(a, b) > 0 /\ minPositive(a, b) <= a
  BY NullAssumption DEF minPositive, Least2, Optional

LEMMA MaxNullableTightens ==
  ASSUME NEW a \in Int \cup {Null}, NEW b \in Int \cup {Null}
  PROVE  /\ maxNullable(a, b) \in Int \cup {Null}
         /\ a # Null => maxNullable(a, b) \in Int /\ a <= maxNullable(a, b)
         /\ a \in Nat /\ b \in Optional => maxNullable(a, b) \in Nat
  BY NullAssumption DEF maxNullable, Most2, Optional

\* A part of an amount is an amount.
LEMMA FractionTyped ==
  ASSUME NEW w \in Int, NEW f \in Nat
  PROVE  mulWeiByFraction(w, f) \in Int
<1>. DEFINE p == w * f
<1>1. p \in Int
  OBVIOUS
<1>. HIDE DEF p
<1>2. p \div FractionScale \in Int
  BY <1>1, ScaleAssumption
<1>. QED  BY <1>2 DEF p, mulWeiByFraction

\* No part of a debt is positive.
LEMMA FractionOfDebt ==
  ASSUME NEW w \in Int, NEW f \in Nat, w < 0
  PROVE  mulWeiByFraction(w, f) <= 0
<1>. DEFINE p == w * f
<1>1. p \in Int /\ p <= 0
  OBVIOUS
<1>. HIDE DEF p
<1>2. p \div FractionScale <= 0
  BY <1>1, ScaleAssumption
<1>. QED  BY <1>2 DEF p, mulWeiByFraction

\* A smaller fraction of a bankroll is a smaller part of it.
LEMMA FractionMonotone ==
  ASSUME NEW w \in Nat, NEW f \in Nat, NEW h \in Nat, f <= h
  PROVE  mulWeiByFraction(w, f) <= mulWeiByFraction(w, h)
<1>. DEFINE a == w * f
            b == w * h
<1>1. a \in Nat /\ b \in Nat /\ a <= b
  OBVIOUS
<1>2. ASSUME NEW x \in Nat, NEW y \in Nat, x <= y
      PROVE  x \div FractionScale <= y \div FractionScale
  BY <1>2, ScaleAssumption
<1>. HIDE DEF a, b
<1>3. a \div FractionScale <= b \div FractionScale
  BY <1>1, <1>2
<1>. QED  BY <1>3 DEF a, b, mulWeiByFraction

-----------------------------------------------------------------------------
\* The merged limits.

LEMMA MergeTightens ==
  ASSUME NEW g, NEW o, IsLimits(g), IsOverrides(o)
  PROVE  LET m == mergeLimits(g, o) IN
         /\ IsLimits(m)
         /\ m.maxStake <= g.maxStake /\ m.minStake = g.minStake
         /\ m.bankrollFraction <= g.bankrollFraction /\ m.maxExposure <= g.maxExposure
         /\ g.escalationStake > 0 => m.escalationStake > 0 /\ m.escalationStake <= g.escalationStake
         /\ g.escalationStreak <= m.escalationStreak
         /\ g.maxDailyLoss > 0 => m.maxDailyLoss > 0 /\ m.maxDailyLoss <= g.maxDailyLoss
         /\ g.maxConsecutiveLosses > 0 =>
              m.maxConsecutiveLosses > 0 /\ m.maxConsecutiveLosses <= g.maxConsecutiveLosses
         /\ g.cooldownRounds <= m.cooldownRounds /\ g.minBalance <= m.minBalance
         /\ g.minConfidence <= m.minConfidence /\ g.minSeconds <= m.minSeconds
         /\ g.maxGasPrice # Null => m.maxGasPrice # Null /\ m.maxGasPrice <= g.maxGasPrice
         /\ g.stopLoss # Null => m.stopLoss # Null /\ m.stopLoss <= g.stopLoss
         /\ g.minEdge # Null => m.minEdge # Null /\ g.minEdge <= m.minEdge
         /\ g.liveNeedsEdge => m.liveNeedsEdge
<1>. DEFINE m == mergeLimits(g, o)
<1>0. Nat \subseteq Optional /\ Optional \subseteq Int \cup {Null}
  BY DEF Optional
<1>1. /\ m.maxStake \in Nat /\ m.maxStake <= g.maxStake
      /\ m.bankrollFraction \in Nat /\ m.bankrollFraction <= g.bankrollFraction
      /\ m.maxExposure \in Nat /\ m.maxExposure <= g.maxExposure
  <2>1. g.maxStake # Null /\ g.bankrollFraction # Null /\ g.maxExposure # Null
    BY NullAssumption DEF IsLimits
  <2>. QED  BY <2>1, <1>0, MinNullableTightens DEF mergeLimits, IsLimits, IsOverrides
<1>2. /\ m.escalationStake \in Nat /\ m.maxDailyLoss \in Nat /\ m.maxConsecutiveLosses \in Nat
      /\ g.escalationStake > 0 => m.escalationStake > 0 /\ m.escalationStake <= g.escalationStake
      /\ g.maxDailyLoss > 0 => m.maxDailyLoss > 0 /\ m.maxDailyLoss <= g.maxDailyLoss
      /\ g.maxConsecutiveLosses > 0 =>
           m.maxConsecutiveLosses > 0 /\ m.maxConsecutiveLosses <= g.maxConsecutiveLosses
  <2>1. g.escalationStake \in Nat /\ g.maxDailyLoss \in Nat /\ g.maxConsecutiveLosses \in Nat
    BY DEF IsLimits
  <2>2. o.escalationStake \in Optional /\ o.maxDailyLoss \in Optional /\ o.maxConsecutiveLosses \in Optional
    BY DEF IsOverrides
  <2>3. /\ m.escalationStake = minPositive(g.escalationStake, o.escalationStake)
        /\ m.maxDailyLoss = minPositive(g.maxDailyLoss, o.maxDailyLoss)
        /\ m.maxConsecutiveLosses = minPositive(g.maxConsecutiveLosses, o.maxConsecutiveLosses)
    BY DEF mergeLimits
  <2>. HIDE DEF m
  <2>. QED  BY <2>1, <2>2, <2>3, MinPositiveTightens
<1>3. /\ m.escalationStreak \in Nat /\ g.escalationStreak <= m.escalationStreak
      /\ m.cooldownRounds \in Nat /\ g.cooldownRounds <= m.cooldownRounds
      /\ m.minBalance \in Nat /\ g.minBalance <= m.minBalance
      /\ m.minConfidence \in Nat /\ g.minConfidence <= m.minConfidence
      /\ m.minSeconds \in Nat /\ g.minSeconds <= m.minSeconds
  <2>1. ASSUME NEW a \in Nat, NEW b \in Optional
        PROVE  maxNullable(a, b) \in Nat /\ a <= maxNullable(a, b)
    <3>1. a \in Int \cup {Null} /\ b \in Int \cup {Null} /\ a # Null
      BY <2>1, <1>0, NullAssumption
    <3>. QED  BY <2>1, <3>1, MaxNullableTightens
  <2>. QED  BY <2>1 DEF mergeLimits, IsLimits, IsOverrides
<1>4. /\ m.maxGasPrice \in Optional /\ m.stopLoss \in Optional
      /\ g.maxGasPrice # Null => m.maxGasPrice # Null /\ m.maxGasPrice <= g.maxGasPrice
      /\ g.stopLoss # Null => m.stopLoss # Null /\ m.stopLoss <= g.stopLoss
  BY MinNullableTightens, NullAssumption DEF mergeLimits, IsLimits, IsOverrides
<1>5. /\ m.minEdge \in Int \cup {Null}
      /\ g.minEdge # Null => m.minEdge # Null /\ g.minEdge <= m.minEdge
  BY MaxNullableTightens, NullAssumption DEF mergeLimits, IsLimits, IsOverrides
<1>6. m.minStake = g.minStake /\ m.liveNeedsEdge \in BOOLEAN /\ (g.liveNeedsEdge => m.liveNeedsEdge)
  BY DEF mergeLimits, IsLimits
<1>. HIDE DEF m
<1>7. IsLimits(m)
  BY <1>1, <1>2, <1>3, <1>4, <1>5, <1>6 DEF IsLimits
<1>. QED  BY <1>1, <1>2, <1>3, <1>4, <1>5, <1>6, <1>7 DEF m

-----------------------------------------------------------------------------
\* Of a bet.

\* The stake of a decision is an integer under every cap it is cut to.
LEMMA StakeIsCapped ==
  ASSUME NEW l, NEW i, IsLimits(l), IsRequest(i)
  PROVE  LET stake == Stake(l, i.state, i.stake) IN
         /\ stake \in Int
         /\ stake <= l.maxStake /\ stake <= fractionCap(l, i.state)
         /\ EscalationLocked(l, i.state) => stake <= l.escalationStake
<1>. DEFINE cap == fractionCap(l, i.state)
            gated == Gated(l, i.state, i.stake)
<1>1. cap \in Int
  BY FractionTyped DEF fractionCap, IsLimits, IsRequest
<1>2. gated \in Int /\ (EscalationLocked(l, i.state) => gated <= l.escalationStake)
  BY DEF Gated, Floored, Most2, Least2, IsLimits, IsRequest
<1>. HIDE DEF cap, gated
<1>3. l.maxStake \in Nat /\ l.escalationStake \in Nat
  BY DEF IsLimits
<1>4. Stake(l, i.state, i.stake) = Least2(Least2(gated, l.maxStake), cap)
  BY DEF Stake, gated, cap
<1>. QED  BY <1>1, <1>2, <1>3, <1>4 DEF Least2, cap

\* A rule that passes under tighter limits passes under the global ones.
LEMMA RulesTighten ==
  ASSUME NEW g, NEW o, NEW i, NEW stake \in Int, IsLimits(g), IsOverrides(o), IsRequest(i),
         NEW rule \in Rules, Passes(rule, mergeLimits(g, o), i, stake)
  PROVE  Passes(rule, g, i, stake)
<1>. DEFINE m == mergeLimits(g, o)
<1>. USE MergeTightens, NullAssumption DEF IsLimits, IsRequest, Optional
<1>. HIDE DEF m
<1>1. CASE rule = "ROUND_VALID"
  BY <1>1 DEF Passes, m
<1>2. CASE rule = "MIN_CONFIDENCE"
  BY <1>2 DEF Passes, m
<1>3. CASE rule = "MAX_EXPOSURE"
  BY <1>3 DEF Passes, m
<1>4. CASE rule = "MIN_WALLET_BALANCE"
  BY <1>4 DEF Passes, m
<1>5. CASE rule \in {"SINGLE_BET_PER_ROUND", "MIN_STAKE", "MIN_BET", "SUFFICIENT_BALANCE"}
  BY <1>5 DEF Passes, m
<1>6. CASE rule = "MIN_EXPECTED_EDGE"
  BY <1>6 DEF Passes, m
<1>7. CASE rule = "POSITIVE_EXPECTED_VALUE"
  BY <1>7 DEF Passes, m
<1>8. CASE rule = "MAX_DAILY_LOSS"
  BY <1>8 DEF Passes, m
<1>9. CASE rule = "STOP_LOSS"
  BY <1>9 DEF Passes, m
<1>10. CASE rule = "CONSECUTIVE_LOSSES"
  BY <1>10 DEF Passes, InCooldown, m
<1>11. CASE rule = "MAX_GAS_PRICE"
  BY <1>11 DEF Passes, m
<1>. QED  BY <1>1, <1>2, <1>3, <1>4, <1>5, <1>6, <1>7, <1>8, <1>9, <1>10, <1>11 DEF Rules

\* What is within the merged limits is within the global ones: a strategy's overrides only tighten
\* (mergeLimits).
THEOREM OverridesOnlyTighten ==
  ASSUME NEW g, NEW o, NEW i, NEW stake \in Int, IsLimits(g), IsOverrides(o), IsRequest(i),
         WithinLimits(mergeLimits(g, o), i, stake)
  PROVE  WithinLimits(g, i, stake)
<1>. DEFINE m == mergeLimits(g, o)
<1>1. \A rule \in Rules : Passes(rule, g, i, stake)
  BY RulesTighten DEF WithinLimits
<1>2. stake <= g.maxStake
  BY MergeTightens DEF WithinLimits, IsLimits
<1>3. stake <= fractionCap(g, i.state)
  <2>1. /\ i.state.bankroll \in Int /\ m.bankrollFraction \in Nat /\ g.bankrollFraction \in Nat
        /\ m.bankrollFraction <= g.bankrollFraction
    BY MergeTightens DEF IsLimits, IsRequest
  <2>2. stake > 0
    <3>1. "MIN_BET" \in Rules
      BY DEF Rules
    <3>. QED  BY <3>1 DEF WithinLimits, Passes
  <2>3. stake <= fractionCap(m, i.state)
    BY DEF WithinLimits, m
  <2>. HIDE DEF m
  <2>4. fractionCap(m, i.state) \in Int /\ fractionCap(g, i.state) \in Int
    BY <2>1, FractionTyped DEF fractionCap
  <2>5. i.state.bankroll >= 0
    BY <2>1, <2>2, <2>3, <2>4, FractionOfDebt DEF fractionCap
  <2>6. fractionCap(m, i.state) <= fractionCap(g, i.state)
    BY <2>1, <2>5, FractionMonotone DEF fractionCap
  <2>. QED  BY <2>3, <2>4, <2>6
<1>4. EscalationLocked(g, i.state) => stake <= g.escalationStake
  BY MergeTightens DEF WithinLimits, EscalationLocked, IsLimits, IsRequest
<1>. QED  BY <1>1, <1>2, <1>3, <1>4 DEF WithinLimits

\* An approved bet is within the limits it was decided under and within the global ones, whatever
\* stake was asked for (evaluateRisk).
THEOREM ApprovedIsWithinLimits ==
  ASSUME NEW g, NEW o, NEW i, IsLimits(g), IsOverrides(o), IsRequest(i),
         i.limits = mergeLimits(g, o), evaluateRisk(i).approved
  PROVE  /\ WithinLimits(i.limits, i, evaluateRisk(i).stake)
         /\ WithinLimits(g, i, evaluateRisk(i).stake)
<1>. DEFINE stake == Stake(i.limits, i.state, i.stake)
<1>1. IsLimits(i.limits)
  BY MergeTightens
<1>2. evaluateRisk(i).stake = stake /\ Approved(i.limits, i, stake)
  BY DEF evaluateRisk
<1>3. /\ stake \in Int
      /\ stake <= i.limits.maxStake /\ stake <= fractionCap(i.limits, i.state)
      /\ EscalationLocked(i.limits, i.state) => stake <= i.limits.escalationStake
  BY <1>1, StakeIsCapped
<1>. HIDE DEF stake
<1>4. WithinLimits(i.limits, i, stake)
  BY <1>2, <1>3 DEF WithinLimits, Approved
<1>5. WithinLimits(g, i, stake)
  BY <1>3, <1>4, OverridesOnlyTighten
<1>. QED  BY <1>2, <1>4, <1>5

\* The stake of a bet, whatever was asked for.
LEMMA StakeTyped ==
  ASSUME NEW l, NEW s, NEW stake \in Int,
         l.maxStake \in Nat, l.bankrollFraction \in Nat, l.minStake \in Nat, l.escalationStake \in Nat,
         s.bankroll \in Int
  PROVE  Stake(l, s, stake) \in Int /\ Stake(l, s, stake) <= l.maxStake
<1>1. fractionCap(l, s) \in Int
  BY FractionTyped DEF fractionCap
<1>2. Gated(l, s, stake) \in Int
  BY DEF Gated, Floored, Most2, Least2
<1>. QED  BY <1>1, <1>2 DEF Stake, Least2
=============================================================================
