--------------------------- MODULE Reports_proofs ---------------------------
(***************************************************************************)
(* What is reported of the measurements: LatencyReport for any clients and *)
(* samples, and FaninStudy for any numbers of senders, any number of       *)
(* trials and any results, whatever is stored while the scripts run and    *)
(* wherever they end.                                                      *)
(*                                                                         *)
(* The models take sums, products, the sorted samples and the samples of   *)
(* several files as folds over finite sets.  The first parts say what such *)
(* folds are.  The library's induction theorems have an operator for the   *)
(* induction hypothesis; here it is the set of the values it holds of,     *)
(* which the provers can instantiate.                                      *)
(***************************************************************************)
EXTENDS LatencyReport, FaninStudy, Integers, FiniteSetTheorems,
        WellFoundedInduction, TLAPS

-----------------------------------------------------------------------------
\* Sums over finite sets, and induction over them.

\* A set of naturals has a least element.
LEMMA Least ==
  ASSUME NEW S \in SUBSET Nat, S # {}
  PROVE  \E m \in S : \A x \in S : m <= x
<1> DEFINE R == OpToRel(<, Nat)
<1>1. IsWellFoundedOn(R, Nat)
  BY NatLessThanWellFounded
<1>2. \A x, y \in Nat : y < x => <<y, x>> \in R
  BY DEF OpToRel
<1> HIDE DEF R
<1>3. PICK m \in S : \A y \in S : ~(<<y, m>> \in R)
  BY <1>1, WFMin
<1>4. ASSUME NEW x \in S PROVE m <= x
  <2>1. m \in Nat /\ x \in Nat /\ ~(x < m)
    BY <1>2, <1>3
  <2> QED
    BY <2>1
<1> QED
  BY <1>4

\* A bounded one has a greatest.
LEMMA Greatest ==
  ASSUME NEW N \in Nat, NEW S \in SUBSET (0 .. N), S # {}
  PROVE  \E m \in S : \A x \in S : x <= m
<1> DEFINE T == {N - x : x \in S}
<1>1. \A x \in S : x \in Nat /\ N - x \in Nat
  OBVIOUS
<1>2. T \subseteq Nat /\ T # {}
  BY <1>1
<1>3. PICK m \in T : \A x \in T : m <= x
  <2> HIDE DEF T
  <2> QED
    BY <1>2, Least
<1>4. PICK y \in S : m = N - y
  BY <1>3
<1>5. \A x \in S : N - y <= N - x
  BY <1>3, <1>4
<1> QED
  BY <1>1, <1>5

\* Induction: a set that has 0 and with each n also n + 1 has every natural.
LEMMA SetInduction ==
  ASSUME NEW S \in SUBSET Nat, 0 \in S, \A n \in S : n + 1 \in S
  PROVE  S = Nat
<1> SUFFICES ASSUME Nat \ S # {} PROVE FALSE
  OBVIOUS
<1>1. PICK m \in Nat \ S : \A x \in Nat \ S : m <= x
  BY Least
<1>2. m # 0 /\ m - 1 \in Nat
  BY <1>1
<1>3. m - 1 \in S
  BY <1>1, <1>2
<1> QED
  BY <1>1, <1>3

\* A finite set is in every class of its subsets that has {} and is closed
\* under the addition of an element.
LEMMA FiniteInduction ==
  ASSUME NEW S, IsFiniteSet(S),
         NEW P \in SUBSET (SUBSET S), {} \in P,
         \A T \in P : \A x \in S \ T : T \cup {x} \in P
  PROVE  S \in P
<1> DEFINE N == {n \in Nat : \A T \in SUBSET S : Cardinality(T) = n => T \in P}
<1>1. \A T \in SUBSET S : IsFiniteSet(T)
  BY FS_Subset
<1>2. 0 \in N
  BY <1>1, FS_EmptySet
<1>3. ASSUME NEW n \in N PROVE n + 1 \in N
  <2> SUFFICES ASSUME NEW T \in SUBSET S, Cardinality(T) = n + 1 PROVE T \in P
    OBVIOUS
  <2>0. n \in Nat /\ IsFiniteSet(T) /\ n + 1 # 0 /\ (n + 1) - 1 = n
    BY <1>1
  <2>1. T # {}
    BY <2>0, FS_EmptySet
  <2>2. PICK x \in T : TRUE
    BY <2>1
  <2>3. Cardinality(T \ {x}) = n /\ T \ {x} \in SUBSET S
    BY <2>0, FS_RemoveElement
  <2>4. T \ {x} \in P /\ x \in S \ (T \ {x})
    BY <2>3
  <2>5. (T \ {x}) \cup {x} \in P
    BY <2>4
  <2>6. (T \ {x}) \cup {x} = T
    OBVIOUS
  <2> QED
    BY <2>5, <2>6
<1>4. N = Nat
  <2> HIDE DEF N
  <2>1. N \in SUBSET Nat
    BY DEF N
  <2> QED
    BY <1>2, <1>3, <2>1, SetInduction
<1>5. Cardinality(S) \in Nat
  BY FS_CardinalityType
<1> QED
  BY <1>4, <1>5

-----------------------------------------------------------------------------
\* The sum of the values of f on S.
Sum(f, S) == SumFunctionOnSet(f, S)

\* It is the value at S of the solution of a recursive equation over the
\* subsets of S, which takes away one chosen element after the other.
Chosen(s) == CHOOSE x \in s : TRUE
Solves(g, f, D) ==
  g = [s \in D |-> IF s = {} THEN 0 ELSE f[Chosen(s)] + g[s \ {Chosen(s)}]]

\* The sum is the value at S of the function that the fold chooses.
LEMMA SumDef ==
  ASSUME NEW f, NEW S
  PROVE  Sum(f, S) = (CHOOSE g : Solves(g, f, SUBSET S))[S]
BY DEF Sum, SumFunctionOnSet, FoldFunctionOnSet, MapThenFoldSet, Solves, Chosen

\* Taking the chosen element away leaves a smaller finite set.
LEMMA ChosenRemoved ==
  ASSUME NEW s, IsFiniteSet(s), s # {}
  PROVE  /\ Chosen(s) \in s /\ IsFiniteSet(s \ {Chosen(s)})
         /\ Cardinality(s) \in Nat \ {0}
         /\ Cardinality(s \ {Chosen(s)}) = Cardinality(s) - 1
<1>1. Chosen(s) \in s
  BY DEF Chosen
<1>2. Cardinality(s) \in Nat /\ Cardinality(s) # 0
  BY FS_CardinalityType, FS_EmptySet
<1> QED
  BY <1>1, <1>2, FS_RemoveElement

\* The equation has a solution, built up by the number of elements.
LEMMA SolutionExists ==
  ASSUME NEW f, NEW S, IsFiniteSet(S)
  PROVE  \E g : Solves(g, f, SUBSET S)
<1> DEFINE Level(n) == {s \in SUBSET S : Cardinality(s) <= n}
           N == {n \in Nat : \E g : Solves(g, f, Level(n))}
<1>1. \A s \in SUBSET S : IsFiniteSet(s) /\ Cardinality(s) \in Nat
                          /\ Cardinality(s) <= Cardinality(S)
  BY FS_Subset, FS_CardinalityType
<1>2. 0 \in N
  <2> DEFINE g == [s \in Level(0) |-> 0]
  <2>1. \A s \in Level(0) : s = {}
    BY <1>1, FS_EmptySet
  <2>2. Solves(g, f, Level(0))
    BY <2>1 DEF Solves
  <2> QED
    BY <2>2
<1>3. ASSUME NEW n \in N PROVE n + 1 \in N
  <2>1. n \in Nat /\ n + 1 \in Nat
    OBVIOUS
  <2>2. PICK g : Solves(g, f, Level(n))
    OBVIOUS
  <2> DEFINE h == [s \in Level(n + 1) |->
                     IF s = {} THEN 0 ELSE f[Chosen(s)] + g[s \ {Chosen(s)}]]
  <2>3. ASSUME NEW s \in Level(n + 1), s # {}
        PROVE  s \ {Chosen(s)} \in Level(n)
    <3>1. /\ Cardinality(s \ {Chosen(s)}) = Cardinality(s) - 1
          /\ Cardinality(s) \in Nat /\ Cardinality(s) <= n + 1
      BY <1>1, <2>3, ChosenRemoved
    <3>2. Cardinality(s \ {Chosen(s)}) <= n
      BY <2>1, <3>1
    <3> QED
      BY <3>2
  <2>4. ASSUME NEW t \in Level(n) PROVE h[t] = g[t]
    <3>1. t \in Level(n + 1)
      BY <1>1, <2>1
    <3> HIDE DEF Level
    <3>2. h[t] = IF t = {} THEN 0 ELSE f[Chosen(t)] + g[t \ {Chosen(t)}]
      BY <3>1
    <3>3. g[t] = IF t = {} THEN 0 ELSE f[Chosen(t)] + g[t \ {Chosen(t)}]
      BY <2>2 DEF Solves
    <3> QED
      BY <3>2, <3>3
  <2>5. \A s \in Level(n + 1) : s # {} => h[s \ {Chosen(s)}] = g[s \ {Chosen(s)}]
    <3> HIDE DEF Level, h
    <3> QED
      BY <2>3, <2>4
  <2>6. Solves(h, f, Level(n + 1))
    <3> HIDE DEF Level
    <3>1. h = [s \in Level(n + 1) |->
                 IF s = {} THEN 0 ELSE f[Chosen(s)] + h[s \ {Chosen(s)}]]
      BY <2>5
    <3> QED
      BY <3>1 DEF Solves
  <2> QED
    BY <2>1, <2>6
<1>4. N = Nat
  <2> HIDE DEF N
  <2>1. N \in SUBSET Nat
    BY DEF N
  <2> QED
    BY <1>2, <1>3, <2>1, SetInduction
<1>5. Cardinality(S) \in N
  BY <1>4, FS_CardinalityType
<1>6. Level(Cardinality(S)) = SUBSET S
  BY <1>1
<1> QED
  BY <1>5, <1>6

Agree(g, h, D) == \A s \in D : g[s] = h[s]

\* Two solutions agree on the sets that both are defined for.
LEMMA SolutionsAgree ==
  ASSUME NEW f, NEW S, NEW T, NEW g, NEW h, IsFiniteSet(S), T \subseteq S,
         Solves(g, f, SUBSET S), Solves(h, f, SUBSET T)
  PROVE  Agree(g, h, SUBSET T)
<1> DEFINE N == {n \in Nat : \A s \in SUBSET T : Cardinality(s) = n => g[s] = h[s]}
<1>1. \A s \in SUBSET T : s \in SUBSET S /\ IsFiniteSet(s) /\ Cardinality(s) \in Nat
  BY FS_Subset, FS_CardinalityType
<1>2. \A s \in SUBSET S :
        g[s] = IF s = {} THEN 0 ELSE f[Chosen(s)] + g[s \ {Chosen(s)}]
  BY DEF Solves
<1>3. \A s \in SUBSET T :
        h[s] = IF s = {} THEN 0 ELSE f[Chosen(s)] + h[s \ {Chosen(s)}]
  BY DEF Solves
<1>4. 0 \in N
  <2>1. \A s \in SUBSET T : Cardinality(s) = 0 => s = {}
    BY <1>1, FS_EmptySet
  <2> QED
    BY <1>1, <1>2, <1>3, <2>1
<1>5. ASSUME NEW n \in N PROVE n + 1 \in N
  <2> SUFFICES ASSUME NEW s \in SUBSET T, Cardinality(s) = n + 1 PROVE g[s] = h[s]
    OBVIOUS
  <2>1. n \in Nat /\ n + 1 # 0 /\ (n + 1) - 1 = n
    OBVIOUS
  <2>2. s # {}
    BY <2>1, FS_EmptySet
  <2>3. Cardinality(s \ {Chosen(s)}) = n
    BY <1>1, <2>1, <2>2, ChosenRemoved
  <2>4. s \ {Chosen(s)} \in SUBSET T
    OBVIOUS
  <2>5. g[s \ {Chosen(s)}] = h[s \ {Chosen(s)}]
    BY <2>3, <2>4
  <2> QED
    BY <1>1, <1>2, <1>3, <2>2, <2>5
<1>6. N = Nat
  <2> HIDE DEF N
  <2>1. N \in SUBSET Nat
    BY DEF N
  <2> QED
    BY <1>4, <1>5, <2>1, SetInduction
<1> QED
  BY <1>1, <1>6 DEF Agree

\* What the recursion says of the sum: nothing adds up to 0, and the chosen
\* element is one summand.
LEMMA SumUnfold ==
  ASSUME NEW f, NEW S, IsFiniteSet(S)
  PROVE  /\ S = {} => Sum(f, S) = 0
         /\ S # {} => Sum(f, S) = f[Chosen(S)] + Sum(f, S \ {Chosen(S)})
<1> DEFINE T == S \ {Chosen(S)}
<1>1. ASSUME NEW R, IsFiniteSet(R)
      PROVE  \E g : Solves(g, f, SUBSET R) /\ Sum(f, R) = g[R]
  <2> DEFINE g == CHOOSE x : Solves(x, f, SUBSET R)
  <2>1. Solves(g, f, SUBSET R)
    BY <1>1, SolutionExists
  <2>2. Sum(f, R) = g[R]
    BY SumDef
  <2> QED
    BY <2>1, <2>2
<1>2. T \subseteq S /\ IsFiniteSet(T)
  BY FS_Subset
<1> HIDE DEF T
<1>3. PICK g : Solves(g, f, SUBSET S) /\ Sum(f, S) = g[S]
  BY <1>1
<1>4. PICK h : Solves(h, f, SUBSET T) /\ Sum(f, T) = h[T]
  BY <1>1, <1>2
<1>5. g[T] = h[T]
  <2>1. Agree(g, h, SUBSET T)
    BY <1>2, <1>3, <1>4, SolutionsAgree
  <2> QED
    BY <2>1 DEF Agree
<1>6. \A s \in SUBSET S :
        g[s] = IF s = {} THEN 0 ELSE f[Chosen(s)] + g[s \ {Chosen(s)}]
  BY <1>3 DEF Solves
<1>7. g[S] = IF S = {} THEN 0 ELSE f[Chosen(S)] + g[T]
  BY <1>6 DEF T
<1> QED
  BY <1>3, <1>4, <1>5, <1>7 DEF T

\* A sum of naturals is one, and any element may be the summand taken out.
LEMMA SumOfNaturals ==
  ASSUME NEW f, NEW S, IsFiniteSet(S), \A x \in S : f[x] \in Nat
  PROVE  /\ Sum(f, S) \in Nat
         /\ \A x \in S : Sum(f, S) = f[x] + Sum(f, S \ {x})
<1> DEFINE Good(s) == /\ Sum(f, s) \in Nat
                      /\ \A x \in s : Sum(f, s) = f[x] + Sum(f, s \ {x})
           N == {n \in Nat : \A s \in SUBSET S : Cardinality(s) <= n => Good(s)}
<1>1. \A s \in SUBSET S : IsFiniteSet(s) /\ Cardinality(s) \in Nat
  BY FS_Subset, FS_CardinalityType
<1>2. Good({})
  <2>1. IsFiniteSet({})
    BY FS_EmptySet
  <2>2. Sum(f, {}) = 0
    BY <2>1, SumUnfold
  <2> QED
    BY <2>2
<1>3. 0 \in N
  <2>1. \A s \in SUBSET S : Cardinality(s) <= 0 => s = {}
    BY <1>1, FS_EmptySet
  <2> HIDE DEF Good
  <2> QED
    BY <1>2, <2>1
<1>4. ASSUME NEW n \in N PROVE n + 1 \in N
  <2> SUFFICES ASSUME NEW s \in SUBSET S, Cardinality(s) <= n + 1 PROVE Good(s)
    BY DEF N
  <2>1. n \in Nat /\ \A t \in SUBSET S : Cardinality(t) <= n => Good(t)
    BY DEF N
  <2>2. CASE s = {}
    BY <1>2, <2>2
  <2>3. CASE s # {}
    <3> DEFINE c == Chosen(s)
    <3>1. /\ c \in s /\ Cardinality(s \ {c}) = Cardinality(s) - 1
          /\ Cardinality(s) \in Nat
      BY <1>1, <2>3, ChosenRemoved
    <3>2. Good(s \ {c})
      <4>1. Cardinality(s \ {c}) <= n
        BY <2>1, <3>1
      <4> HIDE DEF Good, c
      <4> QED
        BY <2>1, <4>1
    <3>3. Sum(f, s) = f[c] + Sum(f, s \ {c})
      BY <1>1, <2>3, SumUnfold
    <3> HIDE DEF c
    <3>4. f[c] \in Nat /\ Sum(f, s) \in Nat
      BY <3>1, <3>2, <3>3
    <3>5. ASSUME NEW x \in s PROVE Sum(f, s) = f[x] + Sum(f, s \ {x})
      <4>1. CASE x = c
        BY <3>3, <4>1
      <4>2. CASE x # c
        <5>1. Cardinality(s \ {x}) <= n
          BY <1>1, <2>1, <3>1, FS_RemoveElement
        <5>2. Good(s \ {x})
          <6> HIDE DEF Good
          <6> QED
            BY <2>1, <5>1
        <5>3. Sum(f, s \ {x}) = f[c] + Sum(f, (s \ {x}) \ {c})
          BY <3>1, <4>2, <5>2
        <5>4. Sum(f, s \ {c}) = f[x] + Sum(f, (s \ {c}) \ {x})
          BY <3>2, <4>2
        <5>5. (s \ {x}) \ {c} = (s \ {c}) \ {x}
          OBVIOUS
        <5>6. Sum(f, (s \ {c}) \ {x}) \in Nat
          <6>1. /\ (s \ {x}) \ {c} \in SUBSET S
                /\ s \ {x} \in SUBSET S
                /\ Cardinality((s \ {x}) \ {c}) <= Cardinality(s \ {x})
            BY <1>1, FS_Subset
          <6>2. Cardinality((s \ {x}) \ {c}) <= n
            BY <1>1, <2>1, <5>1, <6>1
          <6> QED
            BY <2>1, <5>5, <6>1, <6>2
        <5>7. f[x] \in Nat
          OBVIOUS
        <5> QED
          BY <3>3, <3>4, <5>3, <5>4, <5>5, <5>6, <5>7
      <4> QED
        BY <4>1, <4>2
    <3> QED
      BY <3>4, <3>5
  <2> QED
    BY <2>2, <2>3
<1>5. N = Nat
  <2> HIDE DEF N
  <2>1. N \in SUBSET Nat
    BY DEF N
  <2> QED
    BY <1>3, <1>4, <2>1, SetInduction
<1>6. \A n \in Nat : \A s \in SUBSET S : Cardinality(s) <= n => Good(s)
  BY <1>5
<1> HIDE DEF Good
<1>7. Good(S)
  BY <1>1, <1>6
<1> QED
  BY <1>7 DEF Good

\* The empty sum.
LEMMA SumEmpty == ASSUME NEW f PROVE Sum(f, {}) = 0
<1>1. IsFiniteSet({})
  BY FS_EmptySet
<1> QED
  BY <1>1, SumUnfold

\* The sum over a set with one more element.
LEMMA SumAdd ==
  ASSUME NEW f, NEW S, IsFiniteSet(S), NEW x, x \notin S,
         \A y \in S \cup {x} : f[y] \in Nat
  PROVE  Sum(f, S \cup {x}) = f[x] + Sum(f, S)
<1>1. IsFiniteSet(S \cup {x})
  BY FS_AddElement
<1>2. (S \cup {x}) \ {x} = S
  OBVIOUS
<1>3. \A y \in S \cup {x} : Sum(f, S \cup {x}) = f[y] + Sum(f, (S \cup {x}) \ {y})
  <2> DEFINE T == S \cup {x}
  <2>1. IsFiniteSet(T) /\ \A y \in T : f[y] \in Nat
    BY <1>1
  <2> HIDE DEF T
  <2>2. \A y \in T : Sum(f, T) = f[y] + Sum(f, T \ {y})
    BY <2>1, SumOfNaturals
  <2> QED
    BY <2>2 DEF T
<1> QED
  BY <1>2, <1>3

\* A sum over a set is the sum over another that is mapped to it one to one.
LEMMA SumMapped ==
  ASSUME NEW f, NEW g, NEW h, NEW S, IsFiniteSet(S),
         \A x \in S : f[h[x]] \in Nat /\ g[x] = f[h[x]],
         \A x, y \in S : h[x] = h[y] => x = y
  PROVE  LET T == {h[x] : x \in S} IN
         /\ IsFiniteSet(T) /\ Cardinality(T) = Cardinality(S)
         /\ Sum(g, S) = Sum(f, T)
<1> DEFINE Image(T) == {h[x] : x \in T}
           P == {T \in SUBSET S : /\ IsFiniteSet(Image(T))
                                  /\ Cardinality(Image(T)) = Cardinality(T)
                                  /\ Sum(g, T) = Sum(f, Image(T))}
<1>1. {} \in P
  <2>1. Image({}) = {}
    OBVIOUS
  <2> HIDE DEF Image
  <2> QED
    BY <2>1, SumEmpty, FS_EmptySet
<1>2. ASSUME NEW T \in P, NEW x \in S \ T PROVE T \cup {x} \in P
  <2>1. IsFiniteSet(T) /\ IsFiniteSet(Image(T))
    BY FS_Subset
  <2>2. Image(T \cup {x}) = Image(T) \cup {h[x]} /\ h[x] \notin Image(T)
    OBVIOUS
  <2>3. Sum(g, T \cup {x}) = g[x] + Sum(g, T)
    <3>1. \A y \in T \cup {x} : g[y] \in Nat
      OBVIOUS
    <3> QED
      BY <2>1, <3>1, SumAdd
  <2>4. Sum(f, Image(T) \cup {h[x]}) = f[h[x]] + Sum(f, Image(T))
    <3>1. \A y \in Image(T) \cup {h[x]} : f[y] \in Nat
      OBVIOUS
    <3> HIDE DEF Image
    <3> QED
      BY <2>1, <2>2, <3>1, SumAdd
  <2>5. /\ T \cup {x} \in SUBSET S /\ g[x] = f[h[x]] /\ Sum(g, T) = Sum(f, Image(T))
        /\ Cardinality(Image(T)) = Cardinality(T)
    OBVIOUS
  <2> HIDE DEF Image
  <2>6. /\ IsFiniteSet(Image(T) \cup {h[x]})
        /\ Cardinality(Image(T) \cup {h[x]}) = Cardinality(Image(T)) + 1
        /\ Cardinality(T \cup {x}) = Cardinality(T) + 1
    BY <2>1, <2>2, FS_AddElement
  <2> QED
    BY <2>2, <2>3, <2>4, <2>5, <2>6
<1>3. S \in P
  <2> HIDE DEF P
  <2>1. P \in SUBSET (SUBSET S)
    BY DEF P
  <2> QED
    BY <1>1, <1>2, <2>1, FiniteInduction
<1> QED
  BY <1>3

\* Functions with the same values on a set have the same sum over it.
LEMMA SumSame ==
  ASSUME NEW f, NEW g, NEW S, IsFiniteSet(S),
         \A x \in S : f[x] \in Nat /\ g[x] = f[x]
  PROVE  Sum(g, S) = Sum(f, S)
<1> DEFINE P == {T \in SUBSET S : Sum(g, T) = Sum(f, T)}
<1>1. {} \in P
  BY SumEmpty
<1>2. ASSUME NEW T \in P, NEW x \in S \ T PROVE T \cup {x} \in P
  <2>1. IsFiniteSet(T) /\ \A y \in T \cup {x} : f[y] \in Nat /\ g[y] \in Nat
    BY FS_Subset
  <2>2. Sum(f, T \cup {x}) = f[x] + Sum(f, T)
    BY <2>1, SumAdd
  <2>3. Sum(g, T \cup {x}) = g[x] + Sum(g, T)
    BY <2>1, SumAdd
  <2>4. T \cup {x} \in SUBSET S /\ g[x] = f[x] /\ Sum(g, T) = Sum(f, T)
    OBVIOUS
  <2> QED
    BY <2>2, <2>3, <2>4
<1>3. S \in P
  <2> HIDE DEF P
  <2>1. P \in SUBSET (SUBSET S)
    BY DEF P
  <2> QED
    BY <1>1, <1>2, <2>1, FiniteInduction
<1> QED
  BY <1>3

\* A sum lies between the bounds of its summands times their number.
LEMMA SumBounds ==
  ASSUME NEW f, NEW S, IsFiniteSet(S), NEW lo \in Nat, NEW hi \in Nat,
         \A x \in S : f[x] \in Nat /\ lo <= f[x] /\ f[x] <= hi
  PROVE  lo * Cardinality(S) <= Sum(f, S) /\ Sum(f, S) <= hi * Cardinality(S)
<1> DEFINE Bounded(T) == /\ lo * Cardinality(T) <= Sum(f, T)
                         /\ Sum(f, T) <= hi * Cardinality(T)
           P == {T \in SUBSET S : Bounded(T)}
<1>1. {} \in P
  <2>1. Sum(f, {}) = 0 /\ Cardinality({}) = 0
    BY SumEmpty, FS_EmptySet
  <2> QED
    BY <2>1
<1>2. ASSUME NEW T \in P, NEW x \in S \ T PROVE T \cup {x} \in P
  <2>1. IsFiniteSet(T) /\ \A y \in T \cup {x} : f[y] \in Nat
    BY FS_Subset
  <2>2. Sum(f, T \cup {x}) = f[x] + Sum(f, T)
    BY <2>1, SumAdd
  <2>3. Sum(f, T) \in Nat
    BY <2>1, SumOfNaturals
  <2>4. Cardinality(T) \in Nat /\ Cardinality(T \cup {x}) = Cardinality(T) + 1
    BY <2>1, FS_CardinalityType, FS_AddElement
  <2> DEFINE n == Cardinality(T)
             s == Sum(f, T)
             v == f[x]
  <2>5. v \in Nat /\ lo <= v /\ v <= hi /\ lo * n <= s /\ s <= hi * n
    OBVIOUS
  <2>6. lo * (n + 1) <= v + s /\ v + s <= hi * (n + 1)
    <3>1. n \in Nat /\ s \in Nat
      BY <2>3, <2>4
    <3> HIDE DEF n, s, v
    <3>2. lo * (n + 1) = lo * n + lo /\ hi * (n + 1) = hi * n + hi
      BY <3>1
    <3>3. lo * n \in Nat /\ hi * n \in Nat
      BY <3>1
    <3> QED
      BY <2>5, <3>1, <3>2, <3>3
  <2> QED
    BY <2>2, <2>4, <2>6
<1>3. S \in P
  <2> HIDE DEF P
  <2>1. P \in SUBSET (SUBSET S)
    BY DEF P
  <2> QED
    BY <1>1, <1>2, <2>1, FiniteInduction
<1> QED
  BY <1>3

\* A finite set of naturals with an element has a greatest.
LEMMA FiniteGreatest ==
  ASSUME NEW S \in SUBSET Nat, IsFiniteSet(S), S # {}
  PROVE  \E m \in S : \A x \in S : x <= m
<1> DEFINE P == {T \in SUBSET S : T = {} \/ \E m \in T : \A x \in T : x <= m}
<1>1. {} \in P
  OBVIOUS
<1>2. ASSUME NEW T \in P, NEW y \in S \ T PROVE T \cup {y} \in P
  <2>1. CASE T = {}
    BY <2>1
  <2>2. CASE T # {}
    <3>1. PICK m \in T : \A x \in T : x <= m
      BY <2>2
    <3>2. m \in Nat /\ y \in Nat /\ \A x \in T : x \in Nat
      OBVIOUS
    <3>3. CASE y <= m
      BY <3>1, <3>3
    <3>4. CASE ~(y <= m)
      <4>1. \A x \in T \cup {y} : x <= y
        BY <3>1, <3>2, <3>4
      <4> QED
        BY <4>1
    <3> QED
      BY <3>3, <3>4
  <2> QED
    BY <2>1, <2>2
<1>3. S \in P
  <2> HIDE DEF P
  <2>1. P \in SUBSET (SUBSET S)
    BY DEF P
  <2> QED
    BY <1>1, <1>2, <2>1, FiniteInduction
<1> QED
  BY <1>3

-----------------------------------------------------------------------------
\* The fan-in study.
Table == [Keys -> Nat]

\* The indices of the tables that have an entry, and their values.
Having(ts, key) == {m \in DOMAIN ts : ts[m][key] # 0}
Entries(ts, key) == [m \in Having(ts, key) |-> ts[m][key]]

-----------------------------------------------------------------------------
\* The means of fanin_report.py and of make_plots.py, as sums.
LEMMA MeanIsSum ==
  ASSUME NEW f
  PROVE  Mean(f) = <<Sum(f, DOMAIN f), Cardinality(DOMAIN f)>>
BY DEF Mean, SumFunction, Sum

\* What average_trials collects for a key: the entries of the trials that have it.
LEMMA EntriesType ==
  ASSUME NEW ts \in Seq(Table), NEW key \in Keys
  PROVE  /\ IsFiniteSet(Having(ts, key)) /\ Having(ts, key) \subseteq 1 .. Len(ts)
         /\ DOMAIN Entries(ts, key) = Having(ts, key)
         /\ \A m \in Having(ts, key) :
              Entries(ts, key)[m] = ts[m][key] /\ ts[m][key] \in Nat \ {0}
<1>1. DOMAIN ts = 1 .. Len(ts) /\ Len(ts) \in Nat
  OBVIOUS
<1>2. IsFiniteSet(1 .. Len(ts))
  BY <1>1, FS_Interval
<1>3. Having(ts, key) \in SUBSET (1 .. Len(ts))
  BY <1>1 DEF Having
<1>4. IsFiniteSet(Having(ts, key))
  BY <1>2, <1>3, FS_Subset
<1>5. \A m \in 1 .. Len(ts) : ts[m][key] \in Nat
  BY DEF Table
<1> QED
  BY <1>1, <1>3, <1>4, <1>5 DEF Having, Entries

\* average_trials() of an entry, which is None just when no table has it.
LEMMA AverageOfEntries ==
  ASSUME NEW ts \in Seq(Table), NEW key \in Keys
  PROVE  /\ average_trials(ts)[key] =
              <<Sum(Entries(ts, key), Having(ts, key)), Cardinality(Having(ts, key))>>
         /\ average_trials(ts)[key] = Mean(Entries(ts, key))
         /\ average_trials(ts)[key] # None <=> Having(ts, key) # {}
<1> DEFINE S == Having(ts, key)
           f == Entries(ts, key)
<1>1. average_trials(ts)[key] = Mean(f)
  BY DEF average_trials, Entries, Having
<1>2. Mean(f) = <<Sum(f, S), Cardinality(S)>>
  BY MeanIsSum, EntriesType
<1>3. S = {} => Mean(f) = None
  BY <1>2, SumEmpty, FS_EmptySet DEF None
<1>4. S # {} => Cardinality(S) # 0
  BY EntriesType, FS_EmptySet
<1>5. S # {} => Mean(f) # None
  BY <1>2, <1>4 DEF None
<1> QED
  BY <1>1, <1>2, <1>3, <1>5

\* The averaged table has every key.
LEMMA AverageDomain ==
  ASSUME NEW ts PROVE DOMAIN average_trials(ts) = Keys
BY DEF average_trials

\* The report of a single trial shows the entries that the trial has.
LEMMA TrialReport ==
  ASSUME NEW table \in Table
  PROVE  LET rows == build_markdown(average_trials(<<table>>)).rows IN
         /\ DOMAIN rows = {key \in Keys : table[key] # 0}
         /\ \A key \in DOMAIN rows : rows[key][1] = table[key]
<1> DEFINE ts == <<table>>
           rows == build_markdown(average_trials(ts)).rows
<1>1. ts \in Seq(Table) /\ DOMAIN ts = {1} /\ ts[1] = table
  OBVIOUS
<1>2. rows = [key \in {x \in Keys : average_trials(ts)[x] # None} |->
                average_trials(ts)[key]]
  BY DEF build_markdown
<1> HIDE DEF ts, rows
<1>3. ASSUME NEW key \in Keys
      PROVE  Having(ts, key) = IF table[key] # 0 THEN {1} ELSE {}
  BY <1>1 DEF Having
<1>4. ASSUME NEW key \in Keys, table[key] # 0
      PROVE  average_trials(ts)[key][1] = table[key]
  <2> DEFINE f == Entries(ts, key)
  <2>1. Having(ts, key) = {1}
    BY <1>3, <1>4
  <2>2. f[1] = table[key] /\ table[key] \in Nat
    BY <1>1, <2>1, EntriesType
  <2> HIDE DEF f
  <2>3. \A m \in {1} : f[m] \in Nat
    BY <2>2
  <2>4. IsFiniteSet({1}) /\ {1} \ {1} = {}
    BY FS_Singleton
  <2>5. Sum(f, {1}) = f[1] + Sum(f, {1} \ {1})
    BY <2>3, <2>4, SumOfNaturals
  <2>6. Sum(f, {1}) = table[key]
    BY <2>2, <2>4, <2>5, SumEmpty
  <2>7. average_trials(ts)[key] =
          <<Sum(f, Having(ts, key)), Cardinality(Having(ts, key))>>
    BY <1>1, AverageOfEntries DEF f
  <2> QED
    BY <2>1, <2>6, <2>7
<1>5. \A key \in Keys : average_trials(ts)[key] # None <=> table[key] # 0
  BY <1>1, <1>3, AverageOfEntries
<1>6. DOMAIN rows = {key \in Keys : table[key] # 0}
  BY <1>2, <1>5
<1>7. \A key \in DOMAIN rows : rows[key][1] = table[key]
  BY <1>2, <1>4, <1>6
<1> QED
  BY <1>6, <1>7 DEF rows, ts

\* Min() and Max() of the values that an average is made of.
LEMMA MinMaxOfEntries ==
  ASSUME NEW ts \in Seq(Table), NEW key \in Keys, Having(ts, key) # {}
  PROVE  LET vals == Range(Entries(ts, key)) IN
         /\ Min(vals) \in Nat /\ Max(vals) \in Nat
         /\ \A x \in vals : x \in Nat /\ Min(vals) <= x /\ x <= Max(vals)
<1> DEFINE f == Entries(ts, key)
           vals == Range(f)
<1>1. /\ IsFiniteSet(Having(ts, key)) /\ DOMAIN f = Having(ts, key)
      /\ \A m \in Having(ts, key) : f[m] \in Nat
  BY EntriesType
<1>2. vals = {f[m] : m \in Having(ts, key)}
  BY <1>1 DEF Range
<1>3. vals \in SUBSET Nat /\ vals # {}
  BY <1>1, <1>2
<1>4. IsFiniteSet(vals)
  <2> DEFINE S == Having(ts, key)
  <2>1. f \in [S -> vals]
    BY <1>2 DEF Entries
  <2>2. f \in Surjection(S, vals)
    BY <1>2, <2>1 DEF Surjection
  <2> HIDE DEF vals, f, S
  <2> QED
    BY <1>1, <2>2, FS_Surjection DEF S
<1> HIDE DEF vals
<1>5. \E m \in vals : \A x \in vals : m <= x
  BY <1>3, Least
<1>6. \E m \in vals : \A x \in vals : x <= m
  BY <1>3, <1>4, FiniteGreatest
<1>7. Min(vals) \in vals /\ \A x \in vals : Min(vals) <= x
  BY <1>5 DEF Min
<1>8. Max(vals) \in vals /\ \A x \in vals : x <= Max(vals)
  BY <1>6 DEF Max
<1> QED
  BY <1>3, <1>7, <1>8 DEF vals

\* average_across_trials() has the entries that some table has, with the means
\* of average_trials(), which lie between the least and the greatest value.
LEMMA AcrossTrials ==
  ASSUME NEW ts \in Seq(Table)
  PROVE  LET table == average_across_trials(ts) IN
         /\ DOMAIN table = {key \in Keys : Having(ts, key) # {}}
         /\ \A key \in DOMAIN table :
              LET bar == table[key]
                  mean == average_trials(ts)[key]
              IN /\ bar.mean = mean
                 /\ bar.min * mean[2] <= mean[1] /\ mean[1] <= bar.max * mean[2]
<1> DEFINE table == average_across_trials(ts)
<1>1. table = [key \in {x \in Keys : \E m \in DOMAIN ts : ts[m][x] # 0} |->
                 [mean |-> Mean(Entries(ts, key)), min |-> Min(Range(Entries(ts, key))),
                  max |-> Max(Range(Entries(ts, key)))]]
  BY DEF average_across_trials, Entries, Having
<1> HIDE DEF table
<1>2. DOMAIN table = {key \in Keys : Having(ts, key) # {}}
  BY <1>1 DEF Having
<1>3. ASSUME NEW key \in DOMAIN table
      PROVE  LET bar == table[key]
                 mean == average_trials(ts)[key]
             IN /\ bar.mean = mean
                /\ bar.min * mean[2] <= mean[1] /\ mean[1] <= bar.max * mean[2]
  <2> DEFINE f == Entries(ts, key)
             S == Having(ts, key)
             lo == Min(Range(f))
             hi == Max(Range(f))
  <2>1. key \in Keys /\ S # {}
    BY <1>2
  <2>2. table[key].mean = Mean(f) /\ table[key].min = lo /\ table[key].max = hi
    BY <1>1
  <2>3. average_trials(ts)[key] = <<Sum(f, S), Cardinality(S)>>
        /\ average_trials(ts)[key] = Mean(f)
    BY <2>1, AverageOfEntries
  <2>4. IsFiniteSet(S) /\ DOMAIN f = S
    BY <2>1, EntriesType
  <2>5. lo \in Nat /\ hi \in Nat
        /\ \A x \in Range(f) : x \in Nat /\ lo <= x /\ x <= hi
    BY <2>1, MinMaxOfEntries
  <2> HIDE DEF f, S, lo, hi
  <2>6. \A x \in S : f[x] \in Nat /\ lo <= f[x] /\ f[x] <= hi
    BY <2>4, <2>5 DEF Range
  <2>7. lo * Cardinality(S) <= Sum(f, S) /\ Sum(f, S) <= hi * Cardinality(S)
    BY <2>4, <2>5, <2>6, SumBounds
  <2> DEFINE bar == table[key]
             mean == average_trials(ts)[key]
  <2>8. bar.mean = mean /\ bar.min = lo /\ bar.max = hi
    BY <2>2, <2>3
  <2>9. mean[1] = Sum(f, S) /\ mean[2] = Cardinality(S)
    BY <2>3
  <2> HIDE DEF bar, mean
  <2>10. /\ bar.mean = mean
         /\ bar.min * mean[2] <= mean[1] /\ mean[1] <= bar.max * mean[2]
    BY <2>7, <2>8, <2>9
  <2> QED
    BY <2>10 DEF bar, mean
<1> QED
  BY <1>2, <1>3 DEF table

\* Made from the same tables, report and figures show the same means and,
\* where no protocol lacks an entry, the same ratios.
LEMMA SameTables ==
  ASSUME NEW ts \in Seq(Table)
  PROVE  LET md == build_markdown(average_trials(ts))
             table == average_across_trials(ts)
         IN /\ Means(table) = md.rows
            /\ HasAll(table) => GapRatios(table) = md.gaps
<1> DEFINE md == build_markdown(average_trials(ts))
           table == average_across_trials(ts)
           avgs == average_trials(ts)
<1>1. /\ md.rows = [key \in {x \in Keys : avgs[x] # None} |-> avgs[key]]
      /\ md.gaps = Gaps(avgs)
  BY DEF build_markdown
<1>2. \A key \in Keys : avgs[key] # None <=> Having(ts, key) # {}
  BY AverageOfEntries
<1>3. /\ DOMAIN table = {key \in Keys : Having(ts, key) # {}}
      /\ \A key \in DOMAIN table : table[key].mean = avgs[key]
  BY AcrossTrials
<1> HIDE DEF md, table, avgs
<1>4. DOMAIN table = {x \in Keys : avgs[x] # None}
  BY <1>2, <1>3
<1>5. Means(table) = md.rows
  BY <1>1, <1>3, <1>4 DEF Means
<1>6. ASSUME HasAll(table) PROVE GapRatios(table) = md.gaps
  <2> DEFINE known == {x \in FanIn : \A label \in Labels : Known(avgs, label, x)}
  <2>1. \A fi \in fan_ins(table), label \in Labels : <<label, fi>> \in DOMAIN table
    BY <1>6 DEF HasAll
  <2>2. fan_ins(table) \subseteq FanIn
    BY <1>4 DEF fan_ins, Keys
  <2>3. known \subseteq fan_ins(table)
    <3> SUFFICES ASSUME NEW fi \in known PROVE fi \in fan_ins(table)
      OBVIOUS
    <3>1. <<"Homa", fi>> \in DOMAIN table
      BY <1>4 DEF Known, Labels, Keys
    <3> QED
      BY <3>1 DEF fan_ins
  <2>4. fan_ins(table) \subseteq known
    BY <1>4, <2>1, <2>2 DEF Known
  <2>5. fan_ins(table) = known
    BY <2>3, <2>4
  <2>6. \A fi \in known, label \in Labels : table[<<label, fi>>].mean = avgs[<<label, fi>>]
    BY <1>3, <2>1, <2>5
  <2>7. Gaps(avgs) = [fi \in known |->
          <<Ratio(avgs[<<"TCP single", fi>>], avgs[<<"Homa", fi>>]),
            Ratio(avgs[<<"TCP DCTCP-32", fi>>], avgs[<<"Homa", fi>>])>>]
    BY DEF Gaps
  <2> HIDE DEF known
  <2> QED
    BY <1>1, <2>5, <2>6, <2>7 DEF GapRatios, Labels
<1> QED
  BY <1>5, <1>6 DEF md, table

-----------------------------------------------------------------------------
\* The inductive invariant.

TypeInv ==
  /\ tree \in [Trial -> Table]
  /\ todo \in Seq(Trial \X Keys)
  /\ pc \in {"idle", "collect", "average", "fig09", "fig10", "fig11", "fig12", "fig13"}
  /\ run \in Nat
  /\ args \in Seq(Trial) /\ tables \in Seq(Table)
  /\ reports = [t \in Trial |-> reports[t]]
  /\ \A t \in Trial : reports[t].run \in 0 .. run
  /\ averaged.run \in 0 .. run
  /\ figures = [f \in Midterm \cup Fanin |-> figures[f]]

\* Where a script is, how far it has read.
StageInv ==
  /\ script = "" => pc = "idle"
  /\ script # "" => run # 0 /\ Len(args) # 0
  /\ Len(tables) <= Len(args)
  /\ pc = "collect" => script \in {"report", "plots"} /\ Len(tables) < Len(args)
  /\ pc = "average" => script = "report" /\ Len(tables) = Len(args)
  /\ pc \notin {"idle", "collect", "average"} =>
       script = "plots" /\ Len(tables) = Len(args)
  /\ \A m, n \in 1 .. Len(args) : args[m] = args[n] => m = n

\* fanin_report.py has written the reports of just the trials it has read, each
\* from what it has read, and no averaged report before it ends.
ReportInv ==
  script = "report" =>
    /\ \A t \in Trial : reports[t].run = run <=> \E m \in 1 .. Len(tables) : args[m] = t
    /\ \A m \in 1 .. Len(tables) :
         reports[args[m]].shows = build_markdown(average_trials(<<tables[m]>>))
    /\ averaged.run = run <=>
         /\ pc = "idle" /\ Len(tables) = Len(args)
         /\ ~NarrativeRaises(average_trials(tables))

\* What the averaged report was made from, and shows.
AveragedInv ==
  averaged.run # 0 =>
    /\ averaged.from \in Seq(Table) /\ averaged.from # <<>>
    /\ averaged.shows.rows = build_markdown(average_trials(averaged.from)).rows
    /\ averaged.shows.gaps = build_markdown(average_trials(averaged.from)).gaps

\* What a figure of the fan-in study was made from, and shows.
DrawnInv ==
  \A f \in Fanin :
    LET table == average_across_trials(figures[f].from) IN
    IF figures[f].run = 0 THEN figures[f].from = <<>>
    ELSE /\ figures[f].from \in Seq(Table) /\ HasAll(table)
         /\ f = 9 => figures[f].shows = Means(table)
         /\ f = 11 => figures[f].shows = GapRatios(table)
         /\ f = 13 => figures[f].shows = table

\* The figures that this run of make_plots.py has drawn while it is at work.
New == CASE pc = "fig10" -> {9} [] pc = "fig11" -> 9 .. 10 [] pc = "fig12" -> 9 .. 11
         [] pc = "fig13" -> 9 .. 12 [] OTHER -> {}

\* They are of one run, and so are the others: no entry is missing once the
\* first of them has been drawn.
TogetherInv ==
  /\ New # {} => HasAll(avg)
  /\ \A f \in New : figures[f].run = run /\ figures[f].from = tables
  /\ \A f, g \in Fanin \ New : /\ figures[f].run = figures[g].run
                               /\ figures[f].from = figures[g].from

\* make_plots.py ends without figures for one of three reasons.
EndedInv ==
  pc = "idle" /\ script = "plots" /\ figures[9].run # run =>
    \/ Len(tables) < Len(args)
    \/ \E fi \in FanIn, label \in Labels :
         \A m \in DOMAIN tables : tables[m][<<label, fi>>] = 0

IInv ==
  /\ TypeInv /\ StageInv /\ ReportInv /\ AveragedInv /\ AveragedFromTrials
  /\ DrawnInv /\ TogetherInv /\ EndedInv

-----------------------------------------------------------------------------
\* A function on 1 .. n is a sequence.
LEMMA IsASeq ==
  ASSUME NEW S, NEW n \in Nat, NEW s \in [1 .. n -> S]
  PROVE  s \in Seq(S) /\ Len(s) = n /\ DOMAIN s = 1 .. n
OBVIOUS

\* No script has run.
LEMMA InitIInv == Init => IInv
<1> SUFFICES ASSUME Init PROVE IInv
  OBVIOUS
<1>0. <<>> \in Seq(Trial \X Keys) /\ <<>> \in Seq(Trial) /\ <<>> \in Seq(Table)
      /\ Len(<<>>) = 0
  OBVIOUS
<1>1. TypeInv
  <2>1. tree \in [Trial -> Table]
    BY ValuesAssumption DEF Init, Table
  <2>2. reports = [t \in Trial |-> reports[t]] /\ \A t \in Trial : reports[t].run = 0
    BY DEF Init, NoFile
  <2>3. figures = [f \in Midterm \cup Fanin |-> figures[f]]
    BY DEF Init
  <2>4. averaged.run = 0 /\ run = 0 /\ pc = "idle"
    BY DEF Init, NoFile
  <2>5. todo \in Seq(Trial \X Keys) /\ args \in Seq(Trial) /\ tables \in Seq(Table)
    BY <1>0 DEF Init
  <2> QED
    BY <2>1, <2>2, <2>3, <2>4, <2>5 DEF TypeInv
<1>2. StageInv /\ ReportInv
  <2>1. Len(args) = 0 /\ Len(tables) = 0
    BY <1>0 DEF Init
  <2>2. script = "" /\ pc = "idle"
    BY DEF Init
  <2>3. \A m \in 1 .. Len(args) : FALSE
    BY <2>1
  <2>4. Len(tables) <= Len(args)
    BY <2>1
  <2>5. StageInv
    BY <2>2, <2>3, <2>4 DEF StageInv
  <2> QED
    BY <2>2, <2>5 DEF ReportInv
<1>3. AveragedInv /\ AveragedFromTrials
  BY DEF Init, AveragedInv, AveragedFromTrials, LastAveraged, NoFile
<1>4. \A f \in Fanin : figures[f] = NoFile
  BY DEF Init
<1>5. DrawnInv /\ TogetherInv /\ EndedInv
  BY <1>4 DEF Init, DrawnInv, TogetherInv, EndedInv, New, NoFile
<1> QED
  BY <1>1, <1>2, <1>3, <1>5 DEF IInv

\* What run_fanin.sh stores is of no concern to the scripts before they read it.
LEMMA DriverStep == IInv /\ Driver => IInv'
<1> SUFFICES ASSUME IInv, Driver PROVE IInv'
  OBVIOUS
<1>1. UNCHANGED <<pc, script, run, args, tables, reports, averaged, figures>>
  BY DEF Driver, run_fanin, experiment_stored, experiment_fails, scriptVars, outputVars
<1>2. todo' \in Seq(Trial \X Keys)
  <2>1. CASE run_fanin
    <3>1. PICK t \in Trial, lo \in DOMAIN FanIns, hi \in DOMAIN FanIns :
            lo <= hi /\ todo' = Plan(t, SubSeq(FanIns, lo, hi))
      BY <2>1 DEF run_fanin
    <3> DEFINE fis == SubSeq(FanIns, lo, hi)
    <3>2. Len(fis) \in Nat /\ \A m \in 1 .. Len(fis) : fis[m] \in FanIn
      BY <3>1, FanInsAssumption, SMTT(30) DEF FanIn
    <3> HIDE DEF fis
    <3>3. \A m \in 1 .. 3 * Len(fis) :
            1 + ((m - 1) % 3) \in 1 .. 3 /\ 1 + ((m - 1) \div 3) \in 1 .. Len(fis)
      BY <3>2
    <3>4. \A k \in 1 .. 3 : Variants[k] \in Labels
      <4>1. \A k \in 1 .. 3 : k = 1 \/ k = 2 \/ k = 3
        OBVIOUS
      <4>2. Variants[1] \in Labels /\ Variants[2] \in Labels /\ Variants[3] \in Labels
        BY DEF Variants, Labels
      <4> QED
        BY <4>1, <4>2
    <3>5. \A m \in 1 .. 3 * Len(fis) :
            <<t, <<Variants[1 + ((m - 1) % 3)], fis[1 + ((m - 1) \div 3)]>>>>
              \in Trial \X Keys
      BY <3>2, <3>3, <3>4 DEF Keys
    <3>6. Plan(t, fis) \in [1 .. 3 * Len(fis) -> Trial \X Keys]
      BY <3>5 DEF Plan
    <3>7. 3 * Len(fis) \in Nat
      BY <3>2
    <3>8. Plan(t, fis) \in Seq(Trial \X Keys)
      BY <3>6, <3>7, IsASeq
    <3> QED
      BY <3>1, <3>8 DEF fis
  <2>2. CASE experiment_stored \/ experiment_fails
    <3>1. todo # <<>> /\ (todo' = Tail(todo) \/ todo' = <<>>)
      BY <2>2 DEF experiment_stored, experiment_fails
    <3>2. todo \in Seq(Trial \X Keys)
      BY DEF IInv, TypeInv
    <3>3. \A T : \A s \in Seq(T) : s # <<>> => Tail(s) \in Seq(T)
      OBVIOUS
    <3>4. \A T : <<>> \in Seq(T)
      OBVIOUS
    <3> QED
      BY <3>1, <3>2, <3>3, <3>4
  <2> QED
    BY <2>1, <2>2 DEF Driver
<1>3. tree' \in [Trial -> Table]
  <2>1. CASE run_fanin
    BY <2>1 DEF run_fanin, IInv, TypeInv
  <2>2. CASE experiment_stored \/ experiment_fails
    <3>1. todo # <<>> /\ \E v \in Nat : stores(v)
      <4>1. CASE experiment_stored
        BY <4>1, ValuesAssumption DEF experiment_stored
      <4>2. CASE experiment_fails
        <5>1. todo # <<>>
          BY <4>2 DEF experiment_fails
        <5>2. Head(todo) \in Trial \X Keys
          BY <5>1 DEF IInv, TypeInv
        <5>3. tree[Head(todo)[1]][Head(todo)[2]] \in Nat
          BY <5>2 DEF IInv, TypeInv, Table
        <5> QED
          BY <4>2, <5>1, <5>3, ValuesAssumption DEF experiment_fails
      <4> QED
        BY <2>2, <4>1, <4>2
    <3>2. Head(todo) \in Trial \X Keys
      BY <3>1 DEF IInv, TypeInv
    <3>3. PICK v \in Nat :
            tree' = [tree EXCEPT ![Head(todo)[1]][Head(todo)[2]] = v]
      BY <3>1 DEF stores
    <3> QED
      BY <3>2, <3>3 DEF IInv, TypeInv, Table
  <2> QED
    BY <2>1, <2>2 DEF Driver
<1>4. TypeInv'
  BY <1>1, <1>2, <1>3 DEF IInv, TypeInv
<1>5. StageInv' /\ ReportInv' /\ EndedInv'
  BY <1>1, ZenonT(60) DEF IInv, StageInv, ReportInv, EndedInv
<1>5a. AveragedInv'
  BY <1>1 DEF IInv, AveragedInv
<1>5b. DrawnInv'
  BY <1>1 DEF IInv, DrawnInv
<1>5c. TogetherInv'
  BY <1>1 DEF IInv, TogetherInv, New, avg
<1>6. AveragedFromTrials'
  BY <1>1 DEF IInv, AveragedFromTrials, LastAveraged, TrialsOf
<1> QED
  BY <1>4, <1>5, <1>5a, <1>5b, <1>5c, <1>6 DEF IInv

\* A script begins to read, or ends without another file, and nothing that has
\* been written changes.
LEMMA StartReportStep == IInv /\ start_report => IInv'
<1> SUFFICES ASSUME IInv, start_report PROVE IInv'
  OBVIOUS
<1>1. PICK lo \in Trial, hi \in Trial :
        lo <= hi /\ start("report", [m \in 1 .. hi - lo + 1 |-> lo + m - 1])
  BY DEF start_report
<1> DEFINE n == hi - lo + 1
<1>2. /\ pc = "idle" /\ pc' = "collect" /\ script' = "report" /\ run' = run + 1
      /\ args' = [m \in 1 .. n |-> lo + m - 1] /\ tables' = <<>>
      /\ UNCHANGED <<tree, todo, reports, averaged, figures>>
  BY <1>1 DEF start_report, start, resultVars, outputVars
<1>3. n \in Nat \ {0} /\ \A m \in 1 .. n : lo + m - 1 \in Trial
  BY <1>1, TrialsAssumption DEF Trial
<1>4. args' \in Seq(Trial) /\ Len(args') = n
  <2>1. args' \in [1 .. n -> Trial]
    BY <1>2, <1>3
  <2> HIDE DEF n
  <2> QED
    BY <1>3, <2>1, IsASeq
<1>5. \A m, k \in 1 .. n : args'[m] = args'[k] => m = k
  BY <1>1, <1>2, <1>3 DEF Trial
<1>6. tables' \in Seq(Table) /\ Len(tables') = 0
  BY <1>2
<1> HIDE DEF n
<1>7. TypeInv'
  BY <1>2, <1>4, <1>6 DEF IInv, TypeInv
<1>8. StageInv'
  <2>1. run' # 0
    BY <1>2 DEF IInv, TypeInv
  <2> QED
    BY <1>2, <1>3, <1>4, <1>5, <1>6, <2>1 DEF StageInv
<1>9. ReportInv'
  <2>1. averaged.run # run + 1 /\ \A t \in Trial : reports[t].run # run + 1
    BY DEF IInv, TypeInv
  <2>2. \A m \in 1 .. Len(tables') : FALSE
    BY <1>6
  <2> QED
    BY <1>2, <2>1, <2>2 DEF ReportInv
<1>10. AveragedInv' /\ AveragedFromTrials' /\ DrawnInv' /\ EndedInv'
  <2>1. AveragedInv'
    BY <1>2 DEF IInv, AveragedInv
  <2>2. AveragedFromTrials'
    BY <1>2 DEF IInv, AveragedFromTrials, LastAveraged, TrialsOf
  <2>3. DrawnInv'
    BY <1>2 DEF IInv, DrawnInv
  <2>4. EndedInv'
    BY <1>2 DEF EndedInv
  <2> QED
    BY <2>1, <2>2, <2>3, <2>4
<1>11. TogetherInv'
  BY <1>2 DEF IInv, TogetherInv, New
<1> QED
  BY <1>7, <1>8, <1>9, <1>10, <1>11 DEF IInv

\* make_plots.py draws the figures that are of no trial, and begins to read.
LEMMA StartPlotsStep == IInv /\ start_plots => IInv'
<1> SUFFICES ASSUME IInv, start_plots PROVE IInv'
  OBVIOUS
<1>2. /\ pc = "idle" /\ pc' = "collect" /\ script' = "plots" /\ run' = run + 1
      /\ args' = [t \in Trial |-> t] /\ tables' = <<>>
      /\ UNCHANGED <<tree, todo, reports, averaged>>
      /\ figures' = [f \in DOMAIN figures |->
           IF f \in Midterm THEN [NoFile EXCEPT !.run = run + 1] ELSE figures[f]]
  BY DEF start_plots, start, resultVars
<1>3. DOMAIN figures = Midterm \cup Fanin
  BY DEF IInv, TypeInv
<1>4. figures' = [f \in Midterm \cup Fanin |-> figures'[f]]
  BY <1>2, <1>3
<1>5. \A f \in Fanin : f \notin Midterm
  BY DEF Fanin, Midterm
<1>6. \A f \in Fanin : figures'[f] = figures[f]
  BY <1>2, <1>3, <1>5
<1>7. args' \in Seq(Trial) /\ Len(args') = Trials
      /\ \A m \in 1 .. Trials : args'[m] = m
  <2>1. args' \in [1 .. Trials -> Trial]
    BY <1>2 DEF Trial
  <2> QED
    BY <1>2, <2>1, TrialsAssumption, IsASeq DEF Trial
<1>8. tables' \in Seq(Table) /\ Len(tables') = 0
  BY <1>2
<1>9. TypeInv'
  BY <1>2, <1>4, <1>7, <1>8, SMTT(30) DEF IInv, TypeInv
<1>10. StageInv'
  <2>1. run' # 0
    BY <1>2 DEF IInv, TypeInv
  <2>2. \A m, n \in 1 .. Len(args') : args'[m] = args'[n] => m = n
    BY <1>7
  <2>3. 0 < Len(args')
    BY <1>7, TrialsAssumption
  <2> QED
    BY <1>2, <1>8, <2>1, <2>2, <2>3 DEF StageInv
<1>11. ReportInv' /\ EndedInv'
  BY <1>2 DEF ReportInv, EndedInv
<1>12. AveragedInv'
  BY <1>2 DEF IInv, AveragedInv
<1>13. AveragedFromTrials'
  BY <1>2 DEF IInv, AveragedFromTrials, LastAveraged, TrialsOf
<1>14. DrawnInv'
  BY <1>6 DEF IInv, DrawnInv
<1>15. TogetherInv'
  <2>1. New = {} /\ New' = {}
    BY <1>2 DEF New
  <2> QED
    BY <1>6, <2>1 DEF IInv, TogetherInv
<1> QED
  BY <1>9, <1>10, <1>11, <1>12, <1>13, <1>14, <1>15 DEF IInv

\* A script that meets a file that was cut ends, and leaves what it has written.
LEMMA CutStep == IInv /\ pc = "collect" /\ ends /\ UNCHANGED resultVars => IInv'
<1> SUFFICES ASSUME IInv, pc = "collect", ends, UNCHANGED resultVars PROVE IInv'
  OBVIOUS
<1>1. pc' = "idle"
      /\ UNCHANGED <<tree, todo, script, run, args, tables, reports, averaged, figures>>
  BY DEF ends, goto, resultVars, outputVars
<1>2. script \in {"report", "plots"} /\ Len(tables) < Len(args)
  BY DEF IInv, StageInv
<1>3. TypeInv'
  BY <1>1 DEF IInv, TypeInv
<1>4. StageInv'
  BY <1>1, <1>2 DEF IInv, StageInv
<1>5. Len(tables) # Len(args)
  BY <1>2 DEF IInv, TypeInv
<1>6. ReportInv'
  BY <1>1, <1>5 DEF IInv, ReportInv
<1>7. AveragedInv'
  BY <1>1 DEF IInv, AveragedInv
<1>8. AveragedFromTrials'
  BY <1>1 DEF IInv, AveragedFromTrials, LastAveraged, TrialsOf
<1>9. DrawnInv'
  BY <1>1 DEF IInv, DrawnInv
<1>10. TogetherInv'
  BY <1>1 DEF IInv, TogetherInv, New
<1>11. EndedInv'
  BY <1>1, <1>2 DEF EndedInv
<1> QED
  BY <1>3, <1>4, <1>6, <1>7, <1>8, <1>9, <1>10, <1>11 DEF IInv

\* What Append() does to the tables, and where the table comes from.
LEMMA ReadNext ==
  ASSUME IInv, pc = "collect", tables' = Append(tables, tree[Reading]), args' = args
  PROVE  /\ Len(tables) \in Nat /\ Len(args) \in Nat /\ Len(tables) + 1 <= Len(args)
         /\ Reading \in Trial /\ Reading = args[Len(tables) + 1]
         /\ tree[Reading] \in Table
         /\ tables' \in Seq(Table) /\ Len(tables') = Len(tables) + 1
         /\ \A m \in 1 .. Len(tables) : tables'[m] = tables[m]
         /\ tables'[Len(tables) + 1] = tree[Reading]
<1>1. /\ tables \in Seq(Table) /\ args \in Seq(Trial) /\ tree \in [Trial -> Table]
      /\ Len(tables) < Len(args)
  BY DEF IInv, TypeInv, StageInv
<1>2. Len(tables) \in Nat /\ Len(args) \in Nat /\ Len(tables) + 1 <= Len(args)
  BY <1>1
<1>3. Len(tables) + 1 \in 1 .. Len(args)
  BY <1>2
<1>4. Reading \in Trial
  BY <1>1, <1>3 DEF Reading
<1>5. tree[Reading] \in Table
  BY <1>1, <1>4
<1> HIDE DEF Reading
<1>6. \A T : \A s \in Seq(T) : \A x \in T :
        /\ Append(s, x) \in Seq(T) /\ Len(Append(s, x)) = Len(s) + 1
        /\ Append(s, x)[Len(s) + 1] = x
        /\ \A m \in 1 .. Len(s) : Append(s, x)[m] = s[m]
  OBVIOUS
<1> QED
  BY <1>1, <1>2, <1>4, <1>5, <1>6 DEF Reading

\* fanin_report.py has read a trial and written its report.
LEMMA CollectOneTrialStep == IInv /\ collect_one_trial => IInv'
<1> SUFFICES ASSUME IInv, collect_one_trial, ~Unreadable(Reading) PROVE IInv'
  BY CutStep DEF collect_one_trial
<1>1. /\ pc = "collect" /\ script = "report"
      /\ tables' = Append(tables, tree[Reading])
      /\ reports' = [reports EXCEPT ![Reading] =
           [run |-> run, from |-> <<tree[Reading]>>,
            shows |-> build_markdown(average_trials(<<tree[Reading]>>))]]
      /\ pc' = IF LastTrial THEN "average" ELSE "collect"
      /\ UNCHANGED <<tree, todo, script, run, args, averaged, figures>>
  BY DEF collect_one_trial, goto, resultVars
<1> DEFINE k == Len(tables) + 1
<1>2. /\ Len(tables) \in Nat /\ Len(args) \in Nat /\ k <= Len(args) /\ k \in Nat
      /\ Reading \in Trial /\ Reading = args[k]
      /\ tree[Reading] \in Table
      /\ tables' \in Seq(Table) /\ Len(tables') = k
      /\ \A m \in 1 .. Len(tables) : tables'[m] = tables[m]
      /\ tables'[k] = tree[Reading]
  BY <1>1, ReadNext
<1>3. LastTrial <=> k = Len(args)
  BY DEF LastTrial
<1> DEFINE t0 == Reading
<1> HIDE DEF k, t0
<1>4. /\ DOMAIN reports = Trial
      /\ reports'[t0].run = run
      /\ reports'[t0].shows = build_markdown(average_trials(<<tree[t0]>>))
      /\ \A t \in Trial : t # t0 => reports'[t] = reports[t]
      /\ reports' = [t \in Trial |-> reports'[t]]
  <2>1. reports = [t \in Trial |-> reports[t]]
    BY DEF IInv, TypeInv
  <2> QED
    BY <1>1, <1>2, <2>1 DEF t0
<1>5. TypeInv'
  <2>1. \A t \in Trial : reports'[t].run \in 0 .. run
    BY <1>4 DEF IInv, TypeInv
  <2> QED
    BY <1>1, <1>2, <1>4, <2>1 DEF IInv, TypeInv
<1>6. StageInv'
  BY <1>1, <1>2, <1>3 DEF IInv, StageInv
<1>7. ReportInv'
  <2>1. /\ \A t \in Trial : reports[t].run = run <=> \E m \in 1 .. Len(tables) : args[m] = t
        /\ \A m \in 1 .. Len(tables) :
             reports[args[m]].shows = build_markdown(average_trials(<<tables[m]>>))
        /\ averaged.run # run
    BY <1>1 DEF IInv, ReportInv
  <2>2. k \notin 1 .. Len(tables) /\ 1 .. k = (1 .. Len(tables)) \cup {k}
        /\ 1 .. k \subseteq 1 .. Len(args)
    BY <1>2 DEF k
  <2>3. t0 = args[k] /\ \A m \in 1 .. Len(tables) : args[m] \in Trial /\ args[m] # t0
    <3>1. t0 = args[k] /\ k \in 1 .. Len(args)
      BY <1>2, <2>2 DEF t0
    <3>2. /\ args \in Seq(Trial)
          /\ \A m, n \in 1 .. Len(args) : args[m] = args[n] => m = n
      BY DEF IInv, StageInv, TypeInv
    <3>3. \A m \in 1 .. Len(tables) : m \in 1 .. Len(args) /\ m # k
      BY <2>2
    <3> QED
      BY <3>1, <3>2, <3>3
  <2>4. \A t \in Trial : reports'[t].run = run <=> \E m \in 1 .. k : args[m] = t
    BY <1>4, <2>1, <2>2, <2>3
  <2>5. \A m \in 1 .. k :
          reports'[args[m]].shows = build_markdown(average_trials(<<tables'[m]>>))
    <3>1. ASSUME NEW m \in 1 .. Len(tables)
          PROVE  reports'[args[m]].shows = build_markdown(average_trials(<<tables'[m]>>))
      BY <1>2, <1>4, <2>1, <2>3, ZenonT(60)
    <3>2. reports'[args[k]].shows = build_markdown(average_trials(<<tables'[k]>>))
      BY <1>2, <1>4, <2>3 DEF t0
    <3> QED
      BY <2>2, <3>1, <3>2
  <2>6. pc' # "idle"
    BY <1>1
  <2> QED
    BY <1>1, <1>2, <2>1, <2>4, <2>5, <2>6 DEF ReportInv
<1>8. AveragedInv'
  BY <1>1 DEF IInv, AveragedInv
<1>9. AveragedFromTrials'
  <2>1. averaged.run # run /\ averaged.run \in 0 .. run /\ run \in Nat
    BY <1>1 DEF IInv, ReportInv, TypeInv
  <2>2. ~(run <= averaged.run)
    BY <2>1
  <2>3. ~LastAveraged'
    BY <1>1, <1>2, <1>4, <2>2 DEF LastAveraged, t0
  <2> QED
    BY <2>3 DEF AveragedFromTrials
<1>10. DrawnInv'
  BY <1>1 DEF IInv, DrawnInv
<1>11. TogetherInv'
  <2>1. New = {} /\ New' = {}
    BY <1>1 DEF New
  <2> QED
    BY <1>1, <2>1 DEF IInv, TogetherInv
<1>12. EndedInv'
  BY <1>1 DEF EndedInv
<1> QED
  BY <1>5, <1>6, <1>7, <1>8, <1>9, <1>10, <1>11, <1>12 DEF IInv

\* make_plots.py has read a trial; after the last it draws, if there are samples.
LEMMA CollectPerTrialStep == IInv /\ collect_per_trial => IInv'
<1> SUFFICES ASSUME IInv, collect_per_trial, ~Unreadable(Reading) PROVE IInv'
  BY CutStep DEF collect_per_trial
<1> DEFINE Samples(ts) == \E m \in DOMAIN ts, key \in Keys : ts[m][key] # 0
<1>1. /\ pc = "collect" /\ script = "plots"
      /\ tables' = Append(tables, tree[Reading])
      /\ pc' = IF ~LastTrial THEN "collect" ELSE IF Samples(tables') THEN "fig09" ELSE "idle"
      /\ UNCHANGED <<tree, todo, script, run, args, reports, averaged, figures>>
  BY DEF collect_per_trial, goto, resultVars, outputVars
<1> DEFINE k == Len(tables) + 1
<1>2. /\ Len(tables) \in Nat /\ Len(args) \in Nat /\ k <= Len(args) /\ k \in Nat
      /\ tables' \in Seq(Table) /\ Len(tables') = k
  BY <1>1, ReadNext
<1>3. LastTrial <=> k = Len(args)
  BY DEF LastTrial
<1> HIDE DEF k
<1>4. TypeInv'
  BY <1>1, <1>2 DEF IInv, TypeInv
<1>5. StageInv'
  BY <1>1, <1>2, <1>3 DEF IInv, StageInv
<1>6. ReportInv'
  BY <1>1 DEF ReportInv
<1>7. AveragedInv'
  BY <1>1 DEF IInv, AveragedInv
<1>8. AveragedFromTrials'
  BY <1>1 DEF IInv, AveragedFromTrials, LastAveraged, TrialsOf
<1>9. DrawnInv'
  BY <1>1 DEF IInv, DrawnInv
<1>10. TogetherInv'
  <2>1. New = {} /\ New' = {}
    BY <1>1 DEF New
  <2> QED
    BY <1>1, <2>1 DEF IInv, TogetherInv
<1>11. EndedInv'
  <2>1. CASE pc' # "idle"
    BY <2>1 DEF EndedInv
  <2>2. CASE ~Samples(tables')
    <3>1. FanIns[1] \in FanIn /\ "Homa" \in Labels
      BY FanInsAssumption DEF FanIn, Labels
    <3>2. <<"Homa", FanIns[1]>> \in Keys
      BY <3>1 DEF Keys
    <3> QED
      BY <2>2, <3>1, <3>2 DEF EndedInv
  <2> QED
    BY <1>1, <2>1, <2>2
<1> QED
  BY <1>4, <1>5, <1>6, <1>7, <1>8, <1>9, <1>10, <1>11 DEF IInv

\* The averaged report shows, of every entry, the mean over the trial reports
\* that show it.
LEMMA AverageOfReports ==
  ASSUME IInv, pc = "average", NEW key \in Keys
  PROVE  LET With == {t \in TrialsOf(run) : key \in DOMAIN reports[t].shows.rows} IN
         /\ average_trials(tables)[key] # None <=> With # {}
         /\ average_trials(tables)[key] =
              Mean([t \in With |-> reports[t].shows.rows[key][1]])
<1> DEFINE With == {t \in TrialsOf(run) : key \in DOMAIN reports[t].shows.rows}
           g == [t \in With |-> reports[t].shows.rows[key][1]]
           S == Having(tables, key)
           e == Entries(tables, key)
<1>1. /\ script = "report" /\ Len(tables) = Len(args)
      /\ tables \in Seq(Table) /\ args \in Seq(Trial)
      /\ \A m, n \in 1 .. Len(args) : args[m] = args[n] => m = n
  BY DEF IInv, StageInv, TypeInv
<1>2. /\ \A t \in Trial : reports[t].run = run <=> \E m \in 1 .. Len(tables) : args[m] = t
      /\ \A m \in 1 .. Len(tables) :
           reports[args[m]].shows = build_markdown(average_trials(<<tables[m]>>))
  BY <1>1 DEF IInv, ReportInv
<1>3. \A m \in 1 .. Len(tables) : tables[m] \in Table /\ args[m] \in Trial
  BY <1>1
<1>4. ASSUME NEW m \in 1 .. Len(tables)
      PROVE  /\ args[m] \in TrialsOf(run)
             /\ key \in DOMAIN reports[args[m]].shows.rows <=> tables[m][key] # 0
             /\ tables[m][key] # 0 =>
                  reports[args[m]].shows.rows[key][1] = tables[m][key]
  <2> DEFINE rows == build_markdown(average_trials(<<tables[m]>>)).rows
  <2>1. /\ DOMAIN rows = {x \in Keys : tables[m][x] # 0}
        /\ \A x \in DOMAIN rows : rows[x][1] = tables[m][x]
    BY <1>3, TrialReport
  <2>2. reports[args[m]].shows.rows = rows
    BY <1>2
  <2> HIDE DEF rows
  <2>3. args[m] \in TrialsOf(run)
    BY <1>2, <1>3 DEF TrialsOf
  <2> QED
    BY <2>1, <2>2, <2>3
<1>5. S \subseteq 1 .. Len(tables) /\ IsFiniteSet(S)
      /\ \A m \in S : e[m] = tables[m][key] /\ tables[m][key] \in Nat \ {0}
  BY <1>1, EntriesType
<1>6. With = {args[m] : m \in S}
  <2>1. ASSUME NEW m \in S PROVE args[m] \in With
    BY <1>4, <1>5
  <2>2. ASSUME NEW t \in With PROVE \E m \in S : t = args[m]
    <3>1. PICK m \in 1 .. Len(tables) : args[m] = t
      BY <1>2 DEF TrialsOf
    <3>2. tables[m][key] # 0
      BY <1>4, <3>1
    <3>3. m \in DOMAIN tables
      BY <1>1
    <3> QED
      BY <3>1, <3>2, <3>3 DEF Having
  <2> QED
    BY <2>1, <2>2
<1>7. \A m \in S : g[args[m]] \in Nat /\ e[m] = g[args[m]]
  BY <1>4, <1>5, <1>6
<1>8. \A m, n \in S : args[m] = args[n] => m = n
  BY <1>1, <1>5
<1>9. average_trials(tables)[key] = <<Sum(e, S), Cardinality(S)>>
      /\ (average_trials(tables)[key] # None <=> S # {})
  BY <1>1, AverageOfEntries
<1>10. DOMAIN g = With
  OBVIOUS
<1> HIDE DEF S, e, g, With
<1>11. Cardinality(With) = Cardinality(S) /\ Sum(e, S) = Sum(g, With)
  <2>1. IsFiniteSet(S)
    BY <1>5
  <2>2. LET T == {args[m] : m \in S} IN
        /\ IsFiniteSet(T) /\ Cardinality(T) = Cardinality(S) /\ Sum(e, S) = Sum(g, T)
    BY <1>7, <1>8, <2>1, SumMapped, SMTT(30)
  <2> QED
    BY <1>6, <2>2
<1>12. Mean(g) = <<Sum(g, With), Cardinality(With)>>
  BY <1>10, MeanIsSum
<1>13. average_trials(tables)[key] = Mean(g)
  BY <1>9, <1>11, <1>12
<1>14. average_trials(tables)[key] # None <=> With # {}
  BY <1>6, <1>9
<1> QED
  BY <1>13, <1>14 DEF g, With

\* fanin_report.py writes the averaged report, unless its text raises.
LEMMA WriteAveragedStep == IInv /\ write_averaged => IInv'
<1> SUFFICES ASSUME IInv, write_averaged PROVE IInv'
  OBVIOUS
<1> DEFINE table == average_trials(tables)
           md == build_markdown(table)
<1>1. /\ pc = "average" /\ pc' = "idle"
      /\ UNCHANGED <<tree, todo, script, run, args, tables, reports, figures>>
  BY DEF write_averaged, AveragedReport, ends, goto, resultVars, outputVars
<1>2. /\ NarrativeRaises(table) => averaged' = averaged
      /\ ~NarrativeRaises(table) =>
           /\ averaged'.run = run /\ averaged'.from = tables
           /\ averaged'.shows.rows = md.rows /\ averaged'.shows.gaps = md.gaps
  <2>1. CASE NarrativeRaises(table)
    BY <2>1 DEF write_averaged, AveragedReport, ends, outputVars
  <2>2. CASE ~NarrativeRaises(table)
    <3>1. averaged' = Made(md)
      BY <2>2 DEF write_averaged, AveragedReport
    <3> HIDE DEF md, table
    <3> QED
      BY <2>2, <3>1 DEF Made
  <2> QED
    BY <2>1, <2>2
<1>3. /\ script = "report" /\ Len(tables) = Len(args) /\ Len(args) # 0 /\ run # 0
      /\ tables \in Seq(Table) /\ run \in Nat /\ averaged.run # run
  BY <1>1 DEF IInv, StageInv, TypeInv, ReportInv
<1>4. TypeInv'
  BY <1>1, <1>2, <1>3 DEF IInv, TypeInv
<1>5. StageInv'
  BY <1>1, <1>3 DEF IInv, StageInv
<1>6. ReportInv'
  BY <1>1, <1>2, <1>3 DEF IInv, ReportInv
<1>7. AveragedInv'
  <2>1. CASE NarrativeRaises(table)
    BY <1>2, <2>1 DEF IInv, AveragedInv
  <2>2. CASE ~NarrativeRaises(table)
    BY <1>2, <1>3, <2>2 DEF AveragedInv
  <2> QED
    BY <2>1, <2>2
<1>8. AveragedFromTrials'
  <2>1. CASE NarrativeRaises(table)
    BY <1>1, <1>2, <2>1 DEF IInv, AveragedFromTrials, LastAveraged, TrialsOf
  <2>2. CASE ~NarrativeRaises(table)
    <3> DEFINE With(key) == {t \in TrialsOf(run) : key \in DOMAIN reports[t].shows.rows}
               average(key) == Mean([t \in With(key) |-> reports[t].shows.rows[key][1]])
    <3>1. md.rows = [key \in {x \in Keys : table[x] # None} |-> table[key]]
      BY DEF build_markdown
    <3>2. \A key \in Keys : (table[key] # None <=> With(key) # {}) /\ table[key] = average(key)
      BY <1>1, AverageOfReports
    <3> HIDE DEF table, average
    <3>3. md.rows = [key \in {x \in Keys : With(x) # {}} |-> average(key)]
      BY <3>1, <3>2
    <3>4. averaged'.shows.rows = [key \in {x \in Keys : With(x) # {}} |-> average(key)]
      BY <1>2, <2>2, <3>3
    <3>5. (averaged.run)' = run /\ TrialsOf(averaged.run)' = TrialsOf(run)
      BY <1>1, <1>2, <2>2 DEF TrialsOf
    <3> QED
      BY <1>1, <3>4, <3>5 DEF AveragedFromTrials, average
  <2> QED
    BY <2>1, <2>2
<1>9. DrawnInv'
  BY <1>1 DEF IInv, DrawnInv
<1>10. TogetherInv'
  <2>1. New = {} /\ New' = {}
    BY <1>1 DEF New
  <2> QED
    BY <1>1, <2>1 DEF IInv, TogetherInv
<1>11. EndedInv'
  BY <1>1, <1>3 DEF EndedInv
<1> QED
  BY <1>4, <1>5, <1>6, <1>7, <1>8, <1>9, <1>10, <1>11 DEF IInv

\* The functions that draw a figure of the fan-in study.  Only the first can
\* meet an entry that there is not.
LEMMA FigureStep ==
  ASSUME IInv, NEW n \in Fanin, NEW at, NEW next, NEW what, figure(n, at, next, what),
         <<n, at, next>> \in {<<9, "fig09", "fig10">>, <<10, "fig10", "fig11">>,
                              <<11, "fig11", "fig12">>, <<12, "fig12", "fig13">>,
                              <<13, "fig13", "idle">>},
         n = 9 => what = Means(avg), n = 11 => what = GapRatios(avg), n = 13 => what = avg
  PROVE  IInv'
<1>1. /\ pc = at
      /\ UNCHANGED <<tree, todo, script, run, args, tables, reports, averaged>>
      /\ HasAll(avg) => pc' = next
      /\ ~HasAll(avg) => pc' = "idle" /\ figures' = figures
  BY DEF figure, goto, resultVars
<1>2. /\ script = "plots" /\ Len(tables) = Len(args) /\ Len(args) # 0 /\ run # 0
      /\ tables \in Seq(Table) /\ run \in Nat
      /\ figures = [f \in Midterm \cup Fanin |-> figures[f]]
  BY <1>1 DEF IInv, StageInv, TypeInv
<1>3. /\ figures' = [f \in Midterm \cup Fanin |-> figures'[f]]
      /\ \A f \in Fanin : f # n => figures'[f] = figures[f]
      /\ HasAll(avg) => figures'[n].run = run /\ figures'[n].from = tables
                        /\ figures'[n].shows = what
  <2>1. CASE HasAll(avg)
    <3>1. figures' = [f \in Midterm \cup Fanin |-> IF f \in {n} THEN Made(what) ELSE figures[f]]
      BY <1>2, <2>1 DEF figure, draw
    <3>2. figures'[n] = Made(what)
      BY <3>1
    <3> QED
      BY <3>1, <3>2 DEF Made
  <2>2. CASE ~HasAll(avg)
    BY <1>1, <1>2, <2>2
  <2> QED
    BY <2>1, <2>2
<1>4. TypeInv'
  BY <1>1, <1>3 DEF IInv, TypeInv
<1>5. StageInv'
  BY <1>1, <1>2 DEF IInv, StageInv
<1>6. ReportInv'
  BY <1>1, <1>2 DEF ReportInv
<1>7. AveragedInv'
  BY <1>1 DEF IInv, AveragedInv
<1>8. AveragedFromTrials'
  BY <1>1 DEF IInv, AveragedFromTrials, LastAveraged, TrialsOf
<1>9. DrawnInv'
  <2>1. CASE ~HasAll(avg)
    BY <1>1, <2>1 DEF IInv, DrawnInv
  <2>2. CASE HasAll(avg)
    BY <1>2, <1>3, <2>2 DEF IInv, DrawnInv, avg
  <2> QED
    BY <2>1, <2>2
<1>10. (~HasAll(avg)) => n = 9 /\ New = {}
  BY <1>1 DEF IInv, TogetherInv, New
<1>11. CASE HasAll(avg)
  <2>1. New = 9 .. n - 1 /\ New' = IF n = 13 THEN {} ELSE 9 .. n
    <3>1. CASE n = 9
      BY <1>1, <1>11, <3>1 DEF New
    <3>2. CASE n = 10
      BY <1>1, <1>11, <3>2 DEF New
    <3>3. CASE n = 11
      BY <1>1, <1>11, <3>3 DEF New
    <3>4. CASE n = 12
      BY <1>1, <1>11, <3>4 DEF New
    <3>5. CASE n = 13
      BY <1>1, <1>11, <3>5 DEF New
    <3> QED
      BY <3>1, <3>2, <3>3, <3>4, <3>5 DEF Fanin
  <2>2. HasAll(avg)'
    BY <1>1, <1>11 DEF avg
  <2>3. /\ \A f \in 9 .. n - 1 : figures[f].run = run /\ figures[f].from = tables
        /\ \A f, g \in Fanin \ (9 .. n - 1) : /\ figures[f].run = figures[g].run
                                              /\ figures[f].from = figures[g].from
    BY <2>1 DEF IInv, TogetherInv
  <2>4. \A f \in 9 .. n : figures'[f].run = run /\ figures'[f].from = tables
    BY <1>3, <1>11, <2>3 DEF Fanin
  <2>5. TogetherInv'
    BY <1>1, <1>3, <2>1, <2>2, <2>3, <2>4 DEF TogetherInv, Fanin
  <2>6. EndedInv'
    BY <1>1, <1>11, <2>4 DEF EndedInv, Fanin
  <2> QED
    BY <1>4, <1>5, <1>6, <1>7, <1>8, <1>9, <2>5, <2>6 DEF IInv
<1>12. CASE ~HasAll(avg)
  <2>1. TogetherInv'
    <3>1. New' = {}
      BY <1>1, <1>12 DEF New
    <3> QED
      BY <1>1, <1>10, <1>12, <3>1 DEF IInv, TogetherInv
  <2>2. EndedInv'
    <3>1. DOMAIN avg = {key \in Keys : Having(tables, key) # {}}
      BY <1>2, AcrossTrials DEF avg
    <3>2. PICK label \in Labels, fi \in fan_ins(avg) : <<label, fi>> \notin DOMAIN avg
      BY <1>12 DEF HasAll
    <3>3. fi \in FanIn /\ <<label, fi>> \in Keys
      BY <3>1 DEF fan_ins, Keys
    <3>4. \A m \in DOMAIN tables : tables[m][<<label, fi>>] = 0
      BY <3>1, <3>2, <3>3 DEF Having
    <3> QED
      BY <1>1, <3>3, <3>4 DEF EndedInv
  <2> QED
    BY <1>4, <1>5, <1>6, <1>7, <1>8, <1>9, <2>1, <2>2 DEF IInv
<1> QED
  BY <1>11, <1>12

\* Every step keeps the invariant.
LEMMA StepIInv == IInv /\ [Next]_vars => IInv'
<1> SUFFICES ASSUME IInv, [Next]_vars PROVE IInv'
  OBVIOUS
<1>1. CASE Driver
  BY <1>1, DriverStep
<1>2. CASE Report
  BY <1>2, StartReportStep, CollectOneTrialStep, WriteAveragedStep DEF Report
<1>3. CASE Plots
  <2>1. {9, 10, 11, 12, 13} \subseteq Fanin
    BY DEF Fanin
  <2>2. CASE plot_fanin_p99
    BY <2>1, <2>2, FigureStep DEF plot_fanin_p99
  <2>3. CASE plot_fanin_percentile_stack
    BY <2>1, <2>3, FigureStep DEF plot_fanin_percentile_stack
  <2>4. CASE plot_fanin_gap_ratio
    BY <2>1, <2>4, FigureStep DEF plot_fanin_gap_ratio
  <2>5. CASE plot_fanin_fairness
    BY <2>1, <2>5, FigureStep DEF plot_fanin_fairness
  <2>6. CASE plot_fanin_errorbars
    BY <2>1, <2>6, FigureStep DEF plot_fanin_errorbars
  <2> QED
    BY <1>3, <2>2, <2>3, <2>4, <2>5, <2>6, StartPlotsStep, CollectPerTrialStep DEF Plots
<1>4. CASE UNCHANGED vars
  <2>1. UNCHANGED <<tree, todo, pc, script, run, args, tables, reports, averaged, figures>>
    BY <1>4 DEF vars, resultVars, scriptVars, outputVars
  <2>2. TypeInv' /\ StageInv' /\ ReportInv' /\ EndedInv'
    BY <2>1, ZenonT(60) DEF IInv, TypeInv, StageInv, ReportInv, EndedInv
  <2>3. AveragedInv'
    BY <2>1 DEF IInv, AveragedInv
  <2>4. AveragedFromTrials'
    BY <2>1 DEF IInv, AveragedFromTrials, LastAveraged, TrialsOf
  <2>5. DrawnInv'
    BY <2>1 DEF IInv, DrawnInv
  <2>6. TogetherInv'
    BY <2>1 DEF IInv, TogetherInv, New, avg
  <2> QED
    BY <2>2, <2>3, <2>4, <2>5, <2>6 DEF IInv
<1> QED
  BY <1>1, <1>2, <1>3, <1>4 DEF Next, Finished

\* The invariant holds in every behaviour of run_fanin.sh and the two scripts.
THEOREM Invariance == Spec => []IInv
BY InitIInv, StepIInv, PTL DEF Spec

-----------------------------------------------------------------------------
\* The averaged report of fanin_report.py is the average of the trial reports
\* it was written with, whatever run_fanin.sh has stored in between.
THEOREM AveragesAreOfTrials == Spec => []AveragedFromTrials
<1>1. IInv => AveragedFromTrials
  BY DEF IInv
<1> QED
  BY <1>1, Invariance, PTL

\* fanin_report.py leaves an averaged report of its own just when it has read
\* all its trials and its conclusion has the values that it divides.
LEMMA AveragedOrNot == IInv => AveragedUnlessBaseMissing
<1> SUFFICES ASSUME IInv, pc = "idle", script = "report" PROVE AveragedUnlessBaseMissing
  BY DEF AveragedUnlessBaseMissing
<1> DEFINE ts == TrialsOf(run)
           Shown(label, fi) == \E t \in ts : <<label, fi>> \in DOMAIN reports[t].shows.rows
           Compared(fi) == Shown("Homa", fi) /\ Shown("TCP DCTCP-32", fi)
           table == average_trials(tables)
<1>1. /\ tables \in Seq(Table) /\ args \in Seq(Trial) /\ Len(tables) <= Len(args)
      /\ \A m, n \in 1 .. Len(args) : args[m] = args[n] => m = n
  BY DEF IInv, StageInv, TypeInv
<1>2. /\ \A t \in Trial : reports[t].run = run <=> \E m \in 1 .. Len(tables) : args[m] = t
      /\ \A m \in 1 .. Len(tables) :
           reports[args[m]].shows = build_markdown(average_trials(<<tables[m]>>))
      /\ averaged.run = run <=> Len(tables) = Len(args) /\ ~NarrativeRaises(table)
  BY DEF IInv, ReportInv
<1>3. \A t : t \in ts <=> t \in Trial /\ \E m \in 1 .. Len(tables) : args[m] = t
  BY <1>2 DEF TrialsOf
<1>4. (\A m \in DOMAIN args : args[m] \in ts) <=> Len(tables) = Len(args)
  <2>1. /\ DOMAIN args = 1 .. Len(args) /\ Len(args) \in Nat /\ Len(tables) \in Nat
        /\ \A m \in 1 .. Len(args) : args[m] \in Trial
    BY <1>1
  <2>2. ASSUME Len(tables) = Len(args) PROVE \A m \in DOMAIN args : args[m] \in ts
    BY <1>3, <2>1, <2>2
  <2>3. ASSUME \A m \in DOMAIN args : args[m] \in ts PROVE Len(tables) = Len(args)
    <3> SUFFICES ASSUME Len(tables) # Len(args) PROVE FALSE
      OBVIOUS
    <3> DEFINE k == Len(args)
    <3>1. k \in 1 .. Len(args) /\ k \notin 1 .. Len(tables)
      BY <1>1, <2>1
    <3>2. PICK m \in 1 .. Len(tables) : args[m] = args[k]
      BY <1>3, <2>1, <2>3, <3>1
    <3>3. m \in 1 .. Len(args)
      BY <1>1, <2>1
    <3> QED
      BY <1>1, <3>1, <3>2, <3>3
  <2> QED
    BY <2>2, <2>3
<1>5. ASSUME NEW label \in Labels, NEW fi \in FanIn
      PROVE  Known(table, label, fi) <=> Shown(label, fi)
  <2> DEFINE key == <<label, fi>>
  <2>1. key \in Keys
    BY DEF Keys
  <2>2. table[key] # None <=> Having(tables, key) # {}
    BY <1>1, <2>1, AverageOfEntries
  <2>3. ASSUME NEW m \in 1 .. Len(tables)
        PROVE  key \in DOMAIN reports[args[m]].shows.rows <=> tables[m][key] # 0
    <3>1. tables[m] \in Table
      BY <1>1
    <3> DEFINE rows == build_markdown(average_trials(<<tables[m]>>)).rows
    <3>2. DOMAIN rows = {x \in Keys : tables[m][x] # 0}
      BY <3>1, TrialReport
    <3>3. reports[args[m]].shows.rows = rows
      BY <1>2
    <3> HIDE DEF rows
    <3> QED
      BY <2>1, <3>2, <3>3
  <2>4. DOMAIN tables = 1 .. Len(tables) /\ \A m \in 1 .. Len(tables) : args[m] \in Trial
    BY <1>1
  <2> HIDE DEF key
  <2>5. Having(tables, key) # {} <=> \E t \in ts : key \in DOMAIN reports[t].shows.rows
    <3> HIDE DEF ts
    <3> QED
      BY <1>3, <2>3, <2>4 DEF Having
  <2> QED
    BY <2>2, <2>5 DEF Known, key
<1>6. fi_min \in FanIn /\ fi_max \in FanIn /\ "Homa" \in Labels /\ "TCP DCTCP-32" \in Labels
  <2>1. 1 \in DOMAIN FanIns /\ Len(FanIns) \in DOMAIN FanIns
    BY FanInsAssumption
  <2> QED
    BY <2>1 DEF fi_min, fi_max, FanIn, Labels
<1>7. NarrativeRaises(table) <=> Compared(fi_max) /\ ~Compared(fi_min)
  <2> HIDE DEF Shown, table
  <2> QED
    BY <1>5, <1>6 DEF NarrativeRaises, Conclusion
<1>8. (averaged.run = run) <=> /\ \A m \in DOMAIN args : args[m] \in ts
                               /\ Compared(fi_max) => Compared(fi_min)
  <2> HIDE DEF Compared, table, ts
  <2> QED
    BY <1>2, <1>4, <1>7
<1> QED
  BY <1>8 DEF AveragedUnlessBaseMissing

\* fanin_report.py: exactly when the averaged report is its own.
THEOREM ReportIsAveraged == Spec => []AveragedUnlessBaseMissing
BY AveragedOrNot, Invariance, PTL

\* make_plots.py: the five figures of the fan-in study are of one run.
THEOREM FiguresAreTogether == Spec => []FiguresTogether
<1>1. IInv => FiguresTogether
  <2> SUFFICES ASSUME IInv, pc \in {"idle", "collect"} PROVE FiguresTogether
    BY DEF FiguresTogether
  <2>1. New = {}
    BY DEF New
  <2> QED
    BY <2>1 DEF IInv, TogetherInv, EndedInv, FiguresTogether
<1> QED
  BY <1>1, Invariance, PTL

\* Report and figures that were made from the same tables show the same.
LEMMA SameShown == IInv => ReportAndFiguresAgree
<1> SUFFICES ASSUME IInv, averaged.run # 0, figures[13].run # 0,
                    averaged.from = figures[13].from
             PROVE  ReportAndFiguresAgree
  BY DEF ReportAndFiguresAgree
<1> DEFINE ts == averaged.from
           table == average_across_trials(ts)
           md == build_markdown(average_trials(ts))
<1>1. /\ ts \in Seq(Table) /\ ts # <<>>
      /\ averaged.shows.rows = md.rows /\ averaged.shows.gaps = md.gaps
  BY DEF IInv, AveragedInv
<1>2. 9 \in Fanin /\ 11 \in Fanin /\ 13 \in Fanin
  BY DEF Fanin
<1>3. figures[13].shows = table /\ HasAll(table)
  BY <1>2 DEF IInv, DrawnInv
<1>4. Means(table) = md.rows /\ GapRatios(table) = md.gaps
  BY <1>1, <1>3, SameTables
<1>5. figures[9].from = ts => figures[9].shows = Means(table)
  BY <1>1, <1>2 DEF IInv, DrawnInv
<1>6. figures[11].from = ts => figures[11].shows = GapRatios(table)
  BY <1>1, <1>2 DEF IInv, DrawnInv
<1>7. \A key \in DOMAIN table :
        LET bar == table[key]
            mean == average_trials(ts)[key]
        IN /\ bar.mean = mean
           /\ bar.min * mean[2] <= mean[1] /\ mean[1] <= bar.max * mean[2]
  BY <1>1, AcrossTrials
<1>8. DOMAIN table = DOMAIN md.rows /\ \A key \in DOMAIN table : md.rows[key] = table[key].mean
  <2> HIDE DEF table, md
  <2> QED
    BY <1>4 DEF Means
<1> HIDE DEF table, md, ts
<1>9. \A key \in DOMAIN table :
        LET bar == table[key]
            mean == md.rows[key]
        IN /\ bar.mean = mean
           /\ bar.min * mean[2] <= mean[1] /\ mean[1] <= bar.max * mean[2]
  BY <1>7, <1>8
<1> QED
  BY <1>1, <1>3, <1>4, <1>5, <1>6, <1>8, <1>9 DEF ReportAndFiguresAgree, ts

\* fanin_report.py and make_plots.py, which average by code of their own, agree.
THEOREM ReportAndFiguresShowTheSame == Spec => []ReportAndFiguresAgree
BY SameShown, Invariance, PTL

-----------------------------------------------------------------------------
\* Folds in general.  The step of a fold is a function, and so is the choice of
\* the element that is taken out next: with values in a set Y there is a
\* function on the subsets of S that satisfies the fold's equation.
Folds(g, S, base, ch, step) ==
  \A s \in SUBSET S :
    g[s] = IF s = {} THEN base ELSE step[<<ch[s], g[s \ {ch[s]}]>>]

LEMMA FoldExists ==
  ASSUME NEW S, IsFiniteSet(S), NEW Y, NEW base \in Y,
         NEW ch, \A s \in SUBSET S : s # {} => ch[s] \in s,
         NEW step \in [S \X Y -> Y]
  PROVE  \E g \in [SUBSET S -> Y] : Folds(g, S, base, ch, step)
<1> DEFINE Level(n) == {s \in SUBSET S : Cardinality(s) <= n}
           Good(g, n) ==
             \A s \in Level(n) :
               g[s] = IF s = {} THEN base ELSE step[<<ch[s], g[s \ {ch[s]}]>>]
           N == {n \in Nat : \E g \in [Level(n) -> Y] : Good(g, n)}
<1>1. \A s \in SUBSET S : IsFiniteSet(s) /\ Cardinality(s) \in Nat
                          /\ Cardinality(s) <= Cardinality(S)
  BY FS_Subset, FS_CardinalityType
<1>2. 0 \in N
  <2> DEFINE g == [s \in Level(0) |-> base]
  <2>1. \A s \in Level(0) : s = {}
    BY <1>1, FS_EmptySet
  <2>2. g \in [Level(0) -> Y] /\ Good(g, 0)
    BY <2>1
  <2> QED
    BY <2>2
<1>3. ASSUME NEW n \in N PROVE n + 1 \in N
  <2>1. n \in Nat /\ n + 1 \in Nat
    OBVIOUS
  <2>2. PICK g \in [Level(n) -> Y] : Good(g, n)
    OBVIOUS
  <2> DEFINE h == [s \in Level(n + 1) |->
                     IF s = {} THEN base ELSE step[<<ch[s], g[s \ {ch[s]}]>>]]
  <2>3. ASSUME NEW s \in Level(n + 1), s # {}
        PROVE  s \ {ch[s]} \in Level(n) /\ ch[s] \in S
    <3>0. ch[s] \in s /\ s \in SUBSET S /\ IsFiniteSet(s)
      BY <1>1, <2>3
    <3>1. /\ Cardinality(s \ {ch[s]}) = Cardinality(s) - 1
          /\ Cardinality(s) \in Nat /\ Cardinality(s) <= n + 1
      BY <1>1, <3>0, FS_RemoveElement
    <3>2. Cardinality(s \ {ch[s]}) <= n
      BY <2>1, <3>1
    <3> QED
      BY <3>0, <3>2
  <2>4. ASSUME NEW t \in Level(n) PROVE h[t] = g[t]
    <3>1. t \in Level(n + 1)
      BY <1>1, <2>1
    <3>3. g[t] = IF t = {} THEN base ELSE step[<<ch[t], g[t \ {ch[t]}]>>]
      BY <2>2
    <3> HIDE DEF Level
    <3>2. h[t] = IF t = {} THEN base ELSE step[<<ch[t], g[t \ {ch[t]}]>>]
      BY <3>1
    <3> QED
      BY <3>2, <3>3
  <2>5. \A s \in Level(n + 1) : s # {} => h[s \ {ch[s]}] = g[s \ {ch[s]}]
    <3> HIDE DEF Level, h
    <3> QED
      BY <2>3, <2>4
  <2>6. Good(h, n + 1)
    <3> HIDE DEF Level
    <3> QED
      BY <2>5
  <2>7. h \in [Level(n + 1) -> Y]
    <3>1. ASSUME NEW s \in Level(n + 1), s # {}
          PROVE  step[<<ch[s], g[s \ {ch[s]}]>>] \in Y
      <4> HIDE DEF Level
      <4>1. g[s \ {ch[s]}] \in Y /\ ch[s] \in S
        BY <2>3, <3>1
      <4> QED
        BY <4>1
    <3> HIDE DEF Level
    <3> QED
      BY <3>1
  <2> HIDE DEF h, Good, Level
  <2> QED
    BY <2>1, <2>6, <2>7
<1>4. N = Nat
  <2> HIDE DEF N
  <2>1. N \in SUBSET Nat
    BY DEF N
  <2> QED
    BY <1>2, <1>3, <2>1, SetInduction
<1>5. Cardinality(S) \in N
  BY <1>4, FS_CardinalityType
<1>6. Level(Cardinality(S)) = SUBSET S
  BY <1>1
<1>7. PICK g \in [SUBSET S -> Y] : Good(g, Cardinality(S))
  BY <1>5, <1>6
<1> QED
  BY <1>6, <1>7 DEF Folds

\* Two functions that take out the same elements agree.
Alike(g, h, S, ch) ==
  /\ \A s \in SUBSET S : s # {} => ch[s] \in s
  /\ g[{}] = h[{}]
  /\ \A s \in SUBSET S :
       s # {} /\ g[s \ {ch[s]}] = h[s \ {ch[s]}] => g[s] = h[s]

LEMMA FoldsAgree ==
  ASSUME NEW S, IsFiniteSet(S), NEW g, NEW h, NEW ch, Alike(g, h, S, ch)
  PROVE  Agree(g, h, SUBSET S)
<1> USE DEF Alike, Agree
<1> DEFINE N == {n \in Nat : \A s \in SUBSET S : Cardinality(s) = n => g[s] = h[s]}
<1>1. \A s \in SUBSET S : IsFiniteSet(s) /\ Cardinality(s) \in Nat
  BY FS_Subset, FS_CardinalityType
<1>2. 0 \in N
  <2>1. \A s \in SUBSET S : Cardinality(s) = 0 => s = {}
    BY <1>1, FS_EmptySet
  <2> QED
    BY <2>1
<1>3. ASSUME NEW n \in N PROVE n + 1 \in N
  <2> SUFFICES ASSUME NEW s \in SUBSET S, Cardinality(s) = n + 1 PROVE g[s] = h[s]
    OBVIOUS
  <2>1. n \in Nat /\ n + 1 # 0 /\ (n + 1) - 1 = n
    OBVIOUS
  <2>2. s # {}
    BY <2>1, FS_EmptySet
  <2>3. Cardinality(s \ {ch[s]}) = n /\ s \ {ch[s]} \in SUBSET S
    <3>1. ch[s] \in s /\ IsFiniteSet(s)
      BY <1>1, <2>2
    <3>2. Cardinality(s \ {ch[s]}) = Cardinality(s) - 1
      BY <3>1, FS_RemoveElement
    <3> QED
      BY <2>1, <3>2
  <2>4. g[s \ {ch[s]}] = h[s \ {ch[s]}]
    BY <2>3
  <2> QED
    BY <2>2, <2>4
<1>4. N = Nat
  <2> HIDE DEF N
  <2>1. N \in SUBSET Nat
    BY DEF N
  <2> QED
    BY <1>2, <1>3, <2>1, SetInduction
<1> QED
  BY <1>1, <1>4

-----------------------------------------------------------------------------
\* The product of the values of f on S.
Product(f, S) == FoldFunctionOnSet(LAMBDA x, y : x * y, 1, f, S)

Multiplies(g, f, D) ==
  g = [s \in D |-> IF s = {} THEN 1 ELSE f[Chosen(s)] * g[s \ {Chosen(s)}]]

LEMMA ProductDef ==
  ASSUME NEW f, NEW S
  PROVE  Product(f, S) = (CHOOSE g : Multiplies(g, f, SUBSET S))[S]
BY DEF Product, FoldFunctionOnSet, MapThenFoldSet, Multiplies, Chosen

LEMMA ProductSolved ==
  ASSUME NEW f, NEW S, IsFiniteSet(S), \A x \in S : f[x] \in Nat
  PROVE  \E g : Multiplies(g, f, SUBSET S) /\ Product(f, S) = g[S]
<1> DEFINE ch == [s \in SUBSET S |-> Chosen(s)]
           step == [p \in S \X Nat |-> f[p[1]] * p[2]]
<1>1. \A s \in SUBSET S : s # {} => ch[s] \in s /\ ch[s] = Chosen(s)
  BY DEF Chosen
<1>2. step \in [S \X Nat -> Nat]
  <2>1. \A p \in S \X Nat : f[p[1]] * p[2] \in Nat
    OBVIOUS
  <2> QED
    BY <2>1
<1>3. \E g \in [SUBSET S -> Nat] : Folds(g, S, 1, ch, step)
  <2> HIDE DEF ch, step
  <2>1. 1 \in Nat
    OBVIOUS
  <2>2. \A s \in SUBSET S : s # {} => ch[s] \in s
    BY <1>1
  <2> QED
    BY <1>2, <2>1, <2>2, FoldExists
<1>4. PICK g \in [SUBSET S -> Nat] : Folds(g, S, 1, ch, step)
  BY <1>3
<1>5. Multiplies(g, f, SUBSET S)
  <2>1. ASSUME NEW s \in SUBSET S
        PROVE  g[s] = IF s = {} THEN 1 ELSE f[Chosen(s)] * g[s \ {Chosen(s)}]
    <3>1. g[s] = IF s = {} THEN 1 ELSE step[<<ch[s], g[s \ {ch[s]}]>>]
      BY <1>4 DEF Folds
    <3>2. s # {} => ch[s] = Chosen(s) /\ <<ch[s], g[s \ {ch[s]}]>> \in S \X Nat
      <4> HIDE DEF ch
      <4> QED
        BY <1>1
    <3>3. \A p \in S \X Nat : step[p] = f[p[1]] * p[2]
      OBVIOUS
    <3> HIDE DEF step, ch
    <3> QED
      BY <3>1, <3>2, <3>3
  <2> QED
    BY <2>1 DEF Multiplies
<1> DEFINE h == CHOOSE x : Multiplies(x, f, SUBSET S)
<1>6. Multiplies(h, f, SUBSET S)
  BY <1>5
<1>7. Product(f, S) = h[S]
  BY ProductDef
<1> QED
  BY <1>6, <1>7

\* One factor after the other; any element may be the factor taken out.
LEMMA ProductUnfold ==
  ASSUME NEW f, NEW S, IsFiniteSet(S), \A x \in S : f[x] \in Nat
  PROVE  /\ S = {} => Product(f, S) = 1
         /\ S # {} => Product(f, S) = f[Chosen(S)] * Product(f, S \ {Chosen(S)})
<1> DEFINE T == S \ {Chosen(S)}
<1>1. T \subseteq S /\ IsFiniteSet(T) /\ \A x \in T : f[x] \in Nat
  BY FS_Subset
<1>2. T = S \ {Chosen(S)}
  OBVIOUS
<1> HIDE DEF T
<1>3. PICK g : Multiplies(g, f, SUBSET S) /\ Product(f, S) = g[S]
  BY ProductSolved
<1>4. PICK h : Multiplies(h, f, SUBSET T) /\ Product(f, T) = h[T]
  BY <1>1, ProductSolved
<1>5. \A s \in SUBSET S :
        g[s] = IF s = {} THEN 1 ELSE f[Chosen(s)] * g[s \ {Chosen(s)}]
  BY <1>3 DEF Multiplies
<1>6. \A s \in SUBSET T :
        h[s] = IF s = {} THEN 1 ELSE f[Chosen(s)] * h[s \ {Chosen(s)}]
  BY <1>4 DEF Multiplies
<1>7. g[T] = h[T]
  <2> DEFINE ch == [s \in SUBSET T |-> Chosen(s)]
  <2>1. \A s \in SUBSET T : ch[s] = Chosen(s) /\ (s # {} => ch[s] \in s)
    BY DEF Chosen
  <2> HIDE DEF ch
  <2>2. g[{}] = h[{}]
    BY <1>5, <1>6
  <2>3. \A s \in SUBSET T :
          s # {} /\ g[s \ {ch[s]}] = h[s \ {ch[s]}] => g[s] = h[s]
    <3> SUFFICES ASSUME NEW s \in SUBSET T, s # {}, g[s \ {ch[s]}] = h[s \ {ch[s]}]
                 PROVE  g[s] = h[s]
      OBVIOUS
    <3>1. g[s] = f[Chosen(s)] * g[s \ {Chosen(s)}]
      BY <1>1, <1>5
    <3>2. h[s] = f[Chosen(s)] * h[s \ {Chosen(s)}]
      BY <1>6
    <3> QED
      BY <2>1, <3>1, <3>2
  <2>4. \A s \in SUBSET T : s # {} => ch[s] \in s
    BY <2>1
  <2>5. Alike(g, h, T, ch)
    BY <2>2, <2>3, <2>4 DEF Alike
  <2>6. Agree(g, h, SUBSET T)
    BY <1>1, <2>5, FoldsAgree
  <2> QED
    BY <2>6 DEF Agree
<1> QED
  BY <1>2, <1>3, <1>4, <1>5, <1>7

LEMMA ProductOfNaturals ==
  ASSUME NEW f, NEW S, IsFiniteSet(S), \A x \in S : f[x] \in Nat
  PROVE  /\ Product(f, S) \in Nat
         /\ \A x \in S : Product(f, S) = f[x] * Product(f, S \ {x})
<1> DEFINE Good(s) == /\ Product(f, s) \in Nat
                      /\ \A x \in s : Product(f, s) = f[x] * Product(f, s \ {x})
           N == {n \in Nat : \A s \in SUBSET S : Cardinality(s) <= n => Good(s)}
<1>1. \A s \in SUBSET S : IsFiniteSet(s) /\ Cardinality(s) \in Nat
  BY FS_Subset, FS_CardinalityType
<1>0. \A s \in SUBSET S : \A x \in s : f[x] \in Nat
  OBVIOUS
<1>2. Good({})
  <2>1. IsFiniteSet({})
    BY FS_EmptySet
  <2>2. Product(f, {}) = 1
    BY <1>0, <2>1, ProductUnfold
  <2> QED
    BY <2>2
<1>3. 0 \in N
  <2>1. \A s \in SUBSET S : Cardinality(s) <= 0 => s = {}
    BY <1>1, FS_EmptySet
  <2> HIDE DEF Good
  <2> QED
    BY <1>2, <2>1
<1>4. ASSUME NEW n \in N PROVE n + 1 \in N
  <2> SUFFICES ASSUME NEW s \in SUBSET S, Cardinality(s) <= n + 1 PROVE Good(s)
    BY DEF N
  <2>1. n \in Nat /\ \A t \in SUBSET S : Cardinality(t) <= n => Good(t)
    BY DEF N
  <2>2. CASE s = {}
    BY <1>2, <2>2
  <2>3. CASE s # {}
    <3> DEFINE c == Chosen(s)
    <3>1. /\ c \in s /\ Cardinality(s \ {c}) = Cardinality(s) - 1
          /\ Cardinality(s) \in Nat
      BY <1>1, <2>3, ChosenRemoved
    <3>2. Good(s \ {c})
      <4>1. Cardinality(s \ {c}) <= n
        BY <2>1, <3>1
      <4> HIDE DEF Good, c
      <4> QED
        BY <2>1, <4>1
    <3>3. Product(f, s) = f[c] * Product(f, s \ {c})
      BY <1>0, <1>1, <2>3, ProductUnfold
    <3> HIDE DEF c
    <3>4. f[c] \in Nat /\ Product(f, s) \in Nat
      BY <3>1, <3>2, <3>3
    <3>5. ASSUME NEW x \in s PROVE Product(f, s) = f[x] * Product(f, s \ {x})
      <4>1. CASE x = c
        BY <3>3, <4>1
      <4>2. CASE x # c
        <5>1. Cardinality(s \ {x}) <= n
          BY <1>1, <2>1, <3>1, FS_RemoveElement
        <5>2. Good(s \ {x})
          <6> HIDE DEF Good
          <6> QED
            BY <2>1, <5>1
        <5>3. Product(f, s \ {x}) = f[c] * Product(f, (s \ {x}) \ {c})
          BY <3>1, <4>2, <5>2
        <5>4. Product(f, s \ {c}) = f[x] * Product(f, (s \ {c}) \ {x})
          BY <3>2, <4>2
        <5>5. (s \ {x}) \ {c} = (s \ {c}) \ {x}
          OBVIOUS
        <5>6. Product(f, (s \ {c}) \ {x}) \in Nat
          <6>1. /\ (s \ {x}) \ {c} \in SUBSET S
                /\ s \ {x} \in SUBSET S
                /\ Cardinality((s \ {x}) \ {c}) <= Cardinality(s \ {x})
            BY <1>1, FS_Subset
          <6>2. Cardinality((s \ {x}) \ {c}) <= n
            BY <1>1, <2>1, <5>1, <6>1
          <6> QED
            BY <2>1, <5>5, <6>1, <6>2
        <5>7. f[x] \in Nat
          OBVIOUS
        <5>8. \A a, b, q \in Nat : a * (b * q) = b * (a * q)
          OBVIOUS
        <5>9. f[c] * (f[x] * Product(f, (s \ {c}) \ {x}))
                = f[x] * (f[c] * Product(f, (s \ {c}) \ {x}))
          BY <3>4, <5>6, <5>7, <5>8
        <5> QED
          BY <3>3, <5>3, <5>4, <5>5, <5>9
      <4> QED
        BY <4>1, <4>2
    <3> QED
      BY <3>4, <3>5
  <2> QED
    BY <2>2, <2>3
<1>5. N = Nat
  <2> HIDE DEF N
  <2>1. N \in SUBSET Nat
    BY DEF N
  <2> QED
    BY <1>3, <1>4, <2>1, SetInduction
<1>6. \A n \in Nat : \A s \in SUBSET S : Cardinality(s) <= n => Good(s)
  BY <1>5
<1> HIDE DEF Good
<1>7. Good(S)
  BY <1>1, <1>6
<1> QED
  BY <1>7 DEF Good

\* Positive factors have a positive product.
LEMMA ProductPositive ==
  ASSUME NEW f, NEW S, IsFiniteSet(S), \A x \in S : f[x] \in Nat \ {0}
  PROVE  Product(f, S) \in Nat \ {0}
<1> DEFINE P == {T \in SUBSET S : Product(f, T) \in Nat \ {0}}
<1>1. \A T \in SUBSET S : IsFiniteSet(T) /\ \A x \in T : f[x] \in Nat
  BY FS_Subset
<1>2. {} \in P
  <2>1. Product(f, {}) = 1
    BY <1>1, ProductUnfold
  <2> QED
    BY <2>1
<1>3. ASSUME NEW T \in P, NEW x \in S \ T PROVE T \cup {x} \in P
  <2>1. T \cup {x} \in SUBSET S /\ (T \cup {x}) \ {x} = T /\ x \in T \cup {x}
    OBVIOUS
  <2>2. Product(f, T \cup {x}) = f[x] * Product(f, T)
    BY <1>1, <2>1, ProductOfNaturals
  <2>3. \A a, b \in Nat \ {0} : a * b \in Nat \ {0}
    OBVIOUS
  <2>4. f[x] \in Nat \ {0} /\ Product(f, T) \in Nat \ {0}
    OBVIOUS
  <2> QED
    BY <2>1, <2>2, <2>3, <2>4
<1> HIDE DEF P
<1>4. P \in SUBSET (SUBSET S)
  BY DEF P
<1>5. S \in P
  BY <1>2, <1>3, <1>4, FiniteInduction
<1> QED
  BY <1>5 DEF P

\* What holds of {} and of a set when it holds without the element taken out,
\* holds of every finite set.
LEMMA TakeOutInduction ==
  ASSUME NEW S, IsFiniteSet(S), NEW ch, \A s \in SUBSET S : s # {} => ch[s] \in s,
         NEW P \in SUBSET (SUBSET S), {} \in P,
         \A s \in SUBSET S : s # {} /\ s \ {ch[s]} \in P => s \in P
  PROVE  S \in P
<1> DEFINE N == {n \in Nat : \A s \in SUBSET S : Cardinality(s) = n => s \in P}
<1>1. \A s \in SUBSET S : IsFiniteSet(s) /\ Cardinality(s) \in Nat
  BY FS_Subset, FS_CardinalityType
<1>2. 0 \in N
  <2>1. \A s \in SUBSET S : Cardinality(s) = 0 => s = {}
    BY <1>1, FS_EmptySet
  <2> QED
    BY <2>1
<1>3. ASSUME NEW n \in N PROVE n + 1 \in N
  <2> SUFFICES ASSUME NEW s \in SUBSET S, Cardinality(s) = n + 1 PROVE s \in P
    OBVIOUS
  <2>1. n \in Nat /\ n + 1 # 0 /\ (n + 1) - 1 = n
    OBVIOUS
  <2>2. s # {}
    BY <2>1, FS_EmptySet
  <2>3. IsFiniteSet(s) /\ \E c \in s : c = ch[s]
    BY <1>1, <2>2
  <2>4. PICK c \in s : c = ch[s]
    BY <2>3
  <2>5. Cardinality(s \ {c}) = n /\ s \ {c} \in SUBSET S
    <3>1. Cardinality(s \ {c}) = Cardinality(s) - 1
      BY <2>3, FS_RemoveElement
    <3> QED
      BY <2>1, <3>1
  <2>6. s \ {c} \in P
    BY <2>5
  <2> QED
    BY <2>2, <2>4, <2>6
<1>4. N = Nat
  <2> HIDE DEF N
  <2>1. N \in SUBSET Nat
    BY DEF N
  <2> QED
    BY <1>2, <1>3, <2>1, SetInduction
<1> QED
  BY <1>1, <1>4

-----------------------------------------------------------------------------
\* Sorting.
LeastOf(vs) == CHOOSE v \in vs : \A w \in vs : v <= w
Same(f, v) == [n \in 1 .. Multiplicity(f, v) |-> v]
Orders(g, f, D) ==
  g = [s \in D |-> IF s = {} THEN <<>>
                   ELSE Same(f, LeastOf(s)) \o g[s \ {LeastOf(s)}]]

\* A function on a finite set with natural values, of samples.
Sampled(f) == IsFiniteSet(DOMAIN f) /\ \A x \in DOMAIN f : f[x] \in Nat

\* How many of them are in s, and how many of these are at most v.
Among(f, s) == {x \in DOMAIN f : f[x] \in s}
AtMost(f, s, v) == {x \in DOMAIN f : f[x] \in s /\ f[x] <= v}

LEMMA SortedDef ==
  ASSUME NEW f
  PROVE  Sorted(f) = (CHOOSE g : Orders(g, f, SUBSET Range(f)))[Range(f)]
BY DEF Sorted, MapThenFoldSet, Orders, LeastOf, Same

LEMMA LeastOfIs ==
  ASSUME NEW s \in SUBSET Nat, s # {}
  PROVE  LeastOf(s) \in s /\ \A w \in s : LeastOf(s) <= w
<1>1. \E v \in s : \A w \in s : v <= w
  BY Least
<1> QED
  BY <1>1 DEF LeastOf

LEMMA SampledFacts ==
  ASSUME NEW f, Sampled(f)
  PROVE  /\ IsFiniteSet(Range(f)) /\ Range(f) \in SUBSET Nat
         /\ \A v : Multiplicity(f, v) \in Nat
         /\ \A s : IsFiniteSet(Among(f, s)) /\ Cardinality(Among(f, s)) \in Nat
         /\ \A s, v : IsFiniteSet(AtMost(f, s, v)) /\ Cardinality(AtMost(f, s, v)) \in Nat
<1>1. IsFiniteSet(DOMAIN f) /\ Range(f) \in SUBSET Nat
  BY DEF Sampled, Range
<1>2. \A A \in SUBSET DOMAIN f : IsFiniteSet(A) /\ Cardinality(A) \in Nat
  BY <1>1, FS_Subset, FS_CardinalityType
<1>3. IsFiniteSet(Range(f))
  <2> DEFINE F == [x \in DOMAIN f |-> f[x]]
  <2>1. IsFiniteSet({F[x] : x \in DOMAIN f})
    <3>1. F \in Surjection(DOMAIN f, {F[x] : x \in DOMAIN f})
      BY DEF Surjection
    <3> HIDE DEF F
    <3> QED
      BY <1>1, <3>1, FS_Surjection
  <2>2. Range(f) = {F[x] : x \in DOMAIN f}
    BY DEF Range
  <2> QED
    BY <2>1, <2>2
<1>4. /\ \A v : {x \in DOMAIN f : f[x] = v} \in SUBSET DOMAIN f
      /\ \A s : Among(f, s) \in SUBSET DOMAIN f
      /\ \A s, v : AtMost(f, s, v) \in SUBSET DOMAIN f
  BY DEF Among, AtMost
<1> QED
  BY <1>1, <1>2, <1>3, <1>4 DEF Multiplicity

LEMMA SortedSolved ==
  ASSUME NEW f, Sampled(f)
  PROVE  \E g : Orders(g, f, SUBSET Range(f)) /\ Sorted(f) = g[Range(f)]
<1> DEFINE S == Range(f)
           ch == [s \in SUBSET S |-> LeastOf(s)]
           step == [p \in S \X Seq(Nat) |-> Same(f, p[1]) \o p[2]]
<1>0. IsFiniteSet(S) /\ S \in SUBSET Nat /\ \A v : Multiplicity(f, v) \in Nat
  BY SampledFacts
<1> HIDE DEF S
<1>1. \A s \in SUBSET S : s # {} => ch[s] \in s /\ ch[s] = LeastOf(s)
  BY <1>0, LeastOfIs
<1>2. step \in [S \X Seq(Nat) -> Seq(Nat)]
  <2>1. ASSUME NEW p \in S \X Seq(Nat) PROVE Same(f, p[1]) \o p[2] \in Seq(Nat)
    <3>1. p[1] \in Nat /\ p[2] \in Seq(Nat) /\ Multiplicity(f, p[1]) \in Nat
      BY <1>0
    <3>2. Same(f, p[1]) \in Seq(Nat)
      BY <3>1 DEF Same
    <3> QED
      BY <3>1, <3>2
  <2> QED
    BY <2>1
<1>3. PICK g \in [SUBSET S -> Seq(Nat)] : Folds(g, S, <<>>, ch, step)
  <2> HIDE DEF ch, step
  <2>1. <<>> \in Seq(Nat)
    OBVIOUS
  <2>2. \A s \in SUBSET S : s # {} => ch[s] \in s
    BY <1>1
  <2> QED
    BY <1>0, <1>2, <2>1, <2>2, FoldExists
<1>4. Orders(g, f, SUBSET S)
  <2>1. ASSUME NEW s \in SUBSET S
        PROVE  g[s] = IF s = {} THEN <<>>
                      ELSE Same(f, LeastOf(s)) \o g[s \ {LeastOf(s)}]
    <3>1. g[s] = IF s = {} THEN <<>> ELSE step[<<ch[s], g[s \ {ch[s]}]>>]
      BY <1>3 DEF Folds
    <3>2. s # {} => ch[s] = LeastOf(s) /\ <<ch[s], g[s \ {ch[s]}]>> \in S \X Seq(Nat)
      <4> HIDE DEF ch
      <4> QED
        BY <1>1
    <3>3. \A p \in S \X Seq(Nat) : step[p] = Same(f, p[1]) \o p[2]
      OBVIOUS
    <3> HIDE DEF step, ch
    <3> QED
      BY <3>1, <3>2, <3>3
  <2> QED
    BY <2>1 DEF Orders
<1> DEFINE h == CHOOSE x : Orders(x, f, SUBSET S)
<1>5. Orders(h, f, SUBSET S)
  BY <1>4
<1>6. Sorted(f) = h[S]
  BY SortedDef DEF S
<1> QED
  BY <1>5, <1>6 DEF S

\* The rank of a value: the k-th in order is at most v just when k of the
\* samples are.
Ranked(t, f, s) ==
  /\ t \in Seq(Nat) /\ Len(t) = Cardinality(Among(f, s))
  /\ \A k \in 1 .. Len(t), v \in Nat : t[k] <= v <=> k <= Cardinality(AtMost(f, s, v))

\* A place of two sequences in one.
LEMMA PlaceInConcat ==
  ASSUME NEW a \in Seq(Nat), NEW b \in Seq(Nat), NEW k \in 1 .. Len(a) + Len(b)
  PROVE  (a \o b)[k] = IF k <= Len(a) THEN a[k] ELSE b[k - Len(a)]
OBVIOUS

LEMMA RankedStep ==
  ASSUME NEW f, Sampled(f), NEW s \in SUBSET Range(f), s # {},
         NEW t, Ranked(t, f, s \ {LeastOf(s)})
  PROVE  Ranked(Same(f, LeastOf(s)) \o t, f, s)
<1> DEFINE m == LeastOf(s)
           r == s \ {m}
           K == Multiplicity(f, m)
           L == Cardinality(Among(f, r))
           E == {x \in DOMAIN f : f[x] = m}
           u == Same(f, m) \o t
<1>1. /\ s \in SUBSET Nat /\ m \in s /\ m \in Nat /\ \A w \in s : m <= w
      /\ K \in Nat /\ L \in Nat
  <2>1. s \in SUBSET Nat /\ K \in Nat /\ L \in Nat
    BY SampledFacts
  <2> QED
    BY <2>1, LeastOfIs
<1>2. t \in Seq(Nat) /\ Len(t) = L
  BY DEF Ranked
<1>3. /\ IsFiniteSet(E) /\ Cardinality(E) = K /\ E \in SUBSET DOMAIN f
      /\ IsFiniteSet(Among(f, r)) /\ Among(f, r) \in SUBSET DOMAIN f
      /\ \A v \in Nat : IsFiniteSet(AtMost(f, r, v)) /\ Cardinality(AtMost(f, r, v)) \in Nat
  <2>1. IsFiniteSet(E)
    BY FS_Subset DEF Sampled
  <2> QED
    BY <2>1, SampledFacts DEF Multiplicity, Among
<1>4. Cardinality(Among(f, s)) = K + L
  <2>1. Among(f, s) = E \cup Among(f, r) /\ E \cap Among(f, r) = {}
    BY <1>1 DEF Among
  <2>2. Cardinality(E \cup Among(f, r)) =
          Cardinality(E) + Cardinality(Among(f, r)) - Cardinality(E \cap Among(f, r))
    BY <1>3, FS_Union
  <2>3. Cardinality(E \cap Among(f, r)) = 0
    BY <2>1, FS_EmptySet
  <2>4. Cardinality(Among(f, s)) = Cardinality(E) + Cardinality(Among(f, r)) - 0
    BY <2>1, <2>2, <2>3
  <2>5. Cardinality(E) = K /\ Cardinality(Among(f, r)) = L
    BY <1>3
  <2> HIDE DEF K, L, E, r
  <2> QED
    BY <1>1, <2>4, <2>5
<1>5. ASSUME NEW v \in Nat
      PROVE  Cardinality(AtMost(f, s, v)) =
               IF m <= v THEN K + Cardinality(AtMost(f, r, v)) ELSE 0
  <2>1. CASE m <= v
    <3>1. AtMost(f, s, v) = E \cup AtMost(f, r, v) /\ E \cap AtMost(f, r, v) = {}
      BY <1>1, <2>1 DEF AtMost
    <3>2. Cardinality(E \cup AtMost(f, r, v)) =
            Cardinality(E) + Cardinality(AtMost(f, r, v))
              - Cardinality(E \cap AtMost(f, r, v))
      BY <1>3, FS_Union
    <3>3. Cardinality(E \cap AtMost(f, r, v)) = 0
      BY <3>1, FS_EmptySet
    <3>4. Cardinality(AtMost(f, r, v)) \in Nat
      BY <1>3
    <3>5. Cardinality(AtMost(f, s, v)) =
            Cardinality(E) + Cardinality(AtMost(f, r, v)) - 0
      BY <3>1, <3>2, <3>3
    <3>6. Cardinality(E) = K
      BY <1>3
    <3> HIDE DEF K, E, r, m
    <3> QED
      BY <1>1, <2>1, <3>4, <3>5, <3>6
  <2>2. CASE ~(m <= v)
    <3>1. AtMost(f, s, v) = {}
      <4> SUFFICES ASSUME NEW x \in AtMost(f, s, v) PROVE FALSE
        OBVIOUS
      <4>1. f[x] \in s /\ f[x] \in Nat /\ f[x] <= v
        BY <1>1 DEF AtMost
      <4> HIDE DEF m
      <4> QED
        BY <1>1, <2>2, <4>1
    <3> QED
      BY <2>2, <3>1, FS_EmptySet
  <2> QED
    BY <2>1, <2>2
<1>6. ASSUME NEW v \in Nat, ~(m <= v) PROVE Cardinality(AtMost(f, r, v)) = 0
  <2>1. AtMost(f, r, v) = {}
    <3> SUFFICES ASSUME NEW x \in AtMost(f, r, v) PROVE FALSE
      OBVIOUS
    <3>1. f[x] \in s /\ f[x] \in Nat /\ f[x] <= v
      BY <1>1 DEF AtMost
    <3> HIDE DEF m
    <3> QED
      BY <1>1, <1>6, <3>1
  <2> QED
    BY <2>1, FS_EmptySet
<1>7. Same(f, m) \in Seq(Nat) /\ Len(Same(f, m)) = K /\ \A k \in 1 .. K : Same(f, m)[k] = m
  BY <1>1 DEF Same
<1>8. /\ u \in Seq(Nat) /\ Len(u) = K + L
      /\ \A k \in 1 .. K + L : u[k] = IF k <= K THEN m ELSE t[k - K]
  <2> HIDE DEF m, K, L
  <2>1. u \in Seq(Nat) /\ Len(u) = K + L
    BY <1>1, <1>2, <1>7
  <2>2. ASSUME NEW k \in 1 .. K + L PROVE u[k] = IF k <= K THEN m ELSE t[k - K]
    <3>1. u[k] = IF k <= K THEN Same(f, m)[k] ELSE t[k - K]
      BY <1>2, <1>7, PlaceInConcat
    <3>2. k <= K => k \in 1 .. K
      BY <1>1
    <3> HIDE DEF u
    <3> QED
      BY <1>7, <3>1, <3>2
  <2> QED
    BY <2>1, <2>2
<1>9. ASSUME NEW k \in 1 .. L, NEW v \in Nat
      PROVE  t[k] <= v <=> k <= Cardinality(AtMost(f, r, v))
  BY <1>2 DEF Ranked
<1> HIDE DEF m, r, K, L, E, u
<1>10. ASSUME NEW k \in 1 .. K + L, NEW v \in Nat
       PROVE  u[k] <= v <=> k <= Cardinality(AtMost(f, s, v))
  <2> DEFINE A == Cardinality(AtMost(f, r, v))
             B == Cardinality(AtMost(f, s, v))
  <2>1. A \in Nat /\ B = (IF m <= v THEN K + A ELSE 0) /\ (~(m <= v) => A = 0)
    BY <1>3, <1>5, <1>6
  <2>2. CASE k <= K
    <3>1. u[k] = m
      BY <1>8, <2>2
    <3>2. B = Cardinality(AtMost(f, s, v)) /\ K \in Nat /\ m \in Nat /\ k \in Nat /\ k > 0
      BY <1>1
    <3> HIDE DEF A, B
    <3> QED
      BY <2>1, <2>2, <3>1, <3>2
  <2>3. CASE ~(k <= K)
    <3>1. u[k] = t[k - K] /\ k - K \in 1 .. L /\ k \in Nat
      BY <1>1, <1>8, <2>3
    <3>2. t[k - K] <= v <=> k - K <= A
      BY <1>9, <3>1
    <3>3. B = Cardinality(AtMost(f, s, v)) /\ K \in Nat
      BY <1>1
    <3> HIDE DEF A, B
    <3>4. k - K <= A <=> k <= B
      BY <2>1, <2>3, <3>1, <3>3
    <3> QED
      BY <3>1, <3>2, <3>3, <3>4
  <2> QED
    BY <2>2, <2>3
<1> QED
  BY <1>4, <1>8, <1>10 DEF Ranked, m, u

\* The samples that are at most v, or below v.
Upto(f, v) == {x \in DOMAIN f : f[x] <= v}
Below(f, v) == {x \in DOMAIN f : f[x] < v}

LEMMA SortedRanks ==
  ASSUME NEW f, Sampled(f)
  PROVE  /\ Sorted(f) \in Seq(Nat) /\ Len(Sorted(f)) = Cardinality(DOMAIN f)
         /\ \A k \in 1 .. Len(Sorted(f)), v \in Nat :
              Sorted(f)[k] <= v <=> k <= Cardinality(Upto(f, v))
<1> DEFINE S == Range(f)
           ch == [s \in SUBSET S |-> LeastOf(s)]
<1>1. PICK g : Orders(g, f, SUBSET S) /\ Sorted(f) = g[S]
  BY SortedSolved
<1> DEFINE P == {s \in SUBSET S : Ranked(g[s], f, s)}
<1>2. IsFiniteSet(S) /\ S \in SUBSET Nat
  BY SampledFacts
<1>3. \A s \in SUBSET S : ch[s] = LeastOf(s)
  OBVIOUS
<1>4. \A s \in SUBSET S : s # {} => ch[s] \in s
  <2> HIDE DEF ch, S
  <2> QED
    BY <1>2, <1>3, LeastOfIs
<1>5. \A s \in SUBSET S : g[s] = IF s = {} THEN <<>>
                                 ELSE Same(f, LeastOf(s)) \o g[s \ {LeastOf(s)}]
  BY <1>1 DEF Orders
<1>6. {} \in P
  <2>1. g[{}] = <<>>
    BY <1>5
  <2>2. Among(f, {}) = {}
    BY DEF Among
  <2>3. Cardinality(Among(f, {})) = 0
    BY <2>2, FS_EmptySet
  <2>4. Ranked(<<>>, f, {})
    BY <2>3 DEF Ranked
  <2> QED
    BY <2>1, <2>4
<1>7. ASSUME NEW s \in SUBSET S, s # {}, s \ {ch[s]} \in P PROVE s \in P
  <2>1. Ranked(g[s \ {LeastOf(s)}], f, s \ {LeastOf(s)})
    BY <1>3, <1>7
  <2>2. Ranked(Same(f, LeastOf(s)) \o g[s \ {LeastOf(s)}], f, s)
    BY <1>7, <2>1, RankedStep
  <2> QED
    BY <1>5, <1>7, <2>2
<1>8. S \in P
  <2> HIDE DEF P, S, ch
  <2>1. P \in SUBSET (SUBSET S)
    BY DEF P
  <2> QED
    BY <1>2, <1>4, <1>6, <1>7, <2>1, TakeOutInduction, ZenonT(60)
<1>9. Ranked(Sorted(f), f, Range(f))
  BY <1>1, <1>8
<1>10. Among(f, Range(f)) = DOMAIN f /\ \A v : AtMost(f, Range(f), v) = Upto(f, v)
  BY DEF Among, AtMost, Upto, Range
<1> QED
  BY <1>9, <1>10 DEF Ranked

LEMMA UptoFacts ==
  ASSUME NEW f, Sampled(f)
  PROVE  /\ Cardinality(DOMAIN f) \in Nat
         /\ \A v : /\ IsFiniteSet(Upto(f, v)) /\ Cardinality(Upto(f, v)) \in Nat
                   /\ Cardinality(Upto(f, v)) <= Cardinality(DOMAIN f)
                   /\ IsFiniteSet(Below(f, v)) /\ Cardinality(Below(f, v)) \in Nat
         /\ Cardinality(Below(f, 0)) = 0
         /\ \A v \in Nat \ {0} : v - 1 \in Nat /\ Below(f, v) = Upto(f, v - 1)
<1>1. \A v : Upto(f, v) \in SUBSET DOMAIN f /\ Below(f, v) \in SUBSET DOMAIN f
  BY DEF Upto, Below
<1>2. \A A \in SUBSET DOMAIN f : /\ IsFiniteSet(A) /\ Cardinality(A) \in Nat
                                 /\ Cardinality(A) <= Cardinality(DOMAIN f)
  BY FS_Subset, FS_CardinalityType DEF Sampled
<1>3. Cardinality(DOMAIN f) \in Nat
  BY <1>2
<1>4. Below(f, 0) = {}
  BY DEF Below, Sampled
<1>5. Cardinality(Below(f, 0)) = 0
  BY <1>4, FS_EmptySet
<1>6. ASSUME NEW v \in Nat \ {0} PROVE v - 1 \in Nat /\ Below(f, v) = Upto(f, v - 1)
  <2>1. \A x \in DOMAIN f : f[x] < v <=> f[x] <= v - 1
    BY DEF Sampled
  <2> QED
    BY <2>1 DEF Below, Upto
<1> QED
  BY <1>1, <1>2, <1>3, <1>5, <1>6

\* The samples below and up to the k-th in order, which is one of them.
LEMMA SortedAt ==
  ASSUME NEW f, Sampled(f), NEW k \in 1 .. Len(Sorted(f))
  PROVE  LET v == Sorted(f)[k] IN
         /\ v \in Nat /\ v \in Range(f)
         /\ Cardinality(Below(f, v)) < k /\ k <= Cardinality(Upto(f, v))
<1> DEFINE t == Sorted(f)
           v == t[k]
<1>1. /\ t \in Seq(Nat) /\ k \in Nat /\ k > 0 /\ v \in Nat
      /\ \A w \in Nat : v <= w <=> k <= Cardinality(Upto(f, w))
  BY SortedRanks
<1> HIDE DEF t
<1>2. k <= Cardinality(Upto(f, v))
  BY <1>1
<1>3. Cardinality(Below(f, v)) < k
  <2>1. CASE v = 0
    BY <1>1, <2>1, UptoFacts
  <2>2. CASE v # 0
    <3>1. v - 1 \in Nat /\ Below(f, v) = Upto(f, v - 1) /\ Cardinality(Below(f, v)) \in Nat
      BY <1>1, <2>2, UptoFacts
    <3>2. ~(v <= v - 1)
      BY <1>1
    <3>3. ~(k <= Cardinality(Upto(f, v - 1)))
      BY <1>1, <3>1, <3>2
    <3> QED
      BY <1>1, <3>1, <3>3
  <2> QED
    BY <2>1, <2>2
<1>4. v \in Range(f)
  <2> SUFFICES ASSUME v \notin Range(f) PROVE FALSE
    OBVIOUS
  <2>1. \A x \in DOMAIN f : f[x] # v /\ f[x] \in Nat
    BY DEF Range, Sampled
  <2>2. \A x \in DOMAIN f : f[x] <= v <=> f[x] < v
    <3> HIDE DEF v
    <3> QED
      BY <1>1, <2>1
  <2>3. Upto(f, v) = Below(f, v)
    BY <2>2 DEF Upto, Below
  <2>4. Cardinality(Upto(f, v)) \in Nat
    BY UptoFacts
  <2> QED
    BY <1>1, <1>2, <1>3, <2>3, <2>4
<1> QED
  BY <1>1, <1>2, <1>3, <1>4 DEF t

LEMMA SortedAscending ==
  ASSUME NEW f, Sampled(f), NEW k \in 1 .. Len(Sorted(f)), NEW l \in 1 .. Len(Sorted(f)), k <= l
  PROVE  Sorted(f)[k] <= Sorted(f)[l]
<1> DEFINE t == Sorted(f)
           C == Cardinality(Upto(f, t[l]))
<1>1. t[l] \in Nat /\ l <= C
  BY SortedAt
<1>2. C \in Nat
  BY UptoFacts
<1>3. k <= C
  BY <1>1, <1>2
<1> QED
  BY <1>1, <1>3, SortedRanks

\* A sample with so many others below it, and so many up to it, is the k-th.
LEMMA RankIs ==
  ASSUME NEW f, Sampled(f), NEW k \in 1 .. Len(Sorted(f)), NEW v \in Nat,
         Cardinality(Below(f, v)) < k, Cardinality(Upto(f, v)) >= k
  PROVE  v = Sorted(f)[k]
<1> DEFINE w == Sorted(f)[k]
<1>1. w \in Nat /\ k <= Cardinality(Upto(f, w)) /\ k \in Nat
  BY SortedAt
<1>2. Cardinality(Upto(f, v)) \in Nat /\ Cardinality(Below(f, v)) \in Nat
  BY UptoFacts
<1>3. w <= v
  BY <1>2, SortedRanks
<1>4. ASSUME w < v PROVE FALSE
  <2>1. v # 0 /\ w <= v - 1 /\ v - 1 \in Nat
    BY <1>1, <1>4
  <2>2. k <= Cardinality(Upto(f, v - 1))
    BY <2>1, SortedRanks
  <2>3. Upto(f, v - 1) = Below(f, v)
    BY <2>1, UptoFacts
  <2> QED
    BY <1>1, <1>2, <2>2, <2>3
<1> HIDE DEF w
<1>5. v = w
  BY <1>1, <1>3, <1>4
<1> QED
  BY <1>5 DEF w

LEMMA SmallestIs ==
  ASSUME NEW f, Sampled(f), NEW k \in 1 .. Len(Sorted(f))
  PROVE  Smallest(f, k) = Sorted(f)[k]
<1> DEFINE Is(v) == Cardinality(Below(f, v)) < k /\ Cardinality(Upto(f, v)) >= k
<1>1. Smallest(f, k) = CHOOSE v \in Range(f) : Is(v)
  BY DEF Smallest, Below, Upto
<1>2. Is(Sorted(f)[k]) /\ Sorted(f)[k] \in Range(f)
  <2>1. Cardinality(Upto(f, Sorted(f)[k])) \in Nat
    BY UptoFacts
  <2> QED
    BY <2>1, SortedAt
<1>3. \A v \in Range(f) : Is(v) => v = Sorted(f)[k]
  <2>1. Range(f) \subseteq Nat
    BY SampledFacts
  <2> QED
    BY <2>1, RankIs
<1> HIDE DEF Is
<1> QED
  BY <1>1, <1>2, <1>3

\* The nearest rank of p thousandths of n samples is p n / 1000, rounded up.
Rank(p, n) == (p * n + 999) \div 1000

LEMMA RankBounds ==
  ASSUME NEW p \in Percentiles, NEW n \in Nat \ {0}
  PROVE  /\ Rank(p, n) \in 1 .. n
         /\ \A c \in Nat : (1000 * c >= p * n) <=> (c >= Rank(p, n))
         /\ \A c \in Nat : (1000 * c < p * n) <=> (c < Rank(p, n))
<1> DEFINE r(q) == (q + 999) \div 1000
<1>1. ASSUME NEW q \in Nat
      PROVE  /\ r(q) \in Nat
             /\ \A c \in Nat : 1000 * c >= q <=> c >= r(q)
             /\ \A c \in Nat : 1000 * c < q <=> c < r(q)
  OBVIOUS
<1>2. p * n \in Nat /\ 1 <= p * n /\ p * n <= 1000 * n
  BY DEF Percentiles
<1>3. Rank(p, n) = r(p * n)
  BY DEF Rank
<1>4. r(p * n) \in Nat /\ r(p * n) >= 1 /\ r(p * n) <= n
  <2>1. \A q \in Nat : 1 <= q /\ q <= 1000 * n => r(q) >= 1 /\ r(q) <= n
    OBVIOUS
  <2> QED
    BY <1>1, <1>2, <2>1
<1> HIDE DEF r
<1> QED
  BY <1>1, <1>2, <1>3, <1>4

LEMMA NearestRankIs ==
  ASSUME NEW s \in Seq(Nat), s # <<>>, NEW p \in Percentiles
  PROVE  /\ Rank(p, Len(s)) \in 1 .. Len(Sorted(s))
         /\ NearestRank(s, p) = Sorted(s)[Rank(p, Len(s))]
<1> DEFINE n == Len(s)
           k == Rank(p, n)
           Is(v) == /\ 1000 * Cardinality(Upto(s, v)) >= p * n
                    /\ 1000 * Cardinality(Below(s, v)) < p * n
<1>0. Sampled(s) /\ n \in Nat \ {0} /\ Len(Sorted(s)) = n
  <2>1. DOMAIN s = 1 .. n /\ n \in Nat \ {0}
    OBVIOUS
  <2>2. IsFiniteSet(DOMAIN s) /\ Cardinality(DOMAIN s) = n
    BY <2>1, FS_Interval
  <2>3. Sampled(s)
    BY <2>1, <2>2 DEF Sampled
  <2> QED
    BY <2>1, <2>2, <2>3, SortedRanks
<1>1. k \in 1 .. n
  BY <1>0, RankBounds
<1>2. NearestRank(s, p) = CHOOSE v \in Range(s) : Is(v)
  BY DEF NearestRank, Below, Upto
<1>3. ASSUME NEW v \in Nat
      PROVE  Is(v) <=> Cardinality(Below(s, v)) < k /\ Cardinality(Upto(s, v)) >= k
  <2>1. Cardinality(Below(s, v)) \in Nat /\ Cardinality(Upto(s, v)) \in Nat
    BY <1>0, UptoFacts
  <2> DEFINE cu == Cardinality(Upto(s, v))
             cb == Cardinality(Below(s, v))
  <2>2. /\ 1000 * cu >= p * n <=> cu >= k
        /\ 1000 * cb < p * n <=> cb < k
    <3>1. cu \in Nat /\ cb \in Nat /\ n \in Nat \ {0}
      BY <1>0, <2>1
    <3> HIDE DEF n, cu, cb
    <3>2. (1000 * cu >= p * n) <=> (cu >= Rank(p, n))
      BY <3>1, RankBounds
    <3>3. (1000 * cb < p * n) <=> (cb < Rank(p, n))
      BY <3>1, RankBounds
    <3> QED
      BY <3>2, <3>3
  <2> QED
    BY <2>2
<1>4. Range(s) \subseteq Nat
  BY <1>0, SampledFacts
<1>5. Is(Sorted(s)[k]) /\ Sorted(s)[k] \in Range(s)
  <2>1. /\ Sorted(s)[k] \in Nat /\ Sorted(s)[k] \in Range(s)
        /\ Cardinality(Below(s, Sorted(s)[k])) < k
        /\ k <= Cardinality(Upto(s, Sorted(s)[k]))
    BY <1>0, <1>1, SortedAt
  <2>2. Cardinality(Upto(s, Sorted(s)[k])) \in Nat
    BY <1>0, UptoFacts
  <2> HIDE DEF Is, k
  <2> QED
    BY <1>1, <1>3, <2>1, <2>2
<1>6. \A v \in Range(s) : Is(v) => v = Sorted(s)[k]
  <2> SUFFICES ASSUME NEW v \in Range(s), Is(v) PROVE v = Sorted(s)[k]
    OBVIOUS
  <2> HIDE DEF Is, k, n
  <2>1. v \in Nat /\ Cardinality(Below(s, v)) < k /\ Cardinality(Upto(s, v)) >= k
    BY <1>3, <1>4
  <2> QED
    BY <1>0, <1>1, <2>1, RankIs
<1> HIDE DEF Is, k
<1> QED
  BY <1>0, <1>1, <1>2, <1>5, <1>6 DEF k

-----------------------------------------------------------------------------
\* Sorting keeps the number of the samples of each value, and their total.
LEMMA SortedIsSampled ==
  ASSUME NEW f, Sampled(f)
  PROVE  /\ Sampled(Sorted(f)) /\ DOMAIN Sorted(f) = 1 .. Len(Sorted(f))
         /\ \A v \in Nat : Cardinality(Upto(Sorted(f), v)) = Cardinality(Upto(f, v))
<1> DEFINE t == Sorted(f)
           N == Len(t)
<1>1. /\ t \in Seq(Nat) /\ N = Cardinality(DOMAIN f) /\ N \in Nat
      /\ \A k \in 1 .. N, v \in Nat : t[k] <= v <=> k <= Cardinality(Upto(f, v))
  BY SortedRanks
<1>2. DOMAIN t = 1 .. N /\ \A k \in 1 .. N : t[k] \in Nat
  BY <1>1
<1>3. Sampled(t)
  <2>1. IsFiniteSet(1 .. N)
    BY <1>1, FS_Interval
  <2> QED
    BY <1>2, <2>1 DEF Sampled
<1>4. ASSUME NEW v \in Nat
      PROVE  Cardinality(Upto(t, v)) = Cardinality(Upto(f, v))
  <2> DEFINE C == Cardinality(Upto(f, v))
  <2>1. C \in Nat /\ C <= N
    BY <1>1, UptoFacts
  <2>2. Upto(t, v) = {k \in 1 .. N : k <= C}
    BY <1>1, <1>2 DEF Upto
  <2> HIDE DEF C, N, t
  <2>3. {k \in 1 .. N : k <= C} = 1 .. C
    BY <1>1, <2>1
  <2>4. Cardinality(1 .. C) = C
    BY <2>1, FS_Interval
  <2> QED
    BY <2>2, <2>3, <2>4 DEF C
<1> QED
  BY <1>2, <1>3, <1>4

\* The order depends only on how many samples are at most each value.
LEMMA SortedSame ==
  ASSUME NEW f, NEW g, Sampled(f), Sampled(g), Cardinality(DOMAIN f) = Cardinality(DOMAIN g),
         \A v \in Nat : Cardinality(Upto(f, v)) = Cardinality(Upto(g, v))
  PROVE  Sorted(f) = Sorted(g)
<1> DEFINE t == Sorted(f)
           u == Sorted(g)
<1>1. /\ t \in Seq(Nat) /\ u \in Seq(Nat) /\ Len(t) = Len(u)
      /\ \A k \in 1 .. Len(t), v \in Nat : t[k] <= v <=> k <= Cardinality(Upto(f, v))
      /\ \A k \in 1 .. Len(u), v \in Nat : u[k] <= v <=> k <= Cardinality(Upto(g, v))
  BY SortedRanks
<1> HIDE DEF t, u
<1>2. ASSUME NEW k \in 1 .. Len(t) PROVE t[k] = u[k]
  <2>1. t[k] \in Nat /\ u[k] \in Nat /\ k \in 1 .. Len(u)
    BY <1>1
  <2>2. \A v \in Nat : t[k] <= v <=> u[k] <= v
    BY <1>1, <2>1
  <2>3. t[k] <= u[k] /\ u[k] <= t[k]
    BY <2>1, <2>2
  <2> QED
    BY <2>1, <2>3
<1>3. t = u
  BY <1>1, <1>2, SMTT(30)
<1> QED
  BY <1>3 DEF t, u

LEMMA SortedTwice ==
  ASSUME NEW f, Sampled(f)
  PROVE  Sorted(Sorted(f)) = Sorted(f)
<1>1. /\ Sampled(Sorted(f)) /\ DOMAIN Sorted(f) = 1 .. Len(Sorted(f))
      /\ \A v \in Nat : Cardinality(Upto(Sorted(f), v)) = Cardinality(Upto(f, v))
  BY SortedIsSampled
<1>2. Len(Sorted(f)) = Cardinality(DOMAIN f) /\ Len(Sorted(f)) \in Nat
  BY SortedRanks, UptoFacts
<1>3. Cardinality(DOMAIN Sorted(f)) = Cardinality(DOMAIN f)
  BY <1>1, <1>2, FS_Interval
<1> QED
  BY <1>1, <1>3, SortedSame

LEMMA MultiplicityIs ==
  ASSUME NEW f, Sampled(f), NEW v \in Nat
  PROVE  /\ Multiplicity(f, v) = Cardinality(Upto(f, v))
                                   - (IF v = 0 THEN 0 ELSE Cardinality(Upto(f, v - 1)))
         /\ v \in Range(f) <=> Multiplicity(f, v) # 0
<1> DEFINE E == {x \in DOMAIN f : f[x] = v}
<1>1. /\ Upto(f, v) = Below(f, v) \cup E /\ Below(f, v) \cap E = {}
  <2>1. \A x \in DOMAIN f : /\ f[x] <= v <=> f[x] < v \/ f[x] = v
                            /\ ~(f[x] < v /\ f[x] = v)
    BY DEF Sampled
  <2> QED
    BY <2>1 DEF Upto, Below
<1>2. /\ IsFiniteSet(E) /\ Cardinality(E) \in Nat
      /\ IsFiniteSet(Below(f, v)) /\ Cardinality(Below(f, v)) \in Nat
  <2>1. IsFiniteSet(E)
    BY FS_Subset DEF Sampled
  <2> QED
    BY <2>1, FS_CardinalityType, UptoFacts
<1>3. Cardinality(Below(f, v) \cup E) =
        Cardinality(Below(f, v)) + Cardinality(E) - Cardinality(Below(f, v) \cap E)
  BY <1>2, FS_Union
<1>4. Cardinality(Below(f, v) \cap E) = 0
  BY <1>1, FS_EmptySet
<1>5. Cardinality(Upto(f, v)) = Cardinality(Below(f, v)) + Cardinality(E)
  BY <1>1, <1>2, <1>3, <1>4
<1>6. Cardinality(Below(f, v)) = IF v = 0 THEN 0 ELSE Cardinality(Upto(f, v - 1))
  BY UptoFacts
<1>7. v \in Range(f) <=> E # {}
  BY DEF Range
<1>8. E # {} <=> Cardinality(E) # 0
  BY <1>2, FS_EmptySet
<1>9. Multiplicity(f, v) = Cardinality(E)
  BY DEF Multiplicity
<1> HIDE DEF E
<1> QED
  BY <1>2, <1>5, <1>6, <1>7, <1>8, <1>9

LEMMA SortedKeeps ==
  ASSUME NEW f, Sampled(f)
  PROVE  /\ \A v \in Nat : Multiplicity(Sorted(f), v) = Multiplicity(f, v)
         /\ Range(Sorted(f)) = Range(f)
<1>1. Sampled(Sorted(f))
  BY SortedIsSampled
<1>2. ASSUME NEW v \in Nat PROVE Multiplicity(Sorted(f), v) = Multiplicity(f, v)
  <2>1. Cardinality(Upto(Sorted(f), v)) = Cardinality(Upto(f, v))
    BY SortedIsSampled
  <2>2. v # 0 => Cardinality(Upto(Sorted(f), v - 1)) = Cardinality(Upto(f, v - 1))
    BY SortedIsSampled
  <2> QED
    BY <1>1, <2>1, <2>2, MultiplicityIs
<1>3. \A v \in Nat : v \in Range(Sorted(f)) <=> v \in Range(f)
  BY <1>1, <1>2, MultiplicityIs
<1>4. Range(Sorted(f)) \subseteq Nat /\ Range(f) \subseteq Nat
  BY <1>1, SampledFacts
<1> QED
  BY <1>2, <1>3, <1>4

Weighted(f) == [v \in Range(f) |-> v * Multiplicity(f, v)]

LEMMA TotalIsSum ==
  ASSUME NEW f
  PROVE  Total(f) = Sum(Weighted(f), Range(f))
<1> DEFINE D == SUBSET Range(f)
           Is(g) == g = [s \in D |-> IF s = {} THEN 0
                           ELSE Chosen(s) * Multiplicity(f, Chosen(s))
                                  + g[s \ {Chosen(s)}]]
<1>1. Total(f) = (CHOOSE g : Is(g))[Range(f)]
  BY DEF Total, MapThenSumSet, MapThenFoldSet, Chosen
<1>2. ASSUME NEW g PROVE Is(g) <=> Solves(g, Weighted(f), D)
  <2>1. \A s \in D : s # {} => Weighted(f)[Chosen(s)] = Chosen(s) * Multiplicity(f, Chosen(s))
    BY DEF Weighted, Chosen
  <2>2. [s \in D |-> IF s = {} THEN 0
                     ELSE Chosen(s) * Multiplicity(f, Chosen(s)) + g[s \ {Chosen(s)}]]
        = [s \in D |-> IF s = {} THEN 0
                       ELSE Weighted(f)[Chosen(s)] + g[s \ {Chosen(s)}]]
    BY <2>1
  <2> QED
    BY <2>2 DEF Solves
<1> HIDE DEF Is, D
<1>3. (CHOOSE g : Is(g)) = (CHOOSE g : Solves(g, Weighted(f), D))
  BY <1>2
<1> QED
  BY <1>1, <1>3, SumDef DEF D

LEMMA SortedTotal ==
  ASSUME NEW f, Sampled(f)
  PROVE  Total(Sorted(f)) = Total(f)
<1>1. Weighted(Sorted(f)) = Weighted(f)
  BY SortedKeeps, SampledFacts DEF Weighted
<1> QED
  BY <1>1, SortedKeeps, TotalIsSum

\* What a client's samples are to LatencyHistogram.
LEMMA SequenceIsSampled ==
  ASSUME NEW s \in Seq(Nat)
  PROVE  /\ Sampled(s) /\ Sorted(s) \in Seq(Nat) /\ Len(Sorted(s)) = Len(s)
         /\ Len(s) \in Nat /\ DOMAIN s = 1 .. Len(s)
         /\ s = <<>> <=> Len(s) = 0
<1>1. DOMAIN s = 1 .. Len(s) /\ Len(s) \in Nat /\ (s = <<>> <=> Len(s) = 0)
  OBVIOUS
<1>2. IsFiniteSet(DOMAIN s) /\ Cardinality(DOMAIN s) = Len(s)
  BY <1>1, FS_Interval, SMTT(30)
<1>3. Sampled(s)
  BY <1>1, <1>2 DEF Sampled
<1> QED
  BY <1>1, <1>2, <1>3, SortedRanks

\* The product is rounded above the rank at multiples of a thousand only.
LEMMA RoundsUpWhen ==
  ASSUME NEW p, NEW n, RoundsUp(p, n)
  PROVE  p = 999 /\ n % 1000 = 0
BY DEF RoundsUp

\* The rank that percentile() takes.
LEMMA PercentileRank ==
  ASSUME NEW p \in Percentiles, NEW n \in Nat \ {0}
  PROVE  (IF ceil(p, n) < n THEN ceil(p, n) ELSE n)
           = IF RoundsUp(p, n) THEN p * (n \div 1000) + 1 ELSE Rank(p, n)
<1>1. Rank(p, n) \in 1 .. n
  BY RankBounds
<1>2. CASE RoundsUp(p, n)
  <2>0. p = 999 /\ n % 1000 = 0
    BY <1>2, RoundsUpWhen
  <2>1. ceil(p, n) = (999 * n + 999) \div 1000 + 1
    BY <1>2, <2>0 DEF ceil
  <2>2. PICK d \in Nat : n = 1000 * d /\ d = n \div 1000 /\ d > 0
    BY <2>0
  <2>3. (999 * n + 999) \div 1000 = 999 * d
    BY <2>2
  <2> QED
    BY <1>2, <2>0, <2>1, <2>2, <2>3
<1>3. CASE ~(RoundsUp(p, n))
  <2>1. ceil(p, n) = Rank(p, n) + 0
    BY <1>3 DEF ceil, Rank
  <2> QED
    BY <1>1, <1>3, <2>1
<1> QED
  BY <1>2, <1>3

-----------------------------------------------------------------------------
\* The invariant of LatencyReport.  First the clients: what the histogram holds
\* at each stage of what the workers measured, what was printed of it, and what
\* may have become of the file.
SummaryOf(t) ==
  [count |-> Len(t), min |-> IF t = <<>> THEN 0 ELSE t[1],
   max |-> IF t = <<>> THEN 0 ELSE t[Len(t)], mean |-> <<Total(t), Len(t)>>,
   p |-> [q \in Percentiles |->
            IF t = <<>> THEN 0
            ELSE t[IF ceil(q, Len(t)) < Len(t) THEN ceil(q, Len(t)) ELSE Len(t)]]]

ReportTypes ==
  /\ cpc \in [Clients -> {"run", "print", "dump"} \cup Ended]
  /\ hist \in [Clients -> [samples : Seq(Nat), sorted : BOOLEAN]]
  /\ measured \in [Clients -> Seq(Nat \ {0})]
  /\ DOMAIN summary = Clients /\ summary = [c \in Clients |-> summary[c]]
  /\ DOMAIN csv = Clients /\ csv = [c \in Clients |-> csv[c]]

ClientInv(c) ==
  /\ cpc[c] = "run" => hist[c].samples = <<>>
  /\ cpc[c] = "print" => hist[c].samples = measured[c] /\ ~hist[c].sorted
  /\ cpc[c] = "dump" => /\ hist[c].samples = Sorted(measured[c])
                        /\ hist[c].sorted \/ measured[c] = <<>>
  /\ cpc[c] \in {"dump", "done"} => summary[c] = SummaryOf(Sorted(measured[c]))
  /\ cpc[c] = "done" => csv[c] \in Written(Sorted(measured[c]))
  /\ cpc[c] # "done" => csv[c] = NoCsv

ClientsInv == ReportTypes /\ \A c \in Clients : ClientInv(c)

LEMMA SortedNothing == Sorted(<<>>) = <<>>
<1>1. <<>> \in Seq(Nat)
  OBVIOUS
<1> QED
  BY <1>1, SequenceIsSampled

LEMMA ReportInit == InitReport => ClientsInv
<1> SUFFICES ASSUME InitReport PROVE ClientsInv
  OBVIOUS
<1>1. ReportTypes
  BY DEF InitReport, ReportTypes, LatencyHistogram
<1>2. \A c \in Clients : ClientInv(c)
  BY DEF InitReport, ClientInv, LatencyHistogram
<1> QED
  BY <1>1, <1>2 DEF ClientsInv

\* What a step of a client leaves alone, it leaves alone for the others too.
LEMMA OthersInv ==
  ASSUME NEW c \in Clients, NEW d \in Clients, d # c, ClientInv(d),
         /\ cpc'[d] = cpc[d] /\ hist'[d] = hist[d] /\ summary'[d] = summary[d]
         /\ csv'[d] = csv[d] /\ measured'[d] = measured[d]
  PROVE  ClientInv(d)'
BY DEF ClientInv

LEMMA RunEnds ==
  ASSUME ClientsInv, NEW c \in Clients, run_ends(c)
  PROVE  ClientsInv'
<1>1. PICK v \in Vectors[c] :
        /\ hist' = [hist EXCEPT ![c] = add_samples(add_samples(@, v[1]), v[2])]
        /\ measured' = [measured EXCEPT ![c] = v[1] \o v[2]]
  BY DEF run_ends
<1>2. v[1] \in Seq(Nat \ {0}) /\ v[2] \in Seq(Nat \ {0})
  BY VectorsAssumption
<1>3. v[1] \o v[2] \in Seq(Nat \ {0}) /\ v[1] \o v[2] \in Seq(Nat)
  BY <1>2
<1>4. hist[c].samples = <<>> /\ cpc[c] = "run" /\ csv[c] = NoCsv
  BY DEF ClientsInv, ClientInv, run_ends
<1>5. add_samples(add_samples(hist[c], v[1]), v[2])
        = [samples |-> v[1] \o v[2], sorted |-> FALSE]
  <2>1. <<>> \o v[1] = v[1]
    BY <1>2
  <2> QED
    BY <1>4, <2>1 DEF add_samples
<1>6. /\ cpc' = [cpc EXCEPT ![c] = "print"]
      /\ summary' = summary /\ csv' = csv
      /\ hist' = [hist EXCEPT ![c] = [samples |-> v[1] \o v[2], sorted |-> FALSE]]
  BY <1>1, <1>5 DEF run_ends, ClientsInv, ReportTypes
<1> DEFINE x == v[1] \o v[2]
           h == [samples |-> x, sorted |-> FALSE]
<1>10. /\ measured' = [measured EXCEPT ![c] = x] /\ hist' = [hist EXCEPT ![c] = h]
       /\ x \in Seq(Nat \ {0}) /\ h.samples = x /\ ~h.sorted
       /\ h \in [samples : Seq(Nat), sorted : BOOLEAN]
  BY <1>1, <1>3, <1>6
<1> HIDE DEF x, h
<1>7. ReportTypes'
  BY <1>10, <1>6 DEF ClientsInv, ReportTypes
<1>8. ClientInv(c)'
  BY <1>10, <1>4, <1>6 DEF ClientsInv, ReportTypes, ClientInv
<1>9. ASSUME NEW d \in Clients, d # c PROVE ClientInv(d)'
  BY <1>10, <1>6, <1>9, OthersInv DEF ClientsInv, ReportTypes
<1> QED
  BY <1>7, <1>8, <1>9 DEF ClientsInv

LEMMA ClientDies ==
  ASSUME ClientsInv, NEW c \in Clients, client_dies(c)
  PROVE  ClientsInv'
<1>1. /\ cpc' = [cpc EXCEPT ![c] = "died"] /\ cpc[c] # "done"
      /\ UNCHANGED <<hist, summary, csv, measured>>
  BY DEF client_dies
<1>2. ReportTypes'
  BY <1>1 DEF ClientsInv, ReportTypes, Ended
<1>3. ClientInv(c)'
  BY <1>1 DEF ClientsInv, ReportTypes, ClientInv
<1>4. ASSUME NEW d \in Clients, d # c PROVE ClientInv(d)'
  BY <1>1, <1>4, OthersInv DEF ClientsInv, ReportTypes
<1> QED
  BY <1>2, <1>3, <1>4 DEF ClientsInv

LEMMA PrintSummary ==
  ASSUME ClientsInv, NEW c \in Clients, print_summary(c)
  PROVE  ClientsInv'
<1> DEFINE s == measured[c]
           h == IF hist[c].samples = <<>> THEN hist[c] ELSE ensure_sorted(hist[c])
<1>1. /\ s \in Seq(Nat \ {0}) /\ s \in Seq(Nat) /\ hist[c].samples = s
      /\ ~hist[c].sorted /\ csv[c] = NoCsv
      /\ hist[c] \in [samples : Seq(Nat), sorted : BOOLEAN]
  BY DEF ClientsInv, ReportTypes, ClientInv, print_summary
<1>2. Sorted(s) \in Seq(Nat) /\ (s = <<>> => Sorted(s) = <<>>)
  BY <1>1, SequenceIsSampled, SortedNothing
<1>3. /\ h \in [samples : Seq(Nat), sorted : BOOLEAN] /\ h.samples = Sorted(s)
      /\ h.sorted \/ s = <<>>
  BY <1>1, <1>2 DEF ensure_sorted
<1>4. /\ cpc' = [cpc EXCEPT ![c] = "dump"] /\ measured' = measured /\ csv' = csv
      /\ hist' = [hist EXCEPT ![c] = h]
  BY DEF print_summary
<1>5. hist'[c] = h
  BY <1>4 DEF ClientsInv, ReportTypes
<1> DEFINE out(x) ==
             [count |-> count(x), min |-> min_val(x), max |-> max_val(x),
              mean |-> <<Total(x.samples), count(x)>>,
              p |-> [q \in Percentiles |-> percentile(x, q)]]
<1>6. summary' = [summary EXCEPT ![c] = out(hist'[c])]
  BY DEF print_summary
<1>7. out(h) = SummaryOf(h.samples)
  <2>1. h.samples # <<>> => Head(h.samples) = h.samples[1]
    <3> HIDE DEF h
    <3> QED
      BY <1>2, <1>3
  <2> HIDE DEF h
  <2> QED
    BY <2>1 DEF SummaryOf, count, min_val, max_val, percentile
<1> HIDE DEF h, out, s
<1>8. summary' = [summary EXCEPT ![c] = SummaryOf(Sorted(s))]
  BY <1>3, <1>5, <1>6, <1>7
<1>9. ReportTypes'
  BY <1>3, <1>4, <1>8 DEF ClientsInv, ReportTypes
<1>10. ClientInv(c)'
  BY <1>1, <1>3, <1>4, <1>8 DEF ClientsInv, ReportTypes, ClientInv, s
<1>11. ASSUME NEW d \in Clients, d # c PROVE ClientInv(d)'
  BY <1>4, <1>8, <1>11, OthersInv DEF ClientsInv, ReportTypes
<1> QED
  BY <1>9, <1>10, <1>11 DEF ClientsInv

LEMMA DumpCsv ==
  ASSUME ClientsInv, NEW c \in Clients, dump_csv(c)
  PROVE  ClientsInv'
<1> DEFINE s == measured[c]
           h == ensure_sorted(hist[c])
<1>1. /\ s \in Seq(Nat \ {0}) /\ s \in Seq(Nat) /\ hist[c].samples = Sorted(s)
      /\ hist[c].sorted \/ s = <<>>
      /\ hist[c] \in [samples : Seq(Nat), sorted : BOOLEAN]
      /\ summary[c] = SummaryOf(Sorted(s))
  BY DEF ClientsInv, ReportTypes, ClientInv, dump_csv
<1>2. Sorted(s) \in Seq(Nat) /\ (s = <<>> => Sorted(s) = <<>> /\ Sorted(Sorted(s)) = <<>>)
  BY <1>1, SequenceIsSampled, SortedNothing
<1>3. h \in [samples : Seq(Nat), sorted : BOOLEAN] /\ h.samples = Sorted(s)
  BY <1>1, <1>2 DEF ensure_sorted
<1>4. /\ cpc' = [cpc EXCEPT ![c] = "done"] /\ measured' = measured /\ summary' = summary
      /\ hist' = [hist EXCEPT ![c] = h]
  BY DEF dump_csv
<1>5. hist'[c] = h
  BY <1>4 DEF ClientsInv, ReportTypes
<1>6. PICK file \in Written(h.samples) : csv' = [csv EXCEPT ![c] = file]
  BY <1>5 DEF dump_csv
<1> HIDE DEF h, s
<1>7. ReportTypes'
  BY <1>3, <1>4, <1>6 DEF ClientsInv, ReportTypes, Ended
<1>8. ClientInv(c)'
  <2>1. csv'[c] \in Written(Sorted(s))
    BY <1>3, <1>6 DEF ClientsInv, ReportTypes
  <2> QED
    BY <1>1, <1>4, <2>1 DEF ClientsInv, ReportTypes, ClientInv, s
<1>9. ASSUME NEW d \in Clients, d # c PROVE ClientInv(d)'
  BY <1>4, <1>6, <1>9, OthersInv DEF ClientsInv, ReportTypes
<1> QED
  BY <1>7, <1>8, <1>9 DEF ClientsInv

LEMMA ClientsStep ==
  ASSUME ClientsInv, [NextReport]_reportVars
  PROVE  ClientsInv'
<1>1. CASE UNCHANGED clientVars
  BY <1>1 DEF ClientsInv, ReportTypes, ClientInv, clientVars
<1>2. CASE \E c \in Clients : Client(c)
  BY <1>2, RunEnds, ClientDies, PrintSummary, DumpCsv DEF Client
<1> QED
  BY <1>1, <1>2 DEF NextReport, analyze, analyze_fairness, collect_entry, plot,
     load_samples, compare, ReportFinished, reportVars

\* The summary is of what was measured.
LEMMA SummaryOfMeasured ==
  ASSUME NEW s \in Seq(Nat), s # <<>>, NEW p \in Percentiles
  PROVE  /\ SummaryOf(Sorted(s)).min = Smallest(s, 1)
         /\ SummaryOf(Sorted(s)).max = Smallest(s, Len(s))
         /\ SummaryOf(Sorted(s)).p[p] = IF RoundsUp(p, Len(s))
                                        THEN Smallest(s, p * (Len(s) \div 1000) + 1)
                                        ELSE NearestRank(s, p)
<1> DEFINE t == Sorted(s)
           n == Len(s)
           k == IF ceil(p, n) < n THEN ceil(p, n) ELSE n
<1>1. t \in Seq(Nat) /\ Len(t) = n /\ n \in Nat \ {0} /\ t # <<>> /\ Sampled(s)
  BY SequenceIsSampled
<1>2. SummaryOf(t).min = t[1] /\ SummaryOf(t).max = t[n] /\ SummaryOf(t).p[p] = t[k]
  <2> HIDE DEF t, n
  <2> QED
    BY <1>1 DEF SummaryOf
<1>3. Smallest(s, 1) = t[1] /\ Smallest(s, n) = t[n]
  BY <1>1, SmallestIs
<1>4. t[k] = IF RoundsUp(p, n) THEN Smallest(s, p * (n \div 1000) + 1)
                                         ELSE NearestRank(s, p)
  <2>0. k = IF RoundsUp(p, n) THEN p * (n \div 1000) + 1 ELSE Rank(p, n)
    <3>1. n \in Nat \ {0}
      BY <1>1
    <3> HIDE DEF n
    <3> QED
      BY <3>1, PercentileRank
  <2>1. CASE RoundsUp(p, n)
    <3>1. k = p * (n \div 1000) + 1
      <4> HIDE DEF k, n
      <4> QED
        BY <2>0, <2>1
    <3>2. p * (n \div 1000) + 1 \in 1 .. n
      <4> HIDE DEF n, k
      <4>0. p = 999 /\ n % 1000 = 0
        BY <2>1, RoundsUpWhen
      <4>1. PICK d \in Nat : n = 1000 * d /\ n \div 1000 = d /\ d > 0
        BY <1>1, <4>0
      <4> QED
        BY <4>0, <4>1
    <3>3. Smallest(s, p * (n \div 1000) + 1) = t[p * (n \div 1000) + 1]
      BY <1>1, <3>2, SmallestIs
    <3> HIDE DEF k, n, t
    <3> QED
      BY <2>1, <3>1, <3>3
  <2>2. CASE ~(RoundsUp(p, n))
    <3>1. k = Rank(p, n)
      <4> HIDE DEF k, n
      <4> QED
        BY <2>0, <2>2
    <3>2. NearestRank(s, p) = t[Rank(p, n)]
      BY NearestRankIs
    <3> HIDE DEF k, n, t
    <3> QED
      BY <2>2, <3>1, <3>2
  <2> QED
    BY <2>1, <2>2
<1> QED
  BY <1>2, <1>3, <1>4

\* What a client prints are the count, the sum, the extremes and the
\* nearest-rank percentiles of what its workers measured, with p99.9 one rank
\* too high at a multiple of a thousand samples.
THEOREM SummaryHolds == SpecReport => []SummaryExact
<1>1. ClientsInv => SummaryExact
  <2> SUFFICES ASSUME ClientsInv, NEW c \in Clients, cpc[c] = "dump"
               PROVE  LET s == measured[c]
                          n == Len(s)
                      IN /\ summary[c].count = n /\ summary[c].mean = <<Total(s), n>>
                         /\ n > 0 =>
                              /\ summary[c].min = Smallest(s, 1)
                              /\ summary[c].max = Smallest(s, n)
                              /\ \A p \in Percentiles :
                                   summary[c].p[p] =
                                     IF RoundsUp(p, n)
                                     THEN Smallest(s, p * (n \div 1000) + 1)
                                     ELSE NearestRank(s, p)
    BY DEF SummaryExact
  <2> DEFINE s == measured[c]
             n == Len(s)
  <2>1. s \in Seq(Nat) /\ summary[c] = SummaryOf(Sorted(s))
    BY DEF ClientsInv, ReportTypes, ClientInv
  <2>2. Sampled(s) /\ Len(Sorted(s)) = n /\ n \in Nat /\ (n > 0 => s # <<>>)
    BY <2>1, SequenceIsSampled
  <2>3. Total(Sorted(s)) = Total(s)
    BY <2>2, SortedTotal
  <2>4. summary[c].count = n /\ summary[c].mean = <<Total(s), n>>
    BY <2>1, <2>2, <2>3 DEF SummaryOf
  <2>5. ASSUME n > 0, NEW p \in Percentiles
        PROVE  /\ summary[c].min = Smallest(s, 1) /\ summary[c].max = Smallest(s, n)
               /\ summary[c].p[p] = IF RoundsUp(p, n)
                                    THEN Smallest(s, p * (n \div 1000) + 1)
                                    ELSE NearestRank(s, p)
    <3>1. s # <<>>
      BY <2>2, <2>5
    <3> DEFINE out == SummaryOf(Sorted(s))
    <3>2. summary[c] = out
      BY <2>1
    <3>3. /\ out.min = Smallest(s, 1) /\ out.max = Smallest(s, n)
          /\ out.p[p] = IF RoundsUp(p, n)
                        THEN Smallest(s, p * (n \div 1000) + 1)
                        ELSE NearestRank(s, p)
      <4> HIDE DEF s
      <4> QED
        BY <2>1, <3>1, SummaryOfMeasured
    <3> HIDE DEF out, s, n
    <3> QED
      BY <3>2, <3>3
  <2>6. 500 \in Percentiles
    BY DEF Percentiles
  <2> HIDE DEF s, n
  <2> QED
    BY <2>4, <2>5, <2>6, ZenonT(60) DEF s, n
<1> QED
  BY <1>1, ReportInit, ClientsStep, PTL DEF SpecReport

-----------------------------------------------------------------------------
\* What a file says of the samples t it was written from: no row is above the
\* sample of its rank, and the two columns agree where both are whole.
FileOf(file, t) ==
  /\ file.rows \in Seq(Nat \ {0}) /\ file.us \in Seq(Nat)
  /\ Len(file.rows) <= Len(t)
  /\ \A n \in 1 .. Len(file.rows) : file.rows[n] <= t[n]
  /\ file.ends \in {"row", "us"} =>
       /\ Len(file.us) = Len(file.rows)
       /\ \A n \in 1 .. Len(file.rows) : 10 * file.us[n] <= file.rows[n] + 5
  /\ file.ends = "row" =>
       \A n \in 1 .. Len(file.rows) : file.rows[n] <= 10 * file.us[n] + 5

LEMMA NoRows ==
  ASSUME NEW t \in Seq(Nat \ {0}), NEW file, file.rows = <<>>, file.us = <<>>
  PROVE  FileOf(file, t)
BY DEF FileOf

LEMMA Rounded ==
  ASSUME NEW v \in Nat
  PROVE  /\ Microseconds(v) \in Nat
         /\ 10 * Microseconds(v) <= v + 5 /\ v <= 10 * Microseconds(v) + 5
BY DEF Microseconds

LEMMA DigitLost ==
  ASSUME NEW u \in Nat
  PROVE  (u \div 10) * 10 \in Nat /\ (u \div 10) * 10 <= u
OBVIOUS

\* A prefix of the samples.
LEMMA Prefix ==
  ASSUME NEW t \in Seq(Nat \ {0}), NEW n \in 0 .. Len(t)
  PROVE  LET w == SubSeq(t, 1, n) IN
         /\ w \in Seq(Nat \ {0}) /\ Len(w) = n /\ \A i \in 1 .. n : w[i] = t[i]
         /\ ColumnUs(w) \in Seq(Nat) /\ Len(ColumnUs(w)) = n
         /\ \A i \in 1 .. n : ColumnUs(w)[i] = Microseconds(t[i])
<1> DEFINE w == SubSeq(t, 1, n)
<1>1. /\ w \in Seq(Nat \ {0}) /\ Len(w) = n /\ DOMAIN w = 1 .. n
      /\ \A i \in 1 .. n : w[i] = t[i]
  OBVIOUS
<1> HIDE DEF w
<1>2. /\ ColumnUs(w) = [i \in 1 .. n |-> Microseconds(w[i])]
  BY <1>1 DEF ColumnUs
<1>3. ASSUME NEW i \in 1 .. n PROVE Microseconds(w[i]) \in Nat /\ w[i] = t[i]
  <2>1. w[i] \in Nat /\ w[i] = t[i]
    BY <1>1
  <2> QED
    BY <2>1, Rounded
<1>4. ColumnUs(w) \in Seq(Nat) /\ Len(ColumnUs(w)) = n
  BY <1>2, <1>3
<1> QED
  BY <1>1, <1>2, <1>3, <1>4 DEF w

\* The rows up to a row that is whole, and the whole column of microseconds.
LEMMA WholeRows ==
  ASSUME NEW t \in Seq(Nat \ {0}), NEW n \in 0 .. Len(t), NEW end
  PROVE  LET w == SubSeq(t, 1, n) IN FileOf(File(w, ColumnUs(w), end), t)
<1> DEFINE w == SubSeq(t, 1, n)
           u == ColumnUs(w)
           file == File(w, u, end)
<1>1. /\ w \in Seq(Nat \ {0}) /\ Len(w) = n /\ \A i \in 1 .. n : w[i] = t[i]
      /\ u \in Seq(Nat) /\ Len(u) = n /\ \A i \in 1 .. n : u[i] = Microseconds(t[i])
  BY Prefix
<1>2. file.rows = w /\ file.us = u /\ file.ends = end
  BY DEF File
<1> HIDE DEF w, u, file
<1>3. \A i \in 1 .. n : t[i] \in Nat
  BY <1>1
<1>4. ASSUME NEW i \in 1 .. n
      PROVE  10 * u[i] <= w[i] + 5 /\ w[i] <= 10 * u[i] + 5 /\ w[i] <= t[i]
  <2>1. t[i] \in Nat /\ w[i] = t[i] /\ u[i] = Microseconds(t[i])
    BY <1>1, <1>3
  <2>2. 10 * Microseconds(t[i]) <= t[i] + 5 /\ t[i] <= 10 * Microseconds(t[i]) + 5
    BY <2>1, Rounded
  <2> QED
    BY <2>1, <2>2
<1>5. FileOf(file, t)
  <2>1. /\ file.rows \in Seq(Nat \ {0}) /\ file.us \in Seq(Nat)
        /\ Len(file.rows) = n /\ Len(file.us) = n /\ n <= Len(t)
    BY <1>1, <1>2
  <2>2. \A i \in 1 .. n : /\ 10 * file.us[i] <= file.rows[i] + 5
                          /\ file.rows[i] <= 10 * file.us[i] + 5
                          /\ file.rows[i] <= t[i]
    BY <1>2, <1>4
  <2> QED
    BY <2>1, <2>2 DEF FileOf
<1> QED
  BY <1>5 DEF file, w, u

\* The file ends within a row, whose number may have lost a digit.
LEMMA CutRow ==
  ASSUME NEW t \in Seq(Nat \ {0}), NEW n \in 0 .. Len(t) - 1,
         NEW x \in Nat \ {0}, x <= t[n + 1], NEW us \in Seq(Nat)
  PROVE  /\ FileOf(File(Append(SubSeq(t, 1, n), x), us, "ns"), t)
         /\ x = t[n + 1] =>
              LET w == SubSeq(t, 1, n)
                  u == Append(ColumnUs(w), (Microseconds(x) \div 10) * 10)
              IN FileOf(File(Append(w, x), u, "us"), t)
<1> DEFINE w == SubSeq(t, 1, n)
           r == Append(w, x)
           y == (Microseconds(x) \div 10) * 10
           u == Append(ColumnUs(w), y)
<1>1. /\ w \in Seq(Nat \ {0}) /\ Len(w) = n /\ n \in Nat /\ Len(t) \in Nat /\ n + 1 <= Len(t)
      /\ \A i \in 1 .. n : w[i] = t[i] /\ t[i] \in Nat
      /\ ColumnUs(w) \in Seq(Nat) /\ Len(ColumnUs(w)) = n
      /\ \A i \in 1 .. n : ColumnUs(w)[i] = Microseconds(t[i])
  <2>1. n \in 0 .. Len(t) /\ n \in Nat /\ Len(t) \in Nat /\ n + 1 <= Len(t)
    OBVIOUS
  <2>2. \A i \in 1 .. n : t[i] \in Nat
    BY <2>1
  <2> QED
    BY <2>1, <2>2, Prefix
<1>2. y \in Nat /\ 10 * y <= x + 5
  <2>1. Microseconds(x) \in Nat /\ 10 * Microseconds(x) <= x + 5
    BY Rounded
  <2>2. y \in Nat /\ y <= Microseconds(x)
    BY <2>1, DigitLost
  <2> HIDE DEF y
  <2> QED
    BY <2>1, <2>2
<1> HIDE DEF w, y
<1>3. /\ r \in Seq(Nat \ {0}) /\ Len(r) = n + 1 /\ r[n + 1] = x
      /\ \A i \in 1 .. n : r[i] = t[i]
  BY <1>1, SMTT(30)
<1>4. /\ u \in Seq(Nat) /\ Len(u) = n + 1 /\ u[n + 1] = y
      /\ \A i \in 1 .. n : u[i] = Microseconds(t[i])
  <2> DEFINE z == ColumnUs(w)
  <2>1. z \in Seq(Nat) /\ Len(z) = n /\ \A i \in 1 .. n : z[i] = Microseconds(t[i])
    BY <1>1
  <2> HIDE DEF z
  <2>2. Append(z, y) \in Seq(Nat) /\ Len(Append(z, y)) = n + 1 /\ Append(z, y)[n + 1] = y
    BY <1>1, <1>2, <2>1
  <2>3. \A i \in 1 .. n : Append(z, y)[i] = z[i]
    BY <1>1, <1>2, <2>1
  <2> QED
    BY <2>1, <2>2, <2>3 DEF z
<1> HIDE DEF r, u
<1>5. \A i \in 1 .. n + 1 : i = n + 1 \/ i \in 1 .. n
  BY <1>1
<1>6. ASSUME NEW i \in 1 .. n + 1 PROVE r[i] <= t[i] /\ 10 * u[i] <= r[i] + 5
  <2>1. CASE i = n + 1
    BY <1>2, <1>3, <1>4, <2>1
  <2>2. CASE i \in 1 .. n
    <3>1. t[i] \in Nat /\ r[i] = t[i] /\ u[i] = Microseconds(t[i])
      BY <1>1, <1>3, <1>4, <2>2
    <3>2. 10 * Microseconds(t[i]) <= t[i] + 5
      BY <3>1, Rounded
    <3> QED
      BY <3>1, <3>2
  <2> QED
    BY <1>5, <2>1, <2>2
<1>7. FileOf(File(r, us, "ns"), t)
  BY <1>1, <1>3, <1>6 DEF FileOf, File
<1>8. FileOf(File(r, u, "us"), t)
  BY <1>1, <1>3, <1>4, <1>6 DEF FileOf, File
<1> QED
  BY <1>7, <1>8 DEF r, u, w, y

LEMMA WrittenIs ==
  ASSUME NEW t \in Seq(Nat \ {0}), NEW file \in Written(t)
  PROVE  /\ FileOf(file, t) /\ file.exists
         /\ file.ends \in {"row", "index", "ns", "us"}
         /\ file.header \in BOOLEAN
         /\ ~file.header => file.rows = <<>> /\ file.us = <<>>
<1>1. CASE file = [NoCsv EXCEPT !.exists = TRUE]
  BY <1>1, NoRows DEF NoCsv
<1>2. CASE file = File(t, ColumnUs(t), "row")
  <2>1. Len(t) \in 0 .. Len(t) /\ SubSeq(t, 1, Len(t)) = t
    OBVIOUS
  <2>2. FileOf(file, t)
    BY <1>2, <2>1, WholeRows
  <2> QED
    BY <1>2, <2>2 DEF File
<1>3. ASSUME NEW n \in Cuts(Len(t)),
             LET whole == SubSeq(t, 1, n)
                 us == ColumnUs(whole)
                 v == t[n + 1]
             IN file \in {File(whole, us, "row"), File(whole, us, "index")}
                         \cup {File(Append(whole, x), us, "ns") : x \in Cut(v)}
                         \cup {File(Append(whole, v), us, "ns"),
                               File(Append(whole, v),
                                    Append(us, (Microseconds(v) \div 10) * 10), "us")}
      PROVE  /\ FileOf(file, t) /\ file.exists
             /\ file.ends \in {"row", "index", "ns", "us"} /\ file.header
  <2> DEFINE w == SubSeq(t, 1, n)
             us == ColumnUs(w)
             v == t[n + 1]
  <2>1. n \in 0 .. Len(t) - 1 /\ n \in 0 .. Len(t) /\ v \in Nat \ {0} /\ v <= v
    BY DEF Cuts
  <2>2. \A r, u, e : /\ File(r, u, e).exists /\ File(r, u, e).header
                     /\ File(r, u, e).ends = e
    BY DEF File
  <2>3. us \in Seq(Nat)
    BY <2>1, Prefix
  <2>4. FileOf(File(w, us, "row"), t) /\ FileOf(File(w, us, "index"), t)
    BY <2>1, WholeRows
  <2>5. \A x \in Cut(v) : FileOf(File(Append(w, x), us, "ns"), t)
    <3>1. \A x \in Cut(v) : x \in Nat \ {0} /\ x <= v
      <4> HIDE DEF v
      <4> QED
        BY <2>1 DEF Cut
    <3> QED
      BY <2>1, <2>3, <3>1, CutRow
  <2>6. /\ FileOf(File(Append(w, v), us, "ns"), t)
        /\ FileOf(File(Append(w, v), Append(us, (Microseconds(v) \div 10) * 10), "us"), t)
    BY <2>1, <2>3, CutRow
  <2>7. file \in {File(w, us, "row"), File(w, us, "index")}
                 \cup {File(Append(w, x), us, "ns") : x \in Cut(v)}
                 \cup {File(Append(w, v), us, "ns"),
                       File(Append(w, v), Append(us, (Microseconds(v) \div 10) * 10), "us")}
    BY <1>3
  <2> HIDE DEF w, us, v
  <2> QED
    BY <2>2, <2>4, <2>5, <2>6, <2>7
<1> QED
  BY <1>1, <1>2, <1>3 DEF Written

-----------------------------------------------------------------------------
\* The samples of several files, one file after the other.
Joins(g, column, D) ==
  g = [s \in D |-> IF s = {} THEN <<>>
                   ELSE csv[Chosen(s)][column] \o g[s \ {Chosen(s)}]]

Columns(files, column) ==
  IsFiniteSet(files) /\ \A c \in files : csv[c][column] \in Seq(Nat)

LEMMA PooledDef ==
  ASSUME NEW files, NEW column
  PROVE  Pooled(files, column) = (CHOOSE g : Joins(g, column, SUBSET files))[files]
BY DEF Pooled, FoldSet, MapThenFoldSet, Joins, Chosen

LEMMA PooledSolved ==
  ASSUME NEW S, NEW column, Columns(S, column)
  PROVE  \E g : /\ Joins(g, column, SUBSET S) /\ Pooled(S, column) = g[S]
<1> DEFINE ch == [s \in SUBSET S |-> Chosen(s)]
           step == [p \in S \X Seq(Nat) |-> csv[p[1]][column] \o p[2]]
<1>1. \A s \in SUBSET S : s # {} => ch[s] \in s /\ ch[s] = Chosen(s)
  BY DEF Chosen
<1>2. step \in [S \X Seq(Nat) -> Seq(Nat)]
  <2>1. ASSUME NEW p \in S \X Seq(Nat) PROVE csv[p[1]][column] \o p[2] \in Seq(Nat)
    <3>1. csv[p[1]][column] \in Seq(Nat) /\ p[2] \in Seq(Nat)
      BY DEF Columns
    <3> QED
      BY <3>1
  <2> QED
    BY <2>1
<1>3. PICK g \in [SUBSET S -> Seq(Nat)] : Folds(g, S, <<>>, ch, step)
  <2> HIDE DEF ch, step
  <2>1. <<>> \in Seq(Nat) /\ IsFiniteSet(S)
    BY DEF Columns
  <2>2. \A s \in SUBSET S : s # {} => ch[s] \in s
    BY <1>1
  <2> QED
    BY <1>2, <2>1, <2>2, FoldExists
<1>4. Joins(g, column, SUBSET S)
  <2>1. ASSUME NEW s \in SUBSET S
        PROVE  g[s] = IF s = {} THEN <<>>
                      ELSE csv[Chosen(s)][column] \o g[s \ {Chosen(s)}]
    <3>1. g[s] = IF s = {} THEN <<>> ELSE step[<<ch[s], g[s \ {ch[s]}]>>]
      BY <1>3 DEF Folds
    <3>2. s # {} => ch[s] = Chosen(s) /\ <<ch[s], g[s \ {ch[s]}]>> \in S \X Seq(Nat)
      <4> HIDE DEF ch
      <4> QED
        BY <1>1
    <3>3. \A p \in S \X Seq(Nat) : step[p] = csv[p[1]][column] \o p[2]
      OBVIOUS
    <3> HIDE DEF step, ch
    <3> QED
      BY <3>1, <3>2, <3>3
  <2> QED
    BY <2>1 DEF Joins
<1> DEFINE h == CHOOSE x : Joins(x, column, SUBSET S)
<1>5. Joins(h, column, SUBSET S)
  BY <1>4
<1>6. Pooled(S, column) = h[S]
  BY PooledDef
<1> QED
  BY <1>5, <1>6

LEMMA PooledUnfold ==
  ASSUME NEW S, NEW column, Columns(S, column)
  PROVE  /\ S = {} => Pooled(S, column) = <<>>
         /\ S # {} => Pooled(S, column) =
                        csv[Chosen(S)][column] \o Pooled(S \ {Chosen(S)}, column)
<1> DEFINE T == S \ {Chosen(S)}
<1>1. T \subseteq S /\ IsFiniteSet(S) /\ IsFiniteSet(T) /\ Columns(T, column)
  BY FS_Subset DEF Columns
<1>2. T = S \ {Chosen(S)}
  OBVIOUS
<1> HIDE DEF T
<1>3. PICK g : Joins(g, column, SUBSET S) /\ Pooled(S, column) = g[S]
  BY PooledSolved
<1>4. PICK h : Joins(h, column, SUBSET T) /\ Pooled(T, column) = h[T]
  BY <1>1, PooledSolved
<1>5. \A s \in SUBSET S :
        g[s] = IF s = {} THEN <<>> ELSE csv[Chosen(s)][column] \o g[s \ {Chosen(s)}]
  BY <1>3 DEF Joins
<1>6. \A s \in SUBSET T :
        h[s] = IF s = {} THEN <<>> ELSE csv[Chosen(s)][column] \o h[s \ {Chosen(s)}]
  BY <1>4 DEF Joins
<1>7. g[T] = h[T]
  <2> DEFINE ch == [s \in SUBSET T |-> Chosen(s)]
  <2>1. \A s \in SUBSET T : ch[s] = Chosen(s) /\ (s # {} => ch[s] \in s)
    BY DEF Chosen
  <2> HIDE DEF ch
  <2>2. g[{}] = h[{}]
    BY <1>5, <1>6
  <2>3. \A s \in SUBSET T :
          s # {} /\ g[s \ {ch[s]}] = h[s \ {ch[s]}] => g[s] = h[s]
    <3> SUFFICES ASSUME NEW s \in SUBSET T, s # {}, g[s \ {ch[s]}] = h[s \ {ch[s]}]
                 PROVE  g[s] = h[s]
      OBVIOUS
    <3>1. g[s] = csv[Chosen(s)][column] \o g[s \ {Chosen(s)}]
      BY <1>1, <1>5
    <3>2. h[s] = csv[Chosen(s)][column] \o h[s \ {Chosen(s)}]
      BY <1>6
    <3> QED
      BY <2>1, <3>1, <3>2
  <2>4. Alike(g, h, T, ch)
    BY <2>1, <2>2, <2>3 DEF Alike
  <2>5. Agree(g, h, SUBSET T)
    BY <1>1, <2>4, FoldsAgree
  <2> QED
    BY <2>5 DEF Agree
<1> QED
  BY <1>2, <1>3, <1>4, <1>5, <1>7

LEMMA PooledOne ==
  ASSUME NEW c, NEW column, csv[c][column] \in Seq(Nat)
  PROVE  Pooled({c}, column) = csv[c][column]
<1>1. Columns({c}, column) /\ Columns({}, column)
  BY FS_Singleton, FS_EmptySet DEF Columns
<1>2. Chosen({c}) = c /\ {c} \ {c} = {} /\ {c} # {}
  BY DEF Chosen
<1>3. Pooled({}, column) = <<>>
  BY <1>1, PooledUnfold
<1>4. Pooled({c}, column) = csv[Chosen({c})][column] \o Pooled({c} \ {Chosen({c})}, column)
  BY <1>1, <1>2, PooledUnfold
<1>5. Pooled({c}, column) = csv[c][column] \o <<>>
  BY <1>2, <1>3, <1>4
<1> QED
  BY <1>5

-----------------------------------------------------------------------------
\* Sums over two sets, and of smaller summands.
LEMMA SumUnion ==
  ASSUME NEW f, NEW A, NEW B, IsFiniteSet(A), IsFiniteSet(B), A \cap B = {},
         \A x \in A \cup B : f[x] \in Nat
  PROVE  Sum(f, A \cup B) = Sum(f, A) + Sum(f, B)
<1> DEFINE P == {T \in SUBSET B : Sum(f, A \cup T) = Sum(f, A) + Sum(f, T)}
<1>0. \A T \in SUBSET B : IsFiniteSet(T) /\ IsFiniteSet(A \cup T) /\ Sum(f, T) \in Nat
  BY FS_Subset, FS_Union, SumOfNaturals
<1>1. Sum(f, A) \in Nat
  BY SumOfNaturals
<1>2. {} \in P
  <2>1. A \cup {} = A /\ Sum(f, {}) = 0
    BY SumEmpty
  <2> QED
    BY <1>1, <2>1
<1>3. ASSUME NEW T \in P, NEW x \in B \ T PROVE T \cup {x} \in P
  <2>1. /\ A \cup (T \cup {x}) = (A \cup T) \cup {x} /\ x \notin A \cup T /\ x \notin T
        /\ T \cup {x} \in SUBSET B /\ f[x] \in Nat
        /\ Sum(f, A \cup T) = Sum(f, A) + Sum(f, T)
    OBVIOUS
  <2>2. Sum(f, (A \cup T) \cup {x}) = f[x] + Sum(f, A \cup T)
    BY <1>0, <2>1, SumAdd
  <2>3. Sum(f, T \cup {x}) = f[x] + Sum(f, T)
    BY <1>0, <2>1, SumAdd
  <2>4. Sum(f, T) \in Nat
    BY <1>0
  <2> QED
    BY <1>1, <2>1, <2>2, <2>3, <2>4, SMTT(30)
<1> HIDE DEF P
<1>4. P \in SUBSET (SUBSET B)
  BY DEF P
<1>5. B \in P
  BY <1>2, <1>3, <1>4, FiniteInduction
<1> QED
  BY <1>5 DEF P

LEMMA SumCompare ==
  ASSUME NEW f, NEW g, NEW S, IsFiniteSet(S),
         \A x \in S : f[x] \in Nat /\ g[x] \in Nat /\ f[x] <= g[x]
  PROVE  /\ Sum(f, S) <= Sum(g, S)
         /\ Sum(f, S) = Sum(g, S) => \A x \in S : f[x] = g[x]
<1> DEFINE Good(T) == /\ Sum(f, T) <= Sum(g, T)
                      /\ Sum(f, T) = Sum(g, T) => \A x \in T : f[x] = g[x]
           P == {T \in SUBSET S : Good(T)}
<1>0. \A T \in SUBSET S : IsFiniteSet(T) /\ Sum(f, T) \in Nat /\ Sum(g, T) \in Nat
  BY FS_Subset, SumOfNaturals
<1>1. {} \in P
  <2>1. Sum(f, {}) = 0 /\ Sum(g, {}) = 0
    BY SumEmpty
  <2> QED
    BY <2>1
<1>2. ASSUME NEW T \in P, NEW x \in S \ T PROVE T \cup {x} \in P
  <2>1. T \cup {x} \in SUBSET S /\ x \notin T /\ Good(T)
    OBVIOUS
  <2>2. Sum(f, T \cup {x}) = f[x] + Sum(f, T) /\ Sum(g, T \cup {x}) = g[x] + Sum(g, T)
    BY <1>0, <2>1, SumAdd
  <2>3. /\ Sum(f, T) \in Nat /\ Sum(g, T) \in Nat
        /\ f[x] \in Nat /\ g[x] \in Nat /\ f[x] <= g[x]
    BY <1>0
  <2>4. Sum(f, T \cup {x}) <= Sum(g, T \cup {x})
    BY <2>1, <2>2, <2>3
  <2>5. Sum(f, T \cup {x}) = Sum(g, T \cup {x}) => f[x] = g[x] /\ Sum(f, T) = Sum(g, T)
    BY <2>1, <2>2, <2>3
  <2>6. Good(T \cup {x})
    BY <2>1, <2>4, <2>5
  <2> HIDE DEF Good
  <2> QED
    BY <2>1, <2>6
<1> HIDE DEF P
<1>3. P \in SUBSET (SUBSET S)
  BY DEF P
<1>4. S \in P
  BY <1>1, <1>2, <1>3, FiniteInduction
<1> QED
  BY <1>4 DEF P

\* The total is the sum of the samples.
LEMMA TotalIsSamples ==
  ASSUME NEW f, Sampled(f)
  PROVE  Total(f) = Sum(f, DOMAIN f) /\ Total(f) \in Nat
<1> DEFINE R == Range(f)
           P == {V \in SUBSET R : Sum(f, Among(f, V)) = Sum(Weighted(f), V)}
<1>0. /\ IsFiniteSet(R) /\ R \in SUBSET Nat
      /\ \A V \in SUBSET R : IsFiniteSet(V)
      /\ \A V : IsFiniteSet(Among(f, V)) /\ \A x \in Among(f, V) : f[x] \in Nat
      /\ \A v \in R : Weighted(f)[v] \in Nat /\ Weighted(f)[v] = v * Multiplicity(f, v)
  <2>1. IsFiniteSet(R) /\ R \in SUBSET Nat /\ \A v : Multiplicity(f, v) \in Nat
    BY SampledFacts
  <2>2. \A V \in SUBSET R : IsFiniteSet(V)
    BY <2>1, FS_Subset
  <2>3. \A V : IsFiniteSet(Among(f, V)) /\ \A x \in Among(f, V) : f[x] \in Nat
    BY SampledFacts DEF Among, Sampled
  <2>4. ASSUME NEW v \in R
        PROVE  Weighted(f)[v] \in Nat /\ Weighted(f)[v] = v * Multiplicity(f, v)
    <3>1. Weighted(f)[v] = v * Multiplicity(f, v)
      BY DEF Weighted
    <3>2. v \in Nat /\ Multiplicity(f, v) \in Nat
      BY <2>1
    <3> QED
      BY <3>1, <3>2
  <2> QED
    BY <2>1, <2>2, <2>3, <2>4
<1> HIDE DEF R
<1>1. {} \in P
  <2>1. Among(f, {}) = {}
    BY DEF Among
  <2> QED
    BY <2>1, SumEmpty
<1>2. ASSUME NEW V \in P, NEW v \in R \ V PROVE V \cup {v} \in P
  <2> DEFINE E == Among(f, {v})
  <2>1. Among(f, V \cup {v}) = Among(f, V) \cup E /\ Among(f, V) \cap E = {}
    BY DEF Among
  <2>2. E = {x \in DOMAIN f : f[x] = v}
    BY DEF Among
  <2>3. IsFiniteSet(E) /\ v \in Nat /\ (\A x \in E : f[x] = v)
    BY <1>0, <2>2
  <2>4. Cardinality(E) = Multiplicity(f, v)
    BY <2>2 DEF Multiplicity
  <2>5. Cardinality(E) \in Nat
    BY <2>3, FS_CardinalityType
  <2> HIDE DEF E
  <2>6. v * Cardinality(E) <= Sum(f, E) /\ Sum(f, E) <= v * Cardinality(E)
    <3>1. \A x \in E : f[x] \in Nat /\ v <= f[x] /\ f[x] <= v
      BY <2>3
    <3> QED
      BY <2>3, <3>1, SumBounds
  <2>7. Sum(f, E) \in Nat
    BY <2>3, SumOfNaturals
  <2>8. v * Cardinality(E) \in Nat
    BY <2>3, <2>5
  <2>9. Sum(f, E) = Weighted(f)[v]
    BY <1>0, <2>4, <2>6, <2>7, <2>8
  <2>10. Sum(f, Among(f, V) \cup E) = Sum(f, Among(f, V)) + Sum(f, E)
    <3>1. IsFiniteSet(Among(f, V)) /\ \A x \in Among(f, V) \cup E : f[x] \in Nat
      BY <1>0, <2>3
    <3> QED
      BY <2>1, <2>3, <3>1, SumUnion
  <2>11. Sum(Weighted(f), V \cup {v}) = Weighted(f)[v] + Sum(Weighted(f), V)
    <3>1. /\ IsFiniteSet(V) /\ v \notin V
          /\ \A y \in V \cup {v} : Weighted(f)[y] \in Nat
      BY <1>0
    <3> QED
      BY <3>1, SumAdd
  <2>12. Sum(Weighted(f), V) \in Nat /\ Sum(f, Among(f, V)) = Sum(Weighted(f), V)
    <3>1. IsFiniteSet(V) /\ \A y \in V : Weighted(f)[y] \in Nat
      BY <1>0
    <3> QED
      BY <3>1, SumOfNaturals
  <2>13. Sum(f, Among(f, V \cup {v})) = Sum(Weighted(f), V \cup {v})
    <3> DEFINE a == Sum(Weighted(f), V)
               w == Weighted(f)[v]
    <3>1. Sum(f, Among(f, V \cup {v})) = a + w
      BY <2>1, <2>9, <2>10, <2>12
    <3>2. a \in Nat /\ w \in Nat
      BY <2>7, <2>9, <2>12
    <3>3. Sum(Weighted(f), V \cup {v}) = w + a
      BY <2>11
    <3> HIDE DEF a, w
    <3> QED
      BY <3>1, <3>2, <3>3
  <2> QED
    BY <2>13
<1> HIDE DEF P
<1>3. P \in SUBSET (SUBSET R)
  BY DEF P
<1>4. R \in P
  BY <1>0, <1>1, <1>2, <1>3, FiniteInduction
<1>5. Sum(f, Among(f, R)) = Total(f)
  BY <1>4, TotalIsSum DEF P, R
<1>6. Among(f, R) = DOMAIN f
  BY DEF Among, R, Range
<1>7. Sum(f, DOMAIN f) \in Nat
  BY SumOfNaturals DEF Sampled
<1> QED
  BY <1>5, <1>6, <1>7

\* Rows that are no larger have the same total only when they are the samples.
LEMMA SameTotal ==
  ASSUME NEW r \in Seq(Nat), NEW t \in Seq(Nat \ {0}), Len(r) <= Len(t),
         \A n \in 1 .. Len(r) : r[n] <= t[n], Total(r) = Total(t)
  PROVE  r = t
<1> DEFINE m == Len(r)
           A == 1 .. Len(r)
           B == (Len(r) + 1) .. Len(t)
<1>1. /\ DOMAIN r = A /\ DOMAIN t = A \cup B /\ A \cap B = {} /\ Len(r) \in Nat /\ Len(t) \in Nat
      /\ \A n \in A : r[n] \in Nat /\ t[n] \in Nat /\ r[n] <= t[n]
      /\ \A n \in A \cup B : t[n] \in Nat \ {0} /\ t[n] \in Nat
  <2>1. /\ DOMAIN r = A /\ Len(r) \in Nat /\ Len(t) \in Nat /\ DOMAIN t = 1 .. Len(t)
        /\ \A n \in A : r[n] \in Nat
    OBVIOUS
  <2>2. 1 .. Len(t) = A \cup B /\ A \cap B = {}
    BY <2>1
  <2>3. \A n \in 1 .. Len(t) : t[n] \in Nat \ {0} /\ t[n] \in Nat
    OBVIOUS
  <2> QED
    BY <2>1, <2>2, <2>3
<1>2. IsFiniteSet(A) /\ IsFiniteSet(B)
  BY <1>1, FS_Interval
<1>3. Sampled(r) /\ Sampled(t)
  BY <1>1, <1>2, FS_Union, ZenonT(60) DEF Sampled
<1> HIDE DEF A, B
<1>4. Sum(r, A) = Sum(t, A \cup B)
  BY <1>1, <1>3, TotalIsSamples
<1>5. Sum(t, A \cup B) = Sum(t, A) + Sum(t, B)
  BY <1>1, <1>2, SumUnion
<1>6. Sum(r, A) \in Nat /\ Sum(t, A) \in Nat /\ Sum(t, B) \in Nat
  BY <1>1, <1>2, SumOfNaturals
<1>7. Sum(r, A) <= Sum(t, A) /\ (Sum(r, A) = Sum(t, A) => \A n \in A : r[n] = t[n])
  <2>1. \A n \in A : r[n] \in Nat /\ t[n] \in Nat /\ r[n] <= t[n]
    BY <1>1
  <2> QED
    BY <1>2, <2>1, SumCompare
<1>8. Sum(t, B) = 0 /\ Sum(r, A) = Sum(t, A)
  BY <1>4, <1>5, <1>6, <1>7
<1>9. B = {}
  <2> SUFFICES ASSUME NEW n \in B PROVE FALSE
    OBVIOUS
  <2>1. Sum(t, B) = t[n] + Sum(t, B \ {n})
    BY <1>1, <1>2, SumOfNaturals
  <2>2. IsFiniteSet(B \ {n}) /\ \A x \in B \ {n} : t[x] \in Nat
    BY <1>1, <1>2, FS_RemoveElement
  <2>3. Sum(t, B \ {n}) \in Nat /\ t[n] \in Nat \ {0}
    BY <1>1, <2>2, SumOfNaturals
  <2> QED
    BY <1>8, <2>1, <2>3
<1>10. Len(r) = Len(t)
  BY <1>1, <1>9 DEF B
<1>11. \A n \in 1 .. Len(t) : r[n] = t[n]
  BY <1>7, <1>8, <1>10 DEF A
<1> QED
  BY <1>10, <1>11, SMTT(30)

\* Rows that are no larger than the samples of their rank are not larger after
\* they have been put in order.
LEMMA SortedBelow ==
  ASSUME NEW r \in Seq(Nat), NEW s \in Seq(Nat), Len(r) <= Len(s),
         \A n \in 1 .. Len(r) : r[n] <= Sorted(s)[n], NEW k \in 1 .. Len(r)
  PROVE  /\ k \in 1 .. Len(Sorted(r)) /\ k \in 1 .. Len(Sorted(s))
         /\ Sorted(r)[k] <= Sorted(s)[k]
<1> DEFINE t == Sorted(s)
           v == t[k]
<1>1. /\ Sampled(r) /\ Len(Sorted(r)) = Len(r) /\ DOMAIN r = 1 .. Len(r) /\ Len(r) \in Nat
      /\ Sampled(s) /\ Len(t) = Len(s) /\ t \in Seq(Nat) /\ Len(s) \in Nat
  BY SequenceIsSampled
<1>2. /\ k \in Nat /\ k \in 1 .. Len(Sorted(r)) /\ k \in 1 .. Len(t) /\ v \in Nat
      /\ \A n \in 1 .. k : n \in 1 .. Len(r) /\ n \in 1 .. Len(t) /\ n <= k
  BY <1>1, SMTT(30)
<1>3. \A n \in 1 .. k : r[n] <= v
  <2> SUFFICES ASSUME NEW n \in 1 .. k PROVE r[n] <= v
    OBVIOUS
  <2>1. t[n] <= v
    BY <1>1, <1>2, SortedAscending
  <2>2. n \in 1 .. Len(r) /\ n \in 1 .. Len(t)
    BY <1>2
  <2>3. r[n] <= t[n] /\ r[n] \in Nat /\ t[n] \in Nat
    BY <1>1, <2>2, SMTT(30)
  <2>4. v \in Nat
    BY <1>2
  <2> HIDE DEF v, t
  <2> QED
    BY <2>1, <2>3, <2>4, SMTT(30)
<1>4. k <= Cardinality(Upto(r, v))
  <2>1. 1 .. k \in SUBSET Upto(r, v)
    <3> HIDE DEF v
    <3>1. \A n \in 1 .. k : n \in DOMAIN r
      BY <1>1, <1>2
    <3> QED
      BY <1>3, <3>1 DEF Upto
  <2>2. IsFiniteSet(Upto(r, v))
    BY <1>1, UptoFacts
  <2>3. Cardinality(1 .. k) = k
    BY <1>2, FS_Interval
  <2>4. Cardinality(1 .. k) <= Cardinality(Upto(r, v))
    BY <2>1, <2>2, FS_Subset
  <2> QED
    BY <2>3, <2>4
<1> HIDE DEF v
<1>5. Sorted(r)[k] <= v
  BY <1>1, <1>2, <1>4, SortedRanks
<1> QED
  BY <1>2, <1>5 DEF v

-----------------------------------------------------------------------------
\* np.percentile of n samples lies between two that follow each other, the
\* lower of which is at most one rank below the nearest rank.
Lower(p, n) == ((n - 1) * p) \div 1000 + 1
Upper(p, n) == IF Lower(p, n) < n THEN Lower(p, n) + 1 ELSE Lower(p, n)
Part(p, n) == ((n - 1) * p) % 1000

LEMMA LowerBounds ==
  ASSUME NEW p \in Percentiles, NEW n \in Nat \ {0}
  PROVE  /\ Lower(p, n) \in 1 .. n /\ Upper(p, n) \in 1 .. n
         /\ Lower(p, n) <= Upper(p, n) /\ Part(p, n) \in Nat /\ Part(p, n) < 1000
         /\ Lower(p, n) <= Rank(p, n) /\ Rank(p, n) <= Lower(p, n) + 1
         /\ Upper(p, n) <= Lower(p, n) + 1
<1>1. CASE p = 500
  BY <1>1 DEF Lower, Upper, Part, Rank
<1>2. CASE p = 950
  BY <1>2 DEF Lower, Upper, Part, Rank
<1>3. CASE p = 990
  BY <1>3 DEF Lower, Upper, Part, Rank
<1>4. CASE p = 999
  BY <1>4 DEF Lower, Upper, Part, Rank
<1> QED
  BY <1>1, <1>2, <1>3, <1>4 DEF Percentiles

LEMMA RankGrows ==
  ASSUME NEW p \in Percentiles, NEW m \in Nat \ {0}, NEW n \in Nat \ {0}, m <= n
  PROVE  Rank(p, m) <= Rank(p, n)
<1>1. CASE p = 500
  BY <1>1 DEF Rank
<1>2. CASE p = 950
  BY <1>2 DEF Rank
<1>3. CASE p = 990
  BY <1>3 DEF Rank
<1>4. CASE p = 999
  BY <1>4 DEF Rank
<1> QED
  BY <1>1, <1>2, <1>3, <1>4 DEF Percentiles

LEMMA NpPercentileIs ==
  ASSUME NEW s, NEW p
  PROVE  np_percentile(s, p) = s[Lower(p, Len(s))] * (1000 - Part(p, Len(s)))
                                 + s[Upper(p, Len(s))] * Part(p, Len(s))
BY DEF np_percentile, Lower, Upper, Part

\* A mean with the weights of np.percentile.
LEMMA Between ==
  ASSUME NEW a \in Nat, NEW b \in Nat, a <= b, NEW w \in Nat, w < 1000
  PROVE  LET x == a * (1000 - w) + b * w IN
         x \in Nat /\ 1000 * a <= x /\ x <= 1000 * b
<1> DEFINE d == b - a
<1>1. d \in Nat /\ b = a + d
  OBVIOUS
<1> HIDE DEF d
<1>2. a * (1000 - w) + b * w = 1000 * a + d * w
  BY <1>1
<1>3. d * w \in Nat /\ d * w <= 1000 * d
  BY <1>1
<1> QED
  BY <1>1, <1>2, <1>3

LEMMA NpPercentileBetween ==
  ASSUME NEW f, Sampled(f), NEW n \in Nat \ {0}, n = Len(Sorted(f)), NEW p \in Percentiles
  PROVE  /\ 1000 * Sorted(f)[Lower(p, n)] <= np_percentile(Sorted(f), p)
         /\ np_percentile(Sorted(f), p) <= 1000 * Sorted(f)[Upper(p, n)]
         /\ np_percentile(Sorted(f), p) \in Nat
<1> DEFINE t == Sorted(f)
           a == t[Lower(p, n)]
           b == t[Upper(p, n)]
           w == Part(p, n)
<1>0. /\ Lower(p, n) \in 1 .. n /\ Upper(p, n) \in 1 .. n
      /\ Lower(p, n) <= Upper(p, n)
  BY LowerBounds
<1>1. w \in Nat /\ w < 1000
  BY LowerBounds
<1>2. a \in Nat /\ b \in Nat /\ a <= b
  BY <1>0, SortedAt, SortedAscending
<1>3. np_percentile(t, p) = a * (1000 - w) + b * w
  BY NpPercentileIs
<1> HIDE DEF a, b, w, t
<1>4. LET x == a * (1000 - w) + b * w IN x \in Nat /\ 1000 * a <= x /\ x <= 1000 * b
  BY <1>1, <1>2, Between
<1> QED
  BY <1>3, <1>4 DEF a, b, t

\* What a client's file is to the samples it was written from.
LEMMA FileOfClient ==
  ASSUME ClientsInv, NEW c \in Files
  PROVE  /\ c \in Clients /\ measured[c] \in Seq(Nat)
         /\ Sorted(measured[c]) \in Seq(Nat \ {0})
         /\ Len(Sorted(measured[c])) = Len(measured[c])
         /\ summary[c] = SummaryOf(Sorted(measured[c]))
         /\ FileOf(csv[c], Sorted(measured[c]))
         /\ csv[c].ends \in {"row", "index", "ns", "us"}
         /\ csv[c].rows \in Seq(Nat) /\ csv[c].us \in Seq(Nat)
<1> DEFINE s == measured[c]
           t == Sorted(s)
<1>1. c \in Clients /\ csv[c].exists
  BY DEF Files
<1>2. cpc[c] = "done" /\ s \in Seq(Nat \ {0}) /\ s \in Seq(Nat)
  BY <1>1 DEF ClientsInv, ReportTypes, ClientInv, NoCsv
<1>3. t \in Seq(Nat) /\ Len(t) = Len(s) /\ Sampled(s) /\ DOMAIN s = 1 .. Len(s)
  BY <1>2, SequenceIsSampled
<1>4. t \in Seq(Nat \ {0})
  <2>1. \A k \in 1 .. Len(t) : t[k] \in Nat \ {0}
    <3> SUFFICES ASSUME NEW k \in 1 .. Len(t) PROVE t[k] \in Nat \ {0}
      OBVIOUS
    <3>1. t[k] \in Range(s)
      BY <1>3, SortedAt
    <3>2. \A x \in DOMAIN s : s[x] \in Nat \ {0}
      BY <1>2
    <3> HIDE DEF s, t
    <3> QED
      BY <3>1, <3>2 DEF Range
  <2> HIDE DEF t
  <2> QED
    BY <1>3, <2>1
<1>5. csv[c] \in Written(t) /\ summary[c] = SummaryOf(t)
  BY <1>1, <1>2 DEF ClientsInv, ClientInv
<1>6. FileOf(csv[c], t) /\ csv[c].ends \in {"row", "index", "ns", "us"}
  <2> HIDE DEF t
  <2> QED
    BY <1>4, <1>5, WrittenIs
<1>7. csv[c].rows \in Seq(Nat \ {0}) /\ csv[c].us \in Seq(Nat)
  BY <1>6 DEF FileOf
<1> QED
  BY <1>1, <1>2, <1>3, <1>4, <1>5, <1>6, <1>7

LEMMA FilesAre ==
  ASSUME ClientsInv
  PROVE  /\ Columns(Files, "rows") /\ Columns(Files, "us") /\ Senders \subseteq Files
         /\ \A c \in Files : /\ FileOf(csv[c], Sorted(measured[c]))
                             /\ csv[c].ends \in {"row", "index", "ns", "us"}
                             /\ csv[c].rows \in Seq(Nat) /\ csv[c].us \in Seq(Nat)
<1>1. IsFiniteSet(Files) /\ Senders \subseteq Files
  BY ClientsAssumption, FS_Subset DEF Files, Senders
<1> QED
  BY <1>1, FileOfClient DEF Columns

LEMMA FileAgainstMeasured ==
  ASSUME ClientsInv, NEW c \in Senders
  PROVE  /\ c \in Clients /\ measured[c] \in Seq(Nat) /\ measured[c] # <<>>
         /\ Sorted(measured[c]) \in Seq(Nat \ {0})
         /\ summary[c] = SummaryOf(Sorted(measured[c]))
         /\ FileOf(csv[c], Sorted(measured[c]))
         /\ csv[c].rows \in Seq(Nat) /\ csv[c].rows # <<>>
         /\ Merged({c}) = Sorted(csv[c].rows)
<1> DEFINE s == measured[c]
           t == Sorted(s)
<1>1. c \in Files /\ csv[c].rows # <<>>
  BY DEF Senders
<1>2. /\ c \in Clients /\ s \in Seq(Nat) /\ t \in Seq(Nat \ {0}) /\ Len(t) = Len(s)
      /\ summary[c] = SummaryOf(t) /\ FileOf(csv[c], t) /\ csv[c].rows \in Seq(Nat)
  BY <1>1, FileOfClient
<1>3. Len(csv[c].rows) <= Len(t) /\ Len(csv[c].rows) \in Nat \ {0}
  BY <1>1, <1>2 DEF FileOf
<1>4. s # <<>>
  BY <1>2, <1>3
<1>5. Merged({c}) = Sorted(csv[c].rows)
  <2>1. csv[c]["rows"] = csv[c].rows
    OBVIOUS
  <2> QED
    BY <1>2, <2>1, PooledOne DEF Merged
<1> QED
  BY <1>1, <1>2, <1>4, <1>5

LEMMA FilePercentiles ==
  ASSUME NEW r \in Seq(Nat), NEW s \in Seq(Nat), r # <<>>, Len(r) <= Len(s),
         \A n \in 1 .. Len(r) : r[n] <= Sorted(s)[n], NEW p \in Percentiles
  PROVE  /\ np_percentile(Sorted(r), p)
              <= 1000 * Smallest(s, IF Rank(p, Len(s)) < Len(s)
                                    THEN Rank(p, Len(s)) + 1 ELSE Len(s))
         /\ Len(r) = Len(s) /\ Sorted(r) = Sorted(s) =>
              np_percentile(Sorted(r), p)
                >= 1000 * Smallest(s, IF Rank(p, Len(s)) > 1
                                      THEN Rank(p, Len(s)) - 1 ELSE 1)
<1> DEFINE n == Len(s)
           m == Len(r)
           k == Rank(p, n)
           t == Sorted(s)
           u == Sorted(r)
           above == IF k < n THEN k + 1 ELSE n
           below == IF k > 1 THEN k - 1 ELSE 1
<1>1. /\ m \in Nat \ {0} /\ n \in Nat \ {0} /\ m <= n
      /\ Sampled(r) /\ Sampled(s) /\ Len(u) = m /\ Len(t) = n
  BY SequenceIsSampled
<1>2. /\ Lower(p, m) \in 1 .. m /\ Upper(p, m) \in 1 .. m
      /\ Lower(p, m) <= Rank(p, m) /\ Upper(p, m) <= Lower(p, m) + 1
      /\ Rank(p, m) \in 1 .. m /\ k \in 1 .. n /\ Rank(p, m) <= k
      /\ Lower(p, n) \in 1 .. n /\ k <= Lower(p, n) + 1
  <2> HIDE DEF m, n
  <2> QED
    BY <1>1, LowerBounds, RankBounds, RankGrows
<1>3. /\ 1000 * u[Lower(p, m)] <= np_percentile(u, p)
      /\ np_percentile(u, p) <= 1000 * u[Upper(p, m)]
      /\ np_percentile(u, p) \in Nat
  BY <1>1, NpPercentileBetween, SMTT(30)
<1>4. above \in 1 .. n /\ below \in 1 .. n /\ Upper(p, m) <= above /\ below <= Lower(p, n)
      /\ Upper(p, m) \in 1 .. n
  <2> HIDE DEF n, m, k
  <2>1. /\ m \in Nat /\ n \in Nat /\ 0 < m /\ 0 < n /\ m <= n
    BY <1>1
  <2>2. /\ Upper(p, m) \in Nat /\ 1 <= Upper(p, m) /\ Upper(p, m) <= m
        /\ Lower(p, m) \in Nat /\ Rank(p, m) \in Nat /\ Lower(p, n) \in Nat
        /\ 1 <= Lower(p, n) /\ Lower(p, n) <= n /\ k \in Nat /\ 1 <= k /\ k <= n
    BY <1>2, <2>1, SMTT(30)
  <2>3. Upper(p, m) <= k + 1 /\ k <= Lower(p, n) + 1
    BY <1>2, <2>2
  <2> QED
    BY <2>1, <2>2, <2>3, SMTT(30)
<1>5. Smallest(s, above) = t[above] /\ Smallest(s, below) = t[below]
  <2> HIDE DEF above, below
  <2> QED
    BY <1>1, <1>4, SmallestIs
<1>6. /\ u[Upper(p, m)] <= t[Upper(p, m)] /\ t[Upper(p, m)] <= t[above]
      /\ t[below] <= t[Lower(p, n)]
  <2>1. u[Upper(p, m)] <= t[Upper(p, m)]
    BY <1>2, SortedBelow
  <2> HIDE DEF above, below
  <2>2. t[Upper(p, m)] <= t[above] /\ t[below] <= t[Lower(p, n)]
    BY <1>1, <1>2, <1>4, SortedAscending
  <2> QED
    BY <2>1, <2>2
<1>7. /\ u[Upper(p, m)] \in Nat /\ t[Upper(p, m)] \in Nat /\ t[above] \in Nat
      /\ t[below] \in Nat /\ t[Lower(p, n)] \in Nat
  <2> HIDE DEF above, below
  <2> QED
    BY <1>1, <1>2, <1>4, SortedAt
<1>8. np_percentile(u, p) <= 1000 * Smallest(s, above)
  <2> DEFINE x == np_percentile(u, p)
             a == u[Upper(p, m)]
             b == t[Upper(p, m)]
             d == t[above]
  <2>1. x \in Nat /\ a \in Nat /\ b \in Nat /\ d \in Nat /\ x <= 1000 * a /\ a <= b /\ b <= d
    BY <1>3, <1>6, <1>7
  <2>2. Smallest(s, above) = d
    BY <1>5
  <2> HIDE DEF x, a, b, d
  <2>3. x <= 1000 * d
    BY <2>1
  <2> QED
    BY <2>2, <2>3 DEF x
<1>9. ASSUME m = n, u = t PROVE np_percentile(u, p) >= 1000 * Smallest(s, below)
  <2> DEFINE x == np_percentile(u, p)
             a == t[Lower(p, n)]
             b == t[below]
  <2>1. x \in Nat /\ a \in Nat /\ b \in Nat /\ 1000 * a <= x /\ b <= a
    BY <1>3, <1>6, <1>7, <1>9
  <2>2. Smallest(s, below) = b
    BY <1>5
  <2> HIDE DEF x, a, b
  <2>3. x >= 1000 * b
    BY <2>1
  <2> QED
    BY <2>2, <2>3 DEF x
<1> QED
  BY <1>8, <1>9

\* What the scripts compute from a client's file, against what it printed.
THEOREM FileHolds == SpecReport => []FileAgainstConsole
<1>1. ASSUME ClientsInv, NEW c \in Senders
      PROVE  LET s == measured[c]
                 n == Len(s)
                 file == compute_stats(Merged({c}))
             IN /\ file.min <= summary[c].min /\ file.max <= summary[c].max
                /\ \A p \in Percentiles :
                     file.p[p] <= 1000 * Smallest(s, IF Rank(p, n) < n THEN Rank(p, n) + 1
                                                                       ELSE n)
                /\ file.mean[1] = summary[c].mean[1] =>
                     /\ file.count = n
                     /\ file.min = summary[c].min /\ file.max = summary[c].max
                     /\ \A p \in Percentiles :
                          file.p[p] >= 1000 * Smallest(s, IF Rank(p, n) > 1
                                                          THEN Rank(p, n) - 1 ELSE 1)
  <2> DEFINE s == measured[c]
             n == Len(s)
             t == Sorted(s)
             r == csv[c].rows
             u == Sorted(r)
             m == Len(r)
             file == compute_stats(Merged({c}))
             above(p) == IF Rank(p, n) < n THEN Rank(p, n) + 1 ELSE n
             below(p) == IF Rank(p, n) > 1 THEN Rank(p, n) - 1 ELSE 1
  <2>1. /\ s \in Seq(Nat) /\ s # <<>> /\ t \in Seq(Nat \ {0}) /\ summary[c] = SummaryOf(t)
        /\ r \in Seq(Nat) /\ r # <<>> /\ Merged({c}) = u /\ FileOf(csv[c], t)
    BY <1>1, FileAgainstMeasured
  <2>2. /\ m \in Nat \ {0} /\ n \in Nat \ {0} /\ Sampled(r) /\ Sampled(s)
        /\ Len(u) = m /\ Len(t) = n /\ u \in Seq(Nat) /\ t \in Seq(Nat)
    BY <2>1, SequenceIsSampled
  <2>3. m <= n /\ \A i \in 1 .. m : r[i] <= t[i]
    BY <2>1, <2>2 DEF FileOf
  <2>4. /\ file.count = m /\ file.min = u[1] /\ file.max = u[m] /\ file.mean[1] = Total(u)
        /\ \A p \in Percentiles : file.p[p] = np_percentile(u, p)
    <3>1. file = compute_stats(u)
      BY <2>1
    <3> HIDE DEF file
    <3> QED
      BY <2>2, <3>1 DEF compute_stats
  <2>5. /\ summary[c].min = t[1] /\ summary[c].max = t[n] /\ summary[c].mean[1] = Total(t)
    <3>1. t # <<>>
      BY <2>2
    <3> HIDE DEF t, n
    <3> QED
      BY <2>1, <2>2, <3>1 DEF SummaryOf
  <2>6. Total(u) = Total(r) /\ Total(t) = Total(s)
    BY <2>2, SortedTotal
  <2>7. ASSUME file.mean[1] = summary[c].mean[1] PROVE r = t /\ m = n /\ u = t
    <3>1. Total(r) = Total(t)
      BY <2>4, <2>5, <2>6, <2>7
    <3>2. Len(r) <= Len(t)
      BY <2>2, <2>3
    <3>3. r = t
      <4> HIDE DEF r, t
      <4> QED
        BY <2>1, <2>3, <3>1, <3>2, SameTotal DEF m
    <3>4. u = t
      BY <2>2, <3>3, SortedTwice
    <3> QED
      BY <2>2, <3>3, <3>4
  <2>8. file.min <= summary[c].min /\ file.max <= summary[c].max
    <3>1. 1 \in 1 .. m /\ m \in 1 .. m /\ m \in 1 .. n /\ n \in 1 .. n /\ m <= n
      BY <2>2, <2>3
    <3>2. u[1] <= t[1] /\ u[m] <= t[m]
      BY <2>1, <2>3, <3>1, SortedBelow
    <3>3. t[m] <= t[n]
      BY <2>2, <3>1, SortedAscending
    <3>4. u[m] \in Nat /\ t[m] \in Nat /\ t[n] \in Nat
      <4> HIDE DEF u, t, m, n
      <4> QED
        BY <2>2, <3>1
    <3> HIDE DEF u, t, file, m, n
    <3> QED
      BY <2>4, <2>5, <3>2, <3>3, <3>4
  <2>9. ASSUME NEW p \in Percentiles
        PROVE  /\ file.p[p] <= 1000 * Smallest(s, above(p))
               /\ m = n /\ u = t => file.p[p] >= 1000 * Smallest(s, below(p))
    <3>1. file.p[p] = np_percentile(u, p)
      BY <2>4
    <3>2. /\ np_percentile(u, p) <= 1000 * Smallest(s, above(p))
          /\ m = n /\ u = t => np_percentile(u, p) >= 1000 * Smallest(s, below(p))
      <4>1. /\ r \in Seq(Nat) /\ s \in Seq(Nat) /\ r # <<>> /\ Len(r) <= Len(s)
            /\ \A i \in 1 .. Len(r) : r[i] <= Sorted(s)[i]
        BY <2>1, <2>3
      <4> HIDE DEF r, s
      <4> QED
        BY <4>1, FilePercentiles
    <3> HIDE DEF file, u, above, below, m, n, t
    <3> QED
      BY <3>1, <3>2
  <2>12. file.mean[1] = summary[c].mean[1] =>
           /\ file.count = n /\ file.min = summary[c].min /\ file.max = summary[c].max
           /\ \A p \in Percentiles : file.p[p] >= 1000 * Smallest(s, below(p))
    <3> HIDE DEF n, s, file, above, below, u, t, r, m
    <3> QED
      BY <2>4, <2>5, <2>7, <2>9
  <2>13. \A p \in Percentiles : file.p[p] <= 1000 * Smallest(s, above(p))
    BY <2>9, SMTT(30)
  <2>14. /\ file.min <= summary[c].min /\ file.max <= summary[c].max
         /\ \A p \in Percentiles : file.p[p] <= 1000 * Smallest(s, above(p))
         /\ file.mean[1] = summary[c].mean[1] =>
              /\ file.count = n /\ file.min = summary[c].min /\ file.max = summary[c].max
              /\ \A p \in Percentiles : file.p[p] >= 1000 * Smallest(s, below(p))
    <3> HIDE DEF n, s, above, below, file
    <3> QED
      BY <2>8, <2>12, <2>13
  <2> QED
    BY <2>14
<1>2. ClientsInv => FileAgainstConsole
  BY <1>1 DEF FileAgainstConsole, Rank
<1> QED
  BY <1>2, ReportInit, ClientsStep, PTL DEF SpecReport

-----------------------------------------------------------------------------
\* The scripts: once the clients have ended the files stay, and each script has
\* written what it makes of them.
StatsOut ==
  IF Files = {} THEN <<"none">>
  ELSE IF RowCut \/ Senders = {} THEN <<"raised">>
  ELSE <<"stats", compute_stats(Merged(Files))>>
FairOut ==
  IF RowCut THEN <<"raised">>
  ELSE IF Senders = {} THEN <<"none">>
  ELSE <<"fair", [n_senders |-> Cardinality(Senders),
                  jain |-> jain_index(Throughputs(Senders))]>>
RowOut ==
  IF RowCut THEN <<"raised">>
  ELSE IF Senders = {} THEN <<"none">>
  ELSE <<"row", [latency |-> compute_stats(Merged(Senders)),
                 jain |-> jain_index(Throughputs(Senders)),
                 n_clients |-> Cardinality(Senders)]>>
CurvesOut ==
  IF \E c \in Files : csv[c].ends \in {"index", "ns"} THEN <<"raised">>
  ELSE IF MergedUs = <<>> THEN <<"none">>
  ELSE <<"curves", [samples |-> MergedUs,
                    p |-> [q \in Percentiles |-> np_percentile(MergedUs, q)]]>>
LossOut ==
  IF MergedUs = <<>> \/ \E c \in Files : ~csv[c].header THEN <<"raised">>
  ELSE <<"loss", [q \in Percentiles |-> pct(MergedUs, q)]>>

Those(first, second, but) == {d \in {1} : first} \cup {d \in {2} : second \notin but}
WithSamples(first, second) == Those(first, second, {"none", "empty"})
Analyzed(paths, second) == Kept(Those(Files # {}, second, {"none"}), paths = "distinct")
ComparedOut(paths, second) ==
  [paths |-> paths, samples |-> WithSamples(Senders # {}, second),
   analyze |-> IF RowCut \/ (\/ 1 \in Analyzed(paths, second) /\ Senders = {}
                             \/ 2 \in Analyzed(paths, second) /\ second = "empty")
               THEN {0} ELSE Analyzed(paths, second),
   fairness |-> IF RowCut THEN {0}
                ELSE Kept(WithSamples(Senders # {}, second), paths # "same"),
   plot |-> IF curves[1] = "raised" THEN {0}
            ELSE WithSamples(curves[1] = "curves", second)]
Second == {"samples", "empty", "none"}

ScriptInv ==
  /\ stats = <<>> \/ (AllEnded /\ stats = StatsOut)
  /\ fair = <<>> \/ (stats # <<>> /\ fair = FairOut)
  /\ row = <<>> \/ (fair # <<>> /\ row = RowOut)
  /\ curves = <<>> \/ (row # <<>> /\ curves = CurvesOut)
  /\ loss = <<>> \/ (curves # <<>> /\ loss = LossOut)
  /\ compared = <<>> \/ (/\ loss # <<>>
                         /\ \E paths \in Paths, second \in Second :
                              compared = ComparedOut(paths, second))

LatencyInv == ClientsInv /\ ScriptInv

\* The files are what the scripts read, and nothing else.
LEMMA FilesStay ==
  ASSUME cpc' = cpc, csv' = csv
  PROVE  /\ AllEnded' = AllEnded /\ StatsOut' = StatsOut /\ FairOut' = FairOut
         /\ RowOut' = RowOut /\ CurvesOut' = CurvesOut /\ LossOut' = LossOut
         /\ curves' = curves =>
              \A paths, second : ComparedOut(paths, second)' = ComparedOut(paths, second)
<1>1. Files' = Files
  BY DEF Files
<1>2. Senders' = Senders /\ RowCut' = RowCut
  BY <1>1 DEF Senders, RowCut
<1>3. \A files, column : Pooled(files, column)' = Pooled(files, column)
  BY DEF Pooled, FoldSet, MapThenFoldSet
<1>4. Merged(Files)' = Merged(Files) /\ Merged(Senders)' = Merged(Senders) /\ MergedUs' = MergedUs
  BY <1>1, <1>2, <1>3 DEF Merged, MergedUs
<1>5. Throughputs(Senders)' = Throughputs(Senders)
  BY <1>2 DEF Throughputs, FoldFunctionOnSet, MapThenFoldSet
<1>6. AllEnded' = AllEnded
  BY DEF AllEnded
<1>7. StatsOut' = StatsOut /\ FairOut' = FairOut /\ RowOut' = RowOut
  BY <1>1, <1>2, <1>4, <1>5 DEF StatsOut, FairOut, RowOut
<1>8. CurvesOut' = CurvesOut /\ LossOut' = LossOut
  BY <1>1, <1>4 DEF CurvesOut, LossOut
<1>9. curves' = curves =>
        \A paths, second : ComparedOut(paths, second)' = ComparedOut(paths, second)
  BY <1>1, <1>2 DEF ComparedOut, Analyzed
<1> QED
  BY <1>6, <1>7, <1>8, <1>9

LEMMA ScriptStep ==
  ASSUME LatencyInv, [NextReport]_reportVars
  PROVE  ScriptInv'
<1> USE DEF LatencyInv
<1>1. CASE \E c \in Clients : Client(c)
  <2>1. ~AllEnded /\ UNCHANGED tableVars
    BY <1>1 DEF Client, run_ends, client_dies, print_summary, dump_csv, AllEnded, Ended
  <2>2. /\ stats' = <<>> /\ fair' = <<>> /\ row' = <<>>
        /\ curves' = <<>> /\ loss' = <<>> /\ compared' = <<>>
    BY <2>1 DEF ScriptInv, tableVars
  <2> QED
    BY <2>2 DEF ScriptInv
<1>2. CASE analyze
  <2>1. /\ cpc' = cpc /\ csv' = csv /\ AllEnded /\ stats = <<>> /\ stats' = StatsOut
        /\ UNCHANGED <<fair, row, curves, loss, compared>>
    BY <1>2 DEF analyze, clientVars, StatsOut
  <2>2. AllEnded' = AllEnded /\ StatsOut' = StatsOut
    BY <2>1, FilesStay
  <2>3. fair = <<>> /\ row = <<>> /\ curves = <<>> /\ loss = <<>> /\ compared = <<>>
    BY <2>1 DEF ScriptInv
  <2> QED
    BY <2>1, <2>2, <2>3 DEF ScriptInv
<1>3. CASE analyze_fairness
  <2>1. /\ cpc' = cpc /\ csv' = csv /\ stats # <<>> /\ fair = <<>> /\ fair' = FairOut
        /\ UNCHANGED <<stats, row, curves, loss, compared>>
    BY <1>3 DEF analyze_fairness, clientVars, FairOut
  <2>2. AllEnded' = AllEnded /\ StatsOut' = StatsOut /\ FairOut' = FairOut
    BY <2>1, FilesStay
  <2>3. row = <<>> /\ curves = <<>> /\ loss = <<>> /\ compared = <<>>
    BY <2>1 DEF ScriptInv
  <2> QED
    BY <2>1, <2>2, <2>3 DEF ScriptInv
<1>4. CASE collect_entry
  <2>1. /\ cpc' = cpc /\ csv' = csv /\ fair # <<>> /\ row = <<>> /\ row' = RowOut
        /\ UNCHANGED <<stats, fair, curves, loss, compared>>
    BY <1>4 DEF collect_entry, clientVars, RowOut
  <2>2. AllEnded' = AllEnded /\ StatsOut' = StatsOut /\ FairOut' = FairOut /\ RowOut' = RowOut
    BY <2>1, FilesStay
  <2>3. curves = <<>> /\ loss = <<>> /\ compared = <<>>
    BY <2>1 DEF ScriptInv
  <2> QED
    BY <2>1, <2>2, <2>3 DEF ScriptInv
<1>5. CASE plot
  <2>1. /\ cpc' = cpc /\ csv' = csv /\ row # <<>> /\ curves = <<>> /\ curves' = CurvesOut
        /\ UNCHANGED <<stats, fair, row, loss, compared>>
    BY <1>5 DEF plot, clientVars, CurvesOut
  <2>2. /\ AllEnded' = AllEnded /\ StatsOut' = StatsOut /\ FairOut' = FairOut
        /\ RowOut' = RowOut /\ CurvesOut' = CurvesOut
    BY <2>1, FilesStay
  <2>3. loss = <<>> /\ compared = <<>>
    BY <2>1 DEF ScriptInv
  <2> QED
    BY <2>1, <2>2, <2>3 DEF ScriptInv
<1>6. CASE load_samples
  <2>1. /\ cpc' = cpc /\ csv' = csv /\ curves # <<>> /\ loss = <<>> /\ loss' = LossOut
        /\ UNCHANGED <<stats, fair, row, curves, compared>>
    BY <1>6 DEF load_samples, clientVars, LossOut
  <2>2. /\ AllEnded' = AllEnded /\ StatsOut' = StatsOut /\ FairOut' = FairOut
        /\ RowOut' = RowOut /\ CurvesOut' = CurvesOut /\ LossOut' = LossOut
    BY <2>1, FilesStay
  <2>3. compared = <<>>
    BY <2>1 DEF ScriptInv
  <2> QED
    BY <2>1, <2>2, <2>3 DEF ScriptInv
<1>7. CASE compare
  <2>1. /\ cpc' = cpc /\ csv' = csv /\ loss # <<>> /\ compared = <<>>
        /\ UNCHANGED <<stats, fair, row, curves, loss>>
    BY <1>7 DEF compare, clientVars
  <2>2. \E paths \in Paths, second \in Second : compared' = ComparedOut(paths, second)
    BY <1>7 DEF compare, ComparedOut, Analyzed, WithSamples, Those, Second
  <2>3. /\ AllEnded' = AllEnded /\ StatsOut' = StatsOut /\ FairOut' = FairOut
        /\ RowOut' = RowOut /\ CurvesOut' = CurvesOut /\ LossOut' = LossOut
        /\ \A paths, second : ComparedOut(paths, second)' = ComparedOut(paths, second)
    BY <2>1, FilesStay
  <2>4. \E paths \in Paths, second \in Second : compared' = ComparedOut(paths, second)'
    BY <2>2, <2>3
  <2> QED
    BY <2>1, <2>3, <2>4 DEF ScriptInv
<1>8. CASE UNCHANGED reportVars
  <2>1. cpc' = cpc /\ csv' = csv /\ UNCHANGED <<stats, fair, row, curves, loss, compared>>
    BY <1>8 DEF reportVars, clientVars, tableVars
  <2>2. /\ AllEnded' = AllEnded /\ StatsOut' = StatsOut /\ FairOut' = FairOut
        /\ RowOut' = RowOut /\ CurvesOut' = CurvesOut /\ LossOut' = LossOut
        /\ \A paths, second : ComparedOut(paths, second)' = ComparedOut(paths, second)
    BY <2>1, FilesStay
  <2> QED
    BY <2>1, <2>2 DEF ScriptInv
<1> QED
  BY <1>1, <1>2, <1>3, <1>4, <1>5, <1>6, <1>7, <1>8 DEF NextReport, ReportFinished

LEMMA LatencyInvariance == SpecReport => []LatencyInv
<1>1. InitReport => LatencyInv
  BY ReportInit DEF InitReport, LatencyInv, ScriptInv
<1>2. LatencyInv /\ [NextReport]_reportVars => LatencyInv'
  BY ClientsStep, ScriptStep DEF LatencyInv
<1> QED
  BY <1>1, <1>2, PTL DEF SpecReport

-----------------------------------------------------------------------------
\* Jain's index.  How far the values on S are from y, and the inequality of
\* Cauchy and Schwarz with its case of equality, by induction over S.
Square(b) == b * b
Spread(q, a, n) == n * q - a * a
Apart(q, a, n, y) == q + n * (y * y) - 2 * (y * a)

LEMMA SquareAdded ==
  ASSUME NEW a \in Nat, NEW b \in Nat, NEW q \in Nat, q <= Square(a)
  PROVE  Square(b) + q <= Square(b + a)
<1>1. (b + a) * (b + a) = b * b + 2 * (a * b) + a * a
  OBVIOUS
<1>2. a * b \in Nat /\ a * a \in Nat /\ b * b \in Nat
  OBVIOUS
<1> QED
  BY <1>1, <1>2 DEF Square

LEMMA ApartAdded ==
  ASSUME NEW a \in Nat, NEW b \in Nat, NEW q \in Nat, NEW n \in Nat, NEW y \in Nat
  PROVE  Apart(Square(b) + q, b + a, n + 1, y) = Apart(q, a, n, y) + Square(b - y)
<1>1. (b - y) * (b - y) = b * b - 2 * (y * b) + y * y
  OBVIOUS
<1>2. (n + 1) * (y * y) = n * (y * y) + y * y
  <2>1. \A x \in Nat : (n + 1) * x = n * x + x
    OBVIOUS
  <2>2. y * y \in Nat
    OBVIOUS
  <2> QED
    BY <2>1, <2>2
<1>3. y * (b + a) = y * b + y * a
  OBVIOUS
<1>4. y * b \in Int /\ y * a \in Int /\ b * b \in Int /\ n * (y * y) \in Int /\ y * y \in Int
  OBVIOUS
<1> QED
  BY <1>1, <1>2, <1>3, <1>4 DEF Apart, Square

LEMMA SpreadAdded ==
  ASSUME NEW a \in Nat, NEW b \in Nat, NEW q \in Nat, NEW n \in Nat
  PROVE  Spread(Square(b) + q, b + a, n + 1) = Spread(q, a, n) + Apart(q, a, n, b)
<1>1. (b + a) * (b + a) = b * b + 2 * (b * a) + a * a
  OBVIOUS
<1>2. (n + 1) * (b * b + q) = n * (b * b) + n * q + b * b + q
  <2>1. b * b \in Nat
    OBVIOUS
  <2>2. \A x \in Nat : (n + 1) * (x + q) = n * x + n * q + x + q
    OBVIOUS
  <2> QED
    BY <2>1, <2>2
<1>3. /\ b * a \in Int /\ a * a \in Int /\ b * b \in Int /\ n * (b * b) \in Int
      /\ n * q \in Int
  OBVIOUS
<1> QED
  BY <1>1, <1>2, <1>3 DEF Apart, Spread, Square

LEMMA SquarePositive ==
  ASSUME NEW a \in Nat, NEW b \in Nat
  PROVE  Square(a - b) \in Nat /\ (Square(a - b) = 0 <=> a = b)
<1>1. \A d \in Int : d * d \in Nat /\ (d * d = 0 <=> d = 0)
  OBVIOUS
<1>2. a - b \in Int /\ (a - b = 0 <=> a = b)
  OBVIOUS
<1> QED
  BY <1>1, <1>2 DEF Square

\* x has values in the natural numbers on S, and q their squares.
Squares(q, x, S) ==
  IsFiniteSet(S) /\ \A c \in S : x[c] \in Nat /\ q[c] = Square(x[c]) /\ q[c] \in Nat

LEMMA SquaresOfPart ==
  ASSUME NEW S, NEW x, NEW q, Squares(q, x, S), NEW T \in SUBSET S
  PROVE  /\ IsFiniteSet(T) /\ Cardinality(T) \in Nat
         /\ Sum(x, T) \in Nat /\ Sum(q, T) \in Nat
         /\ \A c \in S \ T : /\ Sum(x, T \cup {c}) = x[c] + Sum(x, T)
                             /\ Sum(q, T \cup {c}) = Square(x[c]) + Sum(q, T)
                             /\ Cardinality(T \cup {c}) = Cardinality(T) + 1
<1>1. IsFiniteSet(T) /\ Cardinality(T) \in Nat
  BY FS_Subset, FS_CardinalityType DEF Squares
<1>2. \A c \in S : x[c] \in Nat /\ q[c] = Square(x[c]) /\ q[c] \in Nat
  BY DEF Squares
<1>3. Sum(x, T) \in Nat /\ Sum(q, T) \in Nat
  BY <1>1, <1>2, SumOfNaturals
<1>4. ASSUME NEW c \in S \ T
      PROVE  /\ Sum(x, T \cup {c}) = x[c] + Sum(x, T)
             /\ Sum(q, T \cup {c}) = Square(x[c]) + Sum(q, T)
             /\ Cardinality(T \cup {c}) = Cardinality(T) + 1
  <2>1. Cardinality(T \cup {c}) = Cardinality(T) + 1
    BY <1>1, FS_AddElement
  <2>2. c \notin T /\ \A d \in T \cup {c} : x[d] \in Nat /\ q[d] \in Nat
    BY <1>2
  <2>3. Sum(x, T \cup {c}) = x[c] + Sum(x, T) /\ Sum(q, T \cup {c}) = q[c] + Sum(q, T)
    BY <1>1, <2>2, SumAdd
  <2> QED
    BY <1>2, <2>1, <2>3
<1> QED
  BY <1>1, <1>3, <1>4

LEMMA SquaresBelow ==
  ASSUME NEW S, NEW x, NEW q, Squares(q, x, S)
  PROVE  Sum(q, S) <= Square(Sum(x, S))
<1> DEFINE P == {T \in SUBSET S : Sum(q, T) <= Square(Sum(x, T))}
<1>0. IsFiniteSet(S) /\ \A c \in S : x[c] \in Nat
  BY DEF Squares
<1>1. {} \in P
  <2>1. Sum(x, {}) = 0 /\ Sum(q, {}) = 0
    BY SumEmpty
  <2> QED
    BY <2>1 DEF Square
<1>2. ASSUME NEW T \in P, NEW c \in S \ T PROVE T \cup {c} \in P
  <2>1. T \in SUBSET S /\ T \cup {c} \in SUBSET S /\ Sum(q, T) <= Square(Sum(x, T))
    OBVIOUS
  <2>2. /\ Sum(x, T) \in Nat /\ Sum(q, T) \in Nat /\ x[c] \in Nat
        /\ Sum(x, T \cup {c}) = x[c] + Sum(x, T)
        /\ Sum(q, T \cup {c}) = Square(x[c]) + Sum(q, T)
    BY <1>0, <2>1, SquaresOfPart
  <2>3. Square(x[c]) + Sum(q, T) <= Square(x[c] + Sum(x, T))
    BY <2>1, <2>2, SquareAdded
  <2> QED
    BY <2>1, <2>2, <2>3
<1> HIDE DEF P
<1>3. P \in SUBSET (SUBSET S)
  BY DEF P
<1>4. S \in P
  BY <1>0, <1>1, <1>2, <1>3, FiniteInduction
<1> QED
  BY <1>4 DEF P

LEMMA ApartFrom ==
  ASSUME NEW S, NEW x, NEW q, Squares(q, x, S), NEW y \in Nat
  PROVE  LET e == Apart(Sum(q, S), Sum(x, S), Cardinality(S), y) IN
         e \in Nat /\ (e = 0 <=> \A c \in S : x[c] = y)
<1> DEFINE e(T) == Apart(Sum(q, T), Sum(x, T), Cardinality(T), y)
           Good(T) == e(T) \in Nat /\ (e(T) = 0 <=> \A c \in T : x[c] = y)
           P == {T \in SUBSET S : Good(T)}
<1>0. IsFiniteSet(S) /\ \A c \in S : x[c] \in Nat
  BY DEF Squares
<1>1. {} \in P
  <2>1. Sum(x, {}) = 0 /\ Sum(q, {}) = 0 /\ Cardinality({}) = 0
    BY SumEmpty, FS_EmptySet
  <2>2. e({}) = 0
    BY <2>1 DEF Apart
  <2> HIDE DEF e
  <2> QED
    BY <2>2
<1>2. ASSUME NEW T \in P, NEW c \in S \ T PROVE T \cup {c} \in P
  <2>1. T \in SUBSET S /\ T \cup {c} \in SUBSET S /\ Good(T)
    OBVIOUS
  <2>2. /\ Sum(x, T) \in Nat /\ Sum(q, T) \in Nat /\ x[c] \in Nat /\ Cardinality(T) \in Nat
        /\ Sum(x, T \cup {c}) = x[c] + Sum(x, T)
        /\ Sum(q, T \cup {c}) = Square(x[c]) + Sum(q, T)
        /\ Cardinality(T \cup {c}) = Cardinality(T) + 1
    BY <1>0, <2>1, SquaresOfPart
  <2>3. e(T \cup {c}) = e(T) + Square(x[c] - y)
    <3>1. \E a, b, r, n \in Nat :
            a = Sum(x, T) /\ b = x[c] /\ r = Sum(q, T) /\ n = Cardinality(T)
      BY <2>2
    <3>2. PICK a, b, r, n \in Nat :
            a = Sum(x, T) /\ b = x[c] /\ r = Sum(q, T) /\ n = Cardinality(T)
      BY <3>1
    <3>3. Apart(Square(b) + r, b + a, n + 1, y) = Apart(r, a, n, y) + Square(b - y)
      BY ApartAdded
    <3> QED
      BY <2>2, <3>2, <3>3
  <2>4. Square(x[c] - y) \in Nat /\ (Square(x[c] - y) = 0 <=> x[c] = y)
    BY <2>2, SquarePositive
  <2> HIDE DEF e
  <2>5. \A i, j \in Nat : i + j \in Nat /\ (i + j = 0 <=> i = 0 /\ j = 0)
    OBVIOUS
  <2>6. Good(T \cup {c})
    <3>1. e(T) \in Nat /\ (e(T) = 0 <=> \A d \in T : x[d] = y)
      BY <2>1
    <3>2. e(T \cup {c}) \in Nat /\ (e(T \cup {c}) = 0 <=> e(T) = 0 /\ x[c] = y)
      BY <2>3, <2>4, <2>5, <3>1
    <3> QED
      BY <3>1, <3>2
  <2> QED
    BY <2>1, <2>6
<1> HIDE DEF P
<1>3. P \in SUBSET (SUBSET S)
  BY DEF P
<1>4. S \in P
  BY <1>0, <1>1, <1>2, <1>3, FiniteInduction
<1> QED
  BY <1>4 DEF P

LEMMA CauchySchwarz ==
  ASSUME NEW S, NEW x, NEW q, Squares(q, x, S)
  PROVE  LET e == Spread(Sum(q, S), Sum(x, S), Cardinality(S)) IN
         e \in Nat /\ (e = 0 <=> \A c, d \in S : x[c] = x[d])
<1> DEFINE e(T) == Spread(Sum(q, T), Sum(x, T), Cardinality(T))
           Good(T) == e(T) \in Nat /\ (e(T) = 0 <=> \A c, d \in T : x[c] = x[d])
           P == {T \in SUBSET S : Good(T)}
<1>0. IsFiniteSet(S) /\ \A c \in S : x[c] \in Nat
  BY DEF Squares
<1>1. {} \in P
  <2>1. Sum(x, {}) = 0 /\ Sum(q, {}) = 0 /\ Cardinality({}) = 0
    BY SumEmpty, FS_EmptySet
  <2>2. e({}) = 0
    BY <2>1 DEF Spread
  <2> HIDE DEF e
  <2> QED
    BY <2>2
<1>2. ASSUME NEW T \in P, NEW c \in S \ T PROVE T \cup {c} \in P
  <2>1. T \in SUBSET S /\ T \cup {c} \in SUBSET S /\ Good(T)
    OBVIOUS
  <2>2. /\ Sum(x, T) \in Nat /\ Sum(q, T) \in Nat /\ x[c] \in Nat /\ Cardinality(T) \in Nat
        /\ Sum(x, T \cup {c}) = x[c] + Sum(x, T)
        /\ Sum(q, T \cup {c}) = Square(x[c]) + Sum(q, T)
        /\ Cardinality(T \cup {c}) = Cardinality(T) + 1
    BY <1>0, <2>1, SquaresOfPart
  <2> DEFINE far == Apart(Sum(q, T), Sum(x, T), Cardinality(T), x[c])
  <2>3. e(T \cup {c}) = e(T) + far
    <3>1. \E a, b, r, n \in Nat :
            a = Sum(x, T) /\ b = x[c] /\ r = Sum(q, T) /\ n = Cardinality(T)
      BY <2>2
    <3>2. PICK a, b, r, n \in Nat :
            a = Sum(x, T) /\ b = x[c] /\ r = Sum(q, T) /\ n = Cardinality(T)
      BY <3>1
    <3>3. Spread(Square(b) + r, b + a, n + 1) = Spread(r, a, n) + Apart(r, a, n, b)
      BY SpreadAdded
    <3> QED
      BY <2>2, <3>2, <3>3
  <2>4. far \in Nat /\ (far = 0 <=> \A d \in T : x[d] = x[c])
    <3>1. Squares(q, x, T)
      BY <2>1, FS_Subset DEF Squares
    <3> QED
      BY <2>2, <3>1, ApartFrom
  <2> HIDE DEF e, far
  <2>5. \A i, j \in Nat : i + j \in Nat /\ (i + j = 0 <=> i = 0 /\ j = 0)
    OBVIOUS
  <2>6. Good(T \cup {c})
    <3>1. e(T) \in Nat /\ (e(T) = 0 <=> \A d, f \in T : x[d] = x[f])
      BY <2>1
    <3>2. e(T \cup {c}) \in Nat /\ (e(T \cup {c}) = 0 <=> e(T) = 0 /\ far = 0)
      BY <2>3, <2>4, <2>5, <3>1
    <3>3. (\A d, f \in T \cup {c} : x[d] = x[f])
            <=> (\A d, f \in T : x[d] = x[f]) /\ (\A d \in T : x[d] = x[c])
      OBVIOUS
    <3> QED
      BY <2>4, <3>1, <3>2, <3>3
  <2> QED
    BY <2>1, <2>6
<1> HIDE DEF P
<1>3. P \in SUBSET (SUBSET S)
  BY DEF P
<1>4. S \in P
  BY <1>0, <1>1, <1>2, <1>3, FiniteInduction
<1> QED
  BY <1>4 DEF P

Squared(x) == [c \in DOMAIN x |-> x[c] * x[c]]

LEMMA JainIs ==
  ASSUME NEW x
  PROVE  jain_index(x) = <<Sum(x, DOMAIN x) * Sum(x, DOMAIN x),
                           Cardinality(DOMAIN x) * Sum(Squared(x), DOMAIN x)>>
<1> DEFINE D == SUBSET DOMAIN x
           total == MapThenSumSet(LAMBDA c : x[c], DOMAIN x)
           squares == MapThenSumSet(LAMBDA c : x[c] * x[c], DOMAIN x)
           Is(g) == g = [s \in D |-> IF s = {} THEN 0
                           ELSE x[Chosen(s)] * x[Chosen(s)] + g[s \ {Chosen(s)}]]
<1>1. jain_index(x) = <<total * total, Cardinality(DOMAIN x) * squares>>
  BY DEF jain_index
<1>2. total = (CHOOSE g : Solves(g, x, D))[DOMAIN x]
  BY DEF MapThenSumSet, MapThenFoldSet, Chosen, Solves
<1>3. squares = (CHOOSE g : Is(g))[DOMAIN x]
  BY DEF MapThenSumSet, MapThenFoldSet, Chosen
<1>4. ASSUME NEW g PROVE Is(g) <=> Solves(g, Squared(x), D)
  <2>1. \A s \in D : s # {} => Squared(x)[Chosen(s)] = x[Chosen(s)] * x[Chosen(s)]
    BY DEF Squared, Chosen
  <2>2. [s \in D |-> IF s = {} THEN 0
                     ELSE x[Chosen(s)] * x[Chosen(s)] + g[s \ {Chosen(s)}]]
        = [s \in D |-> IF s = {} THEN 0
                       ELSE Squared(x)[Chosen(s)] + g[s \ {Chosen(s)}]]
    BY <2>1
  <2> QED
    BY <2>2 DEF Solves
<1> HIDE DEF Is, D, total, squares
<1>5. (CHOOSE g : Is(g)) = (CHOOSE g : Solves(g, Squared(x), D))
  BY <1>4
<1>6. total = Sum(x, DOMAIN x)
  BY <1>2, SumDef DEF D
<1>7. squares = Sum(Squared(x), DOMAIN x)
  BY <1>3, <1>5, SumDef DEF D
<1> QED
  BY <1>1, <1>6, <1>7

LEMMA JainBounds ==
  ASSUME NEW x, IsFiniteSet(DOMAIN x), DOMAIN x # {}, \A c \in DOMAIN x : x[c] \in Nat
  PROVE  LET j == jain_index(x) IN
         /\ j[2] \div Cardinality(DOMAIN x) <= j[1] /\ j[1] <= j[2]
         /\ j[1] = j[2] <=> \A c, d \in DOMAIN x : x[c] = x[d]
<1> DEFINE S == DOMAIN x
           j == jain_index(x)
           n == Cardinality(S)
           a == Sum(x, S)
           q == Sum(Squared(x), S)
<1>1. j[1] = Square(a) /\ j[2] = n * q
  BY JainIs DEF Square
<1>2. Squares(Squared(x), x, S)
  <2>1. ASSUME NEW c \in S PROVE x[c] * x[c] \in Nat
    <3>1. x[c] \in Nat
      OBVIOUS
    <3> QED
      BY <3>1
  <2> QED
    BY <2>1 DEF Squares, Squared, Square
<1>3. n \in Nat \ {0} /\ a \in Nat /\ q \in Nat
  <2>1. n \in Nat /\ a \in Nat /\ q \in Nat
    BY <1>2, SquaresOfPart
  <2> QED
    BY <2>1, FS_EmptySet
<1>4. q <= Square(a)
  BY <1>2, SquaresBelow
<1>5. Spread(q, a, n) \in Nat /\ (Spread(q, a, n) = 0 <=> \A c, d \in S : x[c] = x[d])
  BY <1>2, CauchySchwarz
<1> HIDE DEF S, n, a, q, j
<1>6. Square(a) \in Nat /\ n * q \in Nat
  BY <1>3 DEF Square
<1>7. Spread(q, a, n) = n * q - Square(a)
  BY DEF Spread, Square
<1>8. (n * q) \div n = q
  BY <1>3
<1>9. j[2] \div n <= j[1]
  BY <1>1, <1>4, <1>8
<1>10. j[1] <= j[2] /\ (j[1] = j[2] <=> Spread(q, a, n) = 0)
  BY <1>1, <1>5, <1>6, <1>7
<1>11. /\ j[2] \div n <= j[1] /\ j[1] <= j[2]
       /\ j[1] = j[2] <=> \A c, d \in S : x[c] = x[d]
  BY <1>5, <1>9, <1>10
<1> QED
  BY <1>11 DEF j, n, S

\* Two senders have the same throughput when their mean latencies are equal.
LEMMA SameThroughput ==
  ASSUME NEW S, IsFiniteSet(S), NEW f, NEW g, \A c \in S : f[c] \in Nat /\ g[c] \in Nat \ {0},
         NEW c \in S, NEW d \in S
  PROVE  f[c] * Product(g, S \ {c}) = f[d] * Product(g, S \ {d}) <=> g[c] * f[d] = g[d] * f[c]
<1>1. CASE c = d
  BY <1>1
<1>2. CASE c # d
  <2> DEFINE R == (S \ {c}) \ {d}
             r == Product(g, R)
  <2>1. /\ IsFiniteSet(S \ {c}) /\ IsFiniteSet(S \ {d}) /\ IsFiniteSet(R)
        /\ R = (S \ {d}) \ {c} /\ d \in S \ {c} /\ c \in S \ {d}
    BY <1>2, FS_Subset
  <2>2. \A e \in S : g[e] \in Nat
    OBVIOUS
  <2>3. Product(g, S \ {c}) = g[d] * Product(g, R)
    BY <2>1, <2>2, ProductOfNaturals
  <2>4. Product(g, S \ {d}) = g[c] * Product(g, R)
    BY <2>1, <2>2, ProductOfNaturals
  <2>5. r \in Nat \ {0}
    BY <2>1, ProductPositive
  <2> HIDE DEF r, R
  <2>6. f[c] \in Nat /\ f[d] \in Nat /\ g[c] \in Nat /\ g[d] \in Nat
    OBVIOUS
  <2>7. \E i, k, l, m \in Nat : i = f[c] /\ k = f[d] /\ l = g[c] /\ m = g[d]
    BY <2>6
  <2>8. PICK i, k, l, m \in Nat : i = f[c] /\ k = f[d] /\ l = g[c] /\ m = g[d]
    BY <2>7
  <2>9. i * (m * r) = (m * i) * r /\ k * (l * r) = (l * k) * r
    BY <2>5
  <2>10. m * i \in Nat /\ l * k \in Nat
    OBVIOUS
  <2>11. \A v, w \in Nat : v * r = w * r <=> v = w
    BY <2>5
  <2>12. i * (m * r) = k * (l * r) <=> m * i = l * k
    BY <2>9, <2>10, <2>11
  <2> QED
    BY <2>3, <2>4, <2>8, <2>12 DEF r
<1> QED
  BY <1>1, <1>2

\* Of samples above 0 the total is above 0.
LEMMA TotalPositive ==
  ASSUME NEW s \in Seq(Nat \ {0}), s # <<>>
  PROVE  Total(s) \in Nat \ {0}
<1>1. s \in Seq(Nat) /\ Len(s) \in Nat \ {0} /\ DOMAIN s = 1 .. Len(s)
  OBVIOUS
<1>2. Sampled(s) /\ IsFiniteSet(DOMAIN s) /\ \A n \in DOMAIN s : s[n] \in Nat
  BY <1>1, SequenceIsSampled DEF Sampled
<1>3. 1 \in DOMAIN s /\ s[1] \in Nat \ {0}
  BY <1>1
<1>4. Sum(s, DOMAIN s) = s[1] + Sum(s, DOMAIN s \ {1})
  BY <1>2, <1>3, SumOfNaturals
<1>5. Sum(s, DOMAIN s \ {1}) \in Nat
  <2>1. IsFiniteSet(DOMAIN s \ {1}) /\ \A n \in DOMAIN s \ {1} : s[n] \in Nat
    BY <1>2, FS_Subset
  <2> QED
    BY <2>1, SumOfNaturals
<1>6. Total(s) = Sum(s, DOMAIN s)
  BY <1>2, TotalIsSamples
<1> HIDE DEF Total
<1> QED
  BY <1>3, <1>4, <1>5, <1>6

\* The fairness index that fairness.py computes of the senders' files.
THEOREM JainHolds == SpecReport => []JainIndexInRange
<1>1. ASSUME LatencyInv, fair # <<>>, fair[1] = "fair" PROVE JainIndexInRange
  <2> DEFINE S == Senders
             x == Throughputs(S)
             f == [c \in S |-> Len(csv[c].rows)]
             g == [c \in S |-> Total(csv[c].rows)]
  <2>1. S # {} /\ fair[2].n_senders = Cardinality(S) /\ fair[2].jain = jain_index(x)
    BY <1>1 DEF LatencyInv, ScriptInv, FairOut
  <2>2. IsFiniteSet(S)
    BY ClientsAssumption, FS_Subset DEF Senders, Files
  <2>3. \A c \in S : f[c] \in Nat /\ g[c] \in Nat \ {0}
    <3> SUFFICES ASSUME NEW c \in S PROVE Len(csv[c].rows) \in Nat /\ Total(csv[c].rows) \in Nat \ {0}
      OBVIOUS
    <3>1. csv[c].rows \in Seq(Nat \ {0}) /\ csv[c].rows # <<>>
      BY <1>1, FileAgainstMeasured DEF LatencyInv, FileOf
    <3> QED
      BY <3>1, TotalPositive
  <2>4. DOMAIN x = S /\ \A c \in S : x[c] = f[c] * Product(g, S \ {c})
    BY DEF Throughputs, Product
  <2>5. \A c \in S : x[c] \in Nat
    <3> SUFFICES ASSUME NEW c \in S PROVE x[c] \in Nat
      OBVIOUS
    <3>1. IsFiniteSet(S \ {c}) /\ \A d \in S \ {c} : g[d] \in Nat
      BY <2>2, <2>3, FS_Subset
    <3>2. Product(g, S \ {c}) \in Nat
      BY <3>1, ProductOfNaturals
    <3>3. \A i, k \in Nat : i * k \in Nat
      OBVIOUS
    <3> HIDE DEF f, g, x
    <3> QED
      BY <2>3, <2>4, <3>2, <3>3
  <2>6. \A c, d \in S : x[c] = x[d] <=> g[c] * f[d] = g[d] * f[c]
    <3> SUFFICES ASSUME NEW c \in S, NEW d \in S
                 PROVE  x[c] = x[d] <=> g[c] * f[d] = g[d] * f[c]
      OBVIOUS
    <3> HIDE DEF f, g, x, S
    <3>1. f[c] * Product(g, S \ {c}) = f[d] * Product(g, S \ {d})
            <=> g[c] * f[d] = g[d] * f[c]
      BY <2>2, <2>3, SameThroughput
    <3> QED
      BY <2>4, <3>1
  <2>7. LET j == jain_index(x) IN
        /\ j[2] \div Cardinality(S) <= j[1] /\ j[1] <= j[2]
        /\ j[1] = j[2] <=> \A c, d \in S : x[c] = x[d]
    <3> HIDE DEF x
    <3> QED
      BY <2>1, <2>2, <2>4, <2>5, JainBounds
  <2>8. (\A c, d \in S : x[c] = x[d])
          <=> \A c, d \in S : Total(csv[c].rows) * Len(csv[d].rows)
                                = Total(csv[d].rows) * Len(csv[c].rows)
    <3>1. \A c \in S : f[c] = Len(csv[c].rows) /\ g[c] = Total(csv[c].rows)
      OBVIOUS
    <3> HIDE DEF f, g, x
    <3> QED
      BY <2>6, <3>1
  <2> HIDE DEF x
  <2> QED
    BY <2>1, <2>7, <2>8 DEF JainIndexInRange
<1>2. LatencyInv => JainIndexInRange
  BY <1>1 DEF JainIndexInRange
<1> QED
  BY <1>2, LatencyInvariance, PTL

-----------------------------------------------------------------------------
\* The samples of several files: how many there are up to v, in which files,
\* and column against column.
LEMMA CountJoined ==
  ASSUME NEW a \in Seq(Nat), NEW b \in Seq(Nat), NEW v \in Nat
  PROVE  /\ a \o b \in Seq(Nat) /\ Len(a \o b) = Len(a) + Len(b)
         /\ Cardinality(Upto(a \o b, v)) = Cardinality(Upto(a, v)) + Cardinality(Upto(b, v))
<1> DEFINE j == a \o b
           m == Len(a)
           A == Upto(a, v)
           B == Upto(b, v)
           h == [n \in B |-> m + n]
           C == {h[n] : n \in B}
<1>1. /\ j \in Seq(Nat) /\ Len(j) = m + Len(b) /\ m \in Nat /\ Len(b) \in Nat
      /\ DOMAIN a = 1 .. m /\ DOMAIN b = 1 .. Len(b) /\ DOMAIN j = 1 .. (m + Len(b))
      /\ \A n \in 1 .. m : j[n] = a[n]
      /\ \A n \in 1 .. Len(b) : j[m + n] = b[n]
  OBVIOUS
<1>2. \A n \in 1 .. (m + Len(b)) : n \in 1 .. m \/ \E k \in 1 .. Len(b) : n = m + k
  <2> SUFFICES ASSUME NEW n \in 1 .. (m + Len(b)), n \notin 1 .. m
               PROVE  \E k \in 1 .. Len(b) : n = m + k
    OBVIOUS
  <2>1. n - m \in 1 .. Len(b) /\ n = m + (n - m)
    BY <1>1
  <2> QED
    BY <2>1
<1>3. /\ \A n \in A : n \in 1 .. m /\ a[n] <= v
      /\ \A n \in B : n \in 1 .. Len(b) /\ b[n] <= v /\ h[n] = m + n
      /\ \A n \in 1 .. m : a[n] <= v => n \in A
      /\ \A n \in 1 .. Len(b) : b[n] <= v => n \in B
  BY <1>1 DEF Upto
<1>4. IsFiniteSet(A) /\ IsFiniteSet(B) /\ Cardinality(A) \in Nat /\ Cardinality(B) \in Nat
  BY SequenceIsSampled, UptoFacts
<1>5. IsFiniteSet(C) /\ Cardinality(C) = Cardinality(B)
  <2>1. h \in [B -> C]
    OBVIOUS
  <2>2. \A k, n \in B : h[k] = h[n] => k = n
    BY <1>1, <1>3
  <2> HIDE DEF h, B
  <2>3. \A i \in C : \E n \in B : h[n] = i
    OBVIOUS
  <2> HIDE DEF C
  <2>4. h \in Bijection(B, C)
    BY <2>1, <2>2, <2>3 DEF Bijection, Injection, Surjection, IsInjective
  <2>5. ExistsBijection(B, C)
    BY <2>4 DEF ExistsBijection
  <2> QED
    BY <1>4, <2>5, FS_Bijection
<1> HIDE DEF A, B, h
<1>6. Upto(j, v) = A \cup C
  <2>1. ASSUME NEW n \in Upto(j, v) PROVE n \in A \cup C
    <3>1. n \in 1 .. (m + Len(b)) /\ j[n] <= v
      BY <1>1 DEF Upto
    <3>2. CASE n \in 1 .. m
      BY <1>1, <1>3, <3>1, <3>2
    <3>3. CASE \E k \in 1 .. Len(b) : n = m + k
      <4>1. PICK k \in 1 .. Len(b) : n = m + k
        BY <3>3
      <4>2. k \in B
        BY <1>1, <1>3, <3>1, <4>1
      <4>3. h[k] = n
        BY <1>3, <4>1, <4>2
      <4> QED
        BY <4>2, <4>3
    <3> QED
      BY <1>2, <3>1, <3>2, <3>3
  <2>2. ASSUME NEW n \in A PROVE n \in Upto(j, v)
    <3>1. n \in 1 .. m /\ a[n] <= v /\ n \in 1 .. (m + Len(b))
      BY <1>1, <1>3
    <3> QED
      BY <1>1, <3>1 DEF Upto
  <2>3. ASSUME NEW n \in B PROVE h[n] \in Upto(j, v)
    <3>1. n \in 1 .. Len(b) /\ b[n] <= v /\ h[n] = m + n /\ m + n \in 1 .. (m + Len(b))
      BY <1>1, <1>3
    <3>2. j[m + n] <= v
      BY <1>1, <3>1
    <3> QED
      BY <1>1, <3>1, <3>2 DEF Upto
  <2> QED
    BY <2>1, <2>2, <2>3
<1>7. A \cap C = {}
  BY <1>1, <1>3
<1> HIDE DEF C
<1>8. Cardinality(A \cup C) = Cardinality(A) + Cardinality(C)
  <2>1. Cardinality(A \cup C) = Cardinality(A) + Cardinality(C) - Cardinality(A \cap C)
    BY <1>4, <1>5, FS_Union
  <2>2. Cardinality(A \cap C) = 0
    BY <1>7, FS_EmptySet
  <2> QED
    BY <1>4, <1>5, <2>1, <2>2
<1> QED
  BY <1>1, <1>5, <1>6, <1>8 DEF A, B

LEMMA ColumnsOfPart ==
  ASSUME NEW S, NEW column, Columns(S, column), NEW T \in SUBSET S
  PROVE  /\ Columns(T, column)
         /\ T # {} => /\ Chosen(T) \in T /\ T \ {Chosen(T)} \in SUBSET S
                      /\ csv[Chosen(T)][column] \in Seq(Nat)
                      /\ Pooled(T, column) =
                           csv[Chosen(T)][column] \o Pooled(T \ {Chosen(T)}, column)
         /\ T = {} => Pooled(T, column) = <<>>
<1>1. Columns(T, column)
  BY FS_Subset DEF Columns
<1>2. T # {} => Chosen(T) \in T
  BY DEF Chosen
<1> QED
  BY <1>1, <1>2, PooledUnfold DEF Columns

\* The rows of the files up to v, file by file.
Counts(S, column, v) == [c \in S |-> Cardinality(Upto(csv[c][column], v))]
Lengths(S, column) == [c \in S |-> Len(csv[c][column])]

LEMMA PooledCounts ==
  ASSUME NEW S, NEW column, Columns(S, column), NEW v \in Nat
  PROVE  /\ Pooled(S, column) \in Seq(Nat)
         /\ Len(Pooled(S, column)) = Sum(Lengths(S, column), S)
         /\ Cardinality(Upto(Pooled(S, column), v)) = Sum(Counts(S, column, v), S)
<1> DEFINE N == Counts(S, column, v)
           L == Lengths(S, column)
           Good(T) == /\ Pooled(T, column) \in Seq(Nat)
                      /\ Len(Pooled(T, column)) = Sum(L, T)
                      /\ Cardinality(Upto(Pooled(T, column), v)) = Sum(N, T)
           P == {T \in SUBSET S : Good(T)}
           ch == [s \in SUBSET S |-> Chosen(s)]
<1>1. \A s \in SUBSET S : ch[s] = Chosen(s) /\ (s # {} => ch[s] \in s)
  BY DEF Chosen
<1>2. IsFiniteSet(S) /\ \A c \in S : /\ csv[c][column] \in Seq(Nat)
                                     /\ N[c] = Cardinality(Upto(csv[c][column], v)) /\ N[c] \in Nat
                                     /\ L[c] = Len(csv[c][column]) /\ L[c] \in Nat
  <2>1. ASSUME NEW c \in S PROVE csv[c][column] \in Seq(Nat) /\ Cardinality(Upto(csv[c][column], v)) \in Nat
    <3>1. csv[c][column] \in Seq(Nat)
      BY DEF Columns
    <3> QED
      BY <3>1, SequenceIsSampled, UptoFacts
  <2> QED
    BY <2>1 DEF Columns, Counts, Lengths
<1> HIDE DEF N, L
<1>3. {} \in P
  <2>1. Sum(N, {}) = 0 /\ Sum(L, {}) = 0
    BY SumEmpty
  <2>2. Pooled({}, column) = <<>>
    BY ColumnsOfPart
  <2>3. Upto(<<>>, v) = {}
    BY DEF Upto
  <2>4. <<>> \in Seq(Nat) /\ Len(<<>>) = 0 /\ Cardinality(Upto(<<>>, v)) = 0
    BY <2>3, FS_EmptySet
  <2>5. Good({})
    BY <2>1, <2>2, <2>4
  <2> HIDE DEF Good
  <2> QED
    BY <2>5
<1>4. ASSUME NEW s \in SUBSET S, s # {}, s \ {ch[s]} \in P PROVE s \in P
  <2> DEFINE c == Chosen(s)
             r == s \ {c}
  <2>1. c \in s /\ r \in SUBSET S /\ Good(r)
    BY <1>1, <1>4
  <2>2. csv[c][column] \in Seq(Nat) /\ Pooled(s, column) = csv[c][column] \o Pooled(r, column)
    BY <1>4, ColumnsOfPart
  <2>3. /\ Pooled(s, column) \in Seq(Nat)
        /\ Len(Pooled(s, column)) = L[c] + Len(Pooled(r, column))
        /\ Cardinality(Upto(Pooled(s, column), v)) = N[c] + Cardinality(Upto(Pooled(r, column), v))
    <3> DEFINE a == csv[c][column]
               b == Pooled(r, column)
    <3>1. a \in Seq(Nat) /\ b \in Seq(Nat) /\ L[c] = Len(a) /\ N[c] = Cardinality(Upto(a, v))
      BY <1>2, <2>1, <2>2
    <3>2. /\ a \o b \in Seq(Nat) /\ Len(a \o b) = Len(a) + Len(b)
          /\ Cardinality(Upto(a \o b, v)) = Cardinality(Upto(a, v)) + Cardinality(Upto(b, v))
      BY <3>1, CountJoined
    <3> QED
      BY <2>2, <3>1, <3>2
  <2>4. IsFiniteSet(s)
    BY <1>2, FS_Subset
  <2>5. Sum(N, s) = N[c] + Sum(N, s \ {c}) /\ Sum(L, s) = L[c] + Sum(L, s \ {c})
    <3>1. c \in s /\ (\A x \in s : N[x] \in Nat) /\ (\A x \in s : L[x] \in Nat)
      BY <1>2, <2>1
    <3> HIDE DEF c
    <3>2. Sum(N, s) = N[c] + Sum(N, s \ {c})
      BY <2>4, <3>1, SumOfNaturals
    <3>3. Sum(L, s) = L[c] + Sum(L, s \ {c})
      BY <2>4, <3>1, SumOfNaturals
    <3> QED
      BY <3>2, <3>3
  <2>6. Good(s)
    BY <2>1, <2>3, <2>5
  <2> HIDE DEF Good
  <2> QED
    BY <2>6
<1> HIDE DEF P
<1>5. P \in SUBSET (SUBSET S)
  BY DEF P
<1>6. S \in P
  <2> HIDE DEF ch
  <2>1. \A s \in SUBSET S : s # {} => ch[s] \in s
    BY <1>1
  <2>2. \A s \in SUBSET S : s # {} /\ s \ {ch[s]} \in P => s \in P
    BY <1>4
  <2> QED
    BY <1>2, <1>3, <1>5, <2>1, <2>2, TakeOutInduction
<1> QED
  BY <1>6 DEF P, N, L

\* Files without a row add nothing.
LEMMA EmptyFilesPooled ==
  ASSUME NEW S, NEW T \in SUBSET S, NEW column, Columns(S, column),
         \A c \in S \ T : csv[c][column] = <<>>
  PROVE  Sorted(Pooled(S, column)) = Sorted(Pooled(T, column))
<1> DEFINE f == Pooled(S, column)
           g == Pooled(T, column)
           R == S \ T
<1>1. Columns(T, column) /\ IsFiniteSet(T) /\ IsFiniteSet(R) /\ T \cap R = {} /\ S = T \cup R
  BY FS_Subset DEF Columns
<1>2. f \in Seq(Nat) /\ g \in Seq(Nat)
  <2>1. 0 \in Nat
    OBVIOUS
  <2> QED
    BY <1>1, <2>1, PooledCounts
<1>3. ASSUME NEW n, NEW m, \A c \in S : n[c] \in Nat, \A c \in T : m[c] = n[c],
             \A c \in R : n[c] = 0
      PROVE  Sum(n, S) = Sum(m, T)
  <2>1. Sum(n, T \cup R) = Sum(n, T) + Sum(n, R)
    BY <1>1, <1>3, SumUnion
  <2>2. Sum(n, R) = 0
    <3>1. 0 \in Nat /\ Cardinality(R) \in Nat
      BY <1>1, FS_CardinalityType
    <3>2. \A c \in R : n[c] \in Nat /\ 0 <= n[c] /\ n[c] <= 0
      BY <1>3
    <3>3. Sum(n, R) <= 0 * Cardinality(R) /\ Sum(n, R) \in Nat
      BY <1>1, <3>1, <3>2, SumBounds, SumOfNaturals
    <3> QED
      BY <3>1, <3>3
  <2>3. Sum(m, T) = Sum(n, T)
    BY <1>1, <1>3, SumSame
  <2>4. Sum(n, T) \in Nat
    BY <1>1, <1>3, SumOfNaturals
  <2>5. Sum(n, S) = Sum(n, T) + 0
    BY <1>1, <2>1, <2>2
  <2> QED
    BY <2>3, <2>4, <2>5
<1>4. \A c \in S : csv[c][column] \in Seq(Nat)
  BY DEF Columns
<1>5. Len(f) = Len(g)
  <2>1. Sum(Lengths(S, column), S) = Sum(Lengths(T, column), T)
    <3>1. /\ \A c \in S : Lengths(S, column)[c] \in Nat
          /\ \A c \in T : Lengths(T, column)[c] = Lengths(S, column)[c]
          /\ \A c \in R : Lengths(S, column)[c] = 0
      BY <1>4 DEF Lengths
    <3> HIDE DEF R
    <3> QED
      BY <1>3, <3>1
  <2>2. 0 \in Nat
    OBVIOUS
  <2> QED
    BY <1>1, <2>1, <2>2, PooledCounts
<1>6. ASSUME NEW v \in Nat PROVE Cardinality(Upto(f, v)) = Cardinality(Upto(g, v))
  <2>1. /\ \A c \in S : Counts(S, column, v)[c] \in Nat
        /\ \A c \in T : Counts(T, column, v)[c] = Counts(S, column, v)[c]
        /\ \A c \in R : Counts(S, column, v)[c] = 0
    <3>1. ASSUME NEW c \in S PROVE Cardinality(Upto(csv[c][column], v)) \in Nat
      BY <1>4, SequenceIsSampled, UptoFacts
    <3>2. Cardinality(Upto(<<>>, v)) = 0
      BY FS_EmptySet DEF Upto
    <3> QED
      BY <3>1, <3>2 DEF Counts
  <2>2. Sum(Counts(S, column, v), S) = Sum(Counts(T, column, v), T)
    <3> HIDE DEF R
    <3> QED
      BY <1>3, <2>1
  <2> QED
    BY <1>1, <2>2, PooledCounts
<1>7. /\ Sampled(f) /\ Sampled(g) /\ DOMAIN f = 1 .. Len(f) /\ DOMAIN g = 1 .. Len(g)
  BY <1>2, SequenceIsSampled
<1> HIDE DEF f, g
<1>8. Cardinality(DOMAIN f) = Cardinality(DOMAIN g)
  BY <1>5, <1>7
<1>9. Sorted(f) = Sorted(g)
  BY <1>6, <1>7, <1>8, SortedSame
<1> QED
  BY <1>9 DEF f, g

\* There are samples when one file has some.
LEMMA PooledNothing ==
  ASSUME NEW S, NEW column, Columns(S, column)
  PROVE  Pooled(S, column) = <<>> <=> \A c \in S : csv[c][column] = <<>>
<1>1. 0 \in Nat
  OBVIOUS
<1>2. /\ Pooled(S, column) \in Seq(Nat) /\ IsFiniteSet(S)
      /\ Len(Pooled(S, column)) = Sum(Lengths(S, column), S)
  BY <1>1, PooledCounts DEF Columns
<1>3. /\ \A c \in S : csv[c][column] \in Seq(Nat)
      /\ \A c \in S : Lengths(S, column)[c] = Len(csv[c][column]) /\ Lengths(S, column)[c] \in Nat
  BY DEF Columns, Lengths
<1>4. ASSUME NEW c \in S, csv[c][column] # <<>> PROVE Pooled(S, column) # <<>>
  <2> DEFINE L == Lengths(S, column)
  <2>1. Sum(L, S) = L[c] + Sum(L, S \ {c})
    <3>1. IsFiniteSet(S) /\ \A d \in S : L[d] \in Nat
      BY <1>2, <1>3
    <3> HIDE DEF L
    <3> QED
      BY <3>1, SumOfNaturals
  <2>2. Sum(L, S \ {c}) \in Nat
    <3>1. IsFiniteSet(S \ {c}) /\ \A d \in S \ {c} : L[d] \in Nat
      BY <1>2, <1>3, FS_Subset
    <3> QED
      BY <3>1, SumOfNaturals
  <2>3. L[c] \in Nat \ {0}
    BY <1>3, <1>4
  <2>4. Sum(L, S) # 0
    <3> HIDE DEF L
    <3> QED
      BY <2>1, <2>2, <2>3
  <2> QED
    BY <1>2, <2>4
<1>5. ASSUME \A c \in S : csv[c][column] = <<>> PROVE Pooled(S, column) = <<>>
  <2>1. \A c \in S : Lengths(S, column)[c] \in Nat /\ 0 <= Lengths(S, column)[c]
                     /\ Lengths(S, column)[c] <= 0
    BY <1>5 DEF Lengths
  <2>2. Sum(Lengths(S, column), S) <= 0 * Cardinality(S)
    BY <1>1, <1>2, <2>1, SumBounds
  <2>3. Cardinality(S) \in Nat
    BY <1>2, FS_CardinalityType
  <2>4. Len(Pooled(S, column)) <= 0
    BY <1>2, <2>2, <2>3
  <2> QED
    BY <1>2, <2>4
<1> QED
  BY <1>4, <1>5

-----------------------------------------------------------------------------
\* A column u of hundredths of a microsecond against a column r of nanoseconds:
\* rounded to the next hundredth, or less where the last number was cut.
Rounds(u, r, whole) ==
  /\ Len(u) = Len(r)
  /\ \A n \in 1 .. Len(r) : /\ 10 * u[n] <= r[n] + 5
                            /\ whole => r[n] <= 10 * u[n] + 5

LEMMA RoundsJoined ==
  ASSUME NEW a \in Seq(Nat), NEW b \in Seq(Nat), NEW c \in Seq(Nat), NEW d \in Seq(Nat),
         NEW whole, Rounds(a, c, whole), Rounds(b, d, whole)
  PROVE  Rounds(a \o b, c \o d, whole)
<1> DEFINE m == Len(a)
           k == Len(b)
           u == a \o b
           r == c \o d
<1>1. m = Len(c) /\ k = Len(d) /\ m \in Nat /\ k \in Nat
  BY DEF Rounds
<1>2. /\ Len(u) = m + k /\ Len(r) = m + k
      /\ \A n \in 1 .. m : u[n] = a[n] /\ r[n] = c[n]
      /\ \A n \in 1 .. k : u[m + n] = b[n] /\ r[m + n] = d[n]
  <2>1. /\ Len(u) = m + k
        /\ \A n \in 1 .. m : u[n] = a[n]
        /\ \A n \in 1 .. k : u[m + n] = b[n]
    OBVIOUS
  <2>2. /\ Len(r) = Len(c) + Len(d)
        /\ \A n \in 1 .. Len(c) : r[n] = c[n]
        /\ \A n \in 1 .. Len(d) : r[Len(c) + n] = d[n]
    OBVIOUS
  <2> HIDE DEF u, r, m, k
  <2> QED
    BY <1>1, <2>1, <2>2
<1>3. ASSUME NEW n \in 1 .. (m + k)
      PROVE  10 * u[n] <= r[n] + 5 /\ (whole => r[n] <= 10 * u[n] + 5)
  <2> HIDE DEF u, r, m, k
  <2>1. CASE n \in 1 .. m
    BY <1>1, <1>2, <2>1 DEF Rounds
  <2>2. CASE n \notin 1 .. m
    <3>1. n - m \in 1 .. k /\ n = m + (n - m)
      BY <1>1, <2>2
    <3>2. PICK i \in 1 .. k : n = m + i
      BY <3>1
    <3>3. u[n] = b[i] /\ r[n] = d[i]
      BY <1>2, <3>2
    <3> QED
      BY <1>1, <3>3 DEF Rounds
  <2> QED
    BY <2>1, <2>2
<1> QED
  BY <1>2, <1>3 DEF Rounds

RoundedFiles(S, whole) ==
  /\ Columns(S, "us") /\ Columns(S, "rows")
  /\ \A c \in S : Rounds(csv[c]["us"], csv[c]["rows"], whole)

LEMMA RoundsPooled ==
  ASSUME NEW S, NEW whole, RoundedFiles(S, whole)
  PROVE  Rounds(Pooled(S, "us"), Pooled(S, "rows"), whole)
<1> DEFINE Good(T) == Rounds(Pooled(T, "us"), Pooled(T, "rows"), whole)
           P == {T \in SUBSET S : Good(T)}
           ch == [s \in SUBSET S |-> Chosen(s)]
<1>0. Columns(S, "us") /\ Columns(S, "rows")
  BY DEF RoundedFiles
<1>1. \A s \in SUBSET S : ch[s] = Chosen(s) /\ (s # {} => ch[s] \in s)
  BY DEF Chosen
<1>2. {} \in P
  <2>1. Pooled({}, "us") = <<>> /\ Pooled({}, "rows") = <<>>
    BY <1>0, ColumnsOfPart
  <2>2. Rounds(<<>>, <<>>, whole)
    BY DEF Rounds
  <2> QED
    BY <2>1, <2>2
<1>3. ASSUME NEW s \in SUBSET S, s # {}, s \ {ch[s]} \in P PROVE s \in P
  <2> DEFINE c == Chosen(s)
             t == s \ {c}
             a == csv[c]["us"]
             b == Pooled(t, "us")
             e == csv[c]["rows"]
             f == Pooled(t, "rows")
  <2>1. c \in s /\ t \in SUBSET S /\ Good(t)
    BY <1>1, <1>3
  <2>2. /\ a \in Seq(Nat) /\ Pooled(s, "us") = a \o b
        /\ e \in Seq(Nat) /\ Pooled(s, "rows") = e \o f
    BY <1>0, <1>3, ColumnsOfPart
  <2>3. b \in Seq(Nat) /\ f \in Seq(Nat)
    <3>1. 0 \in Nat /\ Columns(t, "us") /\ Columns(t, "rows")
      BY <1>0, <2>1, ColumnsOfPart
    <3> QED
      BY <3>1, PooledCounts
  <2>4. Rounds(a, e, whole) /\ Rounds(b, f, whole)
    BY <2>1 DEF RoundedFiles
  <2> HIDE DEF a, b, e, f, c
  <2>5. Rounds(a \o b, e \o f, whole)
    BY <2>2, <2>3, <2>4, RoundsJoined
  <2> QED
    BY <2>2, <2>5
<1> HIDE DEF P
<1>4. P \in SUBSET (SUBSET S)
  BY DEF P
<1>5. S \in P
  <2> HIDE DEF ch
  <2>0. IsFiniteSet(S)
    BY <1>0 DEF Columns
  <2>1. \A s \in SUBSET S : s # {} => ch[s] \in s
    BY <1>1
  <2>2. \A s \in SUBSET S : s # {} /\ s \ {ch[s]} \in P => s \in P
    BY <1>3
  <2> QED
    BY <1>2, <1>4, <2>0, <2>1, <2>2, TakeOutInduction
<1> QED
  BY <1>5 DEF P

\* Sorting keeps a bound that holds sample by sample.
LEMMA SortedBound ==
  ASSUME NEW r \in Seq(Nat), NEW s \in Seq(Nat), Len(r) = Len(s),
         NEW k \in 1 .. Len(r), NEW w \in Nat,
         \A n \in 1 .. Len(r) : r[n] <= Sorted(r)[k] => s[n] <= w
  PROVE  Sorted(s)[k] <= w
<1> DEFINE v == Sorted(r)[k]
<1>1. /\ Sampled(r) /\ Sampled(s) /\ Len(Sorted(r)) = Len(r) /\ Len(Sorted(s)) = Len(s)
      /\ DOMAIN r = 1 .. Len(r) /\ DOMAIN s = 1 .. Len(r)
  BY SequenceIsSampled
<1>2. v \in Nat /\ k <= Cardinality(Upto(r, v))
  BY <1>1, SortedAt
<1>3. Upto(r, v) \subseteq Upto(s, w)
  BY <1>1 DEF Upto
<1> HIDE DEF v
<1>4. Cardinality(Upto(r, v)) <= Cardinality(Upto(s, w))
  <2>1. IsFiniteSet(Upto(s, w))
    BY <1>1, UptoFacts
  <2> QED
    BY <1>3, <2>1, FS_Subset
<1>5. k \in Nat /\ Cardinality(Upto(r, v)) \in Nat /\ Cardinality(Upto(s, w)) \in Nat
  <2>1. k \in Nat
    OBVIOUS
  <2>2. Cardinality(Upto(r, v)) \in Nat
    BY <1>1, UptoFacts
  <2>3. Cardinality(Upto(s, w)) \in Nat
    BY <1>1, UptoFacts
  <2> QED
    BY <2>1, <2>2, <2>3
<1>6. k <= Cardinality(Upto(s, w))
  BY <1>2, <1>4, <1>5
<1> QED
  BY <1>1, <1>6, SortedRanks

LEMMA RoundsSorted ==
  ASSUME NEW u \in Seq(Nat), NEW r \in Seq(Nat), NEW whole, Rounds(u, r, whole)
  PROVE  Rounds(Sorted(u), Sorted(r), whole)
<1>1. /\ Len(Sorted(u)) = Len(u) /\ Len(Sorted(r)) = Len(r) /\ Len(u) = Len(r)
      /\ Sorted(u) \in Seq(Nat) /\ Sorted(r) \in Seq(Nat)
  BY SequenceIsSampled DEF Rounds
<1>2. \A n \in 1 .. Len(r) : u[n] \in Nat /\ r[n] \in Nat
  BY <1>1, SMTT(30)
<1>3. ASSUME NEW k \in 1 .. Len(r)
      PROVE  /\ 10 * Sorted(u)[k] <= Sorted(r)[k] + 5
             /\ whole => Sorted(r)[k] <= 10 * Sorted(u)[k] + 5
  <2> DEFINE x == Sorted(r)[k]
             y == Sorted(u)[k]
             w == (x + 5) \div 10
             z == 10 * y + 5
  <2>1. x \in Nat /\ y \in Nat
    BY <1>1, SMTT(30)
  <2> HIDE DEF x, y
  <2>2. w \in Nat /\ z \in Nat /\ 10 * w <= x + 5 /\ \A i \in Nat : 10 * i <= x + 5 => i <= w
    BY <2>1
  <2>3. y <= w
    <3>1. \A n \in 1 .. Len(r) : r[n] <= x => u[n] <= w
      <4> SUFFICES ASSUME NEW n \in 1 .. Len(r), r[n] <= x PROVE u[n] <= w
        OBVIOUS
      <4>1. 10 * u[n] <= r[n] + 5 /\ u[n] \in Nat /\ r[n] \in Nat
        BY <1>2 DEF Rounds
      <4>2. 10 * u[n] <= x + 5
        BY <2>1, <4>1, SMTT(30)
      <4> HIDE DEF w
      <4> QED
        BY <2>2, <4>1, <4>2
    <3> HIDE DEF w
    <3> QED
      BY <1>1, <2>2, <3>1, SortedBound DEF x, y
  <2>4. ASSUME whole PROVE x <= z
    <3>1. \A n \in 1 .. Len(u) : u[n] <= y => r[n] <= z
      <4> SUFFICES ASSUME NEW n \in 1 .. Len(u), u[n] <= y PROVE r[n] <= z
        OBVIOUS
      <4>1. n \in 1 .. Len(r)
        BY <1>1
      <4>2. r[n] <= 10 * u[n] + 5 /\ u[n] \in Nat /\ r[n] \in Nat
        BY <1>2, <2>4, <4>1 DEF Rounds
      <4> QED
        BY <2>1, <4>2, SMTT(30)
    <3> HIDE DEF z
    <3> QED
      BY <1>1, <2>2, <3>1, SortedBound DEF x, y
  <2>5. 10 * y <= x + 5
    <3> HIDE DEF w
    <3> QED
      BY <2>1, <2>2, <2>3
  <2> QED
    BY <2>4, <2>5 DEF x, y
<1> QED
  BY <1>1, <1>3 DEF Rounds

Weigh(a, b, w) == a * (1000 - w) + b * w

LEMMA WeighBound ==
  ASSUME NEW a \in Nat, NEW b \in Nat, NEW c \in Nat, NEW d \in Nat,
         a <= c + 5, b <= d + 5, NEW w \in Nat, w < 1000
  PROVE  Weigh(a, b, w) \in Nat /\ Weigh(a, b, w) <= Weigh(c, d, w) + 5000
<1> DEFINE v == 1000 - w
<1>1. v \in Nat /\ v + w = 1000
  OBVIOUS
<1> HIDE DEF v
<1>2. \A i, k, l \in Nat : i <= k + 5 => i * l <= k * l + 5 * l
  <2> SUFFICES ASSUME NEW i \in Nat, NEW k \in Nat, NEW l \in Nat, i <= k + 5
               PROVE  i * l <= k * l + 5 * l
    OBVIOUS
  <2>1. PICK x \in Nat : i + x = k + 5
    <3>1. (k + 5) - i \in Nat /\ i + ((k + 5) - i) = k + 5
      OBVIOUS
    <3> QED
      BY <3>1
  <2>2. (i + x) * l = i * l + x * l /\ (k + 5) * l = k * l + 5 * l
    OBVIOUS
  <2>3. x * l \in Nat /\ i * l \in Nat
    OBVIOUS
  <2> QED
    BY <2>1, <2>2, <2>3
<1>3. a * v <= c * v + 5 * v /\ b * w <= d * w + 5 * w
  BY <1>1, <1>2
<1>4. a * v \in Nat /\ b * w \in Nat /\ c * v \in Nat /\ d * w \in Nat
  BY <1>1
<1>5. a * v + b * w <= (c * v + d * w) + 5000 /\ a * v + b * w \in Nat
  BY <1>1, <1>3, <1>4
<1> QED
  BY <1>5 DEF v, Weigh

LEMMA WeighScaled ==
  ASSUME NEW a \in Nat, NEW b \in Nat, NEW w \in Nat, w < 1000
  PROVE  Weigh(10 * a, 10 * b, w) = 10 * Weigh(a, b, w)
BY DEF Weigh

\* np.percentile of the two columns.
LEMMA RoundsPercentile ==
  ASSUME NEW u \in Seq(Nat), NEW r \in Seq(Nat), NEW whole, Rounds(u, r, whole), r # <<>>,
         NEW p \in Percentiles
  PROVE  /\ 10 * np_percentile(u, p) <= np_percentile(r, p) + 5000
         /\ whole => np_percentile(r, p) <= 10 * np_percentile(u, p) + 5000
<1> DEFINE n == Len(r)
           lo == Lower(p, n)
           hi == Upper(p, n)
           w == Part(p, n)
<1>1. n \in Nat \ {0} /\ Len(u) = n
  BY DEF Rounds
<1>2. lo \in 1 .. n /\ hi \in 1 .. n /\ w \in Nat /\ w < 1000
  BY <1>1, LowerBounds
<1>3. /\ np_percentile(u, p) = u[lo] * (1000 - w) + u[hi] * w
      /\ np_percentile(r, p) = r[lo] * (1000 - w) + r[hi] * w
  BY <1>1, NpPercentileIs
<1> HIDE DEF lo, hi, w
<1>4. u[lo] \in Nat /\ u[hi] \in Nat /\ r[lo] \in Nat /\ r[hi] \in Nat
  BY <1>1, <1>2, SMTT(30)
<1>5. /\ 10 * u[lo] <= r[lo] + 5 /\ 10 * u[hi] <= r[hi] + 5
      /\ whole => r[lo] <= 10 * u[lo] + 5 /\ r[hi] <= 10 * u[hi] + 5
  BY <1>2 DEF Rounds
<1>6. \E a, b, c, d \in Nat : a = u[lo] /\ b = u[hi] /\ c = r[lo] /\ d = r[hi]
  BY <1>4
<1>7. PICK a, b, c, d \in Nat : a = u[lo] /\ b = u[hi] /\ c = r[lo] /\ d = r[hi]
  BY <1>6
<1>8. 10 * a \in Nat /\ 10 * b \in Nat /\ 10 * a <= c + 5 /\ 10 * b <= d + 5
  <2>1. 10 * a <= c + 5 /\ 10 * b <= d + 5
    BY <1>5, <1>7, Zenon
  <2> QED
    BY <2>1
<1>9. Weigh(10 * a, 10 * b, w) <= Weigh(c, d, w) + 5000
  BY <1>2, <1>8, WeighBound, SMTT(30)
<1>10. whole => Weigh(c, d, w) <= Weigh(10 * a, 10 * b, w) + 5000
  <2> SUFFICES ASSUME whole PROVE Weigh(c, d, w) <= Weigh(10 * a, 10 * b, w) + 5000
    OBVIOUS
  <2>1. c <= 10 * a + 5 /\ d <= 10 * b + 5
    BY <1>5, <1>7
  <2> QED
    BY <1>2, <1>8, <2>1, WeighBound, SMTT(30)
<1>11. Weigh(10 * a, 10 * b, w) = 10 * Weigh(a, b, w)
  BY <1>2, WeighScaled
<1>12. np_percentile(u, p) = Weigh(a, b, w) /\ np_percentile(r, p) = Weigh(c, d, w)
  BY <1>3, <1>7 DEF Weigh
<1> QED
  BY <1>9, <1>10, <1>11, <1>12

-----------------------------------------------------------------------------
\* What the scripts say of the same files.
\* All the rows are those of the senders.
LEMMA RowsOfSenders ==
  ASSUME ClientsInv
  PROVE  /\ Merged(Files) = Merged(Senders)
         /\ Merged(Files) = Sorted(Pooled(Files, "rows"))
         /\ Pooled(Files, "rows") \in Seq(Nat)
         /\ Pooled(Files, "rows") = <<>> <=> Senders = {}
<1>1. Columns(Files, "rows") /\ Senders \in SUBSET Files
  BY FilesAre
<1>2. \A c \in Files : csv[c]["rows"] = csv[c].rows
  OBVIOUS
<1>3. \A c \in Files \ Senders : csv[c]["rows"] = <<>>
  BY <1>2 DEF Senders
<1>4. Merged(Files) = Merged(Senders)
  BY <1>1, <1>3, EmptyFilesPooled DEF Merged
<1>5. Pooled(Files, "rows") = <<>> <=> \A c \in Files : csv[c]["rows"] = <<>>
  BY <1>1, PooledNothing
<1>6. Senders = {} <=> \A c \in Files : csv[c]["rows"] = <<>>
  BY <1>2 DEF Senders
<1>7. Pooled(Files, "rows") \in Seq(Nat)
  <2>1. 0 \in Nat
    OBVIOUS
  <2> QED
    BY <1>1, <2>1, PooledCounts
<1> QED
  BY <1>4, <1>5, <1>6, <1>7 DEF Merged

\* Where no file is cut before a latency_us, the columns agree.
LEMMA ColumnsOfFiles ==
  ASSUME ClientsInv, ~\E c \in Files : csv[c].ends \in {"index", "ns"},
         NEW whole, whole => \A c \in Files : csv[c].ends = "row"
  PROVE  Rounds(Pooled(Files, "us"), Pooled(Files, "rows"), whole)
<1>1. ASSUME NEW c \in Files PROVE Rounds(csv[c]["us"], csv[c]["rows"], whole)
  <2>1. FileOf(csv[c], Sorted(measured[c])) /\ csv[c].ends \in {"row", "us"}
    BY FilesAre
  <2>2. csv[c].rows \in Seq(Nat) /\ csv[c].us \in Seq(Nat)
    BY FilesAre
  <2>3. /\ Len(csv[c].us) = Len(csv[c].rows)
        /\ \A n \in 1 .. Len(csv[c].rows) : 10 * csv[c].us[n] <= csv[c].rows[n] + 5
    BY <2>1 DEF FileOf
  <2>4. whole => \A n \in 1 .. Len(csv[c].rows) : csv[c].rows[n] <= 10 * csv[c].us[n] + 5
    BY <2>1 DEF FileOf
  <2> QED
    BY <2>3, <2>4 DEF Rounds
<1>2. RoundedFiles(Files, whole)
  BY <1>1, FilesAre DEF RoundedFiles
<1> QED
  BY <1>2, RoundsPooled

LEMMA TablesHold ==
  ASSUME LatencyInv PROVE TablesAgree
<1> SUFFICES ASSUME row # <<>>
             PROVE  /\ stats[1] = "stats" <=> row[1] = "row"
                    /\ stats[1] = "stats" => stats[2] = row[2].latency
                    /\ row[1] = "raised" => stats[1] = "raised"
                    /\ fair[1] = "raised" <=> row[1] = "raised"
                    /\ fair[1] = "fair" <=> row[1] = "row"
                    /\ fair[1] = "fair" => /\ fair[2].jain = row[2].jain
                                           /\ fair[2].n_senders = row[2].n_clients
  BY DEF TablesAgree
<1>1. stats = StatsOut /\ fair = FairOut /\ row = RowOut
  BY DEF LatencyInv, ScriptInv
<1>2. Merged(Files) = Merged(Senders) /\ Senders \subseteq Files
  BY RowsOfSenders, FilesAre DEF LatencyInv
<1>3. CASE RowCut
  <2>1. Files # {}
    BY <1>3 DEF RowCut
  <2>2. stats = <<"raised">> /\ fair = <<"raised">> /\ row = <<"raised">>
    BY <1>1, <1>3, <2>1 DEF StatsOut, FairOut, RowOut
  <2> QED
    BY <2>2
<1>4. CASE ~RowCut /\ Senders = {}
  <2>1. stats \in {<<"none">>, <<"raised">>} /\ fair = <<"none">> /\ row = <<"none">>
    BY <1>1, <1>4 DEF StatsOut, FairOut, RowOut
  <2> QED
    BY <2>1
<1>5. CASE ~RowCut /\ Senders # {}
  <2>1. Files # {}
    BY <1>2, <1>5
  <2>2. /\ stats = <<"stats", compute_stats(Merged(Senders))>>
        /\ fair = <<"fair", [n_senders |-> Cardinality(Senders),
                             jain |-> jain_index(Throughputs(Senders))]>>
        /\ row = <<"row", [latency |-> compute_stats(Merged(Senders)),
                           jain |-> jain_index(Throughputs(Senders)),
                           n_clients |-> Cardinality(Senders)]>>
    BY <1>1, <1>2, <1>5, <2>1 DEF StatsOut, FairOut, RowOut
  <2> QED
    BY <2>2
<1> QED
  BY <1>3, <1>4, <1>5

LEMMA PlotHolds ==
  ASSUME LatencyInv PROVE PlotAgrees
<1> SUFFICES ASSUME curves # <<>>, curves[1] = "curves"
             PROVE  /\ stats[1] = "stats" /\ Len(curves[2].samples) = stats[2].count
                    /\ \A q \in Percentiles :
                         /\ 10 * curves[2].p[q] <= stats[2].p[q] + 5000
                         /\ (\A c \in Files : csv[c].ends = "row") =>
                              stats[2].p[q] <= 10 * curves[2].p[q] + 5000
  BY DEF PlotAgrees
<1> DEFINE u == Pooled(Files, "us")
           r == Pooled(Files, "rows")
           whole == \A c \in Files : csv[c].ends = "row"
<1>1. stats = StatsOut /\ curves = CurvesOut
  BY DEF LatencyInv, ScriptInv
<1>2. /\ MergedUs # <<>> /\ ~\E c \in Files : csv[c].ends \in {"index", "ns"}
      /\ curves[2].samples = MergedUs
      /\ \A q \in Percentiles : curves[2].p[q] = np_percentile(MergedUs, q)
  BY <1>1 DEF CurvesOut
<1>3. ClientsInv /\ ~\E c \in Files : csv[c].ends \in {"index", "ns"}
  BY <1>2 DEF LatencyInv
<1>4. Rounds(u, r, whole)
  BY <1>3, ColumnsOfFiles
<1>5. u \in Seq(Nat) /\ r \in Seq(Nat)
  <2>1. 0 \in Nat
    OBVIOUS
  <2> QED
    BY <1>3, <2>1, FilesAre, PooledCounts
<1> HIDE DEF u, r, whole
<1>6. Rounds(Sorted(u), Sorted(r), whole)
  BY <1>4, <1>5, RoundsSorted
<1>7. MergedUs = Sorted(u) /\ Merged(Files) = Sorted(r)
  BY DEF MergedUs, Merged, u, r
<1>8. Sorted(u) \in Seq(Nat) /\ Sorted(r) \in Seq(Nat) /\ Len(Sorted(r)) = Len(r)
  BY <1>5, SequenceIsSampled
<1>9. Sorted(r) # <<>> /\ Len(Sorted(u)) = Len(Sorted(r))
  BY <1>2, <1>6, <1>7, <1>8 DEF Rounds
<1>10. Senders # {} /\ Files # {} /\ ~RowCut
  <2>1. r # <<>>
    BY <1>5, <1>8, <1>9
  <2>2. Senders # {}
    BY <1>3, <2>1, RowsOfSenders DEF r
  <2> QED
    BY <1>3, <2>2, FilesAre DEF RowCut
<1>11. stats = <<"stats", compute_stats(Sorted(r))>>
  BY <1>1, <1>7, <1>10 DEF StatsOut
<1>12. /\ stats[1] = "stats" /\ stats[2].count = Len(Sorted(r))
       /\ \A q \in Percentiles : stats[2].p[q] = np_percentile(Sorted(r), q)
  BY <1>11 DEF compute_stats
<1>13. ASSUME NEW q \in Percentiles
       PROVE  /\ 10 * np_percentile(Sorted(u), q) <= np_percentile(Sorted(r), q) + 5000
              /\ whole => np_percentile(Sorted(r), q) <= 10 * np_percentile(Sorted(u), q) + 5000
  BY <1>6, <1>8, <1>9, RoundsPercentile
<1>14. \A q \in Percentiles :
         /\ 10 * curves[2].p[q] <= stats[2].p[q] + 5000
         /\ whole => stats[2].p[q] <= 10 * curves[2].p[q] + 5000
  BY <1>2, <1>7, <1>12, <1>13
<1> QED
  BY <1>2, <1>7, <1>9, <1>12, <1>14 DEF whole

\* The rank of plot_stress.py's pct() is at least the nearest rank.
LEMMA PctRank ==
  ASSUME NEW q \in Percentiles, NEW n \in Nat \ {0}
  PROVE  LET k == (n * q) \div 1000
             rank == (q * n) \div 1000 + 1
             at == IF rank < n THEN rank ELSE n
         IN /\ (IF k < n THEN k + 1 ELSE n) = at
            /\ at \in 1 .. n /\ Rank(q, n) <= at
<1>1. CASE q = 500
  BY <1>1 DEF Rank
<1>2. CASE q = 950
  BY <1>2 DEF Rank
<1>3. CASE q = 990
  BY <1>3 DEF Rank
<1>4. CASE q = 999
  BY <1>4 DEF Rank
<1> QED
  BY <1>1, <1>2, <1>3, <1>4 DEF Percentiles

LEMMA StressPlotHolds ==
  ASSUME LatencyInv PROVE StressPlotAgrees
<1> SUFFICES ASSUME loss # <<>> PROVE StressPlotAgrees
  BY DEF StressPlotAgrees
<1>1. curves = CurvesOut /\ loss = LossOut
  BY DEF LatencyInv, ScriptInv
<1>2. curves[1] = "curves" /\ (\A c \in Files : csv[c].header) => loss[1] = "loss"
  BY <1>1 DEF CurvesOut, LossOut
<1>3. ASSUME loss[1] = "loss", curves[1] = "curves", NEW q \in Percentiles
      PROVE  LET s == curves[2].samples
                 n == Len(s)
                 rank == (q * n) \div 1000 + 1
             IN /\ loss[2][q] = Smallest(s, IF rank < n THEN rank ELSE n)
                /\ loss[2][q] >= NearestRank(s, q)
  <2> DEFINE s == MergedUs
             n == Len(s)
             rank == (q * n) \div 1000 + 1
             at == IF rank < n THEN rank ELSE n
             k == (n * q) \div 1000
  <2>1. curves[2].samples = s /\ s # <<>> /\ loss[2][q] = pct(s, q)
    BY <1>1, <1>3 DEF CurvesOut, LossOut
  <2>2. s \in Seq(Nat) /\ Sorted(s) = s
    <3>1. 0 \in Nat
      OBVIOUS
    <3>2. Pooled(Files, "us") \in Seq(Nat)
      BY <3>1, FilesAre, PooledCounts DEF LatencyInv
    <3> QED
      BY <3>2, SequenceIsSampled, SortedTwice DEF MergedUs
  <2> HIDE DEF s
  <2>3. n \in Nat \ {0} /\ Sampled(s)
    BY <2>1, <2>2, SequenceIsSampled
  <2>4. pct(s, q) = s[IF k < n THEN k + 1 ELSE n]
    BY DEF pct
  <2>5. (IF k < n THEN k + 1 ELSE n) = at /\ at \in 1 .. n /\ Rank(q, n) <= at
    BY <2>3, PctRank
  <2> HIDE DEF at, k
  <2>6. loss[2][q] = s[at]
    BY <2>1, <2>4, <2>5
  <2>7. Smallest(s, at) = s[at]
    BY <2>2, <2>3, <2>5, SmallestIs
  <2>8. Rank(q, n) \in 1 .. n /\ NearestRank(s, q) = s[Rank(q, n)]
    BY <2>1, <2>2, NearestRankIs
  <2>9. s[Rank(q, n)] <= s[at]
    BY <2>2, <2>3, <2>5, <2>8, SortedAscending
  <2>10. s[Rank(q, n)] \in Nat /\ s[at] \in Nat
    BY <2>2, <2>5, <2>8
  <2>11. loss[2][q] = Smallest(s, at) /\ loss[2][q] >= NearestRank(s, q)
    <3> HIDE DEF n
    <3> QED
      BY <2>6, <2>7, <2>8, <2>9, <2>10
  <2> QED
    BY <2>1, <2>11 DEF at
<1> QED
  BY <1>2, <1>3 DEF StressPlotAgrees

LEMMA KeptIs ==
  ASSUME NEW a \in BOOLEAN, NEW b \in BOOLEAN
  PROVE  LET ds == {d \in {1} : a} \cup {d \in {2} : b} IN
         {d \in ds : \A x \in ds : x <= d}
           = IF b THEN {2} ELSE IF a THEN {1} ELSE {}
<1>1. CASE b
  BY <1>1
<1>2. CASE ~b /\ a
  BY <1>2
<1>3. CASE ~b /\ ~a
  BY <1>3
<1> QED
  BY <1>1, <1>2, <1>3

LEMMA ComparisonsHold ==
  ASSUME LatencyInv PROVE ComparisonsAgree
<1> SUFFICES ASSUME compared # <<>> PROVE ComparisonsAgree
  BY DEF ComparisonsAgree
<1> DEFINE Last(ds) == {d \in ds : \A x \in ds : x <= d}
<1>1. curves = CurvesOut
  BY DEF LatencyInv, ScriptInv
<1>2. PICK paths \in Paths, second \in Second : compared = ComparedOut(paths, second)
  BY DEF LatencyInv, ScriptInv
<1> DEFINE some == Senders # {}
           more == second = "samples"
           both == {d \in {1} : some} \cup {d \in {2} : more}
<1>3. /\ compared.paths = paths /\ compared.samples = WithSamples(some, second)
      /\ WithSamples(some, second) = both
  BY <1>2 DEF ComparedOut, WithSamples, Those, Second
<1>4. compared.fairness # {0} =>
        compared.fairness = IF paths # "same" THEN both ELSE Last(both)
  BY <1>2, <1>3 DEF ComparedOut, Kept
<1>5. ASSUME compared.plot # {0} PROVE compared.plot = both
  <2>1. curves[1] # "raised" /\ compared.plot = WithSamples(curves[1] = "curves", second)
    BY <1>2, <1>5 DEF ComparedOut
  <2>2. ClientsInv /\ ~\E c \in Files : csv[c].ends \in {"index", "ns"}
    BY <1>1, <2>1 DEF CurvesOut, LatencyInv
  <2>3. curves[1] = "curves" <=> MergedUs # <<>>
    BY <1>1, <2>2 DEF CurvesOut
  <2>4. Len(Pooled(Files, "us")) = Len(Pooled(Files, "rows"))
    <3>1. FALSE => \A c \in Files : csv[c].ends = "row"
      OBVIOUS
    <3>2. Rounds(Pooled(Files, "us"), Pooled(Files, "rows"), FALSE)
      BY <2>2, <3>1, ColumnsOfFiles
    <3> QED
      BY <3>2 DEF Rounds
  <2>5. Pooled(Files, "us") \in Seq(Nat) /\ Pooled(Files, "rows") \in Seq(Nat)
    <3>1. 0 \in Nat
      OBVIOUS
    <3> QED
      BY <2>2, <3>1, FilesAre, PooledCounts
  <2>6. MergedUs # <<>> <=> Senders # {}
    <3>1. MergedUs \in Seq(Nat) /\ Len(MergedUs) = Len(Pooled(Files, "us"))
      BY <2>5, SequenceIsSampled DEF MergedUs
    <3>2. Pooled(Files, "rows") = <<>> <=> Senders = {}
      BY <2>2, RowsOfSenders
    <3> QED
      BY <2>4, <2>5, <3>1, <3>2
  <2>7. (curves[1] = "curves") = some
    BY <2>3, <2>6
  <2> QED
    BY <1>3, <2>1, <2>7
<1>6. ASSUME compared.analyze # {0}
      PROVE  compared.analyze = IF paths = "distinct" THEN both ELSE Last(both)
  <2> DEFINE any == Files # {}
             other == second # "none"
             ds == {d \in {1} : any} \cup {d \in {2} : other}
             A == Analyzed(paths, second)
  <2>1. A = IF paths = "distinct" THEN ds ELSE Last(ds)
    BY DEF Analyzed, Kept, Those
  <2>2. /\ compared.analyze = A
        /\ 1 \in A => some
        /\ 2 \in A => second # "empty"
    BY <1>2, <1>6 DEF ComparedOut
  <2>3. some => any
    BY DEF Senders
  <2>4. other /\ second # "empty" <=> more
    BY DEF Second
  <2>5. /\ Last(ds) = IF other THEN {2} ELSE IF any THEN {1} ELSE {}
        /\ Last(both) = IF more THEN {2} ELSE IF some THEN {1} ELSE {}
    <3>1. any \in BOOLEAN /\ other \in BOOLEAN /\ some \in BOOLEAN /\ more \in BOOLEAN
      OBVIOUS
    <3> HIDE DEF any, other, some, more
    <3> QED
      BY <3>1, KeptIs
  <2>6. more => second # "empty" /\ other
    OBVIOUS
  <2> HIDE DEF A
  <2>7. CASE paths = "distinct"
    <3>1. A = ds
      BY <2>1, <2>7
    <3>2. (1 \in ds <=> any) /\ (2 \in ds <=> other)
      OBVIOUS
    <3>3. (any <=> some) /\ (other <=> more)
      BY <2>2, <2>3, <2>4, <2>6, <3>1, <3>2
    <3> QED
      BY <2>2, <2>7, <3>1, <3>3
  <2>8. CASE paths # "distinct"
    <3>1. A = IF other THEN {2} ELSE IF any THEN {1} ELSE {}
      BY <2>1, <2>5, <2>8
    <3>2. other => more
      BY <2>2, <2>4, <3>1
    <3>3. ~other /\ any => some
      BY <2>2, <3>1
    <3>4. A = IF more THEN {2} ELSE IF some THEN {1} ELSE {}
      BY <2>3, <2>6, <3>1, <3>2, <3>3
    <3> QED
      BY <2>2, <2>5, <2>8, <3>4
  <2> QED
    BY <2>7, <2>8
<1> HIDE DEF both
<1>7. compared.samples = both
  BY <1>3
<1> QED
  BY <1>3, <1>4, <1>5, <1>6, <1>7 DEF ComparisonsAgree

\* What five scripts make of the same files, and of two directories.
THEOREM ScriptsHold == SpecReport => []ScriptsAgree
<1>1. LatencyInv => ScriptsAgree
  BY TablesHold, PlotHolds, StressPlotHolds, ComparisonsHold DEF ScriptsAgree
<1> QED
  BY <1>1, LatencyInvariance, PTL
=============================================================================
